SPECIFICATION FairSpec
CONSTANTS
  t1 = t1
  t2 = t2
  t3 = t3
  Garbled = Garbled
  Nothing = Nothing
  Texts <- MCTexts
  Size <- MCSizes
  OutCap = 2
  InCap = 2
  EventCap = 2
  MaxNews = 2
  MaxCopies = 2
PROPERTY
  Quiesces
