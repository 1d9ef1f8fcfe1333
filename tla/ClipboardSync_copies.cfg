SPECIFICATION FairSpec
CONSTANTS
  t1 = t1
  t2 = t2
  t3 = t3
  Garbled = Garbled
  Nothing = Nothing
  Texts <- MCThreeTexts
  Size <- MCThreeSizes
  OutCap = 2
  InCap = 1
  EventCap = 1
  MaxNews = 2
  MaxCopies = 3
INVARIANTS
  TypeOK
  TornNeverPasted
  SerialFreshCopiesSync
PROPERTY
  SerialCopiesQuiesce
