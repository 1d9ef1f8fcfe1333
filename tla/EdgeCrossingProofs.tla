------------------------- MODULE EdgeCrossingProofs -------------------------
(***************************************************************************)
(* Proofs about EdgeCrossing for every arrangement of displays, every size *)
(* of the Windows screen, every cooldown and every queue bound.            *)
(***************************************************************************)
EXTENDS EdgeCrossing, SequenceTheorems, WellFoundedInduction, TLAPS

-----------------------------------------------------------------------------
(* The displays.                                                            *)

Less == {ss \in Nat \X Nat : ss[1] < ss[2]}

LEMMA FirstExists ==
  ASSUME NEW T, T \subseteq Nat, T # {}
  PROVE  \E i \in T : \A j \in T : i <= j
<1>1. IsWellFoundedOn(Less, Nat)
  BY NatLessThanWellFounded, Zenon DEF Less, OpToRel
<1>2. PICK i \in T : \A j \in T : ~(<<j, i>> \in Less)
  BY <1>1, WFMin, Zenon
<1>3. \A j \in T : ~(j < i)
  BY <1>2 DEF Less
<1> QED
  BY <1>3

IsDisplay(d) == \E i \in DOMAIN Displays : d = Displays[i]

LEMMA DisplaysAreIndexed ==
  /\ DOMAIN Displays \subseteq Nat
  /\ \A i \in DOMAIN Displays : Displays[i] \in Display
<1>1. Displays \in Seq(Display)
  BY GeometryAssumption DEF GeometryAssumption
<1>2. Len(Displays) \in Nat /\ DOMAIN Displays = 1 .. Len(Displays)
  BY <1>1
<1> QED
  BY <1>1, <1>2, ElementOfSeq

LEMMA DisplayType ==
  ASSUME NEW d, IsDisplay(d)
  PROVE  d.x \in Int /\ d.y \in Int /\ d.w \in Nat \ {0} /\ d.h \in Nat \ {0}
         /\ Right(d) \in Int
<1>1. d \in Display
  BY DisplaysAreIndexed DEF IsDisplay
<1> QED
  BY <1>1 DEF Display, Right

\* The sizes, without the displays.
Sizes ==
  /\ WinW \in Nat \ {0} /\ WinH \in Nat \ {0} /\ Cooldown \in Nat \ {0}
  /\ Inset \in Nat \ {0} /\ SafeX \in Nat /\ Inset <= SafeX /\ SafeX < WinW
  /\ BackWarp \in Nat /\ MaxTap \in Nat /\ MaxOut \in Nat

LEMMA SizesHold == Sizes
  BY GeometryAssumption DEF GeometryAssumption, Sizes

LEMMA StepType ==
  ASSUME NEW d \in Steps
  PROVE  d.dx \in Int /\ d.dy \in Int
<1>1. d \in [dx : Int, dy : Int]
  BY GeometryAssumption DEF GeometryAssumption
<1> QED
  BY <1>1

LEMMA Sent ==
  ASSUME NEW S, NEW s \in Seq(S), NEW m \in S
  PROVE  Append(s, m) \in Seq(S)
  OBVIOUS

LEMMA Received ==
  ASSUME NEW S, NEW s \in Seq(S), s # <<>>
  PROVE  Head(s) \in S /\ Tail(s) \in Seq(S)
  OBVIOUS

\* display_containing finds a display, and one that holds the point.
LEMMA HomeIsADisplay ==
  ASSUME NEW p \in Point, OnSome(p)
  PROVE  IsDisplay(HomeOf(p)) /\ Contains(HomeOf(p), p)
<1> DEFINE on == {i \in DOMAIN Displays : Contains(Displays[i], p)}
           first == CHOOSE i \in on : \A j \in on : i <= j
<1>1. on \subseteq Nat /\ on # {}
  BY DisplaysAreIndexed DEF OnSome
<1>2. \E i \in on : \A j \in on : i <= j
  <2> HIDE DEF on
  <2> QED BY <1>1, FirstExists
<1>3. first \in on
  BY <1>2
<1>4. HomeOf(p) = Displays[first]
  BY DEF HomeOf
<1> QED
  BY <1>3, <1>4 DEF IsDisplay

\* A point moved into a display is on it.
LEMMA IntoIsOn ==
  ASSUME NEW d, IsDisplay(d), NEW p \in Point
  PROVE  Into(d, p) \in Point /\ OnSome(Into(d, p))
<1>1. d.x \in Int /\ d.y \in Int /\ d.w \in Nat \ {0} /\ d.h \in Nat \ {0}
  BY DisplayType
<1>2. Into(d, p) \in Point /\ Contains(d, Into(d, p))
  BY <1>1 DEF Into, Within, Contains, Right, Point
<1> QED
  BY <1>2 DEF OnSome, IsDisplay

LEMMA PlacesAreOn ==
  ASSUME NEW p \in Point, NEW q \in Places(p)
  PROVE  q \in Point /\ OnSome(q)
<1>1. CASE OnSome(p)
  BY <1>1 DEF Places
<1>2. CASE ~OnSome(p)
  BY <1>2, IntoIsOn DEF Places, IsDisplay
<1> QED
  BY <1>1, <1>2

LEMMA GlobalRightType == GlobalRight \in Int
<1>1. PICK i \in DOMAIN Displays : \A j \in DOMAIN Displays : Right(Displays[i]) >= Right(Displays[j])
  BY GeometryAssumption DEF GeometryAssumption
<1>2. \E r \in {Right(Displays[k]) : k \in DOMAIN Displays} :
        \A k \in DOMAIN Displays : r >= Right(Displays[k])
  BY <1>1
<1>3. GlobalRight \in {Right(Displays[k]) : k \in DOMAIN Displays}
  BY <1>2 DEF GlobalRight
<1> QED
  BY <1>3, DisplayType DEF IsDisplay

-----------------------------------------------------------------------------
(* Types.                                                                   *)

LEMMA TypesHoldAtFirst == Init => TypeOK
<1> SUFFICES ASSUME Init PROVE TypeOK
  OBVIOUS
<1> USE SizesHold DEF Sizes, Init
<1>1. mac \in Point /\ OnSome(mac)
  <2>1. PICK i \in DOMAIN Displays : mac = [x |-> Displays[i].x, y |-> Displays[i].y]
    OBVIOUS
  <2>2. IsDisplay(Displays[i])
    BY DEF IsDisplay
  <2>3. mac \in Point /\ Contains(Displays[i], mac)
    BY <2>1, <2>2, DisplayType DEF Point, Contains, Right
  <2> QED
    BY <2>3 DEF OnSome
<1>2. home \in Int
  BY GlobalRightType
<1>3. win \in [x : 0 .. WinW - 1, y : 0 .. WinH - 1]
  OBVIOUS
<1>4. age \in 0 .. Cooldown /\ backAge \in 0 .. Cooldown /\ travel \in 0 .. Inset
  OBVIOUS
<1>5. /\ tapQ \in Seq(TapEvent) /\ todo \in Seq(Action)
      /\ toClient \in Seq(ClientFrame) /\ toServer \in Seq(Release)
  OBVIOUS
<1> QED
  BY <1>1, <1>2, <1>3, <1>4, <1>5
  DEF TypeOK, MacTypes, BrainTypes, ClientTypes, ChannelTypes

LEMMA CrossingType ==
  ASSUME NEW p \in Point, NEW right \in Int
  PROVE  Crossing(right, p.y) \in Seq(Action)
<1>1. p.y \in Int
  BY DEF Point
<1>2. Within(0, 65535, p.y) \in Nat
  BY <1>1 DEF Within
<1>3. right - BackWarp \in Int
  BY SizesHold DEF Sizes
<1>4. /\ Take(Within(0, 65535, p.y)) \in Action /\ Hide \in Action
      /\ Warp([x |-> right - BackWarp, y |-> p.y]) \in Action
  BY <1>1, <1>2, <1>3 DEF Take, Hide, Warp, Action, Point
<1> QED
  BY <1>1, <1>4 DEF Crossing

LEMMA ReturnType ==
  ASSUME home \in Int, NEW y \in Int
  PROVE  Return(y) \in Seq(Action)
<1>1. Show \in Action /\ Warp([x |-> home - 1, y |-> y]) \in Action
  BY DEF Show, Warp, Action, Point
<1> QED
  BY <1>1 DEF Return

LEMMA MacTypesStutter == MacTypes /\ UNCHANGED <<macVars, tapQ>> => MacTypes'
  BY DEF MacTypes, macVars, OnSome

LEMMA BrainTypesStutter ==
  BrainTypes /\ UNCHANGED <<brainVars, late, backAge>> => BrainTypes'
  BY DEF BrainTypes, brainVars

LEMMA ClientTypesStutter == ClientTypes /\ UNCHANGED cliVars => ClientTypes'
  BY DEF ClientTypes, cliVars

LEMMA ChannelTypesStutter ==
  ChannelTypes /\ UNCHANGED <<watcher, toClient, toServer>> => ChannelTypes'
  BY DEF ChannelTypes

LEMMA MacTypesPreserved == TypeOK /\ [Next]_vars => MacTypes'
<1> SUFFICES ASSUME TypeOK, [Next]_vars PROVE MacTypes'
  OBVIOUS
<1> USE DEF TypeOK
<1>1. CASE UserMoves
  <2>1. PICK d \in Steps :
          LET p == [x |-> mac.x + d.dx, y |-> mac.y + d.dy]
              to == IF OnSome(p) THEN p ELSE Into(HomeOf(mac), p)
          IN  /\ mac' = IF coupled THEN to ELSE mac
              /\ tapQ' = tapQ \o <<[type |-> "Rel", d |-> d], [type |-> "At", p |-> mac']>>
    BY <1>1 DEF UserMoves
  <2> DEFINE p == [x |-> mac.x + d.dx, y |-> mac.y + d.dy]
  <2>2. p \in Point
    BY StepType DEF MacTypes, Point
  <2>3. IsDisplay(HomeOf(mac))
    BY HomeIsADisplay DEF MacTypes
  <2>4. mac' \in Point /\ OnSome(mac')
    BY <2>1, <2>2, <2>3, IntoIsOn DEF MacTypes
  <2>5. [type |-> "Rel", d |-> d] \in TapEvent /\ [type |-> "At", p |-> mac'] \in TapEvent
    BY <2>4 DEF TapEvent, Motion
  <2>6. tapQ' \in Seq(TapEvent)
    BY <2>1, <2>5 DEF MacTypes
  <2> QED
    BY <1>1, <2>4, <2>6 DEF UserMoves, MacTypes, OnSome
<1>2. CASE BrainTakesSource
  BY <1>2, Received DEF BrainTakesSource, MacTypes, macVars, OnSome
<1>3. CASE Execute
  <2>1. Head(todo) \in Action
    BY <1>3, Received DEF Execute, BrainTypes
  <2>2. \/ mac' = mac
        \/ Head(todo).type = "Warp" /\ mac' \in Places(Head(todo).p)
    BY <1>3 DEF Execute, macVars
  <2>3. Head(todo).type = "Warp" => Head(todo).p \in Point
    BY <2>1 DEF Action
  <2>4. mac' \in Point /\ OnSome(mac')
    BY <2>2, <2>3, PlacesAreOn DEF MacTypes
  <2>5. coupled' \in BOOLEAN /\ hidden' \in BOOLEAN /\ tapQ' = tapQ
    BY <1>3 DEF Execute, MacTypes, macVars
  <2> QED
    BY <2>4, <2>5 DEF MacTypes, OnSome
<1>4. CASE \/ BrainTakesRelease \/ ClientTakesControl \/ ClientActivates \/ ClientMoves
           \/ WatcherPolls \/ WatcherDisarms \/ Tick \/ UNCHANGED vars
  <2>1. UNCHANGED <<macVars, tapQ>>
    BY <1>4
    DEF BrainTakesRelease, ClientTakesControl, ClientActivates, ClientMoves,
        WatcherPolls, WatcherDisarms, Tick, vars
  <2> QED
    BY <2>1, MacTypesStutter
<1> QED
  BY <1>1, <1>2, <1>3, <1>4 DEF Next

LEMMA BrainTypesPreserved == TypeOK /\ [Next]_vars => BrainTypes'
<1> SUFFICES ASSUME TypeOK, [Next]_vars PROVE BrainTypes'
  OBVIOUS
<1> USE SizesHold DEF Sizes, TypeOK
<1>1. CASE BrainTakesSource
  <2> DEFINE ev == Head(tapQ)
  <2>1. ev \in TapEvent
    BY <1>1, Received DEF BrainTakesSource, MacTypes
  <2>2. ev.type = "At" => ev.p \in Point
    BY <2>1 DEF TapEvent, Motion
  <2>3. home' \in Int
    <3>1. ev.type = "At" /\ AtRightEdge(ev.p) => Right(HomeOf(ev.p)) \in Int
      BY <2>2, HomeIsADisplay, DisplayType DEF AtRightEdge
    <3> QED
      BY <1>1, <3>1 DEF BrainTakesSource, BrainTypes
  <2>4. sm' \in {"LocalActive", "RemoteActive"} /\ todo' \in Seq(Action)
    <3>1. ev.type = "At" => Crossing(home', ev.p.y) \in Seq(Action)
      BY <2>2, <2>3, CrossingType
    <3> QED
      BY <1>1, <3>1 DEF BrainTakesSource, BrainTypes
  <2>5. age' \in 0 .. Cooldown
    BY <1>1 DEF BrainTakesSource, BrainTypes
  <2>6. stamped' \in BOOLEAN
    BY <1>1, Zenon DEF BrainTakesSource, BrainTypes
  <2>7. UNCHANGED <<late, backAge>>
    BY <1>1 DEF BrainTakesSource
  <2> QED
    BY <2>3, <2>4, <2>5, <2>6, <2>7 DEF BrainTypes
<1>2. CASE BrainTakesRelease
  <2>1. Head(toServer) \in Release
    BY <1>2, Received DEF BrainTakesRelease, ChannelTypes
  <2>2. Head(toServer).y \in Int
    BY <2>1 DEF Release
  <2>3. Return(Head(toServer).y) \in Seq(Action)
    BY <2>2, ReturnType DEF BrainTypes
  <2> QED
    <3>1. /\ home' \in Int /\ sm' \in {"LocalActive", "RemoteActive"} /\ todo' \in Seq(Action)
          /\ age' \in 0 .. Cooldown /\ backAge' \in 0 .. Cooldown
      <4>1. CASE sm = "RemoteActive"
        <5>1. /\ home' = home /\ sm' = "LocalActive" /\ age' = 0 /\ backAge' = 0
              /\ todo' = Return(Head(toServer).y)
          BY <1>2, <4>1, Zenon DEF BrainTakesRelease
        <5> QED
          BY <2>3, <5>1 DEF BrainTypes
      <4>2. CASE sm # "RemoteActive"
        <5>1. UNCHANGED <<brainVars, backAge>>
          BY <1>2, <4>2, Zenon DEF BrainTakesRelease
        <5> QED
          BY <5>1 DEF BrainTypes, brainVars
      <4> QED
        BY <4>1, <4>2
    <3>2. stamped' \in BOOLEAN /\ late' \in BOOLEAN
      BY <1>2, Zenon DEF BrainTakesRelease, BrainTypes, brainVars
    <3> QED
      BY <3>1, <3>2 DEF BrainTypes
<1>3. CASE Execute
  BY <1>3, Received DEF Execute, BrainTypes
<1>4. CASE Tick
  BY <1>4 DEF Tick, BrainTypes, Min2
<1>5. CASE \/ UserMoves \/ ClientTakesControl \/ ClientActivates \/ ClientMoves
           \/ WatcherPolls \/ WatcherDisarms \/ UNCHANGED vars
  <2>1. UNCHANGED <<brainVars, late, backAge>>
    BY <1>5
    DEF UserMoves, ClientTakesControl, ClientActivates, ClientMoves,
        WatcherPolls, WatcherDisarms, vars
  <2> QED
    BY <2>1, BrainTypesStutter
<1> QED
  BY <1>1, <1>2, <1>3, <1>4, <1>5 DEF Next

LEMMA ClientTypesPreserved == TypeOK /\ [Next]_vars => ClientTypes'
<1> SUFFICES ASSUME TypeOK, [Next]_vars PROVE ClientTypes'
  OBVIOUS
<1> USE SizesHold DEF Sizes, TypeOK
<1>1. CASE ClientTakesControl
  <2>1. Head(toClient) \in ClientFrame
    BY <1>1, Received DEF ClientTakesControl, ChannelTypes
  <2>2. Head(toClient).y \in Int
    BY <1>1, <2>1 DEF ClientTakesControl, ClientFrame, Motion
  <2>3. Within(0, WinH - 1, Head(toClient).y) \in 0 .. WinH - 1
    BY <2>2 DEF Within
  <2> QED
    BY <1>1, <2>3 DEF ClientTakesControl, ClientTypes
<1>2. CASE ClientMoves
  <2> DEFINE d == Head(toClient).d
             x == Within(0, WinW - 1, win.x + d.dx)
             y == Within(0, WinH - 1, win.y + d.dy)
  <2>1. Head(toClient) \in ClientFrame
    BY <1>2, Received DEF ClientMoves, ChannelTypes
  <2>2. d \in Steps
    BY <1>2, <2>1 DEF ClientMoves, ClientFrame, Motion
  <2>3. win.x \in Int /\ win.y \in Int /\ d.dx \in Int /\ d.dy \in Int
    BY <2>2, StepType DEF ClientTypes
  <2>4. x \in 0 .. WinW - 1 /\ y \in 0 .. WinH - 1
    BY <2>3 DEF Within
  <2>5. travel' = (IF x < win.x THEN Min2(Inset, travel + win.x - x) ELSE travel)
        /\ win' = [x |-> x, y |-> y] /\ UNCHANGED <<active, injector>>
    BY <1>2 DEF ClientMoves
  <2> HIDE DEF x, y
  <2>6. travel' \in 0 .. Inset
    BY <2>3, <2>4, <2>5 DEF ClientTypes, Min2
  <2> QED
    BY <2>4, <2>5, <2>6 DEF ClientTypes
<1>3. CASE ClientActivates
  BY <1>3 DEF ClientActivates, ClientTypes
<1>4. CASE WatcherDisarms
  <2>1. win.y \in 0 .. WinH - 1 /\ SafeX \in 0 .. WinW - 1
    BY DEF ClientTypes
  <2>2. win' \in [x : 0 .. WinW - 1, y : 0 .. WinH - 1]
    BY <1>4, <2>1 DEF WatcherDisarms
  <2> QED
    BY <1>4, <2>2 DEF WatcherDisarms, ClientTypes
<1>5. CASE \/ UserMoves \/ BrainTakesSource \/ BrainTakesRelease \/ Execute
           \/ WatcherPolls \/ Tick \/ UNCHANGED vars
  <2>1. UNCHANGED cliVars
    BY <1>5
    DEF UserMoves, BrainTakesSource, BrainTakesRelease, Execute, WatcherPolls, Tick, vars
  <2> QED
    BY <2>1, ClientTypesStutter
<1> QED
  BY <1>1, <1>2, <1>3, <1>4, <1>5 DEF Next

LEMMA ChannelTypesPreserved == TypeOK /\ [Next]_vars => ChannelTypes'
<1> SUFFICES ASSUME TypeOK, [Next]_vars PROVE ChannelTypes'
  OBVIOUS
<1> USE DEF TypeOK
<1>1. CASE BrainTakesSource
  <2>1. Head(tapQ) \in TapEvent
    BY <1>1, Received DEF BrainTakesSource, MacTypes
  <2>2. Head(tapQ).type = "Rel" => Head(tapQ) \in ClientFrame
    BY <2>1 DEF TapEvent, ClientFrame
  <2> QED
    BY <1>1, <2>2, Sent DEF BrainTakesSource, ChannelTypes
<1>2. CASE Execute
  <2>1. Head(todo) \in Action
    BY <1>2, Received DEF Execute, BrainTypes
  <2>2. Head(todo).type = "Take" => Head(todo) \in ClientFrame
    BY <2>1 DEF Action, ClientFrame
  <2> QED
    BY <1>2, <2>2, Sent DEF Execute, ChannelTypes
<1>3. CASE BrainTakesRelease
  BY <1>3, Received DEF BrainTakesRelease, ChannelTypes
<1>4. CASE ClientTakesControl \/ ClientMoves
  BY <1>4, Received DEF ClientTakesControl, ClientMoves, ChannelTypes
<1>5. CASE WatcherPolls
  <2>1. [type |-> "Release", y |-> win.y] \in Release
    BY DEF ClientTypes, Release
  <2> QED
    BY <1>5, <2>1, Sent DEF WatcherPolls, ChannelTypes
<1>6. CASE WatcherDisarms \/ Tick
  BY <1>6 DEF WatcherDisarms, Tick, ChannelTypes
<1>7. CASE UserMoves \/ ClientActivates \/ UNCHANGED vars
  <2>1. UNCHANGED <<watcher, toClient, toServer>>
    BY <1>7 DEF UserMoves, ClientActivates, vars
  <2> QED
    BY <2>1, ChannelTypesStutter
<1> QED
  BY <1>1, <1>2, <1>3, <1>4, <1>5, <1>6, <1>7 DEF Next

LEMMA TypesArePreserved == TypeOK /\ [Next]_vars => TypeOK'
  BY MacTypesPreserved, BrainTypesPreserved, ClientTypesPreserved, ChannelTypesPreserved
  DEF TypeOK

\* Every variable keeps its type: the Mac's cursor never leaves the displays,
\* however often it is warped, and the Windows one never leaves its screen.
THEOREM TypeCorrect == Spec => []TypeOK
  BY TypesHoldAtFirst, TypesArePreserved, PTL DEF Spec

-----------------------------------------------------------------------------
(* The cooldown.                                                            *)

\* A return can only come when the clock has moved on, so that it is stamped;
\* and the brain's clock is never ahead of the time since the return.
CooldownInv ==
  /\ watcher # "idle" \/ toServer # <<>> => late
  /\ sm = "LocalActive" => backAge = Cooldown \/ (stamped /\ age <= backAge)

LEMMA CooldownAtFirst == Init => CooldownInv
  BY DEF Init, CooldownInv

LEMMA CooldownPreserved == TypeOK /\ CooldownInv /\ [Next]_vars => CooldownInv'
<1> SUFFICES ASSUME TypeOK, CooldownInv, [Next]_vars PROVE CooldownInv'
  OBVIOUS
<1> USE SizesHold DEF Sizes, CooldownInv
<1>1. CASE BrainTakesSource
  BY <1>1 DEF BrainTakesSource, TypeOK, BrainTypes
<1>2. CASE BrainTakesRelease
  <2>1. late /\ late' = late /\ watcher' = watcher
    BY <1>2 DEF BrainTakesRelease
  <2>2. CASE sm = "RemoteActive"
    <3>1. stamped' = late /\ age' = 0 /\ backAge' = 0
      BY <1>2, <2>2, Zenon DEF BrainTakesRelease
    <3> QED
      BY <2>1, <3>1
  <2>3. CASE sm # "RemoteActive"
    <3>1. UNCHANGED <<brainVars, backAge>>
      BY <1>2, <2>3, Zenon DEF BrainTakesRelease
    <3> QED
      BY <2>1, <3>1 DEF brainVars
  <2> QED
    BY <2>2, <2>3
<1>3. CASE WatcherPolls
  BY <1>3 DEF WatcherPolls, brainVars
<1>4. CASE Tick
  BY <1>4 DEF Tick, TypeOK, BrainTypes, Min2
<1>5. CASE \/ UserMoves \/ Execute \/ ClientTakesControl \/ ClientActivates \/ ClientMoves
           \/ WatcherDisarms \/ UNCHANGED vars
  <2>1. /\ UNCHANGED <<late, sm, age, stamped, backAge, toServer>>
        /\ watcher' = watcher \/ watcher' = "idle"
    BY <1>5
    DEF UserMoves, Execute, ClientTakesControl, ClientActivates, ClientMoves,
        WatcherDisarms, vars, brainVars
  <2> QED
    BY <2>1
<1> QED
  BY <1>1, <1>2, <1>3, <1>4, <1>5 DEF Next

LEMMA CrossingWaits ==
  TypeOK /\ CooldownInv /\ [Next]_vars
    => (sm = "LocalActive" /\ sm' = "RemoteActive" => backAge >= Cooldown)
<1> SUFFICES ASSUME TypeOK, CooldownInv, [Next]_vars, sm = "LocalActive", sm' = "RemoteActive"
             PROVE  backAge >= Cooldown
  OBVIOUS
<1>1. BrainTakesSource
  BY DEF Next, vars, UserMoves, BrainTakesRelease, Execute, ClientTakesControl,
         ClientActivates, ClientMoves, WatcherPolls, WatcherDisarms, Tick, brainVars
<1>2. ~stamped \/ age >= Cooldown
  BY <1>1 DEF BrainTakesSource, CooldownElapsed
<1> QED
  BY <1>2, SizesHold DEF Sizes, CooldownInv, TypeOK, BrainTypes

\* Control does not go to Windows again within thrash_cooldown of its return,
\* for every cooldown and every geometry: no return is ever stamped with the
\* zero that stands for "never" in last_transition_ms.
THEOREM CooldownRespected == Spec => CooldownHolds
<1>1. TypeOK /\ CooldownInv /\ [Next]_vars
        => [sm = "LocalActive" /\ sm' = "RemoteActive" => backAge >= Cooldown]_vars
  BY CrossingWaits
<1> QED
  BY <1>1, CooldownAtFirst, CooldownPreserved, TypesHoldAtFirst, TypesArePreserved, PTL
  DEF Spec, CooldownHolds

-----------------------------------------------------------------------------
(* The point of entry.                                                      *)

\* While the client drives, or is about to, the cursor is as far from the left
\* edge as it was put, less what the hand has moved it to the left.
EntryInv ==
  active \/ injector = "warped" => travel = Inset \/ win.x + travel >= Inset

LEMMA EntryAtFirst == Init => EntryInv
  BY DEF Init, EntryInv

LEMMA EntryPreserved == TypeOK /\ EntryInv /\ [Next]_vars => EntryInv'
<1> SUFFICES ASSUME TypeOK, EntryInv, [Next]_vars PROVE EntryInv'
  OBVIOUS
<1> USE SizesHold DEF Sizes, EntryInv
<1>1. CASE ClientTakesControl
  BY <1>1 DEF ClientTakesControl
<1>2. CASE ClientMoves
  <2> DEFINE x == Within(0, WinW - 1, win.x + Head(toClient).d.dx)
  <2>1. Head(toClient) \in ClientFrame
    BY <1>2, Received DEF ClientMoves, TypeOK, ChannelTypes
  <2>2. Head(toClient).d \in Steps
    BY <1>2, <2>1 DEF ClientMoves, ClientFrame, Motion
  <2>3. x \in Nat /\ win.x \in Nat /\ travel \in 0 .. Inset
    BY <2>2, StepType DEF Within, TypeOK, ClientTypes
  <2>4. /\ travel' = (IF x < win.x THEN Min2(Inset, travel + win.x - x) ELSE travel)
        /\ win'.x = x /\ active' = active /\ injector' = injector
    BY <1>2 DEF ClientMoves
  <2> HIDE DEF x
  <2> QED
    BY <2>3, <2>4 DEF Min2
<1>3. CASE ClientActivates
  BY <1>3 DEF ClientActivates
<1>4. CASE WatcherDisarms
  BY <1>4 DEF WatcherDisarms, TypeOK, ClientTypes
<1>5. CASE \/ UserMoves \/ BrainTakesSource \/ BrainTakesRelease \/ Execute
           \/ WatcherPolls \/ Tick \/ UNCHANGED vars
  <2>1. UNCHANGED cliVars
    BY <1>5
    DEF UserMoves, BrainTakesSource, BrainTakesRelease, Execute, WatcherPolls, Tick, vars
  <2> QED
    BY <2>1 DEF cliVars
<1> QED
  BY <1>1, <1>2, <1>3, <1>4, <1>5 DEF Next

LEMMA ReleaseNeedsTravel ==
  TypeOK /\ EntryInv /\ [Next]_vars
    => (Len(toServer') > Len(toServer) => travel >= Inset)
<1> SUFFICES ASSUME TypeOK, EntryInv, [Next]_vars, Len(toServer') > Len(toServer)
             PROVE  travel >= Inset
  OBVIOUS
<1>1. Len(toServer) \in Nat
  BY DEF TypeOK, ChannelTypes
<1>2. toServer' # toServer
  BY <1>1
<1>3. ~BrainTakesRelease
  <2> SUFFICES ASSUME BrainTakesRelease PROVE FALSE
    OBVIOUS
  <2>1. Len(toServer') = Len(toServer) - 1
    BY DEF BrainTakesRelease, TypeOK, ChannelTypes
  <2> QED
    BY <1>1, <2>1
<1>4. active /\ win.x <= 0
  BY <1>2, <1>3
  DEF Next, vars, UserMoves, BrainTakesSource, Execute, ClientTakesControl,
      ClientActivates, ClientMoves, WatcherPolls, WatcherDisarms, Tick
<1> QED
  BY <1>4, SizesHold DEF Sizes, EntryInv, TypeOK, ClientTypes

\* For every inset and every place the cursor is parked at, control is given
\* back only after the hand has moved the cursor back over the inset.
THEOREM EntryIsSteady == Spec => EntryDoesNotBounce
<1>1. TypeOK /\ EntryInv /\ [Next]_vars
        => [Len(toServer') > Len(toServer) => travel >= Inset]_vars
  BY ReleaseNeedsTravel
<1> QED
  BY <1>1, EntryAtFirst, EntryPreserved, TypesHoldAtFirst, TypesArePreserved, PTL
  DEF Spec, EntryDoesNotBounce

-----------------------------------------------------------------------------
(* The Mac's cursor.                                                        *)

\* What the brain still has to do ends in Hide on the way out; on the way
\* back it is Show and Warp, or Warp alone once the cursor is shown.
CursorInv ==
  /\ CursorFrozenWhileRemote
  /\ sm = "RemoteActive" /\ todo # <<>> => todo[Len(todo)].type = "Hide"
  /\ sm = "LocalActive" /\ todo # <<>> =>
       \/ Len(todo) = 2 /\ todo[1].type = "Show" /\ todo[2].type = "Warp"
       \/ Len(todo) = 1 /\ todo[1].type = "Warp" /\ ~hidden

LEMMA CursorAtFirst == Init => CursorInv
  BY DEF Init, CursorInv, CursorFrozenWhileRemote

LEMMA CursorStutter ==
  CursorInv /\ UNCHANGED <<todo, sm, coupled, hidden>> => CursorInv'
  BY DEF CursorInv, CursorFrozenWhileRemote

LEMMA CursorPreserved == TypeOK /\ CursorInv /\ [Next]_vars => CursorInv'
<1> SUFFICES ASSUME TypeOK, CursorInv, [Next]_vars PROVE CursorInv'
  OBVIOUS
<1>1. CASE BrainTakesSource
  <2>1. CASE UNCHANGED <<todo, sm>>
    BY <1>1, <2>1, CursorStutter DEF BrainTakesSource, macVars
  <2>2. CASE ~UNCHANGED <<todo, sm>>
    <3>1. PICK right, y : sm' = "RemoteActive" /\ todo' = Crossing(right, y)
      BY <1>1, <2>2 DEF BrainTakesSource
    <3>2. todo' # <<>> /\ Len(todo') = 3 /\ todo'[3].type = "Hide"
      BY <3>1 DEF Crossing, Hide
    <3> QED
      BY <3>1, <3>2 DEF CursorInv, CursorFrozenWhileRemote
  <2> QED
    BY <2>1, <2>2
<1>2. CASE BrainTakesRelease
  <2>1. CASE UNCHANGED <<todo, sm>>
    BY <1>2, <2>1, CursorStutter DEF BrainTakesRelease, macVars
  <2>2. CASE ~UNCHANGED <<todo, sm>>
    <3>1. PICK y : sm' = "LocalActive" /\ todo' = Return(y)
      BY <1>2, <2>2 DEF BrainTakesRelease, brainVars
    <3>2. todo' # <<>> /\ Len(todo') = 2 /\ todo'[1].type = "Show" /\ todo'[2].type = "Warp"
      BY <3>1 DEF Return, Show, Warp
    <3> QED
      BY <3>1, <3>2 DEF CursorInv, CursorFrozenWhileRemote
  <2> QED
    BY <2>1, <2>2
<1>3. CASE Execute
  <2>1. /\ todo # <<>> /\ todo \in Seq(Action) /\ todo' = Tail(todo) /\ sm' = sm
        /\ sm \in {"LocalActive", "RemoteActive"}
    BY <1>3 DEF Execute, TypeOK, BrainTypes
  <2>2. /\ Len(todo) \in Nat \ {0} /\ Len(todo') = Len(todo) - 1 /\ Head(todo) = todo[1]
        /\ todo' # <<>> => todo'[Len(todo')] = todo[Len(todo)] /\ todo'[1] = todo[2]
        /\ todo' = <<>> <=> Len(todo) = 1
    <3>1. /\ Len(todo) \in Nat \ {0} /\ Head(todo) = todo[1] /\ todo' \in Seq(Action)
          /\ Len(todo') = Len(todo) - 1
          /\ \A i \in 1 .. Len(todo) - 1 : todo'[i] = todo[i + 1]
      BY <2>1
    <3>2. todo' = <<>> <=> Len(todo) = 1
      BY <3>1
    <3>3. todo' # <<>> => Len(todo) - 1 \in 1 .. Len(todo) - 1 /\ 1 \in 1 .. Len(todo) - 1
      BY <3>1, <3>2
    <3> QED
      BY <3>1, <3>2, <3>3
  <2>3. Head(todo).type = "Hide" => hidden' = TRUE /\ coupled' = FALSE
    BY <1>3 DEF Execute
  <2>4. Head(todo).type = "Show" => hidden' = FALSE
    BY <1>3 DEF Execute
  <2>5. Head(todo).type = "Warp" => coupled' = TRUE /\ hidden' = hidden
    BY <1>3 DEF Execute
  <2>6. CASE sm = "RemoteActive"
    BY <2>1, <2>2, <2>3, <2>6 DEF CursorInv, CursorFrozenWhileRemote
  <2>7. CASE sm = "LocalActive"
    BY <2>1, <2>2, <2>4, <2>5, <2>7 DEF CursorInv, CursorFrozenWhileRemote
  <2> QED
    BY <2>1, <2>6, <2>7
<1>4. CASE \/ UserMoves \/ ClientTakesControl \/ ClientActivates \/ ClientMoves
           \/ WatcherPolls \/ WatcherDisarms \/ Tick \/ UNCHANGED vars
  <2>1. UNCHANGED <<todo, sm, coupled, hidden>>
    BY <1>4
    DEF UserMoves, ClientTakesControl, ClientActivates, ClientMoves, WatcherPolls,
        WatcherDisarms, Tick, vars, brainVars, macVars
  <2> QED
    BY <2>1, CursorStutter
<1> QED
  BY <1>1, <1>2, <1>3, <1>4 DEF Next

\* Whatever the displays: once the brain has done what a transition asks, the
\* Mac's cursor is hidden and detached exactly while Windows is driven.
THEOREM CursorFollowsControl == Spec => []CursorFrozenWhileRemote
<1>1. CursorInv => CursorFrozenWhileRemote
  BY DEF CursorInv
<1> QED
  BY <1>1, CursorAtFirst, CursorPreserved, TypesHoldAtFirst, TypesArePreserved, PTL DEF Spec

=============================================================================
