------------------------ MODULE InputSessionProofs ------------------------
(*************************************************************************)
(* Proofs about InputSession, for every keyboard, every remapping and    *)
(* all channel capacities: types, what the guard releases, that control  *)
(* is one token (ControlToken), and that the session implements the      *)
(* hand-over of control: seen through Owner every step of every task is  *)
(* a step of ControlHandoff or none.                                     *)
(*************************************************************************)
EXTENDS InputSession, SequenceTheorems, TLAPS

LEMMA TypeInit == Init => TypeOK
<1> SUFFICES ASSUME Init PROVE TypeOK
  OBVIOUS
<1>1. /\ tapQ \in Seq(TapMsg) /\ Len(tapQ) <= MaxTap
      /\ brainQ \in Seq(BrainMsg) /\ Len(brainQ) <= BrainCap
      /\ toClient \in Seq(OutMsg) /\ Len(toClient) <= OutCap
      /\ toServer \in Seq(BackMsg) /\ Len(toServer) <= BackCap
  BY ConstantsAssumption DEF ConstantsAssumption, Init
<1> QED
  BY <1>1 DEF Init, TypeOK

\* What a channel holds after a send or a receive stays within its type and
\* its capacity.
LEMMA SendType ==
  ASSUME NEW S, NEW s \in Seq(S), NEW m \in S, NEW cap \in Nat, Len(s) < cap
  PROVE  Append(s, m) \in Seq(S) /\ Len(Append(s, m)) <= cap
  OBVIOUS

\* The same for a send that is dropped when the channel is full.
LEMMA OfferType ==
  ASSUME NEW S, NEW s \in Seq(S), NEW m \in S, NEW cap \in Nat, Len(s) <= cap,
         NEW t, t = s \/ (Len(s) < cap /\ t = Append(s, m))
  PROVE  t \in Seq(S) /\ Len(t) <= cap
<1>1. CASE t = s
  BY <1>1
<1>2. CASE Len(s) < cap /\ t = Append(s, m)
  BY <1>2, SendType
<1> QED
  BY <1>1, <1>2

LEMMA ReceiveType ==
  ASSUME NEW S, NEW s \in Seq(S), s # <<>>, NEW cap \in Nat, Len(s) <= cap
  PROVE  /\ Head(s) \in S
         /\ Tail(s) \in Seq(S) /\ Len(Tail(s)) <= cap
  OBVIOUS

LEMMA PrefixType ==
  ASSUME NEW S, NEW s \in Seq(S), NEW t \in Prefixes(s), NEW cap \in Nat,
         Len(s) <= cap
  PROVE  t \in Seq(S) /\ Len(t) <= cap
  BY DEF Prefixes

\* What enqueue does to its channel and its history.
LEMMA EnqueueType ==
  ASSUME TypeOK, NEW m \in OutMsg, Enqueue(m)
  PROVE  /\ toClient' \in Seq(OutMsg) /\ Len(toClient') <= OutCap
         /\ outLost' \in SUBSET Keys /\ ctlLost' \in BOOLEAN
  BY SendType, ConstantsAssumption DEF ConstantsAssumption, TypeOK, Enqueue

\* The tap and the forwarder.
LEMMA TypeTap ==
  ASSUME TypeOK,
         \/ \E k \in Keys : UserKey(k) \/ UserKeyUnseen(k) \/ UserKeyUntapped(k)
         \/ \E m \in {Motion, Edge} : UserMotion(m)
         \/ ForwardSource
  PROVE  TypeOK'
<1> USE DEF macVars, tapVars, brainVars, srvVars, cliVars, outVars
<1>1. CASE \E k \in Keys : UserKey(k)
  <2>1. PICK k \in Keys : UserKey(k)
    BY <1>1
  <2>2. Translate(k) \in TapMsg
    BY <2>1 DEF Translate, Up, Down, TapMsg, KeyMsg
  <2>3. tapQ' \in Seq(TapMsg) /\ Len(tapQ') <= MaxTap
    BY <2>1, <2>2, SendType, ConstantsAssumption
    DEF UserKey, TypeOK, ConstantsAssumption
  <2>4. phys' \in SUBSET Keys /\ macDown' \in SUBSET Keys /\ heldMods' \in SUBSET ModKeys
    BY <2>1 DEF UserKey, TypeOK, Toggle
  <2> QED
    BY <2>1, <2>3, <2>4 DEF UserKey, TypeOK
<1>2. CASE \E k \in Keys : UserKeyUnseen(k) \/ UserKeyUntapped(k)
  BY <1>2 DEF UserKeyUnseen, UserKeyUntapped, TypeOK, Toggle
<1>3. CASE \E m \in {Motion, Edge} : UserMotion(m)
  <2>1. PICK m \in {Motion, Edge} : UserMotion(m)
    BY <1>3
  <2>2. tapQ' \in Seq(TapMsg) /\ Len(tapQ') <= MaxTap
    BY <2>1, SendType, ConstantsAssumption
    DEF UserMotion, TypeOK, TapMsg, ConstantsAssumption
  <2> QED
    BY <2>1, <2>2 DEF UserMotion, TypeOK
<1>4. CASE ForwardSource
  <2>1. /\ Head(tapQ) \in BrainMsg
        /\ tapQ' \in Seq(TapMsg) /\ Len(tapQ') <= MaxTap
    BY <1>4, ReceiveType, ConstantsAssumption
    DEF ForwardSource, TypeOK, BrainMsg, ConstantsAssumption
  <2>2. brainQ' \in Seq(BrainMsg) /\ Len(brainQ') <= BrainCap
    <3>1. \/ brainQ' = brainQ
          \/ Len(brainQ) < BrainCap /\ brainQ' = Append(brainQ, Head(tapQ))
      BY <1>4 DEF ForwardSource
    <3>2. brainQ \in Seq(BrainMsg) /\ Len(brainQ) <= BrainCap /\ BrainCap \in Nat
      BY ConstantsAssumption DEF TypeOK, ConstantsAssumption
    <3> QED
      BY <2>1, <3>1, <3>2, OfferType
  <2>3. srcLost' \in SUBSET Keys
    BY <1>4 DEF ForwardSource, TypeOK
  <2> QED
    BY <1>4, <2>1, <2>2, <2>3 DEF ForwardSource, TypeOK
<1> QED
  BY <1>1, <1>2, <1>3, <1>4

\* The edge brain.
LEMMA TypeBrain ==
  ASSUME TypeOK, Brain \/ CooldownElapses
  PROVE  TypeOK'
<1> USE DEF macVars, tapVars, brainVars, srvVars, cliVars, outVars
<1>0. ASSUME BrainTakes
      PROVE  /\ Head(brainQ) \in BrainMsg
             /\ Tail(brainQ) \in Seq(BrainMsg) /\ Len(Tail(brainQ)) <= BrainCap
  BY <1>0, ReceiveType, ConstantsAssumption
  DEF BrainTakes, TypeOK, ConstantsAssumption
<1>1. CASE BrainKey
  <2> DEFINE down == Head(brainQ).type = "Down"
             hid  == Remap[Head(brainQ).key]
             m    == IF down THEN Down(hid) ELSE Up(hid)
  <2>1. hid \in Keys /\ m \in OutMsg /\ m.key \in Keys
    BY <1>1, ConstantsAssumption
    DEF BrainKey, KeyMsg, ConstantsAssumption, Down, Up, OutMsg
  <2>2. CASE sm = "RemoteActive"
    <3>1. Enqueue(m) /\ held' \in SUBSET Keys
      BY <1>1, <2>1, <2>2 DEF BrainKey, TypeOK, Observe
    <3>2. /\ toClient' \in Seq(OutMsg) /\ Len(toClient') <= OutCap
          /\ outLost' \in SUBSET Keys /\ ctlLost' \in BOOLEAN
      BY <2>1, <3>1, EnqueueType
    <3> QED
      BY <1>0, <1>1, <3>1, <3>2 DEF BrainKey, TypeOK
  <2>3. CASE sm = "LocalActive"
    BY <1>0, <1>1, <2>3 DEF BrainKey, TypeOK
  <2> QED
    BY <2>2, <2>3 DEF TypeOK
<1>2. CASE BrainMotion
  <2>1. Bulk \in OutMsg
    BY DEF OutMsg
  <2>2. /\ toClient' \in Seq(OutMsg) /\ Len(toClient') <= OutCap
        /\ outLost' \in SUBSET Keys /\ ctlLost' \in BOOLEAN
    BY <1>2, <2>1, EnqueueType DEF BrainMotion, TypeOK
  <2>3. /\ brainQ' \in Seq(BrainMsg) /\ Len(brainQ') <= BrainCap
        /\ UNCHANGED <<macVars, tapVars, brainVars, srvVars, cliVars, toServer,
                       srcLost>>
    BY <1>0, <1>2 DEF BrainMotion
  <2> QED
    BY <2>2, <2>3 DEF TypeOK
<1>3. CASE BrainCross
  <2>1. Take \in OutMsg
    BY DEF OutMsg
  <2>2. /\ toClient' \in Seq(OutMsg) /\ Len(toClient') <= OutCap
        /\ outLost' \in SUBSET Keys /\ ctlLost' \in BOOLEAN
    BY <1>3, <2>1, EnqueueType DEF BrainCross
  <2> QED
    BY <1>0, <1>3, <2>2 DEF BrainCross, TypeOK
<1>4. CASE BrainRelease
  <2>1. /\ sm' \in {"LocalActive", "RemoteActive"} /\ cooling' \in BOOLEAN
        /\ pc' \in {"idle", "entering", "leaving"}
        /\ held' \in SUBSET Keys /\ toRelease' \in SUBSET Keys
    BY <1>4 DEF BrainRelease, TypeOK
  <2>2. brainQ' \in Seq(BrainMsg) /\ Len(brainQ') <= BrainCap
    BY <1>0, <1>4 DEF BrainRelease
  <2>3. UNCHANGED <<macVars, tapVars, srvVars, cliVars, outVars, toServer, srcLost>>
    BY <1>4 DEF BrainRelease
  <2> QED
    BY <2>1, <2>2, <2>3 DEF TypeOK
<1>5. CASE \E h \in Keys : DrainToPeer(h)
  <2>1. PICK h \in Keys : DrainToPeer(h)
    BY <1>5
  <2>2. Up(h) \in OutMsg
    BY <2>1 DEF Up, OutMsg, KeyMsg
  <2>3. /\ toClient' \in Seq(OutMsg) /\ Len(toClient') <= OutCap
        /\ outLost' \in SUBSET Keys /\ ctlLost' \in BOOLEAN
    BY <2>1, <2>2, EnqueueType DEF DrainToPeer
  <2> QED
    BY <2>1, <2>3 DEF DrainToPeer, TypeOK
<1>6. CASE BrainEnter
  BY <1>6 DEF BrainEnter, TypeOK
<1>7. CASE BrainLeave
  BY <1>7 DEF BrainLeave, TypeOK
<1>8. CASE CooldownElapses
  BY <1>8 DEF CooldownElapses, TypeOK
<1> QED
  BY <1>1, <1>2, <1>3, <1>4, <1>5, <1>6, <1>7, <1>8 DEF Brain

\* The other tasks of a session, on either side.
LEMMA TypeTasks ==
  ASSUME TypeOK,
         \/ ServerBulk \/ ServerReads \/ ClientInjects \/ WatcherSends
         \/ WatcherClears \/ ClientBulk
  PROVE  TypeOK'
<1> USE DEF macVars, tapVars, brainVars, srvVars, cliVars, outVars
<1>1. CASE ServerBulk
  <2>1. toClient' \in Seq(OutMsg) /\ Len(toClient') <= OutCap
    BY <1>1, SendType, ConstantsAssumption
    DEF ServerBulk, TypeOK, OutMsg, ConstantsAssumption
  <2> QED
    BY <1>1, <2>1 DEF ServerBulk, TypeOK
<1>2. CASE ServerReads
  <2>1. toServer' \in Seq(BackMsg) /\ Len(toServer') <= BackCap
    BY <1>2, ReceiveType, ConstantsAssumption
    DEF ServerReads, TypeOK, ConstantsAssumption
  <2>2. Release \in BrainMsg
    BY DEF BrainMsg
  <2>3. brainQ' \in Seq(BrainMsg) /\ Len(brainQ') <= BrainCap
    <3>1. \/ brainQ' = brainQ
          \/ Len(brainQ) < BrainCap /\ brainQ' = Append(brainQ, Release)
      BY <1>2 DEF ServerReads
    <3>2. brainQ \in Seq(BrainMsg) /\ Len(brainQ) <= BrainCap /\ BrainCap \in Nat
      BY ConstantsAssumption DEF TypeOK, ConstantsAssumption
    <3> QED
      BY <2>2, <3>1, <3>2, OfferType
  <2>4. /\ ctlLost' \in BOOLEAN
        /\ UNCHANGED <<macVars, tapVars, brainVars, srvVars, cliVars, toClient,
                       outLost, srcLost>>
    BY <1>2 DEF ServerReads, TypeOK
  <2> QED
    BY <2>1, <2>3, <2>4 DEF TypeOK
<1>3. CASE ClientInjects
  <2>1. /\ Head(toClient) \in OutMsg
        /\ toClient' \in Seq(OutMsg) /\ Len(toClient') <= OutCap
    BY <1>3, ReceiveType, ConstantsAssumption
    DEF ClientInjects, TypeOK, ConstantsAssumption
  <2>2. Head(toClient) \in KeyMsg => Head(toClient).key \in Keys
    BY DEF KeyMsg
  <2> DEFINE k == Head(toClient).key
  <2>3. /\ cliHeld' = cliHeld \/ (k \in Keys /\ cliHeld' \in {cliHeld \cup {k}, cliHeld \ {k}})
        /\ winDown' = winDown \/ (k \in Keys /\ winDown' \in {winDown \cup {k}, winDown \ {k}})
        /\ active' \in {active, TRUE}
    BY <1>3, <2>2 DEF ClientInjects, Observe
  <2>4. UNCHANGED <<macVars, tapVars, brainQ, brainVars, srvVars, cli, watcher,
                    toServer, outLost, ctlLost, srcLost>>
    BY <1>3 DEF ClientInjects
  <2> HIDE DEF k
  <2>5. cliHeld' \in SUBSET Keys /\ winDown' \in SUBSET Keys /\ active' \in BOOLEAN
    BY <2>3 DEF TypeOK
  <2> QED
    BY <2>1, <2>4, <2>5 DEF TypeOK
<1>4. CASE WatcherSends
  <2>1. toServer' \in Seq(BackMsg) /\ Len(toServer') <= BackCap
    <3>1. \/ toServer' = toServer
          \/ Len(toServer) < BackCap /\ toServer' = Append(toServer, Release)
      BY <1>4 DEF WatcherSends
    <3>2. /\ toServer \in Seq(BackMsg) /\ Len(toServer) <= BackCap /\ BackCap \in Nat
          /\ Release \in BackMsg
      BY ConstantsAssumption DEF TypeOK, BackMsg, ConstantsAssumption
    <3> QED
      BY <3>1, <3>2, OfferType
  <2> QED
    BY <1>4, <2>1 DEF WatcherSends, TypeOK
<1>5. CASE WatcherClears
  BY <1>5 DEF WatcherClears, TypeOK
<1>6. CASE ClientBulk
  <2>1. toServer' \in Seq(BackMsg) /\ Len(toServer') <= BackCap
    BY <1>6, SendType, ConstantsAssumption
    DEF ClientBulk, TypeOK, BackMsg, ConstantsAssumption
  <2> QED
    BY <1>6, <2>1 DEF ClientBulk, TypeOK
<1> QED
  BY <1>1, <1>2, <1>3, <1>4, <1>5, <1>6

\* The ends and the beginning of a session.
LEMMA TypeEnds ==
  ASSUME TypeOK,
         \/ ServerExits \/ \E h \in Keys : DisconnectDrain(h)
         \/ DrainTimesOut \/ ServerCloses \/ ServerKilled \/ ClientEnds
         \/ Connect
  PROVE  TypeOK'
<1> USE DEF macVars, tapVars, brainVars, srvVars, cliVars, outVars
<1>1. CASE ServerExits
  BY <1>1 DEF ServerExits, TypeOK
<1>2. CASE \E h \in Keys : DisconnectDrain(h)
  <2>1. PICK h \in Keys : DisconnectDrain(h)
    BY <1>2
  <2>2. Up(h) \in OutMsg
    BY <2>1 DEF Up, OutMsg, KeyMsg
  <2>3. /\ toClient' \in Seq(OutMsg) /\ Len(toClient') <= OutCap
        /\ outLost' \in SUBSET Keys /\ ctlLost' \in BOOLEAN
    BY <2>1, <2>2, EnqueueType DEF DisconnectDrain
  <2> QED
    BY <2>1, <2>3 DEF DisconnectDrain, TypeOK
<1>3. CASE DrainTimesOut
  BY <1>3 DEF DrainTimesOut, TypeOK
<1>4. CASE ServerGone /\ cursorHidden' \in BOOLEAN
  <2>1. toClient' \in Seq(OutMsg) /\ Len(toClient') <= OutCap
    BY <1>4, PrefixType, ConstantsAssumption
    DEF ServerGone, TypeOK, ConstantsAssumption
  <2>2. /\ tapQ' \in Seq(TapMsg) /\ Len(tapQ') <= MaxTap
        /\ brainQ' \in Seq(BrainMsg) /\ Len(brainQ') <= BrainCap
        /\ toServer' \in Seq(BackMsg) /\ Len(toServer') <= BackCap
    BY <1>4, ConstantsAssumption DEF ServerGone, ConstantsAssumption
  <2> QED
    BY <1>4, <2>1, <2>2 DEF ServerGone, TypeOK
<1>5. CASE ServerCloses
  BY <1>4, <1>5 DEF ServerCloses, TypeOK
<1>6. CASE ServerKilled
  BY <1>4, <1>6 DEF ServerKilled
<1>7. CASE ClientEnds
  <2>1. toServer' \in Seq(BackMsg) /\ Len(toServer') <= BackCap
    BY <1>7, PrefixType, ConstantsAssumption
    DEF ClientEnds, TypeOK, ConstantsAssumption
  <2>2. toClient' \in Seq(OutMsg) /\ Len(toClient') <= OutCap
    BY <1>7, ConstantsAssumption DEF ClientEnds, ConstantsAssumption
  <2> QED
    BY <1>7, <2>1, <2>2 DEF ClientEnds, TypeOK
<1>8. CASE Connect
  BY <1>8 DEF Connect, TypeOK
<1> QED
  BY <1>1, <1>2, <1>3, <1>5, <1>6, <1>7, <1>8

LEMMA TypeStep == TypeOK /\ [Next]_vars => TypeOK'
<1> SUFFICES ASSUME TypeOK, [Next]_vars PROVE TypeOK'
  OBVIOUS
<1>1. CASE UNCHANGED vars
  BY <1>1
  DEF TypeOK, vars, macVars, tapVars, brainVars, srvVars, cliVars, outVars
<1> QED
  BY <1>1, TypeTap, TypeBrain, TypeTasks, TypeEnds DEF Next

\* Type correctness: every tracker, queue and flag of the two programs keeps
\* its type, and no bounded channel ever holds more than its capacity.
THEOREM TypeCorrect == Spec => []TypeOK
  BY TypeInit, TypeStep, PTL DEF Spec

-----------------------------------------------------------------------------
(* The injector's guard.                                                    *)

\* The guard tracks exactly what the sink was told to press: what makes the
\* drain on drop complete.
GuardTracksSink == winDown = cliHeld /\ (~cli => winDown = {})

LEMMA GuardStep == GuardTracksSink /\ [Next]_vars => GuardTracksSink'
<1> SUFFICES ASSUME GuardTracksSink, [Next]_vars PROVE GuardTracksSink'
  OBVIOUS
<1>1. CASE UNCHANGED cliVars
  BY <1>1 DEF GuardTracksSink, cliVars
<1>2. CASE ClientInjects
  BY <1>2 DEF ClientInjects, GuardTracksSink
<1>3. CASE WatcherSends
  BY <1>3 DEF WatcherSends, GuardTracksSink
<1>4. CASE WatcherClears
  BY <1>4 DEF WatcherClears, GuardTracksSink
<1>5. CASE ClientEnds
  BY <1>5 DEF ClientEnds, GuardTracksSink
<1>6. CASE Connect
  BY <1>6 DEF Connect, GuardTracksSink
<1>7. ASSUME \/ \E k \in Keys : UserKey(k) \/ UserKeyUnseen(k) \/ UserKeyUntapped(k)
             \/ \E m \in {Motion, Edge} : UserMotion(m)
             \/ ForwardSource \/ Brain \/ CooldownElapses
             \/ ServerBulk \/ ServerReads \/ ClientBulk \/ ServerExits
             \/ \E h \in Keys : DisconnectDrain(h)
             \/ DrainTimesOut \/ ServerCloses \/ ServerKilled
      PROVE  UNCHANGED cliVars
  BY <1>7
  DEF UserKey, UserKeyUnseen, UserKeyUntapped, UserMotion, ForwardSource, Brain, BrainKey,
      BrainMotion, BrainCross, BrainRelease, DrainToPeer, BrainEnter,
      BrainLeave, CooldownElapses, ServerBulk, ServerReads, ClientBulk,
      ServerExits, DisconnectDrain, DrainTimesOut, ServerCloses, ServerKilled,
      ServerGone
<1> QED
  BY <1>1, <1>2, <1>3, <1>4, <1>5, <1>6, <1>7 DEF Next, vars

\* However a session ends, and whatever the channels lost before, the client
\* leaves no key down on Windows.
THEOREM GuardReleasesAll == Spec => []WindowsLeftClean
<1>1. Init => GuardTracksSink
  BY DEF Init, GuardTracksSink
<1>2. GuardTracksSink => WindowsLeftClean
  BY DEF GuardTracksSink, WindowsLeftClean
<1> QED
  BY <1>1, <1>2, GuardStep, PTL DEF Spec

-----------------------------------------------------------------------------
(* The drain of the entry transition.                                       *)

\* A key is tracked only while control is away, and every transition empties
\* the tracker before it lets the brain take its next input.
HeldOnlyAway ==
  /\ sm = "LocalActive" => held = {}
  /\ pc = "idle" => toRelease = {}
  /\ pc = "entering" => sm = "RemoteActive" /\ toRelease = {} /\ held = {}

LEMMA HeldOnlyAwayStep ==
  TypeOK /\ HeldOnlyAway /\ [Next]_vars => HeldOnlyAway'
<1> SUFFICES ASSUME TypeOK, HeldOnlyAway, [Next]_vars PROVE HeldOnlyAway'
  OBVIOUS
<1> USE DEF HeldOnlyAway
<1>1. CASE UNCHANGED brainVars
  BY <1>1 DEF brainVars
<1>2. CASE BrainKey
  BY <1>2 DEF BrainKey, BrainTakes
<1>3. CASE BrainCross
  BY <1>3 DEF BrainCross, BrainTakes
<1>4. CASE BrainRelease
  BY <1>4 DEF BrainRelease, BrainTakes, brainVars
<1>5. CASE \E h \in Keys : DrainToPeer(h)
  BY <1>5 DEF DrainToPeer
<1>6. CASE BrainEnter \/ BrainLeave \/ CooldownElapses
  BY <1>6 DEF BrainEnter, BrainLeave, CooldownElapses
<1>7. CASE ServerExits
  BY <1>7 DEF ServerExits
<1>8. CASE ServerGone
  BY <1>8 DEF ServerGone
<1>9. ASSUME \/ \E k \in Keys : UserKey(k) \/ UserKeyUnseen(k) \/ UserKeyUntapped(k)
             \/ \E m \in {Motion, Edge} : UserMotion(m)
             \/ ForwardSource \/ BrainMotion \/ ServerBulk \/ ServerReads
             \/ ClientInjects \/ WatcherSends \/ WatcherClears \/ ClientBulk
             \/ \E h \in Keys : DisconnectDrain(h)
             \/ DrainTimesOut \/ ClientEnds \/ Connect
      PROVE  UNCHANGED brainVars
  BY <1>9
  DEF UserKey, UserKeyUnseen, UserKeyUntapped, UserMotion, ForwardSource, BrainMotion,
      ServerBulk, ServerReads, ClientInjects, WatcherSends, WatcherClears,
      ClientBulk, DisconnectDrain, DrainTimesOut, ClientEnds, Connect
<1> QED
  BY <1>1, <1>2, <1>3, <1>4, <1>5, <1>6, <1>7, <1>8, <1>9
  DEF Next, Brain, ServerCloses, ServerKilled, vars

\* The comment of execute_action is right: whatever the interleaving, the drain
\* of StartSwallow finds nothing to release.
THEOREM EntryDrainFindsNothing == Spec => []EntryDrainIsEmpty
<1>1. Init => HeldOnlyAway
  BY DEF Init, HeldOnlyAway
<1>2. HeldOnlyAway => EntryDrainIsEmpty
  BY DEF HeldOnlyAway, EntryDrainIsEmpty
<1> QED
  BY <1>1, <1>2, HeldOnlyAwayStep, TypeCorrect, PTL DEF Spec

-----------------------------------------------------------------------------
(* One kind of message in a queue.                                          *)

Has(s, e)  == \E i \in DOMAIN s : s[i] = e
Once(s, e) == \A i, j \in DOMAIN s : s[i] = e /\ s[j] = e => i = j

LEMMA AppendOther ==
  ASSUME NEW S, NEW s \in Seq(S), NEW m \in S, NEW e, m # e
  PROVE  /\ Has(Append(s, m), e) <=> Has(s, e)
         /\ Once(s, e) => Once(Append(s, m), e)
<1>1. /\ DOMAIN s = 1..Len(s) /\ DOMAIN Append(s, m) = 1..(Len(s) + 1)
      /\ \A i \in 1..Len(s) : Append(s, m)[i] = s[i]
      /\ Append(s, m)[Len(s) + 1] = m
      /\ Len(s) \in Nat
  OBVIOUS
<1>2. \A i \in DOMAIN Append(s, m) :
        Append(s, m)[i] = e => i \in DOMAIN s /\ s[i] = e
  BY <1>1
<1>3. \A i \in DOMAIN s : i \in DOMAIN Append(s, m) /\ Append(s, m)[i] = s[i]
  BY <1>1
<1> QED
  BY <1>2, <1>3 DEF Has, Once

LEMMA AppendFirst ==
  ASSUME NEW S, NEW s \in Seq(S), NEW e \in S, ~Has(s, e)
  PROVE  Has(Append(s, e), e) /\ Once(Append(s, e), e)
<1>1. /\ DOMAIN s = 1..Len(s) /\ DOMAIN Append(s, e) = 1..(Len(s) + 1)
      /\ \A i \in 1..Len(s) : Append(s, e)[i] = s[i]
      /\ Append(s, e)[Len(s) + 1] = e
      /\ Len(s) \in Nat
  OBVIOUS
<1>2. \A i \in DOMAIN Append(s, e) : Append(s, e)[i] = e => i = Len(s) + 1
  BY <1>1 DEF Has
<1> QED
  BY <1>1, <1>2 DEF Has, Once

LEMMA TailOther ==
  ASSUME NEW S, NEW s \in Seq(S), s # <<>>, NEW e, Head(s) # e
  PROVE  /\ Has(Tail(s), e) <=> Has(s, e)
         /\ Once(s, e) => Once(Tail(s), e)
<1>1. /\ DOMAIN s = 1..Len(s) /\ DOMAIN Tail(s) = 1..(Len(s) - 1)
      /\ \A i \in 1..(Len(s) - 1) : Tail(s)[i] = s[i + 1]
      /\ s[1] = Head(s) /\ Len(s) \in Nat \ {0}
  OBVIOUS
<1>2. \A i \in DOMAIN Tail(s) : i + 1 \in DOMAIN s /\ s[i + 1] = Tail(s)[i]
  BY <1>1
<1>3. \A i \in DOMAIN s : s[i] = e => i - 1 \in DOMAIN Tail(s) /\ Tail(s)[i - 1] = e
  BY <1>1
<1>4. Has(Tail(s), e) <=> Has(s, e)
  BY <1>2, <1>3 DEF Has
<1>5. Once(s, e) => Once(Tail(s), e)
  <2> SUFFICES ASSUME Once(s, e), NEW i \in DOMAIN Tail(s),
                      NEW j \in DOMAIN Tail(s), Tail(s)[i] = e, Tail(s)[j] = e
               PROVE  i = j
    BY DEF Once
  <2>1. i + 1 = j + 1
    BY <1>2 DEF Once
  <2> QED
    BY <1>1, <2>1
<1> QED
  BY <1>4, <1>5

LEMMA TailOnly ==
  ASSUME NEW S, NEW s \in Seq(S), s # <<>>, Once(s, Head(s))
  PROVE  ~Has(Tail(s), Head(s)) /\ Once(Tail(s), Head(s))
<1>1. /\ DOMAIN s = 1..Len(s) /\ DOMAIN Tail(s) = 1..(Len(s) - 1)
      /\ \A i \in 1..(Len(s) - 1) : Tail(s)[i] = s[i + 1]
      /\ s[1] = Head(s) /\ Len(s) \in Nat \ {0}
  OBVIOUS
<1>2. \A i \in DOMAIN Tail(s) : i + 1 \in DOMAIN s /\ s[i + 1] = Tail(s)[i] /\ i + 1 # 1
  BY <1>1
<1>3. ~Has(Tail(s), Head(s))
  BY <1>1, <1>2 DEF Has, Once
<1> QED
  BY <1>3 DEF Has, Once

LEMMA PrefixOfEmpty == \A t \in Prefixes(<<>>) : t = <<>>
  BY DEF Prefixes

LEMMA EmptyHasNone == \A e : ~Has(<<>>, e) /\ Once(<<>>, e)
  BY DEF Has, Once

-----------------------------------------------------------------------------
(* The inductive invariant.                                                 *)

OnItsWay == Has(toClient, Take)
OnItsWayBack == Has(toServer, Release)
AtTheBrain == Has(brainQ, Release)

\* Where the token is.  Besides ControlToken itself: while the watcher is
\* between its send and its store, no new TakeControl can have been sent.
TokenPlaced ==
  /\ Once(toClient, Take) /\ Once(toServer, Release) /\ Once(brainQ, Release)
  /\ sm = "LocalActive" =>
       ~OnItsWay /\ ~OnItsWayBack /\ ~AtTheBrain /\ ~ClientDrives
  /\ sm = "RemoteActive" =>
       \/ OnItsWay /\ ~OnItsWayBack /\ ~AtTheBrain /\ ~ClientDrives
                   /\ watcher = "poll"
       \/ ~OnItsWay /\ ~OnItsWayBack /\ ~AtTheBrain /\ ClientDrives
       \/ ~OnItsWay /\ OnItsWayBack /\ ~AtTheBrain /\ ~ClientDrives
       \/ ~OnItsWay /\ ~OnItsWayBack /\ AtTheBrain /\ ~ClientDrives
  /\ watcher = "sent" => sm = "RemoteActive" \/ cooling

\* A side without a session keeps nothing of the last one.
CleanWhenDown ==
  /\ ~cli => toClient = <<>> /\ ~active /\ watcher = "poll"
  /\ srv = "down" => sm = "LocalActive" /\ brainQ = <<>> /\ toServer = <<>>

TokenInv ==
  /\ CleanWhenDown
  /\ srv # "down" /\ cli /\ ~ctlLost => TokenPlaced

LEMMA TokenInit == Init => TokenInv
  BY EmptyHasNone
  DEF Init, TokenInv, CleanWhenDown, TokenPlaced, OnItsWay, OnItsWayBack,
      AtTheBrain, ClientDrives

LEMMA TokenImplies == TokenInv => ControlToken
  BY DEF TokenInv, TokenPlaced, ControlToken, TakeAt, BackAt, InputAt, AtMostOne,
         OnItsWay, OnItsWayBack, AtTheBrain, Has, Once

\* The messages are different from one another.
LEMMA Distinct ==
  /\ Take # Bulk /\ Release # Bulk /\ Release # Motion /\ Release # Edge
  /\ \A m \in KeyMsg : m # Take /\ m # Release
  BY DEF Take, Bulk, Release, Motion, Edge, KeyMsg

\* What enqueue does to the token when it queues something else.
LEMMA EnqueueOther ==
  ASSUME TypeOK, CleanWhenDown, NEW m \in OutMsg \ {Take}, Enqueue(m)
  PROVE  /\ OnItsWay' <=> OnItsWay
         /\ Once(toClient, Take) => Once(toClient', Take)
         /\ ~cli => toClient' = <<>>
         /\ ctlLost' = ctlLost
  BY AppendOther DEF TypeOK, Enqueue, OnItsWay, CleanWhenDown

\* The variables the invariant is about; the actions that leave them alone.
tokenVars == <<brainQ, sm, cooling, srv, cli, active, watcher, toClient,
               ctlLost, toServer>>

LEMMA TokenStutter == TokenInv /\ UNCHANGED tokenVars => TokenInv'
  BY DEF tokenVars, TokenInv, CleanWhenDown, TokenPlaced, OnItsWay, OnItsWayBack,
         AtTheBrain, ClientDrives

LEMMA TokenIdle ==
  ASSUME \/ \E k \in Keys : UserKey(k) \/ UserKeyUnseen(k) \/ UserKeyUntapped(k)
         \/ \E m \in {Motion, Edge} : UserMotion(m)
         \/ BrainEnter \/ BrainLeave \/ DrainTimesOut
         \/ UNCHANGED vars
  PROVE  UNCHANGED tokenVars
<1> USE DEF tokenVars, brainVars, srvVars, cliVars, outVars
<1>1. CASE \E k \in Keys : UserKey(k) \/ UserKeyUnseen(k) \/ UserKeyUntapped(k)
  BY <1>1 DEF UserKey, UserKeyUnseen, UserKeyUntapped
<1>2. CASE \E m \in {Motion, Edge} : UserMotion(m)
  BY <1>2 DEF UserMotion
<1>3. CASE BrainEnter \/ BrainLeave \/ DrainTimesOut
  BY <1>3 DEF BrainEnter, BrainLeave, DrainTimesOut
<1>4. CASE UNCHANGED vars
  BY <1>4 DEF vars
<1> QED
  BY <1>1, <1>2, <1>3, <1>4

LEMMA TokenForward ==
  ASSUME TypeOK, TokenInv, ForwardSource
  PROVE  TokenInv'
<1> USE DEF brainVars, srvVars, cliVars, outVars
<1>1. Head(tapQ) \in TapMsg /\ Head(tapQ) \in BrainMsg /\ Head(tapQ) # Release
  BY Distinct DEF ForwardSource, TypeOK, TapMsg, BrainMsg
<1>2. /\ AtTheBrain' <=> AtTheBrain
      /\ Once(brainQ, Release) => Once(brainQ', Release)
  <2>1. brainQ' = brainQ \/ brainQ' = Append(brainQ, Head(tapQ))
    BY DEF ForwardSource
  <2>2. brainQ \in Seq(BrainMsg)
    BY DEF TypeOK
  <2>3. CASE brainQ' = brainQ
    BY <2>3 DEF AtTheBrain
  <2>4. CASE brainQ' = Append(brainQ, Head(tapQ))
    BY <1>1, <2>2, <2>4, AppendOther DEF AtTheBrain
  <2> QED
    BY <2>1, <2>3, <2>4
<1>3. UNCHANGED <<sm, cooling, srv, cli, active, watcher, toClient, ctlLost, toServer>>
  BY DEF ForwardSource
<1>4. srv # "down"
  BY DEF ForwardSource
<1> QED
  BY <1>2, <1>3, <1>4
  DEF TokenInv, CleanWhenDown, TokenPlaced, OnItsWay, OnItsWayBack, ClientDrives

\* The brain takes something else than a ReleaseControl and does not cross.
LEMMA TokenBrain ==
  ASSUME TypeOK, TokenInv,
         BrainKey \/ BrainMotion \/ \E h \in Keys : DrainToPeer(h)
  PROVE  TokenInv'
<1> USE DEF brainVars, srvVars, cliVars, outVars
<1>1. /\ OnItsWay' <=> OnItsWay
      /\ Once(toClient, Take) => Once(toClient', Take)
      /\ ~cli => toClient' = <<>>
      /\ ctlLost' = ctlLost
  <2>1. CASE UNCHANGED outVars
    BY <2>1 DEF OnItsWay, TokenInv, CleanWhenDown
  <2>2. CASE BrainKey /\ sm = "RemoteActive"
    <3> DEFINE hid == Remap[Head(brainQ).key]
    <3>1. hid \in Keys
      BY <2>2, ConstantsAssumption
      DEF BrainKey, KeyMsg, ConstantsAssumption
    <3>2. Down(hid) \in OutMsg \ {Take} /\ Up(hid) \in OutMsg \ {Take}
      BY <3>1, Distinct DEF Down, Up, OutMsg, KeyMsg
    <3>3. Enqueue(Down(hid)) \/ Enqueue(Up(hid))
      BY <2>2 DEF BrainKey
    <3> QED
      BY <3>2, <3>3, EnqueueOther DEF TokenInv
  <2>3. CASE BrainMotion /\ sm = "RemoteActive"
    <3>1. Bulk \in OutMsg \ {Take} /\ Enqueue(Bulk)
      BY <2>3, Distinct DEF BrainMotion, OutMsg
    <3> QED
      BY <3>1, EnqueueOther DEF TokenInv
  <2>4. CASE \E h \in Keys : DrainToPeer(h)
    <3>1. PICK h \in Keys : DrainToPeer(h)
      BY <2>4
    <3>2. Up(h) \in OutMsg \ {Take} /\ Enqueue(Up(h))
      BY <3>1, Distinct DEF DrainToPeer, Up, OutMsg, KeyMsg
    <3> QED
      BY <3>2, EnqueueOther DEF TokenInv
  <2> QED
    BY <2>1, <2>2, <2>3, <2>4 DEF BrainKey, BrainMotion, TypeOK
<1>2. /\ AtTheBrain' <=> AtTheBrain
      /\ Once(brainQ, Release) => Once(brainQ', Release)
  <2>1. CASE BrainKey \/ BrainMotion
    <3>1. brainQ # <<>> /\ Head(brainQ) # Release /\ brainQ' = Tail(brainQ)
      BY <2>1, Distinct DEF BrainKey, BrainMotion, BrainTakes
    <3> QED
      BY <3>1, TailOther DEF TypeOK, AtTheBrain
  <2>2. CASE \E h \in Keys : DrainToPeer(h)
    BY <2>2 DEF DrainToPeer, AtTheBrain
  <2> QED
    BY <2>1, <2>2
<1>3. /\ UNCHANGED <<sm, cooling, srv, cli, active, watcher, toServer>>
      /\ srv # "down"
  BY DEF BrainKey, BrainMotion, DrainToPeer, BrainTakes
<1> QED
  BY <1>1, <1>2, <1>3
  DEF TokenInv, CleanWhenDown, TokenPlaced, OnItsWayBack, ClientDrives

\* The cursor crosses: the token leaves the Mac, or the full channel drops it.
LEMMA TokenCross ==
  ASSUME TypeOK, TokenInv, BrainCross
  PROVE  TokenInv'
<1> USE DEF srvVars, cliVars, outVars
<1>1. /\ sm = "LocalActive" /\ sm' = "RemoteActive" /\ ~cooling /\ cooling' = TRUE
      /\ srv # "down" /\ Enqueue(Take)
      /\ brainQ # <<>> /\ Head(brainQ) # Release /\ brainQ' = Tail(brainQ)
      /\ UNCHANGED <<srv, cli, active, watcher, toServer>>
  BY Distinct DEF BrainCross, BrainTakes, tapVars, macVars
<1>2. /\ AtTheBrain' <=> AtTheBrain
      /\ Once(brainQ, Release) => Once(brainQ', Release)
  BY <1>1, TailOther DEF TypeOK, AtTheBrain
<1>3. ~cli => toClient' = <<>>
  BY <1>1 DEF Enqueue, TokenInv, CleanWhenDown
<1>4. ctlLost => ctlLost'
  BY <1>1 DEF Enqueue
<1>5. CASE cli /\ ~ctlLost'
  <2>1. TokenPlaced /\ ~OnItsWay
    BY <1>1, <1>4, <1>5 DEF TokenInv, TokenPlaced
  <2>2. toClient' = Append(toClient, Take)
    BY <1>1, <1>5 DEF Enqueue
  <2>3. OnItsWay' /\ Once(toClient', Take)
    BY <2>1, <2>2, AppendFirst DEF OnItsWay, TypeOK, OutMsg
  <2>4. watcher = "poll"
    BY <1>1, <2>1 DEF TokenPlaced, TypeOK
  <2>5. /\ ~OnItsWayBack' /\ ~AtTheBrain' /\ ~ClientDrives'
        /\ Once(toServer', Release) /\ Once(brainQ', Release)
    BY <1>1, <1>2, <2>1 DEF TokenPlaced, OnItsWayBack, ClientDrives
  <2>6. TokenPlaced'
    BY <1>1, <2>3, <2>4, <2>5 DEF TokenPlaced
  <2> QED
    BY <1>1, <1>5, <2>6 DEF TokenInv, CleanWhenDown
<1> QED
  BY <1>1, <1>3, <1>5 DEF TokenInv, CleanWhenDown

\* The brain takes a ReleaseControl: the token is back on the Mac.
LEMMA TokenRelease ==
  ASSUME TypeOK, TokenInv, BrainRelease
  PROVE  TokenInv'
<1> USE DEF brainVars, srvVars, cliVars, outVars
<1>1. /\ srv # "down" /\ brainQ # <<>> /\ Head(brainQ) = Release
      /\ brainQ' = Tail(brainQ)
      /\ UNCHANGED <<srv, cli, active, watcher, toClient, ctlLost, toServer>>
  BY DEF BrainRelease, BrainTakes
<1>2. CASE cli /\ ~ctlLost
  <2>1. TokenPlaced
    BY <1>1, <1>2 DEF TokenInv
  <2>2. AtTheBrain
    <3>1. brainQ[1] = Release /\ 1 \in DOMAIN brainQ
      BY <1>1 DEF TypeOK
    <3> QED
      BY <3>1 DEF AtTheBrain, Has
  <2>3. sm = "RemoteActive" /\ ~OnItsWay /\ ~OnItsWayBack /\ ~ClientDrives
    BY <2>1, <2>2 DEF TokenPlaced, TypeOK
  <2>4. sm' = "LocalActive" /\ cooling' = TRUE
    BY <2>3 DEF BrainRelease
  <2>5. ~AtTheBrain' /\ Once(brainQ', Release)
    BY <1>1, <2>1, TailOnly DEF TokenPlaced, AtTheBrain, TypeOK
  <2>6. ~OnItsWay' /\ ~OnItsWayBack' /\ ~ClientDrives'
    BY <1>1, <2>3 DEF OnItsWay, OnItsWayBack, ClientDrives
  <2>7. TokenPlaced'
    BY <1>1, <2>1, <2>4, <2>5, <2>6 DEF TokenPlaced
  <2> QED
    BY <1>1, <2>7 DEF TokenInv, CleanWhenDown
<1>3. CASE ~(cli /\ ~ctlLost)
  BY <1>1, <1>3 DEF TokenInv, CleanWhenDown
<1> QED
  BY <1>2, <1>3

\* Other frames are queued, and sessions wind down, around the token.
LEMMA TokenServer ==
  ASSUME TypeOK, TokenInv,
         \/ CooldownElapses \/ ServerBulk \/ ServerExits
         \/ \E h \in Keys : DisconnectDrain(h)
  PROVE  TokenInv'
<1> USE DEF brainVars, srvVars, cliVars, outVars
<1>1. CASE CooldownElapses
  BY <1>1
  DEF CooldownElapses, TokenInv, CleanWhenDown, TokenPlaced, OnItsWay,
      OnItsWayBack, AtTheBrain, ClientDrives
<1>2. CASE ServerBulk
  <2>1. Bulk \in OutMsg
    BY DEF OutMsg
  <2>2. /\ OnItsWay' <=> OnItsWay
        /\ Once(toClient, Take) => Once(toClient', Take)
    BY <1>2, <2>1, AppendOther, Distinct DEF ServerBulk, TypeOK, OnItsWay
  <2> QED
    BY <1>2, <2>2
    DEF ServerBulk, TokenInv, CleanWhenDown, TokenPlaced, OnItsWayBack,
        AtTheBrain, ClientDrives
<1>3. CASE ServerExits
  BY <1>3
  DEF ServerExits, TokenInv, CleanWhenDown, TokenPlaced, OnItsWay,
      OnItsWayBack, AtTheBrain, ClientDrives
<1>4. CASE \E h \in Keys : DisconnectDrain(h)
  <2>1. PICK h \in Keys : DisconnectDrain(h)
    BY <1>4
  <2>2. Up(h) \in OutMsg \ {Take} /\ Enqueue(Up(h))
    BY <2>1, Distinct DEF DisconnectDrain, Up, OutMsg, KeyMsg
  <2>3. /\ OnItsWay' <=> OnItsWay
        /\ Once(toClient, Take) => Once(toClient', Take)
        /\ ~cli => toClient' = <<>>
        /\ ctlLost' = ctlLost
    BY <2>2, EnqueueOther DEF TokenInv
  <2> QED
    BY <2>1, <2>3
    DEF DisconnectDrain, TokenInv, CleanWhenDown, TokenPlaced, OnItsWayBack,
        AtTheBrain, ClientDrives
<1> QED
  BY <1>1, <1>2, <1>3, <1>4

\* The reader hands a ReleaseControl over to the brain.
LEMMA TokenReads ==
  ASSUME TypeOK, TokenInv, ServerReads
  PROVE  TokenInv'
<1> USE DEF brainVars, srvVars, cliVars, outVars
<1>1. /\ srv # "down" /\ toServer # <<>> /\ toServer' = Tail(toServer)
      /\ UNCHANGED <<srv, cli, active, watcher, toClient, sm, cooling>>
  BY DEF ServerReads
<1>2. CASE Head(toServer) = Release /\ cli /\ ~ctlLost'
  <2>1. /\ ~ctlLost /\ brainQ' = Append(brainQ, Release)
    BY <1>2, Distinct DEF ServerReads
  <2>2. TokenPlaced
    BY <1>1, <1>2, <2>1 DEF TokenInv
  <2>3. OnItsWayBack
    <3>1. toServer[1] = Release /\ 1 \in DOMAIN toServer
      BY <1>1, <1>2 DEF TypeOK
    <3> QED
      BY <3>1 DEF OnItsWayBack, Has
  <2>4. sm = "RemoteActive" /\ ~OnItsWay /\ ~AtTheBrain /\ ~ClientDrives
    BY <2>2, <2>3 DEF TokenPlaced, TypeOK
  <2>5. ~OnItsWayBack' /\ Once(toServer', Release)
    BY <1>1, <1>2, <2>2, TailOnly DEF TokenPlaced, OnItsWayBack, TypeOK
  <2>6. AtTheBrain' /\ Once(brainQ', Release)
    BY <2>1, <2>4, AppendFirst DEF AtTheBrain, TypeOK, BrainMsg
  <2>7. ~OnItsWay' /\ ~ClientDrives'
    BY <1>1, <2>4 DEF OnItsWay, ClientDrives
  <2>8. TokenPlaced'
    BY <1>1, <2>2, <2>4, <2>5, <2>6, <2>7 DEF TokenPlaced
  <2> QED
    BY <1>1, <1>2, <2>8 DEF TokenInv, CleanWhenDown
<1>3. CASE Head(toServer) # Release
  <2>1. UNCHANGED <<brainQ, ctlLost>>
    BY <1>3 DEF ServerReads
  <2>2. /\ OnItsWayBack' <=> OnItsWayBack
        /\ Once(toServer, Release) => Once(toServer', Release)
    BY <1>1, <1>3, TailOther DEF OnItsWayBack, TypeOK
  <2> QED
    BY <1>1, <2>1, <2>2
    DEF TokenInv, CleanWhenDown, TokenPlaced, OnItsWay, AtTheBrain, ClientDrives
<1>4. CASE ~cli \/ ctlLost'
  BY <1>1, <1>4 DEF TokenInv, CleanWhenDown
<1> QED
  BY <1>2, <1>3, <1>4

\* The injector arms the watcher on TakeControl.
LEMMA TokenInjects ==
  ASSUME TypeOK, TokenInv, ClientInjects
  PROVE  TokenInv'
<1> USE DEF brainVars, srvVars, macVars, tapVars
<1>1. /\ cli /\ toClient # <<>> /\ toClient' = Tail(toClient)
      /\ UNCHANGED <<brainQ, sm, cooling, srv, cli, watcher, ctlLost, toServer>>
  BY DEF ClientInjects
<1>2. CASE Head(toClient) = Take /\ srv # "down" /\ ~ctlLost
  <2>1. TokenPlaced
    BY <1>1, <1>2 DEF TokenInv
  <2>2. active' = TRUE
    BY <1>2 DEF ClientInjects, Take, Bulk, KeyMsg
  <2>3. OnItsWay
    <3>1. toClient[1] = Take /\ 1 \in DOMAIN toClient
      BY <1>1, <1>2 DEF TypeOK
    <3> QED
      BY <3>1 DEF OnItsWay, Has
  <2>4. /\ sm = "RemoteActive" /\ watcher = "poll"
        /\ ~OnItsWayBack /\ ~AtTheBrain
    BY <2>1, <2>3 DEF TokenPlaced, TypeOK
  <2>5. ~OnItsWay' /\ Once(toClient', Take)
    BY <1>1, <1>2, <2>1, TailOnly DEF TokenPlaced, OnItsWay, TypeOK
  <2>6. ~OnItsWayBack' /\ ~AtTheBrain' /\ ClientDrives'
    BY <1>1, <2>2, <2>4 DEF OnItsWayBack, AtTheBrain, ClientDrives
  <2>7. TokenPlaced'
    BY <1>1, <2>1, <2>4, <2>5, <2>6 DEF TokenPlaced
  <2> QED
    BY <1>1, <2>7 DEF TokenInv, CleanWhenDown
<1>3. CASE Head(toClient) # Take
  <2>1. UNCHANGED active
    BY <1>3 DEF ClientInjects
  <2>2. /\ OnItsWay' <=> OnItsWay
        /\ Once(toClient, Take) => Once(toClient', Take)
    BY <1>1, <1>3, TailOther DEF OnItsWay, TypeOK
  <2> QED
    BY <1>1, <2>1, <2>2
    DEF TokenInv, CleanWhenDown, TokenPlaced, OnItsWayBack, AtTheBrain, ClientDrives
<1>4. CASE srv = "down" \/ ctlLost
  BY <1>1, <1>4 DEF TokenInv, CleanWhenDown
<1> QED
  BY <1>2, <1>3, <1>4

\* The watcher sends the token back and disarms itself.
LEMMA TokenWatcher ==
  ASSUME TypeOK, TokenInv, WatcherSends \/ WatcherClears \/ ClientBulk
  PROVE  TokenInv'
<1> USE DEF brainVars, srvVars, cliVars, outVars
<1>1. CASE WatcherSends
  <2>1. /\ cli /\ active /\ watcher = "poll" /\ watcher' = "sent"
        /\ UNCHANGED <<brainQ, sm, cooling, srv, cli, active, toClient>>
    BY <1>1 DEF WatcherSends
  <2>2. CASE srv # "down" /\ ~ctlLost'
    <3>1. toServer' = Append(toServer, Release) /\ ~ctlLost
      BY <1>1, <2>2 DEF WatcherSends
    <3>2. TokenPlaced /\ ClientDrives
      BY <2>1, <2>2, <3>1 DEF TokenInv, ClientDrives
    <3>3. sm = "RemoteActive" /\ ~OnItsWay /\ ~OnItsWayBack /\ ~AtTheBrain
      BY <3>2 DEF TokenPlaced, TypeOK
    <3>4. OnItsWayBack' /\ Once(toServer', Release)
      BY <3>1, <3>3, AppendFirst DEF OnItsWayBack, TypeOK, BackMsg
    <3>5. ~OnItsWay' /\ ~AtTheBrain' /\ ~ClientDrives'
      BY <2>1, <3>3 DEF OnItsWay, AtTheBrain, ClientDrives
    <3>6. TokenPlaced'
      BY <2>1, <3>2, <3>3, <3>4, <3>5 DEF TokenPlaced
    <3> QED
      BY <2>1, <2>2, <3>6 DEF TokenInv, CleanWhenDown
  <2>3. CASE srv = "down"
    <3>1. toServer' = toServer
      BY <1>1, <2>3 DEF WatcherSends
    <3> QED
      BY <2>1, <2>3, <3>1 DEF TokenInv, CleanWhenDown
  <2>4. CASE srv # "down" /\ ctlLost'
    BY <2>1, <2>4 DEF TokenInv, CleanWhenDown
  <2> QED
    BY <2>2, <2>3, <2>4
<1>2. CASE WatcherClears
  BY <1>2
  DEF WatcherClears, TokenInv, CleanWhenDown, TokenPlaced, OnItsWay,
      OnItsWayBack, AtTheBrain, ClientDrives
<1>3. CASE ClientBulk
  <2>1. Bulk \in BackMsg
    BY DEF BackMsg
  <2>2. /\ OnItsWayBack' <=> OnItsWayBack
        /\ Once(toServer, Release) => Once(toServer', Release)
    BY <1>3, <2>1, AppendOther, Distinct DEF ClientBulk, TypeOK, OnItsWayBack
  <2> QED
    BY <1>3, <2>2
    DEF ClientBulk, TokenInv, CleanWhenDown, TokenPlaced, OnItsWay,
        AtTheBrain, ClientDrives
<1> QED
  BY <1>1, <1>2, <1>3

\* Sessions end with nothing left over, and the next starts with the Mac.
LEMMA TokenEnds ==
  ASSUME TypeOK, TokenInv, ServerCloses \/ ServerKilled \/ ClientEnds \/ Connect
  PROVE  TokenInv'
<1> USE DEF brainVars, srvVars, cliVars, outVars
<1>1. CASE ServerCloses \/ ServerKilled
  <2>1. /\ srv' = "down" /\ sm' = "LocalActive" /\ brainQ' = <<>> /\ toServer' = <<>>
        /\ toClient' \in Prefixes(toClient)
        /\ UNCHANGED <<cli, active, watcher>>
    BY <1>1 DEF ServerCloses, ServerKilled, ServerGone
  <2>2. ~cli => toClient' = <<>>
    BY <2>1, PrefixOfEmpty DEF TokenInv, CleanWhenDown
  <2> QED
    BY <2>1, <2>2 DEF TokenInv, CleanWhenDown
<1>2. CASE ClientEnds
  <2>1. /\ ~cli' /\ ~active' /\ watcher' = "poll" /\ toClient' = <<>>
        /\ toServer' \in Prefixes(toServer)
        /\ UNCHANGED <<srv, sm, brainQ>>
    BY <1>2 DEF ClientEnds
  <2>2. srv = "down" => toServer' = <<>>
    BY <2>1, PrefixOfEmpty DEF TokenInv, CleanWhenDown
  <2> QED
    BY <2>1, <2>2 DEF TokenInv, CleanWhenDown
<1>3. CASE Connect
  <2>1. /\ srv' = "up" /\ cli' /\ ~active' /\ watcher' = "poll"
        /\ sm' = "LocalActive"
        /\ toClient' = <<>> /\ brainQ' = <<>> /\ toServer' = <<>>
    BY <1>3 DEF Connect, TokenInv, CleanWhenDown
  <2>2. /\ ~OnItsWay' /\ ~OnItsWayBack' /\ ~AtTheBrain' /\ ~ClientDrives'
        /\ Once(toClient', Take) /\ Once(toServer', Release)
        /\ Once(brainQ', Release)
    BY <2>1, EmptyHasNone DEF OnItsWay, OnItsWayBack, AtTheBrain, ClientDrives
  <2> QED
    BY <2>1, <2>2 DEF TokenInv, CleanWhenDown, TokenPlaced
<1> QED
  BY <1>1, <1>2, <1>3

LEMMA TokenStep == TypeOK /\ TokenInv /\ [Next]_vars => TokenInv'
  BY TokenStutter, TokenIdle, TokenForward, TokenBrain, TokenCross, TokenRelease,
     TokenServer, TokenReads, TokenInjects, TokenWatcher, TokenEnds
  DEF Next, Brain

\* Control is one token that no interleaving of the two programs' tasks loses
\* or doubles: only a refused control frame or the end of the session does.
THEOREM ControlIsOneToken == Spec => []ControlToken
  BY TokenInit, TokenImplies, TokenStep, TypeCorrect, PTL DEF Spec

-----------------------------------------------------------------------------
(* Who has control, in terms of the token.                                  *)

Live == srv # "down" /\ cli

\* A server without a session has no refused frame to remember.
NothingLostWhenDown == srv = "down" => ~ctlLost

OwnerInv == TypeOK /\ TokenInv /\ NothingLostWhenDown

Seat ==
  IF ~Live THEN "over"
  ELSE IF ctlLost THEN "stranded"
  ELSE IF sm = "LocalActive" THEN "mac"
  ELSE IF OnItsWay THEN "toWindows"
  ELSE IF ClientDrives THEN "windows"
  ELSE "toMac"

\* The token is somewhere, so that Owner is never "nowhere".
OwnerSeated == Owner = Seat

LEMMA OwnerIsSeat == OwnerInv => OwnerSeated
<1> SUFFICES ASSUME OwnerInv
             PROVE  Owner = Seat
  BY DEF OwnerSeated
<1>1. /\ TakeAt # {} <=> OnItsWay
      /\ BackAt # {} <=> OnItsWayBack
      /\ InputAt # {} <=> AtTheBrain
  BY DEF TakeAt, BackAt, InputAt, OnItsWay, OnItsWayBack, AtTheBrain, Has
<1>2. CASE ~Live \/ ctlLost \/ sm = "LocalActive"
  BY <1>2 DEF Owner, Live, Seat
<1>3. CASE Live /\ ~ctlLost /\ sm # "LocalActive"
  <2>1. TokenPlaced /\ sm = "RemoteActive"
    BY <1>3 DEF Live, OwnerInv, TokenInv, TypeOK
  <2>2. OnItsWay \/ ClientDrives \/ OnItsWayBack \/ AtTheBrain
    BY <2>1 DEF TokenPlaced
  <2>3. QED
    BY <1>1, <1>3, <2>2 DEF Owner, Live, Seat
<1>4. QED
  BY <1>2, <1>3

LEMMA OwnerIsSeatNext == OwnerInv' => OwnerSeated'
BY OwnerIsSeat, PTL

\* Control stays where it is.
Stays == Seat' = Seat

Moves(from, to) == Seat \in from /\ Seat' = to

\* The steps of ControlHandoff, between seats.
SeatNext ==
  \/ Stays
  \/ Moves({"mac"}, "toWindows") \/ Moves({"toWindows"}, "windows")
  \/ Moves({"windows"}, "toMac") \/ Moves({"toMac"}, "mac")
  \/ Moves({"mac", "windows", "toMac"}, "stranded")
  \/ Seat # "over" /\ Seat' = "over"
  \/ Moves({"over"}, "mac")

-----------------------------------------------------------------------------
(* Every step of a session moves control as ControlHandoff does, or not.    *)

LEMMA SeatUnmoved ==
  ASSUME Live' <=> Live, UNCHANGED <<ctlLost, sm>>,
         OnItsWay' <=> OnItsWay, ClientDrives' <=> ClientDrives
  PROVE  SeatNext
<1>1. Live' = Live
  BY DEF Live
<1>2. CASE OnItsWay
  BY <1>1, <1>2 DEF SeatNext, Stays, Seat
<1>3. CASE ~OnItsWay
  BY <1>1, <1>3 DEF SeatNext, Stays, Seat
<1>4. QED
  BY <1>2, <1>3

\* Where control is stranded, or at neither end, it stays.
LEMMA SeatNowhere ==
  ASSUME Live' <=> Live, ~Live \/ (ctlLost /\ ctlLost')
  PROVE  SeatNext
BY DEF SeatNext, Stays, Seat

\* Frames that do not carry control, and steps that queue none.
LEMMA SeatTraffic ==
  ASSUME OwnerInv,
         \/ ForwardSource \/ CooldownElapses \/ ServerBulk \/ ServerExits
         \/ WatcherClears \/ ClientBulk
         \/ UNCHANGED tokenVars
  PROVE  SeatNext
<1> USE DEF brainVars, srvVars, cliVars, outVars
<1>1. UNCHANGED <<ctlLost, sm, cli>> /\ (srv' = "down" <=> srv = "down")
  BY DEF ForwardSource, CooldownElapses, ServerBulk, ServerExits, WatcherClears,
    ClientBulk, tokenVars
<1>2. OnItsWay' <=> OnItsWay
  <2>1. CASE ServerBulk
    <3>1. Bulk \in OutMsg /\ Bulk # Take
      BY Distinct DEF OutMsg
    <3>2. QED
      BY <2>1, <3>1, AppendOther DEF ServerBulk, OwnerInv, TypeOK, OnItsWay
  <2>2. CASE toClient' = toClient
    BY <2>2 DEF OnItsWay
  <2>3. QED
    BY <2>1, <2>2 DEF ForwardSource, CooldownElapses, ServerExits, WatcherClears,
      ClientBulk, tokenVars
<1>3. ClientDrives' <=> ClientDrives
  <2>1. CASE WatcherClears
    BY <2>1 DEF WatcherClears, ClientDrives
  <2>2. CASE UNCHANGED <<active, watcher>>
    BY <2>2 DEF ClientDrives
  <2>3. QED
    BY <2>1, <2>2 DEF ForwardSource, CooldownElapses, ServerBulk, ServerExits,
      ClientBulk, tokenVars
<1>4. QED
  BY <1>1, <1>2, <1>3, SeatUnmoved DEF Live

\* What the brain and both drains queue for the client besides TakeControl.
LEMMA SeatFrames ==
  ASSUME OwnerInv,
         \/ BrainKey \/ BrainMotion
         \/ \E h \in Keys : DrainToPeer(h) \/ DisconnectDrain(h)
  PROVE  SeatNext
<1> USE DEF brainVars, srvVars, cliVars
<1>1. UNCHANGED <<sm, srv, cli, active, watcher>>
  BY DEF BrainKey, BrainMotion, DrainToPeer, DisconnectDrain
<1>2. UNCHANGED outVars \/ \E m \in OutMsg \ {Take} : Enqueue(m)
  <2>1. CASE BrainKey /\ sm = "RemoteActive"
    <3> DEFINE hid == Remap[Head(brainQ).key]
    <3>1. hid \in Keys
      BY <2>1, ConstantsAssumption DEF BrainKey, KeyMsg, ConstantsAssumption
    <3>2. Down(hid) \in OutMsg \ {Take} /\ Up(hid) \in OutMsg \ {Take}
      BY <3>1, Distinct DEF Down, Up, OutMsg, KeyMsg
    <3>3. Enqueue(Down(hid)) \/ Enqueue(Up(hid))
      BY <2>1 DEF BrainKey
    <3>4. QED
      BY <3>2, <3>3
  <2>2. CASE BrainMotion /\ sm = "RemoteActive"
    <3>1. Bulk \in OutMsg \ {Take} /\ Enqueue(Bulk)
      BY <2>2, Distinct DEF BrainMotion, OutMsg
    <3>2. QED
      BY <3>1
  <2>3. CASE (BrainKey \/ BrainMotion) /\ sm # "RemoteActive"
    BY <2>3 DEF BrainKey, BrainMotion
  <2>4. CASE \E h \in Keys : DrainToPeer(h) \/ DisconnectDrain(h)
    <3>1. PICK h \in Keys : DrainToPeer(h) \/ DisconnectDrain(h)
      BY <2>4
    <3>2. Up(h) \in OutMsg \ {Take} /\ Enqueue(Up(h))
      BY <3>1, Distinct DEF DrainToPeer, DisconnectDrain, Up, OutMsg, KeyMsg
    <3>3. QED
      BY <3>2
  <2>5. QED
    BY <2>1, <2>2, <2>3, <2>4
<1>3. ctlLost' = ctlLost /\ (OnItsWay' <=> OnItsWay)
  <2>1. CASE UNCHANGED outVars
    BY <2>1 DEF outVars, OnItsWay
  <2>2. CASE \E m \in OutMsg \ {Take} : Enqueue(m)
    BY <2>2, EnqueueOther DEF OwnerInv, TokenInv
  <2>3. QED
    BY <1>2, <2>1, <2>2
<1>4. QED
  BY <1>1, <1>3, SeatUnmoved DEF Live, ClientDrives

\* Cross, or Refuse.
LEMMA SeatCross ==
  ASSUME OwnerInv, BrainCross
  PROVE  SeatNext
<1> USE DEF srvVars, cliVars
<1>1. /\ srv # "down" /\ sm = "LocalActive" /\ sm' = "RemoteActive"
      /\ Enqueue(Take) /\ UNCHANGED <<srv, cli>>
  BY DEF BrainCross, BrainTakes
<1>2. CASE ~cli \/ ctlLost
  <2>1. ~Live \/ (ctlLost /\ ctlLost')
    BY <1>1, <1>2 DEF Enqueue, Live
  <2>2. QED
    BY <1>1, <2>1, SeatNowhere DEF Live
<1>3. CASE cli /\ ~ctlLost
  <2>1. Live /\ Live' /\ Seat = "mac"
    BY <1>1, <1>3 DEF Live, Seat
  <2>2. CASE ctlLost'
    BY <2>1, <2>2 DEF SeatNext, Moves, Seat
  <2>3. CASE ~ctlLost'
    <3>1. TokenPlaced /\ ~OnItsWay
      BY <1>1, <1>3 DEF OwnerInv, TokenInv, TokenPlaced
    <3>2. toClient' = Append(toClient, Take)
      BY <1>1, <1>3, <2>3 DEF Enqueue
    <3>3. OnItsWay'
      BY <3>1, <3>2, AppendFirst DEF OnItsWay, OwnerInv, TypeOK, OutMsg
    <3>4. Seat' = "toWindows"
      BY <1>1, <2>1, <2>3, <3>3 DEF Seat
    <3>5. QED
      BY <2>1, <3>4 DEF SeatNext, Moves
  <2>4. QED
    BY <2>2, <2>3
<1>4. QED
  BY <1>2, <1>3

\* Return.
LEMMA SeatReturn ==
  ASSUME OwnerInv, BrainRelease
  PROVE  SeatNext
<1> USE DEF brainVars, srvVars, cliVars, outVars
<1>1. /\ srv # "down" /\ brainQ # <<>> /\ Head(brainQ) = Release
      /\ UNCHANGED <<srv, cli, ctlLost>>
  BY DEF BrainRelease, BrainTakes
<1>2. CASE ~cli \/ ctlLost
  BY <1>1, <1>2, SeatNowhere DEF Live
<1>3. CASE cli /\ ~ctlLost
  <2>1. TokenPlaced
    BY <1>1, <1>3 DEF OwnerInv, TokenInv
  <2>2. AtTheBrain
    <3>1. brainQ[1] = Release /\ 1 \in DOMAIN brainQ
      BY <1>1 DEF OwnerInv, TypeOK
    <3>2. QED
      BY <3>1 DEF AtTheBrain, Has
  <2>3. sm = "RemoteActive" /\ ~OnItsWay /\ ~ClientDrives
    BY <2>1, <2>2 DEF TokenPlaced, OwnerInv, TypeOK
  <2>4. sm' = "LocalActive"
    BY <2>3 DEF BrainRelease
  <2>5. Seat = "toMac" /\ Seat' = "mac"
    BY <1>1, <1>3, <2>3, <2>4 DEF Seat, Live
  <2>6. QED
    BY <2>5 DEF SeatNext, Moves
<1>4. QED
  BY <1>2, <1>3

\* A ReleaseControl is handed over to the brain, or refused.
LEMMA SeatReads ==
  ASSUME OwnerInv, ServerReads
  PROVE  SeatNext
<1> USE DEF brainVars, srvVars, cliVars, outVars
<1>1. /\ srv # "down" /\ toServer # <<>>
      /\ UNCHANGED <<srv, cli, active, watcher, toClient, sm>>
      /\ ctlLost' = ctlLost \/ ctlLost' = TRUE
  BY DEF ServerReads
<1>2. CASE ~cli \/ ctlLost
  BY <1>1, <1>2, SeatNowhere DEF Live
<1>3. CASE ctlLost' = ctlLost
  BY <1>1, <1>3, SeatUnmoved DEF Live, OnItsWay, ClientDrives
<1>4. CASE cli /\ ~ctlLost /\ ctlLost' = TRUE
  <2>1. TokenPlaced
    BY <1>1, <1>4 DEF OwnerInv, TokenInv
  <2>2. Head(toServer) = Release
    BY <1>4 DEF ServerReads
  <2>3. OnItsWayBack
    <3>1. toServer[1] = Release /\ 1 \in DOMAIN toServer
      BY <1>1, <2>2 DEF OwnerInv, TypeOK
    <3>2. QED
      BY <3>1 DEF OnItsWayBack, Has
  <2>4. sm = "RemoteActive" /\ ~OnItsWay /\ ~ClientDrives
    BY <2>1, <2>3 DEF TokenPlaced, OwnerInv, TypeOK
  <2>5. Seat = "toMac" /\ Seat' = "stranded"
    BY <1>1, <1>4, <2>4 DEF Seat, Live
  <2>6. QED
    BY <2>5 DEF SeatNext, Moves
<1>5. QED
  BY <1>1, <1>2, <1>3, <1>4

\* Arrive.
LEMMA SeatArrives ==
  ASSUME OwnerInv, ClientInjects
  PROVE  SeatNext
<1> USE DEF brainVars, srvVars, macVars, tapVars
<1>1. /\ cli /\ toClient # <<>> /\ toClient' = Tail(toClient)
      /\ UNCHANGED <<sm, srv, cli, watcher, ctlLost>>
  BY DEF ClientInjects
<1>2. CASE srv = "down" \/ ctlLost
  BY <1>1, <1>2, SeatNowhere DEF Live
<1>3. CASE Head(toClient) # Take
  <2>1. UNCHANGED active
    BY <1>3 DEF ClientInjects
  <2>2. OnItsWay' <=> OnItsWay
    BY <1>1, <1>3, TailOther DEF OnItsWay, OwnerInv, TypeOK
  <2>3. QED
    BY <1>1, <2>1, <2>2, SeatUnmoved DEF Live, ClientDrives
<1>4. CASE Head(toClient) = Take /\ srv # "down" /\ ~ctlLost
  <2>1. TokenPlaced
    BY <1>1, <1>4 DEF OwnerInv, TokenInv
  <2>2. active' = TRUE
    BY <1>4 DEF ClientInjects, Take, Bulk, KeyMsg
  <2>3. OnItsWay
    <3>1. toClient[1] = Take /\ 1 \in DOMAIN toClient
      BY <1>1, <1>4 DEF OwnerInv, TypeOK
    <3>2. QED
      BY <3>1 DEF OnItsWay, Has
  <2>4. sm = "RemoteActive" /\ watcher = "poll"
    BY <2>1, <2>3 DEF TokenPlaced, OwnerInv, TypeOK
  <2>5. ~OnItsWay' /\ ClientDrives'
    BY <1>1, <1>4, <2>1, <2>2, <2>4, TailOnly
    DEF TokenPlaced, OnItsWay, ClientDrives, OwnerInv, TypeOK
  <2>6. Seat = "toWindows" /\ Seat' = "windows"
    BY <1>1, <1>4, <2>3, <2>4, <2>5 DEF Seat, Live
  <2>7. QED
    BY <2>6 DEF SeatNext, Moves
<1>5. QED
  BY <1>2, <1>3, <1>4

\* Leave, or Refuse.
LEMMA SeatLeaves ==
  ASSUME OwnerInv, WatcherSends
  PROVE  SeatNext
<1> USE DEF brainVars, srvVars, macVars, tapVars
<1>1. /\ cli /\ active /\ watcher = "poll" /\ watcher' = "sent"
      /\ UNCHANGED <<sm, srv, cli, toClient>>
      /\ ctlLost => ctlLost'
  BY DEF WatcherSends
<1>2. CASE srv = "down" \/ ctlLost
  BY <1>1, <1>2, SeatNowhere DEF Live
<1>3. CASE srv # "down" /\ ~ctlLost
  <2>1. ClientDrives /\ ~ClientDrives' /\ (OnItsWay' <=> OnItsWay)
    BY <1>1 DEF ClientDrives, OnItsWay
  <2>2. sm = "RemoteActive" /\ ~OnItsWay
    BY <1>1, <1>3, <2>1 DEF OwnerInv, TokenInv, TokenPlaced, TypeOK
  <2>3. Seat = "windows" /\ Seat' \in {"toMac", "stranded"}
    BY <1>1, <1>3, <2>1, <2>2 DEF Seat, Live
  <2>4. QED
    BY <2>3 DEF SeatNext, Moves
<1>4. QED
  BY <1>2, <1>3

\* Abandon and Restart.
LEMMA SeatEnds ==
  ASSUME OwnerInv, ServerCloses \/ ServerKilled \/ ClientEnds \/ Connect
  PROVE  SeatNext
<1> USE DEF brainVars, srvVars, cliVars, outVars
<1>1. CASE ServerCloses \/ ServerKilled \/ ClientEnds
  <2>1. ~Live'
    BY <1>1 DEF ServerCloses, ServerKilled, ServerGone, ClientEnds, Live
  <2>2. CASE Live
    <3>1. Seat # "over" /\ Seat' = "over"
      BY <2>1, <2>2 DEF Seat
    <3>2. QED
      BY <3>1 DEF SeatNext
  <2>3. CASE ~Live
    BY <2>1, <2>3, SeatNowhere
  <2>4. QED
    BY <2>2, <2>3
<1>2. CASE Connect
  <2>1. srv = "down" /\ srv' = "up" /\ cli' /\ UNCHANGED <<sm, ctlLost>>
    BY <1>2 DEF Connect
  <2>2. sm = "LocalActive" /\ ~ctlLost
    BY <2>1 DEF OwnerInv, NothingLostWhenDown, TokenInv, CleanWhenDown
  <2>3. Seat = "over" /\ Seat' = "mac"
    BY <2>1, <2>2 DEF Seat, Live
  <2>4. QED
    BY <2>3 DEF SeatNext, Moves
<1>3. QED
  BY <1>1, <1>2

LEMMA SeatStep == OwnerInv /\ [Next]_vars => SeatNext
BY TokenIdle, SeatTraffic, SeatFrames, SeatCross, SeatReturn, SeatReads, SeatArrives,
  SeatLeaves, SeatEnds
DEF Next, Brain

-----------------------------------------------------------------------------
(* The invariant, and the refinement.                                       *)

\* Only a live server enqueues or reads, and one that goes down forgets.
LEMMA NothingLostStep == OwnerInv /\ [Next]_vars => NothingLostWhenDown'
<1> SUFFICES ASSUME OwnerInv, [Next]_vars
             PROVE  NothingLostWhenDown'
  OBVIOUS
<1> USE DEF brainVars, srvVars, cliVars, outVars, NothingLostWhenDown
<1>1. CASE \/ \E k \in Keys : UserKey(k) \/ UserKeyUnseen(k) \/ UserKeyUntapped(k)
           \/ \E m \in {Motion, Edge} : UserMotion(m)
           \/ BrainEnter \/ BrainLeave \/ DrainTimesOut
           \/ UNCHANGED vars
  BY <1>1, TokenIdle DEF tokenVars, OwnerInv
<1>2. CASE \/ ForwardSource \/ CooldownElapses \/ ServerBulk \/ ServerExits
           \/ WatcherClears \/ ClientBulk \/ ClientInjects \/ ClientEnds \/ BrainRelease
  BY <1>2 DEF ForwardSource, CooldownElapses, ServerBulk, ServerExits, WatcherClears,
    ClientBulk, ClientInjects, ClientEnds, BrainRelease, BrainTakes, OwnerInv
<1>3. CASE \/ BrainKey \/ BrainMotion \/ BrainCross \/ ServerReads
           \/ \E h \in Keys : DrainToPeer(h) \/ DisconnectDrain(h)
  BY <1>3 DEF BrainKey, BrainMotion, BrainCross, BrainTakes, ServerReads, DrainToPeer,
    DisconnectDrain
<1>4. CASE WatcherSends
  <2>1. srv = "down" => Len(toServer) = 0 /\ BackCap > 0
    BY ConstantsAssumption DEF OwnerInv, TokenInv, CleanWhenDown, ConstantsAssumption
  <2>2. srv = "down" => Len(toServer) < BackCap
    BY <2>1, ConstantsAssumption DEF ConstantsAssumption
  <2>3. QED
    BY <1>4, <2>2 DEF WatcherSends, OwnerInv
<1>5. CASE ServerCloses \/ ServerKilled \/ Connect
  BY <1>5 DEF ServerCloses, ServerKilled, ServerGone, Connect
<1>6. QED
  BY <1>1, <1>2, <1>3, <1>4, <1>5 DEF Next, Brain

LEMMA OwnerInvHolds == Spec => []OwnerInv
<1>1. Init => TokenInv /\ NothingLostWhenDown
  BY TokenInit DEF Init, NothingLostWhenDown
<1>2. TypeOK /\ TokenInv /\ NothingLostWhenDown /\ [Next]_vars
        => TokenInv' /\ NothingLostWhenDown'
  BY TokenStep, NothingLostStep DEF OwnerInv
<1>3. QED
  BY <1>1, <1>2, TypeCorrect, PTL DEF Spec, OwnerInv

LEMMA OwnerStep ==
  ASSUME OwnerSeated, OwnerSeated', SeatNext
  PROVE  [Handoff!Next]_Owner
BY DEF OwnerSeated, SeatNext, Stays, Moves, Handoff!Next, Handoff!Cross, Handoff!Arrive,
  Handoff!Leave, Handoff!Return, Handoff!Refuse, Handoff!Abandon, Handoff!Restart

\* Keyboard and mouse belong to one machine at a time and change hands by one frame
\* that is under way or delivered: the brain, the reader, the injector and the watcher
\* together, through full channels, drains and ends of sessions, do nothing else.
THEOREM SessionImplementsHandoff == Spec => ImplementsHandoff
<1>1. Init => Handoff!Init
  BY DEF Init, Handoff!Init, Owner
<1>2. OwnerInv /\ OwnerInv' /\ [Next]_vars => [Handoff!Next]_Owner
  BY OwnerIsSeat, OwnerIsSeatNext, SeatStep, OwnerStep
<1>3. QED
  BY <1>1, <1>2, OwnerInvHolds, PTL DEF Spec, ImplementsHandoff, Handoff!Spec
=============================================================================
