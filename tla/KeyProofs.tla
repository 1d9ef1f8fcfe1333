------------------------------- MODULE KeyProofs -------------------------------
(***************************************************************************)
(* Proof that no key sticks: that the two trackers of held keys agree      *)
(* across the channel between them (InputSession!KeysAgree), and that the  *)
(* server holds a key only as long as somebody presses it (NoGhostHold),   *)
(* for every keyboard, remapping and channel capacity.                     *)
(***************************************************************************)
EXTENDS InputSessionProofs

-----------------------------------------------------------------------------
(* The last word about a key in a queue.                                    *)

Silent(s, k) == \A i \in DOMAIN s : ~About(s[i], k)

EndsDown(s, k) ==
  \E i \in DOMAIN s : s[i] = Down(k) /\ \A j \in DOMAIN s : About(s[j], k) => j <= i

LEMMA AppendAt ==
  ASSUME NEW S, NEW s \in Seq(S), NEW m \in S
  PROVE  /\ DOMAIN s = 1 .. Len(s) /\ Len(s) \in Nat
         /\ DOMAIN Append(s, m) = 1 .. Len(s) + 1
         /\ \A i \in 1 .. Len(s) : Append(s, m)[i] = s[i]
         /\ Append(s, m)[Len(s) + 1] = m
OBVIOUS

LEMMA TailAt ==
  ASSUME NEW S, NEW s \in Seq(S), s # <<>>
  PROVE  /\ DOMAIN s = 1 .. Len(s) /\ Len(s) \in Nat \ {0}
         /\ DOMAIN Tail(s) = 1 .. Len(s) - 1
         /\ \A i \in 1 .. Len(s) - 1 : Tail(s)[i] = s[i + 1]
         /\ s[1] = Head(s)
OBVIOUS

LEMMA AboutIs ==
  ASSUME NEW k \in Keys
  PROVE  /\ About(Down(k), k) /\ About(Up(k), k) /\ Down(k) # Up(k)
         /\ \A m : About(m, k) => m \in {Down(k), Up(k)}
         /\ \A j : j # k => /\ ~About(Down(k), j) /\ ~About(Up(k), j)
                            /\ Down(j) # Down(k) /\ Up(j) # Up(k) /\ Up(j) # Down(k)
         /\ \A m \in {Motion, Edge, Release, Take, Bulk} : ~About(m, k)
BY DEF About, Down, Up, KeyMsg, Motion, Edge, Release, Take, Bulk

\* Queueing another message changes nothing for k; queueing one about it decides.
LEMMA AppendElse ==
  ASSUME NEW S, NEW s \in Seq(S), NEW m \in S, NEW k \in Keys, ~About(m, k)
  PROVE  /\ Silent(Append(s, m), k) <=> Silent(s, k)
         /\ EndsDown(Append(s, m), k) <=> EndsDown(s, k)
<1>1. Silent(Append(s, m), k) <=> Silent(s, k)
  BY AppendAt DEF Silent
<1>2. m # Down(k)
  BY AboutIs
<1>3. EndsDown(s, k) => EndsDown(Append(s, m), k)
  BY AppendAt DEF EndsDown
<1>4. EndsDown(Append(s, m), k) => EndsDown(s, k)
  BY AppendAt, <1>2 DEF EndsDown
<1>5. QED
  BY <1>1, <1>3, <1>4

LEMMA AppendSays ==
  ASSUME NEW S, NEW s \in Seq(S), NEW m \in S, NEW k \in Keys, About(m, k)
  PROVE  ~Silent(Append(s, m), k) /\ (EndsDown(Append(s, m), k) <=> m = Down(k))
<1>1. ~Silent(Append(s, m), k)
  BY AppendAt DEF Silent
<1>2. m = Down(k) => EndsDown(Append(s, m), k)
  BY AppendAt DEF EndsDown
<1>3. ASSUME EndsDown(Append(s, m), k)
      PROVE  m = Down(k)
  <2>1. PICK i \in DOMAIN Append(s, m) :
          /\ Append(s, m)[i] = Down(k)
          /\ \A j \in DOMAIN Append(s, m) : About(Append(s, m)[j], k) => j <= i
    BY <1>3 DEF EndsDown
  <2>2. Len(s) + 1 \in DOMAIN Append(s, m) /\ Len(s) + 1 <= i /\ i <= Len(s) + 1
    BY <2>1, AppendAt
  <2>3. QED
    BY <2>1, <2>2, AppendAt
<1>4. QED
  BY <1>1, <1>2, <1>3

\* Taking the first message: it had the last word only if the rest is silent.
LEMMA TailElse ==
  ASSUME NEW S, NEW s \in Seq(S), s # <<>>, NEW k \in Keys, ~About(Head(s), k)
  PROVE  /\ Silent(Tail(s), k) <=> Silent(s, k)
         /\ EndsDown(Tail(s), k) <=> EndsDown(s, k)
<1>1. \A i \in DOMAIN Tail(s) : i + 1 \in DOMAIN s /\ s[i + 1] = Tail(s)[i] /\ i \in Nat
  BY TailAt
<1>2. \A i \in DOMAIN s :
        About(s[i], k) => i - 1 \in DOMAIN Tail(s) /\ Tail(s)[i - 1] = s[i] /\ i \in Nat
  BY TailAt
<1>3. Silent(Tail(s), k) <=> Silent(s, k)
  BY <1>1, <1>2 DEF Silent
<1>4. ASSUME EndsDown(s, k)
      PROVE  EndsDown(Tail(s), k)
  <2>1. PICK i \in DOMAIN s :
          s[i] = Down(k) /\ \A j \in DOMAIN s : About(s[j], k) => j <= i
    BY <1>4 DEF EndsDown
  <2>2. i - 1 \in DOMAIN Tail(s) /\ Tail(s)[i - 1] = Down(k)
    BY <1>2, <2>1, AboutIs
  <2>3. \A j \in DOMAIN Tail(s) : About(Tail(s)[j], k) => j <= i - 1
    BY <1>1, <1>2, <2>1, AboutIs
  <2>4. QED
    BY <2>2, <2>3 DEF EndsDown
<1>5. ASSUME EndsDown(Tail(s), k)
      PROVE  EndsDown(s, k)
  <2>1. PICK i \in DOMAIN Tail(s) :
          /\ Tail(s)[i] = Down(k)
          /\ \A j \in DOMAIN Tail(s) : About(Tail(s)[j], k) => j <= i
    BY <1>5 DEF EndsDown
  <2>2. i + 1 \in DOMAIN s /\ s[i + 1] = Down(k)
    BY <1>1, <2>1
  <2>3. ASSUME NEW j \in DOMAIN s, About(s[j], k)
        PROVE  j <= i + 1
    <3>1. j - 1 \in DOMAIN Tail(s) /\ About(Tail(s)[j - 1], k) /\ j \in Nat
      BY <1>2, <2>3
    <3>2. j - 1 <= i /\ i \in Nat
      BY <1>1, <2>1, <3>1
    <3>3. QED
      BY <3>1, <3>2
  <2>4. QED
    BY <2>2, <2>3 DEF EndsDown
<1>6. QED
  BY <1>3, <1>4, <1>5

LEMMA TailSays ==
  ASSUME NEW S, NEW s \in Seq(S), s # <<>>, NEW k \in Keys, About(Head(s), k)
  PROVE  /\ ~Silent(s, k)
         /\ EndsDown(s, k) <=>
              EndsDown(Tail(s), k) \/ (Silent(Tail(s), k) /\ Head(s) = Down(k))
<1>1. \A i \in DOMAIN Tail(s) : i + 1 \in DOMAIN s /\ s[i + 1] = Tail(s)[i] /\ i \in Nat \ {0}
  BY TailAt
<1>2. \A i \in DOMAIN s :
        i # 1 => i - 1 \in DOMAIN Tail(s) /\ Tail(s)[i - 1] = s[i] /\ i \in Nat
  BY TailAt
<1>3. 1 \in DOMAIN s /\ About(s[1], k)
  BY TailAt
<1>4. ASSUME EndsDown(s, k)
      PROVE  EndsDown(Tail(s), k) \/ (Silent(Tail(s), k) /\ Head(s) = Down(k))
  <2>1. PICK i \in DOMAIN s :
          s[i] = Down(k) /\ \A j \in DOMAIN s : About(s[j], k) => j <= i
    BY <1>4 DEF EndsDown
  <2>2. CASE i = 1
    BY <1>1, <2>1, <2>2, TailAt DEF Silent
  <2>3. CASE i # 1
    <3>1. i - 1 \in DOMAIN Tail(s) /\ Tail(s)[i - 1] = Down(k)
      BY <1>2, <2>1, <2>3
    <3>2. \A j \in DOMAIN Tail(s) : About(Tail(s)[j], k) => j <= i - 1
      BY <1>1, <1>2, <2>1, <2>3
    <3>3. QED
      BY <3>1, <3>2 DEF EndsDown
  <2>4. QED
    BY <2>2, <2>3
<1>5. ASSUME EndsDown(Tail(s), k)
      PROVE  EndsDown(s, k)
  <2>1. PICK i \in DOMAIN Tail(s) :
          /\ Tail(s)[i] = Down(k)
          /\ \A j \in DOMAIN Tail(s) : About(Tail(s)[j], k) => j <= i
    BY <1>5 DEF EndsDown
  <2>2. i + 1 \in DOMAIN s /\ s[i + 1] = Down(k)
    BY <1>1, <2>1
  <2>3. ASSUME NEW j \in DOMAIN s, About(s[j], k)
        PROVE  j <= i + 1
    <3>1. CASE j = 1
      BY <1>1, <3>1
    <3>2. CASE j # 1
      <4>1. j - 1 \in DOMAIN Tail(s) /\ About(Tail(s)[j - 1], k) /\ j \in Nat
        BY <1>2, <2>3, <3>2
      <4>2. j - 1 <= i /\ i \in Nat
        BY <1>1, <2>1, <4>1
      <4>3. QED
        BY <4>1, <4>2
    <3>3. QED
      BY <3>1, <3>2
  <2>4. QED
    BY <2>2, <2>3 DEF EndsDown
<1>6. ASSUME Silent(Tail(s), k), Head(s) = Down(k)
      PROVE  EndsDown(s, k)
  <2>1. \A j \in DOMAIN s : About(s[j], k) => j = 1
    BY <1>2, <1>6 DEF Silent
  <2>2. s[1] = Down(k)
    BY <1>6, TailAt
  <2>3. QED
    BY <1>3, <2>1, <2>2 DEF EndsDown
<1>7. QED
  BY <1>3, <1>4, <1>5, <1>6 DEF Silent

LEMMA EmptyIsSilent == \A k : Silent(<<>>, k) /\ ~EndsDown(<<>>, k)
BY DEF Silent, EndsDown

-----------------------------------------------------------------------------
(* The books the server keeps.                                              *)

\* Between sessions all is empty; the disconnect drain owes nothing before it runs,
\* and a transition holds nothing while it drains; a client that is gone gets nothing.
Books ==
  /\ srv = "down" => /\ held = {} /\ toRelease = {} /\ owed = {}
                     /\ tapQ = <<>> /\ brainQ = <<>>
  /\ srv = "up" => owed = {}
  /\ pc = "leaving" => held = {}
  /\ ~cli => toClient = <<>>

bookVars == <<held, toRelease, owed, outLost, toClient, winDown, pc, srv, cli>>

LEMMA BooksStep == TypeOK /\ HeldOnlyAway /\ Books /\ [Next]_vars => Books'
<1> SUFFICES ASSUME TypeOK, HeldOnlyAway, Books, [Next]_vars
             PROVE  Books'
  OBVIOUS
<1> USE DEF Books, macVars, tapVars, brainVars, srvVars, cliVars, outVars
<1>1. CASE UNCHANGED vars
  BY <1>1 DEF vars
<1>2. CASE \/ \E k \in Keys : UserKey(k) \/ UserKeyUnseen(k) \/ UserKeyUntapped(k)
           \/ \E m \in {Motion, Edge} : UserMotion(m)
           \/ ForwardSource \/ CooldownElapses \/ ServerReads
  BY <1>2 DEF UserKey, UserKeyUnseen, UserKeyUntapped, UserMotion, ForwardSource,
    CooldownElapses, ServerReads
<1>3. CASE BrainKey \/ BrainMotion \/ BrainCross \/ BrainRelease
  BY <1>3 DEF BrainKey, BrainMotion, BrainCross, BrainRelease, BrainTakes, Enqueue,
    HeldOnlyAway
<1>4. CASE BrainEnter \/ BrainLeave
  BY <1>4 DEF BrainEnter, BrainLeave
<1>5. CASE \E h \in Keys : DrainToPeer(h) \/ DisconnectDrain(h)
  BY <1>5 DEF DrainToPeer, DisconnectDrain, Enqueue
<1>6. CASE ServerBulk \/ ClientInjects \/ WatcherSends \/ WatcherClears \/ ClientBulk
  BY <1>6 DEF ServerBulk, ClientInjects, WatcherSends, WatcherClears, ClientBulk
<1>7. CASE ServerExits \/ DrainTimesOut \/ ClientEnds \/ Connect
  BY <1>7 DEF ServerExits, DrainTimesOut, ClientEnds, Connect
<1>8. CASE ServerCloses \/ ServerKilled
  <2>1. \A t \in Prefixes(<<>>) : t = <<>>
    BY DEF Prefixes
  <2>2. QED
    BY <1>8, <2>1 DEF ServerCloses, ServerKilled, ServerGone
<1>9. QED
  BY <1>1, <1>2, <1>3, <1>4, <1>5, <1>6, <1>7, <1>8 DEF Next, Brain

-----------------------------------------------------------------------------
(* The two trackers agree.                                                  *)

OnWire(h) == EndsDown(toClient, h) \/ (Silent(toClient, h) /\ h \in winDown)

LEMMA WireDownIs ==
  ASSUME TypeOK, NEW h \in Keys
  PROVE  WireDown(h) <=> OnWire(h)
<1>1. ASSUME NEW m
      PROVE  (About(m, h) /\ m.type = "Down") <=> m = Down(h)
  <2>1. Down(h).type = "Down" /\ Up(h).type = "Up"
    BY DEF Down, Up
  <2>2. CASE m = Down(h)
    BY <2>1, <2>2, AboutIs
  <2>3. CASE m # Down(h)
    BY <2>1, <2>3, AboutIs
  <2>4. QED
    BY <2>2, <2>3
<1>2. CASE Silent(toClient, h)
  BY <1>2, AboutIs DEF WireDown, OnWire, Silent, EndsDown
<1>3. CASE ~Silent(toClient, h)
  BY <1>1, <1>3 DEF WireDown, OnWire, Silent, EndsDown
<1>4. QED
  BY <1>2, <1>3

Agree ==
  srv # "down" /\ cli =>
    \A h \in Keys \ outLost : /\ OnWire(h) => Owes(h)
                              /\ srv = "up" => (Owes(h) => OnWire(h))

AgreeIs == KeysAgree <=> Agree

LEMMA KeysAgreeIs == TypeOK => AgreeIs
BY WireDownIs DEF KeysAgree, Agree, AgreeIs

\* A frame that is queued decides about its own key and no other.
LEMMA WireEnqueue ==
  ASSUME TypeOK, cli, NEW m \in OutMsg, Enqueue(m), UNCHANGED winDown,
         NEW h \in Keys, h \notin outLost'
  PROVE  /\ h \notin outLost
         /\ About(m, h) => (OnWire(h)' <=> m = Down(h))
         /\ ~About(m, h) => (OnWire(h)' <=> OnWire(h))
<1>1. CASE Len(toClient) >= OutCap
  BY <1>1 DEF Enqueue, OnWire, TypeOK
<1>2. CASE ~(Len(toClient) >= OutCap)
  <2>1. toClient' = Append(toClient, m) /\ outLost' = outLost /\ toClient \in Seq(OutMsg)
    BY <1>2 DEF Enqueue, TypeOK
  <2>2. QED
    BY <2>1, AppendElse, AppendSays DEF OnWire
<1>3. QED
  BY <1>1, <1>2

KeyInv == TypeOK /\ HeldOnlyAway /\ Books /\ GuardTracksSink

LEMMA AgreeIdle == Agree /\ UNCHANGED bookVars => Agree'
BY DEF bookVars, Agree, OnWire, Owes

\* A key forwarded by the brain: held as long as it is on the wire as down.
LEMMA AgreeKey ==
  ASSUME KeyInv, Agree, BrainKey
  PROVE  Agree'
<1> USE DEF brainVars, srvVars, cliVars
<1>1. /\ srv # "down" /\ pc = "idle" /\ Head(brainQ) \in KeyMsg
      /\ UNCHANGED <<srv, cli, winDown, toRelease, owed>>
  BY DEF BrainKey, BrainTakes
<1>2. CASE sm = "RemoteActive" /\ cli
  <2> DEFINE hid == Remap[Head(brainQ).key]
  <2>1. hid \in Keys /\ Head(brainQ).type \in {"Down", "Up"}
    BY <1>1, ConstantsAssumption DEF KeyMsg, ConstantsAssumption
  <2>2. PICK m \in {Down(hid), Up(hid)} : held' = Observe(held, m) /\ Enqueue(m)
    BY <1>2 DEF BrainKey
  <2>3. m \in OutMsg /\ About(m, hid) /\ \A h \in Keys : h # hid => ~About(m, h)
    <3> HIDE DEF hid
    <3>1. Down(hid) \in OutMsg /\ Up(hid) \in OutMsg
      BY <2>1 DEF OutMsg, KeyMsg, Down, Up
    <3>2. QED
      BY <2>1, <2>2, <3>1, AboutIs
  <2>4. held' = IF m = Down(hid) THEN held \cup {hid} ELSE held \ {hid}
    BY <2>2 DEF Observe, Down, Up
  <2>5. toRelease = {} /\ (srv = "up" => owed = {})
    BY <1>1 DEF KeyInv, HeldOnlyAway, Books
  <2>6. ASSUME NEW h \in Keys, h \notin outLost'
        PROVE  (OnWire(h)' => Owes(h)') /\ (srv = "up" => (Owes(h)' => OnWire(h)'))
    <3>1. /\ h \notin outLost
          /\ About(m, h) => (OnWire(h)' <=> m = Down(h))
          /\ ~About(m, h) => (OnWire(h)' <=> OnWire(h))
      BY <1>1, <1>2, <2>2, <2>3, <2>6, WireEnqueue DEF KeyInv
    <3>2. CASE h = hid
      BY <1>1, <2>3, <2>4, <2>5, <3>1, <3>2 DEF Owes
    <3>3. CASE h # hid
      BY <1>1, <1>2, <2>3, <2>4, <3>1, <3>3 DEF Owes, Agree
    <3>4. QED
      BY <3>2, <3>3
  <2>7. QED
    BY <1>1, <2>6 DEF Agree
<1>3. CASE sm = "LocalActive"
  BY <1>1, <1>3, AgreeIdle DEF BrainKey, bookVars, outVars
<1>4. CASE ~cli
  BY <1>1, <1>4 DEF Agree
<1>5. QED
  BY <1>2, <1>3, <1>4 DEF KeyInv, TypeOK

\* Frames that are about no key; the transitions move what is held to the drain.
LEMMA AgreeOther ==
  ASSUME KeyInv, Agree, BrainMotion \/ BrainCross \/ BrainRelease \/ ServerBulk
  PROVE  Agree'
<1> USE DEF brainVars, srvVars, cliVars, outVars
<1>1. /\ srv # "down" /\ UNCHANGED <<srv, cli, winDown, owed>>
      /\ held' \cup toRelease' = held \cup toRelease
  BY DEF BrainMotion, BrainCross, BrainRelease, ServerBulk, BrainTakes, KeyInv, HeldOnlyAway
<1>2. CASE UNCHANGED <<toClient, outLost>>
  BY <1>1, <1>2 DEF Agree, OnWire, Owes
<1>3. CASE cli /\ \E m \in {Take, Bulk} : Enqueue(m)
  <2>1. PICK m \in {Take, Bulk} : Enqueue(m)
    BY <1>3
  <2>2. m \in OutMsg /\ \A h \in Keys : ~About(m, h)
    BY AboutIs DEF OutMsg
  <2>3. ASSUME NEW h \in Keys, h \notin outLost'
        PROVE  (OnWire(h)' <=> OnWire(h)) /\ h \notin outLost /\ (Owes(h)' <=> Owes(h))
    BY <1>1, <1>3, <2>1, <2>2, <2>3, WireEnqueue DEF KeyInv, Owes
  <2>4. QED
    BY <1>1, <1>3, <2>3 DEF Agree
<1>4. CASE ~cli
  BY <1>1, <1>4 DEF Agree
<1>5. CASE ServerBulk
  <2>1. ~(Len(toClient) >= OutCap) /\ cli
    BY <1>5, ConstantsAssumption DEF ServerBulk, KeyInv, TypeOK, ConstantsAssumption
  <2>2. Enqueue(Bulk)
    BY <1>5, <2>1, AboutIs DEF ServerBulk, Enqueue, KeyInv, TypeOK, Take, Bulk
  <2>3. QED
    BY <1>3, <2>1, <2>2
<1>6. QED
  BY <1>2, <1>3, <1>4, <1>5 DEF BrainMotion, BrainCross, BrainRelease

\* The drains queue the Up of what they take.
LEMMA AgreeDrain ==
  ASSUME KeyInv, Agree, NEW h \in Keys, DrainToPeer(h) \/ DisconnectDrain(h)
  PROVE  Agree'
<1> USE DEF brainVars, srvVars, cliVars
<1>1. /\ srv # "down" /\ Enqueue(Up(h)) /\ UNCHANGED <<srv, cli, winDown, held>>
      /\ toRelease' \cup owed' \subseteq toRelease \cup owed
      /\ (toRelease \cup owed) \ {h} \subseteq toRelease' \cup owed'
  BY DEF DrainToPeer, DisconnectDrain
<1>2. srv = "up" => h \notin held \cup toRelease' \cup owed'
  BY DEF KeyInv, Books, HeldOnlyAway, DrainToPeer, DisconnectDrain, TypeOK
<1>3. CASE cli
  <2>1. Up(h) \in OutMsg /\ About(Up(h), h) /\ \A j \in Keys : j # h => ~About(Up(h), j)
    BY AboutIs DEF OutMsg, KeyMsg, Up
  <2>2. ASSUME NEW j \in Keys, j \notin outLost'
        PROVE  (OnWire(j)' => Owes(j)') /\ (srv = "up" => (Owes(j)' => OnWire(j)'))
    <3>1. /\ j \notin outLost
          /\ About(Up(h), j) => (OnWire(j)' <=> Up(h) = Down(j))
          /\ ~About(Up(h), j) => (OnWire(j)' <=> OnWire(j))
      BY <1>1, <1>3, <2>1, <2>2, WireEnqueue DEF KeyInv
    <3>2. CASE j = h
      BY <1>1, <1>2, <2>1, <3>1, <3>2, AboutIs DEF Owes
    <3>3. CASE j # h
      BY <1>1, <1>3, <2>1, <3>1, <3>3 DEF Owes, Agree
    <3>4. QED
      BY <3>2, <3>3
  <2>3. QED
    BY <1>1, <2>2 DEF Agree
<1>4. CASE ~cli
  BY <1>1, <1>4 DEF Agree
<1>5. QED
  BY <1>3, <1>4

\* The injector brings about what the frame it reads has said.
LEMMA AgreeInjects ==
  ASSUME KeyInv, Agree, ClientInjects
  PROVE  Agree'
<1> USE DEF brainVars, srvVars, outVars
<1>1. /\ toClient \in Seq(OutMsg) /\ toClient # <<>> /\ toClient' = Tail(toClient)
      /\ UNCHANGED <<srv, cli, held, toRelease, owed, outLost>>
  BY DEF ClientInjects, KeyInv, TypeOK
<1>2. ASSUME NEW h \in Keys
      PROVE  OnWire(h)' <=> OnWire(h)
  <2>1. CASE About(Head(toClient), h)
    <3>1. winDown' = Observe(winDown, Head(toClient)) /\ Head(toClient) \in {Down(h), Up(h)}
      BY <2>1, AboutIs DEF ClientInjects, About, KeyMsg, Take, Bulk
    <3>2. h \in winDown' <=> Head(toClient) = Down(h)
      BY <3>1, AboutIs DEF Observe, Down, Up
    <3>3. QED
      BY <1>1, <2>1, <3>2, TailSays DEF OnWire
  <2>2. CASE ~About(Head(toClient), h)
    <3>1. h \in winDown' <=> h \in winDown
      BY <2>2 DEF ClientInjects, Observe, About, KeyMsg
    <3>2. QED
      BY <1>1, <2>2, <3>1, TailElse DEF OnWire
  <2>3. QED
    BY <2>1, <2>2
<1>3. QED
  BY <1>1, <1>2 DEF Agree, Owes

\* A session that ends passes on what it owes; one that begins owes nothing.
LEMMA AgreeEnds ==
  ASSUME KeyInv, Agree,
         \/ ServerExits \/ DrainTimesOut \/ ServerCloses \/ ServerKilled
         \/ ClientEnds \/ Connect
  PROVE  Agree'
<1> USE DEF macVars, brainVars, srvVars, cliVars, outVars
<1>1. CASE ServerExits
  BY <1>1 DEF ServerExits, KeyInv, Books, Agree, OnWire, Owes
<1>2. CASE DrainTimesOut
  BY <1>2 DEF DrainTimesOut, Agree, OnWire, Owes
<1>3. CASE ServerCloses \/ ServerKilled
  BY <1>3 DEF ServerCloses, ServerKilled, ServerGone, Agree
<1>4. CASE ClientEnds
  BY <1>4 DEF ClientEnds, Agree
<1>5. CASE Connect
  BY <1>5, EmptyIsSilent
  DEF Connect, KeyInv, Books, GuardTracksSink, Agree, OnWire, Owes
<1>6. QED
  BY <1>1, <1>2, <1>3, <1>4, <1>5

LEMMA AgreeStep == KeyInv /\ Agree /\ [Next]_vars => Agree'
<1> SUFFICES ASSUME KeyInv, Agree, [Next]_vars
             PROVE  Agree'
  OBVIOUS
<1>1. ASSUME \/ \E k \in Keys : UserKey(k) \/ UserKeyUnseen(k) \/ UserKeyUntapped(k)
             \/ \E m \in {Motion, Edge} : UserMotion(m)
             \/ ForwardSource \/ CooldownElapses \/ ServerReads
             \/ WatcherSends \/ WatcherClears \/ ClientBulk \/ UNCHANGED vars
      PROVE  UNCHANGED bookVars
  BY <1>1
  DEF UserKey, UserKeyUnseen, UserKeyUntapped, UserMotion, ForwardSource,
      CooldownElapses, ServerReads, WatcherSends, WatcherClears, ClientBulk, vars, bookVars, macVars, brainVars, srvVars,
      cliVars, outVars
<1>2. CASE BrainEnter \/ BrainLeave
  BY <1>2
  DEF BrainEnter, BrainLeave, Agree, OnWire, Owes, srvVars, cliVars, outVars
<1>3. QED
  BY <1>1, <1>2, AgreeIdle, AgreeKey, AgreeOther, AgreeDrain, AgreeInjects, AgreeEnds
  DEF Next, Brain

-----------------------------------------------------------------------------
(* KeysAgree, in every reachable state.                                     *)

LEMMA KeyInvInit == Init => KeyInv /\ Agree
<1> SUFFICES ASSUME Init
             PROVE  KeyInv /\ Agree
  OBVIOUS
<1>1. TypeOK
  BY TypeInit
<1>2. HeldOnlyAway /\ Books /\ GuardTracksSink
  BY DEF Init, HeldOnlyAway, Books, GuardTracksSink
<1>3. Agree
  BY EmptyIsSilent DEF Init, Agree, OnWire, Owes
<1>4. QED
  BY <1>1, <1>2, <1>3 DEF KeyInv

LEMMA KeyInvHolds == Spec => [](KeyInv /\ Agree)
<1>1. KeyInv /\ Agree /\ [Next]_vars => KeyInv' /\ Agree'
  BY TypeStep, HeldOnlyAwayStep, BooksStep, GuardStep, AgreeStep DEF KeyInv
<1>2. QED
  BY KeyInvInit, <1>1, PTL DEF Spec

\* A key Windows holds, or will hold, is one the server tracks, and the other way
\* round while no drain races the brain: on_wire, the drains and the injector keep the
\* two trackers in step through every interleaving and every end of a session.
THEOREM TrackersAgree == Spec => []KeysAgree
<1>1. KeyInv /\ Agree => KeysAgree
  BY KeysAgreeIs DEF KeyInv, AgreeIs
<1>2. QED
  BY KeyInvHolds, <1>1, PTL

-----------------------------------------------------------------------------
(* A Down and the Up behind it.                                             *)

HasUp(s, k) == \E i \in DOMAIN s : s[i] = Up(k)

\* A Down for k with no Up for k anywhere behind it.
Loose(s, k) ==
  \E i \in DOMAIN s : s[i] = Down(k) /\ \A j \in DOMAIN s : j > i => s[j] # Up(k)

LEMMA UpQueued ==
  ASSUME NEW S, NEW s \in Seq(S), NEW m \in S, NEW k
  PROVE  HasUp(Append(s, m), k) <=> HasUp(s, k) \/ m = Up(k)
BY AppendAt DEF HasUp

LEMMA LooseQueued ==
  ASSUME NEW S, NEW s \in Seq(S), NEW m \in S, NEW k, Loose(Append(s, m), k)
  PROVE  m # Up(k) /\ (Loose(s, k) \/ m = Down(k))
<1>1. PICK i \in DOMAIN Append(s, m) :
        /\ Append(s, m)[i] = Down(k)
        /\ \A j \in DOMAIN Append(s, m) : j > i => Append(s, m)[j] # Up(k)
  BY DEF Loose
<1>2. Down(k) # Up(k)
  BY DEF Down, Up
<1>3. CASE i = Len(s) + 1
  BY <1>1, <1>2, <1>3, AppendAt
<1>4. CASE i # Len(s) + 1
  <2>1. i \in DOMAIN s /\ s[i] = Down(k) /\ Len(s) + 1 > i
    BY <1>1, <1>4, AppendAt
  <2>2. ASSUME NEW j \in DOMAIN s, j > i
        PROVE  s[j] # Up(k)
    BY <1>1, <2>2, AppendAt
  <2>3. m # Up(k)
    BY <1>1, <2>1, AppendAt
  <2>4. QED
    BY <2>1, <2>2, <2>3 DEF Loose
<1>5. QED
  BY <1>3, <1>4

LEMMA UpTaken ==
  ASSUME NEW S, NEW s \in Seq(S), s # <<>>, NEW k
  PROVE  HasUp(s, k) <=> HasUp(Tail(s), k) \/ Head(s) = Up(k)
<1>1. \A i \in DOMAIN Tail(s) : i + 1 \in DOMAIN s /\ s[i + 1] = Tail(s)[i]
  BY TailAt
<1>2. \A i \in DOMAIN s :
        i # 1 => i - 1 \in DOMAIN Tail(s) /\ Tail(s)[i - 1] = s[i]
  BY TailAt
<1>3. 1 \in DOMAIN s /\ s[1] = Head(s)
  BY TailAt
<1>4. QED
  BY <1>1, <1>2, <1>3, SMTT(30) DEF HasUp

LEMMA LooseTaken ==
  ASSUME NEW S, NEW s \in Seq(S), s # <<>>, NEW k, Loose(Tail(s), k)
  PROVE  Loose(s, k)
<1>1. PICK i \in DOMAIN Tail(s) :
        /\ Tail(s)[i] = Down(k)
        /\ \A j \in DOMAIN Tail(s) : j > i => Tail(s)[j] # Up(k)
  BY DEF Loose
<1>2. i + 1 \in DOMAIN s /\ s[i + 1] = Down(k) /\ i \in Nat
  BY <1>1, TailAt
<1>3. ASSUME NEW j \in DOMAIN s, j > i + 1
      PROVE  s[j] # Up(k)
  <2>1. j - 1 \in DOMAIN Tail(s) /\ j - 1 > i /\ Tail(s)[j - 1] = s[j]
    BY <1>2, <1>3, TailAt
  <2>2. QED
    BY <1>1, <2>1
<1>4. QED
  BY <1>2, <1>3 DEF Loose

LEMMA DownTaken ==
  ASSUME NEW S, NEW s \in Seq(S), s # <<>>, NEW k, Head(s) = Down(k)
  PROVE  Loose(s, k) \/ HasUp(Tail(s), k)
<1> SUFFICES ASSUME ~HasUp(Tail(s), k)
             PROVE  Loose(s, k)
  OBVIOUS
<1>1. 1 \in DOMAIN s /\ s[1] = Down(k)
  BY TailAt
<1>2. ASSUME NEW j \in DOMAIN s, j > 1
      PROVE  s[j] # Up(k)
  <2>1. j - 1 \in DOMAIN Tail(s) /\ Tail(s)[j - 1] = s[j]
    BY <1>2, TailAt
  <2>2. QED
    BY <2>1 DEF HasUp
<1>3. QED
  BY <1>1, <1>2 DEF Loose

-----------------------------------------------------------------------------
(* Whoever is down is pressed, or excused.                                  *)

Alibi(k) == k \in phys \/ k \in srcLost \/ ~InSync(k)

\* A Down of k is still to be read, and nothing behind it takes it back.
Pending(k) == Loose(tapQ, k) \/ (~HasUp(tapQ, k) /\ Loose(brainQ, k))

Excused(k) == Alibi(k) \/ HasUp(tapQ, k) \/ HasUp(brainQ, k)

PendingIsPressed == \A k \in Keys : Pending(k) => Alibi(k)
HeldIsExcused == \A h \in held : \E k \in Keys : Remap[k] = h /\ Excused(k)

GhostInv == PendingIsPressed /\ HeldIsExcused

LEMMA GhostIs == HeldIsExcused <=> NoGhostHold
BY DEF HeldIsExcused, NoGhostHold, Excused, Alibi, HasUp, UpComing

\* It is enough that no key is pending without an alibi, none loses its excuse, and the
\* server holds nothing new.
LEMMA GhostKeeps ==
  ASSUME GhostInv, held' \subseteq held,
         \A k \in Keys : /\ Pending(k)' => Alibi(k)'
                         /\ Excused(k) => Excused(k)'
  PROVE  GhostInv'
BY DEF GhostInv, PendingIsPressed, HeldIsExcused

LEMMA GhostIdle ==
  GhostInv /\ UNCHANGED <<phys, heldMods, tapQ, brainQ, srcLost>> /\ held' \subseteq held
    => GhostInv'
BY DEF GhostInv, PendingIsPressed, HeldIsExcused, Pending, Alibi, InSync, Excused

\* A key pressed or released: its own event takes the place of the alibi it loses.
LEMMA GhostUser ==
  ASSUME KeyInv, GhostInv, NEW k0 \in Keys, UserKey(k0)
  PROVE  GhostInv'
<1> USE DEF brainVars
<1>1. /\ tapQ \in Seq(TapMsg) /\ tapQ' = Append(tapQ, Translate(k0))
      /\ UNCHANGED <<brainQ, srcLost, held>>
  BY DEF UserKey, KeyInv, TypeOK
<1>2. Translate(k0) \in TapMsg /\ Translate(k0) \in {Down(k0), Up(k0)}
  BY DEF Translate, TapMsg, KeyMsg, Down, Up
<1>3. \A k \in Keys : InSync(k)' <=> InSync(k)
  BY ConstantsAssumption DEF ConstantsAssumption, UserKey, Toggle, InSync, KeyInv, TypeOK
<1>4. \A k \in Keys : k # k0 => (k \in phys' <=> k \in phys)
  BY DEF UserKey, Toggle
<1>5. InSync(k0) => k0 \in phys' \/ Translate(k0) = Up(k0)
  BY DEF UserKey, Toggle, InSync, Translate
<1>6. ASSUME NEW k \in Keys
      PROVE  /\ Pending(k)' => Alibi(k)'
             /\ Excused(k) => Excused(k)'
  <2>1. CASE k = k0
    <3>1. CASE Alibi(k)'
      BY <3>1 DEF Excused
    <3>2. CASE ~Alibi(k)'
      <4>1. Translate(k0) = Up(k0)
        BY <1>3, <1>5, <2>1, <3>2 DEF Alibi
      <4>2. HasUp(tapQ', k) /\ ~Loose(tapQ', k)
        BY <1>1, <1>2, <2>1, <4>1, UpQueued, LooseQueued
      <4>3. QED
        BY <4>2 DEF Pending, Excused
    <3>3. QED
      BY <3>1, <3>2
  <2>2. CASE k # k0
    <3>1. Translate(k0) # Down(k) /\ Translate(k0) # Up(k)
      BY <1>2, <2>2, AboutIs
    <3>2. HasUp(tapQ', k) <=> HasUp(tapQ, k)
      BY <1>1, <1>2, <3>1, UpQueued
    <3>3. Loose(tapQ', k) => Loose(tapQ, k)
      BY <1>1, <1>2, <3>1, LooseQueued
    <3>4. Alibi(k)' <=> Alibi(k)
      BY <1>1, <1>3, <1>4, <2>2 DEF Alibi
    <3>5. QED
      BY <1>1, <3>2, <3>3, <3>4 DEF Pending, Excused, GhostInv, PendingIsPressed
  <2>3. QED
    BY <2>1, <2>2
<1>7. QED
  BY <1>1, <1>6, GhostKeeps

\* What the tap has missed excuses its key for the rest of the session.
LEMMA GhostUnseen ==
  ASSUME KeyInv, GhostInv, NEW k0 \in Keys, UserKeyUnseen(k0)
  PROVE  GhostInv'
<1> USE DEF tapVars, brainVars
<1>1. UNCHANGED <<heldMods, tapQ, brainQ, held>> /\ srcLost' = srcLost \cup {k0}
  BY DEF UserKeyUnseen
<1>2. \A k \in Keys : k # k0 => (k \in phys' <=> k \in phys)
  BY DEF UserKeyUnseen, Toggle
<1>3. Alibi(k0)'
  BY <1>1 DEF Alibi
<1>4. \A k \in Keys : k # k0 => (Alibi(k) <=> Alibi(k)')
  BY <1>1, <1>2 DEF Alibi, InSync
<1>5. \A k \in Keys : (Pending(k)' => Alibi(k)') /\ (Excused(k) => Excused(k)')
  BY <1>1, <1>3, <1>4 DEF Pending, Excused, GhostInv, PendingIsPressed
<1>6. QED
  BY <1>1, <1>5, GhostKeeps

LEMMA GhostMotion ==
  ASSUME KeyInv, GhostInv, NEW m \in {Motion, Edge}, UserMotion(m)
  PROVE  GhostInv'
<1> USE DEF macVars, brainVars
<1>1. /\ tapQ \in Seq(TapMsg) /\ tapQ' = Append(tapQ, m)
      /\ UNCHANGED <<phys, heldMods, brainQ, srcLost, held>>
  BY DEF UserMotion, KeyInv, TypeOK
<1>2. m \in TapMsg /\ \A k \in Keys : m # Down(k) /\ m # Up(k)
  BY DEF TapMsg, Motion, Edge, Down, Up
<1>3. \A k \in Keys : /\ HasUp(tapQ', k) <=> HasUp(tapQ, k)
                      /\ Loose(tapQ', k) => Loose(tapQ, k)
  BY <1>1, <1>2, UpQueued, LooseQueued
<1>4. QED
  BY <1>1, <1>3, GhostKeeps
  DEF Pending, Excused, Alibi, InSync, GhostInv, PendingIsPressed

\* An event that moves on is as good an excuse; one that is dropped is a better one.
LEMMA GhostForward ==
  ASSUME KeyInv, GhostInv, ForwardSource
  PROVE  GhostInv'
<1> USE DEF macVars, brainVars
<1>1. /\ tapQ \in Seq(TapMsg) /\ tapQ # <<>> /\ tapQ' = Tail(tapQ)
      /\ brainQ \in Seq(BrainMsg) /\ Head(tapQ) \in BrainMsg
      /\ UNCHANGED <<phys, heldMods, held>>
  BY DEF ForwardSource, KeyInv, TypeOK, BrainMsg
<1>2. \A k \in Keys : /\ HasUp(tapQ, k) <=> HasUp(tapQ', k) \/ Head(tapQ) = Up(k)
                      /\ Loose(tapQ', k) => Loose(tapQ, k)
                      /\ Head(tapQ) = Down(k) => Loose(tapQ, k) \/ HasUp(tapQ', k)
  BY <1>1, UpTaken, LooseTaken, DownTaken
<1>3. CASE brainQ' = Append(brainQ, Head(tapQ)) /\ UNCHANGED srcLost
  <2>1. \A k \in Keys :
          /\ HasUp(brainQ', k) <=> HasUp(brainQ, k) \/ Head(tapQ) = Up(k)
          /\ Loose(brainQ', k) =>
               Head(tapQ) # Up(k) /\ (Loose(brainQ, k) \/ Head(tapQ) = Down(k))
    BY <1>1, <1>3, UpQueued, LooseQueued
  <2>2. \A k \in Keys : Pending(k)' => Pending(k)
    BY <1>2, <2>1 DEF Pending
  <2>3. \A k \in Keys : Alibi(k)' <=> Alibi(k)
    BY <1>1, <1>3 DEF Alibi, InSync
  <2>4. \A k \in Keys : Excused(k) => Excused(k)'
    BY <1>2, <2>1, <2>3 DEF Excused
  <2>5. QED
    BY <1>1, <2>2, <2>3, <2>4, GhostKeeps DEF GhostInv, PendingIsPressed
<1>4. CASE /\ UNCHANGED brainQ
           /\ srcLost' = {k \in Keys : k \in srcLost \/ About(Head(tapQ), k)}
  <2>1. \A k \in Keys : Head(tapQ) \in {Down(k), Up(k)} => k \in srcLost'
    BY <1>4, AboutIs
  <2>2. \A k \in Keys : Alibi(k) => Alibi(k)'
    BY <1>1, <1>4 DEF Alibi, InSync
  <2>3. ASSUME NEW k \in Keys
        PROVE  (Pending(k)' => Alibi(k)') /\ (Excused(k) => Excused(k)')
    <3>1. CASE k \in srcLost'
      BY <3>1 DEF Alibi, Excused
    <3>2. CASE k \notin srcLost'
      BY <1>2, <1>4, <2>1, <2>2, <3>2
      DEF Pending, Excused, GhostInv, PendingIsPressed
    <3>3. QED
      BY <3>1, <3>2
  <2>4. QED
    BY <1>1, <2>3, GhostKeeps
<1>5. QED
  BY <1>3, <1>4 DEF ForwardSource

\* What the brain takes from its channel.
LEMMA BrainTaken ==
  ASSUME KeyInv, brainQ # <<>>, brainQ' = Tail(brainQ),
         UNCHANGED <<phys, heldMods, tapQ, srcLost>>
  PROVE  \A k \in Keys :
           /\ Alibi(k)' <=> Alibi(k)
           /\ HasUp(brainQ, k) <=> HasUp(brainQ', k) \/ Head(brainQ) = Up(k)
           /\ HasUp(tapQ', k) <=> HasUp(tapQ, k)
           /\ Pending(k)' => Pending(k)
           /\ Head(brainQ) = Down(k) =>
                Pending(k) \/ HasUp(brainQ', k) \/ HasUp(tapQ, k)
<1>1. brainQ \in Seq(BrainMsg)
  BY DEF KeyInv, TypeOK
<1>2. \A k \in Keys :
        /\ HasUp(brainQ, k) <=> HasUp(brainQ', k) \/ Head(brainQ) = Up(k)
        /\ Loose(brainQ', k) => Loose(brainQ, k)
        /\ Head(brainQ) = Down(k) => Loose(brainQ, k) \/ HasUp(brainQ', k)
  BY <1>1, UpTaken, LooseTaken, DownTaken
<1>3. \A k \in Keys : (Alibi(k)' <=> Alibi(k)) /\ (HasUp(tapQ', k) <=> HasUp(tapQ, k))
  BY DEF Alibi, InSync
<1>4. \A k \in Keys : Pending(k)' => Pending(k)
  BY <1>2 DEF Pending
<1>5. QED
  BY <1>2, <1>3, <1>4 DEF Pending

\* The brain holds what it forwards as down, and lets go at the Up.
LEMMA GhostKey ==
  ASSUME KeyInv, GhostInv, BrainKey
  PROVE  GhostInv'
<1> USE DEF macVars, tapVars
<1>1. /\ brainQ # <<>> /\ brainQ' = Tail(brainQ)
      /\ UNCHANGED <<phys, heldMods, tapQ, srcLost>>
      /\ Head(brainQ) \in KeyMsg
  BY DEF BrainKey, BrainTakes
<1>2. PICK k0 \in Keys : Head(brainQ) \in {Down(k0), Up(k0)}
  BY <1>1 DEF KeyMsg, Down, Up
<1>3. /\ Head(brainQ).key = k0
      /\ Head(brainQ).type = "Down" => Head(brainQ) = Down(k0)
      /\ Head(brainQ).type # "Down" => Head(brainQ) = Up(k0)
  BY <1>2 DEF Down, Up
<1>4. PendingIsPressed'
  BY <1>1, BrainTaken DEF GhostInv, PendingIsPressed
<1>5. CASE sm = "RemoteActive"
  <2>1. held' = IF Head(brainQ) = Down(k0) THEN held \cup {Remap[k0]}
                ELSE held \ {Remap[k0]}
    BY <1>2, <1>3, <1>5, AboutIs DEF BrainKey, Observe, Down, Up
  <2>2. CASE Head(brainQ) = Down(k0)
    <3>1. \A k \in Keys : Excused(k) => Excused(k)'
      BY <1>1, <2>2, BrainTaken, AboutIs DEF Excused
    <3>2. Excused(k0)'
      BY <1>1, <2>2, BrainTaken DEF Excused, GhostInv, PendingIsPressed
    <3>3. QED
      BY <1>4, <2>1, <2>2, <3>1, <3>2 DEF GhostInv, HeldIsExcused
  <2>3. CASE Head(brainQ) = Up(k0)
    <3>1. Head(brainQ) # Down(k0)
      BY <2>3, AboutIs
    <3>2. \A k \in Keys : k # k0 /\ Excused(k) => Excused(k)'
      BY <1>1, <2>3, BrainTaken, AboutIs DEF Excused
    <3>3. QED
      BY <1>4, <2>1, <3>1, <3>2 DEF GhostInv, HeldIsExcused
  <2>4. QED
    BY <1>2, <2>2, <2>3
<1>6. CASE sm = "LocalActive"
  BY <1>4, <1>6 DEF BrainKey, KeyInv, HeldOnlyAway, GhostInv, HeldIsExcused
<1>7. QED
  BY <1>5, <1>6 DEF KeyInv, TypeOK

\* What else the brain takes is about no key.
LEMMA GhostTakes ==
  ASSUME KeyInv, GhostInv, BrainMotion \/ BrainCross \/ BrainRelease
  PROVE  GhostInv'
<1> USE DEF macVars, tapVars, brainVars
<1>1. /\ brainQ # <<>> /\ brainQ' = Tail(brainQ) /\ held' \subseteq held
      /\ UNCHANGED <<phys, heldMods, tapQ, srcLost>>
      /\ Head(brainQ) \in {Motion, Edge, Release}
  BY DEF BrainMotion, BrainCross, BrainRelease, BrainTakes
<1>2. \A k \in Keys : Head(brainQ) # Up(k)
  BY <1>1 DEF Motion, Edge, Release, Up
<1>3. \A k \in Keys : (Pending(k)' => Alibi(k)') /\ (Excused(k) => Excused(k)')
  BY <1>1, <1>2, BrainTaken DEF Excused, GhostInv, PendingIsPressed
<1>4. QED
  BY <1>1, <1>3, GhostKeeps

LEMMA GhostReads ==
  ASSUME KeyInv, GhostInv, ServerReads
  PROVE  GhostInv'
<1> USE DEF macVars, tapVars, brainVars
<1>1. UNCHANGED <<phys, heldMods, tapQ, srcLost, held>>
  BY DEF ServerReads
<1>2. CASE UNCHANGED brainQ
  BY <1>1, <1>2, GhostIdle
<1>3. CASE brainQ' = Append(brainQ, Release)
  <2>1. /\ brainQ \in Seq(BrainMsg) /\ Release \in BrainMsg
        /\ \A k \in Keys : Release # Down(k) /\ Release # Up(k)
    BY DEF KeyInv, TypeOK, BrainMsg, Release, Down, Up
  <2>2. \A k \in Keys : /\ HasUp(brainQ', k) <=> HasUp(brainQ, k)
                        /\ Loose(brainQ', k) => Loose(brainQ, k)
    BY <1>3, <2>1, UpQueued, LooseQueued
  <2>3. QED
    BY <1>1, <2>2, GhostKeeps
    DEF Pending, Excused, Alibi, InSync, GhostInv, PendingIsPressed
<1>4. QED
  BY <1>2, <1>3 DEF ServerReads

LEMMA GhostStep == KeyInv /\ Books' /\ GhostInv /\ [Next]_vars => GhostInv'
<1> SUFFICES ASSUME KeyInv, Books', GhostInv, [Next]_vars
             PROVE  GhostInv'
  OBVIOUS
<1> USE DEF macVars, tapVars, brainVars, srvVars, cliVars, outVars
<1>1. CASE srv' = "down"
  \* where no session runs, nothing is held and nothing is queued
  BY <1>1 DEF Books, GhostInv, PendingIsPressed, HeldIsExcused, Pending, HasUp, Loose
<1>2. CASE ServerCloses \/ ServerKilled \/ \E k \in Keys : UserKeyUntapped(k)
  BY <1>1, <1>2 DEF ServerCloses, ServerKilled, ServerGone, UserKeyUntapped
<1>3. CASE \/ CooldownElapses \/ ServerBulk \/ BrainEnter \/ BrainLeave
           \/ \E h \in Keys : DrainToPeer(h) \/ DisconnectDrain(h)
           \/ ClientInjects \/ WatcherSends \/ WatcherClears \/ ClientBulk
           \/ UNCHANGED vars
  BY <1>3, GhostIdle
  DEF CooldownElapses, ServerBulk, BrainEnter, BrainLeave, DrainToPeer, DisconnectDrain,
      ClientInjects, WatcherSends, WatcherClears, ClientBulk, vars
<1>4. CASE ServerExits \/ DrainTimesOut \/ ClientEnds \/ Connect
  BY <1>4, GhostIdle DEF ServerExits, DrainTimesOut, ClientEnds, Connect
<1>5. QED
  BY <1>1, <1>2, <1>3, <1>4, GhostUser, GhostUnseen, GhostMotion, GhostForward,
     GhostKey, GhostTakes, GhostReads
  DEF Next, Brain

\* A key the server holds on Windows is one that somebody presses, or whose Up is on
\* its way to the brain, or an event of which was missed by a disabled tap, refused by the
\* full brain channel or translated from an inverted modifier bit: through the forwarder,
\* the transitions and the drains, no other order of events leaves a key held with
\* nobody on it.
THEOREM NoKeyHeldByGhost == Spec => []NoGhostHold
<1>1. Init => GhostInv
  BY DEF Init, GhostInv, PendingIsPressed, HeldIsExcused, Pending, HasUp, Loose
<1>2. KeyInv /\ KeyInv' /\ GhostInv /\ [Next]_vars => GhostInv'
  BY GhostStep DEF KeyInv
<1>3. GhostInv => NoGhostHold
  BY GhostIs DEF GhostInv
<1>4. QED
  BY <1>1, <1>2, <1>3, KeyInvHolds, PTL DEF Spec

=============================================================================
