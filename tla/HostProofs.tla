------------------------------ MODULE HostProofs ------------------------------
(***************************************************************************)
(* Proofs about the four parts of MCHosts, each for every size of it:      *)
(* that the status shown is not that of a handler that is gone, and exact  *)
(* for one no other lives beside; that the Windows service leaves no       *)
(* helper behind and closes the handle of each exactly once; that a pin    *)
(* file is never torn and a paired machine keeps its identity; and that    *)
(* overlapping sessions leave the Mac's input and cursor clean.            *)
(***************************************************************************)
EXTENDS MCHosts, FiniteSetTheorems, TLAPS

-----------------------------------------------------------------------------
(* The status.                                                              *)

\* Before the server is bound there are no handlers.
UnboundIsEmpty == status = Idle => \A n \in Attempts : phase[n] = "none"

\* A connection in sole has been made, and if it is alive no other one is.
SoleIsAlone ==
  \A n \in sole :
    /\ phase[n] # "none"
    /\ Alive(n) => \A m \in Attempts \ {n} : ~Alive(m)

DisplayInv ==
  DisplayTypeOK /\ UnboundIsEmpty /\ SoleIsAlone
    /\ StatusIsOfALiveHandler /\ StatusExactWhenAlone

LEMMA AttemptsAreNumbers == Attempts \subseteq Nat /\ None \notin Attempts
BY DisplayAssumption DEF Attempts, None

-----------------------------------------------------------------------------
\* The state components keep their types, for any number of connections.
LEMMA DisplayTypeInit == DisplayInit => DisplayTypeOK
BY AttemptsAreNumbers DEF DisplayInit, DisplayTypeOK, Phase, ServerStatus, ClientStatus,
  Idle, Listening, Connecting, Show

LEMMA HandlerKeepsTypes ==
  ASSUME DisplayTypeOK, NEW n \in Attempts, Handler(n)
  PROVE  DisplayTypeOK'
<1> USE AttemptsAreNumbers DEF DisplayTypeOK, Phase, ServerStatus, Idle, Listening, Show,
      serverVars, menuVars, clientVars
<1>1. CASE Accepts(n)
  BY <1>1 DEF Accepts
<1>2. CASE DrawsCode(n)
  BY <1>2 DEF DrawsCode, Publishes
<1>3. CASE CodeHolds(n)
  BY <1>3 DEF CodeHolds, Silently
<1>4. CASE GetsHello(n)
  BY <1>4 DEF GetsHello, Publishes
<1>5. CASE Crosses(n)
  BY <1>5 DEF Crosses, Publishes
<1>6. CASE Returns(n)
  BY <1>6 DEF Returns, Publishes
<1>7. CASE Returned(n)
  BY <1>7 DEF Returned, Silently
<1>8. CASE EndsListening(n)
  BY <1>8 DEF EndsListening, Publishes
<1>9. QED
  BY <1>1, <1>2, <1>3, <1>4, <1>5, <1>6, <1>7, <1>8 DEF Handler

LEMMA DisplayTypeStep == DisplayTypeOK /\ [DisplayNext]_displayVars => DisplayTypeOK'
<1> SUFFICES ASSUME DisplayTypeOK, [DisplayNext]_displayVars
             PROVE  DisplayTypeOK'
  OBVIOUS
<1>0. Published \in ClientStatus
  BY AttemptsAreNumbers DEF DisplayTypeOK, Published, ClientStatus, Connecting, Show
<1>1. ASSUME NEW n \in Attempts, Handler(n) PROVE DisplayTypeOK'
  BY <1>1, HandlerKeepsTypes
<1> USE AttemptsAreNumbers DEF DisplayTypeOK, serverVars, menuVars, clientVars
<1>2. CASE Binds
  BY <1>2 DEF Binds, ServerStatus
<1>3. CASE Tick
  BY <1>3 DEF Tick, ServerStatus, Idle, Listening, Show
<1>4. CASE DismissesAlert \/ OpensMenu \/ ClosesMenu
  BY <1>4 DEF DismissesAlert, OpensMenu, ClosesMenu
<1>5. ASSUME NEW c \in Attempts \cup {None}, TypesCode(c) PROVE DisplayTypeOK'
  BY <1>5 DEF TypesCode
<1>6. CASE EntersSession \/ IsDriven \/ IsReleased \/ LeavesConnection
  BY <1>6 DEF EntersSession, IsDriven, IsReleased, LeavesConnection
<1>7. CASE TrayTick
  BY <1>7, <1>0 DEF TrayTick
<1>8. CASE UNCHANGED displayVars
  BY <1>8 DEF displayVars
<1>9. QED
  BY <1>1, <1>2, <1>3, <1>4, <1>5, <1>6, <1>7, <1>8 DEF DisplayNext

\* Every state component keeps its type (the menu bar's ivars, both status channels and
\* the phases of every handler).
THEOREM DisplayTypesCorrect == DisplaySpec => []DisplayTypeOK
<1>1. DisplayInit => DisplayTypeOK
  BY DisplayTypeInit
<1>2. DisplayTypeOK /\ [DisplayNext]_displayVars => DisplayTypeOK'
  BY DisplayTypeStep
<1>3. QED
  BY <1>1, <1>2, PTL DEF DisplaySpec
-----------------------------------------------------------------------------
(* The steps outside the handlers leave phases, status and sole alone.      *)

LEMMA OtherStepsAreQuiet ==
  ASSUME [DisplayNext]_displayVars, ~Binds, \A n \in Attempts : ~Handler(n)
  PROVE  UNCHANGED <<phase, status, sole>>
BY DEF DisplayNext, displayVars, serverVars, Tick, DismissesAlert, OpensMenu, ClosesMenu,
  TypesCode, EntersSession, IsDriven, IsReleased, LeavesConnection, TrayTick

\* What a step of n's handler does to the phases: n's changes, the others' do not.
LEMMA HandlerMovesOne ==
  ASSUME DisplayTypeOK, NEW n \in Attempts, Handler(n)
  PROVE  /\ phase' \in [Attempts -> Phase]
         /\ \A m \in Attempts \ {n} : phase'[m] = phase[m]
BY HandlerKeepsTypes DEF DisplayTypeOK, Handler, Accepts, DrawsCode, CodeHolds, GetsHello,
  Crosses, Returns, Returned, EndsListening, Publishes, Silently

-----------------------------------------------------------------------------
\* Before the server is bound there is nothing to show.
LEMMA UnboundStep ==
  DisplayTypeOK /\ UnboundIsEmpty /\ [DisplayNext]_displayVars => UnboundIsEmpty'
<1> SUFFICES ASSUME DisplayTypeOK, UnboundIsEmpty, [DisplayNext]_displayVars
             PROVE  UnboundIsEmpty'
  OBVIOUS
<1> USE DEF UnboundIsEmpty, Idle, Listening, Show
<1>1. CASE Binds
  BY <1>1 DEF Binds
<1>2. ASSUME NEW n \in Attempts, Handler(n) PROVE UnboundIsEmpty'
  BY <1>2 DEF Handler, Accepts, DrawsCode, CodeHolds, GetsHello, Crosses, Returns,
    Returned, EndsListening, Publishes, Silently, Alive
<1>3. CASE ~Binds /\ \A n \in Attempts : ~Handler(n)
  BY <1>3, OtherStepsAreQuiet
<1>4. QED
  BY <1>1, <1>2, <1>3

\* A connection that is accepted beside another takes both out of sole.
LEMMA SoleStep ==
  DisplayTypeOK /\ SoleIsAlone /\ [DisplayNext]_displayVars => SoleIsAlone'
<1> SUFFICES ASSUME DisplayTypeOK, SoleIsAlone, [DisplayNext]_displayVars
             PROVE  SoleIsAlone'
  OBVIOUS
<1>1. CASE Binds
  BY <1>1 DEF Binds, SoleIsAlone, Alive
<1>2. ASSUME NEW n \in Attempts, Handler(n) PROVE SoleIsAlone'
  <2>1. \A m \in Attempts \ {n} : Alive(m)' = Alive(m)
    BY <1>2, HandlerMovesOne DEF Alive
  <2>2. CASE Accepts(n)
    <3>1. CASE \E m \in Attempts : Alive(m)
      <4>1. sole' = {m \in sole : ~Alive(m)} /\ ~Alive(n)
        BY <2>2, <3>1 DEF Accepts, Alive
      <4>2. n \notin sole
        BY <2>2 DEF Accepts, SoleIsAlone
      <4>3. \A m \in sole' : ~Alive(m)' /\ phase'[m] # "none"
        BY <4>1, <4>2, <2>1, HandlerMovesOne, <1>2 DEF DisplayTypeOK, SoleIsAlone
      <4>4. QED
        BY <4>3 DEF SoleIsAlone
    <3>2. CASE ~\E m \in Attempts : Alive(m)
      BY <1>2, <2>2, <3>2, <2>1, HandlerMovesOne DEF Accepts, SoleIsAlone, DisplayTypeOK, Alive
    <3>3. QED
      BY <3>1, <3>2
  <2>3. CASE ~Accepts(n)
    <3>1. sole' = sole /\ Alive(n)
      BY <1>2, <2>3 DEF Handler, DrawsCode, CodeHolds, GetsHello, Crosses, Returns,
        Returned, EndsListening, Publishes, Silently, Alive
    <3>2. QED
      BY <1>2, <3>1, <2>1, HandlerMovesOne, <2>3 DEF SoleIsAlone, DisplayTypeOK, Handler,
        DrawsCode, CodeHolds, GetsHello, Crosses, Returns, Returned, EndsListening,
        Publishes, Silently
  <2>4. QED
    BY <2>2, <2>3
<1>3. CASE ~Binds /\ \A n \in Attempts : ~Handler(n)
  BY <1>3, OtherStepsAreQuiet DEF SoleIsAlone, Alive
<1>4. QED
  BY <1>1, <1>2, <1>3
-----------------------------------------------------------------------------
\* A handler writes the status it is in; what it leaves unsaid it is about to say.
LEMMA LiveStep ==
  DisplayInv /\ [DisplayNext]_displayVars => StatusIsOfALiveHandler'
<1> SUFFICES ASSUME DisplayInv, [DisplayNext]_displayVars
             PROVE  StatusIsOfALiveHandler'
  OBVIOUS
<1>0. StatusIsOfALiveHandler /\ DisplayTypeOK
  BY DEF DisplayInv
<1> USE <1>0, AttemptsAreNumbers DEF StatusIsOfALiveHandler, ServerStatus, Idle, Listening, Show
<1>1. CASE Binds
  BY <1>1 DEF Binds
<1>2. ASSUME NEW n \in Attempts, Handler(n) PROVE StatusIsOfALiveHandler'
  <2> status.kind \in {"pairing", "connected", "active"} => status.of \in Attempts
    BY DEF DisplayTypeOK
  <2> phase \in [Attempts -> Phase]
    BY DEF DisplayTypeOK
  <2>1. CASE Accepts(n) \/ CodeHolds(n) \/ Returned(n)
    BY <2>1 DEF Accepts, CodeHolds, Returned, Silently, Alive
  <2>2. CASE DrawsCode(n) \/ GetsHello(n) \/ Crosses(n) \/ Returns(n) \/ EndsListening(n)
    BY <2>2 DEF DrawsCode, GetsHello, Crosses, Returns, EndsListening, Publishes
  <2>3. QED
    BY <1>2, <2>1, <2>2 DEF Handler
<1>3. CASE ~Binds /\ \A n \in Attempts : ~Handler(n)
  BY <1>3, OtherStepsAreQuiet
<1>4. QED
  BY <1>1, <1>2, <1>3

\* Only the one handler there is writes, and it writes what it is in.
LEMMA ExactStep ==
  DisplayInv /\ [DisplayNext]_displayVars => StatusExactWhenAlone'
<1> SUFFICES ASSUME DisplayInv, [DisplayNext]_displayVars, NEW k \in sole'
             PROVE  (status = Due(k))'
  BY DEF StatusExactWhenAlone
<1>0. /\ DisplayTypeOK /\ UnboundIsEmpty /\ SoleIsAlone /\ SoleIsAlone'
      /\ \A n \in sole : status = Due(n)
  BY SoleStep DEF DisplayInv, StatusExactWhenAlone
<1>1. CASE Binds
  BY <1>0, <1>1 DEF Binds, UnboundIsEmpty, SoleIsAlone, DisplayTypeOK
<1>2. ASSUME NEW n \in Attempts, Handler(n) PROVE (status = Due(k))'
  <2>1. CASE k # n
    <3>1. k \in sole /\ phase'[k] = phase[k]
      BY <1>0, <1>2, <2>1, HandlerMovesOne DEF Handler, Accepts, DrawsCode, CodeHolds, GetsHello,
        Crosses, Returns, Returned, EndsListening, Publishes, Silently, DisplayTypeOK
    <3>2. CASE Alive(k)
      <4>1. ~Alive(n)
        BY <1>0, <2>1, <3>1, <3>2 DEF SoleIsAlone
      <4>2. Accepts(n)
        BY <1>2, <4>1 DEF Handler, Alive, DrawsCode, CodeHolds, GetsHello, Crosses, Returns,
          Returned, EndsListening
      <4>3. k \notin sole'
        BY <4>2, <3>1, <3>2, <1>0 DEF Accepts, DisplayTypeOK
      <4>4. QED
        BY <4>3
    <3>3. CASE ~Alive(k)
      BY <3>1, <3>3 DEF Due, Alive
    <3>4. QED
      BY <3>2, <3>3
  <2>2. CASE k = n
    <3> phase \in [Attempts -> Phase]
      BY <1>0 DEF DisplayTypeOK
    <3>1. CASE Accepts(n) \/ Returned(n) \/ EndsListening(n)
      BY <2>2, <3>1 DEF Accepts, Returned, EndsListening, Silently, Publishes, Due
    <3>2. CASE DrawsCode(n)
      BY <2>2, <3>2 DEF DrawsCode, Publishes, Due
    <3>3. CASE GetsHello(n) \/ Returns(n)
      BY <2>2, <3>3 DEF GetsHello, Returns, Publishes, Due
    <3>4. CASE Crosses(n)
      BY <2>2, <3>4 DEF Crosses, Publishes, Due
    <3>5. CASE CodeHolds(n)
      BY <2>2, <3>5, <1>0 DEF CodeHolds, Silently, Due
    <3>6. QED
      BY <1>2, <3>1, <3>2, <3>3, <3>4, <3>5 DEF Handler
  <2>3. QED
    BY <2>1, <2>2
<1>3. CASE ~Binds /\ \A n \in Attempts : ~Handler(n)
  BY <1>0, <1>3, OtherStepsAreQuiet DEF Due
<1>4. QED
  BY <1>1, <1>2, <1>3

-----------------------------------------------------------------------------
LEMMA DisplayInvHolds == DisplaySpec => []DisplayInv
<1>1. DisplayInit => DisplayInv
  BY DisplayTypeInit DEF DisplayInit, DisplayInv, UnboundIsEmpty, SoleIsAlone,
    StatusIsOfALiveHandler, StatusExactWhenAlone, Idle, Show
<1>2. DisplayInv /\ [DisplayNext]_displayVars => DisplayInv'
  BY DisplayTypeStep, UnboundStep, SoleStep, LiveStep, ExactStep DEF DisplayInv
<1>3. QED
  BY <1>1, <1>2, PTL DEF DisplaySpec

\* The menu bar never shows, from the channel, a code or a session whose handler has
\* written its last: every handler ends with Listening, and only its own steps take
\* it out of the phase it has shown.  And what the handler of a connection has reached
\* is what the channel says, as long as no other handler has lived beside it.
THEOREM StatusIsFaithful == DisplaySpec => []StatusFaithful
<1>1. DisplayInv => StatusFaithful
  BY DEF DisplayInv, StatusFaithful
<1>2. QED
  BY <1>1, DisplayInvHolds, PTL

-----------------------------------------------------------------------------
(* The service.                                                             *)

\* Who has the handle: while the main thread waits, the slot or the handler that has
\* swapped it out; before, and after that handler, neither.
HandleHasOwner ==
  /\ main \in {"off", "running"} => handle = "none"
  /\ main = "launched" => handle = "open"
  /\ main \in {"waiting", "woken"} =>
       handle \in {"open", "closed"} /\ (slot <=> handle = "open" /\ handler = "idle")
  /\ main \notin {"waiting", "woken"} => ~slot
  /\ handler = "took" => main \in {"waiting", "woken", "ending"} /\ handle = "open"

\* The thread that has a child has launched it in this run of the service and, unless
\* Windows has refused to terminate it, still waits for it, with its handle open.
ChildIsAwaited ==
  child # NoProc =>
    /\ child \in hosted /\ main \notin {"off", "running"}
    /\ child \notin orphans => main \in {"launched", "waiting"} /\ handle = "open"

\* The SCM keeps the entry of a service that runs.
RunsInstalled == main # "off" => installed # "no"

HostInv ==
  HostTypeOK /\ HelperAccounted /\ HandleHasOwner /\ ChildIsAwaited /\ RunsInstalled

-----------------------------------------------------------------------------
LEMMA HostInitial == HostInit => HostInv
BY DEF HostInit, HostInv, HostTypeOK, HelperAccounted, NoStrayHelper, HandleClosedOnce,
  HandleHasOwner, ChildIsAwaited, RunsInstalled

\* One step per action.
LEMMA HostStep == HostInv /\ [HostNext]_hostVars => HostInv'
<1> SUFFICES ASSUME HostInv, [HostNext]_hostVars
             PROVE  HostInv'
  OBVIOUS
<1> USE HostAssumption DEF HostInv, HostTypeOK, HelperAccounted, NoStrayHelper,
      HandleClosedOnce, HandleHasOwner, ChildIsAwaited, RunsInstalled, scmVars
<1>1. CASE Installs \/ Starts
  <2>1. /\ main = "off" /\ main' = "running" /\ installed' = "yes"
        /\ UNCHANGED <<user, child, slot, handle, handler, hosted, orphans>>
    BY <1>1 DEF Installs, Starts
  <2>2. handle = "none" /\ slot = FALSE /\ handler = "idle" /\ child = NoProc
    BY <2>1
  <2>3. QED
    BY <2>1, <2>2
<1>2. CASE StopComes \/ Uninstalls
  <2>1. CASE slot = TRUE
    <3>1. handler = "idle" /\ handle = "open" /\ main \in {"waiting", "woken"}
      BY <2>1
    <3>2. handler' = "took" /\ slot' = FALSE /\ installed' # "no"
      BY <1>2, <2>1, <3>1 DEF StopComes, Uninstalls
    <3>3. QED
      BY <1>2, <3>1, <3>2 DEF StopComes, Uninstalls
  <2>2. CASE slot = FALSE
    <3>1. handler' = handler /\ slot' = FALSE /\ (main # "off" => installed' # "no")
      BY <1>2, <2>2 DEF StopComes, Uninstalls
    <3>2. QED
      BY <1>2, <2>2, <3>1 DEF StopComes, Uninstalls
  <2>3. QED
    BY <2>1, <2>2
<1>3. CASE Terminates
  <2>1. handle' = "closed" /\ handler' = "idle" /\ UNCHANGED <<scmVars, main, slot>>
    BY <1>3 DEF Terminates, Closed
  <2>2. CASE End({child})
    BY <1>3, <2>1, <2>2 DEF Terminates, End
  <2>3. CASE orphans' = orphans \cup (hosted \cap {child}) /\ UNCHANGED <<hosted, child>>
    BY <1>3, <2>1, <2>3 DEF Terminates
  <2>4. QED
    BY <1>3, <2>2, <2>3 DEF Terminates
<1>4. ASSUME NEW p \in Procs, Launches(p) PROVE HostInv'
  BY <1>4 DEF Launches
<1>5. ASSUME NEW p \in Procs, Dies(p) PROVE HostInv'
  BY <1>5 DEF Dies, End
<1>6. CASE FailsToLaunch
  BY <1>6 DEF FailsToLaunch
<1>7. CASE Stashes
  <2>1. handle = "open" /\ handler = "idle"
    BY <1>7 DEF Stashes
  <2>2. /\ main' = "waiting" /\ slot' = TRUE /\ handle' = "open" /\ handler' = "idle"
        /\ UNCHANGED <<installed, user, child, hosted, orphans>>
    BY <1>7, <2>1 DEF Stashes
  <2>3. QED
    BY <1>7, <2>2 DEF Stashes
<1>8. CASE Wakes
  BY <1>8 DEF Wakes
<1>9. CASE CleansUp
  BY <1>9 DEF CleansUp, Closed
<1>10. CASE Stops \/ ServiceDies \/ GoesDown
  BY <1>10 DEF Stops, ServiceDies, GoesDown, NoService, Forgotten
<1>11. CASE LogsIn
  BY <1>11 DEF LogsIn
<1>12. CASE LogsOut
  BY <1>12 DEF LogsOut, End
<1>13. CASE UNCHANGED hostVars
  BY <1>13 DEF hostVars
<1>14. QED
  BY <1>1, <1>2, <1>3, <1>4, <1>5, <1>6, <1>7, <1>8, <1>9, <1>10, <1>11, <1>12, <1>13
    DEF HostNext

LEMMA HostInvHolds == HostSpec => []HostInv
BY HostInitial, HostStep, PTL DEF HostSpec

-----------------------------------------------------------------------------
\* The state of the service and of its helpers keeps its type.
THEOREM HostTypesCorrect == HostSpec => []HostTypeOK
<1>1. HostInv => HostTypeOK
  BY DEF HostInv
<1>2. QED
  BY <1>1, HostInvHolds, PTL

\* However Stop, Shutdown, an uninstall, a log-out and the end of the helper fall
\* between the steps of the main thread, no helper outlives the service that has
\* launched it, unless that service is killed, and its handle is closed exactly once
\* (the swap of HELPER_PROCESS_HANDLE).
THEOREM HelperIsAccountedFor == HostSpec => []HelperAccounted
<1>1. HostInv => HelperAccounted
  BY DEF HostInv
<1>2. QED
  BY <1>1, HostInvHolds, PTL

-----------------------------------------------------------------------------
(* The identity and the pin.                                                *)

\* Writing two at a time is what raced records.
OneWrites ==
  ~raced => \A p, q \in Runs : at[p] \in Writing /\ at[q] \in Writing => p = q

\* The one that stores a pin has the temporary file to itself, and renames it flushed;
\* what the pin file holds, or held before its last change reached the disk, is whole.
TmpOf(p) ==
  /\ fd[p] = IF at[p] \in {"fill", "sync"} THEN "tmp" ELSE "gone"
  /\ at[p] = "sync" => now["tmp"] = Whole
  /\ at[p] = "rename" => now["tmp"] = Whole /\ safe["tmp"] = Whole /\ "tmp" \notin wet

PinOnDisk == now["pin"] # Empty /\ safe["pin"] # Empty /\ "pin" \notin wet

PinIsFlushed == ~raced => PinOnDisk /\ \A p \in Runs : TmpOf(p)

\* The identity files are whole and of one identity.
Settled == now["cert"] \in Identity /\ now["key"] = now["cert"]

\* The key is made when the certificate is filled: from then on the certificate
\* stays, the key is empty or belongs to it, and whoever has loaded or saved both has
\* what is on the disk.
InStep(p) ==
  /\ at[p] \in Saving => mem[p].cert \in Identity /\ mem[p].key = mem[p].cert
  /\ at[p] \in {"cert", "fill cert", "key"} => now["key"] = Absent
  /\ at[p] = "key" => now["cert"] = mem[p].cert
  /\ at[p] = "fill key" => now["cert"] = mem[p].cert /\ now["key"] = Empty
  /\ at[p] \in {"load cert", "load key"} => now["key"] # Absent
  /\ at[p] = "load key" => mem[p].cert = now["cert"]
  /\ at[p] \in {"flush", "settle"} \cup Serving =>
       Settled /\ mem[p] = [cert |-> now["cert"], key |-> now["cert"]]

KeyBelongs ==
  now["key"] # Absent => now["cert"] \in Identity /\ now["key"] \in {Empty, now["cert"]}

FilesInStep ==
  ~raced /\ ~outage =>
    /\ KeyBelongs
    /\ \A p \in Runs : InStep(p)
    /\ pinned # Absent => Settled /\ pinned = now["cert"]

IdentityInv == IdentityTypeOK /\ OneWrites /\ PinIsFlushed /\ FilesInStep

LEMMA FileContents ==
  /\ Identity \subseteq Contents /\ Absent \in Contents /\ Empty \in Contents
  /\ Whole \in Contents /\ Whole # Empty /\ Whole # Absent
  /\ Absent \notin Identity /\ Empty \notin Identity /\ Empty # Absent
BY IdentityAssumption DEF Identity, Contents, Absent, Empty, Whole

LEMMA NextIdentity ==
  ASSUME NEW d \in 0 .. NIdentities, d < NIdentities
  PROVE  d + 1 \in 0 .. NIdentities /\ d + 1 \in Contents /\ d + 1 \in Identity
BY IdentityAssumption DEF Contents, Identity

LEMMA MemSetPart ==
  ASSUME mem \in [Runs -> [cert : Contents, key : Contents]], NEW p \in Runs,
         NEW c \in Contents
  PROVE  /\ [mem EXCEPT ![p].cert = c] \in [Runs -> [cert : Contents, key : Contents]]
         /\ [mem EXCEPT ![p].key = c] \in [Runs -> [cert : Contents, key : Contents]]
<1>1. mem[p] \in [cert : Contents, key : Contents]
  OBVIOUS
<1>2. /\ [mem[p] EXCEPT !.cert = c] \in [cert : Contents, key : Contents]
      /\ [mem[p] EXCEPT !.key = c] \in [cert : Contents, key : Contents]
  BY <1>1
<1>3. QED
  BY <1>2

\* What a step of p that keeps to one writer has seen of the others.
LEMMA GoesAlone ==
  ASSUME NEW p \in Runs, NEW a, Goes(p, a)
  PROVE  /\ at' = [at EXCEPT ![p] = a] /\ outage' = outage
         /\ ~raced' => ~raced
         /\ ~raced' /\ a \in Writing => \A q \in Runs \ {p} : at[q] \notin Writing
BY DEF Goes

-----------------------------------------------------------------------------
(* Types.                                                                   *)

LEMMA GoesKeepsTypes ==
  ASSUME IdentityTypeOK, NEW p \in Runs, NEW a \in Place, Goes(p, a)
  PROVE  at' \in [Runs -> Place] /\ raced' \in BOOLEAN /\ outage' \in BOOLEAN
<1>1. raced' \in BOOLEAN
  BY DEF Goes
<1>2. QED
  BY <1>1 DEF Goes, IdentityTypeOK

LEMMA PutsKeepsTypes ==
  ASSUME IdentityTypeOK, NEW f \in File, NEW c \in Contents, Puts(f, c) \/ Flushes(f)
  PROVE  now' \in [File -> Contents] /\ safe' \in [File -> Contents] /\ wet' \in SUBSET File
BY DEF IdentityTypeOK, Puts, Flushes

LEMMA StepKeepsTypes ==
  ASSUME IdentityTypeOK, NEW p \in Runs, ProcessStep(p)
  PROVE  IdentityTypeOK'
<1> DEFINE Held == [cert : Contents, key : Contents]
<1>0. /\ at \in [Runs -> Place] /\ mem \in [Runs -> Held]
      /\ fd \in [Runs -> {"gone", "tmp", "pin"}]
      /\ now \in [File -> Contents] /\ safe \in [File -> Contents] /\ wet \in SUBSET File
      /\ drawn \in 0 .. NIdentities /\ pinned \in Contents
      /\ raced \in BOOLEAN /\ outage \in BOOLEAN
  BY DEF IdentityTypeOK
<1>1. ASSUME NEW a \in Place, Goes(p, a)
      PROVE  at' \in [Runs -> Place] /\ raced' \in BOOLEAN /\ outage' \in BOOLEAN
  BY <1>1, GoesKeepsTypes
<1>2. ASSUME Ends(p)
      PROVE  /\ at' \in [Runs -> Place] /\ raced' \in BOOLEAN /\ outage' \in BOOLEAN
             /\ mem' \in [Runs -> Held] /\ fd' \in [Runs -> {"gone", "tmp", "pin"}]
  BY <1>0, <1>1, <1>2, FileContents DEF Place, Ends, Nothing
<1>3. CASE Begins(p) \/ Finds(p) \/ Pairs(p) \/ PairingFails(p)
  BY <1>0, <1>1, <1>3 DEF Begins, Finds, Pairs, PairingFails, fileVars, Serving, Storing,
    IdentityTypeOK, Place
<1>4. CASE Checks(p)
  <2>1. CASE Goes(p, "load cert") /\ UNCHANGED <<mem, drawn>>
    BY <1>0, <1>1, <1>4, <2>1 DEF Checks, fileVars, IdentityTypeOK, Place
  <2>2. CASE /\ drawn < NIdentities /\ drawn' = drawn + 1
             /\ Goes(p, "cert")
             /\ mem' = [mem EXCEPT ![p] = [cert |-> drawn + 1, key |-> drawn + 1]]
    <3>1. drawn + 1 \in Contents /\ drawn + 1 \in 0 .. NIdentities
      BY <1>0, <2>2, NextIdentity
    <3>2. mem' \in [Runs -> Held] /\ drawn' \in 0 .. NIdentities
      BY <1>0, <2>2, <3>1
    <3>3. QED
      BY <1>0, <1>1, <1>4, <2>2, <3>2 DEF Checks, fileVars, IdentityTypeOK, Place, Saving
  <2>3. QED
    BY <1>4, <2>1, <2>2 DEF Checks
<1>5. CASE LoadsCert(p)
  <2>1. mem' \in [Runs -> Held]
    BY <1>0, <1>5, MemSetPart DEF LoadsCert, File
  <2>2. QED
    BY <1>0, <1>1, <1>5, <2>1 DEF LoadsCert, fileVars, IdentityTypeOK, Place
<1>6. CASE LoadsKey(p)
  <2>1. CASE Ends(p)
    BY <1>0, <1>2, <1>6, <2>1 DEF LoadsKey, fileVars, IdentityTypeOK, Place
  <2>2. CASE ~Ends(p)
    <3>1. mem' = [mem EXCEPT ![p].key = now["key"]] /\ Goes(p, "settle") /\ fd' = fd
      BY <1>6, <2>2 DEF LoadsKey
    <3>2. mem' \in [Runs -> Held]
      BY <1>0, <3>1, MemSetPart DEF File
    <3>3. QED
      BY <1>0, <1>1, <1>6, <3>1, <3>2 DEF LoadsKey, fileVars, IdentityTypeOK, Place
  <2>3. QED
    BY <2>1, <2>2
<1>7. CASE Saves(p)
  <2>1. mem[p].cert \in Contents /\ mem[p].key \in Contents
    BY <1>0
  <2>2. /\ now' \in [File -> Contents] /\ safe' \in [File -> Contents]
        /\ wet' \in SUBSET File
    BY <1>7, <2>1, FileContents, PutsKeepsTypes DEF Saves, SavesPart, File
  <2>3. QED
    BY <1>0, <1>1, <1>7, <2>2 DEF Saves, SavesPart, Saving, IdentityTypeOK, Place
<1>8. CASE FlushesKey(p)
  BY <1>0, <1>1, <1>8, PutsKeepsTypes, FileContents DEF FlushesKey, File, IdentityTypeOK, Place
<1>9. ASSUME NEW r \in BOOLEAN, Settles(p, r) PROVE IdentityTypeOK'
  <2>1. /\ at' \in [Runs -> Place] /\ raced' \in BOOLEAN /\ outage' \in BOOLEAN
        /\ mem' = mem /\ drawn' = drawn /\ pinned' = pinned
    BY <1>1, <1>9 DEF Settles, Serving, Place
  <2>2. /\ now' \in [File -> Contents] /\ wet' \in SUBSET File /\ safe' = safe
        /\ fd' \in [Runs -> {"gone", "tmp", "pin"}]
    <3>1. CASE r /\ now["pin"] # Absent
      BY <1>0, <1>9, <3>1, FileContents DEF Settles
    <3>2. CASE ~(r /\ now["pin"] # Absent)
      BY <1>0, <1>9, <3>2 DEF Settles, fileVars
    <3>3. QED
      BY <3>1, <3>2
  <2>3. QED
    BY <1>0, <2>1, <2>2 DEF IdentityTypeOK
<1>10. CASE PeerPins(p)
  <2>1. mem[p].cert \in Contents
    BY <1>0
  <2>2. QED
    BY <1>0, <1>10, <2>1 DEF PeerPins, fileVars, history, IdentityTypeOK, Place
<1>11. CASE OpensTmp(p)
  BY <1>0, <1>1, <1>11, PutsKeepsTypes, FileContents DEF OpensTmp, File, Serving, Storing,
    IdentityTypeOK, Place
<1>12. CASE Fills(p) \/ Syncs(p)
  <2>1. fd[p] # "gone" => fd[p] \in File
    BY <1>0 DEF File
  <2>2. /\ now' \in [File -> Contents] /\ safe' \in [File -> Contents]
        /\ wet' \in SUBSET File
    BY <1>0, <1>12, <2>1, PutsKeepsTypes, FileContents DEF Fills, Syncs, fileVars
  <2>3. QED
    BY <1>0, <1>1, <1>12, <2>2 DEF Fills, Syncs, Serving, Storing, IdentityTypeOK, Place
<1>13. CASE Renames(p)
  <2>1. CASE UNCHANGED <<fileVars, fd>>
    BY <1>0, <1>1, <1>13, <2>1 DEF Renames, Serving, fileVars, IdentityTypeOK, Place
  <2>2. CASE ~UNCHANGED <<fileVars, fd>>
    <3>0. "tmp" \in File /\ "pin" \in File
      BY DEF File
    <3>1. now' \in [File -> Contents]
      BY <1>0, <1>13, <2>2, FileContents, <3>0 DEF Renames
    <3>2. safe' \in [File -> Contents] /\ wet' \in SUBSET File
      BY <1>0, <1>13, <2>2 DEF Renames, File
    <3>3. fd' \in [Runs -> {"gone", "tmp", "pin"}]
      BY <1>0, <1>13, <2>2 DEF Renames
    <3>4. QED
      BY <1>0, <1>1, <1>13, <3>1, <3>2, <3>3 DEF Renames, Serving, IdentityTypeOK, Place
  <2>3. QED
    BY <2>1, <2>2
<1>14. CASE Crashes(p)
  BY <1>0, <1>2, <1>14 DEF Crashes, fileVars, IdentityTypeOK, Place
<1>15. QED
  BY <1>3, <1>4, <1>5, <1>6, <1>7, <1>8, <1>9, <1>10, <1>11, <1>12, <1>13, <1>14
    DEF ProcessStep

LEMMA IdentityTypeStep ==
  IdentityTypeOK /\ [IdentityNext]_identityVars => IdentityTypeOK'
<1> SUFFICES ASSUME IdentityTypeOK, [IdentityNext]_identityVars
             PROVE  IdentityTypeOK'
  OBVIOUS
<1>1. ASSUME NEW p \in Runs, ProcessStep(p) PROVE IdentityTypeOK'
  BY <1>1, StepKeepsTypes
<1>2. CASE PeerForgets
  BY <1>2, FileContents DEF PeerForgets, fileVars, history, IdentityTypeOK
<1>3. CASE WritesBack
  BY <1>3 DEF WritesBack, history, IdentityTypeOK
<1>4. CASE PowerFails
  <2>1. /\ Leaves("cert") \subseteq Contents /\ Leaves("key") \subseteq Contents
        /\ Leaves("pin") \subseteq Contents /\ Leaves("tmp") \subseteq Contents
    BY FileContents DEF Leaves, IdentityTypeOK, File
  <2>2. now' \in [File -> Contents]
    BY <1>4, <2>1 DEF PowerFails, File
  <2>3. at' \in [Runs -> Place] /\ mem' \in [Runs -> [cert : Contents, key : Contents]]
    BY <1>4, FileContents DEF PowerFails, Place, Nothing
  <2>4. QED
    BY <1>4, <2>2, <2>3 DEF PowerFails, IdentityTypeOK
<1>5. CASE UNCHANGED identityVars
  BY <1>5 DEF identityVars, fileVars, history, IdentityTypeOK
<1>6. QED
  BY <1>1, <1>2, <1>3, <1>4, <1>5 DEF IdentityNext

-----------------------------------------------------------------------------
(* One process writes.                                                      *)

LEMMA GoesKeepsOne ==
  ASSUME IdentityTypeOK, OneWrites, NEW p \in Runs, NEW a \in Place, Goes(p, a)
  PROVE  OneWrites'
<1> SUFFICES ASSUME ~raced', NEW q \in Runs, NEW r \in Runs,
                    at'[q] \in Writing, at'[r] \in Writing
             PROVE  q = r
  BY DEF OneWrites
<1>1. ~raced /\ \A o \in Runs \ {p} : at'[o] = at[o]
  BY GoesAlone DEF IdentityTypeOK
<1>2. a \in Writing => \A o \in Runs \ {p} : at[o] \notin Writing
  BY GoesAlone
<1>3. at'[p] = a
  BY GoesAlone DEF IdentityTypeOK
<1>4. QED
  BY <1>1, <1>2, <1>3 DEF OneWrites

LEMMA OneWritesStep ==
  IdentityTypeOK /\ OneWrites /\ [IdentityNext]_identityVars => OneWrites'
<1> SUFFICES ASSUME IdentityTypeOK, OneWrites, [IdentityNext]_identityVars
             PROVE  OneWrites'
  OBVIOUS
<1>1. ASSUME NEW p \in Runs, ProcessStep(p), ~PeerPins(p) PROVE OneWrites'
  <2>1. \E a \in Place : Goes(p, a)
    BY <1>1 DEF ProcessStep, Begins, Finds, Checks, LoadsCert, LoadsKey, Saves, SavesPart,
      FlushesKey, Settles, Pairs, PairingFails, OpensTmp, Fills, Syncs, Renames, Crashes,
      Ends, Place, Saving, Serving, Storing
  <2>2. QED
    BY <2>1, GoesKeepsOne
<1>2. CASE PowerFails
  BY <1>2 DEF PowerFails, OneWrites, Writing, Saving, Storing
<1>3. CASE UNCHANGED <<at, raced>>
  BY <1>3 DEF OneWrites
<1>4. QED
  BY <1>1, <1>2, <1>3 DEF IdentityNext, PeerPins, PeerForgets, WritesBack, history,
    identityVars

-----------------------------------------------------------------------------
(* The pin.                                                                 *)

\* A step that leaves the pin and the temporary file alone, or is the only writer's.
LEMMA PinKept ==
  ASSUME IdentityTypeOK, OneWrites, PinIsFlushed, NEW p \in Runs, ~raced',
         NEW a \in Place, Goes(p, a),
         \A q \in Runs \ {p} : fd'[q] = fd[q],
         PinOnDisk', TmpOf(p)',
         \/ now'["tmp"] = now["tmp"] /\ safe'["tmp"] = safe["tmp"]
              /\ ("tmp" \in wet' => "tmp" \in wet)
         \/ at[p] \in Writing \/ a \in Writing
  PROVE  PinIsFlushed'
<1> SUFFICES ASSUME NEW q \in Runs, q # p
             PROVE  TmpOf(q)'
  BY DEF PinIsFlushed
<1>1. ~raced /\ at'[q] = at[q] /\ fd'[q] = fd[q] /\ TmpOf(q)
  BY GoesAlone DEF IdentityTypeOK, PinIsFlushed
<1>2. at[p] \in Writing \/ a \in Writing => at[q] \notin {"sync", "rename"}
  BY <1>1, GoesAlone DEF OneWrites, Writing, Storing
<1>3. QED
  BY <1>1, <1>2 DEF TmpOf

LEMMA PinStep ==
  IdentityTypeOK /\ OneWrites /\ PinIsFlushed /\ [IdentityNext]_identityVars => PinIsFlushed'
<1> SUFFICES ASSUME IdentityTypeOK, OneWrites, PinIsFlushed, [IdentityNext]_identityVars,
                    ~raced'
             PROVE  PinIsFlushed'
  BY DEF PinIsFlushed
<1>1. ASSUME NEW p \in Runs, ProcessStep(p), ~PeerPins(p) PROVE PinIsFlushed'
  <2>1. ~raced
    BY <1>1, GoesAlone DEF ProcessStep, Begins, Finds, Checks, LoadsCert, LoadsKey, Saves,
      SavesPart, FlushesKey, Settles, Pairs, PairingFails, OpensTmp, Fills, Syncs, Renames,
      Crashes, Ends
  <2>2. PinOnDisk /\ \A q \in Runs : TmpOf(q)
    BY <2>1 DEF PinIsFlushed
  <2> at \in [Runs -> Place] /\ now \in [File -> Contents] /\ safe \in [File -> Contents]
        /\ fd \in [Runs -> {"gone", "tmp", "pin"}]
    BY DEF IdentityTypeOK
  <2>3. ASSUME NEW a \in Place \ {"fill", "sync", "rename"}, Goes(p, a),
               UNCHANGED <<fd, fileVars>>, fd[p] = "gone"
        PROVE  PinIsFlushed'
    <3>1. PinOnDisk' /\ TmpOf(p)'
      BY <2>2, <2>3, GoesAlone DEF PinOnDisk, TmpOf, fileVars
    <3>2. QED
      BY <2>3, <3>1, PinKept DEF fileVars
  <2>4. CASE Begins(p) \/ Finds(p) \/ Checks(p) \/ LoadsCert(p) \/ Pairs(p) \/ PairingFails(p)
    <3>1. fd[p] = "gone"
      BY <2>2, <2>4 DEF TmpOf, Begins, Finds, Checks, LoadsCert, Pairs, PairingFails
    <3>2. QED
      BY <2>3, <2>4, <3>1 DEF Begins, Finds, Checks, LoadsCert, Pairs, PairingFails, Place,
        Saving, Serving, Storing
  <2>5. ASSUME Ends(p), UNCHANGED fileVars PROVE PinIsFlushed'
    <3>1. PinOnDisk' /\ TmpOf(p)' /\ \A q \in Runs \ {p} : fd'[q] = fd[q]
      BY <2>2, <2>5, GoesAlone DEF Ends, PinOnDisk, TmpOf, fileVars
    <3>2. QED
      BY <2>5, <3>1, PinKept DEF fileVars, Ends, Place
  <2>6. CASE LoadsKey(p)
    <3>1. CASE Ends(p)
      BY <2>5, <2>6, <3>1 DEF LoadsKey
    <3>2. CASE ~Ends(p)
      BY <2>2, <2>3, <2>6, <3>2 DEF LoadsKey, TmpOf, Place
    <3>3. QED
      BY <3>1, <3>2
  <2>7. CASE Saves(p) \/ FlushesKey(p)
    <3>1. PICK a \in {"fill cert", "key", "fill key", "flush", "settle"} : Goes(p, a)
      BY <2>7 DEF Saves, SavesPart, FlushesKey
    <3>2. /\ now'["tmp"] = now["tmp"] /\ now'["pin"] = now["pin"]
          /\ safe'["tmp"] = safe["tmp"] /\ safe'["pin"] = safe["pin"]
          /\ \A f \in {"tmp", "pin"} : f \in wet' => f \in wet
          /\ fd' = fd
      BY <2>7 DEF Saves, SavesPart, FlushesKey, Puts, Flushes, File
    <3>3. fd[p] = "gone"
      BY <2>2, <2>7 DEF TmpOf, Saves, SavesPart, FlushesKey
    <3>4. at'[p] = a /\ a \notin {"fill", "sync", "rename"}
      BY <3>1 DEF Goes, IdentityTypeOK
    <3>5. PinOnDisk' /\ TmpOf(p)'
      BY <2>2, <3>2, <3>3, <3>4 DEF PinOnDisk, TmpOf
    <3>6. QED
      BY <3>1, <3>2, <3>5, PinKept DEF Place, Saving
  <2>8. ASSUME NEW r \in BOOLEAN, Settles(p, r) PROVE PinIsFlushed'
    <3>1. fd' = fd
      BY <2>2, <2>8 DEF TmpOf, Settles
    <3>2. /\ now'["tmp"] = now["tmp"] /\ safe' = safe /\ now'["pin"] \in {Absent, now["pin"]}
          /\ \A f \in {"tmp", "pin"} : f \in wet' => f \in wet
      BY <2>8 DEF Settles, fileVars, File
    <3>3. PinOnDisk' /\ TmpOf(p)'
      BY <2>2, <2>8, <3>1, <3>2, GoesAlone, FileContents DEF PinOnDisk, TmpOf, Settles
    <3>4. QED
      BY <2>8, <3>1, <3>2, <3>3, PinKept DEF Settles, Place, Serving
  <2>9. CASE OpensTmp(p)
    <3>1. PinOnDisk' /\ TmpOf(p)' /\ \A q \in Runs \ {p} : fd'[q] = fd[q]
      BY <2>2, <2>9, GoesAlone DEF OpensTmp, Puts, PinOnDisk, TmpOf, File
    <3>2. QED
      BY <2>9, <3>1, PinKept DEF OpensTmp, Place, Serving, Storing, Writing
  <2>10. CASE Fills(p)
    <3>1. fd[p] = "tmp" /\ Puts("tmp", Whole) /\ fd' = fd
      BY <2>2, <2>10 DEF Fills, TmpOf
    <3>2. PinOnDisk' /\ TmpOf(p)'
      BY <2>2, <2>10, <3>1, GoesAlone DEF Fills, Puts, PinOnDisk, TmpOf, File
    <3>3. QED
      BY <2>10, <3>1, <3>2, PinKept DEF Fills, Place, Serving, Storing, Writing
  <2>11. CASE Syncs(p)
    <3>1. fd[p] = "tmp" /\ Flushes("tmp")
      BY <2>2, <2>11 DEF Syncs, TmpOf
    <3>2. PinOnDisk' /\ TmpOf(p)' /\ \A q \in Runs \ {p} : fd'[q] = fd[q]
      BY <2>2, <2>11, <3>1, GoesAlone DEF Syncs, Flushes, PinOnDisk, TmpOf, File
    <3>3. QED
      BY <2>11, <3>2, PinKept DEF Syncs, Place, Serving, Storing, Writing
  <2>12. CASE Renames(p)
    <3>1. now["tmp"] = Whole /\ "tmp" \notin wet /\ fd[p] = "gone"
      BY <2>2, <2>12 DEF Renames, TmpOf
    <3>2. \A q \in Runs : fd[q] = "gone"
      BY <2>1, <2>2, <2>12, <3>1 DEF TmpOf, Renames, OneWrites, Writing, Storing
    <3>3. now'["pin"] = Whole /\ safe' = safe /\ "pin" \notin wet' /\ fd' = fd
      BY <2>12, <3>1, <3>2, FileContents DEF Renames, File
    <3>4. PinOnDisk' /\ TmpOf(p)'
      BY <2>2, <2>12, <3>1, <3>3, GoesAlone, FileContents DEF PinOnDisk, TmpOf, Renames
    <3>5. QED
      BY <2>12, <3>3, <3>4, PinKept DEF Renames, Place, Serving, Storing, Writing
  <2>13. CASE Crashes(p)
    BY <2>5, <2>13 DEF Crashes
  <2>14. QED
    BY <1>1, <2>4, <2>6, <2>7, <2>8, <2>9, <2>10, <2>11, <2>12, <2>13 DEF ProcessStep
<1>2. CASE WritesBack
  BY <1>2 DEF WritesBack, PinIsFlushed, PinOnDisk, TmpOf, history
<1>3. CASE PowerFails
  <2>1. ~raced /\ PinOnDisk
    BY <1>3 DEF PowerFails, PinIsFlushed
  <2>2. \A c \in Leaves("pin") : c # Empty
    BY <2>1 DEF Leaves, PinOnDisk
  <2>3. now'["pin"] # Empty /\ safe' = now' /\ wet' = {}
    BY <1>3, <2>2 DEF PowerFails, File
  <2>4. QED
    BY <1>3, <2>3 DEF PowerFails, PinIsFlushed, PinOnDisk, TmpOf
<1>4. CASE UNCHANGED <<at, fd, fileVars, raced>>
  BY <1>4 DEF PinIsFlushed, PinOnDisk, TmpOf, fileVars
<1>5. QED
  BY <1>1, <1>2, <1>3, <1>4 DEF IdentityNext, PeerPins, PeerForgets, history, identityVars

-----------------------------------------------------------------------------
(* The certificate and the key.                                             *)

\* The saver is the only one, and with no key on the disk nobody is past loading.
LEMMA NobodyPastSaver ==
  ASSUME OneWrites, FilesInStep, ~raced, ~outage, NEW p \in Runs,
         at[p] \in {"cert", "fill cert", "key", "fill key"}
  PROVE  /\ pinned = Absent
         /\ \A q \in Runs \ {p} : at[q] \notin Saving \cup {"settle"} \cup Serving
         /\ at[p] # "fill key" => \A q \in Runs : at[q] \notin {"load cert", "load key"}
<1>1. ~Settled
  BY FileContents DEF FilesInStep, InStep, Settled
<1>2. \A q \in Runs : at[q] \notin {"flush", "settle"} \cup Serving
  BY <1>1 DEF FilesInStep, InStep
<1>3. QED
  BY <1>1, <1>2 DEF FilesInStep, InStep, OneWrites, Writing, Saving

\* A step that leaves the two files alone has only its own process to see to.
LEMMA FilesKept ==
  ASSUME IdentityTypeOK, FilesInStep, ~raced, ~outage, NEW p \in Runs, NEW a, Goes(p, a),
         now'["cert"] = now["cert"], now'["key"] = now["key"], pinned' = pinned,
         \A q \in Runs \ {p} : mem'[q] = mem[q],
         InStep(p)'
  PROVE  FilesInStep'
<1>1. \A q \in Runs \ {p} : at'[q] = at[q]
  BY DEF Goes, IdentityTypeOK
<1>2. Settled' <=> Settled
  BY DEF Settled
<1>3. ASSUME NEW q \in Runs \ {p} PROVE InStep(q)'
  <2>1. InStep(q)
    BY DEF FilesInStep
  <2>2. at'[q] = at[q] /\ mem'[q] = mem[q]
    BY <1>1
  <2>3. QED
    BY <1>2, <2>1, <2>2 DEF InStep
<1>4. KeyBelongs' /\ (pinned' # Absent => Settled' /\ pinned' = now'["cert"])
  BY <1>2 DEF FilesInStep, KeyBelongs
<1>5. QED
  BY <1>3, <1>4 DEF FilesInStep

LEMMA FilesStep ==
  IdentityTypeOK /\ OneWrites /\ PinIsFlushed /\ FilesInStep /\ [IdentityNext]_identityVars
    => FilesInStep'
<1> SUFFICES ASSUME IdentityTypeOK, OneWrites, PinIsFlushed, FilesInStep,
                    [IdentityNext]_identityVars, ~raced', ~outage'
             PROVE  FilesInStep'
  BY DEF FilesInStep
<1>1. ASSUME NEW p \in Runs, ProcessStep(p), ~PeerPins(p) PROVE FilesInStep'
  <2>0. ~raced /\ ~outage
    BY <1>1, GoesAlone DEF ProcessStep, Begins, Finds, Checks, LoadsCert, LoadsKey, Saves,
      SavesPart, FlushesKey, Settles, Pairs, PairingFails, OpensTmp, Fills, Syncs, Renames,
      Crashes, Ends
  <2>1. /\ KeyBelongs /\ \A q \in Runs : InStep(q)
        /\ pinned # Absent => Settled /\ pinned = now["cert"]
    BY <2>0 DEF FilesInStep
  <2>2. /\ at \in [Runs -> Place] /\ mem \in [Runs -> [cert : Contents, key : Contents]]
        /\ now \in [File -> Contents] /\ drawn \in 0 .. NIdentities
    BY DEF IdentityTypeOK
  <2>3. fd[p] \in {"gone", "tmp"}
    BY <2>0 DEF PinIsFlushed, TmpOf
  <2>4. ASSUME NEW a \in {"off", "discover", "check"}, Goes(p, a), UNCHANGED <<now, pinned>>,
               \A q \in Runs \ {p} : mem'[q] = mem[q]
        PROVE  FilesInStep'
    <3>1. at'[p] = a
      BY <2>2, <2>4 DEF Goes
    <3>2. InStep(p)'
      BY <3>1 DEF InStep, Saving, Serving, Storing
    <3>3. QED
      BY <2>0, <2>4, <3>2, FilesKept
  <2>5. CASE Begins(p) \/ Finds(p)
    BY <2>4, <2>5 DEF Begins, Finds, fileVars
  <2>6. ASSUME Ends(p), UNCHANGED <<now, pinned>> PROVE FilesInStep'
    BY <2>2, <2>4, <2>6 DEF Ends
  <2>7. CASE Crashes(p)
    BY <2>6, <2>7 DEF Crashes, fileVars
  <2>8. ASSUME NEW a \in {"settle"} \cup Serving, Goes(p, a), mem' = mem, pinned' = pinned,
               at[p] \in {"flush", "settle"} \cup Serving,
               now'["cert"] = now["cert"], now'["key"] = now["key"]
        PROVE  FilesInStep'
    <3>1. at'[p] = a
      BY <2>2, <2>8 DEF Goes
    <3>2. Settled' /\ mem'[p] = [cert |-> now'["cert"], key |-> now'["cert"]]
      BY <2>1, <2>8 DEF InStep, Settled
    <3>3. InStep(p)'
      BY <2>8, <3>1, <3>2 DEF InStep, Saving, Serving, Storing
    <3>4. QED
      BY <2>0, <2>8, <3>3, FilesKept
  <2>9. CASE FlushesKey(p)
    BY <2>8, <2>9 DEF FlushesKey, Flushes
  <2>10. ASSUME NEW r \in BOOLEAN, Settles(p, r) PROVE FilesInStep'
    <3>1. now'["cert"] = now["cert"] /\ now'["key"] = now["key"]
      BY <2>2, <2>10 DEF Settles, fileVars, File
    <3>2. QED
      BY <2>8, <2>10, <3>1 DEF Settles, Serving
  <2>11. CASE Pairs(p) \/ PairingFails(p)
    BY <2>8, <2>11 DEF Pairs, PairingFails, fileVars, Serving
  <2>12. CASE OpensTmp(p) \/ Fills(p) \/ Syncs(p) \/ Renames(p)
    <3>1. now'["cert"] = now["cert"] /\ now'["key"] = now["key"]
      BY <2>2, <2>3, <2>12 DEF OpensTmp, Fills, Syncs, Renames, Puts, Flushes, fileVars, File
    <3>2. QED
      BY <2>8, <2>12, <3>1 DEF OpensTmp, Fills, Syncs, Renames, Serving, Storing
  <2>13. CASE Checks(p)
    <3>1. CASE now["cert"] # Absent /\ now["key"] # Absent
      <4>1. Goes(p, "load cert") /\ at'[p] = "load cert" /\ mem' = mem
        BY <2>2, <2>13, <3>1 DEF Checks, Goes
      <4>2. InStep(p)'
        BY <2>13, <3>1, <4>1 DEF Checks, InStep, Saving, Serving, Storing, fileVars
      <4>3. QED
        BY <2>0, <2>13, <4>1, <4>2, FilesKept DEF Checks, fileVars
    <3>2. CASE ~(now["cert"] # Absent /\ now["key"] # Absent)
      <4>1. now["key"] = Absent
        BY <2>1, <3>2, FileContents DEF KeyBelongs
      <4>2. /\ Goes(p, "cert") /\ at'[p] = "cert" /\ drawn < NIdentities
            /\ mem'[p] = [cert |-> drawn + 1, key |-> drawn + 1]
            /\ \A q \in Runs \ {p} : mem'[q] = mem[q]
        BY <2>2, <2>13, <3>2 DEF Checks, Goes
      <4>3. InStep(p)'
        BY <2>2, <2>13, <4>1, <4>2, NextIdentity DEF Checks, InStep, Serving, Storing, fileVars
      <4>4. QED
        BY <2>0, <2>13, <4>2, <4>3, FilesKept DEF Checks, fileVars
    <3>3. QED
      BY <3>1, <3>2
  <2>14. CASE LoadsCert(p)
    <3>1. /\ Goes(p, "load key") /\ at'[p] = "load key" /\ mem'[p].cert = now["cert"]
          /\ \A q \in Runs \ {p} : mem'[q] = mem[q]
      BY <2>2, <2>14 DEF LoadsCert, Goes
    <3>2. InStep(p)'
      BY <2>1, <2>14, <3>1 DEF LoadsCert, InStep, Saving, Serving, Storing, fileVars
    <3>3. QED
      BY <2>0, <2>14, <3>1, <3>2, FilesKept DEF LoadsCert, fileVars
  <2>15. CASE LoadsKey(p)
    <3>1. CASE Ends(p)
      BY <2>6, <2>15, <3>1 DEF LoadsKey, fileVars
    <3>2. CASE ~Ends(p)
      <4>1. Goes(p, "settle") /\ at'[p] = "settle" /\ mem' = [mem EXCEPT ![p].key = now["key"]]
        BY <2>2, <2>15, <3>2 DEF LoadsKey, Goes
      <4>2. Settled /\ mem[p].cert = now["cert"] /\ now["key"] = now["cert"]
        BY <2>1, <2>15, <3>2, FileContents DEF LoadsKey, InStep, KeyBelongs, Settled
      <4>3. /\ mem'[p] = [cert |-> now["cert"], key |-> now["cert"]]
            /\ \A q \in Runs \ {p} : mem'[q] = mem[q]
        BY <2>2, <4>1, <4>2
      <4>4. InStep(p)'
        BY <2>15, <4>1, <4>2, <4>3 DEF LoadsKey, InStep, Saving, Serving, Storing, fileVars,
          Settled
      <4>5. QED
        BY <2>0, <2>15, <4>1, <4>3, <4>4, FilesKept DEF LoadsKey, fileVars
    <3>3. QED
      BY <3>1, <3>2
  <2>16. CASE Saves(p)
    <3>1. /\ pinned = Absent /\ mem[p].cert \in Identity /\ mem[p].key = mem[p].cert
          /\ \A q \in Runs \ {p} : at[q] \notin Saving \cup {"settle"} \cup Serving
          /\ at[p] # "fill key" => \A q \in Runs : at[q] \notin {"load cert", "load key"}
      BY <2>0, <2>1, <2>16, NobodyPastSaver DEF Saves, SavesPart, InStep, Saving
    <3>2. \A q \in Runs \ {p} : at'[q] = at[q] /\ mem'[q] = mem[q]
      BY <2>2, <2>16 DEF Saves, SavesPart, Goes
    <3>3. mem' = mem /\ pinned' = Absent
      BY <2>16, <3>1 DEF Saves, SavesPart
    <3>4. CASE at[p] \in {"cert", "fill cert"}
      <4>1. /\ at'[p] \in {"fill cert", "key"} /\ now'["key"] = Absent
            /\ at'[p] = "key" => now'["cert"] = mem[p].cert
        BY <2>1, <2>2, <2>16, <3>4 DEF Saves, SavesPart, Puts, Goes, File, InStep
      <4>2. InStep(p)'
        BY <3>1, <3>3, <4>1 DEF InStep, Saving, Serving, Storing
      <4>3. \A q \in Runs \ {p} : InStep(q)'
        BY <3>1, <3>2, <3>4 DEF InStep, Saving
      <4>4. QED
        BY <3>3, <4>1, <4>2, <4>3 DEF FilesInStep, KeyBelongs
    <3>5. CASE at[p] = "key"
      <4>1. at'[p] = "fill key" /\ now'["key"] = Empty /\ now'["cert"] = mem[p].cert
        BY <2>1, <2>2, <2>16, <3>5 DEF Saves, SavesPart, Puts, Goes, File, InStep
      <4>2. InStep(p)'
        BY <3>1, <3>3, <4>1 DEF InStep, Saving, Serving, Storing
      <4>3. \A q \in Runs \ {p} : InStep(q)'
        BY <3>1, <3>2, <3>5 DEF InStep, Saving
      <4>4. QED
        BY <3>1, <3>3, <4>1, <4>2, <4>3 DEF FilesInStep, KeyBelongs
    <3>6. CASE at[p] = "fill key"
      <4>1. /\ at'[p] = "flush" /\ now'["key"] = mem[p].cert /\ now'["cert"] = mem[p].cert
            /\ now["cert"] = mem[p].cert
        BY <2>1, <2>2, <2>16, <3>1, <3>6 DEF Saves, SavesPart, Puts, Goes, File, InStep
      <4>2. Settled' /\ mem[p] = [cert |-> mem[p].cert, key |-> mem[p].cert]
        BY <2>2, <3>1, <4>1 DEF Settled
      <4>3. InStep(p)'
        BY <3>1, <3>3, <4>1, <4>2 DEF InStep, Saving, Serving, Storing
      <4>4. ASSUME NEW q \in Runs \ {p} PROVE InStep(q)'
        <5>1. InStep(q) /\ at'[q] = at[q] /\ mem'[q] = mem[q]
          BY <2>1, <3>2
        <5>2. at'[q] \notin Saving \cup {"flush", "settle"} \cup Serving
          BY <3>1, <5>1 DEF Saving
        <5>3. now'["key"] # Absent /\ now'["cert"] = now["cert"]
          BY <3>1, <4>1, FileContents
        <5>4. QED
          BY <5>1, <5>2, <5>3 DEF InStep, Saving
      <4>5. QED
        BY <3>1, <3>3, <4>1, <4>3, <4>4 DEF FilesInStep, KeyBelongs
    <3>7. QED
      BY <2>16, <3>4, <3>5, <3>6 DEF Saves, SavesPart
  <2>17. QED
    BY <1>1, <2>5, <2>7, <2>9, <2>10, <2>11, <2>12, <2>13, <2>14, <2>15, <2>16
      DEF ProcessStep
<1>2. ASSUME NEW p \in Runs, PeerPins(p) PROVE FilesInStep'
  <2>0. ~raced /\ ~outage /\ at[p] \in Serving
    BY <1>2 DEF PeerPins, history
  <2>1. Settled /\ mem[p].cert = now["cert"]
    <3>1. InStep(p)
      BY <2>0 DEF FilesInStep
    <3>2. Settled /\ mem[p] = [cert |-> now["cert"], key |-> now["cert"]]
      BY <2>0, <3>1 DEF InStep
    <3>3. QED
      BY <3>2
  <2>2. \A q \in Runs : InStep(q)'
    BY <1>2 DEF PeerPins, FilesInStep, InStep, Settled, history, fileVars
  <2>3. QED
    BY <1>2, <2>1, <2>2 DEF PeerPins, FilesInStep, KeyBelongs, Settled, history, fileVars
<1>3. CASE PeerForgets
  BY <1>3 DEF PeerForgets, FilesInStep, KeyBelongs, InStep, Settled, history, fileVars
<1>4. CASE WritesBack
  BY <1>4 DEF WritesBack, FilesInStep, KeyBelongs, InStep, Settled, history
<1>5. CASE PowerFails
  BY <1>5 DEF PowerFails
<1>6. CASE UNCHANGED identityVars
  BY <1>6 DEF identityVars, FilesInStep, KeyBelongs, InStep, Settled, history, fileVars
<1>7. QED
  BY <1>1, <1>2, <1>3, <1>4, <1>5, <1>6 DEF IdentityNext

-----------------------------------------------------------------------------
LEMMA IdentityInitial == IdentityInit => IdentityInv
<1> SUFFICES ASSUME IdentityInit
             PROVE  IdentityInv
  OBVIOUS
<1>1. IdentityTypeOK
  <2>1. drawn \in 0 .. NIdentities
    BY IdentityAssumption DEF IdentityInit
  <2>2. mem \in [Runs -> [cert : Contents, key : Contents]]
    BY FileContents DEF IdentityInit, Nothing
  <2>3. now \in [File -> Contents] /\ safe \in [File -> Contents]
    BY FileContents DEF IdentityInit
  <2>4. QED
    BY <2>1, <2>2, <2>3, FileContents DEF IdentityInit, IdentityTypeOK, Place
<1>2. OneWrites
  BY DEF IdentityInit, OneWrites, Writing, Saving, Storing
<1>3. PinIsFlushed
  BY FileContents DEF IdentityInit, PinIsFlushed, PinOnDisk, TmpOf, File
<1>4. FilesInStep
  BY FileContents DEF IdentityInit, FilesInStep, KeyBelongs, InStep, Saving, Serving,
    Storing, File
<1>5. QED
  BY <1>1, <1>2, <1>3, <1>4 DEF IdentityInv

LEMMA IdentityInvHolds == IdentitySpec => []IdentityInv
<1>1. IdentityInv /\ [IdentityNext]_identityVars => IdentityInv'
  BY IdentityTypeStep, OneWritesStep, PinStep, FilesStep DEF IdentityInv
<1>2. QED
  BY <1>1, IdentityInitial, PTL DEF IdentitySpec

\* Every file, and what every process has read of it, keeps its type.
THEOREM IdentityTypesCorrect == IdentitySpec => []IdentityTypeOK
<1>1. IdentityInv => IdentityTypeOK
  BY DEF IdentityInv
<1>2. QED
  BY <1>1, IdentityInvHolds, PTL

\* peer.pin is never found in a state load refuses, wherever the processes that store
\* it are killed or the power fails, as long as two of them never write at one time:
\* PinStore::store renames only what it has flushed.
THEOREM PinIsNeverTorn == IdentitySpec => []PinNeverTorn
<1>1. IdentityInv => PinNeverTorn
  BY DEF IdentityInv, PinIsFlushed, PinOnDisk, PinNeverTorn
<1>2. QED
  BY <1>1, IdentityInvHolds, PTL

\* A machine that has paired keeps its certificate and key, and every process connects
\* with them, however its processes crash between the steps of load_or_generate.
THEOREM PairedIdentityLasts == IdentitySpec => []IdentityLasts
<1>1. IdentityInv => IdentityLasts
  BY DEF IdentityInv, FilesInStep, InStep, Settled, IdentityLasts
<1>2. QED
  BY <1>1, IdentityInvHolds, PTL

-----------------------------------------------------------------------------
(* Overlapping sessions on the Mac.                                         *)

\* What is left of the two lists after one action, and after two.
CrossingLeft1 == <<"hide", "swallow">>
CrossingLeft2 == <<"swallow">>
ReturningLeft1 == <<"show", "warp">>
ReturningLeft2 == <<"warp">>

\* A list is the one that led to the state the brain is in, or the rest of it.
ListFitsState ==
  \A s \in Sessions :
    /\ brain[s] = "remote" => todo[s] \in {Crossing, CrossingLeft1, CrossingLeft2, <<>>}
    /\ brain[s] = "local" => todo[s] \in {Returning, ReturningLeft1, ReturningLeft2, <<>>}
    /\ brain[s] \notin {"remote", "local"} => todo[s] = <<>>

\* The flag is changed, or about to be, only by a brain whose tap has run its loop
\* while there was a watcher; what is stopped then stays stopped.
Engaged(s) ==
  heard[s] \/ swallow[s] \/ todo[s] # <<>> \/ brain[s] \in {"remote", "abandoned"}

StoppableAt(s) ==
  /\ owner[s] = "none" => thread[s] = "none"
  /\ thread[s] = "starting" => owner[s] = "waiting"
  /\ owner[s] \in {"none", "waiting", "off"} => brain[s] = "off"
  /\ owner[s] = "held" => watcher[s] = "waits"
  /\ Engaged(s) => \/ thread[s] = "running" /\ watcher[s] = "waits"
                   \/ thread[s] \in {"stopping", "gone"}

EngagedIsStoppable == \A s \in Sessions : StoppableAt(s)

\* The sessions whose last call of the two was a hide.
Hiding ==
  {s \in Sessions :
     \/ brain[s] \in {"remote", "abandoned"} /\ todo[s] \in {CrossingLeft2, <<>>}
     \/ brain[s] = "local" /\ todo[s] \in {Returning, ReturningLeft1}}

\* Each of them stands for one hide, and only a hide detaches the mouse.
HidesCounted == hides = Cardinality(Hiding) /\ (coupled \/ Hiding # {})

ThreadShapes ==
  /\ thread \in [Sessions -> {"none", "starting", "reported", "running", "stopping", "gone"}]
  /\ owner \in [Sessions -> {"none", "waiting", "off", "held", "dropping", "over"}]
  /\ watcher \in [Sessions -> {"none", "waits", "done"}]

BrainShapes ==
  /\ brain \in [Sessions -> {"off", "local", "remote", "ended", "abandoned"}]
  /\ heard \in [Sessions -> BOOLEAN] /\ swallow \in [Sessions -> BOOLEAN]
  /\ todo \in [Sessions -> Seq(Step)]
  /\ ending \in SUBSET Sessions /\ coupled \in BOOLEAN

MacInv == ThreadShapes /\ BrainShapes /\ ListFitsState /\ EngagedIsStoppable /\ HidesCounted

-----------------------------------------------------------------------------
\* The lists, taken apart and told from each other.
LEMMA Lists ==
  /\ Head(Crossing) = "warp" /\ Tail(Crossing) = CrossingLeft1
  /\ Head(CrossingLeft1) = "hide" /\ Tail(CrossingLeft1) = CrossingLeft2
  /\ Head(CrossingLeft2) = "swallow" /\ Tail(CrossingLeft2) = <<>>
  /\ Head(Returning) = "pass" /\ Tail(Returning) = ReturningLeft1
  /\ Head(ReturningLeft1) = "show" /\ Tail(ReturningLeft1) = ReturningLeft2
  /\ Head(ReturningLeft2) = "warp" /\ Tail(ReturningLeft2) = <<>>
BY DEF Crossing, Returning, CrossingLeft1, CrossingLeft2, ReturningLeft1, ReturningLeft2

LEMMA ListsDiffer ==
  /\ <<>> \notin {Crossing, CrossingLeft1, CrossingLeft2, Returning, ReturningLeft1, ReturningLeft2}
  /\ Crossing \notin {CrossingLeft1, CrossingLeft2}
  /\ CrossingLeft1 # CrossingLeft2
  /\ Returning \notin {ReturningLeft1, ReturningLeft2}
  /\ ReturningLeft1 # ReturningLeft2
BY DEF Crossing, Returning, CrossingLeft1, CrossingLeft2, ReturningLeft1, ReturningLeft2

\* What is left of one list is not what is left of the other.
LEMMA ListsDistinct ==
  /\ {CrossingLeft1, ReturningLeft1} \cap {Crossing, CrossingLeft2, Returning, ReturningLeft2} = {}
  /\ Crossing # ReturningLeft2 /\ CrossingLeft2 # Returning
BY DEF Crossing, Returning, CrossingLeft1, CrossingLeft2, ReturningLeft1, ReturningLeft2

LEMMA ListsAreLists ==
  {Crossing, CrossingLeft1, CrossingLeft2, Returning, ReturningLeft1, ReturningLeft2, <<>>}
    \subseteq Seq(Step)
BY DEF Crossing, Returning, CrossingLeft1, CrossingLeft2, ReturningLeft1, ReturningLeft2, Step

LEMMA SessionsFinite == IsFiniteSet(Sessions) /\ IsFiniteSet(Hiding) /\ Cardinality(Hiding) \in Nat
<1>1. IsFiniteSet(Sessions)
  BY FS_Interval, SessionsAssumption DEF Sessions
<1>2. Hiding \in SUBSET Sessions
  BY DEF Hiding
<1>3. QED
  BY <1>1, <1>2, FS_Subset, FS_CardinalityType

-----------------------------------------------------------------------------
(* One step per action, in groups that change the same things.              *)

\* The threads, and who waits for them.
ThreadStep(s) ==
  \/ TapBegins(s) \/ TapFails(s) \/ TapCreated(s) \/ LoopRuns(s) \/ WatcherUnspawned(s)
  \/ SessionEnds(s) \/ SourceDropped(s) \/ LoopStopped(s) \/ TapFreed(s) \/ ThreadsJoined(s)

LEMMA ThreadStepKeeps ==
  ASSUME MacInv, NEW s \in Sessions, ThreadStep(s)
  PROVE  MacInv'
<1>0. ThreadShapes /\ BrainShapes /\ ListFitsState /\ EngagedIsStoppable /\ HidesCounted
  BY DEF MacInv
<1>1. UNCHANGED <<brain, todo, heard, swallow, hides, coupled>>
  BY DEF ThreadStep, TapBegins, TapFails, TapCreated, LoopRuns, WatcherUnspawned, SessionEnds,
    SourceDropped, LoopStopped, TapFreed, ThreadsJoined, brainVars, cursorVars
<1>2. HidesCounted' /\ ListFitsState'
  <2>1. Hiding' = Hiding
    BY <1>1 DEF Hiding
  <2>2. QED
    BY <1>0, <1>1, <2>1 DEF HidesCounted, ListFitsState
<1>3. ThreadShapes'
  BY <1>0 DEF ThreadShapes, ThreadStep, TapBegins, TapFails, TapCreated, LoopRuns,
    WatcherUnspawned, SessionEnds, SourceDropped, LoopStopped, TapFreed, ThreadsJoined, threadVars
<1>4. BrainShapes'
  <2>1. ending' \in SUBSET Sessions
    BY <1>0 DEF BrainShapes, ThreadStep, TapBegins, TapFails, TapCreated, LoopRuns,
      WatcherUnspawned, SessionEnds, SourceDropped, LoopStopped, TapFreed, ThreadsJoined
  <2>2. QED
    BY <1>0, <1>1, <2>1 DEF BrainShapes
<1>5. EngagedIsStoppable'
  <2>1. SUFFICES ASSUME NEW t \in Sessions
                 PROVE  (StoppableAt(t))'
    BY DEF EngagedIsStoppable
  <2>2. StoppableAt(t) /\ StoppableAt(s) /\ ThreadShapes
    BY <1>0 DEF EngagedIsStoppable
  <2>3. Engaged(t)' <=> Engaged(t)
    BY <1>1 DEF Engaged
  <2> USE <1>1, <2>2, <2>3 DEF StoppableAt, ThreadShapes, threadVars
  <2>4. CASE TapBegins(s)
    BY <2>4 DEF TapBegins, Engaged
  <2>5. CASE TapFails(s)
    BY <2>5 DEF TapFails
  <2>6. CASE TapCreated(s)
    BY <2>6 DEF TapCreated
  <2>7. CASE LoopRuns(s)
    BY <2>7 DEF LoopRuns
  <2>8. CASE WatcherUnspawned(s)
    BY <2>8 DEF WatcherUnspawned, Taps
  <2>9. CASE SessionEnds(s)
    BY <2>9 DEF SessionEnds
  <2>10. CASE SourceDropped(s)
    BY <2>10 DEF SourceDropped
  <2>11. CASE LoopStopped(s)
    BY <2>11 DEF LoopStopped
  <2>12. CASE TapFreed(s)
    BY <2>12 DEF TapFreed
  <2>13. CASE ThreadsJoined(s)
    BY <2>13 DEF ThreadsJoined
  <2>14. QED
    BY <2>4, <2>5, <2>6, <2>7, <2>8, <2>9, <2>10, <2>11, <2>12, <2>13 DEF ThreadStep
<1>6. QED
  BY <1>2, <1>3, <1>4, <1>5 DEF MacInv

\* The brain's inputs, its start and its end: no call yet.
BrainStep(s) ==
  \/ SourceReady(s) \/ TapHears(s) \/ BrainCrosses(s) \/ BrainIgnores(s) \/ BrainReturns(s)
  \/ BrainAborted(s)

LEMMA BrainStepKeeps ==
  ASSUME MacInv, NEW s \in Sessions, BrainStep(s)
  PROVE  MacInv'
<1>0. ThreadShapes /\ BrainShapes /\ ListFitsState /\ EngagedIsStoppable /\ HidesCounted
  BY DEF MacInv
<1>1. UNCHANGED <<hides, coupled, swallow, thread, ending>>
  BY DEF BrainStep, SourceReady, TapHears, BrainCrosses, BrainIgnores, BrainReturns,
    BrainAborted, Decides, threadVars, cursorVars
<1>2. ThreadShapes' /\ BrainShapes'
  <2>1. ThreadShapes'
    BY <1>0 DEF BrainStep, SourceReady, TapHears, BrainCrosses, BrainIgnores, BrainReturns,
      BrainAborted, Decides, threadVars, ThreadShapes
  <2>2. todo' \in [Sessions -> Seq(Step)]
    <3>1. CASE UNCHANGED todo
      BY <1>0, <3>1 DEF BrainShapes
    <3>2. CASE BrainCrosses(s) \/ BrainIgnores(s) \/ BrainReturns(s)
      BY <1>0, <3>2, ListsAreLists DEF BrainShapes, BrainCrosses, BrainIgnores, BrainReturns, Decides
    <3>3. QED
      BY <3>1, <3>2 DEF BrainStep, SourceReady, TapHears, BrainAborted
  <2>3. /\ brain' \in [Sessions -> {"off", "local", "remote", "ended", "abandoned"}]
        /\ heard' \in [Sessions -> BOOLEAN]
    BY <1>0 DEF BrainStep, SourceReady, TapHears, BrainCrosses, BrainIgnores, BrainReturns,
      BrainAborted, Decides, threadVars, BrainShapes
  <2>4. QED
    BY <1>0, <1>1, <2>1, <2>2, <2>3 DEF BrainShapes
\* What has become of s, and of the others nothing.
<1>3. /\ \A t \in Sessions \ {s} :
           /\ brain'[t] = brain[t] /\ todo'[t] = todo[t] /\ heard'[t] = heard[t]
           /\ owner'[t] = owner[t] /\ watcher'[t] = watcher[t]
      /\ \/ /\ owner[s] = "waiting" /\ owner'[s] = "held" /\ watcher'[s] = "waits"
            /\ brain'[s] = "local" /\ todo'[s] = todo[s] /\ heard'[s] = heard[s]
            /\ s \in Taps
         \/ /\ thread[s] = "running" /\ owner[s] = "held"
            /\ brain'[s] = brain[s] /\ todo'[s] = todo[s]
            /\ owner'[s] = owner[s] /\ watcher'[s] = watcher[s]
         \/ /\ brain[s] \in {"local", "remote"} /\ todo[s] = <<>> /\ ~heard'[s]
            /\ owner'[s] = owner[s] /\ watcher'[s] = watcher[s]
            /\ \/ brain'[s] = brain[s] /\ todo'[s] = <<>>
               \/ brain[s] = "remote" /\ brain'[s] = "abandoned" /\ todo'[s] = <<>>
               \/ brain[s] = "local" /\ brain'[s] = "ended" /\ todo'[s] = <<>>
         \/ /\ brain[s] = "local" /\ brain'[s] = "remote" /\ heard[s]
            /\ todo[s] = <<>> /\ todo'[s] = Crossing
            /\ owner'[s] = owner[s] /\ watcher'[s] = watcher[s]
         \/ /\ brain[s] = "remote" /\ brain'[s] = "local"
            /\ todo[s] = <<>> /\ todo'[s] = Returning
            /\ owner'[s] = owner[s] /\ watcher'[s] = watcher[s]
  <2> USE <1>0 DEF ThreadShapes, BrainShapes, threadVars
  <2>1. CASE SourceReady(s)
    BY <2>1 DEF SourceReady
  <2>2. CASE TapHears(s)
    BY <2>2 DEF TapHears
  <2>3. CASE BrainCrosses(s)
    BY <2>3 DEF BrainCrosses, Decides
  <2>4. CASE BrainIgnores(s)
    BY <2>4 DEF BrainIgnores, Decides
  <2>5. CASE BrainReturns(s)
    BY <2>5 DEF BrainReturns, Decides
  <2>6. CASE BrainAborted(s)
    BY <2>6 DEF BrainAborted
  <2>7. QED
    BY <2>1, <2>2, <2>3, <2>4, <2>5, <2>6 DEF BrainStep
<1>4. StoppableAt(s)
  BY <1>0 DEF EngagedIsStoppable
<1>5. ListFitsState'
  BY <1>0, <1>3, <1>4 DEF ListFitsState, StoppableAt
<1>6. EngagedIsStoppable'
  <2>1. SUFFICES ASSUME NEW t \in Sessions
                 PROVE  (StoppableAt(t))'
    BY DEF EngagedIsStoppable
  <2>2. StoppableAt(t)
    BY <1>0 DEF EngagedIsStoppable
  <2>3. CASE t # s
    BY <1>1, <1>3, <2>2, <2>3 DEF StoppableAt, Engaged
  <2>4. CASE t = s
    BY <1>1, <1>3, <1>4, <2>4 DEF StoppableAt, Engaged, Taps
  <2>5. QED
    BY <2>3, <2>4
<1>7. HidesCounted'
  <2>1. s \in Hiding' <=> s \in Hiding
    BY <1>0, <1>3, <1>4, ListsDiffer DEF Hiding, StoppableAt, ListFitsState
  <2>2. Hiding' = Hiding
    BY <1>3, <2>1 DEF Hiding
  <2>3. QED
    BY <1>0, <1>1, <2>2 DEF HidesCounted
<1>8. QED
  BY <1>2, <1>5, <1>6, <1>7 DEF MacInv

\* What one call does: the list of s is one shorter, and the call is the one its
\* place in the list says.
LEMMA CallEffect ==
  ASSUME MacInv, NEW s \in Sessions, Executes(s)
  PROVE  /\ UNCHANGED <<thread, owner, watcher, brain, heard, ending>>
         /\ \A t \in Sessions \ {s} : todo'[t] = todo[t] /\ swallow'[t] = swallow[t]
         /\ todo[s] # <<>> /\ todo'[s] = Tail(todo[s])
         /\ todo' \in [Sessions -> Seq(Step)] /\ swallow' \in [Sessions -> BOOLEAN]
         /\ Head(todo[s]) = "hide" => hides' = hides + 1 /\ ~coupled'
         /\ Head(todo[s]) = "show" =>
              hides' = (IF hides > 0 THEN hides - 1 ELSE hides) /\ coupled'
         /\ Head(todo[s]) \notin {"hide", "show"} => hides' = hides
         /\ Head(todo[s]) = "warp" => coupled'
         /\ Head(todo[s]) \in {"swallow", "pass"} => coupled' = coupled
         /\ coupled' \in BOOLEAN
<1>0. BrainShapes
  BY DEF MacInv
<1>1. /\ UNCHANGED <<thread, owner, watcher, brain, heard, ending>>
      /\ todo[s] # <<>> /\ todo' = [todo EXCEPT ![s] = Tail(todo[s])]
  BY DEF Executes, threadVars
<1>2. todo[s] \in Seq(Step) /\ Tail(todo[s]) \in Seq(Step)
  BY <1>0, <1>1 DEF BrainShapes
<1>3. /\ todo' \in [Sessions -> Seq(Step)]
      /\ \A t \in Sessions \ {s} : todo'[t] = todo[t]
      /\ todo'[s] = Tail(todo[s])
  BY <1>0, <1>1, <1>2 DEF BrainShapes
<1>4. /\ swallow' \in [Sessions -> BOOLEAN]
      /\ \A t \in Sessions \ {s} : swallow'[t] = swallow[t]
  BY <1>0 DEF BrainShapes, Executes
<1>5. /\ Head(todo[s]) = "hide" => hides' = hides + 1 /\ ~coupled'
      /\ Head(todo[s]) = "show" =>
           hides' = (IF hides > 0 THEN hides - 1 ELSE hides) /\ coupled'
      /\ Head(todo[s]) \notin {"hide", "show"} => hides' = hides
      /\ Head(todo[s]) = "warp" => coupled'
      /\ Head(todo[s]) \in {"swallow", "pass"} => coupled' = coupled
      /\ coupled' \in BOOLEAN
  BY <1>0 DEF Executes, BrainShapes
<1>6. QED
  BY <1>1, <1>3, <1>4, <1>5

LEMMA CallKeeps ==
  ASSUME MacInv, NEW s \in Sessions, Executes(s)
  PROVE  MacInv'
<1>0. ThreadShapes /\ BrainShapes /\ ListFitsState /\ EngagedIsStoppable /\ HidesCounted
  BY DEF MacInv
<1>1. ThreadShapes' /\ BrainShapes'
  BY <1>0, CallEffect DEF ThreadShapes, BrainShapes
\* Where in which list s is.
<1>2. \/ brain[s] = "remote" /\ todo[s] = Crossing
      \/ brain[s] = "remote" /\ todo[s] = CrossingLeft1
      \/ brain[s] = "remote" /\ todo[s] = CrossingLeft2
      \/ brain[s] = "local" /\ todo[s] = Returning
      \/ brain[s] = "local" /\ todo[s] = ReturningLeft1
      \/ brain[s] = "local" /\ todo[s] = ReturningLeft2
  BY <1>0, CallEffect DEF ListFitsState
<1>3. ListFitsState'
  <2>1. /\ brain[s] = "remote" => todo'[s] \in {CrossingLeft1, CrossingLeft2, <<>>}
        /\ brain[s] = "local" => todo'[s] \in {ReturningLeft1, ReturningLeft2, <<>>}
        /\ brain[s] \in {"remote", "local"}
    <3>1. todo'[s] = Tail(todo[s])
      BY CallEffect
    <3>2. CASE brain[s] = "remote"
      BY <1>2, <3>1, <3>2, Lists
    <3>3. CASE brain[s] = "local"
      BY <1>2, <3>1, <3>3, Lists
    <3>4. QED
      BY <1>2, <3>2, <3>3
  <2>2. brain' = brain /\ \A t \in Sessions \ {s} : todo'[t] = todo[t]
    BY CallEffect
  <2>3. QED
    BY <1>0, <2>1, <2>2 DEF ListFitsState
<1>4. EngagedIsStoppable'
  <2>1. SUFFICES ASSUME NEW t \in Sessions
                 PROVE  (StoppableAt(t))'
    BY DEF EngagedIsStoppable
  <2>2. StoppableAt(t)
    BY <1>0 DEF EngagedIsStoppable
  <2>3. Engaged(t)' => Engaged(t)
    BY CallEffect DEF Engaged
  <2>4. QED
    BY <2>2, <2>3, CallEffect DEF StoppableAt
<1>5. Cardinality(Hiding) \in Nat /\ IsFiniteSet(Hiding)
  BY SessionsFinite
<1>6. \A t \in Sessions \ {s} : t \in Hiding' <=> t \in Hiding
  BY CallEffect DEF Hiding
<1>7. HidesCounted'
  <2>1. CASE todo[s] = CrossingLeft1 /\ brain[s] = "remote"
    <3>1. s \notin Hiding /\ s \in Hiding'
      BY <2>1, CallEffect, Lists, ListsDiffer DEF Hiding
    <3>2. Hiding' = Hiding \cup {s}
      BY <1>6, <3>1 DEF Hiding
    <3>3. Cardinality(Hiding') = Cardinality(Hiding) + 1
      BY <1>5, <3>1, <3>2, FS_AddElement
    <3>4. hides' = hides + 1
      BY <2>1, CallEffect, Lists
    <3>5. QED
      BY <1>0, <3>1, <3>3, <3>4 DEF HidesCounted
  <2>2. CASE todo[s] = ReturningLeft1 /\ brain[s] = "local"
    <3>1. s \in Hiding /\ s \notin Hiding'
      BY <2>2, CallEffect, Lists, ListsDiffer DEF Hiding
    <3>2. Hiding' = Hiding \ {s}
      BY <1>6, <3>1 DEF Hiding
    <3>3. Cardinality(Hiding') = Cardinality(Hiding) - 1 /\ Cardinality(Hiding) # 0
      BY <1>5, <3>1, <3>2, FS_RemoveElement, FS_EmptySet
    <3>4. coupled' /\ hides' = (IF hides > 0 THEN hides - 1 ELSE hides)
      BY <2>2, CallEffect, Lists
    <3>5. QED
      BY <1>0, <1>5, <3>3, <3>4 DEF HidesCounted
  <2>3. CASE todo[s] \in {Crossing, CrossingLeft2, Returning, ReturningLeft2}
    <3>1. s \in Hiding' <=> s \in Hiding
      <4>1. CASE brain[s] = "remote" /\ todo[s] = Crossing
        <5>1. brain'[s] = "remote" /\ todo'[s] = CrossingLeft1
          BY <4>1, CallEffect, Lists
        <5>2. QED
          BY <4>1, <5>1, ListsDiffer DEF Hiding
      <4>2. CASE brain[s] = "remote" /\ todo[s] = CrossingLeft2
        <5>1. brain'[s] = "remote" /\ todo'[s] = <<>>
          BY <4>2, CallEffect, Lists
        <5>2. QED
          BY <4>2, <5>1, ListsDiffer DEF Hiding
      <4>3. CASE brain[s] = "local" /\ todo[s] = Returning
        <5>1. brain'[s] = "local" /\ todo'[s] = ReturningLeft1
          BY <4>3, CallEffect, Lists
        <5>2. QED
          BY <4>3, <5>1, ListsDiffer DEF Hiding
      <4>4. CASE brain[s] = "local" /\ todo[s] = ReturningLeft2
        <5>1. brain'[s] = "local" /\ todo'[s] = <<>>
          BY <4>4, CallEffect, Lists
        <5>2. QED
          BY <4>4, <5>1, ListsDiffer DEF Hiding
      <4>5. QED
        BY <1>2, <2>3, <4>1, <4>2, <4>3, <4>4, ListsDistinct
    <3>2. Hiding' = Hiding
      BY <1>6, <3>1 DEF Hiding
    <3>3. hides' = hides /\ (coupled => coupled')
      BY <2>3, CallEffect, Lists
    <3>4. QED
      BY <1>0, <3>2, <3>3 DEF HidesCounted
  <2>4. QED
    BY <1>2, <2>1, <2>2, <2>3
<1>8. QED
  BY <1>1, <1>3, <1>4, <1>7 DEF MacInv

-----------------------------------------------------------------------------
\* The taps are in one order, the newest first.
Ordered ==
  /\ ahead \in SUBSET (Taps \X Taps)
  /\ \A s, t \in Taps : s = t \/ (<<s, t>> \in ahead <=> <<t, s>> \notin ahead)

LEMMA OrderStep ==
  ASSUME MacInv, Ordered, [InputNext]_inputVars
  PROVE  Ordered'
<1>0. ThreadShapes
  BY DEF MacInv
<1>1. CASE \E s \in Sessions : TapCreated(s)
  <2>1. PICK s \in Sessions : TapCreated(s)
    BY <1>1
  <2>2. s \notin Taps /\ Taps' = Taps \cup {s} /\ ahead' = ahead \cup ({s} \X Taps)
    BY <1>0, <2>1 DEF TapCreated, Taps, ThreadShapes
  <2>3. QED
    BY <2>2 DEF Ordered
<1>2. CASE \E s \in Sessions : TapFreed(s)
  <2>1. PICK s \in Sessions : TapFreed(s)
    BY <1>2
  <2>2. Taps' = Taps \ {s} /\ ahead' = {p \in ahead : s \notin {p[1], p[2]}}
    BY <1>0, <2>1 DEF TapFreed, Taps, ThreadShapes
  <2>3. QED
    BY <2>2 DEF Ordered
<1>3. CASE ~(\E s \in Sessions : TapCreated(s) \/ TapFreed(s))
  <2>1. UNCHANGED ahead
    BY <1>3 DEF InputNext, TapThread, Teardown, TapBegins, TapFails, LoopRuns, SourceReady,
      WatcherUnspawned, TapHears, BrainCrosses, BrainIgnores, BrainReturns, Decides, Executes,
      SessionEnds, BrainAborted, SourceDropped, LoopStopped, ThreadsJoined, inputVars, threadVars
  <2>2. Taps' = Taps
    <3>1. CASE UNCHANGED thread
      BY <3>1 DEF Taps
    <3>2. CASE \E s \in Sessions : TapBegins(s) \/ TapFails(s) \/ LoopRuns(s) \/ LoopStopped(s)
      <4>1. PICK s \in Sessions : TapBegins(s) \/ TapFails(s) \/ LoopRuns(s) \/ LoopStopped(s)
        BY <3>2
      <4>2. owner[s] = "none" => thread[s] = "none"
        BY DEF MacInv, EngagedIsStoppable, StoppableAt
      <4> USE <1>0, <4>2 DEF ThreadShapes, Taps
      <4>3. CASE TapBegins(s)
        BY <4>3 DEF TapBegins
      <4>4. CASE TapFails(s)
        BY <4>4 DEF TapFails
      <4>5. CASE LoopRuns(s)
        BY <4>5 DEF LoopRuns
      <4>6. CASE LoopStopped(s)
        BY <4>6 DEF LoopStopped
      <4>7. QED
        BY <4>1, <4>3, <4>4, <4>5, <4>6
    <3>3. QED
      BY <1>3, <3>1, <3>2 DEF InputNext, TapThread, Teardown, SourceReady,
        WatcherUnspawned, TapHears, BrainCrosses, BrainIgnores, BrainReturns, Decides, Executes,
        SessionEnds, BrainAborted, SourceDropped, ThreadsJoined, inputVars, threadVars
  <2>3. QED
    BY <2>1, <2>2 DEF Ordered
<1>4. QED
  BY <1>1, <1>2, <1>3

-----------------------------------------------------------------------------
LEMMA MacInvHolds == InputSpec => []MacInv
<1>1. InputInit => MacInv
  <2> SUFFICES ASSUME InputInit PROVE MacInv
    OBVIOUS
  <2>1. ThreadShapes /\ BrainShapes /\ ListFitsState
    BY ListsAreLists DEF InputInit, ThreadShapes, BrainShapes, ListFitsState
  <2>2. EngagedIsStoppable
    BY DEF InputInit, EngagedIsStoppable, StoppableAt, Engaged
  <2>3. Hiding = {}
    BY DEF InputInit, Hiding
  <2>4. QED
    BY <2>1, <2>2, <2>3, FS_EmptySet DEF InputInit, MacInv, HidesCounted
<1>2. MacInv /\ [InputNext]_inputVars => MacInv'
  <2> SUFFICES ASSUME MacInv, [InputNext]_inputVars PROVE MacInv'
    OBVIOUS
  <2>1. CASE UNCHANGED inputVars
    BY <2>1 DEF inputVars, threadVars, brainVars, cursorVars, MacInv, ThreadShapes, BrainShapes,
      ListFitsState, EngagedIsStoppable, StoppableAt, Engaged, HidesCounted, Hiding
  <2>2. CASE InputNext
    <3>1. PICK s \in Sessions : ThreadStep(s) \/ BrainStep(s) \/ Executes(s)
      BY <2>2 DEF InputNext, TapThread, Teardown, ThreadStep, BrainStep
    <3>2. QED
      BY <3>1, ThreadStepKeeps, BrainStepKeeps, CallKeeps
  <2>3. QED
    BY <2>1, <2>2
<1>3. QED
  BY <1>1, <1>2, PTL DEF InputSpec

\* The threads, the taps' order, the lists and the count of hides keep their types: never
\* more hides than sessions.
THEOREM InputTypesCorrect == InputSpec => []InputTypeOK
<1>1. InputInit => Ordered
  BY DEF InputInit, Ordered, Taps
<1>2. MacInv /\ Ordered /\ [InputNext]_inputVars => Ordered'
  BY OrderStep
<1>3. MacInv /\ Ordered => InputTypeOK
  <2>1. SUFFICES ASSUME MacInv, Ordered PROVE InputTypeOK
    OBVIOUS
  <2>2. Hiding \in SUBSET Sessions /\ Cardinality(Sessions) = NSessions
    BY FS_Interval, SessionsAssumption DEF Hiding, Sessions
  <2>3. Cardinality(Hiding) <= NSessions
    BY <2>2, SessionsFinite, FS_Subset
  <2>4. hides \in 0 .. NSessions
    BY <2>1, <2>3, SessionsFinite, SessionsAssumption DEF MacInv, HidesCounted
  <2>5. QED
    BY <2>1, <2>4 DEF MacInv, ThreadShapes, BrainShapes, Ordered, InputTypeOK
<1>4. QED
  BY <1>1, <1>2, <1>3, MacInvHolds, PTL DEF InputSpec

\* Every tap that takes the user's input away can be stopped, and between the lists the
\* cursor is hidden once for every session that is, or ended, remote; whatever number of
\* sessions overlap, and wherever aborts and stops fall.
THEOREM MacIsLeftClean == InputSpec => []MacLeftClean
<1>1. MacInv => SwallowerCanBeStopped
  BY DEF MacInv, EngagedIsStoppable, StoppableAt, Engaged, SwallowerCanBeStopped, Taps
<1>2. MacInv => CursorAccounted
  <2> DEFINE away == {s \in Sessions : brain[s] \in {"remote", "abandoned"}}
  <2>1. SUFFICES ASSUME MacInv, \A s \in Sessions : todo[s] = <<>>
                 PROVE  hides = Cardinality(away) /\ (away = {} => coupled)
    BY DEF CursorAccounted
  <2>2. Hiding = away
    BY <2>1, ListsDiffer DEF Hiding
  <2>3. QED
    BY <2>1, <2>2 DEF MacInv, HidesCounted
<1>3. QED
  BY <1>1, <1>2, MacInvHolds, PTL DEF MacLeftClean

-----------------------------------------------------------------------------
(* Side by side.                                                            *)

\* Each part runs by its own specification, or rests.
LEMMA PartsSideBySide == Spec => DisplaySpec /\ HostSpec /\ IdentitySpec /\ InputSpec
<1>1. Init => DisplayInit /\ HostInit /\ IdentityInit /\ InputInit
  BY DEF Init
<1>2. [Next]_vars => /\ [DisplayNext]_displayVars /\ [HostNext]_hostVars
                     /\ [IdentityNext]_identityVars /\ [InputNext]_inputVars
  <2>1. UNCHANGED vars => UNCHANGED <<displayVars, hostVars, identityVars, inputVars>>
    BY DEF vars
  <2>2. QED
    BY <2>1 DEF Next
<1>3. QED
  BY <1>1, <1>2, PTL DEF Spec, DisplaySpec, HostSpec, IdentitySpec, InputSpec

\* The four parts keep their types together, as they are checked.
THEOREM HostsTypesCorrect == Spec => []TypesOK
BY PartsSideBySide, DisplayTypesCorrect, HostTypesCorrect, IdentityTypesCorrect,
   InputTypesCorrect, PTL DEF TypesOK
===============================================================================
