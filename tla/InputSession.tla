---------------------------- MODULE InputSession ----------------------------
(***************************************************************************)
(* One Mac server and one Windows client sharing the Mac's keyboard and    *)
(* mouse: the event tap, the edge brain with its state machine and         *)
(* held-key tracker, the two outbound channels, the client's injector and  *)
(* its cursor-leave watcher, and the two ways a session ends.              *)
(*                                                                         *)
(*   tap --tapQ--> forwarder --brainQ--> brain --toClient--> injector      *)
(*                                 ^                            |active    *)
(*                  reader --------+ <-------toServer------- watcher       *)
(*                                                                         *)
(* Every task of the two programs is its own action, so every interleaving *)
(* of the tap thread, the tokio workers of either side and the network is  *)
(* a behaviour.  A bounded outbound channel and the TCP stream behind it   *)
(* are one FIFO of capacity OutCap / BackCap: the encoder only moves       *)
(* frames from one to the other and stalls when the socket does.           *)
(***************************************************************************)
EXTENDS Naturals, Sequences

CONSTANTS
  Keys,      \* HID usages on the Mac keyboard, and on the wire
  ModKeys,   \* the modifiers, reported by FlagsChanged events
  Remap,     \* ModRemap::apply_to_hid: the HID each key has on the wire
  MaxTap,    \* model bound on the tap's unbounded channel
  BrainCap,  \* BRAIN_CHANNEL_BOUND
  OutCap,    \* OUTBOUND_CHANNEL_BOUND of the server, with the stream behind it
  BackCap    \* OUTBOUND_CHANNEL_BOUND of the client, with the stream behind it

ASSUME ConstantsAssumption ==
  /\ ModKeys \subseteq Keys
  /\ Remap \in [Keys -> Keys]
  /\ MaxTap \in Nat \ {0} /\ BrainCap \in Nat \ {0}
  /\ OutCap \in Nat \ {0} /\ BackCap \in Nat \ {0}

VARIABLES
  \* the user and macOS
  phys,         \* keys the user is pressing
  macDown,      \* keys local applications saw go down and not come up
  cursorHidden, \* Mac cursor hidden and decoupled from the mouse
  \* the tap thread
  heldMods,     \* TapState.held_mods
  swallow,      \* the swallow flag: the callback returns NULL
  tapQ,         \* events sent by the callback, not yet forwarded
  \* the edge brain
  brainQ,       \* its input channel
  sm,           \* StateMachine.state
  cooling,      \* the thrash cooldown has not elapsed
  pc,           \* "idle", or inside the action list of a transition
  held,         \* HeldKeys of the server
  toRelease,    \* keys taken from held by a transition, Up not yet queued
  \* the server's session
  srv,          \* "up", "draining" after the first task exit, "down"
  owed,         \* keys taken from held by the disconnect drain
  toClient,     \* frames on their way to the client
  \* the client's session
  cli,          \* the session's tasks run
  cliHeld,      \* HeldKeys of the InjectorGuard
  winDown,      \* keys Windows considers down
  active,       \* the client drives: TakeControl seen, not yet released
  watcher,      \* "poll", or "sent" between try_send and active.store(false)
  toServer,     \* frames on their way to the server
  \* history: what a disabled tap missed and bounded channels refused in this session
  srcLost,      \* keys one of whose events the tap missed or the brain channel refused
  outLost,      \* keys one of whose frames found the outbound channel full
  ctlLost       \* a TakeControl or ReleaseControl was refused by a channel

macVars  == <<phys, macDown, cursorHidden>>
tapVars  == <<heldMods, swallow, tapQ>>
brainVars == <<sm, cooling, pc, held, toRelease>>
srvVars  == <<srv, owed>>
cliVars  == <<cli, cliHeld, winDown, active, watcher>>
outVars  == <<toClient, outLost, ctlLost>>
vars == <<macVars, tapVars, brainQ, brainVars, srvVars, cliVars, outVars,
          toServer, srcLost>>

KeyMsg  == [type : {"Down", "Up"}, key : Keys]
Motion  == [type |-> "Motion"]     \* MouseRel, then a CursorAt off the edge
Edge    == [type |-> "Edge"]       \* MouseRel, then a CursorAt on the right edge
Release == [type |-> "Release"]    \* ReleaseControl
Take    == [type |-> "Take"]       \* TakeControl
Bulk    == [type |-> "Bulk"]       \* mouse, heartbeat, clipboard and echo frames
Down(k) == [type |-> "Down", key |-> k]
Up(k)   == [type |-> "Up", key |-> k]

TapMsg   == KeyMsg \cup {Motion, Edge}
BrainMsg == TapMsg \cup {Release}
OutMsg   == KeyMsg \cup {Take, Bulk}
BackMsg  == {Release, Bulk}

\* m is a key event or a key frame for k
About(m, k) == m \in KeyMsg /\ m.key = k

TypeOK ==
  /\ phys \in SUBSET Keys /\ macDown \in SUBSET Keys
  /\ cursorHidden \in BOOLEAN /\ swallow \in BOOLEAN
  /\ heldMods \in SUBSET ModKeys
  /\ tapQ \in Seq(TapMsg) /\ Len(tapQ) <= MaxTap
  /\ brainQ \in Seq(BrainMsg) /\ Len(brainQ) <= BrainCap
  /\ sm \in {"LocalActive", "RemoteActive"} /\ cooling \in BOOLEAN
  /\ pc \in {"idle", "entering", "leaving"}
  /\ held \in SUBSET Keys /\ toRelease \in SUBSET Keys
  /\ srv \in {"up", "draining", "down"} /\ owed \in SUBSET Keys
  /\ toClient \in Seq(OutMsg) /\ Len(toClient) <= OutCap
  /\ cli \in BOOLEAN /\ active \in BOOLEAN
  /\ cliHeld \in SUBSET Keys /\ winDown \in SUBSET Keys
  /\ watcher \in {"poll", "sent"}
  /\ toServer \in Seq(BackMsg) /\ Len(toServer) <= BackCap
  /\ srcLost \in SUBSET Keys /\ outLost \in SUBSET Keys /\ ctlLost \in BOOLEAN

\* A session that has just passed Hello/HelloAck: every channel and tracker is
\* fresh; the keyboard and the cursor are as the user and the last one left them.
Init ==
  /\ phys = {} /\ macDown = {} /\ cursorHidden = FALSE
  /\ heldMods = {} /\ swallow = FALSE /\ tapQ = <<>> /\ brainQ = <<>>
  /\ sm = "LocalActive" /\ cooling = FALSE /\ pc = "idle"
  /\ held = {} /\ toRelease = {}
  /\ srv = "up" /\ owed = {} /\ toClient = <<>>
  /\ cli = TRUE /\ cliHeld = {} /\ winDown = {}
  /\ active = FALSE /\ watcher = "poll" /\ toServer = <<>>
  /\ srcLost = {} /\ outLost = {} /\ ctlLost = FALSE

-----------------------------------------------------------------------------
(* The user's hand and the tap callback.                                    *)

Toggle(S, k) == IF k \in S THEN S \ {k} ELSE S \cup {k}

\* Mutant: the direction of a FlagsChanged read off the bit after its flip.
TranslateFlipped(k) ==
  IF k \in (IF k \in ModKeys THEN Toggle(heldMods, k) ELSE phys)
  THEN Up(k) ELSE Down(k)

\* What the callback calls the event: a key's own direction, but for a modifier
\* the flip of its bit, which starts at zero when the tap is installed.
Translate(k) ==
  IF k \in (IF k \in ModKeys THEN heldMods ELSE phys) THEN Up(k) ELSE Down(k)

\* The user presses or releases k under the tap: the event is sent to the brain
\* first, then shown to local applications unless it is swallowed.
UserKey(k) ==
  /\ srv # "down" /\ Len(tapQ) < MaxTap
  /\ phys' = Toggle(phys, k)
  /\ heldMods' = IF k \in ModKeys THEN Toggle(heldMods, k) ELSE heldMods
  /\ tapQ' = Append(tapQ, Translate(k))
  /\ macDown' = IF swallow THEN macDown
                ELSE IF k \in phys THEN macDown \ {k} ELSE macDown \cup {k}
  /\ UNCHANGED <<cursorHidden, swallow, brainQ, brainVars, srvVars, cliVars,
                 outVars, toServer, srcLost>>

\* No session, no tap: macOS sees the key and nobody else does.
UserKeyUntapped(k) ==
  /\ srv = "down"
  /\ phys' = Toggle(phys, k)
  /\ macDown' = IF k \in phys THEN macDown \ {k} ELSE macDown \cup {k}
  /\ UNCHANGED <<cursorHidden, tapVars, brainQ, brainVars, srvVars, cliVars,
                 outVars, toServer, srcLost>>

\* macOS has disabled the tap, which was too slow, and the callback has not yet
\* enabled it again: the key goes to local applications only, and the bitmap misses it.
UserKeyUnseen(k) ==
  /\ srv # "down"
  /\ phys' = Toggle(phys, k)
  /\ macDown' = IF k \in phys THEN macDown \ {k} ELSE macDown \cup {k}
  /\ srcLost' = srcLost \cup {k}
  /\ UNCHANGED <<cursorHidden, tapVars, brainQ, brainVars, srvVars, cliVars,
                 outVars, toServer>>

\* Mouse motion; only a cursor that follows the mouse reaches the right edge.
UserMotion(m) ==
  /\ srv # "down" /\ Len(tapQ) < MaxTap
  /\ m = Edge => ~cursorHidden
  /\ tapQ' = Append(tapQ, m)
  /\ UNCHANGED <<macVars, heldMods, swallow, brainQ, brainVars, srvVars,
                 cliVars, outVars, toServer, srcLost>>

\* source_forwarder_task: try_send into the brain channel, drop when full.
ForwardSource ==
  /\ srv # "down" /\ tapQ # <<>>
  /\ tapQ' = Tail(tapQ)
  /\ \/ /\ Len(brainQ) < BrainCap
        /\ brainQ' = Append(brainQ, Head(tapQ))
        /\ UNCHANGED srcLost
     \/ /\ Len(brainQ) >= BrainCap
        /\ srcLost' = {k \in Keys : k \in srcLost \/ About(Head(tapQ), k)}
        /\ UNCHANGED brainQ
  /\ UNCHANGED <<macVars, heldMods, swallow, brainVars, srvVars, cliVars,
                 outVars, toServer>>

-----------------------------------------------------------------------------
(* The edge brain: one input at a time; a transition's action list runs in  *)
(* steps that other threads interleave with.                                *)

\* Mutant: an outbound channel without a bound.
EnqueueUnbounded(m) ==
  /\ toClient' = IF cli THEN Append(toClient, m) ELSE toClient
  /\ UNCHANGED <<outLost, ctlLost>>

\* enqueue: try_send on the outbound channel, warn and drop when it is full.
\* What is sent to a client whose session is over goes nowhere.
Enqueue(m) ==
  LET full == Len(toClient) >= OutCap IN
  /\ toClient' = IF cli /\ ~full THEN Append(toClient, m) ELSE toClient
  /\ outLost' = IF cli /\ full THEN {k \in Keys : k \in outLost \/ About(m, k)}
                ELSE outLost
  /\ ctlLost' = (ctlLost \/ (cli /\ full /\ m = Take))

\* HeldKeys::observe: a Down inserts its key, an Up removes it.
Observe(S, m) == IF m.type = "Down" THEN S \cup {m.key} ELSE S \ {m.key}

BrainTakes == srv # "down" /\ pc = "idle" /\ brainQ # <<>>

\* Mutant: an Up is forwarded under its HID but forgotten under its own key.
BrainKeyForgetsUnmapped ==
  /\ BrainTakes /\ Head(brainQ) \in KeyMsg
  /\ brainQ' = Tail(brainQ)
  /\ \/ /\ sm = "RemoteActive"
        /\ LET down == Head(brainQ).type = "Down"
               k    == Head(brainQ).key
           IN /\ held' = IF down THEN held \cup {Remap[k]} ELSE held \ {k}
              /\ Enqueue(IF down THEN Down(Remap[k]) ELSE Up(Remap[k]))
     \/ /\ sm = "LocalActive"
        /\ UNCHANGED <<held, outVars>>
  /\ UNCHANGED <<macVars, tapVars, sm, cooling, pc, toRelease, srvVars, cliVars,
                 toServer, srcLost>>

\* Mutant: the tracker sees every key event, the client only the remote ones.
BrainKeyTracksLocal ==
  /\ BrainTakes /\ Head(brainQ) \in KeyMsg
  /\ brainQ' = Tail(brainQ)
  /\ LET down == Head(brainQ).type = "Down"
         hid  == Remap[Head(brainQ).key]
     IN /\ held' = IF down THEN held \cup {hid} ELSE held \ {hid}
        /\ IF sm = "RemoteActive"
           THEN Enqueue(IF down THEN Down(hid) ELSE Up(hid))
           ELSE UNCHANGED outVars
  /\ UNCHANGED <<macVars, tapVars, sm, cooling, pc, toRelease, srvVars, cliVars,
                 toServer, srcLost>>

\* A key event: forwarded under its remapped HID when remote, ignored when local.
BrainKey ==
  /\ BrainTakes /\ Head(brainQ) \in KeyMsg
  /\ brainQ' = Tail(brainQ)
  /\ \/ /\ sm = "RemoteActive"
        /\ LET hid == Remap[Head(brainQ).key]
               m   == IF Head(brainQ).type = "Down" THEN Down(hid) ELSE Up(hid)
           IN held' = Observe(held, m) /\ Enqueue(m)
     \/ /\ sm = "LocalActive"
        /\ UNCHANGED <<held, outVars>>
  /\ UNCHANGED <<macVars, tapVars, sm, cooling, pc, toRelease, srvVars, cliVars,
                 toServer, srcLost>>

\* Motion that does not cross: forwarded when remote, ignored when local.
BrainMotion ==
  /\ BrainTakes /\ Head(brainQ) \in {Motion, Edge}
  /\ sm = "LocalActive" => Head(brainQ) = Motion \/ cooling
  /\ brainQ' = Tail(brainQ)
  /\ IF sm = "RemoteActive" THEN Enqueue(Bulk) ELSE UNCHANGED outVars
  /\ UNCHANGED <<macVars, tapVars, brainVars, srvVars, cliVars, toServer, srcLost>>

\* CursorAt on the right edge: LocalActive -> RemoteActive, SendTakeControl
\* first; the drain, hide and swallow of the action list follow.
BrainCross ==
  /\ BrainTakes /\ Head(brainQ) = Edge
  /\ sm = "LocalActive" /\ ~cooling
  /\ brainQ' = Tail(brainQ)
  /\ sm' = "RemoteActive" /\ cooling' = TRUE
  /\ Enqueue(Take)
  /\ pc' = "entering" /\ toRelease' = held /\ held' = {}
  /\ UNCHANGED <<macVars, tapVars, srvVars, cliVars, toServer, srcLost>>

\* Mutant: the return transition clears the tracker without releasing.
BrainReleaseUndrained ==
  /\ BrainTakes /\ Head(brainQ) = Release
  /\ brainQ' = Tail(brainQ)
  /\ \/ /\ sm = "RemoteActive"
        /\ sm' = "LocalActive" /\ cooling' = TRUE
        /\ pc' = "leaving" /\ toRelease' = {} /\ held' = {}
     \/ /\ sm = "LocalActive"
        /\ UNCHANGED brainVars
  /\ UNCHANGED <<macVars, tapVars, srvVars, cliVars, outVars, toServer, srcLost>>

\* Mutant: the thrash cooldown also drops a ReleaseControl.
BrainReleaseCooled ==
  /\ BrainTakes /\ Head(brainQ) = Release
  /\ brainQ' = Tail(brainQ)
  /\ \/ /\ sm = "RemoteActive" /\ ~cooling
        /\ sm' = "LocalActive" /\ cooling' = TRUE
        /\ pc' = "leaving" /\ toRelease' = held /\ held' = {}
     \/ /\ sm = "LocalActive" \/ cooling
        /\ UNCHANGED brainVars
  /\ UNCHANGED <<macVars, tapVars, srvVars, cliVars, outVars, toServer, srcLost>>

\* ReleaseControl: RemoteActive -> LocalActive and the drain that StopSwallow
\* starts with.  Ignored when local; the cooldown is not consulted.
BrainRelease ==
  /\ BrainTakes /\ Head(brainQ) = Release
  /\ brainQ' = Tail(brainQ)
  /\ \/ /\ sm = "RemoteActive"
        /\ sm' = "LocalActive" /\ cooling' = TRUE
        /\ pc' = "leaving" /\ toRelease' = held /\ held' = {}
     \/ /\ sm = "LocalActive"
        /\ UNCHANGED brainVars
  /\ UNCHANGED <<macVars, tapVars, srvVars, cliVars, outVars, toServer, srcLost>>

\* drain_held_to_peer, one synthesized Up at a time.
DrainToPeer(h) ==
  /\ srv # "down" /\ pc # "idle" /\ h \in toRelease
  /\ toRelease' = toRelease \ {h}
  /\ Enqueue(Up(h))
  /\ UNCHANGED <<macVars, tapVars, brainQ, sm, cooling, pc, held, srvVars,
                 cliVars, toServer, srcLost>>

\* The rest of the list: warp back, HideLocalCursor, StartSwallow's store.
BrainEnter ==
  /\ srv # "down" /\ pc = "entering" /\ toRelease = {}
  /\ pc' = "idle" /\ swallow' = TRUE /\ cursorHidden' = TRUE
  /\ UNCHANGED <<phys, macDown, heldMods, tapQ, brainQ, sm, cooling, held,
                 toRelease, srvVars, cliVars, outVars, toServer, srcLost>>

\* Mutant: the cursor is back and the keyboard is not.
BrainLeaveSwallowing ==
  /\ srv # "down" /\ pc = "leaving" /\ toRelease = {}
  /\ pc' = "idle" /\ cursorHidden' = FALSE
  /\ UNCHANGED <<phys, macDown, tapVars, brainQ, sm, cooling, held, toRelease,
                 srvVars, cliVars, outVars, toServer, srcLost>>

\* The rest of the list: StopSwallow's store, ShowLocalCursor, warp to the edge.
BrainLeave ==
  /\ srv # "down" /\ pc = "leaving" /\ toRelease = {}
  /\ pc' = "idle" /\ swallow' = FALSE /\ cursorHidden' = FALSE
  /\ UNCHANGED <<phys, macDown, heldMods, tapQ, brainQ, sm, cooling, held,
                 toRelease, srvVars, cliVars, outVars, toServer, srcLost>>

\* 50 ms pass.  They outlast the two adjacent statements of the watcher between
\* its try_send and its store, which is the model's one timing assumption.
CooldownElapses ==
  /\ srv # "down" /\ sm = "LocalActive" /\ cooling /\ watcher = "poll"
  /\ cooling' = FALSE
  /\ UNCHANGED <<macVars, tapVars, brainQ, sm, pc, held, toRelease, srvVars,
                 cliVars, outVars, toServer, srcLost>>

\* Heartbeats and clipboard chunks compete for the server's outbound channel.
ServerBulk ==
  /\ srv # "down" /\ cli /\ Len(toClient) < OutCap
  /\ toClient' = Append(toClient, Bulk)
  /\ UNCHANGED <<macVars, tapVars, brainQ, brainVars, srvVars, cliVars, outLost,
                 ctlLost, toServer, srcLost>>

\* reader_task: ReleaseControl goes to the brain by try_send, the rest is not
\* for the brain.
ServerReads ==
  /\ srv # "down" /\ toServer # <<>>
  /\ toServer' = Tail(toServer)
  /\ \/ /\ Head(toServer) = Release /\ Len(brainQ) < BrainCap
        /\ brainQ' = Append(brainQ, Release)
        /\ UNCHANGED ctlLost
     \/ /\ Head(toServer) = Release /\ Len(brainQ) >= BrainCap
        /\ ctlLost' = TRUE
        /\ UNCHANGED brainQ
     \/ /\ Head(toServer) = Bulk
        /\ UNCHANGED <<brainQ, ctlLost>>
  /\ UNCHANGED <<macVars, tapVars, brainVars, srvVars, cliVars, toClient,
                 outLost, srcLost>>

-----------------------------------------------------------------------------
(* The client: injector, cursor-leave watcher, other traffic.               *)

\* Mutant: the sink is told to press a key the guard does not track.
ClientInjectsUntracked ==
  /\ cli /\ toClient # <<>>
  /\ toClient' = Tail(toClient)
  /\ LET m == Head(toClient) IN
     /\ winDown' = IF m.type = "Down" THEN winDown \cup {m.key}
                   ELSE IF m.type = "Up" THEN winDown \ {m.key} ELSE winDown
     /\ active' = (active \/ m = Take)
  /\ UNCHANGED <<macVars, tapVars, brainQ, brainVars, srvVars, cli, cliHeld,
                 watcher, toServer, outLost, ctlLost, srcLost>>

\* dispatch_one: the tracker first, then the sink.
ClientInjects ==
  /\ cli /\ toClient # <<>>
  /\ toClient' = Tail(toClient)
  /\ LET m == Head(toClient) IN
     \/ /\ m \in KeyMsg
        /\ cliHeld' = Observe(cliHeld, m)
        /\ winDown' = Observe(winDown, m)
        /\ UNCHANGED active
     \/ /\ m = Take
        /\ active' = TRUE
        /\ UNCHANGED <<cliHeld, winDown>>
     \/ /\ m = Bulk
        /\ UNCHANGED <<active, cliHeld, winDown>>
  /\ UNCHANGED <<macVars, tapVars, brainQ, brainVars, srvVars, cli, watcher,
                 toServer, outLost, ctlLost, srcLost>>

\* A tick that finds the cursor on the left edge: try_send ReleaseControl; a
\* full channel drops it and the tick goes on.
WatcherSends ==
  /\ cli /\ active /\ watcher = "poll"
  /\ watcher' = "sent"
  /\ IF Len(toServer) < BackCap
     THEN /\ toServer' = IF srv # "down" THEN Append(toServer, Release)
                         ELSE toServer
          /\ UNCHANGED ctlLost
     ELSE /\ ctlLost' = TRUE
          /\ UNCHANGED toServer
  /\ UNCHANGED <<macVars, tapVars, brainQ, brainVars, srvVars, cli, cliHeld,
                 winDown, active, toClient, outLost, srcLost>>

\* Mutant: the watcher does not disarm itself after sending.
WatcherStaysArmed ==
  /\ cli /\ watcher = "sent"
  /\ watcher' = "poll"
  /\ UNCHANGED <<macVars, tapVars, brainQ, brainVars, srvVars, cli, cliHeld,
                 winDown, active, outVars, toServer, srcLost>>

\* The rest of the tick: active.store(false) and the anti-thrash warp.
WatcherClears ==
  /\ cli /\ watcher = "sent"
  /\ watcher' = "poll" /\ active' = FALSE
  /\ UNCHANGED <<macVars, tapVars, brainQ, brainVars, srvVars, cli, cliHeld,
                 winDown, outVars, toServer, srcLost>>

\* Heartbeats and clipboard chunks compete for the client's outbound channel.
ClientBulk ==
  /\ cli /\ srv # "down" /\ Len(toServer) < BackCap
  /\ toServer' = Append(toServer, Bulk)
  /\ UNCHANGED <<macVars, tapVars, brainQ, brainVars, srvVars, cliVars, outVars,
                 srcLost>>

-----------------------------------------------------------------------------
(* Sessions end and begin.                                                  *)

Prefixes(s) == {SubSeq(s, 1, n) : n \in 0..Len(s)}

\* A task of the server exits (EOF, 2 s of silence, encoder error): the
\* disconnect drain takes the held keys while the other tasks still run.
ServerExits ==
  /\ srv = "up"
  /\ srv' = "draining" /\ owed' = held /\ held' = {}
  /\ UNCHANGED <<macVars, tapVars, brainQ, sm, cooling, pc, toRelease, cliVars,
                 outVars, toServer, srcLost>>

\* send().await waits for a free slot.
DisconnectDrain(h) ==
  /\ srv = "draining" /\ h \in owed
  /\ cli => Len(toClient) < OutCap
  /\ owed' = owed \ {h}
  /\ Enqueue(Up(h))
  /\ UNCHANGED <<macVars, tapVars, brainQ, brainVars, srv, cliVars, toServer,
                 srcLost>>

\* A send that waited 100 ms gives up the rest of the drain.
DrainTimesOut ==
  /\ srv = "draining" /\ owed # {} /\ cli /\ Len(toClient) >= OutCap
  /\ outLost' = outLost \cup owed
  /\ owed' = {}
  /\ UNCHANGED <<macVars, tapVars, brainQ, brainVars, srv, cliVars, toClient,
                 ctlLost, toServer, srcLost>>

\* The server's half of a session is gone, the tap with it; what the encoder
\* had written still reaches the client.
ServerGone ==
  /\ srv' = "down" /\ owed' = {}
  /\ toClient' \in Prefixes(toClient)
  /\ heldMods' = {} /\ swallow' = FALSE /\ tapQ' = <<>> /\ brainQ' = <<>>
  /\ sm' = "LocalActive" /\ cooling' = FALSE /\ pc' = "idle"
  /\ held' = {} /\ toRelease' = {} /\ toServer' = <<>>
  /\ srcLost' = {} /\ outLost' = {} /\ ctlLost' = FALSE
  /\ UNCHANGED <<phys, macDown, cliVars>>

\* handle_peer returns: abort_all reaches a task only where it awaits, so never
\* inside a transition.  Nothing shows the cursor again.
ServerCloses ==
  /\ srv = "draining" /\ owed = {} /\ pc = "idle"
  /\ ServerGone
  /\ UNCHANGED cursorHidden

\* The server process is killed; macOS gives the cursor back.
ServerKilled ==
  /\ srv # "down"
  /\ ServerGone
  /\ cursorHidden' = FALSE

\* The client's session ends (EOF, silence, error): abort_all drops the
\* injector's future, and the guard releases what it tracks as held.
ClientEnds ==
  /\ cli /\ watcher = "poll"
  /\ cli' = FALSE /\ active' = FALSE
  /\ winDown' = winDown \ cliHeld /\ cliHeld' = {}
  /\ toClient' = <<>>
  /\ toServer' \in Prefixes(toServer)
  /\ UNCHANGED <<macVars, tapVars, brainQ, brainVars, srvVars, watcher, outLost,
                 ctlLost, srcLost>>

\* The client reconnects: new channels, trackers, tap and state machine.
Connect ==
  /\ srv = "down" /\ ~cli
  /\ srv' = "up" /\ cli' = TRUE
  /\ UNCHANGED <<macVars, tapVars, brainQ, brainVars, owed, cliHeld, winDown,
                 active, watcher, outVars, toServer, srcLost>>

-----------------------------------------------------------------------------
Brain == \/ BrainKey \/ BrainMotion \/ BrainCross \/ BrainRelease
         \/ \E h \in Keys : DrainToPeer(h)
         \/ BrainEnter \/ BrainLeave

Next ==
  \/ \E k \in Keys : UserKey(k) \/ UserKeyUnseen(k) \/ UserKeyUntapped(k)
  \/ \E m \in {Motion, Edge} : UserMotion(m)
  \/ ForwardSource \/ Brain \/ CooldownElapses \/ ServerBulk \/ ServerReads
  \/ ClientInjects \/ WatcherSends \/ WatcherClears \/ ClientBulk
  \/ ServerExits \/ \E h \in Keys : DisconnectDrain(h)
  \/ DrainTimesOut \/ ServerCloses \/ ServerKilled \/ ClientEnds \/ Connect

Spec == Init /\ [][Next]_vars
-----------------------------------------------------------------------------
(* What the session promises about keys.                                    *)

\* Windows will consider h down once the client has read what is on its way:
\* the last frame about h decides, and its present state when there is none.
WireDown(h) ==
  LET frames == {i \in DOMAIN toClient : About(toClient[i], h)} IN
  IF frames = {} THEN h \in winDown
  ELSE \E i \in frames : toClient[i].type = "Down" /\ \A j \in frames : j <= i

\* The server knows it still has to release h: it tracks it as held, or a drain
\* has taken it and not yet queued its Up.
Owes(h) == h \in held \cup toRelease \cup owed

\* No key sticks on Windows behind the server's back: a key Windows holds, or
\* will hold, is one the server will release, unless a frame about it met a full
\* outbound channel; and while no drain races the brain the server forgets none.
\* This is the agreement of the two HeldKeys trackers (stuck_keys.rs) across a
\* FIFO, through every transition and the disconnect drain.
KeysAgree ==
  srv # "down" /\ cli =>
    \A h \in Keys \ outLost : /\ WireDown(h) => Owes(h)
                              /\ srv = "up" => (Owes(h) => WireDown(h))

\* However the session ended, Windows is left with no key down: what the guard
\* drains on drop (InjectorGuard) is everything the sink was told to press.
WindowsLeftClean == ~cli => winDown = {}

\* The modifier bitmap of the tap agrees with the keyboard (it does not for a
\* modifier that was already down when the tap was installed, or changed unseen).
InSync(k) == k \in ModKeys => (k \in heldMods <=> k \in phys)

\* An Up for k is between the tap and the state machine.
UpComing(k) == \/ \E i \in DOMAIN tapQ : tapQ[i] = Up(k)
               \/ \E i \in DOMAIN brainQ : brainQ[i] = Up(k)

\* The server holds a key only as long as somebody presses it: for a held HID,
\* a key remapped to it is pressed or its release is on the way, unless an event of it
\* was missed by a disabled tap or met a full brain channel, or its bitmap bit is inverted.
NoGhostHold ==
  \A h \in held : \E k \in Keys :
    /\ Remap[k] = h
    /\ k \in phys \/ UpComing(k) \/ k \in srcLost \/ ~InSync(k)

\* The drain StartSwallow runs "should be a no-op since LocalActive doesn't
\* forward keys" (app.rs, execute_action): nothing is held when control leaves.
EntryDrainIsEmpty == pc = "entering" => toRelease = {} /\ held = {}

-----------------------------------------------------------------------------
(* What the session promises about control.                                 *)

TakeAt == {i \in DOMAIN toClient : toClient[i] = Take}
BackAt == {i \in DOMAIN toServer : toServer[i] = Release}
InputAt == {i \in DOMAIN brainQ : brainQ[i] = Release}
ClientDrives == active /\ watcher = "poll"

AtMostOne(S) == \A i, j \in S : i = j

\* Control is one token: while both ends live and no channel refused a control
\* frame, a remote state machine is matched by exactly one of a TakeControl on
\* its way, a client that drives, a ReleaseControl on its way, or one waiting for
\* the brain; a local one by none.  (edge/mod.rs on_wire_message: losing it
\* "would strand the SM in RemoteActive forever".)
ControlToken ==
  srv # "down" /\ cli /\ ~ctlLost =>
    /\ AtMostOne(TakeAt) /\ AtMostOne(BackAt) /\ AtMostOne(InputAt)
    /\ sm = "LocalActive" =>
         TakeAt = {} /\ BackAt = {} /\ InputAt = {} /\ ~ClientDrives
    /\ sm = "RemoteActive" =>
         \/ TakeAt # {} /\ BackAt = {} /\ InputAt = {} /\ ~ClientDrives
         \/ TakeAt = {} /\ BackAt = {} /\ InputAt = {} /\ ClientDrives
         \/ TakeAt = {} /\ BackAt # {} /\ InputAt = {} /\ ~ClientDrives
         \/ TakeAt = {} /\ BackAt = {} /\ InputAt # {} /\ ~ClientDrives

\* The same without the excuse of a refused frame: a remote server is never
\* left with nothing that can bring control back.
NeverStranded ==
  srv = "up" /\ cli /\ sm = "RemoteActive" =>
    TakeAt # {} \/ ClientDrives \/ BackAt # {} \/ InputAt # {}

\* Local applications are never left with a key down that nobody presses.
MacKeysNotStuck == macDown \subseteq phys

\* Between sessions the Mac has its cursor.
CursorBackAfterSession == srv = "down" => ~cursorHidden

-----------------------------------------------------------------------------
(* What must eventually happen.  Every task is a loop the tokio scheduler    *)
(* keeps running; a dead server is noticed by EOF or the 2 s deadline.  The  *)
(* user, the bulk traffic and a session's spontaneous end are not fair.  A   *)
(* send().await queues for its slot ahead of any later try_send, so a freed  *)
(* slot is not taken from a waiting drain for ever: strong fairness.         *)

Fairness ==
  /\ WF_vars(ForwardSource) /\ WF_vars(Brain) /\ WF_vars(ServerReads)
  /\ WF_vars(ClientInjects) /\ WF_vars(WatcherClears)
  /\ SF_vars(\E h \in Keys : DisconnectDrain(h)) /\ WF_vars(DrainTimesOut)
  /\ WF_vars(ServerCloses)
  /\ WF_vars(srv = "down" /\ ClientEnds) /\ WF_vars(~cli /\ ServerExits)

FairSpec == Spec /\ Fairness

\* A key the user let go of comes up on Windows: through its own Up, a drain or
\* the guard; unless it is pressed again, the tap missed or a channel refused an event or
\* a frame of it, or its bitmap bit is inverted.  With merged HIDs another may hold it.
ReleasedKeysComeUp ==
  \A k \in Keys :
    Remap[k] \in winDown /\ (\A j \in Keys : Remap[j] = Remap[k] => j \notin phys)
      ~> \/ Remap[k] \notin winDown \/ Remap[k] \in outLost
         \/ \E j \in Keys : Remap[j] = Remap[k]
                            /\ (j \in phys \/ j \in srcLost \/ ~InSync(j))

\* A cursor that left Windows gives the Mac its input back: the tap stops
\* swallowing, unless the ReleaseControl was refused by a full channel.
LeavingHandsBack == watcher = "sent" ~> ~swallow \/ ctlLost

-----------------------------------------------------------------------------
(* The session implements the hand-over of control.                         *)

Owner ==
  IF srv = "down" \/ ~cli THEN "over"
  ELSE IF ctlLost THEN "stranded"
  ELSE IF sm = "LocalActive" THEN "mac"
  ELSE IF TakeAt # {} THEN "toWindows"
  ELSE IF ClientDrives THEN "windows"
  ELSE IF BackAt # {} \/ InputAt # {} THEN "toMac"
  ELSE "nowhere"

Handoff == INSTANCE ControlHandoff WITH owner <- Owner

\* Seen through Owner, control goes round mac, toWindows, windows, toMac, or is
\* stranded by a refused frame until the session is over.
ImplementsHandoff == Handoff!Spec
=============================================================================
