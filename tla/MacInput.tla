------------------------------ MODULE MacInput ------------------------------
(***************************************************************************)
(* The Mac's input while sessions overlap: every session installs an event *)
(* tap with a thread, a watcher thread and a brain of its own, and all of  *)
(* them share one chain of taps and one cursor.  A session outlives its    *)
(* client by the deadline, so the next one may begin beside it.            *)
(*                                                                         *)
(* Here are the threads' lives (install, Drop) and the calls on what is    *)
(* shared, one by one.  What a brain forwards and for how long it refuses  *)
(* to cross are in InputSession and EdgeCrossing: a motion is one that     *)
(* would cross, and any may be ignored.  The calls on the cursor succeed.  *)
(***************************************************************************)
EXTENDS Naturals, Sequences, FiniteSets

CONSTANTS
  NSessions \* model bound on the sessions, which begin one after another

ASSUME SessionsAssumption == NSessions \in Nat

Sessions == 1 .. NSessions

VARIABLES
  thread,  \* thread[s]: the tap thread of session s
  owner,   \* who has the MacInputSource: install, the forwarder, its Drop
  watcher, \* the thread that stops the run loop
  ending,  \* sessions whose handler aborts its tasks
  brain,   \* the state machine; "abandoned" if it was remote when aborted
  todo,    \* what is left of the action list the brain executes
  heard,   \* a position at the edge is in the brain's channel
  swallow, \* the flag the tap's callback reads
  ahead,   \* <<t, s>>: macOS asks the tap of t before that of s
  hides,   \* macOS counts the calls that hide the cursor
  coupled  \* mouse and cursor are associated

threadVars == <<thread, owner, watcher, ahead>>
brainVars  == <<brain, todo, heard>>
cursorVars == <<swallow, hides, coupled>>
inputVars  == <<threadVars, brainVars, cursorVars, ending>>

Step == {"warp", "hide", "show", "swallow", "pass"}

\* The action lists of the state machine, up to the frames they send.
Crossing  == <<"warp", "hide", "swallow">>
Returning == <<"pass", "show", "warp">>

\* The taps macOS knows.
Taps == {s \in Sessions : thread[s] \in {"reported", "running", "stopping"}}

InputTypeOK ==
  /\ thread \in [Sessions -> {"none", "starting", "reported", "running", "stopping", "gone"}]
  /\ owner \in [Sessions -> {"none", "waiting", "off", "held", "dropping", "over"}]
  /\ watcher \in [Sessions -> {"none", "waits", "done"}]
  /\ ending \in SUBSET Sessions
  /\ brain \in [Sessions -> {"off", "local", "remote", "ended", "abandoned"}]
  /\ todo \in [Sessions -> Seq(Step)]
  /\ heard \in [Sessions -> BOOLEAN] /\ swallow \in [Sessions -> BOOLEAN]
  /\ ahead \in SUBSET (Taps \X Taps)
  /\ \A s, t \in Taps : s = t \/ (<<s, t>> \in ahead <=> <<t, s>> \notin ahead)
  /\ hides \in 0 .. NSessions /\ coupled \in BOOLEAN

InputInit ==
  /\ thread = [s \in Sessions |-> "none"] /\ owner = [s \in Sessions |-> "none"]
  /\ watcher = [s \in Sessions |-> "none"] /\ ending = {}
  /\ brain = [s \in Sessions |-> "off"] /\ todo = [s \in Sessions |-> <<>>]
  /\ heard = [s \in Sessions |-> FALSE] /\ swallow = [s \in Sessions |-> FALSE]
  /\ ahead = {} /\ hides = 0 /\ coupled = TRUE

-----------------------------------------------------------------------------
(* A session begins: spawn_input_brain and MacInputSource::install.         *)

\* install spawns the tap thread and waits for its report.
TapBegins(s) ==
  /\ owner[s] = "none" /\ \A t \in 1 .. s - 1 : owner[t] # "none"
  /\ owner' = [owner EXCEPT ![s] = "waiting"]
  /\ thread' = [thread EXCEPT ![s] = "starting"]
  /\ UNCHANGED <<watcher, ahead, brainVars, cursorVars, ending>>

\* No thread, no tap or no source for the run loop: "continuing with heartbeats only".
TapFails(s) ==
  /\ thread[s] = "starting"
  /\ thread' = [thread EXCEPT ![s] = "gone"]
  /\ owner' = [owner EXCEPT ![s] = "off"]
  /\ UNCHANGED <<watcher, ahead, brainVars, cursorVars, ending>>

\* The tap is created at the head of the others, enabled and reported.
TapCreated(s) ==
  /\ thread[s] = "starting"
  /\ thread' = [thread EXCEPT ![s] = "reported"]
  /\ ahead' = ahead \cup ({s} \X Taps)
  /\ UNCHANGED <<owner, watcher, brainVars, cursorVars, ending>>

\* CFRunLoop::run_current.
LoopRuns(s) ==
  /\ thread[s] = "reported"
  /\ thread' = [thread EXCEPT ![s] = "running"]
  /\ UNCHANGED <<owner, watcher, ahead, brainVars, cursorVars, ending>>

\* install has the report and spawns the watcher; forwarder and brain are spawned.
SourceReady(s) ==
  /\ owner[s] = "waiting" /\ s \in Taps
  /\ owner' = [owner EXCEPT ![s] = "held"]
  /\ watcher' = [watcher EXCEPT ![s] = "waits"]
  /\ brain' = [brain EXCEPT ![s] = "local"]
  /\ UNCHANGED <<thread, ahead, todo, heard, cursorVars, ending>>

\* The watcher cannot be spawned: install fails, and nobody will ever stop the tap.
WatcherUnspawned(s) ==
  /\ owner[s] = "waiting" /\ s \in Taps
  /\ owner' = [owner EXCEPT ![s] = "off"]
  /\ UNCHANGED <<thread, watcher, ahead, brainVars, cursorVars, ending>>

-----------------------------------------------------------------------------
(* The cursor is at the edge, and control goes there and back.              *)

\* A motion that gets as far as the callback of s.  (One that has passed the newer
\* taps already might as well have been heard before they began to swallow.)
TapHears(s) ==
  /\ thread[s] = "running" /\ owner[s] = "held" /\ ~heard[s]
  /\ coupled /\ \A t \in Taps : <<t, s>> \in ahead => ~swallow[t]
  /\ heard' = [heard EXCEPT ![s] = TRUE]
  /\ UNCHANGED <<threadVars, brain, todo, cursorVars, ending>>

\* The brain of s takes an input and goes to state b, with a list of actions.
Decides(s, b, list) ==
  /\ brain' = [brain EXCEPT ![s] = b]
  /\ todo' = [todo EXCEPT ![s] = list]
  /\ UNCHANGED <<threadVars, cursorVars, ending>>

BrainCrosses(s) ==
  /\ brain[s] = "local" /\ todo[s] = <<>> /\ heard[s]
  /\ heard' = [heard EXCEPT ![s] = FALSE]
  /\ Decides(s, "remote", Crossing)

\* Within the cooldown, or remote already.
BrainIgnores(s) ==
  /\ brain[s] \in {"local", "remote"} /\ todo[s] = <<>> /\ heard[s]
  /\ heard' = [heard EXCEPT ![s] = FALSE]
  /\ Decides(s, brain[s], <<>>)

\* ReleaseControl.
BrainReturns(s) ==
  /\ brain[s] = "remote" /\ todo[s] = <<>>
  /\ UNCHANGED heard
  /\ Decides(s, "local", Returning)

\* One call of execute_action: a warp and a show couple, a hide does the opposite.
Executes(s) ==
  /\ todo[s] # <<>>
  /\ todo' = [todo EXCEPT ![s] = Tail(@)]
  /\ LET a == Head(todo[s])
     IN  /\ coupled' = IF a \in {"warp", "show"} THEN TRUE
                       ELSE IF a = "hide" THEN FALSE ELSE coupled
         /\ hides' = IF a = "hide" THEN hides + 1
                     ELSE IF a = "show" /\ hides > 0 THEN hides - 1 ELSE hides
         /\ swallow' = IF a \in {"swallow", "pass"}
                       THEN [swallow EXCEPT ![s] = (a = "swallow")] ELSE swallow
  /\ UNCHANGED <<threadVars, brain, heard, ending>>

-----------------------------------------------------------------------------
(* A session ends: handle_peer's abort and MacInputSource's Drop.           *)

SessionEnds(s) ==
  /\ owner[s] \in {"held", "off"} /\ s \notin ending
  /\ ending' = ending \cup {s}
  /\ UNCHANGED <<threadVars, brainVars, cursorVars>>

\* Mutant: the brain is aborted between two actions of a list.
BrainCutShort(s) ==
  /\ s \in ending /\ brain[s] \in {"local", "remote"}
  /\ brain' = [brain EXCEPT ![s] = IF @ = "remote" THEN "abandoned" ELSE "ended"]
  /\ todo' = [todo EXCEPT ![s] = <<>>] /\ heard' = [heard EXCEPT ![s] = FALSE]
  /\ UNCHANGED <<threadVars, cursorVars, ending>>

\* An abort takes effect at an await, of which a list of actions has none.
BrainAborted(s) ==
  /\ s \in ending /\ brain[s] \in {"local", "remote"} /\ todo[s] = <<>>
  /\ brain' = [brain EXCEPT ![s] = IF @ = "remote" THEN "abandoned" ELSE "ended"]
  /\ heard' = [heard EXCEPT ![s] = FALSE]
  /\ UNCHANGED <<threadVars, todo, cursorVars, ending>>

\* The forwarder is aborted: Drop lets go of the sender and joins both threads.
SourceDropped(s) ==
  /\ s \in ending /\ owner[s] = "held"
  /\ owner' = [owner EXCEPT ![s] = "dropping"]
  /\ UNCHANGED <<thread, watcher, ahead, brainVars, cursorVars, ending>>

\* Mutant: Drop joins the tap's thread before it lets go of the sender.
LoopStoppedLast(s) ==
  /\ owner[s] = "dropping" /\ watcher[s] = "waits" /\ thread[s] = "gone"
  /\ watcher' = [watcher EXCEPT ![s] = "done"]
  /\ UNCHANGED <<owner, thread, ahead, brainVars, cursorVars, ending>>

\* The watcher stops the loop's current activation: a loop that does not run yet
\* is not stopped by it.
LoopStopped(s) ==
  /\ owner[s] = "dropping" /\ watcher[s] = "waits"
  /\ watcher' = [watcher EXCEPT ![s] = "done"]
  /\ thread' = [thread EXCEPT ![s] = IF @ = "running" THEN "stopping" ELSE @]
  /\ UNCHANGED <<owner, ahead, brainVars, cursorVars, ending>>

\* The tap is disabled and released, its state freed.
TapFreed(s) ==
  /\ thread[s] = "stopping"
  /\ thread' = [thread EXCEPT ![s] = "gone"]
  /\ ahead' = {p \in ahead : s \notin {p[1], p[2]}}
  /\ UNCHANGED <<owner, watcher, brainVars, cursorVars, ending>>

ThreadsJoined(s) ==
  /\ owner[s] = "dropping" /\ watcher[s] = "done" /\ thread[s] = "gone"
  /\ owner' = [owner EXCEPT ![s] = "over"]
  /\ UNCHANGED <<thread, watcher, ahead, brainVars, cursorVars, ending>>

-----------------------------------------------------------------------------
TapThread(s) == TapCreated(s) \/ LoopRuns(s) \/ TapFreed(s)

Teardown(s) ==
  BrainAborted(s) \/ SourceDropped(s) \/ LoopStopped(s) \/ ThreadsJoined(s)

InputNext ==
  \E s \in Sessions :
    \/ TapBegins(s) \/ TapFails(s) \/ SourceReady(s) \/ WatcherUnspawned(s) \/ TapThread(s)
    \/ TapHears(s) \/ BrainCrosses(s) \/ BrainIgnores(s) \/ BrainReturns(s) \/ Executes(s)
    \/ SessionEnds(s) \/ Teardown(s)

InputSpec == InputInit /\ [][InputNext]_inputVars
-----------------------------------------------------------------------------
(* What the Mac's user may count on.                                        *)

\* A tap that swallows can be stopped: its watcher still waits, or its loop is over
\* already.  Neither a tap whose watcher could not be spawned nor one whose stop came
\* before its loop ever swallows, although both stay for good.
SwallowerCanBeStopped ==
  \A s \in Taps : swallow[s] => watcher[s] = "waits" \/ thread[s] = "stopping"

\* Between lists of actions, as many hides stand as there are sessions that are remote
\* or were when they ended; without any, the cursor follows the mouse.
CursorAccounted ==
  LET away == {s \in Sessions : brain[s] \in {"remote", "abandoned"}}
  IN  (\A s \in Sessions : todo[s] = <<>>) =>
        hides = Cardinality(away) /\ (away = {} => coupled)

\* However sessions overlap, and wherever an abort falls, what they share is given back
\* (tap.rs, Drop; inject.rs, show_cursor), except for the cursor of a session that ends remote.
MacLeftClean == SwallowerCanBeStopped /\ CursorAccounted

\* "RemoteActive means the cursor stays put" (inject.rs), also beside another session.
RemoteCursorStaysPut ==
  (\A s \in Sessions : todo[s] = <<>>) => \A s \in Sessions : brain[s] = "remote" => ~coupled

-----------------------------------------------------------------------------
(* The threads and the abort get on; each of their steps is taken once in a  *)
(* session.  Nobody has to connect, to move, to leave or to hand back.       *)

InputFairness == \A s \in Sessions : WF_inputVars(TapThread(s) \/ Teardown(s))

\* Sessions that are over, or about to be, and still take the input away.
Seizing == {s \in ending \cap Taps : swallow[s]}

\* The input a session swallows is the Mac's again once it ends, whatever its brain was
\* doing: the tap goes though its flag stays set.
InputComesBack == Seizing # {} ~> Seizing = {}

\* "Both terminate within milliseconds" (tap.rs, Drop).
DropReturns == \A s \in Sessions : owner[s] = "dropping" ~> owner[s] = "over"
=============================================================================
