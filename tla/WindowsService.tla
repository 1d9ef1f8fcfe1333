---------------------------- MODULE WindowsService ----------------------------
(***************************************************************************)
(* The Windows service of the client: the SCM starts it, it launches a     *)
(* helper process into the session of the logged-in user and waits for     *)
(* it, and the handler of the SCM's Stop and Shutdown, on a thread of its  *)
(* own, terminates the helper through a slot that holds its handle.        *)
(*                                                                         *)
(* Handler and main thread race for the slot: whoever swaps the handle out *)
(* closes it.  What the helper does is in module PeerIdentity and in the *)
(* modules of the session; here it may end at any moment, and so may the   *)
(* service, the user's session and the machine.                            *)
(***************************************************************************)
EXTENDS Naturals, FiniteSets

CONSTANTS
  Procs,  \* model bound on the helpers that live at one time
  NoProc  \* no helper

ASSUME HostAssumption == NoProc \notin Procs

VARIABLES
  installed, \* the SCM's entry for kmwarp-client: "no", "yes" or "deleted"
  user,      \* somebody is logged in at the console
  main,      \* where the service's main thread is
  child,     \* the running helper that thread has launched
  slot,      \* HELPER_PROCESS_HANDLE holds the handle of that helper
  handle,    \* the handle itself
  handler,   \* "took" while event_handler is about to terminate the helper
  hosted,    \* the helpers that run
  orphans    \* history: those whose service died or failed to terminate them

scmVars == <<installed, user>>
hostVars == <<scmVars, main, child, slot, handle, handler, hosted, orphans>>

HostTypeOK ==
  /\ installed \in {"no", "yes", "deleted"} /\ user \in BOOLEAN
  /\ main \in {"off", "running", "launched", "waiting", "woken", "ending"}
  /\ child \in Procs \cup {NoProc} /\ slot \in BOOLEAN
  /\ handle \in {"none", "open", "closed", "closed twice"}
  /\ handler \in {"idle", "took"}
  /\ hosted \in SUBSET Procs /\ orphans \in SUBSET hosted

\* Nothing of a service process outlives it.
NoService ==
  /\ main' = "off" /\ child' = NoProc
  /\ slot' = FALSE /\ handle' = "none" /\ handler' = "idle"

HostInit ==
  /\ installed = "no" /\ user \in BOOLEAN
  /\ main = "off" /\ child = NoProc
  /\ slot = FALSE /\ handle = "none" /\ handler = "idle"
  /\ hosted = {} /\ orphans = {}

\* CloseHandle.
Closed(h) == IF h = "open" THEN "closed" ELSE "closed twice"

\* The processes of S end, by themselves or by force.
End(S) ==
  /\ hosted' = hosted \ S
  /\ orphans' = orphans \ S
  /\ child' = IF child \in S THEN NoProc ELSE child

-----------------------------------------------------------------------------
(* The operator and the SCM.                                                *)

\* install_service registers an AutoStart service and starts it.
Installs ==
  /\ installed = "no"
  /\ installed' = "yes" /\ main' = "running"
  /\ UNCHANGED <<user, child, slot, handle, handler, hosted, orphans>>

\* At boot, or Start-Service: run_service_inner registers event_handler and reports
\* Running.
Starts ==
  /\ installed = "yes" /\ main = "off"
  /\ main' = "running"
  /\ UNCHANGED <<scmVars, child, slot, handle, handler, hosted, orphans>>

\* Mutant: the handle is read where it should be swapped out.
LoadsForStop ==
  /\ main # "off" /\ handler = "idle"
  /\ handler' = IF slot THEN "took" ELSE "idle"
  /\ UNCHANGED <<scmVars, main, child, slot, handle, hosted, orphans>>

\* event_handler on Stop or Shutdown, up to its swap; with nothing in the slot it
\* returns, and the service goes on.
StopComes ==
  /\ main # "off" /\ handler = "idle"
  /\ handler' = IF slot THEN "took" ELSE "idle"
  /\ slot' = FALSE
  /\ UNCHANGED <<scmVars, main, child, handle, hosted, orphans>>

\* Mutant: the handler returns before it terminates anything.
LeavesHelper ==
  /\ handler = "took"
  /\ handler' = "idle"
  /\ UNCHANGED <<scmVars, main, child, slot, handle, hosted, orphans>>

\* terminate_helper_if_running, "Best-effort": TerminateProcess, which may fail with a
\* warning, and then CloseHandle in either case.
Terminates ==
  /\ handler = "took"
  /\ \/ End({child})
     \/ orphans' = orphans \cup (hosted \cap {child}) /\ UNCHANGED <<hosted, child>>
  /\ handler' = "idle" /\ handle' = Closed(handle)
  /\ UNCHANGED <<scmVars, main, slot>>

\* uninstall_service asks for a stop, ignores the answer, and deletes the entry,
\* which the SCM forgets once the service is no longer there.
Uninstalls ==
  /\ installed = "yes"
  /\ installed' = IF main = "off" THEN "no" ELSE "deleted"
  /\ handler' = IF slot /\ handler = "idle" THEN "took" ELSE handler
  /\ slot' = IF handler = "idle" THEN FALSE ELSE slot
  /\ UNCHANGED <<user, main, child, handle, hosted, orphans>>

\* The service process is gone.
Forgotten == installed' = IF installed = "deleted" THEN "no" ELSE installed

-----------------------------------------------------------------------------
(* The main thread.                                                         *)

\* spawn_user_session_helper_and_wait up to CreateProcessAsUserW.
Launches(p) ==
  /\ main = "running" /\ user /\ p \notin hosted
  /\ main' = "launched" /\ child' = p /\ hosted' = hosted \cup {p}
  /\ handle' = "open"
  /\ UNCHANGED <<scmVars, slot, handler, orphans>>

\* No console session, no token, or any other call that fails: "spawn failed".
FailsToLaunch ==
  /\ main = "running"
  /\ main' = "ending"
  /\ UNCHANGED <<scmVars, child, slot, handle, handler, hosted, orphans>>

\* slot.store; WaitForSingleObject comes next.
Stashes ==
  /\ main = "launched"
  /\ main' = "waiting" /\ slot' = TRUE
  /\ UNCHANGED <<scmVars, child, handle, handler, hosted, orphans>>

\* The helper has ended.  A wait that begins on the handle the handler has closed fails
\* and returns as well; one that is under way goes on.
Wakes ==
  /\ main = "waiting" /\ (child = NoProc \/ handle = "closed")
  /\ main' = "woken"
  /\ UNCHANGED <<scmVars, child, slot, handle, handler, hosted, orphans>>

\* slot.swap(0): a handle that is still there is closed.
CleansUp ==
  /\ main = "woken"
  /\ main' = "ending" /\ slot' = FALSE
  /\ handle' = IF slot THEN Closed(handle) ELSE handle
  /\ UNCHANGED <<scmVars, child, handler, hosted, orphans>>

\* Stopped is reported, run_as_service returns.
Stops ==
  /\ main = "ending"
  /\ NoService /\ Forgotten
  /\ UNCHANGED <<user, hosted, orphans>>

-----------------------------------------------------------------------------
(* What happens to them.                                                    *)

\* The helper ends: it found no server within its ten seconds, it could not load
\* its files, it crashed.
Dies(p) ==
  /\ p \in hosted
  /\ End({p})
  /\ UNCHANGED <<scmVars, main, slot, handle, handler>>

\* The service process is killed; its helper is in another session and runs on.
ServiceDies ==
  /\ main # "off"
  /\ NoService /\ Forgotten
  /\ orphans' = hosted
  /\ UNCHANGED <<user, hosted>>

LogsIn ==
  /\ ~user /\ user' = TRUE
  /\ UNCHANGED <<installed, main, child, slot, handle, handler, hosted, orphans>>

\* With the session end the processes in it.
LogsOut ==
  /\ user /\ user' = FALSE
  /\ End(Procs)
  /\ UNCHANGED <<installed, main, slot, handle, handler>>

\* Power off; the machine comes up with nobody logged in.
GoesDown ==
  /\ NoService /\ Forgotten
  /\ user' = FALSE /\ hosted' = {} /\ orphans' = {}

HostNext ==
  \/ Installs \/ Starts \/ StopComes \/ Terminates \/ Uninstalls
  \/ \E p \in Procs : Launches(p) \/ Dies(p)
  \/ FailsToLaunch \/ Stashes \/ Wakes \/ CleansUp \/ Stops
  \/ ServiceDies \/ LogsIn \/ LogsOut \/ GoesDown

HostSpec == HostInit /\ [][HostNext]_hostVars
-----------------------------------------------------------------------------
(* What the service promises.                                               *)

\* A helper runs only while the service that launched it waits for it, unless that
\* service was killed or Windows refused to terminate it: none is left behind by a stop,
\* an uninstall, or a helper that ends by itself in the middle of either.
NoStrayHelper ==
  \A p \in hosted \ orphans : p = child /\ main \in {"launched", "waiting"}

\* "we use an atomic swap to avoid a double close", and nothing is leaked.
HandleClosedOnce ==
  /\ handle # "closed twice"
  /\ main = "ending" /\ handler = "idle" => handle # "open"

HelperAccounted == NoStrayHelper /\ HandleClosedOnce

\* "return[s] either when the process exits naturally or when the event handler
\* TerminateProcesses it": a stop that has found a helper ends the service, unless
\* TerminateProcess fails on it.
StopTakesEffect == handler = "took" ~> main = "off" \/ child \in orphans

\* Every stop does, also one that comes before the handle is stashed ("on SCM stop
\* / shutdown, the event handler TerminateProcesses the helper").
EveryStopIsHonoured == [][StopComes /\ main \in {"running", "launched"} => slot]_hostVars

\* Both threads are scheduled.  The end of the helper ends the wait, a closed handle
\* need not.
HostFairness ==
  /\ WF_hostVars(Terminates) /\ WF_hostVars(child = NoProc /\ Wakes)
  /\ WF_hostVars(CleansUp) /\ WF_hostVars(Stops)
=============================================================================
