---------------------------- MODULE StatusDisplay ----------------------------
(***************************************************************************)
(* What the operator is shown while clients connect, pair and leave: the   *)
(* server's status channel and the menu bar that polls it, the alert with  *)
(* the pairing code, the client's dialog that asks for the code, and the   *)
(* client's status channel and tray.                                       *)
(*                                                                         *)
(* Every connection's handler writes the one status channel; the last      *)
(* writer wins.  The menu bar reads it from a timer that does not fire     *)
(* while an alert is up (runModal) or the menu is open.  The frames of the *)
(* pairing are in module Pairing, time is in SessionLifecycle: here either *)
(* end of a connection may fail at any moment, and a code is the identity  *)
(* of the connection it was drawn for.                                     *)
(***************************************************************************)
EXTENDS Naturals, FiniteSets

CONSTANTS
  NAttempts \* model bound on the connections made, one after another

ASSUME DisplayAssumption == NAttempts \in Nat

Attempts == 1 .. NAttempts

\* No connection; as a code, one that was never drawn.
None == 0

VARIABLES
  phase,      \* phase[n]: the handler of connection n
  paired,     \* the two ends have pinned each other
  status,     \* the ServerStatus in the watch channel
  rendered,   \* last_rendered: what title, label and code of the menu show
  alertShown, \* alert_shown_for_current_pairing
  alert,      \* the code of the alert that is up
  menuOpen,   \* the operator has the menu open
  cli,        \* the client
  cur,        \* its connection
  typed,      \* the code it was given for that connection
  tray,       \* last_rendered of the tray
  sole        \* history: connections no other handler has lived beside

serverVars == <<phase, paired, status, sole>>
menuVars   == <<rendered, alertShown, alert, menuOpen>>
clientVars == <<cli, cur, typed, tray>>
displayVars == <<serverVars, menuVars, clientVars>>

\* "fresh" will draw a code, "pinned" waits for Hello without having shown
\* anything, "hello" waits for it after pairing, and "closing" has dropped the
\* connection and not yet written its last status.
Phase == {"none", "fresh", "pinned", "pairing", "hello", "connected", "active",
          "closing", "over"}

Show(kind, n) == [kind |-> kind, of |-> n]
Idle      == Show("idle", None)
Listening == Show("listening", None)
ServerStatus ==
  {Idle, Listening} \cup [kind : {"pairing", "connected", "active"}, of : Attempts]

Connecting == Show("connecting", None)
ClientStatus ==
  {Idle, Connecting} \cup [kind : {"pairing", "connected", "driven"},
                           of : Attempts \cup {None}]

\* What the client's watch channel holds: every step of the client publishes.
Published ==
  CASE cli \in {"connecting", "dialog", "pinned"} -> Connecting
    [] cli = "typed" -> Show("pairing", typed)
    [] cli = "session" -> Show("connected", cur)
    [] cli = "driven" -> Show("driven", cur)

DisplayTypeOK ==
  /\ phase \in [Attempts -> Phase] /\ paired \in BOOLEAN /\ sole \in SUBSET Attempts
  /\ status \in ServerStatus /\ rendered \in ServerStatus
  /\ alertShown \in BOOLEAN /\ alert \in Attempts \cup {None} /\ menuOpen \in BOOLEAN
  /\ cli \in {"connecting", "dialog", "typed", "pinned", "session", "driven"}
  /\ cur \in Attempts \cup {None} /\ (cur = None <=> cli = "connecting")
  /\ typed \in Attempts \cup {None}
  /\ tray \in ClientStatus

DisplayInit ==
  /\ phase = [n \in Attempts |-> "none"] /\ paired = FALSE /\ sole = {}
  /\ status = Idle /\ rendered = Idle
  /\ alertShown = FALSE /\ alert = None /\ menuOpen = FALSE
  /\ cli = "connecting" /\ cur = None /\ typed = None
  /\ tray = Idle

-----------------------------------------------------------------------------
(* The server: the accept loop and its handlers.                            *)

Alive(n) == phase[n] \notin {"none", "over"}

\* run_server is bound.
Binds ==
  /\ status = Idle
  /\ status' = Listening
  /\ UNCHANGED <<phase, paired, sole, menuVars, clientVars>>

\* The client's connection is accepted; pins decide how both ends go on, and the
\* client that has none opens its dialog before it reads anything.
Accepts(n) ==
  /\ status # Idle /\ cli = "connecting"
  /\ phase[n] = "none" /\ \A m \in 1 .. n - 1 : phase[m] # "none"
  /\ phase' = [phase EXCEPT ![n] = IF paired THEN "pinned" ELSE "fresh"]
  /\ sole' = IF \E m \in Attempts : Alive(m)
             THEN {m \in sole : ~Alive(m)} ELSE sole \cup {n}
  /\ cur' = n /\ typed' = None
  /\ cli' = IF paired THEN "pinned" ELSE "dialog"
  /\ UNCHANGED <<paired, status, menuVars, tray>>

\* A step of n's handler to phase p that shows s.
Publishes(n, p, s) ==
  /\ phase' = [phase EXCEPT ![n] = p]
  /\ status' = s
  /\ UNCHANGED <<sole, menuVars, clientVars>>

\* run_server_pairing_flow has drawn the code: on_pairing_code.
DrawsCode(n) ==
  /\ phase[n] = "fresh"
  /\ Publishes(n, "pairing", Show("pairing", n))
  /\ UNCHANGED paired

\* A step of n's handler to phase p that shows nothing.
Silently(n, p) ==
  /\ phase' = [phase EXCEPT ![n] = p]
  /\ UNCHANGED <<status, sole, menuVars, clientVars>>

\* The certificates are exchanged and pinned: the code was the right one.
CodeHolds(n) ==
  /\ phase[n] = "pairing" /\ cur = n /\ cli = "typed" /\ typed = n
  /\ Silently(n, "hello")
  /\ paired' = TRUE

\* Hello came, HelloAck is sent.
GetsHello(n) ==
  /\ phase[n] \in {"pinned", "hello"}
  /\ Publishes(n, "connected", Show("connected", n))
  /\ UNCHANGED paired

\* StartSwallow and StopSwallow.
Crosses(n) ==
  /\ phase[n] = "connected"
  /\ Publishes(n, "active", Show("active", n))
  /\ UNCHANGED paired

\* Mutant: the status of a session does not follow control back.
ReturnsSilently(n) ==
  /\ phase[n] = "active"
  /\ Silently(n, "connected")
  /\ UNCHANGED paired

Returns(n) ==
  /\ phase[n] = "active"
  /\ Publishes(n, "connected", Show("connected", n))
  /\ UNCHANGED paired

\* handle_peer returns, on whatever path: a wrong code, the end of the stream, an
\* error, silence.  Its connection is dropped; the task has not written yet.
Returned(n) ==
  /\ Alive(n) /\ phase[n] # "closing"
  /\ Silently(n, "closing")
  /\ UNCHANGED paired

\* Mutant: only a handler that got as far as a session goes back to Listening.
EndsQuietly(n) ==
  /\ phase[n] = "closing"
  /\ phase' = [phase EXCEPT ![n] = "over"]
  /\ status' = IF status.kind = "pairing" THEN status ELSE Listening
  /\ UNCHANGED <<paired, sole, menuVars, clientVars>>

\* "we're back to waiting for the next inbound connection": the task's last write.
EndsListening(n) ==
  /\ phase[n] = "closing"
  /\ Publishes(n, "over", Listening)
  /\ UNCHANGED paired

-----------------------------------------------------------------------------
(* The menu bar, and the operator in front of it.                           *)

\* current_pairing_code: the code in the menu, hidden when there is none.
MenuCode == IF rendered.kind = "pairing" THEN rendered.of ELSE None

\* Mutant: nothing is rendered while the pairing block is shown.
TickHoldsCode ==
  /\ alert = None /\ ~menuOpen /\ rendered # status /\ rendered.kind # "pairing"
  /\ rendered' = status
  /\ alertShown' = (status.kind = "pairing")
  /\ alert' = IF status.kind = "pairing" THEN status.of ELSE None
  /\ UNCHANGED <<serverVars, menuOpen, clientVars>>

\* refresh_if_changed and render: a new status is shown; the first code after
\* something else raises the alert, and its runModal holds the timer up.
Tick ==
  /\ alert = None /\ ~menuOpen /\ rendered # status
  /\ rendered' = status
  /\ alertShown' = (status.kind = "pairing")
  /\ alert' = IF status.kind = "pairing" /\ ~alertShown THEN status.of ELSE None
  /\ UNCHANGED <<serverVars, menuOpen, clientVars>>

DismissesAlert ==
  /\ alert # None /\ alert' = None
  /\ UNCHANGED <<serverVars, rendered, alertShown, menuOpen, clientVars>>

\* The menu tracks the mouse in a run loop mode of its own.
OpensMenu ==
  /\ alert = None /\ ~menuOpen /\ menuOpen' = TRUE
  /\ UNCHANGED <<serverVars, rendered, alertShown, alert, clientVars>>

\* Dismissed, or "Copy code", which writes the code to the pasteboard.
ClosesMenu ==
  /\ menuOpen /\ menuOpen' = FALSE
  /\ UNCHANGED <<serverVars, rendered, alertShown, alert, clientVars>>

-----------------------------------------------------------------------------
(* The client: its dialog, its status and its tray.                         *)

\* The operator enters a code the Mac displays, or a wrong one; the tray echoes it.
TypesCode(c) ==
  /\ cli = "dialog" /\ c \in {MenuCode, alert, None}
  /\ cli' = "typed" /\ typed' = c
  /\ UNCHANGED <<serverVars, menuVars, cur, tray>>

\* HelloAck.
EntersSession ==
  /\ cli \in {"typed", "pinned"} /\ phase[cur] \in {"connected", "active"}
  /\ cli' = "session"
  /\ UNCHANGED <<serverVars, menuVars, cur, typed, tray>>

\* TakeControl reaches the injector.
IsDriven ==
  /\ cli = "session" /\ phase[cur] = "active"
  /\ cli' = "driven"
  /\ UNCHANGED <<serverVars, menuVars, cur, typed, tray>>

\* The cursor-leave watcher has sent ReleaseControl.
IsReleased ==
  /\ cli = "driven"
  /\ cli' = "session"
  /\ UNCHANGED <<serverVars, menuVars, cur, typed, tray>>

\* Mutant: the connection is not forgotten.
LeavesKeepingConnection ==
  /\ cli # "connecting"
  /\ cli' = "connecting" /\ typed' = None
  /\ UNCHANGED <<serverVars, menuVars, cur, tray>>

\* run_one_session returns: the dialog was cancelled or its code was not six
\* digits, the server closed or the network failed; the loop connects again at
\* once.  An open dialog is waited for, whatever has become of the connection.
LeavesConnection ==
  /\ cli # "connecting"
  /\ cli' = "connecting" /\ cur' = None /\ typed' = None
  /\ UNCHANGED <<serverVars, menuVars, tray>>

TrayTick ==
  /\ tray # Published
  /\ tray' = Published
  /\ UNCHANGED <<serverVars, menuVars, cli, cur, typed>>

-----------------------------------------------------------------------------
Handler(n) ==
  \/ Accepts(n) \/ DrawsCode(n) \/ CodeHolds(n) \/ GetsHello(n)
  \/ Crosses(n) \/ Returns(n) \/ Returned(n) \/ EndsListening(n)

DisplayNext ==
  \/ Binds \/ \E n \in Attempts : Handler(n)
  \/ Tick \/ DismissesAlert \/ OpensMenu \/ ClosesMenu
  \/ \E c \in Attempts \cup {None} : TypesCode(c)
  \/ EntersSession \/ IsDriven \/ IsReleased \/ LeavesConnection \/ TrayTick

DisplaySpec == DisplayInit /\ [][DisplayNext]_displayVars
-----------------------------------------------------------------------------
(* What the display promises.                                               *)

\* Whatever the status names exists: a code is one its handler still waits with, a
\* session is one that runs, however many handlers come and go beside it.  (A
\* handler that has dropped its connection is about to write once more.)
StatusIsOfALiveHandler ==
  /\ status.kind = "pairing" => phase[status.of] \in {"pairing", "hello", "closing"}
  /\ status.kind = "connected" => phase[status.of] \in {"connected", "closing"}
  /\ status.kind = "active" => phase[status.of] \in {"active", "closing"}

\* What the handler of n would have the operator see.
Due(n) ==
  CASE phase[n] \in {"pairing", "hello"} -> Show("pairing", n)
    [] phase[n] = "connected" -> Show("connected", n)
    [] phase[n] = "active" -> Show("active", n)
    [] OTHER -> status

\* The other half, that what exists is shown, holds for a handler no other has
\* lived beside ("the runtime simply emits the most recently true status", app.rs).
StatusExactWhenAlone == \A n \in sole : status = Due(n)

\* What the status promises, of many handlers and of one.
StatusFaithful == StatusIsOfALiveHandler /\ StatusExactWhenAlone

\* The same with a reconnect that overtakes the end of the connection before it:
\* "Replaced by Connected on success or Listening on failure" (app.rs, Pairing).
CodeStaysVisible == \A n \in Attempts : phase[n] = "pairing" => status = Due(n)

\* "an NSAlert is raised once per pairing session" (kmwarp-SPEC.md, M9): a code that
\* comes up in the menu is announced.
EachCodeIsAnnounced ==
  [][rendered'.kind = "pairing" /\ rendered' # rendered => alert' = rendered'.of]_displayVars

\* An open dialog belongs to a connection that still waits for its code.
DialogIsAwaited == cli = "dialog" => phase[cur] \notin {"closing", "over"}

-----------------------------------------------------------------------------
(* The operator clicks alerts and menus away.  A timer that came due while   *)
(* the run loop was in another mode fires as soon as it is back: strong      *)
(* fairness.  A task past its handler runs on.                               *)

DisplayFairness ==
  /\ SF_displayVars(Tick) /\ WF_displayVars(DismissesAlert) /\ WF_displayVars(ClosesMenu)
  /\ \A n \in Attempts : WF_displayVars(EndsListening(n))

\* A code nobody waits for any more leaves the menu, and its alert the screen:
\* alerts and open menus hold the timer up, never for good.
MenuFollowsStatus ==
  \A n \in Attempts : phase[n] = "closing" ~> MenuCode # n /\ alert # n
=============================================================================
