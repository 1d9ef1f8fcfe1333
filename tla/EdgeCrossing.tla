---------------------------- MODULE EdgeCrossing ----------------------------
(***************************************************************************)
(* Where the two cursors are while control goes back and forth, and when:  *)
(* the displays of the Mac, the edge brain's translation of positions, the *)
(* state machine's cooldown, the calls on the Mac's cursor in their order, *)
(* the client's entry point and its watcher of the left edge.  What the    *)
(* channels lose and what becomes of keys is module InputSession's; here   *)
(* nothing is lost.  Time advances in ticks of the watcher's poll period.  *)
(***************************************************************************)
EXTENDS Integers, Sequences

CONSTANTS
  Displays,  \* the Mac's displays, in the order of active_displays
  WinW,      \* columns and
  WinH,      \* rows of the Windows screen
  Inset,     \* TAKE_ENTRY_INSET_PX: the column the cursor enters at
  SafeX,     \* safe_warp_x: half the screen, where it is parked when it has left
  BackWarp,  \* back_warp_px
  Cooldown,  \* thrash_cooldown_ms, in ticks
  Steps,     \* the motions the user's hand makes
  MaxTap,    \* model bound on the events the brain has not seen
  MaxOut     \* model bound on the frames on their way to the client

Right(d) == d.x + d.w
Contains(d, p) == p.x >= d.x /\ p.x < Right(d) /\ p.y >= d.y /\ p.y < d.y + d.h

Display == [x : Int, y : Int, w : Nat \ {0}, h : Nat \ {0}]

ASSUME GeometryAssumption ==
  /\ Displays \in Seq(Display)
  /\ \E i \in DOMAIN Displays : \A j \in DOMAIN Displays : Right(Displays[i]) >= Right(Displays[j])
  /\ WinW \in Nat /\ WinH \in Nat \ {0}
  /\ Inset \in Nat \ {0} /\ SafeX \in Inset .. WinW - 1 /\ BackWarp \in Nat
  /\ Cooldown \in Nat \ {0} /\ MaxTap \in Nat /\ MaxOut \in Nat
  /\ Steps \subseteq [dx : Int, dy : Int]

VARIABLES
  \* the Mac
  mac,      \* the cursor
  coupled,  \* it follows the mouse
  hidden,   \* it is not shown
  tapQ,     \* MouseRel and CursorAt events the brain has not seen
  \* the edge brain
  sm,       \* "LocalActive" or "RemoteActive"
  home,     \* home_display_right
  age,      \* time since last_transition_ms, up to Cooldown
  stamped,  \* last_transition_ms # 0
  late,     \* now_ms # 0
  todo,     \* actions of the last transition still to execute
  \* the client
  win,      \* the Windows cursor
  active,   \* the client drives
  injector, \* "idle", or "warped" between TakeControl's warp and its store
  watcher,  \* "idle", "due", or "sent" between its try_send and its store
  toClient, \* TakeControl and MouseMoveRel frames
  toServer, \* ReleaseControl frames
  \* history
  backAge,  \* time since control last came back, up to Cooldown
  travel    \* columns the Windows cursor moved left since it entered, up to Inset

macVars == <<mac, coupled, hidden>>
brainVars == <<sm, home, age, stamped, todo>>
cliVars == <<win, active, injector, travel>>
vars == <<macVars, tapQ, brainVars, late, cliVars, watcher, toClient, toServer, backAge>>

Min2(a, b) == IF a < b THEN a ELSE b
Within(lo, hi, v) == IF v < lo THEN lo ELSE IF v > hi THEN hi ELSE v

\* query_screen_px: the right end of the whole arrangement.
GlobalRight ==
  CHOOSE r \in {Right(Displays[i]) : i \in DOMAIN Displays} :
    \A i \in DOMAIN Displays : r >= Right(Displays[i])

Into(d, p) == [x |-> Within(d.x, Right(d) - 1, p.x), y |-> Within(d.y, d.y + d.h - 1, p.y)]
OnSome(p) == \E i \in DOMAIN Displays : Contains(Displays[i], p)
\* macOS keeps the cursor on a display: on the one it is moved to, or within one.
Places(p) == IF OnSome(p) THEN {p} ELSE {Into(Displays[i], p) : i \in DOMAIN Displays}

\* display_containing
HomeOf(p) ==
  LET on == {i \in DOMAIN Displays : Contains(Displays[i], p)}
  IN  Displays[CHOOSE i \in on : \A j \in on : i <= j]
AtRightEdge(p) == OnSome(p) /\ p.x >= Right(HomeOf(p)) - 1
\* What the state machine finds at the arrangement's right end: a position on the last
\* column of its display stands for that end and any other on a display for 0, one on
\* no display is passed on as it is.
Crosses(p) == AtRightEdge(p) \/ (~OnSome(p) /\ p.x >= GlobalRight)

Init ==
  /\ \E i \in DOMAIN Displays : mac = [x |-> Displays[i].x, y |-> Displays[i].y]
  /\ coupled = TRUE /\ hidden = FALSE /\ tapQ = <<>>
  /\ sm = "LocalActive" /\ home = GlobalRight
  /\ age = 0 /\ stamped = FALSE /\ late = FALSE /\ todo = <<>>
  /\ win = [x |-> SafeX, y |-> 0] /\ active = FALSE /\ injector = "idle"
  /\ watcher = "idle" /\ toClient = <<>> /\ toServer = <<>>
  /\ backAge = Cooldown /\ travel = 0

-----------------------------------------------------------------------------
(* The Mac *)

\* The user moves the mouse: the tap reports the motion and where the cursor
\* is, which it is whether or not the cursor followed.
UserMoves ==
  /\ Len(tapQ) + 2 <= MaxTap
  /\ \E d \in Steps :
       LET p == [x |-> mac.x + d.dx, y |-> mac.y + d.dy]
           to == IF OnSome(p) THEN p ELSE Into(HomeOf(mac), p)
       IN  /\ mac' = IF coupled THEN to ELSE mac
           /\ tapQ' = tapQ \o <<[type |-> "Rel", d |-> d], [type |-> "At", p |-> mac']>>
  /\ UNCHANGED <<coupled, hidden, brainVars, late, cliVars, watcher, toClient, toServer, backAge>>

Warp(p)  == [type |-> "Warp", p |-> p]
Hide     == [type |-> "Hide"]
Show     == [type |-> "Show"]
Take(y)  == [type |-> "Take", y |-> y]

\* Mutant: the cursor is hidden, and with that frozen, before it is warped.
CrossingHidesFirst(right, y) ==
  <<Take(Within(0, 65535, y)), Hide, Warp([x |-> right - BackWarp, y |-> y])>>

\* Mutant: the row is sent as it is, negative on a display above the main one.
CrossingUnclamped(right, y) ==
  <<Take(y), Warp([x |-> right - BackWarp, y |-> y]), Hide>>

\* What a crossing and a return have the brain do, in this order; where the
\* swallow flag is set is module InputSession's.
Crossing(right, y) ==
  <<Take(Within(0, 65535, y)), Warp([x |-> right - BackWarp, y |-> y]), Hide>>
Return(y) == <<Show, Warp([x |-> home - 1, y |-> y])>>

CooldownElapsed == ~stamped \/ age >= Cooldown

\* The brain takes an event of the tap.  The warp of a crossing is told from the right
\* end of the display the user was last seen to leave.
BrainTakesSource ==
  /\ todo = <<>> /\ tapQ # <<>>
  /\ LET ev == Head(tapQ)
     IN  /\ home' = IF ev.type = "At" /\ AtRightEdge(ev.p) THEN Right(HomeOf(ev.p)) ELSE home
         /\ IF sm = "LocalActive" /\ ev.type = "At" /\ Crosses(ev.p) /\ CooldownElapsed
            THEN /\ sm' = "RemoteActive" /\ age' = 0 /\ stamped' = late
                 /\ todo' = Crossing(home', ev.p.y)
            ELSE UNCHANGED <<sm, age, stamped, todo>>
         /\ IF sm = "RemoteActive" /\ ev.type = "Rel"
            THEN Len(toClient) < MaxOut /\ toClient' = Append(toClient, ev)
            ELSE UNCHANGED toClient
  /\ tapQ' = Tail(tapQ)
  /\ UNCHANGED <<macVars, late, cliVars, watcher, toServer, backAge>>

\* Mutant: coming back does not start the cooldown.
BrainTakesReleaseUnstamped ==
  /\ todo = <<>> /\ toServer # <<>>
  /\ IF sm = "RemoteActive"
     THEN /\ sm' = "LocalActive" /\ todo' = Return(Head(toServer).y) /\ backAge' = 0
          /\ UNCHANGED <<home, age, stamped>>
     ELSE UNCHANGED <<brainVars, backAge>>
  /\ toServer' = Tail(toServer)
  /\ UNCHANGED <<macVars, tapQ, late, cliVars, watcher, toClient>>

\* The brain takes a ReleaseControl.
BrainTakesRelease ==
  /\ todo = <<>> /\ toServer # <<>>
  /\ IF sm = "RemoteActive"
     THEN /\ sm' = "LocalActive" /\ todo' = Return(Head(toServer).y) /\ backAge' = 0
          /\ age' = 0 /\ stamped' = late /\ UNCHANGED home
     ELSE UNCHANGED <<brainVars, backAge>>
  /\ toServer' = Tail(toServer)
  /\ UNCHANGED <<macVars, tapQ, late, cliVars, watcher, toClient>>

\* execute_action: one action of the list.  A warp couples the cursor again.
Execute ==
  /\ todo # <<>> /\ todo' = Tail(todo)
  /\ LET a == Head(todo) IN
       \/ /\ a.type = "Take" /\ Len(toClient) < MaxOut
          /\ toClient' = Append(toClient, a) /\ UNCHANGED macVars
       \/ /\ a.type = "Warp" /\ mac' \in Places(a.p) /\ coupled' = TRUE
          /\ UNCHANGED <<hidden, toClient>>
       \/ /\ a.type = "Hide" /\ hidden' = TRUE /\ coupled' = FALSE
          /\ UNCHANGED <<mac, toClient>>
       \/ /\ a.type = "Show" /\ hidden' = FALSE /\ coupled' = TRUE
          /\ UNCHANGED <<mac, toClient>>
  /\ UNCHANGED <<tapQ, sm, home, age, stamped, late, cliVars, watcher, toServer, backAge>>

-----------------------------------------------------------------------------
(* The client *)

\* Mutant: the client becomes active and then moves its cursor.
ClientTakesControlAtOnce ==
  /\ injector = "idle" /\ toClient # <<>> /\ Head(toClient).type = "Take"
  /\ active' = TRUE /\ injector' = "warped" /\ travel' = 0 /\ UNCHANGED win
  /\ toClient' = Tail(toClient)
  /\ UNCHANGED <<macVars, tapQ, brainVars, late, watcher, toServer, backAge>>

\* TakeControl: the cursor goes to its point of entry, and then `active` is set.
ClientTakesControl ==
  /\ injector = "idle" /\ toClient # <<>> /\ Head(toClient).type = "Take"
  /\ win' = [x |-> Inset, y |-> Within(0, WinH - 1, Head(toClient).y)]
  /\ injector' = "warped" /\ travel' = 0 /\ UNCHANGED active
  /\ toClient' = Tail(toClient)
  /\ UNCHANGED <<macVars, tapQ, brainVars, late, watcher, toServer, backAge>>

ClientActivates ==
  /\ injector = "warped" /\ injector' = "idle" /\ active' = TRUE
  /\ UNCHANGED <<macVars, tapQ, brainVars, late, win, travel, watcher, toClient, toServer, backAge>>

\* MouseMoveRel: Windows moves its cursor within its screen.
ClientMoves ==
  /\ injector = "idle" /\ toClient # <<>> /\ Head(toClient).type = "Rel"
  /\ LET d == Head(toClient).d
         x == Within(0, WinW - 1, win.x + d.dx)
     IN  /\ win' = [x |-> x, y |-> Within(0, WinH - 1, win.y + d.dy)]
         /\ travel' = IF x < win.x THEN Min2(Inset, travel + win.x - x) ELSE travel
  /\ toClient' = Tail(toClient)
  /\ UNCHANGED <<macVars, tapQ, brainVars, late, active, injector, watcher, toServer, backAge>>

\* The watcher's tick: on the left edge while active, ReleaseControl is sent.
WatcherPolls ==
  /\ watcher = "due"
  /\ IF active /\ win.x <= 0
     THEN watcher' = "sent" /\ toServer' = Append(toServer, [type |-> "Release", y |-> win.y])
     ELSE watcher' = "idle" /\ UNCHANGED toServer
  /\ UNCHANGED <<macVars, tapQ, brainVars, late, cliVars, toClient, backAge>>

\* It disarms itself and parks the cursor inside the screen.
WatcherDisarms ==
  /\ watcher = "sent" /\ watcher' = "idle"
  /\ active' = FALSE /\ win' = [x |-> SafeX, y |-> win.y]
  /\ UNCHANGED <<macVars, tapQ, brainVars, late, injector, travel, toClient, toServer, backAge>>

\* Time passes.  The watcher's few instructions after its send take less.
Tick ==
  /\ watcher # "sent" /\ watcher' = "due" /\ late' = TRUE
  /\ age' = Min2(Cooldown, age + 1) /\ backAge' = Min2(Cooldown, backAge + 1)
  /\ UNCHANGED <<macVars, tapQ, sm, home, stamped, todo, cliVars, toClient, toServer>>

Next ==
  \/ UserMoves \/ BrainTakesSource \/ BrainTakesRelease \/ Execute
  \/ ClientTakesControl \/ ClientActivates \/ ClientMoves
  \/ WatcherPolls \/ WatcherDisarms \/ Tick

Spec == Init /\ [][Next]_vars

-----------------------------------------------------------------------------
(* Properties *)

Point == [x : Int, y : Int]
Motion == [type : {"Rel"}, d : Steps]
TapEvent == Motion \cup [type : {"At"}, p : Point]
Action == [type : {"Warp"}, p : Point] \cup [type : {"Hide", "Show"}]
          \cup [type : {"Take"}, y : Nat]
ClientFrame == Motion \cup [type : {"Take"}, y : Nat]
Release == [type : {"Release"}, y : 0 .. WinH - 1]

MacTypes ==
  /\ mac \in Point /\ OnSome(mac) /\ coupled \in BOOLEAN /\ hidden \in BOOLEAN
  /\ tapQ \in Seq(TapEvent)
BrainTypes ==
  /\ sm \in {"LocalActive", "RemoteActive"} /\ home \in Int
  /\ age \in 0 .. Cooldown /\ stamped \in BOOLEAN /\ late \in BOOLEAN
  /\ todo \in Seq(Action) /\ backAge \in 0 .. Cooldown
ClientTypes ==
  /\ win \in [x : 0 .. WinW - 1, y : 0 .. WinH - 1] /\ active \in BOOLEAN
  /\ injector \in {"idle", "warped"} /\ travel \in 0 .. Inset
ChannelTypes ==
  /\ watcher \in {"idle", "due", "sent"}
  /\ toClient \in Seq(ClientFrame) /\ toServer \in Seq(Release)

\* Every variable keeps its type; both cursors stay on their screens.
TypeOK == MacTypes /\ BrainTypes /\ ClientTypes /\ ChannelTypes

\* While Windows is driven the Mac's cursor is hidden and does not follow the
\* hand, and otherwise it is shown and follows it.  A warp couples the cursor
\* again, so hide_cursor has to come last (inject.rs: "without
\* associate(false) ... the Mac cursor still drifts and re-crosses the edge").
CursorFrozenWhileRemote ==
  todo = <<>> => (coupled <=> sm = "LocalActive") /\ (hidden <=> sm = "RemoteActive")

\* Control does not go to Windows again within the cooldown of its return:
\* the zero that last_transition_ms starts with is never mistaken for a return.
CooldownHolds ==
  [][sm = "LocalActive" /\ sm' = "RemoteActive" => backAge >= Cooldown]_vars

\* Control is given back only if the hand has moved the cursor as far to the
\* left as it was put inside the screen: entering never bounces by itself
\* (pump.rs, the comment on TAKE_ENTRY_INSET_PX).
EntryDoesNotBounce ==
  [][Len(toServer') > Len(toServer) => travel >= Inset]_vars

\* Where the cursor comes back is on the display it left from (app.rs,
\* edge_brain_task, "so it reappears where the user left from").
ReturnsHome ==
  [][\A y \in 0 .. WinH - 1 :
       todo = <<Warp([x |-> home - 1, y |-> y])>> /\ todo' = <<>>
         => Right(HomeOf(mac')) = home]_vars
=============================================================================
