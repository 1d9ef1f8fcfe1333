# kmwarp in TLA+

kmwarp shares one keyboard and mouse between a Mac (the *server*: it has the
devices) and a Windows PC (the *client*: it has only a screen). When the Mac's
cursor crosses the right edge of its displays, the Mac's input is swallowed and
forwarded over a pinned TLS connection; when the Windows cursor leaves by the
left edge, control comes back. Clipboard text is synchronised both ways.

This directory holds TLA+ models of the program, TLC configurations that check
them on small instances, and TLAPS proofs of the results that matter most.
Paths below are relative to `src/`.

- [Inventory](#inventory)
- [Modules and how they correspond to the code](#modules-and-how-they-correspond-to-the-code)
- [Runs, bounds and what they show](#runs-bounds-and-what-they-show)
- [Fairness](#fairness)
- [Proofs](#proofs)
- [Where the code and its words disagree](#where-the-code-and-its-words-disagree)
- [Only model-checked, and not modelled](#only-model-checked-and-not-modelled)
- [Plan](#plan)

To repeat a check: `tlc -config InputSession_keys.cfg MCInputSession.tla`, and
for a proof: `tlapm InputSessionProofs.tla`.

## Inventory

### Parts, their state and how they interact

    macOS ── event tap ──> source forwarder ──> edge brain ──> outbound ──> encoder ─┐
              │  ^ swallow      (try_send)        │  ^                               TLS
         local apps                  cursor hide/warp │ ReleaseControl               │
                                                   reader <── TLS <── encoder <── outbound
                                                      │                     ^        v
                                              clipboard in/out       cursor watcher, injector,
                                                                     clipboard tasks (Windows)

| Component (code) | State it keeps | Operations | Talks to |
| --- | --- | --- | --- |
| event tap (`server/src/platform/macos/tap.rs`) | modifier bitmap `held_mods`; the shared `swallow` flag | callback per HID event: translate, send, swallow or pass | forwarder, by an unbounded channel |
| edge brain (`server/src/app.rs`, `edge_brain_task`) | the state machine, `HeldKeys`, `home_display_right` | one input at a time; a transition's action list with awaits between | outbound channel, cursor calls, `swallow` |
| edge state machine (`core/src/edge/mod.rs`) | `state`, `last_transition_ms` | `on_local_event`, `on_wire_message` | pure |
| held keys (`core/src/stuck_keys.rs`) | set of HID usages | `observe`, `drain` | one at each end |
| modifier remap (`core/src/modmap.rs`) | what Cmd and Option become | `apply_to_hid`, `apply_to_modmask` | brain |
| cursor calls (`server/src/platform/macos/inject.rs`) | cursor hidden / associated with the mouse, shared by all sessions | warp, hide, show | macOS |
| tap threads (`tap.rs`, `install`, `Drop`) | a run-loop thread and a watcher thread per session | install, report, run, stop, join | macOS' chain of taps, the session's abort |
| injector (`client/src/net/pump.rs`) | `InjectorGuard` with `HeldKeys`; shared `active` flag; reassembler | `dispatch_one` per frame; drain on drop | Windows input and clipboard |
| cursor watcher (`client/src/platform/windows/cursor_watch.rs`) | none of its own | poll every 16 ms while `active`: ReleaseControl, disarm, park | client's outbound channel |
| framing, codec (`core/src/wire`, `*/src/net/connection.rs`) | the reader's byte buffer | encode, decode, read and split | the stream |
| server sessions (`server/src/app.rs`) | handlers, `ServerStatus` watch | accept, handshake, session tasks, disconnect drain | everything above |
| client sessions (`client/src/app.rs`) | backoff | connect, handshake, session tasks | everything above |
| pairing (`*/src/net/pairing.rs`, `core/src/pairing`) | SPAKE2 exchange under way | five frames, then the pin is stored | pin store |
| TLS pinning (`core/src/tls`) | `peer.pin`, identity on disk | verify, load, store | pairing, sessions |
| clipboard (`core/src/clipboard.rs`, tasks of both apps) | `EchoGuard`, `Reassembler` | split, ingest, suppress, remember | outbound channels, OS clipboards |
| HID tables, injection (`core/src/hid`, `client/src/platform/windows/inject.rs`) | none | table lookups, `SendInput` | Windows |
| identity files (`core/src/tls/cert.rs`, `pin.rs`) | `cert.der`, `key.der`, `peer.pin`, `peer.pin.tmp` | load or generate, save, store, remove | every process of the machine |
| menu bar (`server/src/service/menubar.rs`) | `last_rendered`, `current_pairing_code`, `alert_shown_for_current_pairing` | a timer's tick: compare, render, raise the alert | `ServerStatus` watch channel |
| tray, dialog (`client/src/platform/windows`) | last rendered status; the dialog's text | a timer's tick; ask for a code | `ClientStatus` watch channel, pairing |
| Windows service (`client/src/service/windows_service.rs`) | `HELPER_PROCESS_HANDLE` | install, uninstall; launch, wait, clean up; Stop on another thread | the SCM, the helper process |
| discovery, configuration, permissions, demos | files, mDNS | start-up | the sessions |

### What is hard about it

* **Threads and tasks.** The tap's callback runs on a Core Foundation thread and
  reads `swallow` while the brain, a tokio task, changes it at the end of a list of
  actions. The watcher and the injector share `active`. The disconnect drain runs
  while the brain is still alive.
* **Bounded channels with `try_send`.** Nearly every hop drops what does not fit: tap
  events (into the brain), frames (outbound), clipboard chunks (twice). What
  depends on a dropped message, and is sent once, is lost: control, a key-up, a
  middle chunk.
* **Endings.** A session ends by the end of a stream, by 2 s of silence, by a killed
  process or by an encoder error, in the middle of anything; keys must come up on
  Windows and the Mac must get its input back.
* **Two machines that take turns** without a common clock: the cooldown, the entry
  inset and the self-disarming watcher are three independent defences against
  thrashing, and the token of control must survive all of them.
* **First contact.** Pins are stored on either side at different moments of a
  protocol none of whose reads has a timeout.
* **Echo.** A clipboard write is seen by the writer's own watcher.
* **Sessions that overlap.** A session whose client is gone lives until its deadline; a new one
  beside it has a tap, two threads and a brain of its own, but macOS has one chain of taps and one cursor.
* **Readers that look now and then.** Overlapping handlers write one status; the menu
  bar polls it from a timer that its own alert holds up.
* **Processes that end anywhere.** The service's Stop races the thread that launches
  and awaits the helper; identity and pin are written in several system calls, by any process
  of the machine.

### What makes the components correct

| Component | Properties |
| --- | --- |
| keys, both trackers, drains, guard | `KeysAgree`, `WindowsLeftClean`, `NoGhostHold`, `EntryDrainIsEmpty`, `ReleasedKeysComeUp` |
| state machine, watcher, control frames | `ControlToken`, `ImplementsHandoff`, `LeavingHandsBack`, `CooldownHolds`, `EntryDoesNotBounce` |
| cursor calls | `CursorFrozenWhileRemote` |
| pairing and pinning | `NoSurprise`, `SameModeProgress`, `SessionIsMutual`, `AttemptEnds` |
| clipboard | `TornNeverPasted`, `SerialFreshCopiesSync`, `SerialCopiesQuiesce` |
| sessions over time | `NoFalseAlarm`, `DeadWithinDeadline`, `ComesBack` |
| overlapping sessions on the Mac | `MacLeftClean`, `InputComesBack` |
| status, menu bar, alert | `StatusFaithful`, `MenuFollowsStatus` |
| Windows service | `HelperAccounted`, `StopTakesEffect` |
| identity and pin files | `PinNeverTorn`, `IdentityLasts` |
| framing, codec, remap, conversions | `ImplementsChannel`, `InputIntact`, `ChordsMatchKeys`, `NothingKeptBack` |

The hazards behind them, each at its line, are listed in `PROJECT.json`. Four of them no property
covers, and their notes say why: a handshake that fails for good and is retried at once, a pasteboard that another
application is in the middle of changing, a remembered hash that outlives its change (it is the falsified
`SerialCopiesSync` below), and a TakeControl that comes between the watcher's send and its store. The last one is left
to an assumption about time: the cooldown, 50 ms, does not elapse between these two adjacent statements. Both
`CooldownElapses` of `InputSession` and `Tick` of `EdgeCrossing` make it, and without it `ControlToken` is violated.

## Modules and how they correspond to the code

`PROJECT.json` maps every definition to its lines. The `MC*` modules only give
constants their values (and, for `InputSession`, a view; `MCHosts` puts four modules side by side).
Definitions that start with "Mutant:" are plausible bugs of the code; none of them
is part of a specification. Each property of a passing run is violated when one of
them replaces its original.

### `InputSession`: keys and control in one session after another

The heart of the program: tap, forwarder, brain, both bounded outbound channels,
injector, watcher, and the ways a session ends and starts again. One action per
task step, so that all interleavings of the tap thread and the tokio workers of
both machines are behaviours.

| Code | Model |
| --- | --- |
| tap callback: bitmap, send, then swallow | `UserKey`, `UserMotion` (`Translate` is the FlagsChanged direction) |
| a tap macOS has disabled, before the callback enables it | `UserKeyUnseen` |
| `source_forwarder_task` | `ForwardSource` (drops when `brainQ` is full, `srcLost`) |
| `edge_brain_task`, `execute_action` | `BrainKey`, `BrainMotion`, `BrainCross`, `BrainRelease`, then `DrainToPeer`, `BrainEnter` / `BrainLeave`; `pc` is the position in the action list |
| `enqueue` | `Enqueue` (drops when `toClient` is full, `outLost`, `ctlLost`) |
| `reader_task` (server) | `ServerReads` |
| `dispatch_one`, `InjectorGuard::drop` | `ClientInjects`, `ClientEnds` |
| `cursor_leave_watcher` | `WatcherSends`, `WatcherClears` |
| `handle_peer`'s end: drain, 100 ms, abort | `ServerExits`, `DisconnectDrain`, `DrainTimesOut`, `ServerCloses`; a killed process: `ServerKilled` |

Abstractions: a tracker update and the enqueue that follows it without an await are
one step; a MouseRel and the CursorAt after it are one motion (`EdgeCrossing` takes
them apart); an outbound channel and the TCP stream behind it are one bounded
FIFO; a drain releases its keys in any order, where
the code's is ascending.
The cooldown is a flag that may elapse at any moment, but not within the two adjacent
statements of the watcher between its send and its store. `srcLost`, `outLost` and
`ctlLost` are history: what a disabled tap missed and the channels refused. The client *process* is not killed
(Windows would keep a key down, which no code of kmwarp could change).

### `ControlHandoff`: the abstract specification of control

One variable, `owner`, going round `mac`, `toWindows`, `windows`, `toMac`; `stranded`
when a full channel refused the frame that carried control; `over` between sessions.
`InputSession!ImplementsHandoff` is `Handoff!Spec` under the mapping `Owner`.

### `EdgeCrossing`: where the cursor goes, and when

The same crossing seen geometrically: displays as rectangles, `display_containing`,
the brain's per-display edge translation, the state machine's cooldown *with its zero
initial value* (`stamped`, `late`), the four calls on the Mac's cursor in the order of
the action list, the client's inset entry, its watcher and the anti-thrash park.
`coupled` and `hidden` are macOS's state; `Execute` performs one action of the list,
so motion happens between any two. A tick is one poll of the watcher, and none falls between
the watcher's send and its store. A position on no display (`Crosses`) is passed on unchanged, as the code does;
since macOS keeps the cursor on a display, no state has one.

Abstractions: channels lose nothing here; Windows' own mouse is not moved; displays
are not rearranged during a session; the right end of the arrangement is positive and
below 65536, so `query_screen_px`'s bounds do not show (macOS puts the origin at the
main display); a display has a few columns and rows, since only its edges count.

### `FrameStream`: from an event to an input call, byte by byte

One direction of one connection: messages of every kind, encoded into bytes with
`Radix` values each, cut anywhere by the stream, and decoded from the buffer. It
models `encode`, `decode_frame`, every payload's fields, the read loops, the hand-over of
the buffer at `into_split`, the conversions `source_event_to_message` and
`apply_key_to_sink` / `apply_mouse_to_sink`, `ModRemap` on HIDs and on modifier masks,
and the tap's narrowing of deltas. `calls` records what the reader's loop called on the sink, in the step that decodes the
message. What is recursive in it is a recursive function, which can be proved about. `MessageChannel`
is its abstract specification: messages sent and messages received, without a byte. `sent` and `got` map to
themselves, `fin`, `cut` and `why` to the channel's end; that is what the queues of messages in the other modules rest on. `Radix` stands for 256, so that two-byte numbers
wrap within reach. "Disconnected" stands for any read error. `PairRejected`, `Bye` and
the raw pre-handshake framing are not sent. u32 and u64 fields take small values.

### `Pairing`: first contact

TLS by pin, the five frames of SPAKE2 pairing in their order, the code typed right or
wrong, `Hello` / `HelloAck`, with dropped connections, restarts of either process, an
operator who cancels, and a server handler that outlives its client. `mode` records
whether both ends entered the connection believing the same thing. Cryptography is
external: keys are equal exactly if the codes are. The TLS handshake is one step; the
store of a pin is too, and `KMWARP_REPAIR` does not occur: both are `PeerIdentity`'s. A
connection that silently delivers nothing is `SessionLifecycle`'s.

### `ClipboardSync`: text both ways

Each side's watcher, out task (echo guard, chunker, `try_send`), reassembler and
write. The sides differ as the code does: the Mac's poller coalesces changes and
its `clipboard_in_task` remembers before it writes; Windows sees each change, and
writes before it remembers. `Garbled` is a payload assembled from chunks of several.
Both ends of a session end together; empty texts and images do not occur.

### `SessionLifecycle`: sessions over time

Accept loop and handlers, connect loop and backoff, heartbeats, silence deadlines,
`ServerStatus`, a network that delivers within `MaxDelay` or has been cut silently, server
stops, client restarts, failing handshakes. TLS, pairing and Hello are one phase.
The disconnect drain's 100 ms are neglected.

### `StatusDisplay`: what the operator is shown

Every write of the server's status channel, by any number of handlers that overlap, and
those who look at it.

| Code | Model |
| --- | --- |
| `run_server`, the spawned handler | `Binds`, `Accepts`, `EndsListening` |
| `handle_peer`'s calls of `publish_status` | `DrawsCode`, `GetsHello`; the brain's: `Crosses`, `Returns` |
| `refresh_if_changed`, `render`, `show_pairing_block`, `hide_pairing_block` | `Tick`, which nothing but an alert or an open menu prevents |
| `raise_pairing_alert` (`runModal`) | `alert` until `DismissesAlert` |
| `ask_pairing_code`, `dialog_wnd_proc` | `TypesCode`, `LeavesConnection` |
| the tray's timer | `TrayTick`, which copies what `Published` derives from the client's state |

A code is the identity of the connection it was drawn for, so that an old one can be told
from a new one. `sole` is history: the connections no other handler has lived beside. Either
end may fail at any moment; the frames between them are `Pairing`'s.

### `WindowsService`: the service, its helper and the SCM

`main` is the position of the service's thread in `spawn_user_session_helper_and_wait`,
`handler` that of the SCM's thread in `terminate_helper_if_running`; `slot` says whether
`HELPER_PROCESS_HANDLE` holds the handle, `handle` what has become of it. Stop, uninstall, log-out,
a dying helper, a killed service and a reboot happen between any two steps. `TerminateProcess` takes
effect at once or fails, and the handle is closed either way. `orphans` is history: helpers whose service was
killed, which nothing on Windows ends, or failed to terminate them. A wait that begins on a closed handle returns
(the code ignores what it returns); one that is under way may go on until the helper ends.

### `PeerIdentity`: the files a machine is known by

The system calls of `load_or_generate` and of `PinStore::store` one by one: `now` is what a
reader finds, `safe` what an outage is sure to leave, `wet` the files not flushed. A write
is a truncation and a filling; a rename carries an open file with it (`fd`), so that two processes that share
`peer.pin.tmp` write into each other's files. Several processes (a helper of the service, a run in the
foreground) begin, browse for the server, load or generate, repair, pair and crash. `raced` and
`outage` are history. "Empty" stands for every content that load refuses, and what a
power failure leaves of each file is chosen on its own. Files are replaced by KMWARP_REPAIR or by nobody: editing them is
not modelled.

### `MacInput`: the Mac's taps and cursor under several sessions

The threads of `install` and the calls on what all sessions share, one by one.

| Code | Model |
| --- | --- |
| `install` and the tap's thread | `TapBegins`, `TapFails`, `TapCreated`, `LoopRuns`, `SourceReady`, `WatcherUnspawned`, `TapFreed` |
| the callback, for a motion at the edge | `TapHears`; `ahead` is the order in which macOS asks the taps |
| the brain and its action lists | `BrainCrosses`, `BrainIgnores`, `BrainReturns`, then `Executes` call by call |
| `handle_peer`'s end, the abort of the brain and of the forwarder | `SessionEnds`, `BrainAborted` (between two lists only: a list has no await in it that can be pending), `SourceDropped` |
| `MacInputSource::drop`, the watcher's thread | `LoopStopped`, `ThreadsJoined` |

Abstractions: every motion is one that would cross, and any may be ignored, which stands for the
cooldown; calls on the cursor succeed; a motion between two taps is taken to have been heard
before the newer one began to swallow. `CFRunLoop::stop` stops the loop's current activation and
nothing else: that, the chain of taps and the counting of hides are macOS' part.

## Runs, bounds and what they show

| Run | Shows | Bounds | States |
| --- | --- | --- | --- |
| `InputSession_keys` | no key sticks, the trackers agree, control is one token, through every interleaving, overflow and session end | two modifiers that the remap merges into one HID; all queues 1 | 3.2 M |
| `InputSession_live` | released keys come up, leaving hands back, and the refinement of `ControlHandoff` | one key; all queues 1; `FairSpec` | 0.1 M |
| `EdgeCrossing_stacked` | cursor state follows control; cooldown; no bounce | a display with another above it, a 4 × 2 Windows screen, inset and cooldown 2, two tap events and two frames under way | 1.1 M |
| `FrameStream_two` | bytes in any fragmentation are a channel of messages, and what these say survives | two messages; byte radix 16; the default remap and a swap; extreme deltas | 0.2 M |
| `Pairing_two` | no unexpected frame, no standoff, sessions rest on two pins | two clients, two connections | 66 k |
| `ClipboardSync_copies` | torn payloads are never pasted; serial copies arrive and quiesce | texts of one and two chunks, three copies, channels of 1 and 2 | 0.6 M |
| `SessionLifecycle_faults` | no false alarm, detection within the deadline, reconnection | 500 ms ticks: heartbeat 1, deadline 4, delay 1, backoff 1 to 2; two connections, three faults | 94 k |
| `Hosts_parts` | the status names what exists, the menu follows it; no helper is left behind; a pin is never torn and an identity lasts; overlapping sessions give input and cursor back | two connections; two helpers; two processes, two identities; two sessions on one Mac | 0.3 M |
| `InputSession_NeverStranded`, `InputSession_MacKeysNotStuck`, `Pairing_NoStandoff`, `ClipboardSync_Quiesces` | the findings below | as small as the counterexample allows | |

**Why the bounds suffice to be interesting.** Every queue of capacity one or two is
both empty and full within a few steps, so each refusal happens next to each
other action; a single key exercises every path of the trackers, and two are needed where
the remap merges. In `FrameStream` two frames are enough for a buffer that
ends inside a frame after a whole one. The stacked display is the arrangement in which
an edge's row is negative. Two handlers let a stale one overlap with a live one; two
clients let one pairing overtake another. Three copies allow a copy, its echo, and one
that meets the echo; a third text or a longer one adds nothing but size.

In `Hosts_parts` two connections let a handler that is ending write over one that is
under way; two helpers let an orphan live beside a new one; two processes share the files, and
two identities let a paired one be replaced; of two overlapping sessions either may have the newer tap,
be the first to hide and the first to end. `MCHosts` lets exactly one of its four parts
move in a behaviour, chosen at the start (`part`): they share nothing, so that their sum shows what
their product would. Its constraint `OneWriter` cuts a behaviour where two processes
write at one time: `PinNeverTorn` and `IdentityLasts` claim nothing from there on.

`InputSession_live` and `_keys` use `VIEW WithoutMacDown`: `macDown` influences no
guard and no other variable, and the properties of these runs do not mention it.
`FrameStream_two` disables the deadlock check: a connection ends, and then nothing
happens in this module; so does `Hosts_parts`, where the bounded number of connections is used up, or a stop of `MacInput` is lost. Everywhere else deadlock is checked.

## Fairness

* `InputSession!FairSpec`: weak fairness of each task's loop (forwarder, brain, readers,
  injector, the second half of a watcher tick), of the disconnect drain's timeout and
  close, and of the *consequence* of a peer's death (`srv = "down" /\ ClientEnds`, by the
  end of the stream or the 2 s deadline). Strong fairness only for `DisconnectDrain`: tokio
  gives a freed slot to a waiting `send().await` ahead of any later `try_send`. The user, bulk
  traffic and spontaneous ends are not fair.
* `Pairing!FairSpec`: both programs step, and the operator answers the prompt, rightly or
  wrongly. Nobody has to connect.
* `ClipboardSync!FairSpec`: the tasks, the poller and the listener loop; users and
  failures are not fair.
* `SessionLifecycle!FairSpec`: time goes on, tasks run, the connect loop tries, and launchd starts a
  stopped server again. Faults are not fair, and finitely many.
* `StatusDisplay!DisplayFairness`: the operator clicks alerts and menus away, and a handler past its
  end runs on. Strong fairness for the menu bar's tick: a timer that came due while the run
  loop was in another mode fires as soon as it is back. Nobody has to connect, to type or to cross.
* `WindowsService!HostFairness`: the two threads of the service are scheduled, and a wait for a helper
  that has ended returns; nothing is assumed of one whose handle was closed under it.
* `MacInput!InputFairness`: weak fairness, per session, of its tap's thread and teardown
  (`TapThread` or `Teardown`, whose steps each happen once in a session): threads are scheduled, an abort reaches its task.
  Nobody has to connect, to move, to leave or to hand back.

## Proofs

Checked by `tlapm` for *every* value of the constants that satisfies the assumptions.

| Module | Theorem | Establishes |
| --- | --- | --- |
| `InputSessionProofs` | `TypeCorrect` | `Spec => []TypeOK` |
| | `GuardReleasesAll` | `Spec => []WindowsLeftClean` |
| | `EntryDrainFindsNothing` | `Spec => []EntryDrainIsEmpty` |
| | `ControlIsOneToken` | `Spec => []ControlToken` |
| | `SessionImplementsHandoff` | `Spec => ImplementsHandoff` |
| `KeyProofs` | `TrackersAgree` | `Spec => []KeysAgree` |
| | `NoKeyHeldByGhost` | `Spec => []NoGhostHold` |
| `EdgeCrossingProofs` | `TypeCorrect` | `Spec => []TypeOK`, which includes that the cursor stays on a display |
| | `CursorFollowsControl` | `Spec => []CursorFrozenWhileRemote` |
| | `CooldownRespected` | `Spec => CooldownHolds` |
| | `EntryIsSteady` | `Spec => EntryDoesNotBounce` |
| `SessionLifecycleProofs` | `LifecycleTyped` | `Spec => []TypeOK` |
| | `LivePeerNeverDeclaredDead` | `Spec => []NoFalseAlarm` |
| | `DeadSessionsEnd` | `Spec => []DeadWithinDeadline` |
| `HostProofs` | `DisplayTypesCorrect` | `DisplaySpec => []DisplayTypeOK` |
| | `StatusIsFaithful` | `DisplaySpec => []StatusFaithful` |
| | `HostTypesCorrect` | `HostSpec => []HostTypeOK` |
| | `HelperIsAccountedFor` | `HostSpec => []HelperAccounted` |
| | `IdentityTypesCorrect` | `IdentitySpec => []IdentityTypeOK` |
| | `PinIsNeverTorn` | `IdentitySpec => []PinNeverTorn` |
| | `PairedIdentityLasts` | `IdentitySpec => []IdentityLasts` |
| | `InputTypesCorrect` | `InputSpec => []InputTypeOK` |
| | `MacIsLeftClean` | `InputSpec => []MacLeftClean` |
| | `HostsTypesCorrect` | `Spec => []TypesOK` for `MCHosts`, which puts the four side by side |
| `PairingProofs` | `PairingTypesCorrect` | `Spec => []TypeOK` |
| | `FramesComeInPlace` | `Spec => []NoSurprise` |
| | `EndsNeverWaitForEachOther` | `Spec => []SameModeProgress` |
| | `SessionsStandOnTwoPins` | `Spec => []SessionIsMutual` |
| `ClipboardSyncProofs` | `ClipboardTypesCorrect` | `Spec => []TypeOK` |
| | `TornIsNeverPasted` | `Spec => []TornNeverPasted` |
| | `FreshCopiesArrive` | `Spec => []SerialFreshCopiesSync` |
| `FrameStreamProofs` | `DecodeUndoesEncode` | `decode_frame` gives back the message whose frame the buffer begins with |
| | `TypesCorrect` | `Spec => []TypeOK` |
| | `StreamImplementsChannel` | `Spec => ImplementsChannel` |
| | `FramesArriveWhole` | `Spec => []FramesIntact`, what the implementation says of a state |
| | `InputArrives` | `Spec => []InputIntact` |
| | `ChordsAgree` | `Spec => []ChordsMatchKeys` |
| | `NothingWaits` | `Spec => []NothingKeptBack` |

**Assumptions.** `InputSession!ConstantsAssumption`: modifiers are keys, the remap maps keys to
keys, capacities are positive. `EdgeCrossing!GeometryAssumption`: finitely many displays
with a positive size, one of which reaches furthest right; the entry inset is positive
and the parking column not left of it; the cooldown is positive. `SessionLifecycle!TimingAssumption`:
a heartbeat period and a delay of the network add up to less than the deadline, and so do two
delays; with the code's 500 ms and 2 s it is that a frame takes less than a second. `StatusDisplay` and `MacInput` take a number
of connections, or of sessions, `PeerIdentity` a positive number of identities, and `WindowsService` a value for no helper that is
not one; `Pairing!NoneAssumption` asks the same of the value for no client and no connection.
`ClipboardSync!ConstantsAssumption`: a text has a chunk at least, capacities are positive, and neither a mixture
nor the empty clipboard is a text. `FrameStream!StreamAssumption`: a byte has 16 values or more (a modifier mask
fits in one), and a chunk of text fits in a frame; `EventAssumption`: events are of the kinds `translate` makes, a HID usage
fits in a u16, and a remap's targets are those of the configuration; `SampleAssumption`: what is sent besides input fits its
fields and its frame. TLC evaluates them all.

**Arguments.**

* `WindowsLeftClean` is not inductive: what the guard releases is what it tracks, so the
  invariant needs `GuardTracksSink`, that Windows' pressed keys are always among the guard's.
* `EntryDrainIsEmpty` rests on `HeldOnlyAway`: keys are tracked, or owed by the brain's
  drain, only while Windows is driven or on the way back.
* `ControlToken` says nothing of a session in which a control frame was refused, or one
  end is gone. `TokenInv` adds that the channels hold no control frame when their
  reader is gone (`CleanWhenDown`) and that a second token is excluded at each place separately
  (`TokenPlaced`); the cases of the proof are the actions that append or remove a frame.
* `ImplementsHandoff` is the same fact seen step by step. `Seat` names the place of the token without
  the sets of indices `Owner` is defined by, each action is shown to move it along one edge of
  `ControlHandoff` or to leave it, and `NothingLostWhenDown` (no refusal outlives its session) lets a
  new session start at "mac".
* `KeysAgree` depends on the *last* frame about a key in a queue of any length. `EndsDown` and
  `Silent` say what that frame is, with lemmas about what `Append` and `Tail` do to them, which replace
  an induction over the queue. `Books` says which of the server's trackers are empty when: without it a
  key could be queued up by a drain and still be held by the brain.
* `NoGhostHold` looks back at what the server holds; `PendingIsPressed` looks ahead at what it is going to
  hold: a Down that no Up follows belongs to a key that is pressed, or excused. A Down that an
  Up follows (`DownTaken`) brings its own excuse.
* `TypeOK` of `EdgeCrossing` needs that `display_containing` finds a display: the
  first index that contains the cursor exists because the naturals are well founded.
* `CursorInv`: the cursor's state after the *remaining* list is what the state machine
  says: outward, the list ends in `Hide`; homeward, it is `Show` and a warp, or a warp with
  the cursor shown. This is the invariant that fails when hide and warp are swapped.
* `CooldownInv` relates the stamp to the history variable: either control never came
  back, or it came back late enough for the stamp not to be the initial zero, and its age does not exceed
  the time since.
* `NoFalseAlarm` of `SessionLifecycle` says nothing until the deadline is reached; `ServerHears` and
  `ClientHears` bound the silence at every moment by the age of the *oldest frame under way*, which a
  read clears with it, or, when none is, by how far off the peer's next heartbeat is. Between
  HelloAck's sending and its arrival the server hears nothing: there the age of the HelloAck is the bound,
  and two delays, not one, have to fit into the deadline.
* `DeadWithinDeadline` looks at a session without a peer the other way round: every frame still
  under way is at least as old as that state (`ServerCounts`, `ClientCounts`), so the last of them is
  read within a delay, and the silence begins by then.
* `DisplayInv` adds to the two properties of the status that a connection in `sole` has no live
  one beside it: whoever else could write is over, or has not begun.
* `HostInv`: the handle is closed once because it has one owner (`HandleHasOwner`): the slot, or
  the handler that has swapped it out. A child that Windows has not refused to terminate is alive only while
  its thread waits, with its handle open (`ChildIsAwaited`).
* `IdentityInv`: as long as one process writes (`OneWrites`), the one that stores a pin has the
  temporary file to itself and renames only what it has flushed (`PinIsFlushed`, which must speak of what is on the disk
  as well as of what is read); and the key, written last, is absent, empty or the
  certificate's, so that a process that finds both takes over one whole identity or ends (`FilesInStep`).
* `MacInv`: the sessions that have hidden the cursor and not shown it again, by their state and
  by what is left of their list (`Hiding`), are counted by macOS at every step (`HidesCounted`), and without any of them the cursor is
  coupled. A session whose flag is set, or about to be, has a loop that runs with a watcher that waits, or
  a loop that has been stopped (`EngagedIsStoppable`): only a running tap hears the motion that a crossing begins with.
* `PairingInv` says of two ends that began the same way where in their conversation they are. Each
  direction is a script of four frames, of which the reader's state says how many were heard and the
  writer's how many were said; what is between is what the stream holds (`Follows`), or, once an end has
  given up, some of that and the end of the stream (`Closed`). Two ends with pins begin at the last
  frame of the same scripts. `NoSurprise` reads the next line of a script, and a standoff would need two
  states of which each has heard all that the other said. `PinsHold` adds that whoever has sent a Hello, or
  answers one, has stored a pin, which no later step of another connection takes away.
* `ClipInv` says that the chunks from one side's clipboard task to the other's reassembler, with what
  that holds already, are in order (`Orderly`): each begins a payload or is the next chunk of the
  same. A payload cut short by a full channel was last in its stream, so what is left is in order; the
  next FIRST resets the reassembler, and what came before it does not matter (`SuffixIsOrderly`). The only
  step that takes a chunk from the middle is the reader's at a full `clip_in`, which `inLost` records.
* `SerialFreshCopiesSync` says nothing until all is quiet. `SyncInv` says that at every moment all that is
  being synchronised is one text (`Carries`), and that either both clipboards have it, or one has and it is on its way to
  the other, with nothing coming back (`Underway`). As long as nothing is lost every stream of chunks ends
  with a LAST (`Flows`), so what a reassembler holds is never the end of it. No guard knows a text that was
  never copied (`GuardsKnown`): a fresh one is not suppressed.
* `FrameStream` is an induction over data inside one over steps. The library's induction theorems take an operator, so
  that induction is done with sets: the naturals are well founded, hence a set with 0 and every successor holds them all
  (`SetInduction`), and a recursively defined function satisfies its equations (`Recursion`). From there the layers are those of the
  code: the bytes of a number give it back (`NumberOfBytes`), a reader at the place of a field reads
  it and stops behind it (`ReadUndoesWrite`), so it does for all fields of a payload (`ReadFieldsOfPayload`), and the three bytes of a
  header tell the length of what follows (`FrameLenIs`).
* `StreamInv`: there is a sequence of bytes, the frames of all that was sent (`Frames`), of which buffer and
  stream hold what lies behind the frame decoded last (`Holds`): all of it, unless the connection
  broke. `EndReached` adds that nothing is left to read once the reader has ended. So a buffer with a frame holds the next one
  (`NextFrame`), and when all was read and the buffer has no frame, none is left to decode (`NothingLeft`).
* `ImplementsChannel` follows from `StreamInv` for each step: a write is the channel's `Send`, `DecodeFrame` its `Deliver`
  because the buffer's frame is that of the next message, `ReadEof` its `End`; reads and the split change nothing that it sees.
* `CallsCounted` of the same invariant matches events, messages and calls: a count of the messages that carry
  input says how many events were forwarded with the first so many messages, and the calls are as many as those decoded carry.
* `EntryInv`: `win.x + travel >= Inset` while the client is active, or it has
  travelled the inset already.

## Where the code and its words disagree

Four disagreements have a run whose counterexample shows them:

1. `NeverStranded`: a full channel anywhere on the way of a control frame leaves control at
   neither machine until the session ends: the watcher disarms itself even if its send failed
   (`crates/client/src/platform/windows/cursor_watch.rs:104`), and `enqueue` and the reader
   drop too. `edge/mod.rs:249-252` explains why exactly this must not happen.
2. `MacKeysNotStuck`: a key held on the Mac during the crossing is down for macOS and its
   release is swallowed. The drain at the crossing drains the *peer's* keys
   (`EntryDrainFindsNothing` proves that it never finds any), where `kmwarp-SPEC.md:111` asks for
   the local side's.
3. `NoStandoff`: after a half-completed pairing one end has a pin and the other has not; each
   waits for the other's frame, without a timeout.
4. `Quiesces`: two texts copied close together can be exchanged for ever, since each side
   remembers one hash, and Windows remembers it only after its write.

Others are stated as properties that no run lists; naming one in the module's `.cfg` shows
the counterexample:

| Property | The code | What it contradicts |
| --- | --- | --- |
| `InputSession!CursorBackAfterSession` | `server/src/app.rs:597-609`: a session that ends while remote does not show the cursor | `kmwarp-SPEC.md:106-108` |
| `Pairing!HalfPairingLeavesDiskClean` | `server/src/net/pairing.rs:166-176`: stores before the client has | `server/src/net/pairing.rs:27-28` |
| `Pairing!PairedClientCanReturn` | `server/src/net/pairing.rs:168`: a second pairing under way overwrites the pin | `kmwarp-SPEC.md:151` |
| `ClipboardSync!SerialCopiesSync` | `core/src/clipboard.rs:219`: the guard suppresses every match, so a text copied again is not sent | `core/src/clipboard.rs:17-19` |
| `ClipboardSync!PastesAreWhole` | `server/src/app.rs:927`: the reader drops a middle chunk | `server/src/app.rs:1498-1501` |
| `SessionLifecycle!ComesBackAnyway` | `client/src/app.rs:323`: no deadline runs during the handshake | `kmwarp-SPEC.md:38` |
| `SessionLifecycle!StatusTruthful` | `server/src/app.rs:331`: a stale handler publishes Listening over a live session | `server/src/app.rs:109-112` |
| `EdgeCrossing!ReturnsHome` | coming back, the row of Windows is used on the old display's column, and may be on another display | `server/src/app.rs`, `edge_brain_task`, "so it reappears where the user left from" |
| `StatusDisplay!CodeStaysVisible` | `server/src/app.rs:331`: a handler that ends writes Listening over the code of a newer pairing | `server/src/app.rs`, `ServerStatus::Pairing`: "Replaced by `Connected` on success or `Listening` on failure" |
| `StatusDisplay!EachCodeIsAnnounced` | `server/src/service/menubar.rs:313`: a second code that follows between two ticks finds the alert flag set | `kmwarp-SPEC.md:157` |
| `StatusDisplay!DialogIsAwaited` | `client/src/platform/windows/pairing_dialog.rs`: an open dialog is waited for although its connection is gone | none: a dialog without a purpose |
| `MacInput!RemoteCursorStaysPut` | `server/src/platform/macos/inject.rs:61`: another session's warp or return couples the cursor that this one has frozen | `inject.rs`, `hide_cursor`: "RemoteActive means the cursor stays put" |
| `MacInput!DropReturns` | `server/src/platform/macos/tap.rs:306`: a loop that does not run yet is not stopped, and Drop waits for it for ever | `server/src/platform/macos/tap.rs:330-334`: "Both terminate within milliseconds" |
| `WindowsService!EveryStopIsHonoured` | `client/src/service/windows_service.rs:365`: a Stop before the handle is stored finds no helper, and the service goes on | `client/src/service/windows_service.rs:367-369` |
| `PeerIdentity!NextStartWorks` | `core/src/tls/cert.rs:74`: killed between the key's creation and its content, the client cannot load what it left | `client/src/main.rs`, `run_with_tray`: "the only persistent state (peer.pin) is written atomically" |
| `PeerIdentity!SurvivesReboot` | `core/src/tls/cert.rs:74`: the certificate is never flushed, nor the directory, before the peer pins it | `kmwarp-SPEC.md:164` |

In prose only: after a failed handshake the client retries without the backoff of
`kmwarp-SPEC.md:179` (`client/src/app.rs:187`); the return warp is one pixel inside the edge
(`core/src/edge/mod.rs`) where `server/src/app.rs:48-49` says five; the comment at
`client/src/net/pump.rs:345-348` says the server's cooldown drops a ReleaseControl, which
`core/src/edge/mod.rs:245-254` makes sure it does not.

## Only model-checked, and not modelled

Liveness (`ReleasedKeysComeUp`, `LeavingHandsBack`, `AttemptEnds`, `SerialCopiesQuiesce`, `ComesBack`,
`MenuFollowsStatus`, `StopTakesEffect`, `InputComesBack`) is out of the prover's reach and stays with TLC, as do the
counterexamples. Every safety property that a passing run checks is proved, for all values of the constants.

Not modelled: HID tables (constant tables with round-trip tests), permissions
and start-up checks, what an mDNS browse resolves, the looks of menu bar, tray and dialog, the
configuration file (read once; what it results in is a parameter), the M-series
demos, and DPI scaling beyond clamping.

## Plan

Done, in this order, which is that of importance: `InputSession` with `ControlHandoff` and their
proofs, `Pairing`, `ClipboardSync`, `SessionLifecycle`, `EdgeCrossing` and its proofs, `FrameStream`, then
`StatusDisplay`, `WindowsService`, `PeerIdentity` and `MacInput`, each with its proofs, the proofs about keys, the
refinement of `ControlHandoff` for all parameters, and the proofs about `SessionLifecycle`, `Pairing`,
`ClipboardSync` and `FrameStream`.

Next, the model:

1. a pairing in `Pairing` that goes through `PeerIdentity`'s store, with the crashes in it;
2. configuration with its defaults and repairs.

Next, the proofs: that a pairing keeps `PinsHold` when its pin is stored in steps, once the first of these is modelled.
