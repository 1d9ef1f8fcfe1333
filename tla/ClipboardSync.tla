---------------------------- MODULE ClipboardSync ----------------------------
(***************************************************************************)
(* Clipboard text synchronised both ways during a session: the change      *)
(* watcher of either side, the outbound task with its echo guard, chunking *)
(* over a bounded channel, reassembly, and the write of what arrived.      *)
(*                                                                         *)
(*  mac: poller -> events -> out task ==wire==> injector (win)             *)
(*  win: WM_CLIPBOARDUPDATE -> events -> out task ==wire==> reader,        *)
(*       clip_in -> clipboard_in_task (mac)                                *)
(*                                                                         *)
(* The two sides differ where the code does: the Mac's poller coalesces    *)
(* changes, the Windows listener sees each; the Mac remembers the text     *)
(* before it writes it, Windows after; only the Mac has a second bounded   *)
(* channel between the reader and the reassembler.  Other traffic makes no *)
(* appearance: what matters of it is that a channel can be full.           *)
(***************************************************************************)
EXTENDS Naturals, Sequences

CONSTANTS
  Texts,     \* what a user may copy
  Size,      \* Size[t]: number of chunks of t
  Garbled,   \* the content of a payload reassembled from the wrong chunks
  Nothing,   \* no text
  OutCap,    \* outbound channel of either side, with the stream behind it
  InCap,     \* CLIPBOARD_IN_CHANNEL_BOUND
  EventCap,  \* EVENT_CHANNEL_BOUND, and a model bound on the Windows channel
  MaxNews,   \* model bound on WM_CLIPBOARDUPDATE messages not yet dispatched
  MaxCopies  \* model bound on copies made by users

ASSUME ConstantsAssumption ==
  /\ Garbled \notin Texts /\ Nothing \notin Texts /\ Garbled # Nothing
  /\ Size \in [Texts -> Nat \ {0}]
  /\ OutCap \in Nat \ {0} /\ InCap \in Nat \ {0} /\ EventCap \in Nat \ {0}
  /\ MaxNews \in Nat \ {0} /\ MaxCopies \in Nat

Side == {"mac", "win"}
Peer(s) == IF s = "mac" THEN "win" ELSE "mac"

VARIABLES
  up,       \* a session is established
  clip,     \* clip[s]: the text on the system clipboard of s
  news,     \* news[s]: changes of it that its watcher has not looked at
  events,   \* events[s]: changes the out task of s has not taken
  sending,  \* sending[s]: chunks of the payload the out task is sending
  wire,     \* wire[s]: chunks sent by s, not yet read by its peer
  clipIn,   \* chunks read by the Mac's reader, not yet reassembled
  buf,      \* buf[s]: the Reassembler of s; in progress iff not empty
  pending,  \* pending[s]: the second half of an incoming write is to be done
  guard,    \* guard[s]: EchoGuard.last_remote_hash of s
  \* history
  copied,   \* number of copies made by users
  seen,     \* texts copied by users
  serial,   \* no user copied anything while a copy was being synchronised
  fresh,    \* no user copied a text that had been copied before
  lost,     \* a look, a chunk or a write failed, or a session ended
  inLost    \* clip_in refused a chunk

session == <<up, sending, wire, clipIn, buf, pending, guard>>
history == <<copied, seen, serial, fresh, lost, inLost>>
vars == <<session, clip, news, events, history>>

Text == Texts \cup {Garbled, Nothing}
Parts(t) == IF t \in Texts THEN Size[t] ELSE 1
Chunk == {c \in [text : Text \ {Nothing}, n : Nat \ {0}] : c.n <= Parts(c.text)}

TypeOK ==
  /\ up \in BOOLEAN /\ clip \in [Side -> Text] /\ news \in [Side -> 0..MaxNews]
  /\ events \in [Side -> Seq(Text)] /\ \A s \in Side : Len(events[s]) <= EventCap
  /\ sending \in [Side -> Seq(Chunk)] /\ wire \in [Side -> Seq(Chunk)]
  /\ clipIn \in Seq(Chunk) /\ Len(clipIn) <= InCap
  /\ \A s \in Side : Len(wire[s]) <= OutCap
  /\ buf \in [Side -> Seq(Chunk)]
  /\ pending \in [Side -> Seq(Text)] /\ \A s \in Side : Len(pending[s]) <= 1
  /\ guard \in [Side -> Text]
  /\ copied \in 0..MaxCopies /\ seen \subseteq Texts
  /\ serial \in BOOLEAN /\ fresh \in BOOLEAN /\ lost \in BOOLEAN /\ inLost \in BOOLEAN

Empty == [s \in Side |-> <<>>]

Init ==
  /\ up = TRUE /\ clip = [s \in Side |-> Nothing]
  /\ news = [s \in Side |-> 0] /\ events = Empty /\ sending = Empty /\ wire = Empty
  /\ clipIn = <<>> /\ buf = Empty /\ pending = Empty
  /\ guard = [s \in Side |-> Nothing]
  /\ copied = 0 /\ seen = {} /\ serial = TRUE /\ fresh = TRUE
  /\ lost = FALSE /\ inLost = FALSE

\* Nothing is being synchronised.
Quiet ==
  /\ news = [s \in Side |-> 0] /\ events = Empty /\ sending = Empty /\ wire = Empty
  /\ clipIn = <<>> /\ pending = Empty

-----------------------------------------------------------------------------
(* The clipboards and their watchers.                                       *)

\* t is put on the clipboard of s.  The Mac's poller, which lives as long as the
\* session, compares a change count and sees at most one change; Windows posts a
\* message per change.
Put(s, t) ==
  /\ s = "win" => news[s] < MaxNews
  /\ clip' = [clip EXCEPT ![s] = t]
  /\ news' = [news EXCEPT ![s] = IF s = "win" THEN @ + 1 ELSE IF up THEN 1 ELSE 0]

UserCopy(s, t) ==
  /\ copied < MaxCopies
  /\ Put(s, t)
  /\ copied' = copied + 1 /\ seen' = seen \cup {t}
  /\ serial' = (serial /\ Quiet) /\ fresh' = (fresh /\ t \notin seen)
  /\ UNCHANGED <<session, events, lost, inLost>>

\* The watcher of s looks: what is there now becomes an event, if it is text.
\* Without a session the event goes to a receiver that is gone.
Look(s) ==
  /\ news[s] > 0
  /\ Len(events[s]) < EventCap
  /\ news' = [news EXCEPT ![s] = @ - 1]
  /\ events' = IF up /\ clip[s] # Nothing
               THEN [events EXCEPT ![s] = Append(@, clip[s])] ELSE events
  /\ UNCHANGED <<session, clip, history>>

\* It finds no text: the Mac's poller looked between an application's
\* clearTexts and its setString, or OpenClipboard failed three times.
LookFails(s) ==
  /\ news[s] > 0
  /\ news' = [news EXCEPT ![s] = @ - 1]
  /\ lost' = TRUE
  /\ UNCHANGED <<session, clip, events, copied, seen, serial, fresh, inLost>>

-----------------------------------------------------------------------------
(* The out task: clipboard_out_task of either side.                         *)

\* Chunker::split: FIRST is on chunk 1, LAST on chunk Parts(t).
Split(t) == [i \in 1..Parts(t) |-> [text |-> t, n |-> i]]

\* EchoGuard::is_echo_of_remote: the last text written for the peer, and only it.
IsEcho(s, t) == guard[s] = t

\* Mutant: the guard suppresses whatever comes after a remote write.
OutTakesGuardedByAny(s) ==
  /\ up /\ events[s] # <<>> /\ sending[s] = <<>>
  /\ events' = [events EXCEPT ![s] = Tail(@)]
  /\ sending' = [sending EXCEPT ![s] =
                   IF guard[s] # Nothing THEN <<>> ELSE Split(Head(events[s]))]
  /\ UNCHANGED <<up, clip, news, wire, clipIn, buf, pending, guard, history>>

\* A change that matches the last text written for the peer is suppressed, any
\* other is split.
OutTakes(s) ==
  /\ up /\ events[s] # <<>> /\ sending[s] = <<>>
  /\ events' = [events EXCEPT ![s] = Tail(@)]
  /\ LET t == Head(events[s]) IN
     sending' = [sending EXCEPT ![s] = IF IsEcho(s, t) THEN <<>> ELSE Split(t)]
  /\ UNCHANGED <<up, clip, news, wire, clipIn, buf, pending, guard, history>>

\* Mutant: after a full channel the rest of the payload is sent all the same.
OutSendsTheRest(s) ==
  /\ sending[s] # <<>>
  /\ sending' = [sending EXCEPT ![s] = Tail(@)]
  /\ IF Len(wire[s]) < OutCap
     THEN /\ wire' = [wire EXCEPT ![s] = Append(@, Head(sending[s]))]
          /\ UNCHANGED lost
     ELSE /\ lost' = TRUE
          /\ UNCHANGED wire
  /\ UNCHANGED <<up, clip, news, events, clipIn, buf, pending, guard, copied,
                 seen, serial, fresh, inLost>>

\* try_send of the next chunk; a full channel ends the payload.
OutSends(s) ==
  /\ sending[s] # <<>>
  /\ \/ /\ Len(wire[s]) < OutCap
        /\ wire' = [wire EXCEPT ![s] = Append(@, Head(sending[s]))]
        /\ sending' = [sending EXCEPT ![s] = Tail(@)]
        /\ UNCHANGED lost
     \/ /\ Len(wire[s]) >= OutCap
        /\ sending' = [sending EXCEPT ![s] = <<>>] /\ lost' = TRUE
        /\ UNCHANGED wire
  /\ UNCHANGED <<up, clip, news, events, clipIn, buf, pending, guard, copied,
                 seen, serial, fresh, inLost>>

-----------------------------------------------------------------------------
(* Reassembly, and the write of a complete payload.                         *)

First(c) == c.n = 1
Last(c) == c.n = Parts(c.text)

\* What the bytes of b spell: a payload, or a mixture of several.
Assembled(b) == IF b = Split(b[1].text) THEN b[1].text ELSE Garbled

\* Reassembler::ingest with a FIRST chunk, or another when one is in progress.
Grown(b, c) == IF First(c) THEN <<c>> ELSE Append(b, c)

\* ingest(c) on side s returns t when it completes a payload.
Ingests(s, c) == /\ First(c) \/ buf[s] # <<>>
                 /\ buf' = [buf EXCEPT ![s] = IF Last(c) THEN <<>> ELSE Grown(@, c)]
Completes(s, c, t) == Last(c) /\ t = Assembled(Grown(buf[s], c))

\* ingest(c) leaves nothing to write: a middle chunk, a chunk without a FIRST, or
\* a mixture that is not UTF-8.
Discards(s, c) ==
  \/ Ingests(s, c) /\ ~Last(c)
  \/ ~First(c) /\ buf[s] = <<>> /\ UNCHANGED buf
  \/ Ingests(s, c) /\ Completes(s, c, Garbled)

\* Mutant: an unbounded channel to clipboard_in_task.
MacReadsUnbounded ==
  /\ up /\ wire["win"] # <<>>
  /\ wire' = [wire EXCEPT !["win"] = Tail(@)]
  /\ clipIn' = Append(clipIn, Head(wire["win"]))
  /\ UNCHANGED <<up, clip, news, events, sending, buf, pending, guard, history>>

\* The Mac's reader hands a chunk to clipboard_in_task by try_send, and drops it
\* when that channel is full.
MacReads ==
  /\ up /\ wire["win"] # <<>>
  /\ wire' = [wire EXCEPT !["win"] = Tail(@)]
  /\ \/ /\ Len(clipIn) < InCap
        /\ clipIn' = Append(clipIn, Head(wire["win"]))
        /\ UNCHANGED <<lost, inLost>>
     \/ /\ Len(clipIn) >= InCap
        /\ lost' = TRUE /\ inLost' = TRUE
        /\ UNCHANGED clipIn
  /\ UNCHANGED <<up, clip, news, events, sending, buf, pending, guard, copied,
                 seen, serial, fresh>>

\* Mutant: the Mac does not remember what it writes.
MacIngestsUnremembered ==
  /\ up /\ clipIn # <<>> /\ pending["mac"] = <<>>
  /\ clipIn' = Tail(clipIn)
  /\ \/ /\ Discards("mac", Head(clipIn))
        /\ UNCHANGED <<guard, pending>>
     \/ /\ Ingests("mac", Head(clipIn))
        /\ \E t \in Text :
             /\ Completes("mac", Head(clipIn), t)
             /\ pending' = [pending EXCEPT !["mac"] = <<t>>]
        /\ UNCHANGED guard
  /\ UNCHANGED <<up, clip, news, events, sending, wire, history>>

\* clipboard_in_task: a complete payload is remembered by the guard first ...
MacIngests ==
  /\ up /\ clipIn # <<>> /\ pending["mac"] = <<>>
  /\ clipIn' = Tail(clipIn)
  /\ \/ /\ Discards("mac", Head(clipIn))
        /\ UNCHANGED <<guard, pending>>
     \/ /\ Ingests("mac", Head(clipIn))
        /\ \E t \in Text :
             /\ Completes("mac", Head(clipIn), t)
             /\ guard' = [guard EXCEPT !["mac"] = t]
             /\ pending' = [pending EXCEPT !["mac"] = <<t>>]
  /\ UNCHANGED <<up, clip, news, events, sending, wire, history>>

\* ... and then put on the pasteboard.
MacWrites ==
  /\ pending["mac"] # <<>>
  /\ Put("mac", pending["mac"][1])
  /\ pending' = [pending EXCEPT !["mac"] = <<>>]
  /\ UNCHANGED <<up, events, sending, wire, clipIn, buf, guard, history>>

\* handle_clipboard_text: a complete payload is put on the clipboard first; when
\* that fails, maybe after EmptyClipboard, nothing is remembered ...
WinIngests ==
  /\ up /\ wire["mac"] # <<>> /\ pending["win"] = <<>>
  /\ wire' = [wire EXCEPT !["mac"] = Tail(@)]
  /\ LET c == Head(wire["mac"]) IN
     \/ /\ Discards("win", c)
        /\ UNCHANGED <<clip, news, pending, lost>>
     \/ /\ Ingests("win", c)
        /\ \E t \in Text :
             \/ /\ Completes("win", c, t) /\ Put("win", t)
                /\ pending' = [pending EXCEPT !["win"] = <<t>>]
                /\ UNCHANGED lost
             \/ /\ Completes("win", c, t) /\ lost' = TRUE
                /\ \/ Put("win", Nothing)
                   \/ UNCHANGED <<clip, news>>
                /\ UNCHANGED pending
  /\ UNCHANGED <<up, events, sending, clipIn, guard, copied, seen, serial,
                 fresh, inLost>>

\* ... and then remembered.
WinRemembers ==
  /\ pending["win"] # <<>>
  /\ guard' = [guard EXCEPT !["win"] = pending["win"][1]]
  /\ pending' = [pending EXCEPT !["win"] = <<>>]
  /\ UNCHANGED <<up, clip, news, events, sending, wire, clipIn, buf, history>>

-----------------------------------------------------------------------------
(* Sessions end and begin; the two halves of an incoming write are one poll *)
(* of a task, which an abort does not interrupt.                            *)

SessionEnds ==
  /\ up /\ sending = Empty /\ pending = Empty
  /\ up' = FALSE /\ lost' = TRUE
  /\ news' = [news EXCEPT !["mac"] = 0]
  /\ events' = Empty /\ wire' = Empty /\ clipIn' = <<>> /\ buf' = Empty
  /\ guard' = [s \in Side |-> Nothing]
  /\ UNCHANGED <<clip, sending, pending, copied, seen, serial, fresh, inLost>>

\* New tasks, channels and guards; the Mac's new poller starts from the present
\* change count, the Windows listener has been running all the time.
Connect ==
  /\ ~up /\ up' = TRUE
  /\ UNCHANGED <<clip, news, events, sending, wire, clipIn, buf, pending, guard, history>>

-----------------------------------------------------------------------------
SideStep(s) == Look(s) \/ OutTakes(s) \/ OutSends(s)
MacStep == MacReads \/ MacIngests \/ MacWrites
WinStep == WinIngests \/ WinRemembers

Next ==
  \/ \E s \in Side, t \in Texts : UserCopy(s, t)
  \/ \E s \in Side : SideStep(s) \/ LookFails(s)
  \/ MacStep \/ WinStep \/ SessionEnds \/ Connect

Spec == Init /\ [][Next]_vars
-----------------------------------------------------------------------------
(* What clipboard synchronisation promises.                                 *)

\* A payload cut short by a full outbound channel is never pasted: what follows
\* it starts with FIRST and resets the buffer, across payloads and sessions.  A
\* clipboard holds a mixture only where clip_in dropped a chunk in the middle.
TornNeverPasted == \A s \in Side : clip[s] = Garbled => inLost

\* Copies made one at a time arrive: when all is quiet again and nothing failed,
\* both clipboards hold the same text, whichever side copied last, whatever echo
\* went back and forth meanwhile - if no text was ever copied twice.
SerialFreshCopiesSync ==
  Quiet /\ up /\ serial /\ ~lost /\ fresh => clip["mac"] = clip["win"]

\* The same for texts copied again.  "The next observed local change whose hash
\* matches gets suppressed" (core clipboard.rs): the next one, not every one.
SerialCopiesSync ==
  Quiet /\ up /\ serial /\ ~lost => clip["mac"] = clip["win"]

\* "Small bound: chunks arrive at human-clipboard rate" (server app.rs, at
\* CLIPBOARD_IN_CHANNEL_BOUND): no payload is torn by it.
PastesAreWhole == \A s \in Side : clip[s] # Garbled

-----------------------------------------------------------------------------
(* Both programs keep running: every task, the poller and the listener are  *)
(* loops.  Users, failures and the ends of sessions are not fair.           *)

Fairness ==
  /\ \A s \in Side : WF_vars(Look(s)) /\ WF_vars(OutTakes(s)) /\ WF_vars(OutSends(s))
  /\ WF_vars(MacReads) /\ WF_vars(MacIngests) /\ WF_vars(MacWrites)
  /\ WF_vars(WinIngests) /\ WF_vars(WinRemembers)

FairSpec == Spec /\ Fairness

\* No ping-pong after copies made one at a time: the client may echo a text once,
\* but the Mac remembers before it writes, so the echo is not sent on.  Failures
\* and new sessions, whose guards remember nothing, do not change that.
SerialCopiesQuiesce == []serial => <>[]Quiet

\* "Both sides also need EchoGuard to avoid an infinite ping-pong" (core
\* clipboard.rs): once the users stop copying, the clipboards stop changing.
Quiesces == <>[]Quiet
=============================================================================
