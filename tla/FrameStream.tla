---------------------------- MODULE FrameStream ----------------------------
(***************************************************************************)
(* One direction of one connection, from the event the Mac's tap reports   *)
(* to the call the client's injector makes: the conversion to a Message,   *)
(* the modifier remap, the codec, a TCP stream that hands over its bytes   *)
(* in pieces of any size and may be cut at any byte, the read loop with    *)
(* its accumulation buffer, and the split of the connection after the      *)
(* handshake.  `dir` says which of the two directions a behaviour is.      *)
(*                                                                         *)
(* A byte is a digit of base Radix; the fields keep their widths in bytes. *)
(* A message is its kind and the values of its fields in wire order.       *)
(***************************************************************************)
EXTENDS Integers, Sequences, SequencesExt

CONSTANTS
  Radix,      \* 256 in the code: the values of a byte
  HmacLen,    \* 32 in the code: the bytes of a PairCertExchange's HMAC
  ChunkSize,  \* CHUNK_SIZE: the longest text of one ClipboardText frame
  Mice,       \* the mouse events the user may cause
  Presses,    \* the key events the user may cause
  Samples,    \* Samples[k]: the field values tried for messages of kind k
  Remaps,     \* the [modifiers] configurations tried
  MaxFrames   \* model bound on the session's frames after the handshake

VARIABLES
  dir,     \* "toClient" or "toServer"
  remap,   \* the server's ModRemap: what cmd and option become
  opening, \* the handshake frames the writer still has to write
  tapped,  \* history: the tap events that were forwarded
  sent,    \* history: the messages written
  wire,    \* bytes in the stream
  fin,     \* the end of the stream follows them
  cut,     \* bytes were lost with the connection
  conn,    \* the reader: "handshake" (Connection), "split" (FrameReader), "over"
  buf,     \* its read_buf
  got,     \* the messages it decoded
  calls,   \* history: the calls on the sink that input among them made
  why      \* why it ended: "none", "Disconnected", "Wire"

vars == <<dir, remap, opening, tapped, sent, wire, fin, cut, conn, buf, got, calls, why>>

Byte == 0 .. Radix - 1
MaxPayload == Radix * Radix - 1

\* The chunker keeps a text's frames far below the limit of the length field,
\* so check_payload_len never refuses what a session sends.
ASSUME StreamAssumption ==
  /\ Radix \in Nat /\ Radix >= 16 /\ HmacLen \in Nat /\ MaxFrames \in Nat
  /\ ChunkSize \in Nat /\ ChunkSize + 3 <= MaxPayload

-----------------------------------------------------------------------------
(* The codec *)

\* The fields of each kind, as the encoder writes and the decoder reads them.
Layout ==
  [Hello |-> <<"u16", "bytes">>, HelloAck |-> <<"flag", "u16", "u16">>,
   MouseMoveRel |-> <<"i16", "i16">>, MouseButton |-> <<"u8", "u8">>,
   MouseWheel |-> <<"i16", "i16">>, KeyEvent |-> <<"u16", "u8", "u8">>,
   ClipboardText |-> <<"u8", "bytes">>, TakeControl |-> <<"u16">>,
   ReleaseControl |-> <<"u16">>, Heartbeat |-> <<"u32">>, Bye |-> <<"u8">>,
   EchoPing |-> <<"u64">>, EchoPong |-> <<"u64">>, PairSpakeA |-> <<"bytes">>,
   PairSpakeB |-> <<"bytes">>, PairCertExchange |-> <<"bytes", "hmac">>,
   PairAccepted |-> <<>>, PairRejected |-> <<"u8">>]
Kind == DOMAIN Layout

\* The msg_type bytes, which need not be digits of base Radix here.
Code ==
  [Hello |-> 1, HelloAck |-> 2, MouseMoveRel |-> 16, MouseButton |-> 17,
   MouseWheel |-> 18, KeyEvent |-> 32, ClipboardText |-> 48, TakeControl |-> 64,
   ReleaseControl |-> 65, PairSpakeA |-> 80, PairSpakeB |-> 81,
   PairCertExchange |-> 82, PairAccepted |-> 83, PairRejected |-> 84,
   EchoPing |-> 112, EchoPong |-> 113, Heartbeat |-> 254, Bye |-> 255]

Width == [u8 |-> 1, flag |-> 1, u16 |-> 2, i16 |-> 2, u32 |-> 4, u64 |-> 8,
          bytes |-> 2, hmac |-> HmacLen]    \* of "bytes": its length prefix

\* What is left of n when its first bytes are written, the least first.
Left(width, n) ==
  LET left[i \in 0 .. width] == IF i = 0 THEN n ELSE left[i - 1] \div Radix
  IN  left
LE(width, n) == [i \in 1 .. width |-> Left(width, n)[i - 1] % Radix]
Number(bytes) ==
  LET last[i \in 0 .. Len(bytes)] ==
        IF i = 0 THEN 0 ELSE bytes[Len(bytes) + 1 - i] + Radix * last[i - 1]
  IN  last[Len(bytes)]
\* Mutant: a delta is read as an unsigned number.
SignedAsUnsigned(n) == n

Signed(n) == IF 2 * n < Radix * Radix THEN n ELSE n - Radix * Radix

EncodeField(form, v) ==
  CASE form = "bytes" -> LE(2, Len(v)) \o v
    [] form = "hmac"  -> v
    [] form = "i16"   -> LE(2, v % (Radix * Radix))
    [] OTHER          -> LE(Width[form], v)

Message(k, fields) == [kind |-> k, fields |-> fields]
PayloadTo(m) ==
  LET upTo[i \in 0 .. Len(m.fields)] ==
        IF i = 0 THEN <<>>
        ELSE upTo[i - 1] \o EncodeField(Layout[m.kind][i], m.fields[i])
  IN  upTo
Payload(m) == PayloadTo(m)[Len(m.fields)]

Encode(m) == <<Code[m.kind]>> \o LE(2, Len(Payload(m))) \o Payload(m)

Header == 3
FrameLen(b) == Header + Number(SubSeq(b, 2, 3))

\* Mutant: the decoder wants one byte more than the frame has.
HasFrameAndMore(b) == Len(b) >= Header /\ Len(b) > FrameLen(b)

HasFrame(b) == Len(b) >= Header /\ Len(b) >= FrameLen(b)

\* PayloadReader: the next field of the payload p after position r.pos; a
\* read past the end fails, and a failed reader stays failed.
ReadField(p, r, form) ==
  LET from == r.pos + 1
      prefix == SubSeq(p, from, r.pos + Width[form])
      end == r.pos + Width[form] + (IF form = "bytes" THEN Number(prefix) ELSE 0)
      fits == r.pos + Width[form] <= Len(p) /\ end <= Len(p)
      value == CASE form = "bytes" -> SubSeq(p, from + 2, end)
                 [] form = "hmac"  -> prefix
                 [] form = "i16"   -> Signed(Number(prefix))
                 [] OTHER          -> Number(prefix)
  IN  IF r.ok /\ fits /\ (form = "flag" => value \in {0, 1})
      THEN [ok |-> TRUE, pos |-> end, fields |-> Append(r.fields, value)]
      ELSE [r EXCEPT !.ok = FALSE]

ReadFields(p, layout) ==
  LET after[i \in 0 .. Len(layout)] ==
        IF i = 0 THEN [ok |-> TRUE, pos |-> 0, fields |-> <<>>]
        ELSE ReadField(p, after[i - 1], layout[i])
  IN  after[Len(layout)]

Bad == [kind |-> "WireError"]

\* decode_frame on a buffer that holds a frame.
Decode(b) ==
  LET known == {k \in Kind : Code[k] = b[1]}
      k == CHOOSE k \in known : TRUE
      r == ReadFields(SubSeq(b, Header + 1, FrameLen(b)), Layout[k])
  IN  IF known # {} /\ r.ok THEN Message(k, r.fields) ELSE Bad

\* What the fields of Message hold: a number fits the width of its field.
MaxI16 == (Radix * Radix) \div 2 - 1
I16 == -MaxI16 - 1 .. MaxI16
InWidth(form, v) ==
  CASE form = "bytes" -> v \in Seq(Byte)
    [] form = "hmac"  -> v \in Seq(Byte) /\ Len(v) = HmacLen
    [] form = "flag"  -> v \in {0, 1}
    [] form = "i16"   -> v \in I16
    [] OTHER          -> v \in Nat /\ Left(Width[form], v)[Width[form]] = 0
WellFormed(m) ==
  /\ m.kind \in Kind
  /\ m = Message(m.kind, [i \in DOMAIN Layout[m.kind] |-> m.fields[i]])
  /\ \A i \in DOMAIN Layout[m.kind] : InWidth(Layout[m.kind][i], m.fields[i])

-----------------------------------------------------------------------------
(* From the tap's event to a message, from a message to the sink's call.   *)
(* r is the ModRemap that an operator of it is called on.                 *)

Sides == {"left", "right"}
Mods == {"shift", "ctrl", "alt", "meta"}
Bit == [shift |-> 1, ctrl |-> 2, alt |-> 4, meta |-> 8]
InsertBit(m, S) == IF m \in S THEN Bit[m] ELSE 0
Mask(S) == InsertBit("shift", S) + InsertBit("ctrl", S) + InsertBit("alt", S) + InsertBit("meta", S)
InMask(b) == {m \in Mods : (b \div Bit[m]) % 2 = 1}     \* ModMask::from_wire

\* HID usages: those of the modifiers, left and right, and one other key.
Hid == [left  |-> [ctrl |-> 0, shift |-> 1, alt |-> 2, meta |-> 3],
        right |-> [ctrl |-> 4, shift |-> 5, alt |-> 6, meta |-> 7]]
PlainHid == 9
HidSide(h) == {s \in Sides : \E m \in Mods : Hid[s][m] = h}
HidMod(h) == {m \in Mods : \E s \in Sides : Hid[s][m] = h}

\* ModRemap: what cmd and option become; shift and ctrl stay themselves.
Becomes(r, m) ==
  LET to == CASE m = "meta" -> r.cmd [] m = "alt" -> r.option [] OTHER -> m
  IN  IF to = "identity" THEN m ELSE to
ApplyToHid(r, h) ==
  IF HidMod(h) = {} THEN h
  ELSE LET s == CHOOSE s \in HidSide(h) : TRUE
           m == CHOOSE m \in HidMod(h) : TRUE
       IN  Hid[s][Becomes(r, m)]

\* Mutant: only the HID of a remapped modifier changes.
ApplyToHidAlone(r, S) == S

ApplyToModmask(r, S) == {Becomes(r, m) : m \in S}

\* Mutant: a delta is cast to i16 without the clamp.
ClampWraps(v) == v

Clamp(v) == IF v > MaxI16 THEN MaxI16 ELSE IF v < -MaxI16 - 1 THEN -MaxI16 - 1 ELSE v

StateByte == [Up |-> 0, Down |-> 1]
ButtonByte == [Left |-> 0, Right |-> 1, Middle |-> 2, X1 |-> 3, X2 |-> 4]
Named(codes, b) == {x \in DOMAIN codes : codes[x] = b}

\* translate, source_event_to_message and remap_key_message in a row; a key
\* event carries the modifier keys that are held as the flags show them.
ToMessage(r, ev) ==
  CASE ev.type = "Rel"    -> Message("MouseMoveRel", <<Clamp(ev.dx), Clamp(ev.dy)>>)
    [] ev.type = "Wheel"  -> Message("MouseWheel", <<Clamp(ev.dx), Clamp(ev.dy)>>)
    [] ev.type = "Button" -> Message("MouseButton", <<ButtonByte[ev.button], StateByte[ev.state]>>)
    [] ev.type = "Key"    ->
         Message("KeyEvent", <<ApplyToHid(r, ev.hid), StateByte[ev.state],
                               Mask(ApplyToModmask(r, UNION {HidMod(h) : h \in ev.held}))>>)

\* apply_mouse_to_sink and apply_key_to_sink; unknown bytes are dropped.
ToCall(m) ==
  LET f == m.fields
  IN  CASE m.kind = "MouseMoveRel" -> {[type |-> "Rel", dx |-> f[1], dy |-> f[2]]}
        [] m.kind = "MouseWheel"   -> {[type |-> "Wheel", dx |-> f[1], dy |-> f[2]]}
        [] m.kind = "MouseButton"  ->
             {[type |-> "Button", button |-> b, state |-> s] :
                b \in Named(ButtonByte, f[1]), s \in Named(StateByte, f[2])}
        [] m.kind = "KeyEvent"     ->
             {[type |-> "Key", hid |-> f[1], state |-> s, mods |-> InMask(f[3])] :
                s \in Named(StateByte, f[2])}
        [] OTHER -> {}

-----------------------------------------------------------------------------
(* The conversation: what each side writes, and after how many frames read *)

\* Pairing, when there is no pin, then Hello / HelloAck.  A writer that waits
\* for an answer writes `kind` once the reader has decoded `after` frames.
Pair(d) ==
  IF d = "toClient"
  THEN <<[kind |-> "PairSpakeA", after |-> 0], [kind |-> "PairCertExchange", after |-> 1],
         [kind |-> "PairAccepted", after |-> 2], [kind |-> "HelloAck", after |-> 3]>>
  ELSE <<[kind |-> "PairSpakeB", after |-> 0], [kind |-> "PairCertExchange", after |-> 0],
         [kind |-> "PairAccepted", after |-> 1], [kind |-> "Hello", after |-> 2]>>
NoPair(d) == <<[kind |-> IF d = "toClient" THEN "HelloAck" ELSE "Hello", after |-> 0]>>

LastOpening == {"Hello", "HelloAck"}
SessionKind ==
  [toClient |-> {"ClipboardText", "TakeControl", "Heartbeat", "EchoPing", "EchoPong"},
   toServer |-> {"ClipboardText", "ReleaseControl", "Heartbeat", "EchoPong"}]

Init ==
  /\ dir \in {"toClient", "toServer"} /\ remap \in Remaps
  /\ opening \in {Pair(dir), NoPair(dir)}
  /\ tapped = <<>> /\ sent = <<>> /\ wire = <<>> /\ fin = FALSE /\ cut = FALSE
  /\ conn = "handshake" /\ buf = <<>> /\ got = <<>> /\ calls = <<>> /\ why = "none"

\* The events the user may cause are those the tap translates, and a sample
\* is one the encoder accepts.
ASSUME EventAssumption ==
  /\ Mice \subseteq [type : {"Rel", "Wheel"}, dx : Int, dy : Int]
                     \cup [type : {"Button"}, button : DOMAIN ButtonByte, state : DOMAIN StateByte]
  /\ Presses \subseteq [type : {"Key"}, hid : 0 .. MaxPayload, state : DOMAIN StateByte,
                         held : SUBSET (0 .. MaxPayload)]
  /\ Remaps \subseteq [cmd : Mods \cup {"identity"}, option : Mods \cup {"identity"}]
ASSUME SampleAssumption ==
  /\ \A d \in DOMAIN SessionKind :
       SessionKind[d] \cup {Pair(d)[i].kind : i \in 1 .. 4} \subseteq DOMAIN Samples
  /\ \A k \in DOMAIN Samples : \A f \in Samples[k] :
       WellFormed(Message(k, f)) /\ Len(Payload(Message(k, f))) <= MaxPayload

readVars == <<conn, buf, got, calls, why>>

SessionFrames(s) == SelectSeq(s, LAMBDA m : \A d \in DOMAIN SessionKind :
                      \A i \in DOMAIN Pair(d) : m.kind # Pair(d)[i].kind)

Write(m) ==
  /\ ~fin
  /\ sent' = Append(sent, m) /\ wire' = wire \o Encode(m)
  /\ UNCHANGED <<dir, remap, fin, cut, readVars>>

\* Connection::write_frame of a pairing or handshake frame.
WriteOpening ==
  /\ opening # <<>> /\ Len(got) >= Head(opening).after
  /\ \E f \in Samples[Head(opening).kind] : Write(Message(Head(opening).kind, f))
  /\ opening' = Tail(opening) /\ UNCHANGED tapped

\* The client begins its session when it has HelloAck, after the server read Hello.
InSession ==
  /\ opening = <<>> /\ Len(SessionFrames(sent)) < MaxFrames
  /\ dir = "toServer" => Len(got) >= Len(sent) - Len(SessionFrames(sent))

\* encoder_loop, for a frame that is not the user's input.
WriteOther ==
  /\ InSession
  /\ \E k \in SessionKind[dir] : \E f \in Samples[k] : Write(Message(k, f))
  /\ UNCHANGED <<opening, tapped>>

\* The same for an event of the tap, which the brain forwards.
WriteInput ==
  /\ InSession /\ dir = "toClient"
  /\ \E ev \in Mice \cup Presses : Write(ToMessage(remap, ev)) /\ tapped' = Append(tapped, ev)
  /\ UNCHANGED opening

\* The writer's session ends: all it wrote goes out.
Close ==
  /\ ~fin /\ fin' = TRUE
  /\ UNCHANGED <<dir, remap, opening, tapped, sent, wire, cut, readVars>>

\* The connection breaks: what of the stream was not read is lost.
Break ==
  /\ ~cut /\ cut' = TRUE /\ fin' = TRUE /\ wire' = <<>>
  /\ UNCHANGED <<dir, remap, opening, tapped, sent, readVars>>

-----------------------------------------------------------------------------
(* The reader *)

\* The handshake reads with Connection, and only up to its last frame.
Reading ==
  /\ conn # "over"
  /\ conn = "handshake" => \A i \in DOMAIN got : got[i].kind \notin LastOpening

Apply(m) ==
  IF ToCall(m) = {} THEN UNCHANGED calls
  ELSE \E call \in ToCall(m) : calls' = Append(calls, call)

\* read_frame: a frame is taken from the buffer if there is one, and the
\* reader's loop applies it ...
DecodeFrame ==
  /\ Reading /\ HasFrame(buf)
  /\ LET m == Decode(buf) IN
       IF m = Bad
       THEN conn' = "over" /\ why' = "Wire" /\ UNCHANGED <<buf, got, calls>>
       ELSE /\ buf' = SubSeq(buf, FrameLen(buf) + 1, Len(buf))
            /\ got' = Append(got, m) /\ Apply(m) /\ UNCHANGED <<conn, why>>
  /\ UNCHANGED <<dir, remap, opening, tapped, sent, wire, fin, cut>>

\* ... or the socket is read, for one byte or more ...
ReadBytes ==
  /\ Reading /\ ~HasFrame(buf)
  /\ \E n \in 1 .. Len(wire) :
       /\ buf' = buf \o SubSeq(wire, 1, n)
       /\ wire' = SubSeq(wire, n + 1, Len(wire))
  /\ UNCHANGED <<dir, remap, opening, tapped, sent, fin, cut, conn, got, calls, why>>

\* ... or it is at its end.
ReadEof ==
  /\ Reading /\ ~HasFrame(buf) /\ wire = <<>> /\ fin
  /\ conn' = "over" /\ why' = "Disconnected"
  /\ UNCHANGED <<dir, remap, opening, tapped, sent, wire, fin, cut, buf, got, calls>>

\* Mutant: into_split gives the reader a new buffer.
SplitFresh ==
  /\ conn = "handshake" /\ ~Reading
  /\ conn' = "split" /\ buf' = <<>>
  /\ UNCHANGED <<dir, remap, opening, tapped, sent, wire, fin, cut, got, calls, why>>

\* into_split, after the handshake's last frame: the buffer goes along.
Split ==
  /\ conn = "handshake" /\ ~Reading
  /\ conn' = "split" /\ buf' = buf
  /\ UNCHANGED <<dir, remap, opening, tapped, sent, wire, fin, cut, got, calls, why>>

Next == WriteOpening \/ WriteOther \/ WriteInput \/ Close \/ Break
        \/ DecodeFrame \/ ReadBytes \/ ReadEof \/ Split

Spec == Init /\ [][Next]_vars

-----------------------------------------------------------------------------
(* Properties *)

\* The calls of InputSink that the reader makes.
Call ==
  [type : {"Rel", "Wheel"}, dx : I16, dy : I16]
  \cup [type : {"Button"}, button : DOMAIN ButtonByte, state : DOMAIN StateByte]
  \cup [type : {"Key"}, hid : 0 .. MaxPayload, state : DOMAIN StateByte, mods : SUBSET Mods]

\* Every variable keeps its type; a decoded field fits the type it is read into.
TypeOK ==
  /\ dir \in DOMAIN SessionKind /\ remap \in Remaps
  /\ opening \in {SubSeq(Pair(dir), i, 4) : i \in 1 .. 5} \cup {NoPair(dir)}
  /\ tapped \in Seq(Mice \cup Presses)
  /\ \A i \in DOMAIN sent : WellFormed(sent[i])
  /\ \A i \in DOMAIN got : WellFormed(got[i])
  /\ calls \in Seq(Call)
  /\ wire \in Seq(Byte \cup Range(Code)) /\ buf \in Seq(Byte \cup Range(Code))
  /\ fin \in BOOLEAN /\ cut \in BOOLEAN
  /\ conn \in {"handshake", "split", "over"} /\ why \in {"none", "Disconnected", "Wire"}

\* However the stream is cut into reads, wherever it breaks and whichever
\* side of into_split a frame's bytes arrive on, the reader has decoded the
\* first frames that were written, whole, once and in order (connection.rs,
\* "frames straddling the handshake boundary are not lost").  And the
\* ends never get out of step: the lengths the encoder writes are those the
\* decoder goes by, so no read ends in a protocol violation.
FramesIntact == IsPrefix(got, sent) /\ why # "Wire"

Channel == INSTANCE MessageChannel WITH closed <- fin, broken <- cut, ended <- why

\* With all its bytes the stream is a channel of messages, step by step: the
\* step that decodes a frame hands over the next message that was written,
\* no other step hands over any, and the reader is told of the end only when
\* it has them all, unless the connection broke.  FramesIntact follows.
ImplementsChannel == Channel!Spec

\* A delta keeps its direction, never grows, and is exact if it fits an i16.
KeepsDelta(raw, v) ==
  /\ (v > 0 => raw > 0) /\ (v < 0 => raw < 0)
  /\ (IF v < 0 THEN -v ELSE v) <= (IF raw < 0 THEN -raw ELSE raw)
  /\ raw \in I16 => v = raw

AsTapped(r, ev, call) ==
  /\ call.type = ev.type
  /\ ev.type \in {"Rel", "Wheel"} => KeepsDelta(ev.dx, call.dx) /\ KeepsDelta(ev.dy, call.dy)
  /\ ev.type = "Button" => call = ev
  /\ ev.type = "Key" =>
       /\ call.state = ev.state /\ HidSide(call.hid) = HidSide(ev.hid)
       /\ HidMod(call.hid) = {Becomes(r, m) : m \in HidMod(ev.hid)}
       /\ HidMod(ev.hid) = {} => call.hid = ev.hid

\* What the injector does is what the user did: the n-th call on the sink is
\* the n-th forwarded event, its deltas clamped and its modifier remapped.
InputIntact ==
  /\ Len(calls) <= Len(tapped)
  /\ \A i \in DOMAIN calls : AsTapped(remap, tapped[i], calls[i])

\* The two layers of the remap agree: the modifiers a key's mask shows are
\* those whose remapped HIDs the client was told to hold (app.rs, "why both
\* layers").
ChordsMatchKeys ==
  \A i \in DOMAIN calls :
    calls[i].type = "Key" =>
      calls[i].mods = UNION {HidMod(ApplyToHid(remap, h)) : h \in tapped[i].held}

\* No frame waits for the bytes of a later one: when the reader has read all
\* there is and asks for more, or is told that there is no more, it has
\* decoded every frame that was written, unless the connection broke.
NothingKeptBack ==
  (wire = <<>> /\ ~cut /\ (conn = "over" \/ (Reading /\ ~HasFrame(buf)))) => got = sent
=============================================================================
