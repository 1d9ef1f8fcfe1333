---------------------------- MODULE PairingProofs ----------------------------
(***************************************************************************)
(* That the two pairing flows fit: ends that entered a connection the same *)
(* way never see a frame out of place nor wait for each other, and a       *)
(* session stands on two pins.  For any number of clients and connections, *)
(* and whatever is dropped, restarted, cancelled or mistyped.              *)
(***************************************************************************)
EXTENDS Pairing, SequenceTheorems, TLAPS

-----------------------------------------------------------------------------
(* Both flows as scripts: what either end says, one frame after the other.  *)
(* A pinned end enters its script at the last frame.                        *)

CliScript == <<"SpakeB", "Cert", "Accepted", "Hello">>
SrvScript == <<"SpakeA", "Cert", "Accepted", "HelloAck">>

\* How many frames of the script of the other end an end has heard, and how many
\* of its own it has said, when it waits in state st.
SrvHeard(st) ==
  CASE st = "awaitCert"  -> 1
    [] st = "awaitAck"   -> 2
    [] st = "awaitHello" -> 3
    [] st = "session"    -> 4
    [] OTHER             -> 0

SrvSaid(st) ==
  CASE st = "awaitB"                     -> 1
    [] st = "awaitCert"                  -> 2
    [] st \in {"awaitAck", "awaitHello"} -> 3
    [] st = "session"                    -> 4
    [] OTHER                             -> 0

CliHeard(st) ==
  CASE st = "awaitCert"     -> 1
    [] st = "awaitAck"      -> 2
    [] st = "awaitHelloAck" -> 3
    [] st = "session"       -> 4
    [] OTHER                -> 0

CliSaid(st) ==
  CASE st = "awaitCert"                    -> 2
    [] st = "awaitAck"                     -> 3
    [] st \in {"awaitHelloAck", "session"} -> 4
    [] OTHER                               -> 0

\* The stream q holds what the script says after frame r, up to frame s.
Follows(q, script, r, s) ==
  /\ r <= s /\ Len(q) = s - r
  /\ \A i \in 1 .. Len(q) : q[i] = script[r + i]

\* It holds some of that, maybe a rejection, and the end of the stream.
Closed(q, script, r) ==
  /\ Ended(q)
  /\ \A i \in 1 .. Len(q) - 1 :
       q[i] = "Rejected" \/ (r + i <= 4 /\ q[i] = script[r + i])

HeardByServer(n) ==
  \/ \E c \in Clients :
       cur[c] = n /\ Follows(toSrv[n], CliScript, SrvHeard(srv[n]), CliSaid(cli[c]))
  \/ Closed(toSrv[n], CliScript, SrvHeard(srv[n]))

HeardByClient(n, c) ==
  \/ /\ srv[n] # "none"
     /\ Follows(toCli[n], SrvScript, CliHeard(cli[c]), SrvSaid(srv[n]))
  \/ Closed(toCli[n], SrvScript, CliHeard(cli[c]))

\* A connection has one client.
OneEach ==
  /\ \A c, d \in Clients : cur[c] = cur[d] /\ cur[c] # None => c = d
  /\ \A c \in Clients : cur[c] # None => cli[c] # "idle"

Scripted ==
  \A n \in Conns : mode[n] # "mixed" =>
    /\ srv[n] # "none" => HeardByServer(n)
    /\ \A c \in Clients : cur[c] = n => HeardByClient(n, c)

\* A Hello is sent, and answered, on two pins.
Greets(q) == \E i \in DOMAIN q : q[i] = "Hello"

PinsHold ==
  /\ \A c \in Clients : cli[c] \in {"awaitAck", "awaitHelloAck", "session"} => cliPin[c]
  /\ \A c \in Clients : cur[c] # None /\ Greets(toSrv[cur[c]]) => cliPin[c]
  /\ \A n \in Conns : srv[n] # "none" => who[n] # None
  /\ \A n \in Conns : srv[n] \in {"awaitAck", "awaitHello", "session"} => srvPin # None
  /\ SessionIsMutual

PairingInv == TypeOK /\ OneEach /\ Scripted /\ PinsHold

-----------------------------------------------------------------------------
(* What the operations on a stream do to it.                                *)

Script(s) == s \in {CliScript, SrvScript}

LEMMA ScriptIs ==
  ASSUME NEW script, Script(script)
  PROVE  /\ script \in Seq(Frame) /\ Len(script) = 4
         /\ \A i \in 1 .. 4 : script[i] \notin {"eof", "Rejected"}
<1>1. CliScript \in Seq(Frame) /\ SrvScript \in Seq(Frame)
  BY DEF CliScript, SrvScript, Frame
<1>2. Len(CliScript) = 4 /\ Len(SrvScript) = 4
  BY DEF CliScript, SrvScript
<1>3. \A i \in 1 .. 4 : CliScript[i] \notin {"eof", "Rejected"}
  BY DEF CliScript
<1>4. \A i \in 1 .. 4 : SrvScript[i] \notin {"eof", "Rejected"}
  BY DEF SrvScript
<1> QED
  BY <1>1, <1>2, <1>3, <1>4 DEF Script

LEMMA NotEmpty ==
  ASSUME NEW q, Len(q) # 0
  PROVE  q # <<>>
<1>1. Len(<<>>) = 0
  BY EmptySeq
<1> QED
  BY <1>1, Zenon

LEMMA TailFollows ==
  ASSUME NEW q \in Seq(Frame), NEW script, Script(script), NEW r \in 0 .. 4, NEW s \in 0 .. 4,
         Follows(q, script, r, s), q # <<>>
  PROVE  /\ r < s /\ Head(q) = script[r + 1] /\ ~Ended(q)
         /\ Follows(Tail(q), script, r + 1, s)
<1>1. Len(q) \in Nat \ {0} /\ Head(q) = q[1]
  BY EmptySeq
<1>2. Len(Tail(q)) = Len(q) - 1 /\ \A i \in 1 .. Len(Tail(q)) : Tail(q)[i] = q[i + 1]
  BY HeadTailProperties
<1>3. ~Ended(q)
  BY <1>1, ScriptIs DEF Ended, Follows
<1> QED
  BY <1>1, <1>2, <1>3 DEF Follows

LEMMA TailCloses ==
  ASSUME NEW q \in Seq(Frame), NEW script, NEW r \in 0 .. 4, Closed(q, script, r)
  PROVE  /\ q # <<>>
         /\ Head(q) \in {"eof", "Rejected"} \/ (r + 1 <= 4 /\ Head(q) = script[r + 1])
         /\ Head(q) # "eof" => Closed(Tail(q), script, r + 1)
<1>1. Len(q) \in Nat \ {0} /\ Head(q) = q[1] /\ q[Len(q)] = "eof"
  BY EmptySeq DEF Closed, Ended
<1>2. /\ Tail(q) \in Seq(Frame) /\ Len(Tail(q)) = Len(q) - 1
      /\ \A i \in 1 .. Len(Tail(q)) : Tail(q)[i] = q[i + 1]
  BY <1>1, HeadTailProperties
<1>3. Head(q) \in {"eof", "Rejected"} \/ (r + 1 <= 4 /\ Head(q) = script[r + 1])
  BY <1>1 DEF Closed
<1>4. ASSUME Head(q) # "eof" PROVE Closed(Tail(q), script, r + 1)
  <2>1. Len(q) > 1 /\ Tail(q) # <<>>
    <3>1. Len(q) # 1
      BY <1>1, <1>4
    <3>2. Len(q) > 1 /\ Len(Tail(q)) # 0
      BY <1>1, <1>2, <3>1
    <3> QED
      BY <3>2, NotEmpty
  <2>2. Ended(Tail(q))
    BY <1>1, <1>2, <2>1 DEF Ended
  <2>3. ASSUME NEW i \in 1 .. Len(Tail(q)) - 1
        PROVE  Tail(q)[i] = "Rejected" \/ (r + 1 + i <= 4 /\ Tail(q)[i] = script[r + 1 + i])
    <3>1. i + 1 \in 1 .. Len(q) - 1 /\ Tail(q)[i] = q[i + 1]
      BY <1>1, <1>2
    <3> QED
      BY <3>1 DEF Closed
  <2> QED
    BY <2>2, <2>3 DEF Closed
<1> QED
  BY <1>1, <1>3, <1>4

LEMMA SendOnEnded ==
  ASSUME NEW q, NEW frames, Ended(q)
  PROVE  Send(q, frames) = q
BY DEF Send

LEMMA SendIsTyped ==
  ASSUME NEW q \in Seq(Frame), NEW frames \in Seq(Frame)
  PROVE  Send(q, frames) \in Seq(Frame)
BY ConcatProperties DEF Send

\* An open stream is not ended.
LEMMA FollowsIsOpen ==
  ASSUME NEW q \in Seq(Frame), NEW script, Script(script), NEW r \in 0 .. 4, NEW s \in 0 .. 4,
         Follows(q, script, r, s)
  PROVE  ~Ended(q)
<1>1. CASE q = <<>>
  BY <1>1 DEF Ended
<1>2. CASE q # <<>>
  BY <1>2, TailFollows
<1> QED
  BY <1>1, <1>2

LEMMA SendFollows ==
  ASSUME NEW q \in Seq(Frame), NEW script, Script(script), NEW r \in 0 .. 4, NEW s \in 0 .. 4,
         NEW frames \in Seq(Frame), s + Len(frames) <= 4,
         \A i \in 1 .. Len(frames) : frames[i] = script[s + i],
         Follows(q, script, r, s)
  PROVE  Follows(Send(q, frames), script, r, s + Len(frames))
<1>1. Send(q, frames) = q \o frames
  BY FollowsIsOpen DEF Send
<1>2. Len(q) \in Nat /\ Len(frames) \in Nat /\ Len(q) = s - r
  BY LenProperties DEF Follows
<1>3. /\ Len(q \o frames) = Len(q) + Len(frames)
      /\ \A i \in 1 .. Len(q) + Len(frames) :
           (q \o frames)[i] = IF i <= Len(q) THEN q[i] ELSE frames[i - Len(q)]
  BY ConcatProperties
<1>4. ASSUME NEW i \in 1 .. Len(q \o frames)
      PROVE  (q \o frames)[i] = script[r + i]
  <2>1. CASE i <= Len(q)
    BY <2>1, <1>2, <1>3 DEF Follows
  <2>2. CASE i > Len(q)
    <3>1. i - Len(q) \in 1 .. Len(frames) /\ s + (i - Len(q)) = r + i
      BY <2>2, <1>2, <1>3
    <3>2. (q \o frames)[i] = frames[i - Len(q)]
      BY <2>2, <1>2, <1>3
    <3> QED
      BY <3>1, <3>2
  <2> QED
    BY <2>1, <2>2, <1>2, <1>3
<1> QED
  BY <1>1, <1>2, <1>3, <1>4 DEF Follows

\* Whoever leaves closes its end, with or without a word.
Farewell == {<<"eof">>, <<"Rejected", "eof">>}

LEMMA FarewellIs ==
  ASSUME NEW frames \in Farewell
  PROVE  /\ frames \in Seq(Frame) /\ Len(frames) \in 1 .. 2
         /\ frames[Len(frames)] = "eof" /\ (Len(frames) = 2 => frames[1] = "Rejected")
<1>1. CASE frames = <<"eof">>
  BY <1>1 DEF Frame
<1>2. CASE frames = <<"Rejected", "eof">>
  BY <1>2 DEF Frame
<1> QED
  BY <1>1, <1>2 DEF Farewell

LEMMA SendCloses ==
  ASSUME NEW q \in Seq(Frame), NEW script, Script(script), NEW r \in 0 .. 4, NEW s \in 0 .. 4,
         NEW frames \in Farewell, Follows(q, script, r, s)
  PROVE  Closed(Send(q, frames), script, r)
<1> DEFINE w == Send(q, frames)
           m == Len(q)
           k == Len(frames)
<1>1. w = q \o frames
  BY FollowsIsOpen DEF Send
<1>2. frames \in Seq(Frame) /\ k \in 1 .. 2
  BY FarewellIs
<1>3. frames[k] = "eof" /\ (k = 2 => frames[1] = "Rejected")
  BY FarewellIs
<1>4. m \in Nat /\ m = s - r
  BY LenProperties DEF Follows
<1>5. /\ Len(w) = m + k
      /\ \A i \in 1 .. m + k : w[i] = IF i <= m THEN q[i] ELSE frames[i - m]
  BY <1>1, <1>2, ConcatProperties
<1>6. \A i \in 1 .. m : r + i <= 4 /\ q[i] = script[r + i]
  BY <1>4 DEF Follows
<1>7. w # <<>>
  <2> HIDE DEF w, m, k
  <2>1. Len(w) # 0
    BY <1>2, <1>4, <1>5
  <2> QED
    BY <2>1, NotEmpty
<1> HIDE DEF w, m, k
<1>8. w[Len(w)] = "eof"
  BY <1>2, <1>3, <1>4, <1>5
<1>9. ASSUME NEW i \in 1 .. Len(w) - 1
      PROVE  w[i] = "Rejected" \/ (r + i <= 4 /\ w[i] = script[r + i])
  <2>1. CASE i <= m
    BY <2>1, <1>2, <1>4, <1>5, <1>6
  <2>2. CASE i > m
    <3>1. k = 2 /\ i - m = 1 /\ i \in 1 .. m + k
      BY <2>2, <1>2, <1>4, <1>5
    <3>2. w[i] = frames[i - m]
      BY <2>2, <3>1, <1>4, <1>5
    <3> QED
      BY <3>1, <3>2, <1>3
  <2> QED
    BY <2>1, <2>2, <1>2, <1>4, <1>5
<1>10. Closed(w, script, r)
  BY <1>7, <1>8, <1>9 DEF Closed, Ended
<1> QED
  BY <1>10 DEF w

\* What a broken connection leaves of a stream.
LEMMA PrefixOf ==
  ASSUME NEW q \in Seq(Frame), NEW p \in Prefixes(q)
  PROVE  /\ p \in Seq(Frame) /\ Len(p) <= Len(q) /\ Len(p) \in Nat
         /\ \A i \in 1 .. Len(p) : p[i] = q[i]
<1>1. PICK k \in 0 .. Len(q) : p = SubSeq(q, 1, k)
  BY DEF Prefixes
<1>2. Len(q) \in Nat /\ \A i \in 1 .. k : q[i] \in Frame
  BY LenProperties
<1>3. k \in Int /\ 1 \in Int /\ k >= 0 /\ k <= Len(q)
  BY <1>2
<1>4. /\ SubSeq(q, 1, k) \in Seq(Frame)
      /\ Len(SubSeq(q, 1, k)) = IF 1 <= k THEN k - 1 + 1 ELSE 0
      /\ \A i \in 1 .. k - 1 + 1 : SubSeq(q, 1, k)[i] = q[1 + i - 1]
  BY <1>2, <1>3, SubSeqProperties
<1> QED
  BY <1>1, <1>3, <1>4

LEMMA AppendAt ==
  ASSUME NEW S, NEW p \in Seq(S), NEW f \in S
  PROVE  /\ Len(p) \in Nat /\ Len(Append(p, f)) = Len(p) + 1
         /\ \A i \in 1 .. Len(p) : Append(p, f)[i] = p[i]
         /\ Append(p, f)[Len(p) + 1] = f
OBVIOUS

LEMMA BreakCloses ==
  ASSUME NEW q \in Seq(Frame), NEW script, Script(script), NEW r \in 0 .. 4, NEW s \in 0 .. 4,
         Follows(q, script, r, s), NEW p \in Prefixes(q)
  PROVE  Closed(Append(p, "eof"), script, r)
<1>1. /\ p \in Seq(Frame) /\ Len(p) <= Len(q) /\ Len(p) \in Nat /\ Len(q) \in Nat
      /\ \A i \in 1 .. Len(p) : p[i] = q[i]
  BY PrefixOf, LenProperties
<1>2. /\ Len(Append(p, "eof")) = Len(p) + 1 /\ Append(p, "eof")[Len(p) + 1] = "eof"
      /\ \A i \in 1 .. Len(p) : Append(p, "eof")[i] = p[i]
  <2>1. "eof" \in Frame
    BY DEF Frame
  <2> QED
    BY <2>1, <1>1, AppendAt
<1>3. Ended(Append(p, "eof"))
  <2>1. Len(Append(p, "eof")) # 0
    BY <1>1, <1>2
  <2>2. Append(p, "eof") # <<>>
    BY <2>1, NotEmpty
  <2> QED
    BY <2>2, <1>2 DEF Ended
<1>4. ASSUME NEW i \in 1 .. Len(Append(p, "eof")) - 1
      PROVE  r + i <= 4 /\ Append(p, "eof")[i] = script[r + i]
  <2>1. i \in 1 .. Len(p) /\ i \in 1 .. Len(q)
    BY <1>1, <1>2
  <2> QED
    BY <2>1, <1>1, <1>2 DEF Follows
<1> QED
  BY <1>3, <1>4 DEF Closed

-----------------------------------------------------------------------------
(* Types.                                                                   *)

LEMMA Words ==
  /\ <<>> \in Seq(Frame)
  /\ \A f \in Frame : <<f>> \in Seq(Frame)
  /\ \A f, g \in Frame : <<f, g>> \in Seq(Frame)
  /\ {"SpakeA", "SpakeB", "Cert", "Accepted", "Rejected", "Hello", "HelloAck", "eof"} = Frame
BY DEF Frame

LEMMA SrvReadsTyped ==
  ASSUME TypeOK, NEW n \in Conns, NEW f, NEW out \in Seq(Frame), NEW st \in SrvState,
         SrvReads(n, f, out, st), srvPin' \in Clients \cup {None}, cliPin' \in [Clients -> BOOLEAN]
  PROVE  TypeOK'
<1>1. toSrv[n] \in Seq(Frame) /\ toSrv[n] # <<>> /\ toCli[n] \in Seq(Frame)
  BY DEF TypeOK, SrvReads
<1>2. Tail(toSrv[n]) \in Seq(Frame) /\ <<>> \in Seq(Frame)
  BY <1>1, HeadTailProperties
<1>3. out \o (IF st = "none" THEN <<"eof">> ELSE <<>>) \in Seq(Frame)
  <2>1. (IF st = "none" THEN <<"eof">> ELSE <<>>) \in Seq(Frame)
    BY Words
  <2> QED
    BY <2>1, ConcatProperties
<1>4. Send(toCli[n], out \o (IF st = "none" THEN <<"eof">> ELSE <<>>)) \in Seq(Frame)
  BY <1>1, <1>3, SendIsTyped
<1>5. toSrv' \in [Conns -> Seq(Frame)] /\ toCli' \in [Conns -> Seq(Frame)]
  BY <1>2, <1>4 DEF SrvReads, TypeOK
<1> QED
  BY <1>5 DEF SrvReads, TypeOK

LEMMA CliReadsTyped ==
  ASSUME TypeOK, NEW c \in Clients, NEW f, NEW out \in Seq(Frame), NEW st \in CliState,
         CliReads(c, f, out, st), srvPin' \in Clients \cup {None}, cliPin' \in [Clients -> BOOLEAN]
  PROVE  TypeOK'
<1> DEFINE n == cur[c]
<1>1. n \in Conns /\ toCli[n] \in Seq(Frame) /\ toCli[n] # <<>> /\ toSrv[n] \in Seq(Frame)
  BY DEF TypeOK, CliReads
<1>2. Tail(toCli[n]) \in Seq(Frame) /\ <<>> \in Seq(Frame)
  BY <1>1, HeadTailProperties
<1>3. out \o (IF st = "idle" THEN <<"eof">> ELSE <<>>) \in Seq(Frame)
  <2>1. (IF st = "idle" THEN <<"eof">> ELSE <<>>) \in Seq(Frame)
    BY Words
  <2> QED
    BY <2>1, ConcatProperties
<1>4. Send(toSrv[n], out \o (IF st = "idle" THEN <<"eof">> ELSE <<>>)) \in Seq(Frame)
  BY <1>1, <1>3, SendIsTyped
<1>5. toSrv' \in [Conns -> Seq(Frame)] /\ toCli' \in [Conns -> Seq(Frame)]
  BY <1>2, <1>4 DEF CliReads, TypeOK
<1>6. cli' \in [Clients -> CliState] /\ cur' \in [Clients -> Conns \cup {None}]
  BY DEF CliReads, TypeOK
<1> QED
  BY <1>5, <1>6 DEF CliReads, TypeOK

LEMMA ServerTyped ==
  ASSUME TypeOK, NEW n \in Conns, ServerStep(n)
  PROVE  TypeOK'
<1>1. CASE ServerGetsB(n)
  BY <1>1, SrvReadsTyped, Words DEF ServerGetsB, TypeOK, pins, SrvState
<1>2. CASE ServerGetsCert(n)
  BY <1>2, SrvReadsTyped, Words DEF ServerGetsCert, TypeOK, SrvState
<1>3. CASE ServerRefusesCert(n)
  BY <1>3, SrvReadsTyped, Words DEF ServerRefusesCert, TypeOK, pins, SrvState
<1>4. CASE ServerGetsAck(n)
  BY <1>4, SrvReadsTyped, Words DEF ServerGetsAck, TypeOK, pins, SrvState
<1>5. CASE ServerGetsHello(n)
  BY <1>5, SrvReadsTyped, Words DEF ServerGetsHello, TypeOK, pins, SrvState
<1>6. CASE ServerGivesUp(n)
  <2>1. PICK f \in Frame : \E out \in {<<>>, <<"Rejected">>} : SrvReads(n, f, out, "none")
    BY <1>6 DEF ServerGivesUp
  <2> QED
    BY <1>6, <2>1, SrvReadsTyped, Words DEF ServerGivesUp, TypeOK, pins, SrvState
<1> QED
  BY <1>1, <1>2, <1>3, <1>4, <1>5, <1>6 DEF ServerStep

LEMMA ClientTyped ==
  ASSUME TypeOK, NEW c \in Clients, ClientStep(c)
  PROVE  TypeOK'
<1>1. CASE ClientGetsA(c)
  BY <1>1, CliReadsTyped, Words DEF ClientGetsA, TypeOK, pins, CliState
<1>2. CASE ClientHasBadCode(c)
  BY <1>2, CliReadsTyped, Words DEF ClientHasBadCode, TypeOK, pins, CliState
<1>3. CASE ClientGetsCert(c)
  BY <1>3, CliReadsTyped, Words DEF ClientGetsCert, TypeOK, CliState
<1>4. CASE ClientRefusesCert(c)
  BY <1>4, CliReadsTyped, Words DEF ClientRefusesCert, TypeOK, pins, CliState
<1>5. CASE ClientGetsAck(c)
  BY <1>5, CliReadsTyped, Words DEF ClientGetsAck, TypeOK, pins, CliState
<1>6. CASE ClientGetsHelloAck(c)
  BY <1>6, CliReadsTyped, Words DEF ClientGetsHelloAck, TypeOK, pins, CliState
<1>7. CASE ClientGivesUp(c)
  <2>1. PICK f \in Frame : \E out \in {<<>>, <<"Rejected">>} : CliReads(c, f, out, "idle")
    BY <1>7 DEF ClientGivesUp
  <2> QED
    BY <1>7, <2>1, CliReadsTyped, Words DEF ClientGivesUp, TypeOK, pins, CliState
<1> QED
  BY <1>1, <1>2, <1>3, <1>4, <1>5, <1>6, <1>7 DEF ClientStep

LEMMA PairingTyped ==
  ASSUME TypeOK, [Next]_vars
  PROVE  TypeOK'
<1>1. CASE UNCHANGED vars
  BY <1>1 DEF TypeOK, vars, pins
<1>2. ASSUME NEW n \in Conns, Drop(n)
      PROVE  TypeOK'
  <2>1. PICK s \in Prefixes(toSrv[n]), t \in Prefixes(toCli[n]) :
          /\ toSrv' = [toSrv EXCEPT ![n] = Append(s, "eof")]
          /\ toCli' = [toCli EXCEPT ![n] = Append(t, "eof")]
    BY <1>2 DEF Drop
  <2>2. Append(s, "eof") \in Seq(Frame) /\ Append(t, "eof") \in Seq(Frame)
    <3>1. s \in Seq(Frame) /\ t \in Seq(Frame) /\ "eof" \in Frame
      BY PrefixOf, Words DEF TypeOK
    <3> QED
      BY <3>1
  <2> QED
    BY <1>2, <2>1, <2>2 DEF Drop, TypeOK, pins
<1>3. ASSUME NEW c \in Clients, ClientLeaves(c)
      PROVE  TypeOK'
  <2>1. cur[c] \in Conns /\ <<>> \in Seq(Frame) /\ Send(toSrv[cur[c]], <<"eof">>) \in Seq(Frame)
    BY <1>3, SendIsTyped, Words DEF ClientLeaves, TypeOK
  <2>2. toSrv' \in [Conns -> Seq(Frame)] /\ toCli' \in [Conns -> Seq(Frame)]
    BY <1>3, <2>1 DEF ClientLeaves, TypeOK
  <2> QED
    BY <1>3, <2>2 DEF ClientLeaves, TypeOK, pins, CliState
<1>4. ASSUME NEW c \in Clients, NEW n \in Conns, Connect(c, n)
      PROVE  TypeOK'
  <2>1. toSrv' \in [Conns -> Seq(Frame)] /\ toCli' \in [Conns -> Seq(Frame)]
    BY <1>4, Words DEF Connect, TypeOK
  <2> QED
    BY <1>4, <2>1 DEF Connect, TypeOK, pins, CliState, SrvState
<1>5. ASSUME NEW c \in Clients, NEW right \in BOOLEAN, TypeCode(c, right)
      PROVE  TypeOK'
  BY <1>5 DEF TypeCode, TypeOK, pins, CliState
<1>6. CASE ServerRestarts
  <2>1. \A n \in Conns : Send(toCli[n], <<"eof">>) \in Seq(Frame)
    BY SendIsTyped, Words DEF TypeOK
  <2>2. toSrv' \in [Conns -> Seq(Frame)] /\ toCli' \in [Conns -> Seq(Frame)]
    BY <1>6, <2>1, Words DEF ServerRestarts, TypeOK
  <2> QED
    BY <1>6, <2>2 DEF ServerRestarts, TypeOK, pins, SrvState
<1> QED
  BY <1>1, <1>2, <1>3, <1>4, <1>5, <1>6, ServerTyped, ClientTyped DEF Next

-----------------------------------------------------------------------------
(* The scripts are kept.                                                    *)

LEMMA Bounds ==
  ASSUME NEW st
  PROVE  /\ SrvHeard(st) \in 0 .. 4 /\ SrvSaid(st) \in 0 .. 4
         /\ CliHeard(st) \in 0 .. 4 /\ CliSaid(st) \in 0 .. 4
BY DEF SrvHeard, SrvSaid, CliHeard, CliSaid

LEMMA Scripts == Script(CliScript) /\ Script(SrvScript)
BY DEF Script

LEMMA Farewells ==
  ASSUME NEW out \in {<<>>, <<"Rejected">>}
  PROVE  out \o <<"eof">> \in Farewell
<1>1. CASE out = <<>>
  BY <1>1, ConcatEmptySeq, Words DEF Farewell
<1>2. CASE out = <<"Rejected">>
  <2> DEFINE w == <<"Rejected">> \o <<"eof">>
             v == <<"Rejected", "eof">>
  <2>1. <<"Rejected">> \in Seq(Frame) /\ <<"eof">> \in Seq(Frame) /\ v \in Seq(Frame)
    BY Words
  <2>2. /\ w \in Seq(Frame) /\ Len(w) = 2
        /\ \A i \in 1 .. 2 : w[i] = IF i <= 1 THEN <<"Rejected">>[i] ELSE <<"eof">>[i - 1]
    BY <2>1, ConcatProperties
  <2>3. w[1] = v[1] /\ w[2] = v[2] /\ Len(v) = 2
    BY <2>2
  <2> HIDE DEF w, v
  <2>4. w = v
    BY <2>1, <2>2, <2>3, SeqEqual
  <2> QED
    BY <1>2, <2>4 DEF Farewell, w, v
<1> QED
  BY <1>1, <1>2

\* The handler leaves, or goes one frame on in the script it hears, and Len(out)
\* frames in its own.
SrvGoesOn(n, f, out, st) ==
  /\ st # "none" /\ f \notin {"eof", "Rejected"}
  /\ SrvHeard(st) = SrvHeard(srv[n]) + 1
  /\ SrvSaid(st) = SrvSaid(srv[n]) + Len(out)
  /\ \A i \in 1 .. Len(out) : out[i] = SrvScript[SrvSaid(srv[n]) + i]

SrvLeaves(out, st) == st = "none" /\ out \in {<<>>, <<"Rejected">>}

CliGoesOn(c, f, out, st) ==
  /\ st # "idle" /\ f \notin {"eof", "Rejected"}
  /\ CliHeard(st) = CliHeard(cli[c]) + 1
  /\ CliSaid(st) = CliSaid(cli[c]) + Len(out)
  /\ \A i \in 1 .. Len(out) : out[i] = CliScript[CliSaid(cli[c]) + i]

CliLeaves(out, st) == st = "idle" /\ out \in {<<>>, <<"Rejected">>}

\* A connection that nothing happens on.
LEMMA OthersScripted ==
  ASSUME TypeOK, Scripted, NEW n \in Conns, NEW m \in Conns, m # n,
         srv'[m] = srv[m], mode'[m] = mode[m], toSrv'[m] = toSrv[m], toCli'[m] = toCli[m],
         \A c \in Clients : (cur[c] = m <=> cur'[c] = m) /\ (cur[c] = m => cli'[c] = cli[c]),
         mode'[m] # "mixed"
  PROVE  /\ srv'[m] # "none" => HeardByServer(m)'
         /\ \A c \in Clients : cur'[c] = m => HeardByClient(m, c)'
<1>1. srv[m] # "none" => HeardByServer(m)' 
  BY DEF Scripted, HeardByServer
<1>2. ASSUME NEW c \in Clients, cur'[c] = m
      PROVE  HeardByClient(m, c)'
  BY <1>2 DEF Scripted, HeardByClient
<1> QED
  BY <1>1, <1>2

LEMMA SrvReadsScripted ==
  ASSUME TypeOK, OneEach, Scripted, NEW n \in Conns, srv[n] # "none", NEW f,
         NEW out \in Seq(Frame), NEW st \in SrvState, SrvReads(n, f, out, st),
         SrvGoesOn(n, f, out, st) \/ SrvLeaves(out, st)
  PROVE  OneEach' /\ Scripted'
<1>1. OneEach'
  BY DEF OneEach, SrvReads
<1>2. /\ toSrv[n] \in Seq(Frame) /\ toCli[n] \in Seq(Frame) /\ toSrv[n] # <<>>
      /\ Head(toSrv[n]) = f /\ srv'[n] = st
      /\ mode' = mode /\ cur' = cur /\ cli' = cli
  BY DEF SrvReads, TypeOK
<1>3. ASSUME NEW m \in Conns, m # n, mode'[m] # "mixed"
      PROVE  /\ srv'[m] # "none" => HeardByServer(m)'
             /\ \A c \in Clients : cur'[c] = m => HeardByClient(m, c)'
  <2>1. /\ srv'[m] = srv[m] /\ mode'[m] = mode[m] /\ toSrv'[m] = toSrv[m]
        /\ toCli'[m] = toCli[m]
    BY <1>3 DEF SrvReads, TypeOK
  <2> QED
    BY <1>2, <1>3, <2>1, OthersScripted
<1>4. ASSUME mode'[n] # "mixed", srv'[n] # "none"
      PROVE  HeardByServer(n)'
  <2>1. SrvGoesOn(n, f, out, st) /\ HeardByServer(n)
    BY <1>2, <1>4 DEF SrvLeaves, Scripted
  <2>2. toSrv'[n] = Tail(toSrv[n])
    BY <1>2, <1>4 DEF SrvReads, TypeOK
  <2>3. ASSUME NEW c \in Clients, cur[c] = n,
               Follows(toSrv[n], CliScript, SrvHeard(srv[n]), CliSaid(cli[c]))
        PROVE  HeardByServer(n)'
    <3>1. Follows(Tail(toSrv[n]), CliScript, SrvHeard(srv[n]) + 1, CliSaid(cli[c]))
      BY <1>2, <2>3, TailFollows, Bounds, Scripts
    <3> QED
      BY <1>2, <2>1, <2>2, <2>3, <3>1 DEF HeardByServer, SrvGoesOn
  <2>4. ASSUME Closed(toSrv[n], CliScript, SrvHeard(srv[n]))
        PROVE  HeardByServer(n)'
    <3>1. Closed(Tail(toSrv[n]), CliScript, SrvHeard(srv[n]) + 1)
      BY <1>2, <2>1, <2>4, TailCloses, Bounds DEF SrvGoesOn
    <3> QED
      BY <1>2, <2>1, <2>2, <3>1 DEF HeardByServer, SrvGoesOn
  <2> QED
    BY <2>1, <2>3, <2>4 DEF HeardByServer
<1>5. ASSUME mode'[n] # "mixed", NEW c \in Clients, cur'[c] = n
      PROVE  HeardByClient(n, c)'
  <2>1. HeardByClient(n, c) /\ ClientOn(n)
    BY <1>2, <1>5 DEF Scripted, ClientOn
  <2>2. CASE SrvLeaves(out, st)
    <3>1. out \o <<"eof">> \in Farewell
      BY <2>2, Farewells DEF SrvLeaves
    <3>2. toCli'[n] = Send(toCli[n], out \o <<"eof">>)
      BY <2>1, <2>2 DEF SrvLeaves, SrvReads, TypeOK
    <3>3. Closed(toCli'[n], SrvScript, CliHeard(cli[c]))
      <4>1. CASE Closed(toCli[n], SrvScript, CliHeard(cli[c]))
        BY <3>2, <4>1, SendOnEnded DEF Closed
      <4>2. CASE Follows(toCli[n], SrvScript, CliHeard(cli[c]), SrvSaid(srv[n]))
        BY <1>2, <3>1, <3>2, <4>2, SendCloses, Bounds, Scripts
      <4> QED
        BY <2>1, <4>1, <4>2 DEF HeardByClient
    <3> QED
      BY <1>2, <3>3 DEF HeardByClient
  <2>3. CASE SrvGoesOn(n, f, out, st)
    <3>1. toCli'[n] = Send(toCli[n], out \o <<>>)
      BY <2>1, <2>3 DEF SrvGoesOn, SrvReads, TypeOK
    <3>2. toCli'[n] = Send(toCli[n], out)
      BY <3>1, ConcatEmptySeq
    <3>3. CASE Closed(toCli[n], SrvScript, CliHeard(cli[c]))
      BY <1>2, <3>2, <3>3, SendOnEnded DEF HeardByClient, Closed
    <3>4. CASE Follows(toCli[n], SrvScript, CliHeard(cli[c]), SrvSaid(srv[n]))
      <4>1. SrvSaid(srv[n]) + Len(out) <= 4
        BY <2>3, Bounds DEF SrvGoesOn
      <4>2. Follows(Send(toCli[n], out), SrvScript, CliHeard(cli[c]), SrvSaid(srv[n]) + Len(out))
        BY <1>2, <2>3, <3>4, <4>1, SendFollows, Bounds, Scripts DEF SrvGoesOn
      <4> QED
        BY <1>2, <2>3, <3>2, <4>2 DEF HeardByClient, SrvGoesOn
    <3> QED
      BY <2>1, <3>3, <3>4 DEF HeardByClient
  <2> QED
    BY <2>2, <2>3
<1> QED
  BY <1>1, <1>3, <1>4, <1>5 DEF Scripted

LEMMA CliReadsScripted ==
  ASSUME TypeOK, OneEach, Scripted, NEW c \in Clients, cli[c] # "idle", NEW f,
         NEW out \in Seq(Frame), NEW st \in CliState, CliReads(c, f, out, st),
         CliGoesOn(c, f, out, st) \/ CliLeaves(out, st)
  PROVE  OneEach' /\ Scripted'
<1>0. PICK n \in Conns : n = cur[c]
  BY DEF CliReads, TypeOK
<1>1. /\ cur[c] = n /\ toSrv[n] \in Seq(Frame) /\ toCli[n] \in Seq(Frame) /\ toCli[n] # <<>>
      /\ Head(toCli[n]) = f /\ cli'[c] = st /\ (cur'[c] = IF st = "idle" THEN None ELSE n)
      /\ mode' = mode /\ srv' = srv
      /\ \A d \in Clients \ {c} : cli'[d] = cli[d] /\ cur'[d] = cur[d] /\ cur[d] # n
  BY <1>0 DEF CliReads, TypeOK, OneEach
<1>2. OneEach'
  BY <1>1 DEF OneEach, CliGoesOn, CliLeaves
<1>3. ASSUME NEW m \in Conns, m # n, mode'[m] # "mixed"
      PROVE  /\ srv'[m] # "none" => HeardByServer(m)'
             /\ \A d \in Clients : cur'[d] = m => HeardByClient(m, d)'
  <2>1. toSrv'[m] = toSrv[m] /\ toCli'[m] = toCli[m]
    BY <1>1, <1>3 DEF CliReads, TypeOK
  <2>2. \A d \in Clients : (cur[d] = m <=> cur'[d] = m) /\ (cur[d] = m => cli'[d] = cli[d])
    BY <1>1, <1>3, NoneAssumption
  <2> QED
    BY <1>1, <1>3, <2>1, <2>2, OthersScripted
<1>4. ASSUME mode'[n] # "mixed", srv'[n] # "none"
      PROVE  HeardByServer(n)'
  <2>1. HeardByServer(n)
    BY <1>1, <1>4 DEF Scripted
  <2>2. toSrv'[n] = Send(toSrv[n], out \o (IF st = "idle" THEN <<"eof">> ELSE <<>>))
    BY <1>1, <1>4 DEF CliReads, TypeOK
  <2>3. CASE Closed(toSrv[n], CliScript, SrvHeard(srv[n]))
    BY <1>1, <2>2, <2>3, SendOnEnded DEF HeardByServer, Closed
  <2>4. CASE Follows(toSrv[n], CliScript, SrvHeard(srv[n]), CliSaid(cli[c]))
    <3>1. CASE CliLeaves(out, st)
      <4>1. out \o <<"eof">> \in Farewell
        BY <3>1, Farewells DEF CliLeaves
      <4>2. Closed(toSrv'[n], CliScript, SrvHeard(srv[n]))
        BY <1>1, <2>2, <2>4, <3>1, <4>1, SendCloses, Bounds, Scripts DEF CliLeaves
      <4> QED
        BY <1>1, <4>2 DEF HeardByServer
    <3>2. CASE CliGoesOn(c, f, out, st)
      <4>1. toSrv'[n] = Send(toSrv[n], out)
        BY <2>2, <3>2, ConcatEmptySeq DEF CliGoesOn
      <4>2. CliSaid(cli[c]) + Len(out) <= 4
        BY <3>2, Bounds DEF CliGoesOn
      <4>3. Follows(Send(toSrv[n], out), CliScript, SrvHeard(srv[n]), CliSaid(cli[c]) + Len(out))
        BY <1>1, <2>4, <3>2, <4>2, SendFollows, Bounds, Scripts DEF CliGoesOn
      <4> QED
        BY <1>1, <3>2, <4>1, <4>3 DEF HeardByServer, CliGoesOn
    <3> QED
      BY <3>1, <3>2
  <2> QED
    BY <1>1, <2>1, <2>3, <2>4 DEF HeardByServer
<1>5. ASSUME mode'[n] # "mixed", NEW d \in Clients, cur'[d] = n
      PROVE  HeardByClient(n, d)'
  <2>1. d = c /\ st # "idle" /\ CliGoesOn(c, f, out, st) /\ HeardByClient(n, c)
    BY <1>1, <1>5, NoneAssumption DEF Scripted, CliLeaves
  <2>2. toCli'[n] = Tail(toCli[n])
    BY <1>1, <2>1 DEF CliReads, TypeOK
  <2>3. CASE Follows(toCli[n], SrvScript, CliHeard(cli[c]), SrvSaid(srv[n])) /\ srv[n] # "none"
    <3>1. Follows(Tail(toCli[n]), SrvScript, CliHeard(cli[c]) + 1, SrvSaid(srv[n]))
      BY <1>1, <2>3, TailFollows, Bounds, Scripts
    <3> QED
      BY <1>1, <2>1, <2>2, <2>3, <3>1 DEF HeardByClient, CliGoesOn
  <2>4. CASE Closed(toCli[n], SrvScript, CliHeard(cli[c]))
    <3>1. Closed(Tail(toCli[n]), SrvScript, CliHeard(cli[c]) + 1)
      BY <1>1, <2>1, <2>4, TailCloses, Bounds DEF CliGoesOn
    <3> QED
      BY <1>1, <2>1, <2>2, <3>1 DEF HeardByClient, CliGoesOn
  <2> QED
    BY <2>1, <2>3, <2>4 DEF HeardByClient
<1> QED
  BY <1>1, <1>2, <1>3, <1>4, <1>5 DEF Scripted

LEMMA ServerScripted ==
  ASSUME TypeOK, OneEach, Scripted, NEW n \in Conns, ServerStep(n)
  PROVE  OneEach' /\ Scripted'
<1>1. CASE ServerGetsB(n)
  <2>1. /\ srv[n] = "awaitB" /\ SrvReads(n, "SpakeB", <<"Cert">>, "awaitCert")
        /\ "awaitCert" \in SrvState /\ <<"Cert">> \in Seq(Frame)
    BY <1>1, Words DEF ServerGetsB, SrvState
  <2>2. SrvGoesOn(n, "SpakeB", <<"Cert">>, "awaitCert")
    BY <2>1 DEF SrvGoesOn, SrvHeard, SrvSaid, SrvScript
  <2> QED
    BY <2>1, <2>2, SrvReadsScripted
<1>2. CASE ServerGetsCert(n)
  <2>1. /\ srv[n] = "awaitCert" /\ SrvReads(n, "Cert", <<"Accepted">>, "awaitAck")
        /\ "awaitAck" \in SrvState /\ <<"Accepted">> \in Seq(Frame)
    BY <1>2, Words DEF ServerGetsCert, SrvState
  <2>2. SrvGoesOn(n, "Cert", <<"Accepted">>, "awaitAck")
    BY <2>1 DEF SrvGoesOn, SrvHeard, SrvSaid, SrvScript
  <2> QED
    BY <2>1, <2>2, SrvReadsScripted
<1>3. CASE ServerGetsAck(n)
  <2>1. /\ srv[n] = "awaitAck" /\ SrvReads(n, "Accepted", <<>>, "awaitHello")
        /\ "awaitHello" \in SrvState /\ <<>> \in Seq(Frame)
    BY <1>3, Words DEF ServerGetsAck, SrvState
  <2>2. SrvGoesOn(n, "Accepted", <<>>, "awaitHello")
    BY <2>1 DEF SrvGoesOn, SrvHeard, SrvSaid, SrvScript
  <2> QED
    BY <2>1, <2>2, SrvReadsScripted
<1>4. CASE ServerGetsHello(n)
  <2>1. /\ srv[n] = "awaitHello" /\ SrvReads(n, "Hello", <<"HelloAck">>, "session")
        /\ "session" \in SrvState /\ <<"HelloAck">> \in Seq(Frame)
    BY <1>4, Words DEF ServerGetsHello, SrvState
  <2>2. SrvGoesOn(n, "Hello", <<"HelloAck">>, "session")
    BY <2>1 DEF SrvGoesOn, SrvHeard, SrvSaid, SrvScript
  <2> QED
    BY <2>1, <2>2, SrvReadsScripted
<1>5. CASE ServerRefusesCert(n) \/ ServerGivesUp(n)
  <2>1. srv[n] # "none" /\ "none" \in SrvState
    BY <1>5 DEF ServerRefusesCert, ServerGivesUp, SrvState
  <2>2. PICK f \in Frame, out \in {<<>>, <<"Rejected">>} : SrvReads(n, f, out, "none")
    BY <1>5, Words DEF ServerRefusesCert, ServerGivesUp
  <2>3. SrvLeaves(out, "none") /\ out \in Seq(Frame)
    BY Words DEF SrvLeaves
  <2> QED
    BY <2>1, <2>2, <2>3, SrvReadsScripted
<1> QED
  BY <1>1, <1>2, <1>3, <1>4, <1>5 DEF ServerStep

LEMMA ClientScripted ==
  ASSUME TypeOK, OneEach, Scripted, NEW c \in Clients, ClientStep(c)
  PROVE  OneEach' /\ Scripted'
<1>1. CASE ClientGetsA(c)
  <2>1. /\ cli[c] = "awaitA" /\ CliReads(c, "SpakeA", <<"SpakeB", "Cert">>, "awaitCert")
        /\ "awaitCert" \in CliState /\ <<"SpakeB", "Cert">> \in Seq(Frame)
    BY <1>1, Words DEF ClientGetsA, CliState
  <2>2. CliGoesOn(c, "SpakeA", <<"SpakeB", "Cert">>, "awaitCert")
    BY <2>1 DEF CliGoesOn, CliHeard, CliSaid, CliScript
  <2> QED
    BY <2>1, <2>2, CliReadsScripted
<1>2. CASE ClientGetsCert(c)
  <2>1. /\ cli[c] = "awaitCert" /\ CliReads(c, "Cert", <<"Accepted">>, "awaitAck")
        /\ "awaitAck" \in CliState /\ <<"Accepted">> \in Seq(Frame)
    BY <1>2, Words DEF ClientGetsCert, CliState
  <2>2. CliGoesOn(c, "Cert", <<"Accepted">>, "awaitAck")
    BY <2>1 DEF CliGoesOn, CliHeard, CliSaid, CliScript
  <2> QED
    BY <2>1, <2>2, CliReadsScripted
<1>3. CASE ClientGetsAck(c)
  <2>1. /\ cli[c] = "awaitAck" /\ CliReads(c, "Accepted", <<"Hello">>, "awaitHelloAck")
        /\ "awaitHelloAck" \in CliState /\ <<"Hello">> \in Seq(Frame)
    BY <1>3, Words DEF ClientGetsAck, CliState
  <2>2. CliGoesOn(c, "Accepted", <<"Hello">>, "awaitHelloAck")
    BY <2>1 DEF CliGoesOn, CliHeard, CliSaid, CliScript
  <2> QED
    BY <2>1, <2>2, CliReadsScripted
<1>4. CASE ClientGetsHelloAck(c)
  <2>1. /\ cli[c] = "awaitHelloAck" /\ CliReads(c, "HelloAck", <<>>, "session")
        /\ "session" \in CliState /\ <<>> \in Seq(Frame)
    BY <1>4, Words DEF ClientGetsHelloAck, CliState
  <2>2. CliGoesOn(c, "HelloAck", <<>>, "session")
    BY <2>1 DEF CliGoesOn, CliHeard, CliSaid, CliScript
  <2> QED
    BY <2>1, <2>2, CliReadsScripted
<1>5. CASE ClientHasBadCode(c) \/ ClientRefusesCert(c) \/ ClientGivesUp(c)
  <2>1. cli[c] # "idle" /\ "idle" \in CliState
    BY <1>5 DEF ClientHasBadCode, ClientRefusesCert, ClientGivesUp, CliState
  <2>2. PICK f \in Frame, out \in {<<>>, <<"Rejected">>} : CliReads(c, f, out, "idle")
    BY <1>5, Words DEF ClientHasBadCode, ClientRefusesCert, ClientGivesUp
  <2>3. CliLeaves(out, "idle") /\ out \in Seq(Frame)
    BY Words DEF CliLeaves
  <2> QED
    BY <2>1, <2>2, <2>3, CliReadsScripted
<1> QED
  BY <1>1, <1>2, <1>3, <1>4, <1>5 DEF ClientStep

LEMMA ConnectScripted ==
  ASSUME TypeOK, OneEach, Scripted, NEW c \in Clients, NEW n \in Conns, Connect(c, n)
  PROVE  OneEach' /\ Scripted'
<1>1. /\ cur[c] = None /\ cur'[c] = n /\ \A d \in Clients : cur[d] # n
      /\ \A d \in Clients \ {c} : cur'[d] = cur[d] /\ cli'[d] = cli[d]
  BY DEF Connect, ClientOn, TypeOK
<1>2. OneEach'
  <2>1. cli'[c] # "idle"
    BY DEF Connect, TypeOK
  <2> QED
    BY <1>1, <2>1, NoneAssumption DEF OneEach
<1>3. ASSUME NEW m \in Conns, m # n, mode'[m] # "mixed"
      PROVE  /\ srv'[m] # "none" => HeardByServer(m)'
             /\ \A d \in Clients : cur'[d] = m => HeardByClient(m, d)'
  <2>1. /\ toSrv'[m] = toSrv[m] /\ toCli'[m] = toCli[m]
        /\ srv'[m] = srv[m] /\ mode'[m] = mode[m]
    BY <1>3 DEF Connect, TypeOK
  <2>2. \A d \in Clients : (cur[d] = m <=> cur'[d] = m) /\ (cur[d] = m => cli'[d] = cli[d])
    BY <1>1, <1>3, NoneAssumption
  <2> QED
    BY <1>3, <2>1, <2>2, OthersScripted
<1>4. ASSUME mode'[n] # "mixed"
      PROVE  /\ Follows(toSrv'[n], CliScript, SrvHeard(srv'[n]), CliSaid(cli'[c]))
             /\ Follows(toCli'[n], SrvScript, CliHeard(cli'[c]), SrvSaid(srv'[n]))
             /\ srv'[n] # "none"
  <2>1. CASE srvPin = None
    <3>1. /\ srv'[n] = "awaitB" /\ cli'[c] = "code"
          /\ toSrv'[n] = <<>> /\ toCli'[n] = <<"SpakeA">>
      BY <1>4, <2>1 DEF Connect, TypeOK
    <3> QED
      BY <3>1 DEF Follows, SrvHeard, SrvSaid, CliHeard, CliSaid, CliScript, SrvScript
  <2>2. CASE srvPin # None
    <3>1. /\ srv'[n] = "awaitHello" /\ cli'[c] = "awaitHelloAck"
          /\ toSrv'[n] = <<"Hello">> /\ toCli'[n] = <<>>
      BY <1>4, <2>2 DEF Connect, TypeOK
    <3> QED
      BY <3>1 DEF Follows, SrvHeard, SrvSaid, CliHeard, CliSaid, CliScript, SrvScript
  <2> QED
    BY <2>1, <2>2
<1>5. ASSUME mode'[n] # "mixed"
      PROVE  /\ HeardByServer(n)'
             /\ \A d \in Clients : cur'[d] = n => HeardByClient(n, d)'
  BY <1>1, <1>4, <1>5 DEF HeardByServer, HeardByClient
<1> QED
  BY <1>2, <1>3, <1>5 DEF Scripted

LEMMA TypeCodeScripted ==
  ASSUME TypeOK, OneEach, Scripted, NEW c \in Clients, NEW right \in BOOLEAN, TypeCode(c, right)
  PROVE  OneEach' /\ Scripted'
<1>1. /\ CliHeard(cli'[c]) = CliHeard(cli[c]) /\ CliSaid(cli'[c]) = CliSaid(cli[c])
      /\ cli'[c] # "idle" /\ \A d \in Clients \ {c} : cli'[d] = cli[d]
  BY DEF TypeCode, TypeOK, CliHeard, CliSaid
<1>2. \A d \in Clients : CliHeard(cli'[d]) = CliHeard(cli[d]) /\ CliSaid(cli'[d]) = CliSaid(cli[d])
  BY <1>1
<1>3. OneEach'
  BY <1>1 DEF OneEach, TypeCode
<1>4. ASSUME NEW n \in Conns PROVE HeardByServer(n) => HeardByServer(n)'
  BY <1>2 DEF HeardByServer, TypeCode
<1>5. ASSUME NEW n \in Conns, NEW d \in Clients PROVE HeardByClient(n, d) => HeardByClient(n, d)'
  BY <1>2 DEF HeardByClient, TypeCode
<1> QED
  BY <1>3, <1>4, <1>5 DEF Scripted, TypeCode

LEMMA ClientLeavesScripted ==
  ASSUME TypeOK, OneEach, Scripted, NEW c \in Clients, ClientLeaves(c)
  PROVE  OneEach' /\ Scripted'
<1>0. PICK n \in Conns : n = cur[c]
  BY DEF ClientLeaves, TypeOK
<1>1. /\ cur[c] = n /\ toSrv[n] \in Seq(Frame) /\ cur'[c] = None /\ mode' = mode /\ srv' = srv
      /\ \A d \in Clients \ {c} : cli'[d] = cli[d] /\ cur'[d] = cur[d] /\ cur[d] # n
  BY <1>0 DEF ClientLeaves, TypeOK, OneEach
<1>2. OneEach'
  BY <1>1 DEF OneEach
<1>3. ASSUME NEW m \in Conns, m # n, mode'[m] # "mixed"
      PROVE  /\ srv'[m] # "none" => HeardByServer(m)'
             /\ \A d \in Clients : cur'[d] = m => HeardByClient(m, d)'
  <2>1. toSrv'[m] = toSrv[m] /\ toCli'[m] = toCli[m]
    BY <1>1, <1>3 DEF ClientLeaves, TypeOK
  <2>2. \A d \in Clients : (cur[d] = m <=> cur'[d] = m) /\ (cur[d] = m => cli'[d] = cli[d])
    BY <1>1, <1>3, NoneAssumption
  <2> QED
    BY <1>1, <1>3, <2>1, <2>2, OthersScripted
<1>4. ASSUME mode'[n] # "mixed", srv'[n] # "none"
      PROVE  HeardByServer(n)'
  <2>1. HeardByServer(n) /\ toSrv'[n] = Send(toSrv[n], <<"eof">>)
    BY <1>1, <1>4 DEF Scripted, ClientLeaves, TypeOK
  <2>2. Closed(toSrv'[n], CliScript, SrvHeard(srv[n]))
    <3>1. CASE Closed(toSrv[n], CliScript, SrvHeard(srv[n]))
      BY <2>1, <3>1, SendOnEnded DEF Closed
    <3>2. ASSUME NEW d \in Clients,
                 Follows(toSrv[n], CliScript, SrvHeard(srv[n]), CliSaid(cli[d]))
          PROVE  Closed(toSrv'[n], CliScript, SrvHeard(srv[n]))
      <4>1. <<"eof">> \in Farewell
        BY DEF Farewell
      <4> QED
        BY <1>1, <2>1, <3>2, <4>1, SendCloses, Bounds, Scripts
    <3> QED
      BY <2>1, <3>1, <3>2 DEF HeardByServer
  <2> QED
    BY <1>1, <2>2 DEF HeardByServer
<1>5. \A d \in Clients : cur'[d] # n
  BY <1>1, NoneAssumption
<1> QED
  BY <1>2, <1>3, <1>4, <1>5 DEF Scripted

LEMMA DropScripted ==
  ASSUME TypeOK, OneEach, Scripted, NEW n \in Conns, Drop(n)
  PROVE  OneEach' /\ Scripted'
<1>1. PICK s \in Prefixes(toSrv[n]), t \in Prefixes(toCli[n]) :
        /\ toSrv' = [toSrv EXCEPT ![n] = Append(s, "eof")]
        /\ toCli' = [toCli EXCEPT ![n] = Append(t, "eof")]
  BY DEF Drop
<1>2. /\ mode' = mode /\ srv' = srv /\ cli' = cli /\ cur' = cur /\ srv[n] # "none"
      /\ toSrv[n] \in Seq(Frame) /\ toCli[n] \in Seq(Frame)
      /\ ~Ended(toSrv[n]) /\ ~Ended(toCli[n])
      /\ toSrv'[n] = Append(s, "eof") /\ toCli'[n] = Append(t, "eof")
  BY <1>1 DEF Drop, TypeOK
<1>3. OneEach'
  BY <1>2 DEF OneEach
<1>4. ASSUME NEW m \in Conns, m # n, mode'[m] # "mixed"
      PROVE  /\ srv'[m] # "none" => HeardByServer(m)'
             /\ \A d \in Clients : cur'[d] = m => HeardByClient(m, d)'
  <2>1. toSrv'[m] = toSrv[m] /\ toCli'[m] = toCli[m]
    BY <1>1, <1>4 DEF TypeOK
  <2> QED
    BY <1>2, <1>4, <2>1, OthersScripted
<1>5. ASSUME mode'[n] # "mixed" PROVE HeardByServer(n)'
  <2>1. PICK c \in Clients : Follows(toSrv[n], CliScript, SrvHeard(srv[n]), CliSaid(cli[c]))
    BY <1>2, <1>5 DEF Scripted, HeardByServer, Closed
  <2>2. Closed(toSrv'[n], CliScript, SrvHeard(srv[n]))
    BY <1>2, <2>1, BreakCloses, Bounds, Scripts
  <2> QED
    BY <1>2, <2>2 DEF HeardByServer
<1>6. ASSUME mode'[n] # "mixed", NEW c \in Clients, cur'[c] = n PROVE HeardByClient(n, c)'
  <2>1. Follows(toCli[n], SrvScript, CliHeard(cli[c]), SrvSaid(srv[n]))
    BY <1>2, <1>6 DEF Scripted, HeardByClient, Closed
  <2>2. Closed(toCli'[n], SrvScript, CliHeard(cli[c]))
    BY <1>2, <2>1, BreakCloses, Bounds, Scripts
  <2> QED
    BY <1>2, <2>2 DEF HeardByClient
<1> QED
  BY <1>3, <1>4, <1>5, <1>6 DEF Scripted

LEMMA ServerRestartsScripted ==
  ASSUME TypeOK, OneEach, Scripted, ServerRestarts
  PROVE  OneEach' /\ Scripted'
<1>1. OneEach'
  BY DEF OneEach, ServerRestarts
<1>2. ASSUME NEW n \in Conns, NEW c \in Clients, mode'[n] # "mixed", cur'[c] = n
      PROVE  HeardByClient(n, c)'
  <2>1. /\ HeardByClient(n, c) /\ toCli[n] \in Seq(Frame) /\ cli' = cli
        /\ toCli'[n] = IF srv[n] # "none" THEN Send(toCli[n], <<"eof">>) ELSE toCli[n]
    BY <1>2 DEF ServerRestarts, Scripted, ClientOn, TypeOK
  <2>2. CASE Closed(toCli[n], SrvScript, CliHeard(cli[c]))
    <3>1. toCli'[n] = toCli[n]
      BY <2>1, <2>2, SendOnEnded DEF Closed
    <3> QED
      BY <2>1, <2>2, <3>1 DEF HeardByClient
  <2>3. CASE /\ srv[n] # "none"
             /\ Follows(toCli[n], SrvScript, CliHeard(cli[c]), SrvSaid(srv[n]))
    <3>1. <<"eof">> \in Farewell
      BY DEF Farewell
    <3>2. Closed(toCli'[n], SrvScript, CliHeard(cli[c]))
      BY <2>1, <2>3, <3>1, SendCloses, Bounds, Scripts
    <3> QED
      BY <2>1, <3>2 DEF HeardByClient
  <2> QED
    BY <2>1, <2>2, <2>3 DEF HeardByClient
<1>3. \A n \in Conns : srv'[n] = "none"
  BY DEF ServerRestarts
<1> QED
  BY <1>1, <1>2, <1>3 DEF Scripted

-----------------------------------------------------------------------------
(* A session stands on two pins.                                            *)

LEMMA TailGreets ==
  ASSUME NEW q \in Seq(Frame), q # <<>>, Greets(Tail(q))
  PROVE  Greets(q)
<1>1. /\ Tail(q) \in Seq(Frame) /\ Len(Tail(q)) = Len(q) - 1 /\ Len(q) \in Nat
      /\ \A i \in 1 .. Len(Tail(q)) : Tail(q)[i] = q[i + 1]
  BY HeadTailProperties, LenProperties
<1>2. DOMAIN Tail(q) = 1 .. Len(Tail(q)) /\ DOMAIN q = 1 .. Len(q)
  BY <1>1, LenProperties
<1>3. PICK i \in 1 .. Len(Tail(q)) : Tail(q)[i] = "Hello"
  BY <1>2 DEF Greets
<1>4. i + 1 \in DOMAIN q /\ q[i + 1] = "Hello"
  BY <1>1, <1>2, <1>3
<1> QED
  BY <1>4 DEF Greets

LEMMA SendGreets ==
  ASSUME NEW q \in Seq(Frame), NEW out \in Seq(Frame), Greets(Send(q, out))
  PROVE  Greets(q) \/ Greets(out)
<1>1. CASE Ended(q)
  BY <1>1 DEF Send
<1>2. CASE ~Ended(q)
  <2>1. Send(q, out) = q \o out
    BY <1>2 DEF Send
  <2>2. /\ q \o out \in Seq(Frame) /\ Len(q \o out) = Len(q) + Len(out)
        /\ Len(q) \in Nat /\ Len(out) \in Nat
        /\ \A i \in 1 .. Len(q) + Len(out) :
             (q \o out)[i] = IF i <= Len(q) THEN q[i] ELSE out[i - Len(q)]
    BY ConcatProperties, LenProperties
  <2>3. /\ DOMAIN (q \o out) = 1 .. Len(q) + Len(out)
        /\ DOMAIN q = 1 .. Len(q) /\ DOMAIN out = 1 .. Len(out)
    BY <2>2, LenProperties
  <2>4. PICK i \in 1 .. Len(q) + Len(out) : (q \o out)[i] = "Hello"
    BY <2>1, <2>3 DEF Greets
  <2>5. CASE i <= Len(q)
    <3>1. i \in DOMAIN q /\ q[i] = "Hello"
      BY <2>2, <2>3, <2>4, <2>5
    <3> QED
      BY <3>1 DEF Greets
  <2>6. CASE i > Len(q)
    <3>1. i - Len(q) \in DOMAIN out
      BY <2>2, <2>3, <2>4, <2>6
    <3>2. out[i - Len(q)] = "Hello"
      BY <2>2, <2>4, <2>6
    <3> QED
      BY <3>1, <3>2 DEF Greets
  <2> QED
    BY <2>2, <2>5, <2>6
<1> QED
  BY <1>1, <1>2

LEMMA BreakGreets ==
  ASSUME NEW q \in Seq(Frame), NEW p \in Prefixes(q), Greets(Append(p, "eof"))
  PROVE  Greets(q)
<1>1. /\ p \in Seq(Frame) /\ Len(p) <= Len(q) /\ Len(p) \in Nat /\ Len(q) \in Nat
      /\ \A i \in 1 .. Len(p) : p[i] = q[i]
  BY PrefixOf, LenProperties
<1>2. "eof" \in Frame
  BY DEF Frame
<1>3. /\ Append(p, "eof") \in Seq(Frame) /\ Len(Append(p, "eof")) = Len(p) + 1
      /\ \A i \in 1 .. Len(p) : Append(p, "eof")[i] = p[i]
      /\ Append(p, "eof")[Len(p) + 1] = "eof"
  BY <1>1, <1>2, AppendAt
<1>4. DOMAIN Append(p, "eof") = 1 .. Len(p) + 1 /\ DOMAIN q = 1 .. Len(q)
  BY <1>3, LenProperties
<1>5. PICK i \in 1 .. Len(p) + 1 : Append(p, "eof")[i] = "Hello"
  BY <1>4 DEF Greets
<1>6. i \in 1 .. Len(p)
  BY <1>1, <1>3, <1>5
<1>7. i \in DOMAIN q /\ q[i] = "Hello"
  BY <1>1, <1>3, <1>4, <1>5, <1>6
<1> QED
  BY <1>7 DEF Greets

LEMMA Silence == ~Greets(<<>>) /\ \A f \in Frame \ {"Hello"} : ~Greets(<<f>>)
<1>1. ~Greets(<<>>)
  BY DEF Greets
<1>2. ASSUME NEW f \in Frame \ {"Hello"} PROVE ~Greets(<<f>>)
  BY <1>2 DEF Greets
<1> QED
  BY <1>1, <1>2

LEMMA SrvReadsPins ==
  ASSUME TypeOK, PinsHold, NEW n \in Conns, srv[n] # "none", NEW f, NEW out \in Seq(Frame),
         NEW st \in SrvState, SrvReads(n, f, out, st), cliPin' = cliPin,
         srvPin # None => srvPin' # None,
         st \in {"awaitAck", "awaitHello", "session"} => srvPin' # None,
         st = "session" => f = "Hello"
  PROVE  PinsHold'
<1>1. /\ cli' = cli /\ cur' = cur /\ who' = who /\ srv'[n] = st
      /\ \A m \in Conns \ {n} : srv'[m] = srv[m] /\ toSrv'[m] = toSrv[m]
      /\ toSrv'[n] \in {<<>>, Tail(toSrv[n])}
      /\ toSrv[n] \in Seq(Frame) /\ toSrv[n] # <<>> /\ Head(toSrv[n]) = f
  BY DEF SrvReads, TypeOK
<1>2. \A m \in Conns : Greets(toSrv'[m]) => Greets(toSrv[m])
  BY <1>1, TailGreets, Silence
<1>3. ASSUME NEW c \in Clients, cur'[c] # None /\ Greets(toSrv'[cur'[c]]) PROVE cliPin'[c]
  BY <1>1, <1>2, <1>3 DEF PinsHold, TypeOK
<1>4. ASSUME st = "session", NEW c \in Clients, cur'[c] = n PROVE cliPin'[c]
  <2>1. Len(toSrv[n]) \in Nat \ {0} /\ toSrv[n][1] = "Hello"
    BY <1>1, <1>4, EmptySeq
  <2>2. 1 \in DOMAIN toSrv[n]
    BY <1>1, <2>1, LenProperties
  <2>3. Greets(toSrv[n]) /\ cur[c] # None
    BY <1>1, <1>4, <2>1, <2>2, NoneAssumption DEF Greets
  <2> QED
    BY <1>1, <1>4, <2>3 DEF PinsHold
<1>5. SessionIsMutual'
  BY <1>1, <1>4 DEF SessionIsMutual, PinsHold
<1>6. \A m \in Conns : srv'[m] # "none" => who'[m] # None
  BY <1>1 DEF PinsHold
<1>7. \A m \in Conns : srv'[m] \in {"awaitAck", "awaitHello", "session"} => srvPin' # None
  BY <1>1 DEF PinsHold
<1> QED
  BY <1>1, <1>3, <1>5, <1>6, <1>7 DEF PinsHold

LEMMA CliReadsPins ==
  ASSUME TypeOK, OneEach, PinsHold, NEW c \in Clients, NEW f, NEW out \in Seq(Frame),
         NEW st \in CliState, CliReads(c, f, out, st), srvPin' = srvPin,
         \A d \in Clients : cliPin[d] => cliPin'[d],
         st \in {"awaitAck", "awaitHelloAck", "session"} => cliPin'[c],
         Greets(out) => cliPin'[c]
  PROVE  PinsHold'
<1>0. PICK n \in Conns : n = cur[c]
  BY DEF CliReads, TypeOK
<1>1. /\ cur[c] = n /\ toSrv[n] \in Seq(Frame)
      /\ cli'[c] = st /\ (cur'[c] = IF st = "idle" THEN None ELSE n)
      /\ who' = who /\ srv' = srv
      /\ \A m \in Conns \ {n} : toSrv'[m] = toSrv[m]
      /\ \A d \in Clients \ {c} : cli'[d] = cli[d] /\ cur'[d] = cur[d] /\ cur[d] # n
  BY <1>0 DEF CliReads, TypeOK, OneEach
<1>2. ASSUME st # "idle", Greets(toSrv'[n]) PROVE cliPin'[c]
  <2>1. toSrv'[n] \in {<<>>, Send(toSrv[n], out \o <<>>)}
    BY <1>0, <1>2 DEF CliReads, TypeOK
  <2>2. Greets(toSrv[n]) \/ Greets(out)
    BY <1>1, <1>2, <2>1, SendGreets, Silence, ConcatEmptySeq
  <2> QED
    BY <1>1, <2>2, NoneAssumption DEF PinsHold
<1>3. ASSUME NEW d \in Clients, cur'[d] # None /\ Greets(toSrv'[cur'[d]]) PROVE cliPin'[d]
  <2>1. CASE d = c
    BY <1>1, <1>2, <1>3, <2>1
  <2>2. CASE d # c
    BY <1>1, <1>3, <2>2 DEF PinsHold, TypeOK
  <2> QED
    BY <2>1, <2>2
<1>4. SessionIsMutual'
  BY <1>1, NoneAssumption DEF PinsHold, SessionIsMutual
<1>5. \A d \in Clients : cli'[d] \in {"awaitAck", "awaitHelloAck", "session"} => cliPin'[d]
  BY <1>1 DEF PinsHold
<1> QED
  BY <1>1, <1>3, <1>4, <1>5 DEF PinsHold

LEMMA ServerPins ==
  ASSUME TypeOK, PinsHold, NEW n \in Conns, ServerStep(n)
  PROVE  PinsHold'
<1>1. CASE ServerGetsB(n)
  BY <1>1, SrvReadsPins, Words DEF ServerGetsB, pins, SrvState
<1>2. CASE ServerGetsCert(n)
  BY <1>2, SrvReadsPins, Words DEF ServerGetsCert, SrvState, PinsHold
<1>3. CASE ServerGetsAck(n)
  BY <1>3, SrvReadsPins, Words DEF ServerGetsAck, pins, SrvState, PinsHold
<1>4. CASE ServerGetsHello(n)
  BY <1>4, SrvReadsPins, Words DEF ServerGetsHello, pins, SrvState, PinsHold
<1>5. CASE ServerRefusesCert(n) \/ ServerGivesUp(n)
  <2>1. srv[n] # "none" /\ "none" \in SrvState /\ UNCHANGED pins
    BY <1>5 DEF ServerRefusesCert, ServerGivesUp, SrvState
  <2>2. PICK f \in Frame, out \in {<<>>, <<"Rejected">>} : SrvReads(n, f, out, "none")
    BY <1>5, Words DEF ServerRefusesCert, ServerGivesUp
  <2>3. out \in Seq(Frame)
    BY Words
  <2> QED
    BY <2>1, <2>2, <2>3, SrvReadsPins DEF pins
<1> QED
  BY <1>1, <1>2, <1>3, <1>4, <1>5 DEF ServerStep

LEMMA ClientPins ==
  ASSUME TypeOK, OneEach, PinsHold, NEW c \in Clients, ClientStep(c)
  PROVE  PinsHold'
<1>1. CASE ClientGetsA(c)
  <2>1. ~Greets(<<"SpakeB", "Cert">>)
    BY DEF Greets
  <2> QED
    BY <1>1, <2>1, CliReadsPins, Words DEF ClientGetsA, pins, CliState
<1>2. CASE ClientGetsCert(c)
  BY <1>2, CliReadsPins, Words, Silence DEF ClientGetsCert, CliState, TypeOK
<1>3. CASE ClientGetsAck(c)
  BY <1>3, CliReadsPins, Words DEF ClientGetsAck, pins, CliState, PinsHold
<1>4. CASE ClientGetsHelloAck(c)
  BY <1>4, CliReadsPins, Words DEF ClientGetsHelloAck, pins, CliState, PinsHold
<1>5. CASE ClientHasBadCode(c) \/ ClientRefusesCert(c) \/ ClientGivesUp(c)
  <2>1. "idle" \in CliState /\ UNCHANGED pins
    BY <1>5 DEF ClientHasBadCode, ClientRefusesCert, ClientGivesUp, CliState
  <2>2. PICK f \in Frame, out \in {<<>>, <<"Rejected">>} : CliReads(c, f, out, "idle")
    BY <1>5, Words DEF ClientHasBadCode, ClientRefusesCert, ClientGivesUp
  <2>3. ~Greets(out) /\ out \in Seq(Frame)
    BY Silence, Words
  <2> QED
    BY <2>1, <2>2, <2>3, CliReadsPins DEF pins
<1> QED
  BY <1>1, <1>2, <1>3, <1>4, <1>5 DEF ClientStep

LEMMA OtherPins ==
  ASSUME TypeOK, OneEach, PinsHold,
         \/ \E c \in Clients, n \in Conns : Connect(c, n)
         \/ \E c \in Clients, right \in BOOLEAN : TypeCode(c, right)
         \/ \E c \in Clients : ClientLeaves(c)
         \/ \E n \in Conns : Drop(n)
         \/ ServerRestarts
  PROVE  PinsHold'
<1>1. ASSUME NEW c \in Clients, NEW n \in Conns, Connect(c, n) PROVE PinsHold'
  <2>1. /\ cur'[c] = n /\ (Greets(toSrv'[n]) => cliPin[c])
        /\ (cli'[c] = IF cliPin[c] THEN "awaitHelloAck" ELSE "code")
        /\ \A d \in Clients \ {c} : cur'[d] = cur[d] /\ cli'[d] = cli[d] /\ cur[d] # n
        /\ \A m \in Conns \ {n} : /\ toSrv'[m] = toSrv[m] /\ srv'[m] = srv[m]
                                  /\ who'[m] = who[m]
        /\ (srv'[n] = IF srvPin = None THEN "awaitB" ELSE "awaitHello") /\ who'[n] = c
        /\ srvPin' = srvPin /\ cliPin' = cliPin
    BY <1>1, Silence DEF Connect, ClientOn, TypeOK, pins
  <2>2. ASSUME NEW d \in Clients, cur'[d] # None /\ Greets(toSrv'[cur'[d]]) PROVE cliPin'[d]
    <3>1. CASE d = c
      BY <2>1, <2>2, <3>1
    <3>2. CASE d # c
      <4>1. cur'[d] = cur[d] /\ toSrv'[cur[d]] = toSrv[cur[d]] /\ cur[d] # None
        BY <2>1, <2>2, <3>2 DEF TypeOK
      <4>2. cliPin[d]
        BY <2>2, <4>1 DEF PinsHold
      <4> QED
        BY <2>1, <4>2
    <3> QED
      BY <3>1, <3>2
  <2>3. SessionIsMutual'
    BY <2>1 DEF PinsHold, SessionIsMutual
  <2>4. \A m \in Conns : srv'[m] # "none" => who'[m] # None
    BY <2>1, NoneAssumption DEF PinsHold
  <2>5. \A m \in Conns : srv'[m] \in {"awaitAck", "awaitHello", "session"} => srvPin' # None
    BY <2>1 DEF PinsHold
  <2>6. \A d \in Clients : cli'[d] \in {"awaitAck", "awaitHelloAck", "session"} => cliPin'[d]
    BY <2>1 DEF PinsHold
  <2> QED
    BY <2>2, <2>3, <2>4, <2>5, <2>6 DEF PinsHold
<1>2. ASSUME NEW c \in Clients, NEW right \in BOOLEAN, TypeCode(c, right) PROVE PinsHold'
  BY <1>2 DEF TypeCode, PinsHold, SessionIsMutual, pins, TypeOK
<1>3. ASSUME NEW c \in Clients, ClientLeaves(c) PROVE PinsHold'
  <2>0. PICK n \in Conns : n = cur[c]
    BY <1>3 DEF ClientLeaves, TypeOK
  <2>1. /\ cur'[c] = None /\ cli'[c] = "idle" /\ who' = who /\ srv' = srv
        /\ srvPin' = srvPin /\ cliPin' = cliPin
        /\ \A m \in Conns \ {n} : toSrv'[m] = toSrv[m]
        /\ \A d \in Clients \ {c} : cli'[d] = cli[d] /\ cur'[d] = cur[d] /\ cur[d] # n
    BY <1>3, <2>0 DEF ClientLeaves, TypeOK, OneEach, pins
  <2>2. ASSUME NEW d \in Clients, cur'[d] # None /\ Greets(toSrv'[cur'[d]]) PROVE cliPin'[d]
    <3>1. CASE d = c
      BY <2>1, <2>2, <3>1
    <3>2. CASE d # c
      <4>1. cur'[d] = cur[d] /\ toSrv'[cur[d]] = toSrv[cur[d]] /\ cur[d] # None
        BY <2>1, <2>2, <3>2 DEF TypeOK
      <4>2. cliPin[d]
        BY <2>2, <4>1 DEF PinsHold
      <4> QED
        BY <2>1, <4>2
    <3> QED
      BY <3>1, <3>2
  <2> QED
    BY <2>1, <2>2, NoneAssumption DEF PinsHold, SessionIsMutual
<1>4. ASSUME NEW n \in Conns, Drop(n) PROVE PinsHold'
  <2>1. PICK s \in Prefixes(toSrv[n]) : toSrv' = [toSrv EXCEPT ![n] = Append(s, "eof")]
    BY <1>4 DEF Drop
  <2>2. \A m \in Conns : Greets(toSrv'[m]) => Greets(toSrv[m])
    BY <2>1, BreakGreets DEF TypeOK
  <2> QED
    BY <1>4, <2>2 DEF Drop, PinsHold, SessionIsMutual, pins, TypeOK
<1>5. CASE ServerRestarts
  <2>1. \A m \in Conns : ~Greets(toSrv'[m]) /\ srv'[m] = "none"
    BY <1>5, Silence DEF ServerRestarts
  <2> QED
    BY <1>5, <2>1 DEF ServerRestarts, PinsHold, SessionIsMutual, pins, TypeOK
<1> QED
  BY <1>1, <1>2, <1>3, <1>4, <1>5

-----------------------------------------------------------------------------
(* The theorems.                                                            *)

LEMMA PairingStarts == Init => PairingInv
<1> SUFFICES ASSUME Init PROVE PairingInv
  OBVIOUS
<1>1. TypeOK
  BY Words DEF Init, TypeOK, SrvState, CliState
<1>2. OneEach /\ Scripted
  BY NoneAssumption DEF Init, OneEach, Scripted
<1>3. PinsHold
  BY NoneAssumption DEF Init, PinsHold, SessionIsMutual
<1> QED
  BY <1>1, <1>2, <1>3 DEF PairingInv

LEMMA PairingStep == PairingInv /\ [Next]_vars => PairingInv'
<1> SUFFICES ASSUME PairingInv, [Next]_vars PROVE PairingInv'
  OBVIOUS
<1>1. TypeOK /\ OneEach /\ Scripted /\ PinsHold /\ TypeOK'
  BY PairingTyped DEF PairingInv
<1>2. OneEach' /\ Scripted'
  <2>1. CASE UNCHANGED vars
    BY <1>1, <2>1 DEF vars, pins, OneEach, Scripted, HeardByServer, HeardByClient
  <2> QED
    BY <1>1, <2>1, ServerScripted, ClientScripted, ConnectScripted, TypeCodeScripted,
       ClientLeavesScripted, DropScripted, ServerRestartsScripted DEF Next
<1>3. PinsHold'
  <2>1. CASE UNCHANGED vars
    BY <1>1, <2>1 DEF vars, pins, PinsHold, SessionIsMutual
  <2> QED
    BY <1>1, <2>1, ServerPins, ClientPins, OtherPins DEF Next
<1> QED
  BY <1>1, <1>2, <1>3 DEF PairingInv

LEMMA PairingInvariant == Spec => []PairingInv
BY PairingStarts, PairingStep, PTL DEF Spec

\* Every variable of first contact keeps its type, for all clients and connections
\* (pairing.rs of either side, handle_peer, run_one_session).
THEOREM PairingTypesCorrect == Spec => []TypeOK
<1>1. PairingInv => TypeOK
  BY DEF PairingInv
<1> QED
  BY <1>1, PairingInvariant, PTL

\* The two programs of five frames fit each other whatever is mistyped, dropped,
\* cancelled or restarted: no end that entered a connection as the other did is shown
\* a frame it does not expect.
THEOREM FramesComeInPlace == Spec => []NoSurprise
<1>1. PairingInv => NoSurprise
  <2> SUFFICES ASSUME PairingInv, NEW n \in Conns, mode[n] # "mixed"
               PROVE  /\ srv[n] # "none" /\ toSrv[n] # <<>> =>
                           Head(toSrv[n]) \in SrvExpects(srv[n]) \cup {"Rejected", "eof"}
                      /\ \A c \in Clients :
                           cur[c] = n /\ cli[c] # "code" /\ toCli[n] # <<>> =>
                             Head(toCli[n]) \in CliExpects(cli[c]) \cup {"Rejected", "eof"}
    BY DEF NoSurprise
  <2>1. /\ toSrv[n] \in Seq(Frame) /\ toCli[n] \in Seq(Frame) /\ srv[n] \in SrvState
        /\ \A c \in Clients : cli[c] \in CliState
    BY DEF PairingInv, TypeOK
  <2>2. ASSUME srv[n] # "none", toSrv[n] # <<>>
        PROVE  Head(toSrv[n]) \in SrvExpects(srv[n]) \cup {"Rejected", "eof"}
    <3>1. HeardByServer(n)
      BY <2>2 DEF PairingInv, Scripted
    <3>2. \/ Head(toSrv[n]) \in {"eof", "Rejected"}
          \/ SrvHeard(srv[n]) + 1 <= 4 /\ Head(toSrv[n]) = CliScript[SrvHeard(srv[n]) + 1]
      BY <2>1, <2>2, <3>1, TailFollows, TailCloses, Bounds, Scripts, SMTT(30) DEF HeardByServer
    <3> QED
      BY <2>1, <2>2, <3>2 DEF SrvHeard, CliScript, SrvExpects, SrvState
  <2>3. ASSUME NEW c \in Clients, cur[c] = n, cli[c] # "code", toCli[n] # <<>>
        PROVE  Head(toCli[n]) \in CliExpects(cli[c]) \cup {"Rejected", "eof"}
    <3>1. HeardByClient(n, c) /\ cli[c] # "idle"
      BY <2>3, NoneAssumption DEF PairingInv, Scripted, OneEach
    <3>2. \/ Head(toCli[n]) \in {"eof", "Rejected"}
          \/ CliHeard(cli[c]) + 1 <= 4 /\ Head(toCli[n]) = SrvScript[CliHeard(cli[c]) + 1]
      BY <2>1, <2>3, <3>1, TailFollows, TailCloses, Bounds, Scripts DEF HeardByClient
    <3> QED
      BY <2>1, <2>3, <3>1, <3>2 DEF CliHeard, SrvScript, CliExpects, CliState
  <2> QED
    BY <2>2, <2>3
<1> QED
  BY <1>1, PairingInvariant, PTL

\* Nor do such ends ever wait for each other, although no read has a timeout.
THEOREM EndsNeverWaitForEachOther == Spec => []SameModeProgress
<1>1. PairingInv => SameModeProgress
  <2> SUFFICES ASSUME PairingInv, NEW n \in Conns, mode[n] # "mixed", Standoff(n)
               PROVE  FALSE
    BY DEF SameModeProgress
  <2>1. PICK c \in Clients : cur[c] = n /\ cli[c] \notin {"code", "session"}
    BY DEF Standoff
  <2>2. /\ srv[n] \in SrvState \ {"none", "session"} /\ cli[c] \in CliState \ {"code", "session", "idle"}
        /\ toSrv[n] = <<>> /\ toCli[n] = <<>> /\ toSrv[n] \in Seq(Frame) /\ toCli[n] \in Seq(Frame)
    BY <2>1, NoneAssumption DEF Standoff, PairingInv, TypeOK, OneEach
  <2>3. ~Ended(toSrv[n]) /\ ~Ended(toCli[n])
    BY <2>2 DEF Ended
  <2>4. /\ Follows(toSrv[n], CliScript, SrvHeard(srv[n]), CliSaid(cli[c]))
        /\ Follows(toCli[n], SrvScript, CliHeard(cli[c]), SrvSaid(srv[n]))
    <3>1. HeardByServer(n) /\ HeardByClient(n, c)
      BY <2>1, <2>2 DEF PairingInv, Scripted
    <3>2. \A d \in Clients : cur[d] = n => d = c
      BY <2>1, NoneAssumption DEF PairingInv, OneEach
    <3> QED
      BY <2>3, <3>1, <3>2 DEF HeardByServer, HeardByClient, Closed
  <2>5. SrvHeard(srv[n]) = CliSaid(cli[c]) /\ CliHeard(cli[c]) = SrvSaid(srv[n])
    <3>1. Len(toSrv[n]) = 0 /\ Len(toCli[n]) = 0
      BY <2>2, EmptySeq
    <3> QED
      BY <2>4, <3>1, Bounds DEF Follows
  <2> QED
    BY <2>2, <2>5 DEF SrvHeard, SrvSaid, CliHeard, CliSaid, SrvState, CliState
<1> QED
  BY <1>1, PairingInvariant, PTL

\* A session is between two ends that have stored a pin (pairing.rs of either side:
\* each stores before it sends its last frame), whatever was overtaken or cut off.
THEOREM SessionsStandOnTwoPins == Spec => []SessionIsMutual
<1>1. PairingInv => SessionIsMutual
  BY DEF PairingInv, PinsHold
<1> QED
  BY <1>1, PairingInvariant, PTL
=============================================================================
