------------------------- MODULE ClipboardSyncProofs -------------------------
(*************************************************************************)
(* That a payload cut short by a full channel is never pasted: from the  *)
(* clipboard task of one side to the reassembler of the other the chunks *)
(* under way are in order, unless clip_in has dropped one.  And that     *)
(* texts copied one at a time, never one that was copied before, arrive. *)
(* For all texts, sizes and capacities.                                  *)
(*************************************************************************)
EXTENDS ClipboardSync, SequenceTheorems, TLAPS

-----------------------------------------------------------------------------
(* Orderly chunks.                                                          *)

\* d may come after c: it begins a payload, or is the next chunk of the same.
Continues(c, d) == First(d) \/ (d.text = c.text /\ d.n = c.n + 1)

Orderly(q) ==
  /\ q # <<>> => First(q[1])
  /\ \A i \in 1 .. Len(q) - 1 : Continues(q[i], q[i + 1])
  /\ \A i \in 1 .. Len(q) : q[i].text # Garbled

\* All that a side has sent, or is sending, and its peer has not assembled yet.
MacStream == (buf["win"] \o wire["mac"]) \o sending["mac"]
WinStream == ((buf["mac"] \o clipIn) \o wire["win"]) \o sending["win"]

\* What a reassembler holds is the beginning of one payload.
OneRun(b) == \A i \in 1 .. Len(b) : b[i].text = b[1].text /\ b[i].n = i

Clean(q) == \A i \in 1 .. Len(q) : q[i] # Garbled

EventsAreText == \A s \in Side : events[s] \in Seq(Text \ {Nothing})

NothingTorn ==
  /\ Orderly(MacStream) /\ Orderly(WinStream)
  /\ \A s \in Side : /\ OneRun(buf[s]) /\ Clean(events[s]) /\ Clean(pending[s])
                     /\ clip[s] # Garbled

ClipTypes == TypeOK /\ EventsAreText
ClipInv == ~inLost => NothingTorn

-----------------------------------------------------------------------------
(* Sequences.                                                               *)

LEMMA Lengths ==
  ASSUME NEW S, NEW q \in Seq(S)
  PROVE  /\ Len(q) \in Nat /\ DOMAIN q = 1 .. Len(q)
         /\ (q = <<>> <=> Len(q) = 0)
         /\ \A i \in 1 .. Len(q) : q[i] \in S
<1>1. Len(q) \in Nat /\ DOMAIN q = 1 .. Len(q) /\ \A i \in 1 .. Len(q) : q[i] \in S
  BY LenProperties, ElementOfSeq
<1>2. q # <<>> => Len(q) # 0
  BY EmptySeq
<1>3. Len(<<>>) = 0
  BY EmptySeq
<1>4. q = <<>> => Len(q) = 0
  BY <1>3, Zenon
<1> QED
  BY <1>1, <1>2, <1>4

LEMMA HeadTail ==
  ASSUME NEW S, NEW q \in Seq(S), q # <<>>
  PROVE  /\ Tail(q) \in Seq(S) /\ Len(q) \in Nat \ {0} /\ Len(Tail(q)) = Len(q) - 1
         /\ Head(q) = q[1] /\ q[1] \in S
         /\ \A i \in 1 .. Len(q) - 1 : Tail(q)[i] = q[i + 1]
<1>1. Tail(q) \in Seq(S) /\ Len(Tail(q)) = Len(q) - 1
      /\ \A i \in 1 .. Len(Tail(q)) : Tail(q)[i] = q[i + 1]
  BY HeadTailProperties
<1>2. Len(q) \in Nat \ {0} /\ q[1] \in S
  BY Lengths
<1> QED
  BY <1>1, <1>2

LEMMA AppendAt ==
  ASSUME NEW S, NEW q \in Seq(S), NEW c \in S
  PROVE  /\ Append(q, c) \in Seq(S) /\ Len(q) \in Nat /\ Len(Append(q, c)) = Len(q) + 1
         /\ \A i \in 1 .. Len(q) : Append(q, c)[i] = q[i]
         /\ Append(q, c)[Len(q) + 1] = c
OBVIOUS

\* A chunk that moves from one queue to the one before it.
LEMMA Moves ==
  ASSUME NEW S, NEW p \in Seq(S), NEW q \in Seq(S), q # <<>>
  PROVE  Append(p, Head(q)) \o Tail(q) = p \o q
<1> DEFINE a == Append(p, Head(q))
           t == Tail(q)
<1>1. /\ t \in Seq(S) /\ Len(t) = Len(q) - 1 /\ Len(q) \in Nat \ {0} /\ Head(q) = q[1]
      /\ Head(q) \in S /\ \A i \in 1 .. Len(q) - 1 : t[i] = q[i + 1]
  BY HeadTail
<1>2. /\ a \in Seq(S) /\ Len(p) \in Nat /\ Len(a) = Len(p) + 1
      /\ \A i \in 1 .. Len(p) : a[i] = p[i]
      /\ a[Len(p) + 1] = q[1]
  BY <1>1, AppendAt
<1>3. /\ a \o t \in Seq(S) /\ Len(a \o t) = Len(a) + Len(t)
      /\ \A i \in 1 .. Len(a) + Len(t) : (a \o t)[i] = IF i <= Len(a) THEN a[i] ELSE t[i - Len(a)]
  BY <1>1, <1>2, ConcatProperties
<1>4. /\ p \o q \in Seq(S) /\ Len(p \o q) = Len(p) + Len(q)
      /\ \A i \in 1 .. Len(p) + Len(q) : (p \o q)[i] = IF i <= Len(p) THEN p[i] ELSE q[i - Len(p)]
  BY ConcatProperties
<1> DEFINE l == a \o t
           r == p \o q
<1> HIDE DEF a, t, l, r
<1>5. Len(l) = Len(r)
  BY <1>1, <1>2, <1>3, <1>4 DEF l, r
<1>6. ASSUME NEW i \in 1 .. Len(l) PROVE l[i] = r[i]
  <2>0. i \in 1 .. Len(p) + Len(q) /\ i \in 1 .. Len(a) + Len(t)
    BY <1>1, <1>2, <1>3, <1>6 DEF l
  <2>1. CASE i <= Len(p)
    BY <2>0, <2>1, <1>2, <1>3, <1>4 DEF l, r
  <2>2. CASE i = Len(p) + 1
    <3>1. l[i] = q[1]
      BY <2>0, <2>2, <1>2, <1>3 DEF l
    <3>2. r[i] = q[i - Len(p)] /\ i - Len(p) = 1
      BY <2>0, <2>2, <1>2, <1>4 DEF r
    <3> QED
      BY <3>1, <3>2
  <2>3. CASE i > Len(p) + 1
    <3>1. /\ i - Len(a) \in 1 .. Len(q) - 1 /\ (i - Len(a)) + 1 = i - Len(p)
      BY <2>0, <2>3, <1>1, <1>2
    <3>2. l[i] = t[i - Len(a)]
      BY <2>0, <2>3, <1>2, <1>3 DEF l
    <3>3. r[i] = q[i - Len(p)]
      BY <2>0, <2>3, <1>2, <1>4 DEF r
    <3> QED
      BY <3>1, <3>2, <3>3, <1>1
  <2> QED
    BY <2>0, <2>1, <2>2, <2>3, <1>2
<1>7. l = r
  BY <1>3, <1>4, <1>5, <1>6, SeqEqual DEF l, r
<1> QED
  BY <1>7 DEF l, r, a, t

\* The front of a queue that others follow.
LEMMA TailOfConcat ==
  ASSUME NEW S, NEW p \in Seq(S), NEW q \in Seq(S), p # <<>>
  PROVE  p \o q # <<>> /\ Head(p \o q) = Head(p) /\ Tail(p \o q) = Tail(p) \o q
<1>1. /\ Tail(p) \in Seq(S) /\ Len(p) \in Nat \ {0} /\ Len(Tail(p)) = Len(p) - 1
      /\ Head(p) = p[1] /\ \A i \in 1 .. Len(p) - 1 : Tail(p)[i] = p[i + 1]
  BY HeadTail
<1>2. /\ p \o q \in Seq(S) /\ Len(p \o q) = Len(p) + Len(q) /\ Len(q) \in Nat
      /\ \A i \in 1 .. Len(p) + Len(q) : (p \o q)[i] = IF i <= Len(p) THEN p[i] ELSE q[i - Len(p)]
  BY ConcatProperties, Lengths
<1>3. p \o q # <<>>
  BY <1>1, <1>2, Lengths
<1>4. /\ Tail(p \o q) \in Seq(S) /\ Len(Tail(p \o q)) = Len(p \o q) - 1
      /\ Head(p \o q) = (p \o q)[1]
      /\ \A i \in 1 .. Len(p \o q) - 1 : Tail(p \o q)[i] = (p \o q)[i + 1]
  BY <1>2, <1>3, HeadTail
<1>5. /\ Tail(p) \o q \in Seq(S) /\ Len(Tail(p) \o q) = Len(p) - 1 + Len(q)
      /\ \A i \in 1 .. Len(p) - 1 + Len(q) :
           (Tail(p) \o q)[i] = IF i <= Len(p) - 1 THEN Tail(p)[i] ELSE q[i - (Len(p) - 1)]
  BY <1>1, ConcatProperties
<1> DEFINE l == Tail(p \o q)
           r == Tail(p) \o q
<1>6. ASSUME NEW i \in 1 .. Len(l) PROVE l[i] = r[i]
  <2>1. l[i] = (p \o q)[i + 1] /\ i + 1 \in 1 .. Len(p) + Len(q) /\ i \in 1 .. Len(p) - 1 + Len(q)
    BY <1>1, <1>2, <1>4
  <2>2. CASE i <= Len(p) - 1
    BY <2>1, <2>2, <1>1, <1>2, <1>5
  <2>3. CASE i > Len(p) - 1
    <3>1. (i + 1) - Len(p) = i - (Len(p) - 1)
      BY <1>1
    <3>2. (p \o q)[i + 1] = q[(i + 1) - Len(p)]
      BY <2>1, <2>3, <1>1, <1>2
    <3>3. r[i] = q[i - (Len(p) - 1)]
      BY <2>1, <2>3, <1>1, <1>5
    <3> QED
      BY <2>1, <3>1, <3>2, <3>3
  <2> QED
    BY <2>2, <2>3, <1>1
<1>7. Len(l) = Len(r)
  BY <1>1, <1>2, <1>4, <1>5
<1>8. l = r
  BY <1>4, <1>5, <1>6, <1>7, SeqEqual
<1>9. Head(p \o q) = Head(p)
  BY <1>1, <1>2, <1>4
<1> QED
  BY <1>3, <1>8, <1>9

-----------------------------------------------------------------------------
(* Chunks and payloads.                                                     *)

LEMMA ChunkType ==
  ASSUME NEW c \in Chunk
  PROVE  /\ c.text \in Text \ {Nothing} /\ c.n \in Nat \ {0}
         /\ Parts(c.text) \in Nat \ {0} /\ c.n <= Parts(c.text)
         /\ c = [text |-> c.text, n |-> c.n]
BY ConstantsAssumption DEF Chunk, Parts, Text

\* Chunker::split gives the chunks of one payload, in order.
LEMMA SplitChunks ==
  ASSUME NEW t \in Text \ {Nothing}
  PROVE  /\ Split(t) \in Seq(Chunk) /\ Len(Split(t)) = Parts(t) /\ Parts(t) \in Nat \ {0}
         /\ \A i \in 1 .. Parts(t) : Split(t)[i] = [text |-> t, n |-> i]
<1>1. Parts(t) \in Nat \ {0}
  BY ConstantsAssumption DEF Parts, Text
<1>2. \A i \in 1 .. Parts(t) : [text |-> t, n |-> i] \in Chunk
  BY <1>1 DEF Chunk
<1>3. Split(t) \in [1 .. Parts(t) -> Chunk]
  BY <1>2 DEF Split
<1>4. Split(t) \in Seq(Chunk) /\ Len(Split(t)) = Parts(t)
  BY <1>1, <1>3
<1> QED
  BY <1>1, <1>4 DEF Split

-----------------------------------------------------------------------------
(* What keeps a stream in order.                                            *)

LEMMA NoChunkIsOrderly == Orderly(<<>>)
<1>1. Len(<<>>) = 0
  BY EmptySeq
<1> QED
  BY <1>1 DEF Orderly

\* The rest of a payload that is given up was last in its stream.
LEMMA PrefixIsOrderly ==
  ASSUME NEW q \in Seq(Chunk), NEW r \in Seq(Chunk), Orderly(q \o r)
  PROVE  Orderly(q)
<1>1. /\ Len(q \o r) = Len(q) + Len(r) /\ Len(q) \in Nat /\ Len(r) \in Nat
      /\ \A i \in 1 .. Len(q) : (q \o r)[i] = q[i]
  BY ConcatProperties, Lengths
<1>2. q # <<>> => Len(q) # 0 /\ q \o r # <<>>
  BY <1>1, ConcatProperties, Lengths
<1>3. q # <<>> => First(q[1])
  BY <1>1, <1>2 DEF Orderly
<1>4. \A i \in 1 .. Len(q) - 1 : Continues(q[i], q[i + 1])
  BY <1>1 DEF Orderly
<1>5. \A i \in 1 .. Len(q) : q[i].text # Garbled
  BY <1>1 DEF Orderly
<1> QED
  BY <1>3, <1>4, <1>5 DEF Orderly

\* A payload that begins resets the reassembler: what came before does not matter.
LEMMA SuffixIsOrderly ==
  ASSUME NEW q \in Seq(Chunk), NEW r \in Seq(Chunk), Orderly(q \o r),
         r # <<>> => First(r[1])
  PROVE  Orderly(r)
<1>1. /\ Len(q \o r) = Len(q) + Len(r) /\ Len(q) \in Nat /\ Len(r) \in Nat
      /\ \A i \in 1 .. Len(r) : (q \o r)[Len(q) + i] = r[i]
  <2>1. /\ Len(q \o r) = Len(q) + Len(r) /\ Len(q) \in Nat /\ Len(r) \in Nat
        /\ \A i \in 1 .. Len(q) + Len(r) :
             (q \o r)[i] = IF i <= Len(q) THEN q[i] ELSE r[i - Len(q)]
    BY ConcatProperties, Lengths
  <2>2. ASSUME NEW i \in 1 .. Len(r) PROVE (q \o r)[Len(q) + i] = r[i]
    <3>1. /\ Len(q) + i \in 1 .. Len(q) + Len(r) /\ ~(Len(q) + i <= Len(q))
          /\ (Len(q) + i) - Len(q) = i
      BY <2>1
    <3> QED
      BY <2>1, <3>1
  <2> QED
    BY <2>1, <2>2
<1>2. ASSUME NEW i \in 1 .. Len(r) - 1 PROVE Continues(r[i], r[i + 1])
  <2>1. /\ Len(q) + i \in 1 .. Len(q \o r) - 1 /\ (Len(q) + i) + 1 = Len(q) + (i + 1)
        /\ i \in 1 .. Len(r) /\ i + 1 \in 1 .. Len(r)
    BY <1>1
  <2>2. Continues((q \o r)[Len(q) + i], (q \o r)[(Len(q) + i) + 1])
    BY <2>1 DEF Orderly
  <2> QED
    BY <1>1, <2>1, <2>2
<1>3. ASSUME NEW i \in 1 .. Len(r) PROVE r[i].text # Garbled
  <2>1. Len(q) + i \in 1 .. Len(q \o r)
    BY <1>1
  <2> QED
    BY <1>1, <2>1 DEF Orderly
<1> QED
  BY <1>2, <1>3 DEF Orderly

\* A payload whose first chunk comes behind others.
LEMMA JoinIsOrderly ==
  ASSUME NEW q \in Seq(Chunk), NEW r \in Seq(Chunk), Orderly(q), Orderly(r)
  PROVE  Orderly(q \o r)
<1>1. /\ Len(q \o r) = Len(q) + Len(r) /\ Len(q) \in Nat /\ Len(r) \in Nat
      /\ \A i \in 1 .. Len(q) + Len(r) :
           (q \o r)[i] = IF i <= Len(q) THEN q[i] ELSE r[i - Len(q)]
      /\ (q # <<>> <=> Len(q) # 0) /\ (r # <<>> <=> Len(r) # 0)
  BY ConcatProperties, Lengths
<1> DEFINE z == q \o r
<1>2. ASSUME z # <<>> PROVE First(z[1])
  <2>1. Len(z) # 0
    BY <1>2, Lengths, ConcatProperties
  <2>2. CASE q # <<>>
    BY <2>2, <1>1 DEF Orderly
  <2>3. CASE q = <<>>
    <3>1. Len(q) = 0 /\ r # <<>> /\ 1 \in 1 .. Len(q) + Len(r)
      BY <2>1, <2>3, <1>1
    <3>2. z[1] = r[1]
      BY <3>1, <1>1
    <3> QED
      BY <3>1, <3>2 DEF Orderly
  <2> QED
    BY <2>2, <2>3
<1>3. ASSUME NEW i \in 1 .. Len(z) - 1 PROVE Continues(z[i], z[i + 1])
  <2>1. i \in 1 .. Len(q) + Len(r) /\ i + 1 \in 1 .. Len(q) + Len(r)
    BY <1>1
  <2>2. CASE i <= Len(q) - 1
    <3>1. z[i] = q[i] /\ z[i + 1] = q[i + 1]
      BY <2>1, <2>2, <1>1
    <3> QED
      BY <2>1, <2>2, <3>1, <1>1 DEF Orderly
  <2>3. CASE i = Len(q)
    <3>1. z[i + 1] = r[(i + 1) - Len(q)] /\ (i + 1) - Len(q) = 1
      BY <2>1, <2>3, <1>1
    <3>2. r # <<>>
      BY <2>1, <2>3, <1>1
    <3> QED
      BY <3>1, <3>2 DEF Orderly, Continues
  <2>4. CASE i > Len(q)
    <3>1. z[i] = r[i - Len(q)] /\ z[i + 1] = r[(i + 1) - Len(q)]
      BY <2>1, <2>4, <1>1
    <3>2. (i + 1) - Len(q) = (i - Len(q)) + 1 /\ i - Len(q) \in 1 .. Len(r) - 1
      BY <2>1, <2>4, <1>1
    <3> QED
      BY <3>1, <3>2 DEF Orderly
  <2> QED
    BY <2>1, <2>2, <2>3, <2>4, <1>1
<1>4. ASSUME NEW i \in 1 .. Len(z) PROVE z[i].text # Garbled
  <2>1. i \in 1 .. Len(q) + Len(r)
    BY <1>1
  <2>2. CASE i <= Len(q)
    BY <2>1, <2>2, <1>1 DEF Orderly
  <2>3. CASE i > Len(q)
    <3>1. z[i] = r[i - Len(q)] /\ i - Len(q) \in 1 .. Len(r)
      BY <2>1, <2>3, <1>1
    <3> QED
      BY <3>1 DEF Orderly
  <2> QED
    BY <2>1, <2>2, <2>3, <1>1
<1> QED
  BY <1>2, <1>3, <1>4 DEF Orderly

\* A payload that has just been split.
LEMMA SplitIsOrderly ==
  ASSUME NEW t \in Text \ {Nothing}, t # Garbled
  PROVE  Orderly(Split(t))
<1> DEFINE z == Split(t)
<1>1. /\ z \in Seq(Chunk) /\ Len(z) = Parts(t) /\ Parts(t) \in Nat \ {0}
      /\ \A i \in 1 .. Parts(t) : z[i] = [text |-> t, n |-> i]
  BY SplitChunks
<1> HIDE DEF z
<1>2. First(z[1])
  BY <1>1 DEF First
<1>3. \A i \in 1 .. Len(z) - 1 : Continues(z[i], z[i + 1])
  BY <1>1 DEF Continues
<1>4. \A i \in 1 .. Len(z) : z[i].text # Garbled
  BY <1>1
<1>5. Orderly(z)
  BY <1>2, <1>3, <1>4 DEF Orderly
<1> QED
  BY <1>5 DEF z

-----------------------------------------------------------------------------
(* Reassembler::ingest on a stream in order.                                *)

\* What Grown makes of the front of a stream.
LEMMA GrownType ==
  ASSUME NEW b \in Seq(Chunk), NEW c \in Chunk
  PROVE  Grown(b, c) \in Seq(Chunk) /\ Grown(b, c) # <<>>
<1>1. Append(b, c) \in Seq(Chunk) /\ Append(b, c) # <<>>
  BY AppendProperties
<1>2. <<c>> \in Seq(Chunk) /\ <<c>> # <<>>
  OBVIOUS
<1> QED
  BY <1>1, <1>2 DEF Grown

\* The chunk that comes behind a payload in progress begins another, or is the
\* next one of the same.
LEMMA NextChunk ==
  ASSUME NEW b \in Seq(Chunk), NEW r \in Seq(Chunk), r # <<>>, Orderly(b \o r), OneRun(b),
         ~First(r[1])
  PROVE  /\ b # <<>> /\ Len(b) \in Nat \ {0}
         /\ r[1].text = b[1].text /\ r[1].n = Len(b) + 1
<1>1. /\ Len(b \o r) = Len(b) + Len(r) /\ Len(b) \in Nat /\ Len(r) \in Nat \ {0}
      /\ \A i \in 1 .. Len(b) + Len(r) :
           (b \o r)[i] = IF i <= Len(b) THEN b[i] ELSE r[i - Len(b)]
      /\ (b # <<>> <=> Len(b) # 0)
  BY ConcatProperties, Lengths
<1>2. (b \o r)[Len(b) + 1] = r[1]
  <2>1. /\ Len(b) + 1 \in 1 .. Len(b) + Len(r) /\ ~(Len(b) + 1 <= Len(b))
        /\ (Len(b) + 1) - Len(b) = 1
    BY <1>1
  <2> QED
    BY <1>1, <2>1
<1>3. b # <<>>
  <2>1. SUFFICES ASSUME b = <<>> PROVE FALSE
    OBVIOUS
  <2>2. Len(b) = 0
    BY <2>1, <1>1
  <2>3. b \o r # <<>>
    BY ConcatEqualIffEmpty
  <2>4. (b \o r)[1] = r[1]
    BY <2>2, <1>2
  <2> QED
    BY <2>3, <2>4 DEF Orderly
<1>4. Len(b) \in 1 .. Len(b \o r) - 1 /\ Len(b) \in 1 .. Len(b)
  BY <1>1, <1>3
<1>5. Continues((b \o r)[Len(b)], (b \o r)[Len(b) + 1])
  BY <1>4 DEF Orderly
<1>6. (b \o r)[Len(b)] = b[Len(b)]
  BY <1>1, <1>4
<1>7. Continues(b[Len(b)], r[1])
  BY <1>2, <1>5, <1>6
<1>8. b[Len(b)].text = b[1].text /\ b[Len(b)].n = Len(b)
  BY <1>4 DEF OneRun
<1> QED
  BY <1>1, <1>3, <1>7, <1>8 DEF Continues

\* What is behind the chunk that ingest takes.
LEMMA GrownIsOneRun ==
  ASSUME NEW b \in Seq(Chunk), NEW r \in Seq(Chunk), r # <<>>, Orderly(b \o r), OneRun(b)
  PROVE  /\ OneRun(Grown(b, r[1])) /\ Grown(b, r[1])[1].text = r[1].text
         /\ Len(Grown(b, r[1])) = r[1].n
         /\ Orderly(Grown(b, r[1]) \o Tail(r))
<1>1. /\ r[1] \in Chunk /\ Tail(r) \in Seq(Chunk) /\ Head(r) = r[1]
  BY HeadTail
<1> DEFINE c == r[1]
<1>2. CASE First(c)
  <2>1. Grown(b, c) = <<c>>
    BY <1>2 DEF Grown
  <2>2. Append(<<>>, c) = <<c>> /\ <<>> \in Seq(Chunk)
    OBVIOUS
  <2>3. <<c>> \o Tail(r) = r
    <3>1. Append(<<>>, Head(r)) \o Tail(r) = <<>> \o r
      BY <2>2, Moves
    <3> QED
      BY <3>1, <2>2, <1>1, ConcatEmptySeq
  <2>4. Orderly(r)
    BY <1>2, SuffixIsOrderly
  <2>5. OneRun(<<c>>) /\ Len(<<c>>) = c.n /\ <<c>>[1] = c
    BY <1>2 DEF First, OneRun
  <2> QED
    BY <2>1, <2>3, <2>4, <2>5
<1>3. CASE ~First(c)
  <2>1. /\ b # <<>> /\ Len(b) \in Nat \ {0} /\ c.text = b[1].text /\ c.n = Len(b) + 1
    BY <1>3, NextChunk
  <2>2. Grown(b, c) = Append(b, c)
    BY <1>3 DEF Grown
  <2>3. Append(b, c) \o Tail(r) = b \o r
    BY <1>1, Moves
  <2> DEFINE g == Append(b, c)
  <2>4. /\ Len(g) = Len(b) + 1 /\ (\A i \in 1 .. Len(b) : g[i] = b[i]) /\ g[Len(b) + 1] = c
    BY <1>1, AppendAt
  <2> HIDE DEF g
  <2>5. g[1] = b[1]
    BY <2>1, <2>4
  <2>6. ASSUME NEW i \in 1 .. Len(g) PROVE g[i].text = g[1].text /\ g[i].n = i
    <3>1. CASE i <= Len(b)
      BY <2>1, <2>4, <2>5, <3>1 DEF OneRun
    <3>2. CASE i = Len(b) + 1
      BY <2>1, <2>4, <2>5, <3>2
    <3> QED
      BY <2>1, <2>4, <3>1, <3>2
  <2>7. OneRun(g)
    BY <2>6 DEF OneRun
  <2>8. Orderly(g \o Tail(r))
    BY <2>3 DEF g
  <2> QED
    BY <2>1, <2>2, <2>4, <2>5, <2>7, <2>8 DEF g
<1> QED
  BY <1>2, <1>3

\* What is reassembled from a stream in order is the payload that was split.
LEMMA LastCompletes ==
  ASSUME NEW b \in Seq(Chunk), NEW r \in Seq(Chunk), r # <<>>, Orderly(b \o r), OneRun(b),
         Last(r[1])
  PROVE  /\ Assembled(Grown(b, r[1])) = r[1].text /\ r[1].text # Garbled
         /\ Orderly(Tail(r))
<1> DEFINE c == r[1]
           g == Grown(b, c)
<1>1. /\ c \in Chunk /\ Tail(r) \in Seq(Chunk) /\ Head(r) = c
      /\ Len(r) \in Nat \ {0} /\ Len(Tail(r)) = Len(r) - 1
      /\ \A i \in 1 .. Len(r) - 1 : Tail(r)[i] = r[i + 1]
  BY HeadTail
<1>2. /\ OneRun(g) /\ g[1].text = c.text /\ Len(g) = c.n /\ Orderly(g \o Tail(r))
  BY GrownIsOneRun
<1>3. g \in Seq(Chunk) /\ g # <<>>
  BY <1>1, GrownType
<1>4. /\ c.text \in Text \ {Nothing} /\ c.n = Parts(c.text) /\ c.n \in Nat \ {0}
  BY <1>1, ChunkType DEF Last
<1> HIDE DEF g, c
<1>5. g = Split(c.text)
  <2>1. /\ Split(c.text) \in Seq(Chunk) /\ Len(Split(c.text)) = Len(g)
        /\ \A i \in 1 .. Len(g) : Split(c.text)[i] = [text |-> c.text, n |-> i]
    BY <1>2, <1>4, SplitChunks
  <2>2. ASSUME NEW i \in 1 .. Len(g) PROVE g[i] = Split(c.text)[i]
    <3>1. g[i] \in Chunk /\ g[i].text = c.text /\ g[i].n = i
      BY <1>2, <1>3, Lengths DEF OneRun
    <3>2. g[i] = [text |-> c.text, n |-> i]
      BY <3>1, ChunkType
    <3> QED
      BY <3>2, <2>1
  <2> QED
    BY <1>3, <2>1, <2>2, SeqEqual
<1>6. c.text # Garbled
  <2>1. /\ Len(g \o Tail(r)) = Len(g) + Len(Tail(r)) /\ Len(Tail(r)) \in Nat
        /\ (g \o Tail(r))[1] = IF 1 <= Len(g) THEN g[1] ELSE Tail(r)[1 - Len(g)]
    BY <1>1, <1>2, <1>3, <1>4, ConcatProperties, Lengths
  <2>2. (g \o Tail(r))[1] = g[1] /\ 1 \in 1 .. Len(g \o Tail(r))
    BY <2>1, <1>2, <1>4
  <2> QED
    BY <2>2, <1>2 DEF Orderly
<1>7. Assembled(g) = c.text
  BY <1>2, <1>5 DEF Assembled
<1>8. Tail(r) # <<>> => First(Tail(r)[1])
  <2> DEFINE u == Tail(r)
             d == u[1]
  <2> SUFFICES ASSUME u # <<>>, ~First(d) PROVE FALSE
    OBVIOUS
  <2>1. u \in Seq(Chunk) /\ Orderly(g \o u)
    BY <1>1, <1>2
  <2> HIDE DEF u
  <2>2. d.text = g[1].text /\ d.n = Len(g) + 1
    BY <2>1, <1>2, <1>3, NextChunk
  <2>3. d \in Chunk
    BY <2>1, HeadTail
  <2> HIDE DEF d
  <2>4. d.n <= c.n
    BY <2>2, <2>3, <1>2, <1>4, ChunkType
  <2> QED
    BY <2>2, <2>4, <1>2, <1>4
<1>9. Orderly(Tail(r))
  BY <1>1, <1>2, <1>3, <1>8, SuffixIsOrderly
<1> QED
  BY <1>6, <1>7, <1>9 DEF g, c

\* All that ingest does to its stream when the head of it starts or goes on.
LEMMA IngestKeepsOrder ==
  ASSUME NEW b \in Seq(Chunk), NEW r \in Seq(Chunk), r # <<>>, Orderly(b \o r), OneRun(b),
         NEW b2, b2 = IF Last(r[1]) THEN <<>> ELSE Grown(b, r[1])
  PROVE  OneRun(b2) /\ Orderly(b2 \o Tail(r))
<1>1. Tail(r) \in Seq(Chunk)
  BY HeadTail
<1>2. CASE Last(r[1])
  <2>1. Orderly(Tail(r))
    BY <1>2, LastCompletes
  <2>2. b2 = <<>> /\ b2 \o Tail(r) = Tail(r)
    BY <1>1, <1>2, ConcatEmptySeq
  <2>3. OneRun(<<>>)
    BY EmptySeq DEF OneRun
  <2> QED
    BY <2>1, <2>2, <2>3
<1>3. CASE ~Last(r[1])
  BY <1>3, GrownIsOneRun
<1> QED
  BY <1>2, <1>3

-----------------------------------------------------------------------------
(* Types.                                                                   *)

LEMMA AssembledType ==
  ASSUME NEW b \in Seq(Chunk), NEW c \in Chunk
  PROVE  Assembled(Grown(b, c)) \in Text \ {Nothing}
<1>1. Grown(b, c)[1] \in Chunk
  BY GrownType, HeadTail
<1> QED
  BY <1>1, ChunkType, ConstantsAssumption DEF Assembled, Text

\* What ingest does to the reassemblers.
LEMMA IngestType ==
  ASSUME TypeOK, NEW s \in Side, NEW c \in Chunk, Ingests(s, c) \/ Discards(s, c)
  PROVE  /\ buf' \in [Side -> Seq(Chunk)] /\ buf'[Peer(s)] = buf[Peer(s)]
         /\ \A t : Completes(s, c, t) => t \in Text \ {Nothing}
<1>1. buf \in [Side -> Seq(Chunk)] /\ Peer(s) \in Side /\ Peer(s) # s
  BY DEF TypeOK, Side, Peer
<1>2. Grown(buf[s], c) \in Seq(Chunk) /\ <<>> \in Seq(Chunk)
  BY <1>1, GrownType
<1>3. Ingests(s, c) => buf' \in [Side -> Seq(Chunk)] /\ buf'[Peer(s)] = buf[Peer(s)]
  <2>1. SUFFICES ASSUME Ingests(s, c)
                 PROVE  buf' \in [Side -> Seq(Chunk)] /\ buf'[Peer(s)] = buf[Peer(s)]
    OBVIOUS
  <2>2. PICK b \in Seq(Chunk) : buf' = [buf EXCEPT ![s] = b]
    BY <1>2, <2>1 DEF Ingests
  <2> QED
    BY <1>1, <2>2
<1>4. buf' = buf => buf' \in [Side -> Seq(Chunk)] /\ buf'[Peer(s)] = buf[Peer(s)]
  BY <1>1
<1>5. \A t : Completes(s, c, t) => t \in Text \ {Nothing}
  BY <1>1, AssembledType DEF Completes
<1> QED
  BY <1>3, <1>4, <1>5 DEF Discards

LEMMA PutType ==
  ASSUME TypeOK, NEW s \in Side, NEW t \in Text, Put(s, t)
  PROVE  clip' \in [Side -> Text] /\ news' \in [Side -> 0..MaxNews]
BY ConstantsAssumption, SMTT(30) DEF TypeOK, Put, Side

LEMMA TypesHold == Spec => []ClipTypes
<1>1. Init => TypeOK /\ EventsAreText
  <2> SUFFICES ASSUME Init PROVE TypeOK /\ EventsAreText
    OBVIOUS
  <2>1. Empty \in [Side -> Seq(Text)] /\ Empty \in [Side -> Seq(Chunk)]
        /\ (\A s \in Side : Empty[s] \in Seq(Text \ {Nothing}) /\ Len(Empty[s]) = 0)
    BY EmptySeq DEF Empty
  <2>2. <<>> \in Seq(Chunk) /\ Len(<<>>) = 0
    BY EmptySeq
  <2>3. /\ Nothing \in Text /\ 0 \in 0..MaxNews /\ 0 \in 0..MaxCopies
        /\ 0 <= EventCap /\ 0 <= InCap /\ 0 <= OutCap /\ 0 <= 1
    BY ConstantsAssumption DEF Text
  <2>4. clip \in [Side -> Text] /\ news \in [Side -> 0..MaxNews] /\ guard \in [Side -> Text]
    BY <2>3 DEF Init
  <2>5. /\ events \in [Side -> Seq(Text)] /\ \A s \in Side : Len(events[s]) <= EventCap
        /\ sending \in [Side -> Seq(Chunk)] /\ wire \in [Side -> Seq(Chunk)]
        /\ \A s \in Side : Len(wire[s]) <= OutCap
        /\ buf \in [Side -> Seq(Chunk)]
        /\ pending \in [Side -> Seq(Text)] /\ \A s \in Side : Len(pending[s]) <= 1
        /\ EventsAreText
    BY <2>1, <2>3 DEF Init, EventsAreText
  <2> QED
    BY <2>2, <2>3, <2>4, <2>5 DEF Init, TypeOK
<1>2. TypeOK /\ EventsAreText /\ [Next]_vars => (TypeOK /\ EventsAreText)'
  <2> SUFFICES ASSUME TypeOK, EventsAreText, [Next]_vars PROVE (TypeOK /\ EventsAreText)'
    OBVIOUS
  <2>1. ASSUME NEW s \in Side, NEW t \in Texts, UserCopy(s, t)
        PROVE  (TypeOK /\ EventsAreText)'
    <3>1. clip' \in [Side -> Text] /\ news' \in [Side -> 0..MaxNews]
      BY <2>1, PutType DEF UserCopy, Text
    <3>2. copied' \in 0..MaxCopies /\ seen' \subseteq Texts
      BY <2>1, ConstantsAssumption DEF UserCopy, TypeOK
    <3>3. serial' \in BOOLEAN /\ fresh' \in BOOLEAN
      BY <2>1, Zenon DEF UserCopy
    <3> QED
      BY <2>1, <3>1, <3>2, <3>3 DEF UserCopy, session, TypeOK, EventsAreText
  <2>2. ASSUME NEW s \in Side, Look(s)
        PROVE  (TypeOK /\ EventsAreText)'
    <3>1. news' \in [Side -> 0..MaxNews]
      BY <2>2, ConstantsAssumption, SMTT(30) DEF Look, TypeOK
    <3>2. CASE up /\ clip[s] # Nothing
      <4>1. clip[s] \in Text \ {Nothing}
        BY <2>2, <3>2 DEF TypeOK
      <4>2. PICK e : e = Append(events[s], clip[s])
        OBVIOUS
      <4>3. e \in Seq(Text) /\ e \in Seq(Text \ {Nothing}) /\ Len(e) <= EventCap
        BY <4>1, <4>2, <2>2, ConstantsAssumption, SMTT(30) DEF EventsAreText, TypeOK, Look
      <4>4. events' = [events EXCEPT ![s] = e]
        BY <2>2, <3>2, <4>2 DEF Look
      <4> QED
        BY <2>2, <3>1, <4>3, <4>4 DEF Look, session, history, TypeOK, EventsAreText
    <3>3. CASE ~(up /\ clip[s] # Nothing)
      BY <2>2, <3>1, <3>3 DEF Look, session, history, TypeOK, EventsAreText
    <3> QED
      BY <3>2, <3>3
  <2>3. ASSUME NEW s \in Side, LookFails(s)
        PROVE  (TypeOK /\ EventsAreText)'
    <3>1. news' \in [Side -> 0..MaxNews]
      <4>1. news[s] \in 0..MaxNews /\ news[s] > 0 /\ news \in [Side -> 0..MaxNews]
        BY <2>3 DEF LookFails, TypeOK
      <4>2. news[s] - 1 \in 0..MaxNews
        BY <4>1, ConstantsAssumption
      <4> QED
        BY <2>3, <4>1, <4>2 DEF LookFails
    <3> QED
      BY <2>3, <3>1 DEF LookFails, session, TypeOK, EventsAreText
  <2>4. ASSUME NEW s \in Side, OutTakes(s)
        PROVE  (TypeOK /\ EventsAreText)'
    <3>1. /\ Head(events[s]) \in Text \ {Nothing}
          /\ Tail(events[s]) \in Seq(Text \ {Nothing}) /\ Tail(events[s]) \in Seq(Text)
          /\ Len(Tail(events[s])) <= EventCap
      <4>1. events[s] \in Seq(Text \ {Nothing}) /\ events[s] \in Seq(Text) /\ events[s] # <<>>
            /\ Len(events[s]) <= EventCap
        BY <2>4 DEF OutTakes, EventsAreText, TypeOK
      <4>2. Len(Tail(events[s])) = Len(events[s]) - 1 /\ Len(events[s]) \in Nat
        BY <4>1, HeadTail
      <4> QED
        BY <4>1, <4>2, HeadTail, ConstantsAssumption
    <3>2. Split(Head(events[s])) \in Seq(Chunk) /\ <<>> \in Seq(Chunk)
      BY <3>1, SplitChunks
    <3> QED
      BY <2>4, <3>1, <3>2 DEF OutTakes, history, TypeOK, EventsAreText
  <2>5. ASSUME NEW s \in Side, OutSends(s)
        PROVE  (TypeOK /\ EventsAreText)'
    <3>1. Head(sending[s]) \in Chunk /\ Tail(sending[s]) \in Seq(Chunk) /\ <<>> \in Seq(Chunk)
      BY <2>5, HeadTailProperties DEF OutSends, TypeOK
    <3>2. CASE Len(wire[s]) < OutCap
      <4>1. PICK w : w = Append(wire[s], Head(sending[s]))
        OBVIOUS
      <4>2. w \in Seq(Chunk) /\ Len(w) <= OutCap
        BY <3>1, <3>2, <4>1, ConstantsAssumption DEF TypeOK
      <4>3. wire' = [wire EXCEPT ![s] = w] /\ sending' = [sending EXCEPT ![s] = Tail(@)]
            /\ lost' = lost
        BY <2>5, <3>2, <4>1, ConstantsAssumption DEF OutSends, TypeOK
      <4> QED
        BY <2>5, <3>1, <4>2, <4>3 DEF OutSends, TypeOK, EventsAreText
    <3>3. CASE ~(Len(wire[s]) < OutCap)
      <4>1. wire' = wire /\ sending' = [sending EXCEPT ![s] = <<>>] /\ lost' = TRUE
        BY <2>5, <3>3 DEF OutSends
      <4> QED
        BY <2>5, <3>1, <4>1 DEF OutSends, TypeOK, EventsAreText
    <3> QED
      BY <3>2, <3>3
  <2>6. CASE MacReads
    <3> DEFINE w == wire["win"]
    <3>1. /\ Head(w) \in Chunk /\ Tail(w) \in Seq(Chunk) /\ Len(Tail(w)) <= OutCap
      <4>1. w \in Seq(Chunk) /\ w # <<>> /\ Len(w) <= OutCap
        BY <2>6 DEF MacReads, TypeOK, Side
      <4>2. Len(Tail(w)) = Len(w) - 1 /\ Len(w) \in Nat /\ Head(w) \in Chunk
            /\ Tail(w) \in Seq(Chunk)
        BY <4>1, HeadTail
      <4> HIDE DEF w
      <4> QED
        BY <4>1, <4>2, ConstantsAssumption
    <3>2. clipIn' \in Seq(Chunk) /\ Len(clipIn') <= InCap
      <4>1. CASE clipIn' = clipIn
        BY <4>1 DEF TypeOK
      <4>2. CASE Len(clipIn) < InCap /\ clipIn' = Append(clipIn, Head(w))
        <5>1. clipIn \in Seq(Chunk)
          BY DEF TypeOK
        <5>2. clipIn' \in Seq(Chunk) /\ Len(clipIn') = Len(clipIn) + 1 /\ Len(clipIn) \in Nat
          BY <3>1, <4>2, <5>1, AppendAt
        <5> QED
          BY <4>2, <5>2, ConstantsAssumption
      <4> QED
        BY <2>6, <4>1, <4>2 DEF MacReads
    <3>3. wire' = [wire EXCEPT !["win"] = Tail(w)] /\ lost' \in BOOLEAN /\ inLost' \in BOOLEAN
      BY <2>6 DEF MacReads, TypeOK
    <3> HIDE DEF w
    <3>4. wire' \in [Side -> Seq(Chunk)] /\ \A s \in Side : Len(wire'[s]) <= OutCap
      BY <3>1, <3>3 DEF TypeOK, Side
    <3> QED
      BY <2>6, <3>2, <3>3, <3>4 DEF MacReads, TypeOK, EventsAreText
  <2>7. CASE MacIngests
    <3>1. /\ Head(clipIn) \in Chunk /\ Tail(clipIn) \in Seq(Chunk) /\ Len(Tail(clipIn)) <= InCap
      <4>1. clipIn \in Seq(Chunk) /\ clipIn # <<>> /\ Len(clipIn) <= InCap
        BY <2>7 DEF MacIngests, TypeOK
      <4>2. Len(Tail(clipIn)) = Len(clipIn) - 1 /\ Len(clipIn) \in Nat
        BY <4>1, HeadTail
      <4> QED
        BY <4>1, <4>2, HeadTail, ConstantsAssumption
    <3>2. /\ buf' \in [Side -> Seq(Chunk)]
          /\ \A t : Completes("mac", Head(clipIn), t) => t \in Text \ {Nothing}
      BY <2>7, <3>1, IngestType DEF MacIngests, Side
    <3>3. guard' \in [Side -> Text] /\ pending' \in [Side -> Seq(Text)]
          /\ \A s \in Side : Len(pending'[s]) <= 1
      <4>1. CASE guard' = guard /\ pending' = pending
        BY <4>1 DEF TypeOK
      <4>2. ASSUME NEW t, Completes("mac", Head(clipIn), t),
                   guard' = [guard EXCEPT !["mac"] = t],
                   pending' = [pending EXCEPT !["mac"] = <<t>>]
            PROVE  guard' \in [Side -> Text] /\ pending' \in [Side -> Seq(Text)]
                   /\ \A s \in Side : Len(pending'[s]) <= 1
        <5>1. t \in Text /\ <<t>> \in Seq(Text) /\ Len(<<t>>) = 1
          BY <3>2, <4>2
        <5> QED
          BY <4>2, <5>1, SMTT(30) DEF TypeOK, Side
      <4> QED
        BY <2>7, <4>1, <4>2 DEF MacIngests
    <3> QED
      BY <2>7, <3>1, <3>2, <3>3 DEF MacIngests, history, TypeOK, EventsAreText
  <2>8. CASE MacWrites
    <3>1. pending["mac"][1] \in Text /\ <<>> \in Seq(Text) /\ Len(<<>>) = 0
      BY <2>8, HeadTail, EmptySeq DEF MacWrites, TypeOK, Side
    <3>2. clip' \in [Side -> Text] /\ news' \in [Side -> 0..MaxNews]
      BY <2>8, <3>1, PutType DEF MacWrites, Side
    <3>3. pending' \in [Side -> Seq(Text)] /\ \A s \in Side : Len(pending'[s]) <= 1
      BY <2>8, <3>1 DEF MacWrites, TypeOK, Side
    <3> QED
      BY <2>8, <3>2, <3>3 DEF MacWrites, history, TypeOK, EventsAreText
  <2>9. CASE WinIngests
    <3> DEFINE w == wire["mac"]
    <3>1. /\ Head(w) \in Chunk /\ Tail(w) \in Seq(Chunk) /\ Len(Tail(w)) <= OutCap
      <4>1. w \in Seq(Chunk) /\ w # <<>> /\ Len(w) <= OutCap
        BY <2>9 DEF WinIngests, TypeOK, Side
      <4>2. Len(Tail(w)) = Len(w) - 1 /\ Len(w) \in Nat /\ Head(w) \in Chunk
            /\ Tail(w) \in Seq(Chunk)
        BY <4>1, HeadTail
      <4> HIDE DEF w
      <4> QED
        BY <4>1, <4>2, ConstantsAssumption
    <3>2. wire' = [wire EXCEPT !["mac"] = Tail(w)]
      BY <2>9 DEF WinIngests
    <3>3. /\ buf' \in [Side -> Seq(Chunk)]
          /\ \A t : Completes("win", Head(w), t) => t \in Text \ {Nothing}
      BY <2>9, <3>1, IngestType DEF WinIngests, Side
    <3>4. /\ clip' \in [Side -> Text] /\ news' \in [Side -> 0..MaxNews] /\ lost' \in BOOLEAN
          /\ pending' \in [Side -> Seq(Text)] /\ \A s \in Side : Len(pending'[s]) <= 1
      <4> DEFINE Good == /\ clip' \in [Side -> Text] /\ news' \in [Side -> 0..MaxNews]
                         /\ lost' \in BOOLEAN /\ pending' \in [Side -> Seq(Text)]
                         /\ \A s \in Side : Len(pending'[s]) <= 1
      <4>1. CASE UNCHANGED <<clip, news, pending, lost>>
        BY <4>1 DEF TypeOK
      <4>2. ASSUME NEW t \in Text, Put("win", t), pending' = [pending EXCEPT !["win"] = <<t>>],
                   lost' = lost
            PROVE  Good
        <5>1. <<t>> \in Seq(Text) /\ Len(<<t>>) = 1
          OBVIOUS
        <5>2. clip' \in [Side -> Text] /\ news' \in [Side -> 0..MaxNews]
          BY <4>2, PutType DEF Side
        <5> QED
          BY <4>2, <5>1, <5>2 DEF TypeOK, Side
      <4>3. CASE /\ lost' = TRUE /\ pending' = pending
                 /\ Put("win", Nothing) \/ UNCHANGED <<clip, news>>
        <5>1. CASE Put("win", Nothing)
          BY <4>3, <5>1, PutType DEF Side, Text, TypeOK
        <5>2. CASE UNCHANGED <<clip, news>>
          BY <4>3, <5>2 DEF TypeOK
        <5> QED
          BY <4>3, <5>1, <5>2
      <4> QED
        BY <2>9, <4>1, <4>2, <4>3 DEF WinIngests
    <3> HIDE DEF w
    <3>5. wire' \in [Side -> Seq(Chunk)] /\ \A s \in Side : Len(wire'[s]) <= OutCap
      BY <3>1, <3>2 DEF TypeOK, Side
    <3> QED
      BY <2>9, <3>3, <3>4, <3>5 DEF WinIngests, TypeOK, EventsAreText
  <2>10. CASE WinRemembers
    <3>1. pending["win"][1] \in Text /\ <<>> \in Seq(Text) /\ Len(<<>>) = 0
      BY <2>10, HeadTail, EmptySeq DEF WinRemembers, TypeOK, Side
    <3>2. pending' \in [Side -> Seq(Text)] /\ \A s \in Side : Len(pending'[s]) <= 1
      BY <2>10, <3>1 DEF WinRemembers, TypeOK, Side
    <3>3. guard' \in [Side -> Text]
      BY <2>10, <3>1 DEF WinRemembers, TypeOK
    <3> QED
      BY <2>10, <3>2, <3>3 DEF WinRemembers, history, TypeOK, EventsAreText
  <2>11. CASE SessionEnds
    <3>1. Empty \in [Side -> Seq(Text)] /\ Empty \in [Side -> Seq(Chunk)]
          /\ (\A s \in Side : Empty[s] \in Seq(Text \ {Nothing}) /\ Len(Empty[s]) = 0)
          /\ <<>> \in Seq(Chunk) /\ Len(<<>>) = 0
      BY EmptySeq DEF Empty
    <3>2. /\ Nothing \in Text /\ 0 \in 0..MaxNews /\ 0 <= EventCap /\ 0 <= InCap /\ 0 <= OutCap
      BY ConstantsAssumption DEF Text
    <3>3. news' \in [Side -> 0..MaxNews] /\ guard' \in [Side -> Text]
      <4>1. news \in [Side -> 0..MaxNews]
        BY DEF TypeOK
      <4> QED
        BY <2>11, <3>2, <4>1 DEF SessionEnds
    <3>4. /\ events' \in [Side -> Seq(Text)] /\ \A s \in Side : Len(events'[s]) <= EventCap
          /\ wire' \in [Side -> Seq(Chunk)] /\ \A s \in Side : Len(wire'[s]) <= OutCap
          /\ buf' \in [Side -> Seq(Chunk)] /\ clipIn' \in Seq(Chunk) /\ Len(clipIn') <= InCap
          /\ EventsAreText'
      <4>1. events' = Empty /\ wire' = Empty /\ buf' = Empty /\ clipIn' = <<>>
        BY <2>11 DEF SessionEnds
      <4> QED
        BY <3>1, <3>2, <4>1 DEF EventsAreText
    <3> QED
      BY <2>11, <3>3, <3>4 DEF SessionEnds, TypeOK
  <2>12. CASE Connect
    BY <2>12 DEF Connect, history, TypeOK, EventsAreText
  <2>13. CASE UNCHANGED vars
    BY <2>13 DEF vars, session, history, TypeOK, EventsAreText
  <2> QED
    BY <2>1, <2>2, <2>3, <2>4, <2>5, <2>6, <2>7, <2>8, <2>9, <2>10, <2>11, <2>12, <2>13
    DEF Next, SideStep, MacStep, WinStep
<1> QED
  BY <1>1, <1>2, PTL DEF Spec, ClipTypes

\* Every variable keeps its type; every channel its bound.
THEOREM ClipboardTypesCorrect == Spec => []TypeOK
BY TypesHold, PTL DEF ClipTypes

-----------------------------------------------------------------------------
(* The stream, step by step.                                                *)

LEMMA Behind ==
  ASSUME NEW S, NEW a \in Seq(S), NEW p \in Seq(S), NEW q \in Seq(S)
  PROVE  (a \o p) \o q = a \o (p \o q) /\ a \o p \in Seq(S)
<1>1. (a \o p) \o q = a \o (p \o q)
  BY ConcatAssociative
<1> QED
  BY <1>1, ConcatProperties

\* ingest of a chunk in order: it begins a payload or goes on with one, and if it
\* is the last that payload is complete.
Takes(s, c) ==
  /\ First(c) \/ buf[s] # <<>>
  /\ c.text # Garbled \/ ~Last(c)
  /\ \A t : Completes(s, c, t) => t = c.text /\ t # Garbled

\* ingest of the first chunk of w, with o behind.
LEMMA IngestInOrder ==
  ASSUME TypeOK, NEW s \in Side, NEW w \in Seq(Chunk), NEW o \in Seq(Chunk), w # <<>>,
         Orderly((buf[s] \o w) \o o), OneRun(buf[s]),
         Ingests(s, Head(w)) \/ Discards(s, Head(w))
  PROVE  /\ Orderly((buf'[s] \o Tail(w)) \o o) /\ OneRun(buf'[s])
         /\ buf'[Peer(s)] = buf[Peer(s)]
         /\ Takes(s, Head(w))
<1> DEFINE b == buf[s]
           r == w \o o
           c == Head(w)
           b2 == IF Last(c) THEN <<>> ELSE Grown(b, c)
<1>1. /\ buf \in [Side -> Seq(Chunk)] /\ Peer(s) # s
  BY DEF TypeOK, Side, Peer
<1>2. /\ b \in Seq(Chunk) /\ c \in Chunk /\ Tail(w) \in Seq(Chunk)
  BY <1>1, HeadTail
<1>3. /\ r \in Seq(Chunk) /\ r # <<>> /\ r[1] = c /\ Tail(r) = Tail(w) \o o
  <2>1. r \in Seq(Chunk)
    BY ConcatProperties
  <2>2. r # <<>> /\ Head(r) = c /\ Tail(r) = Tail(w) \o o
    BY TailOfConcat
  <2> QED
    BY <2>1, <2>2, HeadTail
<1>4. Orderly(b \o r)
  <2>1. (b \o w) \o o = b \o r
    <3>1. b \in Seq(Chunk)
      BY <1>2
    <3> HIDE DEF b, r
    <3>2. (b \o w) \o o = b \o (w \o o)
      BY <3>1, Behind
    <3> QED
      BY <3>2 DEF r
  <2> QED
    BY <2>1
<1>5. First(c) \/ b # <<>>
  BY <1>2, <1>3, <1>4, NextChunk
<1>6. buf' = [buf EXCEPT ![s] = b2]
  BY <1>5 DEF Ingests, Discards
<1>7. buf'[s] = b2 /\ buf'[Peer(s)] = buf[Peer(s)]
  BY <1>1, <1>6 DEF Side, Peer
<1>8. OneRun(b2) /\ Orderly(b2 \o Tail(r))
  BY <1>2, <1>3, <1>4, IngestKeepsOrder
<1>9. b2 \in Seq(Chunk)
  BY <1>2, GrownType, EmptySeq
<1>10. (b2 \o Tail(w)) \o o = b2 \o Tail(r)
  <2> HIDE DEF b2, r
  <2>1. (b2 \o Tail(w)) \o o = b2 \o (Tail(w) \o o)
    BY <1>2, <1>9, Behind, SMTT(30)
  <2> QED
    BY <2>1, <1>3
<1>11. Takes(s, c)
  <2>1. Last(c) => Assembled(Grown(b, c)) = c.text /\ c.text # Garbled
    BY <1>2, <1>3, <1>4, LastCompletes
  <2> QED
    BY <1>5, <2>1 DEF Takes, Completes
<1> HIDE DEF b2
<1> QED
  BY <1>7, <1>8, <1>10, <1>11

LEMMA CleanQueues ==
  /\ Clean(<<>>)
  /\ \A t : t # Garbled => Clean(<<t>>)
  /\ \A q \in Seq(Text), t \in Text : Clean(q) /\ t # Garbled => Clean(Append(q, t))
  /\ \A q \in Seq(Text) : Clean(q) /\ q # <<>> => Clean(Tail(q)) /\ q[1] # Garbled
<1>1. Clean(<<>>)
  BY EmptySeq DEF Clean
<1>2. ASSUME NEW t, t # Garbled PROVE Clean(<<t>>)
  BY <1>2 DEF Clean
<1>3. ASSUME NEW q \in Seq(Text), NEW t \in Text, Clean(q), t # Garbled
      PROVE  Clean(Append(q, t))
  <2> DEFINE a == Append(q, t)
  <2>1. /\ Len(q) \in Nat /\ Len(a) = Len(q) + 1
        /\ (\A i \in 1 .. Len(q) : a[i] = q[i]) /\ a[Len(q) + 1] = t
    BY AppendAt
  <2> HIDE DEF a
  <2>2. ASSUME NEW i \in 1 .. Len(a) PROVE a[i] # Garbled
    <3>1. CASE i <= Len(q)
      BY <2>1, <3>1, <1>3 DEF Clean
    <3>2. CASE i = Len(q) + 1
      BY <2>1, <3>2, <1>3
    <3> QED
      BY <2>1, <3>1, <3>2
  <2>3. Clean(a)
    BY <2>2 DEF Clean
  <2> QED
    BY <2>3 DEF a
<1>4. ASSUME NEW q \in Seq(Text), Clean(q), q # <<>> PROVE Clean(Tail(q)) /\ q[1] # Garbled
  <2>1. /\ Len(q) \in Nat \ {0} /\ Len(Tail(q)) = Len(q) - 1
        /\ \A i \in 1 .. Len(q) - 1 : Tail(q)[i] = q[i + 1]
    BY <1>4, HeadTail
  <2> QED
    BY <2>1, <1>4 DEF Clean
<1> QED
  BY <1>1, <1>2, <1>3, <1>4

-----------------------------------------------------------------------------
(* Nothing is torn unless clip_in refuses a chunk.                          *)

\* The parts of NothingTorn, with a name for each.
StreamsInOrder == Orderly(MacStream) /\ Orderly(WinStream)
RunsWhole == \A s \in Side : OneRun(buf[s])
CopiesClean == \A s \in Side : Clean(events[s]) /\ Clean(pending[s]) /\ clip[s] # Garbled

LEMMA StreamType ==
  ASSUME TypeOK
  PROVE  /\ "mac" \in Side /\ "win" \in Side /\ Peer("mac") = "win" /\ Peer("win") = "mac"
         /\ clipIn \in Seq(Chunk)
         /\ \A s \in Side : /\ buf[s] \in Seq(Chunk) /\ wire[s] \in Seq(Chunk)
                            /\ sending[s] \in Seq(Chunk) /\ events[s] \in Seq(Text)
                            /\ pending[s] \in Seq(Text)
         /\ buf["win"] \o wire["mac"] \in Seq(Chunk)
         /\ buf["mac"] \o clipIn \in Seq(Chunk)
         /\ (buf["mac"] \o clipIn) \o wire["win"] \in Seq(Chunk)
<1>1. /\ "mac" \in Side /\ "win" \in Side /\ Peer("mac") = "win" /\ Peer("win") = "mac"
      /\ clipIn \in Seq(Chunk)
      /\ \A s \in Side : /\ buf[s] \in Seq(Chunk) /\ wire[s] \in Seq(Chunk)
                         /\ sending[s] \in Seq(Chunk) /\ events[s] \in Seq(Text)
                         /\ pending[s] \in Seq(Text)
  BY DEF TypeOK, Side, Peer
<1>2. buf["win"] \o wire["mac"] \in Seq(Chunk) /\ buf["mac"] \o clipIn \in Seq(Chunk)
  BY <1>1, ConcatProperties
<1>3. (buf["mac"] \o clipIn) \o wire["win"] \in Seq(Chunk)
  BY <1>1, <1>2, ConcatProperties
<1> QED
  BY <1>1, <1>2, <1>3

\* A payload is taken from the events only when the one before is sent, and the
\* rest of one that meets a full channel was last in its stream.
LEMMA SenderKeepsOrder ==
  ASSUME ClipTypes, NothingTorn, NEW s \in Side, OutTakes(s) \/ OutSends(s)
  PROVE  StreamsInOrder'
<1>0. TypeOK /\ EventsAreText
  BY DEF ClipTypes
<1>1. UNCHANGED <<buf, clipIn>> /\ Side = {"mac", "win"}
  BY DEF OutTakes, OutSends, Side
<1>2. SUFFICES ASSUME NEW a \in Seq(Chunk), Orderly((a \o wire[s]) \o sending[s])
               PROVE  Orderly((a \o wire'[s]) \o sending'[s])
  <2>1. \A r \in Side : r # s => wire'[r] = wire[r] /\ sending'[r] = sending[r]
    BY <1>0 DEF OutTakes, OutSends, TypeOK
  <2>2. Orderly((buf["win"] \o wire'["mac"]) \o sending'["mac"])
    BY <1>0, <1>1, <1>2, <2>1, StreamType DEF NothingTorn, MacStream
  <2>3. Orderly(((buf["mac"] \o clipIn) \o wire'["win"]) \o sending'["win"])
    BY <1>0, <1>1, <1>2, <2>1, StreamType DEF NothingTorn, WinStream
  <2> QED
    BY <1>1, <2>2, <2>3 DEF StreamsInOrder, MacStream, WinStream
<1> DEFINE w == wire[s]
           o == sending[s]
<1>3. a \in Seq(Chunk) /\ w \in Seq(Chunk) /\ o \in Seq(Chunk) /\ a \o w \in Seq(Chunk) /\ Orderly((a \o w) \o o)
  BY <1>0, <1>2, StreamType, Behind
<1>4. wire \in [Side -> Seq(Chunk)] /\ sending \in [Side -> Seq(Chunk)]
  BY <1>0 DEF TypeOK
<1>5. Orderly(a \o w)
  BY <1>3, PrefixIsOrderly
<1>6. CASE OutTakes(s)
  <2> DEFINE t == Head(events[s])
  <2>1. wire'[s] = w /\ o = <<>> /\ sending'[s] = (IF IsEcho(s, t) THEN <<>> ELSE Split(t))
    BY <1>4, <1>6 DEF OutTakes
  <2>2. t # Garbled /\ t \in Text \ {Nothing}
    <3>1. /\ events[s] \in Seq(Text) /\ events[s] \in Seq(Text \ {Nothing})
          /\ events[s] # <<>> /\ Clean(events[s])
      BY <1>0, <1>6, StreamType DEF OutTakes, NothingTorn, EventsAreText
    <3> QED
      BY <3>1, CleanQueues, HeadTail
  <2>3. CASE sending'[s] = <<>>
    BY <1>3, <1>5, <2>1, <2>3, ConcatEmptySeq
  <2>4. CASE sending'[s] = Split(t)
    <3>1. Split(t) \in Seq(Chunk) /\ Orderly(Split(t))
      BY <2>2, <2>4, SplitChunks, SplitIsOrderly
    <3>2. Orderly((a \o w) \o Split(t))
      BY <1>3, <1>5, <3>1, JoinIsOrderly
    <3> QED
      BY <2>1, <2>4, <3>2
  <2> QED
    BY <2>1, <2>2, <2>3, <2>4
<1>7. CASE OutSends(s)
  <2>1. o # <<>>
    BY <1>7 DEF OutSends
  <2>2. CASE wire' = [wire EXCEPT ![s] = Append(@, Head(sending[s]))]
             /\ sending' = [sending EXCEPT ![s] = Tail(@)]
    <3>1. wire'[s] = Append(w, Head(o)) /\ sending'[s] = Tail(o)
      BY <1>4, <2>2
    <3>2. PICK x, t : x = wire'[s] /\ t = sending'[s]
      OBVIOUS
    <3>3. x = Append(w, Head(o)) /\ t = Tail(o)
      BY <3>1, <3>2
    <3>4. (a \o x) \o t = (a \o w) \o o
      <4> HIDE DEF w, o
      <4>1. x \in Seq(Chunk) /\ t \in Seq(Chunk)
        BY <1>3, <2>1, <3>3, HeadTail, AppendAt
      <4>2. x \o t = w \o o
        BY <1>3, <2>1, <3>3, Moves
      <4>3. (a \o x) \o t = a \o (x \o t)
        BY <1>3, <4>1, ConcatAssociative, SMTT(60)
      <4>4. (a \o w) \o o = a \o (w \o o)
        BY <1>3, ConcatAssociative, SMTT(60)
      <4> QED
        BY <4>2, <4>3, <4>4, Zenon
    <3> QED
      BY <1>3, <3>2, <3>4
  <2>3. CASE wire' = wire /\ sending' = [sending EXCEPT ![s] = <<>>]
    <3>1. wire'[s] = w /\ sending'[s] = <<>>
      BY <1>4, <2>3
    <3> QED
      BY <1>3, <1>5, <3>1, ConcatEmptySeq
  <2> QED
    BY <1>7, <2>2, <2>3 DEF OutSends
<1> QED
  BY <1>6, <1>7

\* The Mac's reader moves a chunk on, unless clip_in is full.
LEMMA ReaderKeepsOrder ==
  ASSUME TypeOK, NothingTorn, MacReads, inLost' = FALSE
  PROVE  StreamsInOrder'
<1> DEFINE b == buf["mac"]
           w == wire["win"]
           o == sending["win"]
<1>1. /\ b \in Seq(Chunk) /\ clipIn \in Seq(Chunk) /\ w \in Seq(Chunk) /\ w # <<>>
  BY StreamType DEF MacReads
<1>2. UNCHANGED <<buf, sending>> /\ clipIn' = Append(clipIn, Head(w))
  BY DEF MacReads
<1>3. wire'["win"] = Tail(w) /\ wire'["mac"] = wire["mac"]
  BY DEF MacReads, TypeOK, Side
<1>4. (b \o clipIn') \o wire'["win"] = (b \o clipIn) \o w
  <2>1. PICK x, t : x = clipIn' /\ t = wire'["win"]
    OBVIOUS
  <2>2. x = Append(clipIn, Head(w)) /\ t = Tail(w)
    BY <1>2, <1>3, <2>1
  <2> HIDE DEF b, w
  <2>3. x \in Seq(Chunk) /\ t \in Seq(Chunk)
    BY <1>1, <2>2, HeadTail, AppendAt
  <2>4. x \o t = clipIn \o w
    BY <1>1, <2>2, Moves
  <2>5. (b \o x) \o t = b \o (x \o t)
    BY <1>1, <2>3, ConcatAssociative, SMTT(60)
  <2>6. (b \o clipIn) \o w = b \o (clipIn \o w)
    BY <1>1, ConcatAssociative, SMTT(60)
  <2>7. (b \o x) \o t = (b \o clipIn) \o w
    BY <2>4, <2>5, <2>6, Zenon
  <2> QED
    BY <2>1, <2>7
<1>5. Orderly(WinStream)'
  BY <1>2, <1>4 DEF NothingTorn, WinStream
<1>6. Orderly(MacStream)'
  BY <1>2, <1>3 DEF NothingTorn, MacStream
<1> QED
  BY <1>5, <1>6 DEF StreamsInOrder

\* clipboard_in_task reassembles the front of clip_in ...
LEMMA MacIngestsInOrder ==
  ASSUME TypeOK, NothingTorn, MacIngests
  PROVE  StreamsInOrder' /\ RunsWhole' /\ Takes("mac", Head(clipIn))
<1> DEFINE b == buf["mac"]
           w == wire["win"]
           o == sending["win"]
<1>1. /\ b \in Seq(Chunk) /\ clipIn \in Seq(Chunk) /\ clipIn # <<>>
      /\ w \in Seq(Chunk) /\ o \in Seq(Chunk) /\ b \o clipIn \in Seq(Chunk)
      /\ "mac" \in Side /\ Peer("mac") = "win" /\ Head(clipIn) \in Chunk
      /\ Tail(clipIn) \in Seq(Chunk)
  BY StreamType, HeadTail DEF MacIngests
<1>2. w \o o \in Seq(Chunk)
  BY <1>1, ConcatProperties
<1>3. Orderly((b \o clipIn) \o (w \o o)) /\ OneRun(b)
  <2>1. Orderly(((b \o clipIn) \o w) \o o) /\ OneRun(b)
    BY <1>1 DEF NothingTorn, WinStream
  <2> HIDE DEF b, w, o
  <2>2. ((b \o clipIn) \o w) \o o = (b \o clipIn) \o (w \o o)
    BY <1>1, Behind, SMTT(30)
  <2> QED
    BY <2>1, <2>2
<1>4. Ingests("mac", Head(clipIn)) \/ Discards("mac", Head(clipIn))
  BY DEF MacIngests
<1>5. /\ Orderly((buf'["mac"] \o Tail(clipIn)) \o (w \o o)) /\ OneRun(buf'["mac"])
      /\ buf'["win"] = buf["win"] /\ Takes("mac", Head(clipIn))
  <2>1. /\ Orderly((buf'["mac"] \o Tail(clipIn)) \o (w \o o)) /\ OneRun(buf'["mac"])
        /\ buf'[Peer("mac")] = buf[Peer("mac")] /\ Takes("mac", Head(clipIn))
    BY <1>1, <1>2, <1>3, <1>4, IngestInOrder
  <2> QED
    BY <1>1, <2>1
<1>6. UNCHANGED <<wire, sending>> /\ clipIn' = Tail(clipIn)
  BY DEF MacIngests
<1>7. buf'["mac"] \in Seq(Chunk)
  BY <1>1, <1>4, IngestType
<1>8. PICK g : g = buf'["mac"]
  OBVIOUS
<1>9. ((g \o Tail(clipIn)) \o w) \o o = (g \o Tail(clipIn)) \o (w \o o)
  <2> HIDE DEF w, o
  <2>1. PICK k : k = g \o Tail(clipIn)
    OBVIOUS
  <2>2. k \in Seq(Chunk)
    BY <1>1, <1>7, <1>8, <2>1, ConcatProperties
  <2>3. (k \o w) \o o = k \o (w \o o)
    BY <1>1, <2>2, Behind, SMTT(30)
  <2> QED
    BY <2>1, <2>3
<1>10. Orderly(((buf'["mac"] \o Tail(clipIn)) \o w) \o o)
  BY <1>5, <1>8, <1>9
<1>11. Orderly(WinStream)'
  BY <1>6, <1>10 DEF WinStream
<1>12. Orderly(MacStream)'
  BY <1>5, <1>6 DEF NothingTorn, MacStream
<1>13. RunsWhole'
  BY <1>5 DEF RunsWhole, NothingTorn, Side
<1> QED
  BY <1>5, <1>11, <1>12, <1>13 DEF StreamsInOrder

\* ... and the client's injector that of the wire.
LEMMA WinIngestsInOrder ==
  ASSUME TypeOK, NothingTorn, WinIngests
  PROVE  StreamsInOrder' /\ RunsWhole' /\ Takes("win", Head(wire["mac"]))
<1> DEFINE w == wire["mac"]
           o == sending["mac"]
<1>1. /\ w \in Seq(Chunk) /\ w # <<>> /\ o \in Seq(Chunk)
      /\ "win" \in Side /\ Peer("win") = "mac"
  BY StreamType DEF WinIngests
<1>2. Orderly((buf["win"] \o w) \o o) /\ OneRun(buf["win"])
  BY <1>1 DEF NothingTorn, MacStream
<1>3. Ingests("win", Head(w)) \/ Discards("win", Head(w))
  BY DEF WinIngests
<1>4. /\ Orderly((buf'["win"] \o Tail(w)) \o o) /\ OneRun(buf'["win"])
      /\ buf'["mac"] = buf["mac"] /\ Takes("win", Head(w))
  <2>1. /\ Orderly((buf'["win"] \o Tail(w)) \o o) /\ OneRun(buf'["win"])
        /\ buf'[Peer("win")] = buf[Peer("win")] /\ Takes("win", Head(w))
    BY <1>1, <1>2, <1>3, IngestInOrder
  <2> QED
    BY <1>1, <2>1
<1>5. UNCHANGED <<sending, clipIn>> /\ wire'["mac"] = Tail(w) /\ wire'["win"] = wire["win"]
  BY DEF WinIngests, TypeOK, Side
<1>6. Orderly(MacStream)'
  BY <1>4, <1>5 DEF MacStream
<1>7. Orderly(WinStream)'
  BY <1>4, <1>5 DEF NothingTorn, WinStream
<1>8. RunsWhole'
  BY <1>4 DEF RunsWhole, NothingTorn, Side
<1> QED
  BY <1>4, <1>6, <1>7, <1>8 DEF StreamsInOrder

\* A step that touches neither the streams nor the reassemblers.
LEMMA StreamsUntouched ==
  ASSUME NothingTorn, UNCHANGED <<buf, clipIn, wire, sending>>
  PROVE  StreamsInOrder' /\ RunsWhole'
<1>1. StreamsInOrder'
  BY DEF NothingTorn, StreamsInOrder, MacStream, WinStream
<1>2. RunsWhole'
  BY DEF NothingTorn, RunsWhole
<1> QED
  BY <1>1, <1>2

LEMMA StepKeepsWhole ==
  ASSUME ClipTypes, ClipInv, [Next]_vars, TypeOK'
  PROVE  ClipInv'
<1>1. SUFFICES ASSUME ~inLost' PROVE NothingTorn'
  BY DEF ClipInv
<1>2. TypeOK /\ inLost = FALSE /\ inLost' = FALSE
  <2>1. inLost \in BOOLEAN /\ inLost' \in BOOLEAN
    BY DEF ClipTypes, TypeOK
  <2>2. inLost' = inLost \/ inLost' = TRUE
    BY DEF Next, UserCopy, SideStep, MacStep, WinStep, Look, LookFails, OutTakes, OutSends,
           MacReads, MacIngests, MacWrites, WinIngests, WinRemembers, SessionEnds, Connect,
           vars, session, history
  <2> QED
    BY <1>1, <2>1, <2>2 DEF ClipTypes
<1>3. NothingTorn
  BY <1>2 DEF ClipInv
<1>4. /\ "mac" \in Side /\ "win" \in Side
      /\ clip \in [Side -> Text] /\ events \in [Side -> Seq(Text)]
      /\ pending \in [Side -> Seq(Text)]
      /\ \A s \in Side : events[s] \in Seq(Text) /\ pending[s] \in Seq(Text)
  BY <1>2 DEF TypeOK, Side
<1>5. CopiesClean
  BY <1>3 DEF NothingTorn, CopiesClean
<1>6. SUFFICES StreamsInOrder' /\ RunsWhole' /\ CopiesClean'
  BY DEF NothingTorn, StreamsInOrder, RunsWhole, CopiesClean
<1>7. ASSUME NEW s \in Side, NEW t \in Texts, UserCopy(s, t)
      PROVE  StreamsInOrder' /\ RunsWhole' /\ CopiesClean'
  <2>1. t # Garbled
    BY ConstantsAssumption
  <2>2. clip' = [clip EXCEPT ![s] = t] /\ UNCHANGED <<events, pending>>
    BY <1>7 DEF UserCopy, Put, session
  <2>3. CopiesClean'
    BY <1>4, <1>5, <2>1, <2>2 DEF CopiesClean
  <2>4. UNCHANGED <<buf, clipIn, wire, sending>>
    BY <1>7 DEF UserCopy, session
  <2> QED
    BY <1>3, <2>3, <2>4, StreamsUntouched
<1>8. ASSUME NEW s \in Side, Look(s)
      PROVE  StreamsInOrder' /\ RunsWhole' /\ CopiesClean'
  <2>1. PICK e : e = Append(events[s], clip[s])
    OBVIOUS
  <2>2. Clean(e)
    <3>1. clip[s] \in Text /\ clip[s] # Garbled /\ Clean(events[s]) /\ events[s] \in Seq(Text)
      BY <1>4, <1>5 DEF CopiesClean
    <3> QED
      BY <2>1, <3>1, CleanQueues
  <2>3. events' = events \/ events' = [events EXCEPT ![s] = e]
    BY <1>8, <2>1 DEF Look
  <2>4. UNCHANGED <<buf, clipIn, wire, sending, clip, pending>>
    BY <1>8 DEF Look, session
  <2>5. CopiesClean'
    BY <1>4, <1>5, <2>2, <2>3, <2>4 DEF CopiesClean
  <2> QED
    BY <1>3, <2>4, <2>5, StreamsUntouched
<1>9. ASSUME NEW s \in Side, LookFails(s)
      PROVE  StreamsInOrder' /\ RunsWhole' /\ CopiesClean'
  <2>1. UNCHANGED <<buf, clipIn, wire, sending, clip, events, pending>>
    BY <1>9 DEF LookFails, session
  <2>2. CopiesClean'
    BY <1>5, <2>1 DEF CopiesClean
  <2> QED
    BY <1>3, <2>1, <2>2, StreamsUntouched
<1>10. ASSUME NEW s \in Side, OutTakes(s) \/ OutSends(s)
       PROVE  StreamsInOrder' /\ RunsWhole' /\ CopiesClean'
  <2>1. StreamsInOrder'
    BY <1>3, <1>10, SenderKeepsOrder
  <2>2. UNCHANGED <<buf, clip, pending>>
    BY <1>10 DEF OutTakes, OutSends
  <2>3. RunsWhole'
    BY <1>3, <2>2 DEF RunsWhole, NothingTorn
  <2>4. CASE OutTakes(s)
    <3>1. events' = [events EXCEPT ![s] = Tail(events[s])] /\ events[s] # <<>>
      BY <2>4 DEF OutTakes
    <3>2. Clean(Tail(events[s]))
      BY <1>4, <1>5, <3>1, CleanQueues DEF CopiesClean
    <3>3. CopiesClean'
      BY <1>4, <1>5, <2>2, <3>1, <3>2 DEF CopiesClean
    <3> QED
      BY <2>1, <2>3, <3>3
  <2>5. CASE OutSends(s)
    <3>1. events' = events
      BY <2>5 DEF OutSends
    <3>2. CopiesClean'
      BY <1>5, <2>2, <3>1 DEF CopiesClean
    <3> QED
      BY <2>1, <2>3, <3>2
  <2> QED
    BY <1>10, <2>4, <2>5
<1>11. CASE MacReads
  <2>1. StreamsInOrder'
    BY <1>2, <1>3, <1>11, ReaderKeepsOrder
  <2>2. UNCHANGED <<buf, clip, events, pending>>
    BY <1>11 DEF MacReads
  <2>3. RunsWhole' /\ CopiesClean'
    BY <1>3, <1>5, <2>2 DEF RunsWhole, NothingTorn, CopiesClean
  <2> QED
    BY <2>1, <2>3
<1>12. CASE MacIngests
  <2>1. StreamsInOrder' /\ RunsWhole' /\ Takes("mac", Head(clipIn))
    BY <1>2, <1>3, <1>12, MacIngestsInOrder
  <2>2. UNCHANGED <<clip, events>>
    BY <1>12 DEF MacIngests
  <2>3. pending' = pending \/ \E t : t # Garbled /\ pending' = [pending EXCEPT !["mac"] = <<t>>]
    BY <1>12, <2>1 DEF MacIngests, Takes
  <2>4. CopiesClean'
    <3>1. CASE pending' = pending
      BY <1>5, <2>2, <3>1 DEF CopiesClean
    <3>2. ASSUME NEW t, t # Garbled, pending' = [pending EXCEPT !["mac"] = <<t>>]
          PROVE  CopiesClean'
      <4>1. Clean(<<t>>)
        BY <3>2, CleanQueues
      <4> QED
        BY <1>4, <1>5, <2>2, <3>2, <4>1 DEF CopiesClean
    <3> QED
      BY <2>3, <3>1, <3>2
  <2> QED
    BY <2>1, <2>4
<1>13. CASE MacWrites
  <2>1. UNCHANGED <<buf, clipIn, wire, sending, events>> /\ pending["mac"] # <<>>
    BY <1>13 DEF MacWrites
  <2>2. PICK t : t = pending["mac"][1]
    OBVIOUS
  <2>3. t # Garbled
    BY <1>4, <1>5, <2>1, <2>2, CleanQueues DEF CopiesClean
  <2>4. /\ clip' = [clip EXCEPT !["mac"] = t]
        /\ pending' = [pending EXCEPT !["mac"] = <<>>]
    BY <1>13, <2>2 DEF MacWrites, Put
  <2>5. CopiesClean'
    BY <1>4, <1>5, <2>1, <2>3, <2>4, CleanQueues DEF CopiesClean
  <2> QED
    BY <1>3, <2>1, <2>5, StreamsUntouched
<1>14. CASE WinIngests
  <2>1. StreamsInOrder' /\ RunsWhole' /\ Takes("win", Head(wire["mac"]))
    BY <1>2, <1>3, <1>14, WinIngestsInOrder
  <2>2. events' = events
    BY <1>14 DEF WinIngests
  <2>3. CopiesClean'
    <3>1. CASE clip' = clip /\ pending' = pending
      BY <1>5, <2>2, <3>1 DEF CopiesClean
    <3>2. ASSUME NEW t, t # Garbled, Put("win", t) PROVE \A s \in Side : clip'[s] # Garbled
      <4>1. clip' = [clip EXCEPT !["win"] = t]
        BY <3>2 DEF Put
      <4> QED
        BY <1>4, <1>5, <3>2, <4>1 DEF CopiesClean
    <3>3. CASE Put("win", Nothing) /\ pending' = pending
      <4>1. Nothing # Garbled
        BY ConstantsAssumption
      <4>2. \A s \in Side : clip'[s] # Garbled
        BY <3>2, <3>3, <4>1
      <4> QED
        BY <1>5, <2>2, <3>3, <4>2 DEF CopiesClean
    <3>4. ASSUME NEW t, Completes("win", Head(wire["mac"]), t), Put("win", t),
                 pending' = [pending EXCEPT !["win"] = <<t>>]
          PROVE  CopiesClean'
      <4>1. t # Garbled
        BY <2>1, <3>4 DEF Takes
      <4>2. Clean(<<t>>)
        BY <4>1, CleanQueues
      <4>3. \A s \in Side : Clean(pending'[s])
        BY <1>4, <1>5, <3>4, <4>2 DEF CopiesClean
      <4>4. \A s \in Side : clip'[s] # Garbled
        BY <3>2, <3>4, <4>1
      <4> QED
        BY <1>5, <2>2, <4>3, <4>4 DEF CopiesClean
    <3> QED
      BY <1>14, <3>1, <3>3, <3>4 DEF WinIngests
  <2> QED
    BY <2>1, <2>3
<1>15. CASE WinRemembers
  <2>1. UNCHANGED <<buf, clipIn, wire, sending, clip, events>>
        /\ pending' = [pending EXCEPT !["win"] = <<>>]
    BY <1>15 DEF WinRemembers
  <2>2. CopiesClean'
    BY <1>4, <1>5, <2>1, CleanQueues DEF CopiesClean
  <2> QED
    BY <1>3, <2>1, <2>2, StreamsUntouched
<1>16. CASE SessionEnds
  <2>1. /\ events' = Empty /\ wire' = Empty /\ clipIn' = <<>> /\ buf' = Empty
        /\ sending' = Empty /\ pending' = pending /\ clip' = clip
    BY <1>16 DEF SessionEnds
  <2>2. \A s \in Side : Empty[s] = <<>>
    BY DEF Empty
  <2>3. <<>> \o <<>> = <<>>
    <3>1. <<>> \in Seq(Text)
      BY EmptySeq
    <3> QED
      BY <3>1, ConcatEmptySeq
  <2>4. StreamsInOrder'
    BY <1>4, <2>1, <2>2, <2>3, NoChunkIsOrderly DEF StreamsInOrder, MacStream, WinStream
  <2>5. RunsWhole'
    BY <2>1, <2>2, EmptySeq DEF RunsWhole, OneRun
  <2>6. CopiesClean'
    BY <1>5, <2>1, <2>2, CleanQueues DEF CopiesClean
  <2> QED
    BY <2>4, <2>5, <2>6
<1>17. CASE Connect \/ UNCHANGED vars
  <2>1. UNCHANGED <<buf, clipIn, wire, sending, clip, events, pending>>
    BY <1>17 DEF Connect, vars, session
  <2>2. CopiesClean'
    BY <1>5, <2>1 DEF CopiesClean
  <2> QED
    BY <1>3, <2>1, <2>2, StreamsUntouched
<1> QED
  BY <1>7, <1>8, <1>9, <1>10, <1>11, <1>12, <1>13, <1>14, <1>15, <1>16, <1>17
  DEF Next, SideStep, MacStep, WinStep

LEMMA WholeHolds == Spec => [](ClipTypes /\ ClipInv)
<1>1. Init => ClipInv
  <2> SUFFICES ASSUME Init PROVE NothingTorn
    BY DEF ClipInv
  <2>1. \A s \in Side : Empty[s] = <<>>
    BY DEF Empty
  <2>2. "mac" \in Side /\ "win" \in Side /\ Nothing # Garbled
    BY ConstantsAssumption DEF Side
  <2>3. <<>> \o <<>> = <<>>
    <3>1. <<>> \in Seq(Text)
      BY EmptySeq
    <3> QED
      BY <3>1, ConcatEmptySeq
  <2>4. Orderly(MacStream) /\ Orderly(WinStream)
    BY <2>1, <2>2, <2>3, NoChunkIsOrderly DEF Init, MacStream, WinStream
  <2>5. \A s \in Side : OneRun(buf[s])
    BY <2>1, EmptySeq DEF Init, OneRun
  <2>6. \A s \in Side : Clean(events[s]) /\ Clean(pending[s]) /\ clip[s] # Garbled
    BY <2>1, <2>2, CleanQueues DEF Init
  <2> QED
    BY <2>4, <2>5, <2>6 DEF NothingTorn
<1>2. ClipTypes /\ ClipTypes' /\ ClipInv /\ [Next]_vars => ClipInv'
  BY StepKeepsWhole DEF ClipTypes
<1> QED
  BY <1>1, <1>2, TypesHold, PTL DEF Spec

\* A clipboard holds a mixture only where clip_in refused a chunk: whatever full
\* outbound channels cut short, whatever sessions end in the middle of.
THEOREM TornIsNeverPasted == Spec => []TornNeverPasted
<1>1. ClipTypes /\ ClipInv => TornNeverPasted
  BY DEF ClipTypes, ClipInv, NothingTorn, TypeOK, TornNeverPasted
<1> QED
  BY <1>1, WholeHolds, PTL

-----------------------------------------------------------------------------
(* Copies made one at a time arrive.  The invariant follows the one text    *)
(* that is being synchronised: both sides have it, or it is on its way from *)
(* the side it was copied on, in one of the places from the watcher to the  *)
(* peer's clipboard.                                                        *)

\* What the queues of a direction hold, when nothing has failed: no payload stops
\* short, so behind a chunk that is not the last of its payload another comes.
Ends(q) == q # <<>> => Last(q[Len(q)])

Flows ==
  /\ \A s \in Side : Ends(sending[s]) /\ (sending[s] = <<>> => Ends(wire[s]))
  /\ sending["win"] = <<>> /\ wire["win"] = <<>> => Ends(clipIn)
  /\ buf["win"] # <<>> => wire["mac"] # <<>> \/ sending["mac"] # <<>>
  /\ buf["mac"] # <<>> => clipIn # <<>> \/ wire["win"] # <<>> \/ sending["win"] # <<>>

\* All that is being synchronised is t.
Of(q, t) == \A i \in 1 .. Len(q) : q[i].text = t
Are(q, t) == \A i \in 1 .. Len(q) : q[i] = t
Carries(t) ==
  /\ Of(clipIn, t)
  /\ \A s \in Side : /\ Of(sending[s], t) /\ Of(wire[s], t) /\ Of(buf[s], t)
                     /\ Are(events[s], t) /\ Are(pending[s], t)

BothHave(t) == clip["mac"] = t /\ clip["win"] = t

\* Nothing goes from s to its peer.
Idle(s) ==
  /\ news[s] = 0 /\ events[s] = <<>> /\ sending[s] = <<>> /\ wire[s] = <<>>
  /\ pending[Peer(s)] = <<>> /\ (s = "win" => clipIn = <<>>)

\* t goes from s to its peer, which has not got it: nothing comes back yet.
Underway(s, t) ==
  /\ t \in Texts /\ clip[s] = t /\ guard[s] # t
  /\ ~Idle(s) /\ Idle(Peer(s)) /\ pending["win"] = <<>>

Synced(t) ==
  /\ t \in seen \cup {Nothing} /\ Carries(t)
  /\ BothHave(t) \/ \E s \in Side : Underway(s, t)

GuardsKnown == \A s \in Side : guard[s] \in seen \cup {Nothing}

SyncInv ==
  /\ ~lost => up /\ ~inLost /\ Flows
  /\ ~lost /\ serial /\ fresh => GuardsKnown /\ \E t \in Text : Synced(t)

-----------------------------------------------------------------------------
(* Queues of chunks and of texts.                                           *)

LEMMA EndsTail ==
  ASSUME NEW q \in Seq(Chunk), q # <<>>, Ends(q)
  PROVE  /\ Tail(q) = <<>> => Last(Head(q))
         /\ Ends(Tail(q))
<1>1. /\ Tail(q) \in Seq(Chunk) /\ Len(q) \in Nat \ {0} /\ Len(Tail(q)) = Len(q) - 1
      /\ Head(q) = q[1] /\ \A i \in 1 .. Len(q) - 1 : Tail(q)[i] = q[i + 1]
  BY HeadTail
<1> DEFINE u == Tail(q)
<1>2. u = <<>> <=> Len(u) = 0
  BY <1>1, Lengths
<1> HIDE DEF u
<1>3. u = <<>> => Last(Head(q))
  BY <1>1, <1>2 DEF Ends, u
<1>4. u # <<>> => u[Len(u)] = q[Len(q)]
  BY <1>1, <1>2 DEF u
<1>5. Ends(u)
  BY <1>4 DEF Ends
<1> QED
  BY <1>3, <1>5 DEF u

LEMMA AppendNotEmpty ==
  ASSUME NEW S, NEW q \in Seq(S), NEW c \in S
  PROVE  Append(q, c) # <<>>
<1>1. Len(Append(q, c)) = Len(q) + 1 /\ Len(q) \in Nat /\ Append(q, c) \in Seq(S)
  BY AppendAt
<1> QED
  BY <1>1, Lengths

LEMMA EndsAppend ==
  ASSUME NEW q \in Seq(Chunk), NEW c \in Chunk, Last(c)
  PROVE  Ends(Append(q, c))
<1> DEFINE a == Append(q, c)
<1>1. Len(a) = Len(q) + 1 /\ a[Len(q) + 1] = c
  BY AppendAt
<1> HIDE DEF a
<1>2. Ends(a)
  BY <1>1 DEF Ends
<1> QED
  BY <1>2 DEF a

LEMMA SplitEnds ==
  ASSUME NEW t \in Text \ {Nothing}
  PROVE  Ends(Split(t)) /\ Split(t) # <<>> /\ Of(Split(t), t)
<1> DEFINE z == Split(t)
<1>1. /\ z \in Seq(Chunk) /\ Len(z) = Parts(t) /\ Parts(t) \in Nat \ {0}
      /\ \A i \in 1 .. Parts(t) : z[i] = [text |-> t, n |-> i]
  BY SplitChunks
<1> HIDE DEF z
<1>2. z # <<>>
  BY <1>1, Lengths
<1>3. z[Len(z)].text = t /\ z[Len(z)].n = Parts(t)
  BY <1>1
<1>4. Ends(z) /\ Of(z, t)
  BY <1>1, <1>3 DEF Ends, Last, Of
<1> QED
  BY <1>2, <1>4 DEF z

LEMMA OfQueue ==
  ASSUME NEW t, NEW q \in Seq(Chunk), Of(q, t)
  PROVE  /\ q # <<>> => Head(q) \in Chunk /\ Head(q).text = t /\ Of(Tail(q), t)
         /\ \A c \in Chunk : c.text = t => Of(Append(q, c), t)
<1>1. ASSUME q # <<>> PROVE Head(q) \in Chunk /\ Head(q).text = t /\ Of(Tail(q), t)
  <2>1. /\ Len(q) \in Nat \ {0} /\ Len(Tail(q)) = Len(q) - 1 /\ Head(q) = q[1]
        /\ q[1] \in Chunk
        /\ \A i \in 1 .. Len(q) - 1 : Tail(q)[i] = q[i + 1]
    BY <1>1, HeadTail
  <2> QED
    BY <2>1 DEF Of
<1>2. ASSUME NEW c \in Chunk, c.text = t PROVE Of(Append(q, c), t)
  <2> DEFINE a == Append(q, c)
  <2>1. /\ Len(q) \in Nat /\ Len(a) = Len(q) + 1
        /\ (\A i \in 1 .. Len(q) : a[i] = q[i]) /\ a[Len(q) + 1] = c
    BY AppendAt
  <2> HIDE DEF a
  <2>2. ASSUME NEW i \in 1 .. Len(a) PROVE a[i].text = t
    <3>1. CASE i \in 1 .. Len(q)
      BY <2>1, <3>1 DEF Of
    <3>2. CASE i = Len(q) + 1
      BY <2>1, <3>2, <1>2
    <3> QED
      BY <2>1, <3>1, <3>2
  <2>3. Of(a, t)
    BY <2>2 DEF Of
  <2> QED
    BY <2>3 DEF a
<1> QED
  BY <1>1, <1>2

LEMMA AreQueue ==
  ASSUME NEW t \in Text, NEW q \in Seq(Text), Are(q, t)
  PROVE  /\ q # <<>> => Head(q) = t /\ q[1] = t /\ Are(Tail(q), t)
         /\ Are(Append(q, t), t)
<1>1. ASSUME q # <<>> PROVE Head(q) = t /\ q[1] = t /\ Are(Tail(q), t)
  <2>1. /\ Len(q) \in Nat \ {0} /\ Len(Tail(q)) = Len(q) - 1 /\ Head(q) = q[1]
        /\ \A i \in 1 .. Len(q) - 1 : Tail(q)[i] = q[i + 1]
    BY <1>1, HeadTail
  <2> QED
    BY <2>1 DEF Are
<1> DEFINE a == Append(q, t)
<1>2. /\ Len(q) \in Nat /\ Len(a) = Len(q) + 1
      /\ (\A i \in 1 .. Len(q) : a[i] = q[i]) /\ a[Len(q) + 1] = t
  BY AppendAt
<1> HIDE DEF a
<1>3. ASSUME NEW i \in 1 .. Len(a) PROVE a[i] = t
  <2>1. CASE i \in 1 .. Len(q)
    BY <1>2, <2>1 DEF Are
  <2>2. CASE i = Len(q) + 1
    BY <1>2, <2>2
  <2> QED
    BY <1>2, <2>1, <2>2
<1>4. Are(a, t)
  BY <1>3 DEF Are
<1> QED
  BY <1>1, <1>4 DEF a

LEMMA NoneOf ==
  ASSUME NEW t
  PROVE  Of(<<>>, t) /\ Are(<<>>, t) /\ Are(<<t>>, t) /\ Ends(<<>>)
<1>1. Len(<<>>) = 0
  BY EmptySeq
<1> QED
  BY <1>1 DEF Of, Are, Ends

LEMMA GrownOf ==
  ASSUME NEW t, NEW b \in Seq(Chunk), NEW c \in Chunk, Of(b, t), c.text = t
  PROVE  Of(Grown(b, c), t)
<1>1. Of(Append(b, c), t)
  BY OfQueue
<1>2. Of(<<c>>, t)
  BY DEF Of
<1> QED
  BY <1>1, <1>2 DEF Grown

-----------------------------------------------------------------------------
(* What ingest does when nothing is lost.                                   *)

LEMMA MacIngestEffect ==
  ASSUME TypeOK, NothingTorn, MacIngests
  PROVE  LET c == Head(clipIn) IN
         /\ c \in Chunk /\ clipIn' = Tail(clipIn)
         /\ buf' = [buf EXCEPT !["mac"] = IF Last(c) THEN <<>> ELSE Grown(buf["mac"], c)]
         /\ Last(c) => /\ guard' = [guard EXCEPT !["mac"] = c.text]
                       /\ pending' = [pending EXCEPT !["mac"] = <<c.text>>]
         /\ ~Last(c) => UNCHANGED <<guard, pending>>
<1> DEFINE c == Head(clipIn)
<1>1. Takes("mac", c)
  BY MacIngestsInOrder
<1>2. c \in Chunk
  BY StreamType, HeadTail DEF MacIngests
<1> HIDE DEF c
<1>3. clipIn' = Tail(clipIn) /\ (Ingests("mac", c) \/ Discards("mac", c))
  BY DEF MacIngests, c
<1>4. Ingests("mac", c)
  BY <1>1, <1>3 DEF Takes, Discards
<1>5. Last(c) => ~Discards("mac", c)
  BY <1>1 DEF Takes, Discards
<1>6. Last(c) => /\ guard' = [guard EXCEPT !["mac"] = c.text]
                 /\ pending' = [pending EXCEPT !["mac"] = <<c.text>>]
  BY <1>1, <1>5 DEF MacIngests, Takes, c
<1>7. ~Last(c) => UNCHANGED <<guard, pending>>
  BY DEF MacIngests, Completes, c
<1> QED
  BY <1>2, <1>3, <1>4, <1>6, <1>7 DEF Ingests, c

LEMMA WinIngestEffect ==
  ASSUME TypeOK, NothingTorn, WinIngests, lost' = FALSE
  PROVE  LET c == Head(wire["mac"]) IN
         /\ c \in Chunk /\ wire' = [wire EXCEPT !["mac"] = Tail(@)]
         /\ buf' = [buf EXCEPT !["win"] = IF Last(c) THEN <<>> ELSE Grown(buf["win"], c)]
         /\ Last(c) => Put("win", c.text) /\ pending' = [pending EXCEPT !["win"] = <<c.text>>]
         /\ ~Last(c) => UNCHANGED <<clip, news, pending>>
<1> DEFINE c == Head(wire["mac"])
<1>1. Takes("win", c)
  BY WinIngestsInOrder
<1>2. c \in Chunk
  BY StreamType, HeadTail DEF WinIngests
<1> HIDE DEF c
<1>3. /\ wire' = [wire EXCEPT !["mac"] = Tail(@)]
      /\ Ingests("win", c) \/ Discards("win", c)
  BY DEF WinIngests, c
<1>4. Ingests("win", c)
  BY <1>1, <1>3 DEF Takes, Discards
<1>5. Last(c) => ~Discards("win", c)
  BY <1>1 DEF Takes, Discards
<1>6. Last(c) => Put("win", c.text) /\ pending' = [pending EXCEPT !["win"] = <<c.text>>]
  BY <1>1, <1>5 DEF WinIngests, Takes, c
<1>7. ~Last(c) => UNCHANGED <<clip, news, pending>>
  BY DEF WinIngests, Completes, c
<1> QED
  BY <1>2, <1>3, <1>4, <1>6, <1>7 DEF Ingests, c

-----------------------------------------------------------------------------
(* No payload stops short unless something fails.                           *)

LEMMA TakenIsText ==
  ASSUME ClipTypes, NEW s \in Side, OutTakes(s)
  PROVE  Head(events[s]) \in Text \ {Nothing} /\ Tail(events[s]) \in Seq(Text)
<1>1. events[s] \in Seq(Text \ {Nothing}) /\ events[s] \in Seq(Text) /\ events[s] # <<>>
  BY DEF OutTakes, ClipTypes, EventsAreText, TypeOK
<1> QED
  BY <1>1, HeadTail

LEMMA FlowsStep ==
  ASSUME ClipTypes, NothingTorn, Flows, Next, lost' = FALSE
  PROVE  Flows'
<1>0. TypeOK
  BY DEF ClipTypes
<1>1. /\ "mac" \in Side /\ "win" \in Side /\ Side = {"mac", "win"} /\ clipIn \in Seq(Chunk)
      /\ buf \in [Side -> Seq(Chunk)] /\ wire \in [Side -> Seq(Chunk)]
      /\ sending \in [Side -> Seq(Chunk)]
  BY <1>0 DEF TypeOK, Side
<1>2. ASSUME UNCHANGED <<sending, wire, clipIn, buf>> PROVE Flows'
  BY <1>2 DEF Flows
<1>3. ASSUME NEW s \in Side, OutTakes(s) PROVE Flows'
  <2> DEFINE t == Head(events[s])
             z == IF IsEcho(s, t) THEN <<>> ELSE Split(t)
  <2>1. /\ sending[s] = <<>> /\ UNCHANGED <<wire, clipIn, buf>>
        /\ sending' = [sending EXCEPT ![s] = z]
    BY <1>3 DEF OutTakes
  <2>2. z = <<>> \/ (Ends(z) /\ z # <<>>)
    BY <1>3, TakenIsText, SplitEnds
  <2> HIDE DEF z
  <2>3. CASE z = <<>>
    <3>1. sending' = sending
      BY <1>1, <2>1, <2>3
    <3> QED
      BY <1>2, <2>1, <3>1
  <2>4. CASE Ends(z) /\ z # <<>>
    BY <1>1, <2>1, <2>4 DEF Flows
  <2> QED
    BY <2>2, <2>3, <2>4
<1>4. ASSUME NEW s \in Side, OutSends(s) PROVE Flows'
  <2> DEFINE o == sending[s]
             w == Append(wire[s], Head(o))
  <2>1. /\ o # <<>> /\ UNCHANGED <<clipIn, buf>>
        /\ sending' = [sending EXCEPT ![s] = Tail(o)] /\ wire' = [wire EXCEPT ![s] = w]
    BY <1>4 DEF OutSends
  <2>2. o \in Seq(Chunk) /\ Head(o) \in Chunk /\ Ends(o)
    BY <1>1, <2>1, HeadTail DEF Flows
  <2>3. Ends(Tail(o)) /\ (Tail(o) = <<>> => Last(Head(o)))
    BY <2>1, <2>2, EndsTail
  <2>4. w # <<>> /\ (Tail(o) = <<>> => Ends(w))
    <3>1. w # <<>>
      BY <1>1, <2>2, AppendNotEmpty
    <3> QED
      BY <1>1, <2>2, <2>3, <3>1, EndsAppend
  <2>5. PICK u : u = Tail(o)
    OBVIOUS
  <2> HIDE DEF w, o
  <2> QED
    BY <1>1, <2>1, <2>3, <2>4, <2>5 DEF Flows
<1>5. ASSUME MacReads PROVE Flows'
  <2> DEFINE w == wire["win"]
             q == Append(clipIn, Head(w))
  <2>1. /\ w # <<>> /\ UNCHANGED <<sending, buf>>
        /\ wire' = [wire EXCEPT !["win"] = Tail(w)] /\ clipIn' = q
    BY <1>5 DEF MacReads
  <2>2. w \in Seq(Chunk) /\ Head(w) \in Chunk /\ (sending["win"] = <<>> => Ends(w))
    BY <1>1, <2>1, HeadTail DEF Flows
  <2>3. /\ sending["win"] = <<>> => Ends(Tail(w))
        /\ sending["win"] = <<>> /\ Tail(w) = <<>> => Last(Head(w))
    BY <2>1, <2>2, EndsTail
  <2>4. q # <<>> /\ (Last(Head(w)) => Ends(q))
    <3>1. q # <<>>
      BY <1>1, <2>2, AppendNotEmpty
    <3> QED
      BY <1>1, <2>2, <3>1, EndsAppend
  <2> HIDE DEF q
  <2> QED
    BY <1>1, <2>1, <2>3, <2>4 DEF Flows
<1>6. ASSUME MacIngests PROVE Flows'
  <2> DEFINE c == Head(clipIn)
             g == IF Last(c) THEN <<>> ELSE Grown(buf["mac"], c)
  <2>1. /\ clipIn # <<>> /\ UNCHANGED <<sending, wire>> /\ clipIn' = Tail(clipIn)
        /\ buf' = [buf EXCEPT !["mac"] = g]
    BY <1>0, <1>6, MacIngestEffect DEF MacIngests
  <2>2. sending["win"] = <<>> /\ wire["win"] = <<>> =>
          Ends(Tail(clipIn)) /\ (Tail(clipIn) = <<>> => Last(c))
    BY <1>1, <2>1, EndsTail DEF Flows
  <2>3. Last(c) => g = <<>>
    OBVIOUS
  <2> HIDE DEF g, c
  <2> QED
    BY <1>1, <2>1, <2>2, <2>3 DEF Flows
<1>7. ASSUME WinIngests PROVE Flows'
  <2> DEFINE w == wire["mac"]
             c == Head(w)
             g == IF Last(c) THEN <<>> ELSE Grown(buf["win"], c)
  <2>1. /\ w # <<>> /\ UNCHANGED <<sending, clipIn>> /\ wire' = [wire EXCEPT !["mac"] = Tail(w)]
        /\ buf' = [buf EXCEPT !["win"] = g]
    BY <1>0, <1>7, WinIngestEffect DEF WinIngests
  <2>2. sending["mac"] = <<>> => Ends(Tail(w)) /\ (Tail(w) = <<>> => Last(c))
    BY <1>1, <2>1, EndsTail DEF Flows
  <2>3. Last(c) => g = <<>>
    OBVIOUS
  <2> HIDE DEF g, c
  <2> QED
    BY <1>1, <2>1, <2>2, <2>3 DEF Flows
<1>8. ~\E s \in Side : LookFails(s)
  BY DEF LookFails
<1>9. ~SessionEnds
  BY DEF SessionEnds
<1>10. \A s \in Side, t \in Texts : UserCopy(s, t) => Flows'
  BY <1>2 DEF UserCopy, session
<1>11. \A s \in Side : Look(s) => Flows'
  BY <1>2 DEF Look, session
<1>12. MacWrites \/ WinRemembers \/ Connect => Flows'
  BY <1>2 DEF MacWrites, WinRemembers, Connect
<1> QED
  BY <1>3, <1>4, <1>5, <1>6, <1>7, <1>8, <1>9, <1>10, <1>11, <1>12
  DEF Next, SideStep, MacStep, WinStep

-----------------------------------------------------------------------------
(* The one text.                                                            *)

\* What the steps of the two programs, all but a user's, do to what is carried.
Works == (\E s \in Side : SideStep(s)) \/ MacStep \/ WinStep

LEMMA CarriesStep ==
  ASSUME ClipTypes, NothingTorn, up, NEW t \in Text, Carries(t), Works, lost' = FALSE,
         \A s \in Side : Look(s) => clip[s] = t,
         t \in seen \cup {Nothing}, GuardsKnown
  PROVE  Carries(t)' /\ GuardsKnown'
<1>0. TypeOK
  BY DEF ClipTypes
<1>1. /\ "mac" \in Side /\ "win" \in Side /\ Side = {"mac", "win"} /\ clipIn \in Seq(Chunk)
      /\ buf \in [Side -> Seq(Chunk)] /\ wire \in [Side -> Seq(Chunk)]
      /\ sending \in [Side -> Seq(Chunk)] /\ events \in [Side -> Seq(Text)]
      /\ pending \in [Side -> Seq(Text)] /\ guard \in [Side -> Text]
  BY <1>0 DEF TypeOK, Side
<1>2. ASSUME NEW s \in Side, Look(s) PROVE Carries(t)' /\ GuardsKnown'
  <2>1. UNCHANGED <<clipIn, sending, wire, buf, pending, guard, seen>>
    BY <1>2 DEF Look, session, history
  <2>2. PICK e : e = Append(events[s], t)
    OBVIOUS
  <2>3. events' = events \/ events' = [events EXCEPT ![s] = e]
    BY <1>2, <2>2 DEF Look
  <2>4. Are(e, t)
    BY <1>1, <2>2, AreQueue DEF Carries
  <2>5. \A r \in Side : Are(events'[r], t)
    BY <1>1, <2>3, <2>4 DEF Carries
  <2> QED
    BY <2>1, <2>5 DEF Carries, GuardsKnown
<1>3. ASSUME NEW s \in Side, OutTakes(s) PROVE Carries(t)' /\ GuardsKnown'
  <2>1. UNCHANGED <<clipIn, wire, buf, pending, guard, seen>>
    BY <1>3 DEF OutTakes, history
  <2>2. Head(events[s]) = t /\ Are(Tail(events[s]), t) /\ t \in Text \ {Nothing}
    BY ZenonT(40), <1>1, <1>3, AreQueue, TakenIsText DEF OutTakes, Carries
  <2>3. PICK z : z = IF IsEcho(s, t) THEN <<>> ELSE Split(t)
    OBVIOUS
  <2>4. Of(z, t)
    BY <2>2, <2>3, NoneOf, SplitEnds
  <2>5. /\ events' = [events EXCEPT ![s] = Tail(events[s])]
        /\ sending' = [sending EXCEPT ![s] = z]
    BY <1>3, <2>2, <2>3 DEF OutTakes
  <2>6. \A r \in Side : Are(events'[r], t) /\ Of(sending'[r], t)
    BY <1>1, <2>2, <2>4, <2>5 DEF Carries
  <2> QED
    BY <2>1, <2>6 DEF Carries, GuardsKnown
<1>4. ASSUME NEW s \in Side, OutSends(s) PROVE Carries(t)' /\ GuardsKnown'
  <2> DEFINE o == sending[s]
  <2>1. /\ o # <<>> /\ UNCHANGED <<clipIn, buf, events, pending, guard, seen>>
        /\ sending' = [sending EXCEPT ![s] = Tail(o)]
        /\ wire' = [wire EXCEPT ![s] = Append(wire[s], Head(o))]
    BY <1>4 DEF OutSends
  <2>2. Of(o, t) /\ Of(wire[s], t) /\ o \in Seq(Chunk) /\ wire[s] \in Seq(Chunk)
    BY <1>1 DEF Carries
  <2>3. Head(o).text = t /\ Head(o) \in Chunk /\ Of(Tail(o), t)
    BY <2>1, <2>2, OfQueue
  <2>4. Of(Append(wire[s], Head(o)), t)
    BY <2>2, <2>3, OfQueue
  <2>5. PICK w, u : w = Append(wire[s], Head(o)) /\ u = Tail(o)
    OBVIOUS
  <2>6. \A r \in Side : Of(wire'[r], t) /\ Of(sending'[r], t)
    BY <1>1, <2>1, <2>3, <2>4, <2>5 DEF Carries
  <2> QED
    BY <2>1, <2>6 DEF Carries, GuardsKnown
<1>5. ASSUME MacReads PROVE Carries(t)' /\ GuardsKnown'
  <2> DEFINE w == wire["win"]
  <2>1. /\ w # <<>> /\ UNCHANGED <<sending, buf, events, pending, guard, seen>>
        /\ wire' = [wire EXCEPT !["win"] = Tail(w)]
        /\ clipIn' = Append(clipIn, Head(w))
    BY <1>5 DEF MacReads
  <2>2. Of(clipIn, t) /\ Of(w, t) /\ w \in Seq(Chunk)
    BY <1>1 DEF Carries
  <2>3. Head(w).text = t /\ Head(w) \in Chunk /\ Of(Tail(w), t)
    BY <2>1, <2>2, OfQueue
  <2>4. Of(clipIn', t)
    <3>1. PICK c : c = Head(w)
      OBVIOUS
    <3>2. Of(Append(clipIn, c), t)
      BY <1>1, <2>2, <2>3, <3>1, OfQueue
    <3> QED
      BY <2>1, <3>1, <3>2
  <2>5. \A r \in Side : Of(wire'[r], t)
    BY <1>1, <2>1, <2>3 DEF Carries
  <2> QED
    BY <2>1, <2>4, <2>5 DEF Carries, GuardsKnown
<1>6. ASSUME MacIngests PROVE Carries(t)' /\ GuardsKnown'
  <2> DEFINE c == Head(clipIn)
             g == IF Last(c) THEN <<>> ELSE Grown(buf["mac"], c)
  <2>1. /\ clipIn # <<>> /\ UNCHANGED <<sending, wire, events, seen>> /\ clipIn' = Tail(clipIn)
        /\ buf' = [buf EXCEPT !["mac"] = g] /\ c \in Chunk
        /\ Last(c) => /\ guard' = [guard EXCEPT !["mac"] = c.text]
                      /\ pending' = [pending EXCEPT !["mac"] = <<c.text>>]
        /\ ~Last(c) => UNCHANGED <<guard, pending>>
    BY <1>0, <1>6, MacIngestEffect DEF MacIngests, history
  <2>2. Of(clipIn, t) /\ Of(buf["mac"], t) /\ buf["mac"] \in Seq(Chunk)
    BY <1>1 DEF Carries
  <2>3. c.text = t /\ Of(Tail(clipIn), t)
    BY <1>1, <2>1, <2>2, OfQueue
  <2>4. Of(g, t)
    BY <2>1, <2>2, <2>3, GrownOf, NoneOf
  <2> HIDE DEF g, c
  <2>5. \A r \in Side : Of(buf'[r], t)
    BY <1>1, <2>1, <2>4 DEF Carries
  <2>6. (\A r \in Side : Are(pending'[r], t)) /\ GuardsKnown'
    <3>1. CASE Last(c)
      <4>1. guard' = [guard EXCEPT !["mac"] = t] /\ pending' = [pending EXCEPT !["mac"] = <<t>>]
        BY <2>1, <2>3, <3>1
      <4> QED
        BY <1>1, <2>1, <4>1, NoneOf DEF Carries, GuardsKnown
    <3>2. CASE ~Last(c)
      BY <2>1, <3>2 DEF Carries, GuardsKnown
    <3> QED
      BY <3>1, <3>2
  <2> QED
    BY <2>1, <2>3, <2>5, <2>6 DEF Carries
<1>7. ASSUME WinIngests PROVE Carries(t)' /\ GuardsKnown'
  <2> DEFINE w == wire["mac"]
             c == Head(w)
             g == IF Last(c) THEN <<>> ELSE Grown(buf["win"], c)
  <2>1. /\ w # <<>> /\ UNCHANGED <<sending, clipIn, events, guard, seen>>
        /\ wire' = [wire EXCEPT !["mac"] = Tail(w)]
        /\ buf' = [buf EXCEPT !["win"] = g] /\ c \in Chunk
        /\ pending' = pending \/ pending' = [pending EXCEPT !["win"] = <<c.text>>]
    BY <1>0, <1>7, WinIngestEffect DEF WinIngests
  <2>2. Of(w, t) /\ w \in Seq(Chunk) /\ Of(buf["win"], t) /\ buf["win"] \in Seq(Chunk)
    BY <1>1 DEF Carries
  <2>3. c.text = t /\ Of(Tail(w), t)
    BY <2>1, <2>2, OfQueue
  <2>4. Of(g, t)
    BY <2>1, <2>2, <2>3, GrownOf, NoneOf
  <2> HIDE DEF g, c
  <2>5. \A r \in Side : Of(buf'[r], t) /\ Of(wire'[r], t)
    BY <1>1, <2>1, <2>3, <2>4 DEF Carries
  <2>6. \A r \in Side : Are(pending'[r], t)
    BY <1>1, <2>1, <2>3, NoneOf DEF Carries
  <2> QED
    BY <2>1, <2>5, <2>6 DEF Carries, GuardsKnown
<1>8. ASSUME MacWrites PROVE Carries(t)' /\ GuardsKnown'
  <2>1. /\ UNCHANGED <<clipIn, sending, wire, buf, events, guard, seen>>
        /\ pending' = [pending EXCEPT !["mac"] = <<>>]
    BY <1>8 DEF MacWrites, history
  <2>2. \A r \in Side : Are(pending'[r], t)
    BY <1>1, <2>1, NoneOf DEF Carries
  <2> QED
    BY <2>1, <2>2 DEF Carries, GuardsKnown
<1>9. ASSUME WinRemembers PROVE Carries(t)' /\ GuardsKnown'
  <2>1. /\ UNCHANGED <<clipIn, sending, wire, buf, events, seen>>
        /\ pending["win"] # <<>> /\ pending' = [pending EXCEPT !["win"] = <<>>]
        /\ guard' = [guard EXCEPT !["win"] = pending["win"][1]]
    BY <1>9 DEF WinRemembers, history
  <2>2. pending["win"][1] = t
    BY <1>1, <2>1, AreQueue DEF Carries
  <2>3. \A r \in Side : Are(pending'[r], t)
    BY <1>1, <2>1, NoneOf DEF Carries
  <2>4. GuardsKnown'
    BY <1>1, <2>1, <2>2 DEF GuardsKnown
  <2> QED
    BY <2>1, <2>3, <2>4 DEF Carries
<1> QED
  BY <1>2, <1>3, <1>4, <1>5, <1>6, <1>7, <1>8, <1>9 DEF Works, SideStep, MacStep, WinStep

\* Where the text is.
LEMMA PlaceStep ==
  ASSUME ClipTypes, NothingTorn, Flows, Flows', up, NEW t \in Text, Carries(t), Works,
         lost' = FALSE, BothHave(t) \/ \E s \in Side : Underway(s, t)
  PROVE  BothHave(t)' \/ \E s \in Side : Underway(s, t)'
<1>0. TypeOK
  BY DEF ClipTypes
<1>1. /\ "mac" \in Side /\ "win" \in Side /\ Side = {"mac", "win"} /\ clipIn \in Seq(Chunk)
      /\ buf \in [Side -> Seq(Chunk)] /\ wire \in [Side -> Seq(Chunk)]
      /\ sending \in [Side -> Seq(Chunk)] /\ events \in [Side -> Seq(Text)]
      /\ pending \in [Side -> Seq(Text)] /\ guard \in [Side -> Text]
      /\ clip \in [Side -> Text] /\ news \in [Side -> 0 .. MaxNews] /\ MaxNews \in Nat
      /\ Peer("mac") = "win" /\ Peer("win") = "mac"
  BY <1>0, ConstantsAssumption DEF TypeOK, Side, Peer
\* The text that ingest takes from a stream is t.
<1>2. ASSUME MacIngests
      PROVE  LET c == Head(clipIn) IN
             /\ clipIn # <<>> /\ UNCHANGED <<clip, news, events, sending, wire>>
             /\ Last(c) => pending' = [pending EXCEPT !["mac"] = <<t>>]
             /\ ~Last(c) => /\ UNCHANGED pending
                            /\ clipIn' # <<>> \/ wire["win"] # <<>> \/ sending["win"] # <<>>
             /\ guard'["win"] = guard["win"]
  <2> DEFINE c == Head(clipIn)
             g == IF Last(c) THEN <<>> ELSE Grown(buf["mac"], c)
  <2>1. /\ clipIn # <<>> /\ UNCHANGED <<clip, news, events, sending, wire>>
        /\ buf' = [buf EXCEPT !["mac"] = g] /\ c \in Chunk /\ c.text = t
        /\ Last(c) => /\ guard' = [guard EXCEPT !["mac"] = c.text]
                      /\ pending' = [pending EXCEPT !["mac"] = <<c.text>>]
        /\ ~Last(c) => UNCHANGED <<guard, pending>>
    BY <1>0, <1>1, <1>2, MacIngestEffect, OfQueue DEF MacIngests, Carries
  <2>2. ~Last(c) => g # <<>>
    BY <1>1, <2>1, GrownType
  <2>3. g # <<>> => clipIn' # <<>> \/ wire["win"] # <<>> \/ sending["win"] # <<>>
    <3> HIDE DEF g, c
    <3> QED
      BY <1>1, <2>1 DEF Flows
  <2> HIDE DEF g, c
  <2>4. guard'["win"] = guard["win"]
    BY <1>1, <2>1
  <2> QED
    BY <2>1, <2>2, <2>3, <2>4 DEF c
<1>3. ASSUME WinIngests
      PROVE  LET c == Head(wire["mac"]) IN
             /\ wire["mac"] # <<>> /\ UNCHANGED <<guard, events, sending, clipIn>>
             /\ Last(c) => clip' = [clip EXCEPT !["win"] = t]
             /\ ~Last(c) => /\ UNCHANGED <<clip, news, pending>>
                            /\ wire'["mac"] # <<>> \/ sending["mac"] # <<>>
             /\ wire'["win"] = wire["win"]
  <2> DEFINE w == wire["mac"]
             c == Head(w)
             g == IF Last(c) THEN <<>> ELSE Grown(buf["win"], c)
  <2>1. /\ w # <<>> /\ UNCHANGED <<guard, events, sending, clipIn>>
        /\ buf' = [buf EXCEPT !["win"] = g] /\ c \in Chunk
        /\ Last(c) => Put("win", c.text)
        /\ ~Last(c) => UNCHANGED <<clip, news, pending>>
        /\ wire' = [wire EXCEPT !["mac"] = Tail(@)]
    BY <1>0, <1>3, WinIngestEffect DEF WinIngests
  <2>2. c.text = t
    BY <1>1, <2>1, OfQueue DEF Carries
  <2>3. ~Last(c) => g # <<>>
    BY <1>1, <2>1, GrownType
  <2>4. g # <<>> => wire'["mac"] # <<>> \/ sending["mac"] # <<>>
    <3> HIDE DEF g, c
    <3> QED
      BY <1>1, <2>1 DEF Flows
  <2> HIDE DEF g, c
  <2>5. wire'["win"] = wire["win"]
    BY <1>1, <2>1
  <2> QED
    BY <2>1, <2>2, <2>3, <2>4, <2>5 DEF Put, c
\* What the Mac writes is t.
<1>4. MacWrites => clip' = [clip EXCEPT !["mac"] = t] /\ pending["mac"] # <<>>
  BY <1>1, AreQueue DEF MacWrites, Put, Carries
<1>5. CASE BothHave(t)
  <2>1. clip' = clip \/ \E s \in Side : clip' = [clip EXCEPT ![s] = t]
    <3>1. MacIngests \/ MacReads \/ WinRemembers => clip' = clip
      BY <1>2 DEF MacReads, WinRemembers
    <3>2. ASSUME NEW s \in Side, SideStep(s) PROVE clip' = clip
      BY <3>2 DEF SideStep, Look, OutTakes, OutSends
    <3>3. WinIngests => clip' = clip \/ clip' = [clip EXCEPT !["win"] = t]
      BY <1>3
    <3> QED
      BY <1>1, <1>4, <3>1, <3>2, <3>3 DEF Works, MacStep, WinStep
  <2> QED
    BY <1>1, <1>5, <2>1 DEF BothHave
<1>6. ASSUME NEW s \in Side, Underway(s, t)
      PROVE  BothHave(t)' \/ Underway(s, t)'
  <2>0. /\ t \in Texts /\ clip[s] = t /\ guard[s] # t /\ pending["win"] = <<>>
        /\ Idle(Peer(s)) /\ t \in Text \ {Nothing}
    BY <1>6, ConstantsAssumption DEF Underway
  <2>1. ASSUME NEW p \in Side, Look(p) PROVE Underway(s, t)'
    <3>1. p = s
      BY <1>1, <2>0, <2>1 DEF Look, Idle
    <3>2. /\ UNCHANGED <<clip, guard, pending, sending, wire, clipIn>>
          /\ events' = [events EXCEPT ![s] = Append(events[s], t)]
          /\ news' = [news EXCEPT ![s] = @ - 1]
      BY <2>0, <2>1, <3>1 DEF Look, session
    <3>3. Append(events[s], t) # <<>>
      BY <1>1, AppendNotEmpty
    <3> QED
      BY <1>1, <2>0, <3>2, <3>3 DEF Underway, Idle
  <2>2. ASSUME NEW p \in Side, OutTakes(p) PROVE Underway(s, t)'
    <3>1. p = s
      BY <1>1, <2>0, <2>2 DEF OutTakes, Idle
    <3>2. Head(events[s]) = t
      BY <1>1, <2>2, <3>1, AreQueue DEF OutTakes, Carries
    <3>3. PICK z : z = Split(t)
      OBVIOUS
    <3>4. /\ UNCHANGED <<clip, guard, pending, news, wire, clipIn>>
          /\ events' = [events EXCEPT ![s] = Tail(@)]
          /\ sending' = [sending EXCEPT ![s] = z]
      BY <2>0, <2>2, <3>1, <3>2, <3>3 DEF OutTakes, IsEcho
    <3>5. z # <<>>
      BY <2>0, <3>3, SplitEnds
    <3> QED
      BY <1>1, <2>0, <3>4, <3>5 DEF Underway, Idle
  <2>3. ASSUME NEW p \in Side, OutSends(p) PROVE Underway(s, t)'
    <3>1. p = s /\ sending[s] # <<>>
      BY <1>1, <2>0, <2>3 DEF OutSends, Idle
    <3>2. PICK w : w = Append(wire[s], Head(sending[s]))
      OBVIOUS
    <3>3. /\ UNCHANGED <<clip, guard, pending, news, events, clipIn>>
          /\ sending' = [sending EXCEPT ![s] = Tail(@)]
          /\ wire' = [wire EXCEPT ![s] = w]
      BY <2>3, <3>1, <3>2 DEF OutSends
    <3>4. w # <<>>
      <4>1. sending[s] \in Seq(Chunk) /\ wire[s] \in Seq(Chunk)
        BY <1>1
      <4>2. Head(sending[s]) \in Chunk
        BY <3>1, <4>1, HeadTail
      <4> QED
        BY <3>2, <4>1, <4>2, AppendNotEmpty
    <3> QED
      BY <1>1, <2>0, <3>3, <3>4 DEF Underway, Idle
  <2>4. ASSUME MacReads PROVE Underway(s, t)'
    <3>1. s = "win" /\ wire["win"] # <<>>
      BY <1>1, <2>0, <2>4 DEF MacReads, Idle
    <3>2. /\ UNCHANGED <<clip, guard, pending, news, events, sending>>
          /\ wire' = [wire EXCEPT !["win"] = Tail(@)]
          /\ clipIn' = Append(clipIn, Head(wire["win"]))
      BY <2>4 DEF MacReads
    <3>3. clipIn' # <<>>
      <4>1. wire["win"] \in Seq(Chunk)
        BY <1>1
      <4>2. Head(wire["win"]) \in Chunk
        BY <3>1, <4>1, HeadTail
      <4> QED
        BY <1>1, <3>2, <4>2, AppendNotEmpty
    <3> QED
      BY <1>1, <2>0, <3>1, <3>2, <3>3 DEF Underway, Idle
  <2>5. ASSUME MacIngests PROVE Underway(s, t)'
    <3>1. s = "win"
      BY <1>1, <1>2, <2>0, <2>5 DEF Idle
    <3>2. /\ UNCHANGED <<clip, news, events, sending, wire>>
          /\ pending'["win"] = pending["win"] /\ guard'["win"] = guard["win"]
          /\ \/ pending'["mac"] = <<t>>
             \/ clipIn' # <<>> \/ wire["win"] # <<>> \/ sending["win"] # <<>>
      BY <1>1, <1>2, <2>5
    <3>3. <<t>> # <<>>
      OBVIOUS
    <3>4. ~Idle("win")'
      BY <1>1, <3>2, <3>3 DEF Idle
    <3>5. Idle("mac")'
      BY <1>1, <2>0, <3>1, <3>2 DEF Idle
    <3> QED
      BY <1>1, <2>0, <3>1, <3>2, <3>4, <3>5 DEF Underway
  <2>6. ASSUME MacWrites PROVE BothHave(t)'
    <3>1. s = "win"
      BY <1>1, <1>4, <2>0, <2>6 DEF Idle
    <3> QED
      BY <1>1, <1>4, <2>0, <2>6, <3>1 DEF BothHave
  <2>7. ASSUME WinIngests PROVE BothHave(t)' \/ Underway(s, t)'
    <3>1. s = "mac"
      BY <1>1, <1>3, <2>0, <2>7 DEF Idle
    <3>2. CASE Last(Head(wire["mac"]))
      BY <1>1, <1>3, <2>0, <2>7, <3>1, <3>2 DEF BothHave
    <3>3. CASE ~Last(Head(wire["mac"]))
      BY <1>1, <1>3, <2>0, <2>7, <3>1, <3>3 DEF Underway, Idle
    <3> QED
      BY <3>2, <3>3
  <2>8. ~WinRemembers
    BY <2>0 DEF WinRemembers
  <2> QED
    BY <2>1, <2>2, <2>3, <2>4, <2>5, <2>6, <2>7, <2>8 DEF Works, SideStep, MacStep, WinStep
<1> QED
  BY <1>5, <1>6

\* A user copies another text when all is quiet: it is on its way.
LEMMA CopyStarts ==
  ASSUME ClipTypes, Flows, Quiet, up, GuardsKnown,
         NEW s \in Side, NEW u \in Texts, u \notin seen, UserCopy(s, u)
  PROVE  GuardsKnown' /\ Synced(u)'
<1>1. /\ "mac" \in Side /\ "win" \in Side /\ Side = {"mac", "win"}
      /\ clip \in [Side -> Text] /\ news \in [Side -> 0 .. MaxNews] /\ MaxNews \in Nat
      /\ Peer("mac") = "win" /\ Peer("win") = "mac" /\ \A r \in Side : Peer(r) \in Side /\ Peer(r) # r
  BY ConstantsAssumption DEF ClipTypes, TypeOK, Side, Peer
<1>2. /\ UNCHANGED <<events, sending, wire, clipIn, buf, pending, guard>>
      /\ seen' = seen \cup {u} /\ Put(s, u)
  BY DEF UserCopy, session
<1>3. \A r \in Side : /\ events[r] = <<>> /\ sending[r] = <<>> /\ wire[r] = <<>>
                      /\ pending[r] = <<>> /\ news[r] = 0
  BY DEF Quiet, Empty
<1>4. clipIn = <<>> /\ \A r \in Side : buf[r] = <<>>
  BY <1>1, <1>3 DEF Quiet, Flows
<1>5. Carries(u)'
  BY <1>2, <1>3, <1>4, NoneOf DEF Carries
<1>6. /\ clip'[s] = u /\ news'[s] > 0 /\ news'[Peer(s)] = 0
  BY <1>1, <1>2, <1>3 DEF Put
<1>7. guard[s] # u
  BY ConstantsAssumption DEF GuardsKnown
<1>8. Underway(s, u)'
  BY <1>1, <1>2, <1>3, <1>4, <1>6, <1>7 DEF Underway, Idle
<1>9. GuardsKnown'
  BY <1>2 DEF GuardsKnown
<1> QED
  BY <1>2, <1>5, <1>8, <1>9 DEF Synced

LEMMA SyncStep ==
  ASSUME ClipTypes, ClipInv, SyncInv, [Next]_vars, TypeOK'
  PROVE  SyncInv'
<1>1. SUFFICES ASSUME lost' = FALSE PROVE SyncInv'
  BY DEF SyncInv, TypeOK
<1>2. CASE UNCHANGED vars
  BY <1>2 DEF vars, session, history, SyncInv, Flows, GuardsKnown, Synced, Carries, BothHave,
    Underway, Idle
<1>3. CASE Next
  <2>1. lost = FALSE
    <3>1. lost' = lost \/ lost' = TRUE
      BY <1>3 DEF Next, UserCopy, SideStep, MacStep, WinStep, Look, LookFails, OutTakes,
        OutSends, MacReads, MacIngests, MacWrites, WinIngests, WinRemembers, SessionEnds,
        Connect, session, history
    <3> QED
      BY <1>1, <3>1
  <2>2. up /\ inLost = FALSE /\ Flows /\ NothingTorn
    BY <2>1 DEF SyncInv, ClipInv, ClipTypes, TypeOK
  <2>3. up' /\ ~inLost'
    BY <1>1, <1>3, <2>2 DEF Next, UserCopy, SideStep, MacStep, WinStep, Look, LookFails,
      OutTakes, OutSends, MacReads, MacIngests, MacWrites, WinIngests, WinRemembers,
      SessionEnds, Connect, session, history
  <2>4. Flows'
    BY <1>1, <1>3, <2>2, FlowsStep
  <2>5. Works \/ \E s \in Side, u \in Texts : UserCopy(s, u)
    BY <1>1, <1>3, <2>2 DEF Next, Works, LookFails, SessionEnds, Connect
  <2>6. ASSUME serial', fresh' PROVE GuardsKnown' /\ \E t \in Text : Synced(t)'
    <3>1. CASE Works
      <4>1. UNCHANGED <<serial, fresh, seen>>
        BY <3>1 DEF Works, SideStep, MacStep, WinStep, Look, OutTakes, OutSends, MacReads,
          MacIngests, MacWrites, WinIngests, WinRemembers, history
      <4>2. PICK t \in Text : Synced(t)
        BY <2>1, <2>6, <4>1 DEF SyncInv
      <4>3. GuardsKnown
        BY <2>1, <2>6, <4>1 DEF SyncInv
      <4>4. ASSUME NEW s \in Side, Look(s) PROVE clip[s] = t
        BY <4>2, <4>4 DEF Look, Synced, BothHave, Underway, Idle, Side, Peer
      <4>5. Carries(t)' /\ GuardsKnown'
        BY <1>1, <2>2, <3>1, <4>2, <4>3, <4>4, CarriesStep DEF Synced
      <4>6. BothHave(t)' \/ \E s \in Side : Underway(s, t)'
        BY <1>1, <2>2, <2>4, <3>1, <4>2, PlaceStep DEF Synced
      <4> QED
        BY <4>1, <4>2, <4>5, <4>6 DEF Synced
    <3>2. ASSUME NEW s \in Side, NEW u \in Texts, UserCopy(s, u)
          PROVE  GuardsKnown' /\ \E t \in Text : Synced(t)'
      <4>1. serial /\ Quiet /\ fresh /\ u \notin seen
        BY <2>6, <3>2 DEF UserCopy
      <4>2. GuardsKnown
        BY <2>1, <4>1 DEF SyncInv
      <4>3. GuardsKnown' /\ Synced(u)'
        BY <2>2, <3>2, <4>1, <4>2, CopyStarts
      <4> QED
        BY <4>3 DEF Text
    <3> QED
      BY <2>5, <3>1, <3>2
  <2> QED
    BY <2>3, <2>4, <2>6 DEF SyncInv
<1> QED
  BY <1>2, <1>3

\* Copies made one at a time of texts not copied before reach the other side, for
\* any texts and sizes and whatever echo goes back meanwhile.
THEOREM FreshCopiesArrive == Spec => []SerialFreshCopiesSync
<1>1. Init => SyncInv
  <2> SUFFICES ASSUME Init PROVE SyncInv
    OBVIOUS
  <2>1. \A s \in Side : Empty[s] = <<>>
    BY DEF Empty
  <2>2. "mac" \in Side /\ "win" \in Side /\ Nothing \in Text
    BY DEF Side, Text
  <2>3. up /\ ~inLost /\ Flows /\ GuardsKnown
    BY <2>1, <2>2, NoneOf DEF Init, Flows, GuardsKnown
  <2>4. Carries(Nothing) /\ BothHave(Nothing)
    BY <2>1, <2>2, NoneOf DEF Init, Carries, BothHave
  <2>5. Synced(Nothing)
    BY <2>4 DEF Synced
  <2> QED
    BY <2>2, <2>3, <2>5 DEF SyncInv
<1>2. /\ (ClipTypes /\ ClipInv) /\ (ClipTypes /\ ClipInv)' /\ SyncInv /\ [Next]_vars
      => SyncInv'
  BY SyncStep DEF ClipTypes
<1>3. SyncInv => SerialFreshCopiesSync
  <2> SUFFICES ASSUME SyncInv, Quiet, up, serial, ~lost, fresh PROVE clip["mac"] = clip["win"]
    BY DEF SerialFreshCopiesSync
  <2>1. PICK t \in Text : Synced(t)
    BY DEF SyncInv
  <2>2. \A s \in Side : Idle(s)
    BY DEF Quiet, Empty, Idle, Side, Peer
  <2> QED
    BY <2>1, <2>2 DEF Synced, Underway, BothHave
<1> QED
  BY <1>1, <1>2, <1>3, WholeHolds, PTL DEF Spec
=============================================================================
