------------------------- MODULE FrameStreamProofs -------------------------
(***************************************************************************)
(* Proofs about FrameStream, for bytes of any radix from 16, every choice  *)
(* of events, sample messages and remappings, and any number of frames:    *)
(* decoding undoes encoding, and the stream between the two hands over     *)
(* the frames whole and in order wherever it is cut into reads.            *)
(***************************************************************************)
EXTENDS FrameStream, SequenceTheorems, NaturalsInduction, WellFoundedInduction, TLAPS

-----------------------------------------------------------------------------
(* Recursive functions *)

Less == {ss \in Nat \X Nat : ss[1] < ss[2]}

LEMMA SmallestExists ==
  ASSUME NEW T, T \subseteq Nat, T # {}
  PROVE  \E i \in T : \A j \in T : i <= j
<1>1. IsWellFoundedOn(Less, Nat)
  BY NatLessThanWellFounded, Zenon DEF Less, OpToRel
<1>2. PICK i \in T : \A j \in T : ~(<<j, i>> \in Less)
  BY <1>1, WFMin, Zenon
<1>3. \A j \in T : ~(j < i)
  BY <1>2 DEF Less
<1> QED
  BY <1>3

\* Induction over the natural numbers: a set that holds 0 and the successor
\* of each of its members holds them all.
LEMMA SetInduction ==
  ASSUME NEW S, 0 \in S, \A n \in Nat : n \in S => n + 1 \in S
  PROVE  Nat \subseteq S
<1> SUFFICES ASSUME Nat \ S # {} PROVE FALSE
  OBVIOUS
<1>1. PICK i \in Nat \ S : \A j \in Nat \ S : i <= j
  BY SmallestExists
<1>2. i - 1 \in Nat /\ i - 1 \in S
  BY <1>1
<1>3. i - 1 + 1 \in S
  BY <1>2
<1> QED
  BY <1>1, <1>3

\* Functions that start alike and go on alike are alike.
Alike(f, g, n) == \A i \in 0 .. n : f[i] = g[i]
GoOnAlike(f, g, n) == f[0] = g[0] /\ \A i \in 1 .. n : f[i - 1] = g[i - 1] => f[i] = g[i]

LEMMA SameFunction ==
  ASSUME NEW n \in Nat, NEW f, NEW g, GoOnAlike(f, g, n)
  PROVE  Alike(f, g, n)
<1> DEFINE S == {k \in Nat : k <= n => f[k] = g[k]}
<1>1. 0 \in S
  BY DEF GoOnAlike
<1>2. ASSUME NEW k \in Nat, k \in S PROVE k + 1 \in S
  <2> SUFFICES ASSUME k + 1 <= n PROVE f[k + 1] = g[k + 1]
    OBVIOUS
  <2>1. k + 1 \in 1 .. n /\ (k + 1) - 1 = k /\ f[k] = g[k]
    BY <1>2
  <2> QED
    BY <2>1 DEF GoOnAlike
<1> HIDE DEF S
<1>3. Nat \subseteq S
  BY <1>1, <1>2, SetInduction
<1> QED
  BY <1>3 DEF S, Alike

\* A recursion that goes from each index to the next has a solution.
Follows(f, a, n, step) == f[0] = a /\ \A i \in 1 .. n : f[i] = step[i][f[i - 1]]

LEMMA Recursion ==
  ASSUME NEW X, NEW a \in X, NEW n \in Nat, NEW step \in [1 .. n -> [X -> X]]
  PROVE  \E f \in [0 .. n -> X] : Follows(f, a, n, step)
<1> DEFINE S == {k \in Nat : k <= n => \E f \in [0 .. k -> X] : Follows(f, a, k, step)}
<1>1. 0 \in S
  <2> DEFINE f == [i \in 0 .. 0 |-> a]
  <2>1. f \in [0 .. 0 -> X] /\ Follows(f, a, 0, step)
    BY DEF Follows
  <2> HIDE DEF f
  <2> QED
    BY <2>1
<1>2. ASSUME NEW k \in Nat, k \in S PROVE k + 1 \in S
  <2> SUFFICES ASSUME k + 1 <= n PROVE \E f \in [0 .. k + 1 -> X] : Follows(f, a, k + 1, step)
    OBVIOUS
  <2>1. PICK f \in [0 .. k -> X] : Follows(f, a, k, step)
    BY <1>2
  <2> DEFINE g == [i \in 0 .. k + 1 |-> IF i <= k THEN f[i] ELSE step[k + 1][f[k]]]
  <2>2. g \in [0 .. k + 1 -> X]
    OBVIOUS
  <2>3. g[0] = a
    BY <2>1 DEF Follows
  <2>4. ASSUME NEW i \in 1 .. k + 1 PROVE g[i] = step[i][g[i - 1]]
    BY <2>1 DEF Follows
  <2> HIDE DEF g
  <2>5. Follows(g, a, k + 1, step)
    BY <2>3, <2>4 DEF Follows
  <2> QED
    BY <2>2, <2>5
<1> HIDE DEF S
<1>3. Nat \subseteq S
  BY <1>1, <1>2, SetInduction
<1> QED
  BY <1>3 DEF S

-----------------------------------------------------------------------------
(* Numbers *)

LEMMA RadixType == Radix \in Nat /\ Radix >= 16 /\ HmacLen \in Nat /\ ChunkSize \in Nat
  BY StreamAssumption DEF StreamAssumption

LEMMA DivType ==
  ASSUME NEW n \in Nat
  PROVE  n \div Radix \in Nat /\ n % Radix \in Byte /\ n = (n % Radix) + Radix * (n \div Radix)
  BY RadixType DEF Byte

LEMMA LeftIs ==
  ASSUME NEW width \in Nat, NEW n \in Nat
  PROVE  /\ Left(width, n) \in [0 .. width -> Nat] /\ Left(width, n)[0] = n
         /\ \A i \in 1 .. width : Left(width, n)[i] = Left(width, n)[i - 1] \div Radix
<1> DEFINE step == [i \in 1 .. width |-> [x \in Nat |-> x \div Radix]]
<1>1. step \in [1 .. width -> [Nat -> Nat]]
  BY DivType
<1> HIDE DEF step
<1>2. PICK f \in [0 .. width -> Nat] : Follows(f, n, width, step)
  BY <1>1, Recursion, Zenon
<1>3. f[0] = n /\ \A i \in 1 .. width : f[i] = f[i - 1] \div Radix
  <2>1. ASSUME NEW i \in 1 .. width PROVE f[i] = f[i - 1] \div Radix
    <3>1. i - 1 \in 0 .. width /\ f[i - 1] \in Nat
      BY <1>2
    <3>2. step[i][f[i - 1]] = f[i - 1] \div Radix
      BY <3>1 DEF step
    <3> QED
      BY <1>2, <3>2 DEF Follows
  <2> QED
    BY <1>2, <2>1 DEF Follows
<1>4. f = [i \in 0 .. width |-> IF i = 0 THEN n ELSE f[i - 1] \div Radix]
  BY <1>3
<1> DEFINE g == Left(width, n)
<1>5. g = [i \in 0 .. width |-> IF i = 0 THEN n ELSE g[i - 1] \div Radix]
  BY <1>4 DEF Left
<1> HIDE DEF g
<1>6. GoOnAlike(f, g, width)
  BY <1>3, <1>5 DEF GoOnAlike
<1>7. g = f
  BY <1>4, <1>5, <1>6, SameFunction DEF Alike
<1> QED
  BY <1>3, <1>7 DEF g

LEMMA BytesOfNumber ==
  ASSUME NEW width \in Nat, NEW n \in Nat
  PROVE  LE(width, n) \in Seq(Byte) /\ Len(LE(width, n)) = width
         /\ \A i \in 1 .. width : LE(width, n)[i] = Left(width, n)[i - 1] % Radix
<1>1. \A i \in 1 .. width : Left(width, n)[i - 1] \in Nat
  BY LeftIs
<1>2. \A i \in 1 .. width : Left(width, n)[i - 1] % Radix \in Byte
  BY <1>1, DivType
<1> QED
  BY <1>2 DEF LE

\* Reading undoes writing: a number that fits its bytes is read back from them.
LEMMA NumberOfBytes ==
  ASSUME NEW width \in Nat, NEW n \in Nat, Left(width, n)[width] = 0
  PROVE  Number(LE(width, n)) = n
<1> DEFINE b == LE(width, n)
           left == Left(width, n)
           f == [i \in 0 .. width |-> left[width - i]]
           g == CHOOSE last : last = [i \in 0 .. Len(b) |->
                  IF i = 0 THEN 0 ELSE b[Len(b) + 1 - i] + Radix * last[i - 1]]
<1>1. Len(b) = width /\ \A i \in 1 .. width : b[i] = left[i - 1] % Radix
  BY BytesOfNumber
<1>2. left \in [0 .. width -> Nat] /\ left[0] = n /\ left[width] = 0
      /\ \A i \in 1 .. width : left[i] = left[i - 1] \div Radix
  BY LeftIs
<1>3. Number(b) = g[Len(b)]
  BY DEF Number
<1> HIDE DEF b, left
<1>4. ASSUME NEW i \in 1 .. width
      PROVE  f[i] = b[width + 1 - i] + Radix * f[i - 1]
  <2>1. width + 1 - i \in 1 .. width /\ width - i \in 0 .. width
        /\ width - (i - 1) = width + 1 - i /\ (width + 1 - i) - 1 = width - i
    BY RadixType
  <2>2. left[width - i] \in Nat
    BY <1>2, <2>1
  <2>3. left[width - i] = (left[width - i] % Radix) + Radix * (left[width - i] \div Radix)
    BY <2>2, DivType
  <2>4. b[width + 1 - i] = left[width - i] % Radix
        /\ left[width + 1 - i] = left[width - i] \div Radix
    BY <1>1, <1>2, <2>1
  <2>5. f[i] = left[width - i] /\ f[i - 1] = left[width + 1 - i]
    BY <2>1
  <2> QED
    BY <2>3, <2>4, <2>5
<1>5. f[0] = 0 /\ f[width] = n
  BY <1>2
<1>6. f = [i \in 0 .. Len(b) |-> IF i = 0 THEN 0 ELSE b[Len(b) + 1 - i] + Radix * f[i - 1]]
  <2>1. f = [i \in 0 .. width |-> f[i]]
    OBVIOUS
  <2> HIDE DEF f
  <2>2. \A i \in 0 .. width : f[i] = IF i = 0 THEN 0 ELSE b[width + 1 - i] + Radix * f[i - 1]
    BY <1>4, <1>5
  <2>3. f = [i \in 0 .. width |-> IF i = 0 THEN 0 ELSE b[width + 1 - i] + Radix * f[i - 1]]
    BY <2>1, <2>2
  <2> QED
    BY <1>1, <2>3
<1> HIDE DEF f
<1>7. g = [i \in 0 .. Len(b) |-> IF i = 0 THEN 0 ELSE b[Len(b) + 1 - i] + Radix * g[i - 1]]
  BY <1>6
<1> HIDE DEF g
<1>8. GoOnAlike(f, g, width)
  BY <1>1, <1>4, <1>5, <1>7 DEF GoOnAlike
<1>9. f[width] = g[width]
  BY <1>8, SameFunction DEF Alike
<1> QED
  BY <1>1, <1>3, <1>5, <1>9 DEF b

\* A number below Radix fits one byte, and one below its square fits two.
LEMMA FitsOneByte ==
  ASSUME NEW n \in Nat, n < Radix
  PROVE  Left(1, n)[1] = 0
<1>1. n \div Radix = 0
  BY RadixType
<1>2. 1 \in Nat /\ 1 \in 1 .. 1 /\ 1 - 1 = 0
  OBVIOUS
<1>3. Left(1, n)[0] = n /\ \A i \in 1 .. 1 : Left(1, n)[i] = Left(1, n)[i - 1] \div Radix
  BY <1>2, LeftIs, Zenon
<1> QED
  BY <1>1, <1>2, <1>3

LEMMA FitsTwoBytes ==
  ASSUME NEW n \in Nat, n <= MaxPayload
  PROVE  Left(2, n)[2] = 0
<1> DEFINE q == n \div Radix
<1>1. q \in Nat /\ n = (n % Radix) + Radix * q /\ n % Radix >= 0
  BY DivType DEF Byte
<1>2. n < Radix * Radix
  BY RadixType DEF MaxPayload
<1>3. q < Radix
  <2> HIDE DEF q
  <2>1. CASE q >= Radix
    <3>1. Radix * q >= Radix * Radix
      BY <1>1, <2>1, RadixType
    <3>2. Radix * q \in Nat /\ Radix * Radix \in Nat /\ n % Radix \in Nat
      BY <1>1, RadixType
    <3> QED
      BY <1>1, <1>2, <3>1, <3>2
  <2> QED
    BY <1>1, <2>1, RadixType
<1>4. q \div Radix = 0
  BY <1>1, <1>3, RadixType
<1>5. 2 \in Nat /\ 1 \in 1 .. 2 /\ 2 \in 1 .. 2 /\ 1 - 1 = 0 /\ 2 - 1 = 1
  OBVIOUS
<1>6. Left(2, n)[0] = n /\ \A i \in 1 .. 2 : Left(2, n)[i] = Left(2, n)[i - 1] \div Radix
  BY <1>5, LeftIs, Zenon
<1>7. Left(2, n)[1] = Left(2, n)[0] \div Radix /\ Left(2, n)[2] = Left(2, n)[1] \div Radix
  BY <1>5, <1>6
<1> QED
  BY <1>4, <1>6, <1>7

\* The square of Radix, without its factors.
LEMMA SquareType ==
  /\ MaxPayload \in Nat /\ MaxPayload >= 255 /\ Radix * Radix = MaxPayload + 1
  /\ MaxI16 \in Nat /\ MaxI16 = (MaxPayload + 1) \div 2 - 1
<1>1. Radix * Radix \in Nat /\ Radix * Radix >= 256
  BY RadixType
<1> QED
  BY <1>1 DEF MaxPayload, MaxI16

\* Two's complement: what is written of an i16 is read with its sign.
LEMMA SignedUndoes ==
  ASSUME NEW v \in I16
  PROVE  /\ v % (Radix * Radix) \in Nat /\ v % (Radix * Radix) <= MaxPayload
         /\ Signed(v % (Radix * Radix)) = v
<1> DEFINE w == MaxPayload + 1
<1>1. w \in Nat /\ w >= 256 /\ Radix * Radix = w /\ MaxI16 = w \div 2 - 1
  BY SquareType
<1>2. v \in Int /\ -(w \div 2) <= v /\ v <= w \div 2 - 1
  BY <1>1 DEF I16
<1> HIDE DEF w
<1>3. 2 * (w \div 2) <= w
  BY <1>1
<1>4. v % w \in Nat /\ v % w <= MaxPayload
  BY <1>1, <1>2, SquareType DEF w
<1>5. CASE v >= 0
  <2>1. v % w = v /\ 2 * v < w
    BY <1>1, <1>2, <1>3, <1>5
  <2>2. Signed(v % w) = v
    BY <1>1, <2>1 DEF Signed
  <2> QED
    BY <1>1, <1>4, <2>2
<1>6. CASE v < 0
  <2>1. v + w \in 0 .. w - 1 /\ ~(2 * (v + w) < w)
    BY <1>1, <1>2, <1>3, <1>6
  <2>2. v % w = v + w
    BY <1>1, <1>2, <2>1
  <2>3. ~(2 * (v % w) < w) /\ (v % w) - w = v
    BY <1>1, <1>2, <2>1, <2>2
  <2>4. Signed(v % w) = v
    BY <1>1, <2>3, Zenon DEF Signed
  <2> QED
    BY <1>1, <1>4, <2>4
<1> QED
  BY <1>2, <1>5, <1>6

-----------------------------------------------------------------------------
(* Fields *)

\* e stands in p from the place after pos.
At(p, pos, e) == pos + Len(e) <= Len(p) /\ \A i \in 1 .. Len(e) : p[pos + i] = e[i]

LEMMA PieceAt ==
  ASSUME NEW S, NEW p \in Seq(S), NEW e \in Seq(S), NEW pos \in Nat, At(p, pos, e)
  PROVE  SubSeq(p, pos + 1, pos + Len(e)) = e
<1>1. Len(e) \in Nat /\ pos + Len(e) <= Len(p) /\ \A i \in 1 .. Len(e) : p[pos + i] = e[i]
  BY DEF At
<1>2. SubSeq(p, pos + 1, pos + Len(e)) = [i \in 1 .. Len(e) |-> p[pos + i]]
  BY <1>1
<1>3. e = [i \in 1 .. Len(e) |-> e[i]]
  OBVIOUS
<1> QED
  BY <1>1, <1>2, <1>3

LEMMA LenOfConcat ==
  ASSUME NEW S, NEW a \in Seq(S), NEW b \in Seq(S)
  PROVE  Len(a \o b) = Len(a) + Len(b)
  OBVIOUS

LEMMA HeadOfConcat ==
  ASSUME NEW S, NEW a \in Seq(S), NEW b \in Seq(S), Len(a) > 0
  PROVE  a \o b \in Seq(S) /\ (a \o b)[1] = a[1]
  OBVIOUS

\* The parts of what stands in p stand in p.
LEMMA PartsAt ==
  ASSUME NEW S, NEW p \in Seq(S), NEW a \in Seq(S), NEW b \in Seq(S), NEW pos \in Nat,
         At(p, pos, a \o b)
  PROVE  At(p, pos, a) /\ At(p, pos + Len(a), b)
<1>1. /\ Len(a) \in Nat /\ Len(b) \in Nat /\ Len(a \o b) = Len(a) + Len(b)
      /\ \A i \in 1 .. Len(a) : (a \o b)[i] = a[i]
      /\ \A i \in 1 .. Len(b) : (a \o b)[Len(a) + i] = b[i]
  OBVIOUS
<1>2. ASSUME NEW i \in 1 .. Len(b) PROVE p[pos + Len(a) + i] = b[i]
  <2>1. Len(a) + i \in 1 .. Len(a \o b) /\ pos + (Len(a) + i) = pos + Len(a) + i
    BY <1>1
  <2>2. (a \o b)[Len(a) + i] = b[i]
    BY <1>1
  <2>3. p[pos + (Len(a) + i)] = (a \o b)[Len(a) + i]
    BY <2>1 DEF At
  <2> QED
    BY <2>1, <2>2, <2>3
<1>3. \A i \in 1 .. Len(a) : p[pos + i] = a[i]
  BY <1>1 DEF At
<1> QED
  BY <1>1, <1>2, <1>3 DEF At

Form == {"u8", "flag", "u16", "i16", "u32", "u64", "bytes", "hmac"}
NumberForm == {"u8", "flag", "u16", "u32", "u64"}

\* What a field puts on the wire, for the three ways to write a number and
\* the two ways to write bytes.
LEMMA NumberFieldIs ==
  ASSUME NEW form \in NumberForm, NEW v, InWidth(form, v)
  PROVE  /\ Width[form] \in Nat /\ v \in Nat /\ Left(Width[form], v)[Width[form]] = 0
         /\ form = "flag" => v \in {0, 1}
         /\ EncodeField(form, v) = LE(Width[form], v)
<1>1. Width[form] \in Nat /\ (form = "flag" => Width[form] = 1)
  BY DEF NumberForm, Width
<1>2. form # "bytes" /\ form # "hmac" /\ form # "i16"
  BY DEF NumberForm
<1>3. EncodeField(form, v) = LE(Width[form], v)
  BY <1>2 DEF EncodeField
<1>4. CASE form = "flag"
  <2>1. v \in {0, 1}
    BY <1>4 DEF InWidth
  <2>2. Left(1, v)[1] = 0
    BY <2>1, FitsOneByte, RadixType
  <2> QED
    BY <1>1, <1>3, <1>4, <2>1, <2>2
<1>5. CASE form # "flag"
  BY <1>1, <1>2, <1>3, <1>5 DEF InWidth
<1> QED
  BY <1>4, <1>5

LEMMA FieldType ==
  ASSUME NEW form \in Form, NEW v, InWidth(form, v)
  PROVE  EncodeField(form, v) \in Seq(Byte)
<1>1. CASE form = "bytes"
  <2>1. v \in Seq(Byte) /\ EncodeField(form, v) = LE(2, Len(v)) \o v
    BY <1>1 DEF InWidth, EncodeField
  <2>2. LE(2, Len(v)) \in Seq(Byte)
    <3>1. Len(v) \in Nat /\ 2 \in Nat
      BY <2>1
    <3> QED
      BY <3>1, BytesOfNumber, Zenon
  <2> QED
    BY <2>1, <2>2
<1>2. CASE form = "hmac"
  BY <1>2 DEF InWidth, EncodeField
<1>3. CASE form = "i16"
  <2>1. v \in I16 /\ EncodeField(form, v) = LE(2, v % (Radix * Radix))
    BY <1>3 DEF InWidth, EncodeField
  <2>2. v % (Radix * Radix) \in Nat /\ 2 \in Nat
    BY <2>1, SignedUndoes
  <2> QED
    BY <2>1, <2>2, BytesOfNumber, Zenon
<1>4. CASE form \in NumberForm
  <2>1. Width[form] \in Nat /\ v \in Nat /\ EncodeField(form, v) = LE(Width[form], v)
    BY <1>4, NumberFieldIs
  <2> QED
    BY <2>1, BytesOfNumber, Zenon
<1> QED
  BY <1>1, <1>2, <1>3, <1>4 DEF Form, NumberForm

\* The reader, at the place where a field was written.
After(pos, fs) == [ok |-> TRUE, pos |-> pos, fields |-> fs]

\* What a read does, with the reader's record taken apart.
EndRead(form, place, prefix) == IF form = "bytes" THEN place + Number(prefix) ELSE place
ValueRead(form, prefix, text) ==
  CASE form = "bytes" -> text
    [] form = "hmac"  -> prefix
    [] form = "i16"   -> Signed(Number(prefix))
    [] OTHER          -> Number(prefix)

ReadsTo(p, pos, form, end, v) ==
  LET w == Width[form]
      prefix == SubSeq(p, pos + 1, pos + w)
  IN  /\ w \in Nat /\ pos + w <= Len(p) /\ end <= Len(p)
      /\ EndRead(form, pos + w, prefix) = end
      /\ ValueRead(form, prefix, SubSeq(p, pos + 3, end)) = v
      /\ form = "flag" => v \in {0, 1}

LEMMA ReadFieldIs ==
  ASSUME NEW p, NEW pos \in Nat, NEW fs, NEW form, NEW end \in Nat, NEW v,
         ReadsTo(p, pos, form, end, v)
  PROVE  ReadField(p, After(pos, fs), form) = After(end, Append(fs, v))
<1> DEFINE w == Width[form]
           prefix == SubSeq(p, pos + 1, pos + w)
<1>0. /\ w \in Nat /\ pos + w <= Len(p) /\ end <= Len(p)
      /\ EndRead(form, pos + w, prefix) = end
      /\ ValueRead(form, prefix, SubSeq(p, pos + 3, end)) = v
      /\ form = "flag" => v \in {0, 1}
  BY DEF ReadsTo
<1> HIDE DEF prefix
<1> DEFINE r == After(pos, fs)
<1>1. r.ok = TRUE /\ r.pos = pos /\ r.fields = fs
  BY DEF After
<1> HIDE DEF r
<1>2. r.pos + 1 = pos + 1 /\ r.pos + Width[form] = pos + w /\ r.pos + 1 + 2 = pos + 3
  BY <1>0, <1>1
<1>3. r.pos + Width[form] + (IF form = "bytes" THEN Number(prefix) ELSE 0) = end
  BY <1>0, <1>2 DEF EndRead
<1>4. SubSeq(p, r.pos + 1, r.pos + Width[form]) = prefix
  BY <1>2 DEF prefix
<1>5. ReadField(p, r, form) = [ok |-> TRUE, pos |-> end, fields |-> Append(r.fields, v)]
  BY <1>0, <1>1, <1>2, <1>3, <1>4, Zenon DEF ReadField, ValueRead
<1> QED
  BY <1>1, <1>5 DEF After, r

LEMMA ReadNumber ==
  ASSUME NEW p \in Seq(Byte), NEW pos \in Nat, NEW fs, NEW form \in NumberForm, NEW v,
         InWidth(form, v), At(p, pos, EncodeField(form, v))
  PROVE  ReadField(p, After(pos, fs), form)
           = After(pos + Len(EncodeField(form, v)), Append(fs, v))
<1> DEFINE w == Width[form]
           e == LE(w, v)
<1>1. w \in Nat /\ v \in Nat /\ Left(w, v)[w] = 0 /\ EncodeField(form, v) = e
      /\ (form = "flag" => v \in {0, 1})
  BY NumberFieldIs
<1>2. e \in Seq(Byte) /\ Len(e) = w /\ Number(e) = v
  <2> HIDE DEF w
  <2> QED
    BY <1>1, BytesOfNumber, NumberOfBytes, Zenon
<1> HIDE DEF e
<1>3. pos + w <= Len(p) /\ SubSeq(p, pos + 1, pos + w) = e
  BY <1>1, <1>2, PieceAt DEF At
<1>4. form # "bytes" /\ form # "hmac" /\ form # "i16"
  BY DEF NumberForm
<1>5. EndRead(form, pos + w, e) = pos + w /\ ValueRead(form, e, SubSeq(p, pos + 3, pos + w)) = v
  BY <1>2, <1>4 DEF EndRead, ValueRead
<1> HIDE DEF w
<1>6. Width[form] = w /\ pos + w \in Nat
  BY <1>1 DEF w
<1>7. ReadsTo(p, pos, form, pos + w, v)
  BY <1>1, <1>3, <1>5, <1>6 DEF ReadsTo
<1>8. ReadField(p, After(pos, fs), form) = After(pos + w, Append(fs, v))
  BY <1>6, <1>7, ReadFieldIs
<1> QED
  BY <1>1, <1>2, <1>8

LEMMA ReadSigned ==
  ASSUME NEW p \in Seq(Byte), NEW pos \in Nat, NEW fs, NEW v,
         InWidth("i16", v), At(p, pos, EncodeField("i16", v))
  PROVE  ReadField(p, After(pos, fs), "i16")
           = After(pos + Len(EncodeField("i16", v)), Append(fs, v))
<1> DEFINE n == v % (Radix * Radix)
           e == LE(2, n)
<1>1. v \in I16 /\ EncodeField("i16", v) = e
  BY DEF InWidth, EncodeField
<1>2. n \in Nat /\ n <= MaxPayload /\ Signed(n) = v
  BY <1>1, SignedUndoes
<1> HIDE DEF n
<1>3. e \in Seq(Byte) /\ Len(e) = 2 /\ Number(e) = n
  <2>1. 2 \in Nat /\ Left(2, n)[2] = 0
    BY <1>2, FitsTwoBytes
  <2> QED
    BY <1>2, <2>1, BytesOfNumber, NumberOfBytes, Zenon
<1> HIDE DEF e
<1>4. pos + 2 <= Len(p) /\ SubSeq(p, pos + 1, pos + 2) = e
  BY <1>1, <1>3, PieceAt DEF At
<1>5. Width["i16"] = 2 /\ pos + 2 \in Nat /\ 2 \in Nat /\ "i16" # "flag"
  BY DEF Width
<1>6. EndRead("i16", pos + 2, e) = pos + 2
      /\ ValueRead("i16", e, SubSeq(p, pos + 3, pos + 2)) = v
  BY <1>2, <1>3 DEF EndRead, ValueRead
<1>7. ReadsTo(p, pos, "i16", pos + 2, v)
  BY <1>4, <1>5, <1>6 DEF ReadsTo
<1>8. ReadField(p, After(pos, fs), "i16") = After(pos + 2, Append(fs, v))
  BY <1>5, <1>7, ReadFieldIs
<1> QED
  BY <1>1, <1>3, <1>8

LEMMA ReadBytesField ==
  ASSUME NEW p \in Seq(Byte), NEW pos \in Nat, NEW fs, NEW v, Len(p) <= MaxPayload,
         InWidth("bytes", v), At(p, pos, EncodeField("bytes", v))
  PROVE  ReadField(p, After(pos, fs), "bytes")
           = After(pos + Len(EncodeField("bytes", v)), Append(fs, v))
<1> DEFINE n == Len(v)
           e == LE(2, n)
<1>1. v \in Seq(Byte) /\ n \in Nat /\ EncodeField("bytes", v) = e \o v
  BY DEF InWidth, EncodeField
<1>2. e \in Seq(Byte) /\ Len(e) = 2
  <2>1. 2 \in Nat
    OBVIOUS
  <2> HIDE DEF n
  <2> QED
    BY <1>1, <2>1, BytesOfNumber, Zenon
<1> HIDE DEF e
<1>3. At(p, pos, e) /\ At(p, pos + 2, v)
  BY ZenonT(40), <1>1, <1>2, PartsAt
<1>4. n <= MaxPayload /\ pos + 2 <= Len(p) /\ pos + 2 + n <= Len(p)
  BY <1>1, <1>2, <1>3, SquareType DEF At
<1>5. Number(e) = n
  <2>1. 2 \in Nat /\ Left(2, n)[2] = 0
    BY <1>1, <1>4, FitsTwoBytes
  <2> HIDE DEF n
  <2> QED
    BY <1>1, <2>1, NumberOfBytes, Zenon DEF e
<1>6. SubSeq(p, pos + 1, pos + 2) = e
  BY <1>2, <1>3, PieceAt
<1>7. SubSeq(p, pos + 3, pos + 2 + n) = v
  <2>1. SubSeq(p, (pos + 2) + 1, (pos + 2) + n) = v
    BY <1>1, <1>3, PieceAt
  <2>2. (pos + 2) + 1 = pos + 3
    OBVIOUS
  <2> QED
    BY <2>1, <2>2
<1>8. Len(e \o v) = 2 + n
  <2>1. Len(e \o v) = Len(e) + Len(v)
    BY <1>1, <1>2, LenOfConcat, Zenon
  <2> QED
    BY <1>2, <2>1
<1> HIDE DEF n
<1>9. Width["bytes"] = 2 /\ pos + 2 + n \in Nat /\ 2 \in Nat /\ "bytes" # "flag"
  BY <1>1 DEF Width
<1>10. EndRead("bytes", pos + 2, e) = pos + 2 + n
       /\ ValueRead("bytes", e, SubSeq(p, pos + 3, pos + 2 + n)) = v
  BY <1>5, <1>7 DEF EndRead, ValueRead
<1>11. ReadsTo(p, pos, "bytes", pos + 2 + n, v)
  BY <1>4, <1>6, <1>9, <1>10 DEF ReadsTo
<1>12. ReadField(p, After(pos, fs), "bytes") = After(pos + 2 + n, Append(fs, v))
  BY <1>9, <1>11, ReadFieldIs
<1>13. pos + Len(EncodeField("bytes", v)) = pos + 2 + n
  <2>1. Len(EncodeField("bytes", v)) = 2 + n
    BY <1>1, <1>8, Zenon
  <2> QED
    BY <1>1, <2>1
<1> QED
  BY <1>12, <1>13

LEMMA ReadHmac ==
  ASSUME NEW p \in Seq(Byte), NEW pos \in Nat, NEW fs, NEW v,
         InWidth("hmac", v), At(p, pos, EncodeField("hmac", v))
  PROVE  ReadField(p, After(pos, fs), "hmac")
           = After(pos + Len(EncodeField("hmac", v)), Append(fs, v))
<1>1. v \in Seq(Byte) /\ Len(v) = HmacLen /\ EncodeField("hmac", v) = v
  BY DEF InWidth, EncodeField
<1>2. pos + HmacLen <= Len(p) /\ SubSeq(p, pos + 1, pos + HmacLen) = v
  BY <1>1, PieceAt DEF At
<1>3. Width["hmac"] = HmacLen /\ HmacLen \in Nat /\ pos + HmacLen \in Nat /\ "hmac" # "flag"
  BY RadixType DEF Width
<1>4. EndRead("hmac", pos + HmacLen, v) = pos + HmacLen
      /\ ValueRead("hmac", v, SubSeq(p, pos + 3, pos + HmacLen)) = v
  BY DEF EndRead, ValueRead
<1>5. ReadsTo(p, pos, "hmac", pos + HmacLen, v)
  BY <1>2, <1>3, <1>4 DEF ReadsTo
<1>6. ReadField(p, After(pos, fs), "hmac") = After(pos + HmacLen, Append(fs, v))
  BY <1>3, <1>5, ReadFieldIs
<1> QED
  BY <1>1, <1>6

\* Reading undoes writing, field by field.
LEMMA ReadUndoesWrite ==
  ASSUME NEW p \in Seq(Byte), NEW pos \in Nat, NEW fs, NEW form \in Form, NEW v,
         Len(p) <= MaxPayload, InWidth(form, v), At(p, pos, EncodeField(form, v))
  PROVE  ReadField(p, After(pos, fs), form)
           = After(pos + Len(EncodeField(form, v)), Append(fs, v))
<1>1. form \in NumberForm \/ form = "i16" \/ form = "bytes" \/ form = "hmac"
  BY DEF Form, NumberForm
<1> QED
  BY <1>1, ReadNumber, ReadSigned, ReadBytesField, ReadHmac

-----------------------------------------------------------------------------
(* Payloads *)

\* Each kind of message has at most three fields, of the forms above.
LEMMA LayoutType ==
  ASSUME NEW k \in Kind
  PROVE  Layout[k] \in Seq(Form)
<1>1. Kind = {"Hello", "HelloAck", "MouseMoveRel", "MouseButton", "MouseWheel",
              "KeyEvent", "ClipboardText", "TakeControl", "ReleaseControl",
              "Heartbeat", "Bye", "EchoPing", "EchoPong", "PairSpakeA",
              "PairSpakeB", "PairCertExchange", "PairAccepted", "PairRejected"}
  BY DEF Kind, Layout
<1>2. Layout["Hello"] = <<"u16", "bytes">> /\ Layout["Hello"] \in Seq(Form)
  BY DEF Layout, Form
<1>3. Layout["HelloAck"] = <<"flag", "u16", "u16">> /\ Layout["HelloAck"] \in Seq(Form)
  BY DEF Layout, Form
<1>4. Layout["MouseMoveRel"] = <<"i16", "i16">> /\ Layout["MouseMoveRel"] \in Seq(Form)
  BY DEF Layout, Form
<1>5. Layout["MouseButton"] = <<"u8", "u8">> /\ Layout["MouseButton"] \in Seq(Form)
  BY DEF Layout, Form
<1>6. Layout["MouseWheel"] = <<"i16", "i16">> /\ Layout["MouseWheel"] \in Seq(Form)
  BY DEF Layout, Form
<1>7. Layout["KeyEvent"] = <<"u16", "u8", "u8">> /\ Layout["KeyEvent"] \in Seq(Form)
  BY DEF Layout, Form
<1>8. Layout["ClipboardText"] = <<"u8", "bytes">> /\ Layout["ClipboardText"] \in Seq(Form)
  BY DEF Layout, Form
<1>9. Layout["TakeControl"] = <<"u16">> /\ Layout["TakeControl"] \in Seq(Form)
  BY DEF Layout, Form
<1>10. Layout["ReleaseControl"] = <<"u16">> /\ Layout["ReleaseControl"] \in Seq(Form)
  BY DEF Layout, Form
<1>11. Layout["Heartbeat"] = <<"u32">> /\ Layout["Heartbeat"] \in Seq(Form)
  BY DEF Layout, Form
<1>12. Layout["Bye"] = <<"u8">> /\ Layout["Bye"] \in Seq(Form)
  BY DEF Layout, Form
<1>13. Layout["EchoPing"] = <<"u64">> /\ Layout["EchoPing"] \in Seq(Form)
  BY DEF Layout, Form
<1>14. Layout["EchoPong"] = <<"u64">> /\ Layout["EchoPong"] \in Seq(Form)
  BY DEF Layout, Form
<1>15. Layout["PairSpakeA"] = <<"bytes">> /\ Layout["PairSpakeA"] \in Seq(Form)
  BY DEF Layout, Form
<1>16. Layout["PairSpakeB"] = <<"bytes">> /\ Layout["PairSpakeB"] \in Seq(Form)
  BY DEF Layout, Form
<1>17. Layout["PairCertExchange"] = <<"bytes", "hmac">> /\ Layout["PairCertExchange"] \in Seq(Form)
  BY DEF Layout, Form
<1>18. Layout["PairAccepted"] = <<>> /\ Layout["PairAccepted"] \in Seq(Form)
  BY DEF Layout, Form
<1>19. Layout["PairRejected"] = <<"u8">> /\ Layout["PairRejected"] \in Seq(Form)
  BY DEF Layout, Form
<1> QED
  BY <1>1, <1>2, <1>3, <1>4, <1>5, <1>6, <1>7, <1>8, <1>9, <1>10, <1>11, <1>12, <1>13, <1>14, <1>15, <1>16, <1>17, <1>18, <1>19

LEMMA WellFormedIs ==
  ASSUME NEW m, WellFormed(m)
  PROVE  /\ m.kind \in Kind /\ Layout[m.kind] \in Seq(Form)
         /\ m.fields = [i \in 1 .. Len(Layout[m.kind]) |-> m.fields[i]]
         /\ Len(m.fields) = Len(Layout[m.kind]) /\ m = Message(m.kind, m.fields)
         /\ \A i \in 1 .. Len(Layout[m.kind]) : InWidth(Layout[m.kind][i], m.fields[i])
<1> DEFINE k == m.kind
           fs == [i \in DOMAIN Layout[k] |-> m.fields[i]]
<1>1. k \in Kind /\ m = Message(k, fs)
      /\ \A i \in DOMAIN Layout[k] : InWidth(Layout[k][i], m.fields[i])
  BY DEF WellFormed
<1>2. Layout[k] \in Seq(Form) /\ DOMAIN Layout[k] = 1 .. Len(Layout[k]) /\ Len(Layout[k]) \in Nat
  BY <1>1, LayoutType
<1>3. m.fields = fs
  BY <1>1 DEF Message
<1>4. Len(fs) = Len(Layout[k])
  BY <1>2
<1> QED
  BY <1>1, <1>2, <1>3, <1>4

\* What the encoder wrote after each field, and how it goes on.
FieldBytes(m, i) == EncodeField(Layout[m.kind][i], m.fields[i])

LEMMA PayloadToIs ==
  ASSUME NEW m, WellFormed(m), NEW n, n = Len(Layout[m.kind])
  PROVE  /\ n \in Nat /\ PayloadTo(m) \in [0 .. n -> Seq(Byte)] /\ PayloadTo(m)[0] = <<>>
         /\ \A i \in 1 .. n : FieldBytes(m, i) \in Seq(Byte)
                              /\ PayloadTo(m)[i] = PayloadTo(m)[i - 1] \o FieldBytes(m, i)
         /\ Payload(m) = PayloadTo(m)[n]
<1> DEFINE step == [i \in 1 .. n |-> [x \in Seq(Byte) |-> x \o FieldBytes(m, i)]]
<1>1. n \in Nat /\ Len(m.fields) = n
  <2>1. Layout[m.kind] \in Seq(Form) /\ Len(m.fields) = Len(Layout[m.kind])
    BY WellFormedIs, Zenon
  <2> QED
    BY <2>1
<1>2. ASSUME NEW i \in 1 .. n PROVE FieldBytes(m, i) \in Seq(Byte)
  <2>1. /\ Layout[m.kind] \in Seq(Form)
        /\ \A j \in 1 .. n : InWidth(Layout[m.kind][j], m.fields[j])
    BY WellFormedIs, Zenon
  <2>2. Layout[m.kind][i] \in Form /\ InWidth(Layout[m.kind][i], m.fields[i])
    BY <2>1
  <2> QED
    BY <2>2, FieldType DEF FieldBytes
<1>3. step \in [1 .. n -> [Seq(Byte) -> Seq(Byte)]]
  BY <1>2
<1>4. <<>> \in Seq(Byte)
  OBVIOUS
<1> HIDE DEF step
<1>5. PICK f \in [0 .. n -> Seq(Byte)] : Follows(f, <<>>, n, step)
  BY <1>1, <1>3, <1>4, Recursion, Zenon
<1>6. f[0] = <<>> /\ \A i \in 1 .. n : f[i] = f[i - 1] \o FieldBytes(m, i)
  <2>1. ASSUME NEW i \in 1 .. n PROVE f[i] = f[i - 1] \o FieldBytes(m, i)
    <3>1. i - 1 \in 0 .. n /\ f[i - 1] \in Seq(Byte)
      BY <1>1, <1>5
    <3>2. step[i][f[i - 1]] = f[i - 1] \o FieldBytes(m, i)
      BY <3>1 DEF step
    <3> QED
      BY <1>5, <3>2 DEF Follows
  <2> QED
    BY <1>5, <2>1 DEF Follows
<1>7. f = [i \in 0 .. Len(m.fields) |-> IF i = 0 THEN <<>> ELSE f[i - 1] \o FieldBytes(m, i)]
  <2>1. f = [i \in 0 .. n |-> IF i = 0 THEN <<>> ELSE f[i - 1] \o FieldBytes(m, i)]
    BY <1>1, <1>5, <1>6
  <2> QED
    BY <1>1, <2>1
<1> DEFINE g == PayloadTo(m)
<1>8. g = [i \in 0 .. Len(m.fields) |-> IF i = 0 THEN <<>> ELSE g[i - 1] \o FieldBytes(m, i)]
  BY <1>7 DEF PayloadTo, FieldBytes
<1> HIDE DEF g
<1>9. GoOnAlike(f, g, n)
  <2>1. g = [i \in 0 .. n |-> IF i = 0 THEN <<>> ELSE g[i - 1] \o FieldBytes(m, i)]
    BY <1>1, <1>8
  <2>2. g[0] = <<>> /\ \A i \in 1 .. n : g[i] = g[i - 1] \o FieldBytes(m, i)
    <3>1. 0 \in 0 .. n /\ \A i \in 1 .. n : i \in 0 .. n /\ i # 0
      BY <1>1
    <3>2. \A i \in 0 .. n : g[i] = IF i = 0 THEN <<>> ELSE g[i - 1] \o FieldBytes(m, i)
      BY <2>1
    <3> QED
      BY <3>1, <3>2
  <2> QED
    BY <1>6, <2>2 DEF GoOnAlike
<1>10. g = f
  <2>1. \A i \in 0 .. n : f[i] = g[i]
    BY <1>1, <1>9, SameFunction, Zenon DEF Alike
  <2>2. DOMAIN f = 0 .. n /\ f = [i \in 0 .. n |-> f[i]]
    BY <1>5
  <2>3. g = [i \in 0 .. n |-> g[i]]
    BY <1>1, <1>8
  <2> QED
    BY <2>1, <2>2, <2>3
<1>11. Payload(m) = g[n]
  BY <1>1 DEF Payload, g
<1> QED
  BY <1>1, <1>2, <1>6, <1>10, <1>11 DEF g

LEMMA AtConcat ==
  ASSUME NEW S, NEW p \in Seq(S), NEW q \in Seq(S), NEW e \in Seq(S), NEW pos \in Nat,
         At(p, pos, e)
  PROVE  At(p \o q, pos, e)
<1>1. Len(p \o q) = Len(p) + Len(q) /\ Len(q) \in Nat /\ Len(p) \in Nat /\ Len(e) \in Nat
  OBVIOUS
<1>2. ASSUME NEW i \in 1 .. Len(e) PROVE (p \o q)[pos + i] = e[i]
  <2>1. pos + i \in 1 .. Len(p) /\ p[pos + i] = e[i]
    BY <1>1 DEF At
  <2> QED
    BY <2>1
<1> QED
  BY <1>1, <1>2 DEF At

LEMMA AtEnd ==
  ASSUME NEW S, NEW p \in Seq(S), NEW e \in Seq(S)
  PROVE  At(p \o e, Len(p), e)
<1>1. Len(p \o e) = Len(p) + Len(e) /\ Len(e) \in Nat /\ Len(p) \in Nat
  OBVIOUS
<1>2. ASSUME NEW i \in 1 .. Len(e) PROVE (p \o e)[Len(p) + i] = e[i]
  BY <1>1
<1> QED
  BY <1>1, <1>2 DEF At

\* Every field stands in the payload behind those before it.
LEMMA FieldsStand ==
  ASSUME NEW m, WellFormed(m), NEW n, n = Len(Layout[m.kind]), NEW i \in 1 .. n
  PROVE  At(Payload(m), Len(PayloadTo(m)[i - 1]), FieldBytes(m, i))
<1> DEFINE to == PayloadTo(m)
           Stand(k) == \A j \in 1 .. k : At(to[k], Len(to[j - 1]), FieldBytes(m, j))
           S == {k \in Nat : k <= n => Stand(k)}
<1>1. n \in Nat /\ to \in [0 .. n -> Seq(Byte)] /\ Payload(m) = to[n]
  BY PayloadToIs, Zenon
<1>a. \A j \in 1 .. n : FieldBytes(m, j) \in Seq(Byte) /\ to[j] = to[j - 1] \o FieldBytes(m, j)
  BY PayloadToIs, Zenon
<1> HIDE DEF to
<1>2. 0 \in S
  OBVIOUS
<1>3. ASSUME NEW k \in Nat, k \in S PROVE k + 1 \in S
  <2> SUFFICES ASSUME k + 1 <= n, NEW j \in 1 .. k + 1
               PROVE  At(to[k + 1], Len(to[j - 1]), FieldBytes(m, j))
    OBVIOUS
  <2>1. /\ k \in 0 .. n /\ k + 1 \in 1 .. n /\ (k + 1) - 1 = k /\ j \in 1 .. n /\ j - 1 \in 0 .. n
        /\ to[k] \in Seq(Byte) /\ to[j - 1] \in Seq(Byte)
    <3>1. k \in 0 .. n /\ k + 1 \in 1 .. n /\ (k + 1) - 1 = k /\ j \in 1 .. n /\ j - 1 \in 0 .. n
      BY <1>1
    <3> QED
      BY <1>1, <3>1
  <2>2. /\ to[k + 1] = to[k] \o FieldBytes(m, k + 1)
        /\ FieldBytes(m, k + 1) \in Seq(Byte) /\ FieldBytes(m, j) \in Seq(Byte)
    BY <1>a, <2>1
  <2>3. CASE j = k + 1
    <3>1. At(to[k] \o FieldBytes(m, k + 1), Len(to[k]), FieldBytes(m, k + 1))
      BY <2>1, <2>2, AtEnd
    <3> QED
      BY <2>1, <2>2, <2>3, <3>1
  <2>4. CASE j # k + 1
    <3>1. j \in 1 .. k /\ Len(to[j - 1]) \in Nat
      BY <2>1, <2>4
    <3>2. At(to[k], Len(to[j - 1]), FieldBytes(m, j))
      BY <1>3, <2>1, <3>1
    <3> QED
      BY <2>1, <2>2, <3>1, <3>2, AtConcat
  <2> QED
    BY <2>3, <2>4
<1> HIDE DEF S
<1>4. Nat \subseteq S
  BY <1>2, <1>3, SetInduction
<1>5. Stand(n)
  <2>1. n \in S /\ n <= n
    BY <1>1, <1>4
  <2> HIDE DEF Stand
  <2> QED
    BY <2>1 DEF S
<1> QED
  BY <1>1, <1>5 DEF to

\* The first i of the values of x.
Firsts(x, i) == [j \in 1 .. i |-> x[j]]

LEMMA OneMore ==
  ASSUME NEW x, NEW i \in Nat, i > 0
  PROVE  Append(Firsts(x, i - 1), x[i]) = Firsts(x, i)
<1> DEFINE S == {x[j] : j \in 1 .. i}
<1>1. Firsts(x, i - 1) \in Seq(S) /\ Len(Firsts(x, i - 1)) = i - 1 /\ x[i] \in S
  BY DEF Firsts
<1>2. Firsts(x, i) \in Seq(S) /\ Len(Firsts(x, i)) = i
  BY DEF Firsts
<1>3. ASSUME NEW j \in 1 .. i PROVE Append(Firsts(x, i - 1), x[i])[j] = Firsts(x, i)[j]
  <2> HIDE DEF S
  <2>1. CASE j = i
    BY <1>1, <2>1 DEF Firsts
  <2>2. CASE j # i
    BY <1>1, <2>2 DEF Firsts
  <2> QED
    BY <2>1, <2>2
<1> HIDE DEF S
<1>4. Append(Firsts(x, i - 1), x[i]) \in Seq(S) /\ Len(Append(Firsts(x, i - 1), x[i])) = i
  BY <1>1
<1> QED
  BY <1>2, <1>3, <1>4, SeqEqual

\* Reading a payload gives the fields it was written from.
LEMMA ReadFieldsOfPayload ==
  ASSUME NEW m, WellFormed(m), Len(Payload(m)) <= MaxPayload
  PROVE  ReadFields(Payload(m), Layout[m.kind]) = After(Len(Payload(m)), m.fields)
<1> DEFINE n == Len(Layout[m.kind])
           to == PayloadTo(m)
           p == Payload(m)
           f == [i \in 0 .. n |-> After(Len(to[i]), Firsts(m.fields, i))]
<1>1. n \in Nat /\ to \in [0 .. n -> Seq(Byte)] /\ to[0] = <<>> /\ p = to[n]
  BY PayloadToIs, Zenon
<1>a. \A j \in 1 .. n : FieldBytes(m, j) \in Seq(Byte) /\ to[j] = to[j - 1] \o FieldBytes(m, j)
  BY PayloadToIs, Zenon
<1>2. /\ Layout[m.kind] \in Seq(Form) /\ m.fields = Firsts(m.fields, n)
      /\ \A i \in 1 .. n : InWidth(Layout[m.kind][i], m.fields[i])
  BY WellFormedIs, Zenon DEF Firsts
<1>3. ASSUME NEW i \in 1 .. n PROVE f[i] = ReadField(p, f[i - 1], Layout[m.kind][i])
  <2>1. At(p, Len(to[i - 1]), FieldBytes(m, i))
    BY FieldsStand
  <2>a. Len(p) <= MaxPayload
    OBVIOUS
  <2>b. f[i] = After(Len(to[i]), Firsts(m.fields, i))
        /\ f[i - 1] = After(Len(to[i - 1]), Firsts(m.fields, i - 1))
    BY <1>1
  <2> HIDE DEF n, to, p, f
  <2>c. i - 1 \in 0 .. n /\ i \in Nat /\ i > 0 /\ n \in 0 .. n
    BY <1>1
  <2>2. /\ to[i - 1] \in Seq(Byte) /\ FieldBytes(m, i) \in Seq(Byte) /\ p \in Seq(Byte)
        /\ to[i] = to[i - 1] \o FieldBytes(m, i)
    BY <1>1, <1>a, <2>c
  <2>3. Len(to[i - 1]) \in Nat /\ Len(to[i]) = Len(to[i - 1]) + Len(FieldBytes(m, i))
    BY <2>2
  <2>4. Layout[m.kind][i] \in Form /\ InWidth(Layout[m.kind][i], m.fields[i])
    BY <1>1, <1>2 DEF n
  <2>5. ReadField(p, After(Len(to[i - 1]), Firsts(m.fields, i - 1)), Layout[m.kind][i])
          = After(Len(to[i - 1]) + Len(FieldBytes(m, i)), Append(Firsts(m.fields, i - 1), m.fields[i]))
    <3> DEFINE pos == Len(to[i - 1])
               fs == Firsts(m.fields, i - 1)
               form == Layout[m.kind][i]
               v == m.fields[i]
    <3>1. pos \in Nat /\ form \in Form /\ InWidth(form, v) /\ At(p, pos, EncodeField(form, v))
      BY <2>1, <2>3, <2>4 DEF FieldBytes
    <3>2. FieldBytes(m, i) = EncodeField(form, v)
      BY DEF FieldBytes
    <3> HIDE DEF pos, fs, form, v
    <3>3. ReadField(p, After(pos, fs), form) = After(pos + Len(EncodeField(form, v)), Append(fs, v))
      BY <2>2, <2>a, <3>1, ReadUndoesWrite
    <3> QED
      BY <3>2, <3>3 DEF pos, fs, form, v
  <2>6. Append(Firsts(m.fields, i - 1), m.fields[i]) = Firsts(m.fields, i)
    BY <2>c, OneMore
  <2> QED
    BY <2>b, <2>3, <2>5, <2>6
<1>4. f[0] = After(0, <<>>) /\ f[n] = After(Len(p), m.fields)
  <2>1. Firsts(m.fields, 0) = <<>>
    BY DEF Firsts
  <2>2. 0 \in 0 .. n /\ n \in 0 .. n /\ Len(to[0]) = 0
    BY <1>1
  <2> HIDE DEF n, to, p
  <2>3. f[0] = After(Len(to[0]), Firsts(m.fields, 0)) /\ f[n] = After(Len(to[n]), Firsts(m.fields, n))
    BY <2>2
  <2> QED
    BY <1>1, <1>2, <2>1, <2>2, <2>3
<1> HIDE DEF n, to, p
<1>5. f = [i \in 0 .. n |-> IF i = 0 THEN After(0, <<>>) ELSE ReadField(p, f[i - 1], Layout[m.kind][i])]
  <2>1. f = [i \in 0 .. n |-> f[i]]
    OBVIOUS
  <2> HIDE DEF f
  <2>2. \A i \in 0 .. n : f[i] = IF i = 0 THEN After(0, <<>>) ELSE ReadField(p, f[i - 1], Layout[m.kind][i])
    <3> SUFFICES ASSUME NEW i \in 0 .. n
                 PROVE  f[i] = IF i = 0 THEN After(0, <<>>)
                               ELSE ReadField(p, f[i - 1], Layout[m.kind][i])
      OBVIOUS
    <3>1. i # 0 => i \in 1 .. n
      BY <1>1
    <3>2. CASE i = 0
      BY <1>4, <3>2
    <3>3. CASE i # 0
      BY <1>3, <3>1, <3>3
    <3> QED
      BY <3>2, <3>3
  <2> QED
    BY <2>1, <2>2
<1> HIDE DEF f
<1> DEFINE g == CHOOSE after : after = [i \in 0 .. n |->
                  IF i = 0 THEN After(0, <<>>) ELSE ReadField(p, after[i - 1], Layout[m.kind][i])]
<1>6. ReadFields(p, Layout[m.kind]) = g[n]
  BY DEF ReadFields, n, After
<1>7. g = [i \in 0 .. n |-> IF i = 0 THEN After(0, <<>>) ELSE ReadField(p, g[i - 1], Layout[m.kind][i])]
  BY <1>5
<1> HIDE DEF g
<1>8. GoOnAlike(f, g, n)
  <2>a. 0 \in 0 .. n /\ \A i \in 1 .. n : i \in 0 .. n /\ i # 0
    BY <1>1
  <2>b. \A i \in 0 .. n : g[i] = IF i = 0 THEN After(0, <<>>) ELSE ReadField(p, g[i - 1], Layout[m.kind][i])
    BY <1>7
  <2>1. g[0] = After(0, <<>>) /\ \A i \in 1 .. n : g[i] = ReadField(p, g[i - 1], Layout[m.kind][i])
    BY <2>a, <2>b
  <2> QED
    BY <1>3, <1>4, <2>1 DEF GoOnAlike
<1>9. f[n] = g[n]
  BY <1>1, <1>8, SameFunction DEF Alike
<1> QED
  BY <1>4, <1>6, <1>9 DEF p

-----------------------------------------------------------------------------
(* Frames *)

\* The bytes of a stream: digits, and the kinds' codes.
Octet == Byte \cup Range(Code)

\* No two kinds have the same code.
LEMMA CodesDiffer ==
  ASSUME NEW k \in Kind, NEW j \in Kind, Code[k] = Code[j]
  PROVE  k = j
  BY DEF Kind, Layout, Code

LEMMA CodeType ==
  ASSUME NEW k \in Kind
  PROVE  Code[k] \in Octet
  BY DEF Kind, Layout, Code, Octet, Range

\* What a session may send: a message whose payload the length field can hold.
Sendable(m) == WellFormed(m) /\ Len(Payload(m)) <= MaxPayload

LEMMA EncodeIs ==
  ASSUME NEW m, Sendable(m)
  PROVE  /\ m.kind \in Kind /\ Payload(m) \in Seq(Byte) /\ LE(2, Len(Payload(m))) \in Seq(Byte)
         /\ Len(LE(2, Len(Payload(m)))) = 2 /\ Number(LE(2, Len(Payload(m)))) = Len(Payload(m))
         /\ Encode(m) \in Seq(Octet) /\ Len(Encode(m)) = Header + Len(Payload(m))
         /\ Encode(m)[1] = Code[m.kind]
         /\ At(Encode(m), 1, LE(2, Len(Payload(m)))) /\ At(Encode(m), Header, Payload(m))
<1> DEFINE p == Payload(m)
           n == Len(p)
           e == LE(2, n)
           c == <<Code[m.kind]>>
<1>1. m.kind \in Kind /\ p \in Seq(Byte) /\ n \in Nat /\ n <= MaxPayload
  <2>1. m.kind \in Kind
    BY WellFormedIs, Zenon DEF Sendable
  <2>2. /\ PayloadTo(m) \in [0 .. Len(Layout[m.kind]) -> Seq(Byte)]
        /\ Len(Layout[m.kind]) \in Nat /\ p = PayloadTo(m)[Len(Layout[m.kind])]
    BY PayloadToIs, Zenon DEF Sendable
  <2> HIDE DEF p
  <2>3. p \in Seq(Byte)
    BY <2>2
  <2> QED
    BY <2>1, <2>3 DEF Sendable, p
<1> HIDE DEF p
<1>2. e \in Seq(Byte) /\ Len(e) = 2 /\ Number(e) = n
  <2>1. 2 \in Nat /\ Left(2, n)[2] = 0
    BY <1>1, FitsTwoBytes
  <2> HIDE DEF n
  <2> QED
    BY <1>1, <2>1, BytesOfNumber, NumberOfBytes, Zenon
<1>3. Encode(m) = (c \o e) \o p
  BY <1>1, <1>2 DEF Encode, p
<1> HIDE DEF e
<1>4. c \in Seq(Octet) /\ Len(c) = 1 /\ c[1] = Code[m.kind]
  BY <1>1, CodeType
<1>5. e \in Seq(Octet) /\ p \in Seq(Octet)
  BY <1>1, <1>2 DEF Octet
<1> HIDE DEF c
<1>6. (c \o e) \in Seq(Octet) /\ Len(c \o e) = 3 /\ (c \o e)[1] = Code[m.kind]
  <2>1. Len(c \o e) = Len(c) + Len(e)
    BY <1>4, <1>5, LenOfConcat, Zenon
  <2>2. Len(c) > 0
    BY <1>4
  <2>3. (c \o e) \in Seq(Octet) /\ (c \o e)[1] = c[1]
    BY <1>4, <1>5, <2>2, HeadOfConcat, Zenon
  <2> QED
    BY <1>2, <1>4, <2>1, <2>3
<1>7. At(c \o e, 1, e)
  BY <1>4, <1>5, AtEnd
<1> DEFINE h == c \o e
<1> HIDE DEF h
<1>8. h \in Seq(Octet) /\ Len(h) = 3 /\ h[1] = Code[m.kind] /\ Encode(m) = h \o p /\ At(h, 1, e)
  BY <1>3, <1>6, <1>7 DEF h
<1>9. At(h \o p, 3, p) /\ At(h \o p, 1, e)
  <2>1. At(h \o p, Len(h), p)
    BY <1>5, <1>8, AtEnd
  <2>2. At(h \o p, 1, e)
    BY <1>5, <1>8, AtConcat
  <2> QED
    BY <1>8, <2>1, <2>2
<1>10. h \o p \in Seq(Octet) /\ Len(h \o p) = 3 + n /\ (h \o p)[1] = Code[m.kind]
  <2>1. Len(h \o p) = Len(h) + Len(p)
    BY <1>5, <1>8, LenOfConcat, Zenon
  <2>2. Len(h) > 0
    BY <1>8
  <2>3. (h \o p) \in Seq(Octet) /\ (h \o p)[1] = h[1]
    BY <1>5, <1>8, <2>2, HeadOfConcat, Zenon
  <2> QED
    BY <1>8, <2>1, <2>3
<1>11. Header = 3
  BY DEF Header
<1> QED
  BY <1>1, <1>2, <1>8, <1>9, <1>10, <1>11 DEF p, e

\* A buffer that begins with a frame, or with its header: the decoder goes
\* by the length the encoder wrote.
LEMMA FrameLenIs ==
  ASSUME NEW m, Sendable(m), NEW b \in Seq(Octet), Len(b) >= Header,
         \A i \in 1 .. Header : b[i] = Encode(m)[i]
  PROVE  FrameLen(b) = Len(Encode(m))
<1> DEFINE p == Payload(m)
           n == Len(p)
           e == LE(2, n)
           f == Encode(m)
<1>1. /\ e \in Seq(Byte) /\ Len(e) = 2 /\ Number(e) = n /\ At(f, 1, e) /\ Len(f) = Header + n
  BY EncodeIs
<1>2. Header = 3 /\ \A i \in 1 .. 3 : b[i] = f[i]
  BY DEF Header
<1> HIDE DEF e, f, n
<1>3. e \in Seq(Octet) /\ 1 \in Nat
  BY <1>1 DEF Octet
<1>4. At(b, 1, e)
  <2>1. ASSUME NEW i \in 1 .. 2 PROVE b[1 + i] = e[i]
    <3>1. 1 + i \in 1 .. 3 /\ f[1 + i] = e[i]
      BY <1>1 DEF At
    <3> QED
      BY <1>2, <3>1
  <2> QED
    BY <1>1, <1>2, <2>1 DEF At
<1>5. SubSeq(b, 1 + 1, 1 + Len(e)) = e
  BY <1>3, <1>4, PieceAt
<1>6. SubSeq(b, 2, 3) = e
  BY <1>1, <1>5
<1> QED
  BY <1>1, <1>6 DEF FrameLen, f

\* The codec: decode_frame finds a frame at the front of a buffer that begins
\* with what encode_frame wrote, goes by the same length, and gives the
\* message back, whatever follows it.
THEOREM DecodeUndoesEncode ==
  ASSUME NEW m, Sendable(m), NEW b \in Seq(Octet), At(b, 0, Encode(m))
  PROVE  HasFrame(b) /\ FrameLen(b) = Len(Encode(m)) /\ Decode(b) = m /\ m # Bad
<1> DEFINE p == Payload(m)
           f == Encode(m)
<1>1. /\ m.kind \in Kind /\ p \in Seq(Byte) /\ f \in Seq(Octet) /\ Len(f) = Header + Len(p)
      /\ f[1] = Code[m.kind] /\ At(f, Header, p)
  BY EncodeIs
<1>2. Header = 3 /\ Len(p) \in Nat
  BY <1>1 DEF Header
<1> HIDE DEF p
<1>3. Len(b) >= Len(f) /\ \A i \in 1 .. Len(f) : b[i] = f[i]
  BY DEF At
<1>4. FrameLen(b) = Len(f)
  <2>1. Len(b) >= Header /\ \A i \in 1 .. Header : b[i] = f[i]
    BY <1>1, <1>2, <1>3
  <2> QED
    BY <2>1, FrameLenIs
<1>5. HasFrame(b)
  BY <1>1, <1>2, <1>3, <1>4 DEF HasFrame
<1>6. b[1] = Code[m.kind]
  BY <1>1, <1>2, <1>3
<1>7. SubSeq(b, Header + 1, FrameLen(b)) = p
  <2>1. At(b, 3, p)
    <3>1. ASSUME NEW i \in 1 .. Len(p) PROVE b[3 + i] = p[i]
      <4>1. 3 + i \in 1 .. Len(f) /\ f[3 + i] = p[i]
        BY <1>1, <1>2 DEF At
      <4> QED
        BY <1>3, <4>1
    <3> QED
      BY <1>1, <1>2, <1>3, <3>1 DEF At
  <2>2. p \in Seq(Octet) /\ 3 \in Nat
    BY <1>1 DEF Octet
  <2>3. SubSeq(b, 3 + 1, 3 + Len(p)) = p
    BY <2>1, <2>2, PieceAt
  <2> QED
    BY <1>1, <1>2, <1>4, <2>3
<1> DEFINE known == {k \in Kind : Code[k] = b[1]}
           k == CHOOSE k \in known : TRUE
<1>8. known = {m.kind}
  BY <1>1, <1>6, CodesDiffer
<1>9. known # {} /\ k = m.kind
  BY <1>8
<1>10. ReadFields(p, Layout[m.kind]) = After(Len(p), m.fields)
  BY ReadFieldsOfPayload DEF Sendable, p
<1>11. m = Message(m.kind, m.fields)
  BY WellFormedIs, Zenon DEF Sendable
<1> HIDE DEF known, k
<1>12. Decode(b) = Message(m.kind, m.fields)
  <2>1. After(Len(p), m.fields).ok = TRUE /\ After(Len(p), m.fields).fields = m.fields
    BY DEF After
  <2> QED
    BY <1>7, <1>9, <1>10, <2>1 DEF Decode, known, k
<1>13. m # Bad
  <2>1. m.kind # "WireError"
    BY <1>1 DEF Kind, Layout
  <2> QED
    BY <2>1 DEF Bad
<1> QED
  BY <1>4, <1>5, <1>11, <1>12, <1>13

-----------------------------------------------------------------------------
(* Input: from the tap's event to the sink's call *)

LEMMA EventTypes ==
  /\ \A ev \in Mice \cup Presses :
       \/ ev.type \in {"Rel", "Wheel"} /\ ev.dx \in Int /\ ev.dy \in Int
       \/ /\ ev.type = "Button" /\ ev.button \in DOMAIN ButtonByte /\ ev.state \in DOMAIN StateByte
          /\ ev = [type |-> "Button", button |-> ev.button, state |-> ev.state]
       \/ /\ ev.type = "Key" /\ ev.hid \in 0 .. MaxPayload /\ ev.state \in DOMAIN StateByte
          /\ ev.held \subseteq 0 .. MaxPayload
  /\ \A r \in Remaps : r.cmd \in Mods \cup {"identity"} /\ r.option \in Mods \cup {"identity"}
<1>1. ASSUME NEW ev \in Mice
      PROVE  \/ ev.type \in {"Rel", "Wheel"} /\ ev.dx \in Int /\ ev.dy \in Int
             \/ /\ ev.type = "Button" /\ ev.button \in DOMAIN ButtonByte /\ ev.state \in DOMAIN StateByte
                /\ ev = [type |-> "Button", button |-> ev.button, state |-> ev.state]
  <2>1. \/ ev \in [type : {"Rel", "Wheel"}, dx : Int, dy : Int]
        \/ ev \in [type : {"Button"}, button : DOMAIN ButtonByte, state : DOMAIN StateByte]
    BY EventAssumption DEF EventAssumption
  <2> QED
    BY <2>1
<1>2. ASSUME NEW ev \in Presses
      PROVE  /\ ev.type = "Key" /\ ev.hid \in 0 .. MaxPayload /\ ev.state \in DOMAIN StateByte
             /\ ev.held \subseteq 0 .. MaxPayload
  <2>1. ev \in [type : {"Key"}, hid : 0 .. MaxPayload, state : DOMAIN StateByte,
                held : SUBSET (0 .. MaxPayload)]
    BY EventAssumption DEF EventAssumption
  <2> QED
    BY <2>1
<1>3. ASSUME NEW r \in Remaps
      PROVE  r.cmd \in Mods \cup {"identity"} /\ r.option \in Mods \cup {"identity"}
  <2>1. r \in [cmd : Mods \cup {"identity"}, option : Mods \cup {"identity"}]
    BY EventAssumption DEF EventAssumption
  <2> QED
    BY <2>1
<1> QED
  BY <1>1, <1>2, <1>3

LEMMA BecomesMod ==
  ASSUME NEW r \in Remaps, NEW m \in Mods
  PROVE  Becomes(r, m) \in Mods
<1>1. r.cmd \in Mods \cup {"identity"} /\ r.option \in Mods \cup {"identity"}
  BY EventTypes
<1> QED
  BY <1>1 DEF Becomes, Mods

\* A modifier's HID usage stands for one side and one modifier.
LEMMA HidOfModifier ==
  ASSUME NEW s \in Sides, NEW m \in Mods
  PROVE  HidSide(Hid[s][m]) = {s} /\ HidMod(Hid[s][m]) = {m} /\ Hid[s][m] \in 0 .. 7
<1>1. /\ Hid["left"]["ctrl"] = 0 /\ Hid["left"]["shift"] = 1
      /\ Hid["left"]["alt"] = 2 /\ Hid["left"]["meta"] = 3
      /\ Hid["right"]["ctrl"] = 4 /\ Hid["right"]["shift"] = 5
      /\ Hid["right"]["alt"] = 6 /\ Hid["right"]["meta"] = 7
  BY DEF Hid
<1>2. \A t \in Sides : \A q \in Mods : Hid[t][q] = Hid[s][m] => t = s /\ q = m
  BY <1>1 DEF Sides, Mods
<1>3. HidSide(Hid[s][m]) = {s}
  BY <1>2 DEF HidSide
<1>4. HidMod(Hid[s][m]) = {m}
  BY <1>2 DEF HidMod
<1>5. Hid[s][m] \in 0 .. 7
  BY <1>1 DEF Sides, Mods
<1> QED
  BY <1>3, <1>4, <1>5

\* The remapped HID stands for the same side and the modifier remapped.
LEMMA RemappedHid ==
  ASSUME NEW r \in Remaps, NEW h \in 0 .. MaxPayload
  PROVE  /\ ApplyToHid(r, h) \in 0 .. MaxPayload
         /\ HidSide(ApplyToHid(r, h)) = HidSide(h)
         /\ HidMod(ApplyToHid(r, h)) = {Becomes(r, m) : m \in HidMod(h)}
         /\ HidMod(h) = {} => ApplyToHid(r, h) = h
<1>1. CASE HidMod(h) = {}
  BY <1>1 DEF ApplyToHid
<1>2. CASE HidMod(h) # {}
  <2>1. PICK s \in Sides, m \in Mods : Hid[s][m] = h
    BY <1>2 DEF HidMod
  <2>2. HidSide(h) = {s} /\ HidMod(h) = {m}
    BY <2>1, HidOfModifier
  <2>3. ApplyToHid(r, h) = Hid[s][Becomes(r, m)]
    BY <2>2 DEF ApplyToHid
  <2>4. Becomes(r, m) \in Mods
    BY BecomesMod
  <2> DEFINE b == Becomes(r, m)
  <2> HIDE DEF b
  <2>5. HidSide(Hid[s][b]) = {s} /\ HidMod(Hid[s][b]) = {b} /\ Hid[s][b] \in 0 .. 7
    BY <2>4, HidOfModifier DEF b
  <2>6. 7 <= MaxPayload /\ MaxPayload \in Nat
    BY SquareType
  <2>7. {Becomes(r, q) : q \in HidMod(h)} = {b}
    BY <2>2 DEF b
  <2> QED
    BY <1>2, <2>2, <2>3, <2>5, <2>6, <2>7 DEF b
<1> QED
  BY <1>1, <1>2

\* The mask's bits are the modifiers in it.
LEMMA MaskUndone ==
  ASSUME NEW S \in SUBSET Mods
  PROVE  Mask(S) \in 0 .. 15 /\ InMask(Mask(S)) = S
<1> DEFINE a == InsertBit("shift", S)
           b == InsertBit("ctrl", S)
           c == InsertBit("alt", S)
           d == InsertBit("meta", S)
<1>1. /\ a \in {0, 1} /\ b \in {0, 2} /\ c \in {0, 4} /\ d \in {0, 8}
      /\ ("shift" \in S <=> a = 1) /\ ("ctrl" \in S <=> b = 2)
      /\ ("alt" \in S <=> c = 4) /\ ("meta" \in S <=> d = 8)
  BY DEF InsertBit, Bit
<1>2. Mask(S) = a + b + c + d
  BY DEF Mask
<1> HIDE DEF a, b, c, d
<1>3. /\ ((a + b + c + d) \div 1) % 2 = 1 <=> a = 1
      /\ ((a + b + c + d) \div 2) % 2 = 1 <=> b = 2
      /\ ((a + b + c + d) \div 4) % 2 = 1 <=> c = 4
      /\ ((a + b + c + d) \div 8) % 2 = 1 <=> d = 8
  BY <1>1
<1>4. /\ Bit["shift"] = 1 /\ Bit["ctrl"] = 2 /\ Bit["alt"] = 4 /\ Bit["meta"] = 8
  BY DEF Bit
<1>5. \A m \in Mods : m \in InMask(Mask(S)) <=> m \in S
  BY <1>1, <1>2, <1>3, <1>4 DEF InMask, Mods
<1>6. InMask(Mask(S)) \subseteq Mods
  BY DEF InMask
<1>7. a + b + c + d \in 0 .. 15
  BY <1>1
<1> QED
  BY <1>2, <1>5, <1>6, <1>7

LEMMA ClampType ==
  ASSUME NEW v \in Int
  PROVE  Clamp(v) \in I16 /\ KeepsDelta(v, Clamp(v))
<1>1. MaxI16 \in Nat
  BY SquareType
<1> QED
  BY <1>1 DEF Clamp, I16, KeepsDelta

\* Messages of two or three short fields fit a frame.
ShortForm == {"u8", "u16", "i16"}

LEMMA ShortField ==
  ASSUME NEW form \in ShortForm, NEW v, InWidth(form, v)
  PROVE  EncodeField(form, v) \in Seq(Byte) /\ Len(EncodeField(form, v)) <= 2
<1>1. form \in Form
  BY DEF ShortForm, Form
<1>2. EncodeField(form, v) \in Seq(Byte)
  BY <1>1, FieldType
<1>3. CASE form = "i16"
  <2>1. v \in I16 /\ EncodeField(form, v) = LE(2, v % (Radix * Radix))
    BY <1>3 DEF InWidth, EncodeField
  <2>2. v % (Radix * Radix) \in Nat /\ 2 \in Nat
    BY <2>1, SignedUndoes
  <2> DEFINE n == v % (Radix * Radix)
  <2> HIDE DEF n
  <2>3. Len(LE(2, n)) = 2
    BY <2>2, BytesOfNumber, Zenon DEF n
  <2>4. EncodeField(form, v) = LE(2, n)
    BY <2>1 DEF n
  <2>5. Len(EncodeField(form, v)) = 2
    BY <2>3, <2>4, Zenon
  <2> QED
    BY <1>2, <2>5
<1>4. CASE form \in {"u8", "u16"}
  <2>1. form \in NumberForm
    BY <1>4 DEF NumberForm
  <2>2. Width[form] \in Nat /\ v \in Nat /\ EncodeField(form, v) = LE(Width[form], v)
    BY <2>1, NumberFieldIs
  <2>3. Len(LE(Width[form], v)) = Width[form]
    BY <2>2, BytesOfNumber
  <2>4. Width[form] \in {1, 2}
    BY <1>4 DEF Width
  <2> QED
    BY <1>2, <2>2, <2>3, <2>4
<1> QED
  BY <1>3, <1>4 DEF ShortForm

LEMMA TwoFields ==
  ASSUME NEW k \in Kind, NEW f \in ShortForm, NEW g \in ShortForm, Layout[k] = <<f, g>>,
         NEW a, NEW b, InWidth(f, a), InWidth(g, b)
  PROVE  Sendable(Message(k, <<a, b>>))
<1> DEFINE m == Message(k, <<a, b>>)
<1>1. m.kind = k /\ m.fields = <<a, b>> /\ m.fields[1] = a /\ m.fields[2] = b
  BY DEF Message
<1>2. DOMAIN Layout[k] = 1 .. 2 /\ Len(Layout[k]) = 2 /\ Layout[k][1] = f /\ Layout[k][2] = g
  OBVIOUS
<1>3. m = Message(k, [i \in 1 .. 2 |-> m.fields[i]])
  <2>1. <<a, b>> = [i \in 1 .. 2 |-> <<a, b>>[i]]
    OBVIOUS
  <2> QED
    BY <1>1, <2>1
<1> HIDE DEF m
<1>4. WellFormed(m)
  BY <1>1, <1>2, <1>3 DEF WellFormed
<1> DEFINE to == PayloadTo(m)
<1>5. to \in [0 .. 2 -> Seq(Byte)] /\ to[0] = <<>> /\ Payload(m) = to[2]
  BY <1>1, <1>2, <1>4, PayloadToIs
<1>e. /\ to[1] = to[0] \o FieldBytes(m, 1)
      /\ to[2] = to[1] \o FieldBytes(m, 2)
  <2>1. \A i \in 1 .. 2 : to[i] = to[i - 1] \o FieldBytes(m, i)
    BY <1>1, <1>2, <1>4, PayloadToIs
  <2> HIDE DEF to
  <2>2. to[1] = to[1 - 1] \o FieldBytes(m, 1) /\ to[2] = to[2 - 1] \o FieldBytes(m, 2)
    BY <2>1
  <2>3. 1 - 1 = 0 /\ 2 - 1 = 1 /\ 3 - 1 = 2
    OBVIOUS
  <2> QED
    BY <2>2, <2>3, Zenon
<1>6. /\ FieldBytes(m, 1) \in Seq(Byte) /\ Len(FieldBytes(m, 1)) <= 2
      /\ FieldBytes(m, 2) \in Seq(Byte) /\ Len(FieldBytes(m, 2)) <= 2
  BY <1>1, <1>2, ShortField DEF FieldBytes
<1> HIDE DEF to
<1>7. to[0] \in Seq(Byte) /\ to[1] \in Seq(Byte) /\ Len(to[0]) = 0
  BY <1>5
<1>8. Len(to[1]) = Len(to[0]) + Len(FieldBytes(m, 1))
      /\ Len(to[2]) = Len(to[1]) + Len(FieldBytes(m, 2))
  <2>1. Len(to[0] \o FieldBytes(m, 1)) = Len(to[0]) + Len(FieldBytes(m, 1))
    BY <1>6, <1>7, LenOfConcat, Zenon
  <2>2. Len(to[1] \o FieldBytes(m, 2)) = Len(to[1]) + Len(FieldBytes(m, 2))
    BY <1>6, <1>7, LenOfConcat, Zenon
  <2> QED
    BY <1>e, <2>1, <2>2, Zenon
<1>9. Len(Payload(m)) <= MaxPayload
  BY <1>5, <1>6, <1>7, <1>8, SquareType
<1> QED
  BY <1>4, <1>9 DEF Sendable, m

LEMMA ThreeFields ==
  ASSUME NEW k \in Kind, NEW f \in ShortForm, NEW g \in ShortForm, NEW h \in ShortForm,
         Layout[k] = <<f, g, h>>,
         NEW a, NEW b, NEW c, InWidth(f, a), InWidth(g, b), InWidth(h, c)
  PROVE  Sendable(Message(k, <<a, b, c>>))
<1> DEFINE m == Message(k, <<a, b, c>>)
<1>1. m.kind = k /\ m.fields = <<a, b, c>>
      /\ m.fields[1] = a /\ m.fields[2] = b /\ m.fields[3] = c
  BY DEF Message
<1>2. DOMAIN Layout[k] = 1 .. 3 /\ Len(Layout[k]) = 3
      /\ Layout[k][1] = f /\ Layout[k][2] = g /\ Layout[k][3] = h
  OBVIOUS
<1>3. m = Message(k, [i \in 1 .. 3 |-> m.fields[i]])
  <2>1. <<a, b, c>> = [i \in 1 .. 3 |-> <<a, b, c>>[i]]
    OBVIOUS
  <2> QED
    BY <1>1, <2>1
<1> HIDE DEF m
<1>4. WellFormed(m)
  BY <1>1, <1>2, <1>3 DEF WellFormed
<1> DEFINE to == PayloadTo(m)
<1>5. to \in [0 .. 3 -> Seq(Byte)] /\ to[0] = <<>> /\ Payload(m) = to[3]
  BY ZenonT(40), <1>1, <1>2, <1>4, PayloadToIs
<1>e. /\ to[1] = to[0] \o FieldBytes(m, 1)
      /\ to[2] = to[1] \o FieldBytes(m, 2)
      /\ to[3] = to[2] \o FieldBytes(m, 3)
  <2>1. \A i \in 1 .. 3 : to[i] = to[i - 1] \o FieldBytes(m, i)
    BY <1>1, <1>2, <1>4, PayloadToIs
  <2> HIDE DEF to
  <2>a. 1 \in 1 .. 3 /\ 2 \in 1 .. 3 /\ 3 \in 1 .. 3
    OBVIOUS
  <2>2. to[1] = to[1 - 1] \o FieldBytes(m, 1) /\ to[2] = to[2 - 1] \o FieldBytes(m, 2)
        /\ to[3] = to[3 - 1] \o FieldBytes(m, 3)
    BY <2>1, <2>a
  <2>3. 1 - 1 = 0 /\ 2 - 1 = 1 /\ 3 - 1 = 2
    OBVIOUS
  <2> QED
    BY <2>2, <2>3, Zenon
<1>6. /\ FieldBytes(m, 1) \in Seq(Byte) /\ Len(FieldBytes(m, 1)) <= 2
      /\ FieldBytes(m, 2) \in Seq(Byte) /\ Len(FieldBytes(m, 2)) <= 2
      /\ FieldBytes(m, 3) \in Seq(Byte) /\ Len(FieldBytes(m, 3)) <= 2
  BY <1>1, <1>2, ShortField DEF FieldBytes
<1> HIDE DEF to
<1>7. to[0] \in Seq(Byte) /\ to[1] \in Seq(Byte) /\ to[2] \in Seq(Byte) /\ Len(to[0]) = 0
  BY <1>5
<1>8. /\ Len(to[1]) = Len(to[0]) + Len(FieldBytes(m, 1))
      /\ Len(to[2]) = Len(to[1]) + Len(FieldBytes(m, 2))
      /\ Len(to[3]) = Len(to[2]) + Len(FieldBytes(m, 3))
  <2>1. Len(to[0] \o FieldBytes(m, 1)) = Len(to[0]) + Len(FieldBytes(m, 1))
    BY <1>6, <1>7, LenOfConcat, Zenon
  <2>2. Len(to[1] \o FieldBytes(m, 2)) = Len(to[1]) + Len(FieldBytes(m, 2))
    BY <1>6, <1>7, LenOfConcat, Zenon
  <2>3. Len(to[2] \o FieldBytes(m, 3)) = Len(to[2]) + Len(FieldBytes(m, 3))
    BY <1>6, <1>7, LenOfConcat, Zenon
  <2> QED
    BY <1>e, <2>1, <2>2, <2>3, Zenon
<1>9. Len(Payload(m)) <= MaxPayload
  BY <1>5, <1>6, <1>7, <1>8, SquareType
<1> QED
  BY <1>4, <1>9 DEF Sendable, m

\* What an event asks of the sink: the call is the one the event stands for,
\* its delta clamped, its modifier remapped, and its mask in agreement.
Performs(r, ev, call) ==
  /\ call \in Call /\ AsTapped(r, ev, call)
  /\ call.type = "Key" => call.mods = UNION {HidMod(ApplyToHid(r, h)) : h \in ev.held}

CarriesInput(r, ev, m) == ToCall(m) # {} /\ \A call \in ToCall(m) : Performs(r, ev, call)

LEMMA StateNamed ==
  ASSUME NEW x \in DOMAIN StateByte
  PROVE  StateByte[x] \in {0, 1} /\ Named(StateByte, StateByte[x]) = {x}
  BY DEF StateByte, Named

LEMMA ButtonNamed ==
  ASSUME NEW x \in DOMAIN ButtonByte
  PROVE  ButtonByte[x] \in 0 .. 4 /\ Named(ButtonByte, ButtonByte[x]) = {x}
<1>1. DOMAIN ButtonByte = {"Left", "Right", "Middle", "X1", "X2"}
      /\ ButtonByte["Left"] = 0 /\ ButtonByte["Right"] = 1 /\ ButtonByte["Middle"] = 2
      /\ ButtonByte["X1"] = 3 /\ ButtonByte["X2"] = 4
  BY DEF ButtonByte
<1> QED
  BY <1>1 DEF Named

LEMMA InputKinds ==
  /\ "MouseMoveRel" \in Kind /\ Layout["MouseMoveRel"] = <<"i16", "i16">>
  /\ "MouseWheel" \in Kind /\ Layout["MouseWheel"] = <<"i16", "i16">>
  /\ "MouseButton" \in Kind /\ Layout["MouseButton"] = <<"u8", "u8">>
  /\ "KeyEvent" \in Kind /\ Layout["KeyEvent"] = <<"u16", "u8", "u8">>
<1>1. "MouseMoveRel" \in Kind /\ "MouseWheel" \in Kind /\ "MouseButton" \in Kind /\ "KeyEvent" \in Kind
  BY DEF Kind, Layout
<1>2. Layout["MouseMoveRel"] = <<"i16", "i16">> /\ Layout["MouseWheel"] = <<"i16", "i16">>
  BY DEF Layout
<1>3. Layout["MouseButton"] = <<"u8", "u8">> /\ Layout["KeyEvent"] = <<"u16", "u8", "u8">>
  BY DEF Layout
<1> QED
  BY <1>1, <1>2, <1>3

LEMMA ByteInWidth ==
  ASSUME NEW v \in 0 .. 15
  PROVE  InWidth("u8", v)
<1>1. v \in Nat /\ v < Radix
  BY RadixType
<1>2. Left(1, v)[1] = 0
  BY <1>1, FitsOneByte
<1>3. Width["u8"] = 1
  BY DEF Width
<1> QED
  BY <1>1, <1>2, <1>3 DEF InWidth

LEMMA DeltaInput ==
  ASSUME NEW r, NEW ev, ev.type \in {"Rel", "Wheel"}, ev.dx \in Int, ev.dy \in Int
  PROVE  Sendable(ToMessage(r, ev)) /\ CarriesInput(r, ev, ToMessage(r, ev))
<1> DEFINE x == Clamp(ev.dx)
           y == Clamp(ev.dy)
           k == IF ev.type = "Rel" THEN "MouseMoveRel" ELSE "MouseWheel"
           call == [type |-> ev.type, dx |-> x, dy |-> y]
<1>1. x \in I16 /\ y \in I16 /\ KeepsDelta(ev.dx, x) /\ KeepsDelta(ev.dy, y)
  BY ClampType
<1> HIDE DEF x, y
<1>2. ToMessage(r, ev) = Message(k, <<x, y>>)
  BY DEF ToMessage, x, y
<1>3. k \in Kind /\ Layout[k] = <<"i16", "i16">>
  BY InputKinds
<1>4. InWidth("i16", x) /\ InWidth("i16", y)
  BY <1>1 DEF InWidth
<1>5. Sendable(Message(k, <<x, y>>))
  <2>1. "i16" \in ShortForm
    BY DEF ShortForm
  <2> HIDE DEF k
  <2> QED
    BY <1>3, <1>4, <2>1, TwoFields
<1>6. ToCall(Message(k, <<x, y>>)) = {call}
  BY DEF ToCall, Message
<1>7. Performs(r, ev, call)
  BY <1>1 DEF Performs, Call, AsTapped
<1> QED
  BY <1>2, <1>5, <1>6, <1>7 DEF CarriesInput

LEMMA ButtonInput ==
  ASSUME NEW r, NEW b \in DOMAIN ButtonByte, NEW x \in DOMAIN StateByte,
         NEW ev, ev = [type |-> "Button", button |-> b, state |-> x]
  PROVE  Sendable(ToMessage(r, ev)) /\ CarriesInput(r, ev, ToMessage(r, ev))
<1>1. ToMessage(r, ev) = Message("MouseButton", <<ButtonByte[b], StateByte[x]>>)
  BY DEF ToMessage
<1>2. ButtonByte[b] \in 0 .. 4 /\ Named(ButtonByte, ButtonByte[b]) = {b}
      /\ StateByte[x] \in {0, 1} /\ Named(StateByte, StateByte[x]) = {x}
  BY ButtonNamed, StateNamed
<1>3. Sendable(Message("MouseButton", <<ButtonByte[b], StateByte[x]>>))
  <2>1. InWidth("u8", ButtonByte[b]) /\ InWidth("u8", StateByte[x])
    BY <1>2, ByteInWidth
  <2>2. "u8" \in ShortForm
    BY DEF ShortForm
  <2> QED
    BY <2>1, <2>2, InputKinds, TwoFields
<1>4. ToCall(Message("MouseButton", <<ButtonByte[b], StateByte[x]>>)) = {ev}
  BY <1>2 DEF ToCall, Message
<1>5. Performs(r, ev, ev)
  BY DEF Performs, Call, AsTapped
<1> QED
  BY <1>1, <1>3, <1>4, <1>5 DEF CarriesInput

LEMMA KeyInput ==
  ASSUME NEW r \in Remaps, NEW ev, ev.type = "Key", ev.hid \in 0 .. MaxPayload,
         ev.state \in DOMAIN StateByte, ev.held \subseteq 0 .. MaxPayload
  PROVE  Sendable(ToMessage(r, ev)) /\ CarriesInput(r, ev, ToMessage(r, ev))
<1> DEFINE h == ApplyToHid(r, ev.hid)
           S == ApplyToModmask(r, UNION {HidMod(g) : g \in ev.held})
           call == [type |-> "Key", hid |-> h, state |-> ev.state, mods |-> S]
<1>1. /\ h \in 0 .. MaxPayload /\ HidSide(h) = HidSide(ev.hid)
      /\ HidMod(h) = {Becomes(r, m) : m \in HidMod(ev.hid)}
      /\ HidMod(ev.hid) = {} => h = ev.hid
  BY RemappedHid
<1>2. S = UNION {HidMod(ApplyToHid(r, g)) : g \in ev.held}
  <2>1. \A g \in ev.held : HidMod(ApplyToHid(r, g)) = {Becomes(r, m) : m \in HidMod(g)}
    BY RemappedHid
  <2> QED
    BY <2>1 DEF ApplyToModmask
<1>3. S \in SUBSET Mods
  BY BecomesMod DEF ApplyToModmask, HidMod
<1>4. ToMessage(r, ev) = Message("KeyEvent", <<h, StateByte[ev.state], Mask(S)>>)
  BY DEF ToMessage
<1> HIDE DEF h, S
<1>5. Mask(S) \in 0 .. 15 /\ InMask(Mask(S)) = S
  BY <1>3, MaskUndone
<1>6. StateByte[ev.state] \in {0, 1} /\ Named(StateByte, StateByte[ev.state]) = {ev.state}
  BY StateNamed
<1>7. Sendable(Message("KeyEvent", <<h, StateByte[ev.state], Mask(S)>>))
  <2>1. InWidth("u8", Mask(S)) /\ InWidth("u8", StateByte[ev.state])
    BY <1>5, <1>6, ByteInWidth
  <2>2. InWidth("u16", h)
    <3>1. h \in Nat /\ h <= MaxPayload
      BY <1>1, SquareType
    <3>2. Left(2, h)[2] = 0 /\ Width["u16"] = 2
      BY <3>1, FitsTwoBytes DEF Width
    <3> QED
      BY <3>1, <3>2 DEF InWidth
  <2>3. "u8" \in ShortForm /\ "u16" \in ShortForm
    BY DEF ShortForm
  <2> QED
    BY <2>1, <2>2, <2>3, InputKinds, ThreeFields
<1>8. ToCall(Message("KeyEvent", <<h, StateByte[ev.state], Mask(S)>>)) = {call}
  BY <1>5, <1>6 DEF ToCall, Message
<1>9. Performs(r, ev, call)
  BY <1>1, <1>2, <1>3 DEF Performs, Call, AsTapped
<1> QED
  BY <1>4, <1>7, <1>8, <1>9 DEF CarriesInput

\* Every event makes a message that can be sent and carries it to the sink.
LEMMA EventsAreCarried ==
  ASSUME NEW r \in Remaps, NEW ev \in Mice \cup Presses
  PROVE  Sendable(ToMessage(r, ev)) /\ CarriesInput(r, ev, ToMessage(r, ev))
  BY EventTypes, DeltaInput, ButtonInput, KeyInput

-----------------------------------------------------------------------------
(* The stream of frames *)

\* The messages that are ever sent.
SampleMsg == UNION {{Message(k, f) : f \in Samples[k]} : k \in DOMAIN Samples}
InputMsg == UNION {{ToMessage(r, ev) : ev \in Mice \cup Presses} : r \in Remaps}
SentMsg == SampleMsg \cup InputMsg

LEMMA SentIsSendable ==
  ASSUME NEW m \in SentMsg
  PROVE  Sendable(m)
<1>1. CASE \E k \in DOMAIN Samples : \E f \in Samples[k] : m = Message(k, f)
  BY <1>1, SampleAssumption DEF SampleAssumption, Sendable
<1>2. CASE \E r \in Remaps : \E ev \in Mice \cup Presses : m = ToMessage(r, ev)
  BY <1>2, EventsAreCarried
<1>3. m \in SampleMsg => \E k \in DOMAIN Samples : \E f \in Samples[k] : m = Message(k, f)
  BY Zenon DEF SampleMsg
<1>4. m \in InputMsg => \E r \in Remaps : \E ev \in Mice \cup Presses : m = ToMessage(r, ev)
  BY Zenon DEF InputMsg
<1>5. m \in SampleMsg \/ m \in InputMsg
  BY DEF SentMsg
<1> QED
  BY <1>1, <1>2, <1>3, <1>4, <1>5

LEMMA FrameType ==
  ASSUME NEW m \in SentMsg
  PROVE  Encode(m) \in Seq(Octet) /\ Len(Encode(m)) \in Nat /\ Len(Encode(m)) >= 3
<1>1. Encode(m) \in Seq(Octet) /\ Payload(m) \in Seq(Byte) /\ Len(Encode(m)) = Header + Len(Payload(m))
  BY SentIsSendable, EncodeIs
<1>2. Len(Payload(m)) \in Nat /\ Header = 3
  BY <1>1 DEF Header
<1> QED
  BY <1>1, <1>2

\* full holds the frames of s one after the other, the i-th up to at[i].
Frames(full, at, s) ==
  /\ full \in Seq(Octet) /\ at \in [0 .. Len(s) -> Nat]
  /\ at[0] = 0 /\ at[Len(s)] = Len(full)
  /\ \A i \in 1 .. Len(s) :
       at[i] = at[i - 1] + Len(Encode(s[i])) /\ At(full, at[i - 1], Encode(s[i]))

\* b and w hold what of full follows the first n frames: all of it, if whole.
Holds(full, place, b, w, whole) ==
  /\ b \in Seq(Octet) /\ w \in Seq(Octet)
  /\ At(full, place, b) /\ At(full, place + Len(b), w)
  /\ whole => place + Len(b) + Len(w) = Len(full)

LEMMA FramesGrow ==
  ASSUME NEW s \in Seq(SentMsg), NEW m \in SentMsg, NEW full, NEW at, Frames(full, at, s),
         NEW n \in 0 .. Len(s)
  PROVE  \E more : Frames(full \o Encode(m), more, Append(s, m)) /\ more[n] = at[n]
<1> DEFINE e == Encode(m)
           t == Append(s, m)
           f == full \o e
           k == Len(s) + 1
           more == [i \in 0 .. k |-> IF i < k THEN at[i] ELSE Len(f)]
<1>1. e \in Seq(Octet) /\ Len(e) \in Nat
  BY FrameType
<1>2. /\ full \in Seq(Octet) /\ at \in [0 .. Len(s) -> Nat] /\ at[0] = 0 /\ at[Len(s)] = Len(full)
      /\ Len(s) \in Nat /\ Len(full) \in Nat
  BY DEF Frames
<1>3. k \in Nat /\ Len(t) = k /\ t[k] = m /\ \A i \in 1 .. Len(s) : t[i] = s[i]
  OBVIOUS
<1> HIDE DEF e, t
<1>4. f \in Seq(Octet) /\ Len(f) = Len(full) + Len(e)
  BY <1>1, <1>2, LenOfConcat
<1>5. At(f, Len(full), e)
  BY <1>1, <1>2, AtEnd
<1>6. more \in [0 .. k -> Nat] /\ more[0] = 0 /\ more[k] = Len(f) /\ more[n] = at[n]
  BY <1>1, <1>2, <1>4
<1>7. ASSUME NEW i \in 1 .. k
      PROVE  more[i] = more[i - 1] + Len(Encode(t[i])) /\ At(f, more[i - 1], Encode(t[i]))
  <2>1. CASE i = k
    <3>1. more[i - 1] = Len(full) /\ more[i] = Len(full) + Len(e) /\ Encode(t[i]) = e
      BY <1>2, <1>3, <1>4, <2>1 DEF e
    <3> QED
      BY <1>5, <3>1
  <2>2. CASE i # k
    <3>1. i \in 1 .. Len(s) /\ i - 1 \in 0 .. Len(s) /\ i \in 0 .. Len(s) /\ t[i] = s[i] /\ s[i] \in SentMsg
      BY <1>3, <2>2
    <3>a. i \in 0 .. k /\ i < k /\ i - 1 \in 0 .. k /\ i - 1 < k
      BY <1>2, <3>1
    <3>2. more[i] = at[i] /\ more[i - 1] = at[i - 1] /\ at[i - 1] \in Nat
      <4> HIDE DEF k, f
      <4> QED
        BY <1>2, <3>1, <3>a
    <3>3. at[i] = at[i - 1] + Len(Encode(s[i])) /\ At(full, at[i - 1], Encode(s[i]))
      BY <3>1 DEF Frames
    <3>4. Encode(s[i]) \in Seq(Octet)
      BY <3>1, FrameType
    <3>5. At(f, at[i - 1], Encode(s[i]))
      BY <1>1, <1>2, <3>2, <3>3, <3>4, AtConcat
    <3> HIDE DEF more, f
    <3> QED
      BY <3>1, <3>2, <3>3, <3>5
  <2> QED
    BY <2>1, <2>2
<1> HIDE DEF more, f, k
<1>8. Frames(f, more, t)
  BY <1>3, <1>4, <1>6, <1>7 DEF Frames
<1> QED
  BY <1>6, <1>8 DEF f, e, t

\* Behind the frames that were decoded stands the next one, or nothing.
LEMMA PlaceType ==
  ASSUME NEW s \in Seq(SentMsg), NEW full, NEW at, Frames(full, at, s), NEW n \in 0 .. Len(s)
  PROVE  /\ full \in Seq(Octet) /\ at[n] \in Nat
         /\ n = Len(s) => at[n] = Len(full)
         /\ n < Len(s) => /\ s[n + 1] \in SentMsg /\ at[n + 1] = at[n] + Len(Encode(s[n + 1]))
                          /\ At(full, at[n], Encode(s[n + 1]))
<1>1. full \in Seq(Octet) /\ at[n] \in Nat /\ (n = Len(s) => at[n] = Len(full))
  BY DEF Frames
<1>2. ASSUME n < Len(s)
      PROVE  /\ s[n + 1] \in SentMsg /\ at[n + 1] = at[n] + Len(Encode(s[n + 1]))
             /\ At(full, at[n], Encode(s[n + 1]))
  <2>1. n + 1 \in 1 .. Len(s) /\ (n + 1) - 1 = n /\ s[n + 1] \in SentMsg
    BY <1>2
  <2> QED
    BY <2>1 DEF Frames
<1> QED
  BY <1>1, <1>2

LEMMA HoldsGrow ==
  ASSUME NEW full \in Seq(Octet), NEW place \in Nat, NEW b, NEW w, NEW e \in Seq(Octet),
         Holds(full, place, b, w, TRUE)
  PROVE  Holds(full \o e, place, b, w \o e, TRUE)
<1>1. /\ b \in Seq(Octet) /\ w \in Seq(Octet) /\ At(full, place, b) /\ At(full, place + Len(b), w)
      /\ place + Len(b) + Len(w) = Len(full)
  BY DEF Holds
<1>2. Len(b) \in Nat /\ Len(w) \in Nat /\ Len(e) \in Nat /\ Len(full) \in Nat
  BY <1>1
<1>a. place + Len(b) + Len(w) = Len(full)
  BY <1>1
<1>3. Len(full \o e) = Len(full) + Len(e) /\ Len(w \o e) = Len(w) + Len(e) /\ w \o e \in Seq(Octet)
  BY <1>1, LenOfConcat
<1>4. At(full \o e, place, b)
  BY <1>1, AtConcat
<1>5. At(full \o e, place + Len(b), w \o e)
  <2>1. ASSUME NEW i \in 1 .. Len(w \o e)
        PROVE  (full \o e)[place + Len(b) + i] = (w \o e)[i]
    <3> DEFINE n == Len(w) + Len(e)
    <3>0. i \in 1 .. n /\ n \in Nat
      BY <1>2, <1>3
    <3> HIDE DEF n
    <3>a. i \in Int /\ i >= 1 /\ i <= Len(w) + Len(e)
      BY <3>0 DEF n
    <3>1. CASE i <= Len(w)
      <4>1. i \in 1 .. Len(w) /\ place + Len(b) + i \in 1 .. Len(full)
        BY <1>1, <1>2, <3>a, <3>1
      <4>2. full[place + Len(b) + i] = w[i]
        BY <1>1, <4>1 DEF At
      <4> QED
        BY <1>1, <4>1, <4>2
    <3>2. CASE i > Len(w)
      <4> DEFINE j == i - Len(w)
      <4>1. j \in 1 .. Len(e) /\ place + Len(b) + i = Len(full) + j /\ i = Len(w) + j
        BY <1>a, <1>2, <3>a, <3>2
      <4> HIDE DEF j
      <4>2. (full \o e)[Len(full) + j] = e[j] /\ (w \o e)[Len(w) + j] = e[j]
        BY <1>1, <4>1
      <4> QED
        BY <4>1, <4>2
    <3>3. i <= Len(w) \/ i > Len(w)
      BY <1>2, <3>a
    <3> QED
      BY <3>1, <3>2, <3>3
  <2>2. place + Len(b) + Len(w \o e) <= Len(full \o e)
    BY <1>a, <1>2, <1>3
  <2> QED
    BY <2>1, <2>2 DEF At
<1>6. full \o e \in Seq(Octet) /\ place + Len(b) + Len(w \o e) = Len(full \o e)
  BY <1>a, <1>2, <1>3
<1> QED
  BY <1>1, <1>3, <1>4, <1>5, <1>6 DEF Holds

LEMMA HoldsRead ==
  ASSUME NEW full \in Seq(Octet), NEW place \in Nat, NEW b, NEW w, NEW whole,
         Holds(full, place, b, w, whole), NEW n \in 1 .. Len(w)
  PROVE  Holds(full, place, b \o SubSeq(w, 1, n), SubSeq(w, n + 1, Len(w)), whole)
<1> DEFINE c == SubSeq(w, 1, n)
           v == SubSeq(w, n + 1, Len(w))
           d == b \o c
<1>1. /\ b \in Seq(Octet) /\ w \in Seq(Octet) /\ At(full, place, b) /\ At(full, place + Len(b), w)
      /\ whole => place + Len(b) + Len(w) = Len(full)
  BY DEF Holds
<1>2. Len(b) \in Nat /\ Len(w) \in Nat /\ Len(full) \in Nat /\ n \in Nat
  BY <1>1
<1>3. /\ c \in Seq(Octet) /\ Len(c) = n /\ \A i \in 1 .. n : c[i] = w[i]
      /\ v \in Seq(Octet) /\ Len(v) = Len(w) - n /\ \A i \in 1 .. Len(w) - n : v[i] = w[n + i]
  BY <1>1
<1> HIDE DEF c, v
<1>4. d \in Seq(Octet) /\ Len(d) = Len(b) + n
      /\ (\A i \in 1 .. Len(b) : d[i] = b[i]) /\ \A i \in 1 .. n : d[Len(b) + i] = c[i]
  <2>0. b \in Seq(Octet) /\ c \in Seq(Octet)
    BY <1>1, <1>3
  <2>1. Len(d) = Len(b) + Len(c)
    BY <2>0, LenOfConcat
  <2>4. d \in Seq(Octet)
    BY <2>0
  <2>2. \A i \in 1 .. Len(b) : d[i] = b[i]
    BY <1>1, <1>3
  <2>3. \A i \in 1 .. Len(c) : d[Len(b) + i] = c[i]
    BY <1>1, <1>3
  <2> QED
    BY <1>3, <2>1, <2>2, <2>3, <2>4
<1> HIDE DEF d
<1>a. Len(d) = Len(b) + n /\ Len(v) = Len(w) - n
  BY <1>3, <1>4
<1>5. place + Len(b) + Len(w) <= Len(full) /\ \A i \in 1 .. Len(w) : full[place + Len(b) + i] = w[i]
  BY <1>1 DEF At
<1>6. At(full, place, d)
  <2>1. ASSUME NEW i \in 1 .. Len(b) + n PROVE full[place + i] = d[i]
    <3>1. CASE i <= Len(b)
      <4>1. i \in 1 .. Len(b)
        BY <1>2, <3>1
      <4> QED
        BY <1>1, <1>4, <4>1 DEF At
    <3>2. CASE i > Len(b)
      <4> DEFINE j == i - Len(b)
      <4>1. j \in 1 .. n /\ j \in 1 .. Len(w) /\ i = Len(b) + j /\ place + i = place + Len(b) + j
        BY <1>2, <3>2
      <4> HIDE DEF j
      <4>2. full[place + Len(b) + j] = w[j] /\ d[Len(b) + j] = c[j] /\ c[j] = w[j]
        BY <1>3, <1>4, <1>5, <4>1
      <4> QED
        BY <4>1, <4>2
    <3> QED
      BY <1>2, <3>1, <3>2
  <2> QED
    BY <1>2, <1>4, <1>5, <2>1 DEF At
<1>7. At(full, place + Len(d), v)
  <2>1. ASSUME NEW i \in 1 .. Len(w) - n PROVE full[place + Len(d) + i] = v[i]
    <3>1. n + i \in 1 .. Len(w) /\ place + Len(d) + i = place + Len(b) + (n + i)
      BY <1>2, <1>4
    <3>2. full[place + Len(b) + (n + i)] = w[n + i]
      BY <1>5, <3>1
    <3> QED
      BY <1>3, <3>1, <3>2
  <2>2. place + Len(b) + Len(w) <= Len(full)
    BY <1>5
  <2>3. place + Len(d) + Len(v) <= Len(full)
    BY <1>2, <1>a, <2>2
  <2> QED
    BY <1>a, <2>1, <2>3 DEF At
<1>8. whole => place + Len(d) + Len(v) = Len(full)
  <2>1. whole => place + Len(b) + Len(w) = Len(full)
    BY <1>1
  <2> QED
    BY <1>2, <1>a, <2>1
<1> QED
  BY <1>3, <1>4, <1>6, <1>7, <1>8 DEF Holds, d, c, v

LEMMA HoldsCut ==
  ASSUME NEW full \in Seq(Octet), NEW place \in Nat, NEW b, NEW w, NEW whole,
         Holds(full, place, b, w, whole)
  PROVE  Holds(full, place, b, <<>>, FALSE)
<1>1. b \in Seq(Octet) /\ At(full, place, b)
  BY DEF Holds
<1>2. place + Len(b) <= Len(full) /\ Len(b) \in Nat
  BY <1>1 DEF At
<1>3. <<>> \in Seq(Octet) /\ Len(<<>>) = 0
  OBVIOUS
<1>4. At(full, place + Len(b), <<>>)
  BY <1>2 DEF At
<1> QED
  BY <1>1, <1>3, <1>4 DEF Holds

\* The reader's buffer holds a frame only if it holds the next one, whole.
LEMMA NextFrame ==
  ASSUME NEW s \in Seq(SentMsg), NEW full, NEW at, Frames(full, at, s), NEW n \in 0 .. Len(s),
         NEW b, NEW w, NEW whole, Holds(full, at[n], b, w, whole), HasFrame(b)
  PROVE  n < Len(s) /\ At(b, 0, Encode(s[n + 1]))
<1>1. /\ full \in Seq(Octet) /\ at[n] \in Nat /\ b \in Seq(Octet) /\ Len(b) \in Nat
      /\ at[n] + Len(b) <= Len(full) /\ \A i \in 1 .. Len(b) : full[at[n] + i] = b[i]
  BY PlaceType DEF Holds, At
<1>2. Header = 3 /\ Len(b) >= 3 /\ Len(b) >= FrameLen(b)
  BY DEF HasFrame, Header
<1>3. n < Len(s)
  <2>1. CASE n = Len(s)
    <3>1. at[n] = Len(full)
      BY <2>1, PlaceType
    <3> QED
      BY <1>1, <1>2, <3>1
  <2> QED
    BY <2>1
<1> DEFINE m == s[n + 1]
           e == Encode(m)
<1>4. m \in SentMsg /\ At(full, at[n], e)
  BY <1>3, PlaceType
<1> HIDE DEF m
<1>5. e \in Seq(Octet) /\ Len(e) \in Nat /\ Len(e) >= 3
  BY <1>4, FrameType
<1>6. \A i \in 1 .. Len(e) : full[at[n] + i] = e[i]
  BY <1>4 DEF At
<1>7. FrameLen(b) = Len(e)
  <2>1. \A i \in 1 .. Header : b[i] = e[i]
    BY <1>1, <1>2, <1>5, <1>6
  <2>2. Sendable(m) /\ Len(b) >= Header
    BY <1>2, <1>4, SentIsSendable
  <2> QED
    BY <1>1, <2>1, <2>2, FrameLenIs
<1>8. At(b, 0, e)
  <2>1. ASSUME NEW i \in 1 .. Len(e) PROVE b[0 + i] = e[i]
    <3>1. i \in 1 .. Len(b) /\ 0 + i = i
      BY <1>1, <1>2, <1>5, <1>7
    <3> QED
      BY <1>1, <1>6, <3>1
  <2> QED
    BY <1>1, <1>2, <1>5, <1>7, <2>1 DEF At
<1> QED
  BY <1>3, <1>8 DEF m

\* Taking it out of the buffer moves on to the frame after it.
NextDecoded(full, at, s, n, b, w, whole) ==
  /\ n + 1 \in 0 .. Len(s) /\ Decode(b) = s[n + 1] /\ Decode(b) # Bad
  /\ Holds(full, at[n + 1], SubSeq(b, FrameLen(b) + 1, Len(b)), w, whole)

LEMMA HoldsDecode ==
  ASSUME NEW s \in Seq(SentMsg), NEW full, NEW at, Frames(full, at, s), NEW n \in 0 .. Len(s),
         NEW b, NEW w, NEW whole, Holds(full, at[n], b, w, whole), HasFrame(b)
  PROVE  NextDecoded(full, at, s, n, b, w, whole)
<1> DEFINE m == s[n + 1]
           e == Encode(m)
           c == SubSeq(b, FrameLen(b) + 1, Len(b))
<1>1. n < Len(s) /\ At(b, 0, e)
  BY NextFrame
<1>2. /\ full \in Seq(Octet) /\ at[n] \in Nat /\ m \in SentMsg /\ at[n + 1] = at[n] + Len(e)
  BY <1>1, PlaceType
<1> HIDE DEF m
<1>3. /\ b \in Seq(Octet) /\ w \in Seq(Octet) /\ At(full, at[n], b) /\ At(full, at[n] + Len(b), w)
      /\ whole => at[n] + Len(b) + Len(w) = Len(full)
  BY DEF Holds
<1>4. e \in Seq(Octet) /\ Len(e) \in Nat /\ Sendable(m)
  BY <1>2, FrameType, SentIsSendable
<1>5. FrameLen(b) = Len(e) /\ Decode(b) = m /\ m # Bad
  BY <1>1, <1>3, <1>4, DecodeUndoesEncode
<1>6. Len(e) <= Len(b) /\ Len(b) \in Nat /\ Len(w) \in Nat
  BY <1>1, <1>3, <1>4 DEF At
<1>7. c \in Seq(Octet) /\ Len(c) = Len(b) - Len(e) /\ \A i \in 1 .. Len(c) : c[i] = b[Len(e) + i]
  <2> DEFINE k == Len(e)
  <2>1. k \in Nat /\ k <= Len(b) /\ c = SubSeq(b, k + 1, Len(b))
    BY <1>4, <1>5, <1>6
  <2> HIDE DEF k, c
  <2>2. c \in Seq(Octet) /\ Len(c) = Len(b) - k /\ \A i \in 1 .. Len(c) : c[i] = b[k + i]
    BY <1>3, <2>1
  <2> QED
    BY <2>2 DEF k
<1> HIDE DEF c
<1>8. at[n + 1] \in Nat /\ at[n + 1] + Len(c) = at[n] + Len(b)
  BY <1>2, <1>4, <1>6, <1>7
<1>9. At(full, at[n + 1], c)
  <2>1. ASSUME NEW i \in 1 .. Len(c) PROVE full[at[n + 1] + i] = c[i]
    <3>1. Len(e) + i \in 1 .. Len(b) /\ at[n + 1] + i = at[n] + (Len(e) + i)
      BY <1>2, <1>4, <1>6, <1>7
    <3>2. full[at[n] + (Len(e) + i)] = b[Len(e) + i]
      BY <1>3, <3>1 DEF At
    <3> QED
      BY <1>7, <3>1, <3>2
  <2> QED
    BY <1>3, <1>8, <2>1 DEF At
<1>10. Holds(full, at[n + 1], c, w, whole)
  BY <1>3, <1>7, <1>8, <1>9 DEF Holds
<1>11. n + 1 \in 0 .. Len(s)
  BY <1>1
<1> QED
  BY <1>5, <1>10, <1>11 DEF NextDecoded, m, c

\* When the stream is whole and has been read, the buffer without a frame
\* holds none that was sent.
LEMMA NothingLeft ==
  ASSUME NEW s \in Seq(SentMsg), NEW full, NEW at, Frames(full, at, s), NEW n \in 0 .. Len(s),
         NEW b, Holds(full, at[n], b, <<>>, TRUE), ~HasFrame(b)
  PROVE  n = Len(s)
<1> SUFFICES ASSUME n < Len(s) PROVE FALSE
  OBVIOUS
<1> DEFINE m == s[n + 1]
           e == Encode(m)
<1>1. /\ full \in Seq(Octet) /\ at[n] \in Nat /\ m \in SentMsg /\ At(full, at[n], e)
  BY PlaceType
<1> HIDE DEF m
<1>2. /\ b \in Seq(Octet) /\ At(full, at[n], b) /\ at[n] + Len(b) + Len(<<>>) = Len(full)
  BY DEF Holds
<1>3. e \in Seq(Octet) /\ Len(e) \in Nat /\ Sendable(m)
  BY <1>1, FrameType, SentIsSendable
<1>4. Len(b) \in Nat /\ Len(<<>>) = 0 /\ at[n] + Len(e) <= Len(full)
  BY <1>1, <1>2 DEF At
<1>5. Len(e) <= Len(b)
  BY <1>1, <1>2, <1>3, <1>4
<1>6. At(b, 0, e)
  <2>1. ASSUME NEW i \in 1 .. Len(e) PROVE b[0 + i] = e[i]
    <3>1. i \in 1 .. Len(b) /\ 0 + i = i
      BY <1>3, <1>4, <1>5
    <3> QED
      BY <1>1, <1>2, <3>1 DEF At
  <2> QED
    BY <1>3, <1>4, <1>5, <2>1 DEF At
<1> QED
  BY <1>2, <1>3, <1>6, DecodeUndoesEncode

-----------------------------------------------------------------------------
(* The user's input among the frames *)

\* which[j] of the events are carried by the first j messages of s, and all
\* of them by the whole of s.
Counts(which, r, taps, s) ==
  /\ which \in [0 .. Len(s) -> Nat] /\ which[0] = 0 /\ which[Len(s)] = Len(taps)
  /\ \A j \in 0 .. Len(s) : which[j] <= Len(taps)
  /\ \A j \in 1 .. Len(s) :
       \/ ToCall(s[j]) = {} /\ which[j] = which[j - 1]
       \/ which[j] = which[j - 1] + 1 /\ CarriesInput(r, taps[which[j]], s[j])

\* The sink's calls so far do what the first of the events did.
Follow(cs, r, taps, count) ==
  /\ cs \in Seq(Call) /\ Len(cs) = count
  /\ \A i \in 1 .. Len(cs) : Performs(r, taps[i], cs[i])

\* taps grows to more, by the event that the message m carries if it does.
Taken(taps, more, r, m) ==
  \/ more = taps /\ ToCall(m) = {}
  \/ /\ Len(more) = Len(taps) + 1 /\ \A i \in 1 .. Len(taps) : more[i] = taps[i]
     /\ CarriesInput(r, more[Len(taps) + 1], m)

LEMMA CountsGrow ==
  ASSUME NEW E, NEW s \in Seq(SentMsg), NEW m \in SentMsg, NEW r,
         NEW taps \in Seq(E), NEW more \in Seq(E), Taken(taps, more, r, m),
         NEW which, Counts(which, r, taps, s), NEW n \in 0 .. Len(s)
  PROVE  \E to : Counts(to, r, more, Append(s, m)) /\ to[n] = which[n]
<1> DEFINE t == Append(s, m)
           k == Len(s) + 1
           to == [j \in 0 .. k |-> IF j < k THEN which[j] ELSE Len(more)]
<1>1. k \in Nat /\ Len(s) \in Nat /\ Len(t) = k /\ t[k] = m /\ \A j \in 1 .. Len(s) : t[j] = s[j]
  OBVIOUS
<1>2. /\ which \in [0 .. Len(s) -> Nat] /\ which[0] = 0 /\ which[Len(s)] = Len(taps)
      /\ \A j \in 0 .. Len(s) : which[j] <= Len(taps)
      /\ Len(taps) \in Nat /\ Len(more) \in Nat
  BY DEF Counts
<1>3. Len(taps) <= Len(more) /\ \A i \in 1 .. Len(taps) : more[i] = taps[i]
  BY <1>2 DEF Taken
<1> HIDE DEF t
<1>4. to \in [0 .. k -> Nat] /\ to[0] = 0 /\ to[k] = Len(more) /\ to[n] = which[n]
  BY <1>1, <1>2
<1>5. \A j \in 0 .. k : to[j] <= Len(more)
  BY <1>1, <1>2, <1>3
<1>6. ASSUME NEW j \in 1 .. k
      PROVE  \/ ToCall(t[j]) = {} /\ to[j] = to[j - 1]
             \/ to[j] = to[j - 1] + 1 /\ CarriesInput(r, more[to[j]], t[j])
  <2>1. CASE j = k
    <3>1. to[j] = Len(more) /\ to[j - 1] = Len(taps) /\ t[j] = m
      BY <1>1, <1>2, <2>1
    <3> HIDE DEF to, k
    <3> QED
      BY <3>1 DEF Taken
  <2>2. CASE j # k
    <3>1. j \in 1 .. Len(s) /\ j - 1 \in 0 .. Len(s) /\ j \in 0 .. Len(s) /\ t[j] = s[j]
      BY <1>1, <2>2
    <3>2. to[j] = which[j] /\ to[j - 1] = which[j - 1]
      BY <1>1, <3>1
    <3>3. \/ ToCall(s[j]) = {} /\ which[j] = which[j - 1]
          \/ which[j] = which[j - 1] + 1 /\ CarriesInput(r, taps[which[j]], s[j])
      BY <3>1 DEF Counts
    <3>a. which[j] \in Nat /\ which[j - 1] \in Nat /\ which[j] <= Len(taps)
      BY <1>2, <3>1
    <3>4. which[j] = which[j - 1] + 1 => which[j] \in 1 .. Len(taps)
      BY <1>2, <3>a
    <3> HIDE DEF to, k
    <3>5. which[j] = which[j - 1] + 1 => more[which[j]] = taps[which[j]]
      BY <1>3, <3>4
    <3> QED
      BY <3>1, <3>2, <3>3, <3>5
  <2> QED
    BY <2>1, <2>2
<1> HIDE DEF to, k
<1>7. Counts(to, r, more, t)
  BY <1>1, <1>4, <1>5, <1>6 DEF Counts
<1> QED
  BY <1>4, <1>7 DEF t

LEMMA FollowGrows ==
  ASSUME NEW E, NEW taps \in Seq(E), NEW more \in Seq(E), NEW r, NEW m, Taken(taps, more, r, m),
         NEW cs, NEW count, Follow(cs, r, taps, count), count <= Len(taps)
  PROVE  Follow(cs, r, more, count)
<1>1. cs \in Seq(Call) /\ Len(cs) = count /\ \A i \in 1 .. Len(cs) : Performs(r, taps[i], cs[i])
  BY DEF Follow
<1>2. \A i \in 1 .. Len(taps) : more[i] = taps[i]
  BY DEF Taken
<1>3. \A i \in 1 .. Len(cs) : i \in 1 .. Len(taps)
  BY <1>1
<1>4. \A i \in 1 .. Len(cs) : Performs(r, more[i], cs[i])
  BY <1>1, <1>2, <1>3
<1> QED
  BY <1>1, <1>4 DEF Follow

\* The reader applies the next message: the sink's calls follow one more of
\* the events, if the message carries one.
Applied(m, cs, next) ==
  IF ToCall(m) = {} THEN next = cs ELSE \E call \in ToCall(m) : next = Append(cs, call)

LEMMA FollowApplied ==
  ASSUME NEW E, NEW s \in Seq(SentMsg), NEW r, NEW taps \in Seq(E), NEW which,
         Counts(which, r, taps, s), NEW n \in 0 .. Len(s), n < Len(s),
         NEW cs, Follow(cs, r, taps, which[n]), NEW next, Applied(s[n + 1], cs, next)
  PROVE  Follow(next, r, taps, which[n + 1])
<1> DEFINE m == s[n + 1]
<1>1. n + 1 \in 1 .. Len(s) /\ n + 1 \in 0 .. Len(s) /\ (n + 1) - 1 = n
  OBVIOUS
<1>2. which[n] \in Nat /\ which[n + 1] \in Nat
  BY <1>1 DEF Counts
<1>3. \/ ToCall(m) = {} /\ which[n + 1] = which[n]
      \/ which[n + 1] = which[n] + 1 /\ CarriesInput(r, taps[which[n + 1]], m)
  BY <1>1 DEF Counts
<1>4. cs \in Seq(Call) /\ Len(cs) = which[n] /\ \A i \in 1 .. Len(cs) : Performs(r, taps[i], cs[i])
  BY DEF Follow
<1> HIDE DEF m
<1>5. CASE ToCall(m) = {}
  <2>1. which[n + 1] = which[n]
    BY <1>3, <1>5 DEF CarriesInput
  <2>2. next = cs
    BY <1>5 DEF Applied, m
  <2> QED
    BY <2>1, <2>2
<1>6. CASE ToCall(m) # {}
  <2>1. which[n + 1] = which[n] + 1 /\ CarriesInput(r, taps[which[n + 1]], m)
    BY <1>3, <1>6
  <2>2. PICK call \in ToCall(m) : next = Append(cs, call)
    BY <1>6 DEF Applied, m
  <2>3. Performs(r, taps[which[n + 1]], call) /\ call \in Call
    BY <2>1 DEF CarriesInput, Performs
  <2>4. /\ next \in Seq(Call) /\ Len(next) = Len(cs) + 1 /\ next[Len(cs) + 1] = call
        /\ \A i \in 1 .. Len(cs) : next[i] = cs[i]
    BY <1>4, <2>2, <2>3
  <2>5. ASSUME NEW i \in 1 .. Len(next) PROVE Performs(r, taps[i], next[i])
    <3>1. CASE i = Len(cs) + 1
      BY <1>4, <2>1, <2>3, <2>4, <3>1
    <3>2. CASE i # Len(cs) + 1
      <4>1. i \in 1 .. Len(cs)
        BY <1>2, <1>4, <2>4, <3>2
      <4> QED
        BY <1>4, <2>4, <4>1
    <3> QED
      BY <3>1, <3>2
  <2> QED
    BY <1>4, <2>1, <2>4, <2>5 DEF Follow
<1> QED
  BY <1>5, <1>6

-----------------------------------------------------------------------------
(* The invariant of the stream *)

StreamTypes ==
  /\ dir \in DOMAIN SessionKind /\ remap \in Remaps
  /\ opening \in {SubSeq(Pair(dir), i, 4) : i \in 1 .. 5} \cup {NoPair(dir)}
  /\ tapped \in Seq(Mice \cup Presses) /\ sent \in Seq(SentMsg) /\ got \in Seq(SentMsg)
  /\ fin \in BOOLEAN /\ cut \in BOOLEAN
  /\ conn \in {"handshake", "split", "over"} /\ why \in {"none", "Disconnected"}

\* The first Len(got) messages have been decoded ...
GotFirst == Len(got) <= Len(sent) /\ \A i \in 1 .. Len(got) : got[i] = sent[i]

\* ... what is in the buffer and in the stream follows their frames ...
RestHeld ==
  \E full, at : Frames(full, at, sent) /\ Holds(full, at[Len(got)], buf, wire, ~cut)

\* ... the calls on the sink are those that they carry ...
CallsCounted ==
  \E which : Counts(which, remap, tapped, sent) /\ Follow(calls, remap, tapped, which[Len(got)])

\* ... and a connection that is over, or broken, has nothing left to read.
EndReached ==
  /\ cut => fin /\ wire = <<>>
  /\ conn = "over" => fin /\ wire = <<>> /\ (~cut => got = sent)
  /\ conn # "over" => why = "none"

StreamInv == StreamTypes /\ GotFirst /\ RestHeld /\ CallsCounted /\ EndReached

\* The kinds that no event of the user becomes.
OtherKind ==
  {"Hello", "HelloAck", "PairSpakeA", "PairSpakeB", "PairCertExchange", "PairAccepted",
   "ClipboardText", "TakeControl", "ReleaseControl", "Heartbeat", "EchoPing", "EchoPong"}

LEMMA NoCall ==
  ASSUME NEW m, m.kind \in OtherKind
  PROVE  ToCall(m) = {}
  BY DEF OtherKind, ToCall

LEMMA OpeningKinds ==
  ASSUME NEW d \in DOMAIN SessionKind, NEW o \in {SubSeq(Pair(d), i, 4) : i \in 1 .. 5} \cup {NoPair(d)}
  PROVE  /\ Tail(o) \in {SubSeq(Pair(d), i, 4) : i \in 1 .. 5} \cup {NoPair(d)} \/ o = <<>>
         /\ o # <<>> => Head(o).kind \in DOMAIN Samples \cap OtherKind
<1>1. d \in {"toClient", "toServer"}
  BY DEF SessionKind
<1>2. \A i \in 1 .. 4 : Pair(d)[i].kind \in OtherKind
  BY <1>1 DEF Pair, OtherKind
<1>3. \A i \in 1 .. 4 : Pair(d)[i].kind \in DOMAIN Samples
  BY SampleAssumption DEF SampleAssumption
<1>4. Pair(d) \in Seq({Pair(d)[i] : i \in 1 .. 4}) /\ Len(Pair(d)) = 4
  <2>1. PICK p1, p2, p3, p4 : Pair(d) = <<p1, p2, p3, p4>>
    BY DEF Pair
  <2>2. <<p1, p2, p3, p4>> \in Seq({p1, p2, p3, p4})
    OBVIOUS
  <2>3. p1 = Pair(d)[1] /\ p2 = Pair(d)[2] /\ p3 = Pair(d)[3] /\ p4 = Pair(d)[4]
        /\ Len(Pair(d)) = 4
    BY <2>1
  <2>4. {p1, p2, p3, p4} \subseteq {Pair(d)[i] : i \in 1 .. 4}
    BY <2>3
  <2>5. \A S, T, x : S \subseteq T /\ x \in Seq(S) => x \in Seq(T)
    OBVIOUS
  <2> QED
    BY <2>1, <2>2, <2>3, <2>4, <2>5
<1>5. NoPair(d) \in Seq({NoPair(d)[1]}) /\ Len(NoPair(d)) = 1 /\ NoPair(d)[1].kind = Pair(d)[4].kind
  BY <1>1 DEF NoPair, Pair
<1> DEFINE p == Pair(d)
           T == {p[i] : i \in 1 .. 4}
<1>6. p \in Seq(T) /\ Len(p) = 4
  BY <1>4
<1>7. CASE o = NoPair(d)
  <2>0. PICK x : NoPair(d) = <<x>>
    BY DEF NoPair
  <2>1. Tail(o) = <<>> /\ Head(o) = NoPair(d)[1]
    BY <1>7, <2>0
  <2> HIDE DEF p
  <2>2. SubSeq(p, 5, 4) = <<>>
    BY <1>6
  <2>3. Tail(o) \in {SubSeq(p, i, 4) : i \in 1 .. 5}
    BY <2>1, <2>2
  <2>4. Head(o).kind \in DOMAIN Samples \cap OtherKind
    BY <1>2, <1>3, <1>5, <2>1
  <2> QED
    BY <2>3, <2>4 DEF p
<1>8. ASSUME NEW i \in 1 .. 5, o = SubSeq(Pair(d), i, 4)
      PROVE  /\ Tail(o) \in {SubSeq(Pair(d), j, 4) : j \in 1 .. 5} \/ o = <<>>
             /\ o # <<>> => Head(o).kind \in DOMAIN Samples \cap OtherKind
  <2>1. o = SubSeq(p, i, 4)
    BY <1>8
  <2> HIDE DEF p
  <2>2. CASE i = 5
    BY <1>6, <2>1, <2>2
  <2>3. CASE i \in 1 .. 4
    <3>1. Len(o) = 5 - i /\ o # <<>> /\ Head(o) = p[i] /\ \A j \in 1 .. 5 - i : o[j] = p[i + j - 1]
      BY SMTT(30), <1>6, <2>1, <2>3
    <3>2. Tail(o) = SubSeq(p, i + 1, 4)
      BY <1>6, <2>1, <2>3
    <3>3. i + 1 \in 1 .. 5
      BY <2>3
    <3>4. Tail(o) \in {SubSeq(p, j, 4) : j \in 1 .. 5}
      BY <3>2, <3>3
    <3>5. Head(o).kind \in DOMAIN Samples \cap OtherKind
      BY <1>2, <1>3, <2>3, <3>1 DEF p
    <3> QED
      BY <3>4, <3>5 DEF p
  <2>4. i = 5 \/ i \in 1 .. 4
    OBVIOUS
  <2> QED
    BY <2>2, <2>3, <2>4 DEF p
<1> QED
  BY <1>7, <1>8

LEMMA SessionKinds ==
  ASSUME NEW d \in DOMAIN SessionKind, NEW k \in SessionKind[d]
  PROVE  k \in DOMAIN Samples \cap OtherKind
<1>1. k \in DOMAIN Samples
  BY SampleAssumption DEF SampleAssumption
<1>2. k \in OtherKind
  BY DEF SessionKind, OtherKind
<1> QED
  BY <1>1, <1>2

LEMMA SampleIsSent ==
  ASSUME NEW k \in DOMAIN Samples \cap OtherKind, NEW f \in Samples[k]
  PROVE  Message(k, f) \in SentMsg /\ ToCall(Message(k, f)) = {}
<1>1. Message(k, f) \in SampleMsg
  BY DEF SampleMsg
<1>2. Message(k, f).kind = k
  BY DEF Message
<1> QED
  BY <1>1, <1>2, NoCall DEF SentMsg

LEMMA InputIsSent ==
  ASSUME NEW r \in Remaps, NEW ev \in Mice \cup Presses, NEW taps \in Seq(Mice \cup Presses)
  PROVE  ToMessage(r, ev) \in SentMsg /\ Taken(taps, Append(taps, ev), r, ToMessage(r, ev))
<1>1. ToMessage(r, ev) \in InputMsg
  BY DEF InputMsg
<1>2. CarriesInput(r, ev, ToMessage(r, ev))
  BY EventsAreCarried
<1>3. Append(taps, ev)[Len(taps) + 1] = ev /\ Len(Append(taps, ev)) = Len(taps) + 1
      /\ \A i \in 1 .. Len(taps) : Append(taps, ev)[i] = taps[i]
  OBVIOUS
<1> QED
  BY <1>1, <1>2, <1>3 DEF SentMsg, Taken

LEMMA InvUse ==
  ASSUME StreamInv
  PROVE  /\ StreamTypes /\ GotFirst /\ EndReached /\ RestHeld /\ CallsCounted
         /\ sent \in Seq(SentMsg) /\ got \in Seq(SentMsg) /\ Len(got) \in 0 .. Len(sent)
         /\ cut \in BOOLEAN /\ (~fin => ~cut /\ conn # "over")
  BY DEF StreamInv, StreamTypes, GotFirst, EndReached

LEMMA InvInit == Init => StreamInv
<1> SUFFICES ASSUME Init PROVE StreamInv
  OBVIOUS
<1>1. /\ sent = <<>> /\ tapped = <<>> /\ wire = <<>> /\ buf = <<>> /\ got = <<>> /\ calls = <<>>
      /\ fin = FALSE /\ cut = FALSE /\ conn = "handshake" /\ why = "none"
      /\ dir \in {"toClient", "toServer"} /\ remap \in Remaps /\ opening \in {Pair(dir), NoPair(dir)}
  BY DEF Init
<1>2. opening \in {SubSeq(Pair(dir), i, 4) : i \in 1 .. 5} \cup {NoPair(dir)}
  <2>1. PICK p1, p2, p3, p4 : Pair(dir) = <<p1, p2, p3, p4>>
    BY DEF Pair
  <2>2. <<p1, p2, p3, p4>> = SubSeq(<<p1, p2, p3, p4>>, 1, 4)
    OBVIOUS
  <2>3. Pair(dir) = SubSeq(Pair(dir), 1, 4)
    BY <2>1, <2>2
  <2>4. Pair(dir) \in {SubSeq(Pair(dir), i, 4) : i \in 1 .. 5}
    BY <2>3
  <2> QED
    BY <1>1, <2>4
<1>3. StreamTypes
  <2>1. DOMAIN SessionKind = {"toClient", "toServer"}
    BY DEF SessionKind
  <2>2. \A S : <<>> \in Seq(S)
    OBVIOUS
  <2> QED
    BY <1>1, <1>2, <2>1, <2>2 DEF StreamTypes
<1>4. GotFirst
  BY <1>1 DEF GotFirst
<1>5. EndReached
  BY <1>1 DEF EndReached
<1> DEFINE zero == [i \in 0 .. 0 |-> 0]
<1>6. Len(<<>>) = 0 /\ zero[0] = 0 /\ zero \in [0 .. 0 -> Nat] /\ <<>> \in Seq(Octet) /\ <<>> \in Seq(Call)
      /\ \A i \in 0 .. 0 : zero[i] <= 0
  OBVIOUS
<1> HIDE DEF zero
<1>7. RestHeld
  <2>1. Frames(<<>>, zero, <<>>)
    BY <1>6 DEF Frames
  <2>2. Holds(<<>>, zero[0], <<>>, <<>>, TRUE)
    BY <1>6 DEF Holds, At
  <2>3. Frames(<<>>, zero, sent) /\ Holds(<<>>, zero[Len(got)], buf, wire, ~cut)
    BY <1>1, <1>6, <2>1, <2>2
  <2> QED
    BY <2>3 DEF RestHeld
<1>8. CallsCounted
  <2>1. Counts(zero, remap, <<>>, <<>>)
    BY <1>6 DEF Counts
  <2>2. Follow(<<>>, remap, <<>>, 0)
    BY <1>6 DEF Follow
  <2>3. Counts(zero, remap, tapped, sent) /\ Follow(calls, remap, tapped, zero[Len(got)])
    BY <1>1, <1>6, <2>1, <2>2
  <2> QED
    BY <2>3 DEF CallsCounted
<1> QED
  BY <1>3, <1>4, <1>5, <1>7, <1>8 DEF StreamInv

\* A message goes out, with the event that it carries if it does.
LEMMA WriteKeeps ==
  ASSUME StreamInv, NEW m \in SentMsg, Write(m), Taken(tapped, tapped', remap, m),
         tapped' \in Seq(Mice \cup Presses),
         opening' \in {SubSeq(Pair(dir), i, 4) : i \in 1 .. 5} \cup {NoPair(dir)}
  PROVE  StreamInv'
<1> DEFINE e == Encode(m)
           n == Len(got)
<1>1. /\ ~fin /\ sent' = Append(sent, m) /\ wire' = wire \o e /\ dir' = dir /\ remap' = remap
      /\ fin' = fin /\ cut' = cut /\ conn' = conn /\ buf' = buf /\ got' = got /\ calls' = calls
      /\ why' = why
  BY DEF Write, readVars
<1>2. /\ StreamTypes /\ GotFirst /\ EndReached /\ RestHeld /\ CallsCounted
      /\ sent \in Seq(SentMsg) /\ n \in 0 .. Len(sent) /\ ~cut /\ conn # "over"
  BY <1>1, InvUse
<1>3. StreamTypes'
  BY <1>1, <1>2 DEF StreamTypes
<1>4. GotFirst'
  <2>1. Len(got) <= Len(sent') /\ \A i \in 1 .. Len(got) : got[i] = sent'[i]
    BY <1>1, <1>2 DEF GotFirst
  <2> QED
    BY <1>1, <2>1 DEF GotFirst
<1>5. EndReached'
  BY <1>1, <1>2 DEF EndReached
<1>6. RestHeld'
  <2>1. PICK full, at : Frames(full, at, sent) /\ Holds(full, at[n], buf, wire, ~cut)
    BY <1>2 DEF RestHeld
  <2>2. full \in Seq(Octet) /\ at[n] \in Nat /\ e \in Seq(Octet)
    BY <1>2, <2>1, PlaceType, FrameType
  <2>3. PICK more : Frames(full \o e, more, Append(sent, m)) /\ more[n] = at[n]
    BY <1>2, <2>1, FramesGrow
  <2>4. Holds(full, at[n], buf, wire, TRUE)
    BY <1>2, <2>1
  <2>5. Holds(full \o e, at[n], buf, wire \o e, TRUE)
    BY <2>2, <2>4, HoldsGrow
  <2> HIDE DEF e
  <2>6. Frames(full \o e, more, sent') /\ Holds(full \o e, more[Len(got')], buf', wire', ~cut')
    BY <1>1, <1>2, <2>3, <2>5
  <2> QED
    BY <2>6 DEF RestHeld
<1>7. CallsCounted'
  <2>1. PICK which : Counts(which, remap, tapped, sent) /\ Follow(calls, remap, tapped, which[n])
    BY <1>2 DEF CallsCounted
  <2>2. tapped \in Seq(Mice \cup Presses) /\ which[n] <= Len(tapped)
    BY <1>2, <2>1 DEF StreamTypes, Counts
  <2>3. PICK to : Counts(to, remap, tapped', Append(sent, m)) /\ to[n] = which[n]
    BY <1>2, <2>1, <2>2, CountsGrow
  <2>4. Follow(calls, remap, tapped', which[n])
    BY <2>1, <2>2, FollowGrows
  <2>5. Counts(to, remap', tapped', sent') /\ Follow(calls', remap', tapped', to[Len(got')])
    BY <1>1, <2>3, <2>4
  <2> QED
    BY <2>5 DEF CallsCounted
<1> QED
  BY <1>3, <1>4, <1>5, <1>6, <1>7 DEF StreamInv

LEMMA WriteOpeningKeeps ==
  ASSUME StreamInv, WriteOpening
  PROVE  StreamInv'
<1>1. /\ dir \in DOMAIN SessionKind /\ tapped \in Seq(Mice \cup Presses)
      /\ opening \in {SubSeq(Pair(dir), i, 4) : i \in 1 .. 5} \cup {NoPair(dir)}
  BY DEF StreamInv, StreamTypes
<1>2. opening # <<>> /\ opening' = Tail(opening) /\ tapped' = tapped
  BY DEF WriteOpening
<1> DEFINE k == Head(opening).kind
<1>3. k \in DOMAIN Samples \cap OtherKind
      /\ opening' \in {SubSeq(Pair(dir), i, 4) : i \in 1 .. 5} \cup {NoPair(dir)}
  BY <1>1, <1>2, OpeningKinds
<1>4. PICK f \in Samples[k] : Write(Message(k, f))
  BY DEF WriteOpening
<1> HIDE DEF k
<1>5. Message(k, f) \in SentMsg /\ ToCall(Message(k, f)) = {}
  BY <1>3, SampleIsSent
<1>6. Taken(tapped, tapped', remap, Message(k, f)) /\ tapped' \in Seq(Mice \cup Presses)
  BY <1>1, <1>2, <1>5 DEF Taken
<1> QED
  BY <1>3, <1>4, <1>5, <1>6, WriteKeeps

LEMMA WriteOtherKeeps ==
  ASSUME StreamInv, WriteOther
  PROVE  StreamInv'
<1>1. /\ dir \in DOMAIN SessionKind /\ tapped \in Seq(Mice \cup Presses)
      /\ opening \in {SubSeq(Pair(dir), i, 4) : i \in 1 .. 5} \cup {NoPair(dir)}
  BY DEF StreamInv, StreamTypes
<1>2. opening' = opening /\ tapped' = tapped
  BY DEF WriteOther
<1>3. PICK k \in SessionKind[dir] : \E f \in Samples[k] : Write(Message(k, f))
  BY DEF WriteOther
<1>4. PICK f \in Samples[k] : Write(Message(k, f))
  BY <1>3
<1>5. Message(k, f) \in SentMsg /\ ToCall(Message(k, f)) = {}
  BY <1>1, SessionKinds, SampleIsSent
<1>6. Taken(tapped, tapped', remap, Message(k, f)) /\ tapped' \in Seq(Mice \cup Presses)
  BY <1>1, <1>2, <1>5 DEF Taken
<1> QED
  BY <1>1, <1>2, <1>4, <1>5, <1>6, WriteKeeps

LEMMA WriteInputKeeps ==
  ASSUME StreamInv, WriteInput
  PROVE  StreamInv'
<1>1. /\ remap \in Remaps /\ tapped \in Seq(Mice \cup Presses)
      /\ opening \in {SubSeq(Pair(dir), i, 4) : i \in 1 .. 5} \cup {NoPair(dir)}
  BY DEF StreamInv, StreamTypes
<1>2. opening' = opening
  BY DEF WriteInput
<1>3. PICK ev \in Mice \cup Presses : Write(ToMessage(remap, ev)) /\ tapped' = Append(tapped, ev)
  BY DEF WriteInput
<1> DEFINE m == ToMessage(remap, ev)
<1>4. m \in SentMsg /\ Taken(tapped, Append(tapped, ev), remap, m)
  BY <1>1, InputIsSent
<1>5. Write(m)
  BY <1>3
<1> HIDE DEF m
<1>6. Append(tapped, ev) \in Seq(Mice \cup Presses)
  BY <1>1
<1>7. Taken(tapped, tapped', remap, m) /\ tapped' \in Seq(Mice \cup Presses)
  BY <1>3, <1>4, <1>6
<1> QED
  BY <1>1, <1>2, <1>4, <1>5, <1>7, WriteKeeps

LEMMA CloseKeeps ==
  ASSUME StreamInv, Close
  PROVE  StreamInv'
<1>1. /\ ~fin /\ fin' = TRUE /\ dir' = dir /\ remap' = remap /\ opening' = opening
      /\ tapped' = tapped /\ sent' = sent /\ wire' = wire /\ cut' = cut /\ conn' = conn
      /\ buf' = buf /\ got' = got /\ calls' = calls /\ why' = why
  BY DEF Close, readVars
<1>2. StreamTypes' /\ GotFirst' /\ EndReached'
  BY <1>1 DEF StreamInv, StreamTypes, GotFirst, EndReached
<1>3. RestHeld' /\ CallsCounted'
  BY <1>1 DEF StreamInv, RestHeld, CallsCounted
<1> QED
  BY <1>2, <1>3 DEF StreamInv

LEMMA BreakKeeps ==
  ASSUME StreamInv, Break
  PROVE  StreamInv'
<1>1. /\ cut' = TRUE /\ fin' = TRUE /\ wire' = <<>> /\ dir' = dir /\ remap' = remap
      /\ opening' = opening /\ tapped' = tapped /\ sent' = sent /\ conn' = conn
      /\ buf' = buf /\ got' = got /\ calls' = calls /\ why' = why
  BY DEF Break, readVars
<1>2. StreamTypes' /\ GotFirst' /\ EndReached'
  BY <1>1 DEF StreamInv, StreamTypes, GotFirst, EndReached
<1>3. CallsCounted'
  BY <1>1 DEF StreamInv, CallsCounted
<1>4. RestHeld'
  <2>1. PICK full, at : Frames(full, at, sent) /\ Holds(full, at[Len(got)], buf, wire, ~cut)
    BY DEF StreamInv, RestHeld
  <2>2. full \in Seq(Octet) /\ at[Len(got)] \in Nat
    BY <2>1, InvUse, PlaceType
  <2>3. Holds(full, at[Len(got)], buf, <<>>, FALSE)
    BY <2>1, <2>2, HoldsCut
  <2>4. Frames(full, at, sent') /\ Holds(full, at[Len(got')], buf', wire', ~cut')
    BY <1>1, <2>1, <2>3
  <2> QED
    BY <2>4 DEF RestHeld
<1> QED
  BY <1>2, <1>3, <1>4 DEF StreamInv

\* The frame that the buffer holds is the next that was written.
LEMMA DecodeKeeps ==
  ASSUME StreamInv, DecodeFrame
  PROVE  StreamInv'
<1> DEFINE n == Len(got)
           m == Decode(buf)
<1>1. /\ conn # "over" /\ HasFrame(buf) /\ dir' = dir /\ remap' = remap /\ opening' = opening
      /\ tapped' = tapped /\ sent' = sent /\ wire' = wire /\ fin' = fin /\ cut' = cut
  BY DEF DecodeFrame, Reading
<1>2. /\ StreamTypes /\ GotFirst /\ EndReached /\ RestHeld /\ CallsCounted
      /\ sent \in Seq(SentMsg) /\ got \in Seq(SentMsg) /\ n \in 0 .. Len(sent)
  BY InvUse
<1>3. PICK full, at : Frames(full, at, sent) /\ Holds(full, at[n], buf, wire, ~cut)
  BY <1>2 DEF RestHeld
<1>4. /\ n + 1 \in 0 .. Len(sent) /\ m = sent[n + 1] /\ m # Bad
      /\ Holds(full, at[n + 1], SubSeq(buf, FrameLen(buf) + 1, Len(buf)), wire, ~cut)
  <2>1. sent \in Seq(SentMsg) /\ n \in 0 .. Len(sent) /\ HasFrame(buf)
    BY <1>1, <1>2
  <2>2. Frames(full, at, sent) /\ Holds(full, at[n], buf, wire, ~cut)
    BY <1>3
  <2>3. NextDecoded(full, at, sent, n, buf, wire, ~cut)
    BY <2>1, <2>2, HoldsDecode
  <2> QED
    BY <2>3 DEF NextDecoded
<1>5. /\ buf' = SubSeq(buf, FrameLen(buf) + 1, Len(buf)) /\ got' = Append(got, m)
      /\ Apply(m) /\ conn' = conn /\ why' = why
  BY <1>4 DEF DecodeFrame
<1>6. Applied(m, calls, calls')
  BY <1>5 DEF Apply, Applied
<1> HIDE DEF m
<1>7. n \in Nat /\ n < Len(sent) /\ m \in SentMsg
  <2>1. n \in Nat /\ n + 1 <= Len(sent) /\ Len(sent) \in Nat
    BY <1>2, <1>4
  <2>2. n + 1 \in 1 .. Len(sent)
    BY <2>1
  <2>3. sent[n + 1] \in SentMsg
    BY <1>2, <2>2
  <2> QED
    BY <1>4, <2>1, <2>3
<1>8. Len(got') = n + 1 /\ got' \in Seq(SentMsg) /\ got'[n + 1] = m
      /\ \A i \in 1 .. n : got'[i] = got[i]
  BY <1>2, <1>5, <1>7
<1>9. StreamTypes'
  BY <1>1, <1>2, <1>5, <1>8 DEF StreamTypes
<1>10. GotFirst'
  <2>1. n + 1 <= Len(sent)
    BY <1>2, <1>7
  <2>2. ASSUME NEW i \in 1 .. n + 1 PROVE got'[i] = sent[i]
    <3>1. CASE i = n + 1
      BY <1>4, <1>8, <3>1
    <3>2. CASE i # n + 1
      <4>1. i \in 1 .. n
        BY <1>7, <3>2
      <4> QED
        BY <1>2, <1>8, <4>1 DEF GotFirst
    <3> QED
      BY <3>1, <3>2
  <2> QED
    BY <1>1, <1>8, <2>1, <2>2 DEF GotFirst
<1>11. EndReached'
  BY <1>1, <1>2, <1>5 DEF EndReached
<1>12. RestHeld'
  <2>1. Frames(full, at, sent') /\ Holds(full, at[Len(got')], buf', wire', ~cut')
    BY <1>1, <1>3, <1>4, <1>5, <1>8
  <2> QED
    BY <2>1 DEF RestHeld
<1>13. CallsCounted'
  <2>1. PICK which : Counts(which, remap, tapped, sent) /\ Follow(calls, remap, tapped, which[n])
    BY <1>2 DEF CallsCounted
  <2>2. tapped \in Seq(Mice \cup Presses) /\ Applied(sent[n + 1], calls, calls')
    BY <1>2, <1>4, <1>6 DEF StreamTypes
  <2>3. Follow(calls', remap, tapped, which[n + 1])
    BY <1>2, <1>7, <2>1, <2>2, FollowApplied
  <2>4. Counts(which, remap', tapped', sent') /\ Follow(calls', remap', tapped', which[Len(got')])
    BY <1>1, <1>8, <2>1, <2>3
  <2> QED
    BY <2>4 DEF CallsCounted
<1> QED
  BY <1>9, <1>10, <1>11, <1>12, <1>13 DEF StreamInv

LEMMA ReadKeeps ==
  ASSUME StreamInv, ReadBytes
  PROVE  StreamInv'
<1>1. /\ conn # "over" /\ dir' = dir /\ remap' = remap /\ opening' = opening
      /\ tapped' = tapped /\ sent' = sent /\ fin' = fin /\ cut' = cut /\ conn' = conn
      /\ got' = got /\ calls' = calls /\ why' = why
  BY DEF ReadBytes, Reading
<1>2. PICK n \in 1 .. Len(wire) : /\ buf' = buf \o SubSeq(wire, 1, n)
                                  /\ wire' = SubSeq(wire, n + 1, Len(wire))
  BY DEF ReadBytes
<1>3. StreamTypes' /\ GotFirst'
  BY <1>1 DEF StreamInv, StreamTypes, GotFirst
<1>4. EndReached'
  <2>1. wire # <<>>
    BY <1>2
  <2>2. ~cut /\ why = "none"
    BY <1>1, <2>1 DEF StreamInv, EndReached
  <2> QED
    BY <1>1, <2>2 DEF EndReached
<1>5. CallsCounted'
  BY <1>1 DEF StreamInv, CallsCounted
<1>6. RestHeld'
  <2>1. PICK full, at : Frames(full, at, sent) /\ Holds(full, at[Len(got)], buf, wire, ~cut)
    BY DEF StreamInv, RestHeld
  <2>2. full \in Seq(Octet) /\ at[Len(got)] \in Nat
    BY <2>1, InvUse, PlaceType
  <2>3. Holds(full, at[Len(got)], buf \o SubSeq(wire, 1, n), SubSeq(wire, n + 1, Len(wire)), ~cut)
    BY <2>1, <2>2, HoldsRead
  <2>4. Frames(full, at, sent') /\ Holds(full, at[Len(got')], buf', wire', ~cut')
    BY <1>1, <1>2, <2>1, <2>3
  <2> QED
    BY <2>4 DEF RestHeld
<1> QED
  BY <1>3, <1>4, <1>5, <1>6 DEF StreamInv

\* When the stream is whole and all of it was read, all of it was decoded.
LEMMA AllDecoded ==
  ASSUME StreamInv, wire = <<>>, ~cut, ~HasFrame(buf)
  PROVE  got = sent
<1>1. PICK full, at : Frames(full, at, sent) /\ Holds(full, at[Len(got)], buf, wire, ~cut)
  BY DEF StreamInv, RestHeld
<1>2. Holds(full, at[Len(got)], buf, <<>>, TRUE)
  BY <1>1
<1>3. Len(got) = Len(sent)
  BY <1>1, <1>2, InvUse, NothingLeft
<1>4. sent \in Seq(SentMsg) /\ got \in Seq(SentMsg) /\ \A i \in 1 .. Len(got) : got[i] = sent[i]
  BY InvUse DEF GotFirst
<1> QED
  BY <1>3, <1>4

LEMMA EofKeeps ==
  ASSUME StreamInv, ReadEof
  PROVE  StreamInv'
<1>1. /\ wire = <<>> /\ fin /\ ~HasFrame(buf) /\ conn' = "over" /\ why' = "Disconnected"
      /\ dir' = dir /\ remap' = remap /\ opening' = opening
      /\ tapped' = tapped /\ sent' = sent /\ wire' = wire /\ fin' = fin /\ cut' = cut
      /\ buf' = buf /\ got' = got /\ calls' = calls
  BY DEF ReadEof
<1>2. StreamTypes' /\ GotFirst'
  BY <1>1 DEF StreamInv, StreamTypes, GotFirst
<1>3. ~cut => got = sent
  BY <1>1, AllDecoded
<1>4. EndReached'
  BY <1>1, <1>3 DEF EndReached
<1>5. RestHeld' /\ CallsCounted'
  BY <1>1 DEF StreamInv, RestHeld, CallsCounted
<1> QED
  BY <1>2, <1>4, <1>5 DEF StreamInv

LEMMA SplitKeeps ==
  ASSUME StreamInv, Split
  PROVE  StreamInv'
<1>1. /\ conn = "handshake" /\ conn' = "split" /\ why' = why
      /\ dir' = dir /\ remap' = remap /\ opening' = opening
      /\ tapped' = tapped /\ sent' = sent /\ wire' = wire /\ fin' = fin /\ cut' = cut
      /\ buf' = buf /\ got' = got /\ calls' = calls
  BY DEF Split
<1>2. StreamTypes' /\ GotFirst' /\ EndReached'
  BY <1>1 DEF StreamInv, StreamTypes, GotFirst, EndReached
<1>3. RestHeld' /\ CallsCounted'
  BY <1>1 DEF StreamInv, RestHeld, CallsCounted
<1> QED
  BY <1>2, <1>3 DEF StreamInv

LEMMA StillKeeps ==
  ASSUME StreamInv, UNCHANGED vars
  PROVE  StreamInv'
<1>1. /\ conn' = conn /\ why' = why /\ dir' = dir /\ remap' = remap /\ opening' = opening
      /\ tapped' = tapped /\ sent' = sent /\ wire' = wire /\ fin' = fin /\ cut' = cut
      /\ buf' = buf /\ got' = got /\ calls' = calls
  BY DEF vars
<1>2. StreamTypes' /\ GotFirst' /\ EndReached'
  BY <1>1 DEF StreamInv, StreamTypes, GotFirst, EndReached
<1>3. RestHeld' /\ CallsCounted'
  BY <1>1 DEF StreamInv, RestHeld, CallsCounted
<1> QED
  BY <1>2, <1>3 DEF StreamInv

\* In every behaviour the stream holds the frames of the messages behind
\* those that were decoded, whole unless the connection broke, and the calls
\* on the sink are those of the events that the decoded messages carry.
THEOREM StreamHolds == Spec => []StreamInv
<1>1. StreamInv /\ [Next]_vars => StreamInv'
  BY WriteOpeningKeeps, WriteOtherKeeps, WriteInputKeeps, CloseKeeps, BreakKeeps, DecodeKeeps,
     ReadKeeps, EofKeeps, SplitKeeps, StillKeeps DEF Next
<1> QED
  BY InvInit, <1>1, PTL DEF Spec

-----------------------------------------------------------------------------
(* What the runs check *)

LEMMA TypesFollow == StreamInv => TypeOK
<1> SUFFICES ASSUME StreamInv PROVE TypeOK
  OBVIOUS
<1>1. StreamTypes
  BY InvUse
<1>2. (\A i \in DOMAIN sent : WellFormed(sent[i])) /\ \A i \in DOMAIN got : WellFormed(got[i])
  BY <1>1, SentIsSendable DEF StreamTypes, Sendable
<1>3. wire \in Seq(Byte \cup Range(Code)) /\ buf \in Seq(Byte \cup Range(Code))
  BY DEF StreamInv, RestHeld, Holds, Octet
<1>4. calls \in Seq(Call)
  BY DEF StreamInv, CallsCounted, Follow
<1> QED
  BY <1>1, <1>2, <1>3, <1>4 DEF TypeOK, StreamTypes

\* Every variable keeps its type: whatever is sent fits the fields it is
\* written to, and whatever is decoded the fields it is read into.
THEOREM TypesCorrect == Spec => []TypeOK
  BY StreamHolds, TypesFollow, PTL

\* However the stream is cut into reads and wherever it breaks, on whichever
\* side of into_split a frame's bytes arrive, the reader decodes the frames
\* that were written, whole, once and in order, and meets no violation of the
\* protocol.
THEOREM FramesArriveWhole == Spec => []FramesIntact
<1>1. StreamInv => FramesIntact
  <2> SUFFICES ASSUME StreamInv PROVE FramesIntact
    OBVIOUS
  <2>1. why # "Wire" /\ sent \in Seq(SentMsg) /\ got \in Seq(SentMsg) /\ Len(got) \in 0 .. Len(sent)
    BY InvUse DEF StreamTypes
  <2>2. \A i \in 1 .. Len(got) : got[i] = sent[i]
    BY InvUse DEF GotFirst
  <2>3. SubSeq(got, 1, Len(got)) = SubSeq(sent, 1, Len(got)) /\ Len(got) <= Len(sent)
    BY <2>1, <2>2
  <2> QED
    BY <2>1, <2>3 DEF FramesIntact, IsPrefix
<1> QED
  BY StreamHolds, <1>1, PTL

LEMMA CallsFollow ==
  ASSUME StreamInv
  PROVE  calls \in Seq(Call) /\ Len(calls) <= Len(tapped)
         /\ \A i \in DOMAIN calls : Performs(remap, tapped[i], calls[i])
<1>1. PICK which : /\ Counts(which, remap, tapped, sent)
                   /\ Follow(calls, remap, tapped, which[Len(got)])
  BY DEF StreamInv, CallsCounted
<1>2. Len(got) \in 0 .. Len(sent)
  BY InvUse
<1>3. which[Len(got)] <= Len(tapped)
  BY <1>1, <1>2 DEF Counts
<1>4. /\ calls \in Seq(Call) /\ Len(calls) = which[Len(got)]
      /\ \A i \in 1 .. Len(calls) : Performs(remap, tapped[i], calls[i])
  BY <1>1 DEF Follow
<1> QED
  BY <1>3, <1>4

\* The n-th call on the client's sink is the n-th forwarded event of the
\* Mac's tap: its deltas clamped to an i16, its modifier remapped, all else
\* as it was.
THEOREM InputArrives == Spec => []InputIntact
<1>1. StreamInv => InputIntact
  BY CallsFollow DEF InputIntact, Performs
<1> QED
  BY StreamHolds, <1>1, PTL

\* The mask of a key's call shows the modifiers whose remapped keys the
\* client was told to hold: the two layers of the remap agree.
THEOREM ChordsAgree == Spec => []ChordsMatchKeys
<1>1. StreamInv => ChordsMatchKeys
  BY CallsFollow DEF ChordsMatchKeys, Performs
<1> QED
  BY StreamHolds, <1>1, PTL

\* No frame waits for the bytes of a later one: a reader that asks for more,
\* or is told that there is no more, has decoded every frame that was
\* written, unless the connection broke.
THEOREM NothingWaits == Spec => []NothingKeptBack
<1>1. StreamInv => NothingKeptBack
  BY AllDecoded DEF NothingKeptBack, StreamInv, EndReached
<1> QED
  BY StreamHolds, <1>1, PTL

-----------------------------------------------------------------------------
(* The stream is a channel of messages.                                      *)

LEMMA WriteSends ==
  ASSUME StreamInv, NEW m, Write(m)
  PROVE  Channel!Send
<1>1. ~fin /\ sent' = Append(sent, m) /\ got' = got /\ fin' = fin /\ cut' = cut /\ why' = why
  BY DEF Write, readVars
<1>2. sent \in Seq(SentMsg)
  BY InvUse
<1>3. Len(Append(sent, m)) = Len(sent) + 1
      /\ SubSeq(sent, 1, Len(sent)) = SubSeq(Append(sent, m), 1, Len(sent))
  BY <1>2
<1> QED
  BY <1>1, <1>2, <1>3 DEF Channel!Send, Channel!IsPrefix

LEMMA DecodeDelivers ==
  ASSUME StreamInv, DecodeFrame
  PROVE  Channel!Deliver
<1>1. /\ conn # "over" /\ HasFrame(buf) /\ sent' = sent /\ fin' = fin /\ cut' = cut
  BY DEF DecodeFrame, Reading
<1>2. /\ RestHeld /\ sent \in Seq(SentMsg) /\ Len(got) \in 0 .. Len(sent) /\ why = "none"
  BY <1>1, InvUse DEF EndReached
<1>3. PICK full, at : Frames(full, at, sent) /\ Holds(full, at[Len(got)], buf, wire, ~cut)
  BY <1>2 DEF RestHeld
<1>4. NextDecoded(full, at, sent, Len(got), buf, wire, ~cut)
  BY <1>1, <1>2, <1>3, HoldsDecode
<1>5. /\ Len(got) + 1 \in 0 .. Len(sent) /\ Decode(buf) = sent[Len(got) + 1] /\ Decode(buf) # Bad
  BY <1>4 DEF NextDecoded
<1>6. got' = Append(got, sent[Len(got) + 1]) /\ why' = why
  BY <1>5 DEF DecodeFrame
<1>7. Len(got) < Len(sent)
  BY <1>2, <1>5
<1> QED
  BY <1>1, <1>2, <1>6, <1>7 DEF Channel!Deliver

LEMMA EofEnds ==
  ASSUME StreamInv, ReadEof
  PROVE  Channel!End
<1>1. /\ conn # "over" /\ wire = <<>> /\ fin /\ ~HasFrame(buf) /\ why' = "Disconnected"
      /\ sent' = sent /\ got' = got /\ fin' = fin /\ cut' = cut
  BY DEF ReadEof, Reading
<1>2. why = "none" /\ (cut \/ got = sent)
  BY <1>1, AllDecoded, InvUse DEF EndReached
<1> QED
  BY <1>1, <1>2 DEF Channel!End

LEMMA ChannelStep ==
  ASSUME StreamInv, [Next]_vars
  PROVE  [Channel!Next]_(Channel!channel)
<1>1. CASE WriteOpening \/ WriteOther \/ WriteInput
  <2>1. \E m : Write(m)
    BY <1>1 DEF WriteOpening, WriteOther, WriteInput
  <2> QED
    BY <2>1, WriteSends DEF Channel!Next
<1>2. CASE Close
  BY <1>2 DEF Close, readVars, Channel!Next, Channel!Close
<1>3. CASE Break
  BY <1>3 DEF Break, readVars, Channel!Next, Channel!Break
<1>4. CASE DecodeFrame
  BY <1>4, DecodeDelivers DEF Channel!Next
<1>5. CASE ReadBytes
  BY <1>5 DEF ReadBytes, Channel!channel
<1>6. CASE ReadEof
  BY <1>6, EofEnds DEF Channel!Next
<1>7. CASE Split
  BY <1>7 DEF Split, Channel!channel
<1>8. CASE UNCHANGED vars
  BY <1>8 DEF vars, Channel!channel
<1> QED
  BY <1>1, <1>2, <1>3, <1>4, <1>5, <1>6, <1>7, <1>8 DEF Next

\* Bytes, buffer, handshake and split taken together are a channel of
\* messages: each frame decoded delivers the next message that was sent, no
\* other step of either end does, and the reader hears of the end only when
\* it has all of them, or when the connection broke.
THEOREM StreamImplementsChannel == Spec => ImplementsChannel
<1>1. Init => Channel!Init
  BY DEF Init, Channel!Init
<1>2. StreamInv /\ [Next]_vars => [Channel!Next]_(Channel!channel)
  BY ChannelStep
<1> QED
  BY <1>1, <1>2, StreamHolds, PTL DEF Spec, ImplementsChannel, Channel!Spec
=============================================================================
