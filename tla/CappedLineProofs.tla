--------------------------- MODULE CappedLineProofs ---------------------------
(***************************************************************************)
(* Theorems about CappedLine, for every input, every way it is cut into    *)
(* pieces, every bound and every width of usize.                           *)
(***************************************************************************)
EXTENDS CappedLine, SequenceTheorems, TLAPS

(***************************************************************************)
(* The inductive invariant: nothing of the input is lost between `buf` and *)
(* `rest`, and a line that is still being read holds no line feed.         *)
(***************************************************************************)
IInv ==
  /\ TypeOK
  /\ MemoryBounded
  /\ window <= Len(rest)
  /\ begin = buf \o rest
  /\ result = "reading" => \A i \in 1 .. Len(buf) : buf[i] # "lf"
  /\ ReturnsFirstLine

LEMMA LimitType == Limit \in Nat
BY CappedLineAssumption DEF Limit, AtMost

\* The end of a line in the bytes that were there when the call began.
LEMMA FirstLineEnd ==
  ASSUME NEW bytes \in Seq(Byte), NEW k \in 1 .. Len(bytes),
         IsFirstLine(SubSeq(bytes, 1, k), bytes)
  PROVE  bytes[k] = "lf" \/ k = Len(bytes)
<1>1. \A i \in 1 .. k : bytes[i] \in Byte
  BY LenProperties
<1>2. Len(SubSeq(bytes, 1, k)) = k /\ SubSeq(bytes, 1, k)[k] = bytes[k]
  BY <1>1, SubSeqProperties
<1>. QED  BY <1>2 DEF IsFirstLine

\* Two sequences with the same length and the same elements.
LEMMA SameElements ==
  ASSUME NEW S, NEW s \in Seq(S), NEW t \in Seq(S), Len(s) = Len(t),
         \A i \in 1 .. Len(s) : s[i] = t[i]
  PROVE  s = t
BY SeqEqual

\* c is b with the first k elements of r after it.
Grew(b, r, k, c) ==
  /\ c \in Seq(Byte)
  /\ Len(c) = Len(b) + k
  /\ \A i \in 1 .. Len(b) : c[i] = b[i]
  /\ \A i \in 1 .. k : c[Len(b) + i] = r[i]

\* l is r without its first k elements.
Left(r, k, l) ==
  /\ l \in Seq(Byte)
  /\ Len(l) = Len(r) - k
  /\ \A i \in 1 .. (Len(r) - k) : l[i] = r[k + i]

LEMMA Prefix ==
  ASSUME NEW r \in Seq(Byte), NEW k \in 1 .. Len(r), NEW p, p = SubSeq(r, 1, k)
  PROVE  p \in Seq(Byte) /\ Len(p) = k /\ \A i \in 1 .. k : p[i] = r[i]
<1>1. \A i \in 1 .. Len(r) : r[i] \in Byte
  BY LenProperties
<1>. QED  BY <1>1, SubSeqProperties

LEMMA Suffix ==
  ASSUME NEW r \in Seq(Byte), NEW k \in 1 .. Len(r), NEW l, l = SubSeq(r, k + 1, Len(r))
  PROVE  Left(r, k, l)
<1>1. \A i \in 1 .. Len(r) : r[i] \in Byte
  BY LenProperties
<1>. QED  BY <1>1, SubSeqProperties DEF Left

LEMMA Joined ==
  ASSUME NEW s \in Seq(Byte), NEW t \in Seq(Byte), NEW u, u = s \o t
  PROVE  Grew(s, t, Len(t), u)
<1>1. Len(s) \in Nat /\ Len(t) \in Nat
  BY LenProperties
<1>2. /\ u \in Seq(Byte) /\ Len(u) = Len(s) + Len(t)
      /\ \A i \in 1 .. (Len(s) + Len(t)) :
           u[i] = IF i <= Len(s) THEN s[i] ELSE t[i - Len(s)]
  BY ConcatProperties
<1>3. ASSUME NEW i \in 1 .. Len(s) PROVE u[i] = s[i]
  <2>1. i \in 1 .. (Len(s) + Len(t)) /\ i <= Len(s)
    BY <1>1
  <2>. QED  BY <1>2, <2>1
<1>4. ASSUME NEW i \in 1 .. Len(t) PROVE u[Len(s) + i] = t[i]
  <2>1. /\ Len(s) + i \in 1 .. (Len(s) + Len(t)) /\ ~(Len(s) + i <= Len(s))
        /\ (Len(s) + i) - Len(s) = i
    BY <1>1
  <2>2. u[Len(s) + i] = t[(Len(s) + i) - Len(s)]
    BY <1>2, <2>1
  <2>. QED  BY <2>1, <2>2
<1>. QED  BY <1>2, <1>3, <1>4 DEF Grew

LEMMA Consumed ==
  ASSUME NEW b \in Seq(Byte), NEW r \in Seq(Byte), NEW k \in 1 .. Len(r),
         NEW c, c = b \o SubSeq(r, 1, k)
  PROVE  Grew(b, r, k, c)
<1>1. PICK p : p = SubSeq(r, 1, k)
  OBVIOUS
<1>2. p \in Seq(Byte) /\ Len(p) = k /\ \A i \in 1 .. k : p[i] = r[i]
  BY <1>1, Prefix
<1>3. c = b \o p
  BY <1>1
<1>4. Grew(b, p, Len(p), c)
  <2>1. p \in Seq(Byte)
    BY <1>2
  <2>. QED  BY <1>3, <2>1, Joined
<1>. QED  BY <1>2, <1>4 DEF Grew

\* Consumed bytes and what is left are the bytes there were, and the consumed
\* ones are their beginning.
LEMMA Rejoined ==
  ASSUME NEW b \in Seq(Byte), NEW r \in Seq(Byte), NEW k \in 1 .. Len(r),
         NEW c, Grew(b, r, k, c), NEW l, Left(r, k, l),
         NEW w, Grew(b, r, Len(r), w)
  PROVE  /\ w = c \o l
         /\ Len(w) = Len(b) + Len(r)
         /\ c = SubSeq(w, 1, Len(c))
<1>1. PICK d : d = c \o l
  OBVIOUS
<1>2. /\ Len(b) \in Nat /\ Len(r) \in Nat
      /\ c \in Seq(Byte) /\ Len(c) = Len(b) + k
      /\ l \in Seq(Byte) /\ Len(l) = Len(r) - k
  BY LenProperties DEF Grew, Left
<1>3. Grew(c, l, Len(l), d)
  BY <1>1, <1>2, Joined
<1>4. d \in Seq(Byte) /\ w \in Seq(Byte) /\ Len(d) = Len(w) /\ Len(w) = Len(b) + Len(r)
  BY <1>2, <1>3 DEF Grew
<1>5. \A i \in 1 .. Len(c) : c[i] = w[i]
  <2>1. ASSUME NEW i \in 1 .. Len(b) PROVE c[i] = w[i]
    BY DEF Grew
  <2>2. ASSUME NEW i \in 1 .. k PROVE c[Len(b) + i] = w[Len(b) + i]
    <3>1. c[Len(b) + i] = r[i]
      BY DEF Grew
    <3>2. i \in 1 .. Len(r)
      BY <1>2
    <3>3. w[Len(b) + i] = r[i]
      BY <3>2 DEF Grew
    <3>. QED  BY <3>1, <3>3
  <2>3. ASSUME NEW i \in 1 .. Len(c), ~(i \in 1 .. Len(b)) PROVE c[i] = w[i]
    <3>1. i - Len(b) \in 1 .. k /\ Len(b) + (i - Len(b)) = i
      BY <1>2, <2>3
    <3>. QED  BY <2>2, <3>1
  <2>. QED  BY <2>1, <2>3
<1>6. \A i \in 1 .. Len(d) : d[i] = w[i]
  <2>1. ASSUME NEW i \in 1 .. Len(c) PROVE d[i] = w[i]
    BY <1>3, <1>5 DEF Grew
  <2>2. ASSUME NEW i \in 1 .. Len(l) PROVE d[Len(c) + i] = w[Len(c) + i]
    <3>1. d[Len(c) + i] = l[i]
      BY <1>3 DEF Grew
    <3>2. i \in 1 .. (Len(r) - k) /\ k + i \in 1 .. Len(r) /\ Len(b) + (k + i) = Len(c) + i
      BY <1>2
    <3>3. l[i] = r[k + i]
      BY <3>2 DEF Left
    <3>4. w[Len(b) + (k + i)] = r[k + i]
      BY <3>2 DEF Grew
    <3>. QED  BY <3>1, <3>2, <3>3, <3>4
  <2>3. ASSUME NEW i \in 1 .. Len(d), ~(i \in 1 .. Len(c)) PROVE d[i] = w[i]
    <3>1. i - Len(c) \in 1 .. Len(l) /\ Len(c) + (i - Len(c)) = i
      BY <1>2, <1>4, <2>3
    <3>. QED  BY <2>2, <3>1
  <2>. QED  BY <2>1, <2>3
<1>7. w = d
  BY <1>4, <1>6, SameElements
<1>8. c = SubSeq(w, 1, Len(c))
  <2>1. Len(c) \in 1 .. Len(w)
    BY <1>2, <1>4
  <2>2. PICK p : p = SubSeq(w, 1, Len(c))
    OBVIOUS
  <2>3. p \in Seq(Byte) /\ Len(p) = Len(c) /\ \A i \in 1 .. Len(c) : p[i] = w[i]
    BY <1>4, <2>1, <2>2, Prefix
  <2>4. p = c
    BY <1>2, <1>5, <2>3, SameElements
  <2>. QED  BY <2>2, <2>4
<1>. QED  BY <1>1, <1>4, <1>7, <1>8, Zenon

\* No byte of the piece before the last one taken is a line feed.
LEMMA TakesFacts ==
  ASSUME NEW n, NEW take, IInv, Available(n), Takes(n, take)
  PROVE  /\ n \in 1 .. Len(rest) /\ take \in 1 .. n
         /\ \A i \in 1 .. (take - 1) : rest[i] # "lf"
         /\ rest[take] = "lf" \/ take = n
         /\ result = "reading"
BY DEF Available, Takes, FirstFeed

LEMMA TakeMemory ==
  ASSUME IInv, NEW n, NEW take, TakePiece(n, take)
  PROVE  MemoryBounded' /\ capacity' \in Nat
<1> DEFINE needed == Len(buf) + take
<1>1. take \in 1 .. Len(rest)
  BY TakesFacts DEF TakePiece, IInv, TypeOK
<1>2. needed \in Nat /\ needed <= Limit /\ needed > 0
  BY <1>1, LimitType DEF TakePiece, FitsRoom, IInv, TypeOK
<1>3. Len(buf') = needed
  <2>1. /\ buf \in Seq(Byte) /\ rest \in Seq(Byte)
        /\ buf' = buf \o SubSeq(rest, 1, take)
    BY DEF TakePiece, IInv, TypeOK
  <2>2. Grew(buf, rest, take, buf')
    BY <1>1, <2>1, Consumed
  <2>. QED  BY <2>2 DEF Grew
<1>4. /\ capacity \in Nat /\ capacity <= Limit
      /\ capacity' = IF needed > capacity THEN Grown(needed) ELSE capacity
  BY DEF TakePiece, IInv, TypeOK, MemoryBounded
<1>5. Twice(capacity) \in Nat
  BY <1>4, CappedLineAssumption DEF Twice, AtMost
<1>6. needed <= Grown(needed) /\ Grown(needed) <= Limit /\ Grown(needed) \in Nat
  BY <1>2, <1>5, LimitType DEF Grown, AtMost, AtLeast
<1>7. capacity' \in Nat /\ needed <= capacity' /\ capacity' <= Limit
  BY <1>2, <1>4, <1>6
<1>. QED  BY <1>3, <1>7 DEF MemoryBounded, Limit

LEMMA TakeKeeps ==
  ASSUME IInv, NEW n, NEW take, TakePiece(n, take)
  PROVE  IInv'
<1>1. /\ n \in 1 .. Len(rest) /\ take \in 1 .. n
      /\ \A i \in 1 .. (take - 1) : rest[i] # "lf"
      /\ rest[take] = "lf" \/ take = n
      /\ result = "reading"
  BY TakesFacts DEF TakePiece
<1>2. /\ rest \in Seq(Byte) /\ buf \in Seq(Byte) /\ begin \in Seq(Byte) /\ begin' = begin
      /\ Len(buf) \in Nat /\ Len(rest) \in Nat
  BY LenProperties DEF IInv, TypeOK, TakePiece
<1>3. /\ buf' = buf \o SubSeq(rest, 1, take)
      /\ rest' = SubSeq(rest, take + 1, Len(rest))
      /\ window' = n - take
      /\ result' = IF rest[take] = "lf" THEN "line" ELSE "reading"
  BY DEF TakePiece
<1>4. take \in 1 .. Len(rest) /\ Grew(buf, rest, take, buf') /\ Left(rest, take, rest')
  <2>1. take \in 1 .. Len(rest)
    BY <1>1, <1>2
  <2>2. buf' = buf \o SubSeq(rest, 1, take)
    BY <1>3
  <2>3. rest' = SubSeq(rest, take + 1, Len(rest))
    BY <1>3
  <2>4. Grew(buf, rest, take, buf')
    BY <1>2, <2>1, <2>2, Consumed
  <2>5. Left(rest, take, rest')
    BY <1>2, <2>1, <2>3, Suffix
  <2>. QED  BY <2>1, <2>4, <2>5
<1>5. /\ buf' \in Seq(Byte) /\ Len(buf') = Len(buf) + take
      /\ rest' \in Seq(Byte) /\ Len(rest') = Len(rest) - take
      /\ \A i \in 1 .. Len(buf) : buf'[i] = buf[i]
      /\ \A i \in 1 .. take : buf'[Len(buf) + i] = rest[i]
  BY <1>4 DEF Grew, Left
<1>6. begin = buf' \o rest' /\ Len(buf') <= Len(begin) /\ buf' = SubSeq(begin, 1, Len(buf'))
  <2>1. begin = buf \o rest
    BY DEF IInv
  <2>2. Grew(buf, rest, Len(rest), begin)
    BY <1>2, <2>1, Joined
  <2>3. /\ begin = buf' \o rest'
        /\ Len(begin) = Len(buf) + Len(rest)
        /\ buf' = SubSeq(begin, 1, Len(buf'))
    BY <1>2, <1>4, <2>2, Rejoined
  <2>4. Len(buf') <= Len(begin)
    BY <1>2, <1>4, <1>5, <2>3
  <2>. QED  BY <2>3, <2>4
<1>7. TypeOK' /\ MemoryBounded'
  BY <1>1, <1>2, <1>3, <1>5, TakeMemory DEF TypeOK
<1>8. window' <= Len(rest')
  BY <1>1, <1>2, <1>3, <1>5
<1>9. begin' = buf' \o rest'
  BY <1>2, <1>6
<1>10. \A i \in 1 .. (Len(buf') - 1) : buf'[i] # "lf"
  <2>1. \A i \in 1 .. Len(buf) : buf'[i] # "lf"
    BY <1>1, <1>5 DEF IInv
  <2>2. ASSUME NEW i \in 1 .. (Len(buf') - 1), ~(i \in 1 .. Len(buf)) PROVE buf'[i] # "lf"
    <3>1. i - Len(buf) \in 1 .. (take - 1) /\ Len(buf) + (i - Len(buf)) = i
      BY <1>1, <1>2, <1>5, <2>2
    <3>2. i - Len(buf) \in 1 .. take
      BY <1>1, <1>2, <3>1
    <3>3. buf'[i] = rest[i - Len(buf)]
      BY <1>5, <3>1, <3>2
    <3>. QED  BY <1>1, <3>1, <3>3
  <2>. QED  BY <2>1, <2>2
<1>11. buf'[Len(buf')] = rest[take]
  <2>1. take \in 1 .. take
    BY <1>1, <1>2
  <2>. QED  BY <1>5, <2>1
<1>12. result' = "reading" => \A i \in 1 .. Len(buf') : buf'[i] # "lf"
  <2>1. result' = "reading" => rest[take] # "lf"
    BY <1>3
  <2>2. \A i \in 1 .. Len(buf') : i \in 1 .. (Len(buf') - 1) \/ i = Len(buf')
    <3>1. Len(buf') \in Nat
      BY <1>1, <1>2, <1>5
    <3>. QED  BY <3>1
  <2>. QED  BY <1>10, <1>11, <2>1, <2>2, Zenon
<1>13. result' = "line" => IsFirstLine(buf', begin')
  <2>. SUFFICES ASSUME result' = "line" PROVE IsFirstLine(buf', begin')
    OBVIOUS
  <2>1. rest[take] = "lf"
    BY <1>3
  <2>2. buf' # <<>> /\ Len(buf') <= Len(begin')
    BY <1>1, <1>2, <1>5, <1>6
  <2>3. buf' = SubSeq(begin', 1, Len(buf'))
    BY <1>2, <1>6, Zenon
  <2>. QED  BY <1>10, <1>11, <2>1, <2>2, <2>3 DEF IsFirstLine
<1>14. ReturnsFirstLine'
  BY <1>3, <1>9, <1>13 DEF ReturnsFirstLine
<1>. QED  BY <1>7, <1>8, <1>9, <1>12, <1>14 DEF IInv

LEMMA RefuseKeeps ==
  ASSUME IInv, NEW n, NEW take, RefuseLine(n, take)
  PROVE  IInv'
<1>1. /\ n \in 1 .. Len(rest) /\ take \in 1 .. n
      /\ \A i \in 1 .. (take - 1) : rest[i] # "lf"
      /\ result = "reading"
  BY TakesFacts DEF RefuseLine
<1>2. /\ UNCHANGED <<rest, buf, capacity, begin>>
      /\ window' = n /\ result' = "too_long"
      /\ take > Limit - Len(buf)
  BY <1>1, LimitType DEF RefuseLine, FitsRoom, IInv, TypeOK
<1>3. /\ rest \in Seq(Byte) /\ buf \in Seq(Byte) /\ begin = buf \o rest
      /\ begin \in Seq(Byte) /\ \A i \in 1 .. Len(buf) : buf[i] # "lf"
  BY <1>1 DEF IInv, TypeOK
<1>4. /\ Len(begin) = Len(buf) + Len(rest)
      /\ \A i \in 1 .. (Len(buf) + Len(rest)) :
           begin[i] = IF i <= Len(buf) THEN buf[i] ELSE rest[i - Len(buf)]
  BY <1>3, ConcatProperties
<1>5. ASSUME NEW k \in 1 .. Len(begin), IsFirstLine(SubSeq(begin, 1, k), begin)
      PROVE  k > Limit
  <2>1. begin[k] = "lf" \/ k = Len(begin)
    BY <1>3, <1>5, FirstLineEnd
  <2>2. Len(buf) \in Nat /\ Len(rest) \in Nat /\ Limit \in Nat
    BY <1>3, LimitType
  <2>3. CASE k = Len(begin)
    BY <1>1, <1>2, <1>4, <2>2, <2>3
  <2>4. CASE begin[k] = "lf"
    <3>1. k > Len(buf) /\ rest[k - Len(buf)] = "lf"
      BY <1>3, <1>4, <2>2, <2>4
    <3>2. k - Len(buf) \in 1 .. Len(rest) /\ ~(k - Len(buf) \in 1 .. (take - 1))
      BY <1>1, <1>4, <2>2, <3>1
    <3>. QED  BY <1>1, <1>2, <2>2, <3>2
  <2>. QED  BY <2>1, <2>3, <2>4
<1>6. ReturnsFirstLine'
  BY <1>2, <1>3, <1>5 DEF ReturnsFirstLine, IsFirstLine, Limit
<1>7. TypeOK' /\ MemoryBounded'
  BY <1>1, <1>2 DEF IInv, TypeOK, MemoryBounded, Limit
<1>. QED  BY <1>1, <1>2, <1>3, <1>6, <1>7 DEF IInv

LEMMA EndKeeps ==
  ASSUME IInv, AtEnd
  PROVE  IInv'
<1>1. /\ rest = <<>> /\ UNCHANGED <<rest, window, buf, capacity, begin>>
      /\ result = "reading" /\ result' = IF buf = <<>> THEN "end" ELSE "line"
  BY DEF AtEnd
<1>2. buf \in Seq(Byte) /\ begin = buf /\ \A i \in 1 .. Len(buf) : buf[i] # "lf"
  BY <1>1, ConcatEmptySeq DEF IInv, TypeOK
<1>3. buf # <<>> => IsFirstLine(buf, begin)
  <2>1. \A i \in 1 .. (Len(buf) - 1) : buf[i] # "lf"
    BY <1>2
  <2>. QED  BY <1>2, <2>1, SubSeqFull DEF IsFirstLine
<1>4. ReturnsFirstLine'
  BY <1>1, <1>2, <1>3 DEF ReturnsFirstLine, IsFirstLine, IInv, Limit
<1>. QED  BY <1>1, <1>4 DEF IInv, TypeOK, MemoryBounded, Limit

LEMMA OtherKeeps ==
  ASSUME IInv, FailFill \/ Interrupted \/ Call \/ UNCHANGED vars
  PROVE  IInv'
<1>1. CASE FailFill
  BY <1>1 DEF FailFill, IInv, TypeOK, MemoryBounded, ReturnsFirstLine, Limit
<1>2. CASE UNCHANGED vars
  BY <1>2 DEF vars, IInv, TypeOK, MemoryBounded, ReturnsFirstLine, IsFirstLine, Limit
<1>3. CASE Call
  <2>1. /\ UNCHANGED <<rest, window>> /\ begin' = rest /\ buf' = <<>> /\ capacity' = 0
        /\ result' = "reading"
    BY <1>3 DEF Call
  <2>2. <<>> \o rest = rest /\ rest \in Seq(Byte) /\ <<>> \in Seq(Byte) /\ Len(<<>>) = 0
    BY ConcatEmptySeq DEF IInv, TypeOK
  <2>. QED
    BY <2>1, <2>2, LimitType DEF IInv, TypeOK, MemoryBounded, ReturnsFirstLine, Limit
<1>. QED  BY <1>1, <1>2, <1>3 DEF Interrupted

LEMMA InitIInv == Init => IInv
<1>. SUFFICES ASSUME Init PROVE IInv
  OBVIOUS
<1>1. rest \in Seq(Byte) /\ <<>> \o rest = rest
  BY CappedLineAssumption, ConcatEmptySeq DEF Init
<1>. QED
  BY <1>1, LimitType DEF Init, IInv, TypeOK, MemoryBounded, ReturnsFirstLine

LEMMA Inductive == Spec => []IInv
<1>1. IInv /\ [Next]_vars => IInv'
  BY TakeKeeps, RefuseKeeps, EndKeeps, OtherKeeps DEF Next, Read
<1>. QED  BY <1>1, InitIInv, PTL DEF Spec

\* Every variable of the line reader stays in its type.
THEOREM TypeCorrect == Spec => []TypeOK
<1>1. IInv => TypeOK
  BY DEF IInv
<1>. QED  BY <1>1, Inductive, PTL

\* Whatever the input and its pieces, a call keeps and asks for no more than
\* its bound and one byte, and none of its subtractions underflows.
THEOREM MemoryAlwaysBounded == Spec => []MemoryBounded
<1>1. IInv => MemoryBounded
  BY DEF IInv
<1>. QED  BY <1>1, Inductive, PTL

\* The lines a caller gets do not depend on how the input was cut into pieces.
THEOREM AlwaysReturnsFirstLine == Spec => []ReturnsFirstLine
<1>1. IInv => ReturnsFirstLine
  BY DEF IInv
<1>. QED  BY <1>1, Inductive, PTL
===============================================================================
