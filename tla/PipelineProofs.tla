---------------------------- MODULE PipelineProofs ----------------------------
(***************************************************************************)
(* Proofs about an export and its import, for any records, any number of   *)
(* failed writes and any number of damages on the way.                     *)
(***************************************************************************)
EXTENDS AntPipeline, AntReaderProofs

\* What is counted

LEMMA KnownAppend ==
  ASSUME NEW S, NEW s \in Seq(S), NEW r \in S
  PROVE  /\ \A n \in 0 .. Len(s) : KnownUpTo(Append(s, r), n) = KnownUpTo(s, n)
         /\ KnownUpTo(Append(s, r), Len(s) + 1)
              = IF r.kind \in DataKinds THEN KnownUpTo(s, Len(s)) + 1 ELSE KnownUpTo(s, Len(s))
  <1> DEFINE t == Append(s, r)
  <1>1. /\ Len(s) \in Nat /\ t[Len(s) + 1] = r
        /\ \A i \in 1 .. Len(s) : t[i] = s[i]
    OBVIOUS
  <1> HIDE DEF t
  <1>2. ASSUME NEW n \in 0 .. Len(s)
        PROVE  KnownUpTo(t, n) = KnownUpTo(s, n)
    <2>1. KnownAmong(t, n) = KnownAmong(s, n) BY <1>1 DEF KnownAmong
    <2> QED BY <2>1 DEF KnownUpTo, KnownAmong
  <1>3. CASE r.kind \in DataKinds
    <2>1. KnownAmong(t, Len(s) + 1) = KnownAmong(s, Len(s)) \union {Len(s) + 1}
      BY <1>1, <1>3 DEF KnownAmong
    <2>2. Len(s) + 1 \notin KnownAmong(s, Len(s)) BY <1>1 DEF KnownAmong
    <2>3. Cardinality(KnownAmong(t, Len(s) + 1)) = Cardinality(KnownAmong(s, Len(s))) + 1
      BY <1>1, <2>1, <2>2, KnownCount, FS_AddElement
    <2> QED BY <1>2, <1>3, <2>3 DEF KnownUpTo, KnownAmong, t
  <1>4. CASE r.kind \notin DataKinds
    <2>1. KnownAmong(t, Len(s) + 1) = KnownAmong(s, Len(s)) BY <1>1, <1>4 DEF KnownAmong
    <2> QED BY <1>2, <1>4, <2>1 DEF KnownUpTo, KnownAmong, t
  <1> QED BY <1>3, <1>4

LEMMA NoneKnown == KnownUpTo(<<>>, 0) = 0
  <1>1. KnownAmong(<<>>, 0) = {} BY DEF KnownAmong
  <1> QED BY <1>1, FS_EmptySet DEF KnownUpTo, KnownAmong

-------------------------------------------------------------------------------
\* What is handed out

LEMMA HandedOutNone == AreKnown(<<>>, <<>>)
  BY NoneKnown DEF AreKnown

LEMMA HandedOutOne ==
  ASSUME NEW D, NEW S, NEW d \in Seq(D), NEW s \in Seq(S), AreKnown(d, s),
         NEW r \in S, r \in D, r.kind \in DataKinds
  PROVE  AreKnown(Append(d, r), Append(s, r))
  <1> DEFINE t == Append(s, r)
             e == Append(d, r)
  <1>1. /\ Len(t) = Len(s) + 1 /\ Len(s) \in Nat
        /\ Len(e) = Len(d) + 1 /\ Len(d) \in Nat
        /\ DOMAIN t = 1 .. Len(s) + 1 /\ DOMAIN s = 1 .. Len(s)
        /\ \A i \in 1 .. Len(s) : t[i] = s[i]
        /\ t[Len(s) + 1] = r
        /\ \A i \in 1 .. Len(d) : e[i] = d[i]
        /\ e[Len(d) + 1] = r
    OBVIOUS
  <1>2. /\ \A n \in 0 .. Len(s) : KnownUpTo(t, n) = KnownUpTo(s, n)
        /\ KnownUpTo(t, Len(s) + 1) = KnownUpTo(s, Len(s)) + 1
    BY KnownAppend
  <1> HIDE DEF t, e
  <1>3. Len(d) = KnownUpTo(s, Len(s)) BY DEF AreKnown
  <1>4. ASSUME NEW i \in DOMAIN t, t[i].kind \in DataKinds
        PROVE  e[KnownUpTo(t, i)] = t[i]
    <2>1. CASE i = Len(s) + 1 BY <1>1, <1>2, <1>3, <2>1
    <2>2. CASE i \in DOMAIN s
      <3>1. s[i].kind \in DataKinds /\ t[i] = s[i] BY <1>1, <1>4, <2>2
      <3>2. KnownUpTo(s, i) \in 1 .. Len(d) BY <1>3, <2>2, <3>1, KnownPlace
      <3>3. d[KnownUpTo(s, i)] = s[i] BY <2>2, <3>1 DEF AreKnown
      <3>4. KnownUpTo(t, i) = KnownUpTo(s, i) BY <1>1, <1>2, <2>2
      <3> QED BY <1>1, <3>1, <3>2, <3>3, <3>4
    <2> QED BY <1>1, <1>4, <2>1, <2>2
  <1>5. Len(e) = KnownUpTo(t, Len(t)) BY <1>1, <1>2, <1>3
  <1> QED BY <1>4, <1>5 DEF AreKnown, e, t

LEMMA HandedOutNoMore ==
  ASSUME NEW S, NEW d, NEW s \in Seq(S), AreKnown(d, s), NEW r \in S, r.kind \notin DataKinds
  PROVE  AreKnown(d, Append(s, r))
  <1> DEFINE t == Append(s, r)
  <1>1. /\ Len(t) = Len(s) + 1 /\ Len(s) \in Nat
        /\ DOMAIN t = 1 .. Len(s) + 1 /\ DOMAIN s = 1 .. Len(s)
        /\ \A i \in 1 .. Len(s) : t[i] = s[i]
        /\ t[Len(s) + 1] = r
    OBVIOUS
  <1>2. /\ \A n \in 0 .. Len(s) : KnownUpTo(t, n) = KnownUpTo(s, n)
        /\ KnownUpTo(t, Len(s) + 1) = KnownUpTo(s, Len(s))
    BY KnownAppend
  <1> HIDE DEF t
  <1>3. ASSUME NEW i \in DOMAIN t, t[i].kind \in DataKinds
        PROVE  d[KnownUpTo(t, i)] = t[i]
    <2>1. i \in DOMAIN s /\ t[i] = s[i] BY <1>1, <1>3
    <2>2. KnownUpTo(t, i) = KnownUpTo(s, i) BY <1>1, <1>2, <2>1
    <2> QED BY <1>3, <2>1, <2>2 DEF AreKnown
  <1>4. Len(d) = KnownUpTo(t, Len(t)) BY <1>1, <1>2 DEF AreKnown
  <1> QED BY <1>3, <1>4 DEF AreKnown, t

-------------------------------------------------------------------------------
\* What is written.  The records of `more` are those of `lines`.

SameKnown(lines, more) ==
  /\ KnownUpTo(lines, Len(lines)) = KnownUpTo(more, Len(more))
  /\ \A m \in DOMAIN more :
       more[m].kind \in DataKinds =>
         \E n \in DOMAIN lines :
           /\ lines[n] = more[m]
           /\ KnownUpTo(lines, n) = KnownUpTo(more, m)

LEMMA HandedOutAsSubmitted ==
  ASSUME NEW d, NEW lines, NEW more, AreKnown(d, lines), SameKnown(lines, more)
  PROVE  AreKnown(d, more)
  BY DEF AreKnown, SameKnown

LEMMA SameNone == SameKnown(<<>>, <<>>)
  BY DEF SameKnown

\* Another line, and another submission, of no known kind.
LEMMA SameOther ==
  ASSUME NEW S, NEW s \in Seq(S), NEW more, SameKnown(s, more),
         NEW r \in S, r.kind \notin DataKinds
  PROVE  SameKnown(Append(s, r), more)
  <1> DEFINE t == Append(s, r)
  <1>1. /\ Len(t) = Len(s) + 1 /\ Len(s) \in Nat
        /\ DOMAIN t = 1 .. Len(s) + 1 /\ DOMAIN s = 1 .. Len(s)
        /\ \A i \in 1 .. Len(s) : t[i] = s[i]
    OBVIOUS
  <1>2. /\ \A n \in 0 .. Len(s) : KnownUpTo(t, n) = KnownUpTo(s, n)
        /\ KnownUpTo(t, Len(s) + 1) = KnownUpTo(s, Len(s))
    BY KnownAppend
  <1> HIDE DEF t
  <1>3. ASSUME NEW m \in DOMAIN more, more[m].kind \in DataKinds
        PROVE  \E n \in DOMAIN t : t[n] = more[m] /\ KnownUpTo(t, n) = KnownUpTo(more, m)
    <2>1. PICK n \in DOMAIN s : s[n] = more[m] /\ KnownUpTo(s, n) = KnownUpTo(more, m)
      BY <1>3 DEF SameKnown
    <2>2. n \in DOMAIN t /\ t[n] = more[m] /\ KnownUpTo(t, n) = KnownUpTo(more, m)
      BY <1>1, <1>2, <2>1
    <2> QED BY <2>2
  <1>4. KnownUpTo(t, Len(t)) = KnownUpTo(more, Len(more)) BY <1>1, <1>2 DEF SameKnown
  <1> QED BY <1>3, <1>4 DEF SameKnown, t

LEMMA SameOtherSubmitted ==
  ASSUME NEW S, NEW s, NEW more \in Seq(S), SameKnown(s, more),
         NEW r \in S, r.kind \notin DataKinds
  PROVE  SameKnown(s, Append(more, r))
  <1> DEFINE t == Append(more, r)
  <1>1. /\ Len(t) = Len(more) + 1 /\ Len(more) \in Nat
        /\ DOMAIN t = 1 .. Len(more) + 1 /\ DOMAIN more = 1 .. Len(more)
        /\ \A i \in 1 .. Len(more) : t[i] = more[i]
        /\ t[Len(more) + 1] = r
    OBVIOUS
  <1>2. /\ \A n \in 0 .. Len(more) : KnownUpTo(t, n) = KnownUpTo(more, n)
        /\ KnownUpTo(t, Len(more) + 1) = KnownUpTo(more, Len(more))
    BY KnownAppend
  <1> HIDE DEF t
  <1>3. ASSUME NEW m \in DOMAIN t, t[m].kind \in DataKinds
        PROVE  \E n \in DOMAIN s : s[n] = t[m] /\ KnownUpTo(s, n) = KnownUpTo(t, m)
    <2>1. m \in DOMAIN more /\ t[m] = more[m] /\ KnownUpTo(t, m) = KnownUpTo(more, m)
      BY <1>1, <1>2, <1>3
    <2> QED BY <1>3, <2>1 DEF SameKnown
  <1>4. KnownUpTo(t, Len(t)) = KnownUpTo(s, Len(s)) BY <1>1, <1>2 DEF SameKnown
  <1> QED BY <1>3, <1>4 DEF SameKnown, t

LEMMA SameOne ==
  ASSUME NEW S, NEW s \in Seq(S), NEW more \in Seq(S), SameKnown(s, more),
         NEW r \in S, r.kind \in DataKinds
  PROVE  SameKnown(Append(s, r), Append(more, r))
  <1> DEFINE t == Append(s, r)
             u == Append(more, r)
  <1>1. /\ Len(t) = Len(s) + 1 /\ Len(s) \in Nat
        /\ DOMAIN t = 1 .. Len(s) + 1 /\ DOMAIN s = 1 .. Len(s)
        /\ \A i \in 1 .. Len(s) : t[i] = s[i]
        /\ t[Len(s) + 1] = r
    OBVIOUS
  <1>2. /\ Len(u) = Len(more) + 1 /\ Len(more) \in Nat
        /\ DOMAIN u = 1 .. Len(more) + 1 /\ DOMAIN more = 1 .. Len(more)
        /\ \A i \in 1 .. Len(more) : u[i] = more[i]
        /\ u[Len(more) + 1] = r
    OBVIOUS
  <1>3. /\ \A n \in 0 .. Len(s) : KnownUpTo(t, n) = KnownUpTo(s, n)
        /\ KnownUpTo(t, Len(s) + 1) = KnownUpTo(s, Len(s)) + 1
    BY KnownAppend
  <1>4. /\ \A n \in 0 .. Len(more) : KnownUpTo(u, n) = KnownUpTo(more, n)
        /\ KnownUpTo(u, Len(more) + 1) = KnownUpTo(more, Len(more)) + 1
    BY KnownAppend
  <1> HIDE DEF t, u
  <1>5. KnownUpTo(s, Len(s)) = KnownUpTo(more, Len(more)) BY DEF SameKnown
  <1>6. ASSUME NEW m \in DOMAIN u, u[m].kind \in DataKinds
        PROVE  \E n \in DOMAIN t : t[n] = u[m] /\ KnownUpTo(t, n) = KnownUpTo(u, m)
    <2>1. CASE m = Len(more) + 1
      <3>1. Len(s) + 1 \in DOMAIN t /\ t[Len(s) + 1] = u[m]
            /\ KnownUpTo(t, Len(s) + 1) = KnownUpTo(u, m)
        BY <1>1, <1>2, <1>3, <1>4, <1>5, <2>1
      <3> QED BY <3>1
    <2>2. CASE m \in DOMAIN more
      <3>1. u[m] = more[m] /\ KnownUpTo(u, m) = KnownUpTo(more, m) BY <1>2, <1>4, <2>2
      <3>2. PICK n \in DOMAIN s : s[n] = more[m] /\ KnownUpTo(s, n) = KnownUpTo(more, m)
        BY <1>6, <2>2, <3>1 DEF SameKnown
      <3>3. n \in DOMAIN t /\ t[n] = u[m] /\ KnownUpTo(t, n) = KnownUpTo(u, m)
        BY <1>1, <1>3, <3>1, <3>2
      <3> QED BY <3>3
    <2> QED BY <1>2, <1>6, <2>1, <2>2
  <1>7. KnownUpTo(t, Len(t)) = KnownUpTo(u, Len(u)) BY <1>1, <1>2, <1>3, <1>4, <1>5
  <1> QED BY <1>6, <1>7 DEF SameKnown, t, u

-------------------------------------------------------------------------------
\* The writer's counts.  They are never less than what its hasher was fed, and
\* as much only if nothing was lost.

Wire == Lines \union Headers

Honest(lines, more, total) ==
  /\ lines \in Seq(Wire) /\ more \in Seq(Wire) /\ total \in Counts
  /\ \A k \in DataKinds : Tally(lines)[k] <= total[k]
  /\ total = Tally(lines) => SameKnown(lines, more)

LEMMA TallyType ==
  ASSUME NEW S, NEW s \in Seq(S)
  PROVE  Tally(s) \in Counts
  BY KindIndices DEF Tally, Counts

LEMMA HonestOther ==
  ASSUME NEW lines, NEW more, NEW total, Honest(lines, more, total),
         NEW r \in Wire, r.kind \notin DataKinds
  PROVE  Honest(Append(lines, r), more, total)
  <1>1. lines \in Seq(Wire) BY DEF Honest
  <1>2. Tally(Append(lines, r)) = Tally(lines) BY <1>1, TallyAppend
  <1>3. SameKnown(lines, more) => SameKnown(Append(lines, r), more) BY <1>1, SameOther
  <1>4. Append(lines, r) \in Seq(Wire) BY <1>1
  <1> QED BY <1>2, <1>3, <1>4 DEF Honest

LEMMA HonestOtherSubmitted ==
  ASSUME NEW lines, NEW more, NEW total, Honest(lines, more, total),
         NEW r \in Wire, r.kind \notin DataKinds
  PROVE  Honest(lines, Append(more, r), total)
  <1>1. more \in Seq(Wire) BY DEF Honest
  <1>2. SameKnown(lines, more) => SameKnown(lines, Append(more, r))
    BY <1>1, SameOtherSubmitted
  <1>3. Append(more, r) \in Seq(Wire) BY <1>1
  <1> QED BY <1>2, <1>3 DEF Honest

LEMMA HonestOne ==
  ASSUME NEW lines, NEW more, NEW total, Honest(lines, more, total),
         NEW r \in Wire, r.kind \in DataKinds
  PROVE  Honest(Append(lines, r), Append(more, r), [total EXCEPT ![r.kind] = @ + 1])
  <1> DEFINE next == [total EXCEPT ![r.kind] = @ + 1]
  <1>1. lines \in Seq(Wire) /\ more \in Seq(Wire) /\ total \in Counts BY DEF Honest
  <1>2. Tally(Append(lines, r)) = [Tally(lines) EXCEPT ![r.kind] = @ + 1] BY <1>1, TallyAppend
  <1>3. Tally(lines) \in Counts BY <1>1, TallyType
  <1>4. next \in Counts /\ \A k \in DataKinds : Tally(Append(lines, r))[k] <= next[k]
    BY <1>1, <1>2, <1>3 DEF Honest, Counts
  <1>5. ASSUME next = Tally(Append(lines, r))
        PROVE  SameKnown(Append(lines, r), Append(more, r))
    <2>1. \A k \in DataKinds : total[k] = Tally(lines)[k]
      BY <1>1, <1>2, <1>3, <1>5 DEF Counts
    <2>2. total = Tally(lines) BY <1>1, <1>3, <2>1 DEF Counts
    <2>3. SameKnown(lines, more) BY <2>2 DEF Honest
    <2> QED BY <1>1, <2>3, SameOne
  <1>6. Append(lines, r) \in Seq(Wire) /\ Append(more, r) \in Seq(Wire) BY <1>1
  <1> HIDE DEF next
  <1>7. Honest(Append(lines, r), Append(more, r), next) BY <1>4, <1>5, <1>6 DEF Honest
  <1> QED BY <1>7 DEF next

\* A record that is counted and not written is missed for ever.
LEMMA HonestLost ==
  ASSUME NEW lines, NEW more, NEW total, Honest(lines, more, total),
         NEW r \in Wire, r.kind \in DataKinds
  PROVE  Honest(lines, Append(more, r), [total EXCEPT ![r.kind] = @ + 1])
  <1> DEFINE next == [total EXCEPT ![r.kind] = @ + 1]
  <1>1. lines \in Seq(Wire) /\ more \in Seq(Wire) /\ total \in Counts BY DEF Honest
  <1>2. Tally(lines) \in Counts BY <1>1, TallyType
  <1>3. next \in Counts /\ \A k \in DataKinds : Tally(lines)[k] <= next[k]
    BY <1>1, <1>2 DEF Honest, Counts
  <1>4. next[r.kind] > Tally(lines)[r.kind] BY <1>1, <1>2 DEF Honest, Counts
  <1>5. next # Tally(lines) BY <1>2, <1>4 DEF Counts
  <1>6. Append(more, r) \in Seq(Wire) BY <1>1
  <1> HIDE DEF next
  <1>7. Honest(lines, Append(more, r), next) BY <1>1, <1>3, <1>5, <1>6 DEF Honest
  <1> QED BY <1>7 DEF next

-------------------------------------------------------------------------------
\* The writer

TextOver(text, S) ==
  text = [lines |-> text.lines, unfinished |-> text.unfinished] /\ text.lines \in Seq(S)

Malformed == [kind |-> "malformed"]

LEMMA FeedText ==
  ASSUME NEW S, NEW text, TextOver(text, S), NEW line \in S, Malformed \in S
  PROVE  /\ TextOver(Feed(text, line), S)
         /\ \/ Feed(text, line).lines = Append(text.lines, line)
            \/ Feed(text, line).lines = Append(text.lines, Malformed)
  BY DEF TextOver, Feed, Malformed

LEMMA PartText ==
  ASSUME NEW S, NEW text, TextOver(text, S), NEW part \in FeedPart(text)
  PROVE  TextOver(part, S) /\ part.lines = text.lines
  <1>1. CASE part = text BY <1>1
  <1>2. CASE part = [text EXCEPT !.unfinished = TRUE]
    <2>1. part.lines = text.lines BY <1>2 DEF TextOver
    <2>2. part = [lines |-> part.lines, unfinished |-> part.unfinished] BY Zenon, <1>2 DEF TextOver
    <2> QED BY <2>1, <2>2 DEF TextOver
  <1> QED BY <1>1, <1>2 DEF FeedPart

\* A trailer is written once and true of all that was written before.
WriterInv ==
  /\ writing \in {"unopened", "open", "finished", "dropped"}
  /\ TextOver(digested, Wire)
  /\ TextOver(output, Wire \union {TrailerNow})
  /\ writing \in {"unopened", "open"} => output = digested
  /\ Honest(digested.lines, submitted, tallied)

LEMMA WireLinesTyped ==
  /\ Malformed \in Wire /\ Malformed.kind \notin DataKinds
  /\ [kind |-> "io_error"] \in Wire
  /\ Wire \subseteq StreamLines
  /\ \A h \in WriterHeaders : h \in Wire /\ h.kind \notin DataKinds
  /\ \A r \in Submissions : r \in Wire
  <1>1. Malformed \in Wire /\ [kind |-> "io_error"] \in Wire
    BY PipelineAssumption DEF Malformed, Wire
  <1>2. Malformed.kind \notin DataKinds BY DEF Malformed, DataKinds, PlainKinds
  <1>3. \A h \in Headers : h.kind \notin DataKinds
    BY ConstantsAssumption DEF Header, DataKinds, PlainKinds
  <1>4. Wire \subseteq StreamLines BY ConstantsAssumption DEF Wire, StreamLines
  <1> QED BY <1>1, <1>2, <1>3, <1>4, PipelineAssumption DEF Wire

LEMMA InitWriterInv == InitWriter => WriterInv
  <1> SUFFICES ASSUME InitWriter PROVE WriterInv OBVIOUS
  <1>1. ZeroCounts = Tally(<<>>) BY TallyEmpty
  <1>2. ZeroCounts \in Counts /\ \A k \in DataKinds : ZeroCounts[k] <= ZeroCounts[k]
    BY DEF ZeroCounts, Counts
  <1>3. Honest(<<>>, <<>>, ZeroCounts) BY <1>1, <1>2, SameNone DEF Honest
  <1>4. \A S : TextOver(NoText, S) BY DEF TextOver, NoText
  <1>5. NoText.lines = <<>> BY DEF NoText
  <1> QED BY <1>3, <1>4, <1>5 DEF InitWriter, WriterInv

\* A line written whole or glued to one that is not.
LEMMA WroteLine ==
  ASSUME WriterInv, writing \in {"unopened", "open"}, NEW line \in Wire, WriteLine(line)
  PROVE  /\ TextOver(digested', Wire) /\ output' = digested'
         /\ \/ digested'.lines = Append(digested.lines, line)
            \/ digested'.lines = Append(digested.lines, Malformed)
  <1>1. output = digested /\ TextOver(digested, Wire) BY DEF WriterInv
  <1>2. digested' = Feed(digested, line) /\ output' = Feed(output, line) BY DEF WriteLine
  <1> QED BY <1>1, <1>2, FeedText, WireLinesTyped

LEMMA WrotePart ==
  ASSUME WriterInv, writing \in {"unopened", "open"}, WritePart
  PROVE  TextOver(digested', Wire) /\ output' = digested' /\ digested'.lines = digested.lines
  <1>1. output = digested /\ TextOver(digested, Wire) BY DEF WriterInv
  <1>2. PICK part \in FeedPart(digested) : output' = part /\ digested' = part
    BY <1>1 DEF WritePart
  <1> QED BY <1>1, <1>2, PartText

\* What is over the lines is over the lines and a trailer.
LEMMA StillOpen ==
  ASSUME TextOver(digested', Wire), output' = digested', writing' \in {"open", "dropped"},
         Honest(digested'.lines, submitted', tallied')
  PROVE  WriterInv'
  <1>1. TextOver(output', Wire \union {TrailerNow'}) BY DEF TextOver
  <1> QED BY <1>1 DEF WriterInv, TextOver, Honest, TrailerNow

LEMMA OpenWriterKeeps ==
  ASSUME WriterInv, NEW h \in WriterHeaders, OpenWriter(h)
  PROVE  WriterInv'
  <1>1. h \in Wire /\ h.kind \notin DataKinds BY WireLinesTyped
  <1>2. /\ WriteLine(h) /\ writing = "unopened" /\ writing' = "open"
        /\ tallied' = tallied /\ submitted' = submitted
    BY DEF OpenWriter
  <1>3. Honest(digested.lines, submitted, tallied) BY DEF WriterInv
  <1>4. /\ Honest(Append(digested.lines, h), submitted, tallied)
        /\ Honest(Append(digested.lines, Malformed), submitted, tallied)
    BY <1>1, <1>3, HonestOther, WireLinesTyped
  <1>5. Honest(digested'.lines, submitted', tallied') BY <1>1, <1>2, <1>4, WroteLine
  <1> QED BY <1>1, <1>2, <1>5, WroteLine, StillOpen

LEMMA FailOpenKeeps ==
  ASSUME WriterInv, FailOpen
  PROVE  WriterInv'
  <1>1. /\ WritePart /\ writing = "unopened" /\ writing' = "dropped"
        /\ tallied' = tallied /\ submitted' = submitted
    BY DEF FailOpen
  <1>2. Honest(digested'.lines, submitted', tallied') BY <1>1, WrotePart DEF WriterInv
  <1> QED BY <1>1, <1>2, WrotePart, StillOpen

LEMMA WriteRecordKeeps ==
  ASSUME WriterInv, NEW r \in Submissions, WriteRecord(r)
  PROVE  WriterInv'
  <1>1. r \in Wire BY WireLinesTyped
  <1>2. /\ WriteLine(r) /\ writing = "open" /\ writing' = "open"
        /\ tallied' = Tallied(r) /\ submitted' = Append(submitted, r)
    BY DEF WriteRecord, Submit
  <1>3. Honest(digested.lines, submitted, tallied) BY DEF WriterInv
  <1>4. CASE r.kind \in DataKinds
    <2>1. Honest(Append(digested.lines, r), submitted', tallied')
      BY <1>1, <1>2, <1>3, <1>4, HonestOne DEF Tallied
    <2>2. Honest(digested.lines, submitted', tallied')
      BY <1>1, <1>2, <1>3, <1>4, HonestLost DEF Tallied
    <2>3. Honest(Append(digested.lines, Malformed), submitted', tallied')
      BY <2>2, HonestOther, WireLinesTyped
    <2>4. Honest(digested'.lines, submitted', tallied') BY <1>1, <1>2, <2>1, <2>3, WroteLine
    <2> QED BY <1>1, <1>2, <2>4, WroteLine, StillOpen
  <1>5. CASE r.kind \notin DataKinds
    <2>1. Honest(digested.lines, submitted', tallied')
      BY <1>1, <1>2, <1>3, <1>5, HonestOtherSubmitted DEF Tallied
    <2>2. /\ Honest(Append(digested.lines, r), submitted', tallied')
          /\ Honest(Append(digested.lines, Malformed), submitted', tallied')
      BY <1>1, <1>5, <2>1, HonestOther, WireLinesTyped
    <2>3. Honest(digested'.lines, submitted', tallied') BY <1>1, <1>2, <2>2, WroteLine
    <2> QED BY <1>1, <1>2, <2>3, WroteLine, StillOpen
  <1> QED BY <1>4, <1>5

LEMMA FailWriteKeeps ==
  ASSUME WriterInv, NEW r \in Submissions, FailWrite(r)
  PROVE  WriterInv'
  <1>1. r \in Wire BY WireLinesTyped
  <1>2. /\ WritePart /\ writing = "open" /\ writing' = "open"
        /\ tallied' = Tallied(r) /\ submitted' = Append(submitted, r)
    BY DEF FailWrite, Submit
  <1>3. Honest(digested.lines, submitted, tallied) BY DEF WriterInv
  <1>4. Honest(digested.lines, submitted', tallied')
    BY <1>1, <1>2, <1>3, HonestLost, HonestOtherSubmitted DEF Tallied
  <1>5. Honest(digested'.lines, submitted', tallied') BY <1>2, <1>4, WrotePart
  <1> QED BY <1>2, <1>5, WrotePart, StillOpen

\* The trailer goes past the hasher and the counts.
LEMMA EndKeepsWriter ==
  ASSUME WriterInv, writing = "open", writing' \in {"finished", "dropped"},
         UNCHANGED <<digested, tallied, submitted>>,
         output' \in FeedPart(output) \union {Feed(output, TrailerNow)}
  PROVE  WriterInv'
  <1>1. TrailerNow' = TrailerNow BY DEF TrailerNow
  <1>2. TextOver(output, Wire \union {TrailerNow}) BY DEF WriterInv
  <1>3. TextOver(output', Wire \union {TrailerNow})
    BY <1>2, PartText, FeedText, WireLinesTyped
  <1> QED BY <1>1, <1>3 DEF WriterInv, TextOver, Honest

LEMMA WriteKeeps ==
  ASSUME WriterInv, Write
  PROVE  WriterInv'
  <1>1. CASE FailOpen BY <1>1, FailOpenKeeps
  <1>2. CASE RefuseWrite
    BY <1>2 DEF RefuseWrite, writerVars, WriterInv, TextOver, Honest, TrailerNow
  <1>3. CASE Finish BY <1>3, EndKeepsWriter DEF Finish
  <1>4. CASE FailFinish BY <1>4, EndKeepsWriter DEF FailFinish
  <1>5. CASE DropWriter
    <2>1. output' \in FeedPart(output) BY <1>5 DEF DropWriter, FeedPart
    <2> QED BY <1>5, <2>1, EndKeepsWriter DEF DropWriter
  <1> QED
    BY <1>1, <1>2, <1>3, <1>4, <1>5, OpenWriterKeeps, WriteRecordKeeps, FailWriteKeeps
    DEF Write

-------------------------------------------------------------------------------
\* The reader: until the end it counted what it hashed, and handed it out.

ReaderInv ==
  /\ verified => phase = "stopped" /\ AreKnown(delivered, submitted)
  /\ phase = "closed" => counts = ZeroCounts /\ delivered = <<>>
  /\ phase = "reading" =>
       /\ hashed \in Seq(StreamLines) /\ delivered \in Seq(StreamLines)
       /\ counts = Tally(hashed)
       /\ AreKnown(delivered, hashed)

OnTheWay == Wire \union {TrailerNow}

PInv ==
  /\ WriterInv
  /\ ReaderInv
  /\ shipped => writing \in {"finished", "dropped"}
  /\ ~shipped => phase = "closed" /\ transit = <<>>
  /\ transit \in Seq(OnTheWay)

LEMMA InitPInv == InitPipeline => PInv
  <1> SUFFICES ASSUME InitPipeline PROVE PInv OBVIOUS
  <1>1. WriterInv BY InitWriterInv DEF InitPipeline
  <1>2. ReaderInv BY DEF InitPipeline, Init, ReaderInv
  <1> QED BY <1>1, <1>2 DEF InitPipeline, Init, PInv

\* The reader's steps leave the writer, and what it says, alone.
LEMMA WriterStays ==
  ASSUME WriterInv, UNCHANGED writerVars
  PROVE  WriterInv' /\ OnTheWay' = OnTheWay /\ submitted' = submitted
  BY DEF WriterInv, writerVars, TextOver, Honest, TrailerNow, OnTheWay

LEMMA LinesOnTheWay ==
  ASSUME NEW line \in OnTheWay
  PROVE  /\ line.kind = "trailer" => line = TrailerNow
         /\ line.kind = "header" => line \in Headers
         /\ line.kind \notin {"trailer", "header"} => line \in Lines
  <1>1. \A h \in Headers : h.kind = "header" BY ConstantsAssumption DEF Header
  <1>2. \A r \in Lines : r.kind \notin {"trailer", "header"}
    BY ConstantsAssumption DEF DataRecords, Evidence, OriginalChunk, OriginalSource, PlainRecord,
                               OtherLines, PlainKinds
  <1>3. TrailerNow.kind = "trailer" BY DEF TrailerNow
  <1> QED BY <1>1, <1>2, <1>3 DEF OnTheWay, Wire

LEMMA OpenKeeps ==
  ASSUME ReaderInv, submitted' = submitted, NEW h \in Headers, Open(h)
  PROVE  ReaderInv'
  <1>1. h \in Header /\ h \in StreamLines BY ConstantsAssumption DEF StreamLines
  <1>2. /\ phase = "closed" /\ phase' = "reading" /\ hashed' = <<h>>
        /\ counts' = counts /\ delivered' = delivered /\ verified' = verified
    BY DEF Open
  <1>3. counts = ZeroCounts /\ delivered = <<>> /\ ~verified BY <1>2 DEF ReaderInv
  <1>4. <<h>> = Append(<<>>, h) /\ <<>> \in Seq(StreamLines) OBVIOUS
  <1>5. h.kind \notin DataKinds BY <1>1 DEF Header, DataKinds, PlainKinds
  <1>6. AreKnown(<<>>, <<h>>) BY <1>1, <1>4, <1>5, HandedOutNone, HandedOutNoMore
  <1>7. Tally(<<h>>) = ZeroCounts BY <1>1, TallyHeader
  <1>8. <<h>> \in Seq(StreamLines) /\ <<>> \in Seq(StreamLines) BY <1>1
  <1> QED BY <1>2, <1>3, <1>6, <1>7, <1>8 DEF ReaderInv

LEMMA DeliverKeeps ==
  ASSUME ReaderInv, submitted' = submitted, phase = "reading",
         NEW r \in StreamLines, r.kind \in DataKinds, Deliver(r)
  PROVE  ReaderInv'
  <1>1. /\ hashed \in Seq(StreamLines) /\ delivered \in Seq(StreamLines)
        /\ counts = Tally(hashed) /\ AreKnown(delivered, hashed) /\ ~verified
    BY DEF ReaderInv
  <1>2. /\ hashed' = Append(hashed, r) /\ delivered' = Append(delivered, r)
        /\ counts' = [counts EXCEPT ![r.kind] = @ + 1]
        /\ phase' = phase /\ verified' = verified
    BY DEF Deliver, Hash, Count
  <1>3. Tally(hashed') = counts' BY <1>1, <1>2, TallyAppend
  <1>4. AreKnown(delivered', hashed') BY <1>1, <1>2, HandedOutOne
  <1>5. hashed' \in Seq(StreamLines) /\ delivered' \in Seq(StreamLines) BY <1>1, <1>2
  <1> QED BY <1>1, <1>2, <1>3, <1>4, <1>5 DEF ReaderInv

LEMMA SkipKeeps ==
  ASSUME ReaderInv, submitted' = submitted, phase = "reading",
         NEW r \in StreamLines, SkipUnknown(r)
  PROVE  ReaderInv'
  <1>1. /\ hashed \in Seq(StreamLines) /\ delivered \in Seq(StreamLines)
        /\ counts = Tally(hashed) /\ AreKnown(delivered, hashed) /\ ~verified
    BY DEF ReaderInv
  <1>2. /\ hashed' = Append(hashed, r) /\ delivered' = delivered /\ counts' = counts
        /\ phase' = phase /\ verified' = verified /\ r.kind \notin DataKinds
    BY DEF SkipUnknown, Hash, DataKinds, PlainKinds
  <1>3. Tally(hashed') = counts' BY <1>1, <1>2, TallyAppend
  <1>4. AreKnown(delivered', hashed') BY <1>1, <1>2, HandedOutNoMore
  <1>5. hashed' \in Seq(StreamLines) BY <1>1, <1>2
  <1> QED BY <1>1, <1>2, <1>3, <1>4, <1>5 DEF ReaderInv

\* A caller that stops at an error has nothing to rely on.
LEMMA StopKeeps ==
  ASSUME ReaderInv, phase = "reading", phase' = "stopped", verified' = verified
  PROVE  ReaderInv'
  BY DEF ReaderInv

\* An accepted trailer is the writer's, and true.
LEMMA AcceptedIsWhole ==
  ASSUME ReaderInv, WriterInv, UNCHANGED writerVars, ~PersistentCaller, phase = "reading",
         AcceptTrailer(TrailerNow)
  PROVE  ReaderInv'
  <1>1. hashed = digested.lines /\ counts = tallied
    BY DEF AcceptTrailer, TrailerMatches, TrailerNow, Digest
  <1>2. counts = Tally(hashed) /\ AreKnown(delivered, hashed) BY DEF ReaderInv
  <1>3. SameKnown(digested.lines, submitted) BY <1>1, <1>2 DEF WriterInv, Honest
  <1>4. AreKnown(delivered, submitted) BY <1>1, <1>2, <1>3, HandedOutAsSubmitted
  <1>5. phase' = "stopped" /\ delivered' = delivered /\ submitted' = submitted
    BY DEF AcceptTrailer, ReturnLast, writerVars
  <1> QED BY <1>4, <1>5 DEF ReaderInv

LEMMA ReadKeepsReader ==
  ASSUME ReaderInv, WriterInv, UNCHANGED writerVars, ~PersistentCaller, phase = "reading",
         NEW line \in OnTheWay, ReadNext(line)
  PROVE  ReaderInv'
  <1>1. submitted' = submitted BY DEF writerVars
  <1>2. ASSUME line \in Lines, ReadLine(line) PROVE ReaderInv'
    <2>1. line \in StreamLines BY <1>2, LineKinds
    <2>2. CASE SkipUnknown(line) BY <1>1, <2>1, <2>2, SkipKeeps
    <2>3. CASE RefuseLine(line) \/ FailRead(line)
      BY <2>3, StopKeeps DEF RefuseLine, FailRead, ReturnLast
    <2>4. CASE ReadChunk(line) \/ AcceptSource(line) \/ RefuseSource(line) \/ ReadOther(line)
      <3>1. line.kind \in DataKinds /\ (Deliver(line) \/ Refuse(line))
        BY <1>2, <2>4, CheckedRecord
      <3>2. CASE Deliver(line) BY <1>1, <2>1, <3>1, <3>2, DeliverKeeps
      <3>3. CASE Refuse(line) BY <3>3, StopKeeps DEF Refuse, ReturnLast
      <3> QED BY <3>1, <3>2, <3>3
    <2> QED BY <1>2, <2>2, <2>3, <2>4 DEF ReadLine
  <1>3. CASE line.kind = "header" /\ RefuseLine([kind |-> "manifest"])
    BY <1>3, StopKeeps DEF RefuseLine, ReturnLast
  <1>4. CASE line.kind = "trailer" /\ AcceptTrailer(line)
    BY <1>4, LinesOnTheWay, AcceptedIsWhole
  <1>5. CASE line.kind = "trailer" /\ RefuseTrailer(line)
    BY <1>5, StopKeeps DEF RefuseTrailer, ReturnLast
  <1> QED BY <1>2, <1>3, <1>4, <1>5, LinesOnTheWay DEF ReadNext

-------------------------------------------------------------------------------
\* The transport carries lines of the writer's and noise.

LEMMA PartOfWay ==
  ASSUME NEW S, NEW s \in Seq(S), NEW m \in 1 .. Len(s) + 1, NEW n \in 0 .. Len(s)
  PROVE  SubSeq(s, m, n) \in Seq(S)
  <1>1. \A i \in m .. n : s[i] \in S OBVIOUS
  <1>2. m \in Int /\ n \in Int OBVIOUS
  <1> QED BY <1>1, <1>2, SubSeqProperties

LEMMA ArrivalsOnTheWay ==
  ASSUME WriterInv, NEW s \in Arrivals
  PROVE  s \in Seq(OnTheWay)
  <1>1. output.lines \in Seq(OnTheWay) BY DEF WriterInv, TextOver, OnTheWay
  <1>2. CASE writing = "finished" BY <1>1, <1>2 DEF Arrivals
  <1>3. CASE writing # "finished"
    <2>0. PICK n \in 0 .. Len(output.lines),
               end \in {<<>>, <<[kind |-> "malformed"]>>, <<[kind |-> "io_error"]>>} :
            s = SubSeq(output.lines, 1, n) \o end
      BY <1>3 DEF Arrivals
    <2>1. SubSeq(output.lines, 1, n) \in Seq(OnTheWay) BY <1>1, PartOfWay
    <2>2. [kind |-> "malformed"] \in OnTheWay /\ [kind |-> "io_error"] \in OnTheWay
      BY WireLinesTyped DEF OnTheWay, Malformed
    <2>3. \A x \in OnTheWay : <<x>> \in Seq(OnTheWay) OBVIOUS
    <2>4. end \in Seq(OnTheWay)
      <3>1. end = <<>> => end \in Seq(OnTheWay) OBVIOUS
      <3>2. end = <<[kind |-> "malformed"]>> => end \in Seq(OnTheWay) BY <2>2, <2>3
      <3>3. end = <<[kind |-> "io_error"]>> => end \in Seq(OnTheWay) BY <2>2, <2>3
      <3> QED BY <3>1, <3>2, <3>3
    <2>5. SubSeq(output.lines, 1, n) \o end \in Seq(OnTheWay) BY <2>1, <2>4, ConcatProperties
    <2> QED BY <2>0, <2>5
  <1> QED BY <1>2, <1>3

LEMMA DamagedOnTheWay ==
  ASSUME NEW S, NEW s \in Seq(S), NEW i \in DOMAIN s
  PROVE  /\ Without(s, i) \in Seq(S) /\ Twice(s, i) \in Seq(S)
         /\ i < Len(s) => Swapped(s, i) \in Seq(S)
         /\ SubSeq(s, 1, i - 1) \in Seq(S)
         /\ \A line \in S : [s EXCEPT ![i] = line] \in Seq(S)
  <1>1. i \in 1 .. Len(s) /\ Len(s) \in Nat OBVIOUS
  <1>2. /\ SubSeq(s, 1, i - 1) \in Seq(S) /\ SubSeq(s, 1, i) \in Seq(S)
        /\ SubSeq(s, i + 1, Len(s)) \in Seq(S) /\ SubSeq(s, i, Len(s)) \in Seq(S)
    BY <1>1, PartOfWay
  <1>3. Without(s, i) \in Seq(S) /\ Twice(s, i) \in Seq(S)
    BY <1>2, ConcatProperties DEF Without, Twice
  <1>4. i < Len(s) => Swapped(s, i) \in Seq(S)
    <2>1. i < Len(s) => i + 1 \in 1 .. Len(s) /\ s[i] \in S /\ s[i + 1] \in S BY <1>1
    <2> QED BY <1>1, <2>1 DEF Swapped
  <1>5. \A line \in S : [s EXCEPT ![i] = line] \in Seq(S) BY <1>1
  <1> QED BY <1>2, <1>3, <1>4, <1>5

LEMMA ExportKeeps ==
  ASSUME PInv, Export
  PROVE  PInv'
  <1>1. Write /\ UNCHANGED vars /\ UNCHANGED transportVars BY DEF Export, readerVars
  <1>2. WriterInv' BY <1>1, WriteKeeps DEF PInv
  <1>3. writing \in {"unopened", "open"}
    BY <1>1 DEF Write, OpenWriter, FailOpen, WriteRecord, FailWrite, Submit, RefuseWrite, Finish,
                FailFinish, DropWriter
  <1>4. ~shipped /\ phase = "closed" /\ transit = <<>> BY <1>3 DEF PInv
  <1>5. ~shipped' /\ phase' = "closed" /\ transit' = <<>> BY <1>1, <1>4 DEF vars, transportVars
  <1>6. ReaderInv' BY <1>1, <1>4 DEF PInv, ReaderInv, vars
  <1>7. transit' \in Seq(OnTheWay') BY <1>5
  <1> QED BY <1>2, <1>5, <1>6, <1>7 DEF PInv

\* A step that leaves the writer alone.
LEMMA CarriedOn ==
  ASSUME PInv, UNCHANGED writerVars, ReaderInv', transit' \in Seq(OnTheWay), shipped',
         writing \in {"finished", "dropped"}
  PROVE  PInv'
  <1>1. WriterInv' /\ OnTheWay' = OnTheWay BY WriterStays DEF PInv
  <1>2. writing' = writing BY DEF writerVars
  <1> QED BY <1>1, <1>2 DEF PInv

LEMMA ReaderStays ==
  ASSUME ReaderInv, UNCHANGED vars, submitted' = submitted
  PROVE  ReaderInv'
  BY DEF ReaderInv, vars

LEMMA NextPInv == ~PersistentCaller /\ PInv /\ [NextPipeline]_pipelineVars => PInv'
  <1> SUFFICES ASSUME ~PersistentCaller, PInv, [NextPipeline]_pipelineVars PROVE PInv' OBVIOUS
  <1>1. ReaderInv /\ WriterInv BY DEF PInv
  <1>2. CASE Ship
    <2>1. UNCHANGED vars /\ UNCHANGED writerVars /\ submitted' = submitted
      BY <1>2 DEF Ship, readerVars, writerVars
    <2>2. transit' \in Seq(OnTheWay) BY <1>1, <1>2, ArrivalsOnTheWay DEF Ship
    <2>3. ReaderInv' BY <1>1, <2>1, ReaderStays
    <2> QED BY <1>2, <2>1, <2>2, <2>3, CarriedOn DEF Ship
  <1>3. CASE Damage
    <2>1. UNCHANGED vars /\ UNCHANGED writerVars /\ submitted' = submitted /\ shipped'
      BY <1>3 DEF Damage, readerVars, writerVars
    <2>2. transit \in Seq(OnTheWay) BY DEF PInv
    <2>3. Noise \subseteq OnTheWay BY NoiseAssumption DEF OnTheWay, Wire
    <2>4. transit' \in Seq(OnTheWay)
      <3>1. PICK i \in DOMAIN transit :
              \/ transit' = Without(transit, i)
              \/ transit' = Twice(transit, i)
              \/ i < Len(transit) /\ transit' = Swapped(transit, i)
              \/ transit' = SubSeq(transit, 1, i - 1)
              \/ \E line \in Noise : transit' = [transit EXCEPT ![i] = line]
        BY <1>3 DEF Damage
      <3>2. /\ Without(transit, i) \in Seq(OnTheWay) /\ Twice(transit, i) \in Seq(OnTheWay)
            /\ i < Len(transit) => Swapped(transit, i) \in Seq(OnTheWay)
            /\ SubSeq(transit, 1, i - 1) \in Seq(OnTheWay)
            /\ \A line \in OnTheWay : [transit EXCEPT ![i] = line] \in Seq(OnTheWay)
        BY <2>2, DamagedOnTheWay
      <3> QED BY <2>3, <3>1, <3>2
    <2>5. ReaderInv' BY <1>1, <2>1, ReaderStays
    <2> QED BY <1>3, <2>1, <2>4, <2>5, CarriedOn DEF Damage
  <1>4. CASE OpenReader
    <2>1. UNCHANGED writerVars /\ submitted' = submitted /\ shipped /\ shipped'
      BY <1>4 DEF OpenReader, writerVars
    <2>2. transit \in Seq(OnTheWay) /\ writing \in {"finished", "dropped"} BY <2>1 DEF PInv
    <2>3. transit' = transit \/ (transit # <<>> /\ transit' = Tail(transit))
      BY <1>4 DEF OpenReader, RefuseOther
    <2>4. transit' \in Seq(OnTheWay) BY <2>2, <2>3
    <2>5. ReaderInv'
      <3>1. CASE RefuseEmptyStream BY <1>1, <2>1, <3>1 DEF RefuseEmptyStream, ReaderInv
      <3>2. ASSUME NEW h, RefuseHeader(h) PROVE ReaderInv'
        BY <1>1, <2>1, <3>2 DEF RefuseHeader, ReaderInv
      <3>3. CASE transit # <<>> /\ Head(transit).kind = "header" /\ Open(Head(transit))
        <4>1. Head(transit) \in OnTheWay BY <2>2, <3>3
        <4>2. Head(transit) \in Headers BY <3>3, <4>1, LinesOnTheWay
        <4> QED BY <1>1, <2>1, <3>3, <4>2, OpenKeeps
      <3> QED BY <1>4, <3>1, <3>2, <3>3 DEF OpenReader, RefuseOther
    <2> QED BY <2>1, <2>2, <2>4, <2>5, CarriedOn
  <1>5. CASE Read
    <2>1. UNCHANGED writerVars /\ shipped' = shipped /\ phase = "reading" BY <1>5 DEF Read
    <2>2. shipped /\ writing \in {"finished", "dropped"} /\ transit \in Seq(OnTheWay)
      BY <2>1 DEF PInv
    <2>3. CASE transit # <<>> /\ ReadNext(Head(transit)) /\ transit' = Tail(transit)
      <3>1. Head(transit) \in OnTheWay /\ transit' \in Seq(OnTheWay) BY <2>2, <2>3
      <3>2. ReaderInv' BY <1>1, <2>1, <2>3, <3>1, ReadKeepsReader
      <3> QED BY <2>1, <2>2, <3>1, <3>2, CarriedOn
    <2>4. CASE EndOfStream /\ UNCHANGED transit
      <3>1. ReaderInv' BY <1>1, <2>1, <2>4, StopKeeps DEF EndOfStream
      <3> QED BY <2>1, <2>2, <2>4, <3>1, CarriedOn
    <2> QED BY <1>5, <2>3, <2>4 DEF Read
  <1>6. CASE UNCHANGED pipelineVars
    <2>1. UNCHANGED vars /\ UNCHANGED writerVars /\ UNCHANGED transportVars
      BY <1>6 DEF pipelineVars, readerVars
    <2>2. /\ WriterInv' /\ OnTheWay' = OnTheWay /\ submitted' = submitted
      BY <1>1, <2>1, WriterStays
    <2>3. ReaderInv' BY <1>1, <2>1, <2>2, ReaderStays
    <2>4. writing' = writing /\ phase' = phase /\ shipped' = shipped /\ transit' = transit
      BY <2>1 DEF vars, writerVars, transportVars
    <2> QED BY <2>2, <2>3, <2>4 DEF PInv
  <1>7. CASE Finished BY <1>6, <1>7 DEF Finished
  <1> QED BY <1>2, <1>3, <1>4, <1>5, <1>6, <1>7, ExportKeeps DEF NextPipeline

\* For an importer that stops at the first error, any records, failed writes,
\* cuts and damages: an import that ends verified was handed every record of a
\* known kind that was passed to `write`, in order and nothing else.
THEOREM RoundTripAlways == ~PersistentCaller => (PipelineSpec => []RoundTrip)
  <1> SUFFICES ASSUME ~PersistentCaller PROVE PipelineSpec => []RoundTrip OBVIOUS
  <1>1. PInv /\ [NextPipeline]_pipelineVars => PInv' BY NextPInv
  <1>2. PInv => RoundTrip BY DEF PInv, ReaderInv, RoundTrip
  <1> QED BY InitPInv, <1>1, <1>2, PTL DEF PipelineSpec

-------------------------------------------------------------------------------
\* The rest of the writer's types

WriterRest ==
  submitted \in Seq(Submissions) /\ output.unfinished \in BOOLEAN /\ digested.unfinished \in BOOLEAN

LEMMA FeedFlag ==
  ASSUME NEW text, NEW line
  PROVE  Feed(text, line).unfinished \in BOOLEAN
  BY Zenon DEF Feed

LEMMA PartFlag ==
  ASSUME NEW S, NEW text, TextOver(text, S), text.unfinished \in BOOLEAN,
         NEW part \in FeedPart(text)
  PROVE  part.unfinished \in BOOLEAN
  <1>1. CASE part = text BY <1>1
  <1>2. CASE part = [text EXCEPT !.unfinished = TRUE]
    <2>1. part.unfinished = TRUE BY Zenon, <1>2 DEF TextOver
    <2> QED BY <2>1
  <1> QED BY <1>1, <1>2 DEF FeedPart

LEMMA WriteKeepsRest ==
  ASSUME WriterInv, WriterRest, Write
  PROVE  WriterRest'
  <1>1. ASSUME WritePart PROVE output'.unfinished \in BOOLEAN /\ digested'.unfinished \in BOOLEAN
    BY <1>1, PartFlag DEF WritePart, WriterInv, WriterRest
  <1>2. ASSUME NEW line, WriteLine(line)
        PROVE  output'.unfinished \in BOOLEAN /\ digested'.unfinished \in BOOLEAN
    BY <1>2, FeedFlag DEF WriteLine
  <1>3. ASSUME output' \in FeedPart(output) \union {Feed(output, TrailerNow)}
        PROVE  output'.unfinished \in BOOLEAN
    BY <1>3, PartFlag, FeedFlag DEF WriterInv, WriterRest
  <1>4. ASSUME NEW h, OpenWriter(h) PROVE WriterRest'
    BY <1>2, <1>4 DEF OpenWriter, WriterRest
  <1>5. CASE FailOpen BY <1>1, <1>5 DEF FailOpen, WriterRest
  <1>6. ASSUME NEW r \in Submissions, Submit(r) PROVE submitted' \in Seq(Submissions)
    BY <1>6 DEF Submit, WriterRest
  <1>7. ASSUME NEW r \in Submissions, WriteRecord(r) PROVE WriterRest'
    BY <1>2, <1>6, <1>7 DEF WriteRecord, WriterRest
  <1>8. ASSUME NEW r \in Submissions, FailWrite(r) PROVE WriterRest'
    BY <1>1, <1>6, <1>8 DEF FailWrite, WriterRest
  <1>9. CASE RefuseWrite BY <1>9 DEF RefuseWrite, writerVars, WriterRest
  <1>10. CASE Finish BY <1>3, <1>10 DEF Finish, WriterRest
  <1>11. CASE FailFinish BY <1>3, <1>11 DEF FailFinish, WriterRest
  <1>12. CASE DropWriter BY <1>12 DEF DropWriter, WriterRest
  <1> QED BY <1>4, <1>5, <1>7, <1>8, <1>9, <1>10, <1>11, <1>12 DEF Write

WriterTypes == WriterInv /\ WriterRest

LEMMA InitWriterTypes == InitPipeline => WriterTypes
  BY InitWriterInv DEF InitPipeline, InitWriter, WriterTypes, WriterRest, NoText

LEMMA NextWriterTypes == WriterTypes /\ [NextPipeline]_pipelineVars => WriterTypes'
  <1> SUFFICES ASSUME WriterTypes, [NextPipeline]_pipelineVars PROVE WriterTypes' OBVIOUS
  <1>1. CASE Write BY <1>1, WriteKeeps, WriteKeepsRest DEF WriterTypes
  <1>2. CASE UNCHANGED writerVars
    BY <1>2, WriterStays DEF WriterTypes, WriterRest, writerVars
  <1>3. Write \/ UNCHANGED writerVars
    BY DEF NextPipeline, Export, Ship, Damage, OpenReader, Read, Finished, pipelineVars
  <1> QED BY <1>1, <1>2, <1>3

LEMMA TypesFollow == WriterTypes => TypeOKWriter
  <1> SUFFICES ASSUME WriterTypes PROVE TypeOKWriter OBVIOUS
  <1>1. WriterInv /\ WriterRest BY DEF WriterTypes
  <1>2. digested.lines \in Seq(Wire) /\ output.lines \in Seq(Wire \union {TrailerNow})
        /\ tallied \in Counts
    BY <1>1 DEF WriterInv, TextOver, Honest
  <1>3. Wire \subseteq WireLines BY ConstantsAssumption DEF Wire, WireLines
  <1>4. digested.lines \in Seq(StreamLines) BY <1>2, WireLinesTyped
  <1>5. TrailerNow \in WireTrailer BY <1>2, <1>4 DEF TrailerNow, WireTrailer, Digest
  <1>6. Wire \union {TrailerNow} \subseteq WireLines BY <1>3, <1>5 DEF WireLines
  <1>7. digested.lines \in Seq(WireLines) BY <1>2, <1>3
  <1>8. output.lines \in Seq(WireLines) BY <1>2, <1>6
  <1> QED BY <1>1, <1>2, <1>7, <1>8 DEF TypeOKWriter, WriterInv, WriterRest

\* Whatever is written, and however often a write fails, the writer's output and
\* what its hasher was fed are lines, and its one trailer says what it counted.
THEOREM WriterTypeCorrect == PipelineSpec => []TypeOKWriter
  BY InitWriterTypes, NextWriterTypes, TypesFollow, PTL DEF PipelineSpec

-------------------------------------------------------------------------------
\* What a writer that lost nothing wrote.

\* What an export that lost nothing was fed: a manifest and the records.
IsWhole(lines, more) ==
  /\ Len(lines) = Len(more) + 1
  /\ lines[1] \in Headers
  /\ \A i \in 1 .. Len(more) : lines[i + 1] = more[i]

\* While no line is missing the lines are the manifest and the records, the last
\* is whole, and the counts are theirs.
WholeSoFar ==
  writing \in {"open", "finished"} /\ Len(digested.lines) = Len(submitted) + 1 =>
    /\ IsWhole(digested.lines, submitted)
    /\ ~digested.unfinished
    /\ tallied = Tally(digested.lines)

\* A write that fails leaves a line less than there are records, for ever.
WholeInv ==
  /\ writing = "unopened" => digested = NoText /\ submitted = <<>> /\ tallied = ZeroCounts
  /\ Len(digested.lines) <= Len(submitted) + 1
  /\ WholeSoFar
  /\ writing = "finished" =>
       output.lines = Append(digested.lines, IF digested.unfinished THEN Malformed ELSE TrailerNow)

LEMMA InitWhole == InitWriter => WholeInv
  <1> SUFFICES ASSUME InitWriter PROVE WholeInv OBVIOUS
  <1>1. digested = NoText /\ submitted = <<>> /\ tallied = ZeroCounts /\ writing = "unopened"
    BY DEF InitWriter
  <1>2. Len(digested.lines) = 0 /\ Len(submitted) = 0 BY <1>1 DEF NoText
  <1> QED BY <1>1, <1>2 DEF WholeInv, WholeSoFar

LEMMA SequencesWritten ==
  ASSUME WriterInv, WriterRest
  PROVE  /\ digested.lines \in Seq(Wire) /\ Len(digested.lines) \in Nat
         /\ submitted \in Seq(Submissions) /\ Len(submitted) \in Nat
         /\ digested.unfinished \in BOOLEAN
  <1>1. digested.lines \in Seq(Wire) /\ submitted \in Seq(Submissions) /\ digested.unfinished \in BOOLEAN
    BY DEF WriterInv, WriterRest, TextOver
  <1> QED BY <1>1

\* A writer that is neither open nor finished promises nothing.
LEMMA DroppedWhole ==
  ASSUME WholeInv, writing' = "dropped", UNCHANGED submitted, digested'.lines = digested.lines
  PROVE  WholeInv'
  BY DEF WholeInv, WholeSoFar

LEMMA OpenWriterWhole ==
  ASSUME WriterInv, WriterRest, WholeInv, NEW h \in WriterHeaders, OpenWriter(h)
  PROVE  WholeInv'
  <1>1. /\ digested = NoText /\ submitted = <<>> /\ submitted' = <<>>
        /\ tallied = ZeroCounts /\ tallied' = tallied
        /\ digested' = Feed(digested, h) /\ writing' = "open"
    BY DEF OpenWriter, WriteLine, WholeInv
  <1>2. digested'.lines = <<h>> /\ digested'.unfinished = FALSE
    BY <1>1 DEF Feed, NoText
  <1>3. h \in Headers /\ h \in Header BY PipelineAssumption, ConstantsAssumption
  <1>4. IsWhole(<<h>>, <<>>) BY <1>3 DEF IsWhole
  <1>5. Tally(<<h>>) = ZeroCounts BY <1>3, TallyHeader
  <1>6. WholeSoFar' BY <1>1, <1>2, <1>4, <1>5 DEF WholeSoFar, IsWhole
  <1>7. Len(digested'.lines) = 1 /\ Len(submitted') = 0 BY <1>1, <1>2
  <1> QED BY <1>1, <1>6, <1>7 DEF WholeInv

LEMMA Submitted ==
  ASSUME WriterInv, WriterRest, NEW r \in Submissions, Submit(r)
  PROVE  /\ submitted' = Append(submitted, r) /\ Len(submitted') = Len(submitted) + 1
         /\ writing = "open" /\ writing' = "open" /\ tallied' = Tallied(r)
  <1>1. submitted \in Seq(Submissions) BY SequencesWritten
  <1> QED BY <1>1 DEF Submit

LEMMA WriteRecordWhole ==
  ASSUME WriterInv, WriterRest, WholeInv, NEW r \in Submissions, WriteRecord(r)
  PROVE  WholeInv'
  <1>1. /\ Submit(r) /\ digested' = Feed(digested, r)
        /\ digested.lines \in Seq(Wire) /\ submitted \in Seq(Submissions)
        /\ Len(digested.lines) \in Nat /\ Len(submitted) \in Nat
        /\ r \in Wire
    BY SequencesWritten, WireLinesTyped DEF WriteRecord, WriteLine
  <1>2. /\ submitted' = Append(submitted, r)
        /\ Len(submitted') = Len(submitted) + 1
        /\ writing = "open" /\ writing' = "open" /\ tallied' = Tallied(r)
    BY <1>1, Submitted
  <1>3. /\ digested'.unfinished = FALSE
        /\ digested'.lines = Append(digested.lines, IF digested.unfinished THEN Malformed ELSE r)
    BY <1>1 DEF Feed, Malformed
  <1>4. Len(digested'.lines) = Len(digested.lines) + 1 BY <1>1, <1>3
  <1>5. WholeSoFar'
    <2> SUFFICES ASSUME Len(digested'.lines) = Len(submitted') + 1
                 PROVE  /\ IsWhole(digested'.lines, submitted')
                        /\ ~digested'.unfinished
                        /\ tallied' = Tally(digested'.lines)
      BY DEF WholeSoFar
    <2>1. Len(digested.lines) = Len(submitted) + 1 BY <1>1, <1>2, <1>4
    <2>2. IsWhole(digested.lines, submitted) /\ ~digested.unfinished /\ tallied = Tally(digested.lines)
      BY <1>2, <2>1 DEF WholeInv, WholeSoFar
    <2>3. digested'.lines = Append(digested.lines, r) BY <1>3, <2>2
    <2>4. tallied' = Tally(digested'.lines)
      BY <1>1, <1>2, <2>2, <2>3, TallyAppend DEF Tallied
    <2>5. PICK d, s : d = digested.lines /\ s = submitted OBVIOUS
    <2>6. d \in Seq(Wire) /\ s \in Seq(Submissions) /\ IsWhole(d, s) /\ Len(s) \in Nat
      BY <1>1, <2>2, <2>5
    <2>7. IsWhole(Append(d, r), Append(s, r)) BY <1>1, <2>6 DEF IsWhole
    <2> QED BY <1>2, <1>3, <2>3, <2>4, <2>5, <2>7
  <1>6. Len(digested'.lines) <= Len(submitted') + 1 BY <1>1, <1>2, <1>4 DEF WholeInv
  <1> QED BY <1>2, <1>5, <1>6 DEF WholeInv

LEMMA FailWriteWhole ==
  ASSUME WriterInv, WriterRest, WholeInv, NEW r \in Submissions, FailWrite(r)
  PROVE  WholeInv'
  <1>1. Submit(r) /\ WritePart /\ writing = "open" BY DEF FailWrite, Submit
  <1>2. Len(digested.lines) \in Nat /\ Len(submitted) \in Nat BY SequencesWritten
  <1>3. Len(submitted') = Len(submitted) + 1 /\ writing' = "open"
    BY <1>1, Submitted
  <1>4. digested'.lines = digested.lines BY <1>1, WrotePart
  <1>5. Len(digested'.lines) < Len(submitted') + 1 BY <1>2, <1>3, <1>4 DEF WholeInv
  <1>6. Len(digested'.lines) \in Nat /\ Len(submitted') \in Nat BY <1>2, <1>3, <1>4
  <1> QED BY <1>3, <1>5, <1>6 DEF WholeInv, WholeSoFar

LEMMA FinishWhole ==
  ASSUME WriterInv, WholeInv, Finish
  PROVE  WholeInv'
  <1>1. /\ output = digested /\ output' = Feed(output, TrailerNow) /\ writing = "open"
        /\ writing' = "finished" /\ UNCHANGED <<digested, tallied, submitted>>
    BY DEF Finish, WriterInv
  <1>2. TrailerNow' = TrailerNow BY <1>1 DEF TrailerNow
  <1>3. output'.lines = Append(digested'.lines, IF digested'.unfinished THEN Malformed ELSE TrailerNow')
    BY <1>1, <1>2 DEF Feed, Malformed
  <1> QED BY <1>1, <1>3 DEF WholeInv, WholeSoFar, IsWhole

LEMMA WriteWhole ==
  ASSUME WriterInv, WriterRest, WholeInv, Write
  PROVE  WholeInv'
  <1>1. CASE FailOpen
    <2>1. digested'.lines = digested.lines BY <1>1, WrotePart DEF FailOpen
    <2> QED BY <1>1, <2>1, DroppedWhole DEF FailOpen
  <1>2. CASE RefuseWrite \/ FailFinish \/ DropWriter
    <2>1. CASE RefuseWrite
      BY <2>1 DEF RefuseWrite, writerVars, WholeInv, WholeSoFar, IsWhole, TrailerNow
    <2>2. CASE FailFinish \/ DropWriter
      BY <2>2, DroppedWhole DEF FailFinish, DropWriter
    <2> QED BY <1>2, <2>1, <2>2
  <1> QED
    BY <1>1, <1>2, OpenWriterWhole, WriteRecordWhole, FailWriteWhole, FinishWhole DEF Write

LEMMA StaysWhole ==
  ASSUME WholeInv, UNCHANGED writerVars
  PROVE  WholeInv'
  BY DEF writerVars, WholeInv, WholeSoFar, IsWhole, TrailerNow

\* An archive to which nothing happened.
Intact ==
  /\ Len(submitted) \in Nat
  /\ output.lines = Append(digested.lines, TrailerNow)
  /\ digested.lines \in Seq(Wire)
  /\ IsWhole(digested.lines, submitted)
  /\ tallied = Tally(digested.lines)

LEMMA UnharmedIntact ==
  ASSUME WriterInv, WriterRest, WholeInv, Unharmed
  PROVE  Intact
  <1>1. /\ writing = "finished" /\ Len(output.lines) = Len(submitted) + 2
        /\ digested.lines \in Seq(Wire) /\ Len(digested.lines) \in Nat /\ Len(submitted) \in Nat
    BY SequencesWritten DEF Unharmed
  <1>2. output.lines = Append(digested.lines, IF digested.unfinished THEN Malformed ELSE TrailerNow)
    BY <1>1 DEF WholeInv
  <1>3. Len(output.lines) = Len(digested.lines) + 1 BY <1>1, <1>2
  <1>4. Len(digested.lines) = Len(submitted) + 1 BY <1>1, <1>3
  <1>5. IsWhole(digested.lines, submitted) /\ ~digested.unfinished /\ tallied = Tally(digested.lines)
    BY <1>1, <1>4 DEF WholeInv, WholeSoFar
  <1> QED BY <1>1, <1>2, <1>5 DEF Intact

-------------------------------------------------------------------------------
\* The reader within the pipeline.

\* Everything known of the writer and the reader but not of what is between them.
BothInv == PInv /\ WriterRest /\ WholeInv /\ IInv /\ GroupInv

LEMMA InitBoth == InitPipeline => BothInv
  BY InitPInv, InitWriterTypes, InitWhole, InitIInv, InitGroup
  DEF InitPipeline, BothInv, WriterTypes

LEMMA NextBoth == ~PersistentCaller /\ BothInv /\ [NextPipeline]_pipelineVars => BothInv'
  <1> SUFFICES ASSUME ~PersistentCaller, BothInv, [NextPipeline]_pipelineVars PROVE BothInv'
    OBVIOUS
  <1>1. PInv /\ WriterInv /\ WriterRest /\ WholeInv /\ IInv /\ GroupInv
    BY DEF BothInv, PInv
  <1>2. PInv' BY <1>1, NextPInv
  <1>3. WriterRest' BY <1>1, NextWriterTypes DEF WriterTypes
  <1>4. WholeInv'
    <2>1. Write \/ UNCHANGED writerVars
      BY DEF NextPipeline, Export, Ship, Damage, OpenReader, Read, Finished, pipelineVars
    <2> QED BY <1>1, <2>1, WriteWhole, StaysWhole
  <1>5. IInv' /\ GroupInv'
    <2>1. CASE OpenReader
      <3>1. transit # <<>> => Head(transit) \in OnTheWay BY <1>1 DEF PInv
      <3>2. CASE RefuseOther
        BY <1>1, <3>2, ReaderStep DEF RefuseOther, Next, New
      <3>3. CASE transit # <<>> /\ Head(transit).kind = "header"
                 /\ (Open(Head(transit)) \/ RefuseHeader(Head(transit)))
        <4>1. Head(transit) \in Headers BY <3>1, <3>3, LinesOnTheWay
        <4> QED BY <1>1, <3>3, <4>1, ReaderStep DEF Next, New
      <3> QED BY <2>1, <3>2, <3>3 DEF OpenReader
    <2>2. CASE Read
      <3>1. transit # <<>> => Head(transit) \in OnTheWay BY <1>1 DEF PInv
      <3>2. CASE EndOfStream
        BY <1>1, <2>2, <3>2, ReaderStep DEF Read, Next, NextRecord
      <3> QED BY <1>1, <2>2, <3>1, <3>2, LinesOnTheWay, ReadNextStep DEF Read
    <2>3. CASE UNCHANGED vars BY <1>1, <2>3, ReaderStep
    <2>4. OpenReader \/ Read \/ UNCHANGED vars
      BY DEF NextPipeline, Export, Ship, Damage, Finished, pipelineVars, readerVars
    <2> QED BY <2>1, <2>2, <2>3, <2>4
  <1> QED BY <1>2, <1>3, <1>4, <1>5 DEF BothInv

-------------------------------------------------------------------------------
\* An archive to which nothing happens, while it is read: n lines were, beside
\* the manifest.

RecordLines == Len(hashed) - 1

\* The lines that were read and those that are to come are the writer's.
SameLines(n) ==
  /\ \A i \in 1 .. Len(hashed) : hashed[i] = digested.lines[i]
  /\ Len(transit) = Len(submitted) + 1 - n
  /\ \A j \in 1 .. Len(transit) : transit[j] = output.lines[n + 1 + j]

Decodes(n) == \A i \in 1 .. n : submitted[i].kind # "malformed" /\ ~TooLong(submitted[i])

\* Each of these was right, and handed out if this build knows its kind.
RightSoFar(n) ==
  /\ AreFirst(delivered, submitted, n)
  /\ WellGrouped(delivered, ContractCarries)
  /\ Decodes(n)

SoFar ==
  /\ RecordLines \in 0 .. Len(submitted)
  /\ SameLines(RecordLines)
  /\ RightSoFar(RecordLines)

AlarmInv ==
  /\ damages \in Nat
  /\ phase = "closed" /\ shipped /\ damages = 0 /\ writing = "finished" =>
       transit = output.lines
  /\ phase = "reading" /\ Unharmed => SoFar
  /\ NoFalseAlarm

-------------------------------------------------------------------------------
\* An archive to which nothing happened arrives line by line.

LEMMA SubmittedKinds ==
  ASSUME NEW r \in Submissions
  PROVE  /\ r.kind \in DataKinds => r \in DataRecords
         /\ r.kind \in DataKinds \union {"unknown", "malformed"}
         /\ r.kind \notin {"trailer", "header", "manifest", "io_error"}
         /\ r \in Lines
  <1>1. r \in DataRecords \/ r \in [kind : {"unknown", "malformed"}] BY WriterAssumption
  <1>2. CASE r \in DataRecords
    <2>1. r.kind \in DataKinds
      BY <1>2 DEF DataRecords, Evidence, OriginalChunk, OriginalSource, PlainRecord, DataKinds
    <2> QED BY <1>2, <2>1, PipelineAssumption DEF DataKinds, PlainKinds
  <1>3. CASE r \in [kind : {"unknown", "malformed"}]
    BY <1>3, PipelineAssumption DEF DataKinds, PlainKinds
  <1> QED BY <1>1, <1>2, <1>3

LEMMA SubmittedData ==
  ASSUME submitted \in Seq(Submissions)
  PROVE  DataIn(submitted)
  BY SubmittedKinds DEF DataIn

\* What a step of the reader on one line leaves alone.
LEMMA SameVersion ==
  ASSUME version' = version
  PROVE  /\ ContractCarries' = ContractCarries /\ Carries' = Carries
         /\ \A line : TooLong(line)' <=> TooLong(line)
  BY DEF ContractCarries, Carries, TooLong

LEMMA IntactStays ==
  ASSUME Intact, UNCHANGED writerVars
  PROVE  Intact'
  BY DEF Intact, IsWhole, writerVars, TrailerNow

\* The line that comes next is the next record, or the trailer.
LEMMA NextLineIs ==
  ASSUME Intact, SoFar, transit \in Seq(OnTheWay), hashed \in Seq(StreamLines),
         NEW n, n = RecordLines
  PROVE  /\ n \in Nat /\ n <= Len(submitted) /\ Len(hashed) = n + 1
         /\ transit # <<>>
         /\ n < Len(submitted) => n + 1 \in 1 .. Len(submitted) /\ Head(transit) = submitted[n + 1]
         /\ n = Len(submitted) => Head(transit) = TrailerNow
         /\ Head(transit) = output.lines[n + 2]
  <1>1. PICK N \in Nat : N = Len(submitted) BY DEF Intact
  <1>2. n \in 0 .. N /\ SameLines(n) BY <1>1 DEF SoFar
  <1>3. Len(hashed) = n + 1 BY <1>2 DEF RecordLines
  <1>4. Len(transit) = N + 1 - n /\ \A j \in 1 .. Len(transit) : transit[j] = output.lines[n + 1 + j]
    BY <1>1, <1>2 DEF SameLines
  <1>5. Len(transit) > 0 /\ 1 \in 1 .. Len(transit) BY <1>2, <1>4
  <1>6. transit # <<>> /\ Head(transit) = transit[1] BY <1>5
  <1>7. transit[1] = output.lines[n + 2] BY <1>2, <1>4, <1>5
  <1>8. PICK d : d = digested.lines OBVIOUS
  <1>9. /\ d \in Seq(Wire) /\ Len(d) = N + 1 /\ \A i \in 1 .. N : d[i + 1] = submitted[i]
        /\ output.lines = Append(d, TrailerNow)
    BY <1>1, <1>8 DEF Intact, IsWhole
  <1>10. Append(d, TrailerNow)[N + 2] = TrailerNow /\ \A i \in 1 .. N + 1 : Append(d, TrailerNow)[i] = d[i]
    BY <1>1, <1>9
  <1>11. ASSUME n < N PROVE n + 1 \in 1 .. N /\ Head(transit) = submitted[n + 1]
    <2>1. n + 1 \in 1 .. N /\ n + 2 \in 1 .. N + 1 /\ n + 2 = (n + 1) + 1 BY <1>1, <1>2, <1>11
    <2> QED BY <1>6, <1>7, <1>9, <1>10, <2>1
  <1>12. n = N => Head(transit) = TrailerNow BY <1>6, <1>7, <1>9, <1>10
  <1> QED BY <1>1, <1>2, <1>3, <1>6, <1>7, <1>11, <1>12

\* One line further.
LEMMA OneLineFurther ==
  ASSUME Intact, SoFar, UNCHANGED writerVars, transit \in Seq(OnTheWay), hashed \in Seq(StreamLines),
         NEW n, n = RecordLines, n < Len(submitted), NEW line, line = Head(transit),
         hashed' = Append(hashed, line), transit' = Tail(transit)
  PROVE  /\ RecordLines' = n + 1 /\ SameLines(n + 1)' /\ n + 1 \in 0 .. Len(submitted)
  <1>1. PICK N \in Nat : N = Len(submitted) BY DEF Intact
  <1>2. /\ n \in Nat /\ n <= N /\ Len(hashed) = n + 1 /\ transit # <<>>
        /\ line = output.lines[n + 2]
    BY <1>1, NextLineIs
  <1>3. submitted' = submitted /\ digested' = digested /\ output' = output BY DEF writerVars
  <1>4. PICK d : d = digested.lines OBVIOUS
  <1>5. d \in Seq(Wire) /\ Len(d) = N + 1 /\ output.lines = Append(d, TrailerNow)
    BY <1>1, <1>4 DEF Intact, IsWhole
  <1>6. n < N /\ n + 2 \in 1 .. N + 1 BY <1>1, <1>2
  <1>7. line = d[n + 2] BY <1>1, <1>2, <1>5, <1>6
  <1>8. /\ \A i \in 1 .. Len(hashed) : hashed[i] = d[i]
        /\ Len(transit) = N + 1 - n
        /\ \A j \in 1 .. Len(transit) : transit[j] = output.lines[n + 1 + j]
    BY <1>1, <1>4 DEF SoFar, SameLines
  <1>9. Len(hashed') = n + 2 /\ \A i \in 1 .. Len(hashed') : hashed'[i] = d[i]
    <2>1. Len(hashed') = n + 2 /\ hashed'[n + 2] = line /\ \A i \in 1 .. n + 1 : hashed'[i] = hashed[i]
      BY <1>2
    <2>2. \A i \in 1 .. n + 2 : i = n + 2 \/ i \in 1 .. n + 1 BY <1>2
    <2> QED BY <1>2, <1>7, <1>8, <2>1, <2>2
  <1>10. /\ Len(transit') = N + 1 - (n + 1)
         /\ \A j \in 1 .. Len(transit') : transit'[j] = output.lines[(n + 1) + 1 + j]
    <2>1. Len(transit') = Len(transit) - 1 /\ \A j \in 1 .. Len(transit') : transit'[j] = transit[j + 1]
      BY <1>2
    <2>2. Len(transit') = N + 1 - (n + 1) BY <1>1, <1>2, <1>8, <2>1
    <2>3. ASSUME NEW j \in 1 .. Len(transit') PROVE transit'[j] = output.lines[(n + 1) + 1 + j]
      <3>1. j + 1 \in 1 .. Len(transit) /\ j \in Nat BY <1>1, <1>2, <1>8, <2>1, <2>2
      <3>2. n + 1 + (j + 1) = (n + 1) + 1 + j BY <1>2, <3>1
      <3> QED BY <1>8, <2>1, <3>1, <3>2
    <2> QED BY <2>2, <2>3
  <1>11. SameLines(n + 1)' BY <1>1, <1>3, <1>4, <1>9, <1>10 DEF SameLines
  <1>12. RecordLines' = n + 1 BY <1>2, <1>9 DEF RecordLines
  <1> QED BY <1>1, <1>2, <1>6, <1>11, <1>12

\* What is known of an archive to which nothing happened while it is read.
Reading(n) ==
  /\ phase = "reading" /\ Unharmed /\ Intact /\ SoFar
  /\ n = RecordLines /\ n \in Nat /\ n <= Len(submitted)
  /\ AreFirst(delivered, submitted, n) /\ WellGrouped(delivered, ContractCarries)
  /\ Decodes(n)
  /\ version # None /\ ContractCarries = Carries
  /\ delivered \in Seq(DataRecords) /\ ~verified
  /\ hashed \in Seq(StreamLines) /\ transit \in Seq(OnTheWay)

LEMMA ReadingIs ==
  ASSUME BothInv, AlarmInv, phase = "reading", Unharmed
  PROVE  Reading(RecordLines)
  <1>1. PInv /\ WriterInv /\ WriterRest /\ WholeInv /\ IInv /\ ReaderInv
    BY DEF BothInv, PInv
  <1>2. Intact BY <1>1, UnharmedIntact
  <1>3. SoFar /\ RightSoFar(RecordLines) BY DEF AlarmInv, SoFar
  <1>4. transit \in Seq(OnTheWay) /\ hashed \in Seq(StreamLines) BY <1>1 DEF PInv, IInv, RestOK
  <1>5. RecordLines \in Nat /\ RecordLines <= Len(submitted) BY <1>2, <1>3, <1>4, NextLineIs
  <1>6. version # None /\ delivered \in Seq(DataRecords) BY <1>1 DEF IInv, RestOK
  <1>7. ContractCarries = Carries BY <1>6 DEF ContractCarries, Carries, CarriesOriginals
  <1>8. ~verified BY <1>1 DEF ReaderInv
  <1> QED BY <1>2, <1>3, <1>4, <1>5, <1>6, <1>7, <1>8 DEF Reading, RightSoFar

LEMMA OpenSoFar ==
  ASSUME BothInv, AlarmInv, OpenReader, Unharmed, phase' = "reading"
  PROVE  SoFar'
  <1>1. PInv /\ WriterInv /\ WriterRest /\ WholeInv BY DEF BothInv, PInv
  <1>2. Intact BY <1>1, UnharmedIntact
  <1>3. UNCHANGED writerVars /\ shipped BY DEF OpenReader
  <1>4. /\ phase = "closed" /\ transit # <<>> /\ Open(Head(transit)) /\ transit' = Tail(transit)
    <2>1. ~RefuseOther /\ \A h : ~RefuseHeader(h)
      BY DEF RefuseOther, RefuseEmptyStream, RefuseHeader
    <2>2. transit # <<>> /\ Open(Head(transit)) /\ transit' = Tail(transit) BY <2>1 DEF OpenReader
    <2> QED BY <2>2 DEF Open
  <1>5. transit = output.lines BY <1>3, <1>4 DEF AlarmInv, Unharmed
  <1>6. PICK N \in Nat : N = Len(submitted) BY <1>2 DEF Intact
  <1>7. PICK d, t : d = digested.lines /\ t = transit OBVIOUS
  <1>8. d \in Seq(Wire) /\ Len(d) = N + 1 /\ t = Append(d, TrailerNow)
    BY <1>2, <1>5, <1>6, <1>7 DEF Intact, IsWhole
  <1>9. Head(t) = d[1] BY <1>6, <1>8
  <1>10. hashed' = <<d[1]>> /\ delivered' = delivered BY <1>4, <1>7, <1>9 DEF Open
  <1>11. delivered = <<>> BY <1>1, <1>4 DEF PInv, ReaderInv
  <1>12. submitted' = submitted /\ digested' = digested /\ output' = output
    BY <1>3 DEF writerVars
  <1>13. Len(hashed') = 1 /\ RecordLines' = 0 BY <1>10 DEF RecordLines
  <1>14. SameLines(0)'
    <2>1. Len(Tail(t)) = N + 1 - 0 /\ \A j \in 1 .. Len(Tail(t)) : Tail(t)[j] = t[0 + 1 + j]
      BY <1>6, <1>8
    <2>2. \A i \in 1 .. Len(hashed') : hashed'[i] = d[i] BY <1>10
    <2>3. transit' = Tail(t) /\ output'.lines = t BY <1>4, <1>5, <1>7, <1>12
    <2> QED BY <1>6, <1>7, <1>12, <2>1, <2>2, <2>3 DEF SameLines
  <1>15. RightSoFar(0)'
    <2>1. AreFirst(<<>>, submitted', 0) BY FirstNone
    <2>2. WellGrouped(<<>>, ContractCarries') BY DEF WellGrouped
    <2>3. Decodes(0)' BY DEF Decodes
    <2> QED BY <1>10, <1>11, <2>1, <2>2, <2>3 DEF RightSoFar
  <1>16. 0 \in 0 .. Len(submitted') BY <1>6, <1>12
  <1> QED BY <1>13, <1>14, <1>15, <1>16 DEF SoFar

-------------------------------------------------------------------------------
\* One more line of such an archive, and its end.

\* A record that is handed out, or a line of unknown kind, leaves all as it was
\* one line further.
LEMMA GoesOn ==
  ASSUME NEW n, Reading(n), UNCHANGED writerVars, version' = version, n < Len(submitted),
         NEW line, line = Head(transit), Hash(line), transit' = Tail(transit),
         line.kind # "malformed",
         AreFirst(delivered', submitted, n + 1), WellGrouped(delivered', ContractCarries)
  PROVE  SoFar'
  <1>1. /\ Intact /\ SoFar /\ transit \in Seq(OnTheWay) /\ hashed \in Seq(StreamLines)
        /\ n = RecordLines /\ n \in Nat
    BY DEF Reading
  <1>2. hashed' = Append(hashed, line) /\ ~TooLong(line) BY DEF Hash
  <1>3. line = submitted[n + 1] BY <1>1, NextLineIs
  <1>4. RecordLines' = n + 1 /\ SameLines(n + 1)' /\ n + 1 \in 0 .. Len(submitted)
    BY <1>1, <1>2, OneLineFurther
  <1>5. submitted' = submitted BY DEF writerVars
  <1>6. Decodes(n + 1)
    <2>1. \A i \in 1 .. n + 1 : i = n + 1 \/ i \in 1 .. n BY <1>1
    <2>2. Decodes(n) BY DEF Reading
    <2> QED BY <1>2, <1>3, <2>1, <2>2 DEF Decodes
  <1>7. Decodes(n + 1)' BY <1>5, <1>6, SameVersion DEF Decodes, TooLong, Carries
  <1>8. AreFirst(delivered', submitted', n + 1) /\ WellGrouped(delivered', ContractCarries')
    BY <1>5, SameVersion
  <1>9. RightSoFar(n + 1)' BY <1>7, <1>8 DEF RightSoFar
  <1> QED BY <1>4, <1>5, <1>9 DEF SoFar

LEMMA DeliveredGoesOn ==
  ASSUME BothInv, NEW n, Reading(n), UNCHANGED writerVars, n < Len(submitted),
         NEW line \in Lines, line = Head(transit), DeliverStep(line), transit' = Tail(transit)
  PROVE  SoFar' /\ phase' = "reading"
  <1>1. /\ RestOK /\ SlotsInv /\ OpenGroup /\ phase = "reading" /\ WriterRest
    BY DEF BothInv, IInv, GroupInv, Reading
  <1>2. Accepts(line) /\ Deliver(line) /\ line \in DataRecords /\ line.kind \in DataKinds
    BY <1>1, DeliveredAccepted
  <1>3. InPlace(Append(delivered, line), Len(Append(delivered, line)), ContractCarries)
    BY <1>1, <1>2, AcceptsIsInPlace
  <1>4. /\ delivered \in Seq(DataRecords) /\ WellGrouped(delivered, ContractCarries)
        /\ AreFirst(delivered, submitted, n) /\ n \in Nat
        /\ line = submitted[n + 1] /\ n + 1 \in 1 .. Len(submitted)
    BY NextLineIs DEF Reading
  <1>5. /\ Hash(line) /\ delivered' = Append(delivered, line) /\ phase' = "reading"
        /\ version' = version
    BY <1>1, <1>2 DEF Deliver, Hash, Take, opened
  <1>6. WellGrouped(delivered', ContractCarries)
    <2>1. PICK d, c : d = delivered /\ c = ContractCarries OBVIOUS
    <2>2. WellGrouped(Append(d, line), c) BY <1>2, <1>3, <1>4, <2>1, StaysGrouped
    <2> QED BY <1>5, <2>1, <2>2
  <1>7. AreFirst(delivered', submitted, n + 1)
    <2>1. submitted \in Seq(Submissions) /\ n + 1 <= Len(submitted) BY <1>1, <1>4 DEF WriterRest
    <2> QED BY <1>2, <1>4, <1>5, <2>1, FirstOne
  <1>8. line.kind # "malformed" BY <1>2 DEF DataKinds, PlainKinds
  <1> QED BY <1>5, <1>6, <1>7, <1>8, GoesOn

LEMMA SkippedGoesOn ==
  ASSUME NEW n, Reading(n), UNCHANGED writerVars, n < Len(submitted),
         NEW line \in Lines, line = Head(transit), SkipUnknown(line), transit' = Tail(transit)
  PROVE  SoFar' /\ phase' = "reading"
  <1>1. /\ Hash(line) /\ delivered' = delivered /\ phase' = "reading" /\ version' = version
        /\ line.kind # "malformed" /\ line.kind \notin DataKinds
    BY DEF SkipUnknown, Hash, Take, opened, Reading, DataKinds, PlainKinds
  <1>2. /\ WellGrouped(delivered, ContractCarries) /\ AreFirst(delivered, submitted, n) /\ n \in Nat
        /\ line = submitted[n + 1]
    BY NextLineIs DEF Reading
  <1>3. AreFirst(delivered, submitted, n + 1) BY <1>1, <1>2, FirstNoMore
  <1> QED BY <1>1, <1>2, <1>3, GoesOn

\* What the reader refuses was not worth reading.
LEMMA RefusedWorthless ==
  ASSUME BothInv, NEW n, Reading(n), n < Len(submitted),
         NEW line \in Lines, line = Head(transit), RefuseStep(line)
  PROVE  ~WorthReading
  <1>1. /\ RestOK /\ SlotsInv /\ OpenGroup /\ phase = "reading" /\ WriterRest /\ WholeInv
    BY DEF BothInv, IInv, GroupInv, Reading
  <1>2. ~Accepts(line) /\ line \in DataRecords /\ line.kind \in DataKinds
    BY <1>1, RefusedNotAccepted
  <1>3. ~InPlace(Append(delivered, line), Len(Append(delivered, line)), ContractCarries)
    BY <1>1, <1>2, AcceptsIsInPlace
  <1>4. /\ delivered \in Seq(DataRecords) /\ AreFirst(delivered, submitted, n) /\ n \in Nat
        /\ line = submitted[n + 1] /\ n + 1 \in 1 .. Len(submitted) /\ ContractCarries = Carries
    BY NextLineIs DEF Reading
  <1>5. PICK d, c, s : d = delivered /\ c = ContractCarries /\ s = submitted OBVIOUS
  <1>6. s \in Seq(Submissions) /\ DataIn(s) BY <1>1, <1>5, SubmittedData DEF WriterRest
  <1>7. n + 1 <= Len(s) BY <1>4, <1>5, <1>6
  <1>8. ~WellGrouped(Known(s), c)
    BY <1>2, <1>3, <1>4, <1>5, <1>6, <1>7, IllGrouped
  <1> QED BY <1>4, <1>5, <1>8 DEF WorthReading

LEMMA UndecodedWorthless ==
  ASSUME NEW n, Reading(n), n < Len(submitted), NEW line, line = Head(transit),
         line.kind = "malformed" \/ TooLong(line), submitted \in Seq(Submissions)
  PROVE  ~WorthReading
  <1>1. line = submitted[n + 1] /\ n + 1 \in 1 .. Len(submitted) BY NextLineIs DEF Reading
  <1>2. n + 1 \in DOMAIN submitted BY <1>1
  <1> QED BY <1>1, <1>2 DEF WorthReading

\* The trailer of such an archive is right, and refused if an original is short
\* of bytes.
LEMMA TrailerTells ==
  ASSUME BothInv, NEW n, Reading(n), n = Len(submitted)
  PROVE  /\ Known(submitted) = delivered
         /\ TrailerMatches(TrailerNow) <=> Complete(delivered)
  <1>1. /\ RestOK /\ SlotsInv /\ OpenGroup /\ ReaderInv /\ WriterRest /\ WholeInv
    BY DEF BothInv, PInv, IInv, GroupInv, Reading
  <1>2. /\ delivered \in Seq(DataRecords) /\ AreFirst(delivered, submitted, n) /\ n \in Nat
        /\ n <= Len(submitted) /\ Intact /\ SoFar /\ hashed \in Seq(StreamLines)
        /\ Len(hashed) = n + 1 /\ counts = Tally(hashed)
    BY <1>1, NextLineIs DEF Reading, ReaderInv
  <1>3. Known(submitted) = delivered
    <2>1. PICK d : d = delivered OBVIOUS
    <2> QED BY <1>1, <1>2, <2>1, SubmittedData, FirstRecords DEF WriterRest
  <1>4. hashed = digested.lines
    <2>1. PICK h, d : h = hashed /\ d = digested.lines OBVIOUS
    <2>2. h \in Seq(StreamLines) /\ d \in Seq(Wire) /\ Len(h) = n + 1 /\ Len(d) = n + 1
          /\ \A i \in 1 .. Len(h) : h[i] = d[i]
      BY <1>2, <2>1 DEF Intact, IsWhole, SoFar, SameLines
    <2>3. h = d BY <1>2, <2>2
    <2> QED BY <2>1, <2>3
  <1>5. tallied = counts BY <1>2, <1>4 DEF Intact
  <1>6. TrailerMatches(TrailerNow) <=> original = None
    BY <1>4, <1>5 DEF TrailerMatches, TrailerNow, Digest
  <1> QED BY <1>1, <1>3, <1>6, NoneOpenIsComplete

LEMMA WholeWorth ==
  ASSUME BothInv, NEW n, Reading(n), n = Len(submitted)
  PROVE  TrailerMatches(TrailerNow) <=> WorthReading
  <1>1. Known(submitted) = delivered /\ (TrailerMatches(TrailerNow) <=> Complete(delivered))
    BY TrailerTells
  <1>2. submitted \in Seq(Submissions) BY DEF BothInv, WriterRest
  <1>3. \A i \in DOMAIN submitted : submitted[i].kind # "malformed" /\ ~TooLong(submitted[i])
    BY <1>2 DEF Reading, Decodes
  <1>4. WellGrouped(delivered, Carries) BY DEF Reading
  <1> QED BY <1>1, <1>3, <1>4 DEF WorthReading

-------------------------------------------------------------------------------
\* No false alarm.

LEMMA WorthIsSame ==
  ASSUME UNCHANGED <<submitted, version>>
  PROVE  WorthReading' <=> WorthReading
  BY DEF WorthReading, TooLong, Carries

\* The end of the reading tells what it should.
LEMMA EndTells ==
  ASSUME BothInv, NEW n, Reading(n), UNCHANGED writerVars, NEW line \in OnTheWay,
         line = Head(transit), ReadNext(line), phase' = "stopped"
  PROVE  verified' <=> WorthReading
  <1>1. /\ ~verified /\ phase = "reading" /\ RestOK /\ SlotsInv /\ submitted \in Seq(Submissions)
        /\ n <= Len(submitted) /\ Len(submitted) \in Nat /\ n \in Nat
    BY DEF Reading, BothInv, IInv, WriterRest, Intact
  <1>2. CASE n < Len(submitted)
    <2>1. line = submitted[n + 1] /\ n + 1 \in 1 .. Len(submitted) BY <1>2, NextLineIs DEF Reading
    <2>2. line \in Submissions BY <1>1, <2>1
    <2>3. line.kind \notin {"trailer", "header", "manifest", "io_error"} /\ line \in Lines
      BY <2>2, SubmittedKinds
    <2>4. ReadLine(line) BY <2>3 DEF ReadNext
    <2>5. CASE DeliverStep(line)
      BY <1>1, <2>3, <2>5, DeliveredAccepted DEF Deliver
    <2>6. CASE RefuseStep(line)
      <3>1. ~WorthReading BY <1>2, <2>3, <2>6, RefusedWorthless
      <3>2. verified' = verified BY <1>1, <2>3, <2>6, RefusedNotAccepted DEF Refuse
      <3> QED BY <1>1, <3>1, <3>2
    <2>7. CASE SkipUnknown(line) BY <1>1, <2>7 DEF SkipUnknown
    <2>8. CASE RefuseLine(line) \/ FailRead(line)
      <3>1. verified' = verified BY <2>8 DEF RefuseLine, FailRead
      <3>2. line.kind = "malformed" \/ TooLong(line) BY <2>3, <2>8 DEF RefuseLine, FailRead
      <3>3. ~WorthReading BY <1>1, <1>2, <3>2, UndecodedWorthless
      <3> QED BY <1>1, <3>1, <3>3
    <2> QED BY <2>4, <2>5, <2>6, <2>7, <2>8, ReadSteps
  <1>3. CASE n = Len(submitted)
    <2>1. line = TrailerNow /\ TrailerNow.kind = "trailer"
      BY <1>3, NextLineIs DEF Reading, TrailerNow
    <2>2. AcceptTrailer(TrailerNow) \/ RefuseTrailer(TrailerNow) BY <2>1 DEF ReadNext
    <2>3. TrailerMatches(TrailerNow) <=> WorthReading BY <1>3, WholeWorth
    <2> QED BY <1>1, <2>2, <2>3 DEF AcceptTrailer, RefuseTrailer
  <1> QED BY <1>1, <1>2, <1>3

LEMMA MiddleGoesOn ==
  ASSUME ~PersistentCaller, BothInv, NEW n, Reading(n), UNCHANGED writerVars, NEW line \in OnTheWay,
         line = Head(transit), ReadNext(line), transit' = Tail(transit), phase' = "reading"
  PROVE  SoFar'
  <1>1. /\ phase = "reading" /\ RestOK /\ SlotsInv /\ submitted \in Seq(Submissions)
        /\ n <= Len(submitted) /\ Len(submitted) \in Nat /\ n \in Nat
    BY DEF Reading, BothInv, IInv, WriterRest, Intact
  <1>2. n < Len(submitted)
    <2> SUFFICES ASSUME n = Len(submitted) PROVE FALSE BY <1>1
    <2>1. line = TrailerNow /\ TrailerNow.kind = "trailer" BY NextLineIs DEF Reading, TrailerNow
    <2> QED BY <2>1 DEF ReadNext, AcceptTrailer, RefuseTrailer, ReturnLast
  <1>3. line = submitted[n + 1] /\ n + 1 \in 1 .. Len(submitted) BY <1>2, NextLineIs DEF Reading
  <1>4. line \in Submissions BY <1>1, <1>3
  <1>5. line.kind \notin {"trailer", "header"} /\ line \in Lines BY <1>4, SubmittedKinds
  <1>6. ReadLine(line) BY <1>5 DEF ReadNext
  <1>7. ~RefuseLine(line) /\ ~FailRead(line) BY DEF RefuseLine, FailRead, ReturnLast
  <1>8. ~RefuseStep(line) BY <1>1, <1>5, RefusedNotAccepted DEF Refuse, ReturnLast
  <1> QED BY <1>2, <1>5, <1>6, <1>7, <1>8, ReadSteps, DeliveredGoesOn, SkippedGoesOn

LEMMA InitAlarm == InitPipeline => AlarmInv
  BY DEF InitPipeline, Init, AlarmInv, NoFalseAlarm

\* A step that neither reads nor damages.
LEMMA AlarmStays ==
  ASSUME AlarmInv, UNCHANGED vars, UNCHANGED writerVars, UNCHANGED <<transit, damages>>, shipped' => shipped
  PROVE  AlarmInv'
  <1>1. UNCHANGED <<phase, version, hashed, delivered, verified>> BY DEF vars
  <1>2. UNCHANGED <<writing, output, digested, submitted>> BY DEF writerVars
  <1>3. phase' = "closed" /\ shipped' /\ damages' = 0 /\ writing' = "finished" =>
          transit' = output'.lines
    BY <1>1, <1>2 DEF AlarmInv
  <1>4. Unharmed' <=> Unharmed BY <1>2 DEF Unharmed
  <1>5. SoFar => SoFar'
    BY <1>1, <1>2 DEF SoFar, RecordLines, SameLines, RightSoFar, Decodes, AreFirst, KnownUpTo,
                      ContractCarries, Carries, TooLong
  <1>6. WorthReading' <=> WorthReading BY <1>1, <1>2, WorthIsSame
  <1>7. NoFalseAlarm' BY <1>1, <1>4, <1>6 DEF AlarmInv, NoFalseAlarm
  <1> QED BY <1>1, <1>3, <1>4, <1>5, <1>7 DEF AlarmInv

\* While the reader is closed only what is on the way matters.
LEMMA AlarmClosed ==
  ASSUME phase' = "closed", damages' \in Nat,
         shipped' /\ damages' = 0 /\ writing' = "finished" => transit' = output'.lines
  PROVE  AlarmInv'
  BY DEF AlarmInv, NoFalseAlarm

LEMMA ReadAlarm ==
  ASSUME ~PersistentCaller, BothInv, AlarmInv, Read
  PROVE  AlarmInv'
  <1>1. UNCHANGED writerVars /\ damages' = damages /\ phase = "reading" BY DEF Read
  <1>2. /\ PInv /\ RestOK /\ RestOK' /\ transit \in Seq(OnTheWay)
    BY NextBoth DEF BothInv, PInv, IInv, NextPipeline
  <1>3. Unharmed' <=> Unharmed BY <1>1 DEF Unharmed, writerVars
  <1>4. phase' \in {"reading", "stopped"} /\ UNCHANGED <<version, submitted>>
    <2>1. submitted' = submitted BY <1>1 DEF writerVars
    <2>2. CASE EndOfStream BY <2>1, <2>2 DEF EndOfStream, opened
    <2>3. ASSUME NEW line \in OnTheWay, ReadNext(line)
          PROVE  phase' \in {"reading", "stopped"} /\ version' = version
      <3>1. ASSUME line \in Lines, ReadLine(line)
            PROVE  phase' \in {"reading", "stopped"} /\ version' = version
        <4>1. CASE Deliver(line) \/ Refuse(line)
          BY <1>1, <4>1 DEF Deliver, Refuse, ReturnLast, Hash, Take, opened
        <4>2. CASE SkipUnknown(line) \/ RefuseLine(line) \/ FailRead(line)
          BY <1>1, <4>2 DEF SkipUnknown, RefuseLine, FailRead, ReturnLast, Hash, Take, opened
        <4> QED BY <3>1, <4>1, <4>2, CheckedRecord DEF ReadLine
      <3>2. CASE RefuseLine([kind |-> "manifest"])
        BY <3>2 DEF RefuseLine, ReturnLast, Hash, Take, opened
      <3>3. CASE AcceptTrailer(line) \/ RefuseTrailer(line)
        BY <3>3 DEF AcceptTrailer, RefuseTrailer, ReturnLast, Hash, Take, opened
      <3> QED BY <2>3, <3>1, <3>2, <3>3, LinesOnTheWay DEF ReadNext
    <2> QED BY <1>2, <2>1, <2>2, <2>3 DEF Read
  <1>5. ASSUME Unharmed
        PROVE  /\ phase' = "reading" => SoFar'
               /\ phase' = "stopped" => (verified' <=> WorthReading)
    <2>1. PICK n : n = RecordLines OBVIOUS
    <2>2. Reading(n) BY <1>1, <1>5, <2>1, ReadingIs
    <2>3. transit # <<>> BY <2>2, NextLineIs DEF Reading
    <2>4. PICK line : line = Head(transit) OBVIOUS
    <2>5. line \in OnTheWay BY <1>2, <2>3, <2>4
    <2>6. ReadNext(line) /\ transit' = Tail(transit) BY <2>3, <2>4 DEF Read
    <2> QED BY <1>1, <2>2, <2>4, <2>5, <2>6, EndTells, MiddleGoesOn
  <1>6. WorthReading' <=> WorthReading BY <1>4, WorthIsSame
  <1>7. damages' \in Nat BY <1>1 DEF AlarmInv
  <1> QED BY <1>3, <1>4, <1>5, <1>6, <1>7 DEF AlarmInv, NoFalseAlarm

LEMMA NextAlarm ==
  ASSUME ~PersistentCaller, BothInv, AlarmInv, [NextPipeline]_pipelineVars
  PROVE  AlarmInv'
  <1>1. PInv BY DEF BothInv
  <1>2. CASE Export
    <2>1. writing \in {"unopened", "open"}
      BY <1>2 DEF Export, Write, OpenWriter, FailOpen, WriteRecord, FailWrite, Submit, RefuseWrite,
                  Finish, FailFinish, DropWriter
    <2>2. ~shipped /\ phase = "closed" BY <1>1, <2>1 DEF PInv
    <2>3. ~shipped' /\ phase' = "closed"
      BY <1>2, <2>2 DEF Export, readerVars, vars, transportVars
    <2>4. damages' \in Nat BY <1>2 DEF AlarmInv, Export, transportVars
    <2> QED BY <2>3, <2>4, AlarmClosed
  <1>3. CASE Ship
    <2>1. /\ ~shipped /\ transit' \in Arrivals /\ UNCHANGED writerVars /\ UNCHANGED vars
      BY <1>3 DEF Ship, readerVars
    <2>2. phase' = "closed" BY <1>1, <2>1 DEF PInv, vars
    <2>3. writing' = writing /\ output' = output BY <2>1 DEF writerVars
    <2>4. writing = "finished" => transit' = output.lines BY <2>1 DEF Arrivals
    <2>5. damages' \in Nat BY <1>3 DEF AlarmInv, Ship
    <2> QED BY <2>2, <2>3, <2>4, <2>5, AlarmClosed
  <1>4. CASE Damage
    <2>1. phase' = "closed" /\ damages' = damages + 1 BY <1>4 DEF Damage, readerVars, vars
    <2>2. damages \in Nat BY DEF AlarmInv
    <2>3. damages' \in Nat /\ damages' # 0 BY <2>1, <2>2
    <2> QED BY <2>1, <2>3, AlarmClosed
  <1>5. CASE OpenReader
    <2>1. UNCHANGED writerVars /\ damages' = damages /\ shipped BY <1>5 DEF OpenReader
    <2>2. phase' \in {"reading", "refused"}
      BY <1>5 DEF OpenReader, RefuseOther, Open, RefuseHeader, RefuseEmptyStream
    <2>3. Unharmed' <=> Unharmed BY <2>1 DEF Unharmed, writerVars
    <2>4. Unharmed /\ phase' = "reading" => SoFar' BY <1>5, OpenSoFar
    <2>5. damages' \in Nat BY <2>1 DEF AlarmInv
    <2> QED BY <2>2, <2>3, <2>4, <2>5 DEF AlarmInv, NoFalseAlarm
  <1>6. CASE Read BY <1>6, ReadAlarm
  <1>7. CASE Finished \/ UNCHANGED pipelineVars
    <2>1. UNCHANGED vars /\ UNCHANGED writerVars /\ UNCHANGED <<shipped, transit, damages>>
      BY <1>7 DEF Finished, pipelineVars, readerVars, transportVars
    <2> QED BY <2>1, AlarmStays
  <1> QED BY <1>2, <1>3, <1>4, <1>5, <1>6, <1>7 DEF NextPipeline

\* For an importer that stops at the first error, any records and any archive: one
\* that was finished without a failed write and arrives undamaged is read to its
\* verified end exactly if its records are well-grouped, decode, are within the
\* line bound and leave no original short of bytes.
THEOREM NoFalseAlarmAlways == ~PersistentCaller => (PipelineSpec => []NoFalseAlarm)
  <1> SUFFICES ASSUME ~PersistentCaller PROVE PipelineSpec => []NoFalseAlarm OBVIOUS
  <1>1. BothInv /\ AlarmInv /\ [NextPipeline]_pipelineVars => (BothInv /\ AlarmInv)'
    BY NextBoth, NextAlarm
  <1>2. InitPipeline => BothInv /\ AlarmInv BY InitBoth, InitAlarm
  <1>3. BothInv /\ AlarmInv => NoFalseAlarm BY DEF AlarmInv
  <1> QED BY <1>1, <1>2, <1>3, PTL DEF PipelineSpec
===============================================================================
