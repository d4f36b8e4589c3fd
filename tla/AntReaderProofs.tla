---------------------------- MODULE AntReaderProofs ----------------------------
(***************************************************************************)
(* Theorems about AntReader, for every set of lines, every manifest        *)
(* budget, streams of any length, and callers of both sorts, and that it   *)
(* implements its contract for a caller that stops at the first error.     *)
(***************************************************************************)
EXTENDS AntReaderProps, FiniteSetTheorems, SequenceTheorems, TLAPS

\* TypeOK in two parts: what check_originals keeps, and the rest.
SlotsOK ==
  /\ original \in PendingOriginal \union {None}
  /\ completed \in CompletedOriginal \union {None}
  /\ derivativesOf \in DerivativesOf \union {None}

RestOK ==
  /\ phase \in {"closed", "refused", "reading", "stopped"}
  /\ version \in FormatVersion \union {None}
  /\ phase \in {"reading", "stopped"} => version # None
  /\ minorAhead \in BOOLEAN
  /\ lineNo \in Nat
  /\ hashed \in Seq(StreamLines)
  /\ counts \in Counts
  /\ verified \in BOOLEAN
  /\ outcome \in {"none", "skipped", "record", "refused", "error", "end"}
  /\ stream \in Seq(StreamLines)
  /\ delivered \in Seq(DataRecords)

LEMMA TypeParts == TypeOK <=> RestOK /\ SlotsOK
BY DEF TypeOK, RestOK, SlotsOK

\* A line's kind says which records it is one of.
LEMMA LineKinds ==
  ASSUME NEW r \in Lines
  PROVE  /\ r \in StreamLines
         /\ r.kind \in DataKinds <=> r \in DataRecords
         /\ r.kind = "original_chunk" => r \in OriginalChunk
         /\ r.kind = "original_source" => r \in OriginalSource
         /\ r.kind = "evidence" => r \in Evidence
         /\ r.kind \in PlainKinds => r \in PlainRecord
<1>1. r \in DataRecords \union OtherLines
  BY ConstantsAssumption
<1>2. CASE r \in Evidence
  BY <1>2 DEF StreamLines, DataRecords, Evidence, DataKinds, PlainKinds
<1>3. CASE r \in OriginalChunk
  BY <1>3 DEF StreamLines, DataRecords, OriginalChunk, DataKinds, PlainKinds
<1>4. CASE r \in OriginalSource
  BY <1>4 DEF StreamLines, DataRecords, OriginalSource, DataKinds, PlainKinds
<1>5. CASE r \in PlainRecord
  BY <1>5 DEF StreamLines, DataRecords, PlainRecord, DataKinds, PlainKinds
<1>6. CASE r \in OtherLines
  <2>1. r.kind \notin DataKinds
    BY <1>6 DEF OtherLines, DataKinds, PlainKinds
  <2>2. \A d \in DataRecords : d.kind \in DataKinds
    BY DEF DataRecords, Evidence, OriginalChunk, OriginalSource, PlainRecord, DataKinds
  <2>. QED  BY <1>6, <2>1, <2>2 DEF StreamLines, DataKinds
<1>. QED  BY <1>1, <1>2, <1>3, <1>4, <1>5, <1>6 DEF DataRecords

\* What every step that hashes a line does to the part of the state outside
\* check_originals.
LEMMA HashType ==
  ASSUME RestOK, NEW line \in StreamLines, Hash(line)
  PROVE  /\ version' = version /\ minorAhead' = minorAhead
         /\ lineNo' \in Nat
         /\ hashed' \in Seq(StreamLines)
         /\ stream' \in Seq(StreamLines)
BY DEF RestOK, Hash, Take, opened

LEMMA CountType ==
  ASSUME RestOK, NEW r \in DataRecords, r.kind \in DataKinds, Count(r)
  PROVE  counts' \in Counts
BY DEF RestOK, Count, Counts

LEMMA RefuseType ==
  ASSUME RestOK, phase = "reading", NEW r \in Lines, r.kind \in DataKinds, Refuse(r)
  PROVE  RestOK'
<1>1. r \in DataRecords /\ r \in StreamLines
  BY LineKinds
<1>2. counts' \in Counts
  BY <1>1, CountType DEF Refuse
<1>. QED
  BY <1>1, <1>2, HashType DEF RestOK, Refuse, ReturnLast

LEMMA DeliverType ==
  ASSUME RestOK, phase = "reading", NEW r \in Lines, r.kind \in DataKinds, Deliver(r)
  PROVE  RestOK'
<1>1. r \in DataRecords /\ r \in StreamLines
  BY LineKinds
<1>2. counts' \in Counts
  BY <1>1, CountType DEF Deliver
<1>3. delivered' \in Seq(DataRecords)
  BY <1>1 DEF Deliver, RestOK
<1>. QED
  BY <1>1, <1>2, <1>3, HashType DEF RestOK, Deliver

-------------------------------------------------------------------------------
(***************************************************************************)
(* The inductive invariant.  AtMostOneOpen needs nothing else; the product *)
(* in PendingBookkeeping needs the chunk length to be known as soon as one *)
(* chunk was accepted, which is its first conjunct.                        *)
(***************************************************************************)
SlotsInv == SlotsOK /\ AtMostOneOpen /\ PendingBookkeeping
IInv == RestOK /\ SlotsInv

LEMMA SlotsUnchanged ==
  ASSUME SlotsInv, UNCHANGED slots
  PROVE  SlotsInv'
BY DEF SlotsInv, SlotsOK, AtMostOneOpen, PendingBookkeeping, slots

LEMMA NextProduct ==
  ASSUME NEW n \in Nat, NEW c \in Nat
  PROVE  (n + 1) * c = n * c + c
OBVIOUS

\* The bytes a chunk adds, and what its length must be.
LEMMA ChunkFacts ==
  ASSUME SlotsInv, NEW r \in Lines, r.kind = "original_chunk", ChunkIsNext(r)
  PROVE  /\ r \in OriginalChunk
         /\ original \in PendingOriginal
         /\ Len(r.raw) \in Nat \ {0}
         /\ FirstLength(original, r) \in Nat \ {0}
         /\ ChunkEnd(original, r) \in Nat
         /\ completed = None /\ derivativesOf = None
<1>1. r \in OriginalChunk
  BY LineKinds
<1>2. original \in PendingOriginal /\ completed = None /\ derivativesOf = None
  BY DEF ChunkIsNext, SlotsInv, SlotsOK, AtMostOneOpen
<1>3. Len(r.raw) \in Nat \ {0}
  BY <1>1 DEF OriginalChunk, ChunkIsNext
<1>. QED
  BY <1>1, <1>2, <1>3 DEF FirstLength, ChunkEnd, PendingOriginal

LEMMA RefuseChunkLengthSlots ==
  ASSUME SlotsInv, NEW r \in Lines, RefuseChunkLength(r)
  PROVE  SlotsInv'
<1>1. r.kind = "original_chunk" /\ ChunkIsNext(r)
  BY DEF RefuseChunkLength
<1>2. original' = [original EXCEPT !.chunkLen = FirstLength(original, r)]
  BY DEF RefuseChunkLength
<1>3. original' \in PendingOriginal /\ original' # None
  BY <1>1, <1>2, ChunkFacts, NoneAssumption DEF PendingOriginal
<1>4. SlotsOK' /\ AtMostOneOpen'
  BY <1>1, <1>3, ChunkFacts DEF SlotsInv, SlotsOK, AtMostOneOpen, RefuseChunkLength
<1>5. original.nextOffset = original'.nextIndex * original'.chunkLen
  <2>1. CASE original.chunkLen # 0
    BY <1>1, <1>2, <2>1, ChunkFacts
    DEF PendingOriginal, FirstLength, SlotsInv, PendingBookkeeping, ChunkIsNext
  <2>2. CASE original.chunkLen = 0
    <3>1. original.nextIndex = 0 /\ original.nextOffset = 0
      BY <1>1, <2>2, ChunkFacts DEF PendingOriginal, SlotsInv, PendingBookkeeping, ChunkIsNext
    <3>2. original'.nextIndex = 0 /\ original'.chunkLen \in Nat
      BY <1>1, <1>2, <3>1, ChunkFacts DEF PendingOriginal
    <3>. QED  BY <3>1, <3>2
  <2>. QED  BY <2>1, <2>2
<1>6. PendingBookkeeping'
  BY <1>1, <1>2, <1>3, <1>5, ChunkFacts
  DEF PendingOriginal, SlotsInv, PendingBookkeeping, ChunkIsNext
<1>. QED  BY <1>4, <1>6 DEF SlotsInv

LEMMA AcceptChunkSlots ==
  ASSUME SlotsInv, NEW r \in Lines, AcceptChunk(r)
  PROVE  SlotsInv'
<1>1. /\ r.kind = "original_chunk" /\ ChunkIsNext(r)
      /\ LengthFits(original, r) /\ ~IsLastChunk(original, r)
  BY DEF AcceptChunk
<1> DEFINE first == FirstLength(original, r)
<1>2. original' = [original EXCEPT !.chunkLen = first,
                                   !.received = original.received \o r.raw,
                                   !.nextIndex = original.nextIndex + 1,
                                   !.nextOffset = ChunkEnd(original, r)]
  BY DEF AcceptChunk
<1>3. /\ r \in OriginalChunk /\ original \in PendingOriginal
      /\ Len(r.raw) \in Nat \ {0} /\ first \in Nat \ {0}
      /\ ChunkEnd(original, r) \in Nat
      /\ completed = None /\ derivativesOf = None
  BY <1>1, ChunkFacts
<1>4. original.received \o r.raw \in Seq(Bytes)
      /\ Len(original.received \o r.raw) = Len(original.received) + Len(r.raw)
  BY <1>3 DEF PendingOriginal, OriginalChunk
<1>5. original' \in PendingOriginal /\ original' # None
  <2>1. original.nextIndex + 1 \in Nat
    BY <1>3 DEF PendingOriginal
  <2>2. original' \in PendingOriginal
    BY <1>2, <1>3, <1>4, <2>1 DEF PendingOriginal
  <2>. QED  BY <2>2, NoneAssumption
<1>6. SlotsOK' /\ AtMostOneOpen'
  BY <1>3, <1>5 DEF SlotsOK, AtMostOneOpen, AcceptChunk
<1>7. Len(r.raw) = first /\ ChunkEnd(original, r) < original.blob.byteLength
  BY <1>1, <1>3 DEF LengthFits, IsLastChunk, PendingOriginal, SourceBlob
<1>8. original.nextOffset = original.nextIndex * first
  <2>1. CASE original.chunkLen # 0
    BY <1>1, <1>3, <2>1 DEF FirstLength, SlotsInv, PendingBookkeeping, ChunkIsNext
  <2>2. CASE original.chunkLen = 0
    <3>1. original.nextIndex = 0 /\ original.nextOffset = 0
      BY <1>1, <1>3, <2>2 DEF PendingOriginal, SlotsInv, PendingBookkeeping, ChunkIsNext
    <3>. QED  BY <1>3, <3>1
  <2>. QED  BY <2>1, <2>2
<1>9. ChunkEnd(original, r) = (original.nextIndex + 1) * first
  BY <1>3, <1>7, <1>8, NextProduct DEF ChunkEnd, PendingOriginal
<1>10. PendingBookkeeping'
  <2>1. /\ original'.nextOffset = ChunkEnd(original, r)
        /\ original'.nextIndex = original.nextIndex + 1
        /\ original'.chunkLen = first
        /\ original'.received = original.received \o r.raw
        /\ original'.blob = original.blob
    BY <1>2, <1>3 DEF PendingOriginal
  <2>2. original.nextOffset = Len(original.received)
    BY <1>1 DEF SlotsInv, PendingBookkeeping, ChunkIsNext
  <2>. QED
    BY <1>3, <1>4, <1>7, <1>9, <2>1, <2>2 DEF PendingBookkeeping, ChunkEnd
<1>. QED  BY <1>6, <1>10 DEF SlotsInv

LEMMA EndOfOriginalSlots ==
  ASSUME SlotsInv, NEW r \in Lines, CompleteOriginal(r) \/ RefuseOriginal(r)
  PROVE  SlotsInv'
<1>1. r.kind = "original_chunk" /\ ChunkIsNext(r)
  BY DEF CompleteOriginal, RefuseOriginal
<1>2. original' = None /\ derivativesOf' = None
  BY <1>1, ChunkFacts DEF CompleteOriginal, RefuseOriginal
<1>3. completed' \in CompletedOriginal \union {None}
  BY <1>1, ChunkFacts DEF CompleteOriginal, RefuseOriginal, PendingOriginal, CompletedOriginal
<1>. QED
  BY <1>2, <1>3 DEF SlotsInv, SlotsOK, AtMostOneOpen, PendingBookkeeping

LEMMA ChunkSlots ==
  ASSUME SlotsInv, NEW r \in Lines, ReadChunk(r)
  PROVE  SlotsInv'
<1>1. CASE RefuseMisplacedChunk(r)
  BY <1>1, SlotsUnchanged DEF RefuseMisplacedChunk
<1>. QED
  BY <1>1, RefuseChunkLengthSlots, AcceptChunkSlots, EndOfOriginalSlots DEF ReadChunk

LEMMA SourceSlots ==
  ASSUME SlotsInv, NEW r \in Lines, AcceptSource(r) \/ RefuseSource(r)
  PROVE  SlotsInv'
<1>1. CASE RefuseSource(r)
  BY <1>1, SlotsUnchanged DEF RefuseSource
<1>2. CASE AcceptSource(r)
  <2>1. r \in OriginalSource /\ completed \in CompletedOriginal /\ original = None
    BY <1>2, LineKinds DEF AcceptSource, SourceFollows, SlotsInv, SlotsOK
  <2>2. completed' \in CompletedOriginal /\ original' = None /\ derivativesOf' = None
    BY <1>2, <2>1, NoneAssumption
    DEF AcceptSource, OriginalSource, CompletedOriginal, SlotsInv, AtMostOneOpen
  <2>. QED
    BY <2>2 DEF SlotsInv, SlotsOK, AtMostOneOpen, PendingBookkeeping
<1>. QED  BY <1>1, <1>2

LEMMA PrimarySlots ==
  ASSUME SlotsInv, NEW r \in Lines, ReadPrimary(r)
  PROVE  SlotsInv'
<1>1. r.blob \in SourceBlob /\ r.id \in EvidenceIds
  BY LineKinds DEF ReadPrimary, IsPrimary, Evidence
<1>2. CASE r.blob.byteLength = 0
  <2>1. /\ completed' = [evidenceId |-> r.id, blob |-> r.blob, last |-> 0]
        /\ original' = None /\ derivativesOf' = None
    BY <1>2 DEF ReadPrimary
  <2>. QED
    BY <1>1, <2>1 DEF SlotsInv, SlotsOK, AtMostOneOpen, PendingBookkeeping, CompletedOriginal
<1>3. CASE r.blob.byteLength # 0
  <2>1. /\ completed' = None /\ derivativesOf' = None
        /\ original' = [evidenceId |-> r.id, blob |-> r.blob, nextIndex |-> 0,
                        nextOffset |-> 0, chunkLen |-> 0, received |-> <<>>]
    BY <1>3 DEF ReadPrimary
  <2>2. original' \in PendingOriginal /\ original'.blob.byteLength \in Nat \ {0}
    BY <1>1, <1>3, <2>1 DEF PendingOriginal, SourceBlob
  <2>. QED
    BY <2>1, <2>2 DEF SlotsInv, SlotsOK, AtMostOneOpen, PendingBookkeeping
<1>. QED  BY <1>2, <1>3

LEMMA DerivativeSlots ==
  ASSUME SlotsInv, NEW r \in Lines, AcceptDerivative(r)
  PROVE  SlotsInv'
<1>1. SlotOf(r.derivation) \in Slot
  BY LineKinds DEF AcceptDerivative, IsDerivative, Evidence, Derivation, SlotOf, Slot
<1>2. /\ original' = None /\ completed' = None
      /\ derivativesOf' = [ContinuedPrimary EXCEPT !.last = SlotOf(r.derivation)]
  BY DEF AcceptDerivative
<1>3. CASE completed # None
  <2>1. /\ completed.evidenceId \in EvidenceIds /\ completed.blob \in SourceBlob
    BY <1>3 DEF SlotsInv, SlotsOK, CompletedOriginal
  <2>2. derivativesOf' = [evidenceId |-> completed.evidenceId, blob |-> completed.blob,
                          last |-> SlotOf(r.derivation)]
    BY <1>2, <1>3 DEF ContinuedPrimary
  <2>3. derivativesOf' \in DerivativesOf
    BY <1>1, <2>1, <2>2 DEF DerivativesOf
  <2>. QED
    BY <1>2, <2>3 DEF SlotsInv, SlotsOK, AtMostOneOpen, PendingBookkeeping
<1>4. CASE completed = None
  <2>1. derivativesOf \in DerivativesOf
    BY <1>4 DEF SlotsInv, SlotsOK, AcceptDerivative, DerivativeFollows
  <2>2. derivativesOf' \in DerivativesOf
    BY <1>1, <1>2, <1>4, <2>1 DEF DerivativesOf, ContinuedPrimary
  <2>. QED
    BY <1>2, <2>2 DEF SlotsInv, SlotsOK, AtMostOneOpen, PendingBookkeeping
<1>. QED  BY <1>3, <1>4

\* ReadPlain, RefusePrimary and RefuseMisplacedDerivative forget what was open.
LEMMA OtherSlots ==
  ASSUME SlotsInv, NEW r \in Lines, ReadOther(r)
  PROVE  SlotsInv'
<1>1. CASE RefuseInterruption(r)
  BY <1>1, SlotsUnchanged DEF RefuseInterruption
<1>2. CASE RefuseMalformedDerivative(r)
  BY <1>2, SlotsUnchanged DEF RefuseMalformedDerivative
<1>3. CASE ReadPlain(r) \/ RefusePrimary(r) \/ RefuseMisplacedDerivative(r)
  <2>1. original' = None /\ completed' = None /\ derivativesOf' = None
    BY <1>3 DEF ReadPlain, RefusePrimary, RefuseMisplacedDerivative
  <2>. QED
    BY <2>1 DEF SlotsInv, SlotsOK, AtMostOneOpen, PendingBookkeeping
<1>. QED
  BY <1>1, <1>2, <1>3, PrimarySlots, DerivativeSlots DEF ReadOther

-------------------------------------------------------------------------------
\* What a step does to the rest of the state

LEMMA NewRest ==
  ASSUME RestOK, New
  PROVE  RestOK'
<1>1. ASSUME NEW h \in Headers, Open(h)
      PROVE  RestOK'
  <2>1. h \in Header /\ h \in StreamLines
    BY ConstantsAssumption DEF StreamLines
  <2>2. h.version \in FormatVersion
    BY <1>1, <2>1 DEF Open, HeaderAccepted, Header
  <2>3. version' \in FormatVersion /\ version' # None
    BY <1>1, <2>2, NoneAssumption DEF Open
  <2>. QED
    BY <1>1, <2>1, <2>3 DEF RestOK, Open
<1>2. ASSUME NEW h \in Headers, RefuseHeader(h)
      PROVE  RestOK'
  BY <1>2 DEF RestOK, RefuseHeader, opened
<1>3. ASSUME RefuseEmptyStream
      PROVE  RestOK'
  BY <1>3 DEF RestOK, RefuseEmptyStream, opened
<1>. QED  BY <1>1, <1>2, <1>3 DEF New

\* Every record check_originals sees is either delivered or refused.
LEMMA CheckedRecord ==
  ASSUME NEW r \in Lines, ReadChunk(r) \/ AcceptSource(r) \/ RefuseSource(r) \/ ReadOther(r)
  PROVE  r.kind \in DataKinds /\ (Deliver(r) \/ Refuse(r))
<1>1. CASE ReadChunk(r)
  BY <1>1 DEF ReadChunk, RefuseMisplacedChunk, RefuseChunkLength, AcceptChunk,
              CompleteOriginal, RefuseOriginal, DataKinds
<1>2. CASE AcceptSource(r) \/ RefuseSource(r)
  BY <1>2 DEF AcceptSource, RefuseSource, DataKinds
<1>3. CASE ReadOther(r)
  BY <1>3 DEF ReadOther, RefuseInterruption, ReadPlain, ReadPrimary, RefusePrimary,
              AcceptDerivative, RefuseMalformedDerivative, RefuseMisplacedDerivative,
              IsPrimary, IsDerivative, DataKinds
<1>. QED  BY <1>1, <1>2, <1>3

LEMMA OtherLineRest ==
  ASSUME RestOK, phase = "reading", NEW line \in Lines,
         SkipUnknown(line) \/ RefuseLine(line) \/ FailRead(line)
  PROVE  RestOK'
<1>1. line \in StreamLines
  BY LineKinds
<1>2. CASE SkipUnknown(line)
  BY <1>1, <1>2, HashType DEF RestOK, SkipUnknown
<1>3. CASE RefuseLine(line)
  BY <1>1, <1>3, HashType DEF RestOK, RefuseLine, ReturnLast
<1>4. CASE FailRead(line)
  BY <1>1, <1>4 DEF RestOK, FailRead, Take, ReturnLast, opened
<1>. QED  BY <1>2, <1>3, <1>4

LEMMA TrailerRest ==
  ASSUME RestOK, phase = "reading", NEW t, AcceptTrailer(t) \/ RefuseTrailer(t)
  PROVE  RestOK'
<1>1. TrailerLine \in StreamLines
  BY DEF StreamLines
<1>2. CASE AcceptTrailer(t)
  BY <1>1, <1>2, HashType DEF RestOK, AcceptTrailer, ReturnLast
<1>3. CASE RefuseTrailer(t)
  BY <1>1, <1>3, HashType DEF RestOK, RefuseTrailer, ReturnLast
<1>. QED  BY <1>2, <1>3

LEMMA InitIInv == Init => IInv
<1>. SUFFICES ASSUME Init PROVE IInv
  OBVIOUS
<1>1. ZeroCounts \in Counts
  BY DEF ZeroCounts, Counts
<1>2. <<>> \in Seq(StreamLines) /\ <<>> \in Seq(DataRecords)
  OBVIOUS
<1>. QED
  BY <1>1, <1>2 DEF Init, IInv, RestOK, SlotsInv, SlotsOK, AtMostOneOpen, PendingBookkeeping

LEMMA NextIInv == IInv /\ [Next]_vars => IInv'
<1>. SUFFICES ASSUME IInv, [Next]_vars PROVE IInv'
  OBVIOUS
<1>1. RestOK /\ SlotsInv
  BY DEF IInv
<1>2. CASE New
  <2>1. UNCHANGED slots
    BY <1>2 DEF New, Open, RefuseHeader, RefuseEmptyStream
  <2>. QED  BY <1>1, <1>2, <2>1, NewRest, SlotsUnchanged DEF IInv
<1>3. ASSUME phase = "reading", NEW r \in Lines,
             ReadChunk(r) \/ AcceptSource(r) \/ RefuseSource(r) \/ ReadOther(r)
      PROVE  IInv'
  <2>1. RestOK'
    BY <1>1, <1>3, CheckedRecord, RefuseType, DeliverType
  <2>2. SlotsInv'
    BY <1>1, <1>3, ChunkSlots, SourceSlots, OtherSlots
  <2>. QED  BY <2>1, <2>2 DEF IInv
<1>4. ASSUME phase = "reading", NEW line \in Lines,
             SkipUnknown(line) \/ RefuseLine(line) \/ FailRead(line)
      PROVE  IInv'
  <2>1. UNCHANGED slots
    BY <1>4 DEF SkipUnknown, RefuseLine, FailRead
  <2>. QED  BY <1>1, <1>4, <2>1, OtherLineRest, SlotsUnchanged DEF IInv
<1>5. ASSUME phase = "reading", NEW t \in Trailers, AcceptTrailer(t) \/ RefuseTrailer(t)
      PROVE  IInv'
  <2>1. UNCHANGED slots
    BY <1>5 DEF AcceptTrailer, RefuseTrailer
  <2>. QED  BY <1>1, <1>5, <2>1, TrailerRest, SlotsUnchanged DEF IInv
<1>6. CASE EndOfStream /\ phase = "reading"
  <2>1. UNCHANGED slots /\ RestOK'
    BY <1>1, <1>6 DEF EndOfStream, RestOK, opened
  <2>. QED  BY <1>1, <2>1, SlotsUnchanged DEF IInv
<1>7. CASE UNCHANGED vars
  <2>1. UNCHANGED slots /\ RestOK'
    BY <1>1, <1>7 DEF vars, slots, RestOK
  <2>. QED  BY <1>1, <2>1, SlotsUnchanged DEF IInv
<1>. QED
  BY <1>2, <1>3, <1>4, <1>5, <1>6, <1>7 DEF Next, NextRecord, ReadLine, Done

LEMMA Inductive == Spec => []IInv
BY InitIInv, NextIInv, PTL DEF Spec

\* Every variable of the reader stays in its type.
THEOREM TypeCorrect == Spec => []TypeOK
<1>1. IInv => TypeOK
  BY TypeParts DEF IInv, SlotsInv
<1>. QED  BY <1>1, Inductive, PTL

\* The reader never holds two conflicting expectations of what comes next:
\* original, completed and derivatives_of exclude one another along every
\* path through check_originals, those that fail half-way included.
THEOREM AtMostOneOpenAlways == Spec => []AtMostOneOpen
<1>1. IInv => AtMostOneOpen
  BY DEF IInv, SlotsInv
<1>. QED  BY <1>1, Inductive, PTL

\* The offset, index and length of a pending original always agree, so an
\* original is never waited for once complete nor read past its end.
THEOREM BookkeepingAlways == Spec => []PendingBookkeeping
<1>1. IInv => PendingBookkeeping
  BY DEF IInv, SlotsInv
<1>. QED  BY <1>1, Inductive, PTL

-------------------------------------------------------------------------------
(***************************************************************************)
(* What a verified trailer proves: the counts AntReader keeps are the      *)
(* tally of the lines it hashed, whatever errors came between, so that the *)
(* trailer it accepts is true of every line the reader could read.         *)
(***************************************************************************)

\* The lines of a kind are finitely many.
LEMMA KindIndices ==
  ASSUME NEW S, NEW s \in Seq(S), NEW k
  PROVE  /\ IsFiniteSet({i \in DOMAIN s : s[i].kind = k})
         /\ Cardinality({i \in DOMAIN s : s[i].kind = k}) \in Nat
<1>1. IsFiniteSet(1 .. Len(s))
  BY FS_Interval
<1>2. {i \in DOMAIN s : s[i].kind = k} \subseteq 1 .. Len(s)
  OBVIOUS
<1>3. IsFiniteSet({i \in DOMAIN s : s[i].kind = k})
  BY <1>1, <1>2, FS_Subset
<1>. QED  BY <1>3, FS_CardinalityType

\* One more line adds one to the tally of its kind and to no other.
LEMMA TallyAppend ==
  ASSUME NEW S, NEW s \in Seq(S), NEW r \in S
  PROVE  Tally(Append(s, r)) =
           IF r.kind \in DataKinds THEN [Tally(s) EXCEPT ![r.kind] = @ + 1] ELSE Tally(s)
<1> DEFINE t == Append(s, r)
           Of(q, k) == {i \in DOMAIN q : q[i].kind = k}
<1>1. /\ DOMAIN t = 1 .. (Len(s) + 1)
      /\ \A i \in 1 .. Len(s) : t[i] = s[i]
      /\ t[Len(s) + 1] = r
      /\ DOMAIN s = 1 .. Len(s)
      /\ Len(s) \in Nat
  OBVIOUS
<1>2. ASSUME NEW k \in DataKinds, k # r.kind
      PROVE  Cardinality(Of(t, k)) = Cardinality(Of(s, k))
  <2>1. Of(t, k) = Of(s, k)
    BY <1>1, <1>2
  <2>. QED  BY <2>1
<1>3. Cardinality(Of(t, r.kind)) = Cardinality(Of(s, r.kind)) + 1
  <2>1. Of(t, r.kind) = Of(s, r.kind) \union {Len(s) + 1}
    BY <1>1
  <2>2. Len(s) + 1 \notin Of(s, r.kind)
    BY <1>1
  <2>3. IsFiniteSet(Of(s, r.kind))
    BY KindIndices
  <2>. HIDE DEF Of
  <2>. QED  BY <2>1, <2>2, <2>3, FS_AddElement
<1>4. /\ Tally(t) = [k \in DataKinds |-> Cardinality(Of(t, k))]
      /\ Tally(s) = [k \in DataKinds |-> Cardinality(Of(s, k))]
  BY DEF Tally
<1>. HIDE DEF Of, t
<1>. QED  BY <1>2, <1>3, <1>4 DEF t

LEMMA TallyEmpty == Tally(<<>>) = ZeroCounts
<1>1. \A k : {i \in DOMAIN <<>> : <<>>[i].kind = k} = {}
  OBVIOUS
<1>. QED  BY <1>1, FS_EmptySet DEF Tally, ZeroCounts

\* A manifest counts for nothing.
LEMMA TallyHeader ==
  ASSUME NEW h \in Header
  PROVE  Tally(<<h>>) = ZeroCounts
<1>1. <<h>> = Append(<<>>, h) /\ <<>> \in Seq(Header)
  OBVIOUS
<1>2. h.kind \notin DataKinds
  BY DEF Header, DataKinds, PlainKinds
<1>. QED  BY <1>1, <1>2, TallyAppend, TallyEmpty

-------------------------------------------------------------------------------
(***************************************************************************)
(* The invariant that makes a trailer true: every hashed record was        *)
(* counted, refused ones too.  `hashed` is not empty while reading, for    *)
(* the manifest is in it.                                                  *)
(***************************************************************************)
TallyInv ==
  /\ phase = "closed" => outcome = "none" /\ counts = ZeroCounts
  /\ phase = "reading" => hashed # <<>> /\ counts = Tally(hashed)

\* While no error came, nothing the transport held was passed over.
CleanInv ==
  ~PersistentCaller =>
    /\ phase = "reading" => outcome \notin {"refused", "error"}
    /\ phase \in {"closed", "refused"} =>
         hashed = <<>> /\ stream = <<>> /\ counts = ZeroCounts /\ delivered = <<>>

TInv == IInv /\ TallyInv /\ CleanInv /\ NothingUnaccounted

\* How a step that hashes a line moves the tally of the hashed lines.
LEMMA HashTally ==
  ASSUME IInv, NEW line \in StreamLines, Hash(line)
  PROVE  /\ hashed' # <<>>
         /\ Tally(hashed') = IF line.kind \in DataKinds
                             THEN [Tally(hashed) EXCEPT ![line.kind] = @ + 1]
                             ELSE Tally(hashed)
         /\ hashed = stream => hashed' = stream'
<1>1. hashed \in Seq(StreamLines) /\ hashed' = Append(hashed, line)
  BY DEF IInv, RestOK, Hash
<1>2. hashed' # <<>>
  BY <1>1
<1>3. stream' = Append(stream, line)
  BY DEF Hash, Take
<1>. QED  BY <1>1, <1>2, <1>3, TallyAppend

LEMMA RecordTally ==
  ASSUME TInv, phase = "reading", NEW r \in Lines, r.kind \in DataKinds,
         Deliver(r) \/ Refuse(r)
  PROVE  TallyInv' /\ CleanInv' /\ NothingUnaccounted'
<1>1. r \in StreamLines /\ r \in DataRecords
  BY LineKinds
<1>2. Hash(r) /\ Count(r)
  BY DEF Deliver, Refuse
<1>3. TallyInv'
  BY <1>1, <1>2, HashTally DEF TInv, TallyInv, Count, Deliver, Refuse, ReturnLast
<1>4. CASE Deliver(r)
  <2>1. CleanInv'
    BY <1>4 DEF TInv, CleanInv, Deliver
  <2>2. delivered \in Seq(DataRecords) /\ delivered' = Append(delivered, r)
    BY <1>4 DEF TInv, IInv, RestOK, Deliver
  <2>3. Tally(delivered') = [Tally(delivered) EXCEPT ![r.kind] = @ + 1]
    BY <1>1, <2>2, TallyAppend
  <2>4. ~PersistentCaller => hashed = stream /\ counts = Tally(delivered)
    BY DEF TInv, CleanInv, NothingUnaccounted
  <2>. QED
    BY <1>1, <1>2, <1>3, <2>1, <2>3, <2>4, HashTally DEF TInv, NothingUnaccounted, Count
<1>5. CASE Refuse(r)
  BY <1>3, <1>5 DEF Refuse, ReturnLast, CleanInv, NothingUnaccounted
<1>. QED  BY <1>3, <1>4, <1>5, <1>2 DEF Deliver, Refuse

LEMMA OtherLineTally ==
  ASSUME TInv, phase = "reading", NEW line \in Lines,
         SkipUnknown(line) \/ RefuseLine(line) \/ FailRead(line)
  PROVE  TallyInv' /\ CleanInv' /\ NothingUnaccounted'
<1>1. line \in StreamLines
  BY LineKinds
<1>2. CASE SkipUnknown(line)
  <2>1. line.kind \notin DataKinds /\ Hash(line)
    BY <1>2 DEF SkipUnknown, DataKinds, PlainKinds
  <2>. QED
    BY <1>1, <1>2, <2>1, HashTally
    DEF TInv, TallyInv, CleanInv, NothingUnaccounted, SkipUnknown
<1>3. CASE RefuseLine(line)
  <2>1. line.kind \notin DataKinds /\ Hash(line)
    BY <1>3 DEF RefuseLine, DataKinds, PlainKinds
  <2>. QED
    BY <1>1, <1>3, <2>1, HashTally
    DEF TInv, TallyInv, CleanInv, NothingUnaccounted, RefuseLine, ReturnLast
<1>4. CASE FailRead(line)
  BY <1>4 DEF TInv, TallyInv, CleanInv, NothingUnaccounted, FailRead, ReturnLast
<1>. QED  BY <1>2, <1>3, <1>4

LEMMA TrailerTally ==
  ASSUME TInv, phase = "reading", NEW t, AcceptTrailer(t) \/ RefuseTrailer(t)
  PROVE  TallyInv' /\ CleanInv' /\ NothingUnaccounted'
<1>1. TrailerLine \in StreamLines /\ TrailerLine.kind \notin DataKinds
  BY DEF StreamLines, TrailerLine, DataKinds, PlainKinds
<1>2. Hash(TrailerLine)
  BY DEF AcceptTrailer, RefuseTrailer
<1>3. CASE AcceptTrailer(t)
  BY <1>1, <1>2, <1>3, HashTally
  DEF TInv, TallyInv, CleanInv, NothingUnaccounted, AcceptTrailer, ReturnLast
<1>4. CASE RefuseTrailer(t)
  BY <1>1, <1>2, <1>4, HashTally
  DEF TInv, TallyInv, CleanInv, NothingUnaccounted, RefuseTrailer, ReturnLast
<1>. QED  BY <1>3, <1>4

LEMMA NewTally ==
  ASSUME TInv, New
  PROVE  TallyInv' /\ CleanInv' /\ NothingUnaccounted'
<1>1. ASSUME NEW h \in Headers, Open(h)
      PROVE  TallyInv' /\ CleanInv' /\ NothingUnaccounted'
  <2>1. h \in Header
    BY ConstantsAssumption
  <2>2. phase = "closed" /\ phase' = "reading" /\ hashed' = <<h>> /\ stream' = <<h>>
        /\ UNCHANGED <<counts, outcome, delivered>>
    BY <1>1 DEF Open
  <2>3. outcome = "none" /\ counts = ZeroCounts
    BY <2>2 DEF TInv, TallyInv
  <2>4. Tally(hashed') = ZeroCounts
    BY <2>1, <2>2, TallyHeader
  <2>5. ~PersistentCaller => counts' = Tally(delivered')
    BY <2>2, TallyEmpty DEF TInv, CleanInv
  <2>. QED
    BY <2>2, <2>3, <2>4, <2>5 DEF TallyInv, CleanInv, NothingUnaccounted
<1>2. ASSUME NEW h \in Headers, RefuseHeader(h)
      PROVE  TallyInv' /\ CleanInv' /\ NothingUnaccounted'
  BY <1>2 DEF RefuseHeader, TInv, TallyInv, CleanInv, NothingUnaccounted
<1>3. ASSUME RefuseEmptyStream
      PROVE  TallyInv' /\ CleanInv' /\ NothingUnaccounted'
  BY <1>3 DEF RefuseEmptyStream, TInv, TallyInv, CleanInv, NothingUnaccounted
<1>. QED  BY <1>1, <1>2, <1>3 DEF New

LEMMA InitTInv == Init => TInv
<1>. SUFFICES ASSUME Init PROVE TInv
  OBVIOUS
<1>1. counts = Tally(delivered)
  BY TallyEmpty DEF Init
<1>. QED
  BY <1>1, InitIInv DEF Init, TInv, TallyInv, CleanInv, NothingUnaccounted

LEMMA NextTInv == TInv /\ [Next]_vars => TInv'
<1>. SUFFICES ASSUME TInv, [Next]_vars PROVE TInv'
  OBVIOUS
<1>1. IInv'
  BY NextIInv DEF TInv
<1>2. TallyInv' /\ CleanInv' /\ NothingUnaccounted'
  <2>1. CASE New
    BY <2>1, NewTally
  <2>2. ASSUME phase = "reading", NEW r \in Lines,
               ReadChunk(r) \/ AcceptSource(r) \/ RefuseSource(r) \/ ReadOther(r)
        PROVE  TallyInv' /\ CleanInv' /\ NothingUnaccounted'
    BY <2>2, CheckedRecord, RecordTally
  <2>3. ASSUME phase = "reading", NEW line \in Lines,
               SkipUnknown(line) \/ RefuseLine(line) \/ FailRead(line)
        PROVE  TallyInv' /\ CleanInv' /\ NothingUnaccounted'
    BY <2>3, OtherLineTally
  <2>4. ASSUME phase = "reading", NEW t \in Trailers, AcceptTrailer(t) \/ RefuseTrailer(t)
        PROVE  TallyInv' /\ CleanInv' /\ NothingUnaccounted'
    BY <2>4, TrailerTally
  <2>5. CASE EndOfStream
    BY <2>5 DEF EndOfStream, TallyInv, CleanInv, NothingUnaccounted
  <2>6. CASE UNCHANGED vars
    BY <2>6 DEF vars, TInv, TallyInv, CleanInv, NothingUnaccounted
  <2>. QED
    BY <2>1, <2>2, <2>3, <2>4, <2>5, <2>6 DEF Next, NextRecord, ReadLine, Done
<1>. QED  BY <1>1, <1>2 DEF TInv

LEMMA TInductive == Spec => []TInv
BY InitTInv, NextTInv, PTL DEF Spec

\* For a caller that stops at the first error, no line is passed over: what
\* was hashed is what the transport held, and each record was counted once.
THEOREM NothingUnaccountedAlways == Spec => []NothingUnaccounted
<1>1. TInv => NothingUnaccounted
  BY DEF TInv
<1>. QED  BY <1>1, TInductive, PTL

-------------------------------------------------------------------------------
(***************************************************************************)
(* A trailer the reader accepts is true of every line it could read.       *)
(***************************************************************************)

\* The members of s at the places P, in their order, and that each has a place.
LinesAt(s, P) ==
  [k \in 1 .. Cardinality(P) |-> s[CHOOSE i \in P : Cardinality(P \cap (1 .. i)) = k]]

AllPlaced(P) ==
  \A k \in 1 .. Cardinality(P) : \E i \in P : Cardinality(P \cap (1 .. i)) = k

LEMMA LinesReadAt == \A s : LinesRead(s) = LinesAt(s, PlacesRead(s))
BY DEF LinesRead, LinesAt

LEMMA PlacesFinite ==
  ASSUME NEW n \in Nat, NEW P \in SUBSET (1 .. n)
  PROVE  /\ IsFiniteSet(P)
         /\ Cardinality(P) \in Nat
<1>1. IsFiniteSet(1 .. n)
  BY FS_Interval
<1>. QED  BY <1>1, FS_Subset, FS_CardinalityType

LEMMA LinesAtType ==
  ASSUME NEW S, NEW s \in Seq(S), NEW P \in SUBSET (1 .. Len(s)), AllPlaced(P)
  PROVE  /\ LinesAt(s, P) \in Seq(S)
         /\ Len(LinesAt(s, P)) = Cardinality(P)
<1> DEFINE At(k) == CHOOSE i \in P : Cardinality(P \cap (1 .. i)) = k
<1>1. Len(s) \in Nat /\ Cardinality(P) \in Nat
  <2>1. Len(s) \in Nat
    OBVIOUS
  <2>. QED  BY <2>1, PlacesFinite
<1>2. \A k \in 1 .. Cardinality(P) : At(k) \in P
  BY DEF AllPlaced
<1>3. \A i \in P : s[i] \in S
  OBVIOUS
<1>4. LinesAt(s, P) = [k \in 1 .. Cardinality(P) |-> s[At(k)]]
  BY DEF LinesAt
<1>. HIDE DEF At
<1>5. LinesAt(s, P) \in [1 .. Cardinality(P) -> S]
  <2>1. \A k \in 1 .. Cardinality(P) : s[At(k)] \in S
    BY <1>2, <1>3
  <2>. QED  BY <2>1, <1>4
<1>6. \A q, m : m \in Nat /\ q \in [1 .. m -> S] => q \in Seq(S) /\ Len(q) = m
  OBVIOUS
<1>. QED  BY <1>1, <1>5, <1>6

LEMMA SeqAppend ==
  ASSUME NEW S, NEW q \in Seq(S), NEW x \in S
  PROVE  /\ Append(q, x) = [k \in 1 .. (Len(q) + 1) |-> Append(q, x)[k]]
         /\ \A k \in 1 .. Len(q) : Append(q, x)[k] = q[k]
         /\ Append(q, x)[Len(q) + 1] = x
<1>1. Append(q, x) \in Seq(S) /\ Len(Append(q, x)) = Len(q) + 1
  OBVIOUS
<1>2. DOMAIN Append(q, x) = 1 .. (Len(q) + 1)
  BY <1>1
<1>3. \A z : z \in Seq(S) => z = [k \in DOMAIN z |-> z[k]]
  OBVIOUS
<1>4. \A k \in 1 .. Len(q) : Append(q, x)[k] = q[k]
  OBVIOUS
<1>5. Append(q, x)[Len(q) + 1] = x
  OBVIOUS
<1>. QED  BY <1>1, <1>2, <1>3, <1>4, <1>5

\* A line that was not read leaves the lines read as they were.
LEMMA LineNotRead ==
  ASSUME NEW S, NEW s \in Seq(S), NEW x \in S, NEW P \in SUBSET (1 .. Len(s)), AllPlaced(P)
  PROVE  LinesAt(Append(s, x), P) = LinesAt(s, P)
<1> DEFINE At(k) == CHOOSE i \in P : Cardinality(P \cap (1 .. i)) = k
<1>1. \A k \in 1 .. Cardinality(P) : At(k) \in P
  BY DEF AllPlaced
<1>2. \A i \in P : Append(s, x)[i] = s[i]
  OBVIOUS
<1>3. \A q : LinesAt(q, P) = [k \in 1 .. Cardinality(P) |-> q[At(k)]]
  BY DEF LinesAt
<1>. HIDE DEF At
<1>. QED  BY <1>1, <1>2, <1>3

\* A line that was read comes after those read before it.
LEMMA LineRead ==
  ASSUME NEW S, NEW s \in Seq(S), NEW x \in S, NEW P \in SUBSET (1 .. Len(s)), AllPlaced(P)
  PROVE  /\ LinesAt(Append(s, x), P \union {Len(s) + 1}) = Append(LinesAt(s, P), x)
         /\ AllPlaced(P \union {Len(s) + 1})
<1> DEFINE n == Len(s)
           Q == P \union {n + 1}
           c == Cardinality(P)
           Upto(R, i) == Cardinality(R \cap (1 .. i))
           At(R, k) == CHOOSE i \in R : Upto(R, i) = k
<1>1. n \in Nat /\ c \in Nat /\ IsFiniteSet(P)
  <2>1. n \in Nat
    OBVIOUS
  <2>. QED  BY <2>1, PlacesFinite
<1>2. Cardinality(Q) = c + 1
  <2>1. n + 1 \notin P
    BY <1>1
  <2>. QED  BY <1>1, <2>1, FS_AddElement
<1>3. ASSUME NEW i \in P PROVE Upto(Q, i) = Upto(P, i) /\ Upto(P, i) \in 0 .. c
  <2>1. Q \cap (1 .. i) = P \cap (1 .. i)
    <3>1. i \in 1 .. n
      OBVIOUS
    <3>. QED  BY <1>1, <3>1
  <2>2. IsFiniteSet(P \cap (1 .. i)) /\ Cardinality(P \cap (1 .. i)) <= c
    <3>1. P \cap (1 .. i) \in SUBSET P
      OBVIOUS
    <3>. QED  BY <1>1, <3>1, FS_Subset
  <2>3. Cardinality(P \cap (1 .. i)) \in Nat
    BY <2>2, FS_CardinalityType
  <2>4. Upto(Q, i) = Cardinality(P \cap (1 .. i))
    BY <2>1
  <2>5. Cardinality(P \cap (1 .. i)) \in 0 .. Cardinality(P)
    BY <2>2, <2>3, <1>1
  <2>. QED  BY <2>4, <2>5
<1>4. Upto(Q, n + 1) = c + 1
  <2>1. \A i \in Q : i \in 1 .. (n + 1)
    BY <1>1
  <2>2. Q \cap (1 .. (n + 1)) = Q
    BY <2>1
  <2>. QED  BY <2>2, <1>2
<1>5. \A k \in 1 .. c : \E i \in P : Upto(P, i) = k
  BY DEF AllPlaced
<1>20. c + 1 \notin 0 .. c /\ \A k \in 1 .. c : k # c + 1
  BY <1>1
<1>21. \A k \in 1 .. (c + 1) : k \in 1 .. c \/ k = c + 1
  BY <1>1
<1>22. \A i : i \in Q <=> i \in P \/ i = n + 1
  OBVIOUS
<1>23. n + 1 \notin P
  BY <1>1
<1>. HIDE DEF Upto, Q, n, c
<1>6. ASSUME NEW k \in 1 .. c PROVE At(Q, k) = At(P, k) /\ At(P, k) \in P
  <2>1. \A i : (i \in Q /\ Upto(Q, i) = k) <=> (i \in P /\ Upto(P, i) = k)
    BY <1>3, <1>4, <1>20, <1>22, <1>23
  <2>. QED  BY <2>1, <1>5
<1>7. At(Q, c + 1) = n + 1
  <2>1. \A i : (i \in Q /\ Upto(Q, i) = c + 1) <=> i = n + 1
    BY <1>3, <1>4, <1>20, <1>22, <1>23
  <2>. QED  BY <2>1
<1>8. AllPlaced(Q)
  <2>1. \A k \in 1 .. (c + 1) : \E i \in Q : Upto(Q, i) = k
    BY <1>3, <1>4, <1>5, <1>21, <1>22
  <2>. QED  BY <2>1, <1>2 DEF AllPlaced, Upto
<1>9. /\ LinesAt(Append(s, x), Q) = [k \in 1 .. (c + 1) |-> Append(s, x)[At(Q, k)]]
      /\ LinesAt(s, P) = [k \in 1 .. c |-> s[At(P, k)]]
  BY <1>2 DEF LinesAt, Upto, c
<1>10. LinesAt(s, P) \in Seq(S) /\ Len(LinesAt(s, P)) = c
  BY LinesAtType DEF c
<1>. HIDE DEF At
<1>11. \A i \in P : i \in 1 .. n /\ Append(s, x)[i] = s[i]
  BY DEF n
<1>12. Append(s, x)[n + 1] = x
  BY DEF n
<1>13. \A k \in 1 .. (c + 1) :
         Append(s, x)[At(Q, k)] = Append(LinesAt(s, P), x)[k]
  <2>1. ASSUME NEW k \in 1 .. c PROVE Append(s, x)[At(Q, k)] = Append(LinesAt(s, P), x)[k]
    <3>1. Append(s, x)[At(Q, k)] = s[At(P, k)]
      BY <1>6, <1>11
    <3>2. Append(LinesAt(s, P), x)[k] = LinesAt(s, P)[k]
      BY <1>1, <1>10, SeqAppend
    <3>. QED  BY <3>1, <3>2, <1>9
  <2>2. Append(LinesAt(s, P), x)[c + 1] = x
    BY <1>1, <1>10, SeqAppend
  <2>. QED  BY <2>1, <2>2, <1>7, <1>12, <1>21
<1>14. LinesAt(Append(s, x), Q) = Append(LinesAt(s, P), x)
  <2>1. Append(LinesAt(s, P), x)
          = [k \in 1 .. (c + 1) |-> Append(LinesAt(s, P), x)[k]]
    BY <1>10, SeqAppend
  <2>. QED  BY <1>9, <1>13, <2>1
<1>. QED  BY <1>8, <1>14 DEF Q, n

\* What was hashed is what could be read, also after errors.
ReadInv == hashed = LinesRead(stream) /\ AllPlaced(PlacesRead(stream))

LEMMA ReadInitially == Init => ReadInv
<1>. SUFFICES ASSUME Init PROVE ReadInv
  OBVIOUS
<1>1. stream = <<>> /\ hashed = <<>>
  BY DEF Init
<1>2. PlacesRead(stream) = {}
  BY <1>1 DEF PlacesRead
<1>3. Cardinality({}) = 0
  BY FS_EmptySet
<1>4. LinesAt(stream, {}) = <<>>
  BY <1>3 DEF LinesAt
<1>5. AllPlaced({})
  BY <1>3 DEF AllPlaced
<1>. QED  BY <1>1, <1>2, <1>4, <1>5, LinesReadAt DEF ReadInv

\* The next line of a stream is read unless it fails or is too long.
LEMMA NextLine ==
  ASSUME IInv, ReadInv, NEW line \in StreamLines, stream' = Append(stream, line),
         UNCHANGED version
  PROVE  /\ line.kind # "io_error" /\ ~TooLong(line) /\ hashed' = Append(hashed, line)
              => ReadInv'
         /\ (line.kind = "io_error" \/ TooLong(line)) /\ hashed' = hashed => ReadInv'
<1> DEFINE n == Len(stream)
           P == PlacesRead(stream)
           fails == line.kind = "io_error" \/ TooLong(line)
<1>1. stream \in Seq(StreamLines) /\ n \in Nat
  BY DEF IInv, RestOK
<1>2. P \in SUBSET (1 .. n)
  BY <1>1 DEF PlacesRead
<1>3. \A l : TooLong(l)' <=> TooLong(l)
  BY DEF TooLong, Carries
<1>4. PlacesRead(stream)' = IF fails THEN P ELSE P \union {n + 1}
  <2>1. PlacesRead(stream)' =
          {i \in DOMAIN stream' : stream'[i].kind # "io_error" /\ ~TooLong(stream'[i])}
    BY <1>3 DEF PlacesRead
  <2>2. DOMAIN stream' = 1 .. (n + 1) /\ stream'[n + 1] = line
        /\ \A i \in 1 .. n : stream'[i] = stream[i]
    BY <1>1
  <2>. HIDE DEF n
  <2>3. P = {i \in 1 .. n : stream[i].kind # "io_error" /\ ~TooLong(stream[i])}
    BY <1>1 DEF PlacesRead, n
  <2>. QED  BY <1>1, <2>1, <2>2, <2>3
<1>5. AllPlaced(P) /\ hashed = LinesAt(stream, P)
  BY LinesReadAt DEF ReadInv
<1>. HIDE DEF P
<1>8. ASSUME NEW R, PlacesRead(stream)' = R, hashed' = LinesAt(stream', R), AllPlaced(R)
      PROVE  ReadInv'
  BY <1>8 DEF ReadInv, LinesRead, LinesAt, AllPlaced
<1>6. ASSUME ~fails, hashed' = Append(hashed, line) PROVE ReadInv'
  <2>1. hashed' = LinesAt(stream', P \union {n + 1}) /\ AllPlaced(P \union {n + 1})
    BY <1>1, <1>2, <1>5, <1>6, LineRead
  <2>2. PlacesRead(stream)' = P \union {n + 1}
    BY <1>4, <1>6
  <2>. QED  BY <2>1, <2>2, <1>8
<1>7. ASSUME fails, hashed' = hashed PROVE ReadInv'
  <2>1. hashed' = LinesAt(stream', P)
    BY <1>1, <1>2, <1>5, <1>7, LineNotRead
  <2>2. PlacesRead(stream)' = P
    BY <1>4, <1>7
  <2>. QED  BY <2>1, <2>2, <1>5, <1>8
<1>. QED  BY <1>6, <1>7

LEMMA NextReadInv == IInv /\ ReadInv /\ [Next]_vars => ReadInv'
<1>. SUFFICES ASSUME IInv, ReadInv, [Next]_vars PROVE ReadInv'
  OBVIOUS
<1>1. ASSUME NEW line \in StreamLines, Hash(line), line.kind # "io_error" PROVE ReadInv'
  BY <1>1, NextLine DEF Hash, Take, opened
<1>2. ASSUME UNCHANGED <<hashed, stream, version>> PROVE ReadInv'
  BY <1>2 DEF ReadInv, LinesRead, PlacesRead, TooLong, Carries
<1>3. ASSUME NEW h \in Headers, Open(h) PROVE ReadInv'
  <2>1. h \in Header /\ h.kind \notin PlainKinds /\ h.kind # "io_error"
    BY ConstantsAssumption DEF Header, PlainKinds
  <2>2. stream' = <<h>> /\ hashed' = <<h>>
    BY <1>3 DEF Open
  <2>3. PlacesRead(stream)' = {1}
    BY <2>1, <2>2 DEF PlacesRead, TooLong
  <2>4. Cardinality({1}) = 1 /\ {1} \cap (1 .. 1) = {1}
    BY FS_Singleton
  <2>5. AllPlaced({1})
    BY <2>4 DEF AllPlaced
  <2>6. LinesAt(<<h>>, {1}) = <<h>>
    <3> DEFINE at(k) == CHOOSE i \in {1} : Cardinality({1} \cap (1 .. i)) = k
    <3>1. LinesAt(<<h>>, {1}) = [k \in 1 .. 1 |-> <<h>>[at(k)]]
      BY <2>4 DEF LinesAt
    <3>2. at(1) = 1
      BY <2>4
    <3>. HIDE DEF at
    <3>3. \A k \in 1 .. 1 : k = 1
      OBVIOUS
    <3>4. \A k \in 1 .. 1 : <<h>>[at(k)] = h
      BY <3>2, <3>3
    <3>5. LinesAt(<<h>>, {1}) = [k \in 1 .. 1 |-> h]
      BY <3>1, <3>4
    <3>. QED  BY <3>5
  <2>7. LinesRead(stream)' = LinesAt(stream', {1})
    BY <2>3 DEF LinesRead, LinesAt
  <2>8. AllPlaced(PlacesRead(stream))'
    BY <2>3, <2>5 DEF AllPlaced
  <2>. QED  BY <2>2, <2>6, <2>7, <2>8 DEF ReadInv
<1>4. CASE New
  BY <1>2, <1>3, <1>4 DEF New, RefuseHeader, RefuseEmptyStream, opened
<1>5. ASSUME NEW r \in Lines,
             ReadChunk(r) \/ AcceptSource(r) \/ RefuseSource(r) \/ ReadOther(r)
      PROVE  ReadInv'
  <2>1. r \in StreamLines /\ r.kind # "io_error" /\ Hash(r)
    BY <1>5, LineKinds, CheckedRecord DEF Deliver, Refuse, DataKinds, PlainKinds
  <2>. QED  BY <1>1, <2>1
<1>6. ASSUME NEW line \in Lines, SkipUnknown(line) \/ RefuseLine(line) PROVE ReadInv'
  <2>1. line \in StreamLines /\ line.kind # "io_error" /\ Hash(line)
    BY <1>6, LineKinds DEF SkipUnknown, RefuseLine
  <2>. QED  BY <1>1, <2>1
<1>7. ASSUME NEW line \in Lines, FailRead(line) PROVE ReadInv'
  BY <1>7, LineKinds, NextLine DEF FailRead, Take, opened
<1>8. ASSUME NEW t, AcceptTrailer(t) \/ RefuseTrailer(t) PROVE ReadInv'
  <2>1. TrailerLine \in StreamLines /\ TrailerLine.kind # "io_error" /\ Hash(TrailerLine)
    BY <1>8 DEF AcceptTrailer, RefuseTrailer, StreamLines, TrailerLine
  <2>. QED  BY <1>1, <2>1
<1>9. CASE EndOfStream \/ UNCHANGED vars
  BY <1>2, <1>9 DEF EndOfStream, vars, opened
<1>. QED  BY <1>4, <1>5, <1>6, <1>7, <1>8, <1>9 DEF Next, NextRecord, ReadLine, Done

LEMMA ReadInductive == Spec => []ReadInv
BY ReadInitially, NextReadInv, Inductive, PTL DEF Spec

LEMMA AcceptedTrailerIsTrue ==
  ASSUME TInv, ReadInv, phase = "reading", NEW t \in Trailers, AcceptTrailer(t)
  PROVE  /\ t.sha256 = Digest(LinesRead(stream))
         /\ t.counts = Tally(LinesRead(stream))
         /\ original = None
<1>1. original = None /\ t.sha256 = Digest(hashed) /\ t.counts = counts
  BY DEF AcceptTrailer, TrailerMatches
<1>2. counts = Tally(hashed)
  BY DEF TInv, TallyInv
<1>. QED  BY <1>1, <1>2 DEF ReadInv

\* A trailer is accepted in no other phase.
LEMMA TrailersComeWhileReading ==
  ASSUME TInv, [Next]_vars, NEW t, AcceptTrailer(t)
  PROVE  phase = "reading"
<1>1. /\ outcome' = "end" /\ phase' \in {"reading", "stopped"} /\ lineNo' = lineNo + 1
      /\ lineNo \in Nat
  BY DEF AcceptTrailer, ReturnLast, Hash, Take, TInv, IInv, RestOK
<1>2. ~UNCHANGED vars
  BY <1>1 DEF vars
<1>3. ~New
  BY <1>1 DEF New, Open, RefuseHeader, RefuseEmptyStream, TInv, TallyInv
<1>. QED  BY <1>2, <1>3 DEF Next, NextRecord, Done

\* Only the trailer sets `verified`.
LEMMA VerifiedByTrailer ==
  ASSUME TInv, [Next]_vars, verified' # verified
  PROVE  verified' /\ \E t \in Trailers : AcceptTrailer(t)
<1>1. ~UNCHANGED vars
  BY DEF vars
<1>2. ~New
  BY DEF New, Open, RefuseHeader, RefuseEmptyStream
<1>3. \A r \in Lines : ~ReadLine(r)
  BY CheckedRecord
  DEF ReadLine, Deliver, Refuse, SkipUnknown, RefuseLine, FailRead
<1>4. ~EndOfStream /\ \A t \in Trailers : ~RefuseTrailer(t)
  BY DEF EndOfStream, RefuseTrailer
<1>5. \E t \in Trailers : AcceptTrailer(t)
  BY <1>1, <1>2, <1>3, <1>4 DEF Next, NextRecord, Done
<1>. QED  BY <1>5 DEF AcceptTrailer

\* `verified` means what it says also for a caller that read on after errors:
\* the trailer that set it counts and digests every line that could be read
\* before it, and no original was short of bytes.
THEOREM VerifiedIsTrue == Spec => VerifiedOnlyByTrueTrailer
<1>1. TInv /\ ReadInv /\ [Next]_vars =>
        [/\ verified' # verified => verified' /\ \E t \in Trailers : AcceptTrailer(t)
         /\ \A t \in Trailers :
              AcceptTrailer(t) =>
                /\ t.sha256 = Digest(LinesRead(stream))
                /\ t.counts = Tally(LinesRead(stream))
                /\ original = None]_vars
  BY AcceptedTrailerIsTrue, TrailersComeWhileReading, VerifiedByTrailer
<1>. QED  BY <1>1, TInductive, ReadInductive, PTL DEF Spec, VerifiedOnlyByTrueTrailer

-------------------------------------------------------------------------------
\* The contract judges a record by all the records before it.  The reader keeps
\* three slots instead.  PendingAt, CompletedAt and ContinuedAt say what each slot
\* means about the records handed out; a lemma for each shows that the slot
\* decides about the next record as the contract does, and another that every
\* record handed out leaves the right slot behind.

\* Records after a sequence of records

LEMMA AppendPlaces ==
  ASSUME NEW s \in Seq(DataRecords), NEW r \in DataRecords
  PROVE  /\ Append(s, r) \in Seq(DataRecords)
         /\ Len(s) \in Nat
         /\ Len(Append(s, r)) = Len(s) + 1
         /\ Append(s, r)[Len(s) + 1] = r
         /\ \A k \in 1 .. Len(s) : Append(s, r)[k] = s[k] /\ s[k] \in DataRecords
  OBVIOUS

\* The group that the next record would belong to starts at h.
LatestHead(s, h) ==
  /\ h \in 1 .. Len(s)
  /\ ~IsFollower(s[h])
  /\ \A k \in (h + 1) .. Len(s) : IsFollower(s[k])

LEMMA OneHead ==
  ASSUME NEW s \in Seq(DataRecords), NEW g, NEW h, LatestHead(s, g), LatestHead(s, h)
  PROVE  g = h
  <1>1. g \in 1 .. Len(s) /\ h \in 1 .. Len(s) /\ Len(s) \in Nat BY DEF LatestHead
  <1>2. ~(g < h) BY <1>1 DEF LatestHead
  <1>3. ~(h < g) BY <1>1 DEF LatestHead
  <1> QED BY <1>1, <1>2, <1>3

LEMMA HeadOfNext ==
  ASSUME NEW s \in Seq(DataRecords), NEW r \in DataRecords, NEW h \in 1 .. Len(s)
  PROVE  IsHeadOf(Append(s, r), h, Len(s) + 1) <=> LatestHead(s, h)
  <1>1. (Len(s) + 1) - 1 = Len(s) /\ Len(s) \in Nat OBVIOUS
  <1>2. \A k \in h .. Len(s) : Append(s, r)[k] = s[k] BY AppendPlaces
  <1>3. h \in h .. Len(s) /\ (h + 1) .. Len(s) \subseteq h .. Len(s) BY <1>1
  <1> QED BY <1>1, <1>2, <1>3 DEF IsHeadOf, LatestHead

LEMMA EndsBeforeNext ==
  ASSUME NEW s \in Seq(DataRecords), NEW r \in DataRecords
  PROVE  EndsInOriginal(Append(s, r), Len(s)) <=> EndsInOriginal(s, Len(s))
  <1>1. \A k \in 1 .. Len(s) : Append(s, r)[k] = s[k] BY AppendPlaces
  <1>2. \A h \in 1 .. Len(s) : \A k \in (h + 1) .. Len(s) : k \in 1 .. Len(s) OBVIOUS
  <1>3. \A h \in 1 .. Len(s) : Len(s) \in 1 .. Len(s) OBVIOUS
  <1> QED BY <1>1, <1>2, <1>3 DEF EndsInOriginal

\* Whether r may come next in the group of h.
Follows(s, h, r) == FollowerInPlace(Append(s, r), h, Len(s) + 1)

\* What it takes for r to come next.
LEMMA NextInPlace ==
  ASSUME NEW s \in Seq(DataRecords), NEW r \in DataRecords, NEW c \in BOOLEAN
  PROVE  InPlace(Append(s, r), Len(Append(s, r)), c) <=>
           /\ IsFollower(r) => \E h : LatestHead(s, h) /\ Follows(s, h, r)
           /\ IsPrimary(r) => PrimaryInPlace(r)
           /\ ~IsChunk(r) => ~EndsInOriginal(s, Len(s))
           /\ IsFollower(r) \/ IsPrimary(r) => c
  <1>1. Len(Append(s, r)) = Len(s) + 1 /\ Append(s, r)[Len(s) + 1] = r /\ (Len(s) + 1) - 1 = Len(s)
    BY AppendPlaces
  <1>2. (\E h \in 1 .. Len(s) : IsHeadOf(Append(s, r), h, Len(s) + 1)
                                  /\ FollowerInPlace(Append(s, r), h, Len(s) + 1))
          <=> \E h : LatestHead(s, h) /\ Follows(s, h, r)
    BY HeadOfNext DEF LatestHead, Follows
  <1> QED BY <1>1, <1>2, EndsBeforeNext DEF InPlace

SourceNext(s, h, r) ==
  /\ r.wellFormed
  /\ SourceBinds(r, s[h].id, s[h].blob)
  /\ \A j \in (h + 1) .. Len(s) : IsSource(s[j]) => s[j].referenceId < r.referenceId

DerivativeNext(s, h, r) ==
  /\ r.blob = None
  /\ r.derivation.wellFormed
  /\ r.derivation.text = r.content
  /\ DerivationBinds(r.derivation, s[h].id, s[h].blob)
  /\ \A j \in (h + 1) .. Len(s) :
       IsDerivative(s[j]) => SlotLess(SlotOf(s[j].derivation), SlotOf(r.derivation))

LEMMA FollowsWhen ==
  ASSUME NEW s \in Seq(DataRecords), NEW r \in DataRecords, NEW h \in 1 .. Len(s)
  PROVE  Follows(s, h, r) <=>
           /\ IsPrimary(s[h])
           /\ Len(s) > h => Rank(s[Len(s)]) <= Rank(r)
           /\ IsChunk(r) => ChunkInPlace(Append(s, r), h, Len(s) + 1)
           /\ IsSource(r) => SourceNext(s, h, r)
           /\ IsDerivative(r) => DerivativeNext(s, h, r)
  <1> DEFINE t == Append(s, r)
  <1>1. t[Len(s) + 1] = r /\ (Len(s) + 1) - 1 = Len(s) /\ Len(s) \in Nat
    BY AppendPlaces
  <1>2. t[h] = s[h] BY AppendPlaces
  <1>3. \A j \in (h + 1) .. Len(s) : t[j] = s[j] BY AppendPlaces
  <1>4. t[Len(s)] = s[Len(s)] BY AppendPlaces
  <1> HIDE DEF t
  <1>5. IsSource(r) => (SourceInPlace(t, h, Len(s) + 1) <=> SourceNext(s, h, r))
    BY <1>1, <1>2, <1>3 DEF SourceInPlace, SourceNext
  <1>6. IsDerivative(r) => (DerivativeInPlace(t, h, Len(s) + 1) <=> DerivativeNext(s, h, r))
    BY <1>1, <1>2, <1>3 DEF DerivativeInPlace, DerivativeNext
  <1>7. Follows(s, h, r) <=> FollowerInPlace(t, h, Len(s) + 1) BY DEF t, Follows
  <1>8. FollowerInPlace(t, h, Len(s) + 1) <=>
           /\ IsPrimary(s[h])
           /\ Len(s) > h => Rank(s[Len(s)]) <= Rank(r)
           /\ IsChunk(r) => ChunkInPlace(t, h, Len(s) + 1)
           /\ IsSource(r) => SourceInPlace(t, h, Len(s) + 1)
           /\ IsDerivative(r) => DerivativeInPlace(t, h, Len(s) + 1)
    BY <1>1, <1>2, <1>4 DEF FollowerInPlace
  <1> QED BY <1>5, <1>6, <1>7, <1>8 DEF t

\* The kinds exclude each other.
LEMMA Kinds ==
  ASSUME NEW r
  PROVE  /\ IsChunk(r) => ~IsSource(r) /\ ~IsDerivative(r) /\ ~IsPrimary(r) /\ Rank(r) = 1
         /\ IsSource(r) => ~IsDerivative(r) /\ ~IsPrimary(r) /\ Rank(r) = 2
         /\ IsDerivative(r) => ~IsPrimary(r) /\ Rank(r) = 3
         /\ IsPrimary(r) => ~IsFollower(r)
  BY DEF IsChunk, IsSource, IsDerivative, IsPrimary, Rank, IsFollower

\* A record that is no chunk and no primary leaves no original short of bytes.
LEMMA EndsOtherwise ==
  ASSUME NEW s \in Seq(DataRecords), NEW r \in DataRecords, ~IsChunk(r), ~IsPrimary(r)
  PROVE  ~EndsInOriginal(Append(s, r), Len(Append(s, r)))
  <1>1. Len(Append(s, r)) = Len(s) + 1 /\ Append(s, r)[Len(s) + 1] = r /\ Len(s) \in Nat
    BY AppendPlaces
  <1> SUFFICES ASSUME NEW h \in 1 .. (Len(s) + 1), IsPrimary(Append(s, r)[h]),
                      \A k \in (h + 1) .. (Len(s) + 1) : IsChunk(Append(s, r)[k])
               PROVE  FALSE
    BY <1>1 DEF EndsInOriginal
  <1>2. h # Len(s) + 1 BY <1>1
  <1>3. Len(s) + 1 \in (h + 1) .. (Len(s) + 1) BY <1>1, <1>2
  <1> QED BY <1>1, <1>3

-------------------------------------------------------------------------------
\* Places in chunks of one length

LEMMA Division ==
  ASSUME NEW a \in Nat, NEW c \in Nat \ {0}
  PROVE  /\ a \div c \in Nat /\ a % c \in Nat
         /\ a % c < c
         /\ a = c * (a \div c) + (a % c)
  OBVIOUS

LEMMA ProductGrows ==
  ASSUME NEW c \in Nat, NEW m \in Nat, NEW n \in Nat, m < n
  PROVE  c * m + c <= c * n
  <1>1. PICK d \in Nat : n = m + 1 + d
    <2>1. n - m - 1 \in Nat /\ n = m + 1 + (n - m - 1) OBVIOUS
    <2> QED BY <2>1
  <1>2. c * n = c * m + c + c * d BY <1>1
  <1>3. c * d \in Nat /\ c * m \in Nat OBVIOUS
  <1> QED BY <1>2, <1>3

LEMMA QuotientIs ==
  ASSUME NEW n \in Nat, NEW c \in Nat \ {0}, NEW q \in Nat, q < c
  PROVE  (n * c + q) \div c = n /\ (n * c + q) % c = q
  <1> DEFINE a == n * c + q
             m == a \div c
             e == a % c
  <1>1. a \in Nat /\ n * c = c * n /\ c * n \in Nat OBVIOUS
  <1>2. m \in Nat /\ e \in Nat /\ e < c /\ a = c * m + e BY <1>1, Division
  <1>3. a = c * n + q BY <1>1
  <1>4. c * m \in Nat BY <1>2
  <1> HIDE DEF a, m, e
  <1>5. ~(m < n)
    <2>1. m < n => c * m + c <= c * n BY <1>2, ProductGrows
    <2> QED BY <1>1, <1>2, <1>3, <1>4, <2>1
  <1>6. ~(n < m)
    <2>1. n < m => c * n + c <= c * m BY <1>2, ProductGrows
    <2> QED BY <1>1, <1>2, <1>3, <1>4, <2>1
  <1>7. m = n BY <1>2, <1>5, <1>6
  <1>8. e = q BY <1>1, <1>2, <1>3, <1>7
  <1> QED BY <1>7, <1>8 DEF a, m, e

LEMMA QuotientBelow ==
  ASSUME NEW a \in Nat, NEW c \in Nat \ {0}, NEW m \in Nat, a < m * c
  PROVE  a \div c \in Nat /\ a \div c < m
  <1>1. a \div c \in Nat /\ a % c \in Nat /\ a = c * (a \div c) + (a % c) BY Division
  <1>2. m * c = c * m /\ c * (a \div c) \in Nat BY <1>1
  <1>3. ~(m < a \div c)
    <2>1. m < a \div c => c * m + c <= c * (a \div c) BY <1>1, ProductGrows
    <2> QED BY <1>1, <1>2, <2>1
  <1>4. a \div c # m BY <1>1, <1>2
  <1> QED BY <1>1, <1>3, <1>4

-------------------------------------------------------------------------------
\* An original whose chunks are still arriving

\* `o` is what the reader knows of it after s.
PendingAt(s, o, h) ==
  /\ LatestHead(s, h)
  /\ IsPrimary(s[h])
  /\ o.evidenceId = s[h].id
  /\ o.blob = s[h].blob
  /\ o.nextIndex = Len(s) - h
  /\ Len(s) = h => o.chunkLen = 0
  /\ Len(s) > h => o.chunkLen # 0
  /\ \A k \in (h + 1) .. Len(s) :
       /\ IsChunk(s[k])
       /\ Len(s[k].raw) = o.chunkLen
       /\ s[k].byteOffset = ((k - h) - 1) * o.chunkLen
  /\ \A p \in 1 .. o.nextOffset :
       o.received[p] = s[h + 1 + ((p - 1) \div o.chunkLen)].raw[((p - 1) % o.chunkLen) + 1]

\* PendingBookkeeping, of `o`.
Kept(o) ==
  /\ o \in PendingOriginal
  /\ o.nextOffset = Len(o.received)
  /\ o.nextOffset = o.nextIndex * o.chunkLen
  /\ o.nextOffset < o.blob.byteLength

LEMMA PendingEnds ==
  ASSUME NEW s \in Seq(DataRecords), NEW o, NEW h, Kept(o), PendingAt(s, o, h)
  PROVE  EndsInOriginal(s, Len(s))
  <1>1. h \in 1 .. Len(s) /\ Len(s) \in Nat /\ IsPrimary(s[h]) BY DEF PendingAt, LatestHead
  <1>2. \A k \in (h + 1) .. Len(s) : IsChunk(s[k]) BY DEF PendingAt
  <1>3. o.chunkLen \in Nat /\ o.nextOffset \in Nat /\ o.nextIndex \in Nat
    BY DEF Kept, PendingOriginal
  <1>4. s[h].blob.byteLength # (IF Len(s) = h THEN 0 ELSE s[Len(s)].byteOffset + Len(s[Len(s)].raw))
    <2>1. CASE Len(s) = h
      <3>1. o.nextIndex = 0 BY <1>1, <2>1 DEF PendingAt
      <3> QED BY <1>3, <2>1, <3>1 DEF Kept, PendingAt
    <2>2. CASE Len(s) # h
      <3>1. Len(s) \in (h + 1) .. Len(s) BY <1>1, <2>2
      <3>2. s[Len(s)].byteOffset = ((Len(s) - h) - 1) * o.chunkLen /\ Len(s[Len(s)].raw) = o.chunkLen
        BY <3>1 DEF PendingAt
      <3>3. Len(s) - h = o.nextIndex /\ o.nextIndex - 1 \in Nat BY <1>1, <1>3, <2>2 DEF PendingAt
      <3>4. (o.nextIndex - 1) * o.chunkLen + o.chunkLen = o.nextIndex * o.chunkLen
        <4>1. o.nextIndex = (o.nextIndex - 1) + 1 BY <1>3
        <4> QED BY <1>3, <3>3, <4>1, NextProduct
      <3> QED BY <2>2, <3>2, <3>3, <3>4 DEF Kept, PendingAt
    <2> QED BY <2>1, <2>2
  <1> QED BY <1>1, <1>2, <1>4 DEF EndsInOriginal

\* ChunkIsNext, LengthFits and OriginalMatches, of `o`.
ChunkNext(o, r) ==
  /\ r.evidenceId = o.evidenceId
  /\ r.assetId = o.blob.assetId
  /\ r.index = o.nextIndex
  /\ r.byteOffset = o.nextOffset
  /\ r.decodes
  /\ Len(r.raw) # 0
  /\ Digest(r.raw) = r.sha256
  /\ LengthFits(o, r)
  /\ IsLastChunk(o, r) => OriginalMatches(o, r)

\* The bytes of the chunks so far and of the next one, by their places.
PlacedBytes(t, h, first, end) ==
  [p \in 1 .. end |-> t[h + 1 + ((p - 1) \div first)].raw[((p - 1) % first) + 1]]

LEMMA ConcatenationIs ==
  ASSUME NEW a \in Seq(Bytes), NEW b \in Seq(Bytes), NEW F,
         \A p \in 1 .. Len(a) : a[p] = F[p],
         \A p \in 1 .. Len(b) : b[p] = F[Len(a) + p]
  PROVE  \A p \in 1 .. (Len(a) + Len(b)) : (a \o b)[p] = F[p]
  <1>1. Len(a) \in Nat /\ Len(b) \in Nat OBVIOUS
  <1>2. /\ a \o b \in Seq(Bytes)
        /\ Len(a \o b) = Len(a) + Len(b)
        /\ \A p \in 1 .. (Len(a) + Len(b)) :
             (a \o b)[p] = IF p <= Len(a) THEN a[p] ELSE b[p - Len(a)]
    BY ConcatProperties
  <1>4. ASSUME NEW p \in 1 .. (Len(a) + Len(b)) PROVE (a \o b)[p] = F[p]
    <2>1. CASE p <= Len(a)
      <3>1. p \in 1 .. Len(a) BY <1>1, <2>1
      <3> QED BY <1>2, <2>1, <3>1
    <2>2. CASE ~(p <= Len(a))
      <3>1. p - Len(a) \in 1 .. Len(b) /\ Len(a) + (p - Len(a)) = p BY <1>1, <2>2
      <3> QED BY <1>2, <2>2, <3>1
    <2> QED BY <2>1, <2>2
  <1> QED BY <1>4

LEMMA BytesInPlace ==
  ASSUME NEW s \in Seq(DataRecords), NEW r \in OriginalChunk, NEW o, NEW h,
         Kept(o), PendingAt(s, o, h),
         NEW first \in Nat \ {0}, Len(s) > h => first = o.chunkLen,
         Len(r.raw) <= first
  PROVE  o.received \o r.raw = PlacedBytes(Append(s, r), h, first, o.nextOffset + Len(r.raw))
  <1>1. PICK n, i, m : n = o.nextOffset /\ i = o.nextIndex /\ m = Len(r.raw)
    OBVIOUS
  <1>2. /\ h \in 1 .. Len(s) /\ Len(s) \in Nat
        /\ o.received \in Seq(Bytes) /\ r.raw \in Seq(Bytes)
        /\ n \in Nat /\ n = Len(o.received) /\ m \in Nat
        /\ i \in Nat
        /\ i = Len(s) - h
    <2>1. h \in 1 .. Len(s) /\ Len(s) \in Nat /\ i = Len(s) - h
      BY <1>1 DEF PendingAt, LatestHead
    <2>2. o \in PendingOriginal /\ n = Len(o.received) BY <1>1 DEF Kept
    <2>3. o.received \in Seq(Bytes) /\ i \in Nat /\ n \in Nat
      BY <1>1, <2>2 DEF PendingOriginal
    <2>4. r.raw \in Seq(Bytes) BY DEF OriginalChunk
    <2>5. m \in Nat BY <1>1, <2>4
    <2> QED BY <2>1, <2>2, <2>3, <2>4, <2>5
  <1>3. n = i * first
    <2>1. CASE Len(s) > h BY <1>1, <2>1 DEF Kept
    <2>2. CASE ~(Len(s) > h)
      <3>1. i = 0 BY <1>2, <2>2
      <3>2. o.chunkLen \in Nat BY DEF Kept, PendingOriginal
      <3>3. n = 0 * o.chunkLen BY <1>1, <3>1 DEF Kept
      <3> QED BY <1>2, <3>1, <3>2, <3>3
    <2> QED BY <2>1, <2>2
  <1>4. PICK t : t = Append(s, r) OBVIOUS
  <1>5. t[Len(s) + 1] = r /\ \A k \in 1 .. Len(s) : t[k] = s[k]
    <2>1. r \in DataRecords BY DEF DataRecords
    <2> QED BY <1>4, <2>1, AppendPlaces
  <1>6. ASSUME NEW p \in 1 .. n
        PROVE  o.received[p] = t[h + 1 + ((p - 1) \div first)].raw[((p - 1) % first) + 1]
    <2>1. p - 1 \in Nat /\ p - 1 < i * first BY <1>2, <1>3
    <2>2. (p - 1) \div first \in Nat /\ (p - 1) \div first < i BY <1>2, <2>1, QuotientBelow
    <2>3. h + 1 + ((p - 1) \div first) \in 1 .. Len(s) /\ Len(s) > h BY <1>2, <2>2
    <2>4. t[h + 1 + ((p - 1) \div first)] = s[h + 1 + ((p - 1) \div first)] BY <1>5, <2>3
    <2>5. o.received[p] = s[h + 1 + ((p - 1) \div o.chunkLen)].raw[((p - 1) % o.chunkLen) + 1]
      BY <1>1 DEF PendingAt
    <2> QED BY <2>3, <2>4, <2>5
  <1>7. ASSUME NEW p \in 1 .. m
        PROVE  r.raw[p] = t[h + 1 + (((n + p) - 1) \div first)].raw[(((n + p) - 1) % first) + 1]
    <2>1. PICK q : q = p - 1 OBVIOUS
    <2>2. q \in Nat /\ q < first BY <1>1, <1>2, <2>1
    <2>3. (n + p) - 1 = i * first + q BY <1>2, <1>3, <2>1
    <2>4. (i * first + q) \div first = i /\ (i * first + q) % first = q
      BY <1>2, <2>2, QuotientIs
    <2>5. h + 1 + i = Len(s) + 1 /\ q + 1 = p BY <1>2, <2>1
    <2> QED BY <1>5, <2>3, <2>4, <2>5
  <1>8. PICK F : F = PlacedBytes(t, h, first, n + m) OBVIOUS
  <1>9. /\ F = [p \in 1 .. (n + m) |-> F[p]]
        /\ \A p \in 1 .. (n + m) :
             F[p] = t[h + 1 + ((p - 1) \div first)].raw[((p - 1) % first) + 1]
    BY <1>8 DEF PlacedBytes
  <1>10. \A p \in 1 .. n : o.received[p] = F[p]
    <2>1. \A p \in 1 .. n : p \in 1 .. (n + m) BY <1>2
    <2> QED BY <1>6, <1>9, <2>1
  <1>11. \A p \in 1 .. m : r.raw[p] = F[n + p]
    <2>1. \A p \in 1 .. m : n + p \in 1 .. (n + m) BY <1>2
    <2> QED BY <1>7, <1>9, <2>1
  <1>12. o.received \o r.raw = F
    <2>1. F = [p \in 1 .. (Len(o.received) + Len(r.raw)) |-> F[p]] BY <1>1, <1>2, <1>9
    <2>2. \A p \in 1 .. Len(o.received) : o.received[p] = F[p] BY <1>2, <1>10
    <2>3. \A p \in 1 .. Len(r.raw) : r.raw[p] = F[Len(o.received) + p] BY <1>1, <1>2, <1>11
    <2>4. PICK a \in Seq(Bytes), b \in Seq(Bytes) : a = o.received /\ b = r.raw BY <1>2
    <2>5. \A p \in 1 .. Len(a) : a[p] = F[p] BY <2>2, <2>4
    <2>6. \A p \in 1 .. Len(b) : b[p] = F[Len(a) + p] BY <2>3, <2>4
    <2>7. \A p \in 1 .. (Len(a) + Len(b)) : (a \o b)[p] = F[p]
      BY <2>5, <2>6, ConcatenationIs
    <2>8. PICK c \in Seq(Bytes) : c = a \o b /\ Len(c) = Len(a) + Len(b) BY ConcatProperties
    <2>9. c = [p \in 1 .. Len(c) |-> c[p]] OBVIOUS
    <2>10. c = [p \in 1 .. (Len(a) + Len(b)) |-> F[p]] BY <2>7, <2>8, <2>9
    <2> QED BY <2>1, <2>4, <2>8, <2>10
  <1> QED BY <1>1, <1>4, <1>8, <1>12

LEMMA ZeroTimes ==
  ASSUME NEW n \in Nat
  PROVE  0 * n = 0
  OBVIOUS

\* The reader's bookkeeping and the places of the chunks ask the same of the next chunk.
LEMMA ChunkPlaces ==
  ASSUME NEW s \in Seq(DataRecords), NEW r \in OriginalChunk, NEW o, NEW h,
         Kept(o), PendingAt(s, o, h)
  PROVE  ChunkInPlace(Append(s, r), h, Len(s) + 1) <=> ChunkNext(o, r)
  <1>1. PICK t, f : t = Append(s, r) /\ f = FirstLength(o, r) OBVIOUS
  <1>2. /\ h \in 1 .. Len(s) /\ Len(s) \in Nat
        /\ (Len(s) + 1) - h - 1 = o.nextIndex
        /\ o.nextIndex = Len(s) - h
        /\ o.nextIndex \in Nat /\ o.chunkLen \in Nat /\ o.nextOffset \in Nat
        /\ ~(Len(s) > h) => Len(s) = h /\ o.nextIndex = 0
    <2>1. o.nextIndex \in Nat /\ o.chunkLen \in Nat /\ o.nextOffset \in Nat
      BY DEF Kept, PendingOriginal
    <2>2. h \in 1 .. Len(s) /\ Len(s) \in Nat /\ o.nextIndex = Len(s) - h
      BY DEF PendingAt, LatestHead
    <2>3. h \in Nat /\ h <= Len(s) BY <2>2
    <2> QED BY <2>1, <2>2, <2>3
  <1>15. h \in Nat /\ Len(s) \in Nat
    <2>1. h \in 1 .. Len(s) /\ Len(s) \in Nat BY <1>2
    <2> QED BY <2>1
  <1>3. r \in DataRecords BY DEF DataRecords
  <1>4. t[Len(s) + 1] = r /\ \A k \in 1 .. Len(s) : t[k] = s[k] BY <1>1, <1>3, AppendPlaces
  <1>5. r.raw \in Seq(Bytes) /\ Len(r.raw) \in Nat /\ r.byteOffset \in Nat
    BY DEF OriginalChunk
  <1>6. Len(t[h + 1].raw) = f /\ f \in Nat /\ (Len(s) > h => f = o.chunkLen) /\ (Len(r.raw) # 0 => f # 0)
    <2>1. CASE Len(s) > h
      <3>1. h + 1 \in (h + 1) .. Len(s) /\ h + 1 \in 1 .. Len(s) BY <1>15, <2>1
      <3>2. Len(s[h + 1].raw) = o.chunkLen BY <3>1 DEF PendingAt
      <3>3. o.chunkLen # 0 BY <2>1 DEF PendingAt
      <3> QED BY <1>1, <1>2, <1>4, <2>1, <3>1, <3>2, <3>3 DEF FirstLength
    <2>2. CASE ~(Len(s) > h)
      <3>1. Len(s) = h BY <1>2, <2>2
      <3>2. o.chunkLen = 0 BY <3>1 DEF PendingAt
      <3> QED BY <1>1, <1>2, <1>4, <1>5, <2>2, <3>1, <3>2 DEF FirstLength
    <2> QED BY <2>1, <2>2
  <1>7. o.nextIndex * f = o.nextOffset
    <2>1. CASE Len(s) > h BY <1>6, <2>1 DEF Kept
    <2>2. CASE ~(Len(s) > h)
      <3>1. o.nextIndex = 0 BY <1>2, <2>2
      <3>2. o.nextOffset = 0 * o.chunkLen BY <3>1 DEF Kept
      <3>6. o.chunkLen \in Nat BY <1>2
      <3>3. 0 * o.chunkLen = 0 BY <3>6, ZeroTimes
      <3>4. f \in Nat BY <1>6
      <3>5. 0 * f = 0 BY <3>4, ZeroTimes
      <3> QED BY <3>1, <3>2, <3>3, <3>5
    <2> QED BY <2>1, <2>2
  <1>8. o.evidenceId = s[h].id /\ o.blob = s[h].blob /\ t[h] = s[h] BY <1>2, <1>4 DEF PendingAt
  <1>9. r.raw # <<>> <=> Len(r.raw) # 0 BY <1>5
  <1> DEFINE Fits == /\ r.evidenceId = o.evidenceId
                     /\ r.assetId = o.blob.assetId
                     /\ r.index = o.nextIndex
                     /\ r.byteOffset = o.nextOffset
                     /\ r.decodes
                     /\ Len(r.raw) # 0
                     /\ r.sha256 = Digest(r.raw)
                     /\ Len(r.raw) <= f
                     /\ o.nextOffset + Len(r.raw) <= o.blob.byteLength
                     /\ Len(r.raw) < f => o.nextOffset + Len(r.raw) = o.blob.byteLength
  <1>10. ChunkNext(o, r) <=>
           /\ Fits
           /\ o.nextOffset + Len(r.raw) = o.blob.byteLength =>
                Digest(o.received \o r.raw) = o.blob.sha256
    BY <1>1 DEF ChunkNext, LengthFits, IsLastChunk, OriginalMatches, ChunkEnd
  <1> DEFINE i == Len(s) + 1
             Whole(end) == o.blob.sha256 = Digest(PlacedBytes(t, h, f, end))
  <1>11. ChunkInPlace(t, h, i) <=>
           /\ r.evidenceId = o.evidenceId
           /\ r.assetId = o.blob.assetId
           /\ r.index = i - h - 1
           /\ r.byteOffset = (i - h - 1) * f
           /\ r.decodes
           /\ r.raw # <<>>
           /\ r.sha256 = Digest(r.raw)
           /\ Len(r.raw) <= f
           /\ r.byteOffset + Len(r.raw) <= o.blob.byteLength
           /\ Len(r.raw) < f => r.byteOffset + Len(r.raw) = o.blob.byteLength
           /\ r.byteOffset + Len(r.raw) = o.blob.byteLength => Whole(r.byteOffset + Len(r.raw))
    <2>1. \A k \in (h + 1) .. i : IsChunk(t[k])
      <3>1. \A k \in (h + 1) .. i : k = Len(s) + 1 \/ (k \in (h + 1) .. Len(s) /\ k \in 1 .. Len(s))
        BY <1>15
      <3>2. IsChunk(r) BY DEF OriginalChunk, IsChunk
      <3> QED BY <1>4, <3>1, <3>2 DEF PendingAt
    <2> QED BY <1>4, <1>6, <1>8, <2>1 DEF ChunkInPlace, PlacedBytes
  <1>13. i - h - 1 = o.nextIndex BY <1>2
  <1>14. ChunkInPlace(t, h, i) <=>
           /\ Fits
           /\ o.nextOffset + Len(r.raw) = o.blob.byteLength => Whole(o.nextOffset + Len(r.raw))
    <2> HIDE DEF Whole, i
    <2> QED BY <1>7, <1>9, <1>11, <1>13
  <1>12. Fits => o.received \o r.raw = PlacedBytes(t, h, f, o.nextOffset + Len(r.raw))
    BY <1>1, <1>5, <1>6, BytesInPlace
  <1> HIDE DEF Fits
  <1> QED BY <1>1, <1>10, <1>12, <1>14 DEF Whole, i

-------------------------------------------------------------------------------
\* What may come next, by what is open

\* r in the only group that is open.
LEMMA NextInGroup ==
  ASSUME NEW s \in Seq(DataRecords), NEW r \in DataRecords, NEW c \in BOOLEAN, NEW h, LatestHead(s, h)
  PROVE  InPlace(Append(s, r), Len(Append(s, r)), c) <=>
           /\ IsFollower(r) => Follows(s, h, r)
           /\ IsPrimary(r) => PrimaryInPlace(r)
           /\ ~IsChunk(r) => ~EndsInOriginal(s, Len(s))
           /\ IsFollower(r) \/ IsPrimary(r) => c
  <1>1. ASSUME NEW g, LatestHead(s, g), Follows(s, g, r) PROVE Follows(s, h, r)
    <2>1. g = h BY <1>1, OneHead
    <2> QED BY <1>1, <2>1
  <1>2. (\E g : LatestHead(s, g) /\ Follows(s, g, r)) => Follows(s, h, r)
    BY <1>1
  <1>3. Follows(s, h, r) => \E g : LatestHead(s, g) /\ Follows(s, g, r)
    OBVIOUS
  <1>4. IsFollower(r) => (Follows(s, h, r) <=> \E g : LatestHead(s, g) /\ Follows(s, g, r))
    BY <1>2, <1>3
  <1>5. InPlace(Append(s, r), Len(Append(s, r)), c) <=>
           /\ IsFollower(r) => \E g : LatestHead(s, g) /\ Follows(s, g, r)
           /\ IsPrimary(r) => PrimaryInPlace(r)
           /\ ~IsChunk(r) => ~EndsInOriginal(s, Len(s))
           /\ IsFollower(r) \/ IsPrimary(r) => c
    BY NextInPlace
  <1> QED BY <1>4, <1>5

LEMMA ChunksAre ==
  ASSUME NEW r \in DataRecords
  PROVE  /\ IsChunk(r) => r \in OriginalChunk
         /\ IsSource(r) => r \in OriginalSource
         /\ r.kind = "evidence" => r \in Evidence
  BY DEF DataRecords, IsChunk, IsSource, Evidence, OriginalChunk, OriginalSource, PlainRecord, PlainKinds

\* While an original is incomplete only its next chunk may come.
LEMMA PendingNext ==
  ASSUME NEW s \in Seq(DataRecords), NEW r \in DataRecords, NEW c \in BOOLEAN, NEW o, NEW h,
         Kept(o), PendingAt(s, o, h)
  PROVE  InPlace(Append(s, r), Len(Append(s, r)), c) <=> IsChunk(r) /\ ChunkNext(o, r) /\ c
  <1>1. LatestHead(s, h) /\ IsPrimary(s[h]) /\ h \in 1 .. Len(s) BY DEF PendingAt, LatestHead
  <1>2. EndsInOriginal(s, Len(s)) BY PendingEnds
  <1>3. CASE ~IsChunk(r) BY <1>1, <1>2, <1>3, NextInGroup
  <1>4. CASE IsChunk(r)
    <2>1. Len(s) > h => Rank(s[Len(s)]) <= Rank(r)
      <3>1. Len(s) > h => Len(s) \in (h + 1) .. Len(s) BY <1>1
      <3>2. Len(s) > h => IsChunk(s[Len(s)]) BY <3>1 DEF PendingAt
      <3> QED BY <1>4, <3>2 DEF Rank
    <2>2. Follows(s, h, r) <=> ChunkInPlace(Append(s, r), h, Len(s) + 1)
      BY <1>1, <1>4, <2>1, FollowsWhen, Kinds
    <2>3. IsFollower(r) /\ ~IsPrimary(r) BY <1>4, Kinds DEF IsFollower
    <2>4. r \in OriginalChunk BY <1>4, ChunksAre
    <2>5. ChunkInPlace(Append(s, r), h, Len(s) + 1) <=> ChunkNext(o, r) BY <2>4, ChunkPlaces
    <2>6. InPlace(Append(s, r), Len(Append(s, r)), c) <=> Follows(s, h, r) /\ c
      BY <1>1, <1>4, <2>3, NextInGroup
    <2> QED BY <1>4, <2>2, <2>5, <2>6
  <1> QED BY <1>3, <1>4

\* The last chunk is where it should be and ends the original.
LastChunkEnds(s, h) ==
  /\ IsChunk(s[h + 1])
  /\ s[Len(s)].byteOffset = ((Len(s) - h) - 1) * Len(s[h + 1].raw)
  /\ Len(s[Len(s)].raw) <= Len(s[h + 1].raw)
  /\ s[Len(s)].byteOffset + Len(s[Len(s)].raw) = s[h].blob.byteLength

\* An original all of whose chunks came, and the sources read since.
CompletedAt(s, c, h) ==
  /\ LatestHead(s, h)
  /\ IsPrimary(s[h])
  /\ c.evidenceId = s[h].id
  /\ c.blob = s[h].blob
  /\ \A k \in (h + 1) .. Len(s) : IsChunk(s[k]) \/ IsSource(s[k])
  /\ Len(s) = h => s[h].blob.byteLength = 0
  /\ Len(s) > h /\ IsChunk(s[Len(s)]) => LastChunkEnds(s, h)
  /\ \A j \in (h + 1) .. Len(s) : IsSource(s[j]) => s[j].referenceId <= c.last
  /\ c.last # 0 => \E j \in (h + 1) .. Len(s) : IsSource(s[j]) /\ s[j].referenceId = c.last

LEMMA HeadPlace ==
  ASSUME NEW s \in Seq(DataRecords), NEW h, LatestHead(s, h)
  PROVE  /\ h \in 1 .. Len(s) /\ h \in Nat /\ Len(s) \in Nat /\ h <= Len(s)
         /\ Len(s) # h => Len(s) > h /\ Len(s) \in (h + 1) .. Len(s) /\ h + 1 \in 1 .. Len(s)
  <1>1. h \in 1 .. Len(s) /\ Len(s) \in Nat BY DEF LatestHead
  <1> QED BY <1>1

\* An original that ends some group short of bytes is that of the latest head.
LEMMA EndsAtLatest ==
  ASSUME NEW s \in Seq(DataRecords), NEW h, LatestHead(s, h), EndsInOriginal(s, Len(s))
  PROVE  /\ \A k \in (h + 1) .. Len(s) : IsChunk(s[k])
         /\ s[h].blob.byteLength # (IF Len(s) = h THEN 0 ELSE s[Len(s)].byteOffset + Len(s[Len(s)].raw))
  <1>1. PICK g \in 1 .. Len(s) :
          /\ IsPrimary(s[g])
          /\ \A k \in (g + 1) .. Len(s) : IsChunk(s[k])
          /\ s[g].blob.byteLength # (IF Len(s) = g THEN 0 ELSE s[Len(s)].byteOffset + Len(s[Len(s)].raw))
    BY DEF EndsInOriginal
  <1>2. LatestHead(s, g) BY <1>1, Kinds DEF LatestHead, IsFollower
  <1>3. g = h BY <1>2, OneHead
  <1> QED BY <1>1, <1>3

LEMMA CompletedEnds ==
  ASSUME NEW s \in Seq(DataRecords), NEW c, NEW h, CompletedAt(s, c, h)
  PROVE  ~EndsInOriginal(s, Len(s))
  <1> SUFFICES ASSUME EndsInOriginal(s, Len(s)) PROVE FALSE
    OBVIOUS
  <1>1. LatestHead(s, h) BY DEF CompletedAt
  <1>2. CASE Len(s) = h BY <1>1, <1>2, EndsAtLatest DEF CompletedAt
  <1>3. CASE Len(s) # h
    <2>1. Len(s) > h /\ Len(s) \in (h + 1) .. Len(s) BY <1>1, <1>3, HeadPlace
    <2>2. IsChunk(s[Len(s)]) BY <1>1, <2>1, EndsAtLatest
    <2>3. s[h].blob.byteLength = s[Len(s)].byteOffset + Len(s[Len(s)].raw)
      BY <2>1, <2>2 DEF CompletedAt, LastChunkEnds
    <2> QED BY <1>1, <1>3, <2>3, EndsAtLatest
  <1> QED BY <1>2, <1>3

\* No chunk comes after the last one.
LEMMA NoChunkAfter ==
  ASSUME NEW s \in Seq(DataRecords), NEW r \in OriginalChunk, NEW c, NEW h, CompletedAt(s, c, h)
  PROVE  ~Follows(s, h, r)
  <1>1. LatestHead(s, h) /\ IsPrimary(s[h]) BY DEF CompletedAt
  <1>2. IsChunk(r) /\ r \in DataRecords BY DEF IsChunk, OriginalChunk, DataRecords
  <1>3. PICK t : t = Append(s, r) OBVIOUS
  <1>4. t[Len(s) + 1] = r /\ \A k \in 1 .. Len(s) : t[k] = s[k] /\ s[k] \in DataRecords
    BY <1>2, <1>3, AppendPlaces
  <1>5. h \in 1 .. Len(s) /\ h \in Nat /\ Len(s) \in Nat /\ h <= Len(s) BY <1>1, HeadPlace
  <1> SUFFICES ASSUME Follows(s, h, r) PROVE FALSE
    OBVIOUS
  <1>6. ChunkInPlace(t, h, Len(s) + 1) /\ (Len(s) > h => Rank(s[Len(s)]) <= 1)
    BY <1>2, <1>3, <1>5, FollowsWhen, Kinds
  <1>7. /\ r.byteOffset = ((Len(s) + 1) - h - 1) * Len(t[h + 1].raw)
        /\ r.raw # <<>>
        /\ r.byteOffset + Len(r.raw) <= s[h].blob.byteLength
        /\ Len(r.raw) <= Len(t[h + 1].raw)
    BY <1>4, <1>5, <1>6 DEF ChunkInPlace
  <1>8. Len(r.raw) \in Nat \ {0} /\ r.byteOffset \in Nat
    <2>1. r.raw \in Seq(Bytes) /\ r.byteOffset \in Nat BY DEF OriginalChunk
    <2> QED BY <1>7, <2>1
  <1>9. CASE Len(s) = h
    <2>1. s[h].blob.byteLength = 0 BY <1>9 DEF CompletedAt
    <2> QED BY <1>7, <1>8, <2>1
  <1>10. CASE Len(s) # h
    <2>1. Len(s) > h /\ Len(s) \in (h + 1) .. Len(s) /\ h + 1 \in 1 .. Len(s)
      BY <1>1, <1>10, HeadPlace
    <2>2. IsChunk(s[Len(s)])
      <3>1. IsChunk(s[Len(s)]) \/ IsSource(s[Len(s)]) BY <2>1 DEF CompletedAt
      <3>2. ~IsSource(s[Len(s)]) BY <1>6, <2>1, Kinds
      <3> QED BY <3>1, <3>2
    <2>3. LastChunkEnds(s, h) BY <2>1, <2>2 DEF CompletedAt
    <2>4. PICK n, f : n = (Len(s) - h) - 1 /\ f = Len(s[h + 1].raw) OBVIOUS
    <2>5. n \in Nat /\ (Len(s) + 1) - h - 1 = n + 1 BY <1>5, <2>1, <2>4
    <2>6. t[h + 1] = s[h + 1] BY <1>4, <2>1
    <2>7. IsChunk(s[h + 1]) BY <2>3 DEF LastChunkEnds
    <2>8. f \in Nat
      <3>1. s[h + 1] \in OriginalChunk BY <1>4, <2>1, <2>7, ChunksAre
      <3> QED BY <2>4, <3>1 DEF OriginalChunk
    <2>9. PICK m : m = Len(s[Len(s)].raw) OBVIOUS
    <2>10. m \in Nat
      <3>1. Len(s) \in 1 .. Len(s) BY <1>5, <2>1
      <3>2. s[Len(s)] \in OriginalChunk BY <1>4, <2>2, <3>1, ChunksAre
      <3> QED BY <2>9, <3>2 DEF OriginalChunk
    <2>11. m <= f /\ n * f + m = s[h].blob.byteLength
      BY <2>3, <2>4, <2>9 DEF LastChunkEnds
    <2>12. (n + 1) * f = n * f + f BY <2>5, <2>8, NextProduct
    <2>13. n * f \in Nat BY <2>5, <2>8
    <2>14. r.byteOffset = n * f + f BY <1>7, <2>4, <2>5, <2>6, <2>12
    <2> QED BY <1>7, <1>8, <2>8, <2>10, <2>11, <2>13, <2>14
  <1> QED BY <1>9, <1>10

\* What a derivative of the original must say, whatever came before.
DerivativeOf(r, id, blob) ==
  /\ r.blob = None
  /\ r.derivation.wellFormed
  /\ r.derivation.text = r.content
  /\ DerivationBinds(r.derivation, id, blob)

\* After a complete original: sources in id order, or the first derivative.
CompletedNextIs(r, c) ==
  /\ ~IsChunk(r)
  /\ IsSource(r) => /\ r.wellFormed
                    /\ SourceBinds(r, c.evidenceId, c.blob)
                    /\ c.last < r.referenceId
  /\ IsDerivative(r) => DerivativeOf(r, c.evidenceId, c.blob)

LEMMA CompletedFollows ==
  ASSUME NEW s \in Seq(DataRecords), NEW r \in DataRecords, NEW h,
         NEW c \in CompletedOriginal, CompletedAt(s, c, h), IsFollower(r)
  PROVE  Follows(s, h, r) <=> CompletedNextIs(r, c)
  <1>1. LatestHead(s, h) /\ IsPrimary(s[h]) /\ c.evidenceId = s[h].id /\ c.blob = s[h].blob
    BY DEF CompletedAt
  <1>2. h \in 1 .. Len(s) /\ \A k \in 1 .. Len(s) : s[k] \in DataRecords
    BY <1>1, HeadPlace, AppendPlaces
  <1>3. CASE IsChunk(r)
    <2>1. r \in OriginalChunk BY <1>3, ChunksAre
    <2> QED BY <1>3, <2>1, NoChunkAfter DEF CompletedNextIs
  <1>4. Len(s) > h => IsChunk(s[Len(s)]) \/ IsSource(s[Len(s)])
    <2>1. Len(s) > h => Len(s) \in (h + 1) .. Len(s) BY <1>1, HeadPlace
    <2> QED BY <2>1 DEF CompletedAt
  <1>5. CASE IsSource(r)
    <2>1. Len(s) > h => Rank(s[Len(s)]) <= Rank(r) BY <1>4, <1>5, Kinds
    <2>2. Follows(s, h, r) <=> SourceNext(s, h, r) BY <1>1, <1>2, <1>5, <2>1, FollowsWhen, Kinds
    <2>3. r.referenceId \in Nat \ {0} /\ c.last \in Nat
      BY <1>5, ChunksAre DEF OriginalSource, CompletedOriginal
    <2>4. ASSUME NEW j \in (h + 1) .. Len(s), IsSource(s[j])
          PROVE  s[j].referenceId \in Nat /\ s[j].referenceId <= c.last
      <3>1. j \in 1 .. Len(s) BY <1>2
      <3>2. s[j] \in OriginalSource BY <1>2, <2>4, <3>1, ChunksAre
      <3> QED BY <2>4, <3>2 DEF OriginalSource, CompletedAt
    <2>5. (\A j \in (h + 1) .. Len(s) : IsSource(s[j]) => s[j].referenceId < r.referenceId)
            <=> c.last < r.referenceId
      <3>1. ASSUME c.last < r.referenceId, NEW j \in (h + 1) .. Len(s), IsSource(s[j])
            PROVE  s[j].referenceId < r.referenceId
        BY <2>3, <2>4, <3>1
      <3>2. ASSUME \A j \in (h + 1) .. Len(s) : IsSource(s[j]) => s[j].referenceId < r.referenceId
            PROVE  c.last < r.referenceId
        <4>1. CASE c.last = 0 BY <2>3, <4>1
        <4>2. CASE c.last # 0
          <5>1. PICK j \in (h + 1) .. Len(s) : IsSource(s[j]) /\ s[j].referenceId = c.last
            BY <4>2 DEF CompletedAt
          <5> QED BY <3>2, <5>1
        <4> QED BY <4>1, <4>2
      <3> QED BY <3>1, <3>2
    <2>6. ~IsChunk(r) /\ ~IsDerivative(r) BY <1>5, Kinds
    <2> QED BY <1>1, <1>5, <2>2, <2>5, <2>6 DEF SourceNext, CompletedNextIs
  <1>6. CASE IsDerivative(r)
    <2>1. Len(s) > h => Rank(s[Len(s)]) <= Rank(r) BY <1>4, <1>6, Kinds
    <2>2. Follows(s, h, r) <=> DerivativeNext(s, h, r) BY <1>1, <1>2, <1>6, <2>1, FollowsWhen, Kinds
    <2>3. \A j \in (h + 1) .. Len(s) : ~IsDerivative(s[j]) BY Kinds DEF CompletedAt
    <2>4. ~IsChunk(r) /\ ~IsSource(r) BY <1>6, Kinds
    <2> QED BY <1>1, <1>6, <2>2, <2>3, <2>4 DEF DerivativeNext, DerivativeOf, CompletedNextIs
  <1> QED BY <1>3, <1>5, <1>6 DEF IsFollower

\* A complete original some derivatives of which were read.
ContinuedAt(s, d, h) ==
  /\ LatestHead(s, h)
  /\ IsPrimary(s[h])
  /\ d.evidenceId = s[h].id
  /\ d.blob = s[h].blob
  /\ Len(s) > h
  /\ IsDerivative(s[Len(s)])
  /\ SlotOf(s[Len(s)].derivation) = d.last
  /\ \A j \in (h + 1) .. Len(s) :
       IsDerivative(s[j]) => \/ SlotOf(s[j].derivation) = d.last
                             \/ SlotLess(SlotOf(s[j].derivation), d.last)

\* After a derivative: the next one in slot order.
ContinuedNextIs(r, d) ==
  /\ ~IsChunk(r)
  /\ ~IsSource(r)
  /\ IsDerivative(r) => /\ DerivativeOf(r, d.evidenceId, d.blob)
                        /\ SlotLess(d.last, SlotOf(r.derivation))

LEMMA SlotsAre ==
  ASSUME NEW r \in DataRecords, IsDerivative(r)
  PROVE  SlotOf(r.derivation) \in Slot /\ r.derivation \in Derivation
  BY ChunksAre DEF IsDerivative, Evidence, Derivation, SlotOf, Slot

LEMMA SlotOrder ==
  ASSUME NEW a \in Slot, NEW b \in Slot, NEW c \in Slot, SlotLess(a, b), SlotLess(b, c)
  PROVE  SlotLess(a, c)
  BY DEF Slot, SlotLess

LEMMA ContinuedFollows ==
  ASSUME NEW s \in Seq(DataRecords), NEW r \in DataRecords, NEW h,
         NEW d \in DerivativesOf, ContinuedAt(s, d, h), IsFollower(r)
  PROVE  Follows(s, h, r) <=> ContinuedNextIs(r, d)
  <1>1. LatestHead(s, h) /\ IsPrimary(s[h]) /\ d.evidenceId = s[h].id /\ d.blob = s[h].blob
    BY DEF ContinuedAt
  <1>2. h \in 1 .. Len(s) /\ \A k \in 1 .. Len(s) : s[k] \in DataRecords
    BY <1>1, HeadPlace, AppendPlaces
  <1>3. Len(s) > h /\ IsDerivative(s[Len(s)]) /\ Rank(s[Len(s)]) = 3 BY Kinds DEF ContinuedAt
  <1>4. CASE IsChunk(r) \/ IsSource(r)
    <2>1. ~(Rank(s[Len(s)]) <= Rank(r)) BY <1>3, <1>4, Kinds
    <2> QED BY <1>2, <1>3, <1>4, <2>1, FollowsWhen DEF ContinuedNextIs
  <1>5. CASE IsDerivative(r)
    <2>1. Rank(s[Len(s)]) <= Rank(r) BY <1>3, <1>5, Kinds
    <2>2. Follows(s, h, r) <=> DerivativeNext(s, h, r) BY <1>1, <1>2, <1>5, <2>1, FollowsWhen, Kinds
    <2>3. SlotOf(r.derivation) \in Slot /\ d.last \in Slot BY <1>5, SlotsAre DEF DerivativesOf
    <2>4. (\A j \in (h + 1) .. Len(s) :
             IsDerivative(s[j]) => SlotLess(SlotOf(s[j].derivation), SlotOf(r.derivation)))
            <=> SlotLess(d.last, SlotOf(r.derivation))
      <3>1. ASSUME SlotLess(d.last, SlotOf(r.derivation)), NEW j \in (h + 1) .. Len(s),
                   IsDerivative(s[j])
            PROVE  SlotLess(SlotOf(s[j].derivation), SlotOf(r.derivation))
        <4>1. j \in 1 .. Len(s) BY <1>2
        <4>2. SlotOf(s[j].derivation) \in Slot BY <1>2, <3>1, <4>1, SlotsAre
        <4>3. SlotOf(s[j].derivation) = d.last \/ SlotLess(SlotOf(s[j].derivation), d.last)
          BY <3>1 DEF ContinuedAt
        <4> QED BY <2>3, <3>1, <4>2, <4>3, SlotOrder
      <3>2. ASSUME \A j \in (h + 1) .. Len(s) :
                     IsDerivative(s[j]) => SlotLess(SlotOf(s[j].derivation), SlotOf(r.derivation))
            PROVE  SlotLess(d.last, SlotOf(r.derivation))
        <4>1. Len(s) \in (h + 1) .. Len(s) BY <1>1, <1>3, HeadPlace
        <4> QED BY <1>3, <3>2, <4>1 DEF ContinuedAt
      <3> QED BY <3>1, <3>2
    <2>5. ~IsChunk(r) /\ ~IsSource(r) BY <1>5, Kinds
    <2> QED BY <1>1, <1>5, <2>2, <2>4, <2>5 DEF DerivativeNext, DerivativeOf, ContinuedNextIs
  <1> QED BY <1>4, <1>5 DEF IsFollower

LEMMA ContinuedEnds ==
  ASSUME NEW s \in Seq(DataRecords), NEW d, NEW h, ContinuedAt(s, d, h)
  PROVE  ~EndsInOriginal(s, Len(s))
  <1>1. LatestHead(s, h) /\ Len(s) > h /\ IsDerivative(s[Len(s)]) BY DEF ContinuedAt
  <1>2. Len(s) \in (h + 1) .. Len(s) BY <1>1, HeadPlace
  <1> QED BY <1>1, <1>2, EndsAtLatest, Kinds

\* No group is open.
NothingOpen(s) == s = <<>> \/ (~IsFollower(s[Len(s)]) /\ ~IsPrimary(s[Len(s)]))

LEMMA NothingFollows ==
  ASSUME NEW s \in Seq(DataRecords), NEW r \in DataRecords, NothingOpen(s)
  PROVE  ~\E h : LatestHead(s, h) /\ Follows(s, h, r)
  <1> SUFFICES ASSUME NEW h, LatestHead(s, h), Follows(s, h, r) PROVE FALSE
    OBVIOUS
  <1>1. h \in 1 .. Len(s) /\ IsPrimary(s[h]) BY HeadPlace, FollowsWhen
  <1>2. s # <<>> /\ Len(s) \in Nat BY <1>1
  <1>3. CASE Len(s) = h BY <1>1, <1>2, <1>3 DEF NothingOpen
  <1>4. CASE Len(s) # h
    <2>1. Len(s) \in (h + 1) .. Len(s) BY <1>4, HeadPlace
    <2> QED BY <1>2, <2>1 DEF NothingOpen, LatestHead
  <1> QED BY <1>3, <1>4

LEMMA NothingEnds ==
  ASSUME NEW s \in Seq(DataRecords), NothingOpen(s)
  PROVE  ~EndsInOriginal(s, Len(s))
  <1> SUFFICES ASSUME NEW h \in 1 .. Len(s), IsPrimary(s[h]), \A k \in (h + 1) .. Len(s) : IsChunk(s[k])
               PROVE  FALSE
    BY DEF EndsInOriginal
  <1>1. s # <<>> /\ Len(s) \in Nat OBVIOUS
  <1>2. CASE Len(s) = h BY <1>1, <1>2 DEF NothingOpen
  <1>3. CASE Len(s) # h
    <2>1. Len(s) \in (h + 1) .. Len(s) BY <1>1, <1>3
    <2> QED BY <1>1, <2>1 DEF NothingOpen, IsFollower
  <1> QED BY <1>2, <1>3

-------------------------------------------------------------------------------
\* The reader's state and the records it handed out

OpenGroup ==
  /\ original # None => \E h : PendingAt(delivered, original, h)
  /\ completed # None => \E h : CompletedAt(delivered, completed, h)
  /\ derivativesOf # None => \E h : ContinuedAt(delivered, derivativesOf, h)
  /\ original = None /\ completed = None /\ derivativesOf = None => NothingOpen(delivered)

\* What comes next, by the slots alone.
Accepts(r) ==
  /\ original # None => IsChunk(r) /\ ChunkNext(original, r)
  /\ completed # None => CompletedNextIs(r, completed)
  /\ derivativesOf # None => ContinuedNextIs(r, derivativesOf)
  /\ original = None /\ completed = None /\ derivativesOf = None => ~IsFollower(r)
  /\ IsPrimary(r) => PrimaryInPlace(r)
  /\ IsFollower(r) \/ IsPrimary(r) => ContractCarries

LEMMA CarriesBoolean == RestOK => ContractCarries \in BOOLEAN
  BY DEF ContractCarries, Carries, CarriesOriginals

LEMMA AcceptsIsInPlace ==
  ASSUME RestOK, SlotsInv, OpenGroup, NEW r \in DataRecords
  PROVE  InPlace(Append(delivered, r), Len(Append(delivered, r)), ContractCarries) <=> Accepts(r)
  <1>1. delivered \in Seq(DataRecords) /\ ContractCarries \in BOOLEAN
    BY CarriesBoolean DEF RestOK
  <1>2. PICK s \in Seq(DataRecords), c \in BOOLEAN : s = delivered /\ c = ContractCarries BY <1>1
  <1>3. s \in Seq(DataRecords) BY <1>1, <1>2
  <1>4. AtMostOneOpen /\ SlotsOK /\ PendingBookkeeping BY DEF SlotsInv
  <1>5. IsChunk(r) => IsFollower(r) /\ ~IsPrimary(r) BY Kinds DEF IsFollower
  <1>6. CASE original # None
    <2>1. PICK h : PendingAt(s, original, h) BY <1>2, <1>6 DEF OpenGroup
    <2>2. Kept(original) BY <1>4, <1>6 DEF SlotsOK, PendingBookkeeping, Kept
    <2>3. completed = None /\ derivativesOf = None BY <1>4, <1>6 DEF AtMostOneOpen
    <2>4. InPlace(Append(s, r), Len(Append(s, r)), c) <=> IsChunk(r) /\ ChunkNext(original, r) /\ c
      BY <1>3, <2>1, <2>2, PendingNext
    <2> QED BY <1>2, <1>5, <1>6, <2>3, <2>4 DEF Accepts
  <1>7. CASE completed # None
    <2>1. PICK h : CompletedAt(s, completed, h) BY <1>2, <1>7 DEF OpenGroup
    <2>2. completed \in CompletedOriginal BY <1>4, <1>7 DEF SlotsOK
    <2>3. original = None /\ derivativesOf = None BY <1>4, <1>7 DEF AtMostOneOpen
    <2>4. LatestHead(s, h) BY <2>1 DEF CompletedAt
    <2>5. ~EndsInOriginal(s, Len(s)) BY <1>3, <2>1, CompletedEnds
    <2>6. IsFollower(r) => (Follows(s, h, r) <=> CompletedNextIs(r, completed))
      BY <1>3, <2>1, <2>2, CompletedFollows
    <2>7. ~IsFollower(r) => CompletedNextIs(r, completed)
      BY DEF IsFollower, CompletedNextIs
    <2>8. InPlace(Append(s, r), Len(Append(s, r)), c) <=>
            /\ IsFollower(r) => Follows(s, h, r)
            /\ IsPrimary(r) => PrimaryInPlace(r)
            /\ IsFollower(r) \/ IsPrimary(r) => c
      BY <1>3, <2>4, <2>5, NextInGroup
    <2> QED BY <1>2, <1>7, <2>3, <2>6, <2>7, <2>8 DEF Accepts
  <1>8. CASE derivativesOf # None
    <2>1. PICK h : ContinuedAt(s, derivativesOf, h) BY <1>2, <1>8 DEF OpenGroup
    <2>2. derivativesOf \in DerivativesOf BY <1>4, <1>8 DEF SlotsOK
    <2>3. original = None /\ completed = None BY <1>4, <1>8 DEF AtMostOneOpen
    <2>4. LatestHead(s, h) BY <2>1 DEF ContinuedAt
    <2>5. ~EndsInOriginal(s, Len(s)) BY <1>3, <2>1, ContinuedEnds
    <2>6. IsFollower(r) => (Follows(s, h, r) <=> ContinuedNextIs(r, derivativesOf))
      BY <1>3, <2>1, <2>2, ContinuedFollows
    <2>7. ~IsFollower(r) => ContinuedNextIs(r, derivativesOf)
      BY DEF IsFollower, ContinuedNextIs
    <2>8. InPlace(Append(s, r), Len(Append(s, r)), c) <=>
            /\ IsFollower(r) => Follows(s, h, r)
            /\ IsPrimary(r) => PrimaryInPlace(r)
            /\ IsFollower(r) \/ IsPrimary(r) => c
      BY <1>3, <2>4, <2>5, NextInGroup
    <2> QED BY <1>2, <1>8, <2>3, <2>6, <2>7, <2>8 DEF Accepts
  <1>9. CASE original = None /\ completed = None /\ derivativesOf = None
    <2>1. NothingOpen(s) BY <1>2, <1>9 DEF OpenGroup
    <2>2. ~EndsInOriginal(s, Len(s)) BY <1>3, <2>1, NothingEnds
    <2>3. ~\E h : LatestHead(s, h) /\ Follows(s, h, r) BY <1>3, <2>1, NothingFollows
    <2>4. InPlace(Append(s, r), Len(Append(s, r)), c) <=>
            /\ ~IsFollower(r)
            /\ IsPrimary(r) => PrimaryInPlace(r)
            /\ IsFollower(r) \/ IsPrimary(r) => c
      BY <1>3, <2>2, <2>3, NextInPlace
    <2> QED BY <1>2, <1>9, <2>4 DEF Accepts
  <1> QED BY <1>6, <1>7, <1>8, <1>9

\* What check_originals lets through is what may come next.
DeliverStep(r) ==
  \/ AcceptChunk(r) \/ CompleteOriginal(r) \/ AcceptSource(r)
  \/ ReadPlain(r) \/ ReadPrimary(r) \/ AcceptDerivative(r)

RefuseStep(r) ==
  \/ RefuseMisplacedChunk(r) \/ RefuseChunkLength(r) \/ RefuseOriginal(r)
  \/ RefuseSource(r) \/ RefuseInterruption(r) \/ RefusePrimary(r)
  \/ RefuseMalformedDerivative(r) \/ RefuseMisplacedDerivative(r)

LEMMA ChunkGuards ==
  ASSUME NEW r, version # None
  PROVE  /\ ChunkIsNext(r) /\ LengthFits(original, r)
              /\ (IsLastChunk(original, r) => OriginalMatches(original, r))
           <=> original # None /\ ChunkNext(original, r) /\ ContractCarries
  BY DEF ChunkIsNext, ChunkNext, ContractCarries

LEMMA ChunkAccepts ==
  ASSUME NEW r, version # None, SlotsInv, IsChunk(r)
  PROVE  Accepts(r) <=> original # None /\ ChunkNext(original, r) /\ ContractCarries
  <1>1. AtMostOneOpen BY DEF SlotsInv
  <1>2. IsFollower(r) /\ ~IsPrimary(r) BY Kinds DEF IsFollower
  <1> QED BY <1>1, <1>2 DEF Accepts, AtMostOneOpen, CompletedNextIs, ContinuedNextIs

LEMMA SourceAccepts ==
  ASSUME NEW r, version # None, SlotsInv, IsSource(r)
  PROVE  Accepts(r) <=> SourceFollows(r)
  <1>1. AtMostOneOpen BY DEF SlotsInv
  <1>2. IsFollower(r) /\ ~IsPrimary(r) /\ ~IsChunk(r) /\ ~IsDerivative(r) BY Kinds DEF IsFollower
  <1> QED BY <1>1, <1>2
          DEF Accepts, AtMostOneOpen, CompletedNextIs, ContinuedNextIs, SourceFollows, ContractCarries

LEMMA DerivativeAccepts ==
  ASSUME NEW r \in DataRecords, version # None, SlotsInv, IsDerivative(r), original = None
  PROVE  Accepts(r) <=> DerivativeWellFormed(r) /\ DerivativeFollows(r)
  <1>1. AtMostOneOpen BY DEF SlotsInv
  <1>2. IsFollower(r) /\ ~IsPrimary(r) /\ ~IsChunk(r) /\ ~IsSource(r) BY Kinds DEF IsFollower
  <1>3. SlotLess(NoSlot, SlotOf(r.derivation))
    BY SlotsAre DEF SlotLess, NoSlot, Slot
  <1>4. CASE completed # None
    <2>1. /\ ContinuedPrimary.evidenceId = completed.evidenceId
          /\ ContinuedPrimary.blob = completed.blob
          /\ ContinuedPrimary.last = NoSlot
      BY <1>4 DEF ContinuedPrimary
    <2> QED BY <1>1, <1>2, <1>3, <1>4, <2>1
            DEF Accepts, AtMostOneOpen, CompletedNextIs, DerivativeOf, DerivativeWellFormed,
                DerivativeFollows, ContractCarries
  <1>5. CASE completed = None
    <2>1. ContinuedPrimary = derivativesOf BY <1>5 DEF ContinuedPrimary
    <2> QED BY <1>1, <1>2, <1>5, <2>1
            DEF Accepts, AtMostOneOpen, ContinuedNextIs, DerivativeOf, DerivativeWellFormed,
                DerivativeFollows, ContractCarries
  <1> QED BY <1>4, <1>5

LEMMA OtherAccepts ==
  ASSUME NEW r, version # None, ~IsFollower(r), original = None
  PROVE  Accepts(r) <=> (IsPrimary(r) => PrimaryAccepted(r))
  BY Kinds DEF Accepts, CompletedNextIs, ContinuedNextIs, IsFollower, PrimaryInPlace,
               PrimaryAccepted, ContractCarries

LEMMA DeliveredAccepted ==
  ASSUME RestOK, phase = "reading", SlotsInv, NEW r \in Lines, DeliverStep(r)
  PROVE  Accepts(r) /\ Deliver(r) /\ r \in DataRecords /\ r.kind \in DataKinds
  <1>1. version # None BY DEF RestOK
  <1>2. r.kind \in DataKinds /\ Deliver(r)
    BY DEF DeliverStep, AcceptChunk, CompleteOriginal, AcceptSource, ReadPlain, ReadPrimary,
           AcceptDerivative, IsPrimary, IsDerivative, DataKinds
  <1>3. r \in DataRecords BY <1>2, LineKinds
  <1>4. CASE AcceptChunk(r) \/ CompleteOriginal(r)
    BY <1>1, <1>4, ChunkGuards, ChunkAccepts, <1>2, <1>3 DEF AcceptChunk, CompleteOriginal, IsChunk
  <1>5. CASE AcceptSource(r)
    BY <1>1, <1>2, <1>3, <1>5, SourceAccepts DEF AcceptSource, IsSource
  <1>6. CASE AcceptDerivative(r)
    BY <1>1, <1>2, <1>3, <1>6, DerivativeAccepts DEF AcceptDerivative
  <1>7. CASE ReadPlain(r) \/ ReadPrimary(r)
    <2>1. ~IsFollower(r) /\ original = None
      BY <1>7 DEF ReadPlain, ReadPrimary, IsPrimary, IsFollower, IsChunk, IsSource, IsDerivative, PlainKinds
    <2>2. IsPrimary(r) => PrimaryAccepted(r)
      BY <1>7 DEF ReadPlain, ReadPrimary, IsPrimary
    <2> QED BY <1>1, <1>2, <1>3, <2>1, <2>2, OtherAccepts
  <1> QED BY <1>4, <1>5, <1>6, <1>7 DEF DeliverStep

LEMMA RefusedNotAccepted ==
  ASSUME RestOK, phase = "reading", SlotsInv, NEW r \in Lines, RefuseStep(r)
  PROVE  ~Accepts(r) /\ Refuse(r) /\ r \in DataRecords /\ r.kind \in DataKinds
  <1>1. version # None BY DEF RestOK
  <1>2. r.kind \in DataKinds /\ Refuse(r)
    BY DEF RefuseStep, RefuseMisplacedChunk, RefuseChunkLength, RefuseOriginal, RefuseSource,
           RefuseInterruption, RefusePrimary, RefuseMalformedDerivative,
           RefuseMisplacedDerivative, IsPrimary, IsDerivative, DataKinds
  <1>3. r \in DataRecords BY <1>2, LineKinds
  <1>4. CASE RefuseMisplacedChunk(r) \/ RefuseChunkLength(r) \/ RefuseOriginal(r)
    <2>1. ~(ChunkIsNext(r) /\ LengthFits(original, r)
              /\ (IsLastChunk(original, r) => OriginalMatches(original, r)))
      BY <1>4 DEF RefuseMisplacedChunk, RefuseChunkLength, RefuseOriginal
    <2>2. IsChunk(r) BY <1>4 DEF RefuseMisplacedChunk, RefuseChunkLength, RefuseOriginal, IsChunk
    <2> QED BY <1>1, <1>2, <1>3, <2>1, <2>2, ChunkGuards, ChunkAccepts
  <1>5. CASE RefuseSource(r)
    BY <1>1, <1>2, <1>3, <1>5, SourceAccepts DEF RefuseSource, IsSource
  <1>6. CASE RefuseMalformedDerivative(r) \/ RefuseMisplacedDerivative(r)
    BY <1>1, <1>2, <1>3, <1>6, DerivativeAccepts
    DEF RefuseMalformedDerivative, RefuseMisplacedDerivative
  <1>7. CASE RefusePrimary(r)
    <2>1. ~IsFollower(r) /\ IsPrimary(r) /\ original = None /\ ~PrimaryAccepted(r)
      BY <1>7, Kinds DEF RefusePrimary
    <2> QED BY <1>1, <1>2, <1>3, <2>1, OtherAccepts
  <1>8. CASE RefuseInterruption(r)
    <2>1. original # None /\ ~IsChunk(r) BY <1>8 DEF RefuseInterruption, IsChunk, PlainKinds
    <2> QED BY <1>2, <1>3, <2>1 DEF Accepts
  <1> QED BY <1>4, <1>5, <1>6, <1>7, <1>8 DEF RefuseStep

-------------------------------------------------------------------------------
\* A record handed out leaves the group as open as the slots say

LEMMA LatestHeadGrows ==
  ASSUME NEW s \in Seq(DataRecords), NEW r \in DataRecords, NEW h, LatestHead(s, h), IsFollower(r)
  PROVE  /\ LatestHead(Append(s, r), h)
         /\ Append(s, r)[h] = s[h]
         /\ \A k \in (h + 1) .. (Len(s) + 1) :
              k = Len(s) + 1 \/ (k \in (h + 1) .. Len(s) /\ Append(s, r)[k] = s[k])
         /\ h < Len(s) + 1
  <1>1. /\ h \in 1 .. Len(s) /\ h \in Nat /\ Len(s) \in Nat /\ h <= Len(s) BY HeadPlace
  <1>2. PICK t : t = Append(s, r) OBVIOUS
  <1>3. Len(t) = Len(s) + 1 /\ t[Len(s) + 1] = r /\ \A k \in 1 .. Len(s) : t[k] = s[k]
    BY <1>2, AppendPlaces
  <1>4. \A k \in (h + 1) .. (Len(s) + 1) :
          k = Len(s) + 1 \/ (k \in (h + 1) .. Len(s) /\ k \in 1 .. Len(s))
    BY <1>1
  <1>5. \A k \in (h + 1) .. (Len(s) + 1) :
          k = Len(s) + 1 \/ (k \in (h + 1) .. Len(s) /\ t[k] = s[k])
    BY <1>3, <1>4
  <1>6. h \in 1 .. Len(t) BY <1>1, <1>3
  <1>7. LatestHead(t, h) BY <1>1, <1>3, <1>5, <1>6 DEF LatestHead
  <1> QED BY <1>1, <1>2, <1>3, <1>5, <1>7

LEMMA NewHead ==
  ASSUME NEW s \in Seq(DataRecords), NEW r \in DataRecords, ~IsFollower(r)
  PROVE  LatestHead(Append(s, r), Len(s) + 1)
  <1>1. Len(Append(s, r)) = Len(s) + 1 /\ Append(s, r)[Len(s) + 1] = r /\ Len(s) \in Nat
    BY AppendPlaces
  <1>2. Len(s) + 1 \in 1 .. (Len(s) + 1) /\ (Len(s) + 1 + 1) .. (Len(s) + 1) = {} BY <1>1
  <1> QED BY <1>1, <1>2 DEF LatestHead

LEMMA AfterOther ==
  ASSUME NEW s \in Seq(DataRecords), NEW r \in DataRecords, ~IsFollower(r), ~IsPrimary(r)
  PROVE  NothingOpen(Append(s, r))
  <1>1. Len(Append(s, r)) = Len(s) + 1 /\ Append(s, r)[Len(s) + 1] = r BY AppendPlaces
  <1> QED BY <1>1 DEF NothingOpen

\* A primary with an original in chunks, or an empty one.
LEMMA AfterPrimary ==
  ASSUME NEW s \in Seq(DataRecords), NEW r \in DataRecords, IsPrimary(r), NEW o, NEW c
  PROVE  /\ o = [evidenceId |-> r.id, blob |-> r.blob, nextIndex |-> 0,
                 nextOffset |-> 0, chunkLen |-> 0, received |-> <<>>]
              => PendingAt(Append(s, r), o, Len(s) + 1)
         /\ c = [evidenceId |-> r.id, blob |-> r.blob, last |-> 0] /\ r.blob.byteLength = 0
              => CompletedAt(Append(s, r), c, Len(s) + 1)
  <1>1. Len(Append(s, r)) = Len(s) + 1 /\ Append(s, r)[Len(s) + 1] = r /\ Len(s) \in Nat
    BY AppendPlaces
  <1>2. LatestHead(Append(s, r), Len(s) + 1) BY Kinds, NewHead
  <1>3. PICK t, h : t = Append(s, r) /\ h = Len(s) + 1 OBVIOUS
  <1>4. /\ Len(t) = h /\ t[h] = r /\ LatestHead(t, h) /\ h \in Nat
        /\ (h + 1) .. h = {} /\ h - h = 0 /\ ~(h > h)
    BY <1>1, <1>2, <1>3
  <1>5. (o = [evidenceId |-> r.id, blob |-> r.blob, nextIndex |-> 0,
              nextOffset |-> 0, chunkLen |-> 0, received |-> <<>>]) => PendingAt(t, o, h)
    BY <1>4 DEF PendingAt
  <1>6. c = [evidenceId |-> r.id, blob |-> r.blob, last |-> 0] /\ r.blob.byteLength = 0
          => CompletedAt(t, c, h)
    BY <1>4 DEF CompletedAt
  <1> QED BY <1>3, <1>5, <1>6

\* A source after a complete original.
LEMMA AfterSource ==
  ASSUME NEW s \in Seq(DataRecords), NEW r \in DataRecords, IsSource(r), NEW h,
         NEW c \in CompletedOriginal, CompletedAt(s, c, h), c.last < r.referenceId
  PROVE  CompletedAt(Append(s, r), [c EXCEPT !.last = r.referenceId], h)
  <1>1. PICK t, d : t = Append(s, r) /\ d = [c EXCEPT !.last = r.referenceId] OBVIOUS
  <1>2. d.evidenceId = c.evidenceId /\ d.blob = c.blob /\ d.last = r.referenceId
    BY <1>1 DEF CompletedOriginal
  <1>3. LatestHead(s, h) BY DEF CompletedAt
  <1>4. IsFollower(r) /\ ~IsChunk(r) BY Kinds DEF IsFollower
  <1>5. /\ LatestHead(t, h) /\ t[h] = s[h] /\ h < Len(s) + 1
        /\ \A k \in (h + 1) .. (Len(s) + 1) :
             k = Len(s) + 1 \/ (k \in (h + 1) .. Len(s) /\ t[k] = s[k])
    BY <1>1, <1>3, <1>4, LatestHeadGrows
  <1>6. Len(t) = Len(s) + 1 /\ t[Len(s) + 1] = r /\ Len(s) \in Nat /\ h \in Nat
    BY <1>1, <1>3, AppendPlaces, HeadPlace
  <1>7. Len(s) + 1 \in (h + 1) .. Len(t) /\ Len(t) # h BY <1>5, <1>6
  <1>8. r.referenceId \in Nat /\ c.last \in Nat BY ChunksAre DEF OriginalSource, CompletedOriginal
  <1>9. ASSUME NEW j \in (h + 1) .. Len(t)
        PROVE  /\ IsChunk(t[j]) \/ IsSource(t[j])
               /\ IsSource(t[j]) => t[j].referenceId <= d.last
    <2>1. CASE j = Len(s) + 1 BY <1>2, <1>6, <1>8, <2>1
    <2>2. CASE j # Len(s) + 1
      <3>1. j \in (h + 1) .. Len(s) /\ t[j] = s[j] BY <1>5, <1>6, <2>2
      <3>2. j \in 1 .. Len(s) BY <1>6, <3>1
      <3>3. s[j] \in DataRecords BY <3>2, AppendPlaces
      <3>4. IsSource(s[j]) => s[j].referenceId \in Nat /\ s[j].referenceId <= c.last
        BY <3>1, <3>3, ChunksAre DEF OriginalSource, CompletedAt
      <3>5. IsChunk(s[j]) \/ IsSource(s[j]) BY <3>1 DEF CompletedAt
      <3> QED BY <1>2, <1>8, <3>1, <3>4, <3>5
    <2> QED BY <2>1, <2>2
  <1>10. CompletedAt(t, d, h)
    <2>1. IsPrimary(s[h]) /\ c.evidenceId = s[h].id /\ c.blob = s[h].blob BY DEF CompletedAt
    <2>2. ~IsChunk(t[Len(t)]) BY <1>4, <1>6
    <2>3. \E j \in (h + 1) .. Len(t) : IsSource(t[j]) /\ t[j].referenceId = d.last
      BY <1>2, <1>6, <1>7
    <2> QED BY <1>2, <1>5, <1>7, <1>9, <2>1, <2>2, <2>3 DEF CompletedAt
  <1> QED BY <1>1, <1>10

\* A derivative, after a complete original or after another derivative.
LEMMA AfterDerivative ==
  ASSUME NEW s \in Seq(DataRecords), NEW r \in DataRecords, IsDerivative(r), NEW h, NEW d,
         LatestHead(s, h), IsPrimary(s[h]), d.evidenceId = s[h].id, d.blob = s[h].blob,
         d.last = SlotOf(r.derivation),
         \A j \in (h + 1) .. Len(s) :
           IsDerivative(s[j]) => SlotLess(SlotOf(s[j].derivation), SlotOf(r.derivation))
  PROVE  ContinuedAt(Append(s, r), d, h)
  <1>1. PICK t : t = Append(s, r) OBVIOUS
  <1>2. IsFollower(r) BY DEF IsFollower
  <1>3. /\ LatestHead(t, h) /\ t[h] = s[h] /\ h < Len(s) + 1
        /\ \A k \in (h + 1) .. (Len(s) + 1) :
             k = Len(s) + 1 \/ (k \in (h + 1) .. Len(s) /\ t[k] = s[k])
    BY <1>1, <1>2, LatestHeadGrows
  <1>4. Len(t) = Len(s) + 1 /\ t[Len(s) + 1] = r /\ Len(s) \in Nat /\ h \in Nat
    BY <1>1, AppendPlaces, HeadPlace
  <1>5. Len(t) > h BY <1>3, <1>4
  <1>6. \A j \in (h + 1) .. Len(t) :
          IsDerivative(t[j]) => \/ SlotOf(t[j].derivation) = d.last
                                \/ SlotLess(SlotOf(t[j].derivation), d.last)
    BY <1>3, <1>4
  <1> QED BY <1>1, <1>3, <1>4, <1>5, <1>6 DEF ContinuedAt

\* The slots before one that comes after every slot so far.
LEMMA SlotsBefore ==
  ASSUME NEW s \in Seq(DataRecords), NEW r \in DataRecords, IsDerivative(r), NEW h,
         NEW d \in DerivativesOf, ContinuedAt(s, d, h), SlotLess(d.last, SlotOf(r.derivation))
  PROVE  \A j \in (h + 1) .. Len(s) :
           IsDerivative(s[j]) => SlotLess(SlotOf(s[j].derivation), SlotOf(r.derivation))
  <1>1. LatestHead(s, h) BY DEF ContinuedAt
  <1> SUFFICES ASSUME NEW j \in (h + 1) .. Len(s), IsDerivative(s[j])
               PROVE  SlotLess(SlotOf(s[j].derivation), SlotOf(r.derivation))
    OBVIOUS
  <1>2. j \in 1 .. Len(s)
    <2>1. h \in Nat /\ Len(s) \in Nat BY <1>1, HeadPlace
    <2> QED BY <2>1
  <1>3. s[j] \in DataRecords BY <1>2, AppendPlaces
  <1>4. SlotOf(s[j].derivation) \in Slot /\ SlotOf(r.derivation) \in Slot /\ d.last \in Slot
    BY <1>3, SlotsAre DEF DerivativesOf
  <1>5. SlotOf(s[j].derivation) = d.last \/ SlotLess(SlotOf(s[j].derivation), d.last)
    BY DEF ContinuedAt
  <1> QED BY <1>4, <1>5, SlotOrder

\* The records t, which go one chunk further than s.
GrownByChunk(s, r, t, h) ==
  /\ LatestHead(t, h)
  /\ t[h] = s[h]
  /\ Len(t) = Len(s) + 1
  /\ t[Len(s) + 1] = r
  /\ h < Len(s) + 1 /\ h \in Nat /\ Len(s) \in Nat
  /\ \A k \in (h + 1) .. (Len(s) + 1) : IsChunk(t[k])
  /\ \A k \in (h + 1) .. (Len(s) + 1) :
       k = Len(s) + 1 \/ (k \in (h + 1) .. Len(s) /\ t[k] = s[k])

LEMMA ChunksGrow ==
  ASSUME NEW s \in Seq(DataRecords), NEW r \in OriginalChunk, NEW o, NEW h, NEW t, t = Append(s, r),
         Kept(o), PendingAt(s, o, h), ChunkNext(o, r)
  PROVE  GrownByChunk(s, r, t, h)
  <1>1. r \in DataRecords /\ IsChunk(r) /\ IsFollower(r)
    BY DEF DataRecords, OriginalChunk, IsChunk, IsFollower
  <1>2. LatestHead(s, h) BY DEF PendingAt
  <1>4. /\ LatestHead(t, h) /\ t[h] = s[h] /\ h < Len(s) + 1
        /\ \A k \in (h + 1) .. (Len(s) + 1) :
             k = Len(s) + 1 \/ (k \in (h + 1) .. Len(s) /\ t[k] = s[k])
    BY <1>1, <1>2, LatestHeadGrows
  <1>5. Len(t) = Len(s) + 1 /\ t[Len(s) + 1] = r /\ Len(s) \in Nat /\ h \in Nat
    BY <1>1, <1>2, AppendPlaces, HeadPlace
  <1>6. \A k \in (h + 1) .. (Len(s) + 1) : IsChunk(t[k])
    BY <1>1, <1>4, <1>5 DEF PendingAt
  <1> QED BY <1>4, <1>5, <1>6 DEF GrownByChunk

LEMMA AfterChunk ==
  ASSUME NEW s \in Seq(DataRecords), NEW r \in OriginalChunk, NEW o, NEW h, NEW n,
         Kept(o), PendingAt(s, o, h), ChunkNext(o, r), ~IsLastChunk(o, r),
         n.evidenceId = o.evidenceId, n.blob = o.blob,
         n.chunkLen = FirstLength(o, r), n.received = o.received \o r.raw,
         n.nextIndex = o.nextIndex + 1, n.nextOffset = ChunkEnd(o, r)
  PROVE  PendingAt(Append(s, r), n, h)
  <1>1. PICK t, f : t = Append(s, r) /\ f = FirstLength(o, r) OBVIOUS
  <1>2. /\ LatestHead(t, h) /\ t[h] = s[h] /\ Len(t) = Len(s) + 1 /\ t[Len(s) + 1] = r
        /\ h < Len(s) + 1 /\ h \in Nat /\ Len(s) \in Nat
        /\ \A k \in (h + 1) .. (Len(s) + 1) : IsChunk(t[k])
        /\ \A k \in (h + 1) .. (Len(s) + 1) :
             k = Len(s) + 1 \/ (k \in (h + 1) .. Len(s) /\ t[k] = s[k])
    <2>1. GrownByChunk(s, r, t, h) BY <1>1, ChunksGrow
    <2> QED BY <2>1 DEF GrownByChunk
  <1>3. r.raw \in Seq(Bytes) /\ Len(r.raw) \in Nat \ {0}
    <2>1. r.raw \in Seq(Bytes) BY DEF OriginalChunk
    <2> QED BY <2>1 DEF ChunkNext
  <1>4. o \in PendingOriginal /\ o.chunkLen \in Nat /\ o.nextIndex \in Nat /\ o.nextOffset \in Nat
    BY DEF Kept, PendingOriginal
  <1>5. Len(r.raw) = f
    <2>1. f \in Nat BY <1>1, <1>3, <1>4 DEF FirstLength
    <2>2. Len(r.raw) <= f /\ ~(Len(r.raw) < f)
      BY <1>1 DEF ChunkNext, LengthFits, IsLastChunk
    <2> QED BY <1>3, <2>1, <2>2
  <1>6. Len(s) > h => f = o.chunkLen BY <1>1 DEF PendingAt, FirstLength
  <1>7. o.nextIndex = Len(s) - h /\ o.nextOffset = o.nextIndex * f
    <2>1. o.nextIndex = Len(s) - h /\ o.nextOffset = o.nextIndex * o.chunkLen
      BY DEF PendingAt, Kept
    <2>2. CASE Len(s) > h BY <1>6, <2>1, <2>2
    <2>3. CASE ~(Len(s) > h)
      <3>1. o.nextIndex = 0 BY <1>2, <2>1, <2>3
      <3>2. f \in Nat BY <1>3, <1>5
      <3>3. 0 * f = 0 /\ 0 * o.chunkLen = 0 BY <1>4, <3>2, ZeroTimes
      <3> QED BY <2>1, <3>1, <3>3
    <2> QED BY <2>2, <2>3
  <1>8. ASSUME NEW k \in (h + 1) .. Len(t)
        PROVE  /\ IsChunk(t[k])
               /\ Len(t[k].raw) = n.chunkLen
               /\ t[k].byteOffset = ((k - h) - 1) * n.chunkLen
    <2>1. CASE k = Len(s) + 1
      <3>1. (k - h) - 1 = o.nextIndex BY <1>2, <1>7, <2>1
      <3>2. r.byteOffset = o.nextOffset BY DEF ChunkNext
      <3> QED BY <1>1, <1>2, <1>5, <1>7, <2>1, <3>1, <3>2
    <2>2. CASE k # Len(s) + 1
      <3>1. k \in (h + 1) .. Len(s) /\ t[k] = s[k] BY <1>2, <2>2
      <3>2. Len(s) > h BY <1>2, <3>1
      <3> QED BY <1>1, <1>2, <1>6, <3>1, <3>2 DEF PendingAt
    <2> QED BY <2>1, <2>2
  <1>9. \A p \in 1 .. n.nextOffset :
          n.received[p] = t[h + 1 + ((p - 1) \div n.chunkLen)].raw[((p - 1) % n.chunkLen) + 1]
    <2>1. n.received = PlacedBytes(t, h, f, o.nextOffset + Len(r.raw))
      <3>1. f \in Nat \ {0} /\ Len(r.raw) <= f BY <1>3, <1>5
      <3>2. o.received \o r.raw = PlacedBytes(Append(s, r), h, f, o.nextOffset + Len(r.raw))
        BY <1>6, <3>1, BytesInPlace
      <3> QED BY <1>1, <3>2
    <2>2. n.nextOffset = o.nextOffset + Len(r.raw) /\ n.chunkLen = f BY <1>1 DEF ChunkEnd
    <2> QED BY <2>1, <2>2 DEF PlacedBytes
  <1>10. n.nextIndex = Len(t) - h BY <1>2, <1>7
  <1>11. Len(t) # h /\ n.chunkLen # 0 BY <1>1, <1>2, <1>3, <1>5
  <1>12. IsPrimary(s[h]) /\ o.evidenceId = s[h].id /\ o.blob = s[h].blob BY DEF PendingAt
  <1> QED BY <1>1, <1>2, <1>8, <1>9, <1>10, <1>11, <1>12 DEF PendingAt

LEMMA AfterLastChunk ==
  ASSUME NEW s \in Seq(DataRecords), NEW r \in OriginalChunk, NEW o, NEW h,
         Kept(o), PendingAt(s, o, h), ChunkNext(o, r), IsLastChunk(o, r)
  PROVE  CompletedAt(Append(s, r),
                     [evidenceId |-> o.evidenceId, blob |-> o.blob, last |-> 0], h)
  <1>1. PICK t, c : /\ t = Append(s, r)
                    /\ c = [evidenceId |-> o.evidenceId, blob |-> o.blob, last |-> 0]
    OBVIOUS
  <1>2. /\ LatestHead(t, h) /\ t[h] = s[h] /\ Len(t) = Len(s) + 1 /\ t[Len(s) + 1] = r
        /\ h < Len(s) + 1 /\ h \in Nat /\ Len(s) \in Nat
        /\ \A k \in (h + 1) .. (Len(s) + 1) : IsChunk(t[k])
    <2>1. GrownByChunk(s, r, t, h) BY <1>1, ChunksGrow
    <2> QED BY <2>1 DEF GrownByChunk
  <1>3. ChunkInPlace(t, h, Len(s) + 1) BY <1>1, ChunkPlaces
  <1>4. IsPrimary(s[h]) /\ o.evidenceId = s[h].id /\ o.blob = s[h].blob BY DEF PendingAt
  <1>5. LastChunkEnds(t, h)
    <2>1. h + 1 \in (h + 1) .. (Len(s) + 1) BY <1>2
    <2>2. r.byteOffset = ((Len(s) + 1) - h - 1) * Len(t[h + 1].raw) /\ Len(r.raw) <= Len(t[h + 1].raw)
      BY <1>2, <1>3 DEF ChunkInPlace
    <2>3. r.byteOffset + Len(r.raw) = t[h].blob.byteLength
      BY <1>2, <1>4 DEF ChunkNext, IsLastChunk, ChunkEnd
    <2> QED BY <1>2, <2>1, <2>2, <2>3 DEF LastChunkEnds
  <1>6. \A k \in (h + 1) .. Len(t) : IsChunk(t[k]) /\ ~IsSource(t[k]) BY <1>2, Kinds
  <1>7. c.evidenceId = o.evidenceId /\ c.blob = o.blob /\ c.last = 0 BY <1>1
  <1>8. Len(t) # h BY <1>2
  <1>9. CompletedAt(t, c, h) BY <1>2, <1>4, <1>5, <1>6, <1>7, <1>8 DEF CompletedAt
  <1> QED BY <1>1, <1>9

-------------------------------------------------------------------------------
\* Every record handed out keeps OpenGroup

LEMMA PendingKept ==
  ASSUME SlotsInv, original # None
  PROVE  Kept(original)
  BY DEF SlotsInv, SlotsOK, PendingBookkeeping, Kept

LEMMA ChunkKeepsGroup ==
  ASSUME RestOK, SlotsInv, OpenGroup, NEW r \in Lines, AcceptChunk(r) \/ CompleteOriginal(r)
  PROVE  OpenGroup'
  <1>1. r.kind = "original_chunk" /\ ChunkIsNext(r) /\ LengthFits(original, r)
    BY DEF AcceptChunk, CompleteOriginal
  <1>2. /\ r \in OriginalChunk /\ original \in PendingOriginal /\ original # None
        /\ completed = None /\ derivativesOf = None
        /\ FirstLength(original, r) \in Nat /\ ChunkEnd(original, r) \in Nat
    BY <1>1, ChunkFacts DEF ChunkIsNext
  <1>3. delivered \in Seq(DataRecords) /\ delivered' = Append(delivered, r)
    BY DEF RestOK, AcceptChunk, CompleteOriginal, Deliver
  <1>4. PICK h : PendingAt(delivered, original, h) BY <1>2 DEF OpenGroup
  <1>5. Kept(original) BY <1>2, PendingKept
  <1>6. CASE AcceptChunk(r)
    <2>1. ~IsLastChunk(original, r) /\ completed' = None /\ derivativesOf' = None
      BY <1>2, <1>6 DEF AcceptChunk
    <2>2. ChunkNext(original, r) BY <1>1, <2>1 DEF ChunkIsNext, ChunkNext
    <2>3. original' = [original EXCEPT !.chunkLen = FirstLength(original, r),
                                       !.received = original.received \o r.raw,
                                       !.nextIndex = original.nextIndex + 1,
                                       !.nextOffset = ChunkEnd(original, r)]
      BY <1>6 DEF AcceptChunk
    <2>4. /\ original'.evidenceId = original.evidenceId /\ original'.blob = original.blob
          /\ original'.chunkLen = FirstLength(original, r)
          /\ original'.received = original.received \o r.raw
          /\ original'.nextIndex = original.nextIndex + 1
          /\ original'.nextOffset = ChunkEnd(original, r)
      BY <1>2, <2>3 DEF PendingOriginal
    <2>5. PendingAt(Append(delivered, r), original', h)
      BY <1>2, <1>3, <1>4, <1>5, <2>1, <2>2, <2>4, AfterChunk
    <2>6. original' # None
      <3>1. original.received \o r.raw \in Seq(Bytes) BY <1>2 DEF PendingOriginal, OriginalChunk
      <3>2. original.nextIndex + 1 \in Nat BY <1>2 DEF PendingOriginal
      <3>3. original' \in PendingOriginal BY <1>2, <2>3, <3>1, <3>2 DEF PendingOriginal
      <3> QED BY <3>3, NoneAssumption
    <2> QED BY <1>3, <2>1, <2>5, <2>6 DEF OpenGroup
  <1>7. CASE CompleteOriginal(r)
    <2>1. IsLastChunk(original, r) /\ OriginalMatches(original, r)
      BY <1>7 DEF CompleteOriginal
    <2>2. ChunkNext(original, r) BY <1>1, <2>1 DEF ChunkIsNext, ChunkNext
    <2>3. /\ original' = None /\ derivativesOf' = None
          /\ completed' = [evidenceId |-> original.evidenceId, blob |-> original.blob, last |-> 0]
      BY <1>2, <1>7 DEF CompleteOriginal
    <2>4. CompletedAt(delivered', completed', h)
      BY <1>2, <1>3, <1>4, <1>5, <2>1, <2>2, <2>3, AfterLastChunk
    <2>5. completed' # None
      <3>1. completed' \in CompletedOriginal BY <1>2, <2>3 DEF PendingOriginal, CompletedOriginal
      <3> QED BY <3>1, NoneAssumption
    <2> QED BY <2>3, <2>4, <2>5 DEF OpenGroup
  <1> QED BY <1>6, <1>7

LEMMA OtherKeepsGroup ==
  ASSUME RestOK, SlotsInv, OpenGroup, NEW r \in Lines,
         AcceptSource(r) \/ ReadPlain(r) \/ ReadPrimary(r) \/ AcceptDerivative(r)
  PROVE  OpenGroup'
  <1>1. r \in DataRecords
    <2>1. r.kind \in DataKinds
      BY DEF AcceptSource, ReadPlain, ReadPrimary, AcceptDerivative, IsPrimary, IsDerivative, DataKinds
    <2> QED BY <2>1, LineKinds
  <1>2. delivered \in Seq(DataRecords) /\ delivered' = Append(delivered, r)
    BY DEF RestOK, AcceptSource, ReadPlain, ReadPrimary, AcceptDerivative, Deliver
  <1>3. AtMostOneOpen /\ SlotsOK BY DEF SlotsInv
  <1>4. CASE AcceptSource(r)
    <2>1. /\ IsSource(r) /\ completed # None /\ completed.last < r.referenceId
          /\ completed' = [completed EXCEPT !.last = r.referenceId]
          /\ original' = original /\ derivativesOf' = derivativesOf
      BY <1>4 DEF AcceptSource, SourceFollows, IsSource
    <2>2. completed \in CompletedOriginal /\ original' = None /\ derivativesOf' = None
      BY <1>3, <2>1 DEF AtMostOneOpen, SlotsOK
    <2>3. PICK h : CompletedAt(delivered, completed, h) BY <2>1 DEF OpenGroup
    <2>4. CompletedAt(delivered', completed', h)
      BY <1>1, <1>2, <2>1, <2>2, <2>3, AfterSource
    <2>5. completed' # None
      <3>1. r.referenceId \in Nat BY <1>1, <2>1, ChunksAre DEF OriginalSource
      <3>2. completed' \in CompletedOriginal BY <2>1, <2>2, <3>1 DEF CompletedOriginal
      <3> QED BY <3>2, NoneAssumption
    <2> QED BY <2>2, <2>4, <2>5 DEF OpenGroup
  <1>5. CASE ReadPlain(r)
    <2>1. /\ ~IsFollower(r) /\ ~IsPrimary(r)
          /\ original' = None /\ completed' = None /\ derivativesOf' = None
      BY <1>5 DEF ReadPlain, IsFollower, IsChunk, IsSource, IsDerivative, IsPrimary, PlainKinds
    <2>2. NothingOpen(delivered') BY <1>1, <1>2, <2>1, AfterOther
    <2> QED BY <2>1, <2>2 DEF OpenGroup
  <1>6. CASE ReadPrimary(r)
    <2>1. IsPrimary(r) /\ derivativesOf' = None BY <1>6 DEF ReadPrimary
    <2>2. r.blob \in SourceBlob /\ r.id \in EvidenceIds
      BY <1>1, <2>1, ChunksAre DEF IsPrimary, Evidence
    <2>3. CASE r.blob.byteLength = 0
      <3>1. /\ completed' = [evidenceId |-> r.id, blob |-> r.blob, last |-> 0]
            /\ original' = None
        BY <1>6, <2>3 DEF ReadPrimary
      <3>2. CompletedAt(delivered', completed', Len(delivered) + 1)
        BY <1>1, <1>2, <2>1, <2>3, <3>1, AfterPrimary
      <3>3. completed' \in CompletedOriginal BY <2>2, <3>1 DEF CompletedOriginal
      <3> QED BY <2>1, <3>1, <3>2, <3>3, NoneAssumption DEF OpenGroup
    <2>4. CASE r.blob.byteLength # 0
      <3>1. /\ original' = [evidenceId |-> r.id, blob |-> r.blob, nextIndex |-> 0,
                            nextOffset |-> 0, chunkLen |-> 0, received |-> <<>>]
            /\ completed' = None
        BY <1>6, <2>4 DEF ReadPrimary
      <3>2. PendingAt(delivered', original', Len(delivered) + 1)
        BY <1>1, <1>2, <2>1, <3>1, AfterPrimary
      <3>3. original' \in PendingOriginal BY <2>2, <3>1 DEF PendingOriginal
      <3> QED BY <2>1, <3>1, <3>2, <3>3, NoneAssumption DEF OpenGroup
    <2> QED BY <2>3, <2>4
  <1>7. CASE AcceptDerivative(r)
    <2>1. /\ IsDerivative(r) /\ DerivativeFollows(r)
          /\ original' = None /\ completed' = None
          /\ derivativesOf' = [ContinuedPrimary EXCEPT !.last = SlotOf(r.derivation)]
      BY <1>7 DEF AcceptDerivative
    <2>2. SlotOf(r.derivation) \in Slot BY <1>1, <2>1, SlotsAre
    <2>3. CASE completed # None
      <3>1. PICK h : CompletedAt(delivered, completed, h) BY <2>3 DEF OpenGroup
      <3>2. derivativesOf' = [evidenceId |-> completed.evidenceId, blob |-> completed.blob,
                              last |-> SlotOf(r.derivation)]
        BY <2>1, <2>3 DEF ContinuedPrimary
      <3>3. /\ LatestHead(delivered, h) /\ IsPrimary(delivered[h])
            /\ completed.evidenceId = delivered[h].id /\ completed.blob = delivered[h].blob
            /\ \A j \in (h + 1) .. Len(delivered) : ~IsDerivative(delivered[j])
        BY <3>1, Kinds DEF CompletedAt
      <3>4. ContinuedAt(delivered', derivativesOf', h)
        <4>1. PICK d : d = derivativesOf' OBVIOUS
        <4>2. /\ d.evidenceId = completed.evidenceId /\ d.blob = completed.blob
              /\ d.last = SlotOf(r.derivation)
          BY <3>2, <4>1
        <4> QED BY <1>1, <1>2, <2>1, <3>3, <4>1, <4>2, AfterDerivative
      <3>5. derivativesOf' \in DerivativesOf
        BY <1>3, <2>2, <2>3, <3>2 DEF SlotsOK, CompletedOriginal, DerivativesOf
      <3> QED BY <2>1, <3>4, <3>5, NoneAssumption DEF OpenGroup
    <2>4. CASE completed = None
      <3>1. ContinuedPrimary = derivativesOf /\ derivativesOf # None
        BY <2>1, <2>4 DEF ContinuedPrimary, DerivativeFollows
      <3>2. derivativesOf \in DerivativesOf BY <1>3, <3>1 DEF SlotsOK
      <3>3. PICK h : ContinuedAt(delivered, derivativesOf, h) BY <3>1 DEF OpenGroup
      <3>4. SlotLess(derivativesOf.last, SlotOf(r.derivation))
        BY <2>1, <3>1 DEF DerivativeFollows
      <3>5. derivativesOf' = [derivativesOf EXCEPT !.last = SlotOf(r.derivation)]
        BY <2>1, <3>1
      <3>6. \A j \in (h + 1) .. Len(delivered) :
              IsDerivative(delivered[j]) =>
                SlotLess(SlotOf(delivered[j].derivation), SlotOf(r.derivation))
        BY <1>1, <1>2, <2>1, <3>2, <3>3, <3>4, SlotsBefore
      <3>7. ContinuedAt(delivered', derivativesOf', h)
        <4>1. PICK d : d = derivativesOf' OBVIOUS
        <4>2. /\ d.evidenceId = derivativesOf.evidenceId /\ d.blob = derivativesOf.blob
              /\ d.last = SlotOf(r.derivation)
          BY <3>2, <3>5, <4>1 DEF DerivativesOf
        <4>3. /\ LatestHead(delivered, h) /\ IsPrimary(delivered[h])
              /\ derivativesOf.evidenceId = delivered[h].id /\ derivativesOf.blob = delivered[h].blob
          BY <3>3 DEF ContinuedAt
        <4> QED BY <1>1, <1>2, <2>1, <3>6, <4>1, <4>2, <4>3, AfterDerivative
      <3>8. derivativesOf' \in DerivativesOf BY <2>2, <3>2, <3>5 DEF DerivativesOf
      <3> QED BY <2>1, <3>7, <3>8, NoneAssumption DEF OpenGroup
    <2> QED BY <2>3, <2>4
  <1> QED BY <1>4, <1>5, <1>6, <1>7

-------------------------------------------------------------------------------
(***************************************************************************)
(* The inductive invariant of the refinement, for a caller that stops at   *)
(* the first error: while it reads, the slots describe the group that the  *)
(* records handed out so far end in.  A refused record may leave the slots *)
(* saying less than that; such a caller never looks at them again.         *)
(***************************************************************************)
GroupInv ==
  /\ phase = "closed" =>
       /\ delivered = <<>>
       /\ original = None /\ completed = None /\ derivativesOf = None
  /\ phase = "reading" => OpenGroup

LEMMA InitGroup == Init => GroupInv
  BY DEF Init, GroupInv

\* What a line can do.
LEMMA ReadSteps ==
  ASSUME NEW line, ReadLine(line)
  PROVE  \/ DeliverStep(line)
         \/ RefuseStep(line)
         \/ SkipUnknown(line) \/ RefuseLine(line) \/ FailRead(line)
  BY DEF ReadLine, ReadChunk, ReadOther, DeliverStep, RefuseStep

LEMMA SameSlots ==
  ASSUME OpenGroup, UNCHANGED <<original, completed, derivativesOf, delivered>>
  PROVE  OpenGroup'
  BY DEF OpenGroup

LEMMA NextGroup ==
  ASSUME ~PersistentCaller, IInv, GroupInv, [Next]_vars
  PROVE  GroupInv'
  <1>1. RestOK /\ SlotsInv BY DEF IInv
  <1>2. CASE New
    <2>1. ASSUME NEW h \in Headers, Open(h) PROVE GroupInv'
      <3>1. /\ delivered' = <<>> /\ original' = None /\ completed' = None
            /\ derivativesOf' = None /\ phase' = "reading"
        BY <2>1 DEF Open, GroupInv, slots
      <3> QED BY <3>1 DEF GroupInv, OpenGroup, NothingOpen
    <2>2. ASSUME NEW h \in Headers, RefuseHeader(h) PROVE GroupInv'
      BY <2>2 DEF RefuseHeader, GroupInv
    <2>3. CASE RefuseEmptyStream BY <2>3 DEF RefuseEmptyStream, GroupInv
    <2> QED BY <1>2, <2>1, <2>2, <2>3 DEF New
  <1>3. ASSUME phase = "reading", NEW line \in Lines, ReadLine(line) PROVE GroupInv'
    <2>1. OpenGroup BY <1>3 DEF GroupInv
    <2>2. CASE DeliverStep(line)
      <3>1. OpenGroup' BY <1>1, <2>1, <2>2, ChunkKeepsGroup, OtherKeepsGroup DEF DeliverStep
      <3>2. phase' = "reading" BY <1>1, <1>3, <2>2, DeliveredAccepted DEF Deliver
      <3> QED BY <3>1, <3>2 DEF GroupInv
    <2>3. CASE RefuseStep(line)
      <3>1. phase' = "stopped" BY <1>1, <1>3, <2>3, RefusedNotAccepted DEF Refuse, ReturnLast
      <3> QED BY <3>1 DEF GroupInv
    <2>4. CASE SkipUnknown(line)
      <3>1. phase' = "reading" /\ OpenGroup'
        BY <1>3, <2>1, <2>4, SameSlots DEF SkipUnknown, slots
      <3> QED BY <3>1 DEF GroupInv
    <2>5. CASE RefuseLine(line) \/ FailRead(line)
      <3>1. phase' = "stopped" BY <2>5 DEF RefuseLine, FailRead, ReturnLast
      <3> QED BY <3>1 DEF GroupInv
    <2> QED BY <1>3, <2>2, <2>3, <2>4, <2>5, ReadSteps
  <1>4. ASSUME NEW t \in Trailers, AcceptTrailer(t) \/ RefuseTrailer(t) PROVE GroupInv'
    <2>1. phase' = "stopped" BY <1>4 DEF AcceptTrailer, RefuseTrailer, ReturnLast
    <2> QED BY <2>1 DEF GroupInv
  <1>5. CASE EndOfStream
    <2>1. phase' = "stopped" BY <1>5 DEF EndOfStream
    <2> QED BY <2>1 DEF GroupInv
  <1>6. CASE UNCHANGED vars
    <2>1. UNCHANGED <<phase, original, completed, derivativesOf, delivered>> BY <1>6 DEF vars
    <2> QED BY <2>1, SameSlots DEF GroupInv
  <1> QED BY <1>2, <1>3, <1>4, <1>5, <1>6 DEF Next, NextRecord, Done

\* When no original is open the records are complete.
LEMMA CompleteWhenNoneOpen ==
  ASSUME RestOK, OpenGroup, original = None
  PROVE  Complete(delivered)
  <1>1. PICK s \in Seq(DataRecords) : s = delivered BY DEF RestOK
  <1>2. CASE completed # None
    BY <1>1, <1>2, CompletedEnds DEF OpenGroup, Complete
  <1>3. CASE derivativesOf # None
    BY <1>1, <1>3, ContinuedEnds DEF OpenGroup, Complete
  <1>4. CASE completed = None /\ derivativesOf = None
    BY <1>1, <1>4, NothingEnds DEF OpenGroup, Complete
  <1> QED BY <1>2, <1>3, <1>4

-------------------------------------------------------------------------------
\* The contract, as instantiated

LEMMA SameInPlace ==
  ASSUME NEW s, NEW i, NEW c
  PROVE  Contract!InPlace(s, i, c) = InPlace(s, i, c)
  BY DEF Contract!InPlace, Contract!IsFollower, Contract!IsChunk, Contract!IsSource,
         Contract!IsDerivative, Contract!IsHeadOf, Contract!FollowerInPlace, Contract!IsPrimary,
         Contract!Rank, Contract!ChunkInPlace, Contract!SourceInPlace, Contract!DerivativeInPlace,
         Contract!PrimaryInPlace, Contract!EndsInOriginal, Contract!Digest, Contract!SourceBinds,
         Contract!BindsBlob, Contract!DerivationBinds, Contract!SlotLess, Contract!SlotOf,
         InPlace, IsFollower, IsChunk, IsSource, IsDerivative, IsHeadOf, FollowerInPlace,
         IsPrimary, Rank, ChunkInPlace, SourceInPlace, DerivativeInPlace, PrimaryInPlace,
         EndsInOriginal, Digest, SourceBinds, BindsBlob, DerivationBinds, SlotLess, SlotOf

LEMMA SameComplete ==
  ASSUME NEW s
  PROVE  Contract!Complete(s) = Complete(s)
  BY DEF Contract!Complete, Contract!EndsInOriginal, Contract!IsPrimary, Contract!IsChunk,
         Complete, EndsInOriginal, IsPrimary, IsChunk

LEMMA InitMaps == Init => Contract!Init
  BY DEF Init, Contract!Init, ContractCarries, ContractStatus

\* A step that ends the reading other than at a refused record or the trailer.
LEMMA FailMaps ==
  ASSUME phase \in {"closed", "reading"}, UNCHANGED <<version, delivered>>,
         phase' = "refused" \/ (phase' = "stopped" /\ outcome' = "error")
  PROVE  Contract!Fail
  BY DEF Contract!Fail, ContractStatus, ContractCarries, Carries, CarriesOriginals

LEMMA DeliverMaps ==
  ASSUME IInv, GroupInv, phase = "reading", NEW r \in Lines, DeliverStep(r)
  PROVE  Contract!Accept(r) /\ r \in ContractRecords
  <1>1. RestOK /\ SlotsInv /\ OpenGroup BY DEF IInv, GroupInv
  <1>2. Accepts(r) /\ Deliver(r) /\ r \in DataRecords /\ r.kind \in DataKinds
    BY <1>1, DeliveredAccepted
  <1>3. InPlace(Append(delivered, r), Len(Append(delivered, r)), ContractCarries)
    BY <1>1, <1>2, AcceptsIsInPlace
  <1>4. delivered' = Append(delivered, r) /\ phase' = phase /\ version' = version
    BY <1>2 DEF Deliver, Hash, Take, opened
  <1>5. Contract!InPlace(delivered', Len(delivered'), ContractCarries)
    BY <1>3, <1>4, SameInPlace
  <1>6. ContractCarries' = ContractCarries BY <1>4 DEF ContractCarries, Carries
  <1>7. ContractStatus = "reading" /\ ContractStatus' = "reading" BY <1>4 DEF ContractStatus
  <1>8. r \in ContractRecords BY <1>2 DEF ContractRecords
  <1> QED BY <1>4, <1>5, <1>6, <1>7, <1>8 DEF Contract!Accept

LEMMA RefuseMaps ==
  ASSUME ~PersistentCaller, IInv, GroupInv, phase = "reading", NEW r \in Lines, RefuseStep(r)
  PROVE  Contract!Refuse(r) /\ r \in ContractRecords
  <1>1. RestOK /\ SlotsInv /\ OpenGroup BY DEF IInv, GroupInv
  <1>2. ~Accepts(r) /\ Refuse(r) /\ r \in DataRecords /\ r.kind \in DataKinds
    BY <1>1, RefusedNotAccepted
  <1>3. ~InPlace(Append(delivered, r), Len(Append(delivered, r)), ContractCarries)
    BY <1>1, <1>2, AcceptsIsInPlace
  <1>4. /\ delivered' = delivered /\ phase' = "stopped" /\ outcome' = "refused"
        /\ version' = version
    BY <1>2 DEF Refuse, ReturnLast, Hash, Take, opened
  <1>5. ~Contract!InPlace(Append(delivered, r), Len(Append(delivered, r)), ContractCarries)
    BY <1>3, SameInPlace
  <1>6. ContractCarries' = ContractCarries BY <1>4 DEF ContractCarries, Carries
  <1>7. ContractStatus = "reading" /\ ContractStatus' = "refused" BY <1>4 DEF ContractStatus
  <1>8. r \in ContractRecords BY <1>2 DEF ContractRecords
  <1> QED BY <1>4, <1>5, <1>6, <1>7, <1>8 DEF Contract!Refuse

LEMMA VerifyMaps ==
  ASSUME ~PersistentCaller, IInv, GroupInv, phase = "reading", NEW t, AcceptTrailer(t)
  PROVE  Contract!Verify
  <1>1. RestOK /\ OpenGroup /\ original = None
    BY DEF IInv, GroupInv, AcceptTrailer, TrailerMatches
  <1>2. Contract!Complete(delivered) BY <1>1, CompleteWhenNoneOpen, SameComplete
  <1>3. /\ delivered' = delivered /\ phase' = "stopped" /\ outcome' = "end"
        /\ version' = version
    BY DEF AcceptTrailer, ReturnLast, Hash, Take, opened
  <1>4. ContractCarries' = ContractCarries BY <1>3 DEF ContractCarries, Carries
  <1>5. ContractStatus = "reading" /\ ContractStatus' = "verified" BY <1>3 DEF ContractStatus
  <1> QED BY <1>2, <1>3, <1>4, <1>5 DEF Contract!Verify

LEMMA StepMaps ==
  ASSUME ~PersistentCaller, IInv, GroupInv, [Next]_vars
  PROVE  [Contract!Next]_(Contract!contractVars)
  <1>1. ASSUME NEW h \in Headers, Open(h) PROVE Contract!Begin
    <2>1. ContractStatus = "closed" /\ ContractStatus' = "reading" /\ delivered' = delivered
      BY <1>1 DEF Open, ContractStatus
    <2>2. ContractCarries' \in BOOLEAN BY DEF ContractCarries
    <2> QED BY <2>1, <2>2 DEF Contract!Begin
  <1>2. ASSUME NEW h \in Headers, RefuseHeader(h) PROVE Contract!Fail
    BY <1>2, FailMaps DEF RefuseHeader, opened
  <1>3. CASE RefuseEmptyStream
    <2>1. Contract!Fail BY <1>3, FailMaps DEF RefuseEmptyStream, opened
    <2> QED BY <2>1 DEF Contract!Next
  <1>4. ASSUME phase = "reading", NEW line \in Lines, ReadLine(line)
        PROVE  [Contract!Next]_(Contract!contractVars)
    <2>1. CASE DeliverStep(line)
      <3>1. Contract!Accept(line) /\ line \in ContractRecords BY <1>4, <2>1, DeliverMaps
      <3> QED BY <3>1 DEF Contract!Next
    <2>2. CASE RefuseStep(line)
      <3>1. Contract!Refuse(line) /\ line \in ContractRecords BY <1>4, <2>2, RefuseMaps
      <3> QED BY <3>1 DEF Contract!Next
    <2>3. CASE SkipUnknown(line)
      <3>1. UNCHANGED <<phase, version, delivered>> BY <2>3 DEF SkipUnknown, Hash, Take, opened
      <3>2. ContractStatus' = ContractStatus BY <1>4, <3>1 DEF ContractStatus
      <3>3. ContractCarries' = ContractCarries BY <3>1 DEF ContractCarries, Carries
      <3> QED BY <3>1, <3>2, <3>3 DEF Contract!contractVars
    <2>4. CASE RefuseLine(line) \/ FailRead(line)
      <3>1. phase' = "stopped" /\ outcome' = "error" /\ UNCHANGED <<version, delivered>>
        BY <2>4 DEF RefuseLine, FailRead, ReturnLast, Hash, Take, opened
      <3>2. Contract!Fail BY <1>4, <3>1, FailMaps
      <3> QED BY <3>2 DEF Contract!Next
    <2> QED BY <1>4, <2>1, <2>2, <2>3, <2>4, ReadSteps
  <1>5. ASSUME phase = "reading", NEW t \in Trailers, AcceptTrailer(t) \/ RefuseTrailer(t)
        PROVE  Contract!Next
    <2>1. CASE AcceptTrailer(t)
      <3>1. Contract!Verify BY <1>5, <2>1, VerifyMaps
      <3> QED BY <3>1 DEF Contract!Next
    <2>2. CASE RefuseTrailer(t)
      <3>1. phase' = "stopped" /\ outcome' = "error" /\ UNCHANGED <<version, delivered>>
        BY <2>2 DEF RefuseTrailer, ReturnLast, Hash, Take, opened
      <3>2. Contract!Fail BY <1>5, <3>1, FailMaps
      <3> QED BY <3>2 DEF Contract!Next
    <2> QED BY <1>5, <2>1, <2>2
  <1>6. ASSUME phase = "reading", EndOfStream PROVE Contract!Next
    <2>1. phase' = "stopped" /\ outcome' = "error" /\ UNCHANGED <<version, delivered>>
      BY <1>6 DEF EndOfStream, opened
    <2>2. Contract!Fail BY <1>6, <2>1, FailMaps
    <2> QED BY <2>2 DEF Contract!Next
  <1>7. CASE UNCHANGED vars
    <2>1. UNCHANGED <<phase, version, outcome, delivered>> BY <1>7 DEF vars
    <2>2. ContractStatus' = ContractStatus BY <2>1 DEF ContractStatus
    <2>3. ContractCarries' = ContractCarries BY <2>1 DEF ContractCarries, Carries
    <2> QED BY <2>1, <2>2, <2>3 DEF Contract!contractVars
  <1>8. CASE New
    BY <1>1, <1>2, <1>3, <1>8 DEF New, Contract!Next
  <1> QED BY <1>4, <1>5, <1>6, <1>7, <1>8 DEF Next, NextRecord, Done

\* For a caller that stops at the first error the reader implements its
\* contract: it hands out only well-grouped sequences, refuses a record for its
\* place only when no well-grouped sequence goes on with it, and reports the
\* end only of records whose last original is complete.
THEOREM ReaderImplementsContract ==
  ASSUME ~PersistentCaller
  PROVE  Spec => ImplementsContract
  <1>1. Init => Contract!Init /\ GroupInv BY InitMaps, InitGroup
  <1>2. IInv /\ GroupInv /\ [Next]_vars => GroupInv' /\ [Contract!Next]_(Contract!contractVars)
    BY NextGroup, StepMaps
  <1> QED BY <1>1, <1>2, Inductive, PTL DEF Spec, ImplementsContract, Contract!Spec

LEMMA NoneOpenIsComplete ==
  ASSUME RestOK, SlotsInv, OpenGroup
  PROVE  original = None <=> Complete(delivered)
  <1>1. original = None => Complete(delivered) BY CompleteWhenNoneOpen
  <1>2. ASSUME original # None PROVE ~Complete(delivered)
    <2>1. Kept(original) BY <1>2, PendingKept
    <2>2. PICK h : PendingAt(delivered, original, h) BY <1>2 DEF OpenGroup
    <2>3. delivered \in Seq(DataRecords) BY DEF RestOK
    <2>4. EndsInOriginal(delivered, Len(delivered)) BY <2>1, <2>2, <2>3, PendingEnds
    <2> QED BY <2>4 DEF Complete
  <1> QED BY <1>1, <1>2

-------------------------------------------------------------------------------
\* A reader to which a transport brings the lines

\* It takes the reader's own steps, and so keeps what they keep.
LEMMA ReaderStep ==
  ASSUME ~PersistentCaller, IInv, GroupInv, [Next]_vars
  PROVE  IInv' /\ GroupInv'
  BY NextIInv, NextGroup

\* One that ends the reading and leaves the slots alone.
LEMMA ReaderEnds ==
  ASSUME IInv, RestOK', UNCHANGED slots, phase' = "stopped"
  PROVE  IInv' /\ GroupInv'
  BY SlotsUnchanged DEF IInv, GroupInv

LEMMA ReadNextStep ==
  ASSUME ~PersistentCaller, IInv, GroupInv, phase = "reading", NEW line, ReadNext(line),
         line.kind \notin {"trailer", "header"} => line \in Lines
  PROVE  IInv' /\ GroupInv'
  <1>1. RestOK BY DEF IInv
  <1>2. ASSUME line \in Lines, ReadLine(line) PROVE IInv' /\ GroupInv'
    BY <1>2, ReaderStep DEF Next, NextRecord
  <1>3. CASE RefuseLine([kind |-> "manifest"])
    <2>1. [kind |-> "manifest"] \in StreamLines BY DEF StreamLines, OtherLines
    <2>2. RestOK'
      BY <1>1, <1>3, <2>1, HashType DEF RestOK, RefuseLine, ReturnLast
    <2>3. phase' = "stopped" /\ UNCHANGED slots BY <1>3 DEF RefuseLine, ReturnLast
    <2> QED BY <2>2, <2>3, ReaderEnds
  <1>4. CASE AcceptTrailer(line) \/ RefuseTrailer(line)
    <2>1. RestOK' BY <1>1, <1>4, TrailerRest
    <2>2. phase' = "stopped" /\ UNCHANGED slots
      BY <1>4 DEF AcceptTrailer, RefuseTrailer, ReturnLast
    <2> QED BY <2>1, <2>2, ReaderEnds
  <1> QED BY <1>2, <1>3, <1>4 DEF ReadNext

-------------------------------------------------------------------------------
\* The records of a known kind among the first n lines

KnownAmong(lines, n) == {i \in 1 .. n : lines[i].kind \in DataKinds}

LEMMA KnownCount ==
  ASSUME NEW lines, NEW n \in Nat
  PROVE  IsFiniteSet(KnownAmong(lines, n)) /\ KnownUpTo(lines, n) \in Nat
  <1>1. IsFiniteSet(1 .. n) BY FS_Interval
  <1>2. KnownAmong(lines, n) \in SUBSET (1 .. n) BY DEF KnownAmong
  <1>3. IsFiniteSet(KnownAmong(lines, n)) BY <1>1, <1>2, FS_Subset
  <1> QED BY <1>3, FS_CardinalityType DEF KnownUpTo, KnownAmong

\* A known record is counted, and not beyond the last.
LEMMA KnownPlace ==
  ASSUME NEW S, NEW s \in Seq(S), NEW n \in DOMAIN s, s[n].kind \in DataKinds
  PROVE  KnownUpTo(s, n) \in 1 .. KnownUpTo(s, Len(s))
  <1>1. n \in 1 .. Len(s) /\ Len(s) \in Nat /\ n \in Nat OBVIOUS
  <1>2. n \in KnownAmong(s, n) BY <1>1 DEF KnownAmong
  <1>3. IsFiniteSet(KnownAmong(s, n)) /\ IsFiniteSet(KnownAmong(s, Len(s)))
    BY <1>1, KnownCount
  <1>4. KnownUpTo(s, n) # 0 BY <1>2, <1>3, FS_EmptySet DEF KnownUpTo, KnownAmong
  <1>5. KnownAmong(s, n) \in SUBSET KnownAmong(s, Len(s)) BY <1>1 DEF KnownAmong
  <1>6. KnownUpTo(s, n) <= KnownUpTo(s, Len(s))
    BY <1>3, <1>5, FS_Subset DEF KnownUpTo, KnownAmong
  <1>7. KnownUpTo(s, n) \in Nat /\ KnownUpTo(s, Len(s)) \in Nat BY <1>1, KnownCount
  <1> QED BY <1>4, <1>6, <1>7

LEMMA KnownNext ==
  ASSUME NEW s, NEW n \in Nat
  PROVE  KnownUpTo(s, n + 1)
           = IF s[n + 1].kind \in DataKinds THEN KnownUpTo(s, n) + 1 ELSE KnownUpTo(s, n)
  <1>1. CASE s[n + 1].kind \in DataKinds
    <2>1. KnownAmong(s, n + 1) = KnownAmong(s, n) \union {n + 1} /\ n + 1 \notin KnownAmong(s, n)
      BY <1>1 DEF KnownAmong
    <2>2. Cardinality(KnownAmong(s, n + 1)) = Cardinality(KnownAmong(s, n)) + 1
      BY <2>1, KnownCount, FS_AddElement
    <2> QED BY <1>1, <2>2 DEF KnownUpTo, KnownAmong
  <1>2. CASE s[n + 1].kind \notin DataKinds
    <2>1. KnownAmong(s, n + 1) = KnownAmong(s, n) BY <1>2 DEF KnownAmong
    <2> QED BY <1>2, <2>1 DEF KnownUpTo, KnownAmong
  <1> QED BY <1>1, <1>2

LEMMA KnownGrows ==
  ASSUME NEW s, NEW i \in Nat, NEW j \in Nat, i <= j
  PROVE  /\ KnownUpTo(s, i) \in Nat /\ KnownUpTo(s, j) \in Nat
         /\ KnownUpTo(s, i) <= KnownUpTo(s, j)
  <1>1. IsFiniteSet(KnownAmong(s, j)) /\ KnownUpTo(s, i) \in Nat /\ KnownUpTo(s, j) \in Nat
    BY KnownCount
  <1>2. KnownAmong(s, i) \in SUBSET KnownAmong(s, j) BY DEF KnownAmong
  <1> QED BY <1>1, <1>2, FS_Subset DEF KnownUpTo, KnownAmong

LEMMA KnownBefore ==
  ASSUME NEW s, NEW i \in Nat, NEW j \in Nat, i < j, s[j].kind \in DataKinds
  PROVE  KnownUpTo(s, i) < KnownUpTo(s, j)
  <1>1. PICK m \in Nat : j = m + 1 /\ i <= m
    <2>1. j - 1 \in Nat /\ j = (j - 1) + 1 /\ i <= j - 1 OBVIOUS
    <2> QED BY <2>1
  <1>2. KnownUpTo(s, j) = KnownUpTo(s, m) + 1 BY <1>1, KnownNext
  <1>3. KnownUpTo(s, i) <= KnownUpTo(s, m) /\ KnownUpTo(s, i) \in Nat /\ KnownUpTo(s, m) \in Nat
    BY <1>1, KnownGrows
  <1> QED BY <1>2, <1>3

\* Every number up to the count is some record's: were k not, more records would
\* be counted than there are other numbers.
LEMMA PlacesCounted ==
  ASSUME NEW S, NEW s \in Seq(S), NEW k \in 1 .. KnownUpTo(s, Len(s))
  PROVE  \E i \in DOMAIN s : s[i].kind \in DataKinds /\ KnownUpTo(s, i) = k
  <1> SUFFICES ASSUME \A i \in DOMAIN s : s[i].kind \in DataKinds => KnownUpTo(s, i) # k
               PROVE  FALSE
    OBVIOUS
  <1>1. PICK c, K : c = KnownUpTo(s, Len(s)) /\ K = KnownAmong(s, Len(s)) OBVIOUS
  <1>2. Len(s) \in Nat /\ DOMAIN s = 1 .. Len(s) OBVIOUS
  <1>3. IsFiniteSet(K) /\ Cardinality(K) = c /\ c \in Nat /\ k \in 1 .. c
    BY <1>1, <1>2, KnownCount DEF KnownUpTo, KnownAmong
  <1>4. PICK T : T = (1 .. c) \ {k} OBVIOUS
  <1>5. IsFiniteSet(T) /\ Cardinality(T) < Cardinality(K)
    <2>1. IsFiniteSet(1 .. c) /\ Cardinality(1 .. c) = c BY <1>3, FS_Interval
    <2>2. IsFiniteSet(T) /\ Cardinality(T) = Cardinality(1 .. c) - 1
      BY <1>3, <1>4, <2>1, FS_RemoveElement
    <2> QED BY <1>3, <2>1, <2>2
  <1>6. ASSUME NEW i \in K
        PROVE  i \in DOMAIN s /\ s[i].kind \in DataKinds /\ KnownUpTo(s, i) \in T
    <2>1. i \in DOMAIN s /\ s[i].kind \in DataKinds BY <1>1, <1>2 DEF KnownAmong
    <2>2. KnownUpTo(s, i) \in 1 .. c BY <1>1, <2>1, KnownPlace
    <2>3. KnownUpTo(s, i) # k BY <2>1
    <2> QED BY <1>4, <2>1, <2>2, <2>3
  <1>7. PICK f : f = [i \in K |-> KnownUpTo(s, i)] OBVIOUS
  <1>8. f \in [K -> T] BY <1>6, <1>7
  <1>9. PICK i \in K, j \in K : i # j /\ f[i] = f[j] BY <1>3, <1>5, <1>8, FS_PigeonHole
  <1>10. i \in Nat /\ j \in Nat /\ KnownUpTo(s, i) = KnownUpTo(s, j)
    BY <1>2, <1>6, <1>7, <1>9
  <1>11. KnownUpTo(s, i) \in Nat BY <1>10, KnownGrows
  <1> QED BY <1>6, <1>9, <1>10, <1>11, KnownBefore

LEMMA KnownHolds ==
  ASSUME NEW S, NEW s \in Seq(S), NEW i \in DOMAIN s, s[i].kind \in DataKinds
  PROVE  Known(s)[KnownUpTo(s, i)] = s[i]
  <1>1. KnownUpTo(s, i) \in 1 .. KnownUpTo(s, Len(s)) BY KnownPlace
  <1>2. PICK k : k = KnownUpTo(s, i) OBVIOUS
  <1>3. PICK j : j = KnownPlaceOf(s, k) OBVIOUS
  <1>4. j \in DOMAIN s /\ s[j].kind \in DataKinds /\ KnownUpTo(s, j) = k
    BY <1>2, <1>3 DEF KnownPlaceOf
  <1>5. i \in Nat /\ j \in Nat BY <1>4
  <1>6. ~(i < j) /\ ~(j < i) BY <1>2, <1>4, <1>5, KnownBefore, KnownGrows
  <1>7. i = j BY <1>5, <1>6
  <1> QED BY <1>1, <1>2, <1>3, <1>7 DEF Known

LEMMA KnownRecords ==
  ASSUME NEW S, NEW s \in Seq(S), NEW D,
         \A i \in DOMAIN s : s[i].kind \in DataKinds => s[i] \in D
  PROVE  Known(s) \in Seq(D) /\ Len(Known(s)) = KnownUpTo(s, Len(s))
  <1>1. PICK n \in Nat : n = KnownUpTo(s, Len(s)) BY KnownCount
  <1>2. ASSUME NEW k \in 1 .. n PROVE s[KnownPlaceOf(s, k)] \in D
    <2>1. \E i \in DOMAIN s : s[i].kind \in DataKinds /\ KnownUpTo(s, i) = k
      BY <1>1, PlacesCounted
    <2>2. KnownPlaceOf(s, k) \in DOMAIN s /\ s[KnownPlaceOf(s, k)].kind \in DataKinds
      BY <2>1 DEF KnownPlaceOf
    <2> QED BY <2>2
  <1>3. Known(s) = [k \in 1 .. n |-> s[KnownPlaceOf(s, k)]] BY <1>1 DEF Known
  <1>4. Known(s) \in [1 .. n -> D] BY <1>2, <1>3
  <1> QED BY <1>1, <1>4

\* `d` is the records of a known kind among the first n of s.
AreFirst(d, s, n) ==
  /\ Len(d) = KnownUpTo(s, n)
  /\ \A i \in 1 .. n : s[i].kind \in DataKinds => d[KnownUpTo(s, i)] = s[i]

LEMMA FirstNone ==
  ASSUME NEW s
  PROVE  AreFirst(<<>>, s, 0)
  <1>1. KnownAmong(s, 0) = {} BY DEF KnownAmong
  <1>2. KnownUpTo(s, 0) = 0 BY <1>1, FS_EmptySet DEF KnownUpTo, KnownAmong
  <1> QED BY <1>2 DEF AreFirst

LEMMA FirstOne ==
  ASSUME NEW S, NEW s \in Seq(S), NEW n \in Nat, n + 1 <= Len(s), NEW D, NEW d \in Seq(D),
         AreFirst(d, s, n), s[n + 1].kind \in DataKinds, s[n + 1] \in D
  PROVE  AreFirst(Append(d, s[n + 1]), s, n + 1)
  <1>1. PICK e : e = Append(d, s[n + 1]) OBVIOUS
  <1>2. Len(e) = Len(d) + 1 /\ Len(d) \in Nat /\ e[Len(d) + 1] = s[n + 1]
        /\ \A k \in 1 .. Len(d) : e[k] = d[k]
    BY <1>1
  <1>3. KnownUpTo(s, n + 1) = KnownUpTo(s, n) + 1 BY KnownNext
  <1>4. Len(d) = KnownUpTo(s, n) BY DEF AreFirst
  <1>5. ASSUME NEW i \in 1 .. (n + 1), s[i].kind \in DataKinds
        PROVE  e[KnownUpTo(s, i)] = s[i]
    <2>1. CASE i = n + 1 BY <1>2, <1>3, <1>4, <2>1
    <2>2. CASE i # n + 1
      <3>1. i \in 1 .. n /\ i \in Nat /\ i <= n /\ i \in DOMAIN s BY <2>2
      <3>2. KnownUpTo(s, i) \in 1 .. KnownUpTo(s, Len(s)) BY <1>5, <3>1, KnownPlace
      <3>3. KnownUpTo(s, i) <= KnownUpTo(s, n) /\ KnownUpTo(s, n) \in Nat BY <3>1, KnownGrows
      <3>4. KnownUpTo(s, i) \in 1 .. Len(d) BY <1>2, <1>4, <3>2, <3>3
      <3>5. d[KnownUpTo(s, i)] = s[i] BY <1>5, <3>1 DEF AreFirst
      <3> QED BY <1>2, <3>4, <3>5
    <2> QED BY <2>1, <2>2
  <1> QED BY <1>1, <1>2, <1>3, <1>4, <1>5 DEF AreFirst

LEMMA FirstNoMore ==
  ASSUME NEW s, NEW n \in Nat, NEW d, AreFirst(d, s, n), s[n + 1].kind \notin DataKinds
  PROVE  AreFirst(d, s, n + 1)
  <1>1. KnownUpTo(s, n + 1) = KnownUpTo(s, n) BY KnownNext
  <1>2. \A i \in 1 .. (n + 1) : i = n + 1 \/ i \in 1 .. n OBVIOUS
  <1> QED BY <1>1, <1>2 DEF AreFirst

LEMMA FirstAmongKnown ==
  ASSUME NEW S, NEW s \in Seq(S), NEW n \in Nat, n <= Len(s),
         NEW D, NEW d \in Seq(D), AreFirst(d, s, n)
  PROVE  /\ Len(d) = KnownUpTo(s, n)
         /\ Len(d) <= KnownUpTo(s, Len(s))
         /\ \A k \in 1 .. Len(d) : Known(s)[k] = d[k]
  <1>1. /\ Len(d) = KnownUpTo(s, n) /\ Len(s) \in Nat /\ KnownUpTo(s, n) \in Nat
        /\ KnownUpTo(s, n) <= KnownUpTo(s, Len(s)) /\ KnownUpTo(s, Len(s)) \in Nat
    BY KnownGrows DEF AreFirst
  <1>2. ASSUME NEW k \in 1 .. Len(d) PROVE Known(s)[k] = d[k]
    <2>1. PICK i \in DOMAIN s : s[i].kind \in DataKinds /\ KnownUpTo(s, i) = k
      BY <1>1, PlacesCounted
    <2>2. ~(n < i) BY <1>1, <2>1, KnownBefore
    <2>3. i \in 1 .. n BY <2>1, <2>2
    <2>4. d[k] = s[i] BY <2>1, <2>3 DEF AreFirst
    <2> QED BY <2>1, <2>4, KnownHolds
  <1> QED BY <1>1, <1>2

\* The first i records of s and t are the same.
SameUpTo(s, t, i) == \A k \in 1 .. i : s[k] = t[k]

\* The lines of a known kind are data records.
DataIn(s) == \A i \in DOMAIN s : s[i].kind \in DataKinds => s[i] \in DataRecords

LEMMA FirstRecords ==
  ASSUME NEW S, NEW s \in Seq(S), DataIn(s), NEW n \in Nat, n <= Len(s),
         NEW d \in Seq(DataRecords), AreFirst(d, s, n)
  PROVE  /\ Len(d) \in Nat /\ Len(d) <= Len(Known(s))
         /\ SameUpTo(d, Known(s), Len(d))
         /\ n = Len(s) => d = Known(s)
  <1>1. /\ Len(d) = KnownUpTo(s, n)
        /\ Len(d) <= KnownUpTo(s, Len(s))
        /\ \A k \in 1 .. Len(d) : Known(s)[k] = d[k]
    BY FirstAmongKnown
  <1>2. PICK r : r = Known(s) OBVIOUS
  <1>3. r \in Seq(DataRecords) /\ Len(r) = KnownUpTo(s, Len(s))
    BY <1>2, KnownRecords DEF DataIn
  <1>4. n = Len(s) => d = r
    <2> HAVE n = Len(s)
    <2>1. Len(d) = Len(r) /\ \A k \in 1 .. Len(d) : r[k] = d[k] BY <1>1, <1>2, <1>3
    <2> QED BY <1>3, <2>1
  <1> QED BY <1>1, <1>2, <1>3, <1>4 DEF SameUpTo

-------------------------------------------------------------------------------
\* Whether a record is in place depends on the records up to it.

LEMMA SameEnds ==
  ASSUME NEW s, NEW t, NEW i \in Nat, SameUpTo(s, t, i)
  PROVE  EndsInOriginal(s, i) <=> EndsInOriginal(t, i)
  <1>1. \A k \in 1 .. i : s[k] = t[k] BY DEF SameUpTo
  <1>2. \A h \in 1 .. i : i \in 1 .. i /\ \A k \in (h + 1) .. i : k \in 1 .. i OBVIOUS
  <1> QED BY <1>1, <1>2 DEF EndsInOriginal

\* Where a chunk stands depends on the records up to it.
LEMMA SameChunkPlace ==
  ASSUME NEW s \in Seq(DataRecords), NEW t, NEW i \in 1 .. Len(s), SameUpTo(s, t, i),
         NEW h \in 1 .. (i - 1), ChunkInPlace(s, h, i)
  PROVE  ChunkInPlace(t, h, i)
  <1>1. /\ \A k \in 1 .. i : s[k] = t[k]
        /\ i \in Nat /\ h \in Nat /\ h < i /\ i <= Len(s) /\ Len(s) \in Nat
    BY DEF SameUpTo
  <1>2. i \in 1 .. i /\ h + 1 \in 1 .. i /\ h \in 1 .. i /\ h + 1 \in (h + 1) .. i /\ i \in (h + 1) .. i
    BY <1>1
  <1>3. \A k \in (h + 1) .. i : k \in 1 .. i /\ k \in 1 .. Len(s) BY <1>1
  <1>4. \A k \in (h + 1) .. i : IsChunk(s[k]) /\ s[k] \in OriginalChunk
    BY <1>3, ChunksAre DEF ChunkInPlace
  <1>5. PICK f, b, n : f = Len(s[h + 1].raw) /\ b = s[i].byteOffset /\ n = Len(s[i].raw) OBVIOUS
  <1>6. f \in Nat /\ b \in Nat /\ n \in Nat
    BY <1>2, <1>4, <1>5 DEF OriginalChunk
  <1>7. n # 0
    <2>1. s[i].raw \in Seq(Bytes) /\ s[i].raw # <<>> BY <1>2, <1>4 DEF OriginalChunk, ChunkInPlace
    <2> QED BY <1>5, <2>1
  <1>8. b = (i - h - 1) * f /\ n <= f BY <1>5 DEF ChunkInPlace
  <1>9. PICK m \in Nat : m = i - h - 1 BY <1>1
  <1>10. \A p \in 1 .. (b + n) : h + 1 + ((p - 1) \div f) \in 1 .. i
    <2> SUFFICES ASSUME NEW p \in 1 .. (b + n) PROVE h + 1 + ((p - 1) \div f) \in 1 .. i
      OBVIOUS
    <2>1. (m + 1) * f = m * f + f BY <1>6, <1>9, NextProduct
    <2>2. b = m * f BY <1>8, <1>9
    <2>3. p - 1 \in Nat /\ p - 1 < (m + 1) * f BY <1>6, <1>8, <2>1, <2>2
    <2>4. f \in Nat \ {0} /\ m + 1 \in Nat BY <1>6, <1>7, <1>8, <1>9
    <2>5. (p - 1) \div f \in Nat /\ (p - 1) \div f < m + 1 BY <2>3, <2>4, QuotientBelow
    <2> QED BY <1>1, <1>9, <2>5
  <1>11. [p \in 1 .. (b + n) |-> s[h + 1 + ((p - 1) \div f)].raw[((p - 1) % f) + 1]]
         = [p \in 1 .. (b + n) |-> t[h + 1 + ((p - 1) \div f)].raw[((p - 1) % f) + 1]]
    BY <1>1, <1>10
  <1>12. s[i] = t[i] /\ s[h] = t[h] /\ s[h + 1] = t[h + 1] BY <1>1, <1>2
  <1>13. \A k \in (h + 1) .. i : IsChunk(t[k]) BY <1>1, <1>3, <1>4
  <1>14. /\ t[i].evidenceId = t[h].id
         /\ t[i].assetId = t[h].blob.assetId
         /\ t[i].index = i - h - 1
         /\ b = (i - h - 1) * f
         /\ t[i].decodes
         /\ t[i].raw # <<>>
         /\ t[i].sha256 = Digest(t[i].raw)
         /\ n <= f
         /\ b + n <= t[h].blob.byteLength
         /\ n < f => b + n = t[h].blob.byteLength
    BY <1>5, <1>12 DEF ChunkInPlace
  <1>15. b + n = t[h].blob.byteLength =>
           t[h].blob.sha256 = Digest([p \in 1 .. (b + n) |->
             t[h + 1 + ((p - 1) \div f)].raw[((p - 1) % f) + 1]])
    <2>1. b + n = s[h].blob.byteLength =>
            s[h].blob.sha256 = Digest([p \in 1 .. (b + n) |->
              s[h + 1 + ((p - 1) \div f)].raw[((p - 1) % f) + 1]])
      BY <1>5 DEF ChunkInPlace
    <2> QED BY <1>11, <1>12, <2>1
  <1>16. f = Len(t[h + 1].raw) /\ b = t[i].byteOffset /\ n = Len(t[i].raw) BY <1>5, <1>12
  <1> QED BY <1>13, <1>14, <1>15, <1>16 DEF ChunkInPlace

LEMMA SameFollower ==
  ASSUME NEW s \in Seq(DataRecords), NEW t, NEW i \in 1 .. Len(s), SameUpTo(s, t, i),
         NEW h \in 1 .. (i - 1), IsHeadOf(s, h, i), FollowerInPlace(s, h, i)
  PROVE  IsHeadOf(t, h, i) /\ FollowerInPlace(t, h, i)
  <1>1. /\ \A k \in 1 .. i : s[k] = t[k]
        /\ i \in Nat /\ h \in Nat /\ h < i
    BY DEF SameUpTo
  <1>2. i \in 1 .. i /\ h \in 1 .. i /\ \A k \in (h + 1) .. (i - 1) : k \in 1 .. i
    BY <1>1
  <1>3. s[i] = t[i] /\ s[h] = t[h] /\ \A k \in (h + 1) .. (i - 1) : s[k] = t[k] BY <1>1, <1>2
  <1>4. i - 1 > h => s[i - 1] = t[i - 1] BY <1>1
  <1>5. IsHeadOf(t, h, i) BY <1>3 DEF IsHeadOf
  <1>6. IsChunk(t[i]) => ChunkInPlace(t, h, i) BY <1>3, SameChunkPlace DEF FollowerInPlace
  <1>7. IsSource(t[i]) => SourceInPlace(t, h, i) BY <1>3 DEF FollowerInPlace, SourceInPlace
  <1>8. IsDerivative(t[i]) => DerivativeInPlace(t, h, i)
    BY <1>3 DEF FollowerInPlace, DerivativeInPlace
  <1>9. IsPrimary(t[h]) /\ (i - 1 > h => Rank(t[i - 1]) <= Rank(t[i]))
    BY <1>3, <1>4 DEF FollowerInPlace
  <1> QED BY <1>5, <1>6, <1>7, <1>8, <1>9 DEF FollowerInPlace

\* Whether a record is in place depends on the records up to it.
LEMMA StaysInPlace ==
  ASSUME NEW s \in Seq(DataRecords), NEW t, NEW i \in 1 .. Len(s), SameUpTo(s, t, i), NEW c,
         InPlace(s, i, c)
  PROVE  InPlace(t, i, c)
  <1>1. i \in 1 .. i /\ i \in Nat /\ i - 1 \in Nat OBVIOUS
  <1>2. s[i] = t[i] /\ SameUpTo(s, t, i - 1) BY <1>1 DEF SameUpTo
  <1>3. EndsInOriginal(s, i - 1) <=> EndsInOriginal(t, i - 1) BY <1>1, <1>2, SameEnds
  <1>4. ASSUME IsFollower(s[i])
        PROVE  \E h \in 1 .. (i - 1) : IsHeadOf(t, h, i) /\ FollowerInPlace(t, h, i)
    <2>1. PICK h \in 1 .. (i - 1) : IsHeadOf(s, h, i) /\ FollowerInPlace(s, h, i)
      BY <1>4 DEF InPlace
    <2> QED BY <2>1, SameFollower
  <1> QED BY <1>2, <1>3, <1>4 DEF InPlace

LEMMA SamePlace ==
  ASSUME NEW s \in Seq(DataRecords), NEW t \in Seq(DataRecords), NEW i \in Nat \ {0},
         i <= Len(s), i <= Len(t), SameUpTo(s, t, i), NEW c
  PROVE  InPlace(s, i, c) <=> InPlace(t, i, c)
  <1>1. i \in 1 .. Len(s) /\ i \in 1 .. Len(t) OBVIOUS
  <1>2. SameUpTo(t, s, i) BY DEF SameUpTo
  <1> QED BY <1>1, <1>2, StaysInPlace

\* A record with which the records handed out go on ill-grouped.
LEMMA IllGrouped ==
  ASSUME NEW S, NEW s \in Seq(S), DataIn(s), NEW n \in Nat, n + 1 <= Len(s),
         NEW d \in Seq(DataRecords), AreFirst(d, s, n),
         NEW r, r = s[n + 1], r.kind \in DataKinds, NEW c,
         ~InPlace(Append(d, r), Len(Append(d, r)), c)
  PROVE  ~WellGrouped(Known(s), c)
  <1>1. n + 1 \in 1 .. Len(s) /\ Len(s) \in Nat /\ n + 1 \in Nat
    OBVIOUS
  <1>2. r \in DataRecords BY <1>1 DEF DataIn
  <1>3. PICK e : e = Append(d, r) OBVIOUS
  <1>4. e \in Seq(DataRecords) /\ Len(e) \in Nat \ {0} BY <1>2, <1>3
  <1>5. AreFirst(e, s, n + 1) BY <1>1, <1>2, <1>3, FirstOne
  <1>6. PICK k : k = Known(s) OBVIOUS
  <1>7. k \in Seq(DataRecords) BY <1>6, KnownRecords DEF DataIn
  <1>8. Len(e) <= Len(k) /\ SameUpTo(e, k, Len(e)) BY <1>1, <1>4, <1>5, <1>6, FirstRecords
  <1>9. ~InPlace(k, Len(e), c)
    <2>1. PICK m \in Nat \ {0} : m = Len(e) BY <1>4
    <2>2. InPlace(e, m, c) <=> InPlace(k, m, c) BY <1>4, <1>7, <1>8, <2>1, SamePlace
    <2>3. ~InPlace(e, m, c) BY <1>3, <2>1
    <2> QED BY <2>1, <2>2, <2>3
  <1>10. Len(e) \in DOMAIN k BY <1>4, <1>7, <1>8
  <1> QED BY <1>6, <1>9, <1>10 DEF WellGrouped

\* A record with which they go on well-grouped.
LEMMA StaysGrouped ==
  ASSUME NEW d \in Seq(DataRecords), NEW r \in DataRecords, NEW c, WellGrouped(d, c),
         InPlace(Append(d, r), Len(Append(d, r)), c)
  PROVE  WellGrouped(Append(d, r), c)
  <1>1. PICK e : e = Append(d, r) OBVIOUS
  <1>2. /\ e \in Seq(DataRecords) /\ Len(e) = Len(d) + 1 /\ Len(d) \in Nat
        /\ \A i \in 1 .. Len(d) : e[i] = d[i]
    BY <1>1
  <1>3. ASSUME NEW i \in DOMAIN e PROVE InPlace(e, i, c)
    <2>1. CASE i = Len(e) BY <1>1, <2>1
    <2>2. CASE i # Len(e)
      <3>1. i \in 1 .. Len(d) /\ i \in DOMAIN d BY <1>2, <2>2
      <3>2. InPlace(d, i, c) BY <3>1 DEF WellGrouped
      <3>3. SameUpTo(d, e, i) BY <1>2, <3>1 DEF SameUpTo
      <3> QED BY <3>1, <3>2, <3>3, StaysInPlace
    <2> QED BY <2>1, <2>2
  <1> QED BY <1>1, <1>3 DEF WellGrouped
===============================================================================
