------------------------------- MODULE AntReader -------------------------------
(***************************************************************************)
(* AntReader: opening a `.ant` stream and reading it record by record.     *)
(*                                                                         *)
(* One step is one line: `new` reads the first (Open), and every iteration *)
(* of next_record's loop reads one more.  The stream is whatever lines     *)
(* arrive: the next line is chosen among `Lines`, or is a trailer with a   *)
(* right or a wrong digest and right or wrong counts, or the stream ends.  *)
(*                                                                         *)
(* What the caller does with an error is part of the system.  A caller     *)
(* that stops at the first one is PersistentCaller = FALSE, every caller   *)
(* in the repository; nothing in the reader prevents calling next_record   *)
(* again after an error or after the end, PersistentCaller = TRUE.         *)
(***************************************************************************)
EXTENDS AntRecords

CONSTANTS
  Headers,           \* the first lines a stream may start with
  Lines,             \* the other lines, trailers excepted
  ManifestBudget,    \* the reader's manifest memory budget
  PersistentCaller,  \* whether the caller reads on after an error or the end
  MaxLines           \* bound: lines in a stream

ASSUME ConstantsAssumption ==
  /\ Headers \subseteq Header
  /\ Lines \subseteq DataRecords \union OtherLines
  /\ ManifestBudget \in Nat
  /\ PersistentCaller \in BOOLEAN
  /\ MaxLines \in Nat

VARIABLES
  phase,          \* where the caller stands: new not called, refused, ...
  version,        \* AntReader.version
  minorAhead,     \* AntReader.minor_ahead
  lineNo,         \* AntReader.line_no
  hashed,         \* the lines fed to AntReader.hasher
  counts,         \* AntReader.counts
  verified,       \* AntReader.verified
  original,       \* AntReader.original, the original whose chunks come next
  completed,      \* AntReader.completed, the original sources may follow
  derivativesOf,  \* AntReader.derivatives_of, the primary being continued
  outcome,        \* what the latest next_record returned or did
  stream,         \* history: the lines the transport held, in order
  delivered       \* history: the records returned to the caller

vars == <<phase, version, minorAhead, lineNo, hashed, counts, verified,
          original, completed, derivativesOf, outcome, stream, delivered>>

slots == <<original, completed, derivativesOf>>
opened == <<version, minorAhead>>

-------------------------------------------------------------------------------

\* PendingOriginal.  `received` is what its hasher was fed.  chunkLen 0 is
\* Option::None: no accepted chunk is empty.
PendingOriginal ==
  [evidenceId : EvidenceIds, blob : SourceBlob, nextIndex : Nat,
   nextOffset : Nat, chunkLen : Nat, received : Seq(Bytes)]

\* `last` 0 is Option::None: no reference id is 0.
CompletedOriginal == [evidenceId : EvidenceIds, blob : SourceBlob, last : Nat]

\* `last` NoSlot is Option::None, and less than every slot.
NoSlot == <<0, 0>>
DerivativesOf == [evidenceId : EvidenceIds, blob : SourceBlob, last : Slot]

ASSUME NoneAssumption ==
  /\ None \notin PendingOriginal
  /\ None \notin CompletedOriginal
  /\ None \notin DerivativesOf
  /\ None \notin FormatVersion
  /\ None \notin SourceBlob
  /\ None \notin Derivation

Init ==
  /\ phase = "closed"
  /\ version = None
  /\ minorAhead = FALSE
  /\ lineNo = 0
  /\ hashed = <<>>
  /\ counts = ZeroCounts
  /\ verified = FALSE
  /\ original = None
  /\ completed = None
  /\ derivativesOf = None
  /\ outcome = "none"
  /\ stream = <<>>
  /\ delivered = <<>>

-------------------------------------------------------------------------------
\* AntReader::new_with_manifest_budget

HeaderAccepted(h) ==
  /\ h.length <= ManifestBudget
  /\ h.length + h.decoded <= ManifestBudget
  /\ h.record = "manifest"
  /\ h.antares
  /\ h.version # None
  /\ ReadableByCurrent(h.version)

Open(h) ==
  /\ phase = "closed"
  /\ HeaderAccepted(h)
  /\ phase' = "reading"
  /\ version' = h.version
  /\ minorAhead' = (h.version.minor > KnownMinor(h.version))
  /\ lineNo' = 1
  /\ hashed' = <<h>>
  /\ stream' = <<h>>
  /\ UNCHANGED <<counts, verified, slots, outcome, delivered>>

RefuseHeader(h) ==
  /\ phase = "closed"
  /\ ~HeaderAccepted(h)
  /\ phase' = "refused"
  /\ UNCHANGED <<opened, lineNo, hashed, counts, verified, slots, outcome,
                 stream, delivered>>

RefuseEmptyStream ==
  /\ phase = "closed"
  /\ phase' = "refused"
  /\ UNCHANGED <<opened, lineNo, hashed, counts, verified, slots, outcome,
                 stream, delivered>>

-------------------------------------------------------------------------------
\* How an iteration of next_record's loop ends

Carries == CarriesOriginals(version)

\* There is a line to read.
LineAvailable == lineNo < MaxLines

\* Over the line bound of a 1.x file; a 0.x file has none.
TooLong(line) == line.kind \in PlainKinds /\ line.oversized /\ Carries

\* The transport held this line next.
Take(line) ==
  /\ LineAvailable
  /\ lineNo' = lineNo + 1
  /\ stream' = Append(stream, line)
  /\ UNCHANGED opened

\* The line is read and fed to the hasher.
Hash(line) ==
  /\ Take(line)
  /\ ~TooLong(line)
  /\ hashed' = Append(hashed, line)

\* next_record returns an error, or the end of the records.
ReturnLast(result) ==
  /\ outcome' = result
  /\ phase' = IF PersistentCaller THEN "reading" ELSE "stopped"
  /\ UNCHANGED delivered

\* A data record is counted as soon as it is decoded, before it is checked.
Count(r) == counts' = [counts EXCEPT ![r.kind] = @ + 1]

\* check_originals refuses the record.
Refuse(r) ==
  /\ Hash(r)
  /\ Count(r)
  /\ ReturnLast("refused")
  /\ UNCHANGED verified

\* check_originals accepts the record and next_record returns it.
Deliver(r) ==
  /\ Hash(r)
  /\ Count(r)
  /\ outcome' = "record"
  /\ delivered' = Append(delivered, r)
  /\ UNCHANGED <<phase, verified>>

-------------------------------------------------------------------------------
\* check_originals: original_chunk

\* The chunk is the one that comes next and holds what it says.
ChunkIsNext(r) ==
  /\ Carries
  /\ original # None
  /\ r.evidenceId = original.evidenceId
  /\ r.assetId = original.blob.assetId
  /\ r.index = original.nextIndex
  /\ r.byteOffset = original.nextOffset
  /\ r.decodes
  /\ Len(r.raw) # 0
  /\ Digest(r.raw) = r.sha256

\* chunk_len.get_or_insert(len)
FirstLength(pending, r) ==
  IF pending.chunkLen = 0 THEN Len(r.raw) ELSE pending.chunkLen

ChunkEnd(pending, r) == pending.nextOffset + Len(r.raw)

\* Mutant of LengthFits: a chunk that is not the last may be shorter.
LengthFitsAnyShorter(pending, r) ==
  /\ Len(r.raw) <= FirstLength(pending, r)
  /\ ChunkEnd(pending, r) <= pending.blob.byteLength

\* Chunks are as long as the first, except a shorter last one.
LengthFits(pending, r) ==
  /\ Len(r.raw) <= FirstLength(pending, r)
  /\ ChunkEnd(pending, r) <= pending.blob.byteLength
  /\ Len(r.raw) < FirstLength(pending, r) =>
       ChunkEnd(pending, r) = pending.blob.byteLength

IsLastChunk(pending, r) == ChunkEnd(pending, r) = pending.blob.byteLength

OriginalMatches(pending, r) ==
  Digest(pending.received \o r.raw) = pending.blob.sha256

RefuseMisplacedChunk(r) ==
  /\ r.kind = "original_chunk"
  /\ ~ChunkIsNext(r)
  /\ Refuse(r)
  /\ UNCHANGED slots

\* The length of the first chunk is remembered even when it is refused.
RefuseChunkLength(r) ==
  /\ r.kind = "original_chunk"
  /\ ChunkIsNext(r)
  /\ ~LengthFits(original, r)
  /\ Refuse(r)
  /\ original' = [original EXCEPT !.chunkLen = FirstLength(original, r)]
  /\ UNCHANGED <<completed, derivativesOf>>

AcceptChunk(r) ==
  /\ r.kind = "original_chunk"
  /\ ChunkIsNext(r)
  /\ LengthFits(original, r)
  /\ ~IsLastChunk(original, r)
  /\ Deliver(r)
  /\ original' = [original EXCEPT !.chunkLen = FirstLength(original, r),
                                  !.received = @ \o r.raw,
                                  !.nextIndex = @ + 1,
                                  !.nextOffset = ChunkEnd(original, r)]
  /\ UNCHANGED <<completed, derivativesOf>>

CompleteOriginal(r) ==
  /\ r.kind = "original_chunk"
  /\ ChunkIsNext(r)
  /\ LengthFits(original, r)
  /\ IsLastChunk(original, r)
  /\ OriginalMatches(original, r)
  /\ Deliver(r)
  /\ original' = None
  /\ completed' = [evidenceId |-> original.evidenceId, blob |-> original.blob, last |-> 0]
  /\ UNCHANGED derivativesOf

RefuseOriginal(r) ==
  /\ r.kind = "original_chunk"
  /\ ChunkIsNext(r)
  /\ LengthFits(original, r)
  /\ IsLastChunk(original, r)
  /\ ~OriginalMatches(original, r)
  /\ Refuse(r)
  /\ original' = None
  /\ UNCHANGED <<completed, derivativesOf>>

ReadChunk(r) ==
  \/ RefuseMisplacedChunk(r)
  \/ RefuseChunkLength(r)
  \/ AcceptChunk(r)
  \/ CompleteOriginal(r)
  \/ RefuseOriginal(r)

-------------------------------------------------------------------------------
\* check_originals: original_source

\* Mutant of SourceFollows: the last reference may be repeated.
SourceFollowsOrRepeats(r) ==
  /\ Carries
  /\ original = None
  /\ completed # None
  /\ r.wellFormed
  /\ SourceBinds(r, completed.evidenceId, completed.blob)
  /\ completed.last <= r.referenceId

SourceFollows(r) ==
  /\ Carries
  /\ original = None
  /\ completed # None
  /\ r.wellFormed
  /\ SourceBinds(r, completed.evidenceId, completed.blob)
  /\ completed.last < r.referenceId

AcceptSource(r) ==
  /\ r.kind = "original_source"
  /\ SourceFollows(r)
  /\ Deliver(r)
  /\ completed' = [completed EXCEPT !.last = r.referenceId]
  /\ UNCHANGED <<original, derivativesOf>>

RefuseSource(r) ==
  /\ r.kind = "original_source"
  /\ ~SourceFollows(r)
  /\ Refuse(r)
  /\ UNCHANGED slots

-------------------------------------------------------------------------------
\* check_originals: any other record.  A derivative goes to check_derivative.

\* No record but a chunk may come while an original is incomplete.
RefuseInterruption(r) ==
  /\ r.kind \in PlainKinds \union {"evidence"}
  /\ original # None
  /\ Refuse(r)
  /\ UNCHANGED slots

ReadPlain(r) ==
  /\ r.kind \in PlainKinds \union {"evidence"}
  /\ r.kind = "evidence" => r.derivation = None /\ r.blob = None
  /\ original = None
  /\ Deliver(r)
  /\ completed' = None
  /\ derivativesOf' = None
  /\ UNCHANGED original

PrimaryAccepted(r) ==
  /\ Carries
  /\ r.blob.wellFormed
  /\ r.blob.byteLength = 0 => Digest(<<>>) = r.blob.sha256

\* The original follows, in chunks; an empty one is complete at once.
ReadPrimary(r) ==
  /\ IsPrimary(r)
  /\ original = None
  /\ PrimaryAccepted(r)
  /\ Deliver(r)
  /\ IF r.blob.byteLength = 0
     THEN /\ completed' = [evidenceId |-> r.id, blob |-> r.blob, last |-> 0]
          /\ original' = None
     ELSE /\ completed' = None
          /\ original' = [evidenceId |-> r.id, blob |-> r.blob, nextIndex |-> 0,
                          nextOffset |-> 0, chunkLen |-> 0, received |-> <<>>]
  /\ derivativesOf' = None

RefusePrimary(r) ==
  /\ IsPrimary(r)
  /\ original = None
  /\ ~PrimaryAccepted(r)
  /\ Refuse(r)
  /\ completed' = None
  /\ derivativesOf' = None
  /\ UNCHANGED original

-------------------------------------------------------------------------------
\* check_derivative

DerivativeWellFormed(r) ==
  /\ Carries
  /\ r.blob = None
  /\ r.derivation.wellFormed
  /\ r.derivation.text = r.content

\* The primary a derivative continues: completed.take() or derivatives_of.take().
ContinuedPrimary ==
  IF completed # None
  THEN [evidenceId |-> completed.evidenceId, blob |-> completed.blob, last |-> NoSlot]
  ELSE derivativesOf

DerivativeFollows(r) ==
  /\ completed # None \/ derivativesOf # None
  /\ DerivationBinds(r.derivation, ContinuedPrimary.evidenceId, ContinuedPrimary.blob)
  /\ SlotLess(ContinuedPrimary.last, SlotOf(r.derivation))

\* Mutant of AcceptDerivative: the slot is not remembered.
AcceptDerivativeForgetsSlot(r) ==
  /\ IsDerivative(r)
  /\ original = None
  /\ DerivativeWellFormed(r)
  /\ DerivativeFollows(r)
  /\ Deliver(r)
  /\ completed' = None
  /\ derivativesOf' = ContinuedPrimary
  /\ UNCHANGED original

\* Mutant of AcceptDerivative: `completed` is read and not taken.
AcceptDerivativeKeepsCompleted(r) ==
  /\ IsDerivative(r)
  /\ original = None
  /\ DerivativeWellFormed(r)
  /\ DerivativeFollows(r)
  /\ Deliver(r)
  /\ derivativesOf' = [ContinuedPrimary EXCEPT !.last = SlotOf(r.derivation)]
  /\ UNCHANGED <<original, completed>>

AcceptDerivative(r) ==
  /\ IsDerivative(r)
  /\ original = None
  /\ DerivativeWellFormed(r)
  /\ DerivativeFollows(r)
  /\ Deliver(r)
  /\ completed' = None
  /\ derivativesOf' = [ContinuedPrimary EXCEPT !.last = SlotOf(r.derivation)]
  /\ UNCHANGED original

RefuseMalformedDerivative(r) ==
  /\ IsDerivative(r)
  /\ original = None
  /\ ~DerivativeWellFormed(r)
  /\ Refuse(r)
  /\ UNCHANGED slots

\* What was taken is not put back.
RefuseMisplacedDerivative(r) ==
  /\ IsDerivative(r)
  /\ original = None
  /\ DerivativeWellFormed(r)
  /\ ~DerivativeFollows(r)
  /\ Refuse(r)
  /\ completed' = None
  /\ derivativesOf' = None
  /\ UNCHANGED original

ReadOther(r) ==
  \/ RefuseInterruption(r)
  \/ ReadPlain(r)
  \/ ReadPrimary(r)
  \/ RefusePrimary(r)
  \/ AcceptDerivative(r)
  \/ RefuseMalformedDerivative(r)
  \/ RefuseMisplacedDerivative(r)

-------------------------------------------------------------------------------
\* next_record: the trailer, and lines that are no data record

\* A trailer may say anything.  Its digest is that of every line before it, of
\* the lines the reader hashed, or neither; its counts are those of every line,
\* of the lines the reader counted, or neither.
Trailers ==
  [kind : {"trailer"}, sha256 : {Digest(stream), Digest(hashed), Digest(<<>>)},
   counts : {Tally(stream), counts, [counts EXCEPT !["vertex"] = @ + 1]}]

\* Mutant of TrailerMatches: the counts are not compared.
TrailerMatchesDigest(t) ==
  /\ original = None
  /\ t.sha256 = Digest(hashed)

TrailerMatches(t) ==
  /\ original = None
  /\ t.sha256 = Digest(hashed)
  /\ t.counts = counts

AcceptTrailer(t) ==
  /\ TrailerMatches(t)
  /\ Hash(TrailerLine)
  /\ verified' = TRUE
  /\ ReturnLast("end")
  /\ UNCHANGED <<counts, slots>>

RefuseTrailer(t) ==
  /\ ~TrailerMatches(t)
  /\ Hash(TrailerLine)
  /\ ReturnLast("error")
  /\ UNCHANGED <<counts, verified, slots>>

\* Mutant of SkipUnknown: a line of unknown kind is skipped before it is hashed.
SkipUnknownUnhashed(line) ==
  /\ line.kind = "unknown"
  /\ Take(line)
  /\ outcome' = "skipped"
  /\ UNCHANGED <<phase, hashed, counts, verified, slots, delivered>>

\* The loop goes on with the next line.
SkipUnknown(line) ==
  /\ line.kind = "unknown"
  /\ Hash(line)
  /\ outcome' = "skipped"
  /\ UNCHANGED <<phase, counts, verified, slots, delivered>>

\* A known kind that does not decode, a line that is no record, or a second
\* manifest.
RefuseLine(line) ==
  /\ line.kind \in {"malformed", "manifest"}
  /\ Hash(line)
  /\ ReturnLast("error")
  /\ UNCHANGED <<counts, verified, slots>>

\* The read fails, or the line is over the bound of a 1.x file: the line is
\* counted but neither hashed nor decoded.
FailRead(line) ==
  /\ Take(line)
  /\ line.kind = "io_error" \/ TooLong(line)
  /\ ReturnLast("error")
  /\ UNCHANGED <<hashed, counts, verified, slots>>

\* Mutant of EndOfStream: the end is taken for one more line to skip.
EndOfStreamSkipped ==
  /\ outcome' = "skipped"
  /\ UNCHANGED <<phase, opened, lineNo, hashed, counts, verified, slots, stream, delivered>>

\* No trailer came.  Every later call finds the same end.
EndOfStream ==
  /\ phase' = "stopped"
  /\ outcome' = "error"
  /\ UNCHANGED <<opened, lineNo, hashed, counts, verified, slots, stream, delivered>>

-------------------------------------------------------------------------------

\* One iteration of next_record's loop, on a line that is no trailer.
ReadLine(line) ==
  \/ ReadChunk(line)
  \/ AcceptSource(line)
  \/ RefuseSource(line)
  \/ ReadOther(line)
  \/ SkipUnknown(line)
  \/ RefuseLine(line)
  \/ FailRead(line)

\* The same of a line that a transport brings: a second manifest is the same to
\* the reader whatever it says.
ReadNext(line) ==
  \/ line.kind \notin {"trailer", "header"} /\ ReadLine(line)
  \/ line.kind = "header" /\ RefuseLine([kind |-> "manifest"])
  \/ line.kind = "trailer" /\ (AcceptTrailer(line) \/ RefuseTrailer(line))

NextRecord ==
  /\ phase = "reading"
  /\ \/ \E line \in Lines : ReadLine(line)
     \/ \E t \in Trailers : AcceptTrailer(t) \/ RefuseTrailer(t)
     \/ EndOfStream

New ==
  \/ \E h \in Headers : Open(h) \/ RefuseHeader(h)
  \/ RefuseEmptyStream

\* The caller is done with the reader.
Done ==
  /\ phase \in {"refused", "stopped"}
  /\ UNCHANGED vars

Next == New \/ NextRecord \/ Done

Spec == Init /\ [][Next]_vars

\* The caller keeps calling while it wants records, and each call returns or
\* reads on.
FairSpec == Spec /\ WF_vars(New) /\ WF_vars(NextRecord)
===============================================================================
