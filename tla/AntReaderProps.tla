----------------------------- MODULE AntReaderProps -----------------------------
(***************************************************************************)
(* What AntReader guarantees whatever lines arrive, and what it does not.  *)
(***************************************************************************)
EXTENDS AntReader, OriginalGroups

\* Every variable of the reader stays in its type.
TypeOK ==
  /\ phase \in {"closed", "refused", "reading", "stopped"}
  /\ version \in FormatVersion \union {None}
  /\ phase \in {"reading", "stopped"} => version # None
  /\ minorAhead \in BOOLEAN
  /\ lineNo \in Nat
  /\ hashed \in Seq(StreamLines)
  /\ counts \in Counts
  /\ verified \in BOOLEAN
  /\ original \in PendingOriginal \union {None}
  /\ completed \in CompletedOriginal \union {None}
  /\ derivativesOf \in DerivativesOf \union {None}
  /\ outcome \in {"none", "skipped", "record", "refused", "error", "end"}
  /\ stream \in Seq(StreamLines)
  /\ delivered \in Seq(DataRecords)

\* The three Options that say what may come next never contradict each other:
\* at most one of original, completed and derivatives_of is Some, whichever
\* refusals came before and whether or not the caller read on after them.
AtMostOneOpen ==
  /\ original # None => completed = None /\ derivativesOf = None
  /\ completed # None => derivativesOf = None

\* The bookkeeping of an original whose chunks are still arriving: next_offset
\* counts the bytes hashed so far, is next_index chunks of the first one's
\* length, and stays short of byte_length, so the reader neither waits for an
\* original it has nor adds past its end.
PendingBookkeeping ==
  original # None =>
    /\ original.nextIndex # 0 => original.chunkLen # 0
    /\ original.nextOffset = Len(original.received)
    /\ original.nextOffset = original.nextIndex * original.chunkLen
    /\ original.nextOffset < original.blob.byteLength

\* Until something goes wrong, every line the transport held was hashed, those
\* of unknown kinds too, and every record handed out was counted once.
NothingUnaccounted ==
  ~PersistentCaller /\ outcome \notin {"refused", "error"} =>
    /\ hashed = stream
    /\ counts = Tally(delivered)

\* The lines the reader got to read: all but the reads that failed and the lines
\* that were too long.  Neither is hashed.
PlacesRead(lines) ==
  {i \in DOMAIN lines : lines[i].kind # "io_error" /\ ~TooLong(lines[i])}

LinesRead(lines) ==
  LET places == PlacesRead(lines)
      place(k) == CHOOSE i \in places : Cardinality(places \cap (1 .. i)) = k
  IN  [k \in 1 .. Cardinality(places) |-> lines[place(k)]]

\* `verified` is set only by a trailer, and a trailer is accepted only when its
\* digest and its counts are those of the lines the reader could read, in their
\* order, records it refused included, and no original is short of bytes.  To a
\* caller that read on after a failed read or a line too long it says nothing of
\* that line, which the trailer may leave out.
VerifiedOnlyByTrueTrailer ==
  [][/\ verified' # verified => verified' /\ \E t \in Trailers : AcceptTrailer(t)
     /\ \A t \in Trailers :
          AcceptTrailer(t) =>
            /\ t.sha256 = Digest(LinesRead(stream))
            /\ t.counts = Tally(LinesRead(stream))
            /\ original = None]_vars

\* What the contract calls the state of an import.  To be refused for its place
\* is an outcome of its own; every other error is a failure.
ContractRecords == {line \in Lines : line.kind \in DataKinds}
ContractCarries == version # None /\ Carries
ContractStatus ==
  IF phase \in {"closed", "reading"} THEN phase
  ELSE IF phase = "stopped" /\ outcome = "refused" THEN "refused"
  ELSE IF phase = "stopped" /\ outcome = "end" THEN "verified"
  ELSE "failed"

Contract == INSTANCE ReaderContract WITH
    Records <- ContractRecords,
    carries <- ContractCarries,
    accepted <- delivered,
    status <- ContractStatus

\* For a caller that stops at the first error the reader implements its
\* contract: only well-grouped sequences are handed out, and only what no
\* well-grouped sequence goes on with is refused.
ImplementsContract == Contract!Spec

\* Reading a stream of bounded length ends: the loop over unknown kinds
\* consumes a line each time, and a missing trailer is an error.
ReadingEnds == <>(phase \in {"refused", "stopped"})

-------------------------------------------------------------------------------
\* What the documentation says and the reader does not do.

\* "Every chunk of an Evidence's original follows that Evidence record
\* immediately, in order, before any other record" (OriginalChunk): a chunk
\* handed out comes on the line after its Evidence or the chunk before it.
ChunksFollowAtOnce ==
  \A i \in 3 .. Len(stream) :
    stream[i].kind = "original_chunk" /\ (i = Len(stream) => outcome = "record")
      => stream[i - 1].kind \in {"evidence", "original_chunk"}

\* "The stream footer [...] Exactly one, last line" (AntRecord::Trailer): once
\* the trailer was accepted no later line is read and handed out.
TrailerIsLast ==
  [][verified => delivered' = delivered]_vars
===============================================================================
