------------------------------- MODULE AntWriter -------------------------------
(***************************************************************************)
(* AntWriter: records in, lines out, a trailer at the end.                 *)
(*                                                                         *)
(* What the writer's output and its hasher were fed is a sequence of whole *)
(* lines and, after a write that failed half-way, the beginning of one.    *)
(* Nothing stops a caller from writing on after a failed write; the next   *)
(* line then continues the unfinished one, and what comes out is no record.*)
(* A caller may also drop the writer at any time.                          *)
(***************************************************************************)
EXTENDS AntRecords

CONSTANTS
  WriterHeaders,   \* manifests the writer is opened with
  Submissions,     \* records its caller may write
  MaxWrites        \* bound: calls of write

\* A record of a kind the reader does not know is a newer writer's; one that is
\* malformed is written in a form that does not decode.
ASSUME WriterAssumption ==
  /\ WriterHeaders \subseteq Header
  /\ Submissions \subseteq DataRecords \union [kind : {"unknown", "malformed"}]
  /\ MaxWrites \in Nat

VARIABLES
  writing,     \* unopened, open, finished, or dropped after an error or before finish
  output,      \* what AntWriter.enc accepted
  digested,    \* what AntWriter.hasher was fed
  tallied,     \* AntWriter.counts
  submitted    \* history: the records passed to write

writerVars == <<writing, output, digested, tallied, submitted>>

NoText == [lines |-> <<>>, unfinished |-> FALSE]

\* A line that continues an unfinished one is no record: an object that was
\* not closed is never closed by another that is.
Feed(text, line) ==
  [lines |-> Append(text.lines, IF text.unfinished THEN [kind |-> "malformed"] ELSE line),
   unfinished |-> FALSE]

\* Nothing of the line was accepted, or a part of it.
FeedPart(text) == {text, [text EXCEPT !.unfinished = TRUE]}

\* A trailer on the way says something; to the digest of what comes after it,
\* it is a TrailerLine.
WireTrailer == [kind : {"trailer"}, sha256 : Seq(StreamLines), counts : Counts]
WireLines == Header \union DataRecords \union OtherLines \union WireTrailer

\* Every variable of the writer stays in its type.
TypeOKWriter ==
  /\ writing \in {"unopened", "open", "finished", "dropped"}
  /\ output.lines \in Seq(WireLines) /\ output.unfinished \in BOOLEAN
  /\ digested.lines \in Seq(WireLines) /\ digested.unfinished \in BOOLEAN
  /\ tallied \in Counts
  /\ submitted \in Seq(Submissions)

InitWriter ==
  /\ writing = "unopened"
  /\ output = NoText
  /\ digested = NoText
  /\ tallied = ZeroCounts
  /\ submitted = <<>>

-------------------------------------------------------------------------------

\* HashingWrite: the hasher is fed exactly what the output accepted.
WriteLine(line) ==
  /\ output' = Feed(output, line)
  /\ digested' = Feed(digested, line)

WritePart ==
  \E text \in FeedPart(output) :
    /\ output' = text
    /\ digested' = text

\* Mutant of OpenWriter: the manifest bypasses HashingWrite.
OpenWriterUndigested(h) ==
  /\ writing = "unopened"
  /\ output' = Feed(output, h)
  /\ writing' = "open"
  /\ UNCHANGED <<digested, tallied, submitted>>

\* new and new_with_selection write the manifest.
OpenWriter(h) ==
  /\ writing = "unopened"
  /\ WriteLine(h)
  /\ writing' = "open"
  /\ UNCHANGED <<tallied, submitted>>

FailOpen ==
  /\ writing = "unopened"
  /\ WritePart
  /\ writing' = "dropped"
  /\ UNCHANGED <<tallied, submitted>>

\* A record of a kind the reader does not know is counted under a key that the
\* reader's Counts does not have, and the count of one that does not decode is
\* never compared, for the reader refuses its line.
Tallied(r) ==
  IF r.kind \in DataKinds THEN [tallied EXCEPT ![r.kind] = @ + 1] ELSE tallied

\* The record is counted before its line is written.
Submit(r) ==
  /\ writing = "open"
  /\ Len(submitted) < MaxWrites
  /\ submitted' = Append(submitted, r)
  /\ tallied' = Tallied(r)
  /\ UNCHANGED writing

WriteRecord(r) == Submit(r) /\ WriteLine(r)

\* Mutant of FailWrite: a record is counted after its line is written.
FailWriteUncounted(r) ==
  /\ writing = "open"
  /\ Len(submitted) < MaxWrites
  /\ submitted' = Append(submitted, r)
  /\ WritePart
  /\ UNCHANGED <<writing, tallied>>

FailWrite(r) == Submit(r) /\ WritePart

\* Mutant of RefuseWrite: a trailer is written like a record.
RefuseWriteTooLate ==
  /\ writing = "open"
  /\ Len(submitted) < MaxWrites
  /\ submitted' = Append(submitted, TrailerLine)
  /\ WriteLine(TrailerLine)
  /\ UNCHANGED <<writing, tallied>>

\* write refuses a manifest or a trailer, and changes nothing.
RefuseWrite ==
  /\ writing = "open"
  /\ UNCHANGED writerVars

\* The trailer, as the reader of this build decodes it.
TrailerNow == [kind |-> "trailer", sha256 |-> Digest(digested.lines), counts |-> tallied]

\* finish consumes the writer.  The trailer does not go through the hasher.
Finish ==
  /\ writing = "open"
  /\ output' = Feed(output, TrailerNow)
  /\ writing' = "finished"
  /\ UNCHANGED <<digested, tallied, submitted>>

\* The trailer is not written, or it is and the frame is not finished.
FailFinish ==
  /\ writing = "open"
  /\ output' \in FeedPart(output) \union {Feed(output, TrailerNow)}
  /\ writing' = "dropped"
  /\ UNCHANGED <<digested, tallied, submitted>>

\* The caller gives up without calling finish.
DropWriter ==
  /\ writing = "open"
  /\ writing' = "dropped"
  /\ UNCHANGED <<output, digested, tallied, submitted>>

Write ==
  \/ \E h \in WriterHeaders : OpenWriter(h)
  \/ FailOpen
  \/ \E r \in Submissions : WriteRecord(r) \/ FailWrite(r)
  \/ RefuseWrite
  \/ Finish
  \/ FailFinish
  \/ DropWriter
===============================================================================
