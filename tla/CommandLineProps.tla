--------------------------- MODULE CommandLineProps ---------------------------
(***************************************************************************)
(* What the command line promises the scripts that call it, and what the   *)
(* conformance corpus promises every reader.                               *)
(***************************************************************************)
EXTENDS CommandLine, OriginalGroups, CorpusExpected

\* A line that is read on from: a record, within the bound of a stream that may
\* carry originals, or a line of a kind this build does not know.
Readable(line, carries) ==
  /\ line.kind \in DataKinds \union {"unknown"}
  /\ ~(line.kind \in PlainKinds /\ line.oversized /\ carries)

\* Line n is the trailer of these lines: it says what is before it, which is a
\* manifest and well-grouped records, no original cut short.
EndsArchive(lines, n) ==
  LET before == SubSeq(lines, 1, n - 1)
      carries == CarriesOriginals(lines[1].version)
  IN /\ n > 1
     /\ lines[1].kind = "header"
     /\ HeaderAccepted(lines[1])
     /\ \A i \in 2 .. (n - 1) : Readable(lines[i], carries)
     /\ WellGrouped(Known(before), carries)
     /\ Complete(Known(before))
     /\ lines[n].kind = "trailer"
     /\ lines[n].sha256 = Digest(before)
     /\ lines[n].counts = Tally(before)

\* What is after the trailer is not looked at.
IsWholeArchive(lines) == \E n \in DOMAIN lines : EndsArchive(lines, n)

\* What a file deserves, whichever files were judged before it.
CodeOf(path) ==
  IF Contents[path] = None THEN EX_NOINPUT
  ELSE IF IsWholeArchive(Contents[path]) THEN EX_OK ELSE EX_DATAERR

\* `validate` goes on after a file that fails: a run that was understood reports
\* every file, in order and each as if it were alone, and exits with the most
\* severe code of them all, wherever that file stands among the others.  A run
\* that was not understood opens no file and exits with EX_USAGE.  (main.rs:
\* validate_cmd, read_all, main.)
ExitIsMostSevere ==
  step = "exited" =>
    IF Understood
    THEN /\ Len(reports) = Len(args.paths)
         /\ \A i \in DOMAIN reports :
              reports[i].path = args.paths[i] /\ reports[i].code = CodeOf(args.paths[i])
         /\ rc = Max({CodeOf(args.paths[i]) : i \in DOMAIN args.paths})
    ELSE reports = <<>> /\ rc = EX_USAGE

\* A golden that must read is read as its entry says: version, kinds in order,
\* and the counts `info` prints.
ReadAsExpected(report, kinds) ==
  LET entry == Expected[report.path] IN
  /\ report.code = EX_OK
  /\ report.version = entry.version
  /\ kinds = entry.recordKinds
  /\ report.counts # None => report.counts = entry.counts

RefusedForItsReason(report) ==
  report.code = EX_DATAERR /\ report.line = Negatives[report.path]

\* An archive as a reader sees it that checks no shape of a blob, a reference or a
\* derivation, and everything else.
Shapeless(line) ==
  CASE IsDerivative(line) -> [line EXCEPT !.derivation.wellFormed = TRUE]
    [] IsPrimary(line) -> [line EXCEPT !.blob.wellFormed = TRUE]
    [] line.kind = "original_source" -> [line EXCEPT !.wellFormed = TRUE]
    [] OTHER -> line

WithoutShapes(lines) == Trailed([i \in 1 .. Len(lines) - 1 |-> Shapeless(lines[i])])

BreaksOnlyItsShape(b) == IsWholeArchive(WithoutShapes(originals(b)))

LatestReport == reports[Len(reports)]
GoldenReported == reports # <<>> /\ step # "read" /\ LatestReport.path \in DOMAIN Goldens

\* Every golden of the conformance corpus is either read exactly as expected.json
\* says, or refused at the line where expected_negatives.json says a rule is
\* broken.  Of the rules of shape it breaks the one it names and no other, and a
\* reader that did not check shapes would accept it, so that it tells whether a
\* reader does; save those whose broken field is also what binds the record, which
\* are refused for that.  (gen_conformance.rs: the goldens; lib.rs:
\* check_originals, check_derivative; evidence.rs: the validate functions.)
GoldensAsExpected ==
  GoldenReported =>
    /\ Flaws(LatestReport.path) = FlawsNamed(LatestReport.path)
    /\ LatestReport.path \in DOMAIN RefusedFor =>
         (BreaksOnlyItsShape(LatestReport.path) <=> LatestReport.path \notin AlsoUnbound)
    /\ IF LatestReport.path \in DOMAIN Expected
       THEN ReadAsExpected(LatestReport, [i \in DOMAIN delivered |-> delivered[i].kind])
       ELSE RefusedForItsReason(LatestReport)
===============================================================================
