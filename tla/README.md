# OpenAntares in TLA+

OpenAntares is the reference implementation of the `.ant` interchange format:
a zstd-framed stream of JSON lines with a manifest first, data records in
between, and a trailer that counts the records and digests every line before
it. A 1.x stream also carries stored originals (the bytes of the files a record
was cut from) in chunks between the records. The records themselves include
revisions that cite other records: relationship proposals with the measurement
behind them, contradiction cases, ontology revisions that one vault adopts from
another.

This directory models what the repository does with all of these: what the
writer writes and the reader accepts, what a failed or damaged export can pass
for, how memory is bounded while a line is read, what a value keeps over the
wire, which revisions `validate` admits and what an importer may then rely on,
what the command line reports, and whether the conformance corpus says the same.

## The system

| part | source | state | operations |
|---|---|---|---|
| `AntReader` | `antares-format/src/lib.rs` 985–1683 | line number, hasher, counts, `verified`, the original being read (`original`), the one just completed (`completed`), the primary whose derivatives are read (`derivatives_of`) | `new`, `new_with_manifest_budget`, `next_record` (with `check_originals`, `check_derivative`) |
| `AntWriter` | `lib.rs` 779–983 | buffered zstd encoder, hasher, counts | `new`, `new_with_selection`, `write`, `counts`, `finish`, drop |
| line reader | `lib.rs` 1164–1249 | the line so far, its capacity, the input not consumed | `read_line_capped`, `Lines::next_line` |
| manifest budget | `lib.rs` 1085–1162 | `JsonScan`: in a string, escaped, two counters | `feed`, `bound`, `decoded_json_bytes_bound` |
| container records | `lib.rs` 216–777, `ant-types/src/evidence.rs` | none | `FormatVersion`, `OriginalChunk::new`/`decode`, `binds`, the `validate` of `SourceBlob`, `SourceReference`, `Derivation` |
| values | `ant-types/src/decimal.rs`, `property.rs`, `event_time.rs` | none | parse, print, rescale, compare; wire envelopes; coercion of query literals |
| opaque fields | `ant-types/src/exact_json.rs` | the text being blanked, what was taken out of it | `locate`, `splice_null`, `take_at`, `from_slice_exact` |
| observations | `ant-types/src/observation.rs` | an envelope inside the caller's metadata | set, read and take of a conditional revision |
| proposals, cases | `ant-types/src/proposal.rs`, `contradiction.rs` | immutable revisions | `validate`, `references`, `NormalizationOp::apply` and `to_sql` |
| ontology revisions | `ant-types/src/ontology.rs` | immutable revisions | `validate_shape` of manifest, consent, attestation and revision |
| command line | `openantares/src/main.rs` | an exit code, a report per file | `validate`, `info` |
| conformance corpus | `antares-format/examples/gen_conformance.rs` | none | the golden archives, `expected.json`, `expected_negatives.json` |
| plain data | `ant-types/src/` graph, schema, ids, author, error | none | derived serialization |

The writer and the reader never meet: an export is a file, carried by whatever
carries files. The command line is one thread over one reader after another. The
engine that records proposals, runs the measurement in a database, keeps the
chains of ontology revisions and checks an import is not in
the repository; its side of the conversation is known from the documentation of
the types and from the tests (the import-closure test of
`antares-format/tests/conformance.rs` above all). It is modelled from these and
marked external in `PROJECT.json`.

Nothing here is scheduled and the library persists nothing itself. What is hard
is sequences, and agreements between places that do not see each other:

* the reader is a state machine over three `Option`s that many error paths
  leave through, some after they changed something (`get_or_insert`, `take`),
  and nothing prevents a caller from calling it again after an error;
* records are hashed and counted before they are checked, lines of unknown
  kinds are hashed but neither counted nor returned, and the trailer must still
  be accepted exactly for the streams it is true of;
* a write may fail half-way through a line, and the writer goes on;
* the source delivers a line in any number of pieces, and the buffer that
  collects it must stay within a bound it approaches by doubling;
* a bound on decoded memory is computed from undecoded bytes, where one escape
  taken the wrong way miscounts everything that follows;
* a document is read by two parsers, and what one skips the other never sees;
* `validate` sees one revision and no store: what a set of valid revisions adds
  up to depends on the references they list, on the order they are written in,
  and on heads and policies that move between a review and its publishing;
* a join is measured by SQL and resolved by Rust, which agree on plain keys only;
* numbers and labels are those of whoever wrote them: `validate` sees that they agree with
  each other, not what they were counted from.

`PROJECT.json` lists these as hazards, each at its line, with the properties
that would catch it going wrong.

What makes each part correct: the reader hands out only well-grouped sequences,
refuses only what no well-grouped sequence goes on with, says `verified` only of
streams whose trailer is true of every line it could read, and comes to an end; the
writer and the reader together lose nothing without noticing and refuse nothing without reason; the
line reader returns the same lines however its input is cut and never asks for
more memory than it may; a value comes back from the wire as it went out and is
ordered as the number it is; an archive of accepted revisions is closed, its
chains of revisions end, and what may be acted upon is backed by a reviewer, or by
rows that bear its numbers out if they were measured; a vault adopts only what was
reviewed at its head, approved under the policy it attests, and released by its
owner; the command line judges each file alone and exits with
the most severe judgement.

## The modules

### Archives

* **AntRecords** – the lines of a stream. Of a record only the fields that the
  container rules look at are kept. A digest is a collision-free function of
  what is digested (the content itself), ids with an order are naturals, and
  the syntax `validate` checks is one flag, `wellFormed`. `decodes` is the
  outcome of `OriginalChunk::decode`.
* **AntReader** – `AntReader`, a variable per field. `Open`, `RefuseHeader` and
  `RefuseEmptyStream` are `new`; each other action is one iteration of
  `next_record`'s loop on one kind of line with one outcome: `AcceptChunk`,
  `CompleteOriginal`, `RefuseChunkLength` and so on are the exits of
  `check_originals`, `AcceptTrailer` and `RefuseTrailer` those of the trailer,
  `SkipUnknown` the `continue` of an unknown kind, `FailRead` a failed read and
  a line over the bound of a 1.x file. `stream` and `delivered` are histories.
  `PersistentCaller` says whether the caller goes on after an error or the end.
  Lines are chosen among the constant `Lines`. A trailer may say anything: its
  digest is that of all lines before it, of those the reader hashed, or neither, and
  its counts likewise, so that one the reader accepts arrives in every state.
* **OriginalGroups** – what a well-grouped sequence of records is, said of the
  sequence alone: each chunk, source reference and derivative belongs to the
  group of the last record before it that is none of these, the chunks of a
  group come first and are exactly its original, then the references in id
  order, then the derivatives in slot order. Nothing in it looks like the
  reader's bookkeeping.
* **ReaderContract** – the abstract specification: a reader hands out a record
  only if the sequence stays well-grouped, refuses one for its place only if it
  would not, and reports the end only when no original is short of bytes.
* **AntReaderProps** – the properties, and the refinement mapping to the
  contract. **MCAntReader** gives the streams for TLC.
* **AntWriter** – the writer. Its output and what its hasher was fed are whole
  lines and, after a failed write, the beginning of one; the next line written
  is then glued to it and no record any more. `FailWrite` counts the record, as
  the code does; `Finish` writes the trailer past the hasher; `FailFinish` and
  `DropWriter` leave an archive without an end.
* **AntPipeline** – writer, transport and reader together: what reaches the
  destination (`Arrivals`: everything, if the writer finished; a beginning, if
  not), what happens to it on the way (`Damage`: a line lost, repeated,
  swapped, altered, or the rest cut off), and the reader's own actions on what
  comes. The transport is not in the repository. **MCAntPipeline** gives the
  records.
* **CappedLine** – `read_line_capped` and `next_line`, a step per piece that
  `fill_buf` returns, with the capacity asked for, saturating arithmetic on a
  `usize` of any width, interrupted and failed reads, and calls that follow each
  other on the same piece. **MCCappedLine** gives the inputs.
* **CommandLine** – `main`, `validate_cmd`, `info_cmd` and `read_all` on top of
  AntReader's own actions, a step per call: a file is opened, a reader is made,
  an iteration of `next_record` is done, the file is reported. **CommandLineProps**
  has its properties, with what a file deserves: `IsWholeArchive` says of the
  lines alone, by the rules of OriginalGroups, that up to a trailer they are an
  archive that this trailer is true of (what comes after it is not looked at).
  **MCCommandLine** has the files.
* **OriginalShapes** – the `validate` functions of `SourceBlob`,
  `SourceReference` and `Derivation`: lengths, character classes, depth.
* **Corpus**, **CorpusExpected** – the golden archives of `gen_conformance.rs` as
  the lines they consist of, built with the operators the generator has, and
  what `expected.json` and `expected_negatives.json` say of each. The original
  of 150 bytes in chunks of 64 is one of five bytes in chunks of two.

### Bounds on memory

* **JsonScan** – `feed` and `bound`, and beside them a producer that writes any
  JSON document into the same bytes and knows how many values and bytes of text
  it has written.
* **ChunkCoding** – the length of a chunk in base64, and the guard of
  `OriginalChunk::decode`. The state is a chunk that grows.

### Values

* **Decimal** – `parse`, `rescale`, `Display`, and `cmp_value` with its
  digit-by-digit fallback, in an integer of any width. The state is two literals
  and the decimals they are by now: each was parsed, and may be printed and read
  back or rescaled, in any order.
* **PropertyValue** – both JSON forms, `cmp_value`, `eq_value`, `coerce_like`.
  A text is what it reads as and whether it is the spelling the code writes; a
  double is a member of a set of numbers that gets sparser as they grow. Arrays
  nest up to `ArrayDepth`, and documents as deep as such an array when it is
  written. The state is a column of values, as their producer holds them or as
  they were last read; its step writes each of them out and reads it back
  (`serialize` and `deserialize`).
* **EventTime** – known and unknown times, their order and both wire forms. The
  state is three times, each written out and read back at any moment.
* **ConditionalRevision** – the envelope in an observation's metadata, which is
  the caller's own and may look like an envelope already. `Set` and
  `TakeRevision` are the two methods that change it, in any order; a record that
  was stored may come with an envelope made before.
* **ExactJson** – `from_slice_exact` as the loop it is: each path is located,
  blanked and read apart; then the shared parser reads what is left and the
  values are put back one by one. A document is a tree with duplicate and escaped
  keys, given as a function from the position of a node (the numbers of the children
  on the way to it) to the node; a scalar is what the two parsers make of it. What
  the cursor does by calling itself (`skip`, `locate`, `value`) is said of the nodes
  it comes to: those under a position, those along a path, those beside it. What a
  parser reads is a function from the steps that lead to a value to what is there.
* **WireValues** – one subject at a time from the modules above, with the calls
  a caller may make on it in any order. Every module brings its own steps and
  properties. **MCWireValues** gives the widths and the values.

### Revisions

* **Measurement** – sampling, support, the `check` of a support, and
  `NormalizationOp` in SQL and in Rust. A key is a word, what is around it (a space,
  a tab, decimals that are zero) and its letters, as far as the two sides treat
  them differently: `btrim` strips spaces only, `lower` depends on the locale of the
  database (`Locales`) and does not know the sigma that ends a word, numerics are
  equal whatever their scale. A measurement covers the rows its sample draws
  (`CoveredRows`): all, the first, or those that a seed selects (`Drawn`).
* **KnowledgeRecords** – proposals and cases, `validate` and `references`.
* **KnowledgeArchive** – the records from the loop that records them to the
  importer that acts on them: measuring and proposing, promoting, raising cases;
  the archive that arrives, with a record left out, or moved, or as it was
  recorded; the importer's checks, which are those of the import-closure test.
  Anything valid may be recorded: numbers that nobody measured (`Numbers`), a
  promotion whose receipt nobody wrote, revisions that name each other, since
  `validate` looks at one revision. How an archive is written is not in the
  repository and not modelled. The properties are at the end of the module.
* **KnowledgeGoldens** – the two archives of the corpus with such records.
  **MCKnowledge** has the joins, the numbers and the cases.
* **OntologyRecords** – `validate_shape` of everything an elected revision
  consists of. A digest is a name of its content.
* **OntologyElection** – how a revision comes about: a draft against two heads,
  a review, the owner's answer, a manifest put together from whatever answers
  the executor holds, the engine's append. Heads and policy move in between. The
  approval in hand may be one of another subject: the executor writes the subject's
  digest into the attestation, as the generator of the corpus does from the
  manifest, and nothing in the approval's bytes is compared with it.
* **OntologyGolden** – the election in the corpus. **MCOntology**.

The modules whose names end in `Proofs` hold the proofs.

## What the runs check

**reader_grammar** (`MCAntReader`, `AntReader_grammar.cfg`). All streams of up
to seven lines over some sixty lines: originals of zero and three bytes, chunks
of one to three bytes at every index and offset that can be confused, references
and derivatives that bind and do not, and a line of every other sort, under eight
first lines. `ImplementsContract` is the refinement: the reader hands out and
refuses exactly what OriginalGroups says. `NothingUnaccounted`: until something
goes wrong the hasher saw every line and the counts are those of the records
handed out. `ReadingEnds`: every stream is read to an end. Seven lines hold a
header, a primary, three chunks, a reference and a derivative, the longest group
in which each rule has a neighbour to be confused with; an order (of references,
of slots) needs two members and a repetition.

**reader_persistent** (`AntReader_persistent.cfg`). The same reader under a
caller that calls again whatever it was told, on a dozen lines, six deep.
`AtMostOneOpen` and `PendingBookkeeping` are about the states it can be left in;
`VerifiedOnlyByTrueTrailer` says that even such a caller is not told `verified`
of a stream with a trailer that is wrong about any line that could be read,
refused and skipped ones included. A line that could not be read, or was too long,
is not hashed, and a trailer that leaves it out is accepted: the streams of the run
hold both, and the property promises nothing of such a line.

**pipeline** (`MCAntPipeline`, `AntPipeline.cfg`). Up to three writes, any of
which may fail, under a 1.0, a 0.7 and a 2.0 manifest, one damage on the way.
`RoundTrip`: an importer that reaches a verified end was handed every record of
a known kind that was passed to `write`. `NoFalseAlarm`: an undamaged archive is
verified exactly if its records are well-grouped, complete, in a form that decodes
and within the line bound. The writer checks none of these, so the exporter's own mistakes surface
only at the importer. One damage is the adversary that matters: two can undo
each other (swap back), and the transport does not forge trailers.

**capped_line** (`MCCappedLine`, `CappedLine.cfg`). Every input of up to seven
bytes over line feed, carriage return and one other, in pieces of every length,
against a bound of three bytes and a `usize` that ends at five, so that the
doubling saturates. `MemoryBounded`, `ReturnsFirstLine`, `EveryCallReturns`.

**command_line** (`MCCommandLine`, `Command_line.cfg`). Each golden and each
negative of the corpus alone, each before and after one file of every outcome
(good, newer minor, refused at the manifest, refused later, truncated, missing),
all triples of these, and the calls that are not understood; 25,452 states.
`ExitIsMostSevere` is about the sequence of files: each is reported by what its
lines deserve (`CodeOf`), as if it were alone. `GoldensAsExpected` is about
the corpus: a golden is read with the kinds and counts of its entry, a negative
is refused at the line that breaks its rule. A structural negative breaks one rule of
shape, the one it is named for, and a reader that checked no shapes would accept it,
save eight (`AlsoUnbound`) whose edit also parts the record from its original or
text: the property says which, in either direction.

**wire_values** (`MCWireValues`, `Wire_values.cfg`). Integers of eight bits for
i128 with decimals of two places for 38, so that every overflow of `parse` and
`rescale` happens; doubles one apart up to four units, then two, then four,
so that neighbouring longs share one as they do above 2^53; columns of three
values, arrays in arrays, documents that look like envelopes and texts with finer
digits than a time keeps among them; lines of up to nine bytes for the
scan; documents of two members and three levels under paths of keys and
indices; metadata of six shapes, look-alikes of an envelope included; chunks
around a maximum that leaves the remainder of 8 MiB when divided by three.
99,329 states. `StoredValueStable` excepts the
times whose digits below the microsecond `payload` drops, `ExactOrderTotal` the
values with doubles in them, which **wire_order** is about.

**knowledge** (`MCKnowledge`, `Knowledge.cfg`). Sixteen joins of two-row columns,
over keys that differ in their letters and in what is around them, in databases of
three locales, measured whole and by each of the three ways of sampling; besides
what was measured, numbers by which every row matched, and a full scan that names a
seed; two proposal revisions, thirteen case revisions that cite a record in each of
the places a case has, up to three of these recorded in any order, and an archive
with any one record left out or moved; 532,856 states. Two rows a side tell a key
that matches none, one or two rows from each other, and a row that a sample covers
from one it does not; three records make a case, what it cites and what supersedes
it, or a cycle of two predecessors and what leads into it. `ClosedOnImport` finds
what `references` leaves out. `ActionableIsBacked` relates the label to the rows: if
the numbers are those that measuring the sample again gives (`Reproduces`), the
rows it covered bear them out; `validate` admits others as `supported`, and of these,
as of rows that no sample covered, nothing is promised. `EdgesAsMeasured` is about
relationships measured whole: where neither side lower-cases or compares numerics
and both are normalized alike no measured row is lost, and with plain keys the edges
are those that were measured. In general they are not: the joins of the run include
a row that is lost, or gained, by each of the differences.

**ontology** (`MCOntology`, `Ontology.cfg`). Two vaults, two drafted subjects,
five plans of which three break a rule, two versions of the policy, any
combination of answers and approvals in a manifest; 69,256 states. Two subjects
are enough for one to be approved at a head that the other has replaced when it
is published, and for consents and approvals to be crossed between them.
`ApprovedAsAttested` says no more of the approval than the code sees to: it was
given, and under the policy attested.

Four runs show where the documentation and the code part. They are in
`PROJECT.json` under "findings": a trailer need not be the last line
(**reader_trailer_last**), chunks need not follow at once (**reader_chunks_at_once**), a line may be a byte over the maximum
(**capped_line_max**), and the "total ordering" of property values is not
transitive with a double among longs above 2^53 (**wire_order**).

Deadlock is checked in every run but three: a caller that has stopped stutters
(`Done`, `Finished`, `Exited`). `ontology` stops when the bound on subjects and
policies is reached and every chain is at its end, `wire_values` and
`wire_order` when there is nothing left to do with a value.

### Fairness

AntReader's `FairSpec` asks that a caller who can open the reader does and one
who can call `next_record` does, and that each iteration of the loop takes
place: all of it is one thread running a loop that does not wait for anyone.
Nothing is assumed about which lines come. `CappedLine`'s specification asks
that `fill_buf` returns a piece, an end, or an error after finitely many
interruptions, without which `EINTR` for ever would keep the loop running, as it
would in the code. The other specifications state no fairness, since nothing in them
is said to happen.

### Bounds

`MaxLines` bounds a stream, `MaxWrites` an export, `MaxDamage` the damages,
`MaxRecorded` a store, `MaxSubjects` and `MaxPolicies` an election, `MaxBytes`
a line of JSON; each is a guard in the module that declares it. `MaxNesting`,
`MaxItems` and the like are the limits of the code. The line bound, the chunk
limit and the manifest budget are data for the reader: a line is over the bound
or not (`oversized`), and a header has a length and a decoded size.

## What is proved

TLAPS proves, for all values of the constants (any ids, lines, records, columns,
plans, widths and bounds), everything listed under "theorems" in `PROJECT.json`.

* **AntReaderProofs**: `TypeCorrect`, `AtMostOneOpenAlways`, `BookkeepingAlways`,
  for either caller. `PendingBookkeeping` alone is not inductive: a refused
  first chunk leaves its length behind, and the next chunk is held to it. The
  invariant adds that a chunk length is remembered with every accepted chunk and
  that an incomplete original has room for another byte.
* **AntReaderProofs**, too: `NothingUnaccountedAlways`, `VerifiedIsTrue`. The
  invariant relates `hashed` and `counts` to the history: `counts` is the tally
  of the hashed lines always, the delivered records are the data records among
  the hashed lines until the first error, and the hashed lines are, also after it,
  those that could be read (`LinesRead`), each in its place. That the tally of a sequence grows
  by one at the end is a lemma about finite sets of indices.
* **AntReaderProofs** also has `ReaderImplementsContract`, the refinement, for a
  caller that stops at the first error. The contract judges a record by the
  whole sequence before it, the reader by its three slots. The invariant says
  what each slot means about the records handed out: `PendingAt`, that the last
  group is a primary and `nextIndex` chunks of one length, whose bytes in their
  places are `received`; `CompletedAt`, that the chunks are all there and `last`
  is the greatest reference id; `ContinuedAt`, that the last record is a
  derivative in the slot `last`; no slot, that no group is open. From it
  `AcceptsIsInPlace`: the slots decide about a record exactly as the sequence
  does. After a refusal the slots may say less than the invariant asks, which is
  why the theorem is about a caller that stops. That the contract's formula for
  the bytes of an original, by quotient and remainder, is the concatenation the
  hasher was fed is the lemma `BytesInPlace`.
* **CappedLineProofs**: `TypeCorrect`, `MemoryAlwaysBounded`,
  `AlwaysReturnsFirstLine`, for every input, every way it is cut, every bound
  and every width of `usize`. The invariant: `buf` and `rest` together are what
  was there when the call began, and a line still being read holds no line feed.
* **PipelineProofs**: `WriterTypeCorrect`, and `RoundTripAlways` for an importer
  that stops at the first error and any number of writes, failures and damages.
  The argument has three parts. The writer's counts are never less than the
  tally of what it hashed, and equal to it only if no write was lost. A trailer
  on the way is the one the writer wrote when it stopped, so it says those
  counts and that digest. The reader has hashed all it read and handed out all
  of a known kind that it hashed. A trailer that is right therefore leaves the
  reader with exactly the writer's lines. `RoundTrip` says of each submitted
  record at which place it was delivered (`AreKnown`), since the prover knows
  nothing of `SelectSeq`.
* **PipelineProofs**: `NoFalseAlarmAlways`, the converse. Its invariant has three
  parts. `WholeInv`: the writer's lines are its manifest and what was submitted,
  counted as they are, or a write failed and a line is missing for good. `SoFar`:
  what the reader has read, followed by what is still to come, are the writer's
  lines, and what it handed out are the first records of known kinds, well
  grouped. And about a reader that stopped: it ended exactly if all is well with
  the records. A refusal of one record for its place makes the whole sequence
  ill-grouped because a record's place depends only on the records up to it
  (`SamePlace`); an undamaged trailer finds the digest and the counts it asks for.
* **CommandLineProofs**: `ExitAlways`, for any files, whatever lines they hold, and
  any arguments. The program judges a file line by line and `IsWholeArchive` as a
  whole, so the invariant says (`Judgement`) what the reader knows of the file it
  is in: while it reads, `Reading(F, k)`, that the lines hashed are the first `k`
  of the file and none of them spoils it, that the lines to come are the others,
  and that what was handed out are the known records among the `k`, well grouped
  and counted as they are; once it stopped, that it ended with `Ok(None)` exactly
  if the file is whole. A trailer is true exactly if the archive ends there
  (`TrailerTells`), since a trailer before line `k` would have ended the reading;
  a record out of its place spoils the file whatever comes after it
  (`MisplacedSpoils`). Between files it says that the first `n` are reported as
  they deserve and the code so far is the greatest of theirs (`Reported`), which
  the reader of the next file cannot change: it starts as new (`FreshReader`). The
  program stops a file at its first error, so this is about such a caller, too.
* Shared by the last two and in **AntReaderProofs**: that the known records of
  a sequence, found by counting them, are a sequence without gaps (`PlacesCounted`,
  by the pigeonhole principle); that a reader which handed out the first of them
  handed out more with each one (`FirstOne`, `FirstNoMore`); and that a sequence
  with a record out of its place is ill-grouped however it goes on (`IllGrouped`),
  and one without stays well-grouped (`StaysGrouped`).
* **KnowledgeProofs**: `TypeCorrect`, `ClosedAlways`, `BackedAlways` and
  `EdgesAlways`. The inductive invariant says what records store and archive hold:
  each is given, or a case of the comparator, or drafted about the join with numbers
  there may be. `TypeCorrect` rests on the same invariant: a record is cited by what
  is stored under its id. `BackedAlways` goes from the counts of a support to the
  rows its sample covered: as many distinct keys as rows are an injection, so no
  matched row has two targets. `EdgesAlways` compares the two normalizations key by
  key: equal for the database is equal for the export, where neither lower-cases nor
  compares numerics, and on plain keys both are the same function.
* **OntologyProofs**: `TypeCorrect`; `OneContentAlways`, `OneTypeAlways`, from the invariant
  that chains are sequences of revisions `validate_shape` admits; and
  `ReviewedHeadAlways`, `ReversalAlways`, `DisclosureAlways`, `ApprovalAlways`,
  for which the invariant ties a revision to
  answers and approvals that were given: answers are about subjects by their
  position, subjects never change, so the manifest that binds an answer's digest
  carries the subject the answer was about.
* **WireProofs**: `BoundAlwaysHolds` (JsonScan); `GuardIsSound` and
  `GuardAlwaysAdmits` (ChunkCoding); `WindowsAreContiguous`, `TimesSurviveTheWire`
  and, from these, `WindowAlwaysContiguous` (EventTime); `RestoredAlways`
  (ConditionalRevision), for metadata of any shape. The invariant of the scan: its
  `in_string` and `escaped` are the producer's, and the values written are at most
  the separators seen, and one more exactly where the grammar lets no value begin.
  That of conditional revisions (`RestoredInv`): the producer's own metadata is held
  as it is or inside the envelope of the condition set last, never deeper, whether
  that envelope was made here or came with a stored record.
* **DecimalProofs**: `DecimalsAlwaysExact`, `PrintsAndReads`, `ShortLiteralsParse`,
  for integers of any width and any precision. The invariant of `DecimalSpec` is that each
  decimal fits and is the number its literal was, counted in the smallest unit
  (`UnitsOfDecimal`); the rest are lemmas about digit strings. What the code
  computes by repetition (powers of ten, the number that digits are, the digits of
  a number) is a recursive function, and a fact about all of it is proved from the
  least natural number for which it fails (`LeastNatural`, `Induction`). On these
  rest: that a number's digits read back as it, that joining strings of digits
  shifts the first (`NumberJoins`), that the order of digit strings of one length
  is that of the numbers (`LexIsCompare`) and a longer one without zeros before it
  is larger, so that both paths of `cmp_value` compare the same numbers
  (`DecimalsCompare`).
* **WireProofs**, on property values: `StoredValuesAlwaysStable`,
  `ExactOrderAlwaysTotal`, `LiteralsAlwaysFind`, with `KeptValuesComeBack` and
  `ExactValuesOrdered` about single values, for arrays of any depth. `to_json`,
  `from_json`, `to_compat_json` and `cmp_value` call themselves on the items of an
  array; each is a recursive function on `Values` or `Docs`, which are built level
  by level. What each does at one level depends only on the level below, so it
  exists and is what its definition says (`RecursionByLevels`). Facts about all
  values follow by their levels (`ValueInduction`, `DocInduction`). The invariant
  of the column (`ColumnInv`): once the values have been read, no leaf of any of
  them is a NaN, and every document among the leaves reads as itself, which is
  what the closed shape of an envelope is for: a document that read as a value of
  another type would not be there. The order: at one rank two values compare as
  their keys do, sequences of integers (`Key`), two arrays as the sequences of
  their items, and the lexicographic order over an order is an order
  (`LexTransitive`, by the first place where any two of three sequences differ).

* **WireProofs**, on opaque fields: `ExactAlwaysAtThePaths` and
  `AlwaysAcceptsAsShared`, for any document, however deep, and any number of paths
  none of which leads into another (`ExactJsonAssumption`; the code takes out one
  path, `data.derivation.segment.coverage` or `data.source`). The invariant
  (`DocumentInv`), in
  which the loop is cut at any path: the copy is the document with all that the paths
  taken so far lead to blanked, and nothing else of it is gone or new; where an
  occurrence is kept, what was read there is what an exact parser reads of the
  document, and no other path leads into it; nothing malformed or too deep was
  under what is blanked; what was refused is a fault of the document; and the record
  has the exact values of those paths that were put back, the shared parser's
  elsewhere, null where a path leads that was not put back yet. That two occurrences of a path are never both effective, that the
  effective one is the one whose members all win, and that blanking one path leaves
  what is along another as it was, are the lemmas it rests on.
* **WireProofs**, on all of these: each theorem above is one of its module's own
  specification (`ScanSpec`, `ChunkSpec`, `TimeSpec`, `ObservationSpec`,
  `DecimalSpec`, `ColumnSpec`, `DocumentSpec`). `SubjectsAsSpecified` shows that
  WireValues implements every one of them, and `WireAlwaysSound` that its
  behaviours, which are those the run checks, have all ten properties of the run.

The proofs use the constants' assumptions (named `...Assumption` in the module
that declares the constants), which TLC evaluates in the runs. Where a proof
needed one that is not about a type, it is that `None`, Rust's `Option::None`, is
no string, no record and no value, that the least integer of a width does not end in a zero, that an I/O error is among what a damaged line can
become, and that a file is a sequence of lines.

Only model-checked:

* what says that something happens (`ReadingEnds`, `EveryCallReturns`), liveness
  being out of the prover's reach;
* what is about the given files of the corpus (`GoldensAsExpected`,
  `GoldensAccepted`).

A general principle of induction, which takes the fact as a parameter, cannot be
used: facts by induction on numbers and levels are each proved from a lemma of
their own, as above.

## Where documentation and code part without a run

Met while modelling. The first three are in the models, whose properties are stated
around them; the others are too small or too far from the models' data:

* A reader that goes on after a line that could not be read, is not UTF-8 or is over
  the bound has not hashed it, and accepts a trailer over the other lines, though the
  comment at the comparison says "Trailer hash covers everything BEFORE the trailer
  line" (`lib.rs:1590`). `VerifiedOnlyByTrueTrailer` is about the lines that could be
  read.
* `to_sql` and `apply` differ: `str::trim` strips tabs and `btrim` spaces only,
  `str::to_lowercase` follows Unicode in any locale and knows the sigma that ends a
  word, numerics equal in SQL read back as different texts. The documentation has
  "exact PostgreSQL semantics, so the export can reproduce the comparison the
  measurement made" (`proposal.rs:374`). `EdgesAsMeasured` says what holds.
* Eight structural negatives of the corpus break a second rule, for a malformed asset
  id, digest or evidence id is also not the one it must agree with, though the
  generator says "each breaking only it" (`gen_conformance.rs:1328`) and "the ONLY
  reason to reject it" (1369). `GoldensAsExpected` names them (`AlsoUnbound`).
* `Decimal::from_parts` admits an unscaled value of `i128::MIN`, whose text
  `parse` refuses, though `Display` says it round-trips for every representable
  value (`decimal.rs:247`).
* `Decimal::parse` takes 39 digits where they fit an i128; its documentation
  says that more than 38 are refused (`decimal.rs:81`).
* `OriginalChunk::decode` looks at whole groups of base64 with three bytes of slack,
  and nothing looks at the decoded length: at 8 MiB, which leaves 2 when divided by
  three, a chunk one byte over the maximum is decoded, though `lib.rs:653` says
  that anything larger is refused. `OversizeRefused` is stated with the slack.
* `set_conditional_revision` on metadata that already is an envelope with the same
  condition changes nothing, and a later take then unwraps what the caller had
  supplied wrapped.
* A time payload keeps six fractional digits of a second.
* `EventTime`'s `cmp` ignores the basis, its `==` does not.
* A case's `proposal_id` is not among its `references()`, whose documentation says
  every id it references must resolve; `ClosedOnImport` leaves it out.
* The digits of a long that are valid base64 are coerced to bytes by
  `coerce_like`; left out of the model.
* `gen_conformance.rs:303` says of the major-version golden that it declares v1.0,
  and the code writes 2.0.

## What is not modelled, and the plan

Done, in the order planned: the reader and its contract, the writer and the
pipeline, the line reader, the command line, the two bounds on memory, decimals
and property values, conditional revisions, proposals and cases, ontology
revisions, event times and opaque fields, the corpus, and theorems for these.

Next would be:

1. `independent_witnesses` of a case, a count that no other code here reads.
2. `blank_at` and `array_items`, the two entry points of `exact_json.rs` that are
   not on the path of `from_slice_exact`.

Left out for good: zstd, base64's alphabet, SHA-256 and JSON themselves
(libraries); digests of proposals, manifests and beliefs, which the engine
computes and checks (names of contents here); f64 ratios of counts beyond 2^53;
the payloads of plain records and the wording of errors; `graph.rs`,
`schema.rs`, `ids.rs`, `author.rs` and `error.rs`, which are data with derived
serialization; `gen_schema.rs`, a build-time generator of JSON schemas without
state or logic of the format.
