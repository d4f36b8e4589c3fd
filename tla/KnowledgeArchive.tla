--------------------------- MODULE KnowledgeArchive ---------------------------
(***************************************************************************)
(* Proposals and cases from the loop that records them to the importer     *)
(* that acts on them.  The loop measures a join and records what it        *)
(* proposes, a reviewer writes a receipt and promotes, a comparator        *)
(* records cases; an archive of the records arrives, whole or with one     *)
(* left out or moved; the importer validates each revision, and checks the *)
(* closure and that a predecessor precedes its successor.                  *)
(*                                                                         *)
(* `validate` looks at one revision and no store, so anything valid is     *)
(* recorded: numbers nobody measured, a promotion whose receipt nobody     *)
(* wrote, a revision of one that does not exist, two that name each other. *)
(***************************************************************************)
EXTENDS KnowledgeRecords, SequencesExt

CONSTANTS
  Given,           \* the evidence, observations and beliefs there are
  Joins,           \* the joins the loop may try: two columns, the locale of
                   \* their database, how they are normalized, the sample
                   \* taken, and the threshold declared
  Numbers,         \* numbers that a proposal may carry without any measurement
  RevisionIds,     \* ids of proposal revisions
  ReceiptIds,      \* ids of a reviewer's receipts
  Findings,        \* the evidence a draft cites
  Probes,          \* the records of its probes, None where there is none
  Cases,           \* the case revisions the comparator comes up with
  Goldens,         \* whole archives of the conformance suite
  MaxRecorded      \* bound: records added to those given

\* What neither a proposal nor a case is.
SourceRecord ==
  [plane : {"evidence", "observation"}, id : STRING]
    \union [plane : {"belief"}, id : STRING, version : Nat]

ASSUME KnowledgeAssumption ==
  /\ \A j \in Joins :
       /\ j.source \in Seq(Key \union {None}) /\ j.target \in Seq(Key \union {None})
       /\ j.locale \in Locales
       /\ j.normalization \in Normalization
       /\ j.sampling \in Sampling /\ SamplingCoherent(j.sampling)
       /\ j.minSupport \in 1 .. 100
  /\ Numbers \subseteq RelationSupport
  /\ DOMAIN Drawn \subseteq Sampling
  /\ Given \in Seq(SourceRecord)
  /\ \A i, j \in DOMAIN Given :   \* ids are assigned once, a belief's per version
       Given[i].plane = Given[j].plane /\ Given[i].id = Given[j].id => i = j
  /\ Cases \subseteq ContradictionCase
  /\ RevisionIds \subseteq STRING
  /\ ReceiptIds \subseteq STRING
  /\ Findings \subseteq STRING /\ Probes \subseteq STRING \union {None}
  /\ MaxRecorded \in Nat
  /\ None \notin STRING
  /\ None \notin NormalizationOps \union [receipt : ReceiptIds, named : BOOLEAN]

VARIABLES
  join,     \* the join the loop tries
  store,    \* the records there are, in the order they were recorded
  archive,  \* the records in the archive
  phase     \* recording, arrived or golden

vars == <<join, store, archive, phase>>

Init ==
  /\ join \in Joins
  /\ store = Given
  /\ archive = <<>>
  /\ phase = "recording"

Recorded(cite) == \E i \in DOMAIN store : Answers(store[i], cite)

-------------------------------------------------------------------------------
\* Recording

\* Only what `validate` accepts is recorded, under an id of its own.
Record(r) ==
  /\ phase = "recording"
  /\ Len(store) < Len(Given) + MaxRecorded
  /\ Valid(r)
  /\ ~Recorded(Cite(r.plane, r.id))
  /\ store' = Append(store, r)
  /\ UNCHANGED <<join, archive, phase>>

\* What the loop, a model or a reviewer may put down about the join: what the
\* loop measured, or numbers of another origin.
Supports ==
  {Measured(join, join.normalization, join.sampling, join.minSupport)} \union Numbers

Drafts ==
  {[plane |-> "proposal", id |-> id, proposalId |-> "join", previous |-> previous,
    named |-> TRUE, keyColumns |-> <<1, 1>>, normalization |-> join.normalization,
    support |-> support, status |-> standing[1], reason |-> TRUE,
    receipt |-> standing[2], findings |-> Findings, probes |-> Probes] :
      id \in RevisionIds, support \in Supports,
      previous \in RevisionIds \union {None},
      standing \in ({"quarantined_hypothesis", "supported"} \X {None})
                     \union ({"promoted_by_reviewer"} \X [receipt : ReceiptIds, named : BOOLEAN])}

Propose ==
  /\ \A i \in DOMAIN store : store[i].plane # "case"
  /\ \E draft \in Drafts : Record(draft)

WriteReceipt == \E id \in ReceiptIds : Record(Evidence(id))

\* Bound: a store holds proposals or cases.  Neither cites the other.
RaiseCase ==
  /\ \A i \in DOMAIN store : store[i].plane # "proposal"
  /\ \E c \in Cases : Record(c)

-------------------------------------------------------------------------------
\* An archive of what was recorded, and those of the conformance suite

Left(i) == SubSeq(store, 1, i - 1) \o SubSeq(store, i + 1, Len(store))
Moved(i, j) == [store EXCEPT ![i] = store[j], ![j] = store[i]]

Arrive ==
  /\ phase = "recording"
  /\ archive' \in {store} \union {Left(i) : i \in DOMAIN store}
                   \union {Moved(i, j) : i, j \in DOMAIN store}
  /\ phase' = "arrived"
  /\ UNCHANGED <<join, store>>

OpenGolden ==
  /\ phase = "recording"
  /\ archive' \in Goldens
  /\ phase' = "golden"
  /\ UNCHANGED <<join, store>>

Done ==
  /\ phase \in {"arrived", "golden"}
  /\ UNCHANGED vars

Next == Propose \/ WriteReceipt \/ RaiseCase \/ Arrive \/ OpenGolden \/ Done

Spec == Init /\ [][Next]_vars

-------------------------------------------------------------------------------
\* Importing

\* Every revision is valid, everything cited is in the archive, and a
\* predecessor comes before its successor.
Accepts(records) ==
  \A i \in DOMAIN records :
    /\ Valid(records[i])
    /\ \A cite \in References(records[i]) :
         \E j \in DOMAIN records :
           /\ Answers(records[j], cite)
           /\ cite.plane \in {"proposal", "case"} => j < i

accepted == phase = "arrived" /\ Accepts(archive)
-------------------------------------------------------------------------------
\* What a reader of an accepted archive may rely on

Citations == [plane : Planes, id : STRING, version : Nat \union {None}]

\* Every record has one id in the store and cites what can exist.
TypeOK ==
  /\ \A i \in DOMAIN store : References(store[i]) \subseteq Citations
  /\ \A i, j \in DOMAIN store :
       store[i].plane = store[j].plane /\ store[i].id = store[j].id => i = j
  /\ phase \in {"recording", "arrived", "golden"}

\* What following a record leads to, place by place.

Present(plane, id) == \E i \in DOMAIN archive : archive[i].plane = plane /\ archive[i].id = id

EarlierRevision(i) ==
  archive[i].previous # None =>
    \E j \in 1 .. i - 1 :
      archive[j].plane = archive[i].plane /\ archive[j].id = archive[i].previous

ProposalReadable(p) ==
  /\ \A e \in p.findings : Present("evidence", e)
  /\ \A e \in p.probes : e # None => Present("evidence", e)
  /\ p.receipt # None => Present("evidence", p.receipt.receipt)

MaterialReadable(m) ==
  Present("evidence", m.evidence) /\ (m.of # None => Present("evidence", m.of))

CaseReadable(c) ==
  /\ \A k \in DOMAIN c.claims :
       /\ Present(c.claims[k].kind, c.claims[k].id)
       /\ c.claims[k].kind = "belief" /\ c.claims[k].version # None =>
            \E i \in DOMAIN archive :
              /\ archive[i].plane = "belief"
              /\ archive[i].id = c.claims[k].id
              /\ archive[i].version = c.claims[k].version
  /\ \A e \in c.evidence \union c.receipts : Present("evidence", e)
  /\ \A e \in c.measurements : e # None => Present("evidence", e)
  /\ \A m \in c.supporting \union c.refuting : MaterialReadable(m)

\* `references` is complete: in an archive that passes the importer's check
\* every record that a proposal or a case leads to is there, wherever in the
\* record it is named, and every revision comes after the one it supersedes, so
\* that the chain of revisions ends.  The proposal a case is linked to is no
\* such place.
ClosedOnImport ==
  accepted =>
    \A i \in DOMAIN archive :
      /\ archive[i].plane = "proposal" => ProposalReadable(archive[i]) /\ EarlierRevision(i)
      /\ archive[i].plane = "case" => CaseReadable(archive[i]) /\ EarlierRevision(i)

\* Whether measuring again gives the numbers a proposal states, on the sample
\* and against the threshold it states.  Nothing checks that: the numbers are
\* what whoever wrote the proposal put there.
Reproduces(p) ==
  p.support = Measured(join, p.normalization, p.support.sampling, p.support.minSupport)

\* The rows the measurement covered bear the relationship out: enough source rows
\* match, and each of them one target row.
BorneOut(p) ==
  LET keyed == Keyed(p.support.sampling, join.source)
      matches(i) == SqlMatches(join, p.normalization, p.support.sampling, i)
      matching == {i \in keyed : matches(i) # {}}
  IN /\ matching # {}
     /\ Cardinality(matching) * 100 >= p.support.minSupport * Cardinality(keyed)
     /\ \A i \in matching : Cardinality(matches(i)) = 1

\* A proposal that may be published is either supported, and then the rows its
\* measurement covered bear it out if its numbers are those of a measurement; or
\* promoted by a named reviewer whose receipt is in the archive.  Of rows that
\* were not covered, and of numbers nobody measured, it says nothing.
ActionableIsBacked ==
  accepted =>
    \A p \in ToSet(archive) :
      p.plane = "proposal" /\ IsActionable(p) =>
        \/ p.status = "supported" /\ (Reproduces(p) => BorneOut(p))
        \/ p.status = "promoted_by_reviewer" /\ p.receipt.named
             /\ Present("evidence", p.receipt.receipt)

\* The proposals an export may turn into edges of all rows: supported by numbers
\* that measuring every row again gives.
MeasuredWhole(p) ==
  /\ p.plane = "proposal" /\ p.status = "supported"
  /\ p.support.sampling.method = "full_scan"
  /\ Reproduces(p)

MeasuredRows(p, i) == SqlMatches(join, p.normalization, FullScan, i)
ResolvedRows(p, i) == Resolves(join, p.normalization, i)

\* No key with a blank that str::trim strips and btrim does not, with a letter
\* that lower() and str::to_lowercase may treat differently, or with a scale.
PlainKeys ==
  \A column \in {join.source, join.target} :
    \A i \in Keyed(FullScan, column) :
      column[i].around \in {"nothing", "space"} /\ column[i].letters \in {"lower", "ascii"}

\* An export resolves rows in its own process with NormalizationOp::apply, the
\* measurement did it with to_sql in the database.  A relationship measured whole
\* that normalizes both sides alike loses no row that was measured, unless it
\* lower-cases or compares numerics; and where the keys are plain each source row
\* resolves to exactly the row it matched, if it matched one.
EdgesAsMeasured ==
  accepted =>
    \A p \in ToSet(archive) :
      MeasuredWhole(p) =>
        \A i \in Keyed(FullScan, join.source) :
          /\ TargetOp(p.normalization) = p.normalization.source
               /\ ~Lowers(p.normalization.source) /\ p.normalization.source # "cast_numeric"
               => MeasuredRows(p, i) \subseteq ResolvedRows(p, i)
          /\ PlainKeys =>
               ResolvedRows(p, i) = MeasuredRows(p, i) /\ Cardinality(ResolvedRows(p, i)) <= 1

\* The conformance archives are valid and closed.
GoldensAccepted == phase = "golden" => Accepts(archive)

===============================================================================
