---------------------------- MODULE KnowledgeProofs ----------------------------
(***************************************************************************)
(* Proofs about what an importer may rely on, for any columns, records,    *)
(* samples and numbers and any order of recording.  An archive that        *)
(* arrives holds only what was recorded: the rest follows from what the    *)
(* importer checks.                                                        *)
(***************************************************************************)
EXTENDS KnowledgeArchive, SequenceTheorems, FiniteSetTheorems, TLAPS

\* A proposal carries a receipt only if it is promoted.
Drafted(r) ==
  r.plane = "proposal" /\ r.receipt # None => r.status = "promoted_by_reviewer"

RecordsOver(records) == \E S : records \in Seq(S) /\ \A r \in S : Drafted(r)

IInv ==
  /\ join \in Joins
  /\ RecordsOver(store)
  /\ phase # "golden" => RecordsOver(archive)

LEMMA MoreRecords ==
  ASSUME NEW records, RecordsOver(records), NEW r, Drafted(r)
  PROVE  RecordsOver(Append(records, r))
  <1>1. PICK S : records \in Seq(S) /\ \A x \in S : Drafted(x) BY DEF RecordsOver
  <1>2. records \in Seq(S \union {r}) BY <1>1
  <1>3. Append(records, r) \in Seq(S \union {r}) BY <1>2, AppendProperties
  <1> QED BY <1>1, <1>3 DEF RecordsOver

LEMMA ElementsDrafted ==
  ASSUME NEW records, RecordsOver(records), NEW i \in DOMAIN records
  PROVE  Drafted(records[i])
  <1>1. PICK S : records \in Seq(S) /\ \A x \in S : Drafted(x) BY DEF RecordsOver
  <1>2. records[i] \in S BY <1>1
  <1> QED BY <1>1, <1>2

LEMMA DraftsAreDrafted == \A r \in Drafts : Drafted(r)
  <1> SUFFICES ASSUME NEW r \in Drafts PROVE Drafted(r) OBVIOUS
  <1>1. PICK standing \in ({"quarantined_hypothesis", "supported"} \X {None})
                            \union ({"promoted_by_reviewer"}
                                      \X [receipt : ReceiptIds, named : BOOLEAN]) :
          /\ r.status = standing[1] /\ r.receipt = standing[2]
    BY DEF Drafts
  <1>2. standing[2] # None => standing[1] = "promoted_by_reviewer" BY <1>1
  <1> QED BY <1>1, <1>2 DEF Drafted

LEMMA SourcesAreDrafted ==
  ASSUME NEW records \in Seq(SourceRecord)
  PROVE  RecordsOver(records)
  <1>1. \A r \in SourceRecord : Drafted(r) BY DEF SourceRecord, Drafted
  <1> QED BY <1>1 DEF RecordsOver

LEMMA DraftedInit == Init => IInv
  <1> SUFFICES ASSUME Init PROVE IInv OBVIOUS
  <1>1. store \in Seq(SourceRecord) /\ archive \in Seq(SourceRecord)
    BY KnowledgeAssumption DEF Init
  <1> QED BY <1>1, SourcesAreDrafted DEF Init, IInv

LEMMA RecordKeeps ==
  ASSUME IInv, NEW r, Record(r), Drafted(r)
  PROVE  IInv'
  <1>1. RecordsOver(Append(store, r)) BY MoreRecords DEF IInv
  <1>2. store' = Append(store, r) /\ join' = join /\ archive' = archive /\ phase' = phase
    BY DEF Record
  <1>3. RecordsOver(store') BY <1>1, <1>2
  <1>4. RecordsOver(store)' BY <1>2, <1>3 DEF RecordsOver, Drafted
  <1>5. phase' # "golden" => RecordsOver(archive)' BY <1>2 DEF IInv, RecordsOver, Drafted
  <1> QED BY <1>2, <1>4, <1>5 DEF IInv

LEMMA LeftAreDrafted ==
  ASSUME RecordsOver(store), NEW i \in DOMAIN store
  PROVE  RecordsOver(Left(i))
  <1>1. PICK S : store \in Seq(S) /\ \A x \in S : Drafted(x) BY DEF RecordsOver
  <1>2. i \in 1 .. Len(store) /\ Len(store) \in Nat BY <1>1
  <1>3. SubSeq(store, 1, i - 1) \in Seq(S) BY <1>1, <1>2, SubSeqProperties
  <1>4. SubSeq(store, i + 1, Len(store)) \in Seq(S) BY <1>1, <1>2, SubSeqProperties
  <1>5. Left(i) \in Seq(S) BY <1>3, <1>4, ConcatProperties DEF Left
  <1> QED BY <1>1, <1>5 DEF RecordsOver

LEMMA MovedAreDrafted ==
  ASSUME RecordsOver(store), NEW i \in DOMAIN store, NEW j \in DOMAIN store
  PROVE  RecordsOver(Moved(i, j))
  <1>1. PICK S : store \in Seq(S) /\ \A x \in S : Drafted(x) BY DEF RecordsOver
  <1>2. i \in 1 .. Len(store) /\ j \in 1 .. Len(store) BY <1>1
  <1>3. store[i] \in S /\ store[j] \in S BY <1>1, <1>2
  <1>4. Moved(i, j) \in Seq(S) BY <1>1, <1>2, <1>3 DEF Moved
  <1> QED BY <1>1, <1>4 DEF RecordsOver

LEMMA StepKeeps ==
  ASSUME IInv, join' = join, RecordsOver(store'),
         phase' # "golden" => RecordsOver(archive')
  PROVE  IInv'
  BY DEF IInv, RecordsOver, Drafted

LEMMA DraftedNext == IInv /\ [Next]_vars => IInv'
  <1> SUFFICES ASSUME IInv, [Next]_vars PROVE IInv' OBVIOUS
  <1>1. CASE Propose BY <1>1, DraftsAreDrafted, RecordKeeps DEF Propose
  <1>2. CASE WriteReceipt
    <2>1. \A id : Drafted(Evidence(id)) BY DEF Drafted, Evidence
    <2> QED BY <1>2, <2>1, RecordKeeps DEF WriteReceipt
  <1>3. CASE RaiseCase
    <2>1. \A c \in Cases : Drafted(c) BY KnowledgeAssumption DEF Drafted, ContradictionCase
    <2> QED BY <1>3, <2>1, RecordKeeps DEF RaiseCase
  <1>4. CASE Arrive
    <2>1. RecordsOver(store) BY DEF IInv
    <2>2. RecordsOver(archive')
      <3>1. CASE archive' = store BY <2>1, <3>1
      <3>2. ASSUME NEW i \in DOMAIN store, archive' = Left(i) PROVE RecordsOver(archive')
        <4>1. RecordsOver(Left(i)) BY <2>1, LeftAreDrafted
        <4> QED BY <3>2, <4>1
      <3>3. ASSUME NEW i \in DOMAIN store, NEW j \in DOMAIN store, archive' = Moved(i, j)
            PROVE  RecordsOver(archive')
        <4>1. RecordsOver(Moved(i, j)) BY <2>1, MovedAreDrafted
        <4> QED BY <3>3, <4>1
      <3> QED BY <1>4, <3>1, <3>2, <3>3 DEF Arrive
    <2> QED BY <1>4, <2>1, <2>2, StepKeeps DEF Arrive, IInv
  <1>5. CASE OpenGolden BY <1>5, StepKeeps DEF OpenGolden, IInv
  <1>6. CASE Done BY <1>6, StepKeeps DEF Done, IInv, vars
  <1>7. CASE UNCHANGED vars BY <1>7, StepKeeps DEF IInv, vars
  <1> QED
    BY <1>1, <1>2, <1>3, <1>4, <1>5, <1>6, <1>7 DEF Next

LEMMA Inductive == Spec => []IInv
  BY DraftedInit, DraftedNext, PTL DEF Spec

-------------------------------------------------------------------------------
\* Closure

LEMMA CitedIsThere ==
  ASSUME Accepts(archive), NEW i \in DOMAIN archive, NEW cite \in References(archive[i])
  PROVE  \E j \in DOMAIN archive :
           /\ archive[j].plane = cite.plane /\ archive[j].id = cite.id
           /\ cite.version # None => archive[j].version = cite.version
           /\ cite.plane \in {"proposal", "case"} => j < i
  BY DEF Accepts, Answers

LEMMA EvidenceIsPresent ==
  ASSUME Accepts(archive), NEW i \in DOMAIN archive, NEW plane, NEW id,
         Cite(plane, id) \in References(archive[i])
  PROVE  Present(plane, id)
  BY CitedIsThere DEF Cite, Present

LEMMA PredecessorIsEarlier ==
  ASSUME Accepts(archive), RecordsOver(archive), NEW i \in DOMAIN archive,
         archive[i].plane \in {"proposal", "case"}
  PROVE  EarlierRevision(i)
  <1> SUFFICES ASSUME archive[i].previous # None
               PROVE  \E j \in 1 .. i - 1 :
                        archive[j].plane = archive[i].plane /\ archive[j].id = archive[i].previous
    BY DEF EarlierRevision
  <1> DEFINE cite == Cite(archive[i].plane, archive[i].previous)
  <1>1. cite \in PreviousOf(archive[i]) BY DEF PreviousOf
  <1>2. cite \in References(archive[i])
    BY <1>1 DEF References, ProposalReferences, CaseReferences
  <1>3. cite.plane = archive[i].plane /\ cite.id = archive[i].previous BY DEF Cite
  <1> HIDE DEF cite
  <1>4. PICK j \in DOMAIN archive : archive[j].plane = cite.plane /\ archive[j].id = cite.id /\ j < i
    BY <1>2, <1>3, CitedIsThere
  <1>5. PICK S : archive \in Seq(S) BY DEF RecordsOver
  <1>6. j \in 1 .. i - 1 BY <1>4, <1>5
  <1> QED BY <1>3, <1>4, <1>6

LEMMA ProposalIsReadable ==
  ASSUME Accepts(archive), RecordsOver(archive), NEW i \in DOMAIN archive,
         archive[i].plane = "proposal"
  PROVE  ProposalReadable(archive[i])
  <1> DEFINE p == archive[i]
  <1>1. References(p) = ProposalReferences(p) BY DEF References
  <1>2. \A e \in p.findings \union (p.probes \ {None}) : Cite("evidence", e) \in References(p)
    BY <1>1 DEF ProposalReferences
  <1>3. p.receipt # None => Cite("evidence", p.receipt.receipt) \in References(p)
    BY <1>1, ElementsDrafted DEF ProposalReferences, Drafted
  <1> QED BY <1>2, <1>3, EvidenceIsPresent DEF ProposalReadable

LEMMA CaseIsReadable ==
  ASSUME Accepts(archive), NEW i \in DOMAIN archive, archive[i].plane = "case"
  PROVE  CaseReadable(archive[i])
  <1> DEFINE c == archive[i]
  <1>1. References(c) = CaseReferences(c) BY DEF References
  <1>2. \A e \in c.evidence \union (c.measurements \ {None}) \union c.receipts :
          Cite("evidence", e) \in References(c)
    BY <1>1 DEF CaseReferences
  <1>3. \A m \in c.supporting \union c.refuting :
          /\ Cite("evidence", m.evidence) \in References(c)
          /\ m.of # None => Cite("evidence", m.of) \in References(c)
    BY <1>1 DEF CaseReferences
  <1>4. \A k \in DOMAIN c.claims : ClaimCited(c.claims[k]) \in References(c)
    BY <1>1 DEF CaseReferences
  <1>5. ASSUME NEW k \in DOMAIN c.claims
        PROVE  /\ Present(c.claims[k].kind, c.claims[k].id)
               /\ c.claims[k].kind = "belief" /\ c.claims[k].version # None =>
                    \E j \in DOMAIN archive :
                      /\ archive[j].plane = "belief"
                      /\ archive[j].id = c.claims[k].id
                      /\ archive[j].version = c.claims[k].version
    <2> DEFINE cite == ClaimCited(c.claims[k])
    <2>1. cite.plane = c.claims[k].kind /\ cite.id = c.claims[k].id
      BY DEF ClaimCited, Cite, CiteBelief
    <2>2. c.claims[k].kind = "belief" => cite.version = c.claims[k].version
      BY DEF ClaimCited, CiteBelief
    <2>3. cite \in References(c) BY <1>4
    <2> HIDE DEF cite
    <2>4. PICK j \in DOMAIN archive :
            /\ archive[j].plane = cite.plane /\ archive[j].id = cite.id
            /\ cite.version # None => archive[j].version = cite.version
      BY <2>3, CitedIsThere
    <2> QED BY <2>1, <2>2, <2>4 DEF Present
  <1> QED BY <1>2, <1>3, <1>5, EvidenceIsPresent DEF CaseReadable, MaterialReadable

LEMMA ClosureFollows == IInv => ClosedOnImport
  <1> SUFFICES ASSUME IInv, phase = "arrived", Accepts(archive)
               PROVE  ClosedOnImport
    BY DEF ClosedOnImport, accepted
  <1>1. RecordsOver(archive) BY DEF IInv
  <1> QED
    BY <1>1, ProposalIsReadable, CaseIsReadable, PredecessorIsEarlier DEF ClosedOnImport

\* Whatever is recorded and whatever part of it arrives, an archive that passes the
\* importer's checks holds all that its proposals and cases lead to, and each
\* revision after the one it supersedes (both `references` functions).
THEOREM ClosedAlways == Spec => []ClosedOnImport
  BY Inductive, ClosureFollows, PTL

-------------------------------------------------------------------------------
\* Backing

LEMMA KeyedAreFinite ==
  ASSUME IInv, NEW sampling
  PROVE  IsFiniteSet(Keyed(sampling, join.target))
  <1>1. join.target \in Seq(Key \union {None}) BY KnowledgeAssumption DEF IInv
  <1>2. Len(join.target) \in Nat /\ DOMAIN join.target = 1 .. Len(join.target) BY <1>1
  <1>3. Keyed(sampling, join.target) \in SUBSET (DOMAIN join.target)
    BY DEF Keyed, CoveredRows
  <1>4. IsFiniteSet(1 .. Len(join.target)) BY <1>2, FS_Interval
  <1> QED BY <1>2, <1>3, <1>4, FS_Subset

\* As many keys as rows: each key is one row's.
LEMMA DistinctKeys ==
  ASSUME NEW rows, IsFiniteSet(rows), NEW f, f = [j \in rows |-> f[j]],
         Cardinality({f[j] : j \in rows}) = Cardinality(rows),
         NEW i \in rows, NEW j \in rows, f[i] = f[j]
  PROVE  i = j
  <1> DEFINE keys == {f[k] : k \in rows}
  <1>1. f \in Surjection(rows, keys) BY DEF Surjection
  <1>2. f \in Injection(rows, keys) BY <1>1, FS_Surjection
  <1> QED BY <1>2 DEF Injection, IsInjective

LEMMA OneMatchAtMost ==
  ASSUME IInv, NEW n, NEW sampling,
         Cardinality({InSql(join.locale, TargetOp(n), join.target[j]) :
                        j \in Keyed(sampling, join.target)})
           = Cardinality(Keyed(sampling, join.target)),
         NEW i, SqlMatches(join, n, sampling, i) # {}
  PROVE  Cardinality(SqlMatches(join, n, sampling, i)) = 1
  <1> DEFINE rows == Keyed(sampling, join.target)
             f == [j \in rows |-> InSql(join.locale, TargetOp(n), join.target[j])]
             matches == SqlMatches(join, n, sampling, i)
  <1>1. {f[j] : j \in rows} = {InSql(join.locale, TargetOp(n), join.target[j]) : j \in rows}
    OBVIOUS
  <1>2. \A j \in matches : j \in rows /\ f[j] = InSql(join.locale, n.source, join.source[i])
    BY DEF SqlMatches
  <1>3. IsFiniteSet(rows) BY KeyedAreFinite
  <1>4. Cardinality({f[j] : j \in rows}) = Cardinality(rows) BY <1>1
  <1>5. f = [j \in rows |-> f[j]] OBVIOUS
  <1> HIDE DEF f, rows
  <1>6. \A j, k \in matches : j = k BY <1>2, <1>3, <1>4, <1>5, DistinctKeys
  <1>7. PICK j \in matches : TRUE OBVIOUS
  <1>8. matches = {j} BY <1>6, <1>7
  <1> QED BY <1>8, FS_Singleton

\* Numbers that clear their threshold and are those of a measurement.
LEMMA TargetKeysDistinct ==
  ASSUME NEW p, Clears(p.support), Reproduces(p)
  PROVE  Cardinality({InSql(join.locale, TargetOp(p.normalization), join.target[j]) :
                        j \in Keyed(p.support.sampling, join.target)})
           = Cardinality(Keyed(p.support.sampling, join.target))
  <1>1. p.support.targetDistinct = p.support.targetNonNull BY DEF Clears
  <1>2. /\ p.support.targetNonNull = Cardinality(Keyed(p.support.sampling, join.target))
        /\ p.support.targetDistinct
             = Cardinality({InSql(join.locale, TargetOp(p.normalization), join.target[j]) :
                              j \in Keyed(p.support.sampling, join.target)})
    BY DEF Reproduces, Measured
  <1> QED BY <1>1, <1>2

LEMMA SupportedIsBorneOut ==
  ASSUME IInv, NEW p, Clears(p.support), Reproduces(p)
  PROVE  BorneOut(p)
  <1> DEFINE n == p.normalization
             sampling == p.support.sampling
             keyed == Keyed(sampling, join.source)
             matching == {i \in keyed : SqlMatches(join, n, sampling, i) # {}}
  <1>1. p.support.matchedRows # 0
        /\ p.support.matchedRows * 100 >= p.support.minSupport * p.support.sourceNonNull
    BY DEF Clears, RatioClears
  <1>2. /\ p.support.matchedRows = Cardinality(matching)
        /\ p.support.sourceNonNull = Cardinality(keyed)
    BY DEF Reproduces, Measured
  <1>3. /\ Cardinality(matching) # 0
        /\ Cardinality(matching) * 100 >= p.support.minSupport * Cardinality(keyed)
    BY <1>1, <1>2
  <1>4. matching # {} BY <1>3, FS_EmptySet
  <1>5. \A i \in matching : Cardinality(SqlMatches(join, n, sampling, i)) = 1
    BY TargetKeysDistinct, OneMatchAtMost
  <1> QED BY <1>3, <1>4, <1>5 DEF BorneOut

LEMMA BackingFollows == IInv => ActionableIsBacked
  <1> SUFFICES ASSUME IInv, phase = "arrived", Accepts(archive),
                      NEW i \in DOMAIN archive,
                      archive[i].plane = "proposal", IsActionable(archive[i])
               PROVE  LET p == archive[i]
                      IN  \/ p.status = "supported" /\ (Reproduces(p) => BorneOut(p))
                          \/ p.status = "promoted_by_reviewer" /\ p.receipt.named
                               /\ Present("evidence", p.receipt.receipt)
    BY DEF ActionableIsBacked, accepted, ToSet
  <1> DEFINE p == archive[i]
  <1>2. ValidProposal(p) BY DEF Accepts, Valid
  <1>3. CASE p.status = "supported"
    <2>1. Clears(p.support) BY <1>2, <1>3 DEF ValidProposal, StatusHolds
    <2> QED BY <1>3, <2>1, SupportedIsBorneOut
  <1>4. CASE p.status = "promoted_by_reviewer"
    <2>1. p.receipt.named BY <1>2, <1>4 DEF ValidProposal, StatusHolds
    <2>2. Cite("evidence", p.receipt.receipt) \in References(p)
      BY <1>4 DEF References, ProposalReferences
    <2> QED BY <1>4, <2>1, <2>2, EvidenceIsPresent
  <1> QED BY <1>3, <1>4 DEF IsActionable

\* For any columns, sample, threshold and numbers: a proposal in an accepted
\* archive that may be published is promoted with its receipt at hand, or is
\* supported, and then borne out by the rows its measurement covered if measuring
\* them gives the numbers it states (RelationSupport::check and the status rules
\* of validate, which check the numbers against each other and no column).
THEOREM BackedAlways == Spec => []ActionableIsBacked
  BY Inductive, BackingFollows, PTL

-------------------------------------------------------------------------------
\* Edges

KeyWith(word, letters, around) == [word |-> word, letters |-> letters, around |-> around]

LEMMA KeyIsItsFields ==
  ASSUME NEW k \in Key
  PROVE  /\ k = KeyWith(k.word, k.letters, k.around)
         /\ k.letters \in {"lower", "ascii", "other", "sigma", "medial"}
         /\ k.around \in {"nothing", "space", "tab", "zeros"}
         /\ \A around : [k EXCEPT !.around = around] = KeyWith(k.word, k.letters, around)
         /\ \A letters : [k EXCEPT !.letters = letters] = KeyWith(k.word, letters, k.around)
  BY DEF Key, KeyWith

LEMMA KeysByField ==
  ASSUME NEW k \in Key
  PROVE  /\ Trimmed(k) = KeyWith(k.word, k.letters,
                                 IF k.around = "zeros" THEN "zeros" ELSE "nothing")
         /\ Trimmed(k) \in Key
         /\ Btrimmed(k) \in Key
         /\ \A op : ReadBack(op, k) \in Key
  <1>1. Trimmed(k) = KeyWith(k.word, k.letters,
                            IF k.around = "zeros" THEN "zeros" ELSE "nothing")
    BY KeyIsItsFields DEF Trimmed
  <1>2. Trimmed(k) \in Key BY <1>1, KeyIsItsFields DEF Key, KeyWith
  <1> QED BY <1>1, <1>2 DEF Btrimmed, ReadBack

\* str::trim undoes what btrim left.
LEMMA TrimAfterBtrim ==
  ASSUME NEW k \in Key
  PROVE  Trimmed(Btrimmed(k)) = Trimmed(k)
  <1>1. CASE k.around = "space"
    <2>1. Trimmed(k) = KeyWith(k.word, k.letters, "nothing") BY <1>1, KeysByField
    <2>2. Trimmed(k).around = "nothing" /\ Trimmed(k).word = k.word
            /\ Trimmed(k).letters = k.letters
      BY <2>1 DEF KeyWith
    <2>3. Trimmed(Trimmed(k)) = KeyWith(k.word, k.letters, "nothing")
      BY <2>2, KeysByField
    <2> QED BY <1>1, <2>1, <2>3 DEF Btrimmed
  <1>2. CASE k.around # "space" BY <1>2 DEF Btrimmed
  <1> QED BY <1>1, <1>2

\* Without lowering, what the database makes of a key determines what this
\* process makes of it.
LEMMA ApplyOfInSql ==
  ASSUME NEW locale, NEW op, ~Lowers(op), op # "cast_numeric", NEW k \in Key
  PROVE  Apply(op, ReadBack(op, k))
           = IF Trims(op) THEN Trimmed(InSql(locale, op, k)) ELSE InSql(locale, op, k)
  <1>1. CASE Trims(op)
    <2>1. ReadBack(op, k) = k BY <1>1 DEF Trims, ReadBack
    <2>2. InSql(locale, op, k) = Btrimmed(k) BY <1>1 DEF InSql
    <2>3. Apply(op, k) = Trimmed(k) BY <1>1 DEF Apply
    <2> QED BY <1>1, <2>1, <2>2, <2>3, TrimAfterBtrim
  <1>2. CASE ~Trims(op) BY <1>2 DEF InSql, Apply
  <1> QED BY <1>1, <1>2

Plain(k) == k.around \in {"nothing", "space"} /\ k.letters \in {"lower", "ascii"}

LEMMA PlainTrims ==
  ASSUME NEW k \in Key, Plain(k)
  PROVE  /\ Btrimmed(k) = Trimmed(k)
         /\ Plain(Trimmed(k))
         /\ Trimmed(k).around = "nothing"
         /\ \A op : Plain(ReadBack(op, k))
  <1>1. Trimmed(k) = KeyWith(k.word, k.letters, "nothing")
    BY KeysByField DEF Plain
  <1>2. Trimmed(k).around = "nothing" /\ Trimmed(k).letters = k.letters BY <1>1 DEF KeyWith
  <1>3. Plain(Trimmed(k)) BY <1>2 DEF Plain
  <1>4. Btrimmed(k) = Trimmed(k)
    <2>1. CASE k.around = "space" BY <2>1 DEF Btrimmed
    <2>2. CASE k.around = "nothing"
      <3>1. Trimmed(k) = k BY <1>1, <2>2, KeyIsItsFields
      <3> QED BY <2>2, <3>1 DEF Btrimmed
    <2> QED BY <2>1, <2>2 DEF Plain
  <1> QED BY <1>2, <1>3, <1>4 DEF ReadBack

\* Every locale lowers these letters as Rust does.
LEMMA PlainLowers ==
  ASSUME NEW k \in Key, Plain(k), NEW locale
  PROVE  LoweredInSql(locale, k) = Lowered(k)
  <1> DEFINE letters == CASE locale = "c" /\ k.letters # "ascii" -> k.letters
                          [] locale = "letters" /\ k.letters \in {"sigma", "medial"} -> "medial"
                          [] OTHER -> Lowered(k).letters
  <1>1. Lowered(k) = KeyWith(k.word, "lower", k.around)
    BY KeyIsItsFields DEF Lowered, Plain
  <1>2. LoweredInSql(locale, k) = KeyWith(k.word, letters, k.around)
    BY KeyIsItsFields DEF LoweredInSql
  <1>3. Lowered(k).letters = "lower" BY <1>1 DEF KeyWith
  <1>4. letters = "lower"
    <2>1. CASE locale = "c" BY <1>3, <2>1 DEF Plain
    <2>2. CASE locale = "letters" BY <1>3, <2>2 DEF Plain
    <2>3. CASE locale \notin {"c", "letters"} BY <1>3, <2>3
    <2> QED BY <2>1, <2>2, <2>3
  <1> QED BY <1>1, <1>2, <1>4

LEMMA SameOnPlainKeys ==
  ASSUME NEW locale, NEW op, NEW k \in Key, Plain(k)
  PROVE  InSql(locale, op, k) = Apply(op, ReadBack(op, k))
  <1>1. CASE Trims(op)
    <2>1. ReadBack(op, k) = k /\ op # "cast_numeric" BY <1>1 DEF Trims, ReadBack
    <2>2. LoweredInSql(locale, Trimmed(k)) = Lowered(Trimmed(k))
      BY KeysByField, PlainTrims, PlainLowers
    <2> QED BY <1>1, <2>1, <2>2, PlainTrims DEF InSql, Apply
  <1>2. CASE op = "lower"
    <2>1. ReadBack(op, k) = k /\ ~Trims(op) /\ Lowers(op) BY <1>2 DEF Trims, Lowers, ReadBack
    <2> QED BY <2>1, PlainLowers DEF InSql, Apply
  <1>3. CASE op = "cast_numeric"
    <2>1. ReadBack(op, k) = Trimmed(k) /\ ~Trims(op) /\ ~Lowers(op)
      BY <1>3 DEF Trims, Lowers, ReadBack
    <2>2. [Trimmed(k) EXCEPT !.around = "nothing"] = Trimmed(k)
      <3>1. Trimmed(k) \in Key /\ Trimmed(k).around = "nothing" BY KeysByField, PlainTrims
      <3> QED BY <3>1, KeyIsItsFields
    <2> QED BY <1>3, <2>1, <2>2 DEF InSql, Apply
  <1>4. CASE ~Trims(op) /\ op # "lower" /\ op # "cast_numeric"
    <2>1. ~Lowers(op) BY <1>4 DEF Trims, Lowers
    <2> QED BY <1>4, <2>1 DEF InSql, Apply
  <1> QED BY <1>1, <1>2, <1>3, <1>4

LEMMA CellsAreKeys ==
  ASSUME IInv, NEW column \in {join.source, join.target}, NEW i \in Keyed(FullScan, column)
  PROVE  column[i] \in Key
  <1>1. column \in Seq(Key \union {None}) BY KnowledgeAssumption DEF IInv
  <1>2. i \in DOMAIN column /\ column[i] # None BY DEF Keyed, CoveredRows, FullScan
  <1>3. column[i] \in Key \union {None} BY <1>1, <1>2
  <1> QED BY <1>2, <1>3

LEMMA KeyedWhole ==
  ASSUME NEW sampling, sampling.method = "full_scan", NEW column
  PROVE  Keyed(sampling, column) = Keyed(FullScan, column)
  BY DEF Keyed, CoveredRows, FullScan

LEMMA NoneLost ==
  ASSUME IInv, NEW p, NEW i \in Keyed(FullScan, join.source),
         TargetOp(p.normalization) = p.normalization.source,
         ~Lowers(p.normalization.source), p.normalization.source # "cast_numeric"
  PROVE  MeasuredRows(p, i) \subseteq ResolvedRows(p, i)
  <1>1. join.source[i] \in Key BY CellsAreKeys
  <1>2. \A j \in Keyed(FullScan, join.target) : join.target[j] \in Key BY CellsAreKeys
  <1> QED BY <1>1, <1>2, ApplyOfInSql DEF MeasuredRows, ResolvedRows, SqlMatches, Resolves

LEMMA PlainRowsAgree ==
  ASSUME IInv, PlainKeys, NEW p, NEW i \in Keyed(FullScan, join.source)
  PROVE  ResolvedRows(p, i) = MeasuredRows(p, i)
  <1> DEFINE n == p.normalization
  <1>1. join.source[i] \in Key /\ Plain(join.source[i])
    BY CellsAreKeys DEF PlainKeys, Plain
  <1>2. \A j \in Keyed(FullScan, join.target) :
          join.target[j] \in Key /\ Plain(join.target[j])
    BY CellsAreKeys DEF PlainKeys, Plain
  <1>3. InSql(join.locale, n.source, join.source[i])
          = Apply(n.source, ReadBack(n.source, join.source[i]))
    BY <1>1, SameOnPlainKeys
  <1>4. \A j \in Keyed(FullScan, join.target) :
          InSql(join.locale, TargetOp(n), join.target[j])
            = Apply(TargetOp(n), ReadBack(TargetOp(n), join.target[j]))
    BY <1>2, SameOnPlainKeys
  <1> QED BY <1>3, <1>4 DEF MeasuredRows, ResolvedRows, SqlMatches, Resolves

LEMMA EdgesFollow == IInv => EdgesAsMeasured
  <1> SUFFICES ASSUME IInv, phase = "arrived", Accepts(archive),
                      NEW k \in DOMAIN archive, MeasuredWhole(archive[k]),
                      NEW i \in Keyed(FullScan, join.source)
               PROVE  LET p == archive[k] IN
                      /\ TargetOp(p.normalization) = p.normalization.source
                           /\ ~Lowers(p.normalization.source)
                           /\ p.normalization.source # "cast_numeric"
                           => MeasuredRows(p, i) \subseteq ResolvedRows(p, i)
                      /\ PlainKeys =>
                           /\ ResolvedRows(p, i) = MeasuredRows(p, i)
                           /\ Cardinality(ResolvedRows(p, i)) <= 1
    BY DEF EdgesAsMeasured, accepted, ToSet
  <1> DEFINE p == archive[k]
             sampling == p.support.sampling
  <1>1. /\ p.plane = "proposal" /\ p.status = "supported"
        /\ sampling.method = "full_scan" /\ Reproduces(p)
    BY DEF MeasuredWhole
  <1>2. Clears(p.support)
    BY <1>1 DEF Accepts, Valid, ValidProposal, StatusHolds
  <1>3. Cardinality(MeasuredRows(p, i)) <= 1
    <2>1. MeasuredRows(p, i) = SqlMatches(join, p.normalization, sampling, i)
      BY <1>1, KeyedWhole DEF MeasuredRows, SqlMatches
    <2>2. CASE MeasuredRows(p, i) = {} BY <2>2, FS_EmptySet
    <2>3. CASE MeasuredRows(p, i) # {}
      <3>1. Cardinality(SqlMatches(join, p.normalization, sampling, i)) = 1
        BY <1>1, <1>2, <2>1, <2>3, TargetKeysDistinct, OneMatchAtMost
      <3> QED BY <2>1, <3>1
    <2> QED BY <2>2, <2>3
  <1> QED BY <1>3, NoneLost, PlainRowsAgree

\* For all columns and locales, of a relationship measured whole: where both
\* sides are normalized alike, without lowering and not as numerics, no measured
\* row is lost, and on plain keys each row resolves to what it matched and to one
\* row at most (NormalizationOp::apply against to_sql).
THEOREM EdgesAlways == Spec => []EdgesAsMeasured
  BY Inductive, EdgesFollow, PTL

-------------------------------------------------------------------------------
(***************************************************************************)
(* What the store holds cites what can exist, each under an id of its own. *)
(***************************************************************************)

WellCited(r) == r.id \in STRING /\ References(r) \subseteq Citations

OwnIds(records) ==
  \A i, j \in DOMAIN records :
    records[i].plane = records[j].plane /\ records[i].id = records[j].id => i = j

TypeInv ==
  /\ \A i \in DOMAIN store : WellCited(store[i])
  /\ OwnIds(store)
  /\ phase \in {"recording", "arrived", "golden"}

LEMMA CitationTypes ==
  ASSUME NEW plane \in Planes, NEW id \in STRING
  PROVE  /\ Cite(plane, id) \in Citations
         /\ \A version \in Nat \union {None} : CiteBelief(id, version) \in Citations
  BY DEF Cite, CiteBelief, Citations, Planes

LEMMA SourcesAreWellCited == \A r \in SourceRecord : WellCited(r)
  BY DEF SourceRecord, WellCited, References

LEMMA DraftsAreWellCited == \A r \in Drafts : WellCited(r)
  <1> SUFFICES ASSUME NEW r \in Drafts PROVE WellCited(r) OBVIOUS
  <1>1. PICK standing \in ({"quarantined_hypothesis", "supported"} \X {None})
                            \union ({"promoted_by_reviewer"}
                                      \X [receipt : ReceiptIds, named : BOOLEAN]) :
          /\ r.plane = "proposal" /\ r.id \in RevisionIds
          /\ r.previous \in RevisionIds \union {None}
          /\ r.status = standing[1] /\ r.receipt = standing[2]
          /\ r.findings = Findings /\ r.probes = Probes
    BY DEF Drafts
  <1>2. r.status = "promoted_by_reviewer" => r.receipt.receipt \in STRING
    <2>1. standing[1] = "promoted_by_reviewer" =>
            standing[2] \in [receipt : ReceiptIds, named : BOOLEAN]
      BY <1>1
    <2> QED BY <1>1, <2>1, KnowledgeAssumption
  <1>3. r.id \in STRING /\ (r.previous # None => r.previous \in STRING)
    BY <1>1, KnowledgeAssumption
  <1>4. \A e \in r.findings \union (r.probes \ {None}) : Cite("evidence", e) \in Citations
    BY <1>1, CitationTypes, KnowledgeAssumption DEF Planes
  <1>5. r.status = "promoted_by_reviewer" => Cite("evidence", r.receipt.receipt) \in Citations
    BY <1>2, CitationTypes DEF Planes
  <1>6. PreviousOf(r) \subseteq Citations
    BY <1>1, <1>3, CitationTypes DEF PreviousOf, Planes
  <1>7. ProposalReferences(r) \subseteq Citations BY <1>4, <1>5, <1>6 DEF ProposalReferences
  <1> QED BY <1>1, <1>3, <1>7 DEF WellCited, References

LEMMA CasesAreWellCited == \A c \in ContradictionCase : WellCited(c)
  <1> SUFFICES ASSUME NEW c \in ContradictionCase PROVE WellCited(c) OBVIOUS
  <1>1. /\ c.plane = "case" /\ c.id \in STRING /\ c.previous \in STRING \union {None}
        /\ c.claims \in Seq(ClaimRef) /\ c.evidence \subseteq STRING
        /\ c.measurements \subseteq STRING \union {None} /\ c.receipts \subseteq STRING
        /\ c.supporting \subseteq Material /\ c.refuting \subseteq Material
    BY DEF ContradictionCase
  <1>2. \A i \in DOMAIN c.claims : ClaimCited(c.claims[i]) \in Citations
    <2>1. SUFFICES ASSUME NEW claim \in ClaimRef PROVE ClaimCited(claim) \in Citations
      BY <1>1
    <2>2. /\ claim.kind \in ClaimKinds /\ claim.id \in STRING
          /\ claim.version \in Nat \union {None}
      BY DEF ClaimRef
    <2> QED BY <2>2, CitationTypes DEF ClaimCited, ClaimKinds, Planes
  <1>3. \A e \in c.evidence \union (c.measurements \ {None}) \union c.receipts :
          Cite("evidence", e) \in Citations
    BY <1>1, CitationTypes DEF Planes
  <1>4. \A m \in c.supporting \union c.refuting :
          /\ Cite("evidence", m.evidence) \in Citations
          /\ m.of # None => Cite("evidence", m.of) \in Citations
    <2>1. \A m \in Material : m.evidence \in STRING /\ m.of \in STRING \union {None}
      BY DEF Material
    <2> QED BY <1>1, <2>1, CitationTypes DEF Planes
  <1>5. PreviousOf(c) \subseteq Citations BY <1>1, CitationTypes DEF PreviousOf, Planes
  <1>6. CaseReferences(c) \subseteq Citations
    BY <1>2, <1>3, <1>4, <1>5 DEF CaseReferences
  <1> QED BY <1>1, <1>6 DEF WellCited, References

LEMMA TypesInit == Init => TypeInv
  <1> SUFFICES ASSUME Init PROVE TypeInv OBVIOUS
  <1>1. Given \in Seq(SourceRecord) /\ OwnIds(Given) BY KnowledgeAssumption DEF OwnIds
  <1>2. \A i \in DOMAIN store : WellCited(store[i]) BY <1>1, SourcesAreWellCited DEF Init
  <1> QED BY <1>1, <1>2 DEF Init, TypeInv

\* What is recorded has an id that no record of its plane has.
LEMMA RecordKeepsTypes ==
  ASSUME IInv, TypeInv, NEW r, Record(r), WellCited(r)
  PROVE  TypeInv'
  <1>1. /\ store' = Append(store, r) /\ UNCHANGED <<join, archive, phase>>
        /\ ~Recorded(Cite(r.plane, r.id))
    BY DEF Record
  <1>2. PICK S : store \in Seq(S) BY DEF IInv, RecordsOver
  <1>3. store \in Seq(S \union {r}) /\ r \in S \union {r} BY <1>2
  <1>4. /\ Len(store) \in Nat /\ DOMAIN store = 1 .. Len(store)
        /\ DOMAIN store' = 1 .. Len(store) + 1
        /\ \A i \in DOMAIN store : store'[i] = store[i]
        /\ store'[Len(store) + 1] = r
    BY <1>1, <1>3
  <1>5. \A i \in DOMAIN store : ~(store[i].plane = r.plane /\ store[i].id = r.id)
    BY <1>1 DEF Recorded, Answers, Cite
  <1>6. \A i \in DOMAIN store' : i \in DOMAIN store \/ i = Len(store) + 1 BY <1>4
  <1>7. \A i \in DOMAIN store' : WellCited(store'[i]) BY <1>4, <1>6 DEF TypeInv
  <1>8. OwnIds(store') BY <1>4, <1>5, <1>6 DEF TypeInv, OwnIds
  <1>9. (\A i \in DOMAIN store : WellCited(store[i]))' BY <1>7
  <1> QED BY <1>1, <1>8, <1>9 DEF TypeInv

LEMMA TypesNext == IInv /\ TypeInv /\ [Next]_vars => TypeInv'
  <1> SUFFICES ASSUME IInv, TypeInv, [Next]_vars PROVE TypeInv' OBVIOUS
  <1>1. CASE Propose BY <1>1, DraftsAreWellCited, RecordKeepsTypes DEF Propose
  <1>2. CASE WriteReceipt
    <2>1. \A id \in ReceiptIds : WellCited(Evidence(id))
      BY KnowledgeAssumption DEF WellCited, Evidence, References
    <2> QED BY <1>2, <2>1, RecordKeepsTypes DEF WriteReceipt
  <1>3. CASE RaiseCase
    BY <1>3, CasesAreWellCited, KnowledgeAssumption, RecordKeepsTypes DEF RaiseCase
  <1>4. CASE Arrive BY <1>4 DEF Arrive, TypeInv
  <1>5. CASE OpenGolden BY <1>5 DEF OpenGolden, TypeInv
  <1>6. CASE UNCHANGED vars BY <1>6 DEF vars, TypeInv
  <1> QED
    BY <1>1, <1>2, <1>3, <1>4, <1>5, <1>6 DEF Next, Done

\* No two records of the store have one id, and each cites only what can be
\* cited (both `references` functions).
THEOREM TypeCorrect == Spec => []TypeOK
  <1>1. IInv /\ TypeInv /\ [Next]_vars => TypeInv' BY TypesNext
  <1>2. TypeInv => TypeOK BY DEF TypeInv, TypeOK, WellCited, OwnIds
  <1> QED BY TypesInit, Inductive, <1>1, <1>2, PTL DEF Spec
===============================================================================
