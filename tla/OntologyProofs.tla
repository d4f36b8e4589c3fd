----------------------------- MODULE OntologyProofs -----------------------------
(***************************************************************************)
(* Proofs about adopted revisions, for any vaults, plans of proposers and  *)
(* callers.  What `validate_shape` admits is all that a chain ever holds,  *)
(* and nothing is taken out of it: so what holds of every valid revision   *)
(* holds of every adopted one, whichever way its parts came together.      *)
(***************************************************************************)
EXTENDS OntologyElection, TLAPS

\* The chains are sequences over a set of valid revisions.
ChainsOver(revisions) ==
  chain \in [Vaults -> Seq(revisions)] /\ \A r \in revisions : ValidRevision(r)

ChainsValid == \E revisions : ChainsOver(revisions)

LEMMA CommitKeepsValid ==
  ASSUME ChainsValid, NEW revision, Commit(revision)
  PROVE  ChainsValid'
  <1>1. PICK revisions : ChainsOver(revisions) BY DEF ChainsValid
  <1> DEFINE more == revisions \union {revision}
             vault == revision.manifest.target.vaultId
  <1>2. ValidRevision(revision) /\ chain' = [chain EXCEPT ![vault] = Append(@, revision)]
    BY DEF Commit
  <1>3. \A s \in Seq(revisions) : s \in Seq(more) /\ Append(s, revision) \in Seq(more)
    OBVIOUS
  <1>4. chain' \in [Vaults -> Seq(more)] BY <1>1, <1>2, <1>3 DEF ChainsOver
  <1>5. \A r \in more : ValidRevision(r) BY <1>1, <1>2 DEF ChainsOver
  <1> HIDE DEF more
  <1>6. chain' \in [Vaults -> Seq(more)] /\ \A r \in more : ValidRevision(r) BY <1>4, <1>5
  <1> QED BY <1>6 DEF ChainsValid, ChainsOver

LEMMA ChainsValidInit == Init => ChainsValid
  <1> SUFFICES ASSUME Init PROVE ChainsValid OBVIOUS
  <1>1. chain \in [Vaults -> Seq({})] BY DEF Init
  <1>2. ChainsOver({}) BY <1>1 DEF ChainsOver
  <1> QED BY <1>2 DEF ChainsValid

LEMMA ChainsValidNext == ChainsValid /\ [Next]_vars => ChainsValid'
  <1> SUFFICES ASSUME ChainsValid, [Next]_vars PROVE ChainsValid' OBVIOUS
  <1>1. ASSUME UNCHANGED chain PROVE ChainsValid' BY <1>1 DEF ChainsValid, ChainsOver
  <1>2. ASSUME NEW from, NEW into, NEW plan, Draft(from, into, plan) PROVE ChainsValid'
    BY <1>1, <1>2 DEF Draft
  <1>3. ASSUME NEW n, NEW valid, Approve(n, valid) PROVE ChainsValid'
    BY <1>1, <1>3 DEF Approve
  <1>4. ASSUME NEW n, NEW valid, NEW released, Answer(n, valid, released) PROVE ChainsValid'
    BY <1>1, <1>4 DEF Answer
  <1>5. CASE ChangePolicy BY <1>1, <1>5 DEF ChangePolicy
  <1>6. ASSUME NEW n, NEW approved, NEW answer, NEW caller, Publish(n, approved, answer, caller)
        PROVE  ChainsValid'
    <2>1. PICK revision : Commit(revision) BY <1>6 DEF Publish
    <2> QED BY <2>1, CommitKeepsValid
  <1>7. ASSUME NEW caller, ImportGenesis(caller) PROVE ChainsValid'
    <2>1. PICK revision : Commit(revision) BY <1>7 DEF ImportGenesis
    <2> QED BY <2>1, CommitKeepsValid
  <1>8. CASE UNCHANGED vars BY <1>1, <1>8 DEF vars
  <1> QED BY <1>2, <1>3, <1>4, <1>5, <1>6, <1>7, <1>8 DEF Next

LEMMA CommittedAreValid ==
  ASSUME ChainsValid, NEW r \in Committed
  PROVE  ValidRevision(r)
  <1>1. PICK revisions : ChainsOver(revisions) BY DEF ChainsValid
  <1>2. PICK v \in Vaults : r \in ToSet(chain[v]) BY DEF Committed
  <1>3. chain[v] \in Seq(revisions) BY <1>1 DEF ChainsOver
  <1>4. r \in revisions BY <1>2, <1>3 DEF ToSet
  <1> QED BY <1>1, <1>4 DEF ChainsOver

-------------------------------------------------------------------------------

\* Two citations of one record in a valid revision are one entry of what it
\* publishes.
LEMMA ValidCitesOneContent ==
  ASSUME NEW r, ValidRevision(r), NEW a \in CitedRecords(r.manifest),
         NEW b \in CitedRecords(r.manifest), a.kind = b.kind, a.id = b.id
  PROVE  a.contentSha256 = b.contentSha256
  <1> DEFINE published == r.manifest.publishedRecords
  <1>1. RecordsPublished(r.manifest) BY DEF ValidRevision, ValidManifest
  <1>2. ValidRecordRefs(published) /\ a \in ToSet(published) /\ b \in ToSet(published)
    BY <1>1 DEF RecordsPublished
  <1>3. PICK i \in DOMAIN published : a = published[i] BY <1>2 DEF ToSet
  <1>4. PICK j \in DOMAIN published : b = published[j] BY <1>2 DEF ToSet
  <1>5. IdentityOf(published[i]) = IdentityOf(published[j]) BY <1>3, <1>4 DEF IdentityOf
  <1>6. i = j BY <1>2, <1>5 DEF ValidRecordRefs
  <1> QED BY <1>3, <1>4, <1>6

LEMMA ContentFollows == ChainsValid => OneContentPerRecord
  BY CommittedAreValid, ValidCitesOneContent DEF OneContentPerRecord

\* No adopted revision ever cites two contents of one record, in whichever of
\* the five places of its manifest (validate_record_refs and validate_shape).
THEOREM OneContentAlways == Spec => []OneContentPerRecord
  <1>1. ChainsValid /\ [Next]_vars => ChainsValid' BY ChainsValidNext
  <1> QED BY ChainsValidInit, <1>1, ContentFollows, PTL DEF Spec

-------------------------------------------------------------------------------

LEMMA ValidTypesHaveOneName ==
  ASSUME NEW r, ValidRevision(r),
         NEW i \in DOMAIN r.manifest.semanticItems, NEW j \in DOMAIN r.manifest.semanticItems,
         r.manifest.semanticItems[i].kind = "schema_type",
         r.manifest.semanticItems[j].kind = "schema_type",
         {r.manifest.semanticItems[i].key, r.manifest.semanticItems[i].content.name}
           \cap {r.manifest.semanticItems[j].key, r.manifest.semanticItems[j].content.name} # {}
  PROVE  i = j
  <1> DEFINE items == r.manifest.semanticItems
  <1>1. ValidItems(r.manifest) BY DEF ValidRevision, ValidManifest
  <1>2. ValidItem(items[i]) /\ ValidItem(items[j]) BY <1>1 DEF ValidItems
  <1>3. items[i].key = items[i].content.name /\ items[j].key = items[j].content.name
    BY <1>2 DEF ValidItem, ValidContent, ValidSchemaType
  <1>4. items[i].key = items[j].key BY <1>3
  <1>5. IsInjective([k \in DOMAIN items |-> items[k].key]) BY <1>1 DEF ValidItems
  <1> QED BY <1>4, <1>5 DEF IsInjective

LEMMA NamesFollow == ChainsValid => OneTypePerName
  <1> SUFFICES ASSUME ChainsValid, NEW r \in Committed
               PROVE  LET types == {i \in DOMAIN r.manifest.semanticItems :
                                      r.manifest.semanticItems[i].kind = "schema_type"}
                          item(i) == r.manifest.semanticItems[i]
                      IN  \A i, j \in types :
                            {item(i).key, item(i).content.name}
                              \cap {item(j).key, item(j).content.name} # {} => i = j
    BY DEF OneTypePerName
  <1>1. ValidRevision(r) BY CommittedAreValid
  <1> QED BY <1>1, ValidTypesHaveOneName

\* In every adopted revision a declared type has one declaration, by its name
\* and by the key of its item (validate_semantic_item_shape).
THEOREM OneTypeAlways == Spec => []OneTypePerName
  <1>1. ChainsValid /\ [Next]_vars => ChainsValid' BY ChainsValidNext
  <1> QED BY ChainsValidInit, <1>1, NamesFollow, PTL DEF Spec

-------------------------------------------------------------------------------
(***************************************************************************)
(* What a vault adopts was reviewed, approved and released: an adopted     *)
(* revision is grounded, which says that the subject it names was drafted  *)
(* and is the one it carries, and that the approval and the answer it      *)
(* quotes were given.  `validate_shape` does the rest, by comparing what   *)
(* is quoted.                                                              *)
(***************************************************************************)

IsSeq(s) == \E elements : s \in Seq(elements)

LEMMA AppendFacts ==
  ASSUME NEW s, IsSeq(s), NEW e
  PROVE  /\ IsSeq(Append(s, e))
         /\ Len(s) \in Nat /\ DOMAIN s = 1 .. Len(s)
         /\ DOMAIN Append(s, e) = 1 .. Len(s) + 1
         /\ \A i \in DOMAIN s : Append(s, e)[i] = s[i]
         /\ Append(s, e)[Len(s) + 1] = e
  <1>1. PICK elements : s \in Seq(elements) BY DEF IsSeq
  <1> DEFINE more == elements \union {e}
  <1>2. s \in Seq(more) /\ e \in more BY <1>1
  <1> HIDE DEF more
  <1>3. Append(s, e) \in Seq(more) BY <1>2
  <1>4. IsSeq(Append(s, e)) BY <1>3 DEF IsSeq
  <1> QED BY <1>2, <1>4

\* The heads a subject may be reviewed against.
Heads == {None} \union {RevisionRef(d) : d \in Nat}

IsSubject(s) ==
  /\ s = [field \in SubjectFields |-> s[field]]
  /\ s.target.ontologyRevision \in Heads

SubjectsReal(drafted) ==
  /\ IsSeq(drafted)
  /\ \A n \in DOMAIN drafted : IsSubject(drafted[n])
  /\ IsInjective(drafted)

Grounded(r, drafted, approved, answered) ==
  LET attestation == r.manifest.approval.attestation
      n == r.manifest.electionSubjectSha256
  IN  /\ r.manifestSha256 \in Nat
      /\ n \in DOMAIN drafted /\ ElectionSubject(r.manifest) = drafted[n]
      /\ attestation.sourceOwnerConsent.consent \in answered
      /\ \E given \in approved : given.approval = attestation.approval

AllGrounded(drafted, approved, answered) ==
  \A v \in Vaults : \A k \in DOMAIN chain[v] : Grounded(chain[v][k], drafted, approved, answered)

ReviewInv ==
  /\ ChainsValid
  /\ IsSeq(manifests)
  /\ SubjectsReal(subjects)
  /\ AllGrounded(subjects, approvals, answers)
  /\ OnReviewedHead

-------------------------------------------------------------------------------
\* Drafting adds a subject, and what was grounded stays so.

LEMMA DraftedStayReal ==
  ASSUME NEW drafted, SubjectsReal(drafted), NEW s, IsSubject(s), ~Contains(drafted, s)
  PROVE  SubjectsReal(Append(drafted, s))
  <1>1. IsSeq(drafted) BY DEF SubjectsReal
  <1>2. /\ IsSeq(Append(drafted, s))
        /\ Len(drafted) \in Nat /\ DOMAIN drafted = 1 .. Len(drafted)
        /\ DOMAIN Append(drafted, s) = 1 .. Len(drafted) + 1
        /\ \A i \in DOMAIN drafted : Append(drafted, s)[i] = drafted[i]
        /\ Append(drafted, s)[Len(drafted) + 1] = s
    BY <1>1, AppendFacts
  <1>3. \A i \in DOMAIN drafted : drafted[i] # s BY <1>2 DEF Contains
  <1>4. \A i \in DOMAIN Append(drafted, s) : i \in DOMAIN drafted \/ i = Len(drafted) + 1 BY <1>2
  <1>5. \A i \in DOMAIN Append(drafted, s) : IsSubject(Append(drafted, s)[i])
    BY <1>2, <1>4 DEF SubjectsReal
  <1>6. IsInjective(Append(drafted, s)) BY <1>2, <1>3, <1>4 DEF SubjectsReal, IsInjective
  <1> QED BY <1>2, <1>5, <1>6 DEF SubjectsReal

LEMMA GroundedStays ==
  ASSUME NEW r, NEW drafted, IsSeq(drafted), NEW s, NEW approved, NEW answered,
         NEW approved2, approved \subseteq approved2, NEW answered2, answered \subseteq answered2,
         Grounded(r, drafted, approved, answered)
  PROVE  /\ Grounded(r, drafted, approved2, answered2)
         /\ Grounded(r, Append(drafted, s), approved2, answered2)
  <1>1. DOMAIN drafted \subseteq DOMAIN Append(drafted, s)
        /\ \A i \in DOMAIN drafted : Append(drafted, s)[i] = drafted[i]
    BY AppendFacts
  <1> QED BY <1>1 DEF Grounded

\* A step that leaves the chains alone.
LEMMA DeskworkKeepsReview ==
  ASSUME ReviewInv, UNCHANGED <<manifests, chain>>,
         approvals \subseteq approvals', answers \subseteq answers',
         \/ UNCHANGED subjects
         \/ \E s : IsSubject(s) /\ ~Contains(subjects, s) /\ subjects' = Append(subjects, s)
  PROVE  ReviewInv'
  <1>1. ChainsValid' BY DEF ReviewInv, ChainsValid, ChainsOver
  <1>2. OnReviewedHead' BY DEF ReviewInv, OnReviewedHead, Before
  <1>3. IsSeq(manifests') BY DEF ReviewInv
  <1>4. SubjectsReal(subjects') BY DraftedStayReal DEF ReviewInv
  <1>5. AllGrounded(subjects, approvals, answers) /\ IsSeq(subjects)
    BY DEF ReviewInv, SubjectsReal
  <1>6. ASSUME NEW v \in Vaults, NEW k \in DOMAIN chain[v]
        PROVE  Grounded(chain[v][k], subjects', approvals', answers')
    <2>1. Grounded(chain[v][k], subjects, approvals, answers) BY <1>5 DEF AllGrounded
    <2>2. ASSUME NEW s
          PROVE  /\ Grounded(chain[v][k], subjects, approvals', answers')
                 /\ Grounded(chain[v][k], Append(subjects, s), approvals', answers')
      BY <1>5, <2>1, GroundedStays
    <2>3. CASE UNCHANGED subjects BY <2>2, <2>3
    <2>4. CASE \E s : subjects' = Append(subjects, s) BY <2>2, <2>4
    <2> QED BY <2>3, <2>4
  <1>7. AllGrounded(subjects, approvals, answers)' BY <1>6 DEF AllGrounded
  <1> QED BY <1>1, <1>2, <1>3, <1>4, <1>7 DEF ReviewInv

-------------------------------------------------------------------------------
\* Heads

LEMMA ChainsAreSeqs ==
  ASSUME ChainsValid, NEW v \in Vaults
  PROVE  IsSeq(chain[v])
  BY DEF ChainsValid, ChainsOver, IsSeq

LEMMA HeadIsHead ==
  ASSUME ReviewInv, NEW v \in Vaults
  PROVE  HeadOf(v) \in Heads
  <1>1. CASE chain[v] = <<>> BY <1>1 DEF HeadOf, Heads
  <1>2. CASE chain[v] # <<>>
    <2>1. IsSeq(chain[v]) BY ChainsAreSeqs DEF ReviewInv
    <2>2. Len(chain[v]) \in DOMAIN chain[v] BY <1>2, <2>1 DEF IsSeq
    <2>3. Last(chain[v]).manifestSha256 \in Nat
      BY <2>2 DEF ReviewInv, AllGrounded, Grounded, Last
    <2> QED BY <1>2, <2>3 DEF HeadOf, Heads
  <1> QED BY <1>1, <1>2

\* Two heads with one identity are one head.
LEMMA HeadsByIdentity ==
  ASSUME NEW g \in Heads, NEW h \in Heads,
         (IF g = None THEN None ELSE g.id) = (IF h = None THEN None ELSE h.id)
  PROVE  g = h
  <1>1. \A x \in Heads : x = None \/ \E d \in Nat : x = RevisionRef(d) BY DEF Heads
  <1>2. \A d \in Nat : RevisionRef(d).id # None
    BY OntologyElectionAssumption DEF RevisionRef, RevisionId
  <1>3. \A d, e \in Nat : RevisionRef(d).id = RevisionRef(e).id => d = e
    BY DEF RevisionRef, RevisionId
  <1>4. CASE g = None BY <1>1, <1>2, <1>4
  <1>5. CASE h = None BY <1>1, <1>2, <1>5
  <1>6. CASE g # None /\ h # None
    <2>1. PICK d \in Nat : g = RevisionRef(d) BY <1>1, <1>6
    <2>2. PICK e \in Nat : h = RevisionRef(e) BY <1>1, <1>6
    <2> QED BY <1>3, <1>6, <2>1, <2>2
  <1> QED BY <1>4, <1>5, <1>6

\* A stamped revision that is valid was reviewed at the head it is appended to.
LEMMA StampedFollowsReview ==
  ASSUME ReviewInv, NEW manifest, NEW d, NEW caller, ValidRevision(Stamped(manifest, d, caller)),
         manifest.target.ontologyRevision \in Heads, manifest.target.vaultId \in Vaults
  PROVE  manifest.target.ontologyRevision = HeadOf(manifest.target.vaultId)
  <1> DEFINE r == Stamped(manifest, d, caller)
             head == HeadOf(manifest.target.vaultId)
  <1>1. PositionFollowsReview(r) BY DEF ValidRevision
  <1>2. r.manifest = manifest BY DEF Stamped
  <1>3. r.conditional.previousRevisionId = IF head = None THEN None ELSE head.id BY DEF Stamped
  <1>4. head \in Heads BY HeadIsHead
  <1> HIDE DEF r, head
  <1>5. (IF head = None THEN None ELSE head.id)
          = IF manifest.target.ontologyRevision = None
            THEN None ELSE manifest.target.ontologyRevision.id
    BY <1>1, <1>2, <1>3 DEF PositionFollowsReview
  <1>6. manifest.target.ontologyRevision = head BY <1>4, <1>5, HeadsByIdentity
  <1> QED BY <1>6 DEF head

-------------------------------------------------------------------------------
\* Publishing

LEMMA CommitAppends ==
  ASSUME ChainsValid, NEW revision, Commit(revision), NEW v \in Vaults
  PROVE  IF v = revision.manifest.target.vaultId
         THEN chain'[v] = Append(chain[v], revision)
         ELSE chain'[v] = chain[v]
  <1>1. PICK revisions : chain \in [Vaults -> Seq(revisions)] BY DEF ChainsValid, ChainsOver
  <1>2. chain' = [chain EXCEPT ![revision.manifest.target.vaultId] = Append(@, revision)]
    BY DEF Commit
  <1> QED BY <1>1, <1>2

\* A revision of a chain is an earlier one, or the one just appended.
LEMMA CommittedNow ==
  ASSUME ChainsValid, NEW revision, Commit(revision), NEW v \in Vaults,
         NEW k \in DOMAIN (chain'[v])
  PROVE  \/ k \in DOMAIN chain[v] /\ chain'[v][k] = chain[v][k]
         \/ /\ v = revision.manifest.target.vaultId
            /\ k = Len(chain[v]) + 1 /\ chain'[v][k] = revision
  <1>1. IsSeq(chain[v]) BY ChainsAreSeqs
  <1>2. CASE v = revision.manifest.target.vaultId
    <2>1. chain'[v] = Append(chain[v], revision) BY <1>2, CommitAppends
    <2>2. /\ Len(chain[v]) \in Nat /\ DOMAIN chain[v] = 1 .. Len(chain[v])
          /\ DOMAIN Append(chain[v], revision) = 1 .. Len(chain[v]) + 1
          /\ \A i \in DOMAIN chain[v] : Append(chain[v], revision)[i] = chain[v][i]
          /\ Append(chain[v], revision)[Len(chain[v]) + 1] = revision
      BY <1>1, AppendFacts
    <2>3. k \in DOMAIN chain[v] \/ k = Len(chain[v]) + 1 BY <2>1, <2>2
    <2> QED BY <1>2, <2>1, <2>2, <2>3
  <1>3. CASE v # revision.manifest.target.vaultId
    <2>1. chain'[v] = chain[v] BY <1>3, CommitAppends
    <2> QED BY <2>1
  <1> QED BY <1>2, <1>3

\* What was before a place in a chain stays before it.
LEMMA BeforeStays ==
  ASSUME ChainsValid, NEW revision, Commit(revision), NEW v \in Vaults,
         NEW k \in DOMAIN chain[v]
  PROVE  Before(v, k)' = Before(v, k)
  <1>1. IsSeq(chain[v]) BY ChainsAreSeqs
  <1>2. CASE v = revision.manifest.target.vaultId
    <2>1. chain'[v] = Append(chain[v], revision) BY <1>2, CommitAppends
    <2>2. /\ Len(chain[v]) \in Nat /\ DOMAIN chain[v] = 1 .. Len(chain[v])
          /\ \A i \in DOMAIN chain[v] : Append(chain[v], revision)[i] = chain[v][i]
      BY <1>1, AppendFacts
    <2>3. k # 1 => k - 1 \in DOMAIN chain[v] BY <2>2
    <2> QED BY <2>1, <2>2, <2>3 DEF Before
  <1>3. CASE v # revision.manifest.target.vaultId
    <2>1. chain'[v] = chain[v] BY <1>3, CommitAppends
    <2> QED BY <2>1 DEF Before
  <1> QED BY <1>2, <1>3

\* What is before the new place is the head that was.
LEMMA BeforeNew ==
  ASSUME ChainsValid, NEW revision, Commit(revision),
         NEW v \in Vaults, v = revision.manifest.target.vaultId,
         NEW k, k = Len(chain[v]) + 1
  PROVE  Before(v, k)' = HeadOf(v)
  <1>1. IsSeq(chain[v]) BY ChainsAreSeqs
  <1>2. chain'[v] = Append(chain[v], revision) BY CommitAppends
  <1>3. /\ Len(chain[v]) \in Nat /\ DOMAIN chain[v] = 1 .. Len(chain[v])
        /\ \A i \in DOMAIN chain[v] : Append(chain[v], revision)[i] = chain[v][i]
    BY <1>1, AppendFacts
  <1>4. chain[v] = <<>> <=> Len(chain[v]) = 0 BY <1>1 DEF IsSeq
  <1> DEFINE n == Len(chain[v])
  <1>5. CASE n = 0
    <2>1. HeadOf(v) = None BY <1>4, <1>5 DEF HeadOf
    <2> QED BY <1>5, <2>1 DEF Before
  <1>6. CASE n # 0
    <2>1. HeadOf(v) = RevisionRef(chain[v][n].manifestSha256) BY <1>4, <1>6 DEF HeadOf, Last
    <2>2. n \in DOMAIN chain[v] /\ k # 1 /\ k - 1 = n BY <1>3, <1>6
    <2>3. chain'[v][n] = chain[v][n] BY <1>2, <1>3, <2>2
    <2> QED BY <2>1, <2>2, <2>3 DEF Before
  <1> QED BY <1>5, <1>6

\* Appending a grounded revision that was reviewed at the head.
LEMMA CommitKeepsReview ==
  ASSUME ReviewInv, NEW revision, Commit(revision),
         SubjectsReal(subjects'), AllGrounded(subjects', approvals', answers'),
         Grounded(revision, subjects', approvals', answers'),
         revision.manifest.target.vaultId \in Vaults =>
           revision.manifest.target.ontologyRevision = HeadOf(revision.manifest.target.vaultId)
  PROVE  ReviewInv'
  <1>1. ChainsValid /\ OnReviewedHead /\ IsSeq(manifests) BY DEF ReviewInv
  <1>2. ChainsValid' BY <1>1, CommitKeepsValid
  <1>3. IsSeq(manifests')
    <2>1. manifests' = Append(manifests, revision.manifest) BY DEF Commit
    <2> QED BY <1>1, <2>1, AppendFacts
  <1>4. ASSUME NEW v \in Vaults, NEW k \in DOMAIN (chain'[v])
        PROVE  /\ Grounded(chain'[v][k], subjects', approvals', answers')
               /\ chain'[v][k].manifest.target.ontologyRevision = Before(v, k)'
    <2>1. CASE k \in DOMAIN chain[v] /\ chain'[v][k] = chain[v][k]
      <3>1. Grounded(chain[v][k], subjects', approvals', answers') BY <2>1 DEF AllGrounded
      <3>2. chain[v][k].manifest.target.ontologyRevision = Before(v, k)
        BY <1>1, <2>1 DEF OnReviewedHead
      <3>3. Before(v, k)' = Before(v, k) BY <1>1, <2>1, BeforeStays
      <3> QED BY <2>1, <3>1, <3>2, <3>3
    <2>2. CASE /\ v = revision.manifest.target.vaultId
               /\ k = Len(chain[v]) + 1 /\ chain'[v][k] = revision
      <3>1. Before(v, k)' = HeadOf(v) BY <1>1, <2>2, BeforeNew
      <3> QED BY <2>2, <3>1
    <2> QED BY <1>1, <2>1, <2>2, CommittedNow
  <1>5. AllGrounded(subjects, approvals, answers)' BY <1>4 DEF AllGrounded
  <1>6. OnReviewedHead' BY <1>4 DEF OnReviewedHead
  <1> QED BY <1>2, <1>3, <1>5, <1>6 DEF ReviewInv

\* A manifest carries the subject it is put together from.
LEMMA ManifestCarriesSubject ==
  ASSUME NEW s, IsSubject(s), NEW n, NEW attestation, NEW m, m = ManifestFor(n, s, attestation)
  PROVE  /\ m.electionSubjectSha256 = n /\ m.approval.attestation = attestation
         /\ m.target = s.target /\ ElectionSubject(m) = s
  <1> DEFINE own == [contractVersion |-> 1, electionSubjectSha256 |-> n,
                     approval |-> [contentSha256 |-> 1, attestation |-> attestation]]
  <1>1. m = [field \in DOMAIN own \union SubjectFields |->
               IF field \in DOMAIN own THEN own[field] ELSE s[field]]
    BY DEF ManifestFor
  <1>2. DOMAIN own = {"contractVersion", "electionSubjectSha256", "approval"} OBVIOUS
  <1>3. (DOMAIN own) \cap SubjectFields = {} /\ "target" \in SubjectFields
    BY <1>2 DEF SubjectFields
  <1>4. \A field \in SubjectFields : m[field] = s[field] BY <1>1, <1>3
  <1>5. ElectionSubject(m) = s BY <1>4 DEF ElectionSubject, IsSubject
  <1>6. m.electionSubjectSha256 = n /\ m.approval = own.approval BY <1>1, <1>2
  <1> QED BY <1>3, <1>4, <1>5, <1>6

LEMMA PublishKeepsReview ==
  ASSUME ReviewInv, NEW n \in DOMAIN subjects, NEW approved \in approvals,
         NEW answer \in answers, NEW caller, Publish(n, approved, answer, caller)
  PROVE  ReviewInv'
  <1>1. PICK records, named :
          Commit(Stamped(ManifestFor(n, subjects[n],
                                     AttestationFor(n, named, approved,
                                                    ConsentFor(n, answer, records))),
                         Len(manifests) + 1, caller))
    BY DEF Publish
  <1> DEFINE consent == ConsentFor(n, answer, records)
             attestation == AttestationFor(n, named, approved, consent)
             m == ManifestFor(n, subjects[n], attestation)
             r == Stamped(m, Len(manifests) + 1, caller)
  <1>2. UNCHANGED <<policy, subjects, approvals, answers>> BY DEF Publish
  <1>3. IsSubject(subjects[n]) /\ Len(manifests) + 1 \in Nat
    BY DEF ReviewInv, SubjectsReal, IsSeq
  <1>4. m = ManifestFor(n, subjects[n], attestation) OBVIOUS
  <1>5. r.manifest = m /\ r.manifestSha256 = Len(manifests) + 1 BY DEF Stamped
  <1>6. attestation.sourceOwnerConsent = consent /\ attestation.approval = approved.approval
    BY DEF AttestationFor
  <1>7. consent.consent = answer BY DEF ConsentFor
  <1>8. Commit(r) BY <1>1
  <1> HIDE DEF consent, attestation, m, r
  <1>9. /\ m.electionSubjectSha256 = n /\ m.approval.attestation = attestation
        /\ m.target = subjects[n].target /\ ElectionSubject(m) = subjects[n]
    BY <1>3, <1>4, ManifestCarriesSubject
  <1>10. Grounded(r, subjects, approvals, answers)
    BY <1>3, <1>5, <1>6, <1>7, <1>9 DEF Grounded
  <1>11. m.target.vaultId \in Vaults => m.target.ontologyRevision = HeadOf(m.target.vaultId)
    <2>1. ValidRevision(r) BY <1>8 DEF Commit
    <2>2. m.target.ontologyRevision \in Heads BY <1>3, <1>9 DEF IsSubject
    <2> QED BY <2>1, <2>2, StampedFollowsReview DEF r
  <1>12. SubjectsReal(subjects') /\ AllGrounded(subjects', approvals', answers')
    BY <1>2 DEF ReviewInv
  <1>13. Grounded(r, subjects', approvals', answers') BY <1>2, <1>10
  <1> QED BY <1>5, <1>8, <1>11, <1>12, <1>13, CommitKeepsReview

\* The archive of the suite is imported before anything else.
LEMMA ImportKeepsReview ==
  ASSUME ReviewInv, NEW caller, ImportGenesis(caller)
  PROVE  ReviewInv'
  <1>1. PICK attestation :
          /\ Commit(Stamped(ManifestFor(1, GenesisSubject, attestation), 1, caller))
          /\ attestation.sourceOwnerConsent.consent = GenesisAnswer(1)
          /\ attestation.approval = GenesisApproval
    BY DEF ImportGenesis
  <1> DEFINE m == ManifestFor(1, GenesisSubject, attestation)
             r == Stamped(m, 1, caller)
  <1>2. /\ subjects = <<>> /\ subjects' = <<GenesisSubject>>
        /\ approvals' = {[subject |-> 1, approval |-> GenesisApproval]}
        /\ answers' = {GenesisAnswer(1)}
    BY DEF ImportGenesis
  <1>3. r.manifest = m /\ r.manifestSha256 = 1 BY DEF Stamped
  <1>4. m = ManifestFor(1, GenesisSubject, attestation) OBVIOUS
  <1>5. Commit(r) BY <1>1
  <1> HIDE DEF m, r
  <1>6. IsSubject(GenesisSubject)
    <2>1. GenesisSubject = [field \in SubjectFields |-> GenesisSubject[field]]
      BY DEF GenesisSubject, SubjectFields
    <2>2. GenesisSubject.target.ontologyRevision = None BY DEF GenesisSubject, GenesisTarget, Pin
    <2> QED BY <2>1, <2>2 DEF IsSubject, Heads
  <1>7. /\ m.electionSubjectSha256 = 1 /\ m.approval.attestation = attestation
        /\ m.target = GenesisSubject.target /\ ElectionSubject(m) = GenesisSubject
    BY <1>4, <1>6, ManifestCarriesSubject
  <1>8. DOMAIN subjects' = {1} /\ subjects'[1] = GenesisSubject /\ IsSeq(subjects')
    <2>1. <<GenesisSubject>> \in Seq({GenesisSubject}) OBVIOUS
    <2>2. IsSeq(<<GenesisSubject>>) BY <2>1 DEF IsSeq
    <2>3. DOMAIN <<GenesisSubject>> = {1} /\ <<GenesisSubject>>[1] = GenesisSubject OBVIOUS
    <2> QED BY <1>2, <2>2, <2>3
  <1>9. Grounded(r, subjects', approvals', answers')
    BY <1>1, <1>2, <1>3, <1>7, <1>8 DEF Grounded
  <1>10. m.target.vaultId \in Vaults => m.target.ontologyRevision = HeadOf(m.target.vaultId)
    <2>1. ValidRevision(r) BY <1>5 DEF Commit
    <2>2. m.target.ontologyRevision \in Heads BY <1>6, <1>7 DEF IsSubject
    <2> QED BY <2>1, <2>2, StampedFollowsReview DEF r
  <1>11. SubjectsReal(subjects') BY <1>6, <1>8 DEF SubjectsReal, IsInjective
  <1>12. AllGrounded(subjects', approvals', answers')
    <2>1. \A v \in Vaults : \A k \in DOMAIN chain[v] : FALSE
      BY <1>2 DEF ReviewInv, AllGrounded, Grounded
    <2> QED BY <2>1 DEF AllGrounded
  <1> QED BY <1>3, <1>5, <1>9, <1>10, <1>11, <1>12, CommitKeepsReview

-------------------------------------------------------------------------------

LEMMA ReviewInvInit == Init => ReviewInv
  <1> SUFFICES ASSUME Init PROVE ReviewInv OBVIOUS
  <1>1. ChainsValid BY ChainsValidInit
  <1>2. <<>> \in Seq({}) OBVIOUS
  <1>3. IsSeq(manifests) /\ IsSeq(subjects) BY <1>2 DEF IsSeq, Init
  <1>4. SubjectsReal(subjects) BY <1>3 DEF SubjectsReal, IsInjective, Init
  <1>5. AllGrounded(subjects, approvals, answers) /\ OnReviewedHead
    BY DEF AllGrounded, OnReviewedHead, Init
  <1> QED BY <1>1, <1>3, <1>4, <1>5 DEF ReviewInv

LEMMA ReviewInvNext == ReviewInv /\ [Next]_vars => ReviewInv'
  <1> SUFFICES ASSUME ReviewInv, [Next]_vars PROVE ReviewInv' OBVIOUS
  <1>1. ASSUME NEW from \in Vaults, NEW into \in Vaults, NEW plan, Draft(from, into, plan)
        PROVE  ReviewInv'
    <2>1. PICK s : /\ s = [field \in SubjectFields |-> s[field]] /\ s.target = PinOf(into)
                   /\ ~Contains(subjects, s) /\ subjects' = Append(subjects, s)
      BY <1>1 DEF Draft, SubjectFields
    <2>2. s.target.ontologyRevision \in Heads BY <2>1, HeadIsHead DEF PinOf, Pin
    <2>3. IsSubject(s) BY <2>1, <2>2 DEF IsSubject
    <2>4. UNCHANGED <<manifests, chain, approvals, answers>> BY <1>1 DEF Draft
    <2> QED BY <2>1, <2>3, <2>4, DeskworkKeepsReview
  <1>2. ASSUME NEW n, NEW valid, Approve(n, valid) PROVE ReviewInv'
    BY <1>2, DeskworkKeepsReview DEF Approve
  <1>3. ASSUME NEW n, NEW valid, NEW released, Answer(n, valid, released) PROVE ReviewInv'
    BY <1>3, DeskworkKeepsReview DEF Answer
  <1>4. CASE ChangePolicy BY <1>4, DeskworkKeepsReview DEF ChangePolicy
  <1>5. CASE UNCHANGED vars BY <1>5, DeskworkKeepsReview DEF vars
  <1> QED BY <1>1, <1>2, <1>3, <1>4, <1>5, PublishKeepsReview, ImportKeepsReview DEF Next

LEMMA ReviewAlways == Spec => []ReviewInv
  <1>1. ReviewInv /\ [Next]_vars => ReviewInv' BY ReviewInvNext
  <1> QED BY ReviewInvInit, <1>1, PTL DEF Spec

-------------------------------------------------------------------------------
\* What the invariant says to a vault

LEMMA ReversesFollow == ReviewInv => ReversesItsPredecessor
  <1> SUFFICES ASSUME ReviewInv, NEW v \in Vaults, NEW k \in DOMAIN chain[v],
                      chain[v][k].manifest.reverses # None
               PROVE  Before(v, k) # None /\ chain[v][k].manifest.reverses = Before(v, k).id
    BY DEF ReversesItsPredecessor
  <1>1. chain[v][k] \in Committed BY DEF Committed, ToSet
  <1>2. ReviewedHead(chain[v][k].manifest)
    BY <1>1, CommittedAreValid DEF ReviewInv, ValidRevision, ValidManifest
  <1>3. chain[v][k].manifest.target.ontologyRevision = Before(v, k)
    BY DEF ReviewInv, OnReviewedHead
  <1> QED BY <1>2, <1>3 DEF ReviewedHead

LEMMA CommittedAreGrounded ==
  ASSUME ReviewInv, NEW r \in Committed
  PROVE  Grounded(r, subjects, approvals, answers) /\ ValidRevision(r)
  <1>1. PICK v \in Vaults : r \in ToSet(chain[v]) BY DEF Committed
  <1>2. PICK k \in DOMAIN chain[v] : r = chain[v][k] BY <1>1 DEF ToSet
  <1> QED BY <1>2, CommittedAreValid DEF ReviewInv, AllGrounded

\* No two subjects have one content: the subject a revision carries is the one
\* whose digest it names.
LEMMA SubjectIsNamed ==
  ASSUME ReviewInv, NEW r, Grounded(r, subjects, approvals, answers)
  PROVE  SubjectOf(r) = r.manifest.electionSubjectSha256
  <1> DEFINE named == r.manifest.electionSubjectSha256
  <1>1. named \in DOMAIN subjects /\ subjects[named] = ElectionSubject(r.manifest)
    BY DEF Grounded
  <1>2. IsInjective(subjects) BY DEF ReviewInv, SubjectsReal
  <1>3. \A n \in DOMAIN subjects : subjects[n] = ElectionSubject(r.manifest) => n = named
    BY <1>1, <1>2 DEF IsInjective
  <1> QED BY <1>1, <1>3 DEF SubjectOf

LEMMA DisclosureFollows == ReviewInv => NothingUndisclosed
  <1> SUFFICES ASSUME ReviewInv, NEW r \in Committed
               PROVE  \E answer \in answers :
                        /\ answer.valid
                        /\ answer.electionSubjectSha256 = SubjectOf(r)
                        /\ answer.source.vaultId = r.manifest.source.vaultId
                        /\ CitedRecords(r.manifest) \subseteq ToSet(answer.publishedRecords)
                        /\ Lineage(r.manifest) \subseteq ToSet(answer.publishedRevisionRefs)
    BY DEF NothingUndisclosed
  <1> DEFINE m == r.manifest
             consent == m.approval.attestation.sourceOwnerConsent
             answer == consent.consent
  <1>1. Grounded(r, subjects, approvals, answers) /\ ValidManifest(m)
    BY CommittedAreGrounded DEF ValidRevision
  <1>2. answer \in answers /\ SubjectOf(r) = m.electionSubjectSha256
    BY <1>1, SubjectIsNamed DEF Grounded
  <1>3. ConsentBinds(m) BY <1>1 DEF ValidManifest
  <1>4. /\ consent.electionSubjectSha256 = m.electionSubjectSha256
        /\ consent.source = m.source
        /\ consent.publishedRecords = m.publishedRecords
        /\ consent.publishedRevisionRefs = m.publishedRevisionRefs
    BY <1>3 DEF ConsentBinds
  <1>5. ConsentAgrees(consent) BY <1>3 DEF ConsentBinds, ValidConsent
  <1>6. /\ answer.valid
        /\ answer.electionSubjectSha256 = consent.electionSubjectSha256
        /\ answer.publishedRecords = consent.publishedRecords
        /\ answer.publishedRevisionRefs = consent.publishedRevisionRefs
        /\ answer.source.vaultId = consent.source.vaultId
    BY <1>5 DEF ConsentAgrees
  <1>7. CitedRecords(m) \subseteq ToSet(m.publishedRecords)
    BY <1>1 DEF ValidManifest, RecordsPublished
  <1>8. Lineage(m) \subseteq ToSet(m.publishedRevisionRefs)
    BY <1>1 DEF ValidManifest, LineagePublished
  <1> HIDE DEF m, consent, answer
  <1>9. /\ CitedRecords(m) \subseteq ToSet(answer.publishedRecords)
        /\ Lineage(m) \subseteq ToSet(answer.publishedRevisionRefs)
        /\ answer.source.vaultId = m.source.vaultId
        /\ answer.electionSubjectSha256 = SubjectOf(r)
    BY <1>2, <1>4, <1>6, <1>7, <1>8
  <1> QED BY <1>2, <1>6, <1>9 DEF m

LEMMA ApprovalFollows == ReviewInv => ApprovedAsAttested
  <1> SUFFICES ASSUME ReviewInv, NEW r \in Committed
               PROVE  LET attestation == r.manifest.approval.attestation IN
                      /\ attestation.electionSubjectSha256 = SubjectOf(r)
                      /\ \E approved \in approvals :
                           /\ approved.approval = attestation.approval
                           /\ approved.approval.valid
                           /\ approved.approval.policyRevision =
                                attestation.authorityPolicyRevision
                           /\ approved.approval.policySha256 =
                                attestation.authorityPolicySha256
    BY DEF ApprovedAsAttested
  <1> DEFINE m == r.manifest
             attestation == m.approval.attestation
  <1>1. Grounded(r, subjects, approvals, answers) /\ ValidManifest(m)
    BY CommittedAreGrounded DEF ValidRevision
  <1>2. PICK given \in approvals : given.approval = attestation.approval
    BY <1>1 DEF Grounded
  <1>3. SubjectOf(r) = m.electionSubjectSha256 BY <1>1, SubjectIsNamed
  <1>4. /\ attestation.electionSubjectSha256 = m.electionSubjectSha256
        /\ ValidAttestation(attestation)
    BY <1>1 DEF ValidManifest, ApprovalBinds
  <1>5. /\ attestation.approval.valid
        /\ attestation.approval.policyRevision = attestation.authorityPolicyRevision
        /\ attestation.approval.policySha256 = attestation.authorityPolicySha256
    BY <1>4 DEF ValidAttestation
  <1> QED BY <1>2, <1>3, <1>4, <1>5

\* Every revision of a vault follows the one it was reviewed against: of two
\* elections reviewed at one head only one is adopted, whatever came between
\* the review and the publishing (OntologyRevision::validate_shape).
THEOREM ReviewedHeadAlways == Spec => []OnReviewedHead
  <1>1. ReviewInv => OnReviewedHead BY DEF ReviewInv
  <1> QED BY ReviewAlways, <1>1, PTL

\* An adopted revision reverses the one it replaces and no other.
THEOREM ReversalAlways == Spec => []ReversesItsPredecessor
  <1> QED BY ReviewAlways, ReversesFollow, PTL

\* Nothing reaches a vault that the owner of the source did not release when
\* asked about just that subject, however an executor combines the answers and
\* approvals it has been given (the validate_shape of consent and manifest).
THEOREM DisclosureAlways == Spec => []NothingUndisclosed
  <1> QED BY ReviewAlways, DisclosureFollows, PTL

\* Every adopted revision attests the subject it carries and keeps a reviewer's
\* approval, valid and under the policy that it attests, whichever approvals and
\* subjects an executor puts together (the validate_shape of the attestation).
THEOREM ApprovalAlways == Spec => []ApprovedAsAttested
  <1> QED BY ReviewAlways, ApprovalFollows, PTL

-------------------------------------------------------------------------------
(***************************************************************************)
(* What the records of an election refer to is there: subjects are drafted *)
(* and never withdrawn, and a revision is filed with the vault it was      *)
(* elected for, under the digest its manifest has just been given.         *)
(***************************************************************************)

AnsweredAreDrafted ==
  /\ \A approved \in approvals : approved.subject \in DOMAIN subjects
  /\ \A answer \in answers : answer.electionSubjectSha256 \in DOMAIN subjects

Filed(r, v, digested) ==
  /\ r.manifest.target.vaultId = v
  /\ r.manifestSha256 \in DOMAIN digested
  /\ digested[r.manifestSha256] = r.manifest
  /\ r.id = RevisionId(r.manifestSha256)

AllFiled == \A v \in Vaults : \A k \in DOMAIN chain[v] : Filed(chain[v][k], v, manifests)

\* Nothing is digested before the first subject, so that the archive of the
\* suite has the first digest.
TypeInv ==
  /\ policy \in 1 .. MaxPolicies
  /\ Len(subjects) <= MaxSubjects
  /\ AnsweredAreDrafted
  /\ AllFiled
  /\ subjects = <<>> => manifests = <<>>

LEMMA TypesFollow == TypeInv => TypeOK
  <1> SUFFICES ASSUME TypeInv PROVE TypeOK OBVIOUS
  <1>1. \A v \in Vaults : \A r \in ToSet(chain[v]) : Filed(r, v, manifests)
    BY DEF TypeInv, AllFiled, ToSet
  <1> QED BY <1>1 DEF TypeInv, TypeOK, AnsweredAreDrafted, Filed

LEMMA TypesInit == Init => TypeInv
  BY OntologyElectionAssumption DEF Init, TypeInv, AnsweredAreDrafted, AllFiled

\* Drafting leaves the earlier subjects where they are.
LEMMA DraftKeepsTypes ==
  ASSUME ReviewInv, TypeInv, NEW from, NEW into, NEW plan, Draft(from, into, plan)
  PROVE  TypeInv'
  <1>1. PICK s : subjects' = Append(subjects, s) BY DEF Draft
  <1>2. /\ Len(subjects) < MaxSubjects
        /\ UNCHANGED <<policy, approvals, answers, manifests, chain>>
    BY DEF Draft
  <1>3. IsSeq(subjects) BY DEF ReviewInv, SubjectsReal
  <1>4. /\ Len(subjects) \in Nat /\ DOMAIN subjects = 1 .. Len(subjects)
        /\ DOMAIN Append(subjects, s) = 1 .. Len(subjects) + 1
    BY <1>3, AppendFacts
  <1>5. Len(Append(subjects, s)) = Len(subjects) + 1
    <2>1. PICK elements : subjects \in Seq(elements) BY <1>3 DEF IsSeq
    <2>2. subjects \in Seq(elements \union {s}) /\ s \in elements \union {s} BY <2>1
    <2> QED BY <2>2
  <1>6. Len(subjects') <= MaxSubjects
    BY <1>1, <1>2, <1>4, <1>5, OntologyElectionAssumption
  <1>7. DOMAIN subjects \subseteq DOMAIN subjects' BY <1>1, <1>4
  <1>8. AnsweredAreDrafted' BY <1>2, <1>7 DEF TypeInv, AnsweredAreDrafted
  <1>9. AllFiled' BY <1>2 DEF TypeInv, AllFiled
  <1>10. subjects' = <<>> => FALSE
    <2>1. 1 \in DOMAIN subjects' BY <1>1, <1>4
    <2> QED BY <2>1
  <1> QED BY <1>2, <1>6, <1>8, <1>9, <1>10 DEF TypeInv

\* A stamped revision is filed where its manifest says.
LEMMA CommitKeepsFiled ==
  ASSUME ReviewInv, AllFiled, NEW m, NEW caller, NEW d, d = Len(manifests) + 1,
         Commit(Stamped(m, d, caller))
  PROVE  AllFiled'
  <1> DEFINE r == Stamped(m, d, caller)
  <1>1. r.manifest = m /\ r.manifestSha256 = d /\ r.id = RevisionId(d) BY DEF Stamped
  <1>2. manifests' = Append(manifests, m) BY <1>1 DEF Commit
  <1>3. Commit(r) OBVIOUS
  <1> HIDE DEF r
  <1>4. IsSeq(manifests) /\ ChainsValid BY DEF ReviewInv
  <1>5. /\ Len(manifests) \in Nat /\ DOMAIN manifests = 1 .. Len(manifests)
        /\ DOMAIN Append(manifests, m) = 1 .. Len(manifests) + 1
        /\ \A i \in DOMAIN manifests : Append(manifests, m)[i] = manifests[i]
        /\ Append(manifests, m)[Len(manifests) + 1] = m
    BY <1>4, AppendFacts
  <1>6. ASSUME NEW v \in Vaults, NEW k \in DOMAIN (chain'[v])
        PROVE  Filed(chain'[v][k], v, manifests')
    <2>1. CASE k \in DOMAIN chain[v] /\ chain'[v][k] = chain[v][k]
      <3>1. Filed(chain[v][k], v, manifests) BY <2>1 DEF AllFiled
      <3> QED BY <1>2, <1>5, <2>1, <3>1 DEF Filed
    <2>2. CASE v = r.manifest.target.vaultId /\ chain'[v][k] = r
      BY <1>1, <1>2, <1>5, <2>2 DEF Filed
    <2> QED BY <1>3, <1>4, <2>1, <2>2, CommittedNow
  <1> QED BY <1>6 DEF AllFiled

LEMMA PublishKeepsTypes ==
  ASSUME ReviewInv, TypeInv, NEW n \in DOMAIN subjects, NEW approved, NEW answer, NEW caller,
         Publish(n, approved, answer, caller)
  PROVE  TypeInv'
  <1>1. PICK m : Commit(Stamped(m, Len(manifests) + 1, caller)) BY DEF Publish
  <1>2. UNCHANGED <<policy, subjects, approvals, answers>> BY DEF Publish
  <1>3. AllFiled' BY <1>1, CommitKeepsFiled DEF TypeInv
  <1>4. subjects # <<>> OBVIOUS
  <1> QED BY <1>2, <1>3, <1>4 DEF TypeInv, AnsweredAreDrafted

LEMMA ImportKeepsTypes ==
  ASSUME ReviewInv, TypeInv, NEW caller, ImportGenesis(caller)
  PROVE  TypeInv'
  <1>1. PICK m : Commit(Stamped(m, 1, caller)) BY DEF ImportGenesis
  <1>2. /\ subjects = <<>> /\ subjects' = <<GenesisSubject>> /\ policy' = policy
        /\ approvals' = {[subject |-> 1, approval |-> GenesisApproval]}
        /\ answers' = {GenesisAnswer(1)}
    BY DEF ImportGenesis
  <1>3. 1 = Len(manifests) + 1 BY <1>2 DEF TypeInv
  <1>4. AllFiled' BY <1>1, <1>3, CommitKeepsFiled DEF TypeInv
  <1>5. DOMAIN subjects' = {1} /\ Len(subjects') = 1 /\ subjects' # <<>> BY <1>2
  <1>6. GenesisAnswer(1).electionSubjectSha256 = 1 BY DEF GenesisAnswer
  <1>7. AnsweredAreDrafted' BY <1>2, <1>5, <1>6 DEF AnsweredAreDrafted
  <1>8. Len(subjects') <= MaxSubjects BY <1>5, OntologyElectionAssumption
  <1> QED BY <1>2, <1>4, <1>5, <1>7, <1>8 DEF TypeInv

LEMMA TypesNext == ReviewInv /\ TypeInv /\ [Next]_vars => TypeInv'
  <1> SUFFICES ASSUME ReviewInv, TypeInv, [Next]_vars PROVE TypeInv' OBVIOUS
  <1>1. ASSUME NEW n \in DOMAIN subjects, NEW valid, Approve(n, valid) PROVE TypeInv'
    <2>1. UNCHANGED <<policy, subjects, answers, manifests, chain>> BY <1>1 DEF Approve
    <2>2. AllFiled' BY <2>1 DEF TypeInv, AllFiled
    <2>3. AnsweredAreDrafted'
      BY <1>1, <2>1 DEF Approve, TypeInv, AnsweredAreDrafted
    <2> QED BY <2>1, <2>2, <2>3 DEF TypeInv
  <1>2. ASSUME NEW n \in DOMAIN subjects, NEW valid, NEW released, Answer(n, valid, released)
        PROVE  TypeInv'
    <2>1. UNCHANGED <<policy, subjects, approvals, manifests, chain>> BY <1>2 DEF Answer
    <2>2. AllFiled' BY <2>1 DEF TypeInv, AllFiled
    <2>3. PICK given : answers' = answers \union {given} /\ given.electionSubjectSha256 = n
      <3> DEFINE given ==
            [GenesisAnswer(n) EXCEPT !.valid = valid, !.source = subjects[n].source,
               !.target = subjects[n].target, !.publishedRecords = released,
               !.publishedRevisionRefs = subjects[n].publishedRevisionRefs]
      <3>1. answers' = answers \union {given} BY <1>2 DEF Answer
      <3>2. given.electionSubjectSha256 = n BY DEF GenesisAnswer
      <3> HIDE DEF given
      <3> QED BY <3>1, <3>2
    <2>4. AnsweredAreDrafted' BY <2>1, <2>3 DEF TypeInv, AnsweredAreDrafted
    <2> QED BY <2>1, <2>2, <2>4 DEF TypeInv
  <1>3. CASE ChangePolicy
    <2>1. UNCHANGED <<subjects, approvals, answers, manifests, chain>> BY <1>3 DEF ChangePolicy
    <2>2. AllFiled' /\ AnsweredAreDrafted' BY <2>1 DEF TypeInv, AllFiled, AnsweredAreDrafted
    <2>3. policy' \in 1 .. MaxPolicies
      BY <1>3, OntologyElectionAssumption DEF ChangePolicy, TypeInv
    <2> QED BY <2>1, <2>2, <2>3 DEF TypeInv
  <1>4. CASE UNCHANGED vars
    BY <1>4 DEF vars, TypeInv, AllFiled, AnsweredAreDrafted
  <1> QED
    BY <1>1, <1>2, <1>3, <1>4, DraftKeepsTypes, PublishKeepsTypes, ImportKeepsTypes DEF Next

\* Approvals and answers are for subjects there are, and each revision is in
\* the chain of the vault it was elected for, under its own manifest's digest.
THEOREM TypeCorrect == Spec => []TypeOK
  <1>1. ReviewInv /\ TypeInv /\ [Next]_vars => TypeInv' BY TypesNext
  <1> QED BY TypesInit, TypesFollow, ReviewAlways, <1>1, PTL DEF Spec
===============================================================================
