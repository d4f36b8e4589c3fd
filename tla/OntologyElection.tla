---------------------------- MODULE OntologyElection ----------------------------
(***************************************************************************)
(* How an elected revision comes about.  A proposer drafts an election     *)
(* subject against the heads of two vaults, a reviewer approves it, the    *)
(* owner of the source says what may be published, an executor puts the    *)
(* manifest together from what it has been given, and the engine stamps    *)
(* it, has `validate_shape` look at it and appends it to the chain of the  *)
(* target.  Heads and the authority policy move on between the steps, and  *)
(* the executor may combine answers that belong to different subjects.     *)
(*                                                                         *)
(* The actors and the engine are outside the repository: of the engine     *)
(* only what the documentation of the types promises is used.  It checks   *)
(* digests and appends at the head it reads, in one step.                  *)
(***************************************************************************)
EXTENDS OntologyGolden

CONSTANTS
  Vaults,          \* vaults with an ontology chain
  Plans,           \* what a proposer may put in a subject: items, records
                   \* published, claims, positions, attribution
  Callers,         \* credentials the engine resolves: principal, subject type
  MaxPolicies,     \* bound: versions of the authority policy
  MaxSubjects      \* bound: subjects drafted

ASSUME OntologyElectionAssumption ==
  /\ Vaults \subseteq STRING /\ None \notin STRING
  /\ None \notin [orv1 : Nat]   \* an identity that is absent is none of a revision
  /\ {"root", "team:operations"} \subseteq Vaults
  /\ {MaxPolicies, MaxSubjects} \subseteq Nat \ {0}

VARIABLES
  policy,     \* the authority policy in force
  subjects,   \* election subjects; the digest of one is its position
  approvals,  \* what reviewers answered, and for which subject
  answers,    \* what owners answered
  manifests,  \* manifests committed; the digest of one is its position
  chain       \* the revisions of each vault, oldest first

vars == <<policy, subjects, approvals, answers, manifests, chain>>

Init ==
  /\ policy = 1
  /\ subjects = <<>>
  /\ approvals = {}
  /\ answers = {}
  /\ manifests = <<>>
  /\ chain = [v \in Vaults |-> <<>>]

HeadOf(vault) ==
  IF chain[vault] = <<>> THEN None ELSE RevisionRef(Last(chain[vault]).manifestSha256)

PinOf(vault) == Pin(vault, Len(chain[vault]), HeadOf(vault))

KnownIds == UNION {{r.id : r \in ToSet(chain[v])} : v \in Vaults}

-------------------------------------------------------------------------------
\* Proposing and reviewing

Draft(from, into, plan) ==
  /\ Len(subjects) < MaxSubjects
  /\ \E reverses \in KnownIds \union {None},
       dependencies \in {<<>>} \union (IF chain[from] = <<>> THEN {} ELSE {<<PinOf(from)>>}),
       disclosed \in {<<>>, SetToSeq({HeadOf(from), HeadOf(into)} \ {None})} :
       LET subject ==
             [source |-> PinOf(from), target |-> PinOf(into), commonBase |-> HeadOf(into),
              dependencies |-> dependencies, semanticItems |-> plan.items,
              publishedRecords |-> plan.published, publishedRevisionRefs |-> disclosed,
              acceptedClaims |-> plan.claims, retainedPositions |-> plan.positions,
              attribution |-> plan.attribution, reverses |-> reverses]
       IN  ~Contains(subjects, subject) /\ subjects' = Append(subjects, subject)
  /\ UNCHANGED <<policy, approvals, answers, manifests, chain>>

\* Bound: one review of a subject, and one answer of the owner.
Approve(n, valid) ==
  /\ \A approved \in approvals : approved.subject # n
  /\ approvals' = approvals \union
       {[subject |-> n, approval |-> [GenesisApproval EXCEPT !.valid = valid,
                                        !.policyRevision = ToString(policy), !.policySha256 = policy]]}
  /\ UNCHANGED <<policy, subjects, answers, manifests, chain>>

\* The owner releases what the subject publishes, or none of the records, or
\* takes the consent back.
Answer(n, valid, released) ==
  /\ valid \/ released = subjects[n].publishedRecords
  /\ \A answer \in answers : answer.electionSubjectSha256 # n
  /\ answers' = answers \union
       {[GenesisAnswer(n) EXCEPT !.valid = valid, !.source = subjects[n].source,
           !.target = subjects[n].target, !.publishedRecords = released,
           !.publishedRevisionRefs = subjects[n].publishedRevisionRefs]}
  /\ UNCHANGED <<policy, subjects, approvals, manifests, chain>>

ChangePolicy ==
  /\ policy < MaxPolicies
  /\ policy' = policy + 1
  /\ UNCHANGED <<subjects, approvals, answers, manifests, chain>>

-------------------------------------------------------------------------------
\* Publishing

\* The typed copy of the owner's answer: as the manifest needs it, or as the
\* answer says.
ConsentFor(n, answer, records) ==
  [consentVersion |-> 1, consentId |-> answer.consentId, ownerPrincipal |-> answer.sourceOwner,
   electionSubjectSha256 |-> n, source |-> subjects[n].source, target |-> subjects[n].target,
   publishedRecords |-> records,
   publishedRevisionRefs |-> subjects[n].publishedRevisionRefs, consent |-> answer]

\* An approval is attested under the policy in force, and for the subject `named`.
AttestationFor(n, named, approved, consent) ==
  [attestationVersion |-> 1, attesterPrincipal |-> "machine:main-server",
   proposalId |-> "proposal", electionSubjectSha256 |-> named,
   sourceVault |-> subjects[n].source.vaultId,
   sourceVaultRevision |-> subjects[n].source.vaultRevision,
   targetVault |-> subjects[n].target.vaultId,
   targetVaultRevision |-> subjects[n].target.vaultRevision,
   authorityPolicyRevision |-> ToString(policy), authorityPolicySha256 |-> policy,
   designation |-> "reviewer", matchedBy |-> "group",
   sourceOwnerConsent |-> consent, approval |-> approved.approval]

ManifestFor(n, subject, attestation) ==
  LET own == [contractVersion |-> 1, electionSubjectSha256 |-> n,
              approval |-> [contentSha256 |-> 1, attestation |-> attestation]]
  IN  [field \in DOMAIN own \union SubjectFields |->
         IF field \in DOMAIN own THEN own[field] ELSE subject[field]]

\* What the engine makes of a manifest that is the d-th it digests.
Stamped(manifest, d, caller) ==
  [id |-> RevisionId(d), manifestSha256 |-> d, manifest |-> manifest,
   publisher |-> [principal |-> caller.principal, tokenId |-> "token",
                  subjectType |-> caller.subjectType],
   requestId |-> "request", requestSha256 |-> 1,
   conditional |->
     [revisionDomain |-> "ontology/v1", chainId |-> "ontology", revisionId |-> RevisionId(d),
      previousRevisionId |->
        IF HeadOf(manifest.target.vaultId) = None THEN None ELSE HeadOf(manifest.target.vaultId).id,
      initializedFromExisting |-> FALSE]]

\* Mutant of Commit: the revision is filed with the vault it came from.
CommitAtSource(revision) ==
  /\ ValidRevision(revision)
  /\ manifests' = Append(manifests, revision.manifest)
  /\ chain' = [chain EXCEPT ![revision.manifest.source.vaultId] = Append(@, revision)]

Commit(revision) ==
  /\ ValidRevision(revision)
  /\ Executor(revision.manifest.approval.attestation) = revision.publisher.principal
  /\ manifests' = Append(manifests, revision.manifest)
  /\ chain' = [chain EXCEPT ![revision.manifest.target.vaultId] = Append(@, revision)]

\* The approval is in hand, and may be one of another subject: the executor
\* attests what it was given for, or what the manifest needs.
Publish(n, approved, answer, caller) ==
  /\ \E records \in {subjects[n].publishedRecords, answer.publishedRecords},
       named \in {n, approved.subject} :
       LET manifest ==
             ManifestFor(n, subjects[n],
                         AttestationFor(n, named, approved, ConsentFor(n, answer, records)))
       IN  /\ ~Contains(manifests, manifest)
           /\ Commit(Stamped(manifest, Len(manifests) + 1, caller))
  /\ UNCHANGED <<policy, subjects, approvals, answers>>

\* A project starts from the archive of the suite.
ImportGenesis(caller) ==
  LET approved == [subject |-> 1, approval |-> GenesisApproval]
      answer == GenesisAnswer(1)
      consent == [consentVersion |-> 1, consentId |-> answer.consentId,
                  ownerPrincipal |-> answer.sourceOwner, electionSubjectSha256 |-> 1,
                  source |-> GenesisSource, target |-> GenesisTarget,
                  publishedRecords |-> answer.publishedRecords,
                  publishedRevisionRefs |-> answer.publishedRevisionRefs, consent |-> answer]
      attestation ==
        [attestationVersion |-> 1, attesterPrincipal |-> "machine:main-server",
         proposalId |-> "proposal:ontology-genesis", electionSubjectSha256 |-> 1,
         sourceVault |-> "root", sourceVaultRevision |-> 0,
         targetVault |-> "team:operations", targetVaultRevision |-> 0,
         authorityPolicyRevision |-> "1", authorityPolicySha256 |-> 1,
         designation |-> "reviewer", matchedBy |-> "group",
         sourceOwnerConsent |-> consent, approval |-> GenesisApproval]
  IN  /\ subjects = <<>>
      /\ subjects' = <<GenesisSubject>>
      /\ approvals' = {approved}
      /\ answers' = {answer}
      /\ Commit(Stamped(ManifestFor(1, GenesisSubject, attestation), 1, caller))
      /\ UNCHANGED policy

Next ==
  \/ \E from, into \in Vaults, plan \in Plans : from # into /\ Draft(from, into, plan)
  \/ \E n \in DOMAIN subjects, valid \in BOOLEAN : Approve(n, valid)
  \/ \E n \in DOMAIN subjects, valid \in BOOLEAN :
       \E released \in {<<>>, subjects[n].publishedRecords} : Answer(n, valid, released)
  \/ ChangePolicy
  \/ \E n \in DOMAIN subjects, approved \in approvals, answer \in answers, caller \in Callers :
       Publish(n, approved, answer, caller)
  \/ \E caller \in Callers : ImportGenesis(caller)

Spec == Init /\ [][Next]_vars
-------------------------------------------------------------------------------
\* What a vault may rely on in the revisions it has adopted.

\* The records of an election refer to subjects there are, and a revision is in
\* the chain of the vault it was elected for, under the digest of its manifest.
TypeOK ==
  /\ policy \in 1 .. MaxPolicies
  /\ Len(subjects) <= MaxSubjects
  /\ \A approved \in approvals : approved.subject \in DOMAIN subjects
  /\ \A answer \in answers : answer.electionSubjectSha256 \in DOMAIN subjects
  /\ \A v \in Vaults : \A r \in ToSet(chain[v]) :
       /\ r.manifest.target.vaultId = v
       /\ r.manifestSha256 \in DOMAIN manifests
       /\ manifests[r.manifestSha256] = r.manifest
       /\ r.id = RevisionId(r.manifestSha256)

Committed == UNION {ToSet(chain[v]) : v \in Vaults}

Before(v, k) == IF k = 1 THEN None ELSE RevisionRef(chain[v][k - 1].manifestSha256)

\* Every revision of a vault was reviewed against the revision it follows: of
\* two elections reviewed at one head, one is adopted, and nothing is adopted
\* twice (ontology.rs, OntologyRevision::validate_shape).
OnReviewedHead ==
  \A v \in Vaults : \A k \in DOMAIN chain[v] :
    chain[v][k].manifest.target.ontologyRevision = Before(v, k)

\* An election reverses the revision it replaces and no other: not an earlier
\* one, and not one of another vault.
ReversesItsPredecessor ==
  \A v \in Vaults : \A k \in DOMAIN chain[v] :
    LET reverses == chain[v][k].manifest.reverses IN
    reverses # None => Before(v, k) # None /\ reverses = Before(v, k).id

\* The subject a revision carries, by its own content.
SubjectOf(r) == CHOOSE n \in DOMAIN subjects : subjects[n] = ElectionSubject(r.manifest)

\* Nothing reaches the target that the owner of the source did not release
\* when asked about just that subject: not a record the revision cites in any
\* of its places, nor a revision it rests on.
NothingUndisclosed ==
  \A r \in Committed :
    \E answer \in answers :
      /\ answer.valid
      /\ answer.electionSubjectSha256 = SubjectOf(r)
      /\ answer.source.vaultId = r.manifest.source.vaultId
      /\ CitedRecords(r.manifest) \subseteq ToSet(answer.publishedRecords)
      /\ Lineage(r.manifest) \subseteq ToSet(answer.publishedRevisionRefs)

\* A revision attests the subject it carries, and keeps an approval that some
\* reviewer gave: a valid one, under the very policy that is attested.  That the
\* approval was given for that subject is the executor's word: none of its bytes
\* is compared with the subject, and the approval of another subject passes
\* (OntologyApprovalAttestation::validate_shape).
ApprovedAsAttested ==
  \A r \in Committed :
    LET attestation == r.manifest.approval.attestation IN
    /\ attestation.electionSubjectSha256 = SubjectOf(r)
    /\ \E approved \in approvals :
         /\ approved.approval = attestation.approval
         /\ approved.approval.valid
         /\ approved.approval.policyRevision = attestation.authorityPolicyRevision
         /\ approved.approval.policySha256 = attestation.authorityPolicySha256

\* A revision never cites two contents of one record, in one place or in two.
OneContentPerRecord ==
  \A r \in Committed :
    \A a, b \in CitedRecords(r.manifest) :
      a.kind = b.kind /\ a.id = b.id => a.contentSha256 = b.contentSha256

\* A consumer that looks up a declared type by its name, or by the key of the
\* item, finds one declaration.
OneTypePerName ==
  \A r \in Committed :
    LET types == {i \in DOMAIN r.manifest.semanticItems :
                    r.manifest.semanticItems[i].kind = "schema_type"}
        item(i) == r.manifest.semanticItems[i]
    IN  \A i, j \in types :
          {item(i).key, item(i).content.name} \cap {item(j).key, item(j).content.name} # {}
            => i = j
===============================================================================
