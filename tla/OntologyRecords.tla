---------------------------- MODULE OntologyRecords ----------------------------
(***************************************************************************)
(* Elected ontology revisions and what `validate_shape` requires of one.   *)
(*                                                                         *)
(* A SHA-256 names a content: it is a positive number, and 0 stands for a  *)
(* string that is not 64 lowercase hex characters.  A text that is blank   *)
(* once trimmed is "".  A JSON value the shape reads by pointers is a      *)
(* record of what they find, with the set of the required ones missing.    *)
(***************************************************************************)
EXTENDS Integers, Sequences, SequencesExt

CONSTANTS
  None,            \* an optional field that is absent
  MaxItems,        \* semantic items in a manifest
  MaxDependencies, \* dependencies of a manifest
  MaxPublished,    \* records and revisions a manifest discloses
  MaxRetained      \* retained positions and attributions

ASSUME OntologyRecordsAssumption ==
  {MaxItems, MaxDependencies, MaxPublished, MaxRetained} \subseteq Nat \ {0}

NotBlank(text) == text # ""

IsSha256(digest) == digest > 0

-------------------------------------------------------------------------------
\* References

RecordRef(kind, id, digest) == [kind |-> kind, id |-> id, contentSha256 |-> digest]

\* Mutant of IdentityOf: two contents of a record are two records.
IdentityWithContent(ref) == <<ref.kind, ref.id, ref.contentSha256>>

IdentityOf(ref) == <<ref.kind, ref.id>>

ValidRecordRefs(refs) ==
  /\ \A i \in DOMAIN refs : NotBlank(refs[i].id) /\ IsSha256(refs[i].contentSha256)
  /\ \A i, j \in DOMAIN refs : i # j => IdentityOf(refs[i]) # IdentityOf(refs[j])

\* The identity `orv1:<manifest digest>`.
RevisionId(digest) == [orv1 |-> digest]

RevisionRef(digest) == [id |-> RevisionId(digest), manifestSha256 |-> digest]

ValidRevisionRef(ref) ==
  IsSha256(ref.manifestSha256) /\ ref.id = RevisionId(ref.manifestSha256)

ValidRevisionRefs(refs) ==
  /\ \A i \in DOMAIN refs : ValidRevisionRef(refs[i])
  /\ IsInjective(refs)

Pin(vault, position, head) ==
  [vaultId |-> vault, vaultRevision |-> position, ontologyRevision |-> head]

-------------------------------------------------------------------------------
\* Semantic items

Distinct(names) == (\A i \in DOMAIN names : NotBlank(names[i])) /\ IsInjective(names)

\* Mutant of ValidSchemaType: an item may declare a type under another key.
ValidSchemaTypeAnyKey(key, type) ==
  /\ NotBlank(type.name)
  /\ Distinct(type.properties)
  /\ Distinct([i \in DOMAIN type.relations |-> type.relations[i].name])

ValidSchemaType(key, type) ==
  /\ NotBlank(type.name)
  /\ key = type.name
  /\ Distinct(type.properties)
  /\ Distinct([i \in DOMAIN type.relations |-> type.relations[i].name])
  /\ \A i \in DOMAIN type.relations :
       NotBlank(type.relations[i].target) /\ Distinct(type.relations[i].properties)

\* The other kinds declare named fields, an optional one when it is there.
RequiredFields ==
  [predicate_definition |-> {"subjectType", "predicate", "objectType"},
   mapping_definition   |-> {"sourceType", "sourceField", "predicate", "targetType"},
   rule_definition      |-> {"ruleId", "subjectType", "predicate", "expression", "language"}]

OptionalFields ==
  [predicate_definition |-> {"sourceField"},
   mapping_definition   |-> {"transform"},
   rule_definition      |-> {}]

ValidContent(item) ==
  IF item.kind = "schema_type"
  THEN ValidSchemaType(item.key, item.content)
  ELSE /\ \A field \in RequiredFields[item.kind] : NotBlank(item.content[field])
       /\ \A field \in OptionalFields[item.kind] :
            field \in DOMAIN item.content => NotBlank(item.content[field])

ValidItem(item) ==
  /\ NotBlank(item.key) /\ NotBlank(item.revision) /\ IsSha256(item.contentSha256)
  /\ ValidContent(item)
  /\ item.support # <<>>
  /\ ValidRecordRefs(item.support)

-------------------------------------------------------------------------------
\* Authority: the owner's consent and the reviewer's approval.  Both keep the
\* bytes of an external evaluation beside a typed copy of what they bind.

ConsentAgrees(consent) ==
  /\ consent.consent.missing = {}
  /\ consent.consent.valid
  /\ \A field \in {"consentId", "electionSubjectSha256", "publishedRecords",
                   "publishedRevisionRefs"} :
       consent.consent[field] = consent[field]
  /\ consent.consent.sourceOwner = consent.ownerPrincipal
  /\ \A side \in {"source", "target"} : \A field \in {"vaultId", "vaultRevision"} :
       consent.consent[side][field] = consent[side][field]

\* Mutant of ValidConsent: the evidence is kept and not compared.
ValidConsentTyped(consent) ==
  /\ consent.consentVersion = 1
  /\ IsSha256(consent.electionSubjectSha256)
  /\ ValidRecordRefs(consent.publishedRecords)
  /\ ValidRevisionRefs(consent.publishedRevisionRefs)

ValidConsent(consent) ==
  /\ consent.consentVersion = 1
  /\ NotBlank(consent.consentId) /\ NotBlank(consent.ownerPrincipal)
  /\ IsSha256(consent.electionSubjectSha256)
  /\ NotBlank(consent.source.vaultId) /\ NotBlank(consent.target.vaultId)
  /\ ValidRecordRefs(consent.publishedRecords)
  /\ ValidRevisionRefs(consent.publishedRevisionRefs)
  /\ ConsentAgrees(consent)

\* Mutant of ValidAttestation: the approval is not held to the attested policy.
ValidAttestationAnyPolicy(attestation) ==
  /\ attestation.attestationVersion = 1
  /\ IsSha256(attestation.electionSubjectSha256)
  /\ IsSha256(attestation.authorityPolicySha256)
  /\ attestation.approval.missing = {} /\ attestation.approval.valid

ValidAttestation(attestation) ==
  LET approval == attestation.approval IN
  /\ attestation.attestationVersion = 1
  /\ NotBlank(attestation.attesterPrincipal) /\ NotBlank(attestation.proposalId)
  /\ IsSha256(attestation.electionSubjectSha256)
  /\ NotBlank(attestation.authorityPolicyRevision)
  /\ IsSha256(attestation.authorityPolicySha256)
  /\ attestation.designation # None /\ attestation.matchedBy # None
  /\ approval.missing = {}
  /\ approval.valid
  /\ approval.policyRevision = attestation.authorityPolicyRevision
  /\ approval.policySha256 = attestation.authorityPolicySha256
  /\ approval.designation = attestation.designation

Executor(attestation) == attestation.approval.executor

-------------------------------------------------------------------------------
\* Manifests

SubjectFields ==
  {"source", "target", "commonBase", "dependencies", "semanticItems", "publishedRecords",
   "publishedRevisionRefs", "acceptedClaims", "retainedPositions", "attribution", "reverses"}

\* What is reviewed: all of a manifest but the approval.
ElectionSubject(manifest) == [field \in SubjectFields |-> manifest[field]]

WithinLimits(m) ==
  /\ Len(m.semanticItems) \in 1 .. MaxItems
  /\ Len(m.dependencies) <= MaxDependencies
  /\ Len(m.publishedRecords) + Len(m.publishedRevisionRefs) <= MaxPublished
  /\ Len(m.retainedPositions) + Len(m.attribution) <= MaxRetained

ValidItems(m) ==
  /\ \A i \in DOMAIN m.semanticItems : ValidItem(m.semanticItems[i])
  /\ IsInjective([i \in DOMAIN m.semanticItems |-> m.semanticItems[i].key])

ValidDependencies(m) ==
  Distinct([i \in DOMAIN m.dependencies |-> m.dependencies[i].vaultId])

Supports(m) == UNION {ToSet(item.support) : item \in ToSet(m.semanticItems)}
Retained(m) == UNION {ToSet(position.records) : position \in ToSet(m.retainedPositions)}
Attributed(m) == {attribution.evidence : attribution \in ToSet(m.attribution)}
CitedRecords(m) == Supports(m) \union ToSet(m.acceptedClaims) \union Retained(m) \union Attributed(m)

RecordsPublished(m) ==
  /\ ValidRecordRefs(m.publishedRecords) /\ ValidRevisionRefs(m.publishedRevisionRefs)
  /\ ValidRecordRefs(m.acceptedClaims)
  /\ \A position \in ToSet(m.retainedPositions) :
       position.records # <<>> /\ ValidRecordRefs(position.records)
  /\ \A attribution \in ToSet(m.attribution) :
       NotBlank(attribution.principal) /\ attribution.evidence.kind = "evidence"
  /\ CitedRecords(m) \subseteq ToSet(m.publishedRecords)

\* The revisions a manifest rests on.
Lineage(m) ==
  ({m.source.ontologyRevision, m.commonBase}
     \union {pin.ontologyRevision : pin \in ToSet(m.dependencies)}) \ {None}

LineagePublished(m) ==
  \A ref \in Lineage(m) : ValidRevisionRef(ref) /\ ref \in ToSet(m.publishedRevisionRefs)

\* Mutant of ReviewedHead: any revision may be reversed.
ReviewedHeadAnyReversed(m) ==
  /\ (m.commonBase # None) = (m.target.ontologyRevision # None)
  /\ m.target.ontologyRevision # None => ValidRevisionRef(m.target.ontologyRevision)

ReviewedHead(m) ==
  LET head == m.target.ontologyRevision IN
  /\ (m.commonBase # None) = (head # None)
  /\ head # None => ValidRevisionRef(head) /\ m.reverses \in {None, head.id}
  /\ head = None => m.reverses = None

ConsentBinds(m) ==
  LET consent == m.approval.attestation.sourceOwnerConsent IN
  /\ ValidConsent(consent)
  /\ \A field \in {"electionSubjectSha256", "source", "target", "publishedRecords",
                   "publishedRevisionRefs"} :
       consent[field] = m[field]

ApprovalBinds(m) ==
  LET attestation == m.approval.attestation IN
  /\ IsSha256(m.approval.contentSha256)
  /\ ValidAttestation(attestation)
  /\ attestation.electionSubjectSha256 = m.electionSubjectSha256
  /\ attestation.sourceVault = m.source.vaultId
  /\ attestation.sourceVaultRevision = m.source.vaultRevision
  /\ attestation.targetVault = m.target.vaultId
  /\ attestation.targetVaultRevision = m.target.vaultRevision

ValidManifest(m) ==
  /\ m.contractVersion = 1
  /\ IsSha256(m.electionSubjectSha256)
  /\ NotBlank(m.source.vaultId) /\ NotBlank(m.target.vaultId)
  /\ WithinLimits(m)
  /\ ValidDependencies(m)
  /\ ValidItems(m)
  /\ RecordsPublished(m)
  /\ ConsentBinds(m)
  /\ LineagePublished(m)
  /\ ReviewedHead(m)
  /\ ApprovalBinds(m)

-------------------------------------------------------------------------------
\* Revisions

\* Mutant of PositionFollowsReview: the position the engine read is taken as it is.
PositionAsRead(r) == ~r.conditional.initializedFromExisting

\* A revision takes the position after the head that was reviewed.
PositionFollowsReview(r) ==
  /\ r.conditional.previousRevisionId =
       IF r.manifest.target.ontologyRevision = None
       THEN None ELSE r.manifest.target.ontologyRevision.id
  /\ ~r.conditional.initializedFromExisting

ValidRevision(r) ==
  /\ ValidManifest(r.manifest)
  /\ IsSha256(r.manifestSha256) /\ IsSha256(r.requestSha256)
  /\ NotBlank(r.publisher.principal) /\ NotBlank(r.publisher.tokenId)
  /\ NotBlank(r.requestId)
  /\ r.id = RevisionId(r.manifestSha256)
  /\ r.publisher.subjectType = "service"
  /\ r.conditional.revisionDomain = "ontology/v1" /\ r.conditional.chainId = "ontology"
  /\ r.conditional.revisionId = r.id
  /\ PositionFollowsReview(r)
===============================================================================
