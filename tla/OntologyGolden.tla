----------------------------- MODULE OntologyGolden -----------------------------
(***************************************************************************)
(* The election in the conformance suite: the vault `team:operations`,     *)
(* which has no ontology, adopts one declared type from `root`.  The       *)
(* digests are those its subject and its manifest have where it is read.   *)
(***************************************************************************)
EXTENDS OntologyRecords

GenesisSupport == RecordRef("evidence", "ontology-support-1", 1)

GenesisItem ==
  [kind |-> "schema_type", key |-> "Test.Deal", revision |-> "review:1", contentSha256 |-> 1,
   support |-> <<GenesisSupport>>,
   content |-> [name |-> "Test.Deal", properties |-> <<"amount">>, relations |-> <<>>]]

GenesisSource == Pin("root", 0, None)
GenesisTarget == Pin("team:operations", 0, None)

GenesisSubject ==
  [source |-> GenesisSource, target |-> GenesisTarget, commonBase |-> None,
   dependencies |-> <<>>, semanticItems |-> <<GenesisItem>>,
   publishedRecords |-> <<GenesisSupport>>, publishedRevisionRefs |-> <<>>,
   acceptedClaims |-> <<>>,
   retainedPositions |-> <<[disposition |-> "accepted", records |-> <<GenesisSupport>>]>>,
   attribution |-> <<[principal |-> "user:sme-a", evidence |-> GenesisSupport]>>,
   reverses |-> None]

GenesisApproval ==
  [missing |-> {}, valid |-> TRUE, policyRevision |-> "1", policySha256 |-> 1,
   designation |-> "reviewer", executor |-> "machine:main-server"]

GenesisAnswer(subject) ==
  [missing |-> {}, valid |-> TRUE, consentId |-> "consent", sourceOwner |-> "owner",
   electionSubjectSha256 |-> subject, source |-> GenesisSource, target |-> GenesisTarget,
   publishedRecords |-> <<GenesisSupport>>, publishedRevisionRefs |-> <<>>]
===============================================================================
