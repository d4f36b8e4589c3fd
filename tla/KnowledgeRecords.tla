--------------------------- MODULE KnowledgeRecords ---------------------------
(***************************************************************************)
(* Relationship proposals and contradiction cases: immutable revisions of  *)
(* records that cite others, what `validate` asks of one revision, and the *)
(* references a closure is computed from.                                  *)
(*                                                                         *)
(* A record is cited by its plane and id, a belief also by its version.    *)
(* Names that must merely not be empty are one flag, `named`.              *)
(***************************************************************************)
EXTENDS Measurement

Planes == {"evidence", "observation", "belief", "proposal", "case"}

Cite(plane, id) == [plane |-> plane, id |-> id, version |-> None]
CiteBelief(id, version) == [plane |-> "belief", id |-> id, version |-> version]

-------------------------------------------------------------------------------
\* RelationshipProposal

ProposalStatuses == {"quarantined_hypothesis", "supported", "promoted_by_reviewer", "refuted"}

\* ReviewerReceipt: `receipt` is the Evidence record; `named` is whether it
\* says who decided and why.
ReviewerReceipt == [receipt : STRING, named : BOOLEAN]

\* `named` covers the identities, the relation's names, the origin and the
\* probes' texts; `keyColumns` is how many columns each side has; `reason` is
\* whether a quarantine or refutation states one.
RelationshipProposal ==
  [plane : {"proposal"}, id : STRING, proposalId : STRING,
   previous : STRING \union {None}, named : BOOLEAN,
   keyColumns : Nat \X Nat, normalization : Normalization, support : RelationSupport,
   status : ProposalStatuses, reason : BOOLEAN,
   receipt : ReviewerReceipt \union {None},
   findings : SUBSET STRING, probes : SUBSET (STRING \union {None})]

\* ProposalStatus::is_actionable
IsActionable(p) == p.status \in {"supported", "promoted_by_reviewer"}

\* What the status asks for.
StatusHolds(p) ==
  CASE p.status = "supported" -> Clears(p.support)
    [] p.status \in {"quarantined_hypothesis", "refuted"} -> p.reason
    [] p.status = "promoted_by_reviewer" -> p.receipt.named

\* RelationshipProposal::validate
ValidProposal(p) ==
  /\ p.named
  /\ p.previous # p.id
  /\ p.keyColumns[1] # 0 /\ p.keyColumns[2] = p.keyColumns[1]
  /\ Coherent(p.support)
  /\ StatusHolds(p)

\* The predecessor is the last entry of both ...References.
PreviousOf(r) == IF r.previous = None THEN {} ELSE {Cite(r.plane, r.previous)}

\* Mutant of ProposalReferences: a probe without a record is cited too.
ProposalReferencesNone(p) ==
  {Cite("evidence", e) : e \in p.findings \union p.probes}
    \union (IF p.status = "promoted_by_reviewer" THEN {Cite("evidence", p.receipt.receipt)} ELSE {})
    \union PreviousOf(p)

\* RelationshipProposal::references
ProposalReferences(p) ==
  {Cite("evidence", e) : e \in p.findings \union (p.probes \ {None})}
    \union (IF p.status = "promoted_by_reviewer" THEN {Cite("evidence", p.receipt.receipt)} ELSE {})
    \union PreviousOf(p)

-------------------------------------------------------------------------------
\* ContradictionCase

ClaimKinds == {"belief", "observation", "evidence"}

ClaimRef == [kind : ClaimKinds, id : STRING, version : Nat \union {None}]

\* SourceDependency: `of` is None for Independent, else what the material is a
\* forwarded copy of or derived from.
Material == [evidence : STRING, of : STRING \union {None}]

\* EvidenceRef and MeasurementRef, of which only the evidence id is kept.
ContradictionCase ==
  [plane : {"case"}, id : STRING, caseId : STRING, previous : STRING \union {None},
   named : BOOLEAN, claims : Seq(ClaimRef), evidence : SUBSET STRING,
   measurements : SUBSET (STRING \union {None}), supporting : SUBSET Material,
   refuting : SUBSET Material, proposalId : STRING \union {None},
   receipts : SUBSET STRING,
   epistemic : {"incompatible", "compatible", "uncertain", "insufficiently_comparable"},
   impact : {"harmful", "alignment_only", "unassessed"},
   workflow : {"open", "awaiting_clarification", "awaiting_review", "contested",
               "deferred", "settled", "reopened"}]

\* ContradictionCase::validate
ValidCase(c) ==
  /\ c.named
  /\ Len(c.claims) >= 2
  /\ c.previous # c.id

ClaimCited(claim) ==
  IF claim.kind = "belief" THEN CiteBelief(claim.id, claim.version)
  ELSE Cite(claim.kind, claim.id)

\* Mutant of CaseReferences: what a copy is a copy of is not followed.
CaseReferencesNotOf(c) ==
  {ClaimCited(c.claims[i]) : i \in DOMAIN c.claims}
    \union {Cite("evidence", e) :
              e \in c.evidence \union (c.measurements \ {None}) \union c.receipts}
    \union {Cite("evidence", m.evidence) : m \in c.supporting \union c.refuting}
    \union PreviousOf(c)

\* ContradictionCase::references
CaseReferences(c) ==
  LET materials == c.supporting \union c.refuting IN
  {ClaimCited(c.claims[i]) : i \in DOMAIN c.claims}
    \union {Cite("evidence", e) :
              e \in c.evidence \union (c.measurements \ {None}) \union c.receipts}
    \union {Cite("evidence", m.evidence) : m \in materials}
    \union {Cite("evidence", m.of) : m \in {x \in materials : x.of # None}}
    \union PreviousOf(c)

-------------------------------------------------------------------------------
\* Any record

\* Evidence, observations and beliefs are read for what cites them.
Evidence(id) == [plane |-> "evidence", id |-> id]
Observation(id) == [plane |-> "observation", id |-> id]
Belief(id, version) == [plane |-> "belief", id |-> id, version |-> version]

Valid(r) ==
  /\ r.plane = "proposal" => ValidProposal(r)
  /\ r.plane = "case" => ValidCase(r)

References(r) ==
  CASE r.plane = "proposal" -> ProposalReferences(r)
    [] r.plane = "case" -> CaseReferences(r)
    [] OTHER -> {}

\* Whether the record is the one cited.  A citation without a version pins the
\* id only.
Answers(r, cite) ==
  /\ r.plane = cite.plane
  /\ r.id = cite.id
  /\ cite.version # None => r.version = cite.version
===============================================================================
