--------------------------- MODULE KnowledgeGoldens ---------------------------
(***************************************************************************)
(* The archives of the conformance suite that hold contradiction cases and *)
(* relationship proposals, record by record.  The vertices are left out:   *)
(* no proposal or case cites one.                                          *)
(***************************************************************************)
EXTENDS KnowledgeRecords

\* Both suites write their evidence before anything that cites it.
AllEvidence(ids) == [i \in DOMAIN ids |-> Evidence(ids[i])]

-------------------------------------------------------------------------------
\* contradiction_cases

CaseEvidence ==
  AllEvidence(<<"ev_hc_1", "ev_hc_2", "ev_hc_3", "ev_hc_4", "ev_pp_1", "ev_withdrawal",
                "ev_review_1", "ev_review_2">>)

CaseClaims == <<Observation("obs_hc_1"), Observation("obs_hc_2"), Observation("obs_hc_4"),
                Observation("obs_pp_1"), Belief("bel_hc_1", 1)>>

Claim(kind, id, version) == [kind |-> kind, id |-> id, version |-> version]

\* The closure `case`: what the revisions have in common.
CaseOf(id, caseId, previous, claims, epistemic, impact, workflow, receipts) ==
  [plane |-> "case", id |-> id, caseId |-> caseId, previous |-> previous, named |-> TRUE,
   claims |-> claims, evidence |-> {}, measurements |-> {}, supporting |-> {},
   refuting |-> {}, proposalId |-> None, receipts |-> receipts,
   epistemic |-> epistemic, impact |-> impact, workflow |-> workflow]

\* Linked to a proposal that is not in the archive.
IncompatiblePair ==
  [CaseOf("case_hc_1@1", "case_hc_1", None,
          <<Claim("belief", "bel_hc_1", 1), Claim("observation", "obs_hc_2", None)>>,
          "incompatible", "harmful", "awaiting_review", {"ev_review_1"})
   EXCEPT !.measurements = {"ev_hc_1", "ev_hc_2", None},
          !.supporting = {[evidence |-> "ev_hc_2", of |-> None],
                          [evidence |-> "ev_hc_3", of |-> "ev_hc_2"]},
          !.proposalId = "prop_hc_1"]

InventedSubject ==
  [CaseOf("case_ms_1@1", "case_ms_1", None,
          <<Claim("observation", "obs_hc_1", None), Claim("observation", "obs_pp_1", None)>>,
          "insufficiently_comparable", "unassessed", "settled", {"ev_review_2"})
   EXCEPT !.refuting = {[evidence |-> "ev_review_2", of |-> None]}]

WithdrawnClaims ==
  <<Claim("observation", "obs_hc_2", None), Claim("observation", "obs_hc_4", None)>>

Opened ==
  CaseOf("case_wd_1@1", "case_wd_1", None, WithdrawnClaims,
         "incompatible", "alignment_only", "open", {})

Withdrawn ==
  CaseOf("case_wd_1@2", "case_wd_1", "case_wd_1@1", WithdrawnClaims,
         "compatible", "alignment_only", "settled", {"ev_withdrawal"})

ContradictionCases ==
  CaseEvidence \o CaseClaims \o <<IncompatiblePair, InventedSubject, Opened, Withdrawn>>

-------------------------------------------------------------------------------
\* relationship_proposals

ProposalEvidence ==
  AllEvidence(<<"ev_find_ord_cust", "ev_probe_ord_cust", "ev_find_color_variant",
                "ev_probe_color_variant", "ev_review_ord_cust">>)

\* The closure `support`.
SupportOf(sourceRows, sourceNonNull, matched, targetRows, targetDistinct) ==
  [contractVersion |-> 1, sourceRows |-> sourceRows, sourceNonNull |-> sourceNonNull,
   matchedRows |-> matched, targetRows |-> targetRows, targetNonNull |-> targetDistinct,
   targetDistinct |-> targetDistinct, sampling |-> FullScan, tied |-> TRUE,
   minSupport |-> 95]

Lowercased == [source |-> "trim_lower", target |-> "trim_lower"]

OrdersToCustomers ==
  [plane |-> "proposal", id |-> "prop_ord_cust@1", proposalId |-> "prop_ord_cust",
   previous |-> None, named |-> TRUE, keyColumns |-> <<1, 1>>,
   normalization |-> Lowercased, support |-> SupportOf(1000, 900, 890, 50, 50),
   status |-> "supported", reason |-> FALSE, receipt |-> None,
   findings |-> {"ev_find_ord_cust"}, probes |-> {"ev_probe_ord_cust"}]

ColorVariants ==
  [plane |-> "proposal", id |-> "prop_color_variant@1", proposalId |-> "prop_color_variant",
   previous |-> None, named |-> TRUE, keyColumns |-> <<1, 1>>,
   normalization |-> Lowercased, support |-> SupportOf(1914, 1914, 0, 1914, 1914),
   status |-> "quarantined_hypothesis", reason |-> TRUE, receipt |-> None,
   findings |-> {"ev_find_color_variant"}, probes |-> {"ev_probe_color_variant"}]

Promoted ==
  [OrdersToCustomers EXCEPT
     !.id = "prop_ord_cust@2", !.previous = "prop_ord_cust@1",
     !.status = "promoted_by_reviewer",
     !.receipt = [receipt |-> "ev_review_ord_cust", named |-> TRUE]]

RelationshipProposals == ProposalEvidence \o <<OrdersToCustomers, ColorVariants, Promoted>>
===============================================================================
