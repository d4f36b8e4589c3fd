------------------------------- MODULE MCOntology -------------------------------
(***************************************************************************)
(* Two vaults, two drafted subjects.  Plans: one that is in order, and     *)
(* variants each of which breaks one rule of the shape.                    *)
(***************************************************************************)
EXTENDS OntologyElection

MCEvidence == RecordRef("evidence", "e", 1)
MCDrifted == RecordRef("evidence", "e", 2)
MCObservation == RecordRef("observation", "o", 3)

MCType(key, name) ==
  [kind |-> "schema_type", key |-> key, revision |-> "1", contentSha256 |-> 1,
   support |-> <<MCEvidence>>,
   content |-> [name |-> name, properties |-> <<"amount">>,
                relations |-> <<[name |-> "owner", target |-> "Person", properties |-> <<>>]>>]]

MCMapping ==
  [kind |-> "mapping_definition", key |-> "M", revision |-> "1", contentSha256 |-> 1,
   support |-> <<MCEvidence>>,
   content |-> [sourceType |-> "S", sourceField |-> "f", predicate |-> "p", targetType |-> "T"]]

MCPosition(records) == <<[disposition |-> "competing", records |-> records]>>

MCPlan ==
  [items |-> <<MCType("T", "T"), MCMapping>>, published |-> <<MCEvidence>>,
   claims |-> <<>>, positions |-> <<>>, attribution |-> <<>>]

MCPlans ==
  {MCPlan,
   [MCPlan EXCEPT !.published = <<MCEvidence, MCObservation>>,
                  !.claims = <<MCObservation>>, !.positions = MCPosition(<<MCObservation>>)],
   [MCPlan EXCEPT !.published = <<MCEvidence, MCDrifted>>, !.claims = <<MCDrifted>>],
   [MCPlan EXCEPT !.positions = MCPosition(<<MCObservation>>)],
   [MCPlan EXCEPT !.items = <<MCType("T", "T"), MCType("U", "T")>>]}

MCCallers ==
  {[principal |-> "machine:main-server", subjectType |-> "service"],
   [principal |-> "user:a", subjectType |-> "user"]}
===============================================================================
