------------------------------ MODULE MCKnowledge ------------------------------
(***************************************************************************)
(* Columns of two rows, over keys that differ in their letters and in what *)
(* is around them, measured whole and in samples of one row; two proposal  *)
(* revisions, a receipt, and cases that cite a record in each of the       *)
(* places a case has.                                                      *)
(***************************************************************************)
EXTENDS KnowledgeArchive, KnowledgeGoldens

MCKey(letters, around) == [word |-> "a", letters |-> letters, around |-> around]
A == MCKey("lower", "nothing")
SpacedA == MCKey("lower", "space")
TabbedA == MCKey("lower", "tab")
UpperA == MCKey("ascii", "space")
OtherA == MCKey("other", "nothing")
SigmaA == MCKey("sigma", "nothing")
MedialA == MCKey("medial", "nothing")
ScaledA == MCKey("lower", "zeros")
B == [A EXCEPT !.word = "b"]

MCSeeded(method) == [method |-> method, percent |-> 50, seed |-> 1, cap |-> None]
MCFirst == [method |-> "capped_prefix", percent |-> None, seed |-> None, cap |-> 1]

MCDrawn ==
  [sampling \in {MCSeeded("system_repeatable"), MCSeeded("bernoulli_repeatable")} |->
     IF sampling.method = "system_repeatable" THEN {1, 3} ELSE {2}]

MCJoin(source, target, locale, ops, sampling, minSupport) ==
  [source |-> source, target |-> target, locale |-> locale,
   normalization |-> [source |-> ops[1], target |-> ops[2]],
   sampling |-> sampling, minSupport |-> minSupport]

MCWhole(source, target, ops, minSupport) == MCJoin(source, target, "c", ops, FullScan, minSupport)

MCJoins ==
  {MCWhole(<<A, None>>, <<A, B>>, <<"cast_text", None>>, 100),
   MCWhole(<<A, B>>, <<UpperA, None>>, <<"trim_lower", None>>, 50),
   MCWhole(<<A, B>>, <<UpperA, None>>, <<"trim_lower", None>>, 51),
   MCWhole(<<UpperA, B>>, <<A, SpacedA>>, <<"trim_lower", "lower">>, 50),
   MCWhole(<<SpacedA, TabbedA>>, <<A, SpacedA>>, <<"trim", None>>, 50),
   MCWhole(<<SpacedA, TabbedA>>, <<A, B>>, <<"trim", None>>, 50),
   MCWhole(<<None, None>>, <<A, B>>, <<"lower", "trim_lower">>, 1),
   MCWhole(<<TabbedA, SpacedA>>, <<A, B>>, <<"cast_bigint", None>>, 100),
   MCWhole(<<ScaledA, SpacedA>>, <<A, B>>, <<"cast_numeric", None>>, 100),
   MCJoin(<<OtherA, A>>, <<A, B>>, "c", <<"lower", None>>, FullScan, 50),
   MCJoin(<<SigmaA, A>>, <<MedialA, B>>, "letters", <<"lower", None>>, FullScan, 50),
   MCJoin(<<SigmaA, A>>, <<OtherA, MedialA>>, "full", <<"lower", None>>, FullScan, 50),
   MCJoin(<<A, B>>, <<A, A>>, "c", <<"trim", None>>, MCFirst, 100),
   MCJoin(<<A, B>>, <<B, A>>, "c", <<"trim", None>>, MCFirst, 100),
   MCJoin(<<A, B>>, <<A, A>>, "c", <<"trim", None>>, MCSeeded("system_repeatable"), 100),
   MCJoin(<<A, B>>, <<B, B>>, "c", <<"trim", None>>, MCSeeded("bernoulli_repeatable"), 100)}

\* Every row matched, whatever the columns hold; and a full scan with a seed.
MCNumbersOf(sampling) ==
  [contractVersion |-> 1, sourceRows |-> 2, sourceNonNull |-> 2, matchedRows |-> 2,
   targetRows |-> 2, targetNonNull |-> 2, targetDistinct |-> 2,
   sampling |-> sampling, tied |-> TRUE, minSupport |-> 100]

MCNumbers == {MCNumbersOf(FullScan), MCNumbersOf([FullScan EXCEPT !.seed = 1])}

MCGiven == <<Evidence("finding"), Evidence("copy"), Observation("o1"), Belief("b1", 1)>>

MCClaims == <<Claim("observation", "o1", None), Claim("belief", "b1", 1)>>
MCCase(id, previous) ==
  CaseOf(id, "c", previous, MCClaims, "uncertain", "unassessed", "open", {})

MCCases ==
  {MCCase("c1", None), MCCase("c1", "c2"), MCCase("c2", "c1"), MCCase("c2", "c2"),
   [MCCase("c1", None) EXCEPT !.claims = <<Claim("observation", "o1", None)>>],
   [MCCase("c1", None) EXCEPT !.claims[2].version = 2],
   [MCCase("c1", None) EXCEPT !.claims[2] = Claim("evidence", "finding", None)],
   [MCCase("c1", None) EXCEPT !.evidence = {"copy"}],
   [MCCase("c1", None) EXCEPT !.measurements = {"copy", None}],
   [MCCase("c1", None) EXCEPT !.receipts = {"receipt1"}],
   [MCCase("c1", None) EXCEPT !.supporting = {[evidence |-> "finding", of |-> "copy"]}],
   [MCCase("c1", None) EXCEPT !.refuting = {[evidence |-> "copy", of |-> None]}],
   [MCCase("c1", None) EXCEPT !.named = FALSE]}

MCGoldens == {ContradictionCases, RelationshipProposals}
===============================================================================
