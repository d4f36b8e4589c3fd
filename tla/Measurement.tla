------------------------------ MODULE Measurement ------------------------------
(***************************************************************************)
(* The measurement behind a proposed relationship: a join between a source *)
(* column and a target column, normalized on both sides, counted over a    *)
(* sample and judged against a threshold.                                  *)
(*                                                                         *)
(* Ratios and thresholds are hundredths.  Both are f64 in the code: a      *)
(* division of counts below 2^53 is correctly rounded, so it falls below   *)
(* the threshold exactly when the ratio of the integers does.              *)
(***************************************************************************)
EXTENDS Integers, Sequences, FiniteSets

CONSTANTS
  None,  \* Rust's Option::None, and SQL's NULL
  Drawn  \* the numbers of the rows that a seeded sample draws, by its description

SupportContractVersion == 1

-------------------------------------------------------------------------------
\* SamplingMethod, Sampling

SamplingMethods == {"full_scan", "system_repeatable", "bernoulli_repeatable", "capped_prefix"}

\* The fields a method requires, and those it forbids.
FieldRule(method) ==
  CASE method = "full_scan" ->
         [required |-> {}, forbidden |-> {"percent", "seed", "cap"}]
    [] method \in {"system_repeatable", "bernoulli_repeatable"} ->
         [required |-> {"percent", "seed"}, forbidden |-> {}]
    [] method = "capped_prefix" ->
         [required |-> {"cap"}, forbidden |-> {}]

Sampling ==
  [method : SamplingMethods, percent : Int \union {None}, seed : Int \union {None},
   cap : Nat \union {None}]

FullScan == [method |-> "full_scan", percent |-> None, seed |-> None, cap |-> None]

\* Sampling::has
Has(sampling, field) == sampling[field] # None

\* Sampling::check
SamplingCoherent(sampling) ==
  LET rule == FieldRule(sampling.method) IN
  /\ \A field \in rule.required : Has(sampling, field)
  /\ \A field \in rule.forbidden : ~Has(sampling, field)
  /\ Has(sampling, "percent") => sampling.percent > 0 /\ sampling.percent <= 100
  /\ sampling.cap # 0

-------------------------------------------------------------------------------
\* RelationSupport

\* `tied` is whether the fingerprint names a run.
RelationSupport ==
  [contractVersion : Nat, sourceRows : Nat, sourceNonNull : Nat, matchedRows : Nat,
   targetRows : Nat, targetNonNull : Nat, targetDistinct : Nat,
   sampling : Sampling, tied : BOOLEAN, minSupport : Int]

\* Mutant of Coherent: a key that identifies every row is taken for a miscount.
CoherentStrict(s) ==
  /\ s.contractVersion \in 1 .. SupportContractVersion
  /\ s.tied
  /\ s.minSupport > 0 /\ s.minSupport <= 100
  /\ SamplingCoherent(s.sampling)
  /\ s.sourceNonNull <= s.sourceRows /\ s.matchedRows <= s.sourceNonNull
  /\ s.targetNonNull <= s.targetRows /\ s.targetDistinct < s.targetNonNull

\* RelationSupport::check_coherent
Coherent(s) ==
  /\ s.contractVersion \in 1 .. SupportContractVersion
  /\ s.tied
  /\ s.minSupport > 0 /\ s.minSupport <= 100
  /\ SamplingCoherent(s.sampling)
  /\ s.sourceNonNull <= s.sourceRows /\ s.matchedRows <= s.sourceNonNull
  /\ s.targetNonNull <= s.targetRows /\ s.targetDistinct <= s.targetNonNull

\* RelationSupport::ratio, as the two sides of its comparison with minSupport.
\* There is no ratio over an empty denominator.
RatioClears(s) ==
  s.sourceNonNull # 0 /\ s.matchedRows * 100 >= s.minSupport * s.sourceNonNull

\* Mutant of Clears: the target key may identify several rows.
ClearsAmbiguous(s) ==
  /\ Coherent(s)
  /\ RatioClears(s)
  /\ s.matchedRows # 0
  /\ s.targetNonNull # 0

\* RelationSupport::check
Clears(s) ==
  /\ Coherent(s)
  /\ RatioClears(s)
  /\ s.matchedRows # 0
  /\ s.targetNonNull # 0
  /\ s.targetDistinct = s.targetNonNull

-------------------------------------------------------------------------------
\* The rows a measurement covers.  A column is a sequence of keys and NULLs.

\* A key is a word; the letters that lower-casing changes, if any; and what is
\* around it.  "ascii" and "other" are upper-case letters of ASCII and beyond.
\* "sigma" is an upper-case word that ends in a sigma, and "medial" the same in
\* lower case with the sigma of the middle of a word.  "zeros" are those behind
\* the decimals of a number.
Key == [word : STRING, letters : {"lower", "ascii", "other", "sigma", "medial"},
        around : {"nothing", "space", "tab", "zeros"}]

\* The same sample can be taken again: which rows a seeded one draws is a
\* function of its description.
CoveredRows(sampling, column) ==
  CASE sampling.method = "full_scan" -> DOMAIN column
    [] sampling.method = "capped_prefix" -> {i \in DOMAIN column : i <= sampling.cap}
    [] OTHER -> DOMAIN column \cap Drawn[sampling]

\* Those that have a key.
Keyed(sampling, column) == {i \in CoveredRows(sampling, column) : column[i] # None}

-------------------------------------------------------------------------------
\* Normalization

\* Of the casts, "cast_bigint" stands for all that render equal values alike.
NormalizationOps == {"trim", "lower", "trim_lower", "cast_text", "cast_bigint", "cast_numeric"}

Normalization == [source : NormalizationOps, target : NormalizationOps \union {None}]

\* Normalization::target_op
TargetOp(n) == IF n.target = None THEN n.source ELSE n.target

Trims(op) == op \in {"trim", "trim_lower"}
Lowers(op) == op \in {"lower", "trim_lower"}

\* str::trim, and str::to_lowercase, which knows the sigma that ends a word.
Trimmed(key) == [key EXCEPT !.around = IF @ = "zeros" THEN @ ELSE "nothing"]
Lowered(key) == [key EXCEPT !.letters = IF @ = "medial" THEN @ ELSE "lower"]

\* PostgreSQL's btrim, which strips spaces only.
Btrimmed(key) == IF key.around = "space" THEN Trimmed(key) ELSE key

\* PostgreSQL's lower depends on the locale of the database: "c" changes ASCII
\* only, "letters" goes letter by letter, "full" follows Unicode as Rust does.
Locales == {"c", "letters", "full"}

LoweredInSql(locale, key) ==
  [key EXCEPT !.letters =
     CASE locale = "c" /\ @ # "ascii" -> @
       [] locale = "letters" /\ @ \in {"sigma", "medial"} -> "medial"
       [] OTHER -> Lowered(key).letters]

\* What a typed cast makes of a key, read back as text.  A numeric keeps its
\* scale.
ReadBack(op, key) == IF op \in {"cast_bigint", "cast_numeric"} THEN Trimmed(key) ELSE key

\* Mutant of Apply: trim_lower lowers only.
ApplyNoTrim(op, key) ==
  LET trimmed == IF op = "trim" THEN Trimmed(key) ELSE key
  IN IF Lowers(op) THEN Lowered(trimmed) ELSE trimmed

\* NormalizationOp::apply, in this process, on a value read as text.
Apply(op, key) ==
  LET trimmed == IF Trims(op) THEN Trimmed(key) ELSE key
  IN IF Lowers(op) THEN Lowered(trimmed) ELSE trimmed

\* What the database compares after NormalizationOp::to_sql.  Numerics are equal
\* whatever their scale.
InSql(locale, op, key) ==
  LET trimmed == IF Trims(op) THEN Btrimmed(key) ELSE ReadBack(op, key) IN
  IF Lowers(op) THEN LoweredInSql(locale, trimmed)
  ELSE IF op = "cast_numeric" THEN [trimmed EXCEPT !.around = "nothing"]
  ELSE trimmed

-------------------------------------------------------------------------------
\* JoinMatchScan, by the database, of the columns j.source and j.target.

\* The covered target rows that a source row matches.
SqlMatches(j, n, sampling, i) ==
  {k \in Keyed(sampling, j.target) :
     InSql(j.locale, n.source, j.source[i]) = InSql(j.locale, TargetOp(n), j.target[k])}

Measured(j, n, sampling, minSupport) ==
  LET source == Keyed(sampling, j.source)
      target == Keyed(sampling, j.target)
  IN [contractVersion |-> SupportContractVersion,
      sourceRows |-> Cardinality(CoveredRows(sampling, j.source)),
      sourceNonNull |-> Cardinality(source),
      matchedRows |-> Cardinality({i \in source : SqlMatches(j, n, sampling, i) # {}}),
      targetRows |-> Cardinality(CoveredRows(sampling, j.target)),
      targetNonNull |-> Cardinality(target),
      targetDistinct |-> Cardinality({InSql(j.locale, TargetOp(n), j.target[k]) : k \in target}),
      sampling |-> sampling,
      tied |-> TRUE,
      minSupport |-> minSupport]

\* The rows an export would resolve a source row to, looked up in this process
\* among all the target keys.
Resolves(j, n, i) ==
  {k \in Keyed(FullScan, j.target) :
     Apply(n.source, ReadBack(n.source, j.source[i]))
       = Apply(TargetOp(n), ReadBack(TargetOp(n), j.target[k]))}
===============================================================================
