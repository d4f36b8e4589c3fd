------------------------------- MODULE ExactJson -------------------------------
(***************************************************************************)
(* Opaque fields decoded apart from the shared parser.  Each path is taken *)
(* out of the text in turn: where it occurs, duplicates included, is       *)
(* blanked, and the occurrence a decode keeps is read exactly.  The shared *)
(* parser then reads what is left, and the exact values are put back.      *)
(*                                                                         *)
(* A document is a tree, given as a function from positions to nodes: the  *)
(* position of a node is the numbers of the children on the way to it, so  *)
(* that its length is how deep the node is.  A scalar is what the two      *)
(* parsers make of it:                                                     *)
(*   exact      both read it as it is                                      *)
(*   lossy      a double the shared parser reads as its neighbour          *)
(*   wide       a double the shared parser refuses as out of range         *)
(*   infinite   a valid number that no double holds                        *)
(*   malformed  not JSON: a number, an escape, a literal                   *)
(* Missing commas and the like are left out: both parsers stop at them.    *)
(* What a parser reads is likewise a function, from the steps that lead to *)
(* a value to what is there.  The shared parser reads a plain value, in    *)
(* which the last of two members with one key wins; a record type may      *)
(* refuse it besides.                                                      *)
(***************************************************************************)
EXTENDS Integers, SequencesExt

CONSTANTS
  Documents,       \* the documents read
  PathLists,       \* the paths taken out of one
  MaxNesting       \* MAX_NESTING, 127

Scalars == {"exact", "lossy", "wide", "infinite", "malformed"}

ScalarNode(class) == [node |-> "scalar", class |-> class]
ArrayNode == [node |-> "array"]
\* A key may be spelled with escapes; it is what it decodes to.
ObjectNode(members) == [node |-> "object", members |-> members]
Blank == ScalarNode("exact")

Steps == [step : {"key"}, key : STRING] \union [step : {"index"}, index : Nat]
KeyStep(key) == [step |-> "key", key |-> key]
IndexStep(i) == [step |-> "index", index |-> i]

\* The first n numbers of a position.
UpTo(p, n) == SubSeq(p, 1, n)

\* Every node is the child of a container, which has it where it says.
IsDocument(doc) ==
  /\ doc = [p \in DOMAIN doc |-> doc[p]]
  /\ <<>> \in DOMAIN doc
  /\ \A p \in DOMAIN doc :
       /\ p \in Seq(Nat)
       /\ \/ doc[p].node = "scalar" /\ doc[p].class \in Scalars
          \/ doc[p].node = "array"
          \/ doc[p].node = "object" /\ doc[p].members \in Seq([key : STRING, escaped : BOOLEAN])
       /\ \A k \in DOMAIN p :
            /\ UpTo(p, k - 1) \in DOMAIN doc
            /\ doc[UpTo(p, k - 1)].node # "scalar"
            /\ doc[UpTo(p, k - 1)].node = "object" => p[k] \in DOMAIN doc[UpTo(p, k - 1)].members

ASSUME ExactJsonAssumption ==
  /\ \A doc \in Documents : IsDocument(doc)
  /\ PathLists \subseteq Seq(Seq(Steps))
  /\ \A list \in PathLists : \A i, j \in DOMAIN list : i # j => ~IsPrefix(list[i], list[j])
  /\ MaxNesting \in Nat

-------------------------------------------------------------------------------
\* The cursor

Within(doc, p) == {q \in DOMAIN doc : IsPrefix(p, q)}

\* Skipping the value at a position: `enter` refuses a container that is too
\* deep, and in strict mode the grammar is checked.
Skips(doc, p, strict) ==
  \A q \in Within(doc, p) :
    IF doc[q].node = "scalar" THEN strict => doc[q].class # "malformed"
    ELSE Len(q) < MaxNesting

\* Mutant of Matches: keys are compared as they are spelled.
MatchesRaw(doc, q, step) ==
  LET parent == doc[Front(q)] IN
  IF step.step = "key"
  THEN /\ parent.node = "object"
       /\ ~parent.members[Last(q)].escaped /\ parent.members[Last(q)].key = step.key
  ELSE parent.node = "array" /\ Last(q) = step.index

\* The node at q is where a step leads from its container.
Matches(doc, q, step) ==
  LET parent == doc[Front(q)] IN
  IF step.step = "key"
  THEN parent.node = "object" /\ parent.members[Last(q)].key = step.key
  ELSE parent.node = "array" /\ Last(q) = step.index

HasStep(node, step) == node.node = IF step.step = "key" THEN "object" ELSE "array"

Along(doc, p, path) ==
  Len(p) <= Len(path) /\ \A k \in DOMAIN p : Matches(doc, UpTo(p, k), path[k])

\* Mutant of Effective: the last occurrence that has the rest of the path.
EffectiveWhereFound(doc, all, path) ==
  {p \in all : \A q \in all : \A k \in DOMAIN p :
     UpTo(q, k - 1) = UpTo(p, k - 1) => q[k] <= p[k]}

\* A later duplicate replaces an earlier one, even without the rest of the path.
Effective(doc, all, path) ==
  {p \in all : \A q \in DOMAIN doc : \A k \in DOMAIN p :
     Len(q) = k /\ UpTo(q, k - 1) = UpTo(p, k - 1) /\ Matches(doc, q, path[k]) => q[k] <= p[k]}

\* Where a path occurs: every occurrence, and at most one effective one.  The
\* cursor enters the containers along the path and skips what leads elsewhere.
Locate(doc, path) ==
  LET along == {p \in DOMAIN doc : Along(doc, p, path)}
      all == {p \in along : Len(p) = Len(path)}
      entered == {p \in along \ all : HasStep(doc[p], path[Len(p) + 1])}
      aside == (along \ all) \ entered
      missed == {p \in DOMAIN doc \ along : p # <<>> /\ Front(p) \in entered}
  IN [ok |-> /\ \A p \in all : Skips(doc, p, TRUE)
             /\ \A p \in entered : Len(p) < MaxNesting
             /\ \A p \in aside \union missed : Skips(doc, p, FALSE),
      all |-> all,
      effective |-> Effective(doc, all, path)]

SpliceNull(doc, positions) ==
  [p \in {q \in DOMAIN doc : \A r \in positions : ~IsStrictPrefix(r, q)} |->
     IF p \in positions THEN Blank ELSE doc[p]]

-------------------------------------------------------------------------------
\* Values

StepTo(doc, q) ==
  IF doc[Front(q)].node = "object" THEN KeyStep(doc[Front(q)].members[Last(q)].key)
  ELSE IndexStep(Last(q))

StepsTo(doc, p) == [k \in DOMAIN p |-> StepTo(doc, UpTo(p, k))]

\* The last of the members with a key wins.
IsLast(doc, q) ==
  \A r \in DOMAIN doc :
    Len(r) = Len(q) /\ Front(r) = Front(q) /\ StepTo(doc, r) = StepTo(doc, q) => Last(r) <= Last(q)

Reading(node, reads) ==
  IF node.node = "scalar" THEN [node |-> "scalar", value |-> reads[node.class]]
  ELSE [node |-> node.node]

\* The value at a position: what the steps below it lead to.
ValueAt(doc, p, reads) ==
  LET kept == {q \in Within(doc, p) : \A k \in Len(p) + 1 .. Len(q) : IsLast(doc, UpTo(q, k))}
      Below(q) == SubSeq(StepsTo(doc, q), Len(p) + 1, Len(q))
  IN  [steps \in {Below(q) : q \in kept} |->
         Reading(doc[CHOOSE q \in kept : Below(q) = steps], reads)]

\* decode_span: correctly rounded, and a number that no double holds refused.
ExactReads == [class \in Scalars |-> class]
ExactOk(doc, p) ==
  \A q \in Within(doc, p) : doc[q].node = "scalar" => doc[q].class \notin {"infinite", "malformed"}

\* The shared parser.
SharedReads == [ExactReads EXCEPT !["lossy"] = "neighbour"]
SharedOk(doc) ==
  /\ Skips(doc, <<>>, TRUE)
  /\ \A q \in DOMAIN doc : doc[q].node = "scalar" => doc[q].class \in {"exact", "lossy"}

\* The field is assigned, whether or not it was read.
PutBack(value, path, new) ==
  LET field == Last(path).step = "key" /\ Front(path) \in DOMAIN value
                 /\ value[Front(path)].node = "object"
      others == {s \in DOMAIN value : ~IsPrefix(path, s)}
  IN  IF path \in DOMAIN value \/ field
      THEN [s \in others \union {path \o t : t \in DOMAIN new} |->
              IF s \in others THEN value[s] ELSE new[SubSeq(s, Len(path) + 1, Len(s))]]
      ELSE value

-------------------------------------------------------------------------------
\* from_slice_exact

VARIABLES
  document, \* the document
  paths,    \* the paths to be taken out
  scratch,  \* the copy with the paths taken so far blanked
  exact,    \* for each path taken, the exact value found there, if any
  record,   \* what the shared parser read, the exact values put back so far
  put,      \* how many of them that is
  outcome   \* reading, refused, or decoded

documentVars == <<document, paths, scratch, exact, record, put, outcome>>

InitDocument ==
  /\ document \in Documents
  /\ paths \in PathLists
  /\ scratch = document
  /\ exact = <<>>
  /\ record = <<>>
  /\ put = 0
  /\ outcome = "reading"

NoDocument ==
  /\ document = <<>> /\ paths = <<>> /\ scratch = <<>> /\ exact = <<>> /\ record = <<>>
  /\ put = 0 /\ outcome = "none"

\* take_at.
TakeAt ==
  /\ outcome = "reading"
  /\ Len(exact) < Len(paths)
  /\ LET found == Locate(scratch, paths[Len(exact) + 1]) IN
     IF found.ok /\ \A p \in found.effective : ExactOk(scratch, p)
     THEN /\ scratch' = SpliceNull(scratch, found.all)
          /\ exact' = Append(exact, {ValueAt(scratch, p, ExactReads) : p \in found.effective})
          /\ UNCHANGED outcome
     ELSE /\ outcome' = "refused"
          /\ UNCHANGED <<scratch, exact>>
  /\ UNCHANGED <<document, paths, record, put>>

\* The shared decode of what is left.
DecodeRest ==
  /\ outcome = "reading"
  /\ Len(exact) = Len(paths)
  /\ IF SharedOk(scratch)
     THEN outcome' = "decoded" /\ record' = ValueAt(scratch, <<>>, SharedReads)
     ELSE outcome' = "refused" /\ UNCHANGED record
  /\ UNCHANGED <<document, paths, scratch, exact, put>>

\* The next exact value put back, if there is one.
PutNext ==
  /\ outcome = "decoded"
  /\ put < Len(exact)
  /\ put' = put + 1
  /\ \/ exact[put'] = {} /\ UNCHANGED record
     \/ \E new \in exact[put'] : record' = PutBack(record, paths[put'], new)
  /\ UNCHANGED <<document, paths, scratch, exact, outcome>>

NextDocument == TakeAt \/ DecodeRest \/ PutNext

DocumentSpec == (InitDocument \/ NoDocument) /\ [][NextDocument]_documentVars

-------------------------------------------------------------------------------
\* What becomes of the document

OnPath(doc, p) == \E path \in ToSet(paths) : IsPrefix(path, StepsTo(doc, p))

\* A document that decodes reads as an exact parser reads it at the paths, where
\* of duplicates the last counts at every level, and as the shared parser reads
\* it everywhere else (from_slice_exact).
ExactAtThePaths ==
  outcome = "decoded" /\ put = Len(paths) =>
    LET shared == ValueAt(document, <<>>, SharedReads) IN
    record = [steps \in DOMAIN shared |->
                IF \E path \in ToSet(paths) : IsPrefix(path, steps)
                THEN ValueAt(document, <<>>, ExactReads)[steps] ELSE shared[steps]]

\* What the shared parser would accept, any valid number being one at the paths.
AcceptableButAtPaths ==
  \A p \in DOMAIN document :
    IF document[p].node # "scalar" THEN Len(p) < MaxNesting
    ELSE \/ document[p].class \in {"exact", "lossy"}
         \/ OnPath(document, p) /\ document[p].class # "malformed"

\* A number that no double holds is in a value that the paths lead to.
ReadsInfinite ==
  \E p \in DOMAIN document :
    /\ StepsTo(document, p) \in ToSet(paths)
    /\ \A k \in DOMAIN p : IsLast(document, UpTo(p, k))
    /\ \E q \in Within(document, p) : document[q].node = "scalar" /\ document[q].class = "infinite"

\* Blanking an occurrence hides no fault of the document: it decodes exactly
\* when the shared parser would accept it but for valid numbers at the paths,
\* and the numbers kept fit a double (locate, skip and decode_span).
AcceptsAsShared ==
  outcome \in {"decoded", "refused"} =>
    (outcome = "decoded" <=> AcceptableButAtPaths /\ ~ReadsInfinite)
===============================================================================
