-------------------------- MODULE ConditionalRevision --------------------------
(***************************************************************************)
(* An optimistic-concurrency condition, kept inside the free-form metadata *)
(* of the observation it guards.                                           *)
(*                                                                         *)
(* Metadata that is an object is its three reserved entries and how many   *)
(* others it has.  An entry or a condition that may be absent is the empty *)
(* sequence then.  The version marker 0 stands for any value but the       *)
(* number 1.                                                               *)
(*                                                                         *)
(* Conditions are set, again after a lost answer or with another           *)
(* condition, and taken for a response that a client may submit once more. *)
(***************************************************************************)
EXTENDS Integers, Sequences

CONSTANTS
  Revision,        \* the id of the observation
  CallerMetadata,  \* metadata as a caller or an archive supplies it
  Conditions       \* conditions on the observation

\* A value under the condition's key that is not a condition.
Malformed == [malformed |-> TRUE]

ASSUME ConditionsAssumption == Malformed \notin Conditions

VARIABLES
  supplied,        \* the metadata the observation came with
  metadata,        \* Observation.metadata
  set              \* the condition it came with or was set last, and not taken since

metadataVars == <<supplied, metadata, set>>

ValidId(text) == text # ""

\* Length and NUL of an id are not modelled: "" stands for an id refused.
ValidCondition(c, revision) ==
  /\ ValidId(c.chainId) /\ ValidId(revision)
  /\ c.previous # <<>> => ValidId(c.previous[1]) /\ c.previous[1] # revision
  /\ c.initialize => c.previous # <<>>

\* Metadata: not an object, or an object.
Plain(text) == [object |-> FALSE, text |-> text]
Object(marker, condition, original, others) ==
  [object |-> TRUE, marker |-> marker, condition |-> condition, original |-> original,
   others |-> others]

UsesEnvelope(m) == m.object /\ m.marker = <<1>>

\* Mutant of EnvelopeWith: the producer's entries stay beside the condition.
EnvelopeWithFlat(c, m) ==
  IF m.object THEN Object(<<1>>, <<c>>, <<Plain("null")>>, 0)
  ELSE Object(<<1>>, <<c>>, <<m>>, 0)

\* What `set` nests the metadata in.
EnvelopeWith(c, m) == Object(<<1>>, <<c>>, <<m>>, 0)

\* "none", "refused", or the condition the metadata retains.
ReadCondition(m) ==
  IF ~UsesEnvelope(m) THEN [outcome |-> "none"]
  ELSE IF m.condition = <<>> \/ m.original = <<>> \/ m.others > 0 \/ m.condition = <<Malformed>>
  THEN [outcome |-> "refused"]
  ELSE [outcome |-> "found", condition |-> m.condition[1]]

\* set_conditional_revision on a record named `revision`: whether it succeeds,
\* and the metadata afterwards.
SetCondition(revision, m, c) ==
  LET read == ReadCondition(m) IN
  IF ~ValidCondition(c, revision) \/ read.outcome = "refused"
     \/ (read.outcome = "found" /\ read.condition # c)
  THEN [ok |-> FALSE, metadata |-> m]
  ELSE [ok |-> TRUE, metadata |-> IF read.outcome = "found" THEN m ELSE EnvelopeWith(c, m)]

\* take_conditional_revision.
TakeCondition(m) ==
  LET read == ReadCondition(m) IN
  [outcome |-> read, metadata |-> IF read.outcome = "found" THEN m.original[1] ELSE m]

-------------------------------------------------------------------------------

\* An observation that was stored comes with the condition it was stored with.
InitObservation ==
  /\ supplied \in CallerMetadata
  /\ metadata = supplied
  /\ LET read == ReadCondition(supplied) IN
     set = IF read.outcome = "found" THEN <<read.condition>> ELSE <<>>

NoObservation ==
  /\ supplied = Plain("null")
  /\ metadata = supplied
  /\ set = <<>>

Set(c) ==
  LET result == SetCondition(Revision, metadata, c) IN
  /\ metadata' = result.metadata
  /\ set' = IF result.ok THEN <<c>> ELSE set
  /\ UNCHANGED supplied

TakeRevision ==
  /\ metadata' = TakeCondition(metadata).metadata
  /\ set' = <<>>
  /\ UNCHANGED supplied

UseObservation == (\E c \in Conditions : Set(c)) \/ TakeRevision

ObservationSpec ==
  (InitObservation \/ NoObservation) /\ [][UseObservation]_metadataVars

\* The producer's own metadata, which may be inside an envelope already.
Own == TakeCondition(supplied).metadata

\* Whatever conditions were set, refused, set again and taken, before or after the
\* observation was stored, the metadata is the producer's own when none is set,
\* and when one is, taking it yields it and the producer's metadata; metadata that
\* claims to carry a condition and does not is left alone (Observation's set_ and
\* take_conditional_revision).
MetadataRestored ==
  /\ ReadCondition(supplied).outcome = "refused" => metadata = supplied
  /\ ReadCondition(Own).outcome = "none" =>
       IF set = <<>> THEN metadata = Own
       ELSE TakeCondition(metadata)
              = [outcome |-> [outcome |-> "found", condition |-> set[1]],
                 metadata |-> Own]
===============================================================================
