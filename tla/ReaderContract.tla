----------------------------- MODULE ReaderContract -----------------------------
(***************************************************************************)
(* What AntReader promises a caller that stops at the first error.  The    *)
(* records it hands out are, at every moment, a well-grouped sequence; a   *)
(* record is refused for its place only when no well-grouped sequence goes *)
(* on with it; and the end is reported only of a sequence whose last       *)
(* original is complete.                                                   *)
(***************************************************************************)
EXTENDS OriginalGroups

CONSTANT Records   \* the data records a stream may hold

VARIABLES
  carries,   \* whether the stream may carry originals
  accepted,  \* the records handed out
  status     \* reading, refused (for its place), failed (otherwise), verified

contractVars == <<carries, accepted, status>>

Init ==
  /\ carries = FALSE
  /\ accepted = <<>>
  /\ status = "closed"

Begin ==
  /\ status = "closed"
  /\ status' = "reading"
  /\ carries' \in BOOLEAN
  /\ UNCHANGED accepted

Accept(r) ==
  /\ status = "reading"
  /\ accepted' = Append(accepted, r)
  /\ InPlace(accepted', Len(accepted'), carries)
  /\ UNCHANGED <<carries, status>>

Refuse(r) ==
  /\ status = "reading"
  /\ status' = "refused"
  /\ LET s == Append(accepted, r) IN ~InPlace(s, Len(s), carries)
  /\ UNCHANGED <<carries, accepted>>

Fail ==
  /\ status \in {"closed", "reading"}
  /\ status' = "failed"
  /\ UNCHANGED <<carries, accepted>>

Verify ==
  /\ status = "reading"
  /\ Complete(accepted)
  /\ status' = "verified"
  /\ UNCHANGED <<carries, accepted>>

Next ==
  \/ Begin
  \/ \E r \in Records : Accept(r) \/ Refuse(r)
  \/ Fail
  \/ Verify

Spec == Init /\ [][Next]_contractVars
===============================================================================
