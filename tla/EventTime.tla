------------------------------- MODULE EventTime -------------------------------
(***************************************************************************)
(* The time of an event: an instant, with how it was arrived at when that  *)
(* was recorded, or a reason why there is none.  On the wire an instant    *)
(* without a basis is the bare timestamp of format 0.5.                    *)
(* Three event times are written out and read back, in any order.          *)
(***************************************************************************)
EXTENDS Integers, Sequences, SequencesExt

CONSTANT Instants    \* a small range of points in time

ASSUME EventTimeAssumption == Instants \subseteq Int

VARIABLES
  given,     \* the times as their producer held them
  times      \* the same as they are now

timeVars == <<given, times>>

\* In the order of their declaration, which is the derived order.
UnknownTimes ==
  <<"no_source_time", "asserted_without_date", "current_state_only",
    "ambiguous_source_time", "implausible_source_time">>

TimeBases == <<"source_record_time", "asserted_valid_from", "source_field_binding">>

\* The basis of an instant that was recorded without one.
NoBasis == "none"

Known(at, basis) == [known |-> TRUE, at |-> at, basis |-> basis]
Unknown(reason) == [known |-> FALSE, reason |-> reason]

EventTimes ==
  [known : {TRUE}, at : Instants, basis : ToSet(TimeBases) \union {NoBasis}]
    \union [known : {FALSE}, reason : ToSet(UnknownTimes)]

\* A time-window reader excludes a time that is not known.
InWindow(t, from, to) == t.known /\ from <= t.at /\ t.at <= to

Ordering(m, n) == IF m < n THEN -1 ELSE IF m = n THEN 0 ELSE 1
ReasonIndex(t) == SelectInSeq(UnknownTimes, LAMBDA reason : reason = t.reason)

\* Mutant of TimeCompare: an unknown time sorts where the epoch would.
TimeCompareEpoch(s, t) ==
  Ordering(IF s.known THEN s.at ELSE 0, IF t.known THEN t.at ELSE 0)

TimeCompare(s, t) ==
  IF s.known # t.known THEN (IF s.known THEN -1 ELSE 1)
  ELSE IF s.known THEN Ordering(s.at, t.at)
  ELSE Ordering(ReasonIndex(s), ReasonIndex(t))

-------------------------------------------------------------------------------
\* Wire form: a string, or an object with one key.

Bare(at) == [form |-> "string", at |-> at]
Keyed(key, body) == [form |-> "object", key |-> key, body |-> body]

Serialize(t) ==
  IF ~t.known THEN Keyed("unknown", [reason |-> t.reason])
  ELSE IF t.basis = NoBasis THEN Bare(t.at)
  ELSE Keyed("known", [at |-> t.at, basis |-> t.basis])

NotATime == [known |-> FALSE, reason |-> "not a time"]

\* A body must have the fields of its key, and may have others.
Deserialize(wire) ==
  IF wire.form = "string" THEN Known(wire.at, NoBasis)
  ELSE IF wire.key = "known" /\ {"at", "basis"} \subseteq DOMAIN wire.body
  THEN Known(wire.body.at, wire.body.basis)
  ELSE IF wire.key = "unknown" /\ "reason" \in DOMAIN wire.body
  THEN Unknown(wire.body.reason)
  ELSE NotATime

-------------------------------------------------------------------------------

InitTimes ==
  /\ \E s, t, u \in EventTimes : given = <<s, t, u>>
  /\ times = given

NoTimes == given = <<>> /\ times = <<>>

WriteAndRead ==
  /\ \E i \in DOMAIN times : times' = [times EXCEPT ![i] = Deserialize(Serialize(@))]
  /\ UNCHANGED given

TimeSpec == (InitTimes \/ NoTimes) /\ [][WriteAndRead]_timeVars

\* An event time is what it was before it was written, and what a time window
\* selects from events in their order is one stretch of them: no event out of
\* the window, and none without a known time, sorts between two in it
\* (EventTime's cmp and its wire forms).
WindowIsContiguous ==
  /\ times = given
  /\ \A from, to \in Instants :
       \A i, j, k \in DOMAIN times :
         /\ InWindow(times[i], from, to)
         /\ InWindow(times[k], from, to)
         /\ TimeCompare(times[i], times[j]) <= 0
         /\ TimeCompare(times[j], times[k]) <= 0
         => InWindow(times[j], from, to)
===============================================================================
