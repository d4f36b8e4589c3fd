------------------------------- MODULE CappedLine -------------------------------
(***************************************************************************)
(* Lines::next_line with a bound: read_line_capped takes a line from a     *)
(* buffered input a piece at a time.                                       *)
(*                                                                         *)
(* A piece is what fill_buf returns: what is left of the piece before, or, *)
(* when nothing is, as much of the input as the source delivers.  Of a     *)
(* byte only matters whether it is a line feed, a carriage return or       *)
(* another.  Every call starts with a new Vec, so one piece may be read by *)
(* several calls and one line by several pieces.                           *)
(***************************************************************************)
EXTENDS Integers, Sequences

CONSTANTS
  Inputs,     \* what the source delivers, from its first byte to its last
  Max,        \* the bound on a line, in bytes
  MaxUsize    \* usize::MAX

Byte == {"lf", "cr", "other"}

ASSUME CappedLineAssumption ==
  /\ Inputs \subseteq Seq(Byte)
  /\ MaxUsize \in Nat
  /\ Max \in 0 .. MaxUsize

VARIABLES
  rest,       \* the bytes not consumed
  window,     \* how many of them the last fill_buf returned
  buf,        \* the line so far
  capacity,   \* the capacity asked for buf, in bytes
  result,     \* reading, or what the call returned
  begin       \* history: `rest` when the call began

vars == <<rest, window, buf, capacity, result, begin>>

AtMost(a, b) == IF a <= b THEN a ELSE b
AtLeast(a, b) == IF a >= b THEN a ELSE b

\* saturating_add, saturating_mul
Limit == AtMost(Max + 1, MaxUsize)
Twice(n) == AtMost(2 * n, MaxUsize)

Init ==
  /\ rest \in Inputs
  /\ window = 0
  /\ buf = <<>>
  /\ capacity = 0
  /\ result = "reading"
  /\ begin = rest

-------------------------------------------------------------------------------

\* fill_buf returns the next n bytes.
Available(n) ==
  /\ result = "reading"
  /\ n \in 1 .. Len(rest)
  /\ window # 0 => n = window

\* Where the first line feed of the piece is.
FirstFeed(n, i) ==
  /\ i \in 1 .. n
  /\ rest[i] = "lf"
  /\ \A j \in 1 .. (i - 1) : rest[j] # "lf"

\* Mutant of Takes: the piece is taken whole.
TakesAll(n, take) == take = n

\* Mutant of Takes: the byte after the line feed, or after the piece, too.
TakesOneMore(n, take) ==
  \/ FirstFeed(n, take - 1)
  \/ take = n + 1 /\ \A i \in 1 .. n : rest[i] # "lf"

\* The bytes of the piece that belong to the line.
Takes(n, take) ==
  \/ FirstFeed(n, take)
  \/ take = n /\ \A i \in 1 .. n : rest[i] # "lf"

FitsRoom(take) == take <= Limit - Len(buf)

\* Mutant of Grown: the doubled capacity is not held to the bound.
GrownUnbounded(needed) == AtLeast(Twice(capacity), needed)

\* The capacity reserve_exact is asked for.
Grown(needed) == AtMost(AtLeast(Twice(capacity), needed), Limit)

TakePiece(n, take) ==
  /\ Available(n)
  /\ Takes(n, take)
  /\ FitsRoom(take)
  /\ LET needed == Len(buf) + take
     IN capacity' = IF needed > capacity THEN Grown(needed) ELSE capacity
  /\ buf' = buf \o SubSeq(rest, 1, take)
  /\ rest' = SubSeq(rest, take + 1, Len(rest))
  /\ window' = n - take
  /\ result' = IF rest[take] = "lf" THEN "line" ELSE "reading"
  /\ UNCHANGED begin

\* Over the bound: nothing of the piece is consumed.
RefuseLine(n, take) ==
  /\ Available(n)
  /\ Takes(n, take)
  /\ ~FitsRoom(take)
  /\ result' = "too_long"
  /\ window' = n
  /\ UNCHANGED <<rest, buf, capacity, begin>>

\* Mutant of AtEnd: a line the end cuts short is waited for.
AtEndOfLines ==
  /\ result = "reading"
  /\ rest = <<>>
  /\ buf = <<>>
  /\ result' = "end"
  /\ UNCHANGED <<rest, window, buf, capacity, begin>>

AtEnd ==
  /\ result = "reading"
  /\ rest = <<>>
  /\ result' = IF buf = <<>> THEN "end" ELSE "line"
  /\ UNCHANGED <<rest, window, buf, capacity, begin>>

\* fill_buf fails: what this call consumed is lost with its Vec.
FailFill ==
  /\ result = "reading"
  /\ window = 0
  /\ result' = "error"
  /\ UNCHANGED <<rest, window, buf, capacity, begin>>

\* fill_buf is interrupted, and called again.
Interrupted ==
  /\ result = "reading"
  /\ window = 0
  /\ UNCHANGED vars

\* The next call of next_line.
Call ==
  /\ result # "reading"
  /\ result' = "reading"
  /\ buf' = <<>>
  /\ capacity' = 0
  /\ begin' = rest
  /\ UNCHANGED <<rest, window>>

Read ==
  \/ \E n \in 1 .. Len(rest), take \in 1 .. Len(rest) :
       TakePiece(n, take) \/ RefuseLine(n, take)
  \/ AtEnd

Next == Read \/ FailFill \/ Interrupted \/ Call

\* A call that is not interrupted for ever goes on.
Spec == Init /\ [][Next]_vars /\ WF_vars(Read)

-------------------------------------------------------------------------------

\* `\n` and `\r\n` are stripped from what next_line returns.
Text(line) ==
  LET unfed == IF line # <<>> /\ line[Len(line)] = "lf"
               THEN SubSeq(line, 1, Len(line) - 1) ELSE line
  IN IF unfed # line /\ unfed # <<>> /\ unfed[Len(unfed)] = "cr"
     THEN SubSeq(unfed, 1, Len(unfed) - 1) ELSE unfed

\* Every variable stays in its type.
TypeOK ==
  /\ rest \in Seq(Byte)
  /\ window \in Nat
  /\ buf \in Seq(Byte)
  /\ capacity \in Nat
  /\ result \in {"reading", "line", "too_long", "end", "error"}
  /\ begin \in Seq(Byte)

\* Whatever the pieces, no more than the bound and one byte is kept or asked
\* for, and neither `limit - buf.len()` nor `grown - buf.len()` underflows.
MemoryBounded ==
  /\ Len(buf) <= capacity
  /\ capacity <= Limit

\* A line: the bytes up to and including the first line feed, or all of them.
IsFirstLine(line, bytes) ==
  /\ line # <<>>
  /\ Len(line) <= Len(bytes)
  /\ line = SubSeq(bytes, 1, Len(line))
  /\ \A i \in 1 .. (Len(line) - 1) : line[i] # "lf"
  /\ line[Len(line)] = "lf" \/ Len(line) = Len(bytes)

\* However the source cut it into pieces, a call returns the first line of what
\* was there when it began and leaves what comes after; it refuses a line only
\* when that is longer than the limit; and it reports the end only at the end.
ReturnsFirstLine ==
  /\ result = "line" => IsFirstLine(buf, begin) /\ begin = buf \o rest
  /\ result = "too_long" =>
       /\ begin = buf \o rest
       /\ \A k \in 1 .. Len(begin) : IsFirstLine(SubSeq(begin, 1, k), begin) => k > Limit
  /\ result = "end" => begin = <<>>

\* A call returns, unless its source is interrupted for ever.
EveryCallReturns == []<>(result # "reading")

\* "Ok(Some(false)) for a line over `max`" (read_line_capped): no returned line
\* is over `max` bytes long.
HeldToMax == result = "line" => Len(Text(buf)) <= Max
===============================================================================
