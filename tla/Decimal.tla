-------------------------------- MODULE Decimal --------------------------------
(***************************************************************************)
(* Exact decimals, `unscaled / 10^scale`, in an integer of fixed width.    *)
(* A literal is its sign, its digits before and after the point, and its   *)
(* exponent; a text that is not a decimal literal is none of these and     *)
(* parses as None.  Reading an i32 exponent beyond its range is not        *)
(* modelled.                                                               *)
(* Two decimals are read from literals, then printed and read, or rescaled,*)
(* in any order.                                                           *)
(***************************************************************************)
EXTENDS Integers, Sequences, SequencesExt

CONSTANTS
  None,
  MinInt, MaxInt,  \* i128
  MaxPrecision,    \* MAX_PRECISION, 38
  Literals         \* decimal literals

\* The powers of ten.
Ten[k \in Nat] == IF k = 0 THEN 1 ELSE 10 * Ten[k - 1]

ASSUME DecimalAssumption ==
  /\ MaxInt \in Nat /\ MinInt = -MaxInt - 1
  /\ MinInt % 10 # 0  \* a power of two
  /\ MaxPrecision \in Nat \ {0}
  /\ Ten[MaxPrecision] - 1 <= MaxInt

ASSUME NoneAssumption == None \notin Int \union [unscaled : Int, scale : Nat]

ASSUME LiteralsAssumption ==
  Literals \subseteq [negative : BOOLEAN, int : Seq(0 .. 9), frac : Seq(0 .. 9), exp : Int]

VARIABLES
  literals,  \* the literals two decimals were read from
  decimals   \* the decimals as they are now

decimalVars == <<literals, decimals>>

Fits(n) == n \in MinInt .. MaxInt
Magnitude(n) == IF n < 0 THEN -n ELSE n
Sign(n) == IF n < 0 THEN -1 ELSE IF n = 0 THEN 0 ELSE 1

\* -1, 0 or 1, as Ordering.
Compare(m, n) == Sign(m - n)

DecimalOf(unscaled, scale) == [unscaled |-> unscaled, scale |-> scale]

FromParts(unscaled, scale) ==
  IF scale <= MaxPrecision THEN DecimalOf(unscaled, scale) ELSE None

Literal(negative, int, frac, exp) ==
  [negative |-> negative, int |-> int, frac |-> frac, exp |-> exp]

\* checked_mul(10) and checked_add, over digits that are not negative.
Accumulate(digits) ==
  LET read[k \in 0 .. Len(digits)] ==
        IF k = 0 THEN 0
        ELSE IF read[k - 1] # None /\ Fits(10 * read[k - 1] + digits[k])
        THEN 10 * read[k - 1] + digits[k]
        ELSE None
  IN  read[Len(digits)]

Shifted(n, places) == IF n # None /\ Fits(n * Ten[places]) THEN n * Ten[places] ELSE None

Parse(l) ==
  LET scale == Len(l.frac) - l.exp
      digits == Accumulate(l.int \o l.frac)
      unscaled == IF scale < 0 THEN Shifted(digits, -scale) ELSE digits
  IN  IF l.int \o l.frac = <<>> \/ unscaled = None \/ scale > MaxPrecision
      THEN None
      ELSE DecimalOf(IF l.negative THEN -unscaled ELSE unscaled, IF scale < 0 THEN 0 ELSE scale)

Rescale(d, target) ==
  IF target > MaxPrecision THEN None
  ELSE IF target >= d.scale
       THEN LET wider == Shifted(d.unscaled, target - d.scale) IN
            IF wider = None THEN None ELSE DecimalOf(wider, target)
       ELSE IF Magnitude(d.unscaled) % Ten[d.scale - target] # 0 THEN None
            ELSE DecimalOf(Sign(d.unscaled) * (Magnitude(d.unscaled) \div Ten[d.scale - target]),
                           target)

DigitCount(n) == CHOOSE k \in 1 .. n + 1 : n < Ten[k] /\ (k = 1 \/ Ten[k - 1] <= n)
DigitsOf(n) == [i \in 1 .. DigitCount(n) |-> (n \div Ten[DigitCount(n) - i]) % 10]
Zeros(k) == [i \in 1 .. k |-> 0]

Precision(d) ==
  IF d.unscaled = 0 THEN 1
  ELSE LET digits == DigitCount(Magnitude(d.unscaled)) IN
       IF digits < d.scale THEN d.scale ELSE digits

\* The digits before and after the point.
SplitDigits(d) ==
  LET digits == DigitsOf(Magnitude(d.unscaled)) IN
  IF Len(digits) > d.scale
  THEN [int |-> SubSeq(digits, 1, Len(digits) - d.scale),
        frac |-> SubSeq(digits, Len(digits) - d.scale + 1, Len(digits))]
  ELSE [int |-> <<0>>, frac |-> Zeros(d.scale - Len(digits)) \o digits]

\* The place of the first number that is not 0, or 0.
FirstNonZero(s) == SelectInSeq(s, LAMBDA d : d # 0)

TrimZeros(s) ==
  LET i == FirstNonZero(s) IN IF i = 0 THEN <<>> ELSE SubSeq(s, i, Len(s))

Display(d) ==
  Literal(d.unscaled < 0, SplitDigits(d).int, SplitDigits(d).frac, 0)

\* Digit strings of one length, left to right.
LexCompare(s, t) ==
  LET i == FirstNonZero([k \in DOMAIN s |-> s[k] - t[k]]) IN
  IF i = 0 THEN 0 ELSE Compare(s[i], t[i])

Padded(s, n) == s \o Zeros(n - Len(s))

MagnitudeCompare(a, b) ==
  LET x == SplitDigits(a)
      y == SplitDigits(b)
      i == TrimZeros(x.int)
      j == TrimZeros(y.int)
      n == IF Len(x.frac) < Len(y.frac) THEN Len(y.frac) ELSE Len(x.frac)
  IN  IF Len(i) # Len(j) THEN Compare(Len(i), Len(j))
      ELSE IF i # j THEN LexCompare(i, j)
      ELSE LexCompare(Padded(x.frac, n), Padded(y.frac, n))

\* Mutant of DigitwiseCompare: the larger magnitude is the larger number.
DigitwiseCompareNoFlip(a, b) ==
  IF Sign(a.unscaled) # Sign(b.unscaled) THEN Compare(Sign(a.unscaled), Sign(b.unscaled))
  ELSE MagnitudeCompare(a, b)

DigitwiseCompare(a, b) ==
  IF Sign(a.unscaled) # Sign(b.unscaled) THEN Compare(Sign(a.unscaled), Sign(b.unscaled))
  ELSE IF a.unscaled < 0 THEN -MagnitudeCompare(a, b) ELSE MagnitudeCompare(a, b)

\* cmp_value: align the scales, or compare digit by digit where that overflows.
DecimalCompare(a, b) ==
  LET scale == IF a.scale < b.scale THEN b.scale ELSE a.scale
      x == Rescale(a, scale)
      y == Rescale(b, scale)
  IN  IF x # None /\ y # None THEN Compare(x.unscaled, y.unscaled) ELSE DigitwiseCompare(a, b)
-------------------------------------------------------------------------------

InitDecimals ==
  \E l, m \in Literals :
    /\ Parse(l) # None /\ Parse(m) # None
    /\ literals = <<l, m>>
    /\ decimals = <<Parse(l), Parse(m)>>

NoDecimals == literals = <<>> /\ decimals = <<>>

\* The call gives `d`, and its caller keeps that.
Becomes(i, d) ==
  /\ d # None
  /\ decimals' = [decimals EXCEPT ![i] = d]
  /\ UNCHANGED literals

PrintAndRead(i) == Becomes(i, Parse(Display(decimals[i])))

RescaleTo(i, target) == Becomes(i, Rescale(decimals[i], target))

UseDecimals ==
  \E i \in DOMAIN decimals :
    PrintAndRead(i) \/ \E target \in 0 .. MaxPrecision + 1 : RescaleTo(i, target)

DecimalSpec == (InitDecimals \/ NoDecimals) /\ [][UseDecimals]_decimalVars

-------------------------------------------------------------------------------

NumberOf(digits) ==
  LET number[k \in 0 .. Len(digits)] ==
        IF k = 0 THEN 0 ELSE 10 * number[k - 1] + digits[k]
  IN  number[Len(digits)]

\* The number a literal is, in units.
UnitsOf(l) ==
  (IF l.negative THEN -1 ELSE 1) * NumberOf(l.int \o l.frac)
    * Ten[MaxPrecision - Len(l.frac) + l.exp]

UnitsOfDecimal(d) == d.unscaled * Ten[MaxPrecision - d.scale]

\* However often a decimal is printed, read and rescaled, it is the number its
\* literal was, what it prints reads back as it with the zeros at its end, and two
\* of them compare as these numbers do, whatever their scales (Decimal's parse,
\* rescale, Display and cmp_value with its digit-by-digit fallback).
DecimalsExact ==
  /\ \A i \in DOMAIN decimals : UnitsOfDecimal(decimals[i]) = UnitsOf(literals[i])
  /\ \A i \in DOMAIN decimals : Parse(Display(decimals[i])) = decimals[i]
  /\ \A i, j \in DOMAIN decimals :
       DecimalCompare(decimals[i], decimals[j])
         = Compare(UnitsOf(literals[i]), UnitsOf(literals[j]))
===============================================================================
