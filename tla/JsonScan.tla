-------------------------------- MODULE JsonScan --------------------------------
(***************************************************************************)
(* The bound on what decoding a manifest allocates, computed byte by byte  *)
(* while the line is read, and beside it a producer that writes any JSON   *)
(* document in the same bytes and knows how many values and how much text  *)
(* it has written.  However the line is cut into reads, the scan only sees *)
(* its bytes in order, so one byte is fed at a time.                       *)
(***************************************************************************)
EXTENDS Integers, Sequences, SequencesExt

CONSTANTS
  ValueBytes,      \* DECODED_VALUE_BYTES, 128
  MaxBytes         \* bound: length of the line

ASSUME JsonScanAssumption == {ValueBytes, MaxBytes} \subseteq Nat \ {0}

VARIABLES
  scan,     \* JsonScan
  open,     \* the containers the producer is in, innermost last
  expects,  \* what it may write next
  written   \* values, bytes of text and bytes of the line so far

scanVars == <<scan, open, expects, written>>

Scan(inString, escaped, separators, stringBytes) ==
  [inString |-> inString, escaped |-> escaped, separators |-> separators,
   stringBytes |-> stringBytes]

InitScan ==
  /\ scan = Scan(FALSE, FALSE, 0, 0)
  /\ open = <<>>
  /\ expects = "value"
  /\ written = [values |-> 0, text |-> 0, bytes |-> 0]

\* Mutant of Feed: an escaped quote ends the string.
FeedNoEscapes(s, byte) ==
  IF s.inString
  THEN [s EXCEPT !.stringBytes = @ + 1, !.inString = byte # "quote"]
  ELSE IF byte = "quote" THEN [s EXCEPT !.inString = TRUE]
  ELSE IF byte \in {"comma", "bracket", "brace", "colon"} THEN [s EXCEPT !.separators = @ + 1]
  ELSE s

Feed(s, byte) ==
  IF s.inString
  THEN [s EXCEPT !.stringBytes = @ + 1,
                 !.escaped = ~s.escaped /\ byte = "backslash",
                 !.inString = s.escaped \/ byte # "quote"]
  ELSE IF byte = "quote" THEN [s EXCEPT !.inString = TRUE]
  ELSE IF byte \in {"comma", "bracket", "brace", "colon"} THEN [s EXCEPT !.separators = @ + 1]
  ELSE s

\* Saturation of the 64-bit sums is not modelled: a line is far shorter.
BoundOf(s) == (s.separators + 1) * ValueBytes + s.stringBytes

-------------------------------------------------------------------------------
\* The producer

Write(byte, next, values, text) ==
  /\ written.bytes < MaxBytes
  /\ scan' = Feed(scan, byte)
  /\ expects' = next
  /\ written' = [values |-> written.values + values, text |-> written.text + text,
                 bytes |-> written.bytes + 1]

InArray == open # <<>> /\ Last(open) = "array"
InObject == open # <<>> /\ Last(open) = "object"

ValueMayStart == expects \in {"value", "value or end"}

Digit ==
  /\ ValueMayStart \/ expects = "rest of number"
  /\ Write("other", "rest of number", IF expects = "rest of number" THEN 0 ELSE 1, 0)
  /\ UNCHANGED open

OpenString ==
  /\ \/ ValueMayStart /\ Write("quote", "text", 1, 0)
     \/ expects \in {"key", "key or end"} /\ Write("quote", "key text", 0, 0)
  /\ UNCHANGED open

\* A byte of a string, whatever it is outside one.
Character ==
  /\ expects \in {"text", "key text"}
  /\ \E byte \in {"other", "comma", "bracket"} : Write(byte, expects, 0, 1)
  /\ UNCHANGED open

Escape ==
  /\ expects \in {"text", "key text"}
  /\ Write("backslash", IF expects = "text" THEN "escaped" ELSE "key escaped", 0, 1)
  /\ UNCHANGED open

Escaped ==
  /\ expects \in {"escaped", "key escaped"}
  /\ \E byte \in {"quote", "backslash"} :
       Write(byte, IF expects = "escaped" THEN "text" ELSE "key text", 0, 1)
  /\ UNCHANGED open

CloseString ==
  /\ \/ expects = "text" /\ Write("quote", "after value", 0, 0)
     \/ expects = "key text" /\ Write("quote", "colon", 0, 0)
  /\ UNCHANGED open

OpenContainer ==
  /\ ValueMayStart
  /\ \/ Write("bracket", "value or end", 1, 0) /\ open' = Append(open, "array")
     \/ Write("brace", "key or end", 1, 0) /\ open' = Append(open, "object")

Colon ==
  /\ expects = "colon"
  /\ Write("colon", "value", 0, 0)
  /\ UNCHANGED open

Comma ==
  /\ expects \in {"after value", "rest of number"}
  /\ \/ InArray /\ Write("comma", "value", 0, 0)
     \/ InObject /\ Write("comma", "key", 0, 0)
  /\ UNCHANGED open

CloseContainer ==
  /\ open # <<>>
  /\ expects \in {"after value", "rest of number"} \union
                   {IF InArray THEN "value or end" ELSE "key or end"}
  /\ Write("other", "after value", 0, 0)
  /\ open' = Front(open)

NextScan ==
  \/ Digit \/ OpenString \/ Character \/ Escape \/ Escaped \/ CloseString
  \/ OpenContainer \/ Colon \/ Comma \/ CloseContainer

ScanSpec == InitScan /\ [][NextScan]_scanVars

-------------------------------------------------------------------------------

\* At every byte of a manifest, the bound computed by the scan is at least what
\* the values written so far and their text will take (JsonScan and its use by
\* the manifest's budget).
ScanBoundsTree == written.values * ValueBytes + written.text <= BoundOf(scan)
===============================================================================
