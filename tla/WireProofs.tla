------------------------------- MODULE WireProofs -------------------------------
(***************************************************************************)
(* Proofs about what is read and written on the wire: the guards on what   *)
(* is decoded, for lines and chunks of any length; the order of event      *)
(* times, for any instants; the envelope of a condition, for any metadata; *)
(* the two JSON forms of property values and their order, for arrays of    *)
(* any depth; and the opaque fields of a record, for any document and any  *)
(* number of independent paths into it.                                    *)
(***************************************************************************)
EXTENDS WireValues, DecimalProofs, TLAPS

-------------------------------------------------------------------------------
\* The bound of the scan.  What the producer may write next tells whether the
\* scan is in a string, and whether a separator has been counted for which no
\* value has been written yet.

InText == {"text", "key text", "escaped", "key escaped"}
AfterBackslash == {"escaped", "key escaped"}
Owing == {"value", "value or end", "key", "key or end", "key text", "key escaped", "colon"}
Settled == {"text", "escaped", "after value", "rest of number"}

Fields == {"inString", "escaped", "separators", "stringBytes"}

\* A scan, by its fields: the provers follow EXCEPT better than a set of records.
IsScan(s) ==
  /\ s = [field \in Fields |-> s[field]]
  /\ s.inString \in BOOLEAN /\ s.escaped \in BOOLEAN
  /\ s.separators \in Nat /\ s.stringBytes \in Nat

ScanType ==
  /\ IsScan(scan)
  /\ written \in [values : Nat, text : Nat, bytes : Nat]
  /\ expects \in Owing \union Settled

ScanInv ==
  /\ ScanType
  /\ scan.inString <=> expects \in InText
  /\ scan.escaped <=> expects \in AfterBackslash
  /\ written.text <= scan.stringBytes
  /\ written.values <= scan.separators + 1
  /\ expects \in Owing => written.values <= scan.separators

\* An allowance per value covers as many values as it is given for.
LEMMA AllowanceCovers ==
  ASSUME NEW v \in Nat, NEW s \in Nat, NEW b \in Nat, v <= s
  PROVE  v * b <= s * b
  <1>1. PICK d \in Nat : s = v + d
    <2>1. s - v \in Nat /\ s = v + (s - v) OBVIOUS
    <2> QED BY <2>1
  <1>2. s * b = v * b + d * b BY <1>1
  <1>3. d * b \in Nat /\ v * b \in Nat OBVIOUS
  <1> QED BY <1>2, <1>3

LEMMA FeedIsScan ==
  ASSUME NEW s, IsScan(s), NEW byte
  PROVE  IsScan(Feed(s, byte))
  <1> DEFINE t == Feed(s, byte)
  <1>1. CASE s.inString
    <2>1. t = [field \in Fields |-> t[field]] BY <1>1 DEF IsScan, Fields, Feed
    <2>2. t.inString \in BOOLEAN BY <1>1 DEF IsScan, Fields, Feed
    <2>3. t.escaped \in BOOLEAN BY <1>1 DEF IsScan, Fields, Feed
    <2>4. t.separators \in Nat /\ t.stringBytes \in Nat BY <1>1 DEF IsScan, Fields, Feed
    <2> QED BY <2>1, <2>2, <2>3, <2>4 DEF IsScan
  <1>2. CASE ~s.inString
    <2>1. t = [field \in Fields |-> t[field]] BY <1>2 DEF IsScan, Fields, Feed
    <2>2. t.inString \in BOOLEAN BY <1>2 DEF IsScan, Fields, Feed
    <2>3. t.escaped \in BOOLEAN BY <1>2 DEF IsScan, Fields, Feed
    <2>4. t.separators \in Nat /\ t.stringBytes \in Nat BY <1>2 DEF IsScan, Fields, Feed
    <2> QED BY <2>1, <2>2, <2>3, <2>4 DEF IsScan
  <1> QED BY <1>1, <1>2

\* What the scan makes of a byte outside strings and inside them.
LEMMA FeedPlain ==
  ASSUME NEW s, IsScan(s), ~s.inString, NEW byte
  PROVE  /\ Feed(s, byte).stringBytes = s.stringBytes
         /\ Feed(s, byte).escaped <=> s.escaped
         /\ Feed(s, byte).inString <=> byte = "quote"
         /\ byte \in {"comma", "bracket", "brace", "colon"}
              => Feed(s, byte).separators = s.separators + 1
         /\ byte \notin {"comma", "bracket", "brace", "colon"}
              => Feed(s, byte).separators = s.separators
  BY DEF IsScan, Fields, Feed

LEMMA FeedInString ==
  ASSUME NEW s, IsScan(s), s.inString, NEW byte
  PROVE  /\ Feed(s, byte).stringBytes = s.stringBytes + 1
         /\ Feed(s, byte).separators = s.separators
         /\ Feed(s, byte).escaped <=> (~s.escaped /\ byte = "backslash")
         /\ Feed(s, byte).inString <=> (s.escaped \/ byte # "quote")
  BY DEF IsScan, Fields, Feed

LEMMA ScanInvInit == InitScan => ScanInv
  BY DEF InitScan, ScanInv, ScanType, IsScan, Fields, Scan, InText, AfterBackslash, Owing, Settled

\* What a step of the producer outside strings, and in one, makes of the state.
LEMMA WritePlain ==
  ASSUME ScanInv, expects \notin InText, NEW byte, NEW next, NEW more \in {0, 1},
         Write(byte, next, more, 0)
  PROVE  /\ IsScan(scan') /\ written' \in [values : Nat, text : Nat, bytes : Nat]
         /\ expects' = next
         /\ scan'.inString <=> byte = "quote"
         /\ ~scan'.escaped
         /\ written'.text <= scan'.stringBytes
         /\ written'.values = written.values + more
         /\ byte \in {"comma", "bracket", "brace", "colon"}
              => scan'.separators = scan.separators + 1
         /\ byte \notin {"comma", "bracket", "brace", "colon"}
              => scan'.separators = scan.separators
  <1>1. IsScan(scan) /\ ~scan.inString BY DEF ScanInv, ScanType
  <1>2. ~scan.escaped BY DEF ScanInv, InText, AfterBackslash
  <1>3. written \in [values : Nat, text : Nat, bytes : Nat] /\ written.text <= scan.stringBytes
    BY DEF ScanInv, ScanType
  <1>4. /\ scan' = Feed(scan, byte) /\ expects' = next
        /\ written' = [values |-> written.values + more, text |-> written.text + 0,
                       bytes |-> written.bytes + 1]
    BY DEF Write
  <1>5. IsScan(scan') BY <1>1, <1>4, FeedIsScan
  <1>6. /\ scan'.stringBytes = scan.stringBytes
        /\ scan'.inString <=> byte = "quote"
        /\ scan'.escaped <=> scan.escaped
    BY <1>1, <1>4, FeedPlain
  <1>7. /\ byte \in {"comma", "bracket", "brace", "colon"}
             => scan'.separators = scan.separators + 1
        /\ byte \notin {"comma", "bracket", "brace", "colon"}
             => scan'.separators = scan.separators
    BY <1>1, <1>4, FeedPlain
  <1>8. /\ written'.text = written.text /\ written'.values = written.values + more
        /\ written' \in [values : Nat, text : Nat, bytes : Nat]
    BY <1>3, <1>4
  <1> QED BY <1>2, <1>3, <1>4, <1>5, <1>6, <1>7, <1>8

LEMMA WriteInString ==
  ASSUME ScanInv, expects \in InText, NEW byte, NEW next, NEW text \in {0, 1},
         Write(byte, next, 0, text)
  PROVE  /\ IsScan(scan') /\ written' \in [values : Nat, text : Nat, bytes : Nat]
         /\ expects' = next
         /\ scan'.inString <=> (expects \in AfterBackslash \/ byte # "quote")
         /\ scan'.escaped <=> (expects \notin AfterBackslash /\ byte = "backslash")
         /\ written'.text <= scan'.stringBytes
         /\ written'.values = written.values
         /\ scan'.separators = scan.separators
  <1>1. IsScan(scan) /\ scan.inString BY DEF ScanInv, ScanType
  <1>2. scan.escaped <=> expects \in AfterBackslash BY DEF ScanInv
  <1>3. /\ written \in [values : Nat, text : Nat, bytes : Nat]
        /\ written.text <= scan.stringBytes /\ scan.stringBytes \in Nat
    BY DEF ScanInv, ScanType, IsScan
  <1>4. /\ scan' = Feed(scan, byte) /\ expects' = next
        /\ written' = [values |-> written.values + 0, text |-> written.text + text,
                       bytes |-> written.bytes + 1]
    BY DEF Write
  <1>5. IsScan(scan') BY <1>1, <1>4, FeedIsScan
  <1>6. /\ scan'.stringBytes = scan.stringBytes + 1
        /\ scan'.separators = scan.separators
    BY <1>1, <1>4, FeedInString
  <1>7. /\ scan'.inString <=> (scan.escaped \/ byte # "quote")
        /\ scan'.escaped <=> (~scan.escaped /\ byte = "backslash")
    BY <1>1, <1>4, FeedInString
  <1>8. /\ written'.text <= scan.stringBytes + 1 /\ written'.values = written.values
        /\ written' \in [values : Nat, text : Nat, bytes : Nat]
    BY <1>3, <1>4
  <1> QED BY <1>2, <1>4, <1>5, <1>6, <1>7, <1>8

\* Outside strings, a byte is followed by what the producer may write next, and
\* a value is written when none has been since the last separator.
MayFollow(byte, next, more) ==
  /\ expects \notin InText /\ next \in Owing \union Settled /\ more \in {0, 1}
  /\ next \notin AfterBackslash /\ (next \in InText <=> byte = "quote")
  /\ more = 0 \/ expects \in Owing
  /\ \/ next \in Settled
     \/ byte \in {"comma", "bracket", "brace", "colon"}
     \/ expects \in Owing /\ more = 0

LEMMA PlainKeepsInv ==
  ASSUME ScanInv, NEW byte, NEW next, NEW more, MayFollow(byte, next, more),
         Write(byte, next, more, 0)
  PROVE  ScanInv'
  <1> USE DEF MayFollow
  <1>1. /\ written.values \in Nat /\ scan.separators \in Nat
        /\ written.values <= scan.separators + 1
        /\ expects \in Owing => written.values <= scan.separators
    BY DEF ScanInv, ScanType, IsScan
  <1>2. /\ expects' = next
        /\ written'.values = written.values + more
        /\ byte \in {"comma", "bracket", "brace", "colon"}
             => scan'.separators = scan.separators + 1
        /\ byte \notin {"comma", "bracket", "brace", "colon"}
             => scan'.separators = scan.separators
    BY WritePlain
  <1>3. next \in Settled => next \notin Owing BY DEF Settled, Owing
  <1>4. /\ written'.values <= scan'.separators + 1
        /\ expects' \in Owing => written'.values <= scan'.separators
    BY <1>1, <1>2, <1>3
  <1>5. /\ IsScan(scan') /\ written' \in [values : Nat, text : Nat, bytes : Nat]
        /\ scan'.inString <=> byte = "quote"
        /\ ~scan'.escaped
        /\ written'.text <= scan'.stringBytes
    BY WritePlain
  <1> QED BY <1>2, <1>4, <1>5 DEF ScanInv, ScanType

LEMMA InStringKeepsInv ==
  ASSUME ScanInv, expects \in InText, NEW byte, NEW next \in Owing \union Settled,
         NEW text \in {0, 1}, Write(byte, next, 0, text),
         next \in InText <=> (expects \in AfterBackslash \/ byte # "quote"),
         next \in AfterBackslash <=> (expects \notin AfterBackslash /\ byte = "backslash"),
         next \in Owing => expects \in Owing
  PROVE  ScanInv'
  <1>1. /\ written.values <= scan.separators + 1
        /\ expects \in Owing => written.values <= scan.separators
    BY DEF ScanInv
  <1>2. /\ expects' = next
        /\ written'.values = written.values /\ scan'.separators = scan.separators
    BY WriteInString
  <1>3. /\ IsScan(scan') /\ written' \in [values : Nat, text : Nat, bytes : Nat]
        /\ scan'.inString <=> (expects \in AfterBackslash \/ byte # "quote")
        /\ scan'.escaped <=> (expects \notin AfterBackslash /\ byte = "backslash")
        /\ written'.text <= scan'.stringBytes
    BY WriteInString
  <1> QED BY <1>1, <1>2, <1>3 DEF ScanInv, ScanType

LEMMA ScanInvNext == ScanInv /\ [NextScan]_scanVars => ScanInv'
  <1> SUFFICES ASSUME ScanInv, [NextScan]_scanVars PROVE ScanInv' OBVIOUS
  <1> USE DEF InText, AfterBackslash, Owing, Settled
  <1>1. CASE Digit
    <2>1. expects \in {"value", "value or end", "rest of number"}
      BY <1>1 DEF Digit, ValueMayStart
    <2>2. CASE expects = "rest of number"
      <3>1. Write("other", "rest of number", 0, 0) BY <1>1, <2>2 DEF Digit
      <3>2. MayFollow("other", "rest of number", 0) BY <2>2 DEF MayFollow
      <3> QED BY <3>1, <3>2, PlainKeepsInv
    <2>3. CASE expects # "rest of number"
      <3>1. Write("other", "rest of number", 1, 0) BY <1>1, <2>3 DEF Digit
      <3>2. MayFollow("other", "rest of number", 1) BY <2>1, <2>3 DEF MayFollow
      <3> QED BY <3>1, <3>2, PlainKeepsInv
    <2> QED BY <2>2, <2>3
  <1>2. CASE OpenString
    <2>1. CASE ValueMayStart /\ Write("quote", "text", 1, 0)
      <3>1. MayFollow("quote", "text", 1) BY <2>1 DEF ValueMayStart, MayFollow
      <3> QED BY <2>1, <3>1, PlainKeepsInv
    <2>2. CASE expects \in {"key", "key or end"} /\ Write("quote", "key text", 0, 0)
      <3>1. MayFollow("quote", "key text", 0) BY <2>2 DEF MayFollow
      <3> QED BY <2>2, <3>1, PlainKeepsInv
    <2> QED BY <1>2, <2>1, <2>2 DEF OpenString
  <1>3. CASE Character
    <2>1. PICK byte \in {"other", "comma", "bracket"} : Write(byte, expects, 0, 1)
      BY <1>3 DEF Character
    <2>2. expects \in {"text", "key text"} BY <1>3 DEF Character
    <2> QED BY <2>1, <2>2, InStringKeepsInv
  <1>4. CASE Escape
    <2>1. CASE expects = "text"
      <3>1. Write("backslash", "escaped", 0, 1) BY <1>4, <2>1 DEF Escape
      <3> QED BY <2>1, <3>1, InStringKeepsInv
    <2>2. CASE expects = "key text"
      <3>1. Write("backslash", "key escaped", 0, 1) BY <1>4, <2>2 DEF Escape
      <3> QED BY <2>2, <3>1, InStringKeepsInv
    <2> QED BY <1>4, <2>1, <2>2 DEF Escape
  <1>5. CASE Escaped
    <2>1. CASE expects = "escaped"
      <3>1. PICK byte \in {"quote", "backslash"} : Write(byte, "text", 0, 1)
        BY <1>5, <2>1 DEF Escaped
      <3> QED BY <2>1, <3>1, InStringKeepsInv
    <2>2. CASE expects = "key escaped"
      <3>1. PICK byte \in {"quote", "backslash"} : Write(byte, "key text", 0, 1)
        BY <1>5, <2>2 DEF Escaped
      <3> QED BY <2>2, <3>1, InStringKeepsInv
    <2> QED BY <1>5, <2>1, <2>2 DEF Escaped
  <1>6. CASE CloseString
    <2>1. CASE expects = "text" /\ Write("quote", "after value", 0, 0)
      BY <2>1, InStringKeepsInv
    <2>2. CASE expects = "key text" /\ Write("quote", "colon", 0, 0)
      BY <2>2, InStringKeepsInv
    <2> QED BY <1>6, <2>1, <2>2 DEF CloseString
  <1>7. CASE OpenContainer
    <2>1. expects \in {"value", "value or end"} BY <1>7 DEF OpenContainer, ValueMayStart
    <2>2. MayFollow("bracket", "value or end", 1) BY <2>1 DEF MayFollow
    <2>3. MayFollow("brace", "key or end", 1) BY <2>1 DEF MayFollow
    <2>4. CASE Write("bracket", "value or end", 1, 0) BY <2>2, <2>4, PlainKeepsInv
    <2>5. CASE Write("brace", "key or end", 1, 0) BY <2>3, <2>5, PlainKeepsInv
    <2> QED BY <1>7, <2>4, <2>5 DEF OpenContainer
  <1>8. CASE Colon
    <2>1. expects = "colon" /\ Write("colon", "value", 0, 0) BY <1>8 DEF Colon
    <2>2. MayFollow("colon", "value", 0) BY <2>1 DEF MayFollow
    <2> QED BY <2>1, <2>2, PlainKeepsInv
  <1>9. CASE Comma
    <2>1. expects \in {"after value", "rest of number"} BY <1>9 DEF Comma
    <2>2. MayFollow("comma", "value", 0) BY <2>1 DEF MayFollow
    <2>3. MayFollow("comma", "key", 0) BY <2>1 DEF MayFollow
    <2>4. CASE Write("comma", "value", 0, 0) BY <2>2, <2>4, PlainKeepsInv
    <2>5. CASE Write("comma", "key", 0, 0) BY <2>3, <2>5, PlainKeepsInv
    <2> QED BY <1>9, <2>4, <2>5 DEF Comma
  <1>10. CASE CloseContainer
    <2>1. expects \in {"after value", "rest of number", "value or end", "key or end"}
      BY <1>10 DEF CloseContainer
    <2>2. Write("other", "after value", 0, 0) BY <1>10 DEF CloseContainer
    <2>3. MayFollow("other", "after value", 0) BY <2>1 DEF MayFollow
    <2> QED BY <2>2, <2>3, PlainKeepsInv
  <1>11. CASE UNCHANGED scanVars BY <1>11 DEF scanVars, ScanInv, ScanType, IsScan
  <1> QED BY <1>1, <1>2, <1>3, <1>4, <1>5, <1>6, <1>7, <1>8, <1>9, <1>10, <1>11 DEF NextScan

LEMMA ScanInvBounds == ScanInv => ScanBoundsTree
  <1> SUFFICES ASSUME ScanInv PROVE ScanBoundsTree OBVIOUS
  <1>1. ValueBytes \in Nat BY JsonScanAssumption
  <1>2. /\ written.values \in Nat /\ written.text \in Nat
        /\ scan.separators + 1 \in Nat /\ scan.stringBytes \in Nat
        /\ written.values <= scan.separators + 1 /\ written.text <= scan.stringBytes
    BY DEF ScanInv, ScanType, IsScan
  <1>3. written.values * ValueBytes <= (scan.separators + 1) * ValueBytes
    BY <1>1, <1>2, AllowanceCovers
  <1>4. written.values * ValueBytes \in Nat /\ (scan.separators + 1) * ValueBytes \in Nat
    BY <1>1, <1>2
  <1> QED BY <1>2, <1>3, <1>4 DEF ScanBoundsTree, BoundOf

\* The bound computed while a manifest is read covers every value and every
\* byte of text in it, for every JSON document and every allowance per value
\* (JsonScan::feed and bound).
THEOREM BoundAlwaysHolds == ScanSpec => []ScanBoundsTree
  <1>1. ScanInv /\ [NextScan]_scanVars => ScanInv' BY ScanInvNext
  <1> QED BY ScanInvInit, <1>1, ScanInvBounds, PTL DEF ScanSpec

-------------------------------------------------------------------------------
\* Chunks

LEMMA WholeGroups ==
  ASSUME NEW length \in Nat
  PROVE  /\ (Encoded(length) \div 4) * 3 <= length + 2
         /\ (Encoded(length) \div 4) * 3 >= length
  <1> DEFINE groups == (length + 2) \div 3
  <1>1. groups \in Nat /\ 3 * groups <= length + 2 /\ 3 * groups >= length OBVIOUS
  <1> HIDE DEF groups
  <1>2. (4 * groups) \div 4 = groups BY <1>1
  <1>3. Encoded(length) = 4 * groups BY DEF Encoded, groups
  <1> QED BY <1>1, <1>2, <1>3

\* The guard of OriginalChunk::decode admits every chunk that is not longer than
\* a chunk may be, and none that is longer by a whole group of base64, for every
\* maximum.
THEOREM GuardIsSound ==
  \A length \in Nat : LegitimateAdmitted(length) /\ OversizeRefused(length)
  <1> TAKE length \in Nat
  <1>1. ChunkMaxBytes \in Nat BY ChunkCodingAssumption
  <1>2. (Encoded(length) \div 4) * 3 \in Int BY DEF Encoded
  <1> QED BY <1>1, <1>2, WholeGroups DEF LegitimateAdmitted, OversizeRefused, DecodeAdmits

\* The same of a chunk that grows.
THEOREM GuardAlwaysAdmits == ChunkSpec => []GuardAdmitsLegitimate
  <1>1. InitChunk => chunkLength \in Nat BY DEF InitChunk
  <1>2. chunkLength \in Nat /\ [Lengthen]_chunkLength => (chunkLength \in Nat)'
    BY DEF Lengthen
  <1>3. chunkLength \in Nat => GuardAdmitsLegitimate BY GuardIsSound DEF GuardAdmitsLegitimate
  <1> QED BY <1>1, <1>2, <1>3, PTL DEF ChunkSpec

-------------------------------------------------------------------------------
\* Event times

\* No event out of a window of times, and none without a known time, sorts
\* between two events in it (EventTime's cmp, at).
THEOREM WindowsAreContiguous ==
  ASSUME Instants \subseteq Int,
         NEW from \in Int, NEW to \in Int,
         NEW s \in EventTimes, NEW t \in EventTimes, NEW u \in EventTimes,
         InWindow(s, from, to), InWindow(u, from, to),
         TimeCompare(s, t) <= 0, TimeCompare(t, u) <= 0
  PROVE  InWindow(t, from, to)
  <1>1. s.known /\ u.known /\ from <= s.at /\ u.at <= to BY DEF InWindow
  <1>2. \A v \in EventTimes : v.known \in BOOLEAN /\ (v.known => v.at \in Int)
    BY DEF EventTimes
  <1>3. t.known
    <2>1. CASE ~t.known
      <3>1. t.known # u.known BY <1>1, <2>1
      <3>2. TimeCompare(t, u) = 1 BY <2>1, <3>1 DEF TimeCompare
      <3> QED BY <3>2
    <2> QED BY <1>2, <2>1
  <1>4. s.at \in Int /\ t.at \in Int /\ u.at \in Int BY <1>1, <1>2, <1>3
  <1>5. s.at <= t.at /\ t.at <= u.at BY <1>1, <1>3, <1>4 DEF TimeCompare, Ordering
  <1> QED BY <1>1, <1>3, <1>4, <1>5 DEF InWindow

\* An event time is read as it was written, in the form of 0.5 or the keyed one
\* (EventTime's serialize and deserialize).
THEOREM TimesSurviveTheWire == \A t \in EventTimes : Deserialize(Serialize(t)) = t
  <1> TAKE t \in EventTimes
  <1>1. CASE t \in [known : {TRUE}, at : Instants, basis : ToSet(TimeBases) \union {NoBasis}]
    <2>1. t = Known(t.at, t.basis) /\ t.known BY <1>1 DEF Known
    <2>2. CASE t.basis = NoBasis
      <3>1. Serialize(t) = Bare(t.at) BY <2>1, <2>2 DEF Serialize
      <3>2. Bare(t.at).form = "string" /\ Bare(t.at).at = t.at BY DEF Bare
      <3>3. Deserialize(Serialize(t)) = Known(t.at, NoBasis) BY <3>1, <3>2 DEF Deserialize
      <3> QED BY <2>1, <2>2, <3>3
    <2>3. CASE t.basis # NoBasis
      <3>1. Serialize(t) = Keyed("known", [at |-> t.at, basis |-> t.basis])
        BY <2>1, <2>3 DEF Serialize
      <3>2. Deserialize(Serialize(t)) = Known(t.at, t.basis) BY <3>1 DEF Keyed, Deserialize
      <3> QED BY <2>1, <3>2
    <2> QED BY <2>2, <2>3
  <1>2. CASE t \in [known : {FALSE}, reason : ToSet(UnknownTimes)]
    <2>1. t = Unknown(t.reason) /\ ~t.known BY <1>2 DEF Unknown
    <2>2. Serialize(t) = Keyed("unknown", [reason |-> t.reason]) BY <2>1 DEF Serialize
    <2>3. Deserialize(Serialize(t)) = Unknown(t.reason) BY <2>2 DEF Keyed, Deserialize
    <2> QED BY <2>1, <2>3
  <1> QED BY <1>1, <1>2 DEF EventTimes

TimesInv ==
  /\ given \in Seq(EventTimes)
  /\ times = given

\* Event times stay what they were however often they are written and read, and a
\* window selects one stretch of them, for any instants.
THEOREM WindowAlwaysContiguous == TimeSpec => []WindowIsContiguous
  <1>1. InitTimes \/ NoTimes => TimesInv
    <2>1. ASSUME InitTimes PROVE TimesInv
      <3>1. PICK s \in EventTimes, t \in EventTimes, u \in EventTimes : given = <<s, t, u>>
        BY <2>1 DEF InitTimes
      <3>2. PICK T : T = EventTimes OBVIOUS
      <3>3. <<s, t, u>> \in Seq(T) BY <3>2
      <3> QED BY <2>1, <3>1, <3>2, <3>3 DEF InitTimes, TimesInv
    <2>2. ASSUME NoTimes PROVE TimesInv BY <2>2 DEF NoTimes, TimesInv
    <2> QED BY <2>1, <2>2
  <1>2. TimesInv /\ [WriteAndRead]_timeVars => TimesInv'
    <2> SUFFICES ASSUME TimesInv, [WriteAndRead]_timeVars PROVE TimesInv' OBVIOUS
    <2>1. CASE UNCHANGED timeVars BY <2>1 DEF timeVars, TimesInv
    <2>2. CASE WriteAndRead
      <3>1. PICK i \in DOMAIN times :
              times' = [times EXCEPT ![i] = Deserialize(Serialize(times[i]))]
        BY <2>2 DEF WriteAndRead
      <3>2. times \in Seq(EventTimes) /\ times[i] \in EventTimes BY <3>1 DEF TimesInv
      <3>3. Deserialize(Serialize(times[i])) = times[i] BY <3>2, TimesSurviveTheWire
      <3>4. times' = times BY <3>1, <3>2, <3>3
      <3> QED BY <2>2, <3>4 DEF WriteAndRead, TimesInv
    <2> QED BY <2>1, <2>2
  <1>3. TimesInv => WindowIsContiguous
    <2> SUFFICES ASSUME TimesInv PROVE WindowIsContiguous OBVIOUS
    <2>1. \A i \in DOMAIN times : times[i] \in EventTimes BY DEF TimesInv
    <2>2. ASSUME NEW from \in Instants, NEW to \in Instants,
                 NEW i \in DOMAIN times, NEW j \in DOMAIN times, NEW k \in DOMAIN times,
                 InWindow(times[i], from, to), InWindow(times[k], from, to),
                 TimeCompare(times[i], times[j]) <= 0, TimeCompare(times[j], times[k]) <= 0
          PROVE  InWindow(times[j], from, to)
      <3>1. from \in Int /\ to \in Int BY EventTimeAssumption
      <3>2. PICK s \in EventTimes, t \in EventTimes, u \in EventTimes :
              s = times[i] /\ t = times[j] /\ u = times[k]
        BY <2>1
      <3> QED BY <2>2, <3>1, <3>2, WindowsAreContiguous, EventTimeAssumption
    <2> QED BY <2>2 DEF WindowIsContiguous, TimesInv
  <1> QED BY <1>1, <1>2, <1>3, PTL DEF TimeSpec

-------------------------------------------------------------------------------
\* Conditional revisions.  The producer's own metadata is held as it is, or in an
\* envelope with the condition that was set last, and never deeper.

Holds(m, c) ==
  /\ ReadCondition(m) = [outcome |-> "found", condition |-> c]
  /\ TakeCondition(m).metadata = Own

RestoredInv ==
  /\ ReadCondition(supplied).outcome = "refused" => metadata = supplied
  /\ ReadCondition(Own).outcome = "none" =>
       \/ set = <<>> /\ metadata = Own
       \/ \E c : set = <<c>> /\ Holds(metadata, c)

LEMMA Readings ==
  ASSUME NEW m
  PROVE  \/ ReadCondition(m).outcome \in {"none", "refused"}
         \/ \E c : ReadCondition(m) = [outcome |-> "found", condition |-> c]
  BY DEF ReadCondition

\* Taking a condition where none is found changes nothing.
LEMMA TakesNothing ==
  ASSUME NEW m, ReadCondition(m).outcome \in {"none", "refused"}
  PROVE  TakeCondition(m).metadata = m
  BY DEF TakeCondition

LEMMA EnvelopeIsRead ==
  ASSUME NEW c \in Conditions, NEW m
  PROVE  /\ ReadCondition(EnvelopeWith(c, m)) = [outcome |-> "found", condition |-> c]
         /\ TakeCondition(EnvelopeWith(c, m)).metadata = m
  <1>1. PICK e : e = EnvelopeWith(c, m) OBVIOUS
  <1>2. /\ e.object = TRUE /\ e.marker = <<1>> /\ e.condition = <<c>> /\ e.original = <<m>>
        /\ e.others = 0
    BY <1>1 DEF EnvelopeWith, Object
  <1>3. UsesEnvelope(e) BY <1>2 DEF UsesEnvelope
  <1>4. e.condition # <<>> /\ e.original # <<>> /\ e.condition[1] = c /\ e.original[1] = m
    BY <1>2
  <1>5. e.condition # <<Malformed>> BY <1>2, ConditionsAssumption
  <1>6. ReadCondition(e) = [outcome |-> "found", condition |-> c]
    BY <1>2, <1>3, <1>4, <1>5 DEF ReadCondition
  <1>7. TakeCondition(e).metadata = m BY <1>4, <1>6 DEF TakeCondition
  <1> QED BY <1>1, <1>6, <1>7

LEMMA StartsRestored ==
  ASSUME InitObservation \/ NoObservation
  PROVE  RestoredInv
  <1>1. CASE InitObservation
    <2>1. CASE ReadCondition(supplied).outcome \in {"none", "refused"}
      <3>1. Own = supplied BY <2>1, TakesNothing DEF Own
      <3>2. ReadCondition(supplied).outcome # "found" BY <2>1
      <3> QED BY <1>1, <3>1, <3>2 DEF InitObservation, RestoredInv
    <2>2. ASSUME NEW c, ReadCondition(supplied) = [outcome |-> "found", condition |-> c]
          PROVE  RestoredInv
      <3>1. ReadCondition(supplied).outcome = "found" /\ ReadCondition(supplied).condition = c
        BY <2>2
      <3>2. set = <<c>> /\ metadata = supplied BY <1>1, <3>1 DEF InitObservation
      <3>3. Holds(metadata, c) BY <2>2, <3>2 DEF Holds, Own
      <3> QED BY <3>1, <3>2, <3>3 DEF RestoredInv
    <2> QED BY <2>1, <2>2, Readings
  <1>2. CASE NoObservation
    <2>1. ReadCondition(supplied).outcome = "none"
      BY <1>2 DEF NoObservation, Plain, ReadCondition, UsesEnvelope
    <2>2. Own = supplied BY <2>1, TakesNothing DEF Own
    <2> QED BY <1>2, <2>2 DEF NoObservation, RestoredInv
  <1> QED BY <1>1, <1>2

LEMMA SetKeepsRestored ==
  ASSUME RestoredInv, NEW c \in Conditions, Set(c)
  PROVE  RestoredInv'
  <1>1. PICK m, result : m = metadata /\ result = SetCondition(Revision, metadata, c) OBVIOUS
  <1>2. /\ metadata' = result.metadata /\ supplied' = supplied /\ Own' = Own
        /\ set' = IF result.ok THEN <<c>> ELSE set
    BY <1>1 DEF Set, Own
  <1>3. ASSUME ReadCondition(supplied).outcome = "refused" PROVE metadata' = supplied
    <2>1. m = supplied BY <1>1, <1>3 DEF RestoredInv
    <2> QED BY <1>1, <1>2, <1>3, <2>1 DEF SetCondition
  <1>4. ASSUME ReadCondition(Own).outcome = "none"
        PROVE  \/ set' = <<>> /\ metadata' = Own
               \/ \E d : set' = <<d>> /\ Holds(metadata, d)'
    <2>1. CASE set = <<>> /\ metadata = Own
      <3>1. \/ ~result.ok /\ result.metadata = m
            \/ result.ok /\ result.metadata = EnvelopeWith(c, m)
        BY <1>1, <1>4, <2>1 DEF SetCondition
      <3>2. CASE ~result.ok /\ result.metadata = m BY <1>1, <1>2, <2>1, <3>2
      <3>3. CASE result.ok /\ result.metadata = EnvelopeWith(c, m)
        <4>1. set' = <<c>> /\ metadata' = EnvelopeWith(c, Own) BY <1>1, <1>2, <2>1, <3>3
        <4>2. Holds(metadata, c)' BY <1>2, <4>1, EnvelopeIsRead DEF Holds
        <4> QED BY <4>1, <4>2
      <3> QED BY <3>1, <3>2, <3>3
    <2>2. ASSUME NEW d, set = <<d>>, Holds(metadata, d)
          PROVE  set' = <<d>> /\ Holds(metadata, d)'
      <3>1. ReadCondition(m) = [outcome |-> "found", condition |-> d]
        BY <1>1, <2>2 DEF Holds
      <3>2. ReadCondition(m).outcome = "found" /\ ReadCondition(m).condition = d BY <3>1
      <3>3. result.metadata = m /\ (result.ok => c = d)
        BY <1>1, <3>2 DEF SetCondition
      <3>4. set' = <<d>> /\ metadata' = metadata BY <1>1, <1>2, <2>2, <3>3
      <3> QED BY <1>2, <2>2, <3>4 DEF Holds
    <2> QED BY <1>4, <2>1, <2>2 DEF RestoredInv
  <1> QED BY <1>2, <1>3, <1>4 DEF RestoredInv

LEMMA TakeKeepsRestored ==
  ASSUME RestoredInv, TakeRevision
  PROVE  RestoredInv'
  <1>1. /\ metadata' = TakeCondition(metadata).metadata /\ supplied' = supplied /\ Own' = Own
        /\ set' = <<>>
    BY DEF TakeRevision, Own
  <1>2. ASSUME ReadCondition(supplied).outcome = "refused" PROVE metadata' = supplied
    BY <1>1, <1>2, TakesNothing DEF RestoredInv
  <1>3. ASSUME ReadCondition(Own).outcome = "none" PROVE metadata' = Own
    <2>1. CASE metadata = Own BY <1>1, <1>3, <2>1, TakesNothing
    <2>2. CASE \E c : Holds(metadata, c) BY <1>1, <2>2 DEF Holds
    <2> QED BY <1>3, <2>1, <2>2 DEF RestoredInv
  <1> QED BY <1>1, <1>2, <1>3 DEF RestoredInv

\* Whatever the metadata of an observation is, an envelope that was stored included,
\* and whatever conditions are set, refused, set again and taken: it is the
\* producer's own when none is set, and when one is, taking it yields it and the
\* producer's metadata.
\* (Observation::set_conditional_revision, take_conditional_revision.)
THEOREM RestoredAlways == ObservationSpec => []MetadataRestored
  <1>1. InitObservation \/ NoObservation => RestoredInv BY StartsRestored
  <1>2. RestoredInv /\ [UseObservation]_metadataVars => RestoredInv'
    <2>1. RestoredInv /\ UNCHANGED metadataVars => RestoredInv'
      BY DEF metadataVars, RestoredInv, Holds, Own
    <2> QED BY <2>1, SetKeepsRestored, TakeKeepsRestored DEF UseObservation
  <1>3. RestoredInv => MetadataRestored
    <2> SUFFICES ASSUME RestoredInv PROVE MetadataRestored OBVIOUS
    <2>1. ASSUME NEW c, set = <<c>>, Holds(metadata, c)
          PROVE  /\ set # <<>>
                 /\ TakeCondition(metadata)
                      = [outcome |-> [outcome |-> "found", condition |-> set[1]],
                         metadata |-> Own]
      <3>1. set # <<>> /\ set[1] = c BY <2>1
      <3>2. TakeCondition(metadata)
              = [outcome |-> ReadCondition(metadata), metadata |-> TakeCondition(metadata).metadata]
        BY DEF TakeCondition
      <3> QED BY <2>1, <3>1, <3>2 DEF Holds
    <2> QED BY <2>1 DEF RestoredInv, MetadataRestored
  <1> QED BY <1>1, <1>2, <1>3, PTL DEF ObservationSpec

-------------------------------------------------------------------------------
\* Functions that are defined by recursion

Solvable(step, D, R) == \E f \in [D -> R] : f = step[f]

\* What `step` makes of a function depends, at each level, on the level below.
ByLevels(step, D, R, N, L) ==
  /\ L[N] = D
  /\ \A f, g \in [D -> R] : \A v \in L[0] : step[f][v] = step[g][v]
  /\ \A k \in Nat : k < N =>
       \A f, g \in [D -> R] :
         (\A v \in L[k] : f[v] = g[v]) => \A v \in L[k + 1] : step[f][v] = step[g][v]

LEMMA RecursionByLevels ==
  ASSUME NEW D, NEW R, NEW r \in R, NEW step \in [[D -> R] -> [D -> R]],
         NEW N \in Nat, NEW L, ByLevels(step, D, R, N, L)
  PROVE  Solvable(step, D, R)
  <1> DEFINE F == [D -> R]
             steps == [k \in Nat |-> step]
             start == [v \in D |-> r]
  <1>1. start \in F /\ steps \in [Nat -> [F -> F]] /\ \A k \in Nat : steps[k] = step OBVIOUS
  <1>2. step \in [F -> F] OBVIOUS
  <1> HIDE DEF steps, start
  <1>3. PICK h \in [Nat -> F] : Recurs(h, steps, start)
    <2> HIDE DEF F
    <2> QED BY <1>1, RecursionExists
  <1>4. \A k \in Nat : h[k] \in F OBVIOUS
  <1>5. ASSUME NEW k \in Nat PROVE h[k + 1] = step[h[k]]
    <2>1. k + 1 \in Nat \ {0} /\ (k + 1) - 1 = k OBVIOUS
    <2> QED BY <1>1, <1>3, <2>1 DEF Recurs
  <1> DEFINE T == {k \in Nat : k <= N => \A v \in L[k] : h[k + 1][v] = h[k + 2][v]}
  <1>6. 0 \in T
    <2>1. h[0 + 1] = step[h[0]] /\ h[0 + 2] = step[h[1]] /\ h[0] \in F /\ h[1] \in F
      <3>1. (0 + 1) + 1 = 0 + 2 /\ 0 + 1 = 1 OBVIOUS
      <3> QED BY <1>4, <1>5, <3>1
    <2>2. \A v \in L[0] : step[h[0]][v] = step[h[1]][v] BY <2>1 DEF ByLevels
    <2> QED BY <2>1, <2>2
  <1>7. ASSUME NEW k \in Nat, k \in T PROVE k + 1 \in T
    <2> SUFFICES ASSUME k + 1 <= N PROVE \A v \in L[k + 1] : h[(k + 1) + 1][v] = h[(k + 1) + 2][v]
      OBVIOUS
    <2>1. \A v \in L[k] : h[k + 1][v] = h[k + 2][v] BY <1>7
    <2>2. h[k + 1] \in F /\ h[k + 2] \in F BY <1>4
    <2>3. k < N OBVIOUS
    <2>4. \A v \in L[k + 1] : step[h[k + 1]][v] = step[h[k + 2]][v] BY <2>1, <2>2, <2>3 DEF ByLevels
    <2>5. h[(k + 1) + 1] = step[h[k + 1]] BY <1>5
    <2>6. h[(k + 1) + 2] = step[h[k + 2]]
      <3>1. k + 2 \in Nat /\ (k + 2) + 1 = (k + 1) + 2 OBVIOUS
      <3> QED BY <1>5, <3>1
    <2> QED BY <2>4, <2>5, <2>6
  <1> HIDE DEF T
  <1>8. \A k \in Nat : k \in T BY <1>6, <1>7, Induction
  <1>9. \A v \in D : h[N + 1][v] = h[N + 2][v] BY <1>8 DEF T, ByLevels
  <1>10. h[N + 2] = step[h[N + 1]]
    <2>1. (N + 1) + 1 = N + 2 /\ N + 1 \in Nat OBVIOUS
    <2> QED BY <1>5, <2>1
  <1>11. h[N + 1] \in F /\ h[N + 2] \in F BY <1>4
  <1>12. h[N + 1] = h[N + 2] BY <1>9, <1>11
  <1> QED BY <1>10, <1>11, <1>12 DEF Solvable

-------------------------------------------------------------------------------
\* Documents and values by their depth

JsonLevel(inner) ==
  PlainJson
    \union [json : {"array"}, items : Seq(inner)]
    \union [json : {"object"}, members : [MemberKeys -> inner \union {None}]]

JsonLevels(g, n) == g[0] = JsonLevel({}) /\ \A k \in 1 .. n : g[k] = JsonLevel(g[k - 1])

LEMMA JsonLevelsSome == \A n \in Nat : \E g : JsonLevels(g, n)
  <1> DEFINE T == {n \in Nat : \E g : JsonLevels(g, n)}
  <1>1. 0 \in T
    <2>1. JsonLevels([k \in {0} |-> JsonLevel({})], 0) BY DEF JsonLevels
    <2> QED BY <2>1
  <1>2. ASSUME NEW n \in Nat, n \in T PROVE n + 1 \in T
    <2>1. PICK g : JsonLevels(g, n) BY <1>2
    <2> DEFINE h == [k \in 0 .. n + 1 |-> IF k = n + 1 THEN JsonLevel(g[n]) ELSE g[k]]
    <2>2. \A k \in 0 .. n : h[k] = g[k] OBVIOUS
    <2>3. h[n + 1] = JsonLevel(g[n]) OBVIOUS
    <2> HIDE DEF h
    <2>4. h[0] = JsonLevel({}) BY <2>1, <2>2 DEF JsonLevels
    <2>5. ASSUME NEW k \in 1 .. n + 1 PROVE h[k] = JsonLevel(h[k - 1])
      <3>1. CASE k = n + 1
        <4>1. k - 1 = n /\ h[n] = g[n] BY <2>2, <3>1
        <4> QED BY <2>3, <3>1, <4>1
      <3>2. CASE k # n + 1
        <4>1. k \in 1 .. n /\ k \in 0 .. n /\ k - 1 \in 0 .. n BY <3>2
        <4>2. g[k] = JsonLevel(g[k - 1]) BY <2>1, <4>1 DEF JsonLevels
        <4> QED BY <2>2, <4>1, <4>2
      <3> QED BY <3>1, <3>2
    <2>6. JsonLevels(h, n + 1) BY <2>4, <2>5 DEF JsonLevels
    <2> QED BY <2>6
  <1> HIDE DEF T
  <1>3. \A n \in Nat : n \in T BY <1>1, <1>2, Induction
  <1> QED BY <1>3 DEF T

LEMMA JsonLevelsOne ==
  ASSUME NEW m \in Nat, NEW n \in Nat, m <= n, NEW g, NEW h, JsonLevels(g, m), JsonLevels(h, n)
  PROVE  \A k \in 0 .. m : g[k] = h[k]
  <1> DEFINE T == {k \in Nat : k <= m => g[k] = h[k]}
  <1>1. 0 \in T BY DEF JsonLevels
  <1>2. ASSUME NEW k \in Nat, k \in T PROVE k + 1 \in T
    <2> SUFFICES ASSUME k + 1 <= m PROVE g[k + 1] = h[k + 1] OBVIOUS
    <2>1. k + 1 \in 1 .. m /\ k + 1 \in 1 .. n /\ (k + 1) - 1 = k /\ g[k] = h[k] BY <1>2
    <2>2. g[k + 1] = JsonLevel(g[k]) BY <2>1 DEF JsonLevels
    <2>3. h[k + 1] = JsonLevel(h[k]) BY <2>1 DEF JsonLevels
    <2> QED BY <2>1, <2>2, <2>3
  <1> HIDE DEF T
  <1>3. \A k \in Nat : k \in T BY <1>1, <1>2, Induction
  <1> QED BY <1>3 DEF T

LEMMA JsonUpToIs ==
  JsonUpTo[0] = JsonLevel({}) /\ \A k \in Nat : JsonUpTo[k + 1] = JsonLevel(JsonUpTo[k])
  <1> DEFINE Part(n) == CHOOSE g : JsonLevels(g, n)
             g == [n \in Nat |-> Part(n)[n]]
             Level(k, f) == JsonLevel(IF k = 0 THEN {} ELSE f[k - 1])
  <1>1. ASSUME NEW n \in Nat PROVE JsonLevels(Part(n), n) BY JsonLevelsSome
  <1> HIDE DEF Part
  <1>2. ASSUME NEW k \in Nat PROVE g[k] = Level(k, g)
    <2>1. CASE k = 0 BY <1>1, <2>1 DEF JsonLevels
    <2>2. CASE k # 0
      <3>1. k - 1 \in Nat /\ k \in 1 .. k /\ k - 1 \in 0 .. k - 1 /\ k - 1 <= k BY <2>2
      <3>2. JsonLevels(Part(k), k) /\ JsonLevels(Part(k - 1), k - 1) BY <1>1, <3>1
      <3>3. Part(k)[k] = JsonLevel(Part(k)[k - 1]) BY <3>1, <3>2 DEF JsonLevels
      <3>4. Part(k)[k - 1] = Part(k - 1)[k - 1] BY <3>1, <3>2, JsonLevelsOne
      <3>5. g[k] = Part(k)[k] /\ g[k - 1] = Part(k - 1)[k - 1] BY <3>1
      <3> HIDE DEF g
      <3> QED BY <2>2, <3>3, <3>4, <3>5
    <2> QED BY <2>1, <2>2
  <1>3. g = [k \in Nat |-> Level(k, g)]
    <2>1. g = [k \in Nat |-> g[k]] OBVIOUS
    <2> HIDE DEF g, Level
    <2> QED BY <1>2, <2>1
  <1> HIDE DEF g
  <1>4. JsonUpTo = [k \in Nat |-> Level(k, JsonUpTo)] BY <1>3 DEF JsonUpTo, JsonLevel
  <1>5. ASSUME NEW k \in Nat PROVE JsonUpTo[k] = Level(k, JsonUpTo) BY <1>4
  <1>6. JsonUpTo[0] = JsonLevel({}) BY <1>5
  <1>7. ASSUME NEW k \in Nat PROVE JsonUpTo[k + 1] = JsonLevel(JsonUpTo[k])
    <2>1. k + 1 \in Nat /\ k + 1 # 0 /\ (k + 1) - 1 = k OBVIOUS
    <2> QED BY <1>5, <2>1
  <1> QED BY <1>6, <1>7
ValueLevel(k, inner) ==
  PlainValues
    \union [type : {"json"}, doc : JsonUpTo[2 * k + 1]]
    \union [type : {"array"}, items : Seq(inner)]

ValueLevels(g, n) == g[0] = ValueLevel(0, {}) /\ \A k \in 1 .. n : g[k] = ValueLevel(k, g[k - 1])

LEMMA ValueLevelsSome == \A n \in Nat : \E g : ValueLevels(g, n)
  <1> DEFINE T == {n \in Nat : \E g : ValueLevels(g, n)}
  <1>1. 0 \in T
    <2>1. ValueLevels([k \in {0} |-> ValueLevel(0, {})], 0) BY DEF ValueLevels
    <2> QED BY <2>1
  <1>2. ASSUME NEW n \in Nat, n \in T PROVE n + 1 \in T
    <2>1. PICK g : ValueLevels(g, n) BY <1>2
    <2> DEFINE h == [k \in 0 .. n + 1 |-> IF k = n + 1 THEN ValueLevel(n + 1, g[n]) ELSE g[k]]
    <2>2. \A k \in 0 .. n : h[k] = g[k] OBVIOUS
    <2>3. h[n + 1] = ValueLevel(n + 1, g[n]) OBVIOUS
    <2> HIDE DEF h
    <2>4. h[0] = ValueLevel(0, {}) BY <2>1, <2>2 DEF ValueLevels
    <2>5. ASSUME NEW k \in 1 .. n + 1 PROVE h[k] = ValueLevel(k, h[k - 1])
      <3>1. CASE k = n + 1
        <4>1. k - 1 = n /\ h[n] = g[n] BY <2>2, <3>1
        <4> QED BY <2>3, <3>1, <4>1
      <3>2. CASE k # n + 1
        <4>1. k \in 1 .. n /\ k \in 0 .. n /\ k - 1 \in 0 .. n BY <3>2
        <4>2. g[k] = ValueLevel(k, g[k - 1]) BY <2>1, <4>1 DEF ValueLevels
        <4> QED BY <2>2, <4>1, <4>2
      <3> QED BY <3>1, <3>2
    <2>6. ValueLevels(h, n + 1) BY <2>4, <2>5 DEF ValueLevels
    <2> QED BY <2>6
  <1> HIDE DEF T
  <1>3. \A n \in Nat : n \in T BY <1>1, <1>2, Induction
  <1> QED BY <1>3 DEF T

LEMMA ValueLevelsOne ==
  ASSUME NEW m \in Nat, NEW n \in Nat, m <= n, NEW g, NEW h, ValueLevels(g, m), ValueLevels(h, n)
  PROVE  \A k \in 0 .. m : g[k] = h[k]
  <1> DEFINE T == {k \in Nat : k <= m => g[k] = h[k]}
  <1>1. 0 \in T BY DEF ValueLevels
  <1>2. ASSUME NEW k \in Nat, k \in T PROVE k + 1 \in T
    <2> SUFFICES ASSUME k + 1 <= m PROVE g[k + 1] = h[k + 1] OBVIOUS
    <2>1. k + 1 \in 1 .. m /\ k + 1 \in 1 .. n /\ (k + 1) - 1 = k /\ g[k] = h[k] BY <1>2
    <2>2. g[k + 1] = ValueLevel(k + 1, g[k]) BY <2>1 DEF ValueLevels
    <2>3. h[k + 1] = ValueLevel(k + 1, h[k]) BY <2>1 DEF ValueLevels
    <2> QED BY <2>1, <2>2, <2>3
  <1> HIDE DEF T
  <1>3. \A k \in Nat : k \in T BY <1>1, <1>2, Induction
  <1> QED BY <1>3 DEF T

LEMMA ValuesUpToIs ==
  ValuesUpTo[0] = ValueLevel(0, {}) /\ \A k \in Nat : ValuesUpTo[k + 1] = ValueLevel(k + 1, ValuesUpTo[k])
  <1> DEFINE Part(n) == CHOOSE g : ValueLevels(g, n)
             g == [n \in Nat |-> Part(n)[n]]
             Level(k, f) == ValueLevel(k, IF k = 0 THEN {} ELSE f[k - 1])
  <1>1. ASSUME NEW n \in Nat PROVE ValueLevels(Part(n), n) BY ValueLevelsSome
  <1> HIDE DEF Part
  <1>2. ASSUME NEW k \in Nat PROVE g[k] = Level(k, g)
    <2>1. CASE k = 0 BY <1>1, <2>1 DEF ValueLevels
    <2>2. CASE k # 0
      <3>1. k - 1 \in Nat /\ k \in 1 .. k /\ k - 1 \in 0 .. k - 1 /\ k - 1 <= k BY <2>2
      <3>2. ValueLevels(Part(k), k) /\ ValueLevels(Part(k - 1), k - 1) BY <1>1, <3>1
      <3>3. Part(k)[k] = ValueLevel(k, Part(k)[k - 1]) BY <3>1, <3>2 DEF ValueLevels
      <3>4. Part(k)[k - 1] = Part(k - 1)[k - 1] BY <3>1, <3>2, ValueLevelsOne
      <3>5. g[k] = Part(k)[k] /\ g[k - 1] = Part(k - 1)[k - 1] BY <3>1
      <3> HIDE DEF g
      <3> QED BY <2>2, <3>3, <3>4, <3>5
    <2> QED BY <2>1, <2>2
  <1>3. g = [k \in Nat |-> Level(k, g)]
    <2>1. g = [k \in Nat |-> g[k]] OBVIOUS
    <2> HIDE DEF g, Level
    <2> QED BY <1>2, <2>1
  <1> HIDE DEF g
  <1>4. ValuesUpTo = [k \in Nat |-> Level(k, ValuesUpTo)] BY <1>3 DEF ValuesUpTo, ValueLevel
  <1>5. ASSUME NEW k \in Nat PROVE ValuesUpTo[k] = Level(k, ValuesUpTo) BY <1>4
  <1>6. ValuesUpTo[0] = ValueLevel(0, {}) BY <1>5
  <1>7. ASSUME NEW k \in Nat PROVE ValuesUpTo[k + 1] = ValueLevel(k + 1, ValuesUpTo[k])
    <2>1. k + 1 \in Nat /\ k + 1 # 0 /\ (k + 1) - 1 = k OBVIOUS
    <2> QED BY <1>5, <2>1
  <1> QED BY <1>6, <1>7
LEMMA LevelsGrow ==
  ASSUME NEW level, \A k \in Nat : level[k] \subseteq level[k + 1]
  PROVE  \A k, n \in Nat : k <= n => level[k] \subseteq level[n]
  <1> SUFFICES ASSUME NEW k \in Nat PROVE \A n \in Nat : k <= n => level[k] \subseteq level[n]
    OBVIOUS
  <1> DEFINE T == {n \in Nat : k <= n => level[k] \subseteq level[n]}
  <1>1. 0 \in T OBVIOUS
  <1>2. ASSUME NEW n \in Nat, n \in T PROVE n + 1 \in T
    <2>1. level[n] \subseteq level[n + 1] OBVIOUS
    <2>2. CASE k = n + 1 BY <2>2
    <2>3. CASE k <= n BY <1>2, <2>1, <2>3
    <2>4. k <= n + 1 => k = n + 1 \/ k <= n OBVIOUS
    <2> QED BY <2>2, <2>3, <2>4
  <1> HIDE DEF T
  <1>3. \A n \in Nat : n \in T BY <1>1, <1>2, Induction
  <1> QED BY <1>3 DEF T

LEMMA JsonGrows == \A k, n \in Nat : k <= n => JsonUpTo[k] \subseteq JsonUpTo[n]
  <1>1. ASSUME NEW A, NEW B, A \subseteq B PROVE JsonLevel(A) \subseteq JsonLevel(B)
    <2>1. Seq(A) \subseteq Seq(B) BY <1>1
    <2>2. [MemberKeys -> A \union {None}] \subseteq [MemberKeys -> B \union {None}] BY <1>1
    <2> QED BY <2>1, <2>2 DEF JsonLevel
  <1> DEFINE T == {k \in Nat : JsonUpTo[k] \subseteq JsonUpTo[k + 1]}
  <1>2. 0 \in T BY <1>1, JsonUpToIs
  <1>3. ASSUME NEW k \in Nat, k \in T PROVE k + 1 \in T BY <1>1, <1>3, JsonUpToIs
  <1> HIDE DEF T
  <1>4. \A k \in Nat : k \in T BY <1>2, <1>3, Induction
  <1> QED BY <1>4, LevelsGrow DEF T

LEMMA ValuesGrow == \A k, n \in Nat : k <= n => ValuesUpTo[k] \subseteq ValuesUpTo[n]
  <1>1. ASSUME NEW A, NEW B, A \subseteq B, NEW k \in Nat, NEW n \in Nat, k <= n
        PROVE ValueLevel(k, A) \subseteq ValueLevel(n, B)
    <2>1. Seq(A) \subseteq Seq(B) BY <1>1
    <2>2. JsonUpTo[2 * k + 1] \subseteq JsonUpTo[2 * n + 1] BY <1>1, JsonGrows
    <2> QED BY <2>1, <2>2 DEF ValueLevel
  <1> DEFINE T == {k \in Nat : ValuesUpTo[k] \subseteq ValuesUpTo[k + 1]}
  <1>2. 0 \in T
    <2>1. ValuesUpTo[0] = ValueLevel(0, {}) /\ ValuesUpTo[0 + 1] = ValueLevel(0 + 1, ValuesUpTo[0])
      BY ValuesUpToIs
    <2>2. ValueLevel(0, {}) \subseteq ValueLevel(0 + 1, ValuesUpTo[0]) BY <1>1
    <2> QED BY <2>1, <2>2
  <1>3. ASSUME NEW k \in Nat, k \in T PROVE k + 1 \in T
    <2>1. ValuesUpTo[k] \subseteq ValuesUpTo[k + 1] BY <1>3
    <2>2. ValuesUpTo[k + 1] = ValueLevel(k + 1, ValuesUpTo[k])
          /\ ValuesUpTo[(k + 1) + 1] = ValueLevel((k + 1) + 1, ValuesUpTo[k + 1])
      BY ValuesUpToIs
    <2>3. ValueLevel(k + 1, ValuesUpTo[k]) \subseteq ValueLevel((k + 1) + 1, ValuesUpTo[k + 1])
      BY <1>1, <2>1
    <2> QED BY <2>2, <2>3
  <1> HIDE DEF T
  <1>4. \A k \in Nat : k \in T BY <1>2, <1>3, Induction
  <1> QED BY <1>4, LevelsGrow DEF T

\* A value is plain, a document or an array.
LEMMA ValueIs ==
  ASSUME NEW k, NEW inner, NEW v \in ValueLevel(k, inner)
  PROVE  \/ v.type \notin {"json", "array"} /\ v \in PlainValues
         \/ v.type = "json" /\ v = Json(v.doc) /\ v.doc \in JsonUpTo[2 * k + 1]
         \/ v.type = "array" /\ v = ArrayOf(v.items) /\ v.items \in Seq(inner)
  <1>1. CASE v \in PlainValues
    <2>1. v.type \notin {"json", "array"} BY <1>1 DEF PlainValues, ValuesAs, Null, NaN, Value
    <2> QED BY <1>1, <2>1
  <1>2. CASE v \in [type : {"json"}, doc : JsonUpTo[2 * k + 1]] BY <1>2 DEF Json
  <1>3. CASE v \in [type : {"array"}, items : Seq(inner)] BY <1>3 DEF ArrayOf
  <1> QED BY <1>1, <1>2, <1>3 DEF ValueLevel

LEMMA PlainTypes == \A v \in PlainValues : v.type \notin {"json", "array"}
  BY DEF PlainValues, ValuesAs, Null, NaN, Value

LEMMA ValuesAre ==
  \A v \in Values :
    \/ v.type \notin {"json", "array"} /\ v \in PlainValues
    \/ v.type = "json" /\ v = Json(v.doc) /\ v.doc \in Docs
    \/ v.type = "array" /\ v = ArrayOf(v.items)
  <1>0. ArrayDepth \in Nat BY PropertyValueAssumption
  <1>1. CASE ArrayDepth = 0
    <2>1. Values = ValueLevel(0, {}) /\ 2 * ArrayDepth + 1 = 2 * 0 + 1 BY <1>1, ValuesUpToIs DEF Values
    <2> QED BY <1>1, <2>1, ValueIs DEF Docs
  <1>2. CASE ArrayDepth # 0
    <2> DEFINE k == ArrayDepth - 1
    <2>1. k \in Nat /\ k + 1 = ArrayDepth BY <1>0, <1>2
    <2> HIDE DEF k
    <2>2. Values = ValueLevel(k + 1, ValuesUpTo[k]) /\ 2 * ArrayDepth + 1 = 2 * (k + 1) + 1
      BY <2>1, ValuesUpToIs DEF Values
    <2> QED BY <2>1, <2>2, ValueIs DEF Docs
  <1> QED BY <1>1, <1>2

LEMMA ItemsAre ==
  /\ \A v \in ValuesUpTo[0] : v.type = "array" => v.items \in Seq({})
  /\ \A k \in Nat : \A v \in ValuesUpTo[k + 1] : v.type = "array" => v.items \in Seq(ValuesUpTo[k])
  /\ \A k \in Nat : k <= ArrayDepth => ValuesUpTo[k] \subseteq Values
  /\ \A v \in Values : v.type = "array" => v.items \in Seq(Values)
  <1>0. ArrayDepth \in Nat BY PropertyValueAssumption
  <1>1. ASSUME NEW v \in ValuesUpTo[0], v.type = "array" PROVE v.items \in Seq({})
    <2>1. v \in ValueLevel(0, {}) BY ValuesUpToIs
    <2> QED BY <1>1, <2>1, ValueIs
  <1>2. ASSUME NEW k \in Nat, NEW v \in ValuesUpTo[k + 1], v.type = "array"
        PROVE v.items \in Seq(ValuesUpTo[k])
    <2>1. v \in ValueLevel(k + 1, ValuesUpTo[k]) BY ValuesUpToIs
    <2> QED BY <1>2, <2>1, ValueIs
  <1>3. ASSUME NEW k \in Nat, k <= ArrayDepth PROVE ValuesUpTo[k] \subseteq Values
    BY <1>0, <1>3, ValuesGrow DEF Values
  <1>4. ASSUME NEW v \in Values, v.type = "array" PROVE v.items \in Seq(Values)
    <2>1. CASE ArrayDepth = 0
      <3>1. v.items \in Seq({}) BY <1>1, <1>4, <2>1 DEF Values
      <3> QED BY <3>1
    <2>2. CASE ArrayDepth # 0
      <3>1. ArrayDepth - 1 \in Nat /\ (ArrayDepth - 1) + 1 = ArrayDepth /\ ArrayDepth - 1 <= ArrayDepth
        BY <1>0, <2>2
      <3>2. v.items \in Seq(ValuesUpTo[ArrayDepth - 1]) BY <1>2, <1>4, <3>1 DEF Values
      <3>3. ValuesUpTo[ArrayDepth - 1] \subseteq Values BY <1>3, <3>1
      <3> QED BY <3>2, <3>3
    <2> QED BY <2>1, <2>2
  <1> QED BY <1>1, <1>2, <1>3, <1>4

\* A set that has an array whenever it has its items, and all other values, has
\* every value.
LEMMA ValueInduction ==
  ASSUME NEW T,
         \A v \in Values :
           (v.type = "array" => \A i \in DOMAIN v.items : v.items[i] \in T) => v \in T
  PROVE  \A v \in Values : v \in T
  <1> DEFINE S == {k \in Nat : k <= ArrayDepth => ValuesUpTo[k] \subseteq T}
  <1>1. 0 \in S
    <2> SUFFICES ASSUME 0 <= ArrayDepth, NEW v \in ValuesUpTo[0] PROVE v \in T OBVIOUS
    <2>1. v \in Values BY ItemsAre
    <2>2. v.type = "array" => DOMAIN v.items = {} BY ItemsAre
    <2> QED BY <2>1, <2>2
  <1>2. ASSUME NEW k \in Nat, k \in S PROVE k + 1 \in S
    <2> SUFFICES ASSUME k + 1 <= ArrayDepth, NEW v \in ValuesUpTo[k + 1] PROVE v \in T OBVIOUS
    <2>1. v \in Values BY ItemsAre
    <2>2. k <= ArrayDepth BY PropertyValueAssumption
    <2>3. v.type = "array" => \A i \in DOMAIN v.items : v.items[i] \in ValuesUpTo[k] BY ItemsAre
    <2> QED BY <1>2, <2>1, <2>2, <2>3
  <1> HIDE DEF S
  <1>3. \A k \in Nat : k \in S BY <1>1, <1>2, Induction
  <1> QED BY <1>3, PropertyValueAssumption DEF S, Values

ByItems(step, R) ==
  \A f, g \in [Values -> R] : \A v \in Values :
    (v.type = "array" => \A i \in DOMAIN v.items : f[v.items[i]] = g[v.items[i]])
      => step[f][v] = step[g][v]

LEMMA ValueRecursion ==
  ASSUME NEW R, NEW r \in R, NEW step \in [[Values -> R] -> [Values -> R]],
         ByItems(step, R)
  PROVE  Solvable(step, Values, R)
  <1>1. ArrayDepth \in Nat /\ ValuesUpTo[ArrayDepth] = Values BY PropertyValueAssumption DEF Values
  <1>2. ASSUME NEW f \in [Values -> R], NEW g \in [Values -> R], NEW v \in ValuesUpTo[0]
        PROVE step[f][v] = step[g][v]
    <2>1. v \in Values BY <1>1, ItemsAre
    <2>2. v.type = "array" => DOMAIN v.items = {} BY ItemsAre
    <2> QED BY <2>1, <2>2 DEF ByItems
  <1>3. ASSUME NEW k \in Nat, k < ArrayDepth, NEW f \in [Values -> R], NEW g \in [Values -> R],
               \A v \in ValuesUpTo[k] : f[v] = g[v], NEW v \in ValuesUpTo[k + 1]
        PROVE step[f][v] = step[g][v]
    <2>1. k + 1 <= ArrayDepth BY <1>1, <1>3
    <2>2. v \in Values BY <2>1, ItemsAre
    <2>3. v.type = "array" => \A i \in DOMAIN v.items : v.items[i] \in ValuesUpTo[k] BY ItemsAre
    <2> QED BY <1>3, <2>2, <2>3 DEF ByItems
  <1>4. \A f, g \in [Values -> R] : \A v \in ValuesUpTo[0] : step[f][v] = step[g][v] BY <1>2
  <1>5. \A k \in Nat : k < ArrayDepth =>
          \A f, g \in [Values -> R] :
            (\A v \in ValuesUpTo[k] : f[v] = g[v])
              => \A v \in ValuesUpTo[k + 1] : step[f][v] = step[g][v]
    BY <1>3
  <1>6. ByLevels(step, Values, R, ArrayDepth, ValuesUpTo) BY <1>1, <1>4, <1>5 DEF ByLevels
  <1> QED BY <1>1, <1>6, RecursionByLevels

\* A document is a scalar, an array or an object.
LEMMA DocIs ==
  ASSUME NEW inner, NEW doc \in JsonLevel(inner)
  PROVE  \/ doc = JNull
         \/ doc.json = "bool" /\ doc = JBool(doc.n[1]) /\ doc.n \in One({0, 1})
         \/ doc.json = "integer" /\ doc = JInteger(doc.n[1]) /\ doc.n \in One(Int)
         \/ doc.json = "real" /\ doc = JReal(doc.n[1]) /\ doc.n \in One(Doubles)
         \/ doc.json = "string" /\ doc = JString(doc.text) /\ doc.text \in Texts
         \/ doc.json = "array" /\ doc = JArray(doc.items) /\ doc.items \in Seq(inner)
         \/ /\ doc.json = "object" /\ doc = [json |-> "object", members |-> doc.members]
            /\ doc.members \in [MemberKeys -> inner \union {None}]
  <1>0. \A S : \A n \in One(S) : n = <<n[1]>> BY DEF One
  <1>1. CASE doc = JNull BY <1>1
  <1>2. CASE doc \in [json : {"bool"}, n : One({0, 1})]
    <2>1. doc.json = "bool" /\ doc = [json |-> "bool", n |-> doc.n] /\ doc.n \in One({0, 1})
      BY <1>2
    <2> QED BY <1>0, <2>1 DEF JBool
  <1>3. CASE doc \in [json : {"integer"}, n : One(Int)]
    <2>1. doc.json = "integer" /\ doc = [json |-> "integer", n |-> doc.n] /\ doc.n \in One(Int)
      BY <1>3
    <2> QED BY <1>0, <2>1 DEF JInteger
  <1>4. CASE doc \in [json : {"real"}, n : One(Doubles)]
    <2>1. doc.json = "real" /\ doc = [json |-> "real", n |-> doc.n] /\ doc.n \in One(Doubles)
      BY <1>4
    <2> QED BY <1>0, <2>1 DEF JReal
  <1>5. CASE doc \in [json : {"string"}, text : Texts] BY <1>5 DEF JString
  <1>6. CASE doc \in [json : {"array"}, items : Seq(inner)] BY <1>6 DEF JArray
  <1>7. CASE doc \in [json : {"object"}, members : [MemberKeys -> inner \union {None}]] BY <1>7
  <1> QED BY <1>1, <1>2, <1>3, <1>4, <1>5, <1>6, <1>7 DEF JsonLevel, PlainJson

TypedItems(doc) == doc.members[Val].items

LEMMA DocsDeep ==
  /\ \A doc \in JsonUpTo[1] : IsTypedArray(doc) => TypedItems(doc) \in Seq({})
  /\ \A k \in Nat : \A doc \in JsonUpTo[2 * (k + 1) + 1] :
       IsTypedArray(doc) => TypedItems(doc) \in Seq(JsonUpTo[2 * k + 1])
  /\ \A k \in Nat : k <= ArrayDepth => JsonUpTo[2 * k + 1] \subseteq Docs
  /\ \A doc \in Docs : IsTypedArray(doc) => TypedItems(doc) \in Seq(Docs)
  <1>0. ArrayDepth \in Nat /\ Val \in MemberKeys BY PropertyValueAssumption
  <1>1. ASSUME NEW A, NEW doc \in JsonLevel(JsonLevel(A)), IsTypedArray(doc)
        PROVE  TypedItems(doc) \in Seq(A)
    <2> DEFINE payload == doc.members[Val]
    <2>1. doc.json = "object" /\ payload # None /\ payload.json = "array"
      BY <1>1 DEF IsTypedArray, IsEnvelope, HasTag
    <2>2. doc.members \in [MemberKeys -> JsonLevel(A) \union {None}]
      BY <2>1, DocIs DEF JNull
    <2>3. payload \in JsonLevel(A) BY <1>0, <2>1, <2>2
    <2> HIDE DEF payload
    <2>4. payload.items \in Seq(A) BY <2>1, <2>3, DocIs DEF JNull
    <2> QED BY <2>4 DEF TypedItems, payload
  <1>2. ASSUME NEW doc \in JsonUpTo[1], IsTypedArray(doc) PROVE TypedItems(doc) \in Seq({})
    <2>1. JsonUpTo[0] = JsonLevel({}) /\ JsonUpTo[0 + 1] = JsonLevel(JsonUpTo[0]) BY JsonUpToIs
    <2>2. doc \in JsonLevel(JsonLevel({})) BY <2>1
    <2> QED BY <1>1, <1>2, <2>2
  <1>3. ASSUME NEW k \in Nat, NEW doc \in JsonUpTo[2 * (k + 1) + 1], IsTypedArray(doc)
        PROVE  TypedItems(doc) \in Seq(JsonUpTo[2 * k + 1])
    <2>1. 2 * k + 1 \in Nat /\ (2 * k + 1) + 1 \in Nat /\ ((2 * k + 1) + 1) + 1 = 2 * (k + 1) + 1
      OBVIOUS
    <2>2. JsonUpTo[((2 * k + 1) + 1) + 1] = JsonLevel(JsonUpTo[(2 * k + 1) + 1]) BY <2>1, JsonUpToIs
    <2>3. JsonUpTo[(2 * k + 1) + 1] = JsonLevel(JsonUpTo[2 * k + 1]) BY <2>1, JsonUpToIs
    <2>4. doc \in JsonLevel(JsonLevel(JsonUpTo[2 * k + 1])) BY <2>1, <2>2, <2>3
    <2> QED BY <1>1, <1>3, <2>4
  <1>4. ASSUME NEW k \in Nat, k <= ArrayDepth PROVE JsonUpTo[2 * k + 1] \subseteq Docs
    <2>1. 2 * k + 1 \in Nat /\ 2 * ArrayDepth + 1 \in Nat /\ 2 * k + 1 <= 2 * ArrayDepth + 1
      BY <1>0, <1>4
    <2> QED BY <2>1, JsonGrows DEF Docs
  <1>5. ASSUME NEW doc \in Docs, IsTypedArray(doc) PROVE TypedItems(doc) \in Seq(Docs)
    <2>1. CASE ArrayDepth = 0
      <3>1. doc \in JsonUpTo[1]
        <4>1. 2 * ArrayDepth + 1 = 1 BY <2>1
        <4> QED BY <4>1 DEF Docs
      <3>2. TypedItems(doc) \in Seq({}) BY <1>2, <1>5, <3>1
      <3> QED BY <3>2
    <2>2. CASE ArrayDepth # 0
      <3> DEFINE k == ArrayDepth - 1
      <3>1. k \in Nat /\ k + 1 = ArrayDepth /\ k <= ArrayDepth BY <1>0, <2>2
      <3> HIDE DEF k
      <3>2. doc \in JsonUpTo[2 * (k + 1) + 1] BY <3>1 DEF Docs
      <3>3. TypedItems(doc) \in Seq(JsonUpTo[2 * k + 1]) BY <1>3, <1>5, <3>1, <3>2
      <3>4. JsonUpTo[2 * k + 1] \subseteq Docs BY <1>4, <3>1
      <3> QED BY <3>3, <3>4
    <2> QED BY <2>1, <2>2
  <1> QED BY <1>2, <1>3, <1>4, <1>5

LEMMA TwoLevels ==
  /\ JsonLevel({}) \subseteq JsonUpTo[2 * 0 + 1]
  /\ JsonLevel(JsonLevel({})) = JsonUpTo[2 * 0 + 1]
  /\ \A k \in Nat :
       /\ JsonLevel(JsonUpTo[2 * k + 1]) \subseteq JsonUpTo[2 * (k + 1) + 1]
       /\ JsonLevel(JsonLevel(JsonUpTo[2 * k + 1])) = JsonUpTo[2 * (k + 1) + 1]
  <1>1. 2 * 0 + 1 = 0 + 1 OBVIOUS
  <1>2. JsonUpTo[0] = JsonLevel({}) /\ JsonUpTo[0 + 1] = JsonLevel(JsonUpTo[0]) BY JsonUpToIs
  <1>3. JsonUpTo[0] \subseteq JsonUpTo[0 + 1] BY JsonGrows
  <1>4. ASSUME NEW k \in Nat
        PROVE  /\ JsonLevel(JsonUpTo[2 * k + 1]) \subseteq JsonUpTo[2 * (k + 1) + 1]
               /\ JsonLevel(JsonLevel(JsonUpTo[2 * k + 1])) = JsonUpTo[2 * (k + 1) + 1]
    <2>1. 2 * k + 1 \in Nat /\ (2 * k + 1) + 1 \in Nat /\ ((2 * k + 1) + 1) + 1 = 2 * (k + 1) + 1
          /\ 2 * (k + 1) + 1 \in Nat /\ (2 * k + 1) + 1 <= 2 * (k + 1) + 1
      OBVIOUS
    <2>2. JsonUpTo[((2 * k + 1) + 1) + 1] = JsonLevel(JsonUpTo[(2 * k + 1) + 1]) BY <2>1, JsonUpToIs
    <2>3. JsonUpTo[(2 * k + 1) + 1] = JsonLevel(JsonUpTo[2 * k + 1]) BY <2>1, JsonUpToIs
    <2>4. JsonUpTo[(2 * k + 1) + 1] \subseteq JsonUpTo[2 * (k + 1) + 1] BY <2>1, JsonGrows
    <2> QED BY <2>1, <2>2, <2>3, <2>4
  <1> QED BY <1>1, <1>2, <1>3, <1>4

LEMMA PlainIsDoc == PlainJson \subseteq Docs
  <1>1. 2 * ArrayDepth + 1 \in Nat /\ 0 <= 2 * ArrayDepth + 1 BY PropertyValueAssumption
  <1>2. PlainJson \subseteq JsonUpTo[0] BY JsonUpToIs DEF JsonLevel
  <1> QED BY <1>1, <1>2, JsonGrows DEF Docs

LEMMA ShallowIsDoc == JsonLevel(JsonUpTo[0]) \subseteq Docs
  <1>1. 2 * ArrayDepth + 1 \in Nat /\ 0 + 1 <= 2 * ArrayDepth + 1 BY PropertyValueAssumption
  <1>2. JsonUpTo[0 + 1] = JsonLevel(JsonUpTo[0]) BY JsonUpToIs
  <1> QED BY <1>1, <1>2, JsonGrows DEF Docs

LEMMA PlainIsValue == PlainValues \subseteq Values
  <1>1. PlainValues \subseteq ValuesUpTo[0] BY ValuesUpToIs DEF ValueLevel
  <1> QED BY <1>1, ItemsAre, PropertyValueAssumption

LEMMA DocInduction ==
  ASSUME NEW T,
         \A doc \in Docs :
           (IsTypedArray(doc) => \A i \in DOMAIN TypedItems(doc) : TypedItems(doc)[i] \in T)
             => doc \in T
  PROVE  \A doc \in Docs : doc \in T
  <1> DEFINE S == {k \in Nat : k <= ArrayDepth => JsonUpTo[2 * k + 1] \subseteq T}
  <1>1. 0 \in S
    <2>0. 2 * 0 + 1 = 1 OBVIOUS
    <2> SUFFICES ASSUME 0 <= ArrayDepth, NEW doc \in JsonUpTo[1] PROVE doc \in T BY <2>0
    <2>1. doc \in Docs BY <2>0, DocsDeep
    <2>2. IsTypedArray(doc) => DOMAIN TypedItems(doc) = {} BY DocsDeep
    <2> QED BY <2>1, <2>2
  <1>2. ASSUME NEW k \in Nat, k \in S PROVE k + 1 \in S
    <2> SUFFICES ASSUME k + 1 <= ArrayDepth, NEW doc \in JsonUpTo[2 * (k + 1) + 1] PROVE doc \in T
      OBVIOUS
    <2>1. doc \in Docs BY DocsDeep
    <2>2. k <= ArrayDepth BY PropertyValueAssumption
    <2>3. IsTypedArray(doc) => \A i \in DOMAIN TypedItems(doc) : TypedItems(doc)[i] \in JsonUpTo[2 * k + 1]
      BY DocsDeep
    <2> QED BY <1>2, <2>1, <2>2, <2>3
  <1> HIDE DEF S
  <1>3. \A k \in Nat : k \in S BY <1>1, <1>2, Induction
  <1> QED BY <1>3, PropertyValueAssumption DEF S, Docs

ByTypedItems(step, R) ==
  \A f, g \in [Docs -> R] : \A doc \in Docs :
    (IsTypedArray(doc) =>
       \A i \in DOMAIN TypedItems(doc) : f[TypedItems(doc)[i]] = g[TypedItems(doc)[i]])
      => step[f][doc] = step[g][doc]

LEMMA DocRecursion ==
  ASSUME NEW R, NEW r \in R, NEW step \in [[Docs -> R] -> [Docs -> R]],
         ByTypedItems(step, R)
  PROVE  Solvable(step, Docs, R)
  <1> DEFINE L == [k \in Nat |-> JsonUpTo[2 * k + 1]]
  <1>1. ArrayDepth \in Nat /\ L[ArrayDepth] = Docs BY PropertyValueAssumption DEF Docs
  <1>2. \A k \in Nat : L[k] = JsonUpTo[2 * k + 1] OBVIOUS
  <1> HIDE DEF L
  <1>3. ASSUME NEW f \in [Docs -> R], NEW g \in [Docs -> R], NEW doc \in L[0]
        PROVE step[f][doc] = step[g][doc]
    <2>0. 2 * 0 + 1 = 1 /\ L[0] = JsonUpTo[1] /\ 0 <= ArrayDepth BY <1>1, <1>2
    <2>1. doc \in Docs BY <1>1, <2>0, DocsDeep
    <2>2. IsTypedArray(doc) => DOMAIN TypedItems(doc) = {} BY <2>0, DocsDeep
    <2> QED BY <2>1, <2>2 DEF ByTypedItems
  <1>4. ASSUME NEW k \in Nat, k < ArrayDepth, NEW f \in [Docs -> R], NEW g \in [Docs -> R],
               \A doc \in L[k] : f[doc] = g[doc], NEW doc \in L[k + 1]
        PROVE step[f][doc] = step[g][doc]
    <2>1. k + 1 <= ArrayDepth /\ doc \in JsonUpTo[2 * (k + 1) + 1] BY <1>1, <1>2, <1>4
    <2>2. doc \in Docs BY <2>1, DocsDeep
    <2>3. IsTypedArray(doc) => \A i \in DOMAIN TypedItems(doc) : TypedItems(doc)[i] \in JsonUpTo[2 * k + 1]
      BY <2>1, DocsDeep
    <2>4. L[k] = JsonUpTo[2 * k + 1] BY <1>2
    <2> QED BY <1>4, <2>2, <2>3, <2>4 DEF ByTypedItems
  <1>5. \A f, g \in [Docs -> R] : \A doc \in L[0] : step[f][doc] = step[g][doc] BY <1>3
  <1>6. \A k \in Nat : k < ArrayDepth =>
          \A f, g \in [Docs -> R] :
            (\A doc \in L[k] : f[doc] = g[doc])
              => \A doc \in L[k + 1] : step[f][doc] = step[g][doc]
    BY <1>4
  <1>7. ByLevels(step, Docs, R, ArrayDepth, L) BY <1>1, <1>5, <1>6 DEF ByLevels
  <1> QED BY <1>1, <1>7, RecursionByLevels

-------------------------------------------------------------------------------
\* The recursive functions on values and documents

LeavesBy(f, v) == IF v.type = "array" THEN UNION {f[v.items[i]] : i \in DOMAIN v.items} ELSE {v}

LEMMA LeavesAre ==
  \A v \in Values :
    /\ Leaves[v] \subseteq Values
    /\ v.type # "array" => Leaves[v] = {v}
    /\ v.type = "array" => Leaves[v] = UNION {Leaves[v.items[i]] : i \in DOMAIN v.items}
  <1> DEFINE R == SUBSET Values
             step == [f \in [Values -> R] |-> [v \in Values |-> LeavesBy(f, v)]]
  <1>1. ASSUME NEW f \in [Values -> R], NEW v \in Values PROVE LeavesBy(f, v) \in R
    <2>1. CASE v.type = "array"
      <3>1. \A i \in DOMAIN v.items : v.items[i] \in Values BY <2>1, ItemsAre
      <3>2. \A i \in DOMAIN v.items : f[v.items[i]] \subseteq Values BY <3>1
      <3> QED BY <2>1, <3>2 DEF LeavesBy
    <2>2. CASE v.type # "array" BY <2>2 DEF LeavesBy
    <2> QED BY <2>1, <2>2
  <1>2. step \in [[Values -> R] -> [Values -> R]] BY <1>1
  <1>3. \A f \in [Values -> R] : \A v \in Values : step[f][v] = LeavesBy(f, v) OBVIOUS
  <1>4. {} \in R OBVIOUS
  <1> HIDE DEF step, R
  <1>5. ByItems(step, R)
    <2> SUFFICES ASSUME NEW f \in [Values -> R], NEW g \in [Values -> R], NEW v \in Values,
                        v.type = "array" => \A i \in DOMAIN v.items : f[v.items[i]] = g[v.items[i]]
                 PROVE  step[f][v] = step[g][v]
      BY DEF ByItems
    <2>1. LeavesBy(f, v) = LeavesBy(g, v) BY DEF LeavesBy
    <2>2. step[f][v] = LeavesBy(f, v) BY <1>3
    <2>3. step[g][v] = LeavesBy(g, v) BY <1>3
    <2> QED BY <2>1, <2>2, <2>3
  <1>6. PICK f \in [Values -> R] : f = step[f] BY <1>2, <1>4, <1>5, ValueRecursion DEF Solvable
  <1>7. f = [v \in Values |-> LeavesBy(f, v)]
    <2>1. f = [v \in Values |-> f[v]] OBVIOUS
    <2>2. \A v \in Values : f[v] = LeavesBy(f, v) BY <1>3, <1>6
    <2> QED BY <2>1, <2>2
  <1>8. Leaves = [v \in Values |-> LeavesBy(Leaves, v)] BY <1>7 DEF Leaves, LeavesBy
  <1>9. \A v \in Values : Leaves[v] = LeavesBy(Leaves, v) BY <1>8
  <1> DEFINE T == {v \in Values : Leaves[v] \subseteq Values}
  <1>10. ASSUME NEW v \in Values, v.type = "array" => \A i \in DOMAIN v.items : v.items[i] \in T
         PROVE  v \in T
    <2>1. Leaves[v] = LeavesBy(Leaves, v) BY <1>9
    <2>2. CASE v.type = "array"
      <3>1. \A i \in DOMAIN v.items : Leaves[v.items[i]] \subseteq Values BY <1>10, <2>2
      <3> QED BY <2>1, <2>2, <3>1 DEF LeavesBy
    <2>3. CASE v.type # "array" BY <2>1, <2>3 DEF LeavesBy
    <2> QED BY <2>2, <2>3
  <1> HIDE DEF T
  <1>11. \A v \in Values : v \in T BY <1>10, ValueInduction
  <1>12. ASSUME NEW v \in Values
         PROVE  /\ Leaves[v] \subseteq Values
                /\ v.type # "array" => Leaves[v] = {v}
                /\ v.type = "array" => Leaves[v] = UNION {Leaves[v.items[i]] : i \in DOMAIN v.items}
    <2>1. Leaves[v] = LeavesBy(Leaves, v) BY <1>9
    <2>2. Leaves[v] \subseteq Values BY <1>11 DEF T
    <2> QED BY <2>1, <2>2 DEF LeavesBy
  <1> QED BY <1>12

Outcomes == {-1, 0, 1} \union {PlainCompare(v, w) : v, w \in Values}

OrdersBy(f, s, t) == [i \in Common(s, t) |-> f[s[i]][t[i]]]

ComparingBy(f, v) ==
  [w \in Values |-> IF v.type = "array" /\ w.type = "array"
                    THEN Lexicographic(OrdersBy(f, v.items, w.items), Len(v.items), Len(w.items))
                    ELSE PlainCompare(v, w)]

LEMMA CommonIs ==
  ASSUME NEW S, NEW T, NEW s \in Seq(S), NEW t \in Seq(T)
  PROVE  /\ Common(s, t) = Common(t, s)
         /\ \E n \in Nat : Common(s, t) = 1 .. n
         /\ \A i \in Nat \ {0} : i \in Common(s, t) <=> i <= Len(s) /\ i <= Len(t)
         /\ Common(s, t) \subseteq DOMAIN s /\ Common(s, t) \subseteq DOMAIN t
  BY DEF Common

LEMMA LexicographicIn ==
  ASSUME NEW S, {-1, 0, 1} \subseteq S, NEW n \in Nat, NEW orders \in [1 .. n -> S],
         NEW k \in Nat, NEW m \in Nat
  PROVE  Lexicographic(orders, k, m) \in S
  <1>1. orders \in Seq(S) /\ Len(orders) = n OBVIOUS
  <1>2. FirstNonZero(orders) = 0 \/ FirstNonZero(orders) \in 1 .. n BY <1>1, FirstNonZeroIs
  <1>3. Compare(k, m) \in {-1, 0, 1} BY DEF Compare, Sign
  <1> QED BY <1>2, <1>3 DEF Lexicographic

LEMMA ComparingIs ==
  \A v, w \in Values :
    CompareValues(v, w) =
      IF v.type = "array" /\ w.type = "array"
      THEN Lexicographic(OrdersBy(Comparing, v.items, w.items), Len(v.items), Len(w.items))
      ELSE PlainCompare(v, w)
  <1> DEFINE R == [Values -> Outcomes]
             step == [f \in [Values -> R] |-> [v \in Values |-> ComparingBy(f, v)]]
  <1>1. ASSUME NEW f \in [Values -> R], NEW v \in Values PROVE ComparingBy(f, v) \in R
    <2>1. ASSUME NEW w \in Values, v.type = "array", w.type = "array"
          PROVE  Lexicographic(OrdersBy(f, v.items, w.items), Len(v.items), Len(w.items)) \in Outcomes
      <3>1. v.items \in Seq(Values) /\ w.items \in Seq(Values) BY <2>1, ItemsAre
      <3>2. PICK n \in Nat : Common(v.items, w.items) = 1 .. n BY <3>1, CommonIs
      <3>3. \A i \in 1 .. n : v.items[i] \in Values /\ w.items[i] \in Values BY <3>1, <3>2, CommonIs
      <3>4. \A x, y \in Values : f[x][y] \in Outcomes OBVIOUS
      <3>5. OrdersBy(f, v.items, w.items) \in [1 .. n -> Outcomes] BY <3>2, <3>3, <3>4 DEF OrdersBy
      <3>6. {-1, 0, 1} \subseteq Outcomes BY DEF Outcomes
      <3>7. Len(v.items) \in Nat /\ Len(w.items) \in Nat BY <3>1
      <3> QED BY <3>5, <3>6, <3>7, LexicographicIn
    <2>2. \A w \in Values : PlainCompare(v, w) \in Outcomes BY DEF Outcomes
    <2> QED BY <2>1, <2>2 DEF ComparingBy
  <1>2. step \in [[Values -> R] -> [Values -> R]] BY <1>1
  <1>3. \A f \in [Values -> R] : \A v \in Values : step[f][v] = ComparingBy(f, v) OBVIOUS
  <1>4. [w \in Values |-> 0] \in R BY DEF Outcomes
  <1> HIDE DEF step, R
  <1>5. ByItems(step, R)
    <2> SUFFICES ASSUME NEW f \in [Values -> R], NEW g \in [Values -> R], NEW v \in Values,
                        v.type = "array" => \A i \in DOMAIN v.items : f[v.items[i]] = g[v.items[i]]
                 PROVE  step[f][v] = step[g][v]
      BY DEF ByItems
    <2>1. ASSUME NEW w \in Values, v.type = "array", w.type = "array"
          PROVE  OrdersBy(f, v.items, w.items) = OrdersBy(g, v.items, w.items)
      <3>1. v.items \in Seq(Values) /\ w.items \in Seq(Values) BY <2>1, ItemsAre
      <3>2. \A i \in Common(v.items, w.items) : f[v.items[i]] = g[v.items[i]]
        BY <2>1, <3>1, CommonIs
      <3> QED BY <3>2 DEF OrdersBy
    <2>2. ComparingBy(f, v) = ComparingBy(g, v) BY <2>1 DEF ComparingBy
    <2>3. step[f][v] = ComparingBy(f, v) BY <1>3
    <2>4. step[g][v] = ComparingBy(g, v) BY <1>3
    <2> QED BY <2>2, <2>3, <2>4
  <1>6. PICK f \in [Values -> R] : f = step[f] BY <1>2, <1>4, <1>5, ValueRecursion DEF Solvable
  <1>7. f = [v \in Values |-> ComparingBy(f, v)]
    <2>1. f = [v \in Values |-> f[v]] OBVIOUS
    <2>2. \A v \in Values : f[v] = ComparingBy(f, v) BY <1>3, <1>6
    <2> QED BY <2>1, <2>2
  <1>8. Comparing = [v \in Values |-> ComparingBy(Comparing, v)]
    BY <1>7 DEF Comparing, ComparingBy, OrdersBy
  <1>9. \A v \in Values : Comparing[v] = ComparingBy(Comparing, v) BY <1>8
  <1> QED BY <1>9 DEF CompareValues, ComparingBy

\* The plain values by their types.
LEMMA PlainIs ==
  ASSUME NEW v \in PlainValues
  PROVE  \/ v = Null
         \/ v = NaN
         \/ v.type = "bool" /\ v.n \in One({0, 1}) /\ v = Value("bool", v.n)
         \/ /\ v.type \in IntegralTypes /\ v.n \in One(LongRange) /\ v = Value(v.type, v.n)
            /\ v.type = "int32" => v.n[1] \in Int32Range
            /\ v.type = "int16" => v.n[1] \in Int16Range
         \/ v.type = "float" /\ v.n \in One(Doubles) /\ v = Value("float", v.n)
         \/ v.type \in TextTypes /\ v.n \in Payload[v.type] /\ v = Value(v.type, v.n)
         \/ v.type = "text" /\ v.text \in Texts /\ v = Text(v.text)
  <1>1. \A type, N : \A x \in ValuesAs(type, N) : x.type = type /\ x.n \in N /\ x = Value(type, x.n)
    BY DEF ValuesAs, Value
  <1>2. CASE v \in ValuesAs("bool", One({0, 1})) BY <1>1, <1>2
  <1>3. CASE v \in ValuesAs("long", One(LongRange)) BY <1>1, <1>3 DEF IntegralTypes
  <1>4. CASE v \in ValuesAs("int32", One(Int32Range))
    <2>1. v.type = "int32" /\ v.n \in One(Int32Range) /\ v = Value("int32", v.n) BY <1>1, <1>4
    <2>2. One(Int32Range) \subseteq One(LongRange) BY PropertyValueAssumption DEF One
    <2>3. v.n[1] \in Int32Range BY <2>1 DEF One
    <2> QED BY <2>1, <2>2, <2>3 DEF IntegralTypes
  <1>5. CASE v \in ValuesAs("int16", One(Int16Range))
    <2>1. v.type = "int16" /\ v.n \in One(Int16Range) /\ v = Value("int16", v.n) BY <1>1, <1>5
    <2>2. One(Int16Range) \subseteq One(LongRange) BY PropertyValueAssumption DEF One
    <2>3. v.n[1] \in Int16Range BY <2>1 DEF One
    <2> QED BY <2>1, <2>2, <2>3 DEF IntegralTypes
  <1>6. CASE v \in ValuesAs("float", One(Doubles)) BY <1>1, <1>6
  <1>7. CASE \E type \in TextTypes : v \in ValuesAs(type, Payload[type]) BY <1>1, <1>7
  <1>8. CASE v \in [type : {"text"}, text : Texts] BY <1>8 DEF Text
  <1>9. CASE v \in {Null, NaN} BY <1>9
  <1> QED BY <1>2, <1>3, <1>4, <1>5, <1>6, <1>7, <1>8, <1>9 DEF PlainValues, TextTypes

LEMMA LongsAre == LongRange \subseteq Int /\ Int32Range \subseteq LongRange /\ Int16Range \subseteq LongRange
  BY PropertyValueAssumption, DecimalAssumption

LEMMA TextsAre ==
  /\ \A type \in TextTypes : TextsAs(type) \subseteq Texts
  /\ \A type \in TextTypes \union {"int32", "int16", "array"} : TagText(type) \in Texts
  <1>1. \A type \in TextTypes : TextsAs(type) \subseteq Texts BY DEF Texts, TextTypes
  <1>2. ASSUME NEW type \in TextTypes \union {"int32", "int16", "array"} PROVE TagText(type) \in Texts
    <2>1. TagText(type) \in [as : {"tag"}, n : {<<>>}, canonical : {TRUE},
                             type : TextTypes \union {"int32", "int16", "array"}]
      BY DEF TagText
    <2> QED BY <2>1 DEF Texts
  <1> QED BY <1>1, <1>2

LEMMA PayloadTexts ==
  ASSUME NEW v, v.type \in TextTypes, v.n \in Payload[v.type]
  PROVE  /\ PayloadText(v) \in Texts
         /\ PayloadText(v).as = v.type
         /\ PayloadText(v).n \in Payload[v.type]
         /\ (v.type = "time" => v.n[2] % 10 = 0) => PayloadText(v).n = v.n
  <1>1. CASE v.type = "time"
    <2>1. v.n \in Int \X Nat BY <1>1 DEF Payload
    <2>2. \A m \in Nat : m - (m % 10) \in Nat OBVIOUS
    <2> DEFINE n == <<v.n[1], v.n[2] - (v.n[2] % 10)>>
    <2>3. n \in Int \X Nat BY <2>1, <2>2
    <2>4. v.n[2] % 10 = 0 => n = v.n
      <3>1. v.n = <<v.n[1], v.n[2]>> /\ v.n[2] \in Nat BY <2>1
      <3>2. \A m \in Nat : m % 10 = 0 => m - (m % 10) = m OBVIOUS
      <3> QED BY <3>1, <3>2
    <2>5. PayloadText(v) = [as |-> "time", n |-> n, canonical |-> TRUE] BY <1>1 DEF PayloadText, TextOf
    <2> HIDE DEF n
    <2>6. n \in Payload["time"] BY <2>3 DEF Payload
    <2>7. PayloadText(v) \in TextsAs("time") BY <2>5, <2>6 DEF TextsAs
    <2> QED BY <1>1, <2>4, <2>5, <2>6, <2>7, TextsAre DEF TextTypes
  <1>2. CASE v.type # "time"
    <2>1. PayloadText(v) = [as |-> v.type, n |-> v.n, canonical |-> TRUE] BY <1>2 DEF PayloadText, TextOf
    <2>2. PayloadText(v) \in TextsAs(v.type) BY <2>1 DEF TextsAs
    <2> QED BY <2>1, <2>2, TextsAre
  <1> QED BY <1>1, <1>2

LEMMA EnvelopeIs ==
  ASSUME NEW type, NEW payload
  PROVE  /\ Envelope(type, payload) = [json |-> "object", members |-> Envelope(type, payload).members]
         /\ Envelope(type, payload).json = "object"
         /\ Envelope(type, payload).members \in [MemberKeys -> {JString(TagText(type)), payload, None}]
         /\ Envelope(type, payload).members[Tag] = JString(TagText(type))
         /\ Envelope(type, payload).members[Val] = payload
         /\ \A key \in MemberKeys \ {Tag, Val} : Envelope(type, payload).members[key] = None
  <1> DEFINE pair == [key \in {Tag, Val} |-> IF key = Tag THEN JString(TagText(type)) ELSE payload]
             members == [key \in MemberKeys |-> IF key \in DOMAIN pair THEN pair[key] ELSE None]
  <1>1. Envelope(type, payload) = [json |-> "object", members |-> members] BY DEF Envelope, JObject
  <1>2. DOMAIN pair = {Tag, Val} /\ pair[Tag] = JString(TagText(type)) /\ pair[Val] = payload
    BY DEF Tag, Val
  <1> HIDE DEF pair
  <1>3. Tag \in MemberKeys /\ Val \in MemberKeys BY PropertyValueAssumption
  <1>4. members \in [MemberKeys -> {JString(TagText(type)), payload, None}] BY <1>2
  <1>5. members[Tag] = JString(TagText(type)) /\ members[Val] = payload BY <1>2, <1>3
  <1>6. \A key \in MemberKeys \ {Tag, Val} : members[key] = None BY <1>2
  <1> HIDE DEF members
  <1> QED BY <1>1, <1>4, <1>5, <1>6

LEMMA EnvelopeIn ==
  ASSUME NEW inner, PlainJson \subseteq inner, NEW payload \in inner,
         NEW type \in TextTypes \union {"int32", "int16", "array"}
  PROVE  Envelope(type, payload) \in JsonLevel(inner)
  <1>1. TagText(type) \in Texts BY TextsAre
  <1>2. JString(TagText(type)) \in PlainJson BY <1>1 DEF PlainJson, JString
  <1>3. Envelope(type, payload).members \in [MemberKeys -> inner \union {None}] BY <1>2, EnvelopeIs
  <1> QED BY <1>3, EnvelopeIs DEF JsonLevel

WrittenBy(f, v) ==
  IF v.type = "array"
  THEN Envelope("array", JArray([i \in DOMAIN v.items |-> f[v.items[i]]]))
  ELSE PlainToJson(v)

LEMMA PlainJsonIn ==
  /\ JNull \in PlainJson
  /\ \A i \in Int : JInteger(i) \in PlainJson
  /\ \A b \in {0, 1} : JBool(b) \in PlainJson
  /\ \A x \in Doubles : JReal(x) \in PlainJson
  /\ \A text \in Texts : JString(text) \in PlainJson
  <1>1. \A S : \A x \in S : <<x>> \in One(S) BY DEF One
  <1> QED BY <1>1 DEF PlainJson, JInteger, JBool, JReal, JString

LEMMA PlainWritten ==
  ASSUME NEW v \in PlainValues
  PROVE  PlainToJson(v) \in JsonUpTo[1]
  <1>1. JsonUpTo[0] = JsonLevel({}) /\ JsonUpTo[1] = JsonLevel(JsonUpTo[0])
    <2>1. 0 + 1 = 1 OBVIOUS
    <2> QED BY <2>1, JsonUpToIs
  <1>2. PlainJson \subseteq JsonUpTo[0] /\ PlainJson \subseteq JsonUpTo[1] BY <1>1 DEF JsonLevel
  <1>3. CASE v = Null BY <1>2, <1>3, PlainJsonIn DEF PlainToJson, TextTypes, Null
  <1>4. CASE v = NaN BY <1>2, <1>4, PlainJsonIn DEF PlainToJson, TextTypes, NaN, Value
  <1>5. CASE v.type = "bool" /\ v.n \in One({0, 1})
    <2>1. v.n[1] \in {0, 1} BY <1>5 DEF One
    <2> QED BY <1>2, <1>5, <2>1, PlainJsonIn DEF PlainToJson, TextTypes
  <1>6. CASE v.type \in IntegralTypes /\ v.n \in One(LongRange)
    <2>0. v.n[1] \in LongRange BY <1>6 DEF One
    <2>1. v.n[1] \in Int BY <2>0, LongsAre
    <2>2. JInteger(v.n[1]) \in PlainJson BY <2>1, PlainJsonIn
    <2>3. CASE v.type = "long" BY <1>2, <2>2, <2>3 DEF PlainToJson, TextTypes
    <2>4. CASE v.type # "long"
      <3>1. PlainToJson(v) = Envelope(v.type, JInteger(v.n[1]))
        BY <1>6, <2>4 DEF PlainToJson, IntegralTypes, TextTypes
      <3>2. v.type \in {"int32", "int16"} BY <1>6, <2>4 DEF IntegralTypes
      <3>3. Envelope(v.type, JInteger(v.n[1])) \in JsonLevel(JsonUpTo[0]) BY <1>2, <2>2, <3>2, EnvelopeIn
      <3> QED BY <1>1, <3>1, <3>3
    <2> QED BY <2>3, <2>4
  <1>7. CASE v.type = "float" /\ v.n \in One(Doubles)
    <2>1. v.n[1] \in Doubles BY <1>7 DEF One
    <2> QED BY <1>2, <1>7, <2>1, PlainJsonIn DEF PlainToJson, TextTypes
  <1>8. CASE v.type \in TextTypes /\ v.n \in Payload[v.type]
    <2>1. PlainToJson(v) = Envelope(v.type, JString(PayloadText(v)))
      BY <1>8 DEF PlainToJson, TextTypes
    <2>2. JString(PayloadText(v)) \in PlainJson BY <1>8, PayloadTexts, PlainJsonIn
    <2>3. Envelope(v.type, JString(PayloadText(v))) \in JsonLevel(JsonUpTo[0])
      BY <1>2, <1>8, <2>2, EnvelopeIn
    <2> QED BY <1>1, <2>1, <2>3
  <1>9. CASE v.type = "text" /\ v.text \in Texts BY <1>2, <1>9, PlainJsonIn DEF PlainToJson, TextTypes
  <1> QED BY <1>3, <1>4, <1>5, <1>6, <1>7, <1>8, <1>9, PlainIs

\* The recursive function where its values stay in R.
LEMMA SolvedWithin ==
  ASSUME NEW R, NEW r \in R, NEW body, ByItems(body, R)
  PROVE  \E f \in [Values -> R] : \A v \in Values : body[f][v] \in R => f[v] = body[f][v]
  <1> DEFINE Clipped(f, v) == IF body[f][v] \in R THEN body[f][v] ELSE r
             step == [f \in [Values -> R] |-> [v \in Values |-> Clipped(f, v)]]
  <1>1. step \in [[Values -> R] -> [Values -> R]] OBVIOUS
  <1>2. \A f \in [Values -> R] : \A v \in Values : step[f][v] = Clipped(f, v) OBVIOUS
  <1> HIDE DEF step
  <1>3. ByItems(step, R)
    <2> SUFFICES ASSUME NEW f \in [Values -> R], NEW g \in [Values -> R], NEW v \in Values,
                        v.type = "array" => \A i \in DOMAIN v.items : f[v.items[i]] = g[v.items[i]]
                 PROVE  step[f][v] = step[g][v]
      BY DEF ByItems
    <2>1. body[f][v] = body[g][v] BY DEF ByItems
    <2>2. Clipped(f, v) = Clipped(g, v) BY <2>1
    <2> HIDE DEF Clipped
    <2> QED BY <1>2, <2>2
  <1>4. PICK f \in [Values -> R] : f = step[f] BY <1>1, <1>3, ValueRecursion DEF Solvable
  <1>5. \A v \in Values : f[v] = step[f][v] BY <1>4
  <1> QED BY <1>2, <1>5

LEMMA ReadWithin ==
  ASSUME NEW R, NEW r \in R, NEW body, ByTypedItems(body, R)
  PROVE  \E f \in [Docs -> R] : \A doc \in Docs : body[f][doc] \in R => f[doc] = body[f][doc]
  <1> DEFINE Clipped(f, doc) == IF body[f][doc] \in R THEN body[f][doc] ELSE r
             step == [f \in [Docs -> R] |-> [doc \in Docs |-> Clipped(f, doc)]]
  <1>1. step \in [[Docs -> R] -> [Docs -> R]] OBVIOUS
  <1>2. \A f \in [Docs -> R] : \A doc \in Docs : step[f][doc] = Clipped(f, doc) OBVIOUS
  <1> HIDE DEF step
  <1>3. ByTypedItems(step, R)
    <2> SUFFICES ASSUME NEW f \in [Docs -> R], NEW g \in [Docs -> R], NEW doc \in Docs,
                        IsTypedArray(doc) => \A i \in DOMAIN TypedItems(doc) :
                                               f[TypedItems(doc)[i]] = g[TypedItems(doc)[i]]
                 PROVE  step[f][doc] = step[g][doc]
      BY DEF ByTypedItems
    <2>1. body[f][doc] = body[g][doc] BY DEF ByTypedItems
    <2>2. Clipped(f, doc) = Clipped(g, doc) BY <2>1
    <2> HIDE DEF Clipped
    <2> QED BY <1>2, <2>2
  <1>4. PICK f \in [Docs -> R] : f = step[f] BY <1>1, <1>3, DocRecursion DEF Solvable
  <1>5. \A doc \in Docs : f[doc] = step[f][doc] BY <1>4
  <1> QED BY <1>2, <1>5

\* What is written of a value is a document when that of its items is, two levels
\* below.
StaysWithin(f, shown) ==
  \A k \in Nat : \A docs, inner : \A v \in Values \intersect ValueLevel(k, inner) :
    /\ JsonLevel(docs) \subseteq JsonUpTo[2 * k + 1]
    /\ JsonLevel(JsonLevel(docs)) \subseteq JsonUpTo[2 * k + 1]
    /\ v.type = "array" => \A i \in DOMAIN v.items : f[v.items[i]] \in docs
    => shown[v] \in JsonUpTo[2 * k + 1]

\* A function that is what the writing makes of it, wherever that is a document,
\* is that everywhere.
LEMMA WritingCloses ==
  ASSUME NEW f, NEW shown, StaysWithin(f, shown),
         \A v \in Values : shown[v] \in Docs => f[v] = shown[v]
  PROVE  /\ \A v \in Values : f[v] \in Docs /\ f[v] = shown[v]
         /\ \A k \in Nat : k <= ArrayDepth => \A v \in ValuesUpTo[k] : f[v] \in JsonUpTo[2 * k + 1]
  <1> DEFINE S == {k \in Nat : k <= ArrayDepth =>
                     \A v \in ValuesUpTo[k] : shown[v] \in JsonUpTo[2 * k + 1]}
  <1>1. 0 \in S
    <2> SUFFICES ASSUME 0 <= ArrayDepth, NEW v \in ValuesUpTo[0]
                 PROVE  shown[v] \in JsonUpTo[2 * 0 + 1]
      OBVIOUS
    <2>1. v \in Values \intersect ValueLevel(0, {}) BY ItemsAre, ValuesUpToIs
    <2>2. /\ JsonLevel({}) \subseteq JsonUpTo[2 * 0 + 1]
          /\ JsonLevel(JsonLevel({})) \subseteq JsonUpTo[2 * 0 + 1]
      BY TwoLevels
    <2>3. v.type = "array" => DOMAIN v.items = {} BY ItemsAre
    <2> QED BY <2>1, <2>2, <2>3 DEF StaysWithin
  <1>2. ASSUME NEW k \in Nat, k \in S PROVE k + 1 \in S
    <2> SUFFICES ASSUME k + 1 <= ArrayDepth, NEW v \in ValuesUpTo[k + 1]
                 PROVE  shown[v] \in JsonUpTo[2 * (k + 1) + 1]
      OBVIOUS
    <2>1. v \in Values \intersect ValueLevel(k + 1, ValuesUpTo[k]) BY ItemsAre, ValuesUpToIs
    <2>3. k <= ArrayDepth BY PropertyValueAssumption
    <2>4. ASSUME v.type = "array", NEW i \in DOMAIN v.items
          PROVE  f[v.items[i]] \in JsonUpTo[2 * k + 1]
      <3>1. v.items[i] \in ValuesUpTo[k] BY <2>4, ItemsAre
      <3>2. v.items[i] \in Values BY <2>3, <3>1, ItemsAre
      <3>3. shown[v.items[i]] \in JsonUpTo[2 * k + 1] BY <1>2, <2>3, <3>1
      <3>4. shown[v.items[i]] \in Docs BY <2>3, <3>3, DocsDeep
      <3> QED BY <3>2, <3>3, <3>4
    <2>5. k + 1 \in Nat OBVIOUS
    <2>6. /\ JsonLevel(JsonUpTo[2 * k + 1]) \subseteq JsonUpTo[2 * (k + 1) + 1]
          /\ JsonLevel(JsonLevel(JsonUpTo[2 * k + 1])) \subseteq JsonUpTo[2 * (k + 1) + 1]
      BY TwoLevels
    <2>7. v.type = "array" => \A i \in DOMAIN v.items : f[v.items[i]] \in JsonUpTo[2 * k + 1] BY <2>4
    <2> HIDE DEF S
    <2> QED BY <2>1, <2>5, <2>6, <2>7 DEF StaysWithin
  <1> HIDE DEF S
  <1>3. \A k \in Nat : k \in S BY <1>1, <1>2, Induction
  <1>4. \A v \in Values : shown[v] \in Docs
    BY <1>3, PropertyValueAssumption DEF S, Values, Docs
  <1>5. ASSUME NEW k \in Nat, k <= ArrayDepth, NEW v \in ValuesUpTo[k] PROVE f[v] \in JsonUpTo[2 * k + 1]
    <2>1. shown[v] \in JsonUpTo[2 * k + 1] BY <1>3, <1>5 DEF S
    <2>2. v \in Values BY <1>5, ItemsAre
    <2> QED BY <1>4, <2>1, <2>2
  <1> QED BY <1>4, <1>5

LEMMA WrittenStays ==
  ASSUME NEW f, NEW shown, \A v \in Values : shown[v] = WrittenBy(f, v)
  PROVE  StaysWithin(f, shown)
  <1> SUFFICES ASSUME NEW k \in Nat, NEW docs, NEW inner, NEW v \in Values, v \in ValueLevel(k, inner),
                      JsonLevel(docs) \subseteq JsonUpTo[2 * k + 1],
                      JsonLevel(JsonLevel(docs)) \subseteq JsonUpTo[2 * k + 1],
                      v.type = "array" => \A i \in DOMAIN v.items : f[v.items[i]] \in docs
               PROVE  WrittenBy(f, v) \in JsonUpTo[2 * k + 1]
    BY DEF StaysWithin
  <1>1. CASE v.type \notin {"json", "array"} /\ v \in PlainValues
    <2>1. WrittenBy(f, v) \in JsonUpTo[1] BY <1>1, PlainWritten DEF WrittenBy
    <2>2. 1 \in Nat /\ 2 * k + 1 \in Nat /\ 1 <= 2 * k + 1 OBVIOUS
    <2> QED BY <2>1, <2>2, JsonGrows
  <1>2. CASE v.type = "json" /\ v.doc \in JsonUpTo[2 * k + 1]
    BY <1>2 DEF WrittenBy, PlainToJson, TextTypes
  <1>3. CASE v.type = "array" /\ v.items \in Seq(inner)
    <2> DEFINE items == [i \in DOMAIN v.items |-> f[v.items[i]]]
    <2>1. items \in Seq(docs)
      <3>1. DOMAIN v.items = 1 .. Len(v.items) /\ Len(v.items) \in Nat BY <1>3
      <3>2. \A i \in DOMAIN v.items : f[v.items[i]] \in docs BY <1>3
      <3>3. items \in [1 .. Len(v.items) -> docs] BY <3>1, <3>2
      <3> QED BY <3>1, <3>3
    <2>2. WrittenBy(f, v) = Envelope("array", JArray(items)) BY <1>3 DEF WrittenBy
    <2> HIDE DEF items
    <2>3. JArray(items) \in JsonLevel(docs) BY <2>1 DEF JsonLevel, JArray
    <2>4. PlainJson \subseteq JsonLevel(docs) BY DEF JsonLevel
    <2>5. Envelope("array", JArray(items)) \in JsonLevel(JsonLevel(docs)) BY <2>3, <2>4, EnvelopeIn
    <2> QED BY <2>2, <2>5
  <1> QED BY <1>1, <1>2, <1>3, ValueIs

LEMMA ToJsonIs ==
  /\ \A v \in Values : ToJson[v] \in Docs /\ ToJson[v] = WrittenBy(ToJson, v)
  /\ \A k \in Nat : k <= ArrayDepth => \A v \in ValuesUpTo[k] : ToJson[v] \in JsonUpTo[2 * k + 1]
  <1> DEFINE body == [f \in [Values -> Docs] |-> [v \in Values |-> WrittenBy(f, v)]]
  <1>1. \A f \in [Values -> Docs] : \A v \in Values : body[f][v] = WrittenBy(f, v) OBVIOUS
  <1> HIDE DEF body
  <1>2. ByItems(body, Docs)
    <2> SUFFICES ASSUME NEW f \in [Values -> Docs], NEW g \in [Values -> Docs], NEW v \in Values,
                        v.type = "array" => \A i \in DOMAIN v.items : f[v.items[i]] = g[v.items[i]]
                 PROVE  body[f][v] = body[g][v]
      BY DEF ByItems
    <2>1. WrittenBy(f, v) = WrittenBy(g, v) BY DEF WrittenBy
    <2> QED BY <1>1, <2>1
  <1>3. JNull \in Docs BY PlainJsonIn, PlainIsDoc
  <1>4. PICK f \in [Values -> Docs] : \A v \in Values : body[f][v] \in Docs => f[v] = body[f][v]
    BY <1>2, <1>3, SolvedWithin
  <1>5. \A v \in Values : f[v] = WrittenBy(f, v)
    <2>1. StaysWithin(f, body[f]) BY <1>1, WrittenStays
    <2> QED BY <1>1, <1>4, <2>1, WritingCloses
  <1>6. f = [v \in Values |-> WrittenBy(f, v)] BY <1>5
  <1>7. ToJson = [v \in Values |-> WrittenBy(ToJson, v)] BY <1>6 DEF ToJson, WrittenBy
  <1>8. \A v \in Values : ToJson[v] = WrittenBy(ToJson, v) BY <1>7
  <1>9. StaysWithin(ToJson, ToJson) BY <1>8, WrittenStays
  <1> QED BY <1>8, <1>9, WritingCloses

LEMMA NearestIs == \A units \in Int : Nearest(units) \in Doubles
  <1> SUFFICES ASSUME NEW units \in Int PROVE Nearest(units) \in Doubles OBVIOUS
  <1> DEFINE distance(f) == Magnitude(f - units)
             close == {f \in Doubles : \A g \in Doubles : distance(f) <= distance(g)}
             even(f) == Cardinality({g \in Doubles : 0 <= g /\ g < Magnitude(f)}) % 2 = 0
             T == {distance(f) : f \in Doubles}
  <1>1. Doubles \subseteq Int /\ 0 \in Doubles BY PropertyValueAssumption
  <1>2. T \subseteq Nat
    <2>1. \A f \in Doubles : distance(f) \in Nat BY <1>1 DEF Magnitude
    <2> QED BY <2>1
  <1>3. PICK x \in T : \A y \in T : x <= y BY <1>1, <1>2, LeastNatural
  <1>4. PICK f \in Doubles : distance(f) = x BY <1>3
  <1>5. f \in close BY <1>3, <1>4
  <1>6. Nearest(units) = CHOOSE g \in close : even(g) \/ \A h \in close : ~even(h) BY DEF Nearest
  <1> HIDE DEF even, distance
  <1>7. \E g \in close : even(g) \/ \A h \in close : ~even(h) BY <1>5
  <1> HIDE DEF close
  <1>8. Nearest(units) \in close BY <1>6, <1>7
  <1> QED BY <1>8 DEF close

ReadBy(f, doc) ==
  IF IsTypedArray(doc)
  THEN ArrayOf([i \in DOMAIN TypedItems(doc) |-> f[TypedItems(doc)[i]]])
  ELSE PlainFromJson(doc)

LEMMA PlainValuesAre ==
  /\ Null \in PlainValues /\ Null # NaN
  /\ \A n \in One({0, 1}) : Value("bool", n) \in PlainValues \ {NaN}
  /\ \A n \in One(LongRange) : Value("long", n) \in PlainValues \ {NaN}
  /\ \A n \in One(Int32Range) : Value("int32", n) \in PlainValues \ {NaN}
  /\ \A n \in One(Int16Range) : Value("int16", n) \in PlainValues \ {NaN}
  /\ \A n \in One(Doubles) : Value("float", n) \in PlainValues \ {NaN}
  /\ \A type \in TextTypes : \A n \in Payload[type] : Value(type, n) \in PlainValues \ {NaN}
  /\ \A text \in Texts : Text(text) \in PlainValues \ {NaN}
  <1>1. \A type, N : \A n \in N : Value(type, n) \in ValuesAs(type, N) BY DEF ValuesAs, Value
  <1>2. \A type, n : (type # "float" \/ 1 \in DOMAIN n) => Value(type, n) # NaN BY DEF NaN, Value
  <1>3. \A S : \A n \in One(S) : 1 \in DOMAIN n BY DEF One
  <1>4. Null \in PlainValues /\ Null # NaN BY DEF PlainValues, Null, NaN, Value
  <1>5. \A n \in One({0, 1}) : Value("bool", n) \in PlainValues BY <1>1 DEF PlainValues
  <1>6. \A n \in One(LongRange) : Value("long", n) \in PlainValues BY <1>1 DEF PlainValues
  <1>7. \A n \in One(Int32Range) : Value("int32", n) \in PlainValues BY <1>1 DEF PlainValues
  <1>8. \A n \in One(Int16Range) : Value("int16", n) \in PlainValues BY <1>1 DEF PlainValues
  <1>9. \A n \in One(Doubles) : Value("float", n) \in PlainValues BY <1>1 DEF PlainValues
  <1>10. ASSUME NEW type \in TextTypes, NEW n \in Payload[type] PROVE Value(type, n) \in PlainValues
    <2>1. Value(type, n) \in ValuesAs(type, Payload[type]) BY <1>1
    <2> QED BY <2>1 DEF PlainValues, TextTypes
  <1>11. ASSUME NEW text \in Texts PROVE Text(text) \in PlainValues /\ Text(text) # NaN
    <2>1. Text(text) \in [type : {"text"}, text : Texts] BY DEF Text
    <2> QED BY <2>1 DEF PlainValues, NaN, Value, Text
  <1>12. \A type \in TextTypes : type # "float" BY DEF TextTypes
  <1> QED BY <1>2, <1>3, <1>4, <1>5, <1>6, <1>7, <1>8, <1>9, <1>10, <1>11, <1>12

LEMMA TextsHold ==
  ASSUME NEW text \in Texts, text.as \in TextTypes
  PROVE  text.n \in Payload[text.as]
  BY DEF Texts, TextsAs, TextTypes

\* What the envelope of an object in a document holds.
LEMMA EnvelopeReads ==
  ASSUME NEW inner, inner \subseteq JsonLevel(inner), NEW members \in [MemberKeys -> inner \union {None}],
         FromEnvelope(members) # None
  PROVE  FromEnvelope(members) \in PlainValues \ {NaN}
  <1> DEFINE payload == members[Val]
             type == TypeOf(members)
  <1>1. payload \in JsonLevel(inner) /\ IsEnvelope(members)
    <2>1. IsEnvelope(members) BY DEF FromEnvelope
    <2>2. payload \in inner BY <2>1, PropertyValueAssumption DEF IsEnvelope, HasTag
    <2> QED BY <2>1, <2>2
  <1>2. CASE type = "int32" /\ payload.json = "integer" /\ payload.n[1] \in Int32Range
    <2>1. payload.n \in One(Int) BY <1>1, <1>2, DocIs DEF JNull
    <2>2. payload.n \in One(Int32Range) BY <1>2, <2>1 DEF One
    <2>3. FromEnvelope(members) = Value("int32", payload.n) BY <1>1, <1>2 DEF FromEnvelope
    <2> QED BY <2>2, <2>3, PlainValuesAre
  <1>3. CASE type = "int16" /\ payload.json = "integer" /\ payload.n[1] \in Int16Range
    <2>1. payload.n \in One(Int) BY <1>1, <1>3, DocIs DEF JNull
    <2>2. payload.n \in One(Int16Range) BY <1>3, <2>1 DEF One
    <2>3. FromEnvelope(members) = Value("int16", payload.n) BY <1>1, <1>3 DEF FromEnvelope
    <2> QED BY <2>2, <2>3, PlainValuesAre
  <1>4. CASE /\ ~(type = "int32" /\ payload.json = "integer" /\ payload.n[1] \in Int32Range)
             /\ ~(type = "int16" /\ payload.json = "integer" /\ payload.n[1] \in Int16Range)
    <2>1. /\ type \in TextTypes /\ payload.json = "string" /\ payload.text.as = type
          /\ FromEnvelope(members) = Value(type, payload.text.n)
      BY <1>1, <1>4 DEF FromEnvelope
    <2>2. payload.text \in Texts BY <1>1, <2>1, DocIs DEF JNull
    <2>3. payload.text.n \in Payload[type] BY <2>1, <2>2, TextsHold
    <2> QED BY <2>1, <2>3, PlainValuesAre
  <1> QED BY <1>2, <1>3, <1>4

\* A document that is no typed array reads as a plain value or as itself.
LEMMA PlainReads ==
  ASSUME NEW inner, inner \subseteq JsonLevel(inner), NEW doc \in JsonLevel(inner)
  PROVE  PlainFromJson(doc) = Json(doc) \/ PlainFromJson(doc) \in PlainValues \ {NaN}
  <1>1. CASE doc = JNull BY <1>1, PlainValuesAre DEF PlainFromJson, JNull
  <1>2. CASE doc.json = "bool" /\ doc.n \in One({0, 1}) BY <1>2, PlainValuesAre DEF PlainFromJson
  <1>3. CASE doc.json = "integer" /\ doc.n \in One(Int)
    <2>1. CASE doc.n[1] \in LongRange
      <3>1. doc.n \in One(LongRange) BY <1>3, <2>1 DEF One
      <3> QED BY <1>3, <2>1, <3>1, PlainValuesAre DEF PlainFromJson
    <2>2. CASE doc.n[1] \notin LongRange
      <3>1. doc.n[1] \in Int /\ Unit \in Int BY <1>3, DecimalAssumption, TenIs DEF One, Unit
      <3>2. \A a, b \in Int : a * b \in Int OBVIOUS
      <3>3. Unit * doc.n[1] \in Int BY <3>1, <3>2
      <3>4. Nearest(Unit * doc.n[1]) \in Doubles BY <3>3, NearestIs
      <3>5. <<Nearest(Unit * doc.n[1])>> \in One(Doubles) BY <3>4 DEF One
      <3>6. PlainFromJson(doc) = Value("float", <<Nearest(Unit * doc.n[1])>>)
        BY <1>3, <2>2 DEF PlainFromJson
      <3> QED BY <3>5, <3>6, PlainValuesAre
    <2> QED BY <2>1, <2>2
  <1>4. CASE doc.json = "real" /\ doc.n \in One(Doubles) BY <1>4, PlainValuesAre DEF PlainFromJson
  <1>5. CASE doc.json = "string" /\ doc.text \in Texts BY <1>5, PlainValuesAre DEF PlainFromJson
  <1>6. CASE doc.json = "array" BY <1>6 DEF PlainFromJson
  <1>7. CASE doc.json = "object" /\ doc.members \in [MemberKeys -> inner \union {None}]
    <2>1. PlainFromJson(doc) = IF FromEnvelope(doc.members) = None THEN Json(doc)
                               ELSE FromEnvelope(doc.members)
      BY <1>7 DEF PlainFromJson
    <2> QED BY <1>7, <2>1, EnvelopeReads
  <1> QED BY <1>1, <1>2, <1>3, <1>4, <1>5, <1>6, <1>7, DocIs

LEMMA DocsRead ==
  ASSUME NEW k \in Nat, NEW doc \in JsonUpTo[2 * k + 1]
  PROVE  PlainFromJson(doc) = Json(doc) \/ PlainFromJson(doc) \in PlainValues \ {NaN}
  <1>1. 2 * k \in Nat /\ 2 * k <= 2 * k + 1 /\ 2 * k + 1 \in Nat OBVIOUS
  <1>2. JsonUpTo[2 * k + 1] = JsonLevel(JsonUpTo[2 * k]) BY <1>1, JsonUpToIs
  <1>3. JsonUpTo[2 * k] \subseteq JsonUpTo[2 * k + 1] BY <1>1, JsonGrows
  <1> QED BY <1>2, <1>3, PlainReads

LEMMA ReadingCloses ==
  ASSUME NEW f, \A doc \in Docs : ReadBy(f, doc) \in Values => f[doc] = ReadBy(f, doc)
  PROVE  \A doc \in Docs : f[doc] \in Values /\ f[doc] = ReadBy(f, doc)
  <1>1. ASSUME NEW k \in Nat, NEW inner, NEW doc \in JsonUpTo[2 * k + 1],
               IsTypedArray(doc) =>
                 \E n \in Nat : /\ DOMAIN TypedItems(doc) = 1 .. n
                               /\ \A i \in 1 .. n : f[TypedItems(doc)[i]] \in inner
        PROVE  ReadBy(f, doc) \in ValueLevel(k, inner)
    <2>1. CASE IsTypedArray(doc)
      <3>1. PICK n \in Nat : /\ DOMAIN TypedItems(doc) = 1 .. n
                            /\ \A i \in 1 .. n : f[TypedItems(doc)[i]] \in inner
        BY <1>1, <2>1
      <3> DEFINE items == [i \in DOMAIN TypedItems(doc) |-> f[TypedItems(doc)[i]]]
      <3>2. items \in [1 .. n -> inner] BY <3>1
      <3>3. ReadBy(f, doc) = ArrayOf(items) BY <2>1 DEF ReadBy
      <3> HIDE DEF items
      <3>4. items \in Seq(inner) BY <3>2
      <3> QED BY <3>3, <3>4 DEF ValueLevel, ArrayOf
    <2>2. CASE ~IsTypedArray(doc)
      <3>1. ReadBy(f, doc) = PlainFromJson(doc) BY <2>2 DEF ReadBy
      <3>2. PlainFromJson(doc) = Json(doc) \/ PlainFromJson(doc) \in PlainValues BY DocsRead
      <3> QED BY <3>1, <3>2 DEF ValueLevel, Json
    <2> QED BY <2>1, <2>2
  <1> DEFINE S == {k \in Nat : k <= ArrayDepth =>
                     \A doc \in JsonUpTo[2 * k + 1] : ReadBy(f, doc) \in ValuesUpTo[k]}
  <1>2. 0 \in S
    <2> SUFFICES ASSUME 0 <= ArrayDepth, NEW doc \in JsonUpTo[2 * 0 + 1]
                 PROVE  ReadBy(f, doc) \in ValuesUpTo[0]
      OBVIOUS
    <2>0. JsonUpTo[1] = JsonUpTo[2 * 0 + 1]
      <3>1. 2 * 0 + 1 = 1 OBVIOUS
      <3> QED BY <3>1
    <2>1. IsTypedArray(doc) => DOMAIN TypedItems(doc) = 1 .. 0 BY <2>0, DocsDeep
    <2>2. ReadBy(f, doc) \in ValueLevel(0, {}) BY <1>1, <2>1
    <2> QED BY <2>2, ValuesUpToIs
  <1>3. ASSUME NEW k \in Nat, k \in S PROVE k + 1 \in S
    <2> SUFFICES ASSUME k + 1 <= ArrayDepth, NEW doc \in JsonUpTo[2 * (k + 1) + 1]
                 PROVE  ReadBy(f, doc) \in ValuesUpTo[k + 1]
      OBVIOUS
    <2>1. k <= ArrayDepth BY PropertyValueAssumption
    <2>2. ASSUME IsTypedArray(doc)
          PROVE  \E n \in Nat : /\ DOMAIN TypedItems(doc) = 1 .. n
                               /\ \A i \in 1 .. n : f[TypedItems(doc)[i]] \in ValuesUpTo[k]
      <3>1. TypedItems(doc) \in Seq(JsonUpTo[2 * k + 1]) BY <2>2, DocsDeep
      <3>2. PICK n \in Nat : /\ DOMAIN TypedItems(doc) = 1 .. n
                            /\ \A i \in 1 .. n : TypedItems(doc)[i] \in JsonUpTo[2 * k + 1]
        BY <3>1
      <3>3. ASSUME NEW i \in 1 .. n PROVE f[TypedItems(doc)[i]] \in ValuesUpTo[k]
        <4> DEFINE item == TypedItems(doc)[i]
        <4>1. item \in JsonUpTo[2 * k + 1] BY <3>2
        <4>2. item \in Docs BY <2>1, <4>1, DocsDeep
        <4>3. ReadBy(f, item) \in ValuesUpTo[k] BY <1>3, <2>1, <4>1
        <4>4. ReadBy(f, item) \in Values BY <2>1, <4>3, ItemsAre
        <4> QED BY <4>2, <4>3, <4>4
      <3> QED BY <3>2, <3>3
    <2>3. ReadBy(f, doc) \in ValueLevel(k + 1, ValuesUpTo[k]) BY <1>1, <2>2
    <2> QED BY <2>3, ValuesUpToIs
  <1> HIDE DEF S
  <1>4. \A k \in Nat : k \in S BY <1>2, <1>3, Induction
  <1>5. \A doc \in Docs : ReadBy(f, doc) \in Values
    BY <1>4, PropertyValueAssumption DEF S, Values, Docs
  <1> QED BY <1>5

LEMMA FromJsonIs == \A doc \in Docs : FromJson[doc] \in Values /\ FromJson[doc] = ReadBy(FromJson, doc)
  <1> DEFINE body == [f \in [Docs -> Values] |-> [doc \in Docs |-> ReadBy(f, doc)]]
  <1>1. \A f \in [Docs -> Values] : \A doc \in Docs : body[f][doc] = ReadBy(f, doc) OBVIOUS
  <1> HIDE DEF body
  <1>2. ByTypedItems(body, Values)
    <2> SUFFICES ASSUME NEW f \in [Docs -> Values], NEW g \in [Docs -> Values], NEW doc \in Docs,
                        IsTypedArray(doc) => \A i \in DOMAIN TypedItems(doc) :
                                               f[TypedItems(doc)[i]] = g[TypedItems(doc)[i]]
                 PROVE  body[f][doc] = body[g][doc]
      BY DEF ByTypedItems
    <2>1. ReadBy(f, doc) = ReadBy(g, doc) BY DEF ReadBy
    <2> QED BY <1>1, <2>1
  <1>3. Null \in Values BY PlainValuesAre, PlainIsValue
  <1>4. PICK f \in [Docs -> Values] : \A doc \in Docs : body[f][doc] \in Values => f[doc] = body[f][doc]
    BY <1>2, <1>3, ReadWithin
  <1>5. \A doc \in Docs : f[doc] = ReadBy(f, doc)
    <2>1. \A doc \in Docs : ReadBy(f, doc) \in Values => f[doc] = ReadBy(f, doc) BY <1>1, <1>4
    <2> QED BY <2>1, ReadingCloses
  <1>6. f = [doc \in Docs |-> ReadBy(f, doc)] BY <1>5
  <1>7. FromJson = [doc \in Docs |-> ReadBy(FromJson, doc)] BY <1>6 DEF FromJson, ReadBy, TypedItems
  <1>8. \A doc \in Docs : FromJson[doc] = ReadBy(FromJson, doc) BY <1>7
  <1> QED BY <1>8, ReadingCloses

ShownBy(f, v) ==
  CASE v.type \in {"int32", "int16"} -> JInteger(v.n[1])
    [] v.type \in TextTypes          -> JString(PayloadText(v))
    [] v.type = "array"              -> JArray([i \in DOMAIN v.items |-> f[v.items[i]]])
    [] OTHER                         -> PlainToJson(v)

LEMMA PlainShown ==
  ASSUME NEW f, NEW v \in PlainValues
  PROVE  ShownBy(f, v) \in JsonUpTo[1]
  <1>1. PlainJson \subseteq JsonUpTo[1]
    <2>1. 0 + 1 = 1 OBVIOUS
    <2> QED BY <2>1, JsonUpToIs DEF JsonLevel
  <1>2. CASE v.type \in {"int32", "int16"}
    <2>1. v.n \in One(LongRange)
      BY <1>2, PlainIs DEF Null, NaN, Value, Text, TextTypes, IntegralTypes
    <2>2. v.n[1] \in LongRange BY <2>1 DEF One
    <2>3. JInteger(v.n[1]) \in PlainJson BY <2>2, LongsAre, PlainJsonIn
    <2> QED BY <1>1, <1>2, <2>3 DEF ShownBy, TextTypes
  <1>3. CASE v.type \in TextTypes
    <2>1. v.n \in Payload[v.type]
      BY <1>3, PlainIs DEF Null, NaN, Value, Text, TextTypes, IntegralTypes
    <2>2. JString(PayloadText(v)) \in PlainJson BY <1>3, <2>1, PayloadTexts, PlainJsonIn
    <2> QED BY <1>1, <1>3, <2>2 DEF ShownBy, TextTypes
  <1>4. CASE v.type \notin TextTypes \union {"int32", "int16"}
    <2>1. v.type # "array" BY PlainIs DEF Null, NaN, Value, Text, TextTypes, IntegralTypes
    <2> QED BY <1>4, <2>1, PlainWritten DEF ShownBy
  <1> QED BY <1>2, <1>3, <1>4

LEMMA ShownStays ==
  ASSUME NEW f, NEW shown, \A v \in Values : shown[v] = ShownBy(f, v)
  PROVE  StaysWithin(f, shown)
  <1> SUFFICES ASSUME NEW k \in Nat, NEW docs, NEW inner, NEW v \in Values, v \in ValueLevel(k, inner),
                      JsonLevel(docs) \subseteq JsonUpTo[2 * k + 1],
                      JsonLevel(JsonLevel(docs)) \subseteq JsonUpTo[2 * k + 1],
                      v.type = "array" => \A i \in DOMAIN v.items : f[v.items[i]] \in docs
               PROVE  ShownBy(f, v) \in JsonUpTo[2 * k + 1]
    BY DEF StaysWithin
  <1>1. CASE v.type \notin {"json", "array"} /\ v \in PlainValues
    <2>1. ShownBy(f, v) \in JsonUpTo[1] BY <1>1, PlainShown
    <2>2. 1 \in Nat /\ 2 * k + 1 \in Nat /\ 1 <= 2 * k + 1 OBVIOUS
    <2> QED BY <2>1, <2>2, JsonGrows
  <1>2. CASE v.type = "json" /\ v.doc \in JsonUpTo[2 * k + 1]
    BY <1>2 DEF ShownBy, PlainToJson, TextTypes
  <1>3. CASE v.type = "array" /\ v.items \in Seq(inner)
    <2> DEFINE items == [i \in DOMAIN v.items |-> f[v.items[i]]]
    <2>1. items \in Seq(docs)
      <3>1. DOMAIN v.items = 1 .. Len(v.items) /\ Len(v.items) \in Nat BY <1>3
      <3>2. \A i \in DOMAIN v.items : f[v.items[i]] \in docs BY <1>3
      <3>3. items \in [1 .. Len(v.items) -> docs] BY <3>1, <3>2
      <3> QED BY <3>1, <3>3
    <2>2. ShownBy(f, v) = JArray(items) BY <1>3 DEF ShownBy, TextTypes
    <2> HIDE DEF items
    <2>3. JArray(items) \in JsonLevel(docs) BY <2>1 DEF JsonLevel, JArray
    <2> QED BY <2>2, <2>3
  <1> QED BY <1>1, <1>2, <1>3, ValueIs

LEMMA ToCompatJsonIs == \A v \in Values : ToCompatJson[v] \in Docs /\ ToCompatJson[v] = ShownBy(ToCompatJson, v)
  <1> DEFINE body == [f \in [Values -> Docs] |-> [v \in Values |-> ShownBy(f, v)]]
  <1>1. \A f \in [Values -> Docs] : \A v \in Values : body[f][v] = ShownBy(f, v) OBVIOUS
  <1> HIDE DEF body
  <1>2. ByItems(body, Docs)
    <2> SUFFICES ASSUME NEW f \in [Values -> Docs], NEW g \in [Values -> Docs], NEW v \in Values,
                        v.type = "array" => \A i \in DOMAIN v.items : f[v.items[i]] = g[v.items[i]]
                 PROVE  body[f][v] = body[g][v]
      BY DEF ByItems
    <2>1. ShownBy(f, v) = ShownBy(g, v) BY DEF ShownBy
    <2> QED BY <1>1, <2>1
  <1>3. JNull \in Docs BY PlainJsonIn, PlainIsDoc
  <1>4. PICK f \in [Values -> Docs] : \A v \in Values : body[f][v] \in Docs => f[v] = body[f][v]
    BY <1>2, <1>3, SolvedWithin
  <1>5. \A v \in Values : f[v] = ShownBy(f, v)
    <2>1. StaysWithin(f, body[f]) BY <1>1, ShownStays
    <2> QED BY <1>1, <1>4, <2>1, WritingCloses
  <1>6. f = [v \in Values |-> ShownBy(f, v)] BY <1>5
  <1>7. ToCompatJson = [v \in Values |-> ShownBy(ToCompatJson, v)] BY <1>6 DEF ToCompatJson, ShownBy
  <1>8. \A v \in Values : ToCompatJson[v] = ShownBy(ToCompatJson, v) BY <1>7
  <1>9. StaysWithin(ToCompatJson, ToCompatJson) BY <1>8, ShownStays
  <1> QED BY <1>8, <1>9, WritingCloses

-------------------------------------------------------------------------------
\* Out and back

LEMMA ArrayWritten ==
  ASSUME NEW v \in Values, v.type = "array"
  PROVE  JArray([i \in DOMAIN v.items |-> ToJson[v.items[i]]]) \in Docs
  <1> DEFINE items == [i \in DOMAIN v.items |-> ToJson[v.items[i]]]
  <1>0. ArrayDepth \in Nat BY PropertyValueAssumption
  <1>1. v.items \in Seq(Values) BY ItemsAre
  <1>2. DOMAIN items = 1 .. Len(v.items) /\ Len(v.items) \in Nat BY <1>1
  <1>3. CASE ArrayDepth = 0
    <2>1. DOMAIN v.items = {} BY <1>3, ItemsAre DEF Values
    <2>2. items \in Seq({}) BY <1>2, <2>1
    <2>3. JArray(items) \in JsonLevel({}) BY <2>2 DEF JsonLevel, JArray
    <2>4. JArray(items) \in JsonUpTo[2 * 0 + 1] BY <2>3, TwoLevels
    <2> QED BY <1>3, <2>4 DEF Docs
  <1>4. CASE ArrayDepth # 0
    <2> DEFINE k == ArrayDepth - 1
    <2>1. k \in Nat /\ k + 1 = ArrayDepth /\ k <= ArrayDepth BY <1>0, <1>4
    <2> HIDE DEF k
    <2>2. v.items \in Seq(ValuesUpTo[k]) BY <2>1, ItemsAre DEF Values
    <2>3. \A i \in DOMAIN v.items : ToJson[v.items[i]] \in JsonUpTo[2 * k + 1] BY <2>1, <2>2, ToJsonIs
    <2>4. items \in [1 .. Len(v.items) -> JsonUpTo[2 * k + 1]] BY <1>2, <2>3
    <2>5. items \in Seq(JsonUpTo[2 * k + 1]) BY <1>2, <2>4
    <2> HIDE DEF items
    <2>6. JArray(items) \in JsonLevel(JsonUpTo[2 * k + 1]) BY <2>5 DEF JsonLevel, JArray
    <2>7. JArray(items) \in JsonUpTo[2 * (k + 1) + 1] BY <2>1, <2>6, TwoLevels
    <2> QED BY <2>1, <2>7 DEF Docs, items
  <1> QED BY <1>3, <1>4

LEMMA EnvelopeTells ==
  ASSUME NEW type \in TextTypes \union {"int32", "int16", "array"}, NEW payload \in Docs
  PROVE  /\ IsEnvelope(Envelope(type, payload).members)
         /\ TypeOf(Envelope(type, payload).members) = type
         /\ Envelope(type, payload).members[Val] = payload
  <1> DEFINE members == Envelope(type, payload).members
  <1>1. members[Tag] = JString(TagText(type)) /\ members[Val] = payload
        /\ \A key \in MemberKeys \ {Tag, Val} : members[key] = None
    BY EnvelopeIs
  <1> HIDE DEF members
  <1>2. JString(TagText(type)) \in PlainJson BY TextsAre, PlainJsonIn
  <1>3. PlainJson \subseteq Docs BY PlainIsDoc
  <1>4. members[Tag] # None /\ members[Val] # None BY <1>1, <1>2, <1>3, PropertyValueAssumption
  <1>5. members[Tag].json = "string" /\ members[Tag].text.as = "tag" /\ members[Tag].text.type = type
    BY <1>1 DEF JString, TagText
  <1>6. IsEnvelope(members) /\ TypeOf(members) = type
    BY <1>1, <1>4, <1>5 DEF IsEnvelope, HasTag, TypeOf
  <1> QED BY <1>1, <1>6 DEF members

Stable(x) ==
  /\ x # NaN
  /\ x.type = "time" => x.n[2] % 10 = 0
  /\ x.type = "json" => FromJson[x.doc] = x

LEMMA OnesAre == \A S : \A n \in One(S) : n[1] \in S /\ n = <<n[1]>>
  BY DEF One

LEMMA IntegerReads ==
  ASSUME NEW type \in {"int32", "int16"}, NEW i \in Int,
         type = "int32" => i \in Int32Range, type = "int16" => i \in Int16Range
  PROVE  FromJson[Envelope(type, JInteger(i))] = Value(type, <<i>>)
  <1> DEFINE doc == Envelope(type, JInteger(i))
  <1>1. JInteger(i) \in Docs BY PlainJsonIn, PlainIsDoc
  <1>2. IsEnvelope(doc.members) /\ TypeOf(doc.members) = type /\ doc.members[Val] = JInteger(i)
    BY <1>1, EnvelopeTells
  <1>3. doc \in Docs /\ doc.json = "object"
    <2>1. JInteger(i) \in JsonUpTo[0] BY PlainJsonIn, JsonUpToIs DEF JsonLevel
    <2>2. PlainJson \subseteq JsonUpTo[0] BY JsonUpToIs DEF JsonLevel
    <2>3. doc \in JsonLevel(JsonUpTo[0]) BY <2>1, <2>2, EnvelopeIn
    <2> QED BY <2>3, ShallowIsDoc, EnvelopeIs
  <1> HIDE DEF doc
  <1>4. ~IsTypedArray(doc) BY <1>2 DEF IsTypedArray
  <1>5. FromEnvelope(doc.members) = Value(type, <<i>>)
    BY <1>2 DEF FromEnvelope, JInteger
  <1>6. Value(type, <<i>>) # None
    <2>1. Value(type, <<i>>) \in PlainValues
      <3>1. CASE type = "int32"
        <4>1. <<i>> \in One(Int32Range) BY <3>1 DEF One
        <4> QED BY <3>1, <4>1, PlainValuesAre
      <3>2. CASE type = "int16"
        <4>1. <<i>> \in One(Int16Range) BY <3>2 DEF One
        <4> QED BY <3>2, <4>1, PlainValuesAre
      <3> QED BY <3>1, <3>2
    <2> QED BY <2>1, PlainIsValue, PropertyValueAssumption
  <1>7. FromJson[doc] = PlainFromJson(doc) BY <1>3, <1>4, FromJsonIs DEF ReadBy
  <1>8. PlainFromJson(doc) = FromEnvelope(doc.members) BY <1>3, <1>5, <1>6 DEF PlainFromJson
  <1> QED BY <1>5, <1>7, <1>8 DEF doc

LEMMA TextReads ==
  ASSUME NEW type \in TextTypes, NEW text \in Texts, text.as = type
  PROVE  FromJson[Envelope(type, JString(text))] = Value(type, text.n)
  <1> DEFINE doc == Envelope(type, JString(text))
  <1>1. JString(text) \in PlainJson /\ JString(text) \in Docs BY PlainJsonIn, PlainIsDoc
  <1>2. IsEnvelope(doc.members) /\ TypeOf(doc.members) = type /\ doc.members[Val] = JString(text)
    BY <1>1, EnvelopeTells
  <1>3. doc \in Docs /\ doc.json = "object"
    <2>1. PlainJson \subseteq JsonUpTo[0] BY JsonUpToIs DEF JsonLevel
    <2>2. doc \in JsonLevel(JsonUpTo[0]) BY <1>1, <2>1, EnvelopeIn
    <2> QED BY <2>2, ShallowIsDoc, EnvelopeIs
  <1> HIDE DEF doc
  <1>4. ~IsTypedArray(doc) BY <1>2 DEF IsTypedArray, TextTypes
  <1>5. FromEnvelope(doc.members) = Value(type, text.n)
    <2>1. doc.members[Val].json = "string" /\ doc.members[Val].text = text BY <1>2 DEF JString
    <2>2. type \notin {"int32", "int16"} BY DEF TextTypes
    <2> QED BY <1>2, <2>1, <2>2 DEF FromEnvelope
  <1>6. Value(type, text.n) # None
    <2>1. text.n \in Payload[type] BY TextsHold
    <2> QED BY <2>1, PlainValuesAre, PlainIsValue, PropertyValueAssumption
  <1>7. FromJson[doc] = PlainFromJson(doc) BY <1>3, <1>4, FromJsonIs DEF ReadBy
  <1>8. PlainFromJson(doc) = FromEnvelope(doc.members) BY <1>3, <1>5, <1>6 DEF PlainFromJson
  <1> QED BY <1>5, <1>7, <1>8 DEF doc

\* How the scalars read.
LEMMA ScalarsRead ==
  /\ FromJson[JNull] = Null
  /\ \A b \in {0, 1} : FromJson[JBool(b)] = Value("bool", <<b>>)
  /\ \A i \in LongRange : FromJson[JInteger(i)] = Value("long", <<i>>)
  /\ \A x \in Doubles : FromJson[JReal(x)] = Value("float", <<x>>)
  /\ \A text \in Texts : FromJson[JString(text)] = Text(text)
  <1>1. ASSUME NEW doc \in PlainJson, doc.json # "object" PROVE FromJson[doc] = PlainFromJson(doc)
    BY <1>1, FromJsonIs, PlainIsDoc DEF ReadBy, IsTypedArray
  <1>2. FromJson[JNull] = Null BY <1>1, PlainJsonIn DEF PlainFromJson, JNull
  <1>3. ASSUME NEW b \in {0, 1} PROVE FromJson[JBool(b)] = Value("bool", <<b>>)
    BY <1>1, PlainJsonIn DEF PlainFromJson, JBool
  <1>4. ASSUME NEW i \in LongRange PROVE FromJson[JInteger(i)] = Value("long", <<i>>)
    <2>1. i \in Int BY LongsAre
    <2>2. JInteger(i) \in PlainJson BY <2>1, PlainJsonIn
    <2> QED BY <1>1, <2>2 DEF PlainFromJson, JInteger
  <1>5. ASSUME NEW x \in Doubles PROVE FromJson[JReal(x)] = Value("float", <<x>>)
    BY <1>1, PlainJsonIn DEF PlainFromJson, JReal
  <1>6. ASSUME NEW text \in Texts PROVE FromJson[JString(text)] = Text(text)
    BY <1>1, PlainJsonIn DEF PlainFromJson, JString
  <1> QED BY <1>2, <1>3, <1>4, <1>5, <1>6

LEMMA PlainTrip ==
  ASSUME NEW v \in PlainValues, v # NaN, v.type = "time" => v.n[2] % 10 = 0
  PROVE  FromJson[PlainToJson(v)] = v
  <1>1. CASE v = Null BY <1>1, ScalarsRead DEF PlainToJson, Null, TextTypes
  <1>2. CASE v.type = "bool" /\ v.n \in One({0, 1}) /\ v = Value("bool", v.n)
    <2>1. PlainToJson(v) = JBool(v.n[1]) BY <1>2 DEF PlainToJson, TextTypes
    <2> QED BY <1>2, <2>1, ScalarsRead, OnesAre
  <1>3. CASE v.type = "long" /\ v.n \in One(LongRange) /\ v = Value("long", v.n)
    <2>1. PlainToJson(v) = JInteger(v.n[1]) BY <1>3 DEF PlainToJson, TextTypes
    <2> QED BY <1>3, <2>1, ScalarsRead, OnesAre
  <1>4. CASE /\ v.type \in {"int32", "int16"} /\ v.n \in One(LongRange) /\ v = Value(v.type, v.n)
             /\ v.type = "int32" => v.n[1] \in Int32Range
             /\ v.type = "int16" => v.n[1] \in Int16Range
    <2>1. PlainToJson(v) = Envelope(v.type, JInteger(v.n[1])) BY <1>4 DEF PlainToJson, TextTypes
    <2>2. v.n[1] \in LongRange /\ v.n = <<v.n[1]>> BY <1>4, OnesAre
    <2>3. v.n[1] \in Int BY <2>2, LongsAre
    <2>4. FromJson[Envelope(v.type, JInteger(v.n[1]))] = Value(v.type, <<v.n[1]>>)
      BY <1>4, <2>3, IntegerReads
    <2> QED BY <1>4, <2>1, <2>2, <2>4
  <1>5. CASE v.type = "float" /\ v.n \in One(Doubles) /\ v = Value("float", v.n)
    <2>1. PlainToJson(v) = JReal(v.n[1]) BY <1>5 DEF PlainToJson, TextTypes
    <2> QED BY <1>5, <2>1, ScalarsRead, OnesAre
  <1>6. CASE v.type \in TextTypes /\ v.n \in Payload[v.type] /\ v = Value(v.type, v.n)
    <2>1. PlainToJson(v) = Envelope(v.type, JString(PayloadText(v)))
      BY <1>6 DEF PlainToJson, TextTypes
    <2>2. PayloadText(v) \in Texts /\ PayloadText(v).as = v.type /\ PayloadText(v).n = v.n
      BY <1>6, PayloadTexts
    <2>3. FromJson[Envelope(v.type, JString(PayloadText(v)))] = Value(v.type, PayloadText(v).n)
      BY <1>6, <2>2, TextReads
    <2> QED BY <1>6, <2>1, <2>2, <2>3
  <1>7. CASE v.type = "text" /\ v.text \in Texts /\ v = Text(v.text)
    <2>1. PlainToJson(v) = JString(v.text) BY <1>7 DEF PlainToJson, TextTypes
    <2> QED BY <1>7, <2>1, ScalarsRead
  <1> QED BY <1>1, <1>2, <1>3, <1>4, <1>5, <1>6, <1>7, PlainIs DEF IntegralTypes

LEMMA TypedArrayReads ==
  ASSUME NEW n \in Nat, NEW items, DOMAIN items = 1 .. n, JArray(items) \in Docs,
         Envelope("array", JArray(items)) \in Docs
  PROVE  FromJson[Envelope("array", JArray(items))] = ArrayOf([i \in 1 .. n |-> FromJson[items[i]]])
  <1> DEFINE doc == Envelope("array", JArray(items))
  <1>1. IsEnvelope(doc.members) /\ TypeOf(doc.members) = "array" /\ doc.members[Val] = JArray(items)
        /\ doc.json = "object"
    BY EnvelopeTells, EnvelopeIs
  <1>2. doc \in Docs OBVIOUS
  <1> HIDE DEF doc
  <1>3. IsTypedArray(doc) /\ TypedItems(doc) = items BY <1>1 DEF IsTypedArray, TypedItems, JArray
  <1>4. FromJson[doc] = ArrayOf([i \in DOMAIN TypedItems(doc) |-> FromJson[TypedItems(doc)[i]]])
    BY <1>2, <1>3, FromJsonIs DEF ReadBy
  <1> QED BY <1>3, <1>4 DEF doc

\* A value whose leaves the wire keeps comes back as it went out.
LEMMA RoundTrip ==
  \A v \in Values : (\A x \in Leaves[v] : Stable(x)) => FromJson[ToJson[v]] = v
  <1> DEFINE T == {v \in Values : (\A x \in Leaves[v] : Stable(x)) => FromJson[ToJson[v]] = v}
  <1>1. ASSUME NEW v \in Values, v.type = "array" => \A i \in DOMAIN v.items : v.items[i] \in T
        PROVE  v \in T
    <2> SUFFICES ASSUME \A x \in Leaves[v] : Stable(x) PROVE FromJson[ToJson[v]] = v OBVIOUS
    <2>0. ToJson[v] = WrittenBy(ToJson, v) /\ ToJson[v] \in Docs BY ToJsonIs
    <2>1. CASE v.type \notin {"json", "array"} /\ v \in PlainValues
      <3>1. Stable(v) BY <2>1, LeavesAre
      <3>2. FromJson[PlainToJson(v)] = v BY <2>1, <3>1, PlainTrip DEF Stable
      <3> QED BY <2>0, <2>1, <3>2 DEF WrittenBy
    <2>2. CASE v.type = "json"
      <3>1. FromJson[v.doc] = v BY <2>2, LeavesAre DEF Stable
      <3>2. ToJson[v] = v.doc BY <2>0, <2>2 DEF WrittenBy, PlainToJson, TextTypes
      <3> QED BY <3>1, <3>2
    <2>3. CASE v.type = "array" /\ v = ArrayOf(v.items)
      <3>1. v.items \in Seq(Values) BY <2>3, ItemsAre
      <3>2. PICK n \in Nat : v.items \in [1 .. n -> Values] BY <3>1
      <3> DEFINE items == [i \in DOMAIN v.items |-> ToJson[v.items[i]]]
      <3>3. JArray(items) \in Docs BY <2>3, ArrayWritten
      <3>4. ToJson[v] = Envelope("array", JArray(items)) BY <2>0, <2>3 DEF WrittenBy
      <3>5. DOMAIN items = 1 .. n BY <3>2
      <3>6. ASSUME NEW i \in 1 .. n PROVE FromJson[items[i]] = v.items[i]
        <4>1. v.items[i] \in T BY <1>1, <2>3, <3>2
        <4>2. \A x \in Leaves[v.items[i]] : x \in Leaves[v] BY <2>3, <3>2, LeavesAre
        <4>3. FromJson[ToJson[v.items[i]]] = v.items[i] BY <4>1, <4>2
        <4> QED BY <3>2, <4>3
      <3> HIDE DEF items, T
      <3>7. FromJson[ToJson[v]] = ArrayOf([i \in 1 .. n |-> FromJson[items[i]]])
        BY <2>0, <3>3, <3>4, <3>5, TypedArrayReads
      <3>8. [i \in 1 .. n |-> FromJson[items[i]]] = v.items BY <3>2, <3>6
      <3> QED BY <2>3, <3>7, <3>8
    <2> QED BY <2>1, <2>2, <2>3, ValuesAre
  <1> HIDE DEF T
  <1>2. \A v \in Values : v \in T BY <1>1, ValueInduction
  <1> QED BY <1>2 DEF T

\* What was read is no NaN, and a document among it reads as itself.
ReadBack(x) == x # NaN /\ (x.type = "json" => FromJson[x.doc] = x)

LEMMA ReadsBack == \A doc \in Docs : \A x \in Leaves[FromJson[doc]] : ReadBack(x)
  <1> DEFINE T == {doc \in Docs : \A x \in Leaves[FromJson[doc]] : ReadBack(x)}
  <1>1. ASSUME NEW doc \in Docs,
               IsTypedArray(doc) => \A i \in DOMAIN TypedItems(doc) : TypedItems(doc)[i] \in T
        PROVE  doc \in T
    <2> SUFFICES ASSUME NEW x \in Leaves[FromJson[doc]] PROVE ReadBack(x) OBVIOUS
    <2>0. FromJson[doc] \in Values /\ FromJson[doc] = ReadBy(FromJson, doc) BY FromJsonIs
    <2>1. CASE IsTypedArray(doc)
      <3>1. PICK n \in Nat : TypedItems(doc) \in [1 .. n -> Docs] BY <2>1, DocsDeep
      <3> DEFINE items == [i \in 1 .. n |-> FromJson[TypedItems(doc)[i]]]
      <3>2. FromJson[doc] = ArrayOf(items) BY <2>0, <2>1, <3>1 DEF ReadBy
      <3> HIDE DEF items
      <3>3. FromJson[doc].type = "array" /\ FromJson[doc].items = items BY <3>2 DEF ArrayOf
      <3>4. Leaves[FromJson[doc]] = UNION {Leaves[FromJson[doc].items[i]] : i \in DOMAIN FromJson[doc].items}
        BY <2>0, <3>3, LeavesAre
      <3>5. PICK i \in DOMAIN items : x \in Leaves[items[i]] BY <3>3, <3>4
      <3>6. i \in 1 .. n /\ items[i] = FromJson[TypedItems(doc)[i]] BY DEF items
      <3>7. TypedItems(doc)[i] \in T BY <1>1, <2>1, <3>1, <3>6
      <3> QED BY <3>5, <3>6, <3>7
    <2>2. CASE ~IsTypedArray(doc)
      <3>1. FromJson[doc] = PlainFromJson(doc) BY <2>0, <2>2 DEF ReadBy
      <3>2. ArrayDepth \in Nat /\ Docs = JsonUpTo[2 * ArrayDepth + 1]
        BY PropertyValueAssumption DEF Docs
      <3>3. PlainFromJson(doc) = Json(doc) \/ PlainFromJson(doc) \in PlainValues \ {NaN}
        BY <3>2, DocsRead
      <3>4. CASE FromJson[doc] = Json(doc)
        <4>1. FromJson[doc].type = "json" /\ FromJson[doc].doc = doc BY <3>4 DEF Json
        <4>2. x = FromJson[doc] BY <2>0, <4>1, LeavesAre
        <4>3. x # NaN BY <4>1, <4>2 DEF NaN, Value
        <4> QED BY <4>1, <4>2, <4>3 DEF ReadBack
      <3>5. CASE FromJson[doc] \in PlainValues \ {NaN}
        <4>1. FromJson[doc].type \notin {"json", "array"} BY <3>5, PlainTypes
        <4>2. x = FromJson[doc] BY <2>0, <4>1, LeavesAre
        <4> QED BY <3>5, <4>1, <4>2 DEF ReadBack
      <3> QED BY <3>1, <3>3, <3>4, <3>5
    <2> QED BY <2>1, <2>2
  <1> HIDE DEF T
  <1>2. \A doc \in Docs : doc \in T BY <1>1, DocInduction
  <1> QED BY <1>2 DEF T

\* A value of a kind the wire keeps comes back as it went out, arrays of any depth
\* with what is in them (PropertyValue's to_json and from_json).
THEOREM KeptValuesComeBack == \A v \in Values : Kept(v) => FromJson[ToJson[v]] = v
  <1> SUFFICES ASSUME NEW v \in Values, Kept(v) PROVE FromJson[ToJson[v]] = v OBVIOUS
  <1>1. \A x \in Leaves[v] : Stable(x) BY DEF Kept, InMicroseconds, Stable
  <1> QED BY <1>1, RoundTrip

-------------------------------------------------------------------------------
\* The order of sequences

\* How two sequences compare at a place, where the end is before everything.
At(c, s, t, i) ==
  IF i <= Len(s) /\ i <= Len(t) THEN c[s[i]][t[i]]
  ELSE IF i <= Len(t) THEN -1
  ELSE IF i <= Len(s) THEN 1
  ELSE 0

LexBy(c, s, t) == Lexicographic(OrdersBy(c, s, t), Len(s), Len(t))

\* An order of S, with its ties.
Ordered(c, S) ==
  /\ \A x, y \in S : c[x][y] \in {-1, 0, 1} /\ c[x][y] = -c[y][x]
  /\ \A x, y, z \in S : c[x][y] <= 0 /\ c[y][z] <= 0 => c[x][z] <= 0

Decides(c, s, t, m) == At(c, s, t, m) # 0 /\ \A j \in 1 .. m - 1 : At(c, s, t, j) = 0

LEMMA AtIs ==
  ASSUME NEW c, NEW S, Ordered(c, S), NEW s \in Seq(S), NEW t \in Seq(S), NEW i \in Nat \ {0}
  PROVE  /\ At(c, s, t, i) \in {-1, 0, 1}
         /\ At(c, s, t, i) = -At(c, t, s, i)
  <1>1. i <= Len(s) => s[i] \in S OBVIOUS
  <1>2. i <= Len(t) => t[i] \in S OBVIOUS
  <1>3. CASE i <= Len(s) /\ i <= Len(t) BY <1>1, <1>2, <1>3 DEF At, Ordered
  <1>4. CASE ~(i <= Len(s) /\ i <= Len(t)) BY <1>4 DEF At
  <1> QED BY <1>3, <1>4

LEMMA AtThree ==
  ASSUME NEW c, NEW S, Ordered(c, S), NEW s \in Seq(S), NEW t \in Seq(S), NEW u \in Seq(S),
         NEW i \in Nat \ {0}, At(c, s, t, i) <= 0, At(c, t, u, i) <= 0
  PROVE  At(c, s, u, i) <= 0
  <1>1. i <= Len(s) => s[i] \in S OBVIOUS
  <1>2. i <= Len(t) => t[i] \in S OBVIOUS
  <1>3. i <= Len(u) => u[i] \in S OBVIOUS
  <1>4. CASE i <= Len(s) /\ i <= Len(t) /\ i <= Len(u) BY <1>1, <1>2, <1>3, <1>4 DEF At, Ordered
  <1>5. CASE ~(i <= Len(s) /\ i <= Len(t) /\ i <= Len(u)) BY <1>5 DEF At
  <1> QED BY <1>4, <1>5

\* The first place where they differ decides.
LEMMA LexDecides ==
  ASSUME NEW c, NEW S, Ordered(c, S), NEW s \in Seq(S), NEW t \in Seq(S)
  PROVE  /\ LexBy(c, s, t) \in {-1, 0, 1}
         /\ LexBy(c, s, t) = 0 => \A i \in Nat \ {0} : At(c, s, t, i) = 0
         /\ LexBy(c, s, t) # 0 =>
              \E m \in Nat \ {0} : Decides(c, s, t, m) /\ LexBy(c, s, t) = At(c, s, t, m)
  <1> DEFINE d == OrdersBy(c, s, t)
             f == FirstNonZero(d)
  <1>1. Len(s) \in Nat /\ Len(t) \in Nat OBVIOUS
  <1>2. PICK n \in Nat : n = IF Len(s) < Len(t) THEN Len(s) ELSE Len(t) BY <1>1
  <1>3. d = [i \in 1 .. n |-> c[s[i]][t[i]]] BY <1>2 DEF OrdersBy, Common
  <1>4. \A i \in 1 .. n : s[i] \in S /\ t[i] \in S BY <1>2
  <1>5. d \in [1 .. n -> {-1, 0, 1}] BY <1>3, <1>4 DEF Ordered
  <1>6. d \in Seq({-1, 0, 1}) /\ Len(d) = n BY <1>5
  <1>7. \/ f = 0 /\ \A k \in 1 .. n : d[k] = 0
        \/ f \in 1 .. n /\ d[f] # 0 /\ \A k \in 1 .. f - 1 : d[k] = 0
    BY <1>6, FirstNonZeroIs
  <1>8. \A i \in 1 .. n : At(c, s, t, i) = d[i]
    <2> TAKE i \in 1 .. n
    <2>1. i <= Len(s) /\ i <= Len(t) BY <1>1, <1>2
    <2> QED BY <1>3, <2>1 DEF At
  <1>9. LexBy(c, s, t) = IF f = 0 THEN Compare(Len(s), Len(t)) ELSE d[f] BY DEF LexBy, Lexicographic
  <1> HIDE DEF d, f
  <1>10. CASE f = 0 /\ \A k \in 1 .. n : d[k] = 0
    <2>1. \A i \in 1 .. n : At(c, s, t, i) = 0 BY <1>8, <1>10
    <2>2. LexBy(c, s, t) = Compare(Len(s), Len(t)) BY <1>9, <1>10
    <2>3. CASE Len(s) = Len(t)
      <3>1. LexBy(c, s, t) = 0 BY <2>2, <2>3, <1>1, CompareIs
      <3>2. ASSUME NEW i \in Nat \ {0} PROVE At(c, s, t, i) = 0
        <4>1. CASE i <= n BY <2>1, <4>1
        <4>2. CASE i > n BY <1>1, <1>2, <2>3, <4>2 DEF At
        <4> QED BY <4>1, <4>2
      <3> QED BY <3>1, <3>2
    <2>4. CASE Len(s) # Len(t)
      <3>1. n + 1 \in Nat \ {0} /\ (n + 1) - 1 = n BY <1>2
      <3>2. At(c, s, t, n + 1) = LexBy(c, s, t) /\ LexBy(c, s, t) \in {-1, 1}
        <4>1. CASE Len(s) < Len(t)
          <5>1. LexBy(c, s, t) = -1 BY <1>1, <2>2, <4>1, CompareIs
          <5>2. At(c, s, t, n + 1) = -1 BY <1>1, <1>2, <4>1 DEF At
          <5> QED BY <5>1, <5>2
        <4>2. CASE Len(s) > Len(t)
          <5>1. LexBy(c, s, t) = 1 BY <1>1, <2>2, <4>2, CompareIs
          <5>2. At(c, s, t, n + 1) = 1 BY <1>1, <1>2, <4>2 DEF At
          <5> QED BY <5>1, <5>2
        <4> QED BY <1>1, <2>4, <4>1, <4>2
      <3>3. Decides(c, s, t, n + 1) BY <2>1, <3>1, <3>2 DEF Decides
      <3> QED BY <3>1, <3>2, <3>3
    <2> QED BY <2>3, <2>4
  <1>11. CASE f \in 1 .. n /\ d[f] # 0 /\ \A k \in 1 .. f - 1 : d[k] = 0
    <2>1. f \in Nat \ {0} BY <1>11
    <2>2. LexBy(c, s, t) = d[f] BY <1>9, <1>11
    <2>3. At(c, s, t, f) = d[f] BY <1>8, <1>11
    <2>4. \A j \in 1 .. f - 1 : At(c, s, t, j) = 0 BY <1>8, <1>11
    <2>5. Decides(c, s, t, f) BY <1>11, <2>3, <2>4 DEF Decides
    <2>6. d[f] \in {-1, 0, 1} BY <1>5, <1>11
    <2> QED BY <1>11, <2>1, <2>2, <2>3, <2>5, <2>6
  <1> QED BY <1>7, <1>10, <1>11

LEMMA DecidedOnce ==
  ASSUME NEW c, NEW S, Ordered(c, S), NEW s \in Seq(S), NEW t \in Seq(S),
         NEW m \in Nat \ {0}, Decides(c, s, t, m)
  PROVE  LexBy(c, s, t) = At(c, s, t, m)
  <1>1. LexBy(c, s, t) # 0 BY LexDecides DEF Decides
  <1>2. PICK k \in Nat \ {0} : Decides(c, s, t, k) /\ LexBy(c, s, t) = At(c, s, t, k)
    BY <1>1, LexDecides
  <1>3. k < m => k \in 1 .. m - 1 OBVIOUS
  <1>4. m < k => m \in 1 .. k - 1 OBVIOUS
  <1>5. ~(k < m) BY <1>2, <1>3 DEF Decides
  <1>6. ~(m < k) BY <1>2, <1>4 DEF Decides
  <1>7. k = m BY <1>5, <1>6
  <1> QED BY <1>2, <1>7

LEMMA LexAntisymmetric ==
  ASSUME NEW c, NEW S, Ordered(c, S), NEW s \in Seq(S), NEW t \in Seq(S)
  PROVE  LexBy(c, s, t) = -LexBy(c, t, s)
  <1>1. ASSUME NEW u \in Seq(S), NEW v \in Seq(S), LexBy(c, u, v) # 0
        PROVE  LexBy(c, u, v) = -LexBy(c, v, u)
    <2>1. PICK m \in Nat \ {0} : Decides(c, u, v, m) /\ LexBy(c, u, v) = At(c, u, v, m)
      BY <1>1, LexDecides
    <2>2. \A i \in Nat \ {0} : At(c, u, v, i) \in {-1, 0, 1} /\ At(c, u, v, i) = -At(c, v, u, i)
      BY AtIs
    <2>3. \A i \in Nat \ {0} : At(c, v, u, i) \in {-1, 0, 1} BY AtIs
    <2>4. ASSUME NEW j \in 1 .. m - 1 PROVE At(c, v, u, j) = 0
      <3>1. j \in Nat \ {0} /\ At(c, u, v, j) = 0 BY <2>1 DEF Decides
      <3>2. At(c, v, u, j) \in {-1, 0, 1} /\ At(c, u, v, j) = -At(c, v, u, j) BY <2>2, <2>3, <3>1
      <3> QED BY <3>1, <3>2
    <2>5. At(c, v, u, m) # 0
      <3>1. At(c, u, v, m) # 0 BY <2>1 DEF Decides
      <3>2. At(c, u, v, m) = -At(c, v, u, m) BY <2>2
      <3> QED BY <3>1, <3>2
    <2>6. Decides(c, v, u, m) BY <2>4, <2>5 DEF Decides
    <2>7. LexBy(c, v, u) = At(c, v, u, m) BY <2>6, DecidedOnce
    <2> QED BY <2>1, <2>2, <2>7
  <1>2. LexBy(c, s, t) \in {-1, 0, 1} /\ LexBy(c, t, s) \in {-1, 0, 1} BY LexDecides
  <1>3. LexBy(c, s, t) # 0 => LexBy(c, s, t) = -LexBy(c, t, s) BY <1>1
  <1>4. LexBy(c, t, s) # 0 => LexBy(c, t, s) = -LexBy(c, s, t) BY <1>1
  <1> QED BY <1>2, <1>3, <1>4

LEMMA LexTransitive ==
  ASSUME NEW c, NEW S, Ordered(c, S), NEW s \in Seq(S), NEW t \in Seq(S), NEW u \in Seq(S),
         LexBy(c, s, t) <= 0, LexBy(c, t, u) <= 0
  PROVE  LexBy(c, s, u) <= 0
  <1> SUFFICES ASSUME LexBy(c, s, u) = 1 PROVE FALSE
    <2>1. LexBy(c, s, u) \in {-1, 0, 1} BY LexDecides
    <2> QED BY <2>1
  <1> DEFINE a(i) == At(c, s, t, i)
             b(i) == At(c, t, u, i)
             d(i) == At(c, s, u, i)
             M == {i \in Nat \ {0} : ~(a(i) = 0 /\ d(i) = 0)}
  <1>1. \A i \in Nat \ {0} : a(i) \in {-1, 0, 1} /\ b(i) \in {-1, 0, 1} /\ d(i) \in {-1, 0, 1} BY AtIs
  <1>2. \A i \in Nat \ {0} : a(i) <= 0 /\ b(i) <= 0 => d(i) <= 0 BY AtThree
  <1>3. \A i \in Nat \ {0} : b(i) <= 0 /\ d(i) = 0 => a(i) >= 0
    <2> SUFFICES ASSUME NEW i \in Nat \ {0}, b(i) <= 0, d(i) = 0 PROVE a(i) >= 0 OBVIOUS
    <2>1. At(c, u, s, i) <= 0 BY AtIs
    <2>2. At(c, t, s, i) <= 0 BY <2>1, AtThree
    <2>3. a(i) = -At(c, t, s, i) /\ At(c, t, s, i) \in {-1, 0, 1} BY AtIs
    <2> QED BY <2>2, <2>3
  <1>4. \A i \in Nat \ {0} : a(i) = 0 /\ d(i) = 0 => b(i) = 0
    <2> SUFFICES ASSUME NEW i \in Nat \ {0}, a(i) = 0, d(i) = 0 PROVE b(i) = 0 OBVIOUS
    <2>1. At(c, t, s, i) <= 0 /\ At(c, u, s, i) <= 0 BY AtIs
    <2>2. b(i) <= 0 BY <2>1, AtThree
    <2>3. At(c, u, t, i) <= 0 BY <2>1, AtThree
    <2>4. b(i) = -At(c, u, t, i) /\ At(c, u, t, i) \in {-1, 0, 1} BY AtIs
    <2> QED BY <2>2, <2>3, <2>4
  <1>5. PICK m \in M : \A i \in M : m <= i
    <2>1. PICK k \in Nat \ {0} : Decides(c, s, u, k) BY LexDecides
    <2>2. k \in M BY <2>1 DEF Decides
    <2> QED BY <2>2, LeastNatural, M \subseteq Nat
  <1>6. m \in Nat \ {0} /\ ~(a(m) = 0 /\ d(m) = 0) BY <1>5
  <1>7. \A j \in 1 .. m - 1 : a(j) = 0 /\ d(j) = 0 /\ j \in Nat \ {0}
    <2> TAKE j \in 1 .. m - 1
    <2>1. j \in Nat \ {0} /\ ~(m <= j) BY <1>6
    <2> QED BY <1>5, <2>1
  <1> HIDE DEF M
  <1>8. a(m) <= 0
    <2> SUFFICES ASSUME a(m) # 0 PROVE a(m) <= 0 OBVIOUS
    <2>1. Decides(c, s, t, m) BY <1>7 DEF Decides
    <2> QED BY <1>6, <2>1, DecidedOnce
  <1>9. d(m) >= 0
    <2> SUFFICES ASSUME d(m) # 0 PROVE d(m) >= 0 OBVIOUS
    <2>1. Decides(c, s, u, m) BY <1>7 DEF Decides
    <2>2. d(m) = 1 BY <1>6, <2>1, DecidedOnce
    <2> QED BY <2>2
  <1>10. \A j \in 1 .. m - 1 : b(j) = 0 BY <1>4, <1>7
  <1>11. b(m) = 1
    <2> SUFFICES ASSUME b(m) <= 0 PROVE FALSE BY <1>1, <1>6
    <2>1. d(m) <= 0 BY <1>2, <1>6, <1>8
    <2>2. d(m) = 0 BY <1>1, <1>6, <1>9, <2>1
    <2>3. a(m) >= 0 BY <1>3, <1>6, <2>2
    <2>4. a(m) = 0 BY <1>1, <1>6, <1>8, <2>3
    <2> QED BY <1>6, <2>2, <2>4
  <1>12. Decides(c, t, u, m) BY <1>10, <1>11 DEF Decides
  <1>13. LexBy(c, t, u) = 1 BY <1>6, <1>11, <1>12, DecidedOnce
  <1> QED BY <1>13

\* Numbers in a row compare by the first that differs.
IntOrder == [x \in Int |-> [y \in Int |-> Compare(x, y)]]

LEMMA IntsOrdered == Ordered(IntOrder, Int)
  <1>1. \A x, y \in Int : IntOrder[x][y] = Compare(x, y) BY DEF IntOrder
  <1>2. \A x, y \in Int : Compare(x, y) \in {-1, 0, 1} /\ Compare(x, y) = -Compare(y, x)
    BY DEF Compare, Sign
  <1>3. \A x, y, z \in Int : Compare(x, y) <= 0 /\ Compare(y, z) <= 0 => Compare(x, z) <= 0
    BY DEF Compare, Sign
  <1> HIDE DEF IntOrder
  <1> QED BY <1>1, <1>2, <1>3 DEF Ordered

LEMMA SeqCompareIs ==
  ASSUME NEW s \in Seq(Int), NEW t \in Seq(Int)
  PROVE  SeqCompare(s, t) = LexBy(IntOrder, s, t)
  <1>1. \A i \in Common(s, t) : s[i] \in Int /\ t[i] \in Int BY CommonIs
  <1>2. \A i \in Common(s, t) : IntOrder[s[i]][t[i]] = Compare(s[i], t[i]) BY <1>1 DEF IntOrder
  <1>3. OrdersBy(IntOrder, s, t) = [i \in Common(s, t) |-> Compare(s[i], t[i])]
    BY <1>2 DEF OrdersBy
  <1> QED BY <1>3 DEF SeqCompare, LexBy

LEMMA SeqOrder ==
  /\ \A s, t \in Seq(Int) : SeqCompare(s, t) \in {-1, 0, 1} /\ SeqCompare(s, t) = -SeqCompare(t, s)
  /\ \A s, t, u \in Seq(Int) :
       SeqCompare(s, t) <= 0 /\ SeqCompare(t, u) <= 0 => SeqCompare(s, u) <= 0
  <1>1. ASSUME NEW s \in Seq(Int), NEW t \in Seq(Int)
        PROVE  SeqCompare(s, t) \in {-1, 0, 1} /\ SeqCompare(s, t) = -SeqCompare(t, s)
    BY IntsOrdered, LexDecides, LexAntisymmetric, SeqCompareIs
  <1>2. ASSUME NEW s \in Seq(Int), NEW t \in Seq(Int), NEW u \in Seq(Int),
               SeqCompare(s, t) <= 0, SeqCompare(t, u) <= 0
        PROVE  SeqCompare(s, u) <= 0
    <2>1. LexBy(IntOrder, s, t) <= 0 /\ LexBy(IntOrder, t, u) <= 0 BY <1>2, SeqCompareIs
    <2>2. LexBy(IntOrder, s, u) <= 0 BY <2>1, IntsOrdered, LexTransitive
    <2> QED BY <2>2, SeqCompareIs
  <1> QED BY <1>1, <1>2

LEMMA SinglesCompare ==
  /\ \A x, y \in Int : SeqCompare(<<x>>, <<y>>) = Compare(x, y)
  /\ SeqCompare(<<>>, <<>>) = 0
  <1>1. ASSUME NEW x \in Int, NEW y \in Int PROVE SeqCompare(<<x>>, <<y>>) = Compare(x, y)
    <2> DEFINE s == <<x>>  t == <<y>>
    <2>1. s \in Seq(Int) /\ t \in Seq(Int) /\ Len(s) = 1 /\ Len(t) = 1 /\ s[1] = x /\ t[1] = y OBVIOUS
    <2> HIDE DEF s, t
    <2>2. SeqCompare(s, t) = LexBy(IntOrder, s, t) BY <2>1, SeqCompareIs
    <2>3. At(IntOrder, s, t, 1) = Compare(x, y) BY <2>1 DEF At, IntOrder
    <2>4. CASE Compare(x, y) = 0
      <3>1. \A i \in Nat \ {0} : At(IntOrder, s, t, i) = 0
        <4> TAKE i \in Nat \ {0}
        <4>1. CASE i = 1 BY <2>3, <2>4, <4>1
        <4>2. CASE i > 1 BY <2>1, <4>2 DEF At
        <4> QED BY <4>1, <4>2
      <3>2. \A i \in Nat \ {0} : ~Decides(IntOrder, s, t, i) BY <3>1 DEF Decides
      <3>3. LexBy(IntOrder, s, t) = 0 BY <2>1, <3>2, IntsOrdered, LexDecides
      <3> QED BY <2>2, <2>4, <3>3 DEF s, t
    <2>5. CASE Compare(x, y) # 0
      <3>1. 1 \in Nat \ {0} /\ Decides(IntOrder, s, t, 1) BY <2>3, <2>5 DEF Decides
      <3>2. LexBy(IntOrder, s, t) = At(IntOrder, s, t, 1) BY <2>1, <3>1, IntsOrdered, DecidedOnce
      <3> QED BY <2>2, <2>3, <3>2 DEF s, t
    <2> QED BY <2>4, <2>5
  <1>2. SeqCompare(<<>>, <<>>) = 0
    <2> DEFINE s == <<>>
    <2>1. s \in Seq(Int) /\ Len(s) = 0 OBVIOUS
    <2> HIDE DEF s
    <2>2. \A i \in Nat \ {0} : At(IntOrder, s, s, i) = 0 BY <2>1 DEF At
    <2>3. \A i \in Nat \ {0} : ~Decides(IntOrder, s, s, i) BY <2>2 DEF Decides
    <2>4. LexBy(IntOrder, s, s) = 0 BY <2>1, <2>3, IntsOrdered, LexDecides
    <2> QED BY <2>1, <2>4, SeqCompareIs DEF s
  <1> QED BY <1>1, <1>2

\* The numbers by which a value that is no array and no double is compared with
\* its like.
Key(v) ==
  CASE IsExactNumber(v)     -> <<UnitsOfNumber(v)>>
    [] v.type = "null"      -> <<>>
    [] v.type = "timestamp" -> <<v.n[1]>>
    [] v.type = "text"      -> TextKey(v.text)
    [] v.type = "json"      -> DocKey(v.doc)
    [] OTHER                -> v.n

LEMMA PairsAre == \A p \in Int \X Int : p \in Seq(Int)
  <1>1. \A a, b \in Int : <<a, b>> \in Seq(Int) OBVIOUS
  <1>2. \A p \in Int \X Int : p[1] \in Int /\ p[2] \in Int /\ p = <<p[1], p[2]>> OBVIOUS
  <1> QED BY <1>1, <1>2

LEMMA OneIn == \A n \in One(Int) : n \in Seq(Int)
  <1>1. \A i \in Int : <<i>> \in Seq(Int) OBVIOUS
  <1> QED BY <1>1, OnesAre

LEMMA PayloadIn == \A type \in TextTypes : \A n \in Payload[type] : n \in Seq(Int)
  <1>1. ASSUME NEW n \in Payload["decimal"] PROVE n \in Seq(Int)
    <2>1. MaxPrecision \in Nat /\ MinInt \in Int /\ MaxInt \in Int BY DecimalAssumption
    <2>2. n \in (MinInt + 1 .. MaxInt) \X (0 .. MaxPrecision) BY DEF Payload
    <2>3. n \in Int \X Int BY <2>1, <2>2
    <2> QED BY <2>3, PairsAre
  <1>2. Payload["date"] = One(Int) /\ Payload["uuid"] = One(Int) /\ Payload["time"] = Int \X Nat
        /\ Payload["timestamp"] = Int \X Int /\ Payload["bytes"] = Seq(Int)
    BY DEF Payload
  <1>3. \A n \in Int \X Nat : n \in Int \X Int OBVIOUS
  <1> QED BY <1>1, <1>2, <1>3, OneIn, PairsAre DEF TextTypes

LEMMA TextKeyIn == \A text \in Texts : TextKey(text) \in Seq(Int)
  <1> SUFFICES ASSUME NEW text \in Texts PROVE TextKey(text) \in Seq(Int) OBVIOUS
  <1> DEFINE I == {i \in 1 .. Len(TextKinds) : TextKinds[i] = text.as}
             k == SelectInSeq(TextKinds, LAMBDA as : as = text.as)
  <1>1. text.n \in Seq(Int)
    <2>1. CASE text \in [as : {"word"}, n : Seq(Int), canonical : BOOLEAN] BY <2>1
    <2>2. CASE text \in [as : {"tag"}, n : {<<>>}, canonical : {TRUE},
                         type : TextTypes \union {"int32", "int16", "array"}]
      <3>1. text.n = <<>> BY <2>2
      <3> QED BY <3>1
    <2>3. CASE \E type \in TextTypes : text \in TextsAs(type)
      <3>1. PICK type \in TextTypes : text \in TextsAs(type) BY <2>3
      <3>2. text.n \in Payload[type] BY <3>1 DEF TextsAs
      <3> QED BY <3>2, PayloadIn
    <2> QED BY <2>1, <2>2, <2>3 DEF Texts, TextTypes
  <1>2. k = IF I # {} THEN Min(I) ELSE 0 BY DEF SelectInSeq
  <1>3. k \in Int
    <2>1. CASE I = {} BY <1>2, <2>1
    <2>2. CASE I # {}
      <3>1. I \subseteq Nat BY DEF TextKinds
      <3>2. PICK x \in I : \A y \in I : x <= y BY <2>2, <3>1, LeastNatural
      <3>3. Min(I) \in I BY <3>2 DEF Min
      <3> QED BY <1>2, <2>2, <3>1, <3>3
    <2> QED BY <2>1, <2>2
  <1> HIDE DEF k
  <1>4. PICK b \in Int : b = IF text.canonical THEN 1 ELSE 0 OBVIOUS
  <1>5. <<k, b>> \in Seq(Int) BY <1>3
  <1>6. TextKey(text) = <<k, b>> \o text.n BY <1>4 DEF TextKey, k
  <1> QED BY <1>1, <1>5, <1>6

-------------------------------------------------------------------------------
\* The order of values

LEMMA RankIs ==
  \A v \in Values :
    /\ Rank(v) \in 0 .. 10
    /\ Rank(v) = 2 <=> IsExactNumber(v) \/ v.type = "float"
    /\ Rank(v) = 9 <=> v.type = "array"
    /\ \A w \in Values : Rank(v) = Rank(w) /\ Rank(v) # 2 => v.type = w.type
  <1>1. \A v : v.type \in {"null", "bool", "float", "text", "json", "array"} \union TextTypes \union IntegralTypes
          => /\ Rank(v) \in 0 .. 10
             /\ Rank(v) = 2 <=> IsExactNumber(v) \/ v.type = "float"
             /\ Rank(v) = 9 <=> v.type = "array"
    BY DEF Rank, TextTypes, IntegralTypes, IsExactNumber
  <1>2. \A v \in Values : v.type \in {"null", "bool", "float", "text", "json", "array"} \union TextTypes \union IntegralTypes
    <2> TAKE v \in Values
    <2>1. CASE v \in PlainValues BY <2>1, PlainIs DEF Null, NaN, Value
    <2> QED BY <2>1, ValuesAre
  <1>3. ASSUME NEW v \in Values, NEW w \in Values, Rank(v) = Rank(w), Rank(v) # 2
        PROVE  v.type = w.type
    BY <1>2, <1>3 DEF Rank, TextTypes, IntegralTypes
  <1> QED BY <1>1, <1>2, <1>3

LEMMA ExactNumberIs ==
  ASSUME NEW v \in Values, IsExactNumber(v)
  PROVE  /\ IsDecimal(AsExact(v)) /\ AsExact(v) # None
         /\ UnitsOfDecimal(AsExact(v)) = UnitsOfNumber(v) /\ UnitsOfNumber(v) \in Int
  <1>0. MaxPrecision \in Nat /\ MinInt \in Int /\ MaxInt \in Int BY DecimalAssumption
  <1>1. v \in PlainValues BY ValuesAre DEF IsExactNumber, IntegralTypes
  <1>2. \A d : IsDecimal(d) /\ d = DecimalOf(d.unscaled, d.scale) => d # None
    <2> SUFFICES ASSUME NEW d, IsDecimal(d), d = DecimalOf(d.unscaled, d.scale) PROVE d # None OBVIOUS
    <2>1. d.unscaled \in Int /\ d.scale \in Nat BY WidthIs, <1>0 DEF IsDecimal
    <2>2. d \in [unscaled : Int, scale : Nat] BY <2>1 DEF DecimalOf
    <2> QED BY <2>2, NoneAssumption
  <1>3. CASE v.type = "decimal"
    <2>1. v.n \in Payload["decimal"]
      BY <1>1, <1>3, PlainIs DEF Null, NaN, Value, Text, TextTypes, IntegralTypes
    <2>2. v.n \in (MinInt + 1 .. MaxInt) \X (0 .. MaxPrecision) BY <2>1 DEF Payload
    <2>3. v.n[1] \in MinInt + 1 .. MaxInt /\ v.n[2] \in 0 .. MaxPrecision BY <2>2
    <2>4. AsExact(v) = DecimalOf(v.n[1], v.n[2]) BY <1>3 DEF AsExact
    <2>5. AsExact(v).unscaled = v.n[1] /\ AsExact(v).scale = v.n[2] BY <2>4 DEF DecimalOf
    <2>6. IsDecimal(AsExact(v)) BY <1>0, <2>3, <2>4, <2>5 DEF IsDecimal, Fits, DecimalOf
    <2>7. UnitsOfDecimal(AsExact(v)) = UnitsOfNumber(v)
      BY <1>3, <2>5 DEF UnitsOfDecimal, UnitsOfNumber
    <2> QED BY <1>2, <2>4, <2>5, <2>6, <2>7, UnitsPositive
  <1>4. CASE v.type # "decimal"
    <2>1. v.type \in IntegralTypes BY <1>4 DEF IsExactNumber
    <2>2. v.n \in One(LongRange)
      BY <1>1, <2>1, PlainIs DEF Null, NaN, Value, Text, TextTypes, IntegralTypes
    <2>3. v.n[1] \in LongRange BY <2>2, OnesAre
    <2>4. v.n[1] \in MinInt + 1 .. MaxInt BY <2>3, PropertyValueAssumption
    <2>5. AsExact(v) = DecimalOf(v.n[1], 0) BY <1>0, <1>4, <2>1 DEF AsExact, FromParts
    <2>6. AsExact(v).unscaled = v.n[1] /\ AsExact(v).scale = 0 BY <2>5 DEF DecimalOf
    <2>7. IsDecimal(AsExact(v)) BY <1>0, <2>4, <2>5, <2>6 DEF IsDecimal, Fits, DecimalOf
    <2>8. UnitsOfDecimal(AsExact(v)) = UnitsOfNumber(v)
      <3>1. MaxPrecision - 0 = MaxPrecision /\ Unit \in Nat BY <1>0, TenGrows DEF Unit
      <3>2. UnitsOfDecimal(AsExact(v)) = v.n[1] * Unit BY <2>6, <3>1 DEF UnitsOfDecimal, Unit
      <3>3. v.n[1] \in Int BY <2>3, LongsAre
      <3>4. \A a, b \in Int : a * b = b * a OBVIOUS
      <3> QED BY <1>4, <3>1, <3>2, <3>3, <3>4 DEF UnitsOfNumber
    <2> QED BY <1>2, <2>5, <2>6, <2>7, <2>8, UnitsPositive
  <1> QED BY <1>3, <1>4

LEMMA NumbersCompare ==
  ASSUME NEW v \in Values, NEW w \in Values, IsExactNumber(v), IsExactNumber(w)
  PROVE  /\ PlainCompare(v, w) = Compare(UnitsOfNumber(v), UnitsOfNumber(w))
         /\ CompareValues(v, w) = Compare(UnitsOfNumber(v), UnitsOfNumber(w))
  <1>1. Rank(v) = Rank(w) BY RankIs
  <1>2. PlainCompare(v, w) = NumericCompare(v, w)
    BY <1>1 DEF PlainCompare, SameRankCompare, IsExactNumber, IntegralTypes
  <1>3. NumericCompare(v, w) = DecimalCompare(AsExact(v), AsExact(w))
    BY ExactNumberIs DEF NumericCompare
  <1>4. v.type # "array" BY DEF IsExactNumber, IntegralTypes
  <1>5. CompareValues(v, w) = PlainCompare(v, w) BY <1>4, ComparingIs
  <1> QED BY <1>2, <1>3, <1>5, ExactNumberIs, DecimalsCompare

LEMMA KeyIs ==
  ASSUME NEW v \in Values, v.type \notin {"array", "float"}
  PROVE  Key(v) \in Seq(Int)
  <1>1. CASE IsExactNumber(v)
    <2>1. Key(v) = <<UnitsOfNumber(v)>> BY <1>1 DEF Key, IsExactNumber, IntegralTypes
    <2> QED BY <1>1, <2>1, ExactNumberIs
  <1>2. CASE v = Null
    <2>1. Key(v) = <<>> BY <1>2 DEF Key, IsExactNumber, IntegralTypes, Null
    <2> QED BY <2>1
  <1>3. CASE v.type = "json"
    <2>1. Key(v) = DocKey(v.doc) BY <1>3 DEF Key, IsExactNumber, IntegralTypes
    <2>2. v.doc \in Docs BY <1>3, ValuesAre, PlainTypes
    <2>3. v.doc.json = "array" => Len(v.doc.items) \in Int BY <2>2, DocIs
    <2>4. CASE v.doc.json = "array"
      <3>1. DocKey(v.doc) = <<Len(v.doc.items)>> BY <2>4 DEF DocKey
      <3> QED BY <2>1, <2>3, <2>4, <3>1
    <2>5. CASE v.doc.json # "array"
      <3>1. DocKey(v.doc) = <<-1>> BY <2>5 DEF DocKey
      <3> QED BY <2>1, <3>1
    <2> QED BY <2>4, <2>5
  <1>4. CASE v.type = "text" /\ v.text \in Texts
    <2>1. Key(v) = TextKey(v.text) BY <1>4 DEF Key, IsExactNumber, IntegralTypes
    <2> QED BY <1>4, <2>1, TextKeyIn
  <1>5. CASE v.type = "bool" /\ v.n \in One({0, 1})
    <2>1. Key(v) = v.n BY <1>5 DEF Key, IsExactNumber, IntegralTypes
    <2>2. v.n \in One(Int) BY <1>5 DEF One
    <2> QED BY <2>1, <2>2, OneIn
  <1>6. CASE v.type \in TextTypes \ {"decimal"} /\ v.n \in Payload[v.type]
    <2>1. CASE v.type = "timestamp"
      <3>1. Key(v) = <<v.n[1]>> BY <2>1 DEF Key, IsExactNumber, IntegralTypes
      <3>2. v.n \in Int \X Int BY <1>6, <2>1 DEF Payload
      <3>3. v.n[1] \in Int BY <3>2
      <3> QED BY <3>1, <3>3
    <2>2. CASE v.type # "timestamp"
      <3>1. Key(v) = v.n BY <1>6, <2>2 DEF Key, IsExactNumber, IntegralTypes, TextTypes
      <3> QED BY <1>6, <3>1, PayloadIn
    <2> QED BY <2>1, <2>2
  <1>7. v.type = "json" \/ v \in PlainValues BY ValuesAre
  <1>8. v # NaN BY DEF NaN, Value
  <1> QED BY <1>1, <1>2, <1>3, <1>4, <1>5, <1>6, <1>7, <1>8, PlainIs DEF IsExactNumber

LEMMA LikeCompare ==
  ASSUME NEW v \in Values, NEW w \in Values, v.type \notin {"array", "float"},
         w.type \notin {"array", "float"}, Rank(v) = Rank(w)
  PROVE  CompareValues(v, w) = SeqCompare(Key(v), Key(w))
  <1>1. CompareValues(v, w) = SameRankCompare(v, w) BY ComparingIs DEF PlainCompare
  <1>2. CASE IsExactNumber(v)
    <2>1. IsExactNumber(w) BY <1>2, RankIs
    <2>2. Key(v) = <<UnitsOfNumber(v)>> /\ Key(w) = <<UnitsOfNumber(w)>>
      BY <1>2, <2>1 DEF Key, IsExactNumber, IntegralTypes
    <2>3. UnitsOfNumber(v) \in Int /\ UnitsOfNumber(w) \in Int BY <1>2, <2>1, ExactNumberIs
    <2> QED BY <1>2, <2>1, <2>2, <2>3, NumbersCompare, SinglesCompare
  <1>3. CASE ~IsExactNumber(v)
    <2>1. ~IsExactNumber(w) /\ v.type = w.type BY <1>3, RankIs
    <2>2. CASE v.type = "null"
      <3>1. Key(v) = <<>> /\ Key(w) = <<>> BY <1>3, <2>1, <2>2 DEF Key
      <3>2. SameRankCompare(v, w) = 0 BY <2>2 DEF SameRankCompare
      <3> QED BY <1>1, <3>1, <3>2, SinglesCompare
    <2>3. CASE v.type = "timestamp"
      <3>1. Key(v) = <<v.n[1]>> /\ Key(w) = <<w.n[1]>> BY <1>3, <2>1, <2>3 DEF Key
      <3>2. SameRankCompare(v, w) = Compare(v.n[1], w.n[1]) BY <2>3 DEF SameRankCompare
      <3>3. ASSUME NEW x \in Values, x.type = "timestamp" PROVE x.n[1] \in Int
        <4>1. x \in PlainValues BY <3>3, ValuesAre
        <4>2. x.n \in Payload["timestamp"]
          BY <3>3, <4>1, PlainIs DEF Null, NaN, Value, Text, TextTypes, IntegralTypes
        <4>3. x.n \in Int \X Int BY <4>2 DEF Payload
        <4> QED BY <4>3
      <3>4. v.n[1] \in Int /\ w.n[1] \in Int BY <2>1, <2>3, <3>3
      <3> QED BY <1>1, <3>1, <3>2, <3>4, SinglesCompare
    <2>4. CASE v.type = "text"
      BY <1>1, <1>3, <2>1, <2>4 DEF Key, SameRankCompare
    <2>5. CASE v.type = "json"
      BY <1>1, <1>3, <2>1, <2>5 DEF Key, SameRankCompare
    <2>6. CASE v.type \in {"bool", "date", "time", "uuid", "bytes"}
      BY <1>1, <1>3, <2>1, <2>6 DEF Key, SameRankCompare
    <2>7. v.type \in {"null", "timestamp", "text", "json", "bool", "date", "time", "uuid", "bytes"}
      <3>1. v.type = "json" \/ v \in PlainValues BY ValuesAre
      <3> QED BY <1>3, <3>1, PlainIs DEF Null, NaN, Value, TextTypes, IsExactNumber
    <2> QED BY <2>2, <2>3, <2>4, <2>5, <2>6, <2>7
  <1> QED BY <1>2, <1>3

\* Values that are exact to compare, as far as the items of arrays are in I.
Exact(I) == {v \in Values : IF v.type = "array" THEN v.items \in Seq(I) ELSE v.type # "float"}

LEMMA ExactOne ==
  ASSUME NEW I, I \subseteq Values, Ordered(Comparing, I), NEW v \in Exact(I), NEW w \in Exact(I)
  PROVE  CompareValues(v, w) \in {-1, 0, 1} /\ CompareValues(v, w) = -CompareValues(w, v)
  <1>0. v \in Values /\ w \in Values BY DEF Exact
  <1>1. CASE Rank(v) # Rank(w)
    <2>1. ~(v.type = "array" /\ w.type = "array") BY <1>0, <1>1, RankIs
    <2>2. CompareValues(v, w) = Compare(Rank(v), Rank(w)) /\ CompareValues(w, v) = Compare(Rank(w), Rank(v))
      BY <1>0, <1>1, <2>1, ComparingIs DEF PlainCompare
    <2>3. Rank(v) \in Int /\ Rank(w) \in Int BY <1>0, RankIs
    <2>4. \A m, n \in Int : Compare(m, n) \in {-1, 0, 1} /\ Compare(m, n) = -Compare(n, m)
      BY DEF Compare, Sign
    <2> QED BY <2>2, <2>3, <2>4
  <1>2. CASE Rank(v) = Rank(w) /\ v.type = "array"
    <2>1. w.type = "array" BY <1>0, <1>2, RankIs
    <2>2. v.items \in Seq(I) /\ w.items \in Seq(I) BY <1>2, <2>1 DEF Exact
    <2>3. CompareValues(v, w) = LexBy(Comparing, v.items, w.items)
          /\ CompareValues(w, v) = LexBy(Comparing, w.items, v.items)
      BY <1>0, <1>2, <2>1, ComparingIs DEF LexBy
    <2> QED BY <2>2, <2>3, LexDecides, LexAntisymmetric
  <1>3. CASE Rank(v) = Rank(w) /\ v.type # "array"
    <2>1. v.type \notin {"array", "float"} /\ w.type \notin {"array", "float"}
      BY <1>0, <1>3, RankIs DEF Exact
    <2>2. CompareValues(v, w) = SeqCompare(Key(v), Key(w)) /\ CompareValues(w, v) = SeqCompare(Key(w), Key(v))
      BY <1>0, <1>3, <2>1, LikeCompare
    <2> QED BY <1>0, <2>1, <2>2, KeyIs, SeqOrder
  <1> QED BY <1>1, <1>2, <1>3

LEMMA ExactThree ==
  ASSUME NEW I, I \subseteq Values, Ordered(Comparing, I),
         NEW u \in Exact(I), NEW v \in Exact(I), NEW w \in Exact(I),
         CompareValues(u, v) <= 0, CompareValues(v, w) <= 0
  PROVE  CompareValues(u, w) <= 0
  <1>0. u \in Values /\ v \in Values /\ w \in Values BY DEF Exact
  <1>1. Rank(u) \in Int /\ Rank(v) \in Int /\ Rank(w) \in Int BY <1>0, RankIs
  <1>2. ASSUME NEW x \in Values, NEW y \in Values, Rank(x) # Rank(y)
        PROVE  CompareValues(x, y) = Compare(Rank(x), Rank(y))
    <2>1. ~(x.type = "array" /\ y.type = "array") BY <1>2, RankIs
    <2> QED BY <1>2, <2>1, ComparingIs DEF PlainCompare
  <1>3. \A m, n \in Int : Compare(m, n) <= 0 <=> m <= n BY DEF Compare, Sign
  <1>4. Rank(u) <= Rank(v) /\ Rank(v) <= Rank(w)
    <2>1. Rank(u) # Rank(v) => Rank(u) <= Rank(v) BY <1>0, <1>1, <1>2, <1>3
    <2>2. Rank(v) # Rank(w) => Rank(v) <= Rank(w) BY <1>0, <1>1, <1>2, <1>3
    <2> QED BY <1>1, <2>1, <2>2
  <1>5. CASE Rank(u) # Rank(w)
    <2>1. Rank(u) <= Rank(w) BY <1>1, <1>4
    <2> QED BY <1>0, <1>1, <1>2, <1>3, <1>5, <2>1
  <1>6. CASE Rank(u) = Rank(w)
    <2>0. Rank(u) = Rank(v) /\ Rank(v) = Rank(w) BY <1>1, <1>4, <1>6
    <2>1. CASE u.type = "array"
      <3>1. v.type = "array" /\ w.type = "array" BY <1>0, <2>0, <2>1, RankIs
      <3>2. u.items \in Seq(I) /\ v.items \in Seq(I) /\ w.items \in Seq(I) BY <2>1, <3>1 DEF Exact
      <3>3. CompareValues(u, v) = LexBy(Comparing, u.items, v.items)
            /\ CompareValues(v, w) = LexBy(Comparing, v.items, w.items)
            /\ CompareValues(u, w) = LexBy(Comparing, u.items, w.items)
        BY <1>0, <2>1, <3>1, ComparingIs DEF LexBy
      <3> QED BY <3>2, <3>3, LexTransitive
    <2>2. CASE u.type # "array"
      <3>1. u.type \notin {"array", "float"} /\ v.type \notin {"array", "float"}
            /\ w.type \notin {"array", "float"}
        BY <1>0, <2>0, <2>2, RankIs DEF Exact
      <3>2. CompareValues(u, v) = SeqCompare(Key(u), Key(v))
            /\ CompareValues(v, w) = SeqCompare(Key(v), Key(w))
            /\ CompareValues(u, w) = SeqCompare(Key(u), Key(w))
        BY <1>0, <2>0, <3>1, LikeCompare
      <3>3. Key(u) \in Seq(Int) /\ Key(v) \in Seq(Int) /\ Key(w) \in Seq(Int) BY <1>0, <3>1, KeyIs
      <3> QED BY <3>2, <3>3, SeqOrder
    <2> QED BY <2>1, <2>2
  <1> QED BY <1>5, <1>6

LEMMA ExactOrdered ==
  ASSUME NEW I, I \subseteq Values, Ordered(Comparing, I)
  PROVE  Ordered(Comparing, Exact(I))
  <1>1. \A v, w \in Exact(I) : CompareValues(v, w) \in {-1, 0, 1} /\ CompareValues(v, w) = -CompareValues(w, v)
    BY ExactOne
  <1>2. \A u, v, w \in Exact(I) :
          CompareValues(u, v) <= 0 /\ CompareValues(v, w) <= 0 => CompareValues(u, w) <= 0
    BY ExactThree
  <1> QED BY <1>1, <1>2 DEF Ordered, CompareValues

NoDoubles == {v \in Values : \A x \in Leaves[v] : x.type # "float"}

\* Values without doubles in them, however deep, have one order.
LEMMA NoDoublesOrdered == Ordered(Comparing, NoDoubles)
  <1> DEFINE E(k) == {v \in ValuesUpTo[k] : v \in NoDoubles}
             T == {k \in Nat : k <= ArrayDepth => Ordered(Comparing, E(k))}
  <1>0. ArrayDepth \in Nat BY PropertyValueAssumption
  <1>1. \A c : \A A, B : Ordered(c, B) /\ A \subseteq B => Ordered(c, A) BY DEF Ordered
  <1>2. ASSUME NEW v \in NoDoubles, NEW I, v.type = "array" => v.items \in Seq(I)
        PROVE  v \in Exact(I)
    <2>1. v \in Values BY DEF NoDoubles
    <2>2. v.type # "array" => v.type # "float" BY <2>1, LeavesAre DEF NoDoubles
    <2> QED BY <1>2, <2>1, <2>2 DEF Exact
  <1>3. 0 \in T
    <2>1. E(0) \subseteq Exact({}) BY <1>2, ItemsAre
    <2>2. Ordered(Comparing, {}) BY DEF Ordered
    <2> QED BY <1>1, <2>1, <2>2, ExactOrdered
  <1>4. ASSUME NEW k \in Nat, k \in T PROVE k + 1 \in T
    <2> SUFFICES ASSUME k + 1 <= ArrayDepth PROVE Ordered(Comparing, E(k + 1)) OBVIOUS
    <2>1. k <= ArrayDepth BY <1>0
    <2>2. Ordered(Comparing, E(k)) BY <1>4, <2>1
    <2>3. E(k) \subseteq Values BY DEF NoDoubles
    <2>4. ASSUME NEW v \in E(k + 1) PROVE v \in Exact(E(k))
      <3>1. v \in ValuesUpTo[k + 1] /\ v \in NoDoubles OBVIOUS
      <3> HIDE DEF E
      <3>2. ASSUME v.type = "array" PROVE v.items \in Seq(E(k))
        <4>1. v.items \in Seq(ValuesUpTo[k]) BY <3>1, <3>2, ItemsAre
        <4>2. PICK n \in Nat : v.items \in [1 .. n -> ValuesUpTo[k]] BY <4>1
        <4>3. v \in Values BY <3>1 DEF NoDoubles
        <4>4. ASSUME NEW i \in 1 .. n PROVE v.items[i] \in E(k)
          <5>1. v.items[i] \in ValuesUpTo[k] BY <4>2
          <5>2. v.items[i] \in Values BY <2>1, <5>1, ItemsAre
          <5>3. \A x \in Leaves[v.items[i]] : x \in Leaves[v] BY <3>2, <4>2, <4>3, LeavesAre
          <5>4. v.items[i] \in NoDoubles BY <3>1, <5>2, <5>3 DEF NoDoubles
          <5> QED BY <5>1, <5>4 DEF E
        <4>5. v.items \in [1 .. n -> E(k)] BY <4>2, <4>4
        <4> QED BY <4>5
      <3> QED BY <1>2, <3>1, <3>2
    <2>5. Ordered(Comparing, Exact(E(k))) BY <2>2, <2>3, ExactOrdered
    <2>6. E(k + 1) \subseteq Exact(E(k)) BY <2>4
    <2> HIDE DEF E
    <2> QED BY <1>1, <2>5, <2>6
  <1> HIDE DEF T
  <1>5. \A k \in Nat : k \in T BY <1>3, <1>4, Induction
  <1>6. Ordered(Comparing, E(ArrayDepth)) BY <1>0, <1>5 DEF T
  <1>7. NoDoubles = E(ArrayDepth) BY DEF NoDoubles, Values
  <1> QED BY <1>6, <1>7

\* cmp_value is a total order of all values without doubles in them.
THEOREM ExactValuesOrdered == ExactlyOrdered(NoDoubles)
  BY NoDoublesOrdered DEF Ordered, ExactlyOrdered, CompareValues

LEMMA EqualToItself == \A v \in PlainValues : EqualValues(v, v)
  <1> SUFFICES ASSUME NEW v \in PlainValues PROVE CompareValues(v, v) = 0 BY DEF EqualValues
  <1>0. v \in Values /\ v.type # "array" BY PlainIsValue, PlainTypes
  <1>1. CASE v.type = "float"
    <2>1. CompareValues(v, v) = NumericCompare(v, v)
      BY <1>0, <1>1, ComparingIs DEF PlainCompare, SameRankCompare
    <2>2. NumericCompare(v, v) = 0 \/ NumericCompare(v, v) = Compare(AsDouble(v), AsDouble(v))
      BY <1>1 DEF NumericCompare, AsExact, IntegralTypes
    <2>3. v # NaN => AsDouble(v) \in Int
      <3> SUFFICES ASSUME v # NaN PROVE AsDouble(v) \in Int OBVIOUS
      <3>1. v.n \in One(Doubles) BY <1>1, PlainIs DEF Null, Text, Value, TextTypes, IntegralTypes
      <3>2. v.n[1] \in Int BY <3>1, OnesAre, PropertyValueAssumption
      <3> QED BY <1>1, <3>2 DEF AsDouble
    <2>4. v = NaN => NumericCompare(v, v) = 0 BY <1>1 DEF NumericCompare, AsExact, AsDouble, IntegralTypes
    <2> QED BY <2>1, <2>2, <2>3, <2>4, CompareIs
  <1>2. CASE v.type # "float"
    <2>1. v \in NoDoubles BY <1>0, <1>2, LeavesAre DEF NoDoubles
    <2>2. Comparing[v][v] \in {-1, 0, 1} /\ Comparing[v][v] = -Comparing[v][v]
      BY <2>1, NoDoublesOrdered DEF Ordered
    <2> QED BY <2>2 DEF CompareValues
  <1> QED BY <1>1, <1>2

\* As the literal of a query, what /public/v1 shows of a value finds the value.
LEMMA LiteralEquals ==
  ASSUME NEW v \in Values, Kept(v), v.type # "array"
  PROVE  EqualValues(CoerceLike(FromJson[ToCompatJson[v]], v), v)
  <1>0. Leaves[v] = {v} BY LeavesAre
  <1>1. v.type # "json" /\ v # NaN /\ (v.type = "time" => v.n[2] % 10 = 0)
    BY <1>0 DEF Kept, InMicroseconds
  <1>2. v \in PlainValues BY <1>1, ValuesAre
  <1>3. ToCompatJson[v] = ShownBy(ToCompatJson, v) BY ToCompatJsonIs
  <1>4. CASE FromJson[ToCompatJson[v]] = v
    <2>1. CoerceLike(v, v) = v BY DEF CoerceLike
    <2> QED BY <1>2, <1>4, <2>1, EqualToItself
  <1>5. CASE v.type \in {"int32", "int16"}
    <2>1. v.n \in One(LongRange)
      BY <1>2, <1>5, PlainIs DEF Null, NaN, Value, Text, TextTypes, IntegralTypes
    <2>2. v.n[1] \in LongRange BY <2>1, OnesAre
    <2> DEFINE w == Value("long", <<v.n[1]>>)
    <2>3. ToCompatJson[v] = JInteger(v.n[1]) BY <1>3, <1>5 DEF ShownBy, TextTypes
    <2>4. FromJson[ToCompatJson[v]] = w BY <2>2, <2>3, ScalarsRead
    <2>5. w.type = "long" /\ w.n[1] = v.n[1] BY DEF Value
    <2>6. w \in Values
      <3>1. <<v.n[1]>> \in One(LongRange) BY <2>2 DEF One
      <3>2. w \in ValuesAs("long", One(LongRange)) BY <3>1 DEF ValuesAs, Value
      <3> QED BY <3>2, PlainIsValue DEF PlainValues
    <2> HIDE DEF w
    <2>7. IsExactNumber(v) /\ IsExactNumber(w) BY <1>5, <2>5 DEF IsExactNumber, IntegralTypes
    <2>8. UnitsOfNumber(v) = UnitsOfNumber(w) BY <1>5, <2>5 DEF UnitsOfNumber
    <2>9. UnitsOfNumber(v) \in Int BY <2>7, ExactNumberIs
    <2>10. CompareValues(w, v) = 0 BY <2>6, <2>7, <2>8, <2>9, NumbersCompare, CompareIs
    <2>11. Rank(w) = Rank(v) BY <2>6, <2>7, RankIs
    <2>12. CoerceLike(w, v) = w BY <2>11 DEF CoerceLike
    <2> QED BY <2>4, <2>10, <2>11, <2>12 DEF EqualValues
  <1>6. CASE v.type \in TextTypes
    <2>1. v.n \in Payload[v.type] /\ v = Value(v.type, v.n)
      BY <1>2, <1>6, PlainIs DEF Null, NaN, Value, Text, TextTypes, IntegralTypes
    <2>2. PayloadText(v) \in Texts /\ PayloadText(v).as = v.type /\ PayloadText(v).n = v.n
      BY <1>1, <1>6, <2>1, PayloadTexts
    <2>3. ToCompatJson[v] = JString(PayloadText(v)) BY <1>3, <1>6 DEF ShownBy, TextTypes
    <2> DEFINE w == Text(PayloadText(v))
    <2>4. FromJson[ToCompatJson[v]] = w BY <2>2, <2>3, ScalarsRead
    <2>5. w.type = "text" /\ w.text = PayloadText(v) BY DEF Text
    <2> HIDE DEF w
    <2>6. Rank(w) # Rank(v) BY <1>6, <2>5 DEF Rank, TextTypes, IntegralTypes
    <2>7. IsSqlTyped(v) BY <1>6 DEF IsSqlTyped, LegacyTypes, TextTypes
    <2>8. CoerceLike(w, v) = v BY <1>6, <2>1, <2>2, <2>5, <2>6, <2>7 DEF CoerceLike
    <2> QED BY <1>2, <2>4, <2>8, EqualToItself
  <1>7. v.type \notin {"int32", "int16"} \union TextTypes => FromJson[ToCompatJson[v]] = v
    <2> SUFFICES ASSUME v.type \notin {"int32", "int16"} \union TextTypes
                 PROVE  FromJson[ToCompatJson[v]] = v
      OBVIOUS
    <2>1. ToCompatJson[v] = PlainToJson(v) BY <1>3 DEF ShownBy
    <2> QED BY <1>1, <1>2, <2>1, PlainTrip
  <1> QED BY <1>4, <1>5, <1>6, <1>7

-------------------------------------------------------------------------------
\* A column

ColumnInv ==
  /\ values \in Seq(Values)
  /\ stored \in BOOLEAN
  /\ stored = TRUE => \A i \in DOMAIN values : \A x \in Leaves[values[i]] : ReadBack(x)

LEMMA ColumnInvInit == InitColumn \/ NoColumn => ColumnInv
  <1>1. ASSUME InitColumn PROVE ColumnInv
    <2>1. PICK v \in Column, w \in Column, x \in Column : values = <<v, w, x>> /\ stored = FALSE
      BY <1>1 DEF InitColumn
    <2>2. Column \subseteq Values BY PropertyValueAssumption
    <2>3. v \in Values /\ w \in Values /\ x \in Values BY <2>2
    <2>4. <<v, w, x>> \in Seq(Values) BY <2>3
    <2>5. values \in Seq(Values) BY <2>1, <2>4
    <2>6. stored \in BOOLEAN /\ stored # TRUE BY <2>1
    <2> QED BY <2>5, <2>6 DEF ColumnInv
  <1>2. ASSUME NoColumn PROVE ColumnInv
    <2>1. values = <<>> /\ stored = FALSE BY <1>2 DEF NoColumn
    <2>2. values \in Seq(Values) BY <2>1
    <2>3. stored \in BOOLEAN /\ stored # TRUE BY <2>1
    <2> QED BY <2>2, <2>3 DEF ColumnInv
  <1> QED BY <1>1, <1>2

LEMMA TripsAre ==
  ASSUME ColumnInv, WriteAndReadColumn
  PROVE  /\ values' \in Seq(Values) /\ stored' = TRUE
         /\ DOMAIN values' = DOMAIN values
         /\ \A i \in DOMAIN values : values'[i] = FromJson[ToJson[values[i]]] /\ values[i] \in Values
  <1>1. PICK n \in Nat : values \in [1 .. n -> Values] BY DEF ColumnInv
  <1>2. \A v \in Values : FromJson[ToJson[v]] \in Values BY ToJsonIs, FromJsonIs
  <1>3. values' = [i \in 1 .. n |-> FromJson[ToJson[values[i]]]] /\ stored' = TRUE
    BY <1>1 DEF WriteAndReadColumn
  <1>4. values' \in [1 .. n -> Values] BY <1>1, <1>2, <1>3
  <1> QED BY <1>1, <1>3, <1>4

LEMMA ColumnInvNext == ColumnInv /\ [WriteAndReadColumn]_columnVars => ColumnInv'
  <1>1. ASSUME ColumnInv, WriteAndReadColumn PROVE ColumnInv'
    <2>1. /\ values' \in Seq(Values) /\ stored' = TRUE /\ DOMAIN values' = DOMAIN values
          /\ \A i \in DOMAIN values : values'[i] = FromJson[ToJson[values[i]]] /\ values[i] \in Values
      BY <1>1, TripsAre
    <2>2. ASSUME NEW i \in DOMAIN values' PROVE \A x \in Leaves[values'[i]] : ReadBack(x)
      <3>1. ToJson[values[i]] \in Docs BY <2>1, ToJsonIs
      <3> QED BY <2>1, <3>1, ReadsBack
    <2> QED BY <2>1, <2>2 DEF ColumnInv
  <1>2. ASSUME ColumnInv, UNCHANGED columnVars PROVE ColumnInv'
    BY <1>2 DEF ColumnInv, columnVars
  <1> QED BY <1>1, <1>2

LEMMA ColumnStable ==
  ASSUME ColumnInv, WriteAndReadColumn, NEW i \in DOMAIN values,
         IF stored THEN InMicroseconds(values[i]) ELSE Kept(values[i])
  PROVE  values'[i] = values[i]
  <1>1. values[i] \in Values /\ values'[i] = FromJson[ToJson[values[i]]] BY TripsAre
  <1>2. ASSUME NEW x \in Leaves[values[i]] PROVE Stable(x)
    <2>1. CASE stored = TRUE
      <3>1. ReadBack(x) BY <2>1 DEF ColumnInv
      <3> QED BY <2>1, <3>1 DEF Stable, ReadBack, InMicroseconds
    <2>2. CASE stored = FALSE
      <3>1. Kept(values[i]) BY <2>2
      <3> QED BY <3>1 DEF Stable, Kept, InMicroseconds
    <2> QED BY <2>1, <2>2 DEF ColumnInv
  <1> QED BY <1>1, <1>2, RoundTrip

LEMMA StableSteps ==
  ColumnInv /\ [WriteAndReadColumn]_columnVars =>
    [\A i \in DOMAIN values :
       (IF stored THEN InMicroseconds(values[i]) ELSE Kept(values[i]))
         => values'[i] = values[i]]_columnVars
  BY ColumnStable

THEOREM StoredValuesAlwaysStable == ColumnSpec => StoredValueStable
  BY ColumnInvInit, ColumnInvNext, StableSteps, PTL DEF ColumnSpec, StoredValueStable

\* What is in a column.
LEMMA ColumnIn == ColumnInv => \A v \in Range(values) : v \in Values
  BY DEF ColumnInv, Range

LEMMA ColumnOrdered == ColumnInv => ExactOrderTotal
  <1> SUFFICES ASSUME ColumnInv, \A v \in Range(values) : \A x \in Leaves[v] : x.type # "float"
               PROVE  /\ ExactlyOrdered(Range(values))
                      /\ \A v, w \in Range(values) :
                           IsExactNumber(v) /\ IsExactNumber(w) =>
                             CompareValues(v, w) = Compare(UnitsOfNumber(v), UnitsOfNumber(w))
    BY DEF ExactOrderTotal
  <1>1. \A v \in Range(values) : v \in Values BY ColumnIn
  <1>2. \A v \in Range(values) : v \in NoDoubles BY <1>1 DEF NoDoubles
  <1>3. ExactlyOrdered(Range(values))
    <2>1. ExactlyOrdered(NoDoubles) BY NoDoublesOrdered DEF Ordered, ExactlyOrdered, CompareValues
    <2> QED BY <1>2, <2>1 DEF ExactlyOrdered
  <1> QED BY <1>1, <1>3, NumbersCompare

THEOREM ExactOrderAlwaysTotal == ColumnSpec => []ExactOrderTotal
  BY ColumnInvInit, ColumnInvNext, ColumnOrdered, PTL DEF ColumnSpec

LEMMA ColumnFinds == ColumnInv => LiteralFindsStored
  BY ColumnIn, LiteralEquals DEF LiteralFindsStored

THEOREM LiteralsAlwaysFind == ColumnSpec => []LiteralFindsStored
  BY ColumnInvInit, ColumnInvNext, ColumnFinds, PTL DEF ColumnSpec

-------------------------------------------------------------------------------
\* Prefixes of sequences

LEMMA UpToProperties ==
  ASSUME NEW S, NEW s \in Seq(S), NEW n \in 0 .. Len(s)
  PROVE  /\ UpTo(s, n) \in Seq(S) /\ Len(UpTo(s, n)) = n
         /\ \A i \in 1 .. n : UpTo(s, n)[i] = s[i]
         /\ \A m \in 0 .. n : UpTo(UpTo(s, n), m) = UpTo(s, m)
         /\ n > 0 => Front(UpTo(s, n)) = UpTo(s, n - 1) /\ Last(UpTo(s, n)) = s[n]
  <1>1. ASSUME NEW k \in 0 .. Len(s)
        PROVE  /\ UpTo(s, k) \in Seq(S) /\ Len(UpTo(s, k)) = k
               /\ \A i \in 1 .. k : UpTo(s, k)[i] = s[i]
    <2>1. \A i \in 1 .. k : s[i] \in S OBVIOUS
    <2>2. 1 \in Int /\ k \in Int /\ k - 1 + 1 = k /\ \A i \in 1 .. k : 1 + i - 1 = i OBVIOUS
    <2> QED BY <2>1, <2>2, SubSeqProperties DEF UpTo
  <1>2. ASSUME NEW m \in 0 .. n PROVE UpTo(UpTo(s, n), m) = UpTo(s, m)
    <2> DEFINE u == UpTo(s, n)
    <2>1. /\ u \in Seq(S) /\ Len(u) = n
          /\ \A i \in 1 .. n : u[i] = s[i]
      BY <1>1
    <2>2. /\ UpTo(s, m) \in Seq(S) /\ Len(UpTo(s, m)) = m
          /\ \A i \in 1 .. m : UpTo(s, m)[i] = s[i]
      BY <1>1
    <2>3. /\ UpTo(u, m) \in Seq(S) /\ Len(UpTo(u, m)) = m
          /\ \A i \in 1 .. m : UpTo(u, m)[i] = u[i]
      <3> HIDE DEF u
      <3>1. \A i \in 1 .. m : u[i] \in S BY <2>1
      <3>2. 1 \in Int /\ m \in Int /\ m - 1 + 1 = m /\ \A i \in 1 .. m : 1 + i - 1 = i OBVIOUS
      <3> QED BY <3>1, <3>2, SubSeqProperties DEF UpTo
    <2> HIDE DEF u
    <2>4. \A i \in 1 .. m : UpTo(u, m)[i] = UpTo(s, m)[i] BY <2>1, <2>2, <2>3
    <2>5. UpTo(u, m) = UpTo(s, m) BY <2>2, <2>3, <2>4, SeqEqual
    <2> QED BY <2>5 DEF u
  <1>3. ASSUME n > 0 PROVE Front(UpTo(s, n)) = UpTo(s, n - 1) /\ Last(UpTo(s, n)) = s[n]
    <2>1. Front(UpTo(s, n)) = UpTo(UpTo(s, n), n - 1) BY <1>1 DEF Front, UpTo
    <2>2. n - 1 \in 0 .. n /\ n \in 1 .. n BY <1>3
    <2> QED BY <1>1, <1>2, <2>1, <2>2 DEF Last
  <1> QED BY <1>1, <1>2, <1>3

LEMMA UpToAll ==
  ASSUME NEW S, NEW s \in Seq(S)
  PROVE  UpTo(s, Len(s)) = s
  BY SubSeqFull DEF UpTo

LEMMA FrontLast ==
  ASSUME NEW S, NEW s \in Seq(S), Len(s) > 0
  PROVE  Front(s) = UpTo(s, Len(s) - 1) /\ Last(s) = s[Len(s)] /\ Len(s) \in DOMAIN s
  BY DEF Front, Last, UpTo

LEMMA PrefixIs ==
  ASSUME NEW S, NEW s \in Seq(S), NEW t \in Seq(S)
  PROVE  IsPrefix(s, t) <=> Len(s) \in 0 .. Len(t) /\ s = UpTo(t, Len(s))
  <1>1. SubSeq(s, 1, Len(s)) = s BY SubSeqFull
  <1> QED BY <1>1 DEF IsPrefix, UpTo

LEMMA PrefixPointwise ==
  ASSUME NEW S, NEW s \in Seq(S), NEW t \in Seq(S)
  PROVE  IsPrefix(s, t) <=> Len(s) <= Len(t) /\ \A i \in 1 .. Len(s) : s[i] = t[i]
  <1>1. ASSUME IsPrefix(s, t) PROVE Len(s) <= Len(t) /\ \A i \in 1 .. Len(s) : s[i] = t[i]
    <2>1. Len(s) \in 0 .. Len(t) /\ s = UpTo(t, Len(s)) BY <1>1, PrefixIs
    <2>2. \A i \in 1 .. Len(s) : UpTo(t, Len(s))[i] = t[i] BY <2>1, UpToProperties
    <2> QED BY <2>1, <2>2
  <1>2. ASSUME Len(s) <= Len(t), \A i \in 1 .. Len(s) : s[i] = t[i] PROVE IsPrefix(s, t)
    <2>1. Len(s) \in 0 .. Len(t) BY <1>2
    <2>2. /\ UpTo(t, Len(s)) \in Seq(S) /\ Len(UpTo(t, Len(s))) = Len(s)
          /\ \A i \in 1 .. Len(s) : UpTo(t, Len(s))[i] = t[i]
      BY <2>1, UpToProperties
    <2>3. \A i \in 1 .. Len(s) : UpTo(t, Len(s))[i] = s[i] BY <1>2, <2>2
    <2>4. UpTo(t, Len(s)) = s BY <2>2, <2>3, SeqEqual
    <2> QED BY <2>1, <2>4, PrefixIs
  <1> QED BY <1>1, <1>2

LEMMA UpToIsPrefix ==
  ASSUME NEW S, NEW t \in Seq(S), NEW n \in 0 .. Len(t)
  PROVE  IsPrefix(UpTo(t, n), t) /\ (n < Len(t) => UpTo(t, n) # t)
  <1>1. UpTo(t, n) \in Seq(S) /\ Len(UpTo(t, n)) = n BY UpToProperties
  <1> QED BY <1>1, PrefixIs

\* Two prefixes of one sequence.
LEMMA Comparable ==
  ASSUME NEW S, NEW s \in Seq(S), NEW t \in Seq(S), NEW u \in Seq(S),
         IsPrefix(s, u), IsPrefix(t, u)
  PROVE  IsPrefix(s, t) \/ IsPrefix(t, s)
  <1>1. Len(s) <= Len(u) /\ \A i \in 1 .. Len(s) : s[i] = u[i] BY PrefixPointwise
  <1>2. Len(t) <= Len(u) /\ \A i \in 1 .. Len(t) : t[i] = u[i] BY PrefixPointwise
  <1>3. CASE Len(s) <= Len(t)
    <2>1. \A i \in 1 .. Len(s) : s[i] = t[i] BY <1>1, <1>2, <1>3
    <2> QED BY <1>3, <2>1, PrefixPointwise
  <1>4. CASE Len(t) <= Len(s)
    <2>1. \A i \in 1 .. Len(t) : t[i] = s[i] BY <1>1, <1>2, <1>4
    <2> QED BY <1>4, <2>1, PrefixPointwise
  <1> QED BY <1>3, <1>4

LEMMA PrefixOfPrefix ==
  ASSUME NEW S, NEW s \in Seq(S), NEW t \in Seq(S), NEW u \in Seq(S),
         IsPrefix(s, t), IsPrefix(t, u)
  PROVE  IsPrefix(s, u)
  <1>1. Len(s) <= Len(t) /\ \A i \in 1 .. Len(s) : s[i] = t[i] BY PrefixPointwise
  <1>2. Len(t) <= Len(u) /\ \A i \in 1 .. Len(t) : t[i] = u[i] BY PrefixPointwise
  <1>3. \A i \in 1 .. Len(s) : s[i] = u[i] BY <1>1, <1>2
  <1> QED BY <1>1, <1>2, <1>3, PrefixPointwise

\* What is left of a sequence after a prefix of it.
LEMMA RestAfterPrefix ==
  ASSUME NEW S, NEW s \in Seq(S), NEW t \in Seq(S), IsPrefix(s, t)
  PROVE  /\ SubSeq(t, Len(s) + 1, Len(t)) \in Seq(S)
         /\ s \o SubSeq(t, Len(s) + 1, Len(t)) = t
  <1>1. Len(s) \in 0 .. Len(t) /\ s = SubSeq(t, 1, Len(s)) BY PrefixIs DEF UpTo
  <1>2. /\ 1 \in 1 .. Len(t) + 1 /\ Len(s) \in 1 - 1 .. Len(t) /\ Len(t) \in Len(s) .. Len(t)
        /\ SubSeq(t, 1, Len(t)) = t
    BY <1>1, SubSeqFull
  <1>3. SubSeq(t, 1, Len(s)) \o SubSeq(t, Len(s) + 1, Len(t)) = SubSeq(t, 1, Len(t))
    BY <1>2, ConcatAdjacentSubSeq
  <1>4. \A i \in Len(s) + 1 .. Len(t) : t[i] \in S BY <1>1
  <1>5. SubSeq(t, Len(s) + 1, Len(t)) \in Seq(S) BY <1>1, <1>4, SubSeqProperties
  <1> QED BY <1>1, <1>2, <1>3, <1>5

-------------------------------------------------------------------------------
\* Documents

Positions == Seq(Nat)

\* The members kept on the way to a position.
IsKept(doc, p) == \A k \in DOMAIN p : IsLast(doc, UpTo(p, k))

LEMMA PositionIn ==
  ASSUME NEW doc, IsDocument(doc), NEW p \in DOMAIN doc
  PROVE  /\ p \in Positions
         /\ \A n \in 0 .. Len(p) : UpTo(p, n) \in DOMAIN doc
         /\ \A n \in 0 .. Len(p) - 1 : doc[UpTo(p, n)].node # "scalar"
  <1>1. p \in Positions BY DEF IsDocument, Positions
  <1>2. ASSUME NEW n \in 0 .. Len(p) - 1
        PROVE  UpTo(p, n) \in DOMAIN doc /\ doc[UpTo(p, n)].node # "scalar"
    <2>1. n + 1 \in DOMAIN p /\ (n + 1) - 1 = n BY <1>1 DEF Positions
    <2> QED BY <2>1 DEF IsDocument
  <1>3. UpTo(p, Len(p)) = p BY <1>1, UpToAll DEF Positions
  <1>4. \A n \in 0 .. Len(p) : n = Len(p) \/ n \in 0 .. Len(p) - 1 BY <1>1 DEF Positions
  <1> QED BY <1>1, <1>2, <1>3, <1>4

LEMMA StepToType ==
  ASSUME NEW doc, IsDocument(doc), NEW q \in DOMAIN doc, Len(q) > 0
  PROVE  /\ StepTo(doc, q) \in Steps
         /\ \A step \in Steps : Matches(doc, q, step) <=> StepTo(doc, q) = step
  <1>1. q \in Seq(Nat) BY DEF IsDocument
  <1>2. Front(q) = UpTo(q, Len(q) - 1) /\ Last(q) = q[Len(q)] /\ Len(q) \in DOMAIN q
    BY <1>1, FrontLast
  <1> DEFINE parent == doc[Front(q)]
  <1>3. Front(q) \in DOMAIN doc /\ parent.node # "scalar" BY <1>2 DEF IsDocument
  <1>4. parent.node = "object" => Last(q) \in DOMAIN parent.members
    BY <1>2 DEF IsDocument
  <1>5. \/ parent.node = "array"
        \/ parent.node = "object" /\ parent.members \in Seq([key : STRING, escaped : BOOLEAN])
    BY <1>3 DEF IsDocument
  <1>6. Last(q) \in Nat BY <1>1, <1>2
  <1> HIDE DEF parent
  <1>7. CASE parent.node = "array"
    <2>1. StepTo(doc, q) = IndexStep(Last(q)) BY <1>7 DEF StepTo, parent
    <2>2. IndexStep(Last(q)) \in Steps BY <1>6 DEF IndexStep, Steps
    <2>3. ASSUME NEW step \in Steps
          PROVE  Matches(doc, q, step) <=> IndexStep(Last(q)) = step
      <3>1. CASE step \in [step : {"key"}, key : STRING]
        <4>1. ~Matches(doc, q, step) BY <1>7, <3>1 DEF Matches, parent
        <4>2. IndexStep(Last(q)).step = "index" BY DEF IndexStep
        <4> QED BY <3>1, <4>1, <4>2
      <3>2. CASE step \in [step : {"index"}, index : Nat]
        <4>1. Matches(doc, q, step) <=> Last(q) = step.index BY <1>7, <3>2 DEF Matches, parent
        <4>2. step = [step |-> "index", index |-> step.index] BY <3>2
        <4>3. IndexStep(Last(q)).index = Last(q) BY DEF IndexStep
        <4> QED BY <4>1, <4>2, <4>3 DEF IndexStep
      <3> QED BY <3>1, <3>2 DEF Steps
    <2> QED BY <2>1, <2>2, <2>3
  <1>8. CASE parent.node = "object"
    <2> DEFINE key == parent.members[Last(q)].key
    <2>1. StepTo(doc, q) = KeyStep(key) BY <1>8 DEF StepTo, parent
    <2>2. key \in STRING
      <3>1. parent.members \in Seq([key : STRING, escaped : BOOLEAN]) BY <1>5, <1>8
      <3>2. \A S, s : s \in Seq(S) => \A i \in DOMAIN s : s[i] \in S OBVIOUS
      <3>3. parent.members[Last(q)] \in [key : STRING, escaped : BOOLEAN]
        BY <1>4, <1>8, <3>1, <3>2
      <3> QED BY <3>3
    <2> HIDE DEF key
    <2>3. KeyStep(key) \in Steps BY <2>2 DEF KeyStep, Steps
    <2>4. ASSUME NEW step \in Steps
          PROVE  Matches(doc, q, step) <=> KeyStep(key) = step
      <3>1. CASE step \in [step : {"index"}, index : Nat]
        <4>1. ~Matches(doc, q, step) BY <1>8, <3>1 DEF Matches, parent
        <4>2. KeyStep(key).step = "key" BY DEF KeyStep
        <4> QED BY <3>1, <4>1, <4>2
      <3>2. CASE step \in [step : {"key"}, key : STRING]
        <4>1. Matches(doc, q, step) <=> key = step.key BY <1>8, <3>2 DEF Matches, parent, key
        <4>2. step = [step |-> "key", key |-> step.key] BY <3>2
        <4>3. KeyStep(key).key = key BY DEF KeyStep
        <4> QED BY <4>1, <4>2, <4>3 DEF KeyStep
      <3> QED BY <3>1, <3>2 DEF Steps
    <2> QED BY <2>1, <2>3, <2>4
  <1> QED BY <1>5, <1>7, <1>8

LEMMA StepsToType ==
  ASSUME NEW doc, IsDocument(doc), NEW p \in DOMAIN doc
  PROVE  /\ StepsTo(doc, p) \in Seq(Steps)
         /\ Len(StepsTo(doc, p)) = Len(p)
         /\ \A k \in DOMAIN p : StepsTo(doc, p)[k] = StepTo(doc, UpTo(p, k))
         /\ \A n \in 0 .. Len(p) : StepsTo(doc, UpTo(p, n)) = UpTo(StepsTo(doc, p), n)
  <1>1. ASSUME NEW r \in DOMAIN doc
        PROVE  /\ StepsTo(doc, r) \in Seq(Steps) /\ Len(StepsTo(doc, r)) = Len(r)
               /\ \A k \in DOMAIN r : StepsTo(doc, r)[k] = StepTo(doc, UpTo(r, k))
    <2>1. r \in Seq(Nat) /\ \A n \in 0 .. Len(r) : UpTo(r, n) \in DOMAIN doc
      BY PositionIn DEF Positions
    <2>2. DOMAIN r = 1 .. Len(r) /\ Len(r) \in Nat BY <2>1
    <2>3. ASSUME NEW k \in DOMAIN r PROVE StepTo(doc, UpTo(r, k)) \in Steps
      <3>1. k \in 0 .. Len(r) /\ k > 0 BY <2>2
      <3>2. UpTo(r, k) \in DOMAIN doc /\ Len(UpTo(r, k)) = k BY <2>1, <3>1, UpToProperties
      <3> QED BY <3>1, <3>2, StepToType
    <2>4. StepsTo(doc, r) \in [1 .. Len(r) -> Steps] BY <2>2, <2>3 DEF StepsTo
    <2> QED BY <2>2, <2>4 DEF StepsTo
  <1>2. ASSUME NEW n \in 0 .. Len(p)
        PROVE  StepsTo(doc, UpTo(p, n)) = UpTo(StepsTo(doc, p), n)
    <2> DEFINE u == UpTo(p, n)
               s == StepsTo(doc, p)
    <2>1. p \in Seq(Nat) BY PositionIn DEF Positions
    <2>2. u \in DOMAIN doc BY PositionIn
    <2>3. /\ Len(u) = n /\ u \in Seq(Nat)
          /\ \A m \in 0 .. n : UpTo(u, m) = UpTo(p, m)
      BY <2>1, UpToProperties
    <2>4. /\ StepsTo(doc, u) \in Seq(Steps) /\ Len(StepsTo(doc, u)) = n
          /\ \A k \in 1 .. n : StepsTo(doc, u)[k] = StepTo(doc, UpTo(u, k))
      BY <1>1, <2>2, <2>3
    <2>5. /\ s \in Seq(Steps) /\ Len(s) = Len(p)
          /\ \A k \in 1 .. Len(p) : s[k] = StepTo(doc, UpTo(p, k))
      BY <1>1, <2>1
    <2> HIDE DEF s, u
    <2>6. /\ UpTo(s, n) \in Seq(Steps) /\ Len(UpTo(s, n)) = n
          /\ \A k \in 1 .. n : UpTo(s, n)[k] = s[k]
      <3>1. n \in 0 .. Len(s) BY <2>5
      <3> QED BY <2>5, <3>1, UpToProperties
    <2>7. \A k \in 1 .. n : StepsTo(doc, u)[k] = UpTo(s, n)[k]
      <3> TAKE k \in 1 .. n
      <3>1. k \in 1 .. Len(p) /\ k \in 0 .. n BY <2>1
      <3> QED BY <2>3, <2>4, <2>5, <2>6, <3>1
    <2>8. StepsTo(doc, u) = UpTo(s, n) BY <2>4, <2>6, <2>7, SeqEqual
    <2> QED BY <2>8 DEF s, u
  <1> QED BY <1>1, <1>2

\* A position within another one is reached by more steps.
LEMMA StepsWithin ==
  ASSUME NEW doc, IsDocument(doc), NEW p \in DOMAIN doc, NEW q \in DOMAIN doc, IsPrefix(p, q)
  PROVE  /\ IsPrefix(StepsTo(doc, p), StepsTo(doc, q))
         /\ p # q => StepsTo(doc, p) # StepsTo(doc, q)
  <1>1. p \in Seq(Nat) /\ q \in Seq(Nat) BY PositionIn DEF Positions
  <1>2. Len(p) \in 0 .. Len(q) /\ p = UpTo(q, Len(p)) BY <1>1, PrefixIs
  <1>3. StepsTo(doc, p) = UpTo(StepsTo(doc, q), Len(p)) BY <1>2, StepsToType
  <1>4. /\ StepsTo(doc, p) \in Seq(Steps) /\ StepsTo(doc, q) \in Seq(Steps)
        /\ Len(StepsTo(doc, p)) = Len(p) /\ Len(StepsTo(doc, q)) = Len(q)
    BY StepsToType
  <1>5. p # q => Len(p) # Len(q)
    <2>1. UpTo(q, Len(q)) = q BY <1>1, UpToAll
    <2> QED BY <1>2, <2>1
  <1>6. IsPrefix(StepsTo(doc, p), StepsTo(doc, q)) BY <1>2, <1>3, <1>4, PrefixIs
  <1> QED BY <1>4, <1>5, <1>6

\* A path that leads on to a position leads to one of the positions around it.
LEMMA WhereThePathEnds ==
  ASSUME NEW doc, IsDocument(doc), NEW q \in DOMAIN doc, NEW path \in Seq(Steps),
         IsPrefix(path, StepsTo(doc, q))
  PROVE  LET p == UpTo(q, Len(path)) IN
         /\ p \in DOMAIN doc /\ Len(p) = Len(path) /\ IsPrefix(p, q)
         /\ StepsTo(doc, p) = path
         /\ path # StepsTo(doc, q) => p # q
  <1>1. q \in Seq(Nat) BY PositionIn DEF Positions
  <1>2. StepsTo(doc, q) \in Seq(Steps) /\ Len(StepsTo(doc, q)) = Len(q) BY StepsToType
  <1>3. Len(path) \in 0 .. Len(q) /\ path = UpTo(StepsTo(doc, q), Len(path))
    BY <1>2, PrefixIs
  <1>4. UpTo(q, Len(path)) \in DOMAIN doc BY <1>3, PositionIn
  <1>5. StepsTo(doc, UpTo(q, Len(path))) = path BY <1>3, StepsToType
  <1>6. Len(UpTo(q, Len(path))) = Len(path) /\ IsPrefix(UpTo(q, Len(path)), q)
    BY <1>1, <1>3, UpToProperties, UpToIsPrefix
  <1> QED BY <1>4, <1>5, <1>6

LEMMA KeptUpTo ==
  ASSUME NEW doc, IsDocument(doc), NEW q \in DOMAIN doc, IsKept(doc, q), NEW n \in 0 .. Len(q)
  PROVE  IsKept(doc, UpTo(q, n))
  <1>1. q \in Seq(Nat) BY PositionIn DEF Positions
  <1>2. UpTo(q, n) \in Seq(Nat) /\ Len(UpTo(q, n)) = n /\ \A m \in 0 .. n : UpTo(UpTo(q, n), m) = UpTo(q, m)
    BY <1>1, UpToProperties
  <1>3. ASSUME NEW k \in DOMAIN UpTo(q, n) PROVE IsLast(doc, UpTo(UpTo(q, n), k))
    <2>1. k \in 1 .. n BY <1>2
    <2>2. k \in 0 .. n /\ k \in DOMAIN q BY <1>1, <2>1
    <2> QED BY <1>2, <2>2 DEF IsKept
  <1> QED BY <1>3 DEF IsKept

\* The same steps lead to no two kept positions.
LEMMA KeptOnce ==
  ASSUME NEW doc, IsDocument(doc), NEW p \in DOMAIN doc, NEW q \in DOMAIN doc,
         IsKept(doc, p), IsKept(doc, q), StepsTo(doc, p) = StepsTo(doc, q)
  PROVE  p = q
  <1>1. p \in Seq(Nat) /\ q \in Seq(Nat) BY PositionIn DEF Positions
  <1>2. Len(p) = Len(q) BY StepsToType
  <1> DEFINE T == {k \in Nat : k <= Len(p) => UpTo(p, k) = UpTo(q, k)}
  <1>3. 0 \in T
    <2>1. UpTo(p, 0) = <<>> /\ UpTo(q, 0) = <<>> BY SubSeqEmpty DEF UpTo
    <2> QED BY <2>1
  <1>4. ASSUME NEW n \in Nat, n \in T PROVE n + 1 \in T
    <2> SUFFICES ASSUME n + 1 <= Len(p) PROVE UpTo(p, n + 1) = UpTo(q, n + 1) OBVIOUS
    <2> DEFINE a == UpTo(p, n + 1)
               b == UpTo(q, n + 1)
    <2>1. UpTo(p, n) = UpTo(q, n) BY <1>1, <1>4
    <2>2. /\ n + 1 \in 0 .. Len(p) /\ n + 1 \in 0 .. Len(q) /\ n + 1 > 0 /\ (n + 1) - 1 = n
          /\ n + 1 \in DOMAIN p /\ n + 1 \in DOMAIN q
      BY <1>1, <1>2
    <2>3. /\ a \in Seq(Nat) /\ Len(a) = n + 1 /\ Front(a) = UpTo(p, n) /\ Last(a) = p[n + 1]
          /\ \A i \in 1 .. n + 1 : a[i] = p[i]
      BY <1>1, <2>2, UpToProperties
    <2>4. /\ b \in Seq(Nat) /\ Len(b) = n + 1 /\ Front(b) = UpTo(q, n) /\ Last(b) = q[n + 1]
          /\ \A i \in 1 .. n + 1 : b[i] = q[i]
      BY <1>1, <2>2, UpToProperties
    <2>5. a \in DOMAIN doc /\ b \in DOMAIN doc BY <2>2, PositionIn
    <2>6. StepTo(doc, a) = StepTo(doc, b)
      <3>1. StepsTo(doc, p)[n + 1] = StepTo(doc, a) BY <2>2, StepsToType
      <3>2. StepsTo(doc, q)[n + 1] = StepTo(doc, b) BY <2>2, StepsToType
      <3> QED BY <3>1, <3>2
    <2>7. IsLast(doc, a) /\ IsLast(doc, b) BY <2>2 DEF IsKept
    <2> HIDE DEF a, b
    <2>8. Last(a) <= Last(b) /\ Last(b) <= Last(a)
      BY <2>1, <2>3, <2>4, <2>5, <2>6, <2>7 DEF IsLast
    <2>9. p[n + 1] = q[n + 1]
      <3>1. p[n + 1] \in Nat /\ q[n + 1] \in Nat BY <1>1, <2>2
      <3> QED BY <2>3, <2>4, <2>8, <3>1
    <2>10. \A i \in 1 .. n : p[i] = q[i]
      <3>1. n \in 0 .. Len(p) /\ n \in 0 .. Len(q) BY <1>1, <2>2
      <3>2. \A i \in 1 .. n : UpTo(p, n)[i] = p[i] /\ UpTo(q, n)[i] = q[i]
        BY <1>1, <3>1, UpToProperties
      <3> QED BY <2>1, <3>2
    <2>11. \A i \in 1 .. n + 1 : a[i] = b[i]
      <3> TAKE i \in 1 .. n + 1
      <3>1. i \in 1 .. n \/ i = n + 1 OBVIOUS
      <3> QED BY <2>3, <2>4, <2>9, <2>10, <3>1
    <2>12. a = b BY <2>3, <2>4, <2>11, SeqEqual
    <2> QED BY <2>12 DEF a, b
  <1> HIDE DEF T
  <1>5. \A n \in Nat : n \in T BY <1>3, <1>4, Induction
  <1>6. UpTo(p, Len(p)) = UpTo(q, Len(p)) BY <1>1, <1>5 DEF T
  <1> QED BY <1>1, <1>2, <1>6, UpToAll

-------------------------------------------------------------------------------
\* The cursor

Occurrences(doc, path) == {p \in DOMAIN doc : StepsTo(doc, p) = path}

LEMMA AlongIs ==
  ASSUME NEW doc, IsDocument(doc), NEW p \in DOMAIN doc, NEW path \in Seq(Steps)
  PROVE  Along(doc, p, path) <=> IsPrefix(StepsTo(doc, p), path)
  <1>1. p \in Seq(Nat) BY PositionIn DEF Positions
  <1>2. /\ StepsTo(doc, p) \in Seq(Steps) /\ Len(StepsTo(doc, p)) = Len(p)
        /\ \A k \in DOMAIN p : StepsTo(doc, p)[k] = StepTo(doc, UpTo(p, k))
    BY StepsToType
  <1>3. ASSUME Len(p) <= Len(path), NEW k \in DOMAIN p
        PROVE  Matches(doc, UpTo(p, k), path[k]) <=> StepsTo(doc, p)[k] = path[k]
    <2>1. k \in 0 .. Len(p) /\ k > 0 /\ path[k] \in Steps BY <1>1, <1>3
    <2>2. UpTo(p, k) \in DOMAIN doc /\ Len(UpTo(p, k)) = k BY <1>1, <2>1, PositionIn, UpToProperties
    <2> QED BY <1>2, <2>1, <2>2, StepToType
  <1>4. DOMAIN p = 1 .. Len(p) BY <1>1
  <1>5. Along(doc, p, path)
          <=> Len(p) <= Len(path) /\ \A k \in 1 .. Len(p) : StepsTo(doc, p)[k] = path[k]
    BY <1>3, <1>4 DEF Along
  <1> QED BY <1>2, <1>5, PrefixPointwise

LEMMA AllAreOccurrences ==
  ASSUME NEW doc, IsDocument(doc), NEW path \in Seq(Steps)
  PROVE  Locate(doc, path).all = Occurrences(doc, path)
  <1>1. Locate(doc, path).all = {p \in {r \in DOMAIN doc : Along(doc, r, path)} : Len(p) = Len(path)}
    BY DEF Locate
  <1>2. ASSUME NEW p \in DOMAIN doc
        PROVE  Along(doc, p, path) /\ Len(p) = Len(path) <=> StepsTo(doc, p) = path
    <2>1. StepsTo(doc, p) \in Seq(Steps) /\ Len(StepsTo(doc, p)) = Len(p) BY StepsToType
    <2>2. UpTo(path, Len(path)) = path /\ Len(path) \in 0 .. Len(path) BY UpToAll
    <2>3. IsPrefix(StepsTo(doc, p), path) /\ Len(p) = Len(path) <=> StepsTo(doc, p) = path
      BY <2>1, <2>2, PrefixIs
    <2> QED BY <2>3, AlongIs
  <1> QED BY <1>1, <1>2 DEF Occurrences

LEMMA EffectiveAreKept ==
  ASSUME NEW doc, IsDocument(doc), NEW path \in Seq(Steps)
  PROVE  Locate(doc, path).effective = {p \in Occurrences(doc, path) : IsKept(doc, p)}
  <1>1. Locate(doc, path).effective = Effective(doc, Occurrences(doc, path), path)
    BY AllAreOccurrences DEF Locate
  <1>2. ASSUME NEW p \in Occurrences(doc, path)
        PROVE  IsKept(doc, p) <=>
               \A q \in DOMAIN doc : \A k \in DOMAIN p :
                 Len(q) = k /\ UpTo(q, k - 1) = UpTo(p, k - 1) /\ Matches(doc, q, path[k])
                   => q[k] <= p[k]
    <2>1. p \in DOMAIN doc /\ StepsTo(doc, p) = path BY DEF Occurrences
    <2>2. p \in Seq(Nat) BY <2>1, PositionIn DEF Positions
    <2>3. Len(path) = Len(p) BY <2>1, StepsToType
    <2>4. ASSUME NEW k \in DOMAIN p
          PROVE  IsLast(doc, UpTo(p, k)) <=>
                 \A q \in DOMAIN doc :
                   Len(q) = k /\ UpTo(q, k - 1) = UpTo(p, k - 1) /\ Matches(doc, q, path[k])
                     => q[k] <= p[k]
      <3>1. k \in 0 .. Len(p) /\ k > 0 /\ k \in Nat /\ path[k] \in Steps BY <2>2, <2>3
      <3>2. /\ Len(UpTo(p, k)) = k /\ Front(UpTo(p, k)) = UpTo(p, k - 1) /\ Last(UpTo(p, k)) = p[k]
        BY <2>2, <3>1, UpToProperties
      <3>3. StepTo(doc, UpTo(p, k)) = path[k] BY <2>1, StepsToType
      <3>4. ASSUME NEW q \in DOMAIN doc, Len(q) = k
            PROVE  /\ Front(q) = UpTo(q, k - 1) /\ Last(q) = q[k]
                   /\ Matches(doc, q, path[k]) <=> StepTo(doc, q) = path[k]
        <4>1. q \in Seq(Nat) BY PositionIn DEF Positions
        <4> QED BY <3>1, <3>4, <4>1, FrontLast, StepToType
      <3> QED BY <3>2, <3>3, <3>4 DEF IsLast
    <2> QED BY <2>4 DEF IsKept
  <1> QED BY <1>1, <1>2 DEF Effective

\* What locating a path asks of a document: containers that are not too deep
\* anywhere, and nothing malformed where the path leads.
IsSound(doc, path) ==
  \A q \in DOMAIN doc :
    IF doc[q].node = "scalar"
    THEN IsPrefix(path, StepsTo(doc, q)) => doc[q].class # "malformed"
    ELSE Len(q) < MaxNesting

LEMMA LocatesIfSound ==
  ASSUME NEW doc, IsDocument(doc), NEW path \in Seq(Steps), IsSound(doc, path)
  PROVE  Locate(doc, path).ok
  <1> DEFINE along == {p \in DOMAIN doc : Along(doc, p, path)}
             all == {p \in along : Len(p) = Len(path)}
             entered == {p \in along \ all : HasStep(doc[p], path[Len(p) + 1])}
             aside == (along \ all) \ entered
             missed == {p \in DOMAIN doc \ along : p # <<>> /\ Front(p) \in entered}
  <1>1. all = Occurrences(doc, path) BY AllAreOccurrences DEF Locate
  <1>2. ASSUME NEW p \in all PROVE Skips(doc, p, TRUE)
    <2>1. p \in DOMAIN doc /\ StepsTo(doc, p) = path BY <1>1 DEF Occurrences
    <2>2. ASSUME NEW q \in Within(doc, p)
          PROVE  IF doc[q].node = "scalar" THEN doc[q].class # "malformed" ELSE Len(q) < MaxNesting
      <3>1. q \in DOMAIN doc /\ IsPrefix(p, q) BY DEF Within
      <3>2. IsPrefix(path, StepsTo(doc, q)) BY <2>1, <3>1, StepsWithin
      <3> QED BY <3>1, <3>2 DEF IsSound
    <2> QED BY <2>2 DEF Skips
  <1>3. ASSUME NEW p \in entered PROVE Len(p) < MaxNesting
    <2>1. p \in DOMAIN doc /\ doc[p].node # "scalar" BY DEF HasStep
    <2> QED BY <2>1 DEF IsSound
  <1>4. ASSUME NEW p \in aside \union missed PROVE Skips(doc, p, FALSE)
    BY DEF Skips, IsSound, Within
  <1>5. Locate(doc, path).ok <=> /\ \A p \in all : Skips(doc, p, TRUE)
                                 /\ \A p \in entered : Len(p) < MaxNesting
                                 /\ \A p \in aside \union missed : Skips(doc, p, FALSE)
    BY DEF Locate
  <1> HIDE DEF all, entered, aside, missed
  <1> QED BY <1>2, <1>3, <1>4, <1>5

\* The cursor passes every container: on the way, or skipping what leads elsewhere.
LEMMA SoundIfLocates ==
  ASSUME NEW doc, IsDocument(doc), NEW path \in Seq(Steps), Locate(doc, path).ok
  PROVE  IsSound(doc, path)
  <1> DEFINE along == {p \in DOMAIN doc : Along(doc, p, path)}
             all == {p \in along : Len(p) = Len(path)}
             entered == {p \in along \ all : HasStep(doc[p], path[Len(p) + 1])}
             aside == (along \ all) \ entered
             missed == {p \in DOMAIN doc \ along : p # <<>> /\ Front(p) \in entered}
  <1>1. /\ \A p \in all : Skips(doc, p, TRUE)
        /\ \A p \in entered : Len(p) < MaxNesting
        /\ \A p \in aside \union missed : Skips(doc, p, FALSE)
    BY DEF Locate
  <1>2. all = Occurrences(doc, path) BY AllAreOccurrences DEF Locate
  <1> SUFFICES ASSUME NEW q \in DOMAIN doc
               PROVE  IF doc[q].node = "scalar"
                      THEN IsPrefix(path, StepsTo(doc, q)) => doc[q].class # "malformed"
                      ELSE Len(q) < MaxNesting
    BY DEF IsSound
  <1>3. q \in Seq(Nat) BY PositionIn DEF Positions
  <1>4. CASE IsPrefix(path, StepsTo(doc, q))
    <2> DEFINE p == UpTo(q, Len(path))
    <2>1. p \in DOMAIN doc /\ StepsTo(doc, p) = path /\ IsPrefix(p, q) BY <1>4, WhereThePathEnds
    <2> HIDE DEF p
    <2>2. p \in all BY <1>2, <2>1 DEF Occurrences
    <2>3. q \in Within(doc, p) BY <2>1 DEF Within
    <2>4. Skips(doc, p, TRUE) BY <1>1, <2>2
    <2> QED BY <2>3, <2>4 DEF Skips
  <1>5. CASE ~IsPrefix(path, StepsTo(doc, q)) /\ doc[q].node # "scalar"
    <2> DEFINE T == {k \in Nat : k <= Len(q) => UpTo(q, k) \in along}
    <2>1. \A n \in 0 .. Len(q) : UpTo(q, n) \in DOMAIN doc BY PositionIn
    <2>2. ASSUME NEW n \in 0 .. Len(q) PROVE UpTo(q, n) \notin all
      <3>1. ASSUME UpTo(q, n) \in all PROVE FALSE
        <4>1. StepsTo(doc, UpTo(q, n)) = path BY <1>2, <3>1 DEF Occurrences
        <4>2. IsPrefix(UpTo(q, n), q) BY <1>3, UpToIsPrefix
        <4>3. IsPrefix(path, StepsTo(doc, q)) BY <2>1, <4>1, <4>2, StepsWithin
        <4> QED BY <1>5, <4>3
      <3> QED BY <3>1
    <2>3. 0 \in T
      <3>1. UpTo(q, 0) = <<>> BY SubSeqEmpty DEF UpTo
      <3>2. <<>> \in DOMAIN doc BY DEF IsDocument
      <3>3. Along(doc, <<>>, path) BY DEF Along
      <3> QED BY <3>1, <3>2, <3>3
    <2> HIDE DEF all, along, entered, aside, missed
    <2>4. ASSUME NEW n \in 0 .. Len(q), UpTo(q, n) \in along, UpTo(q, n) \notin entered
          PROVE  Len(q) < MaxNesting
      <3>1. UpTo(q, n) \in aside BY <2>2, <2>4 DEF aside
      <3>2. IsPrefix(UpTo(q, n), q) BY <1>3, UpToIsPrefix
      <3>3. Skips(doc, UpTo(q, n), FALSE) BY <1>1, <3>1
      <3> QED BY <1>5, <3>2, <3>3 DEF Skips, Within
    <2>5. CASE \A n \in Nat : n \in T
      <3>1. Len(q) \in 0 .. Len(q) /\ UpTo(q, Len(q)) = q BY <1>3, UpToAll
      <3>2. q \in along BY <2>5, <3>1
      <3>3. CASE q \in entered BY <1>1, <1>5, <3>3
      <3>4. CASE q \notin entered BY <1>5, <2>4, <3>1, <3>2, <3>4
      <3> QED BY <3>3, <3>4
    <2>6. CASE ~\A n \in Nat : n \in T
      <3>1. \E n \in Nat : n \in T /\ n + 1 \notin T
        <4> HIDE DEF T
        <4> QED BY <2>3, <2>6, Induction
      <3>2. PICK n \in Nat : n \in T /\ n + 1 \notin T BY <3>1
      <3>3. n + 1 \in 0 .. Len(q) /\ n \in 0 .. Len(q) /\ UpTo(q, n) \in along
            /\ UpTo(q, n + 1) \notin along
        BY <1>3, <3>2
      <3>4. CASE UpTo(q, n) \notin entered BY <1>5, <2>4, <3>3, <3>4
      <3>5. CASE UpTo(q, n) \in entered
        <4> DEFINE r == UpTo(q, n + 1)
        <4>1. n + 1 > 0 /\ (n + 1) - 1 = n OBVIOUS
        <4>2. Len(r) = n + 1 /\ Front(r) = UpTo(q, n) BY <1>3, <3>3, <4>1, UpToProperties
        <4>3. r \in DOMAIN doc /\ IsPrefix(r, q) BY <1>3, <2>1, <3>3, UpToIsPrefix
        <4>4. r \notin along BY <3>3
        <4> HIDE DEF r
        <4>5. r # <<>> BY <4>1, <4>2
        <4>6. r \in missed BY <3>5, <4>2, <4>3, <4>4, <4>5 DEF missed
        <4>7. Skips(doc, r, FALSE) BY <1>1, <4>6
        <4> QED BY <1>5, <4>3, <4>7 DEF Skips, Within
      <3> QED BY <3>4, <3>5
    <2> QED BY <2>5, <2>6
  <1> QED BY <1>4, <1>5

-------------------------------------------------------------------------------
\* Blanking

LEMMA SplicedNodes ==
  ASSUME NEW doc, IsDocument(doc), NEW R \in SUBSET DOMAIN doc
  PROVE  LET spliced == SpliceNull(doc, R) IN
         /\ DOMAIN spliced = {q \in DOMAIN doc : \A r \in R : ~IsStrictPrefix(r, q)}
         /\ \A q \in DOMAIN spliced : spliced[q] = IF q \in R THEN Blank ELSE doc[q]
         /\ \A q \in DOMAIN spliced : \A n \in 0 .. Len(q) - 1 :
              UpTo(q, n) \in DOMAIN spliced /\ UpTo(q, n) \notin R
  <1> DEFINE spliced == SpliceNull(doc, R)
  <1>1. DOMAIN spliced = {q \in DOMAIN doc : \A r \in R : ~IsStrictPrefix(r, q)}
    BY DEF SpliceNull
  <1>2. \A q \in DOMAIN spliced : spliced[q] = IF q \in R THEN Blank ELSE doc[q]
    BY DEF SpliceNull
  <1> HIDE DEF spliced
  <1>3. ASSUME NEW q \in DOMAIN spliced, NEW n \in 0 .. Len(q) - 1
        PROVE  UpTo(q, n) \in DOMAIN spliced /\ UpTo(q, n) \notin R
    <2>1. q \in DOMAIN doc /\ q \in Seq(Nat) BY <1>1, PositionIn DEF Positions
    <2>2. n \in 0 .. Len(q) /\ n < Len(q) BY <2>1
    <2>3. UpTo(q, n) \in DOMAIN doc /\ UpTo(q, n) \in Seq(Nat) /\ Len(UpTo(q, n)) = n
      BY <2>1, <2>2, PositionIn, UpToProperties
    <2>4. IsPrefix(UpTo(q, n), q) /\ UpTo(q, n) # q BY <2>1, <2>2, UpToIsPrefix
    <2>5. UpTo(q, n) \notin R BY <1>1, <2>4 DEF IsStrictPrefix
    <2>6. ASSUME NEW r \in R, IsStrictPrefix(r, UpTo(q, n)) PROVE FALSE
      <3>1. r \in Seq(Nat) /\ IsPrefix(r, UpTo(q, n)) /\ r # UpTo(q, n)
        BY <2>6, PositionIn DEF IsStrictPrefix, Positions
      <3>2. IsPrefix(r, q) BY <2>1, <2>3, <2>4, <3>1, PrefixOfPrefix
      <3>3. Len(r) <= n BY <2>3, <3>1, PrefixPointwise
      <3>4. r # q BY <2>2, <3>3
      <3> QED BY <1>1, <3>2, <3>4 DEF IsStrictPrefix
    <2> QED BY <1>1, <2>3, <2>5, <2>6
  <1> QED BY <1>1, <1>2, <1>3 DEF spliced

LEMMA SplicedIsDocument ==
  ASSUME NEW doc, IsDocument(doc), NEW R \in SUBSET DOMAIN doc
  PROVE  IsDocument(SpliceNull(doc, R))
  <1> DEFINE spliced == SpliceNull(doc, R)
  <1>1. /\ DOMAIN spliced = {q \in DOMAIN doc : \A r \in R : ~IsStrictPrefix(r, q)}
        /\ \A q \in DOMAIN spliced : spliced[q] = IF q \in R THEN Blank ELSE doc[q]
        /\ \A q \in DOMAIN spliced : \A n \in 0 .. Len(q) - 1 :
              UpTo(q, n) \in DOMAIN spliced /\ UpTo(q, n) \notin R
    BY SplicedNodes
  <1> HIDE DEF spliced
  <1>2. <<>> \in DOMAIN spliced
    <2>1. <<>> \in DOMAIN doc BY DEF IsDocument
    <2>2. ASSUME NEW r \in R PROVE ~IsStrictPrefix(r, <<>>)
      <3>1. r \in Seq(Nat) /\ <<>> \in Seq(Nat) BY PositionIn DEF Positions
      <3>2. Len(<<>>) = 0 OBVIOUS
      <3>3. IsPrefix(r, <<>>) => Len(r) <= Len(<<>>) BY <3>1, PrefixPointwise
      <3> QED BY <3>1, <3>2, <3>3 DEF IsStrictPrefix
    <2> QED BY <1>1, <2>1, <2>2
  <1>3. ASSUME NEW p \in DOMAIN spliced
        PROVE  /\ p \in Seq(Nat)
               /\ \/ spliced[p].node = "scalar" /\ spliced[p].class \in Scalars
                  \/ spliced[p].node = "array"
                  \/ /\ spliced[p].node = "object"
                     /\ spliced[p].members \in Seq([key : STRING, escaped : BOOLEAN])
    <2>1. p \in DOMAIN doc BY <1>1
    <2>2. Blank.node = "scalar" /\ Blank.class \in Scalars BY DEF Blank, ScalarNode, Scalars
    <2> QED BY <1>1, <2>1, <2>2 DEF IsDocument
  <1>4. ASSUME NEW p \in DOMAIN spliced, NEW k \in DOMAIN p
        PROVE  /\ UpTo(p, k - 1) \in DOMAIN spliced
               /\ spliced[UpTo(p, k - 1)].node # "scalar"
               /\ spliced[UpTo(p, k - 1)].node = "object"
                    => p[k] \in DOMAIN spliced[UpTo(p, k - 1)].members
    <2>1. p \in DOMAIN doc /\ p \in Seq(Nat) BY <1>1, <1>3
    <2>2. k - 1 \in 0 .. Len(p) - 1 BY <2>1
    <2>3. UpTo(p, k - 1) \in DOMAIN spliced /\ UpTo(p, k - 1) \notin R BY <1>1, <2>2
    <2>4. spliced[UpTo(p, k - 1)] = doc[UpTo(p, k - 1)] BY <1>1, <2>3
    <2> QED BY <2>1, <2>3, <2>4 DEF IsDocument
  <1>5. spliced = [p \in DOMAIN spliced |-> spliced[p]] BY DEF spliced, SpliceNull
  <1>6. IsDocument(spliced) BY <1>2, <1>3, <1>4, <1>5 DEF IsDocument
  <1> QED BY <1>6 DEF spliced

\* What is left is reached as before, and kept as before.
LEMMA SplicedSteps ==
  ASSUME NEW doc, IsDocument(doc), NEW R \in SUBSET DOMAIN doc,
         NEW p \in DOMAIN SpliceNull(doc, R)
  PROVE  /\ p \in DOMAIN doc
         /\ StepsTo(SpliceNull(doc, R), p) = StepsTo(doc, p)
         /\ IsKept(SpliceNull(doc, R), p) <=> IsKept(doc, p)
  <1> DEFINE spliced == SpliceNull(doc, R)
  <1>1. /\ DOMAIN spliced = {q \in DOMAIN doc : \A r \in R : ~IsStrictPrefix(r, q)}
        /\ \A q \in DOMAIN spliced : spliced[q] = IF q \in R THEN Blank ELSE doc[q]
        /\ \A q \in DOMAIN spliced : \A n \in 0 .. Len(q) - 1 :
              UpTo(q, n) \in DOMAIN spliced /\ UpTo(q, n) \notin R
    BY SplicedNodes
  <1>2. p \in DOMAIN spliced OBVIOUS
  <1> HIDE DEF spliced
  <1>3. p \in DOMAIN doc /\ p \in Seq(Nat) BY <1>1, <1>2, PositionIn DEF Positions
  <1>4. ASSUME NEW k \in DOMAIN p
        PROVE  /\ UpTo(p, k) \in DOMAIN spliced
               /\ Len(UpTo(p, k)) = k /\ UpTo(p, k) \in Seq(Nat)
               /\ Front(UpTo(p, k)) = UpTo(p, k - 1)
               /\ UpTo(p, k - 1) \in DOMAIN spliced /\ UpTo(p, k - 1) \notin R
               /\ spliced[UpTo(p, k - 1)] = doc[UpTo(p, k - 1)]
    <2>1. k \in 0 .. Len(p) /\ k > 0 /\ k - 1 \in 0 .. Len(p) - 1 BY <1>3
    <2>2. UpTo(p, Len(p)) = p BY <1>3, UpToAll
    <2>3. k = Len(p) \/ k \in 0 .. Len(p) - 1 BY <1>3, <2>1
    <2>4. UpTo(p, k) \in DOMAIN spliced BY <1>1, <1>2, <2>2, <2>3
    <2> QED BY <1>1, <1>2, <1>3, <2>1, <2>4, UpToProperties
  <1>5. ASSUME NEW k \in DOMAIN p PROVE StepTo(spliced, UpTo(p, k)) = StepTo(doc, UpTo(p, k))
    BY <1>4 DEF StepTo
  <1>6. StepsTo(spliced, p) = StepsTo(doc, p) BY <1>5 DEF StepsTo
  \* A sibling of what is left is left.
  <1>7. ASSUME NEW k \in DOMAIN p, NEW r \in DOMAIN doc, Len(r) = k, Front(r) = UpTo(p, k - 1)
        PROVE  r \in DOMAIN spliced /\ StepTo(spliced, r) = StepTo(doc, r)
    <2>1. r \in Seq(Nat) /\ k > 0 /\ k \in Nat BY <1>3, PositionIn DEF Positions
    <2>2. UpTo(r, k - 1) = UpTo(p, k - 1) BY <1>7, <2>1, FrontLast
    <2>3. ASSUME NEW a \in R, IsStrictPrefix(a, r) PROVE FALSE
      <3>1. a \in Seq(Nat) /\ IsPrefix(a, r) /\ a # r
        BY <2>3, PositionIn DEF IsStrictPrefix, Positions
      <3>2. Len(a) \in 0 .. k /\ a = UpTo(r, Len(a)) BY <1>7, <2>1, <3>1, PrefixIs
      <3>3. Len(a) # k BY <1>7, <2>1, <3>1, <3>2, UpToAll
      <3>4. Len(a) \in 0 .. k - 1 /\ k - 1 \in 0 .. Len(r) /\ k - 1 \in 0 .. Len(p)
            /\ Len(a) \in 0 .. Len(p) - 1
        BY <1>3, <1>7, <2>1, <3>2, <3>3
      <3>5. UpTo(UpTo(r, k - 1), Len(a)) = UpTo(r, Len(a)) BY <2>1, <3>4, UpToProperties
      <3>6. UpTo(UpTo(p, k - 1), Len(a)) = UpTo(p, Len(a)) BY <1>3, <3>4, UpToProperties
      <3>7. a = UpTo(p, Len(a)) BY <2>2, <3>2, <3>5, <3>6
      <3> QED BY <1>1, <1>2, <3>4, <3>7
    <2>4. r \in DOMAIN spliced BY <1>1, <2>3
    <2> QED BY <1>4, <1>7, <2>4 DEF StepTo
  <1>8. ASSUME NEW k \in DOMAIN p
        PROVE  IsLast(spliced, UpTo(p, k)) <=> IsLast(doc, UpTo(p, k))
    <2>1. DOMAIN spliced \subseteq DOMAIN doc BY <1>1
    <2> QED BY <1>4, <1>5, <1>7, <2>1 DEF IsLast
  <1>9. IsKept(spliced, p) <=> IsKept(doc, p) BY <1>8 DEF IsKept
  <1> QED BY <1>3, <1>6, <1>9 DEF spliced

LEMMA SplicedTwice ==
  ASSUME NEW doc, NEW A, NEW B, B \subseteq DOMAIN SpliceNull(doc, A)
  PROVE  SpliceNull(SpliceNull(doc, A), B) = SpliceNull(doc, A \union B)
  <1> DEFINE once == SpliceNull(doc, A)
             left == {q \in DOMAIN doc : \A r \in A : ~IsStrictPrefix(r, q)}
             both == {q \in DOMAIN doc : \A r \in A \union B : ~IsStrictPrefix(r, q)}
  <1>1. DOMAIN once = left /\ \A q \in left : once[q] = IF q \in A THEN Blank ELSE doc[q]
    BY DEF SpliceNull
  <1>2. SpliceNull(doc, A \union B) = [q \in both |-> IF q \in A \union B THEN Blank ELSE doc[q]]
    BY DEF SpliceNull
  <1>3. SpliceNull(once, B) = [q \in {s \in left : \A r \in B : ~IsStrictPrefix(r, s)} |->
                                 IF q \in B THEN Blank ELSE once[q]]
    BY <1>1 DEF SpliceNull
  <1>4. {s \in left : \A r \in B : ~IsStrictPrefix(r, s)} = both OBVIOUS
  <1>5. \A q \in both : (IF q \in B THEN Blank ELSE once[q])
                          = IF q \in A \union B THEN Blank ELSE doc[q]
    BY <1>1
  <1> HIDE DEF once, left, both
  <1>6. SpliceNull(once, B) = SpliceNull(doc, A \union B) BY <1>2, <1>3, <1>4, <1>5
  <1> QED BY <1>6 DEF once

-------------------------------------------------------------------------------
\* Values

\* The kept positions where a path leads, and what is there, read for all of them
\* as `reads` has it: a value, keyed by the steps after the path.
KeptUnder(doc, path) ==
  {q \in DOMAIN doc : IsKept(doc, q) /\ IsPrefix(path, StepsTo(doc, q))}

After(doc, path, q) == SubSeq(StepsTo(doc, q), Len(path) + 1, Len(q))

ReadsInto(value, doc, path, reads) ==
  /\ DOMAIN value = {After(doc, path, q) : q \in KeptUnder(doc, path)}
  /\ \A q \in KeptUnder(doc, path) : value[After(doc, path, q)] = Reading(doc[q], reads)

LEMMA AfterType ==
  ASSUME NEW doc, IsDocument(doc), NEW path \in Seq(Steps), NEW q \in DOMAIN doc,
         IsPrefix(path, StepsTo(doc, q))
  PROVE  After(doc, path, q) \in Seq(Steps) /\ path \o After(doc, path, q) = StepsTo(doc, q)
  <1>1. StepsTo(doc, q) \in Seq(Steps) /\ Len(StepsTo(doc, q)) = Len(q) BY StepsToType
  <1> QED BY <1>1, RestAfterPrefix DEF After

LEMMA AfterOnce ==
  ASSUME NEW doc, IsDocument(doc), NEW path \in Seq(Steps),
         NEW p \in KeptUnder(doc, path), NEW q \in KeptUnder(doc, path),
         After(doc, path, p) = After(doc, path, q)
  PROVE  p = q
  <1>1. \A r \in KeptUnder(doc, path) : r \in DOMAIN doc /\ IsPrefix(path, StepsTo(doc, r))
    BY DEF KeptUnder
  <1>2. path \o After(doc, path, p) = StepsTo(doc, p) BY <1>1, AfterType
  <1>3. path \o After(doc, path, q) = StepsTo(doc, q) BY <1>1, AfterType
  <1>4. StepsTo(doc, p) = StepsTo(doc, q) BY <1>2, <1>3
  <1> QED BY <1>1, <1>4, KeptOnce DEF KeptUnder

LEMMA ValueHolds ==
  ASSUME NEW doc, IsDocument(doc), NEW p \in DOMAIN doc, IsKept(doc, p), NEW reads
  PROVE  ReadsInto(ValueAt(doc, p, reads), doc, StepsTo(doc, p), reads)
  <1> DEFINE path == StepsTo(doc, p)
             kept == {q \in Within(doc, p) : \A k \in Len(p) + 1 .. Len(q) : IsLast(doc, UpTo(q, k))}
  <1>1. p \in Seq(Nat) /\ path \in Seq(Steps) /\ Len(path) = Len(p)
    BY PositionIn, StepsToType DEF Positions
  <1>2. ASSUME NEW q \in kept PROVE q \in KeptUnder(doc, path)
    <2>1. q \in DOMAIN doc /\ IsPrefix(p, q) BY DEF Within
    <2>2. q \in Seq(Nat) BY <2>1, PositionIn DEF Positions
    <2>3. Len(p) \in 0 .. Len(q) /\ p = UpTo(q, Len(p)) BY <1>1, <2>1, <2>2, PrefixIs
    <2>4. IsPrefix(path, StepsTo(doc, q)) BY <2>1, StepsWithin
    <2>5. ASSUME NEW k \in DOMAIN q PROVE IsLast(doc, UpTo(q, k))
      <3>1. CASE k <= Len(p)
        <4>1. k \in 0 .. Len(p) /\ k \in DOMAIN p BY <1>1, <2>2, <3>1
        <4>2. UpTo(p, k) = UpTo(q, k) BY <2>2, <2>3, <4>1, UpToProperties
        <4> QED BY <4>1, <4>2 DEF IsKept
      <3>2. CASE k > Len(p)
        <4>1. k \in Len(p) + 1 .. Len(q) BY <1>1, <2>2, <3>2
        <4> QED BY <4>1
      <3> QED BY <1>1, <2>2, <3>1, <3>2
    <2> QED BY <2>1, <2>4, <2>5 DEF KeptUnder, IsKept
  <1>3. ASSUME NEW q \in KeptUnder(doc, path) PROVE q \in kept
    <2>1. q \in DOMAIN doc /\ IsKept(doc, q) /\ IsPrefix(path, StepsTo(doc, q)) BY DEF KeptUnder
    <2>2. q \in Seq(Nat) BY <2>1, PositionIn DEF Positions
    <2> DEFINE r == UpTo(q, Len(path))
    <2>3. r \in DOMAIN doc /\ StepsTo(doc, r) = path /\ IsPrefix(r, q) BY <1>1, <2>1, WhereThePathEnds
    <2>4. IsKept(doc, r)
      <3>1. Len(path) \in 0 .. Len(q)
        <4>1. StepsTo(doc, q) \in Seq(Steps) /\ Len(StepsTo(doc, q)) = Len(q) BY <2>1, StepsToType
        <4> QED BY <1>1, <2>1, <4>1, PrefixIs
      <3> QED BY <2>1, <3>1, KeptUpTo
    <2> HIDE DEF r
    <2>5. r = p BY <2>3, <2>4, KeptOnce
    <2>6. q \in Within(doc, p) BY <2>1, <2>3, <2>5 DEF Within
    <2>7. \A k \in Len(p) + 1 .. Len(q) : k \in DOMAIN q BY <1>1, <2>2
    <2> QED BY <2>1, <2>6, <2>7 DEF IsKept
  <1> DEFINE below(q) == SubSeq(StepsTo(doc, q), Len(p) + 1, Len(q))
             value == ValueAt(doc, p, reads)
  <1>4. kept = KeptUnder(doc, path) BY <1>2, <1>3
  <1>5. \A q : below(q) = After(doc, path, q) BY <1>1 DEF After
  <1>6. value = [steps \in {below(q) : q \in kept} |->
                   Reading(doc[CHOOSE q \in kept : below(q) = steps], reads)]
    BY DEF ValueAt
  <1> HIDE DEF kept, below, value, path
  <1>7. DOMAIN value = {After(doc, path, q) : q \in KeptUnder(doc, path)} BY <1>4, <1>5, <1>6
  <1>8. ASSUME NEW q \in KeptUnder(doc, path)
        PROVE  value[After(doc, path, q)] = Reading(doc[q], reads)
    <2> DEFINE chosen == CHOOSE r \in kept : below(r) = below(q)
    <2>1. chosen \in kept /\ below(chosen) = below(q) BY <1>4
    <2>2. value[below(q)] = Reading(doc[chosen], reads) BY <1>4, <1>6
    <2> HIDE DEF chosen
    <2>3. chosen = q BY <1>1, <1>4, <1>5, <2>1, AfterOnce
    <2> QED BY <1>5, <2>2, <2>3
  <1> QED BY <1>7, <1>8 DEF ReadsInto, value, path

-------------------------------------------------------------------------------
\* One path after the other

Independent(list) ==
  /\ list \in Seq(Seq(Steps))
  /\ \A i, j \in DOMAIN list : i # j => ~IsPrefix(list[i], list[j])

\* Where the first n paths occur.
Taken(doc, list, n) == {p \in DOMAIN doc : \E i \in 1 .. n : StepsTo(doc, p) = list[i]}

\* What is known of the document at a path that was taken out of it.
IsChecked(doc, path) ==
  /\ \A q \in DOMAIN doc : IsPrefix(path, StepsTo(doc, q)) =>
       IF doc[q].node = "scalar" THEN doc[q].class # "malformed" ELSE Len(q) < MaxNesting
  /\ \A p \in DOMAIN doc : IsKept(doc, p) /\ StepsTo(doc, p) = path => ExactOk(doc, p)

ReadsExactly(found, doc, path) ==
  /\ \A value \in found : ReadsInto(value, doc, path, ExactReads)
  /\ found = {} <=> KeptUnder(doc, path) = {}

\* No two paths lead through one position.
LEMMA OnePath ==
  ASSUME NEW doc, IsDocument(doc), NEW list, Independent(list), NEW q \in DOMAIN doc,
         NEW i \in DOMAIN list, NEW j \in DOMAIN list,
         IsPrefix(list[i], StepsTo(doc, q)), IsPrefix(list[j], StepsTo(doc, q))
  PROVE  i = j
  <1>1. list[i] \in Seq(Steps) /\ list[j] \in Seq(Steps) BY DEF Independent
  <1>2. StepsTo(doc, q) \in Seq(Steps) BY StepsToType
  <1>3. IsPrefix(list[i], list[j]) \/ IsPrefix(list[j], list[i]) BY <1>1, <1>2, Comparable
  <1> QED BY <1>3 DEF Independent

LEMMA SelfPrefix ==
  ASSUME NEW S, NEW s \in Seq(S)
  PROVE  IsPrefix(s, s)
  BY PrefixPointwise

\* Where the next path leads, the copy is as the document.
LEMMA NextPathUntouched ==
  ASSUME NEW doc, IsDocument(doc), NEW list, Independent(list),
         NEW n \in Nat, n + 1 \in DOMAIN list,
         NEW q \in DOMAIN doc, IsPrefix(list[n + 1], StepsTo(doc, q))
  PROVE  LET copy == SpliceNull(doc, Taken(doc, list, n)) IN
         q \in DOMAIN copy /\ copy[q] = doc[q]
  <1> DEFINE R == Taken(doc, list, n)
             copy == SpliceNull(doc, R)
  <1>1. R \subseteq DOMAIN doc BY DEF Taken
  <1>2. ASSUME NEW r \in R, IsPrefix(r, q) PROVE FALSE
    <2>1. r \in DOMAIN doc BY <1>1
    <2>2. PICK i \in 1 .. n : StepsTo(doc, r) = list[i] BY DEF Taken
    <2>3. IsPrefix(list[i], StepsTo(doc, q)) BY <1>2, <2>1, <2>2, StepsWithin
    <2>4. i \in DOMAIN list /\ i # n + 1
      <3>1. DOMAIN list = 1 .. Len(list) /\ Len(list) \in Nat BY DEF Independent
      <3> QED BY <2>2, <3>1
    <2> QED BY <2>3, <2>4, OnePath
  <1>3. q \notin R
    <2>1. IsPrefix(q, q) BY PositionIn, SelfPrefix DEF Positions
    <2> QED BY <1>2, <2>1
  <1>4. /\ DOMAIN copy = {s \in DOMAIN doc : \A r \in R : ~IsStrictPrefix(r, s)}
        /\ \A s \in DOMAIN copy : copy[s] = IF s \in R THEN Blank ELSE doc[s]
    BY <1>1, SplicedNodes
  <1> HIDE DEF R, copy
  <1>5. q \in DOMAIN copy BY <1>2, <1>4 DEF IsStrictPrefix
  <1>6. copy[q] = doc[q] BY <1>3, <1>4, <1>5
  <1> QED BY <1>5, <1>6 DEF copy, R

LEMMA CopyProperties ==
  ASSUME NEW doc, IsDocument(doc), NEW list, NEW n \in Nat
  PROVE  LET copy == SpliceNull(doc, Taken(doc, list, n)) IN
         /\ IsDocument(copy)
         /\ \A q \in DOMAIN copy :
              /\ q \in DOMAIN doc
              /\ StepsTo(copy, q) = StepsTo(doc, q)
              /\ IsKept(copy, q) <=> IsKept(doc, q)
              /\ copy[q] = IF q \in Taken(doc, list, n) THEN Blank ELSE doc[q]
  <1> DEFINE R == Taken(doc, list, n)
  <1>1. R \subseteq DOMAIN doc BY DEF Taken
  <1> HIDE DEF R
  <1>2. IsDocument(SpliceNull(doc, R)) BY <1>1, SplicedIsDocument
  <1>3. \A q \in DOMAIN SpliceNull(doc, R) :
          SpliceNull(doc, R)[q] = IF q \in R THEN Blank ELSE doc[q]
    BY <1>1, SplicedNodes
  <1>4. ASSUME NEW q \in DOMAIN SpliceNull(doc, R)
        PROVE  /\ q \in DOMAIN doc
               /\ StepsTo(SpliceNull(doc, R), q) = StepsTo(doc, q)
               /\ IsKept(SpliceNull(doc, R), q) <=> IsKept(doc, q)
    BY <1>1, SplicedSteps
  <1> QED BY <1>2, <1>3, <1>4 DEF R

\* Where the next path leads in the copy.
LEMMA NextPathInCopy ==
  ASSUME NEW doc, IsDocument(doc), NEW list, Independent(list),
         NEW n \in Nat, n + 1 \in DOMAIN list
  PROVE  LET copy == SpliceNull(doc, Taken(doc, list, n))
             path == list[n + 1]
         IN  /\ Occurrences(copy, path) = Occurrences(doc, path)
             /\ KeptUnder(copy, path) = KeptUnder(doc, path)
             /\ SpliceNull(copy, Occurrences(copy, path)) = SpliceNull(doc, Taken(doc, list, n + 1))
             /\ \A p \in Occurrences(doc, path) : ExactOk(copy, p) <=> ExactOk(doc, p)
  <1> DEFINE copy == SpliceNull(doc, Taken(doc, list, n))
             path == list[n + 1]
  <1>1. path \in Seq(Steps) BY DEF Independent
  <1>2. \A q \in DOMAIN doc : IsPrefix(path, StepsTo(doc, q)) => q \in DOMAIN copy /\ copy[q] = doc[q]
    BY NextPathUntouched
  <1>3. /\ IsDocument(copy)
        /\ \A q \in DOMAIN copy :
             /\ q \in DOMAIN doc
             /\ StepsTo(copy, q) = StepsTo(doc, q)
             /\ IsKept(copy, q) <=> IsKept(doc, q)
    BY CopyProperties
  <1>4. SpliceNull(copy, Occurrences(copy, path))
          = SpliceNull(doc, Taken(doc, list, n) \union Occurrences(copy, path))
    BY SplicedTwice DEF Occurrences
  <1> HIDE DEF copy, path
  <1>5. \A p \in Occurrences(doc, path) : p \in DOMAIN doc /\ IsPrefix(path, StepsTo(doc, p))
    BY <1>1, SelfPrefix DEF Occurrences
  <1>6. Occurrences(copy, path) = Occurrences(doc, path)
    BY <1>2, <1>3, <1>5 DEF Occurrences
  <1>7. KeptUnder(copy, path) = KeptUnder(doc, path)
    BY <1>2, <1>3 DEF KeptUnder
  <1>8. Taken(doc, list, n + 1) = Taken(doc, list, n) \union Occurrences(doc, path)
    <2>1. \A i : i \in 1 .. n + 1 <=> i \in 1 .. n \/ i = n + 1 OBVIOUS
    <2> QED BY <2>1 DEF Taken, Occurrences, path
  <1>9. ASSUME NEW p \in Occurrences(doc, path) PROVE ExactOk(copy, p) <=> ExactOk(doc, p)
    <2>1. ASSUME NEW q \in DOMAIN doc, IsPrefix(p, q) PROVE q \in DOMAIN copy /\ copy[q] = doc[q]
      <3>1. p \in DOMAIN doc /\ StepsTo(doc, p) = path BY DEF Occurrences
      <3>2. IsPrefix(path, StepsTo(doc, q)) BY <2>1, <3>1, StepsWithin
      <3> QED BY <1>2, <3>2
    <2>2. DOMAIN copy \subseteq DOMAIN doc BY <1>3
    <2> QED BY <2>1, <2>2 DEF ExactOk, Within
  <1> QED BY <1>4, <1>6, <1>7, <1>8, <1>9 DEF copy, path

LEMMA KeptUnderEmpty ==
  ASSUME NEW doc, IsDocument(doc), NEW path \in Seq(Steps)
  PROVE  KeptUnder(doc, path) = {} <=> {p \in Occurrences(doc, path) : IsKept(doc, p)} = {}
  <1>1. ASSUME NEW p \in Occurrences(doc, path), IsKept(doc, p) PROVE p \in KeptUnder(doc, path)
    BY <1>1, SelfPrefix DEF Occurrences, KeptUnder
  <1>2. ASSUME NEW q \in KeptUnder(doc, path)
        PROVE  UpTo(q, Len(path)) \in Occurrences(doc, path) /\ IsKept(doc, UpTo(q, Len(path)))
    <2>1. q \in DOMAIN doc /\ IsKept(doc, q) /\ IsPrefix(path, StepsTo(doc, q)) BY DEF KeptUnder
    <2>2. UpTo(q, Len(path)) \in DOMAIN doc /\ StepsTo(doc, UpTo(q, Len(path))) = path
      BY <2>1, WhereThePathEnds
    <2>3. StepsTo(doc, q) \in Seq(Steps) /\ Len(StepsTo(doc, q)) = Len(q) BY <2>1, StepsToType
    <2>4. Len(path) \in 0 .. Len(q) BY <2>1, <2>3, PrefixIs
    <2> QED BY <2>1, <2>2, <2>4, KeptUpTo DEF Occurrences
  <1> QED BY <1>1, <1>2

LEMMA FoundReadsExactly ==
  ASSUME NEW doc, IsDocument(doc), NEW list, Independent(list),
         NEW n \in Nat, n + 1 \in DOMAIN list
  PROVE  LET copy == SpliceNull(doc, Taken(doc, list, n))
             path == list[n + 1]
         IN  ReadsExactly({ValueAt(copy, p, ExactReads) : p \in Locate(copy, path).effective}, doc, path)
  <1> DEFINE copy == SpliceNull(doc, Taken(doc, list, n))
             path == list[n + 1]
             found == {ValueAt(copy, p, ExactReads) : p \in Locate(copy, path).effective}
  <1>1. path \in Seq(Steps) BY DEF Independent
  <1>2. \A q \in DOMAIN doc : IsPrefix(path, StepsTo(doc, q)) => q \in DOMAIN copy /\ copy[q] = doc[q]
    BY NextPathUntouched
  <1>3. /\ IsDocument(copy)
        /\ \A q \in DOMAIN copy : q \in DOMAIN doc /\ StepsTo(copy, q) = StepsTo(doc, q)
    BY CopyProperties
  <1>4. KeptUnder(copy, path) = KeptUnder(doc, path) BY NextPathInCopy
  <1> HIDE DEF copy, path
  <1>5. Locate(copy, path).effective = {p \in Occurrences(copy, path) : IsKept(copy, p)}
    BY <1>1, <1>3, EffectiveAreKept
  <1>6. ASSUME NEW value \in found PROVE ReadsInto(value, doc, path, ExactReads)
    <2>1. PICK p \in Locate(copy, path).effective : value = ValueAt(copy, p, ExactReads) OBVIOUS
    <2>2. p \in DOMAIN copy /\ IsKept(copy, p) /\ StepsTo(copy, p) = path
      BY <1>5 DEF Occurrences
    <2>3. ReadsInto(value, copy, path, ExactReads) BY <1>3, <2>1, <2>2, ValueHolds
    <2>4. ASSUME NEW q \in KeptUnder(doc, path)
          PROVE  After(copy, path, q) = After(doc, path, q) /\ copy[q] = doc[q]
      <3>1. q \in DOMAIN copy /\ copy[q] = doc[q] BY <1>2 DEF KeptUnder
      <3> QED BY <1>3, <3>1 DEF After
    <2>5. {After(copy, path, q) : q \in KeptUnder(copy, path)}
            = {After(doc, path, q) : q \in KeptUnder(doc, path)}
      BY <1>4, <2>4
    <2> QED BY <1>4, <2>3, <2>4, <2>5 DEF ReadsInto
  <1>7. found = {} <=> KeptUnder(doc, path) = {}
    <2>1. KeptUnder(copy, path) = {} <=> Locate(copy, path).effective = {}
      BY <1>1, <1>3, <1>5, KeptUnderEmpty
    <2> QED BY <1>4, <2>1
  <1> QED BY <1>6, <1>7 DEF ReadsExactly, copy, path, found

-------------------------------------------------------------------------------
\* What is accepted

LEMMA BlankIs == Blank.node = "scalar" /\ Blank.class = "exact"
  BY DEF Blank, ScalarNode

LEMMA CheckedIfTaken ==
  ASSUME NEW doc, IsDocument(doc), NEW list, Independent(list),
         NEW n \in Nat, n + 1 \in DOMAIN list,
         LET copy == SpliceNull(doc, Taken(doc, list, n)) IN
           /\ IsSound(copy, list[n + 1])
           /\ \A p \in Occurrences(copy, list[n + 1]) : IsKept(copy, p) => ExactOk(copy, p)
  PROVE  IsChecked(doc, list[n + 1])
  <1> DEFINE copy == SpliceNull(doc, Taken(doc, list, n))
             path == list[n + 1]
  <1>1. /\ IsSound(copy, path)
        /\ \A p \in Occurrences(copy, path) : IsKept(copy, p) => ExactOk(copy, p)
    OBVIOUS
  <1>2. \A q \in DOMAIN doc : IsPrefix(path, StepsTo(doc, q)) => q \in DOMAIN copy /\ copy[q] = doc[q]
    BY NextPathUntouched
  <1>3. \A q \in DOMAIN copy : StepsTo(copy, q) = StepsTo(doc, q) /\ (IsKept(copy, q) <=> IsKept(doc, q))
    BY CopyProperties
  <1>4. /\ Occurrences(copy, path) = Occurrences(doc, path)
        /\ \A p \in Occurrences(doc, path) : ExactOk(copy, p) <=> ExactOk(doc, p)
    BY NextPathInCopy
  <1> HIDE DEF copy, path
  <1>5. ASSUME NEW q \in DOMAIN doc, IsPrefix(path, StepsTo(doc, q))
        PROVE  IF doc[q].node = "scalar" THEN doc[q].class # "malformed" ELSE Len(q) < MaxNesting
    BY <1>1, <1>2, <1>3, <1>5 DEF IsSound
  <1>6. ASSUME NEW p \in DOMAIN doc, IsKept(doc, p), StepsTo(doc, p) = path PROVE ExactOk(doc, p)
    <2>1. p \in Occurrences(doc, path) BY <1>6 DEF Occurrences
    <2>2. p \in DOMAIN copy BY <1>4, <2>1 DEF Occurrences
    <2> QED BY <1>1, <1>3, <1>4, <1>6, <2>1, <2>2
  <1> QED BY <1>5, <1>6 DEF IsChecked, path

\* A copy that a path cannot be taken out of is one of a faulty document.
LEMMA FaultyIfNotTaken ==
  ASSUME IsDocument(document), Independent(paths),
         NEW n \in Nat, n + 1 \in DOMAIN paths,
         LET copy == SpliceNull(document, Taken(document, paths, n)) IN
           \/ ~IsSound(copy, paths[n + 1])
           \/ \E p \in Occurrences(copy, paths[n + 1]) : IsKept(copy, p) /\ ~ExactOk(copy, p)
  PROVE  ~AcceptableButAtPaths \/ ReadsInfinite
  <1> DEFINE copy == SpliceNull(document, Taken(document, paths, n))
             path == paths[n + 1]
  <1>1. \/ ~IsSound(copy, path)
        \/ \E p \in Occurrences(copy, path) : IsKept(copy, p) /\ ~ExactOk(copy, p)
    OBVIOUS
  <1>2. \A q \in DOMAIN copy :
          /\ q \in DOMAIN document
          /\ IsKept(copy, q) <=> IsKept(document, q)
          /\ copy[q] = IF q \in Taken(document, paths, n) THEN Blank ELSE document[q]
    BY CopyProperties
  <1>3. /\ Occurrences(copy, path) = Occurrences(document, path)
        /\ \A p \in Occurrences(document, path) : ExactOk(copy, p) <=> ExactOk(document, p)
    BY NextPathInCopy
  <1> HIDE DEF copy
  <1>4. CASE ~IsSound(copy, path)
    <2>1. PICK q \in DOMAIN copy :
            \/ copy[q].node = "scalar" /\ copy[q].class = "malformed"
            \/ copy[q].node # "scalar" /\ ~(Len(q) < MaxNesting)
      BY <1>4 DEF IsSound
    <2>2. copy[q] # Blank BY <2>1, BlankIs
    <2>3. q \in DOMAIN document /\ copy[q] = document[q] BY <1>2, <2>2
    <2>4. ~AcceptableButAtPaths BY <2>1, <2>3 DEF AcceptableButAtPaths
    <2> QED BY <2>4
  <1>5. CASE \E p \in Occurrences(copy, path) : IsKept(copy, p) /\ ~ExactOk(copy, p)
    <2>1. PICK p \in Occurrences(document, path) : IsKept(copy, p) /\ ~ExactOk(document, p)
      BY <1>3, <1>5
    <2>2. p \in DOMAIN copy /\ p \in DOMAIN document BY <1>3, <2>1 DEF Occurrences
    <2>3. IsKept(document, p) BY <1>2, <2>1, <2>2
    <2>4. PICK q \in Within(document, p) :
            document[q].node = "scalar" /\ document[q].class \in {"infinite", "malformed"}
      BY <2>1 DEF ExactOk
    <2>5. CASE document[q].class = "malformed"
      BY <2>4, <2>5 DEF AcceptableButAtPaths, Within
    <2>6. CASE document[q].class = "infinite"
      <3>1. StepsTo(document, p) \in ToSet(paths) BY <2>1 DEF Occurrences, ToSet
      <3> QED BY <2>2, <2>3, <2>4, <2>6, <3>1 DEF ReadsInfinite, IsKept
    <2> QED BY <2>4, <2>5, <2>6
  <1> QED BY <1>1, <1>4, <1>5

LEMMA RootPrefix ==
  ASSUME NEW doc, IsDocument(doc)
  PROVE  Within(doc, <<>>) = DOMAIN doc
  <1>1. ASSUME NEW q \in DOMAIN doc PROVE IsPrefix(<<>>, q)
    <2>1. q \in Seq(Nat) /\ Len(<<>>) = 0 BY PositionIn DEF Positions
    <2>2. SubSeq(<<>>, 1, 0) = <<>> /\ SubSeq(q, 1, 0) = <<>> BY SubSeqEmpty
    <2> QED BY <2>1, <2>2 DEF IsPrefix
  <1> QED BY <1>1 DEF Within

\* The position at which a path that leads on to q ends was taken.
LEMMA TakenOnPath ==
  ASSUME IsDocument(document), Independent(paths), NEW q \in DOMAIN document
  PROVE  OnPath(document, q) <=> \E r \in Taken(document, paths, Len(paths)) : IsPrefix(r, q)
  <1>1. DOMAIN paths = 1 .. Len(paths) BY DEF Independent
  <1>2. ASSUME OnPath(document, q) PROVE \E r \in Taken(document, paths, Len(paths)) : IsPrefix(r, q)
    <2>1. PICK i \in DOMAIN paths : IsPrefix(paths[i], StepsTo(document, q))
      BY <1>2 DEF OnPath, ToSet
    <2>2. paths[i] \in Seq(Steps) BY DEF Independent
    <2> DEFINE r == UpTo(q, Len(paths[i]))
    <2>3. r \in DOMAIN document /\ IsPrefix(r, q) /\ StepsTo(document, r) = paths[i]
      BY <2>1, <2>2, WhereThePathEnds
    <2> QED BY <1>1, <2>3 DEF Taken
  <1>3. ASSUME NEW r \in Taken(document, paths, Len(paths)), IsPrefix(r, q) PROVE OnPath(document, q)
    <2>1. r \in DOMAIN document BY DEF Taken
    <2>2. PICK i \in DOMAIN paths : StepsTo(document, r) = paths[i] BY <1>1 DEF Taken
    <2>3. IsPrefix(paths[i], StepsTo(document, q)) BY <1>3, <2>1, <2>2, StepsWithin
    <2> QED BY <2>3 DEF OnPath, ToSet
  <1> QED BY <1>2, <1>3

LEMMA AcceptedIfDecoded ==
  ASSUME IsDocument(document), Independent(paths),
         \A i \in DOMAIN paths : IsChecked(document, paths[i]),
         SharedOk(SpliceNull(document, Taken(document, paths, Len(paths))))
  PROVE  AcceptableButAtPaths /\ ~ReadsInfinite
  <1> DEFINE R == Taken(document, paths, Len(paths))
             copy == SpliceNull(document, R)
  <1>1. SharedOk(copy) OBVIOUS
  <1>2. Len(paths) \in Nat BY DEF Independent
  <1>3. R \in SUBSET DOMAIN document BY DEF Taken
  <1> HIDE DEF R
  <1>4. /\ DOMAIN copy = {q \in DOMAIN document : \A r \in R : ~IsStrictPrefix(r, q)}
        /\ \A q \in DOMAIN copy : copy[q] = IF q \in R THEN Blank ELSE document[q]
    BY <1>3, SplicedNodes
  <1>5. Within(copy, <<>>) = DOMAIN copy BY <1>2, CopyProperties, RootPrefix DEF R
  <1> HIDE DEF copy
  <1>6. ASSUME NEW p \in DOMAIN document
        PROVE  IF document[p].node # "scalar" THEN Len(p) < MaxNesting
               ELSE \/ document[p].class \in {"exact", "lossy"}
                    \/ OnPath(document, p) /\ document[p].class # "malformed"
    <2>1. CASE OnPath(document, p)
      <3>1. PICK i \in DOMAIN paths : IsPrefix(paths[i], StepsTo(document, p))
        BY <2>1 DEF OnPath, ToSet
      <3>2. IsChecked(document, paths[i]) OBVIOUS
      <3>3. IF document[p].node = "scalar" THEN document[p].class # "malformed" ELSE Len(p) < MaxNesting
        BY <3>1, <3>2 DEF IsChecked
      <3> QED BY <2>1, <3>3
    <2>2. CASE ~OnPath(document, p)
      <3>1. \A r \in R : ~IsPrefix(r, p) BY <2>2, TakenOnPath DEF R
      <3>2. p \in Seq(Nat) BY PositionIn DEF Positions
      <3>3. IsPrefix(p, p) BY <3>2, SelfPrefix
      <3>4. p \in DOMAIN copy /\ copy[p] = document[p] BY <1>4, <3>1, <3>3 DEF IsStrictPrefix
      <3> QED BY <1>1, <1>5, <3>4 DEF SharedOk, Skips
    <2> QED BY <2>1, <2>2
  <1>7. ~ReadsInfinite
    <2> SUFFICES ASSUME NEW p \in DOMAIN document, StepsTo(document, p) \in ToSet(paths),
                        \A k \in DOMAIN p : IsLast(document, UpTo(p, k)),
                        NEW q \in Within(document, p),
                        document[q].node = "scalar", document[q].class = "infinite"
                 PROVE  FALSE
      BY DEF ReadsInfinite
    <2>1. PICK i \in DOMAIN paths : StepsTo(document, p) = paths[i] BY DEF ToSet
    <2>2. ExactOk(document, p)
      <3>1. IsChecked(document, paths[i]) OBVIOUS
      <3> QED BY <2>1, <3>1 DEF IsChecked, IsKept
    <2> QED BY <2>2 DEF ExactOk
  <1> QED BY <1>6, <1>7 DEF AcceptableButAtPaths

LEMMA FaultyIfNotDecoded ==
  ASSUME IsDocument(document), Independent(paths),
         ~SharedOk(SpliceNull(document, Taken(document, paths, Len(paths))))
  PROVE  ~AcceptableButAtPaths
  <1> DEFINE R == Taken(document, paths, Len(paths))
             copy == SpliceNull(document, R)
  <1>1. ~SharedOk(copy) OBVIOUS
  <1>2. R \in SUBSET DOMAIN document BY DEF Taken
  <1> HIDE DEF R
  <1>3. /\ DOMAIN copy = {q \in DOMAIN document : \A r \in R : ~IsStrictPrefix(r, q)}
        /\ \A q \in DOMAIN copy : copy[q] = IF q \in R THEN Blank ELSE document[q]
    BY <1>2, SplicedNodes
  <1> HIDE DEF copy
  <1>4. PICK q \in DOMAIN copy :
          \/ copy[q].node # "scalar" /\ ~(Len(q) < MaxNesting)
          \/ copy[q].node = "scalar" /\ copy[q].class \notin {"exact", "lossy"}
    BY <1>1 DEF SharedOk, Skips, Within
  <1>5. copy[q] # Blank BY <1>4, BlankIs
  <1>6. q \in DOMAIN document /\ q \notin R /\ copy[q] = document[q] BY <1>3, <1>5
  <1>7. ~OnPath(document, q)
    <2>1. ASSUME NEW r \in R, IsPrefix(r, q) PROVE FALSE BY <1>3, <1>6, <2>1 DEF IsStrictPrefix
    <2> QED BY <1>6, <2>1, TakenOnPath DEF R
  <1> QED BY <1>4, <1>6, <1>7 DEF AcceptableButAtPaths

-------------------------------------------------------------------------------
\* What was read, the first n exact values put back

Shown(doc, list, n) ==
  {p \in DOMAIN doc :
     IsKept(doc, p) /\ \A j \in n + 1 .. Len(list) : ~IsStrictPrefix(list[j], StepsTo(doc, p))}

Shows(doc, list, n, p) ==
  IF \E i \in 1 .. n : IsPrefix(list[i], StepsTo(doc, p)) THEN Reading(doc[p], ExactReads)
  ELSE IF \E j \in n + 1 .. Len(list) : StepsTo(doc, p) = list[j] THEN Reading(Blank, SharedReads)
  ELSE Reading(doc[p], SharedReads)

IsRecord(value, doc, list, n) ==
  /\ value = [steps \in DOMAIN value |-> value[steps]]
  /\ DOMAIN value = {StepsTo(doc, p) : p \in Shown(doc, list, n)}
  /\ \A p \in Shown(doc, list, n) : value[StepsTo(doc, p)] = Shows(doc, list, n, p)

LEMMA ValueAtRoot ==
  ASSUME NEW doc, IsDocument(doc), NEW reads
  PROVE  LET value == ValueAt(doc, <<>>, reads)
             kept == {p \in DOMAIN doc : IsKept(doc, p)}
         IN  /\ value = [steps \in DOMAIN value |-> value[steps]]
             /\ DOMAIN value = {StepsTo(doc, p) : p \in kept}
             /\ \A p \in kept : value[StepsTo(doc, p)] = Reading(doc[p], reads)
  <1> DEFINE value == ValueAt(doc, <<>>, reads)
             kept == {p \in DOMAIN doc : IsKept(doc, p)}
  <1>1. value = [steps \in DOMAIN value |-> value[steps]] BY DEF ValueAt
  <1>2. <<>> \in DOMAIN doc /\ IsKept(doc, <<>>) BY DEF IsDocument, IsKept
  <1>3. StepsTo(doc, <<>>) = <<>>
    <2>1. StepsTo(doc, <<>>) \in Seq(Steps) /\ Len(StepsTo(doc, <<>>)) = Len(<<>>)
      BY <1>2, StepsToType
    <2> QED BY <2>1
  <1>4. ReadsInto(value, doc, <<>>, reads) BY <1>2, <1>3, ValueHolds
  <1> HIDE DEF value
  <1>5. ASSUME NEW p \in DOMAIN doc
        PROVE  IsPrefix(<<>>, StepsTo(doc, p)) /\ After(doc, <<>>, p) = StepsTo(doc, p)
    <2>1. StepsTo(doc, p) \in Seq(Steps) /\ Len(StepsTo(doc, p)) = Len(p) BY StepsToType
    <2>2. Len(<<>>) = 0 OBVIOUS
    <2>3. SubSeq(StepsTo(doc, p), 1, Len(p)) = StepsTo(doc, p) BY <2>1, SubSeqFull
    <2>4. SubSeq(<<>>, 1, 0) = <<>> /\ SubSeq(StepsTo(doc, p), 1, 0) = <<>> BY SubSeqEmpty
    <2>5. IsPrefix(<<>>, StepsTo(doc, p)) BY <2>1, <2>2, <2>4 DEF IsPrefix
    <2>6. After(doc, <<>>, p) = StepsTo(doc, p) BY <2>2, <2>3 DEF After
    <2> QED BY <2>5, <2>6
  <1>6. KeptUnder(doc, <<>>) = kept BY <1>5 DEF KeptUnder
  <1> HIDE DEF kept
  <1>7. \A p \in kept : After(doc, <<>>, p) = StepsTo(doc, p) BY <1>5 DEF kept
  <1>8. DOMAIN value = {StepsTo(doc, p) : p \in kept} BY <1>4, <1>6, <1>7 DEF ReadsInto
  <1>9. \A p \in kept : value[StepsTo(doc, p)] = Reading(doc[p], reads)
    BY <1>4, <1>6, <1>7 DEF ReadsInto
  <1> QED BY <1>1, <1>8, <1>9 DEF value, kept

\* What the shared parser reads of the last copy.
LEMMA RecordAsDecoded ==
  ASSUME NEW doc, IsDocument(doc), NEW list, Independent(list)
  PROVE  IsRecord(ValueAt(SpliceNull(doc, Taken(doc, list, Len(list))), <<>>, SharedReads),
                  doc, list, 0)
  <1> DEFINE R == Taken(doc, list, Len(list))
             copy == SpliceNull(doc, R)
             value == ValueAt(copy, <<>>, SharedReads)
             kept == {p \in DOMAIN copy : IsKept(copy, p)}
  <1>1. Len(list) \in Nat BY DEF Independent
  <1>2. R \in SUBSET DOMAIN doc BY DEF Taken
  <1>3. /\ IsDocument(copy)
        /\ \A q \in DOMAIN copy :
             /\ q \in DOMAIN doc
             /\ StepsTo(copy, q) = StepsTo(doc, q)
             /\ IsKept(copy, q) <=> IsKept(doc, q)
             /\ copy[q] = IF q \in R THEN Blank ELSE doc[q]
    BY <1>1, CopyProperties
  <1>4. DOMAIN copy = {q \in DOMAIN doc : \A r \in R : ~IsStrictPrefix(r, q)}
    <2> HIDE DEF R
    <2> QED BY <1>2, SplicedNodes
  <1> HIDE DEF copy
  <1>5. /\ value = [steps \in DOMAIN value |-> value[steps]]
        /\ DOMAIN value = {StepsTo(copy, p) : p \in kept}
        /\ \A p \in kept : value[StepsTo(copy, p)] = Reading(copy[p], SharedReads)
    BY <1>3, ValueAtRoot
  <1> HIDE DEF value
  <1>6. ASSUME NEW p \in DOMAIN doc
        PROVE  (\A r \in R : ~IsStrictPrefix(r, p))
                 <=> \A j \in 0 + 1 .. Len(list) : ~IsStrictPrefix(list[j], StepsTo(doc, p))
    <2>1. ASSUME NEW r \in R, IsStrictPrefix(r, p)
          PROVE  \E j \in 0 + 1 .. Len(list) : IsStrictPrefix(list[j], StepsTo(doc, p))
      <3>1. PICK j \in 1 .. Len(list) : StepsTo(doc, r) = list[j] BY DEF Taken
      <3>2. r \in DOMAIN doc /\ IsPrefix(r, p) /\ r # p BY <1>2, <2>1 DEF IsStrictPrefix
      <3>3. IsPrefix(list[j], StepsTo(doc, p)) /\ list[j] # StepsTo(doc, p)
        BY <3>1, <3>2, StepsWithin
      <3> QED BY <3>3 DEF IsStrictPrefix
    <2>2. ASSUME NEW j \in 0 + 1 .. Len(list), IsStrictPrefix(list[j], StepsTo(doc, p))
          PROVE  \E r \in R : IsStrictPrefix(r, p)
      <3>1. j \in DOMAIN list /\ j \in 1 .. Len(list) /\ list[j] \in Seq(Steps) BY DEF Independent
      <3>2. IsPrefix(list[j], StepsTo(doc, p)) /\ list[j] # StepsTo(doc, p)
        BY <2>2 DEF IsStrictPrefix
      <3> DEFINE r == UpTo(p, Len(list[j]))
      <3>3. r \in DOMAIN doc /\ IsPrefix(r, p) /\ StepsTo(doc, r) = list[j] /\ r # p
        BY <3>1, <3>2, WhereThePathEnds
      <3> HIDE DEF r
      <3>4. r \in R BY <3>1, <3>3 DEF Taken
      <3> QED BY <3>3, <3>4 DEF IsStrictPrefix
    <2> QED BY <2>1, <2>2
  <1>7. kept = Shown(doc, list, 0) BY <1>3, <1>4, <1>6 DEF Shown
  <1>8. ASSUME NEW p \in kept PROVE Reading(copy[p], SharedReads) = Shows(doc, list, 0, p)
    <2>1. p \in DOMAIN doc BY <1>3
    <2>2. ~\E i \in 1 .. 0 : IsPrefix(list[i], StepsTo(doc, p)) OBVIOUS
    <2>3. p \in R <=> \E j \in 0 + 1 .. Len(list) : StepsTo(doc, p) = list[j]
      BY <2>1 DEF Taken
    <2>4. copy[p] = IF p \in R THEN Blank ELSE doc[p] BY <1>3
    <2> HIDE DEF R
    <2> QED BY <2>2, <2>3, <2>4 DEF Shows
  <1>9. \A p \in kept : StepsTo(copy, p) = StepsTo(doc, p) BY <1>3
  <1> HIDE DEF kept
  <1>10. DOMAIN value = {StepsTo(doc, p) : p \in kept} BY <1>5, <1>9
  <1>11. \A p \in kept : value[StepsTo(doc, p)] = Shows(doc, list, 0, p) BY <1>5, <1>8, <1>9
  <1>12. IsRecord(value, doc, list, 0) BY <1>5, <1>7, <1>10, <1>11 DEF IsRecord
  <1> QED BY <1>12 DEF value, copy, R

\* A path that leads nowhere leaves what was read.
LEMMA NothingToPutBack ==
  ASSUME NEW doc, IsDocument(doc), NEW list, Independent(list),
         NEW n \in Nat, n + 1 \in DOMAIN list,
         KeptUnder(doc, list[n + 1]) = {}, NEW value, IsRecord(value, doc, list, n)
  PROVE  IsRecord(value, doc, list, n + 1)
  <1>1. n + 1 \in n + 1 .. Len(list) /\ Len(list) \in Nat BY DEF Independent
  <1>2. \A j : /\ j \in n + 1 .. Len(list) <=> j = n + 1 \/ j \in (n + 1) + 1 .. Len(list)
               /\ j \in 1 .. n + 1 <=> j = n + 1 \/ j \in 1 .. n
    BY <1>1
  <1>3. ASSUME NEW p \in DOMAIN doc, IsKept(doc, p)
        PROVE  ~IsPrefix(list[n + 1], StepsTo(doc, p)) /\ StepsTo(doc, p) # list[n + 1]
    <2>1. ~IsPrefix(list[n + 1], StepsTo(doc, p)) BY <1>3 DEF KeptUnder
    <2>2. IsPrefix(StepsTo(doc, p), StepsTo(doc, p)) BY StepsToType, SelfPrefix
    <2> QED BY <2>1, <2>2
  <1>4. Shown(doc, list, n) = Shown(doc, list, n + 1) BY <1>2, <1>3 DEF Shown, IsStrictPrefix
  <1>5. ASSUME NEW p \in Shown(doc, list, n) PROVE Shows(doc, list, n, p) = Shows(doc, list, n + 1, p)
    <2>1. p \in DOMAIN doc /\ IsKept(doc, p) BY DEF Shown
    <2>2. ~IsPrefix(list[n + 1], StepsTo(doc, p)) /\ StepsTo(doc, p) # list[n + 1] BY <1>3, <2>1
    <2>3. (\E i \in 1 .. n : IsPrefix(list[i], StepsTo(doc, p)))
            <=> \E i \in 1 .. n + 1 : IsPrefix(list[i], StepsTo(doc, p))
      BY <1>2, <2>2
    <2>4. (\E j \in n + 1 .. Len(list) : StepsTo(doc, p) = list[j])
            <=> \E j \in (n + 1) + 1 .. Len(list) : StepsTo(doc, p) = list[j]
      BY <1>2, <2>2
    <2> QED BY <2>3, <2>4 DEF Shows
  <1> QED BY <1>4, <1>5 DEF IsRecord

LEMMA ExactPutBack ==
  ASSUME NEW doc, IsDocument(doc), NEW list, Independent(list),
         NEW n \in Nat, n + 1 \in DOMAIN list, KeptUnder(doc, list[n + 1]) # {},
         NEW new, ReadsInto(new, doc, list[n + 1], ExactReads),
         NEW value, IsRecord(value, doc, list, n)
  PROVE  IsRecord(PutBack(value, list[n + 1], new), doc, list, n + 1)
  <1> DEFINE path == list[n + 1]
             others == {s \in DOMAIN value : ~IsPrefix(path, s)}
             after == PutBack(value, path, new)
             rest(s) == SubSeq(s, Len(path) + 1, Len(s))
  <1>1. /\ Len(list) \in Nat /\ DOMAIN list = 1 .. Len(list) /\ path \in Seq(Steps)
        /\ n + 1 \in n + 1 .. Len(list)
    BY DEF Independent
  <1>2. \A j : /\ j \in n + 1 .. Len(list) <=> j = n + 1 \/ j \in (n + 1) + 1 .. Len(list)
               /\ j \in 1 .. n + 1 <=> j = n + 1 \/ j \in 1 .. n
    BY <1>1
  <1>3. \A j \in (n + 1) + 1 .. Len(list) : j \in DOMAIN list /\ j # n + 1 BY <1>1
  <1> HIDE DEF path
  \* Where the path leads, no later one does.
  <1>4. ASSUME NEW p \in DOMAIN doc, IsPrefix(path, StepsTo(doc, p)),
               NEW j \in (n + 1) + 1 .. Len(list)
        PROVE  ~IsPrefix(list[j], StepsTo(doc, p))
    BY <1>1, <1>3, <1>4, OnePath DEF path
  <1>5. path \in DOMAIN value
    <2>1. {p \in Occurrences(doc, path) : IsKept(doc, p)} # {} BY <1>1, KeptUnderEmpty DEF path
    <2>2. PICK p \in DOMAIN doc : IsKept(doc, p) /\ StepsTo(doc, p) = path
      BY <2>1 DEF Occurrences
    <2>3. IsPrefix(path, StepsTo(doc, p)) BY <1>1, <2>2, SelfPrefix
    <2>4. \A j \in n + 1 .. Len(list) : ~IsStrictPrefix(list[j], StepsTo(doc, p))
      BY <1>2, <1>4, <2>2, <2>3 DEF IsStrictPrefix, path
    <2>5. p \in Shown(doc, list, n) BY <2>2, <2>4 DEF Shown
    <2> QED BY <2>2, <2>5 DEF IsRecord
  <1>6. after = [s \in others \union {path \o t : t \in DOMAIN new} |->
                   IF s \in others THEN value[s] ELSE new[rest(s)]]
    BY <1>5 DEF PutBack
  <1> HIDE DEF after
  \* The positions that were there, and those the new value has.
  <1>7. ASSUME NEW p \in Shown(doc, list, n), ~IsPrefix(path, StepsTo(doc, p))
        PROVE  p \in Shown(doc, list, n + 1) /\ StepsTo(doc, p) \in others
    <2>1. p \in Shown(doc, list, n + 1) BY <1>2 DEF Shown
    <2> QED BY <1>7, <2>1 DEF IsRecord
  <1>8. ASSUME NEW p \in Shown(doc, list, n + 1), ~IsPrefix(path, StepsTo(doc, p))
        PROVE  p \in Shown(doc, list, n)
    BY <1>2, <1>8 DEF Shown, IsStrictPrefix, path
  <1>9. ASSUME NEW p \in KeptUnder(doc, path)
        PROVE  p \in Shown(doc, list, n + 1) /\ IsPrefix(path, StepsTo(doc, p))
    BY <1>4 DEF Shown, IsStrictPrefix, KeptUnder
  <1>10. ASSUME NEW p \in Shown(doc, list, n + 1), IsPrefix(path, StepsTo(doc, p))
         PROVE  p \in KeptUnder(doc, path)
    BY <1>10 DEF Shown, KeptUnder
  <1>11. ASSUME NEW p \in KeptUnder(doc, path)
         PROVE  path \o After(doc, path, p) = StepsTo(doc, p)
    BY <1>1, AfterType DEF KeptUnder
  <1>12. {path \o t : t \in DOMAIN new} = {StepsTo(doc, p) : p \in KeptUnder(doc, path)}
    <2>1. DOMAIN new = {After(doc, path, p) : p \in KeptUnder(doc, path)} BY DEF ReadsInto, path
    <2> QED BY <1>11, <2>1
  <1>13. others = {StepsTo(doc, p) : p \in {q \in Shown(doc, list, n) : ~IsPrefix(path, StepsTo(doc, q))}}
    <2>1. DOMAIN value = {StepsTo(doc, p) : p \in Shown(doc, list, n)} BY DEF IsRecord
    <2> QED BY <2>1
  <1>14. DOMAIN after = {StepsTo(doc, p) : p \in Shown(doc, list, n + 1)}
    <2> HIDE DEF others
    <2>1. DOMAIN after = others \union {StepsTo(doc, p) : p \in KeptUnder(doc, path)}
      BY <1>6, <1>12
    <2>2. ASSUME NEW s \in DOMAIN after PROVE \E p \in Shown(doc, list, n + 1) : s = StepsTo(doc, p)
      BY <1>7, <1>9, <1>13, <2>1
    <2>3. ASSUME NEW p \in Shown(doc, list, n + 1) PROVE StepsTo(doc, p) \in DOMAIN after
      BY <1>8, <1>10, <1>13, <2>1
    <2> QED BY <2>2, <2>3
  <1>15. ASSUME NEW p \in Shown(doc, list, n + 1)
         PROVE  after[StepsTo(doc, p)] = Shows(doc, list, n + 1, p)
    <2> DEFINE s == StepsTo(doc, p)
    <2>1. CASE IsPrefix(path, s)
      <3>1. p \in KeptUnder(doc, path) BY <1>10, <2>1
      <3>2. s \notin others BY <2>1
      <3>3. s \in others \union {path \o t : t \in DOMAIN new} BY <1>12, <3>1
      <3>4. after[s] = new[rest(s)] BY <1>6, <3>2, <3>3
      <3>5. rest(s) = After(doc, path, p)
        <4>1. Len(s) = Len(p) BY StepsToType DEF Shown
        <4> QED BY <4>1 DEF After
      <3>6. after[s] = Reading(doc[p], ExactReads) BY <3>1, <3>4, <3>5 DEF ReadsInto, path
      <3>7. \E i \in 1 .. n + 1 : IsPrefix(list[i], s) BY <1>2, <2>1 DEF path
      <3> QED BY <3>6, <3>7 DEF Shows
    <2>2. CASE ~IsPrefix(path, s)
      <3>1. p \in Shown(doc, list, n) /\ s \in others BY <1>7, <1>8, <2>2
      <3>2. after[s] = value[s]
        <4> HIDE DEF others
        <4> QED BY <1>6, <3>1
      <3>3. value[s] = Shows(doc, list, n, p) BY <3>1 DEF IsRecord
      <3>4. s # path
        <4>1. s \in Seq(Steps) BY StepsToType DEF Shown
        <4> QED BY <2>2, <4>1, SelfPrefix
      <3>5. (\E i \in 1 .. n : IsPrefix(list[i], s)) <=> \E i \in 1 .. n + 1 : IsPrefix(list[i], s)
        BY <1>2, <2>2 DEF path
      <3>6. (\E j \in n + 1 .. Len(list) : s = list[j])
              <=> \E j \in (n + 1) + 1 .. Len(list) : s = list[j]
        BY <1>2, <3>4 DEF path
      <3>7. Shows(doc, list, n, p) = Shows(doc, list, n + 1, p) BY <3>5, <3>6 DEF Shows
      <3> QED BY <3>2, <3>3, <3>7
    <2> QED BY <2>1, <2>2
  <1>16. after = [s \in DOMAIN after |-> after[s]] BY <1>6
  <1>17. IsRecord(after, doc, list, n + 1) BY <1>14, <1>15, <1>16 DEF IsRecord
  <1> QED BY <1>17 DEF after, path

LEMMA RecordWhenAllPut ==
  ASSUME NEW doc, IsDocument(doc), NEW list, Independent(list),
         NEW value, IsRecord(value, doc, list, Len(list))
  PROVE  LET shared == ValueAt(doc, <<>>, SharedReads) IN
         value = [steps \in DOMAIN shared |->
                    IF \E path \in ToSet(list) : IsPrefix(path, steps)
                    THEN ValueAt(doc, <<>>, ExactReads)[steps] ELSE shared[steps]]
  <1> DEFINE shared == ValueAt(doc, <<>>, SharedReads)
             exactly == ValueAt(doc, <<>>, ExactReads)
             kept == {p \in DOMAIN doc : IsKept(doc, p)}
             expected == [steps \in DOMAIN shared |->
                            IF \E path \in ToSet(list) : IsPrefix(path, steps)
                            THEN exactly[steps] ELSE shared[steps]]
  <1>1. /\ DOMAIN shared = {StepsTo(doc, p) : p \in kept}
        /\ \A p \in kept : shared[StepsTo(doc, p)] = Reading(doc[p], SharedReads)
        /\ \A p \in kept : exactly[StepsTo(doc, p)] = Reading(doc[p], ExactReads)
    BY ValueAtRoot
  <1> HIDE DEF shared, exactly
  <1>2. DOMAIN list = 1 .. Len(list) /\ Len(list) \in Nat /\ Len(list) + 1 .. Len(list) = {}
    BY DEF Independent
  <1>3. Shown(doc, list, Len(list)) = kept BY <1>2 DEF Shown
  <1>4. DOMAIN value = DOMAIN shared BY <1>1, <1>3 DEF IsRecord
  <1>5. ASSUME NEW s \in DOMAIN shared PROVE value[s] = expected[s]
    <2>1. PICK p \in kept : s = StepsTo(doc, p) BY <1>1
    <2>2. (\E path \in ToSet(list) : IsPrefix(path, s))
            <=> \E i \in 1 .. Len(list) : IsPrefix(list[i], StepsTo(doc, p))
      BY <1>2, <2>1 DEF ToSet
    <2>3. value[s] = Shows(doc, list, Len(list), p) BY <1>3, <2>1 DEF IsRecord
    <2>4. Shows(doc, list, Len(list), p)
            = IF \E path \in ToSet(list) : IsPrefix(path, s)
              THEN Reading(doc[p], ExactReads) ELSE Reading(doc[p], SharedReads)
      BY <1>2, <2>2 DEF Shows
    <2>5. shared[s] = Reading(doc[p], SharedReads) /\ exactly[s] = Reading(doc[p], ExactReads)
      BY <1>1, <2>1
    <2>6. expected[s] = IF \E path \in ToSet(list) : IsPrefix(path, s)
                        THEN exactly[s] ELSE shared[s]
      OBVIOUS
    <2> QED BY <2>3, <2>4, <2>5, <2>6
  <1>6. value = [steps \in DOMAIN value |-> value[steps]] BY DEF IsRecord
  <1>7. value = expected
    <2>1. expected = [steps \in DOMAIN shared |-> expected[steps]] OBVIOUS
    <2> HIDE DEF expected
    <2> QED BY <1>4, <1>5, <1>6, <2>1
  <1> QED BY <1>7 DEF expected, shared, exactly

-------------------------------------------------------------------------------
\* A document with opaque fields

DocumentInv ==
  \/ outcome = "none"
  \/ /\ IsDocument(document) /\ Independent(paths)
     /\ exact \in Seq({exact[i] : i \in DOMAIN exact}) /\ Len(exact) <= Len(paths)
     /\ scratch = SpliceNull(document, Taken(document, paths, Len(exact)))
     /\ \A i \in DOMAIN exact :
          IsChecked(document, paths[i]) /\ ReadsExactly(exact[i], document, paths[i])
     /\ \/ outcome = "reading" /\ put = 0
        \/ outcome = "refused" /\ (~AcceptableButAtPaths \/ ReadsInfinite)
        \/ /\ outcome = "decoded" /\ AcceptableButAtPaths /\ ~ReadsInfinite
           /\ Len(exact) = Len(paths) /\ put \in 0 .. Len(paths)
           /\ IsRecord(record, document, paths, put)

LEMMA DocumentInvInit == InitDocument \/ NoDocument => DocumentInv
  <1>1. NoDocument => DocumentInv BY DEF NoDocument, DocumentInv
  <1>2. ASSUME InitDocument PROVE DocumentInv
    <2>1. IsDocument(document) BY <1>2, ExactJsonAssumption DEF InitDocument
    <2>2. Independent(paths) BY <1>2, ExactJsonAssumption DEF InitDocument, Independent
    <2>3. /\ exact \in Seq({exact[i] : i \in DOMAIN exact}) /\ Len(exact) = 0 /\ DOMAIN exact = {}
          /\ Len(exact) <= Len(paths)
      BY <1>2, <2>2 DEF InitDocument, Independent
    <2>4. Taken(document, paths, 0) = {} BY DEF Taken
    <2>5. document = SpliceNull(document, {})
      <3>1. document = [p \in DOMAIN document |-> document[p]] BY <1>2, ExactJsonAssumption DEF InitDocument, IsDocument
      <3> QED BY <3>1 DEF SpliceNull
    <2> QED BY <1>2, <2>1, <2>2, <2>3, <2>4, <2>5 DEF InitDocument, DocumentInv
  <1> QED BY <1>1, <1>2

LEMMA AppendAny ==
  ASSUME NEW s, s \in Seq({s[i] : i \in DOMAIN s}), NEW x
  PROVE  LET t == Append(s, x) IN
         /\ t \in Seq({t[i] : i \in DOMAIN t}) /\ Len(t) = Len(s) + 1
         /\ \A i \in DOMAIN s : t[i] = s[i]
         /\ t[Len(s) + 1] = x
  <1> DEFINE S == {s[i] : i \in DOMAIN s} \union {x}
             t == Append(s, x)
  <1>1. s \in Seq(S) /\ x \in S OBVIOUS
  <1> HIDE DEF S
  <1>2. /\ t \in Seq(S) /\ Len(t) = Len(s) + 1
        /\ \A i \in 1 .. Len(s) : t[i] = s[i]
        /\ t[Len(s) + 1] = x
    BY <1>1, AppendProperties
  <1> HIDE DEF t
  <1>3. t \in Seq({t[i] : i \in DOMAIN t})
    <2>1. t \in [1 .. Len(t) -> {t[i] : i \in DOMAIN t}] /\ Len(t) \in Nat BY <1>2
    <2> QED BY <2>1
  <1> QED BY <1>1, <1>2, <1>3 DEF t

LEMMA DocumentInvTakeAt ==
  ASSUME DocumentInv, TakeAt
  PROVE  DocumentInv'
  <1> DEFINE n == Len(exact)
             path == paths[n + 1]
             located == Locate(scratch, path)
             found == {ValueAt(scratch, p, ExactReads) : p \in located.effective}
             succeeds == located.ok /\ \A p \in located.effective : ExactOk(scratch, p)
  <1>1. /\ IsDocument(document) /\ Independent(paths)
        /\ exact \in Seq({exact[i] : i \in DOMAIN exact}) /\ Len(exact) <= Len(paths)
        /\ scratch = SpliceNull(document, Taken(document, paths, n))
        /\ \A i \in DOMAIN exact :
             IsChecked(document, paths[i]) /\ ReadsExactly(exact[i], document, paths[i])
        /\ outcome = "reading" /\ put = 0
    BY DEF DocumentInv, TakeAt
  <1>2. document' = document /\ paths' = paths /\ put' = put /\ n < Len(paths) BY DEF TakeAt
  <1>3. n \in Nat /\ n + 1 \in DOMAIN paths /\ path \in Seq(Steps)
        /\ DOMAIN exact = 1 .. n
    <2>1. n \in Nat /\ DOMAIN exact = 1 .. n BY <1>1
    <2>2. DOMAIN paths = 1 .. Len(paths) /\ Len(paths) \in Nat /\ paths \in Seq(Seq(Steps))
      BY <1>1 DEF Independent
    <2>3. n + 1 \in DOMAIN paths BY <1>2, <2>1, <2>2
    <2> QED BY <2>1, <2>2, <2>3
  <1>4. \/ /\ succeeds
           /\ scratch' = SpliceNull(scratch, located.all)
           /\ exact' = Append(exact, found)
           /\ outcome' = outcome
        \/ /\ ~succeeds
           /\ outcome' = "refused" /\ scratch' = scratch /\ exact' = exact
    BY DEF TakeAt
  <1>5. IsDocument(scratch) BY <1>1, <1>3, CopyProperties
  <1>6. /\ located.all = Occurrences(scratch, path)
        /\ located.effective = {p \in Occurrences(scratch, path) : IsKept(scratch, p)}
        /\ located.ok <=> IsSound(scratch, path)
    BY <1>3, <1>5, AllAreOccurrences, EffectiveAreKept, LocatesIfSound, SoundIfLocates
  <1>7. CASE succeeds
    <2>1. scratch' = SpliceNull(scratch, located.all) /\ exact' = Append(exact, found)
          /\ outcome' = "reading"
      BY <1>1, <1>4, <1>7
    <2>2. IsChecked(document, path)
      <3>1. \A p \in Occurrences(scratch, path) : IsKept(scratch, p) => ExactOk(scratch, p)
        BY <1>6, <1>7
      <3>2. IsSound(scratch, path) BY <1>6, <1>7
      <3> QED BY <1>1, <1>3, <3>1, <3>2, CheckedIfTaken
    <2>3. ReadsExactly(found, document, path) BY <1>1, <1>3, FoundReadsExactly
    <2>4. scratch' = SpliceNull(document, Taken(document, paths, n + 1))
      BY <1>1, <1>3, <1>6, <2>1, NextPathInCopy
    <2> HIDE DEF found, located, succeeds
    <2>5. /\ exact' \in Seq({exact'[i] : i \in DOMAIN exact'}) /\ Len(exact') = n + 1
          /\ \A i \in DOMAIN exact : exact'[i] = exact[i]
          /\ exact'[n + 1] = found
      BY <1>1, <2>1, AppendAny
    <2>6. DOMAIN exact' = 1 .. n + 1 BY <1>3, <2>5
    <2>7. ASSUME NEW i \in DOMAIN exact'
          PROVE  IsChecked(document, paths[i]) /\ ReadsExactly(exact'[i], document, paths[i])
      <3>1. i \in DOMAIN exact \/ i = n + 1 BY <1>3, <2>6
      <3> QED BY <1>1, <2>2, <2>3, <2>5, <3>1
    <2>8. Len(exact') <= Len(paths)
      <3>1. Len(paths) \in Nat BY <1>1 DEF Independent
      <3> QED BY <1>2, <1>3, <2>5, <3>1
    <2> QED BY <1>1, <1>2, <2>1, <2>4, <2>5, <2>7, <2>8 DEF DocumentInv
  <1>8. CASE ~succeeds
    <2>1. scratch' = scratch /\ exact' = exact /\ outcome' = "refused" BY <1>4, <1>8
    <2>2. ~AcceptableButAtPaths \/ ReadsInfinite
      <3>1. \/ ~IsSound(scratch, path)
            \/ \E p \in Occurrences(scratch, path) : IsKept(scratch, p) /\ ~ExactOk(scratch, p)
        BY <1>6, <1>8
      <3> QED BY <1>1, <1>3, <3>1, FaultyIfNotTaken
    <2>3. (~AcceptableButAtPaths \/ ReadsInfinite)'
      BY <1>2, <2>2 DEF AcceptableButAtPaths, ReadsInfinite, OnPath
    <2> QED BY <1>1, <1>2, <2>1, <2>3 DEF DocumentInv
  <1> QED BY <1>7, <1>8

LEMMA DocumentInvDecodeRest ==
  ASSUME DocumentInv, DecodeRest
  PROVE  DocumentInv'
  <1>1. /\ IsDocument(document) /\ Independent(paths)
        /\ exact \in Seq({exact[i] : i \in DOMAIN exact}) /\ Len(exact) = Len(paths)
        /\ scratch = SpliceNull(document, Taken(document, paths, Len(paths)))
        /\ \A i \in DOMAIN exact :
             IsChecked(document, paths[i]) /\ ReadsExactly(exact[i], document, paths[i])
        /\ outcome = "reading" /\ put = 0
    BY DEF DocumentInv, DecodeRest
  <1>2. document' = document /\ paths' = paths /\ scratch' = scratch /\ exact' = exact /\ put' = put
    BY DEF DecodeRest
  <1>3. /\ AcceptableButAtPaths' <=> AcceptableButAtPaths
        /\ ReadsInfinite' <=> ReadsInfinite
    BY <1>2 DEF AcceptableButAtPaths, ReadsInfinite, OnPath
  <1>4. DOMAIN paths = DOMAIN exact /\ Len(paths) \in Nat BY <1>1 DEF Independent
  <1>5. CASE SharedOk(scratch)
    <2>1. outcome' = "decoded" /\ record' = ValueAt(scratch, <<>>, SharedReads)
      BY <1>5 DEF DecodeRest
    <2>2. AcceptableButAtPaths /\ ~ReadsInfinite BY <1>1, <1>4, <1>5, AcceptedIfDecoded
    <2>3. IsRecord(record', document, paths, 0) BY <1>1, <2>1, RecordAsDecoded
    <2>4. 0 \in 0 .. Len(paths) BY <1>4
    <2> QED BY <1>1, <1>2, <1>3, <2>1, <2>2, <2>3, <2>4 DEF DocumentInv
  <1>6. CASE ~SharedOk(scratch)
    <2>1. outcome' = "refused" BY <1>6 DEF DecodeRest
    <2>2. ~AcceptableButAtPaths BY <1>1, <1>6, FaultyIfNotDecoded
    <2> QED BY <1>1, <1>2, <1>3, <2>1, <2>2 DEF DocumentInv
  <1> QED BY <1>5, <1>6

LEMMA DocumentInvPutNext ==
  ASSUME DocumentInv, PutNext
  PROVE  DocumentInv'
  <1>1. /\ IsDocument(document) /\ Independent(paths)
        /\ exact \in Seq({exact[i] : i \in DOMAIN exact}) /\ Len(exact) = Len(paths)
        /\ scratch = SpliceNull(document, Taken(document, paths, Len(exact)))
        /\ \A i \in DOMAIN exact :
             IsChecked(document, paths[i]) /\ ReadsExactly(exact[i], document, paths[i])
        /\ outcome = "decoded" /\ AcceptableButAtPaths /\ ~ReadsInfinite
        /\ put \in 0 .. Len(paths) /\ IsRecord(record, document, paths, put)
    BY DEF DocumentInv, PutNext
  <1>2. /\ document' = document /\ paths' = paths /\ scratch' = scratch /\ exact' = exact
        /\ outcome' = outcome /\ put < Len(exact) /\ put' = put + 1
    BY DEF PutNext
  <1>3. /\ AcceptableButAtPaths' <=> AcceptableButAtPaths
        /\ ReadsInfinite' <=> ReadsInfinite
    BY <1>2 DEF AcceptableButAtPaths, ReadsInfinite, OnPath
  <1>4. /\ put \in Nat /\ put + 1 \in DOMAIN paths /\ put + 1 \in DOMAIN exact
        /\ put + 1 \in 0 .. Len(paths)
    <2>1. DOMAIN paths = 1 .. Len(paths) /\ Len(paths) \in Nat BY <1>1 DEF Independent
    <2> QED BY <1>1, <1>2, <2>1
  <1>5. ReadsExactly(exact[put + 1], document, paths[put + 1]) BY <1>1, <1>4
  <1>6. IsRecord(record', document, paths, put + 1)
    <2>1. CASE exact[put + 1] = {}
      <3>1. record' = record BY <1>2, <2>1 DEF PutNext
      <3>2. KeptUnder(document, paths[put + 1]) = {} BY <1>5, <2>1 DEF ReadsExactly
      <3> QED BY <1>1, <1>4, <3>1, <3>2, NothingToPutBack
    <2>2. CASE exact[put + 1] # {}
      <3>1. PICK new \in exact[put + 1] : record' = PutBack(record, paths[put + 1], new)
        BY <1>2, <2>2 DEF PutNext
      <3>2. KeptUnder(document, paths[put + 1]) # {} /\ ReadsInto(new, document, paths[put + 1], ExactReads)
        BY <1>5, <2>2 DEF ReadsExactly
      <3> QED BY <1>1, <1>4, <3>1, <3>2, ExactPutBack
    <2> QED BY <2>1, <2>2
  <1> QED BY <1>1, <1>2, <1>3, <1>4, <1>6 DEF DocumentInv

LEMMA DocumentInvNext ==
  DocumentInv /\ [NextDocument]_documentVars => DocumentInv'
  <1>1. ASSUME DocumentInv, UNCHANGED documentVars PROVE DocumentInv'
    BY <1>1 DEF documentVars, DocumentInv, AcceptableButAtPaths, ReadsInfinite, OnPath
  <1> QED
    BY <1>1, DocumentInvTakeAt, DocumentInvDecodeRest, DocumentInvPutNext DEF NextDocument

\* A document that decodes reads as an exact parser reads it at the paths and as
\* the shared parser reads it everywhere else, whatever the document and however
\* many independent paths are taken out of it (from_slice_exact and its callers).
THEOREM ExactAlwaysAtThePaths == DocumentSpec => []ExactAtThePaths
  <1>1. DocumentInv => ExactAtThePaths
    <2> SUFFICES ASSUME DocumentInv, outcome = "decoded", put = Len(paths)
                 PROVE  LET shared == ValueAt(document, <<>>, SharedReads) IN
                        record = [steps \in DOMAIN shared |->
                                    IF \E path \in ToSet(paths) : IsPrefix(path, steps)
                                    THEN ValueAt(document, <<>>, ExactReads)[steps]
                                    ELSE shared[steps]]
      BY DEF ExactAtThePaths
    <2>1. IsDocument(document) /\ Independent(paths) /\ IsRecord(record, document, paths, Len(paths))
      BY DEF DocumentInv
    <2> QED BY <2>1, RecordWhenAllPut
  <1> QED BY DocumentInvInit, DocumentInvNext, <1>1, PTL DEF DocumentSpec

\* It decodes exactly when the shared parser would accept it but for valid
\* numbers at the paths, and the numbers kept fit a double: blanking hides no
\* fault, and adds none (locate, skip and decode_span).
THEOREM AlwaysAcceptsAsShared == DocumentSpec => []AcceptsAsShared
  <1>1. DocumentInv => AcceptsAsShared BY DEF DocumentInv, AcceptsAsShared
  <1> QED BY DocumentInvInit, DocumentInvNext, <1>1, PTL DEF DocumentSpec

-------------------------------------------------------------------------------
\* One subject at a time

\* Whichever subject is followed, each module's part of the state starts and moves
\* as that module says: the steps WireValues takes are the modules' own.
THEOREM SubjectsAsSpecified ==
  Spec => ColumnSpec /\ DecimalSpec /\ TimeSpec /\ ObservationSpec /\ ChunkSpec /\ DocumentSpec /\ ScanSpec
  <1>1. ASSUME Init
        PROVE  /\ InitColumn \/ NoColumn
               /\ InitDecimals \/ NoDecimals
               /\ InitTimes \/ NoTimes
               /\ InitObservation \/ NoObservation
               /\ InitDocument \/ NoDocument
               /\ InitChunk /\ InitScan
    BY <1>1 DEF Init
  <1>2. ASSUME [Next]_vars
        PROVE  /\ [WriteAndReadColumn]_columnVars
               /\ [UseDecimals]_decimalVars
               /\ [WriteAndRead]_timeVars
               /\ [UseObservation]_metadataVars
               /\ [Lengthen]_chunkLength
               /\ [NextDocument]_documentVars
               /\ [NextScan]_scanVars
    BY <1>2 DEF Next, vars, ValueStep, DecimalStep, TimeStep, ObservationStep, ChunkStep, OpaqueStep, LineStep
  <1> QED
    BY <1>1, <1>2, PTL
    DEF Spec, ColumnSpec, DecimalSpec, TimeSpec, ObservationSpec, ChunkSpec, DocumentSpec, ScanSpec

\* What a record's values are on the wire, whichever of them a behaviour follows:
\* what was read is what was stored, orders are orders, no bound is exceeded, and
\* nothing is lost or let through where two readers take turns.
THEOREM WireAlwaysSound ==
  Spec => /\ StoredValueStable
          /\ [](/\ DecimalsExact /\ ExactOrderTotal /\ LiteralFindsStored /\ WindowIsContiguous
               /\ MetadataRestored /\ ExactAtThePaths /\ AcceptsAsShared /\ ScanBoundsTree
               /\ GuardAdmitsLegitimate)
  BY SubjectsAsSpecified, StoredValuesAlwaysStable, DecimalsAlwaysExact, ExactOrderAlwaysTotal,
     LiteralsAlwaysFind, WindowAlwaysContiguous, RestoredAlways, ExactAlwaysAtThePaths,
     AlwaysAcceptsAsShared, BoundAlwaysHolds, GuardAlwaysAdmits, PTL

===============================================================================
