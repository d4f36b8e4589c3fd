----------------------------- MODULE PropertyValue -----------------------------
(***************************************************************************)
(* Property values, their two JSON forms, and the order a query sorts by.  *)
(*                                                                         *)
(* A text is what it reads as and whether it is the spelling the code      *)
(* writes: `"1.50"` and `"15.0e-1"` both read as the decimal 150 / 10^2.   *)
(* Numbers that are not whole are counted in the smallest unit a decimal   *)
(* can have.  A double is one of the numbers in `Doubles`, or not finite   *)
(* (no number).  Digits that happen to be base64 are left out, and so is   *)
(* the least integer as a decimal, which prints what is no decimal.        *)
(*                                                                         *)
(* Arrays of values nest at most ArrayDepth deep, and documents as deep as *)
(* such an array is when it is written.  The values of a column are        *)
(* written out and read back, any number of times.                         *)
(***************************************************************************)
EXTENDS Decimal, FiniteSets

CONSTANTS
  LongRange,       \* i64
  Int32Range, Int16Range,
  Doubles,         \* finite doubles, in units
  MemberKeys,      \* the keys that objects have
  ArrayDepth,
  Column           \* property values as a producer holds them

Tag == "$ant"
Val == "v"

Unit == Ten[MaxPrecision]

LegacyTypes == {"null", "bool", "long", "float", "text", "json"}
TextTypes == {"decimal", "date", "time", "timestamp", "uuid", "bytes"}
IntegralTypes == {"long", "int32", "int16"}

One(S) == [1 .. 1 -> S]

\* What a value of a textual type holds.
Payload ==
  [decimal   |-> (MinInt + 1 .. MaxInt) \X (0 .. MaxPrecision),
   date      |-> One(Int),
   time      |-> Int \X Nat,
   timestamp |-> Int \X Int,
   uuid      |-> One(Int),
   bytes     |-> Seq(Int)]

-------------------------------------------------------------------------------
\* Texts and documents

TextOf(as, n, canonical) == [as |-> as, n |-> n, canonical |-> canonical]
Word(k) == TextOf("word", <<k>>, TRUE)
TagText(type) == [as |-> "tag", n |-> <<>>, canonical |-> TRUE, type |-> type]

TextsAs(as) == [as : {as}, n : Payload[as], canonical : BOOLEAN]

Texts ==
  [as : {"word"}, n : Seq(Int), canonical : BOOLEAN]
    \union TextsAs("decimal") \union TextsAs("date") \union TextsAs("time")
    \union TextsAs("timestamp") \union TextsAs("uuid") \union TextsAs("bytes")
    \union [as : {"tag"}, n : {<<>>}, canonical : {TRUE},
            type : TextTypes \union {"int32", "int16", "array"}]

JNull == [json |-> "null"]
JBool(b) == [json |-> "bool", n |-> <<b>>]
JInteger(i) == [json |-> "integer", n |-> <<i>>]
JReal(units) == [json |-> "real", n |-> <<units>>]
JString(text) == [json |-> "string", text |-> text]
JArray(items) == [json |-> "array", items |-> items]

\* None where an object has no member.
JObject(members) ==
  [json |-> "object",
   members |-> [key \in MemberKeys |-> IF key \in DOMAIN members THEN members[key] ELSE None]]

Envelope(type, payload) ==
  JObject([key \in {Tag, Val} |-> IF key = Tag THEN JString(TagText(type)) ELSE payload])

PlainJson ==
  {JNull}
    \union [json : {"bool"}, n : One({0, 1})]
    \union [json : {"integer"}, n : One(Int)]
    \union [json : {"real"}, n : One(Doubles)]
    \union [json : {"string"}, text : Texts]

JsonUpTo[depth \in Nat] ==
  LET inner == IF depth = 0 THEN {} ELSE JsonUpTo[depth - 1] IN
  PlainJson
    \union [json : {"array"}, items : Seq(inner)]
    \union [json : {"object"}, members : [MemberKeys -> inner \union {None}]]

\* A value nested in arrays is written twice as deep, in an envelope each time.
Docs == JsonUpTo[2 * ArrayDepth + 1]

-------------------------------------------------------------------------------
\* Values

Null == [type |-> "null"]
Value(type, n) == [type |-> type, n |-> n]
Text(text) == [type |-> "text", text |-> text]
Json(doc) == [type |-> "json", doc |-> doc]
ArrayOf(items) == [type |-> "array", items |-> items]
NaN == Value("float", <<>>)

ValuesAs(type, N) == [type : {type}, n : N]

PlainValues ==
  {Null, NaN}
    \union ValuesAs("bool", One({0, 1})) \union ValuesAs("long", One(LongRange))
    \union ValuesAs("int32", One(Int32Range)) \union ValuesAs("int16", One(Int16Range))
    \union ValuesAs("float", One(Doubles))
    \union ValuesAs("decimal", Payload["decimal"]) \union ValuesAs("date", Payload["date"])
    \union ValuesAs("time", Payload["time"]) \union ValuesAs("timestamp", Payload["timestamp"])
    \union ValuesAs("uuid", Payload["uuid"]) \union ValuesAs("bytes", Payload["bytes"])
    \union [type : {"text"}, text : Texts]

ValuesUpTo[depth \in Nat] ==
  LET inner == IF depth = 0 THEN {} ELSE ValuesUpTo[depth - 1] IN
  PlainValues
    \union [type : {"json"}, doc : JsonUpTo[2 * depth + 1]]
    \union [type : {"array"}, items : Seq(inner)]

Values == ValuesUpTo[ArrayDepth]

ASSUME PropertyValueAssumption ==
  /\ Int16Range \subseteq Int32Range /\ Int32Range \subseteq LongRange
  /\ LongRange \subseteq MinInt + 1 .. MaxInt
  /\ Doubles \subseteq Int /\ 0 \in Doubles
  /\ {Tag, Val} \subseteq MemberKeys
  /\ ArrayDepth \in Nat
  /\ None \notin Docs \union Values
  /\ Column \subseteq Values

IsSqlTyped(v) == v.type \notin LegacyTypes

\* The values in an array, and in the arrays in it.
Leaves[v \in Values] ==
  IF v.type = "array" THEN UNION {Leaves[v.items[i]] : i \in DOMAIN v.items} ELSE {v}

-------------------------------------------------------------------------------
\* The two JSON forms

\* The text of a payload.  A time is written to the microsecond; it is held in
\* tenths of one.
PayloadText(v) ==
  IF v.type = "time"
  THEN TextOf("time", <<v.n[1], v.n[2] - (v.n[2] % 10)>>, TRUE)
  ELSE TextOf(v.type, v.n, TRUE)

PlainToJson(v) ==
  CASE v.type = "null"      -> JNull
    [] v.type = "bool"      -> JBool(v.n[1])
    [] v.type = "long"      -> JInteger(v.n[1])
    [] v.type = "float"     -> IF v = NaN THEN JNull ELSE JReal(v.n[1])
    [] v.type = "text"      -> JString(v.text)
    [] v.type = "json"      -> v.doc
    [] v.type \in TextTypes -> Envelope(v.type, JString(PayloadText(v)))
    [] OTHER                -> Envelope(v.type, JInteger(v.n[1]))

ToJson[v \in Values] ==
  IF v.type = "array"
  THEN Envelope("array", JArray([i \in DOMAIN v.items |-> ToJson[v.items[i]]]))
  ELSE PlainToJson(v)

\* The nearest double, the one with the even significand of two: every binade
\* has as many even ones as odd ones, and they alternate.
Nearest(units) ==
  LET distance(f) == Magnitude(f - units)
      close == {f \in Doubles : \A g \in Doubles : distance(f) <= distance(g)}
      even(f) == Cardinality({g \in Doubles : 0 <= g /\ g < Magnitude(f)}) % 2 = 0
  IN  CHOOSE f \in close : even(f) \/ \A g \in close : ~even(g)

HasTag(members) ==
  /\ members[Tag] # None /\ members[Val] # None
  /\ members[Tag].json = "string" /\ members[Tag].text.as = "tag"

IsEnvelope(members) ==
  HasTag(members) /\ \A key \in MemberKeys \ {Tag, Val} : members[key] = None

TypeOf(members) == members[Tag].text.type

\* Mutant of FromEnvelope: any object with a known tag and a payload.
FromEnvelopeLoose(members) ==
  IF /\ HasTag(members) /\ TypeOf(members) \in TextTypes
     /\ members[Val].json = "string" /\ members[Val].text.as = TypeOf(members)
  THEN Value(TypeOf(members), members[Val].text.n)
  ELSE None

\* from_object: the value of a well-formed envelope, or None.
FromEnvelope(members) ==
  LET type == TypeOf(members)
      payload == members[Val]
  IN  IF ~IsEnvelope(members) THEN None
      ELSE IF \/ type = "int32" /\ payload.json = "integer" /\ payload.n[1] \in Int32Range
              \/ type = "int16" /\ payload.json = "integer" /\ payload.n[1] \in Int16Range
      THEN Value(type, payload.n)
      ELSE IF type \in TextTypes /\ payload.json = "string" /\ payload.text.as = type
      THEN Value(type, payload.text.n)
      ELSE None

PlainFromJson(doc) ==
  CASE doc.json = "null"    -> Null
    [] doc.json = "bool"    -> Value("bool", doc.n)
    [] doc.json = "integer" -> IF doc.n[1] \in LongRange THEN Value("long", doc.n)
                               ELSE Value("float", <<Nearest(Unit * doc.n[1])>>)
    [] doc.json = "real"    -> Value("float", doc.n)
    [] doc.json = "string"  -> Text(doc.text)
    [] doc.json = "array"   -> Json(doc)
    [] OTHER                -> LET typed == FromEnvelope(doc.members) IN
                               IF typed = None THEN Json(doc) ELSE typed

IsTypedArray(doc) ==
  /\ doc.json = "object" /\ IsEnvelope(doc.members)
  /\ TypeOf(doc.members) = "array" /\ doc.members[Val].json = "array"

FromJson[doc \in Docs] ==
  IF IsTypedArray(doc)
  THEN LET items == doc.members[Val].items IN ArrayOf([i \in DOMAIN items |-> FromJson[items[i]]])
  ELSE PlainFromJson(doc)

\* The form of /public/v1: typed values as the bare scalars they once were.
ToCompatJson[v \in Values] ==
  CASE v.type \in {"int32", "int16"} -> JInteger(v.n[1])
    [] v.type \in TextTypes          -> JString(PayloadText(v))
    [] v.type = "array"              ->
         JArray([i \in DOMAIN v.items |-> ToCompatJson[v.items[i]]])
    [] OTHER                         -> PlainToJson(v)

-------------------------------------------------------------------------------
\* Order

Rank(v) ==
  CASE v.type = "null" -> 0
    [] v.type = "bool" -> 1
    [] v.type \in IntegralTypes \union {"float", "decimal"} -> 2
    [] v.type = "date" -> 3
    [] v.type = "time" -> 4
    [] v.type = "timestamp" -> 5
    [] v.type = "text" -> 6
    [] v.type = "uuid" -> 7
    [] v.type = "bytes" -> 8
    [] v.type = "array" -> 9
    [] OTHER -> 10

AsExact(v) ==
  IF v.type = "decimal" THEN DecimalOf(v.n[1], v.n[2])
  ELSE IF v.type \in IntegralTypes THEN FromParts(v.n[1], 0)
  ELSE None

\* In units; None for NaN.
AsDouble(v) ==
  IF v.type = "float" THEN (IF v = NaN THEN None ELSE v.n[1])
  ELSE LET d == AsExact(v) IN Nearest(d.unscaled * Ten[MaxPrecision - d.scale])

\* Mutant of NumericCompare: by double, whatever the types.
NumericCompareAsDoubles(v, w) ==
  IF AsDouble(v) = None \/ AsDouble(w) = None THEN 0 ELSE Compare(AsDouble(v), AsDouble(w))

NumericCompare(v, w) ==
  IF AsExact(v) # None /\ AsExact(w) # None
  THEN DecimalCompare(AsExact(v), AsExact(w))
  ELSE IF AsDouble(v) = None \/ AsDouble(w) = None THEN 0
  ELSE Compare(AsDouble(v), AsDouble(w))

\* The first of the orders that is not Equal, or that of the lengths.
Lexicographic(orders, m, n) ==
  LET i == FirstNonZero(orders) IN IF i = 0 THEN Compare(m, n) ELSE orders[i]

Common(s, t) == 1 .. (IF Len(s) < Len(t) THEN Len(s) ELSE Len(t))

SeqCompare(s, t) ==
  Lexicographic([i \in Common(s, t) |-> Compare(s[i], t[i])], Len(s), Len(t))

\* Texts and documents compare by their characters: only that this is an order
\* of the texts matters, and of the documents that they are texts.
TextKinds == <<"word", "decimal", "date", "time", "timestamp", "uuid", "bytes", "tag">>
TextKey(text) ==
  <<SelectInSeq(TextKinds, LAMBDA as : as = text.as), IF text.canonical THEN 1 ELSE 0>> \o text.n
DocKey(doc) == IF doc.json = "array" THEN <<Len(doc.items)>> ELSE <<-1>>

SameRankCompare(v, w) ==
  CASE v.type \in {"bool", "date", "time", "uuid", "bytes"} -> SeqCompare(v.n, w.n)
    [] v.type = "timestamp" -> Compare(v.n[1], w.n[1])
    [] v.type = "text" -> SeqCompare(TextKey(v.text), TextKey(w.text))
    [] v.type = "json" -> SeqCompare(DocKey(v.doc), DocKey(w.doc))
    [] v.type = "null" -> 0
    [] OTHER -> NumericCompare(v, w)

PlainCompare(v, w) ==
  IF Rank(v) # Rank(w) THEN Compare(Rank(v), Rank(w)) ELSE SameRankCompare(v, w)

\* How a value compares with each value.
Comparing[v \in Values] ==
  [w \in Values |->
     IF v.type = "array" /\ w.type = "array"
     THEN Lexicographic([i \in Common(v.items, w.items) |-> Comparing[v.items[i]][w.items[i]]],
                        Len(v.items), Len(w.items))
     ELSE PlainCompare(v, w)]

CompareValues(v, w) == Comparing[v][w]

EqualValues(v, w) == CompareValues(v, w) = 0 /\ Rank(v) = Rank(w)

\* Mutant of CoerceLike: it is the literal that has to be typed.
CoerceLikeTyped(v, like) ==
  IF Rank(v) # Rank(like) /\ IsSqlTyped(v) /\ v.type \in TextTypes
  THEN Value(like.type, v.n)
  ELSE v

\* A literal of a query, read as the type of the stored value it meets.
CoerceLike(v, like) ==
  IF /\ Rank(v) # Rank(like)
     /\ IsSqlTyped(like)
     /\ v.type = "text"
     /\ like.type \in TextTypes
     /\ v.text.as = like.type
  THEN Value(like.type, v.text.n)
  ELSE v

-------------------------------------------------------------------------------
\* A column.  A value is as its producer holds it until it has been written once.

VARIABLES values, stored

columnVars == <<values, stored>>

InitColumn == \E v, w, x \in Column : values = <<v, w, x>> /\ stored = FALSE

NoColumn == values = <<>> /\ stored = FALSE

WriteAndReadColumn ==
  /\ values' = [i \in DOMAIN values |-> FromJson[ToJson[values[i]]]]
  /\ stored' = TRUE

ColumnSpec == (InitColumn \/ NoColumn) /\ [][WriteAndReadColumn]_columnVars

-------------------------------------------------------------------------------

InMicroseconds(v) == \A x \in Leaves[v] : x.type = "time" => x.n[2] % 10 = 0

\* What the wire keeps exactly: not the NaN, which has no JSON form, not the
\* digits of a time below the microsecond, and not a document that reads as a
\* value of another type.
Kept(v) == InMicroseconds(v) /\ \A x \in Leaves[v] : x.type # "json" /\ x # NaN

\* A value that was read from the wire goes out and comes back unchanged, but for
\* times that its text had in finer digits, and so does a producer's own value of
\* a kind the wire keeps (PropertyValue's to_json and from_json, and the closed
\* shape of its envelopes).
StoredValueStable ==
  [][\A i \in DOMAIN values :
       (IF stored THEN InMicroseconds(values[i]) ELSE Kept(values[i]))
         => values'[i] = values[i]]_columnVars

ExactlyOrdered(S) ==
  /\ \A v, w \in S : CompareValues(v, w) = -CompareValues(w, v)
  /\ \A u, v, w \in S :
       CompareValues(u, v) <= 0 /\ CompareValues(v, w) <= 0 => CompareValues(u, w) <= 0

IsExactNumber(v) == v.type \in IntegralTypes \union {"decimal"}

UnitsOfNumber(v) ==
  IF v.type = "decimal" THEN v.n[1] * Ten[MaxPrecision - v.n[2]] ELSE Unit * v.n[1]

\* Values without doubles in them are totally ordered, integers and decimals
\* among them by the number they are, and stay so on their way (PropertyValue's
\* cmp_value).
ExactOrderTotal ==
  (\A v \in Range(values) : \A x \in Leaves[v] : x.type # "float") =>
    /\ ExactlyOrdered(Range(values))
    /\ \A v, w \in Range(values) :
         IsExactNumber(v) /\ IsExactNumber(w) =>
           CompareValues(v, w) = Compare(UnitsOfNumber(v), UnitsOfNumber(w))

\* The order a query sorts by is total on all values: what cmp_value is
\* documented to be.
TotalOrder == ExactlyOrdered(Range(values))

\* A value as /public/v1 shows it, used as the literal of a query, is equal to
\* the stored value it came from (to_compat_json, coerce_like and eq_value).
LiteralFindsStored ==
  \A v \in Range(values) :
    Kept(v) /\ v.type # "array" => EqualValues(CoerceLike(FromJson[ToCompatJson[v]], v), v)
===============================================================================
