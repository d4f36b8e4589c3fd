------------------------------ MODULE MCWireValues ------------------------------
(***************************************************************************)
(* Small widths: integers of 8 bits with decimals of two places, doubles   *)
(* that are spaced 1, 2 and 4 apart above 4, 8 and 16.                     *)
(***************************************************************************)
EXTENDS WireValues

MCDoubles ==
  LET positive == {50 * k : k \in 1 .. 8} \union {100 * k : k \in 4 .. 8}
                    \union {200 * k : k \in 4 .. 8} \union {400 * k : k \in 4 .. 8}
  IN  {0} \union positive \union {-f : f \in positive}

MCMinInt == -128
MCLong == -64 .. 63
MCInt32 == -16 .. 15
MCInt16 == -4 .. 3

MCLiterals ==
  {Literal(s, i, f, e) :
     s \in BOOLEAN, i \in {<<>>, <<0>>, <<1>>, <<1, 2, 7>>, <<1, 2, 8>>},
     f \in {<<>>, <<0>>, <<5>>, <<2, 7>>, <<0, 0, 0>>}, e \in {-1, 0, 1}}

\* Values as producers hold them: each kind, the edges of the integers, one
\* number in several types, and documents that look like typed values.
MCExactColumn ==
  {Null, Value("bool", <<1>>),
   Value("long", <<9>>), Value("decimal", <<85, 1>>), Value("int16", <<1>>),
   Value("decimal", <<100, 2>>), Value("decimal", <<127, 0>>), Value("decimal", <<-5, 1>>),
   Value("date", <<3>>), Value("time", <<3, 10>>), Value("time", <<3, 14>>),
   Value("timestamp", <<4, 1>>), Value("timestamp", <<4, 2>>),
   Text(Word(2)), Text(TextOf("decimal", <<100, 2>>, FALSE)),
   ArrayOf(<<Value("decimal", <<10, 1>>), Null>>), ArrayOf(<<Value("int16", <<1>>)>>)}

MCDocuments ==
  {Json(Envelope("decimal", JString(TextOf("decimal", <<100, 2>>, TRUE)))),
   Json(Envelope("int16", JInteger(100))),
   Json(JObject(Tag :> JString(TagText("date")) @@ Val :> JString(TextOf("date", <<3>>, TRUE))
                  @@ "w" :> JNull)),
   Json(JArray(<<JInteger(1)>>)), Json(JInteger(3)),
   Json(JString(TextOf("time", <<3, 14>>, FALSE))), Json(Envelope("time", JString(TextOf("time", <<3, 14>>, TRUE)))),
   Json(Envelope("array", JArray(<<JString(Word(1)), JInteger(1)>>)))}

MCColumn ==
  MCExactColumn \union MCDocuments
    \union {NaN, Value("float", <<350>>), Value("uuid", <<1>>), Value("int32", <<-8>>),
            Value("bytes", <<1, 2>>), ArrayOf(<<ArrayOf(<<Value("time", <<3, 14>>), NaN>>)>>)}

\* Numbers around one that no double holds.
MCNumbers ==
  {Value("long", <<8>>), Value("long", <<9>>), Value("float", <<800>>), Value("decimal", <<95, 1>>),
   Value("float", <<100>>), Null, Text(Word(1))}

MCMetadata ==
  LET condition == [chainId |-> "c", previous |-> <<"o1">>, initialize |-> FALSE] IN
      {[object |-> FALSE, text |-> "null"],
       [object |-> TRUE, marker |-> <<>>, condition |-> <<>>, original |-> <<>>, others |-> 2],
       [object |-> TRUE, marker |-> <<0>>, condition |-> <<>>, original |-> <<>>, others |-> 0],
       [object |-> TRUE, marker |-> <<>>, condition |-> <<condition>>, original |-> <<>>,
        others |-> 0],
       [object |-> TRUE, marker |-> <<1>>, condition |-> <<>>, original |-> <<>>, others |-> 0],
       [object |-> TRUE, marker |-> <<1>>, condition |-> <<condition>>,
        original |-> <<[object |-> FALSE, text |-> "null"]>>, others |-> 1],
       [object |-> TRUE, marker |-> <<1>>, condition |-> <<condition>>,
        original |-> <<[object |-> FALSE, text |-> "null"]>>, others |-> 0],
       [object |-> TRUE, marker |-> <<1>>, condition |-> <<condition>>,
        original |-> <<[object |-> TRUE, marker |-> <<0>>, condition |-> <<>>, original |-> <<>>,
                        others |-> 1]>>, others |-> 0],
       [object |-> TRUE, marker |-> <<1>>, condition |-> <<Malformed>>,
        original |-> <<[object |-> FALSE, text |-> "null"]>>, others |-> 0]}

MCConditions ==
  [chainId : {"c", ""}, previous : {<<>>, <<"o0">>, <<"o1">>, <<"o2">>}, initialize : BOOLEAN]

-------------------------------------------------------------------------------
\* Documents of two levels, with escaped and repeated keys

Prefixed(i, doc) == {<<i>> \o p : p \in DOMAIN doc}

\* A container of documents, in the order of the text.
Containing(node, docs) ==
  [p \in {<<>>} \union UNION {Prefixed(i, docs[i]) : i \in DOMAIN docs} |->
     IF p = <<>> THEN node ELSE docs[Head(p)][Tail(p)]]

OfClass(class) == [p \in {<<>>} |-> ScalarNode(class)]
MemberOf(key, escaped, value) == [key |-> key, escaped |-> escaped, value |-> value]
ObjectOf(members) ==
  Containing(ObjectNode([i \in DOMAIN members |-> [key |-> members[i].key, escaped |-> members[i].escaped]]),
             [i \in DOMAIN members |-> members[i].value])
ArrayWith(items) == Containing(ArrayNode, items)
Numbers == {OfClass(class) : class \in Scalars}

Inner ==
  Numbers
    \union {ObjectOf(<<MemberOf("s", TRUE, n)>>) : n \in Numbers}
    \union {ObjectOf(<<MemberOf("s", FALSE, m), MemberOf("s", FALSE, n)>>) :
              m \in {OfClass("wide"), OfClass("infinite")},
              n \in {OfClass("lossy"), OfClass("malformed")}}
    \union {ObjectOf(<<MemberOf("t", FALSE, OfClass("lossy"))>>), ObjectOf(<<>>),
            ArrayWith(<<OfClass("wide"), OfClass("lossy")>>),
            ObjectOf(<<MemberOf("s", FALSE, ArrayWith(<<ObjectOf(<<>>)>>))>>),
            ObjectOf(<<MemberOf("s", FALSE, ArrayWith(<<ArrayWith(<<OfClass("exact")>>), OfClass("wide")>>))>>),
            ArrayWith(<<ArrayWith(<<ArrayWith(<<>>)>>)>>)}

Members ==
  {MemberOf("a", escaped, v) : escaped \in BOOLEAN, v \in Inner}
    \union {MemberOf("b", FALSE, v) : v \in Inner}

MCTexts ==
  {ObjectOf(<<m>>) : m \in Members} \union {ObjectOf(<<m, n>>) : m, n \in Members}
    \union {OfClass("lossy"), ArrayWith(<<OfClass("lossy")>>)}

MCPathLists ==
  {<<<<KeyStep("a"), KeyStep("s")>>>>,
   <<<<KeyStep("b")>>, <<KeyStep("a"), IndexStep(2)>>>>}
===============================================================================
