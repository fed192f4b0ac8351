--------------------------- MODULE MCRequestParser ---------------------------
(***************************************************************************)
(* RequestParser under TLC.  The types are narrower than the real ones and *)
(* keep their order: 3 bits for 8, 4 for 16, 5 for 32 and for a long.      *)
(***************************************************************************)
EXTENDS RequestParser

MCSpan == [type \in IntegerTypes \cup {"long"} |->
              CASE type \in {"INT8", "UINT8"} -> 8
                [] type \in {"INT16", "UINT16"} -> 16
                [] type \in {"INT32", "UINT32", "long"} -> 32]

Text(w, n, r, c, f) == [word |-> w, number |-> n, real |-> r, char |-> c, flag |-> f]
Word(w) == Text(w, None, FALSE, 6, None)
Flag(w, f) == Text(w, None, FALSE, 5, f)
Digits(w, n, c) == Text(w, n, TRUE, c, None)
Half == Text(".5", None, TRUE, 1, None)
Blank == Text(" ", None, FALSE, None, None)

\* At the ends of the ranges, beyond them, and no numbers at all.
Values == {Word("dummy"), Flag("true", TRUE), Flag("false", FALSE), Half, Blank, None, Null,
           Digits("7", 7, 3), Digits("8", 8, 2), Digits("15", 15, 1), Digits("16 m", 16, 1),
           Digits("31", 31, 3), Digits("32", 32, 3), Digits("-1", -1, 0),
           Digits("-8", -8, 0), Digits("-9", -9, 0), Digits("-16", -16, 0),
           Digits("-17", -17, 0), Digits("-32", -32, 0)}

MCWords == {t.word : t \in Values \ {None, Null}} \cup Types \cup Lifetimes
               \cup {"i1", "i2", "string", "object", "k1", "c1", "c2", "INT64"}

Object(name, type, value) ==
    [kind |-> "object", name |-> name, type |-> type, value |-> value]
Keyword(type, value) == Object(Word("k1"), Word(type), value)
Name(text) == [kind |-> "string", text |-> text]
Other == [kind |-> "other"]

Scalar(name, text) == [name |-> name, text |-> text]
List(name, type, items) == [name |-> name, arrayType |-> type, items |-> items]

Ids == {Scalar("id", t) : t \in {Word("i1"), Word("i2"), None, Null}}

\* Sequences of at most three elements of S.
UpTo3(S) == UNION {[1..k -> S] : k \in 0..3}

\* Every value as every type, alone.
RequestsWith(values) ==
    {[op |-> "setKeywords",
      body |-> <<Scalar("id", Word("i1")), List("keywords", "object", <<Keyword(type, v)>>)>>] :
        type \in Types, v \in values}

ValueRequests == RequestsWith(Values)

\* What is a whole number or no number at all.
WholeRequests == RequestsWith(Values \ {Half})

\* Lists that break off or throw at their beginning, in the middle or not at all.
ListsOf(name, type, a, b, bads, throws) ==
    UNION {{List(name, type, items) :
               items \in {<<>>, <<a>>, <<bad>>, <<a, b>>, <<a, bad, b>>, <<b, a, throws>>,
                          <<bad, throws>>}} : bad \in bads}

KeywordNodes ==
    Ids \cup {[name |-> "other"], List("keywords", None, <<>>)}
        \cup ListsOf("keywords", "object", Keyword("INT16", Digits("7", 7, 3)),
                     Keyword("STRING", Word("dummy")), {Other, Name(Null)}, Keyword("STRING", Null))
        \cup {Scalar("final", t) : t \in {Flag("true", TRUE), Word("dummy"), Null}}

KeywordRequests ==
    ValueRequests \cup {[op |-> "setKeywords", body |-> b] : b \in UpTo3(KeywordNodes)}

ParameterNodes ==
    Ids \cup {List("contributors", "object", <<Name(Word("c1"))>>)}
        \cup ListsOf("contributors", "string", Name(Word("c1")), Name(Word("c2")),
                     {Object(Null, Word("STRING"), Word("dummy"))}, Name(Null))
        \cup {Scalar("lifetime", t) :
                t \in {Word("PERMANENT"), Word("TRANSIENT"), Word("dummy"), Null}}

ParameterRequests ==
    {[op |-> op, body |-> b] :
        op \in {"createImage", "setParameters"}, b \in UpTo3(ParameterNodes)}

MCRequests == KeywordRequests \cup ParameterRequests
=============================================================================
