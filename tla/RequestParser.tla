---------------------------- MODULE RequestParser ----------------------------
(***************************************************************************)
(* How the body of a request is read: the loops of setParameters and       *)
(* setKeywords over the nodes of the body (DhsService.cpp), the loop of    *)
(* parseArrayNode over the items of an array, parseVal and buildKeyword    *)
(* (DhsService.h), and the Keyword a value is kept in until it is handed   *)
(* to the DHS library (IDhsAdapter.h).  One node or item is one step.      *)
(*                                                                         *)
(* A text is known by what each conversion finds in it: all of it (word),  *)
(* the whole number it begins with (number), whether it begins with any    *)
(* number, ".5" say (real), the code of its first character that is not    *)
(* blank (char), and whether it begins with "true" or "false" (flag).      *)
(* Where a text is expected there may be none (None), or one without a     *)
(* value (Null), of which no std::string can be made.  Numbers of type     *)
(* FLOAT and DOUBLE are kept as written, without rounding.                 *)
(***************************************************************************)
EXTENDS Integers, SequencesExt

CONSTANTS Requests,   \* requests: an operation and the nodes of the body
          Words,      \* texts, names and values
          Span,       \* how many values each integer type has, and "long"
          None, Null

IntegerTypes == {"INT8", "INT16", "INT32", "UINT8", "UINT16", "UINT32"}
SignedTypes == {"INT8", "INT16", "INT32", "long"}
CharTypes == {"INT8", "UINT8"}  \* int8_t and uint8_t are character types

Types == IntegerTypes \cup {"FLOAT", "DOUBLE", "BOOLEAN", "STRING"}

Lifetimes == {"PERMANENT", "TEMPORARY", "TRANSIENT"}

Texts == [word : Words, number : Int \cup {None}, real : BOOLEAN,
          char : Int \cup {None}, flag : BOOLEAN \cup {None}] \cup {None, Null}

Items == [kind : {"string"}, text : Texts]
             \cup [kind : {"object"}, name : Texts, type : Texts, value : Texts]
             \cup [kind : {"other"}]

Nodes == [name : {"id", "lifetime", "final"}, text : Texts]
             \cup [name : {"contributors", "keywords"}, arrayType : Words \cup {None},
                   items : Seq(Items)]
             \cup [name : {"other"}]

ASSUME RequestsAssumption ==
    /\ Requests \subseteq
         [op : {"createImage", "setParameters", "setKeywords"}, body : Seq(Nodes)]
    /\ None \notin Int \cup BOOLEAN \cup Words \cup {"accepted"}

\* A long holds what any of the types does: on the 32 bit build, just so.
ASSUME SpanAssumption ==
    /\ Span \in [IntegerTypes \cup {"long"} -> Nat \ {0}]
    /\ \A type \in IntegerTypes : Span[type] <= Span["long"]
    /\ \A type \in SignedTypes : Span[type] % 2 = 0

VARIABLES request,   \* the request whose body is read
          node,      \* the index of the node looked at
          item,      \* the index of the item in it, 0 outside of an array
          id, lifetime, final, contributors, keywords, keywordsParsed,
          outcome    \* None until the body is read, then what becomes of it

fields == <<id, lifetime, final, contributors, keywords, keywordsParsed>>
vars == <<request, node, item, fields, outcome>>

-----------------------------------------------------------------------------
\* Values

Lowest(type) == IF type \in SignedTypes THEN -(Span[type] \div 2) ELSE 0

\* The value of an integer type that is n modulo its number of values.
Narrow(type, n) == ((n - Lowest(type)) % Span[type]) + Lowest(type)

InRange(type, n) == n \in Lowest(type) .. Lowest(type) + Span[type] - 1

\* What an integer is made of: its digits, or the first character.
NumberIn(type, text) == IF type \in CharTypes THEN text.char ELSE text.number

\* A stream that reads an unsigned number takes a minus sign as well.
Takes(type, n) ==
    \/ type \in CharTypes
    \/ InRange(type, n)
    \/ type \notin SignedTypes /\ InRange(type, -n)

IntegersOf(type, text) ==
    {Narrow(type, n) : n \in {m \in {NumberIn(type, text)} \ {None} : Takes(type, m)}}

\* What parseVal<T> can make of a text: nothing if it fails.  A flag that is
\* neither true nor false is not refused, and its value then is undefined.
ValuesOf(type, text) ==
    IF type \in IntegerTypes THEN IntegersOf(type, text)
    ELSE IF type = "BOOLEAN" THEN {f \in BOOLEAN : text.flag \in {f, None}}
    ELSE {w \in {text.word} : type = "STRING" \/ text.real}

\* Faulty variant: an integer is kept as an unsigned long, or as it comes.
StoredUnsigned(type, v) == v

\* A Keyword keeps an integer of any type as a long.
Stored(type, v) == IF type \in IntegerTypes THEN Narrow("long", v) ELSE v

\* getValue: unsigned types are read from the same bits as an unsigned long.
GetValue(k) ==
    IF k.type \notin IntegerTypes THEN k.value
    ELSE Narrow(k.type, IF k.type \in SignedTypes THEN k.value ELSE k.value % Span["long"])

-----------------------------------------------------------------------------
\* Items

HasValue(text) == text \notin {None, Null}

\* Whether a std::string is made from a null pointer in reading an item of an
\* array: in one of names of its text, in one of keywords of what the item says.
Throws(list, i) ==
    \/ list = "contributors" /\ i.kind = "string" /\ i.text = Null
    \/ /\ list = "keywords" /\ i.kind = "object"
       /\ \/ Null \in {i.name, i.type}
          \/ /\ HasValue(i.name) /\ HasValue(i.type)
             /\ i.type.word = "STRING"
             /\ i.value = Null

\* What an item can be read as, in an array of names and in one of keywords.
ContributorsOf(i) ==
    IF i.kind = "string" /\ HasValue(i.text) THEN {i.text.word} ELSE {}

KeywordsOf(i) ==
    IF /\ i.kind = "object"
       /\ HasValue(i.name) /\ HasValue(i.type) /\ HasValue(i.value)
       /\ i.type.word \in Types
    THEN {[name |-> i.name.word, type |-> i.type.word,
           value |-> Stored(i.type.word, v)] : v \in ValuesOf(i.type.word, i.value)}
    ELSE {}

-----------------------------------------------------------------------------
\* Nodes

Node == request.body[node]

\* The elements an operation looks at; createImage has the id from the DHS.
Parameters(op) ==
    IF op = "setKeywords" THEN {"keywords", "id", "final"}
    ELSE {"lifetime", "contributors"} \cup {n \in {"id"} : op = "setParameters"}

AtNode ==
    /\ outcome = None
    /\ node \in DOMAIN request.body
    /\ item = 0

At(name) == AtNode /\ Node.name = name /\ name \in Parameters(request.op)

NextNode == node' = node + 1 /\ item' = 0 /\ UNCHANGED <<request, outcome>>

Skip ==
    /\ AtNode
    /\ Node.name \notin Parameters(request.op)
    /\ NextNode
    /\ UNCHANGED fields

Throw ==
    /\ outcome' = "INTERNAL_SERVER_ERROR"
    /\ UNCHANGED <<request, node, item, fields>>

ThrowAtNode == (At("id") \/ At("lifetime")) /\ Node.text = Null /\ Throw

\* Faulty variant: the first id counts.
ReadFirstId ==
    /\ At("id")
    /\ Node.text # Null
    /\ id' = IF HasValue(Node.text) /\ id = None THEN Node.text.word ELSE id
    /\ UNCHANGED <<lifetime, final, contributors, keywords, keywordsParsed>>
    /\ NextNode

ReadId ==
    /\ At("id")
    /\ Node.text # Null
    /\ id' = IF HasValue(Node.text) THEN Node.text.word ELSE id
    /\ UNCHANGED <<lifetime, final, contributors, keywords, keywordsParsed>>
    /\ NextNode

\* A lifetime that is none of the three is passed over.
ReadLifetime ==
    /\ At("lifetime")
    /\ Node.text # Null
    /\ lifetime' = IF HasValue(Node.text) /\ Node.text.word \in Lifetimes
                   THEN Node.text.word ELSE lifetime
    /\ UNCHANGED <<id, final, contributors, keywords, keywordsParsed>>
    /\ NextNode

ReadFinal ==
    /\ At("final")
    /\ \E f \in IF HasValue(Node.text) THEN ValuesOf("BOOLEAN", Node.text) ELSE {final} :
            final' = f
    /\ UNCHANGED <<id, lifetime, contributors, keywords, keywordsParsed>>
    /\ NextNode

-----------------------------------------------------------------------------
\* Arrays: parseArrayNode

ArrayTypeOf(name) == IF name = "keywords" THEN "object" ELSE "string"

EnterArray ==
    /\ At("contributors") \/ At("keywords")
    /\ Node.arrayType = ArrayTypeOf(Node.name)
    /\ item' = 1
    /\ UNCHANGED <<request, node, fields, outcome>>

\* What parseArrayNode returns is kept for keywords and ignored for
\* contributors.  In either case what has been read stays in the list.
LeaveArray(result) ==
    /\ keywordsParsed' = IF Node.name = "keywords" THEN result ELSE keywordsParsed
    /\ NextNode
    /\ UNCHANGED <<id, lifetime, final, contributors, keywords>>

RefuseArray ==
    /\ At("contributors") \/ At("keywords")
    /\ Node.arrayType # ArrayTypeOf(Node.name)
    /\ LeaveArray(FALSE)

AtItem == outcome = None /\ item > 0 /\ item <= Len(Node.items)
Item == Node.items[item]

ThrowAtItem == AtItem /\ Throws(Node.name, Item) /\ Throw

ReadContributor ==
    /\ AtItem
    /\ Node.name = "contributors"
    /\ \E c \in ContributorsOf(Item) : contributors' = Append(contributors, c)
    /\ item' = item + 1
    /\ UNCHANGED <<request, node, id, lifetime, final, keywords, keywordsParsed, outcome>>

ReadKeyword ==
    /\ AtItem
    /\ Node.name = "keywords"
    /\ ~ Throws(Node.name, Item)
    /\ \E k \in KeywordsOf(Item) : keywords' = Append(keywords, k)
    /\ item' = item + 1
    /\ UNCHANGED <<request, node, id, lifetime, final, contributors, keywordsParsed, outcome>>

Unreadable(name, i) ==
    (IF name = "keywords" THEN KeywordsOf(i) ELSE ContributorsOf(i)) = {}

\* Faulty variant: an item that cannot be read is left out of the list.
PassItem ==
    /\ AtItem
    /\ ~ Throws(Node.name, Item)
    /\ Unreadable(Node.name, Item)
    /\ item' = item + 1
    /\ UNCHANGED <<request, node, fields, outcome>>

StopAtItem ==
    /\ AtItem
    /\ ~ Throws(Node.name, Item)
    /\ Unreadable(Node.name, Item)
    /\ LeaveArray(FALSE)

EndArray ==
    /\ outcome = None
    /\ item > 0 /\ item > Len(Node.items)
    /\ LeaveArray(TRUE)

-----------------------------------------------------------------------------

\* Faulty variant: the result of parseArrayNode is ignored for keywords, too.
FinishUnparsed ==
    /\ outcome = None
    /\ node > Len(request.body)
    /\ outcome' = IF id = None THEN "BAD_REQUEST" ELSE "accepted"
    /\ UNCHANGED <<request, node, item, fields>>

\* What happens behind the loop: accepted is a request that goes to the DHS.
Finish ==
    /\ outcome = None
    /\ node > Len(request.body)
    /\ outcome' = IF id = None \/ (request.op = "setKeywords" /\ ~ keywordsParsed)
                  THEN "BAD_REQUEST" ELSE "accepted"
    /\ UNCHANGED <<request, node, item, fields>>

Init ==
    /\ request \in Requests
    /\ node = 1
    /\ item = 0
    /\ id = IF request.op = "createImage" THEN "new" ELSE None
    /\ lifetime = None
    /\ final = FALSE
    /\ contributors = <<>>
    /\ keywords = <<>>
    /\ keywordsParsed = FALSE
    /\ outcome = None

Next ==
    \/ Skip \/ ThrowAtNode \/ ReadId \/ ReadLifetime \/ ReadFinal
    \/ EnterArray \/ RefuseArray \/ EndArray
    \/ ThrowAtItem \/ ReadContributor \/ ReadKeyword \/ StopAtItem
    \/ Finish

Spec == Init /\ [][Next]_vars

-----------------------------------------------------------------------------

IsKeyword(k) ==
    /\ k.name \in Words
    /\ k.type \in IntegerTypes => InRange("long", k.value)
    /\ k.type = "BOOLEAN" => k.value \in BOOLEAN
    /\ k.type \in {"FLOAT", "DOUBLE", "STRING"} => k.value \in Words

TypeOK ==
    /\ node \in 1 .. Len(request.body) + 1
    /\ item \in Nat
    /\ item > 0 => /\ node <= Len(request.body)
                   /\ Node.name \in {"contributors", "keywords"}
                   /\ item <= Len(Node.items) + 1
    /\ id \in Words \cup {"new", None}
    /\ lifetime \in Lifetimes \cup {None}
    /\ final \in BOOLEAN
    /\ contributors \in Seq(Words)
    /\ \A n \in 1..Len(keywords) : IsKeyword(keywords[n])
    /\ keywordsParsed \in BOOLEAN
    /\ outcome \in {None, "accepted", "BAD_REQUEST", "INTERNAL_SERVER_ERROR"}

Accepted(ops) == outcome = "accepted" /\ request.op \in ops

\* The keyword k says what is in the item, as the conversion for its type reads
\* it: of 16 and 32 bits the number written, if it is not a negative one for an
\* unsigned type, which is taken modulo the size of the type; of 8 bits not the
\* number but its first character; and for a flag that is neither true nor
\* false, anything.
Says(k, i) ==
    /\ k.name = i.name.word
    /\ k.type = i.type.word
    /\ k.type \in CharTypes => GetValue(k) = Narrow(k.type, i.value.char)
    /\ k.type \in IntegerTypes \ CharTypes =>
         /\ i.value.number # None
         /\ \/ GetValue(k) = i.value.number
            \/ /\ k.type \notin SignedTypes
               /\ i.value.number < 0
               /\ GetValue(k) = i.value.number + Span[k.type]
    /\ k.type = "BOOLEAN" => i.value.flag \in {None, GetValue(k)}
    /\ k.type \in {"FLOAT", "DOUBLE", "STRING"} => GetValue(k) = i.value.word

\* The list an operation reads, and what it has read.
ReadList == IF request.op = "setKeywords" THEN "keywords" ELSE "contributors"
ListRead == IF request.op = "setKeywords" THEN keywords ELSE contributors

\* An element of it tells what an item has.
Tells(v, i) == IF request.op = "setKeywords" THEN Says(v, i) ELSE v = i.text.word

\* The items at the beginning of such a list that can be read.
PrefixOf(n) ==
    LET list == request.body[n]
    IN  IF list.name = ReadList /\ list.arrayType = ArrayTypeOf(ReadList)
        THEN {i \in DOMAIN list.items :
                \A j \in 1..i : ~ Unreadable(ReadList, list.items[j])}
        ELSE {}

\* The places of all these in the body: a node, and an item in it.
PrefixItems == UNION {{n} \X PrefixOf(n) : n \in DOMAIN request.body}

\* Those of them up to a place.
UpTo(p) == {q \in PrefixItems : q[1] < p[1] \/ (q[1] = p[1] /\ q[2] <= p[2])}

\* What has been read are the readable beginnings of the lists of the body, in
\* order, and nothing else.
ArePrefixes ==
    /\ Len(ListRead) = Cardinality(PrefixItems)
    /\ \A p \in PrefixItems :
            Tells(ListRead[Cardinality(UpTo(p))], request.body[p[1]].items[p[2]])

\* The whole of a list can be read.
IsWhole(n) ==
    /\ request.body[n].arrayType = ArrayTypeOf(ReadList)
    /\ PrefixOf(n) = DOMAIN request.body[n].items

\* The last list of keywords in the first n nodes of the body.
IsLastList(n, c) ==
    /\ request.body[c].name = "keywords"
    /\ \A d \in c + 1 .. n : request.body[d].name # "keywords"

\* Of the keywords of a request that goes to the DHS none of the last list is
\* missing, none is passed over in any list, and each has the value its type's
\* conversion reads.  Only the last list has to be whole: the answer of
\* parseArrayNode for an earlier one is overwritten, so one that breaks off
\* leaves its beginning to be sent with the rest (DhsService.cpp:363, 380).
\* Unsigned numbers go through a union that keeps them as signed ones
\* (IDhsAdapter.h:62-66, 230-233).
AllKeywordsArrive ==
    Accepted({"setKeywords"}) =>
        /\ ArePrefixes
        /\ \E c \in DOMAIN request.body : IsLastList(Len(request.body), c) /\ IsWhole(c)

\* The contributors that are set are those written, in order, from no list
\* more than its beginning: none is passed over, although the loop goes on
\* with the next element behind a list that broke off (DhsService.cpp:311).
ContributorsArePrefixes == Accepted({"createImage", "setParameters"}) => ArePrefixes

Usable(n, name, words) ==
    /\ request.body[n].name = name
    /\ HasValue(request.body[n].text)
    /\ request.body[n].text.word \in words

LastWord(name, words) ==
    LET usable == {n \in DOMAIN request.body : Usable(n, name, words)}
    IN  IF usable = {} THEN None ELSE request.body[Max(usable)].text.word

\* Of several elements of a name the last that can be read counts, whatever
\* follows it: an id or a lifetime that cannot be read takes nothing back
\* (DhsService.cpp:303-317, 364-369).
LastCounts ==
    /\ Accepted({"createImage", "setParameters"}) =>
            lifetime = LastWord("lifetime", Lifetimes)
    /\ Accepted({"setParameters", "setKeywords"}) => id = LastWord("id", Words)

\* As a test has it (DhsTranslatorTest.java:243-246): "Attempt to set string
\* value to integer keyword. Rejected by the HTTP service."
StringForIntegerRejected ==
    Accepted({"setKeywords"}) =>
        \A c \in DOMAIN request.body :
            IsLastList(Len(request.body), c) =>
                \A n \in DOMAIN request.body[c].items :
                    LET i == request.body[c].items[n]
                    IN  i.type.word \in IntegerTypes => i.value.number # None

=============================================================================
