------------------------- MODULE RequestParserProofs -------------------------
(***************************************************************************)
(* Proofs about RequestParser, for types of any width and any requests:    *)
(* what a request that is accepted sets are the readable beginnings of its *)
(* lists, in order, and the last list of keywords is whole.                *)
(***************************************************************************)
EXTENDS RequestParser, FiniteSetTheorems, TLAPS

-----------------------------------------------------------------------------
\* Values

LEMMA RemainderOfSmall ==
  ASSUME NEW N \in Nat \ {0}, NEW n \in 0 .. N - 1
  PROVE  n % N = n
OBVIOUS

LEMMA RemainderOfNegative ==
  ASSUME NEW N \in Nat \ {0}, NEW n \in -N .. -1
  PROVE  n % N = n + N
OBVIOUS

LEMMA RemainderBeyond ==
  ASSUME NEW N \in Nat \ {0}, NEW n \in N .. 2 * N - 1
  PROVE  n % N = n - N
OBVIOUS

LEMMA RemainderIsSmall ==
  ASSUME NEW N \in Nat \ {0}, NEW n \in Int
  PROVE  n % N \in 0 .. N - 1
OBVIOUS

LEMMA Ranges ==
  ASSUME NEW type \in IntegerTypes \cup {"long"}
  PROVE  /\ Span[type] \in Nat \ {0}
         /\ Lowest(type) \in Int
         /\ type \in SignedTypes =>
                2 * (Span[type] \div 2) = Span[type] /\ Lowest(type) = -(Span[type] \div 2)
         /\ type \notin SignedTypes => Lowest(type) = 0
<1>1. Span[type] \in Nat \ {0} /\ (type \in SignedTypes => Span[type] % 2 = 0)
  BY SpanAssumption
<1>2. QED
  BY <1>1 DEF Lowest

LEMMA NarrowKeepsRange ==
  ASSUME NEW type \in IntegerTypes \cup {"long"}, NEW n \in Int
  PROVE  /\ InRange(type, Narrow(type, n))
         /\ InRange(type, n) => Narrow(type, n) = n
<1>1. Span[type] \in Nat \ {0} /\ Lowest(type) \in Int
  BY Ranges
<1>2. (n - Lowest(type)) % Span[type] \in 0 .. Span[type] - 1
  <2>1. n - Lowest(type) \in Int
    BY <1>1
  <2>2. QED
    BY <1>1, <2>1, RemainderIsSmall
<1>3. InRange(type, n) => (n - Lowest(type)) % Span[type] = n - Lowest(type)
  BY <1>1, RemainderOfSmall DEF InRange
<1>4. QED
  BY <1>1, <1>2, <1>3 DEF InRange, Narrow

\* A number comes out of a Keyword as it went in, the largest unsigned one,
\* which is negative as a long, included.
LEMMA KeywordRoundTrip ==
  ASSUME NEW type \in IntegerTypes, NEW v \in Int, InRange(type, v), NEW name
  PROVE  GetValue([name |-> name, type |-> type, value |-> Stored(type, v)]) = v
<1> DEFINE stored == Narrow("long", v)
<1>1. /\ Span["long"] \in Nat \ {0} /\ Span[type] \in Nat \ {0}
      /\ 2 * (Span["long"] \div 2) = Span["long"]
      /\ Lowest("long") = -(Span["long"] \div 2)
  BY Ranges DEF SignedTypes
<1>2. Span[type] <= Span["long"]
  BY SpanAssumption
<1>3. InRange("long", stored) /\ (InRange("long", v) => stored = v)
  BY NarrowKeepsRange
<1>4. Narrow(type, v) = v
  BY NarrowKeepsRange
<1>5. CASE type \in SignedTypes
  <2>1. InRange("long", v)
    BY <1>1, <1>2, <1>5, Ranges DEF InRange
  <2>2. QED
    BY <1>3, <1>4, <1>5, <2>1 DEF GetValue, Stored
<1>6. CASE type \notin SignedTypes
  <2>1. v \in 0 .. Span["long"] - 1
    BY <1>1, <1>2, <1>6, Ranges DEF InRange
  <2>2. stored % Span["long"] = v
    <3>1. CASE InRange("long", v)
      BY <1>1, <1>3, <2>1, <3>1, RemainderOfSmall
    <3>2. CASE ~ InRange("long", v)
      <4>1. v - Lowest("long") \in Span["long"] .. 2 * Span["long"] - 1
        BY <1>1, <2>1, <3>2 DEF InRange
      <4>2. (v - Lowest("long")) % Span["long"] = v - Lowest("long") - Span["long"]
        BY <1>1, <2>1, <4>1, RemainderBeyond
      <4>3. stored = v - Span["long"]
        BY <1>1, <2>1, <4>2 DEF Narrow
      <4>4. QED
        BY <1>1, <2>1, <4>3, <1>3, <3>2, RemainderOfNegative DEF InRange
    <3>3. QED
      BY <3>1, <3>2
  <2>3. QED
    BY <1>4, <1>6, <2>2 DEF GetValue, Stored
<1>7. QED
  BY <1>5, <1>6

\* What is read of a text is in the range of the type, and is the number
\* written but for negative numbers of unsigned types.
LEMMA NumbersRead ==
  ASSUME NEW type \in IntegerTypes, NEW text \in Texts \ {None, Null},
         NEW v \in ValuesOf(type, text)
  PROVE  /\ v \in Int /\ InRange(type, v)
         /\ type \in CharTypes => v = Narrow(type, text.char)
         /\ type \notin CharTypes =>
             /\ text.number \in Int
             /\ \/ v = text.number
                \/ /\ type \notin SignedTypes
                   /\ text.number < 0
                   /\ v = text.number + Span[type]
<1>1. text.char \in Int \cup {None} /\ text.number \in Int \cup {None}
  BY DEF Texts
<1>2. CASE type \in CharTypes
  <2>1. text.char \in Int /\ v = Narrow(type, text.char)
    BY <1>1, <1>2 DEF ValuesOf, IntegersOf, NumberIn
  <2>2. QED
    BY <1>2, <2>1, NarrowKeepsRange, Ranges DEF InRange
<1>3. CASE type \notin CharTypes
  <2>1. text.number \in Int /\ v = Narrow(type, text.number) /\ Takes(type, text.number)
    BY <1>1, <1>3 DEF ValuesOf, IntegersOf, NumberIn
  <2>2. v \in Int /\ InRange(type, v)
    BY <2>1, NarrowKeepsRange, Ranges DEF InRange
  <2>3. CASE InRange(type, text.number)
    BY <1>3, <2>1, <2>2, <2>3, NarrowKeepsRange
  <2>4. CASE ~ InRange(type, text.number)
    <3>1. type \notin SignedTypes /\ InRange(type, -text.number)
      BY <1>3, <2>1, <2>4 DEF Takes
    <3>2. Lowest(type) = 0 /\ Span[type] \in Nat \ {0}
      BY <3>1, Ranges
    <3>3. text.number \in -Span[type] .. -1
      BY <2>1, <2>4, <3>1, <3>2 DEF InRange
    <3>4. text.number % Span[type] = text.number + Span[type]
      BY <3>2, <3>3, RemainderOfNegative
    <3>5. v = text.number + Span[type]
      BY <2>1, <3>2, <3>4 DEF Narrow
    <3>6. QED
      BY <1>3, <2>2, <3>1, <3>3, <3>5, <3>2
  <2>5. QED
    BY <2>3, <2>4
<1>4. QED
  BY <1>2, <1>3

\* A keyword read from an item says what the item says.
LEMMA KeywordSays ==
  ASSUME NEW i \in Items, NEW k \in KeywordsOf(i)
  PROVE  Says(k, i)
<1>1. /\ i.value \in Texts \ {None, Null}
      /\ i.type.word \in Types
      /\ \E v \in ValuesOf(i.type.word, i.value) :
            k = [name |-> i.name.word, type |-> i.type.word,
                 value |-> Stored(i.type.word, v)]
  BY DEF KeywordsOf, Items, HasValue
<1>2. PICK v \in ValuesOf(i.type.word, i.value) :
        k = [name |-> i.name.word, type |-> i.type.word,
             value |-> Stored(i.type.word, v)]
  BY <1>1
<1>3. k.name = i.name.word /\ k.type = i.type.word
  BY <1>2
<1>4. CASE k.type \in IntegerTypes
  <2>1. GetValue(k) = v
    BY <1>1, <1>2, <1>3, <1>4, NumbersRead, KeywordRoundTrip
  <2>2. None \notin Int
    BY RequestsAssumption
  <2>3. /\ k.type \in CharTypes => v = Narrow(k.type, i.value.char)
        /\ k.type \notin CharTypes =>
             /\ i.value.number \in Int
             /\ \/ v = i.value.number
                \/ /\ k.type \notin SignedTypes
                   /\ i.value.number < 0
                   /\ v = i.value.number + Span[k.type]
    BY <1>1, <1>3, <1>4, NumbersRead
  <2>4. QED
    BY <1>3, <1>4, <2>1, <2>2, <2>3 DEF Says, IntegerTypes, CharTypes
<1>5. CASE k.type \notin IntegerTypes
  <2>1. GetValue(k) = v /\ k.type \in {"FLOAT", "DOUBLE", "BOOLEAN", "STRING"}
    BY <1>1, <1>2, <1>3, <1>5
       DEF GetValue, Stored, Types, IntegerTypes, SignedTypes
  <2>2. CASE k.type = "BOOLEAN"
    BY <1>3, <2>1, <2>2 DEF Says, ValuesOf, IntegerTypes, CharTypes
  <2>3. CASE k.type \in {"FLOAT", "DOUBLE", "STRING"}
    BY <1>3, <2>1, <2>3 DEF Says, ValuesOf, IntegerTypes, CharTypes
  <2>4. QED
    BY <2>1, <2>2, <2>3
<1>6. QED
  BY <1>4, <1>5

-----------------------------------------------------------------------------
\* The loops

Readable == UNION {KeywordsOf(i) : i \in Items}

Places ==
    /\ request \in Requests
    /\ node \in 1 .. Len(request.body) + 1
    /\ item \in Nat
    /\ keywords \in Seq(Readable)
    /\ contributors \in Seq(Words)
    /\ keywordsParsed \in BOOLEAN

\* An array that is read is the operation's, up to the item looked at.
InList ==
    item > 0 =>
        /\ node <= Len(request.body)
        /\ Node.name = ReadList
        /\ Node.arrayType = ArrayTypeOf(ReadList)
        /\ item <= Len(Node.items) + 1
        /\ \A j \in 1 .. item - 1 : ~ Unreadable(ReadList, Node.items[j])

\* What has been parsed is the last list before the node that is looked at.
Parsed ==
    keywordsParsed =>
        /\ request.op = "setKeywords"
        /\ item > 0 \/ \E c \in 1 .. node - 1 : IsLastList(node - 1, c) /\ IsWhole(c)

Outcome ==
    outcome = "accepted" =>
        /\ item = 0 /\ node = Len(request.body) + 1
        /\ request.op = "setKeywords" => keywordsParsed

IInv == Places /\ InList /\ Parsed /\ Outcome

LEMMA NodeTypes ==
  ASSUME Places, node <= Len(request.body)
  PROVE  /\ request.body \in Seq(Nodes)
         /\ node \in 1 .. Len(request.body)
         /\ Node.name \in {"contributors", "keywords"} => Node.items \in Seq(Items)
<1>1. request.body \in Seq(Nodes)
  BY RequestsAssumption DEF Places
<1>2. node \in 1 .. Len(request.body)
  BY <1>1 DEF Places
<1>3. Node \in Nodes
  BY <1>1, <1>2 DEF Node
<1>4. Node.name \in {"contributors", "keywords"} => Node.items \in Seq(Items)
  BY <1>3 DEF Nodes
<1>5. QED
  BY <1>1, <1>2, <1>4

\* Inside of an array the node, its items and the item read are known.
LEMMA InListTypes ==
  ASSUME IInv, item > 0
  PROVE  /\ node \in 1 .. Len(request.body)
         /\ request.body \in Seq(Nodes)
         /\ Node.items \in Seq(Items)
         /\ Len(Node.items) \in Nat
         /\ item \in 1 .. Len(Node.items) + 1
         /\ AtItem => item \in 1 .. Len(Node.items) /\ Item \in Items
<1>1. /\ request.body \in Seq(Nodes) /\ Node.items \in Seq(Items)
      /\ node \in 1 .. Len(request.body)
  BY NodeTypes DEF IInv, Places, InList, ReadList
<1>2. item \in 1 .. Len(Node.items) + 1 /\ Len(Node.items) \in Nat
  BY <1>1 DEF IInv, Places, InList
<1>3. ASSUME AtItem PROVE item \in 1 .. Len(Node.items) /\ Item \in Items
  <2>1. item \in 1 .. Len(Node.items)
    BY <1>2, <1>3 DEF AtItem
  <2>2. QED
    BY <1>1, <2>1 DEF Item
<1>4. QED
  BY <1>1, <1>2, <1>3

LEMMA InitIInv == Init => IInv
<1> SUFFICES ASSUME Init PROVE IInv
  OBVIOUS
<1>1. request.body \in Seq(Nodes)
  BY RequestsAssumption DEF Init
<1>2. Len(request.body) \in Nat
  BY <1>1
<1>3. None # "accepted"
  BY RequestsAssumption
<1>4. Places
  <2>1. request \in Requests /\ node = 1 /\ item = 0 /\ keywordsParsed \in BOOLEAN
    BY DEF Init
  <2>2. keywords \in Seq(Readable) /\ contributors \in Seq(Words)
    BY DEF Init
  <2>3. QED
    BY <1>2, <2>1, <2>2 DEF Places
<1>5. InList /\ Parsed /\ Outcome
  BY <1>3 DEF Init, InList, Parsed, Outcome
<1>6. QED
  BY <1>4, <1>5 DEF IInv

\* What is said of the body does not change, as the request does not.
LEMMA SameBody ==
  ASSUME request' = request
  PROVE  /\ ReadList' = ReadList
         /\ \A n : PrefixOf(n)' = PrefixOf(n)
         /\ PrefixItems' = PrefixItems
         /\ \A n : IsWhole(n)' <=> IsWhole(n)
         /\ \A n, c : IsLastList(n, c)' <=> IsLastList(n, c)
<1>1. ReadList' = ReadList
  BY DEF ReadList
<1>2. \A n : PrefixOf(n)' = PrefixOf(n)
  BY <1>1 DEF PrefixOf
<1>3. QED
  BY <1>1, <1>2 DEF PrefixItems, IsWhole, IsLastList

\* Going on to the next node keeps what is known if the last list of keywords
\* is an earlier one, or this node, whole.
LEMMA NextNodeKeeps ==
  ASSUME IInv, NextNode, outcome # "accepted", node <= Len(request.body),
         UNCHANGED <<keywords, contributors>>, keywordsParsed' \in BOOLEAN,
         keywordsParsed' => \/ keywordsParsed /\ Node.name # "keywords"
                            \/ /\ request.op = "setKeywords"
                               /\ Node.name = "keywords" /\ IsWhole(node)
  PROVE  IInv'
<1>1. /\ request' = request /\ node' = node + 1 /\ item' = 0 /\ outcome' = outcome
      /\ node \in 1 .. Len(request.body)
      /\ request.body \in Seq(Nodes) /\ Len(request.body) \in Nat
  BY NodeTypes DEF IInv, NextNode
<1>2. Places'
  BY <1>1 DEF IInv, Places
<1>3. ASSUME keywordsParsed', keywordsParsed, Node.name # "keywords"
      PROVE  /\ request.op = "setKeywords"
             /\ \E c \in 1 .. node : IsLastList(node, c) /\ IsWhole(c)
  <2>1. request.op = "setKeywords" /\ ~ item > 0
    BY <1>3 DEF IInv, Parsed, InList, ReadList
  <2>2. PICK c \in 1 .. node - 1 : IsLastList(node - 1, c) /\ IsWhole(c)
    BY <1>3, <2>1 DEF IInv, Parsed
  <2>3. \A d \in c + 1 .. node : d \in c + 1 .. node - 1 \/ d = node
    BY <1>1
  <2>4. IsLastList(node, c)
    BY <1>3, <2>2, <2>3 DEF IsLastList, Node
  <2>5. QED
    BY <1>1, <2>1, <2>2, <2>4
<1>4. ASSUME request.op = "setKeywords", Node.name = "keywords", IsWhole(node)
      PROVE  \E c \in 1 .. node : IsLastList(node, c) /\ IsWhole(c)
  <2>1. IsLastList(node, node)
    BY <1>1, <1>4 DEF IsLastList, Node
  <2>2. QED
    BY <1>1, <1>4, <2>1
<1>5. Parsed'
  <2> SUFFICES ASSUME keywordsParsed'
               PROVE  /\ request'.op = "setKeywords"
                      /\ \E c \in 1 .. node' - 1 : IsLastList(node - 1, c)' /\ IsWhole(c)'
    BY DEF Parsed
  <2>1. /\ request.op = "setKeywords"
        /\ \E c \in 1 .. node : IsLastList(node, c) /\ IsWhole(c)
    BY <1>3, <1>4
  <2>2. node' - 1 = node
    BY <1>1
  <2>3. \A c : IsLastList(node - 1, c)' <=> IsLastList(node, c)
    BY <1>1, <2>2 DEF IsLastList
  <2>4. QED
    BY <1>1, <2>1, <2>2, <2>3, SameBody
<1>6. InList' /\ Outcome'
  BY <1>1 DEF InList, Outcome
<1>7. QED
  BY <1>2, <1>5, <1>6 DEF IInv

\* A step within a node that reads one item at most.
LEMMA WithinNodeKeeps ==
  ASSUME IInv, UNCHANGED <<request, node, keywordsParsed>>, outcome = None,
         outcome' # "accepted",
         keywords' \in Seq(Readable), contributors' \in Seq(Words),
         \/ item' = item
         \/ /\ item = 0 /\ item' = 1 /\ node <= Len(request.body)
            /\ Node.name = ReadList /\ Node.arrayType = ArrayTypeOf(ReadList)
         \/ /\ AtItem /\ item' = item + 1
            /\ ~ Unreadable(ReadList, Item)
  PROVE  IInv'
<1>1. Node' = Node /\ ReadList' = ReadList
  BY SameBody DEF Node
<1>2. Places'
  BY DEF IInv, Places
<1>3. InList'
  <2>1. CASE item' = item
    BY <1>1, <2>1 DEF IInv, InList
  <2>2. CASE item = 0 /\ item' = 1 /\ node <= Len(request.body)
             /\ Node.name = ReadList /\ Node.arrayType = ArrayTypeOf(ReadList)
    <3>1. Len(Node.items) \in Nat
      BY <2>2, NodeTypes DEF IInv, ReadList
    <3>2. QED
      BY <1>1, <2>2, <3>1 DEF InList
  <2>3. CASE AtItem /\ item' = item + 1 /\ ~ Unreadable(ReadList, Item)
    <3>1. /\ item \in 1 .. Len(Node.items) /\ Len(Node.items) \in Nat
          /\ node <= Len(request.body)
          /\ Node.name = ReadList /\ Node.arrayType = ArrayTypeOf(ReadList)
      BY <2>3, InListTypes DEF AtItem, IInv, InList
    <3>2. \A j \in 1 .. item : ~ Unreadable(ReadList, Node.items[j])
      <4>1. \A j \in 1 .. item : j \in 1 .. item - 1 \/ j = item
        BY <3>1
      <4>2. QED
        BY <2>3, <3>1, <4>1 DEF IInv, InList, Item
    <3>3. item' - 1 = item /\ item' <= Len(Node.items) + 1
      BY <2>3, <3>1
    <3>4. QED
      BY <1>1, <3>1, <3>2, <3>3 DEF InList
  <2>4. QED
    BY <2>1, <2>2, <2>3
<1>4. Parsed'
  <2>1. item > 0 => item' > 0
    BY DEF IInv, Places
  <2>2. QED
    BY <2>1, SameBody DEF IInv, Parsed
<1>5. QED
  BY <1>2, <1>3, <1>4 DEF IInv, Outcome

\* At the end of an array all of it has been read.
LEMMA EndIsWhole ==
  ASSUME IInv, EndArray
  PROVE  Node.name = ReadList /\ IsWhole(node) /\ node \in 1 .. Len(request.body)
<1>1. item > 0 /\ item > Len(Node.items)
  BY DEF EndArray
<1>2. /\ Node.items \in Seq(Items) /\ item - 1 = Len(Node.items)
      /\ node \in 1 .. Len(request.body)
  BY <1>1, InListTypes
<1>3. /\ Node.name = ReadList /\ Node.arrayType = ArrayTypeOf(ReadList)
      /\ \A j \in 1 .. Len(Node.items) : ~ Unreadable(ReadList, Node.items[j])
  BY <1>1, <1>2 DEF IInv, InList
<1>4. PrefixOf(node) = DOMAIN Node.items
  BY <1>2, <1>3 DEF PrefixOf, Node
<1>5. QED
  BY <1>2, <1>3, <1>4 DEF IsWhole, Node

\* An item read, in either list.
LEMMA ItemRead ==
  ASSUME IInv, ReadKeyword \/ ReadContributor
  PROVE  /\ AtItem /\ item' = item + 1 /\ UNCHANGED <<request, node, keywordsParsed, outcome>>
         /\ ~ Unreadable(ReadList, Item)
         /\ keywords' \in Seq(Readable) /\ contributors' \in Seq(Words)
         /\ \E v : /\ ListRead' = Append(ListRead, v)
                   /\ Tells(v, Item)
<1>1. /\ AtItem /\ item' = item + 1 /\ UNCHANGED <<request, node, keywordsParsed, outcome>>
      /\ item > 0 /\ Node.name = ReadList
  BY DEF ReadKeyword, ReadContributor, AtItem, IInv, InList
<1>2. Item \in Items
  BY <1>1, InListTypes
<1>3. CASE ReadKeyword
  <2>1. PICK k \in KeywordsOf(Item) : keywords' = Append(keywords, k)
    BY <1>3 DEF ReadKeyword
  <2>2. request.op = "setKeywords" /\ ReadList = "keywords" /\ contributors' = contributors
    BY <1>1, <1>3 DEF ReadKeyword, ReadList
  <2>3. k \in Readable /\ Says(k, Item)
    BY <1>2, KeywordSays DEF Readable
  <2>4. keywords' \in Seq(Readable) /\ contributors' \in Seq(Words)
    BY <2>1, <2>2, <2>3 DEF IInv, Places
  <2>5. ListRead' = Append(ListRead, k) /\ Tells(k, Item)
    BY <1>1, <2>1, <2>2, <2>3 DEF ListRead, Tells
  <2>6. QED
    BY <1>1, <2>1, <2>2, <2>4, <2>5 DEF Unreadable
<1>4. CASE ReadContributor
  <2>1. PICK c \in ContributorsOf(Item) : contributors' = Append(contributors, c)
    BY <1>4 DEF ReadContributor
  <2>2. request.op # "setKeywords" /\ ReadList = "contributors" /\ keywords' = keywords
    BY <1>1, <1>4 DEF ReadContributor, ReadList
  <2>3. c \in Words /\ c = Item.text.word
    <3>1. c = Item.text.word /\ Item.kind = "string" /\ HasValue(Item.text)
      BY <2>1 DEF ContributorsOf
    <3>2. Item.text \in Texts
      BY <1>2, <3>1 DEF Items
    <3>3. QED
      BY <3>1, <3>2 DEF Texts, HasValue
  <2>4. keywords' \in Seq(Readable) /\ contributors' \in Seq(Words)
    BY <2>1, <2>2, <2>3 DEF IInv, Places
  <2>5. ListRead' = Append(ListRead, c) /\ Tells(c, Item)
    BY <1>1, <2>1, <2>2, <2>3 DEF ListRead, Tells
  <2>6. QED
    BY <1>1, <2>1, <2>2, <2>4, <2>5 DEF Unreadable
<1>5. QED
  BY <1>3, <1>4

\* A node passed without reading an array from it.
LEMMA NodePassed ==
  ASSUME IInv, Skip \/ ReadId \/ ReadLifetime \/ ReadFinal \/ RefuseArray
  PROVE  /\ NextNode /\ outcome = None /\ item = 0 /\ node <= Len(request.body)
         /\ UNCHANGED <<keywords, contributors>>
         /\ keywordsParsed' => keywordsParsed /\ Node.name # "keywords"
         /\ keywordsParsed' \in BOOLEAN
         /\ Node.name # ReadList \/ Node.arrayType # ArrayTypeOf(ReadList)
<1> USE RequestsAssumption
<1>1. /\ NextNode /\ outcome = None /\ item = 0 /\ node \in DOMAIN request.body
      /\ UNCHANGED <<keywords, contributors>>
  BY DEF Skip, ReadId, ReadLifetime, ReadFinal, RefuseArray, LeaveArray, At, AtNode, fields
<1>2. node <= Len(request.body)
  BY <1>1 DEF IInv, Places
<1>3. Node.name # ReadList \/ Node.arrayType # ArrayTypeOf(ReadList)
  BY DEF Skip, ReadId, ReadLifetime, ReadFinal, RefuseArray, At, ReadList, Parameters,
         ArrayTypeOf
<1>4. CASE RefuseArray
  BY <1>1, <1>2, <1>3, <1>4 DEF RefuseArray, LeaveArray, IInv, Places
<1>5. CASE Skip \/ ReadId \/ ReadLifetime \/ ReadFinal
  <2>1. keywordsParsed' = keywordsParsed
    BY <1>5 DEF Skip, ReadId, ReadLifetime, ReadFinal, fields
  <2>2. keywordsParsed => Node.name # "keywords"
    BY <1>5 DEF Skip, ReadId, ReadLifetime, ReadFinal, At, Parameters, IInv, Parsed
  <2>3. QED
    BY <1>1, <1>2, <1>3, <2>1, <2>2 DEF IInv, Places
<1>6. QED
  BY <1>4, <1>5

\* An array left, at its end or before.
LEMMA ArrayLeft ==
  ASSUME IInv, StopAtItem \/ EndArray
  PROVE  /\ NextNode /\ outcome = None /\ item > 0 /\ node <= Len(request.body)
         /\ UNCHANGED <<keywords, contributors>>
         /\ item > Len(Node.items) \/ (AtItem /\ Unreadable(ReadList, Item))
<1>1. /\ NextNode /\ outcome = None /\ item > 0
      /\ UNCHANGED <<keywords, contributors>>
      /\ item > Len(Node.items) \/ (AtItem /\ Unreadable(Node.name, Item))
  BY DEF StopAtItem, EndArray, AtItem, LeaveArray
<1>2. Node.name = ReadList /\ node <= Len(request.body)
  BY <1>1 DEF IInv, InList
<1>3. QED
  BY <1>1, <1>2

LEMMA StepIInv == IInv /\ [Next]_vars => IInv'
<1> SUFFICES ASSUME IInv, [Next]_vars PROVE IInv'
  OBVIOUS
<1> USE RequestsAssumption
<1>1. CASE UNCHANGED vars
  <2>1. Node' = Node
    BY <1>1 DEF vars, Node
  <2>2. QED
    BY <1>1, <2>1, SameBody DEF vars, fields, IInv, Places, InList, Parsed, Outcome
<1>2. ASSUME Skip \/ ReadId \/ ReadLifetime \/ ReadFinal \/ RefuseArray
      PROVE  IInv'
  BY <1>2, NodePassed, NextNodeKeeps
<1>3. ASSUME ThrowAtNode \/ ThrowAtItem
      PROVE  IInv'
  <2>1. UNCHANGED <<request, node, item, keywords, contributors, keywordsParsed>>
        /\ outcome = None /\ outcome' = "INTERNAL_SERVER_ERROR"
    BY <1>3 DEF ThrowAtNode, ThrowAtItem, Throw, At, AtNode, AtItem, fields
  <2>2. QED
    BY <2>1, WithinNodeKeeps DEF IInv, Places
<1>4. ASSUME EnterArray
      PROVE  IInv'
  <2>1. /\ UNCHANGED <<request, node, keywords, contributors, keywordsParsed, outcome>>
        /\ outcome = None /\ item = 0 /\ item' = 1 /\ node \in DOMAIN request.body
    BY <1>4 DEF EnterArray, At, AtNode, fields
  <2>2. node <= Len(request.body)
    BY <2>1 DEF IInv, Places
  <2>3. Node.name = ReadList /\ Node.arrayType = ArrayTypeOf(ReadList)
    BY <1>4 DEF EnterArray, At, Parameters, ReadList
  <2>4. QED
    BY <2>1, <2>2, <2>3, WithinNodeKeeps DEF IInv, Places
<1>5. ASSUME StopAtItem PROVE IInv'
  <2>1. keywordsParsed' => keywordsParsed /\ Node.name # "keywords"
    BY <1>5 DEF StopAtItem, LeaveArray
  <2>2. keywordsParsed' \in BOOLEAN
    BY <1>5 DEF StopAtItem, LeaveArray, IInv, Places
  <2>3. QED
    BY <1>5, <2>1, <2>2, ArrayLeft, NextNodeKeeps
<1>6. ASSUME EndArray PROVE IInv'
  <2>1. keywordsParsed' = IF Node.name = "keywords" THEN TRUE ELSE keywordsParsed
    BY <1>6 DEF EndArray, LeaveArray
  <2>2. Node.name = "keywords" => request.op = "setKeywords" /\ IsWhole(node)
    BY <1>6, EndIsWhole DEF ReadList
  <2>3. keywordsParsed' \in BOOLEAN
    BY <2>1 DEF IInv, Places
  <2>4. QED
    BY <1>6, <2>1, <2>2, <2>3, ArrayLeft, NextNodeKeeps
<1>7. ASSUME ReadKeyword \/ ReadContributor
      PROVE  IInv'
  BY <1>7, ItemRead, WithinNodeKeeps DEF AtItem
<1>8. ASSUME Finish
      PROVE  IInv'
  <2>1. /\ UNCHANGED <<request, node, item, keywords, contributors, keywordsParsed>>
        /\ node > Len(request.body)
        /\ outcome' = "accepted" /\ request.op = "setKeywords" => keywordsParsed
    BY <1>8 DEF Finish, fields
  <2>2. Node' = Node
    BY <2>1 DEF Node
  <2>3. Places' /\ InList' /\ Parsed'
    BY <2>1, <2>2, SameBody DEF IInv, Places, InList, Parsed
  <2>4. item = 0 /\ node = Len(request.body) + 1
    BY <2>1 DEF IInv, Places, InList
  <2>5. QED
    BY <2>1, <2>3, <2>4 DEF IInv, Outcome
<1>9. QED
  BY <1>1, <1>2, <1>3, <1>4, <1>5, <1>6, <1>7, <1>8 DEF Next

-----------------------------------------------------------------------------
\* Lists

\* The places read before the one that is looked at.
Passed == {p \in PrefixItems : p[1] < node \/ (p[1] = node /\ p[2] < item)}

ItemAt(p) == request.body[p[1]].items[p[2]]

\* The list has what is at the places passed, each at its own.
Counted ==
    /\ IsFiniteSet(Passed)
    /\ Len(ListRead) = Cardinality(Passed)
    /\ \A p \in Passed : Tells(ListRead[Cardinality(UpTo(p))], ItemAt(p))

LEMMA PlacesOfItems ==
  ASSUME Places, NEW p \in PrefixItems
  PROVE  /\ p = <<p[1], p[2]>>
         /\ p[1] \in DOMAIN request.body /\ p[1] \in 1 .. Len(request.body)
         /\ p[2] \in PrefixOf(p[1]) /\ p[2] \in Nat \ {0}
         /\ \A q \in PrefixItems : p[1] = q[1] /\ p[2] = q[2] => p = q
<1>1. request.body \in Seq(Nodes)
  BY RequestsAssumption DEF Places
<1>2. \A q \in PrefixItems : \E n \in DOMAIN request.body : q \in {n} \X PrefixOf(n)
  BY DEF PrefixItems
<1>3. \A q \in PrefixItems : q = <<q[1], q[2]>>
  BY <1>2
<1>4. p[1] \in DOMAIN request.body /\ p[2] \in PrefixOf(p[1])
  BY <1>2
<1>5. p[2] \in Nat \ {0}
  <2>1. request.body[p[1]] \in Nodes
    BY <1>1, <1>4
  <2>2. /\ request.body[p[1]].name \in {"contributors", "keywords"}
        /\ p[2] \in DOMAIN request.body[p[1]].items
    BY <1>4 DEF PrefixOf, ReadList
  <2>3. request.body[p[1]].items \in Seq(Items)
    BY <2>1, <2>2 DEF Nodes
  <2>4. QED
    BY <2>2, <2>3
<1>6. QED
  BY <1>1, <1>3, <1>4, <1>5

LEMMA InitCounted == Init => Counted
<1> SUFFICES ASSUME Init PROVE Counted
  OBVIOUS
<1>1. Places
  BY InitIInv DEF IInv
<1>2. node = 1 /\ item = 0 /\ ListRead = <<>>
  BY DEF Init, ListRead
<1>3. Passed = {}
  BY <1>1, <1>2, PlacesOfItems DEF Passed
<1>4. IsFiniteSet(Passed) /\ Cardinality(Passed) = 0
  BY <1>3, FS_EmptySet
<1>5. QED
  BY <1>2, <1>3, <1>4 DEF Counted

\* A step on which no place is passed.
LEMMA NonePassed ==
  ASSUME Counted, UNCHANGED <<request, keywords, contributors>>, Passed' = Passed
  PROVE  Counted'
<1>1. \A p : UpTo(p)' = UpTo(p) /\ ItemAt(p)' = ItemAt(p)
  BY SameBody DEF UpTo, ItemAt
<1>2. ListRead' = ListRead /\ \A v, i : Tells(v, i)' <=> Tells(v, i)
  BY DEF ListRead, Tells
<1>3. QED
  BY <1>1, <1>2 DEF Counted

\* Going on to the next node with its readable beginning, if any, read.
LEMMA NextPassesNone ==
  ASSUME IInv, Counted, NextNode, UNCHANGED <<keywords, contributors>>,
         \A i \in PrefixOf(node) : i < item
  PROVE  Counted'
<1>1. request' = request /\ node' = node + 1 /\ item' = 0
  BY DEF NextNode
<1>2. PrefixItems' = PrefixItems
  BY <1>1, SameBody
<1>3. node \in Nat
  BY DEF IInv, Places
<1>4. ASSUME NEW p \in PrefixItems
      PROVE  p \in Passed' <=> p \in Passed
  <2>1. p[1] \in Nat /\ p[2] \in Nat \ {0} /\ p[2] \in PrefixOf(p[1])
    BY PlacesOfItems DEF IInv
  <2>2. p \in Passed' <=> (p[1] < node + 1 \/ (p[1] = node + 1 /\ p[2] < 0))
    BY <1>1, <1>2 DEF Passed
  <2>3. p \in Passed <=> (p[1] < node \/ (p[1] = node /\ p[2] < item))
    BY DEF Passed
  <2>4. QED
    BY <1>3, <2>1, <2>2, <2>3
<1>5. Passed' = Passed
  BY <1>2, <1>4 DEF Passed
<1>6. QED
  BY <1>1, <1>5, NonePassed

\* With a place all those up to it have been passed.
LEMMA PassedWithAll ==
  ASSUME Places, NEW p \in Passed
  PROVE  UpTo(p) \subseteq Passed /\ p \in UpTo(p)
<1>1. p \in PrefixItems /\ p[1] \in Nat /\ p[2] \in Nat /\ node \in Nat /\ item \in Nat
  BY PlacesOfItems DEF Passed, Places
<1>2. ASSUME NEW q \in UpTo(p)
      PROVE  q \in Passed
  <2>1. /\ q \in PrefixItems /\ q[1] \in Nat /\ q[2] \in Nat
        /\ q[1] < p[1] \/ (q[1] = p[1] /\ q[2] <= p[2])
    BY PlacesOfItems DEF UpTo
  <2>2. p[1] < node \/ (p[1] = node /\ p[2] < item)
    BY DEF Passed
  <2>3. q[1] < node \/ (q[1] = node /\ q[2] < item)
    BY <1>1, <2>1, <2>2
  <2>4. QED
    BY <2>1, <2>3 DEF Passed
<1>3. QED
  BY <1>1, <1>2 DEF UpTo

LEMMA SomeOfFinite ==
  ASSUME NEW S, IsFiniteSet(S), NEW T, T \subseteq S, NEW x \in T
  PROVE  Cardinality(T) \in 1 .. Cardinality(S)
<1>1. /\ IsFiniteSet(T) /\ Cardinality(T) <= Cardinality(S)
      /\ Cardinality(S) \in Nat /\ Cardinality(T) \in Nat
  BY FS_Subset, FS_CardinalityType
<1>2. Cardinality(T) # 0
  BY <1>1, FS_EmptySet
<1>3. QED
  BY <1>1, <1>2

\* The place that is passed is the last so far.
LEMMA ItemReadCounted ==
  ASSUME IInv, Counted, ReadKeyword \/ ReadContributor
  PROVE  Counted'
<1> DEFINE here == <<node, item>>
<1>1. /\ AtItem /\ item > 0 /\ item' = item + 1 /\ UNCHANGED <<request, node>>
      /\ ~ Unreadable(ReadList, Item)
  BY ItemRead DEF AtItem
<1>2. PICK v : ListRead' = Append(ListRead, v) /\ Tells(v, Item)
  BY ItemRead
<1>3. /\ item \in 1 .. Len(Node.items) /\ Node.items \in Seq(Items)
      /\ node \in DOMAIN request.body /\ node \in Nat /\ item \in Nat
  BY <1>1, InListTypes
<1>4. here \in PrefixItems
  <2>1. /\ Node.name = ReadList /\ Node.arrayType = ArrayTypeOf(ReadList)
        /\ \A j \in 1 .. item - 1 : ~ Unreadable(ReadList, Node.items[j])
    BY <1>1 DEF IInv, InList
  <2>2. \A j \in 1 .. item : j \in 1 .. item - 1 \/ j = item
    BY <1>3
  <2>3. \A j \in 1 .. item : ~ Unreadable(ReadList, Node.items[j])
    BY <1>1, <2>1, <2>2 DEF Item
  <2>4. item \in DOMAIN Node.items
    BY <1>3
  <2>5. item \in PrefixOf(node)
    BY <2>1, <2>3, <2>4 DEF PrefixOf, Node
  <2>6. QED
    BY <1>3, <2>5 DEF PrefixItems
<1>5. PrefixItems' = PrefixItems
  BY <1>1, SameBody
<1>6. \A p : UpTo(p)' = UpTo(p) /\ ItemAt(p)' = ItemAt(p)
  BY <1>1, <1>5 DEF UpTo, ItemAt
<1>7. \A w, i : Tells(w, i)' <=> Tells(w, i)
  BY <1>1 DEF Tells
<1>8. ASSUME NEW p \in PrefixItems
      PROVE  /\ p \in Passed' <=> p \in Passed \/ p = here
             /\ p \in UpTo(here) <=> p \in Passed \/ p = here
  <2>1. p[1] \in Nat /\ p[2] \in Nat /\ (p[1] = node /\ p[2] = item <=> p = here)
    BY <1>4, PlacesOfItems DEF IInv
  <2>2. p \in Passed' <=> (p[1] < node \/ (p[1] = node /\ p[2] < item + 1))
    BY <1>1, <1>5 DEF Passed
  <2>3. p \in Passed <=> (p[1] < node \/ (p[1] = node /\ p[2] < item))
    BY DEF Passed
  <2>4. p \in UpTo(here) <=> (p[1] < node \/ (p[1] = node /\ p[2] <= item))
    BY DEF UpTo
  <2>5. QED
    BY <1>3, <2>1, <2>2, <2>3, <2>4
<1>9. here \notin Passed
  BY <1>3 DEF Passed
<1>10. Passed' = Passed \cup {here} /\ UpTo(here) = Passed \cup {here}
  <2>1. Passed \subseteq PrefixItems /\ Passed' \subseteq PrefixItems
        /\ UpTo(here) \subseteq PrefixItems
    BY <1>5 DEF Passed, UpTo
  <2>2. QED
    BY <1>4, <1>8, <2>1
<1> HIDE DEF here
<1>11. /\ IsFiniteSet(Passed) /\ IsFiniteSet(Passed')
       /\ Cardinality(Passed) \in Nat /\ Cardinality(Passed') = Cardinality(Passed) + 1
  BY <1>9, <1>10, FS_AddElement, FS_CardinalityType DEF Counted
<1>12. /\ Len(ListRead') = Len(ListRead) + 1
       /\ ListRead'[Len(ListRead) + 1] = v
       /\ \A k \in 1 .. Len(ListRead) : ListRead'[k] = ListRead[k]
  <2>1. \E S : ListRead \in Seq(S)
    BY DEF ListRead, IInv, Places
  <2>2. PICK S : ListRead \in Seq(S)
    BY <2>1
  <2>3. ListRead \in Seq(S \cup {v})
    BY <2>2
  <2>4. QED
    BY <1>2, <2>3
<1>13. ASSUME NEW p \in Passed'
       PROVE  Tells(ListRead'[Cardinality(UpTo(p))], ItemAt(p))
  <2>1. CASE p = here
    <3>1. Cardinality(UpTo(p)) = Len(ListRead) + 1
      BY <1>10, <1>11, <2>1 DEF Counted
    <3>2. ItemAt(p) = Item
      BY <2>1 DEF ItemAt, here, Item, Node
    <3>3. QED
      BY <1>2, <1>12, <3>1, <3>2
  <2>2. CASE p \in Passed
    <3>1. UpTo(p) \subseteq Passed /\ p \in UpTo(p)
      BY <2>2, PassedWithAll, PlacesOfItems DEF IInv
    <3>2. Cardinality(UpTo(p)) \in 1 .. Cardinality(Passed)
      BY <1>11, <3>1, SomeOfFinite
    <3>3. Cardinality(UpTo(p)) \in 1 .. Len(ListRead)
      BY <3>2 DEF Counted
    <3>4. QED
      BY <1>12, <2>2, <3>3 DEF Counted
  <2>3. QED
    BY <1>10, <1>13, <2>1, <2>2
<1>14. QED
  BY <1>6, <1>7, <1>11, <1>12, <1>13 DEF Counted

LEMMA StepCounted == IInv /\ Counted /\ [Next]_vars => Counted'
<1> SUFFICES ASSUME IInv, Counted, [Next]_vars PROVE Counted'
  OBVIOUS
<1>1. ASSUME UNCHANGED <<request, node, item, keywords, contributors>>
      PROVE  Counted'
  <2>1. Passed' = Passed
    BY <1>1, SameBody DEF Passed
  <2>2. QED
    BY <1>1, <2>1, NonePassed
<1>2. CASE UNCHANGED vars \/ ThrowAtNode \/ ThrowAtItem \/ Finish
  BY <1>1, <1>2 DEF vars, fields, ThrowAtNode, ThrowAtItem, Throw, Finish
<1>3. ASSUME Skip \/ ReadId \/ ReadLifetime \/ ReadFinal \/ RefuseArray
      PROVE  Counted'
  <2>1. /\ NextNode /\ UNCHANGED <<keywords, contributors>>
        /\ Node.name # ReadList \/ Node.arrayType # ArrayTypeOf(ReadList)
    BY <1>3, NodePassed
  <2>2. PrefixOf(node) = {}
    BY <2>1 DEF PrefixOf, Node
  <2>3. QED
    BY <2>1, <2>2, NextPassesNone
<1>4. ASSUME EnterArray
      PROVE  Counted'
  <2>1. item = 0 /\ item' = 1 /\ UNCHANGED <<request, node, keywords, contributors>>
    BY <1>4 DEF EnterArray, At, AtNode, fields
  <2>2. Passed' = Passed
    BY <2>1, PlacesOfItems, SameBody DEF Passed, IInv
  <2>3. QED
    BY <2>1, <2>2, NonePassed
<1>5. ASSUME StopAtItem \/ EndArray
      PROVE  Counted'
  <2>1. /\ NextNode /\ UNCHANGED <<keywords, contributors>> /\ item > 0
        /\ item > Len(Node.items) \/ (AtItem /\ Unreadable(ReadList, Item))
    BY <1>5, ArrayLeft
  <2>2. Node.items \in Seq(Items) /\ item \in 1 .. Len(Node.items) + 1
    BY <2>1, InListTypes
  <2>3. ASSUME NEW i \in PrefixOf(node)
        PROVE  i < item
    <3>1. /\ i \in 1 .. Len(Node.items)
          /\ \A j \in 1 .. i : ~ Unreadable(ReadList, Node.items[j])
      BY <2>2 DEF PrefixOf, Node
    <3>2. QED
      BY <2>1, <2>2, <3>1 DEF Item
  <2>4. QED
    BY <2>1, <2>3, NextPassesNone
<1>6. ASSUME ReadKeyword \/ ReadContributor
      PROVE  Counted'
  BY <1>6, ItemReadCounted
<1>7. QED
  BY <1>2, <1>3, <1>4, <1>5, <1>6 DEF Next

\* Of an accepted request every list has been passed.
LEMMA AcceptedArePrefixes ==
  ASSUME IInv, Counted, outcome = "accepted"
  PROVE  ArePrefixes
<1>1. node = Len(request.body) + 1
  BY DEF IInv, Outcome
<1>2. Passed = PrefixItems
  BY <1>1, PlacesOfItems DEF Passed, IInv
<1>3. QED
  BY <1>2 DEF Counted, ArePrefixes, ItemAt

LEMMA ListsInvariant == Spec => [](IInv /\ Counted)
BY InitIInv, StepIInv, InitCounted, StepCounted, PTL DEF Spec

\* Keywords that go to the DHS are all of the last list in the body, behind the
\* readable beginnings of the lists before it, each in its place and with the
\* value its type's conversion reads (setKeywords, parseArrayNode, buildKeyword,
\* parseVal and Keyword::getValue).
THEOREM AcceptedKeywordsAreWhole == Spec => []AllKeywordsArrive
<1>1. IInv /\ Counted => AllKeywordsArrive
  <2> SUFFICES ASSUME IInv, Counted, Accepted({"setKeywords"})
               PROVE  /\ ArePrefixes
                      /\ \E c \in DOMAIN request.body :
                            IsLastList(Len(request.body), c) /\ IsWhole(c)
    BY DEF AllKeywordsArrive
  <2>1. keywordsParsed /\ item = 0 /\ node = Len(request.body) + 1
    BY DEF Accepted, IInv, Outcome
  <2>2. request.body \in Seq(Nodes)
    BY RequestsAssumption DEF IInv, Places
  <2>3. node - 1 = Len(request.body) /\ DOMAIN request.body = 1 .. node - 1
    BY <2>1, <2>2
  <2>4. QED
    BY <2>1, <2>3, AcceptedArePrefixes DEF Accepted, IInv, Parsed
<1>2. QED
  BY <1>1, ListsInvariant, PTL

\* The contributors that are set are those written, from each list as much as
\* can be read from its beginning, although what parseArrayNode says of the
\* lists is ignored (DhsService.cpp:303-317, DhsService.h:138-190).
THEOREM ContributorsAreInOrder == Spec => []ContributorsArePrefixes
<1>1. IInv /\ Counted => ContributorsArePrefixes
  BY AcceptedArePrefixes DEF ContributorsArePrefixes, Accepted
<1>2. QED
  BY <1>1, ListsInvariant, PTL

-----------------------------------------------------------------------------
\* Types, and the elements that are no lists

Fields ==
    /\ id \in Words \cup {"new", None}
    /\ lifetime \in Lifetimes \cup {None}
    /\ final \in BOOLEAN
    /\ outcome \in {None, "accepted", "BAD_REQUEST", "INTERNAL_SERVER_ERROR"}

LEMMA ReadableIsKeyword ==
  ASSUME NEW k \in Readable
  PROVE  IsKeyword(k)
<1>1. PICK i \in Items : k \in KeywordsOf(i)
  BY DEF Readable
<1>2. /\ i.name \in Texts \ {None, Null} /\ i.value \in Texts \ {None, Null}
      /\ i.type.word \in Types
      /\ \E v \in ValuesOf(i.type.word, i.value) :
            k = [name |-> i.name.word, type |-> i.type.word,
                 value |-> Stored(i.type.word, v)]
  BY <1>1 DEF KeywordsOf, Items, HasValue
<1>3. PICK v \in ValuesOf(i.type.word, i.value) :
        k = [name |-> i.name.word, type |-> i.type.word, value |-> Stored(i.type.word, v)]
  BY <1>2
<1>4. i.name.word \in Words /\ i.value.word \in Words
  BY <1>2 DEF Texts
<1>5. CASE k.type \in IntegerTypes
  <2>1. v \in Int
    BY <1>2, <1>3, <1>5, NumbersRead
  <2>2. InRange("long", k.value)
    BY <1>3, <1>5, <2>1, NarrowKeepsRange DEF Stored
  <2>3. QED
    BY <1>3, <1>4, <1>5, <2>2 DEF IsKeyword, IntegerTypes
<1>6. CASE k.type = "BOOLEAN"
  <2>1. v \in BOOLEAN /\ k.value = v
    BY <1>3, <1>6 DEF ValuesOf, Stored, IntegerTypes
  <2>2. QED
    BY <1>3, <1>4, <1>6, <2>1 DEF IsKeyword, IntegerTypes
<1>7. CASE k.type \in {"FLOAT", "DOUBLE", "STRING"}
  <2>1. v = i.value.word /\ k.value = v
    BY <1>3, <1>7 DEF ValuesOf, Stored, IntegerTypes
  <2>2. QED
    BY <1>3, <1>4, <1>7, <2>1 DEF IsKeyword, IntegerTypes
<1>8. QED
  BY <1>2, <1>3, <1>5, <1>6, <1>7 DEF Types

LEMMA NodeText ==
  ASSUME Places, node \in DOMAIN request.body, Node.name \in {"id", "lifetime", "final"}
  PROVE  Node.text \in Texts /\ (HasValue(Node.text) => Node.text.word \in Words)
<1>1. Node \in Nodes
  BY RequestsAssumption DEF Node, Places
<1>2. Node.text \in Texts
  BY <1>1 DEF Nodes
<1>3. QED
  BY <1>2 DEF Texts, HasValue

LEMMA InitFields == Init => Fields
<1> SUFFICES ASSUME Init PROVE Fields
  OBVIOUS
<1>1. id \in Words \cup {"new", None} /\ lifetime \in Lifetimes \cup {None}
  BY DEF Init
<1>2. final \in BOOLEAN
  BY DEF Init
<1>3. outcome = None
  BY DEF Init
<1>4. QED
  BY <1>1, <1>2, <1>3 DEF Fields

LEMMA StepFields == IInv /\ Fields /\ [Next]_vars => Fields'
<1> SUFFICES ASSUME IInv, Fields, [Next]_vars PROVE Fields'
  OBVIOUS
<1>1. CASE UNCHANGED vars
  BY <1>1 DEF vars, fields, Fields
<1>2. ASSUME ThrowAtNode \/ ThrowAtItem
      PROVE  Fields'
  BY <1>2 DEF ThrowAtNode, ThrowAtItem, Throw, fields, Fields
<1>3. ASSUME Skip \/ EnterArray \/ ReadKeyword \/ ReadContributor
      PROVE  Fields'
  BY <1>3 DEF Skip, EnterArray, ReadKeyword, ReadContributor, NextNode, fields, Fields
<1>4. ASSUME RefuseArray \/ StopAtItem \/ EndArray
      PROVE  Fields'
  BY <1>4 DEF RefuseArray, StopAtItem, EndArray, LeaveArray, NextNode, Fields
<1>5. ASSUME ReadId PROVE Fields'
  <2>1. HasValue(Node.text) => Node.text.word \in Words
    BY <1>5, NodeText DEF ReadId, At, AtNode, IInv
  <2>2. QED
    BY <1>5, <2>1 DEF ReadId, NextNode, Fields
<1>6. ASSUME ReadLifetime PROVE Fields'
  BY <1>6 DEF ReadLifetime, NextNode, Fields
<1>7. ASSUME ReadFinal PROVE Fields'
  <2>1. final' \in BOOLEAN
    BY <1>7 DEF ReadFinal, ValuesOf, IntegerTypes, Fields
  <2>2. QED
    BY <1>7, <2>1 DEF ReadFinal, NextNode, Fields
<1>8. ASSUME Finish PROVE Fields'
  BY <1>8 DEF Finish, fields, Fields
<1>9. QED
  BY <1>1, <1>2, <1>3, <1>4, <1>5, <1>6, <1>7, <1>8 DEF Next

\* Type correctness: what is read from the body of a request.
THEOREM ParserTypes == Spec => []TypeOK
<1>1. IInv /\ Fields => TypeOK
  <2> SUFFICES ASSUME IInv, Fields PROVE TypeOK
    OBVIOUS
  <2>1. \A n \in 1 .. Len(keywords) : IsKeyword(keywords[n])
    BY ReadableIsKeyword DEF IInv, Places
  <2>2. QED
    BY <2>1 DEF IInv, Places, InList, ReadList, Fields, TypeOK
<1>2. QED
  BY <1>1, InitIInv, StepIInv, InitFields, StepFields, PTL DEF Spec

\* A value is that of the last usable element before the node looked at.
Latest(value, name, words) ==
    \/ value = None /\ \A d \in 1 .. node - 1 : ~ Usable(d, name, words)
    \/ \E d \in 1 .. node - 1 :
            /\ Usable(d, name, words)
            /\ value = request.body[d].text.word
            /\ \A e \in d + 1 .. node - 1 : ~ Usable(e, name, words)

Latests ==
    /\ "lifetime" \in Parameters(request.op) => Latest(lifetime, "lifetime", Lifetimes)
    /\ "id" \in Parameters(request.op) => Latest(id, "id", Words)
    /\ outcome = "accepted" => node = Len(request.body) + 1

\* Going on to the next node, with its value if it has one.
LEMMA LatestStep ==
  ASSUME NEW name, NEW words, NEW old, NEW new, Places, Latest(old, name, words),
         request' = request, node' = node + 1,
         new = IF Usable(node, name, words) THEN request.body[node].text.word ELSE old
  PROVE  Latest(new, name, words)'
<1>1. node \in Nat \ {0}
  BY DEF Places
<1>2. \A n : Usable(n, name, words)' <=> Usable(n, name, words)
  BY DEF Usable
<1>3. CASE Usable(node, name, words)
  BY <1>1, <1>2, <1>3 DEF Latest
<1>4. CASE ~ Usable(node, name, words)
  <2>1. new = old
    BY <1>4
  <2>2. CASE old = None /\ \A d \in 1 .. node - 1 : ~ Usable(d, name, words)
    BY <1>1, <1>2, <1>4, <2>1, <2>2 DEF Latest
  <2>3. ASSUME NEW d \in 1 .. node - 1, Usable(d, name, words),
               old = request.body[d].text.word,
               \A e \in d + 1 .. node - 1 : ~ Usable(e, name, words)
        PROVE  Latest(new, name, words)'
    <3>1. \A e \in d + 1 .. node : ~ Usable(e, name, words)
      BY <1>1, <1>4, <2>3
    <3>2. d \in 1 .. node' - 1 /\ node' - 1 = node
      BY <1>1
    <3>3. QED
      BY <1>2, <2>1, <2>3, <3>1, <3>2 DEF Latest
  <2>4. QED
    BY <2>2, <2>3 DEF Latest
<1>5. QED
  BY <1>3, <1>4

LEMMA LatestIsLast ==
  ASSUME NEW name, NEW words, NEW value, Places, node = Len(request.body) + 1,
         Latest(value, name, words)
  PROVE  value = LastWord(name, words)
<1> DEFINE usable == {n \in DOMAIN request.body : Usable(n, name, words)}
<1>1. request.body \in Seq(Nodes)
  BY RequestsAssumption DEF Places
<1>2. DOMAIN request.body = 1 .. node - 1 /\ node \in Nat
  BY <1>1 DEF Places
<1>3. CASE \A d \in 1 .. node - 1 : ~ Usable(d, name, words)
  <2>1. usable = {} /\ value = None
    BY <1>2, <1>3 DEF Latest
  <2>2. QED
    BY <2>1 DEF LastWord
<1>4. ASSUME NEW d \in 1 .. node - 1, Usable(d, name, words),
             value = request.body[d].text.word,
             \A e \in d + 1 .. node - 1 : ~ Usable(e, name, words)
      PROVE  value = LastWord(name, words)
  <2>1. d \in usable /\ \A e \in usable : e \in Int /\ d >= e
    BY <1>2, <1>4
  <2>2. Max(usable) = d
    <3>1. \A m \in usable : (\A e \in usable : m >= e) => m = d
      BY <2>1
    <3>2. Max(usable) \in usable /\ \A e \in usable : Max(usable) >= e
      BY <2>1 DEF Max
    <3>3. QED
      BY <3>1, <3>2
  <2>3. QED
    BY <1>4, <2>1, <2>2 DEF LastWord
<1>5. QED
  BY <1>3, <1>4 DEF Latest

LEMMA InitLatests == Init => Latests
<1> SUFFICES ASSUME Init PROVE Latests
  OBVIOUS
<1>1. node = 1 /\ lifetime = None /\ ("id" \in Parameters(request.op) => id = None)
  BY DEF Init, Parameters
<1>2. outcome # "accepted"
  BY RequestsAssumption DEF Init
<1>3. QED
  BY <1>1, <1>2 DEF Latests, Latest

LEMMA StepLatests == IInv /\ Latests /\ [Next]_vars => Latests'
<1> SUFFICES ASSUME IInv, Latests, [Next]_vars PROVE Latests'
  OBVIOUS
<1> USE RequestsAssumption
\* A node that is neither read for its id nor for its lifetime.
<1>1. ASSUME NextNode, UNCHANGED <<id, lifetime>>, outcome = None,
             Node.name \in {"id", "lifetime"} => Node.name \notin Parameters(request.op)
      PROVE  Latests'
  <2>1. request' = request /\ node' = node + 1 /\ outcome' = None
    BY <1>1 DEF NextNode
  <2>2. ASSUME NEW name \in {"id", "lifetime"}, name \in Parameters(request.op), NEW words
        PROVE  ~ Usable(node, name, words)
    BY <1>1, <2>2 DEF Usable, Node
  <2>3. "lifetime" \in Parameters(request.op) => Latest(lifetime, "lifetime", Lifetimes)'
    BY <1>1, <2>1, <2>2, LatestStep DEF IInv, Latests
  <2>4. "id" \in Parameters(request.op) => Latest(id, "id", Words)'
    BY <1>1, <2>1, <2>2, LatestStep DEF IInv, Latests
  <2>5. QED
    BY <2>1, <2>3, <2>4 DEF Latests
\* A step within a node.
<1>2. ASSUME UNCHANGED <<request, node, id, lifetime>>,
             outcome' = "accepted" => node = Len(request.body) + 1
      PROVE  Latests'
  <2>1. \A n, name, words : Usable(n, name, words)' <=> Usable(n, name, words)
    BY <1>2 DEF Usable
  <2>2. QED
    BY <1>2, <2>1 DEF Latests, Latest
<1>3. CASE UNCHANGED vars
  BY <1>2, <1>3 DEF vars, fields, Latests
<1>4. ASSUME ThrowAtNode \/ ThrowAtItem
      PROVE  Latests'
  BY <1>2, <1>4 DEF ThrowAtNode, ThrowAtItem, Throw, fields
<1>5. ASSUME EnterArray \/ ReadContributor \/ ReadKeyword
      PROVE  Latests'
  BY <1>2, <1>5 DEF EnterArray, ReadContributor, ReadKeyword, At, AtNode, AtItem, fields
<1>6. ASSUME Skip \/ ReadFinal
      PROVE  Latests'
  BY <1>1, <1>6 DEF Skip, ReadFinal, At, AtNode, fields
<1>7. ASSUME RefuseArray \/ StopAtItem \/ EndArray
      PROVE  Latests'
  <2>1. NextNode /\ UNCHANGED <<id, lifetime>> /\ outcome = None
    BY <1>7 DEF RefuseArray, StopAtItem, EndArray, LeaveArray, At, AtNode, AtItem
  <2>2. Node.name \in {"contributors", "keywords"}
    BY <1>7 DEF RefuseArray, StopAtItem, EndArray, At, AtItem, IInv, InList, ReadList
  <2>3. QED
    BY <1>1, <2>1, <2>2
<1>8. ASSUME ReadId PROVE Latests'
  <2>1. /\ request' = request /\ node' = node + 1 /\ outcome' = None /\ lifetime' = lifetime
        /\ Node.name = "id" /\ "id" \in Parameters(request.op)
        /\ node \in DOMAIN request.body
    BY <1>8 DEF ReadId, At, AtNode, NextNode
  <2>2. id' = IF Usable(node, "id", Words) THEN request.body[node].text.word ELSE id
    BY <1>8, <2>1, NodeText DEF ReadId, Usable, Node, IInv
  <2>3. ~ Usable(node, "lifetime", Lifetimes)
    BY <2>1 DEF Usable, Node
  <2>4. Latest(id, "id", Words)'
    BY <2>1, <2>2, LatestStep DEF IInv, Latests
  <2>5. "lifetime" \in Parameters(request.op) => Latest(lifetime, "lifetime", Lifetimes)'
    BY <2>1, <2>3, LatestStep DEF IInv, Latests
  <2>6. QED
    BY <2>1, <2>4, <2>5 DEF Latests
<1>9. ASSUME ReadLifetime PROVE Latests'
  <2>1. /\ request' = request /\ node' = node + 1 /\ outcome' = None /\ id' = id
        /\ Node.name = "lifetime" /\ "lifetime" \in Parameters(request.op)
    BY <1>9 DEF ReadLifetime, At, AtNode, NextNode
  <2>2. lifetime' = IF Usable(node, "lifetime", Lifetimes)
                    THEN request.body[node].text.word ELSE lifetime
    BY <1>9, <2>1 DEF ReadLifetime, Usable, Node
  <2>3. ~ Usable(node, "id", Words)
    BY <2>1 DEF Usable, Node
  <2>4. Latest(lifetime, "lifetime", Lifetimes)'
    BY <2>1, <2>2, LatestStep DEF IInv, Latests
  <2>5. "id" \in Parameters(request.op) => Latest(id, "id", Words)'
    BY <2>1, <2>3, LatestStep DEF IInv, Latests
  <2>6. QED
    BY <2>1, <2>4, <2>5 DEF Latests
<1>10. ASSUME Finish PROVE Latests'
  BY <1>2, <1>10 DEF Finish, fields, IInv, Places
<1>11. QED
  BY <1>3, <1>4, <1>5, <1>6, <1>7, <1>8, <1>9, <1>10 DEF Next

\* Of several ids or lifetimes the last one that can be read counts
\* (DhsService.cpp:303-317, 364-369).
THEOREM LastElementCounts == Spec => []LastCounts
<1>1. IInv /\ Latests => LastCounts
  <2> SUFFICES ASSUME IInv, Latests PROVE LastCounts
    OBVIOUS
  <2>1. Accepted({"createImage", "setParameters"}) =>
            "lifetime" \in Parameters(request.op) /\ node = Len(request.body) + 1
    BY DEF Accepted, Parameters, Latests
  <2>2. Accepted({"setParameters", "setKeywords"}) =>
            "id" \in Parameters(request.op) /\ node = Len(request.body) + 1
    BY DEF Accepted, Parameters, Latests
  <2>3. QED
    BY <2>1, <2>2, LatestIsLast DEF LastCounts, Latests, IInv
<1>2. QED
  BY <1>1, InitIInv, StepIInv, InitLatests, StepLatests, PTL DEF Spec
=============================================================================
