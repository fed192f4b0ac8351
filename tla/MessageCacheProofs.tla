------------------------- MODULE MessageCacheProofs -------------------------
(***************************************************************************)
(* Proofs about MessageCache, for any sets of image ids and messages and   *)
(* any validAge.                                                           *)
(***************************************************************************)
EXTENDS MessageCache, SequenceTheorems, WellFoundedInduction, TLAPS

\* The order on the naturals as a relation, for the least-number principle.
Less == {p \in Nat \X Nat : p[1] < p[2]}

\* Min of the community modules returns the least element of any nonempty set
\* of naturals.
LEMMA MinIsLeast ==
  ASSUME NEW S \in SUBSET Nat, S # {}
  PROVE  Min(S) \in S /\ \A x \in S : Min(S) <= x
<1>1. IsWellFoundedOn(Less, Nat)
  BY NatLessThanWellFounded DEF OpToRel, Less
<1>2. PICK m \in S : \A y \in S : ~ (<<y, m>> \in Less)
  BY <1>1, WFMin
<1>3. \A y \in S : m <= y
  <2>1. TAKE y \in S
  <2>2. ~ (<<y, m>> \in Less)
    BY <1>2
  <2>3. QED BY <2>2 DEF Less
<1>4. QED
  BY <1>3 DEF Min

\* What PurgeList leaves of a list (MessageCache.cpp:44-50): nothing if every
\* message has expired, otherwise the suffix from the first that has not.
LEMMA PurgedIsSuffix ==
  ASSUME NEW list \in Seq(Message), NEW T \in Int, Live(list, T) # {}
  PROVE  \E m \in Live(list, T) :
            /\ \A i \in 1..(m - 1) : Expired(list[i], T)
            /\ Purged(list, T) \in Seq(Message)
            /\ Len(Purged(list, T)) = Len(list) - m + 1
            /\ \A i \in 1..(Len(list) - m + 1) :
                  Purged(list, T)[i] = list[m + i - 1]
<1> DEFINE m == Min(Live(list, T))
<1>1. Live(list, T) \in SUBSET (1..Len(list)) /\ Len(list) \in Nat
  BY DEF Live
<1>2. m \in Live(list, T) /\ \A x \in Live(list, T) : m <= x
  BY <1>1, MinIsLeast
<1>3. Purged(list, T) = SubSeq(list, m, Len(list))
  BY DEF Purged
<1>4. m \in 1..Len(list)
  BY <1>1, <1>2
<1> HIDE DEF m
<1>5. \A i \in 1..(m - 1) : Expired(list[i], T)
  BY <1>1, <1>2, <1>4 DEF Live
<1>6. /\ SubSeq(list, m, Len(list)) \in Seq(Message)
      /\ Len(SubSeq(list, m, Len(list))) = Len(list) - m + 1
      /\ \A i \in 1..(Len(list) - m + 1) :
            SubSeq(list, m, Len(list))[i] = list[m + i - 1]
  BY <1>1, <1>4
<1>7. QED
  BY <1>2, <1>3, <1>5, <1>6

-----------------------------------------------------------------------------
(***************************************************************************)
(* Type correctness.                                                       *)
(***************************************************************************)

\* A purge keeps a subset of the keys, each with a list of messages.
LEMMA AfterPurgeTypes ==
  ASSUME TypeOK, NEW T \in Nat
  PROVE  /\ DOMAIN AfterPurge(T) \subseteq DOMAIN cache
         /\ \A id \in DOMAIN AfterPurge(T) :
               /\ AfterPurge(T)[id] = Purged(cache[id], T)
               /\ Live(cache[id], T) # {}
               /\ AfterPurge(T)[id] \in Seq(Message)
<1>1. /\ DOMAIN AfterPurge(T) = {id \in DOMAIN cache : Purged(cache[id], T) # <<>>}
      /\ \A id \in DOMAIN AfterPurge(T) : AfterPurge(T)[id] = Purged(cache[id], T)
  BY DEF AfterPurge
<1>2. ASSUME NEW id \in DOMAIN AfterPurge(T)
      PROVE  Live(cache[id], T) # {} /\ Purged(cache[id], T) \in Seq(Message)
  <2>1. Live(cache[id], T) # {}
    BY <1>1, <1>2 DEF Purged
  <2>2. cache[id] \in Seq(Message)
    BY <1>1, <1>2 DEF TypeOK
  <2>3. QED
    BY <2>1, <2>2, PurgedIsSuffix
<1>3. QED
  BY <1>1, <1>2

LEMMA PurgeTypeOK ==
  ASSUME TypeOK, NEW T \in Nat, PurgeOldMessages(T)
  PROVE  /\ DOMAIN cache' \subseteq DOMAIN cache
         /\ \A id \in DOMAIN cache' :
               /\ cache'[id] = Purged(cache[id], T)
               /\ Live(cache[id], T) # {}
               /\ cache'[id] \in Seq(Message)
BY AfterPurgeTypes DEF PurgeOldMessages

\* An add appends the message to the list of its image, new if there was none.
LEMMA AddAppends ==
  ASSUME TypeOK, NEW id \in ImageIds, NEW ts \in Nat, NEW data \in Data,
         Add(id, ts, data)
  PROVE  /\ DOMAIN cache' = DOMAIN cache \cup {id}
         /\ ListOf(id) \in Seq(Message)
         /\ cache'[id] \in Seq(Message)
         /\ Len(cache'[id]) = Len(ListOf(id)) + 1
         /\ \A i \in 1..Len(ListOf(id)) : cache'[id][i] = ListOf(id)[i]
         /\ cache'[id][Len(ListOf(id)) + 1] = [timestamp |-> ts, data |-> data]
         /\ \A k \in DOMAIN cache \ {id} : cache'[k] = cache[k]
<1> DEFINE m == [timestamp |-> ts, data |-> data]
<1>1. m \in Message
  BY DEF Message
<1>2. ListOf(id) \in Seq(Message)
  BY DEF ListOf, TypeOK
<1>3. /\ DOMAIN cache' = DOMAIN cache \cup {id}
      /\ cache'[id] = Append(ListOf(id), m)
      /\ \A k \in DOMAIN cache \ {id} : cache'[k] = cache[k]
  BY DEF Add
<1> HIDE DEF m
<1>4. /\ Append(ListOf(id), m) \in Seq(Message)
      /\ Len(Append(ListOf(id), m)) = Len(ListOf(id)) + 1
      /\ \A i \in 1..Len(ListOf(id)) : Append(ListOf(id), m)[i] = ListOf(id)[i]
      /\ Append(ListOf(id), m)[Len(ListOf(id)) + 1] = m
  BY <1>1, <1>2
<1>5. QED
  BY <1>2, <1>3, <1>4 DEF m

LEMMA InitTypeOK == Init => TypeOK
BY DEF Init, TypeOK

LEMMA NextTypeOK == TypeOK /\ [Next]_cacheVars => TypeOK'
<1> SUFFICES ASSUME TypeOK, [Next]_cacheVars
             PROVE  TypeOK'
  OBVIOUS
<1>1. CASE Tick
  BY <1>1 DEF TypeOK, Tick, Record
<1>2. ASSUME NEW T \in 0..now, PurgeOldMessages(T)
      PROVE  TypeOK'
  <2>1. T \in Nat
    BY DEF TypeOK
  <2>2. now' = now /\ recorded' = recorded
    BY <1>2 DEF PurgeOldMessages
  <2>3. QED
    BY <1>2, <2>1, <2>2, PurgeTypeOK DEF TypeOK
<1>3. ASSUME NEW id \in ImageIds, NEW ts \in 0..now, NEW data \in Data,
             Add(id, ts, data)
      PROVE  TypeOK'
  <2>1. ts \in Nat /\ now \in Nat /\ ts <= now
    BY DEF TypeOK
  <2>2. DOMAIN cache' \subseteq ImageIds
    BY <1>3, <2>1, AddAppends DEF TypeOK
  <2>3. ASSUME NEW k \in DOMAIN cache'
        PROVE  cache'[k] \in Seq(Message)
    <3>1. /\ DOMAIN cache' = DOMAIN cache \cup {id}
          /\ cache'[id] \in Seq(Message)
          /\ \A x \in DOMAIN cache \ {id} : cache'[x] = cache[x]
      BY <1>3, <2>1, AddAppends
    <3>2. CASE k = id
      BY <3>1, <3>2
    <3>3. CASE k # id
      BY <3>1, <3>3 DEF TypeOK
    <3>4. QED
      BY <3>2, <3>3
  <2>4. now' = now /\ recorded' = recorded \cup
                {[id |-> id, timestamp |-> ts, data |-> data, addedAt |-> now]}
    BY <1>3 DEF Add
  <2>5. QED
    BY <2>1, <2>2, <2>3, <2>4 DEF TypeOK, Record
<1>4. CASE UNCHANGED cacheVars
  BY <1>4 DEF TypeOK, cacheVars
<1>5. QED
  BY <1>1, <1>2, <1>3, <1>4 DEF Next

\* The variables keep their types, and no message is recorded before its own
\* timestamp or after the present (MessageCache as a whole).
THEOREM TypeCorrect == Spec => []TypeOK
BY InitTypeOK, NextTypeOK, PTL DEF Spec

-----------------------------------------------------------------------------
(***************************************************************************)
(* No key outlives its messages.                                           *)
(***************************************************************************)

LEMMA NextNoEmptyLists ==
  TypeOK /\ NoEmptyLists /\ [Next]_cacheVars => NoEmptyLists'
<1> SUFFICES ASSUME TypeOK, NoEmptyLists, [Next]_cacheVars
             PROVE  NoEmptyLists'
  OBVIOUS
<1>1. ASSUME NEW T \in 0..now, PurgeOldMessages(T)
      PROVE  NoEmptyLists'
  BY <1>1 DEF PurgeOldMessages, AfterPurge, NoEmptyLists
<1>2. ASSUME NEW id \in ImageIds, NEW ts \in 0..now, NEW data \in Data,
             Add(id, ts, data)
      PROVE  NoEmptyLists'
  <2>1. ts \in Nat
    BY DEF TypeOK
  <2>2. /\ DOMAIN cache' = DOMAIN cache \cup {id}
        /\ ListOf(id) \in Seq(Message)
        /\ Len(cache'[id]) = Len(ListOf(id)) + 1
        /\ \A x \in DOMAIN cache \ {id} : cache'[x] = cache[x]
    BY <1>2, <2>1, AddAppends
  <2>3. cache'[id] # <<>>
    <3>1. Len(ListOf(id)) \in Nat
      BY <2>2
    <3>2. QED
      BY <2>2, <3>1
  <2>4. ASSUME NEW k \in DOMAIN cache'
        PROVE  cache'[k] # <<>>
    <3>1. CASE k = id
      BY <2>3, <3>1
    <3>2. CASE k # id
      BY <2>2, <3>2 DEF NoEmptyLists
    <3>3. QED
      BY <3>1, <3>2
  <2>5. QED
    BY <2>4 DEF NoEmptyLists
<1>3. CASE Tick \/ UNCHANGED cacheVars
  BY <1>3 DEF NoEmptyLists, Tick, cacheVars
<1>4. QED
  BY <1>1, <1>2, <1>3 DEF Next

\* The map never holds a key with an empty list, so it shrinks with its
\* messages (MessageCache.cpp:61).
THEOREM KeysHaveMessages == Spec => []NoEmptyLists
<1>1. Init => NoEmptyLists
  BY DEF Init, NoEmptyLists
<1>2. QED
  BY <1>1, NextNoEmptyLists, TypeCorrect, PTL DEF Spec

-----------------------------------------------------------------------------
(***************************************************************************)
(* No message is forgotten before its time.                                *)
(***************************************************************************)

\* A purge keeps every message that is not expired at the purge's time.
LEMMA PurgeKeepsLive ==
  ASSUME TypeOK, NEW T \in Nat, PurgeOldMessages(T),
         NEW id \in DOMAIN cache, NEW i \in Live(cache[id], T)
  PROVE  /\ id \in DOMAIN cache'
         /\ \E j \in DOMAIN cache'[id] : cache'[id][j] = cache[id][i]
<1>1. cache[id] \in Seq(Message)
  BY DEF TypeOK
<1>2. PICK m \in Live(cache[id], T) :
        /\ \A x \in 1..(m - 1) : Expired(cache[id][x], T)
        /\ Purged(cache[id], T) \in Seq(Message)
        /\ Len(Purged(cache[id], T)) = Len(cache[id]) - m + 1
        /\ \A x \in 1..(Len(cache[id]) - m + 1) :
              Purged(cache[id], T)[x] = cache[id][m + x - 1]
  BY <1>1, PurgedIsSuffix
<1>3. /\ Len(cache[id]) \in Nat
      /\ i \in 1..Len(cache[id])
      /\ m \in 1..Len(cache[id])
      /\ ~ Expired(cache[id][i], T)
  BY <1>1 DEF Live
<1>4. m <= i
  BY <1>2, <1>3
<1> DEFINE j == i - m + 1
<1>5. /\ j \in 1..(Len(cache[id]) - m + 1)
      /\ m + j - 1 = i
  BY <1>3, <1>4
<1>6. /\ Purged(cache[id], T)[j] = cache[id][i]
      /\ j \in DOMAIN Purged(cache[id], T)
  <2>1. Purged(cache[id], T)[j] = cache[id][m + j - 1]
    BY <1>2, <1>5
  <2>2. DOMAIN Purged(cache[id], T) = 1..Len(Purged(cache[id], T))
    BY <1>2
  <2>3. QED
    BY <1>2, <1>5, <2>1, <2>2
<1>7. Purged(cache[id], T) # <<>>
  BY <1>6
<1>8. id \in DOMAIN cache' /\ cache'[id] = Purged(cache[id], T)
  BY <1>7 DEF PurgeOldMessages, AfterPurge
<1>9. QED
  BY <1>6, <1>8

LEMMA NextRemembered == TypeOK /\ Remembered /\ [Next]_cacheVars => Remembered'
<1> SUFFICES ASSUME TypeOK, Remembered, [Next]_cacheVars
             PROVE  Remembered'
  OBVIOUS
<1> USE ValidAgeAssumption
<1>1. CASE Tick
  <2>1. cache' = cache /\ recorded' = recorded /\ now' = now + 1 /\ now \in Nat
    BY <1>1 DEF Tick, TypeOK
  <2>2. \A r \in recorded : r.timestamp \in Nat
    BY DEF TypeOK, Record
  <2>3. QED
    BY <2>1, <2>2 DEF Remembered, Holds, ListOf
<1>2. ASSUME NEW T \in 0..now, PurgeOldMessages(T)
      PROVE  Remembered'
  <2>1. T \in Nat /\ now \in Nat /\ T <= now
    BY DEF TypeOK
  <2>2. now' = now /\ recorded' = recorded
    BY <1>2 DEF PurgeOldMessages
  <2>3. ASSUME NEW r \in recorded, ~ (now - r.timestamp > ValidAge)
        PROVE  Holds(r)'
    <3>1. r.timestamp \in Nat /\ r.id \in ImageIds
      BY DEF TypeOK, Record
    <3>2. Holds(r)
      BY <2>3 DEF Remembered
    <3>3. PICK i \in DOMAIN ListOf(r.id) :
            /\ ListOf(r.id)[i].data = r.data
            /\ ListOf(r.id)[i].timestamp = r.timestamp
      BY <3>2 DEF Holds
    <3>4. r.id \in DOMAIN cache /\ ListOf(r.id) = cache[r.id]
      BY <3>3 DEF ListOf
    <3>5. i \in Live(cache[r.id], T)
      BY <2>1, <2>3, <3>1, <3>3, <3>4 DEF Live, Expired
    <3>6. /\ r.id \in DOMAIN cache'
          /\ \E j \in DOMAIN cache'[r.id] : cache'[r.id][j] = cache[r.id][i]
      BY <1>2, <2>1, <3>4, <3>5, PurgeKeepsLive
    <3>7. QED
      BY <3>3, <3>4, <3>6 DEF Holds, ListOf
  <2>4. QED
    BY <2>2, <2>3 DEF Remembered
<1>3. ASSUME NEW id \in ImageIds, NEW ts \in 0..now, NEW data \in Data,
             Add(id, ts, data)
      PROVE  Remembered'
  <2>1. ts \in Nat
    BY DEF TypeOK
  <2> PICK new : new = [id |-> id, timestamp |-> ts, data |-> data, addedAt |-> now]
    OBVIOUS
  <2>2. /\ DOMAIN cache' = DOMAIN cache \cup {id}
        /\ ListOf(id) \in Seq(Message)
        /\ cache'[id] \in Seq(Message)
        /\ Len(cache'[id]) = Len(ListOf(id)) + 1
        /\ \A i \in 1..Len(ListOf(id)) : cache'[id][i] = ListOf(id)[i]
        /\ cache'[id][Len(ListOf(id)) + 1] = [timestamp |-> ts, data |-> data]
        /\ \A k \in DOMAIN cache \ {id} : cache'[k] = cache[k]
    BY <1>3, <2>1, AddAppends
  <2>3. now' = now /\ recorded' = recorded \cup {new}
    BY <1>3 DEF Add
  <2>4. /\ Len(ListOf(id)) \in Nat
        /\ DOMAIN ListOf(id) = 1..Len(ListOf(id))
        /\ DOMAIN cache'[id] = 1..(Len(ListOf(id)) + 1)
        /\ ListOf(id)' = cache'[id]
    <3>1. ListOf(id)' = cache'[id]
      BY <2>2 DEF ListOf
    <3>2. QED
      BY <2>2, <3>1
  <2>5. Holds(new)'
    <3>1. Len(ListOf(id)) + 1 \in DOMAIN cache'[id]
      BY <2>4
    <3>2. new.id = id /\ new.data = data /\ new.timestamp = ts
      OBVIOUS
    <3>3. QED
      BY <2>2, <2>4, <3>1, <3>2 DEF Holds
  <2>6. ASSUME NEW r \in recorded, Holds(r)
        PROVE  Holds(r)'
    <3>1. PICK i \in DOMAIN ListOf(r.id) :
            /\ ListOf(r.id)[i].data = r.data
            /\ ListOf(r.id)[i].timestamp = r.timestamp
      BY <2>6 DEF Holds
    <3>2. CASE r.id = id
      <4>1. i \in DOMAIN cache'[id] /\ cache'[id][i] = ListOf(id)[i]
        BY <2>2, <2>4, <3>1, <3>2
      <4>2. QED
        BY <2>4, <3>1, <3>2, <4>1 DEF Holds
    <3>3. CASE r.id # id
      <4>1. r.id \in DOMAIN cache /\ ListOf(r.id) = cache[r.id]
        BY <3>1 DEF ListOf
      <4>2. ListOf(r.id)' = ListOf(r.id)
        BY <2>2, <3>3, <4>1 DEF ListOf
      <4>3. QED
        BY <3>1, <4>2 DEF Holds
    <3>4. QED
      BY <3>2, <3>3
  <2>7. ASSUME NEW r \in recorded, ~ Holds(r)
        PROVE  now' - r.timestamp > ValidAge
    BY <2>3, <2>7 DEF Remembered
  <2>8. QED
    BY <2>3, <2>5, <2>6, <2>7 DEF Remembered
<1>4. CASE UNCHANGED cacheVars
  BY <1>4 DEF Remembered, Holds, ListOf, cacheVars
<1>5. QED
  BY <1>1, <1>2, <1>3, <1>4 DEF Next

\* Whatever the times other threads purge with, a recorded message is found by
\* exists() for validAge seconds from its timestamp (MessageCache.cpp:44-50).
THEOREM NotForgottenEarly == Spec => []Remembered
<1>1. Init => Remembered
  BY DEF Init, Remembered
<1>2. QED
  BY <1>1, NextRemembered, TypeCorrect, PTL DEF Spec

-----------------------------------------------------------------------------
(***************************************************************************)
(* Order of the lists, and what a purge forgets.                           *)
(***************************************************************************)

\* Positions after a purge are positions before it, moved by m - 1, with the
\* same explanations; the message at the new front is not expired.
LEMMA AfterPurgeShifts ==
  ASSUME TypeOK, NEW T \in Nat, NEW id \in DOMAIN AfterPurge(T)
  PROVE  /\ id \in DOMAIN cache
         /\ cache[id] \in Seq(Message)
         /\ \E m \in DOMAIN cache[id] :
               /\ ~ Expired(cache[id][m], T)
               /\ \A i \in DOMAIN AfterPurge(T)[id] :
                     /\ i \in Nat \ {0}
                     /\ m + i - 1 \in DOMAIN cache[id]
                     /\ AfterPurge(T)[id][i] = cache[id][m + i - 1]
<1> DEFINE left == AfterPurge(T)[id]
<1>1. /\ id \in DOMAIN cache
      /\ left = Purged(cache[id], T)
      /\ Live(cache[id], T) # {}
  BY AfterPurgeTypes
<1>2. cache[id] \in Seq(Message)
  BY <1>1 DEF TypeOK
<1>3. PICK m \in Live(cache[id], T) :
        /\ \A x \in 1..(m - 1) : Expired(cache[id][x], T)
        /\ Purged(cache[id], T) \in Seq(Message)
        /\ Len(Purged(cache[id], T)) = Len(cache[id]) - m + 1
        /\ \A x \in 1..(Len(cache[id]) - m + 1) :
              Purged(cache[id], T)[x] = cache[id][m + x - 1]
  BY <1>1, <1>2, PurgedIsSuffix
<1>4. /\ Len(cache[id]) \in Nat
      /\ DOMAIN cache[id] = 1..Len(cache[id])
      /\ m \in DOMAIN cache[id]
      /\ ~ Expired(cache[id][m], T)
  BY <1>2 DEF Live
<1>5. DOMAIN left = 1..(Len(cache[id]) - m + 1)
  BY <1>1, <1>3, <1>4
<1>6. ASSUME NEW i \in DOMAIN left
      PROVE  /\ i \in Nat \ {0}
             /\ m + i - 1 \in DOMAIN cache[id]
             /\ left[i] = cache[id][m + i - 1]
  <2>1. i \in Nat \ {0} /\ m + i - 1 \in 1..Len(cache[id])
    BY <1>4, <1>5
  <2>2. left[i] = cache[id][m + i - 1]
    BY <1>1, <1>3, <1>5
  <2>3. QED
    BY <1>4, <2>1, <2>2
<1>7. QED
  BY <1>1, <1>2, <1>4, <1>6

LEMMA PurgeShifts ==
  ASSUME TypeOK, NEW T \in Nat, PurgeOldMessages(T), NEW id \in DOMAIN cache'
  PROVE  /\ id \in DOMAIN cache
         /\ cache[id] \in Seq(Message)
         /\ \E m \in DOMAIN cache[id] :
               /\ ~ Expired(cache[id][m], T)
               /\ \A i \in DOMAIN cache'[id] :
                     /\ i \in Nat \ {0}
                     /\ m + i - 1 \in DOMAIN cache[id]
                     /\ Explained(id, i)' = Explained(id, m + i - 1)
<1>1. cache' = AfterPurge(T) /\ recorded' = recorded
  BY DEF PurgeOldMessages
<1>2. /\ id \in DOMAIN cache
      /\ cache[id] \in Seq(Message)
  BY <1>1, AfterPurgeShifts
<1>3. PICK m \in DOMAIN cache[id] :
        /\ ~ Expired(cache[id][m], T)
        /\ \A i \in DOMAIN cache'[id] :
              /\ i \in Nat \ {0}
              /\ m + i - 1 \in DOMAIN cache[id]
              /\ cache'[id][i] = cache[id][m + i - 1]
  BY <1>1, AfterPurgeShifts
<1>4. \A i \in DOMAIN cache'[id] : Explained(id, i)' = Explained(id, m + i - 1)
  BY <1>1, <1>3 DEF Explained
<1>5. QED
  BY <1>2, <1>3, <1>4

\* After an add, messages that were there keep their explanations, and the new
\* one is explained by the new record, the latest of all.
LEMMA AddExplains ==
  ASSUME TypeOK, NEW id \in ImageIds, NEW ts \in 0..now, NEW data \in Data,
         Add(id, ts, data)
  PROVE  \E n \in Nat :
            /\ DOMAIN cache'[id] = 1..(n + 1)
            /\ \A k \in DOMAIN cache' : \A i \in DOMAIN cache'[k] :
                  k # id \/ i # n + 1 =>
                    /\ k \in DOMAIN cache
                    /\ i \in DOMAIN cache[k]
                    /\ Explained(k, i) \subseteq Explained(k, i)'
            /\ \E new \in Explained(id, n + 1)' :
                  /\ new.addedAt = now
                  /\ \A r \in recorded' : r.addedAt <= new.addedAt
<1>1. ts \in Nat /\ now \in Nat
  BY DEF TypeOK
<1> PICK new : new = [id |-> id, timestamp |-> ts, data |-> data, addedAt |-> now]
  OBVIOUS
<1> PICK n : n = Len(ListOf(id))
  OBVIOUS
<1>2. /\ DOMAIN cache' = DOMAIN cache \cup {id}
      /\ ListOf(id) \in Seq(Message)
      /\ cache'[id] \in Seq(Message)
      /\ Len(cache'[id]) = n + 1
      /\ \A i \in 1..n : cache'[id][i] = ListOf(id)[i]
      /\ cache'[id][n + 1] = [timestamp |-> ts, data |-> data]
      /\ \A k \in DOMAIN cache \ {id} : cache'[k] = cache[k]
  BY <1>1, AddAppends
<1>3. recorded' = recorded \cup {new}
  BY DEF Add
<1>4. n \in Nat /\ DOMAIN cache'[id] = 1..(n + 1)
  BY <1>2
<1>5. ASSUME NEW k \in DOMAIN cache', NEW i \in DOMAIN cache'[k],
             k # id \/ i # n + 1
      PROVE  /\ k \in DOMAIN cache
             /\ i \in DOMAIN cache[k]
             /\ Explained(k, i) \subseteq Explained(k, i)'
  <2>1. CASE k # id
    BY <1>2, <1>3, <2>1 DEF Explained
  <2>2. CASE k = id
    <3>1. i \in 1..n
      BY <1>4, <1>5, <2>2
    <3>2. id \in DOMAIN cache /\ ListOf(id) = cache[id]
      BY <1>4, <3>1 DEF ListOf
    <3>3. i \in DOMAIN cache[id]
      BY <1>2, <3>1, <3>2
    <3>4. cache'[id][i] = cache[id][i]
      BY <1>2, <3>1, <3>2
    <3>5. QED
      BY <1>3, <2>2, <3>2, <3>3, <3>4 DEF Explained
  <2>3. QED
    BY <2>1, <2>2
<1>6. new \in Explained(id, n + 1)' /\ \A r \in recorded' : r.addedAt <= new.addedAt
  <2>1. \A r \in recorded : r.addedAt <= now
    BY DEF TypeOK
  <2>2. new.addedAt = now /\ new.id = id /\ new.data = data /\ new.timestamp = ts
    OBVIOUS
  <2>3. \A r \in recorded' : r.addedAt <= new.addedAt
    BY <1>1, <1>3, <2>1, <2>2
  <2>4. new \in Explained(id, n + 1)'
    BY <1>2, <1>3, <2>2 DEF Explained
  <2>5. QED
    BY <2>3, <2>4
<1>7. new.addedAt = now
  OBVIOUS
<1>8. QED
  BY <1>4, <1>5, <1>6, <1>7

LEMMA NextInAdditionOrder ==
  TypeOK /\ InAdditionOrder /\ [Next]_cacheVars => InAdditionOrder'
<1> SUFFICES ASSUME TypeOK, InAdditionOrder, [Next]_cacheVars
             PROVE  InAdditionOrder'
  OBVIOUS
<1>1. CASE Tick \/ UNCHANGED cacheVars
  BY <1>1 DEF InAdditionOrder, Explained, Tick, cacheVars
<1>2. ASSUME NEW T \in 0..now, PurgeOldMessages(T)
      PROVE  InAdditionOrder'
  <2>1. T \in Nat
    BY DEF TypeOK
  <2>2. ASSUME NEW id \in DOMAIN cache',
               NEW i \in DOMAIN cache'[id], NEW j \in DOMAIN cache'[id],
               i <= j
        PROVE  \E r \in Explained(id, i)', s \in Explained(id, j)' :
                  r.addedAt <= s.addedAt
    <3>1. /\ id \in DOMAIN cache
          /\ cache[id] \in Seq(Message)
          /\ \E m \in DOMAIN cache[id] :
                /\ ~ Expired(cache[id][m], T)
                /\ \A x \in DOMAIN cache'[id] :
                      /\ x \in Nat \ {0}
                      /\ m + x - 1 \in DOMAIN cache[id]
                      /\ Explained(id, x)' = Explained(id, m + x - 1)
      BY <1>2, <2>1, PurgeShifts
    <3>2. PICK m \in DOMAIN cache[id] :
            \A x \in DOMAIN cache'[id] :
                /\ x \in Nat \ {0}
                /\ m + x - 1 \in DOMAIN cache[id]
                /\ Explained(id, x)' = Explained(id, m + x - 1)
      BY <3>1
    <3>3. m + i - 1 <= m + j - 1
      BY <2>2, <3>1, <3>2
    <3>4. QED
      BY <3>1, <3>2, <3>3 DEF InAdditionOrder
  <2>3. QED
    BY <2>2 DEF InAdditionOrder
<1>3. ASSUME NEW id \in ImageIds, NEW ts \in 0..now, NEW data \in Data,
             Add(id, ts, data)
      PROVE  InAdditionOrder'
  <2> PICK n \in Nat :
          /\ DOMAIN cache'[id] = 1..(n + 1)
          /\ \A k \in DOMAIN cache' : \A i \in DOMAIN cache'[k] :
                k # id \/ i # n + 1 =>
                  /\ k \in DOMAIN cache
                  /\ i \in DOMAIN cache[k]
                  /\ Explained(k, i) \subseteq Explained(k, i)'
          /\ \E new \in Explained(id, n + 1)' :
                /\ new.addedAt = now
                /\ \A r \in recorded' : r.addedAt <= new.addedAt
    BY <1>3, AddExplains
  <2> PICK new \in Explained(id, n + 1)' :
          \A r \in recorded' : r.addedAt <= new.addedAt
    OBVIOUS
  <2>1. DOMAIN cache'[id] = 1..(n + 1) /\ recorded \subseteq recorded'
    BY <1>3 DEF Add
  <2>2. ASSUME NEW k \in DOMAIN cache',
               NEW i \in DOMAIN cache'[k], NEW j \in DOMAIN cache'[k],
               i <= j
        PROVE  \E r \in Explained(k, i)', s \in Explained(k, j)' :
                  r.addedAt <= s.addedAt
    <3>1. CASE k # id \/ j # n + 1
      <4>1. k # id \/ i # n + 1
        BY <2>1, <2>2, <3>1
      <4>2. /\ k \in DOMAIN cache
            /\ i \in DOMAIN cache[k]
            /\ j \in DOMAIN cache[k]
            /\ Explained(k, i) \subseteq Explained(k, i)'
            /\ Explained(k, j) \subseteq Explained(k, j)'
        BY <2>1, <3>1, <4>1
      <4>3. \E r \in Explained(k, i), s \in Explained(k, j) :
                r.addedAt <= s.addedAt
        BY <2>2, <4>2 DEF InAdditionOrder
      <4>4. QED
        BY <4>2, <4>3
    <3>2. CASE k = id /\ j = n + 1
      <4>1. \E r \in Explained(k, i)' : r \in recorded'
        <5>1. CASE i = n + 1
          BY <3>2, <5>1 DEF Explained
        <5>2. CASE i # n + 1
          <6>1. /\ k \in DOMAIN cache
                /\ i \in DOMAIN cache[k]
                /\ Explained(k, i) \subseteq Explained(k, i)'
            BY <2>1, <3>2, <5>2
          <6>2. i <= i
            BY <2>1, <3>2
          <6>3. \E r \in Explained(k, i) : TRUE
            BY <6>1, <6>2 DEF InAdditionOrder
          <6>4. QED
            BY <2>1, <6>1, <6>3 DEF Explained
        <5>3. QED
          BY <5>1, <5>2
      <4>2. QED
        BY <3>2, <4>1
    <3>3. QED
      BY <3>1, <3>2
  <2>3. QED
    BY <2>2 DEF InAdditionOrder
<1>4. QED
  BY <1>1, <1>2, <1>3 DEF Next

\* A list holds only recorded messages, in the order they were recorded, even
\* when their timestamps are out of order (MessageCache.cpp:94).
THEOREM ListsInAdditionOrder == Spec => []InAdditionOrder
<1>1. Init => InAdditionOrder
  BY DEF Init, InAdditionOrder
<1>2. QED
  BY <1>1, NextInAdditionOrder, TypeCorrect, PTL DEF Spec

\* Every survivor of a purge stands behind a message that is not expired, so
\* it was recorded no earlier than that one, whose timestamp is at most
\* validAge before the purge's time.
LEMMA AfterPurgeRecent == TypeOK /\ InAdditionOrder => PurgeForgets
<1> SUFFICES ASSUME TypeOK, InAdditionOrder, NEW T \in 0..now,
                    NEW id \in DOMAIN AfterPurge(T), NEW i \in DOMAIN AfterPurge(T)[id]
             PROVE  AddedSince(id, AfterPurge(T)[id][i], T)
  BY DEF PurgeForgets
<1>1. T \in Nat
  BY DEF TypeOK
<1>2. id \in DOMAIN cache /\ cache[id] \in Seq(Message)
  BY <1>1, AfterPurgeShifts
<1>3. PICK m \in DOMAIN cache[id] :
        /\ ~ Expired(cache[id][m], T)
        /\ i \in Nat \ {0}
        /\ m + i - 1 \in DOMAIN cache[id]
        /\ AfterPurge(T)[id][i] = cache[id][m + i - 1]
  BY <1>1, AfterPurgeShifts
<1>4. m <= m + i - 1
  BY <1>2, <1>3
<1>5. PICK r \in Explained(id, m), s \in Explained(id, m + i - 1) :
        r.addedAt <= s.addedAt
  BY <1>2, <1>3, <1>4 DEF InAdditionOrder
<1>6. /\ r.timestamp = cache[id][m].timestamp
      /\ r.timestamp <= r.addedAt
      /\ r.timestamp \in Nat /\ r.addedAt \in Nat /\ s.addedAt \in Nat
  BY <1>5 DEF Explained, TypeOK, Record
<1>7. T - s.addedAt <= ValidAge
  BY <1>1, <1>3, <1>5, <1>6, ValidAgeAssumption DEF Expired
<1>8. QED
  BY <1>3, <1>5, <1>7 DEF AddedSince, Explained

\* A purge for time T, whenever it is made, leaves no message that was recorded
\* more than validAge seconds before T (MessageCache.cpp:44-50, 59-63,
\* DhsService.cpp:381-389).
THEOREM PurgesForget == Spec => []PurgeForgets
BY AfterPurgeRecent, TypeCorrect, ListsInAdditionOrder, PTL

\* Whatever the step, a message in a list was there before, with the same
\* explanations or more, or has just been added.
LEMMA NextKeepsExplanations ==
  ASSUME TypeOK, [Next]_cacheVars, NEW id \in DOMAIN cache', NEW i \in DOMAIN cache'[id]
  PROVE  \/ /\ id \in DOMAIN cache
            /\ \E j \in DOMAIN cache[id] : Explained(id, j) \subseteq Explained(id, i)'
         \/ \E r \in Explained(id, i)' : r.addedAt = now
<1>1. CASE Tick \/ UNCHANGED cacheVars
  BY <1>1 DEF Tick, cacheVars, Explained
<1>2. ASSUME NEW T \in 0..now, PurgeOldMessages(T)
      PROVE  /\ id \in DOMAIN cache
             /\ \E j \in DOMAIN cache[id] : Explained(id, j) = Explained(id, i)'
  <2>1. T \in Nat
    BY DEF TypeOK
  <2>2. /\ id \in DOMAIN cache
        /\ \E m \in DOMAIN cache[id] :
              \A x \in DOMAIN cache'[id] :
                  /\ m + x - 1 \in DOMAIN cache[id]
                  /\ Explained(id, x)' = Explained(id, m + x - 1)
    BY <1>2, <2>1, PurgeShifts
  <2>3. QED
    BY <2>2
<1>3. ASSUME NEW k \in ImageIds, NEW ts \in 0..now, NEW data \in Data,
             Add(k, ts, data)
      PROVE  \/ /\ id \in DOMAIN cache
                /\ \E j \in DOMAIN cache[id] :
                      Explained(id, j) \subseteq Explained(id, i)'
             \/ \E r \in Explained(id, i)' : r.addedAt = now
  <2> PICK n \in Nat :
          /\ \A x \in DOMAIN cache' : \A y \in DOMAIN cache'[x] :
                x # k \/ y # n + 1 =>
                  /\ x \in DOMAIN cache
                  /\ y \in DOMAIN cache[x]
                  /\ Explained(x, y) \subseteq Explained(x, y)'
          /\ \E new \in Explained(k, n + 1)' : new.addedAt = now
    BY <1>3, AddExplains
  <2>1. QED
    BY <1>3
<1>4. QED
  BY <1>1, <1>2, <1>3 DEF Next

-----------------------------------------------------------------------------
(***************************************************************************)
(* When messages are added in the order of their timestamps.               *)
(***************************************************************************)

InOrder(list) ==
    \A i, j \in DOMAIN list : i <= j => list[i].timestamp <= list[j].timestamp

Sorted == \A id \in DOMAIN cache : InOrder(cache[id])

Elements(list) == {list[i] : i \in DOMAIN list}

\* Of a list in order a purge leaves just what is not expired, and in order.
LEMMA PurgedIsExact ==
  ASSUME NEW list \in Seq(Message), NEW T \in Int, Live(list, T) # {}, InOrder(list)
  PROVE  /\ Elements(Purged(list, T)) = {list[i] : i \in Live(list, T)}
         /\ InOrder(Purged(list, T))
<1>1. PICK m \in Live(list, T) :
        /\ \A i \in 1..(m - 1) : Expired(list[i], T)
        /\ Purged(list, T) \in Seq(Message)
        /\ Len(Purged(list, T)) = Len(list) - m + 1
        /\ \A i \in 1..(Len(list) - m + 1) : Purged(list, T)[i] = list[m + i - 1]
  BY PurgedIsSuffix
<1>2. /\ Len(list) \in Nat
      /\ m \in 1..Len(list)
      /\ ~ Expired(list[m], T)
      /\ DOMAIN Purged(list, T) = 1..(Len(list) - m + 1)
  BY <1>1 DEF Live
<1>3. ASSUME NEW i \in DOMAIN Purged(list, T)
      PROVE  /\ m + i - 1 \in 1..Len(list)
             /\ m <= m + i - 1
             /\ Purged(list, T)[i] = list[m + i - 1]
  BY <1>1, <1>2
<1>4. ASSUME NEW i \in DOMAIN Purged(list, T)
      PROVE  ~ Expired(Purged(list, T)[i], T)
  <2>1. list[m] \in Message /\ list[m + i - 1] \in Message
    BY <1>2, <1>3
  <2>2. list[m].timestamp \in Nat /\ list[m + i - 1].timestamp \in Nat
    BY <2>1 DEF Message
  <2>3. list[m].timestamp <= list[m + i - 1].timestamp
    BY <1>2, <1>3 DEF InOrder
  <2>4. \A a, b \in Nat : a <= b /\ ~ (T - a > ValidAge) => ~ (T - b > ValidAge)
    BY ValidAgeAssumption
  <2>5. ~ Expired(list[m + i - 1], T)
    BY <1>2, <2>2, <2>3, <2>4 DEF Expired
  <2>6. QED
    BY <1>3, <2>5
<1>5. InOrder(Purged(list, T))
  <2>1. ASSUME NEW i \in DOMAIN Purged(list, T), NEW j \in DOMAIN Purged(list, T),
               i <= j
        PROVE  list[m + i - 1].timestamp <= list[m + j - 1].timestamp
    <3>1. m + i - 1 <= m + j - 1
      BY <1>2, <2>1
    <3>2. QED
      BY <1>3, <3>1 DEF InOrder
  <2>2. QED
    BY <1>3, <2>1 DEF InOrder
<1>6. ASSUME NEW i \in Live(list, T)
      PROVE  list[i] \in Elements(Purged(list, T))
  <2>1. i \in m..Len(list)
    BY <1>1, <1>2 DEF Live
  <2>2. /\ i - m + 1 \in DOMAIN Purged(list, T)
        /\ Purged(list, T)[i - m + 1] = list[i]
    BY <1>1, <1>2, <2>1
  <2>3. QED
    BY <2>2 DEF Elements
<1>7. ASSUME NEW i \in DOMAIN Purged(list, T)
      PROVE  Purged(list, T)[i] \in {list[j] : j \in Live(list, T)}
  <2>1. m + i - 1 \in Live(list, T)
    BY <1>2, <1>3, <1>4 DEF Live
  <2>2. QED
    BY <1>3, <2>1
<1>8. QED
  BY <1>5, <1>6, <1>7 DEF Elements

\* Every message is added with a timestamp not before those in its list.
AddsInOrder ==
    [][\A id \in ImageIds, timestamp \in 0..now, data \in Data :
            Add(id, timestamp, data) =>
                \A i \in DOMAIN ListOf(id) : ListOf(id)[i].timestamp <= timestamp]_cacheVars

\* What is left of an image's messages by a purge made for any time is just
\* what is not expired then.
LeavesLive ==
    \A T \in 0..now, id \in DOMAIN cache :
        LET left == IF id \in DOMAIN AfterPurge(T) THEN AfterPurge(T)[id] ELSE <<>>
        IN  Elements(left) = {cache[id][i] : i \in Live(cache[id], T)}

LEMMA PurgeLeavesLive == TypeOK /\ Sorted => LeavesLive
<1> SUFFICES ASSUME TypeOK, Sorted, NEW T \in 0..now, NEW id \in DOMAIN cache
             PROVE  Elements(IF id \in DOMAIN AfterPurge(T) THEN AfterPurge(T)[id] ELSE <<>>)
                        = {cache[id][i] : i \in Live(cache[id], T)}
  BY DEF LeavesLive
<1>1. T \in Nat /\ cache[id] \in Seq(Message) /\ InOrder(cache[id])
  BY DEF TypeOK, Sorted
<1>2. CASE Live(cache[id], T) = {}
  <2>1. Purged(cache[id], T) = <<>>
    BY <1>2 DEF Purged
  <2>2. id \notin DOMAIN AfterPurge(T)
    BY <2>1 DEF AfterPurge
  <2>3. QED
    BY <1>2, <2>2 DEF Elements
<1>3. CASE Live(cache[id], T) # {}
  <2>1. Elements(Purged(cache[id], T)) = {cache[id][i] : i \in Live(cache[id], T)}
    BY <1>1, <1>3, PurgedIsExact
  <2>2. Purged(cache[id], T) # <<>>
    <3>1. PICK i \in Live(cache[id], T) : TRUE
      BY <1>3
    <3>2. cache[id][i] \in Elements(Purged(cache[id], T))
      BY <2>1, <3>1
    <3>3. PICK j \in DOMAIN Purged(cache[id], T) : TRUE
      BY <3>2 DEF Elements
    <3>4. QED
      BY <3>3
  <2>3. id \in DOMAIN AfterPurge(T) /\ AfterPurge(T)[id] = Purged(cache[id], T)
    BY <2>2 DEF AfterPurge
  <2>4. QED
    BY <2>1, <2>3
<1>4. QED
  BY <1>2, <1>3

LEMMA PurgeKeepsOrder ==
  ASSUME TypeOK, Sorted, NEW T \in 0..now, PurgeOldMessages(T)
  PROVE  Sorted'
<1> SUFFICES ASSUME NEW id \in DOMAIN cache'
             PROVE  InOrder(cache'[id])
  BY DEF Sorted
<1>1. T \in Nat
  BY DEF TypeOK
<1>2. /\ id \in DOMAIN cache
      /\ cache'[id] = Purged(cache[id], T)
      /\ Live(cache[id], T) # {}
  BY <1>1, PurgeTypeOK
<1>3. cache[id] \in Seq(Message) /\ InOrder(cache[id])
  BY <1>2 DEF TypeOK, Sorted
<1>4. QED
  BY <1>1, <1>2, <1>3, PurgedIsExact

LEMMA AddKeepsOrder ==
  ASSUME TypeOK, Sorted, NEW id \in ImageIds, NEW ts \in 0..now, NEW data \in Data,
         Add(id, ts, data), \A i \in DOMAIN ListOf(id) : ListOf(id)[i].timestamp <= ts
  PROVE  Sorted'
<1> DEFINE n == Len(ListOf(id))
<1>1. ts \in Nat
  BY DEF TypeOK
<1>2. /\ DOMAIN cache' = DOMAIN cache \cup {id}
      /\ ListOf(id) \in Seq(Message)
      /\ cache'[id] \in Seq(Message)
      /\ Len(cache'[id]) = n + 1
      /\ \A i \in 1..n : cache'[id][i] = ListOf(id)[i]
      /\ cache'[id][n + 1] = [timestamp |-> ts, data |-> data]
      /\ \A k \in DOMAIN cache \ {id} : cache'[k] = cache[k]
  BY <1>1, AddAppends
<1>3. /\ n \in Nat
      /\ DOMAIN ListOf(id) = 1..n
      /\ DOMAIN cache'[id] = 1..(n + 1)
  BY <1>2
<1>4. InOrder(ListOf(id))
  BY DEF Sorted, ListOf, InOrder
<1> HIDE DEF n
<1>5. ASSUME NEW i \in DOMAIN cache'[id], NEW j \in DOMAIN cache'[id], i <= j
      PROVE  cache'[id][i].timestamp <= cache'[id][j].timestamp
  <2>1. cache'[id][n + 1].timestamp = ts
    BY <1>2
  <2>2. CASE j = n + 1 /\ i = n + 1
    BY <1>1, <2>1, <2>2
  <2>3. CASE j = n + 1 /\ i # n + 1
    <3>1. i \in 1..n
      BY <1>3, <1>5, <2>3
    <3>2. QED
      BY <1>2, <1>3, <2>1, <2>3, <3>1
  <2>4. CASE j # n + 1
    <3>1. i \in 1..n /\ j \in 1..n
      BY <1>3, <1>5, <2>4
    <3>2. QED
      BY <1>2, <1>3, <1>4, <1>5, <3>1 DEF InOrder
  <2>5. QED
    BY <2>2, <2>3, <2>4
<1>6. ASSUME NEW k \in DOMAIN cache', k # id
      PROVE  InOrder(cache'[k])
  BY <1>2, <1>6 DEF Sorted
<1>7. QED
  BY <1>5, <1>6 DEF Sorted, InOrder

\* Looking at the front of the lists only is enough as long as messages come in
\* the order of their timestamps: then a purge, made whenever and for whatever
\* time, removes all that is expired and nothing else.  Requests that overlap
\* break that order, as their timestamps are read before the exchange with the DHS
\* (MessageCache.cpp:45 with DhsService.cpp:381, 389).
THEOREM PurgesExactlyWhenInOrder == Spec /\ AddsInOrder => []LeavesLive
<1>1. Init => Sorted
  BY DEF Init, Sorted
<1> DEFINE Ordered ==
            \A id \in ImageIds, timestamp \in 0..now, data \in Data :
                Add(id, timestamp, data) =>
                    \A i \in DOMAIN ListOf(id) : ListOf(id)[i].timestamp <= timestamp
<1>2. TypeOK /\ Sorted /\ [Next]_cacheVars /\ [Ordered]_cacheVars => Sorted'
  <2> SUFFICES ASSUME TypeOK, Sorted, [Next]_cacheVars, [Ordered]_cacheVars
               PROVE  Sorted'
    OBVIOUS
  <2>1. CASE UNCHANGED cache
    BY <2>1 DEF Sorted
  <2>2. ASSUME NEW T \in 0..now, PurgeOldMessages(T)
        PROVE  Sorted'
    BY <2>2, PurgeKeepsOrder
  <2>3. ASSUME NEW id \in ImageIds, NEW ts \in 0..now, NEW data \in Data,
               Add(id, ts, data)
        PROVE  Sorted'
    <3>1. CASE UNCHANGED cacheVars
      BY <3>1 DEF Sorted, cacheVars
    <3>2. CASE Ordered
      BY <2>3, <3>2, AddKeepsOrder
    <3>3. QED
      BY <3>1, <3>2
  <2>4. QED
    BY <2>1, <2>2, <2>3 DEF Next, Tick, cacheVars
<1>3. TypeOK /\ Sorted => LeavesLive
  BY PurgeLeavesLive
<1>4. QED
  BY <1>1, <1>2, <1>3, TypeCorrect, PTL DEF Spec, AddsInOrder
=============================================================================
