------------------------ MODULE DhsAdapterSimProofs ------------------------
(***************************************************************************)
(* Proofs about DhsAdapterSim, for any threads, any calendar, any size of  *)
(* the counter and any number of restarts: its types, that the ids made    *)
(* since the last start come back only after all the others, that it       *)
(* implements the interface until an id comes back, and that its successes *)
(* are real even then.                                                     *)
(***************************************************************************)
EXTENDS DhsAdapterSim, Integers, IDhsAdapterProofs

\* The labels with a number that is not yet part of an id.
Numbered == {"increment", "unlock", "formatMonth", "formatDay", "create"}

Creating == {"time", "localtime", "storeMonth", "storeDay", "lock", "latch"} \cup Numbered

Types ==
    /\ pc \in [Threads -> Labels]
    /\ today \in DOMAIN Calendar
    /\ time \in [Threads -> DOMAIN Calendar \cup {0}]
    /\ tm \in [mon : Nat, mday : Nat]
    /\ date \in [Threads -> [mon : Nat, mday : Nat]]
    /\ lock \in Threads \cup {None}
    /\ nextId \in 1..(MAX_IMAGE_ID - 1)
    /\ latchedId \in [Threads -> 0..(MAX_IMAGE_ID - 1)]
    /\ turn \in [Threads -> 0..latches]
    /\ latches \in Nat
    /\ started \in 1..(latches + 1)
    /\ created \subseteq [turn : 1..latches, id : ImageIds]

LockOwner == \A t \in Threads : pc[t] \in {"latch", "increment", "unlock"} <=> lock = t

\* What the place of a thread says about its call.
CallProgress(t) ==
    /\ pc[t] = "idle" <=> call[t] = None
    /\ pc[t] \in Creating \cup {"idle", "setting"} => done[t] = None
    /\ pc[t] \in Creating => call[t] = CreateImageCall
    /\ pc[t] = "setting" => call[t] \in SetterCalls
    /\ pc[t] = "return" /\ call[t] = CreateImageCall =>
            \E id \in ImageIds : done[t] = ImageCreated(id)

CallsProgress == \A t \in Threads : CallProgress(t)

Months == {Calendar[i].mon : i \in DOMAIN Calendar}
Days == {Calendar[i].mday : i \in DOMAIN Calendar}

\* The month and the day that a thread finds in the buffer are of some date
\* each, perhaps not of the same.
Dated(t) ==
    /\ pc[t] \in {"localtime", "storeMonth", "storeDay"} => time[t] \in DOMAIN Calendar
    /\ pc[t] \in {"storeDay", "lock", "latch"} \cup Numbered => tm.mon \in Months
    /\ pc[t] \in {"storeMonth", "lock", "latch"} \cup Numbered => tm.mday \in Days
    /\ pc[t] \in {"formatDay", "create"} => date[t].mon \in Months
    /\ pc[t] = "create" => date[t].mday \in Days

AllDated == \A t \in Threads : Dated(t)

\* Number n was taken as the k-th, since the server was started, and is part of
\* an id or will be.
Held(k, n) ==
    \/ \E t \in Threads : pc[t] \in Numbered /\ turn[t] = k /\ latchedId[t] = n
    \/ \E c \in created : started <= c.turn /\ c.turn = k /\ c.id.number = n

Successor(n) == IF n + 1 >= MAX_IMAGE_ID THEN 1 ELSE n + 1

\* The number that will be taken next.
Upcoming == IF \E t \in Threads : pc[t] = "increment" THEN Successor(nextId) ELSE nextId

\* How often a number is taken before n comes round after m.
Distance(n, m) == IF n > m THEN n - m ELSE n - m + (MAX_IMAGE_ID - 1)

Numbers ==
    /\ \A k, n : Held(k, n) =>
            /\ k \in started..latches
            /\ n \in 1..(MAX_IMAGE_ID - 1)
            /\ latches + 1 - k >= Distance(Upcoming, n)
    /\ \A k, l, n : Held(k, n) /\ Held(l, n) /\ k < l => l - k >= MAX_IMAGE_ID - 1

SimInv == TypeOK /\ Types /\ LockOwner /\ CallsProgress /\ AllDated /\ Numbers

-----------------------------------------------------------------------------
\* What is assumed of the constants, in parts.

LEMMA CounterSize == MAX_IMAGE_ID \in Nat /\ MAX_IMAGE_ID > 1
BY SimAssumption

LEMMA CalendarDates ==
  ASSUME NEW i \in DOMAIN Calendar
  PROVE  /\ Calendar[i] \in [mon : Nat, mday : Nat]
         /\ Calendar[i].mon \in Months /\ Calendar[i].mday \in Days
<1>1. Calendar \in Seq([mon : Nat, mday : Nat])
  BY SimAssumption
<1>2. \A S : Calendar \in Seq(S) => Calendar[i] \in S
  OBVIOUS
<1>3. Calendar[i] \in [mon : Nat, mday : Nat]
  BY <1>1, <1>2
<1>4. QED
  BY <1>3 DEF Months, Days

-----------------------------------------------------------------------------
\* Numbers

LEMMA SuccessorInRange ==
  ASSUME NEW n \in 1..(MAX_IMAGE_ID - 1)
  PROVE  Successor(n) \in 1..(MAX_IMAGE_ID - 1)
BY SimAssumption DEF Successor

\* As the next number moves on by one, so does its distance from another, unless
\* it has just come round.
LEMMA DistanceOfSuccessor ==
  ASSUME NEW n \in 1..(MAX_IMAGE_ID - 1), NEW m \in 1..(MAX_IMAGE_ID - 1)
  PROVE  /\ Distance(n, m) \in 1..(MAX_IMAGE_ID - 1)
         /\ Distance(Successor(n), m) <= Distance(n, m) + 1
         /\ Distance(Successor(n), n) = 1
         /\ Distance(n, n) = MAX_IMAGE_ID - 1
BY SimAssumption DEF Distance, Successor

LEMMA UpcomingInRange ==
  ASSUME Types
  PROVE  Upcoming \in 1..(MAX_IMAGE_ID - 1)
BY SuccessorInRange DEF Types, Upcoming

\* A step that takes no number and gives none up.
LEMMA NumbersKept ==
  ASSUME Numbers, UNCHANGED <<latches, started>>, Upcoming' = Upcoming,
         \A k, n : Held(k, n)' => Held(k, n)
  PROVE  Numbers'
BY DEF Numbers, Distance

LEMMA QuietStep ==
  ASSUME Types, Numbers, NEW t \in Threads, NEW to,
         pc' = [pc EXCEPT ![t] = to],
         pc[t] # "increment", to # "increment",
         to \in Numbered => pc[t] \in Numbered,
         UNCHANGED <<nextId, latches, started, created>>,
         \A u \in Threads : u # t \/ to \in Numbered =>
            turn'[u] = turn[u] /\ latchedId'[u] = latchedId[u]
  PROVE  Numbers'
<1>1. \A u \in Threads : pc'[u] = IF u = t THEN to ELSE pc[u]
  BY DEF Types
<1>2. Upcoming' = Upcoming
  BY <1>1 DEF Upcoming, Successor
<1>3. \A k, n : Held(k, n)' => Held(k, n)
  BY <1>1 DEF Held
<1>4. QED
  BY <1>2, <1>3, NumbersKept

LEMMA LatchNumbers ==
  ASSUME SimInv, NEW t \in Threads, Latch(t)
  PROVE  Numbers'
<1> USE DEF SimInv
<1>1. /\ pc[t] = "latch" /\ \A u \in Threads : pc'[u] = IF u = t THEN "increment" ELSE pc[u]
      /\ \A u \in Threads : latchedId'[u] = IF u = t THEN nextId ELSE latchedId[u]
      /\ \A u \in Threads : turn'[u] = IF u = t THEN latches + 1 ELSE turn[u]
      /\ latches' = latches + 1 /\ UNCHANGED <<nextId, started, created>>
  BY DEF Latch, Goto, Types
<1>2. \A u \in Threads : pc[u] # "increment"
  BY <1>1 DEF LockOwner
<1>3. Upcoming = nextId /\ Upcoming' = Successor(nextId)
  BY <1>1, <1>2 DEF Upcoming, Successor
<1>4. \A k, n : Held(k, n)' => Held(k, n) \/ (k = latches + 1 /\ n = nextId)
  BY <1>1 DEF Held
<1>5. latches \in Nat /\ started \in 1..(latches + 1) /\ nextId \in 1..(MAX_IMAGE_ID - 1) /\ MAX_IMAGE_ID \in Nat
  BY SimAssumption DEF Types
<1>6. Successor(nextId) \in 1..(MAX_IMAGE_ID - 1)
  BY <1>5, SuccessorInRange
<1>7. ASSUME NEW k, NEW n, Held(k, n)'
      PROVE  /\ k \in started..latches + 1
             /\ n \in 1..(MAX_IMAGE_ID - 1)
             /\ latches + 2 - k >= Distance(Successor(nextId), n)
  <2>1. CASE Held(k, n)
    <3>1. /\ k \in started..latches /\ n \in 1..(MAX_IMAGE_ID - 1)
          /\ latches + 1 - k >= Distance(nextId, n)
      BY <1>3, <2>1 DEF Numbers
    <3>2. /\ Distance(Successor(nextId), n) <= Distance(nextId, n) + 1
          /\ Distance(nextId, n) \in Int /\ Distance(Successor(nextId), n) \in Int
      BY <1>5, <1>6, <3>1, DistanceOfSuccessor
    <3>3. QED
      BY <1>5, <3>1, <3>2
  <2>2. CASE k = latches + 1 /\ n = nextId
    BY <1>5, <2>2, DistanceOfSuccessor
  <2>3. QED
    BY <1>4, <1>7, <2>1, <2>2
<1>8. ASSUME NEW k, NEW l, NEW n, Held(k, n)', Held(l, n)', k < l
      PROVE  l - k >= MAX_IMAGE_ID - 1
  <2>1. k \in started..latches + 1 /\ l \in started..latches + 1
    BY <1>7, <1>8
  <2>2. CASE Held(k, n) /\ Held(l, n)
    BY <1>8, <2>2 DEF Numbers
  <2>3. CASE Held(k, n) /\ l = latches + 1 /\ n = nextId
    <3>1. latches + 1 - k >= Distance(nextId, nextId)
      BY <1>3, <2>3 DEF Numbers
    <3>2. QED
      BY <1>5, <2>1, <2>3, <3>1, DistanceOfSuccessor
  <2>4. CASE k = latches + 1
    BY <1>5, <1>8, <2>1, <2>4
  <2>5. QED
    BY <1>4, <1>8, <2>2, <2>3, <2>4
<1>9. \A k, n : Held(k, n)' =>
            /\ k \in started'..latches'
            /\ n \in 1..(MAX_IMAGE_ID - 1)
            /\ latches' + 1 - k >= Distance(Upcoming', n)
  BY <1>1, <1>3, <1>5, <1>7
<1>10. QED
  BY <1>8, <1>9 DEF Numbers, Distance

LEMMA IncrementNumbers ==
  ASSUME SimInv, NEW t \in Threads, Increment(t)
  PROVE  Numbers'
<1> USE DEF SimInv
<1>1. /\ pc[t] = "increment" /\ \A u \in Threads : pc'[u] = IF u = t THEN "unlock" ELSE pc[u]
      /\ nextId' = Successor(nextId)
      /\ UNCHANGED <<latchedId, turn, latches, started, created>>
  BY DEF Increment, Goto, Types, Successor
<1>2. \A u \in Threads : pc[u] = "increment" => u = t
  BY <1>1 DEF LockOwner
<1>3. Upcoming' = Upcoming
  BY <1>1, <1>2 DEF Upcoming
<1>4. \A k, n : Held(k, n)' => Held(k, n)
  BY <1>1 DEF Held, Numbered
<1>5. QED
  BY <1>1, <1>3, <1>4, NumbersKept

\* The id that is made has the number that was taken, and is an image id.
LEMMA CreateMakesId ==
  ASSUME SimInv, NEW t \in Threads, Create(t)
  PROVE  \E id \in ImageIds :
            /\ id.number = latchedId[t]
            /\ turn[t] \in started..latches /\ turn[t] \in 1..latches
            /\ done' = [done EXCEPT ![t] = ImageCreated(id)]
            /\ effects' = effects \cup {ImageCreated(id)}
            /\ created' = created \cup {[turn |-> turn[t], id |-> id]}
<1> DEFINE id == ImageId(date[t], latchedId[t])
<1>1. pc[t] = "create"
  BY DEF Create, Goto
<1>2. Held(turn[t], latchedId[t])
  BY <1>1 DEF Held, Numbered
<1>3. /\ turn[t] \in started..latches /\ turn[t] \in 1..latches
      /\ latchedId[t] \in 1..(MAX_IMAGE_ID - 1)
  BY <1>2 DEF SimInv, Types, Numbers
<1>4. date[t].mon \in Months /\ date[t].mday \in Days
  BY <1>1 DEF SimInv, AllDated, Dated
<1>5. id \in ImageIds
  BY <1>3, <1>4, SimAssumption DEF ImageId, Months, Days
<1>6. id.number = latchedId[t]
  BY DEF ImageId
<1> HIDE DEF id
<1>7. /\ done' = [done EXCEPT ![t] = ImageCreated(id)]
      /\ effects' = effects \cup {ImageCreated(id)}
      /\ created' = created \cup {[turn |-> turn[t], id |-> id]}
  BY DEF Create, id
<1>8. QED
  BY <1>3, <1>5, <1>6, <1>7

LEMMA CreateNumbers ==
  ASSUME SimInv, NEW t \in Threads, Create(t)
  PROVE  Numbers'
<1> USE DEF SimInv
<1>1. PICK id \in ImageIds :
        /\ id.number = latchedId[t]
        /\ created' = created \cup {[turn |-> turn[t], id |-> id]}
  BY CreateMakesId
<1>2. /\ pc[t] = "create" /\ \A u \in Threads : pc'[u] = IF u = t THEN "return" ELSE pc[u]
      /\ UNCHANGED <<nextId, latchedId, turn, latches, started>>
  BY DEF Create, Goto, Types, idVars
<1>3. Upcoming' = Upcoming
  BY <1>2 DEF Upcoming, Successor
<1>4. \A k, n : Held(k, n)' => Held(k, n)
  BY <1>1, <1>2 DEF Held, Numbered
<1>5. QED
  BY <1>2, <1>3, <1>4, NumbersKept

-----------------------------------------------------------------------------
\* One lemma per kind of step.

LEMMA InitSimInv == SimInit => SimInv
<1> SUFFICES ASSUME SimInit PROVE SimInv
  OBVIOUS
<1> USE NoneAssumption, SimAssumption
<1>1. TypeOK
  BY DEF SimInit, Init, TypeOK
<1>2. Types
  <2>1. 1 \in DOMAIN Calendar
    OBVIOUS
  <2>2. QED
    BY <2>1 DEF SimInit, Types, Labels
<1>3. LockOwner
  BY DEF SimInit, LockOwner
<1>4. CallsProgress
  BY DEF SimInit, Init, CallsProgress, CallProgress, Creating, Numbered
<1>5. AllDated
  BY DEF SimInit, AllDated, Dated, Numbered
<1>6. Numbers
  <2>1. \A k, n : ~ Held(k, n)
    BY DEF SimInit, Held, Numbered
  <2>2. QED
    BY <2>1 DEF Numbers
<1>7. QED
  BY <1>1, <1>2, <1>3, <1>4, <1>5, <1>6 DEF SimInv

LEMMA EnterSimInv ==
  ASSUME SimInv, NEW t \in Threads, NEW c \in Calls, Enter(t, c)
  PROVE  SimInv'
<1> DEFINE to == IF c = CreateImageCall THEN "time" ELSE "setting"
<1> USE DEF SimInv
<1>1. /\ pc[t] = "idle" /\ pc' = [pc EXCEPT ![t] = to] /\ to \in {"time", "setting"}
      /\ call' = [call EXCEPT ![t] = c] /\ UNCHANGED <<done, reply, effects>>
      /\ UNCHANGED <<today, time, tm, date, lock, nextId, latchedId, turn, latches, started,
                     created>>
      /\ to = "time" <=> c = CreateImageCall
  BY DEF Enter, Goto, Invoke, dateVars, idVars
<1>2. c # None /\ (c # CreateImageCall => c \in SetterCalls)
  BY NoneAssumption DEF Calls
<1>3. done[t] = None
  BY <1>1 DEF CallsProgress, CallProgress
<1> HIDE DEF to
<1>4. TypeOK'
  BY <1>1 DEF TypeOK
<1>5. Types'
  BY <1>1 DEF Types, Labels
<1>6. LockOwner'
  BY <1>1 DEF Types, LockOwner
<1>7. CallsProgress'
  BY <1>1, <1>2, <1>3 DEF TypeOK, Types, CallsProgress, CallProgress, Creating, Numbered
<1>8. AllDated'
  BY <1>1 DEF Types, AllDated, Dated, Numbered
<1>9. Numbers'
  BY <1>1, QuietStep DEF Numbered
<1>10. QED
  BY <1>4, <1>5, <1>6, <1>7, <1>8, <1>9

\* The steps in which a thread deals with the date.
LEMMA DateSimInv ==
  ASSUME SimInv, NEW t \in Threads,
         ReadTime(t) \/ StoreFirst(t) \/ StoreSecond(t) \/ FormatMonth(t) \/ FormatDay(t)
  PROVE  SimInv'
<1> USE DEF SimInv
<1>1. /\ UNCHANGED <<call, done, reply, effects>>
      /\ UNCHANGED <<today, lock, nextId, latchedId, turn, latches, started,
                     created>>
  BY DEF ReadTime, StoreFirst, StoreSecond, Store, FormatMonth, FormatDay, adapterVars, idVars
<1>2. PICK to \in {"localtime", "storeMonth", "storeDay", "lock", "formatDay", "create"} :
        /\ pc' = [pc EXCEPT ![t] = to]
        /\ pc[t] \in {"time", "localtime", "storeMonth", "storeDay", "formatMonth", "formatDay"}
        /\ to \in {"formatDay", "create"} <=> pc[t] \in {"formatMonth", "formatDay"}
  BY DEF ReadTime, StoreFirst, StoreSecond, FormatMonth, FormatDay, Goto
<1>3. TypeOK'
  BY <1>1 DEF TypeOK
<1>4. /\ time' \in [Threads -> DOMAIN Calendar \cup {0}]
      /\ tm' \in [mon : Nat, mday : Nat]
      /\ date' \in [Threads -> [mon : Nat, mday : Nat]]
      /\ AllDated'
  <2>1. CASE ReadTime(t)
    BY <2>1 DEF ReadTime, Goto, Types, AllDated, Dated, Numbered
  <2>2. ASSUME StoreFirst(t) \/ StoreSecond(t)
        PROVE  /\ time' \in [Threads -> DOMAIN Calendar \cup {0}]
               /\ tm' \in [mon : Nat, mday : Nat]
               /\ date' \in [Threads -> [mon : Nat, mday : Nat]]
               /\ AllDated'
    <3>1. time[t] \in DOMAIN Calendar /\ UNCHANGED <<time, date>>
      BY <2>2 DEF StoreFirst, StoreSecond, Store, Goto, AllDated, Dated
    <3>2. /\ Calendar[time[t]] \in [mon : Nat, mday : Nat]
          /\ Calendar[time[t]].mon \in Months /\ Calendar[time[t]].mday \in Days
      BY <3>1, CalendarDates
    <3>3. \/ /\ tm' = [tm EXCEPT !["mon"] = Calendar[time[t]]["mon"]]
             /\ \/ Goto(t, "localtime", "storeDay")
                \/ Goto(t, "storeMonth", "lock")
          \/ /\ tm' = [tm EXCEPT !["mday"] = Calendar[time[t]]["mday"]]
             /\ \/ Goto(t, "localtime", "storeMonth")
                \/ Goto(t, "storeDay", "lock")
      BY <2>2 DEF StoreFirst, StoreSecond, Store
    <3>4. QED
      BY <3>1, <3>2, <3>3 DEF Goto, Types, AllDated, Dated, Numbered
  <2>3. CASE FormatMonth(t)
    BY <2>3 DEF FormatMonth, Goto, Types, AllDated, Dated, Numbered
  <2>4. CASE FormatDay(t)
    BY <2>4 DEF FormatDay, Goto, Types, AllDated, Dated, Numbered
  <2>5. QED
    BY <2>1, <2>2, <2>3, <2>4
<1>5. Types'
  BY <1>1, <1>2, <1>4 DEF Types, Labels
<1>6. LockOwner'
  BY <1>1, <1>2 DEF Types, LockOwner
<1>7. CallsProgress'
  BY <1>1, <1>2 DEF Types, CallsProgress, CallProgress, Creating, Numbered
<1>8. Numbers'
  BY <1>1, <1>2, QuietStep DEF Numbered
<1>9. QED
  BY <1>3, <1>4, <1>5, <1>6, <1>7, <1>8

\* The steps with the mutex.
LEMMA MutexSimInv ==
  ASSUME SimInv, NEW t \in Threads, Lock(t) \/ Latch(t) \/ Increment(t) \/ Unlock(t)
  PROVE  SimInv'
<1> USE DEF SimInv
<1>1. UNCHANGED <<call, done, reply, effects, today, time, tm, date, created>>
  BY DEF Lock, Latch, Increment, Unlock, adapterVars, dateVars
<1>2. PICK to \in {"latch", "increment", "unlock", "formatMonth"} :
        /\ pc' = [pc EXCEPT ![t] = to]
        /\ pc[t] \in {"lock", "latch", "increment", "unlock"}
  BY DEF Lock, Latch, Increment, Unlock, Goto
<1>3. TypeOK'
  BY <1>1 DEF TypeOK
<1>4. Types'
  <2>1. CASE Lock(t) \/ Unlock(t)
    BY <1>1, <1>2, <2>1 DEF Lock, Unlock, Types, Labels
  <2>2. CASE Latch(t)
    <3>1. /\ latchedId' = [latchedId EXCEPT ![t] = nextId]
          /\ latches' = latches + 1
          /\ turn' = [turn EXCEPT ![t] = latches + 1]
          /\ UNCHANGED <<lock, nextId, started>>
      BY <2>2 DEF Latch
    <3>2. nextId \in 0..(MAX_IMAGE_ID - 1) /\ latches' \in Nat
      BY <3>1, CounterSize DEF Types
    <3>3. latchedId' \in [Threads -> 0..(MAX_IMAGE_ID - 1)]
      BY <3>1, <3>2 DEF Types
    <3>4. latches + 1 \in 0..latches' /\ \A k \in 0..latches : k \in 0..latches'
      BY <3>1 DEF Types
    <3>5. turn' \in [Threads -> 0..latches']
      BY <3>1, <3>4 DEF Types
    <3>6. created' \subseteq [turn : 1..latches', id : ImageIds]
      BY <1>1, <3>1 DEF Types
    <3>7. pc' \in [Threads -> Labels]
      BY <1>2 DEF Types, Labels
    <3>8. QED
      BY <1>1, <3>1, <3>2, <3>3, <3>5, <3>6, <3>7 DEF Types
  <2>3. CASE Increment(t)
    <3>1. nextId' = Successor(nextId) /\ UNCHANGED <<lock, latchedId, turn, latches, started>>
      BY <2>3 DEF Increment, Successor
    <3>2. nextId' \in 1..(MAX_IMAGE_ID - 1)
      BY <3>1, SuccessorInRange DEF Types
    <3>3. pc' \in [Threads -> Labels]
      BY <1>2 DEF Types, Labels
    <3>4. QED
      BY <1>1, <3>1, <3>2, <3>3 DEF Types
  <2>4. QED
    BY <2>1, <2>2, <2>3
<1>5. LockOwner'
  BY NoneAssumption DEF Lock, Latch, Increment, Unlock, Goto, Types, LockOwner
<1>6. CallsProgress'
  BY <1>1, <1>2 DEF Types, CallsProgress, CallProgress, Creating, Numbered
<1>7. AllDated'
  BY <1>1, <1>2 DEF Types, AllDated, Dated, Numbered
<1>8. Numbers'
  <2>1. CASE Lock(t)
    BY <2>1, QuietStep DEF Lock, Goto, Numbered
  <2>2. CASE Unlock(t)
    BY <2>2, QuietStep DEF Unlock, Goto, Numbered
  <2>3. QED
    BY <2>1, <2>2, LatchNumbers, IncrementNumbers
<1>9. QED
  BY <1>3, <1>4, <1>5, <1>6, <1>7, <1>8

LEMMA CreateSimInv ==
  ASSUME SimInv, NEW t \in Threads, Create(t)
  PROVE  SimInv'
<1> USE DEF SimInv
<1>1. PICK id \in ImageIds :
        /\ id.number = latchedId[t]
        /\ turn[t] \in 1..latches
        /\ done' = [done EXCEPT ![t] = ImageCreated(id)]
        /\ effects' = effects \cup {ImageCreated(id)}
        /\ created' = created \cup {[turn |-> turn[t], id |-> id]}
  BY CreateMakesId
<1>2. /\ pc[t] = "create" /\ pc' = [pc EXCEPT ![t] = "return"]
      /\ UNCHANGED <<call, reply, today, time, tm, date, lock, nextId, latchedId, turn, latches,
                     started>>
  BY DEF Create, Goto, dateVars, idVars
<1>3. TypeOK'
  BY <1>1, <1>2 DEF TypeOK, Effects
<1>4. Types'
  BY <1>1, <1>2 DEF Types, Labels
<1>5. LockOwner'
  BY <1>2 DEF Types, LockOwner
<1>6. CallsProgress'
  BY <1>1, <1>2 DEF TypeOK, Types, CallsProgress, CallProgress, Creating, Numbered
<1>7. AllDated'
  BY <1>2 DEF Types, AllDated, Dated, Numbered
<1>8. QED
  BY <1>3, <1>4, <1>5, <1>6, <1>7, CreateNumbers

LEMMA SetSimInv ==
  ASSUME SimInv, NEW t \in Threads, Set(t)
  PROVE  SimInv'
<1> USE DEF SimInv
<1>1. /\ pc[t] = "setting" /\ pc' = [pc EXCEPT ![t] = "return"]
      /\ UNCHANGED <<call, reply, today, time, tm, date, lock, nextId, latchedId, turn, latches,
                     started, created>>
  BY DEF Set, Goto, dateVars, idVars, TakeEffect, adapterVars
<1>2. call[t] \in SetterCalls /\ call[t] # CreateImageCall
  BY <1>1 DEF CallsProgress, CallProgress, SetterCalls, CreateImageCall, LifetimeCall,
              ContribCall, KeywordsCall
<1>3. /\ TypeOK'
      /\ \A u \in Threads : u # t => done'[u] = done[u]
  <2>1. CASE TakeEffect(t)
    <3>1. PICK e \in EffectsOf(call[t]) :
            done' = [done EXCEPT ![t] = e] /\ effects' = effects \cup {e}
      BY <2>1 DEF TakeEffect
    <3>2. e \in Effects
      BY <1>2, <3>1, EffectKinds DEF Calls
    <3>3. QED
      BY <1>1, <3>1, <3>2 DEF TypeOK
  <2>2. CASE UNCHANGED adapterVars
    BY <2>2 DEF TypeOK, adapterVars
  <2>3. QED
    BY <2>1, <2>2 DEF Set
<1>4. Types'
  BY <1>1 DEF Types, Labels
<1>5. LockOwner'
  BY <1>1 DEF Types, LockOwner
<1>6. CallsProgress'
  BY <1>1, <1>2, <1>3 DEF TypeOK, Types, CallsProgress, CallProgress, Creating, Numbered
<1>7. AllDated'
  BY <1>1 DEF Types, AllDated, Dated, Numbered
<1>8. Numbers'
  BY <1>1, QuietStep DEF Numbered
<1>9. QED
  BY <1>3, <1>4, <1>5, <1>6, <1>7, <1>8

LEMMA ReturnSimInv ==
  ASSUME SimInv, NEW t \in Threads, Return(t)
  PROVE  SimInv'
<1> USE DEF SimInv
<1> DEFINE given == IF call[t] = CreateImageCall THEN done[t].id ELSE None
<1>1. /\ pc[t] = "return" /\ pc' = [pc EXCEPT ![t] = "returned"]
      /\ reply' = [reply EXCEPT ![t] = Reply(Status(call[t]), given)]
      /\ UNCHANGED <<call, done, effects, today, time, tm, date, lock, nextId, latchedId, turn,
                     latches, started, created>>
  BY DEF Return, Goto, dateVars, idVars
<1>2. given \in ImageIds \cup {None}
  <2>1. CASE call[t] = CreateImageCall
    <3>1. PICK id \in ImageIds : done[t] = ImageCreated(id)
      BY <1>1, <2>1 DEF CallsProgress, CallProgress
    <3>2. QED
      BY <2>1, <3>1 DEF ImageCreated
  <2>2. QED
    BY <2>1
<1> HIDE DEF given
<1>3. Reply(Status(call[t]), given) \in Replies
  BY <1>2 DEF Reply, Replies, Status
<1>4. TypeOK'
  BY <1>1, <1>3 DEF TypeOK
<1>5. Types'
  BY <1>1 DEF Types, Labels
<1>6. LockOwner'
  BY <1>1 DEF Types, LockOwner
<1>7. CallsProgress'
  BY <1>1 DEF Types, CallsProgress, CallProgress, Creating, Numbered
<1>8. AllDated'
  BY <1>1 DEF Types, AllDated, Dated, Numbered
<1>9. Numbers'
  BY <1>1, QuietStep DEF Numbered
<1>10. QED
  BY <1>4, <1>5, <1>6, <1>7, <1>8, <1>9

LEMMA ResumeSimInv ==
  ASSUME SimInv, NEW t \in Threads, Resume(t)
  PROVE  SimInv'
<1> USE DEF SimInv
<1>1. /\ pc[t] = "returned" /\ pc' = [pc EXCEPT ![t] = "idle"]
      /\ call' = [call EXCEPT ![t] = None]
      /\ done' = [done EXCEPT ![t] = None]
      /\ reply' = [reply EXCEPT ![t] = None]
      /\ time' = [time EXCEPT ![t] = 0]
      /\ date' = [date EXCEPT ![t] = [mon |-> 0, mday |-> 0]]
      /\ latchedId' = [latchedId EXCEPT ![t] = 0]
      /\ turn' = [turn EXCEPT ![t] = 0]
      /\ UNCHANGED <<effects, today, tm, lock, nextId, latches, started, created>>
  BY DEF Resume, Goto, Collect
<1>2. TypeOK'
  BY <1>1 DEF TypeOK
<1>3. Types'
  <2>1. pc' \in [Threads -> Labels] /\ time' \in [Threads -> DOMAIN Calendar \cup {0}]
    BY <1>1 DEF Types, Labels
  <2>2. date' \in [Threads -> [mon : Nat, mday : Nat]]
    BY <1>1 DEF Types
  <2>3. latchedId' \in [Threads -> 0..(MAX_IMAGE_ID - 1)] /\ turn' \in [Threads -> 0..latches]
    <3>1. latches \in Nat /\ 0 \in 0..latches /\ 0 \in 0..(MAX_IMAGE_ID - 1)
      BY CounterSize DEF Types
    <3>2. QED
      BY <1>1, <3>1 DEF Types
  <2>4. QED
    BY <1>1, <2>1, <2>2, <2>3 DEF Types
<1>4. LockOwner'
  BY <1>1 DEF Types, LockOwner
<1>5. CallsProgress'
  BY <1>1 DEF TypeOK, Types, CallsProgress, CallProgress, Creating, Numbered
<1>6. AllDated'
  BY <1>1 DEF Types, AllDated, Dated, Numbered
<1>7. Numbers'
  <2>1. \A u \in Threads : u # t => turn'[u] = turn[u] /\ latchedId'[u] = latchedId[u]
    BY <1>1 DEF Types
  <2>2. /\ pc' = [pc EXCEPT ![t] = "idle"] /\ pc[t] # "increment"
        /\ UNCHANGED <<nextId, latches, started, created>>
    BY <1>1
  <2>3. "idle" \notin Numbered /\ "idle" # "increment"
    BY DEF Numbered
  <2>4. QED
    BY <2>1, <2>2, <2>3, QuietStep
<1>8. QED
  BY <1>2, <1>3, <1>4, <1>5, <1>6, <1>7

\* Steps that change nothing but perhaps the date.
LEMMA TickSimInv ==
  ASSUME SimInv, Tick \/ UNCHANGED vars
  PROVE  SimInv'
<1> USE DEF SimInv
<1>1. UNCHANGED <<call, done, reply, effects, pc, time, tm, date, lock, nextId, latchedId,
                  turn, latches, started, created>>
  BY DEF Tick, vars, adapterVars, dateVars, idVars
<1>2. today' \in DOMAIN Calendar
  BY SimAssumption DEF Tick, vars, Types
<1>3. TypeOK' /\ Types'
  BY <1>1, <1>2 DEF TypeOK, Types
<1>4. LockOwner' /\ CallsProgress' /\ AllDated'
  BY <1>1 DEF LockOwner, CallsProgress, CallProgress, AllDated, Dated
<1>5. Upcoming' = Upcoming /\ \A k, n : Held(k, n)' => Held(k, n)
  BY <1>1 DEF Upcoming, Successor, Held
<1>6. QED
  BY <1>1, <1>3, <1>4, <1>5, NumbersKept

\* After a restart no number is held that was taken since.
LEMMA RestartSimInv ==
  ASSUME SimInv, Restart
  PROVE  SimInv'
<1> USE DEF SimInv
<1>1. /\ \A t \in Threads : pc'[t] = "idle" /\ call'[t] = None /\ done'[t] = None
      /\ lock' = None /\ started' = latches + 1 /\ UNCHANGED <<latches, created>>
  BY DEF Restart
<1>2. TypeOK'
  BY DEF Restart, TypeOK
<1>3. Types'
  <2>1. pc' \in [Threads -> Labels] /\ time' \in [Threads -> DOMAIN Calendar \cup {0}]
    BY DEF Restart, Labels
  <2>2. tm' \in [mon : Nat, mday : Nat] /\ date' \in [Threads -> [mon : Nat, mday : Nat]]
    BY DEF Restart
  <2>3. /\ latches \in Nat /\ latches + 1 \in 1..(latches + 1)
        /\ 0 \in 0..latches /\ 0 \in 0..(MAX_IMAGE_ID - 1) /\ 1 \in 1..(MAX_IMAGE_ID - 1)
    BY CounterSize DEF Types
  <2>4. /\ latchedId' \in [Threads -> 0..(MAX_IMAGE_ID - 1)]
        /\ turn' \in [Threads -> 0..latches]
        /\ nextId' \in 1..(MAX_IMAGE_ID - 1)
    BY <2>3 DEF Restart
  <2>5. QED
    BY <1>1, <2>1, <2>2, <2>3, <2>4 DEF Restart, Types
<1>4. LockOwner'
  BY <1>1, NoneAssumption DEF LockOwner
<1>5. CallsProgress' /\ AllDated'
  BY <1>1 DEF CallsProgress, CallProgress, Creating, AllDated, Dated, Numbered
<1>6. Numbers'
  <2>1. ASSUME NEW k, NEW n
        PROVE  ~ Held(k, n)'
    <3>1. \A c \in created : c.turn \in 1..latches /\ latches \in Nat
      BY DEF Types
    <3>2. \A c \in created' : ~ (started' <= c.turn)
      BY <1>1, <3>1
    <3>3. \A t \in Threads : pc'[t] \notin Numbered
      BY <1>1 DEF Numbered
    <3>4. QED
      BY <3>2, <3>3 DEF Held
  <2>2. QED
    BY <2>1 DEF Numbers
<1>7. QED
  BY <1>2, <1>3, <1>4, <1>5, <1>6

LEMMA StepSimInv == SimInv /\ [SimNext \/ Restart]_vars => SimInv'
BY RestartSimInv, EnterSimInv, DateSimInv, MutexSimInv, CreateSimInv, SetSimInv, ReturnSimInv, ResumeSimInv,
   TickSimInv DEF SimNext, CreateImageStep

-----------------------------------------------------------------------------

\* Type correctness of the simulator, however often it is started again.
THEOREM SimTypes == SimSpec => []SimTypeOK
<1>1. SimInv => SimTypeOK
  BY DEF SimInv, Types, SimTypeOK
<1>2. QED
  BY <1>1, InitSimInv, StepSimInv, PTL DEF SimSpec

\* Two images made since the server was last started have the same id only if
\* the counter went all the way round between them, whatever the threads that
\* use it do between taking a number and making an id of it, and whatever they
\* were doing when the server stopped (DhsAdapterSim.cpp:45-68).
THEOREM NumbersComeRound == SimSpec => []NoEarlyReuse
<1>1. SimInv => NoEarlyReuse
  <2> SUFFICES ASSUME SimInv, NEW a \in created, NEW b \in created,
                      started <= a.turn, a.id = b.id, a.turn < b.turn
               PROVE  b.turn - a.turn >= MAX_IMAGE_ID - 1
    BY DEF NoEarlyReuse
  <2>1. a.turn \in Nat /\ b.turn \in Nat /\ started \in Nat
    BY DEF SimInv, Types
  <2>2. started <= b.turn
    BY <2>1
  <2>3. Held(a.turn, a.id.number) /\ Held(b.turn, a.id.number)
    BY <2>2 DEF Held
  <2>4. QED
    BY <2>3 DEF SimInv, Numbers
<1>2. QED
  BY <1>1, InitSimInv, StepSimInv, PTL DEF SimSpec

-----------------------------------------------------------------------------
\* What it takes for the simulator to do only what the interface allows.

\* A call is answered when its thread gets the reply, after its effect.
Answered ==
    \A t \in Threads :
        /\ reply[t] # None <=> pc[t] = "returned"
        /\ pc[t] = "return" /\ NeedsDhs(call[t]) => done[t] # None

\* The image of every id the simulator gave is among those it made.
Recorded == \A id : ImageCreated(id) \in effects => \E c \in created : c.id = id

\* No two numbers taken are one and the same.
Turns ==
    /\ \A t \in Threads : pc[t] \in Numbered =>
        /\ \A c \in created : c.turn # turn[t]
        /\ \A u \in Threads : u # t /\ pc[u] \in Numbered => turn[u] # turn[t]
    /\ \A a, b \in created : a.turn = b.turn => a = b

ConformInv == SimInv /\ Answered /\ Recorded /\ Turns

LEMMA ReturnReplies ==
  ASSUME SimInv, NEW t \in Threads, Return(t)
  PROVE  \E id \in ImageIds \cup {None} :
            /\ Reply(Status(call[t]), id) \in Replies
            /\ reply' = [reply EXCEPT ![t] = Reply(Status(call[t]), id)]
            /\ id = IF call[t] = CreateImageCall THEN done[t].id ELSE None
<1> DEFINE given == IF call[t] = CreateImageCall THEN done[t].id ELSE None
<1>1. pc[t] = "return" /\ reply' = [reply EXCEPT ![t] = Reply(Status(call[t]), given)]
  BY DEF Return, Goto
<1>2. given \in ImageIds \cup {None}
  <2>1. CASE call[t] = CreateImageCall
    <3>1. PICK id \in ImageIds : done[t] = ImageCreated(id)
      BY <1>1, <2>1 DEF SimInv, CallsProgress, CallProgress
    <3>2. QED
      BY <2>1, <3>1 DEF ImageCreated
  <2>2. QED
    BY <2>1
<1>3. given = IF call[t] = CreateImageCall THEN done[t].id ELSE None
  OBVIOUS
<1> HIDE DEF given
<1>4. Reply(Status(call[t]), given) \in Replies
  BY <1>2 DEF Reply, Replies, Status
<1>5. QED
  BY <1>1, <1>2, <1>3, <1>4

\* An id is new as long as the counter has not gone all the way round and was
\* not started again.
LEMMA NewId ==
  ASSUME ConformInv, NEW t \in Threads, Create(t), started = 1, latches < MAX_IMAGE_ID,
         NEW id \in ImageIds, id.number = latchedId[t]
  PROVE  ImageCreated(id) \notin effects
<1> SUFFICES ASSUME ImageCreated(id) \in effects PROVE FALSE
  OBVIOUS
<1>1. PICK c \in created : c.id = id
  BY DEF ConformInv, Recorded
<1>2. pc[t] \in Numbered
  BY DEF Create, Goto, Numbered
<1>3. Held(turn[t], id.number) /\ Held(c.turn, id.number)
  <2>1. c.turn \in 1..latches /\ latches \in Nat
    BY DEF ConformInv, SimInv, Types
  <2>2. started <= c.turn
    BY <2>1
  <2>3. QED
    BY <1>1, <1>2, <2>2 DEF Held
<1>4. turn[t] \in 1..latches /\ c.turn \in 1..latches /\ c.turn # turn[t]
  BY <1>2, <1>3 DEF ConformInv, SimInv, Numbers, Turns
<1>5. latches \in Nat /\ MAX_IMAGE_ID \in Nat
  BY CounterSize DEF ConformInv, SimInv, Types
<1>6. ASSUME NEW k \in 1..latches, NEW l \in 1..latches,
             Held(k, id.number), Held(l, id.number), k < l
      PROVE  FALSE
  <2>1. l - k >= MAX_IMAGE_ID - 1
    BY <1>6 DEF ConformInv, SimInv, Numbers
  <2>2. QED
    BY <1>5, <1>6, <2>1
<1>7. ~ (c.turn < turn[t]) /\ ~ (turn[t] < c.turn)
  BY <1>3, <1>4, <1>6
<1>8. QED
  BY <1>4, <1>5, <1>7

LEMMA InitConform == SimInit => ConformInv
<1> SUFFICES ASSUME SimInit PROVE ConformInv
  OBVIOUS
<1>1. SimInv
  BY InitSimInv
<1>2. Answered /\ Recorded /\ Turns
  BY DEF SimInit, Init, Answered, Recorded, Turns, Numbered
<1>3. QED
  BY <1>1, <1>2 DEF ConformInv

\* The steps that take no number and answer nobody.
LEMMA QuietConform ==
  ASSUME ConformInv, NEW t \in Threads, NEW to,
         pc' = [pc EXCEPT ![t] = to],
         pc[t] # "returned", to \notin {"return", "returned"},
         to \in Numbered => pc[t] \in Numbered,
         UNCHANGED <<call, done, reply, effects, turn, created>>
  PROVE  Answered' /\ Recorded' /\ Turns'
<1>1. \A u \in Threads : pc'[u] = IF u = t THEN to ELSE pc[u]
  BY DEF ConformInv, SimInv, Types
<1>2. Answered'
  BY <1>1 DEF ConformInv, Answered
<1>3. Recorded'
  BY DEF ConformInv, Recorded
<1>4. Turns'
  BY <1>1 DEF ConformInv, Turns
<1>5. QED
  BY <1>2, <1>3, <1>4

LEMMA EnterConform ==
  ASSUME ConformInv, NEW t \in Threads, NEW c \in Calls, Enter(t, c)
  PROVE  Answered' /\ Recorded' /\ Turns'
<1>1. PICK to \in {"time", "setting"} : pc[t] = "idle" /\ pc' = [pc EXCEPT ![t] = to]
  BY DEF Enter, Goto
<1>2. /\ call' = [call EXCEPT ![t] = c]
      /\ UNCHANGED <<done, reply, effects, turn, created>>
  BY DEF Enter, Invoke, idVars
<1>3. \A u \in Threads : /\ pc'[u] = IF u = t THEN to ELSE pc[u]
                         /\ u # t => call'[u] = call[u]
  BY <1>1, <1>2 DEF ConformInv, SimInv, Types, TypeOK
<1>4. Answered'
  BY <1>1, <1>2, <1>3 DEF ConformInv, Answered
<1>5. Recorded'
  BY <1>2 DEF ConformInv, Recorded
<1>6. Turns'
  BY <1>1, <1>2, <1>3 DEF ConformInv, Turns, Numbered
<1>7. QED
  BY <1>4, <1>5, <1>6

LEMMA DateConform ==
  ASSUME ConformInv, NEW t \in Threads,
         ReadTime(t) \/ StoreFirst(t) \/ StoreSecond(t) \/ FormatMonth(t) \/ FormatDay(t)
  PROVE  Answered' /\ Recorded' /\ Turns'
<1>1. UNCHANGED <<call, done, reply, effects, turn, created>>
  BY DEF ReadTime, StoreFirst, StoreSecond, Store, FormatMonth, FormatDay, adapterVars, idVars
<1>2. PICK to \in {"localtime", "storeMonth", "storeDay", "lock", "formatDay", "create"} :
        /\ pc' = [pc EXCEPT ![t] = to]
        /\ pc[t] \in {"time", "localtime", "storeMonth", "storeDay", "formatMonth", "formatDay"}
        /\ to \in {"formatDay", "create"} <=> pc[t] \in {"formatMonth", "formatDay"}
  BY DEF ReadTime, StoreFirst, StoreSecond, FormatMonth, FormatDay, Goto
<1>3. QED
  BY <1>1, <1>2, QuietConform DEF Numbered

\* The number a thread takes is nobody else's.
LEMMA LatchConform ==
  ASSUME ConformInv, NEW t \in Threads, Latch(t)
  PROVE  Answered' /\ Recorded' /\ Turns'
<1>1. /\ pc[t] = "latch" /\ \A u \in Threads : pc'[u] = IF u = t THEN "increment" ELSE pc[u]
      /\ \A u \in Threads : turn'[u] = IF u = t THEN latches + 1 ELSE turn[u]
      /\ UNCHANGED <<call, done, reply, effects, created>>
  BY DEF Latch, Goto, ConformInv, SimInv, Types, adapterVars
<1>2. Answered'
  BY <1>1 DEF ConformInv, Answered
<1>3. Recorded'
  BY <1>1 DEF ConformInv, Recorded
<1>4. /\ latches \in Nat
      /\ \A c \in created : c.turn \in 1..latches
      /\ \A u \in Threads : turn[u] \in 0..latches
  BY DEF ConformInv, SimInv, Types
<1>5. Turns'
  <2>1. \A c \in created : c.turn # latches + 1
    BY <1>4
  <2>2. ASSUME NEW u \in Threads PROVE turn[u] # latches + 1
    <3>1. turn[u] \in 0..latches /\ latches \in Nat
      BY <1>4
    <3>2. QED
      BY <3>1
  <2>3. QED
    BY <1>1, <2>1, <2>2 DEF ConformInv, Turns
<1>6. QED
  BY <1>2, <1>3, <1>5

LEMMA MutexConform ==
  ASSUME ConformInv, NEW t \in Threads, Lock(t) \/ Increment(t) \/ Unlock(t)
  PROVE  Answered' /\ Recorded' /\ Turns'
<1>1. UNCHANGED <<call, done, reply, effects, turn, created>>
  BY DEF Lock, Increment, Unlock, adapterVars
<1>2. PICK to \in {"latch", "unlock", "formatMonth"} :
        /\ pc' = [pc EXCEPT ![t] = to]
        /\ pc[t] \in {"lock", "increment", "unlock"}
        /\ to = "latch" <=> pc[t] = "lock"
  BY DEF Lock, Increment, Unlock, Goto
<1>3. QED
  BY <1>1, <1>2, QuietConform DEF Numbered

LEMMA CreateConform ==
  ASSUME ConformInv, NEW t \in Threads, Create(t)
  PROVE  Answered' /\ Recorded' /\ Turns'
<1>1. PICK id \in ImageIds :
        /\ done' = [done EXCEPT ![t] = ImageCreated(id)]
        /\ effects' = effects \cup {ImageCreated(id)}
        /\ created' = created \cup {[turn |-> turn[t], id |-> id]}
  BY CreateMakesId DEF ConformInv
<1>2. /\ pc[t] = "create" /\ \A u \in Threads : pc'[u] = IF u = t THEN "return" ELSE pc[u]
      /\ UNCHANGED <<call, reply, turn>>
  BY DEF Create, Goto, idVars, ConformInv, SimInv, Types
<1>3. Answered'
  <2>1. ImageCreated(id) # None
    BY NoneAssumption DEF Effects
  <2>2. \A u \in Threads : done'[u] = IF u = t THEN ImageCreated(id) ELSE done[u]
    BY <1>1 DEF ConformInv, SimInv, TypeOK
  <2>3. QED
    BY <1>2, <2>1, <2>2 DEF ConformInv, Answered
<1>4. Recorded'
  <2> SUFFICES ASSUME NEW i, ImageCreated(i) \in effects'
               PROVE  \E c \in created' : c.id = i
    BY DEF Recorded
  <2>1. ImageCreated(i) \in effects \/ i = id
    BY <1>1 DEF ImageCreated
  <2>2. CASE ImageCreated(i) \in effects
    BY <1>1, <2>2 DEF ConformInv, Recorded
  <2>3. CASE i = id
    <3>1. [turn |-> turn[t], id |-> id] \in created'
      BY <1>1
    <3>2. [turn |-> turn[t], id |-> id].id = i
      BY <2>3
    <3>3. QED
      BY <3>1, <3>2
  <2>4. QED
    BY <2>1, <2>2, <2>3
<1>5. Turns'
  <2>1. /\ \A u \in Threads : u # t /\ pc[u] \in Numbered => turn[u] # turn[t]
        /\ \A c \in created : c.turn # turn[t]
    BY <1>2 DEF ConformInv, Turns, Numbered
  <2>2. PICK made : made.turn = turn[t] /\ created' = created \cup {made}
    BY <1>1
  <2>3. \A a, b \in created' : a.turn = b.turn => a = b
    BY <2>1, <2>2 DEF ConformInv, Turns
  <2>4. QED
    BY <1>2, <2>1, <2>2, <2>3 DEF ConformInv, Turns, Numbered
<1>6. QED
  BY <1>3, <1>4, <1>5

LEMMA SetConform ==
  ASSUME ConformInv, NEW t \in Threads, Set(t)
  PROVE  Answered' /\ Recorded' /\ Turns'
<1>1. /\ pc[t] = "setting" /\ \A u \in Threads : pc'[u] = IF u = t THEN "return" ELSE pc[u]
      /\ UNCHANGED <<call, reply, turn, created>>
  BY DEF Set, Goto, idVars, TakeEffect, adapterVars, ConformInv, SimInv, Types
<1>2. call[t] \in SetterCalls /\ call[t] \in Calls /\ call[t].op # "createImage"
  BY <1>1 DEF ConformInv, SimInv, CallsProgress, CallProgress, Calls, SetterCalls, LifetimeCall,
              ContribCall, KeywordsCall
<1>3. /\ \A u \in Threads : u # t => done'[u] = done[u]
      /\ NeedsDhs(call[t]) => done'[t] # None
      /\ effects' \subseteq effects \cup {call[t]}
  <2>1. ASSUME NeedsDhs(call[t])
        PROVE  /\ \A u \in Threads : u # t => done'[u] = done[u]
               /\ done'[t] # None
               /\ effects' \subseteq effects \cup {call[t]}
    <3>1. done' = [done EXCEPT ![t] = call[t]] /\ effects' = effects \cup {call[t]}
      BY <1>2, <2>1 DEF Set, TakeEffect, EffectsOf
    <3>2. call[t] # None
      BY <1>2, NoneAssumption
    <3>3. QED
      BY <3>1, <3>2 DEF ConformInv, SimInv, TypeOK
  <2>2. CASE ~ NeedsDhs(call[t])
    BY <2>2 DEF Set, adapterVars
  <2>3. QED
    BY <2>1, <2>2
<1>4. Answered'
  BY <1>1, <1>3 DEF ConformInv, Answered
<1>5. Recorded'
  <2>1. \A i : ImageCreated(i) # call[t]
    BY <1>2 DEF ImageCreated
  <2>2. QED
    BY <1>1, <1>3, <2>1 DEF ConformInv, Recorded
<1>6. Turns'
  BY <1>1 DEF ConformInv, Turns, Numbered
<1>7. QED
  BY <1>4, <1>5, <1>6

LEMMA ReturnConform ==
  ASSUME ConformInv, NEW t \in Threads, Return(t)
  PROVE  Answered' /\ Recorded' /\ Turns'
<1>1. PICK r \in Replies : reply' = [reply EXCEPT ![t] = r]
  BY ReturnReplies DEF ConformInv
<1>2. /\ pc[t] = "return" /\ \A u \in Threads : pc'[u] = IF u = t THEN "returned" ELSE pc[u]
      /\ UNCHANGED <<call, done, effects, turn, created>>
  BY DEF Return, Goto, idVars, ConformInv, SimInv, Types
<1>3. r # None /\ \A u \in Threads : reply'[u] = IF u = t THEN r ELSE reply[u]
  BY <1>1, NoneAssumption DEF ConformInv, SimInv, TypeOK
<1>4. Answered'
  BY <1>2, <1>3 DEF ConformInv, Answered
<1>5. Recorded'
  BY <1>2 DEF ConformInv, Recorded
<1>6. Turns'
  BY <1>2 DEF ConformInv, Turns, Numbered
<1>7. QED
  BY <1>4, <1>5, <1>6

LEMMA ResumeConform ==
  ASSUME ConformInv, NEW t \in Threads, Resume(t)
  PROVE  Answered' /\ Recorded' /\ Turns'
<1>1. /\ pc[t] = "returned" /\ \A u \in Threads : pc'[u] = IF u = t THEN "idle" ELSE pc[u]
      /\ \A u \in Threads : reply'[u] = IF u = t THEN None ELSE reply[u]
      /\ \A u \in Threads : u # t => call'[u] = call[u] /\ done'[u] = done[u]
      /\ \A u \in Threads : u # t => turn'[u] = turn[u]
      /\ UNCHANGED <<effects, created>>
  BY DEF Resume, Goto, Collect, ConformInv, SimInv, Types, TypeOK
<1>2. Answered'
  BY <1>1 DEF ConformInv, Answered
<1>3. Recorded'
  BY <1>1 DEF ConformInv, Recorded
<1>4. Turns'
  BY <1>1 DEF ConformInv, Turns, Numbered
<1>5. QED
  BY <1>2, <1>3, <1>4

LEMMA RestartConform ==
  ASSUME ConformInv, Restart
  PROVE  Answered' /\ Recorded' /\ Turns'
<1>1. /\ \A t \in Threads : pc'[t] = "idle" /\ reply'[t] = None
      /\ UNCHANGED <<effects, created>>
  BY DEF Restart
<1>2. QED
  BY <1>1 DEF ConformInv, Answered, Recorded, Turns, Numbered

LEMMA StepConform == ConformInv /\ [SimNext \/ Restart]_vars => ConformInv'
<1> SUFFICES ASSUME ConformInv, [SimNext \/ Restart]_vars PROVE ConformInv'
  OBVIOUS
<1>1. SimInv'
  BY StepSimInv DEF ConformInv
<1>2. CASE Tick \/ UNCHANGED vars
  <2>1. UNCHANGED <<call, done, reply, effects, pc, turn, created>>
    BY <1>2 DEF Tick, vars, adapterVars, idVars
  <2>2. QED
    BY <1>1, <2>1 DEF ConformInv, Answered, Recorded, Turns
<1>3. CASE Restart
  BY <1>1, <1>3, RestartConform DEF ConformInv
<1>4. CASE ~ (Tick \/ UNCHANGED vars \/ Restart)
  <2>1. PICK t \in Threads :
          (\E c \in Calls : Enter(t, c)) \/ CreateImageStep(t) \/ Set(t) \/ Return(t) \/ Resume(t)
    BY <1>4 DEF SimNext
  <2>2. Answered' /\ Recorded' /\ Turns'
    BY <2>1, EnterConform, DateConform, LatchConform, MutexConform, CreateConform, SetConform,
       ReturnConform, ResumeConform DEF CreateImageStep
  <2>3. QED
    BY <1>1, <2>2 DEF ConformInv
<1>5. QED
  BY <1>2, <1>3, <1>4

\* As documented (IDhsAdapter.h:136), the ids are unique, as long as the server
\* is not started again and has made fewer images than there are numbers.
THEOREM UniqueInFirstRound ==
  SimSpec => [](started = 1 /\ latches < MAX_IMAGE_ID => UniqueIds)
<1>1. ConformInv => (started = 1 /\ latches < MAX_IMAGE_ID => UniqueIds)
  <2> SUFFICES ASSUME ConformInv, started = 1, latches < MAX_IMAGE_ID,
                      NEW a \in created, NEW b \in created, a.id = b.id
               PROVE  a = b
    BY DEF UniqueIds
  <2>1. a.turn \in 1..latches /\ b.turn \in 1..latches /\ latches \in Nat
    BY DEF ConformInv, SimInv, Types
  <2>2. Held(a.turn, a.id.number) /\ Held(b.turn, a.id.number)
    BY <2>1 DEF Held
  <2>3. ASSUME NEW k \in 1..latches, NEW l \in 1..latches,
               Held(k, a.id.number), Held(l, a.id.number), k < l
        PROVE  FALSE
    <3>1. l - k >= MAX_IMAGE_ID - 1
      BY <2>3 DEF ConformInv, SimInv, Numbers
    <3>2. QED
      BY <2>1, <2>3, <3>1, CounterSize
  <2>4. ~ (a.turn < b.turn) /\ ~ (b.turn < a.turn)
    BY <2>1, <2>2, <2>3
  <2>5. QED
    BY <2>1, <2>4 DEF ConformInv, Turns
<1>2. QED
  BY <1>1, InitConform, StepConform, PTL DEF SimSpec

-----------------------------------------------------------------------------
\* Every step is one of the interface, or changes nothing of it.

LEMMA CreateImplements ==
  ASSUME ConformInv, NEW t \in Threads, Create(t), started = 1, latches < MAX_IMAGE_ID
  PROVE  TakeEffect(t)
<1>1. PICK id \in ImageIds :
        /\ id.number = latchedId[t]
        /\ done' = [done EXCEPT ![t] = ImageCreated(id)]
        /\ effects' = effects \cup {ImageCreated(id)}
  BY CreateMakesId DEF ConformInv
<1>2. pc[t] = "create" /\ UNCHANGED <<call, reply>>
  BY DEF Create, Goto
<1>3. call[t] = CreateImageCall /\ call[t] # None /\ done[t] = None
  BY <1>2 DEF ConformInv, SimInv, CallsProgress, CallProgress, Creating, Numbered
<1>4. reply[t] = None
  BY <1>2 DEF ConformInv, Answered
<1>5. ImageCreated(id) \in EffectsOf(call[t])
  BY <1>1, <1>3, NewId DEF EffectsOf, CreateImageCall
<1>6. NeedsDhs(call[t])
  BY <1>3 DEF NeedsDhs, CreateImageCall
<1>7. QED
  BY <1>1, <1>2, <1>3, <1>4, <1>5, <1>6 DEF TakeEffect

LEMMA ReturnImplements ==
  ASSUME ConformInv, NEW t \in Threads, Return(t)
  PROVE  Succeed(t) \/ Fail(t)
<1>1. PICK id \in ImageIds \cup {None} :
        /\ reply' = [reply EXCEPT ![t] = Reply(Status(call[t]), id)]
        /\ id = IF call[t] = CreateImageCall THEN done[t].id ELSE None
  BY ReturnReplies DEF ConformInv
<1>2. pc[t] = "return" /\ UNCHANGED <<call, done, effects>>
  BY DEF Return, Goto
<1>3. call[t] # None
  BY <1>2 DEF ConformInv, SimInv, CallsProgress, CallProgress
<1>4. reply[t] = None /\ (NeedsDhs(call[t]) => done[t] # None)
  BY <1>2 DEF ConformInv, Answered
<1>5. CASE Status(call[t]) = "success"
  BY <1>1, <1>2, <1>3, <1>4, <1>5 DEF Succeed
<1>6. CASE Status(call[t]) # "success"
  <2>1. Status(call[t]) = "error" /\ call[t] # CreateImageCall
    BY <1>6 DEF Status, CreateImageCall
  <2>2. QED
    BY <1>1, <1>2, <1>3, <1>4, <2>1 DEF Fail
<1>7. QED
  BY <1>5, <1>6

LEMMA OtherStepsImplement ==
  ASSUME ConformInv, [SimNext]_vars, \A t \in Threads : ~ Create(t)
  PROVE  [Next]_adapterVars
<1>1. CASE Tick \/ UNCHANGED vars
  BY <1>1 DEF Tick, vars
<1>2. ASSUME NEW t \in Threads, NEW c \in Calls, Enter(t, c)
      PROVE  Next
  BY <1>2 DEF Enter, Next
<1>3. ASSUME NEW t \in Threads, CreateImageStep(t)
      PROVE  UNCHANGED adapterVars
  BY <1>3 DEF CreateImageStep, ReadTime, StoreFirst, StoreSecond, Store, Lock, Latch, Increment,
              Unlock, FormatMonth, FormatDay
<1>4. ASSUME NEW t \in Threads, Set(t)
      PROVE  Next \/ UNCHANGED adapterVars
  BY <1>4 DEF Set, Next
<1>5. ASSUME NEW t \in Threads, Return(t)
      PROVE  Next
  BY <1>5, ReturnImplements DEF Next
<1>6. ASSUME NEW t \in Threads, Resume(t)
      PROVE  Next
  <2>1. pc[t] = "returned" /\ Collect(t)
    BY <1>6 DEF Resume, Goto
  <2>2. QED
    BY <2>1 DEF Next
<1>7. QED
  BY <1>1, <1>2, <1>3, <1>4, <1>5, <1>6 DEF SimNext

LEMMA StepImplements ==
  ASSUME ConformInv, [SimNext]_vars, started' = 1, latches' < MAX_IMAGE_ID
  PROVE  [Next]_adapterVars
<1>1. ASSUME NEW t \in Threads, Create(t)
      PROVE  Next
  <2>1. started = 1 /\ latches < MAX_IMAGE_ID
    BY <1>1 DEF Create, idVars
  <2>2. QED
    BY <1>1, <2>1, CreateImplements DEF Next
<1>2. QED
  BY <1>1, OtherStepsImplement

\* The simulator implements the interface of the adapters, new ids included, as
\* long as the counter has not gone all the way round and the server has not
\* been started again (DhsAdapterSim.cpp:45-68).
THEOREM SimImplementsInterface == SimSpec => ImplementsInterface
<1>1. SimInit => Init
  BY DEF SimInit
<1>2. ConformInv /\ [SimNext \/ Restart]_vars =>
        [started' = 1 /\ latches' < MAX_IMAGE_ID /\ ~ Restart => Next]_adapterVars
  BY StepImplements
<1>3. QED
  BY <1>1, <1>2, InitConform, StepConform, PTL DEF SimSpec, ImplementsInterface

-----------------------------------------------------------------------------
\* Ids that come back, and restarts, do not take from what success means.

\* The id need not be a new one.
LEMMA CreateInterfaceInv ==
  ASSUME ConformInv, InterfaceInv, NEW t \in Threads, Create(t)
  PROVE  InterfaceInv'
<1>1. PICK id \in ImageIds :
        /\ done' = [done EXCEPT ![t] = ImageCreated(id)]
        /\ effects' = effects \cup {ImageCreated(id)}
  BY CreateMakesId DEF ConformInv
<1>2. pc[t] = "create" /\ UNCHANGED <<call, reply>>
  BY DEF Create, Goto
<1>3. call[t] = CreateImageCall /\ call[t] # None
  BY <1>2 DEF ConformInv, SimInv, CallsProgress, CallProgress, Creating, Numbered
<1>4. reply[t] = None
  BY <1>2 DEF ConformInv, Answered
<1>5. PICK e \in Effects : e = ImageCreated(id)
  BY DEF Effects
<1>6. e # None /\ IsEffectOf(e, call[t])
  BY <1>3, <1>5, NoneAssumption DEF IsEffectOf, CreateImageCall
<1>7. TypeOK'
  BY <1>1, <1>2, <1>5 DEF InterfaceInv, TypeOK
<1>8. EffectMatches'
  BY <1>1, <1>2, <1>3, <1>5, <1>6 DEF InterfaceInv, TypeOK, EffectMatches
<1>9. ReplyMatches'
  BY <1>1, <1>2, <1>4 DEF InterfaceInv, TypeOK, ReplyMatches
<1>10. QED
  BY <1>7, <1>8, <1>9 DEF InterfaceInv

LEMMA RestartInterfaceInv ==
  ASSUME InterfaceInv, Restart
  PROVE  InterfaceInv'
<1>1. \A t \in Threads : call'[t] = None /\ done'[t] = None /\ reply'[t] = None
  BY DEF Restart
<1>2. TypeOK'
  BY DEF Restart, InterfaceInv, TypeOK
<1>3. QED
  BY <1>1, <1>2 DEF InterfaceInv, EffectMatches, ReplyMatches

\* A call answered with success has been carried out and the id in the answer is
\* that of the image made for it, although the buffer the date is in may have
\* been filled again meanwhile, the id may have been given before, and the
\* server started again (DhsAdapterSim.cpp:47-69).
THEOREM SimSuccessIsDone == SimSpec => []SuccessIsDone
<1>1. SimInit => InterfaceInv
  BY InitInterfaceInv DEF SimInit
<1>2. ASSUME ConformInv, InterfaceInv, [SimNext \/ Restart]_vars
      PROVE  InterfaceInv'
  <2>1. CASE Restart
    BY <1>2, <2>1, RestartInterfaceInv
  <2>2. ASSUME NEW t \in Threads, Create(t)
        PROVE  InterfaceInv'
    BY <1>2, <2>2, CreateInterfaceInv
  <2>3. CASE [SimNext]_vars /\ \A t \in Threads : ~ Create(t)
    BY <1>2, <2>3, OtherStepsImplement, NextInterfaceInv
  <2>4. QED
    BY <1>2, <2>1, <2>2, <2>3
<1>3. InterfaceInv => SuccessIsDone
  BY DEF InterfaceInv, EffectMatches, ReplyMatches, SuccessIsDone
<1>4. QED
  BY <1>1, <1>2, <1>3, InitConform, StepConform, PTL DEF SimSpec

=============================================================================
