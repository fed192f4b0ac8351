---------------------------- MODULE DhsAdapterSim ----------------------------
(***************************************************************************)
(* The adapter that only simulates the DHS (DhsAdapterSim.h,               *)
(* DhsAdapterSim.cpp), the one the service runs over when it is configured *)
(* so: it logs what it is asked, and makes up image ids of the date and a  *)
(* number below MAX_IMAGE_ID, from a counter that its mutex protects.      *)
(*                                                                         *)
(* The date comes from localtime, whose result is one buffer shared by all *)
(* threads: localtime fills it under a lock of its own, but it is read     *)
(* later, field by field, under none.  Of its fields the model keeps the   *)
(* month and the day of the month.                                         *)
(***************************************************************************)
EXTENDS IDhsAdapter, Sequences

CONSTANTS MAX_IMAGE_ID,
          Calendar,      \* the dates in their order
          WellTyped      \* the keyword lists with the right type for each keyword

ImageId(date, number) == [mon |-> date.mon, mday |-> date.mday, number |-> number]

ASSUME SimAssumption ==
    /\ MAX_IMAGE_ID \in Nat /\ MAX_IMAGE_ID > 1
    /\ WellTyped \subseteq KeywordLists
    /\ EmptyList \in KeywordLists => EmptyList \in WellTyped
    /\ Calendar \in Seq([mon : Nat, mday : Nat]) \ {<<>>}
    /\ \A i, j \in DOMAIN Calendar : \A number \in 1..(MAX_IMAGE_ID - 1) :
            [mon |-> Calendar[i].mon, mday |-> Calendar[j].mday, number |-> number]
                \in ImageIds

VARIABLES pc,
          today,      \* the date, as its place in Calendar
          time,       \* what time() told each thread, 0 before
          tm,         \* the buffer of localtime
          date,       \* the fields of it each thread has read
          lock,       \* the thread that holds the mutex, or None
          nextId,
          latchedId,  \* of each thread, 0 before
          turn,       \* history: how many numbers were latched up to a thread's own
          latches,    \* history: how many numbers were latched
          started,    \* history: the turn of the first number since the server's start
          created     \* history: the ids made, each with its turn

dateVars == <<time, tm, date>>
idVars == <<lock, nextId, latchedId, turn, latches, started>>
vars == <<adapterVars, pc, today, dateVars, idVars, created>>

Goto(t, from, to) == pc[t] = from /\ pc' = [pc EXCEPT ![t] = to]

-----------------------------------------------------------------------------

Enter(t, c) ==
    /\ Goto(t, "idle", IF c = CreateImageCall THEN "time" ELSE "setting")
    /\ Invoke(t, c)
    /\ UNCHANGED <<today, dateVars, idVars, created>>

\* createImage takes the time and has it made a date, one field after the
\* other; the lock of localtime only keeps others from doing so meanwhile.
ReadTime(t) ==
    /\ Goto(t, "time", "localtime")
    /\ time' = [time EXCEPT ![t] = today]
    /\ UNCHANGED <<adapterVars, today, tm, date, idVars, created>>

Store(t, field) ==
    /\ tm' = [tm EXCEPT ![field] = Calendar[time[t]][field]]
    /\ UNCHANGED <<adapterVars, today, time, date, idVars, created>>

StoreFirst(t) ==
    /\ \A u \in Threads : pc[u] \notin {"storeMonth", "storeDay"}
    /\ \/ Goto(t, "localtime", "storeDay") /\ Store(t, "mon")
       \/ Goto(t, "localtime", "storeMonth") /\ Store(t, "mday")

StoreSecond(t) ==
    \/ Goto(t, "storeMonth", "lock") /\ Store(t, "mon")
    \/ Goto(t, "storeDay", "lock") /\ Store(t, "mday")

\* Faulty variant: the number is taken without the mutex.
LockNothing(t) ==
    /\ Goto(t, "lock", "latch")
    /\ UNCHANGED <<adapterVars, today, dateVars, idVars, created>>

Lock(t) ==
    /\ Goto(t, "lock", "latch")
    /\ lock = None
    /\ lock' = t
    /\ UNCHANGED <<adapterVars, today, dateVars, nextId, latchedId, turn, latches,
                   started, created>>

Latch(t) ==
    /\ Goto(t, "latch", "increment")
    /\ latchedId' = [latchedId EXCEPT ![t] = nextId]
    /\ latches' = latches + 1
    /\ turn' = [turn EXCEPT ![t] = latches + 1]
    /\ UNCHANGED <<adapterVars, today, dateVars, lock, nextId, started, created>>

\* Faulty variant: the counter goes one further before it starts again.
IncrementLate(t) ==
    /\ Goto(t, "increment", "unlock")
    /\ nextId' = IF nextId + 1 > MAX_IMAGE_ID THEN 1 ELSE nextId + 1
    /\ UNCHANGED <<adapterVars, today, dateVars, lock, latchedId, turn, latches, started,
                   created>>

Increment(t) ==
    /\ Goto(t, "increment", "unlock")
    /\ nextId' = IF nextId + 1 >= MAX_IMAGE_ID THEN 1 ELSE nextId + 1
    /\ UNCHANGED <<adapterVars, today, dateVars, lock, latchedId, turn, latches, started,
                   created>>

Unlock(t) ==
    /\ Goto(t, "unlock", "formatMonth")
    /\ lock' = None
    /\ UNCHANGED <<adapterVars, today, dateVars, nextId, latchedId, turn, latches,
                   started, created>>

\* The id is formatted, reading the buffer as it is now.
FormatMonth(t) ==
    /\ Goto(t, "formatMonth", "formatDay")
    /\ date' = [date EXCEPT ![t].mon = tm.mon]
    /\ UNCHANGED <<adapterVars, today, time, tm, idVars, created>>

FormatDay(t) ==
    /\ Goto(t, "formatDay", "create")
    /\ date' = [date EXCEPT ![t].mday = tm.mday]
    /\ UNCHANGED <<adapterVars, today, time, tm, idVars, created>>

Create(t) ==
    LET id == ImageId(date[t], latchedId[t])
    IN  /\ Goto(t, "create", "return")
        /\ done' = [done EXCEPT ![t] = ImageCreated(id)]
        /\ effects' = effects \cup {ImageCreated(id)}
        /\ created' = created \cup {[turn |-> turn[t], id |-> id]}
        /\ UNCHANGED <<call, reply, today, dateVars, idVars>>

-----------------------------------------------------------------------------

\* The other operations log what they are asked and change nothing.
Set(t) ==
    /\ Goto(t, "setting", "return")
    /\ IF NeedsDhs(call[t]) THEN TakeEffect(t) ELSE UNCHANGED adapterVars
    /\ UNCHANGED <<today, dateVars, idVars, created>>

\* setImageKeywords fails, after logging them all, if a type is wrong.
Status(c) ==
    IF c.op = "setImageKeywords" /\ c.keywords \notin WellTyped
    THEN "error" ELSE "success"

\* Faulty variant: the id is made out of the buffer again for the answer.
ReturnAnew(t) ==
    /\ Goto(t, "return", "returned")
    /\ reply' = [reply EXCEPT
                    ![t] = Reply(Status(call[t]), IF call[t] = CreateImageCall
                                                  THEN ImageId(tm, latchedId[t]) ELSE None)]
    /\ UNCHANGED <<call, done, effects, today, dateVars, idVars, created>>

Return(t) ==
    /\ Goto(t, "return", "returned")
    /\ reply' = [reply EXCEPT
                    ![t] = Reply(Status(call[t]), IF call[t] = CreateImageCall
                                                  THEN done[t].id ELSE None)]
    /\ UNCHANGED <<call, done, effects, today, dateVars, idVars, created>>

Resume(t) ==
    /\ Goto(t, "returned", "idle")
    /\ Collect(t)
    /\ time' = [time EXCEPT ![t] = 0]
    /\ date' = [date EXCEPT ![t] = [mon |-> 0, mday |-> 0]]
    /\ latchedId' = [latchedId EXCEPT ![t] = 0]
    /\ turn' = [turn EXCEPT ![t] = 0]
    /\ UNCHANGED <<today, tm, lock, nextId, latches, started, created>>

\* Midnight.
Tick ==
    /\ today < Len(Calendar)
    /\ today' = today + 1
    /\ UNCHANGED <<adapterVars, pc, dateVars, idVars, created>>

\* The HTTP server is started again, and with it the counter; callers get no
\* answer, but have the ids they were given.
Restart ==
    /\ call' = [t \in Threads |-> None]
    /\ done' = [t \in Threads |-> None]
    /\ reply' = [t \in Threads |-> None]
    /\ pc' = [t \in Threads |-> "idle"]
    /\ time' = [t \in Threads |-> 0]
    /\ tm' = [mon |-> 0, mday |-> 0]
    /\ date' = [t \in Threads |-> tm']
    /\ lock' = None
    /\ nextId' = 1
    /\ latchedId' = [t \in Threads |-> 0]
    /\ turn' = [t \in Threads |-> 0]
    /\ started' = latches + 1
    /\ UNCHANGED <<effects, today, latches, created>>

SimInit ==
    /\ Init
    /\ pc = [t \in Threads |-> "idle"]
    /\ today = 1
    /\ time = [t \in Threads |-> 0]
    /\ tm = [mon |-> 0, mday |-> 0]
    /\ date = [t \in Threads |-> tm]
    /\ lock = None
    /\ nextId = 1
    /\ latchedId = [t \in Threads |-> 0]
    /\ turn = [t \in Threads |-> 0]
    /\ latches = 0
    /\ started = 1
    /\ created = {}

CreateImageStep(t) ==
    \/ ReadTime(t) \/ StoreFirst(t) \/ StoreSecond(t)
    \/ Lock(t) \/ Latch(t) \/ Increment(t) \/ Unlock(t)
    \/ FormatMonth(t) \/ FormatDay(t) \/ Create(t)

SimNext ==
    \/ Tick
    \/ \E t \in Threads :
        \/ \E c \in Calls : Enter(t, c)
        \/ CreateImageStep(t)
        \/ Set(t)
        \/ Return(t)
        \/ Resume(t)

\* The server can be started again at any time.
SimSpec == SimInit /\ [][SimNext \/ Restart]_vars

-----------------------------------------------------------------------------

Labels == {"idle", "time", "localtime", "storeMonth", "storeDay", "lock", "latch",
           "increment", "unlock", "formatMonth", "formatDay", "create", "setting", "return",
           "returned"}

SimTypeOK ==
    /\ TypeOK
    /\ pc \in [Threads -> Labels]
    /\ today \in DOMAIN Calendar
    /\ time \in [Threads -> DOMAIN Calendar \cup {0}]
    /\ tm \in [mon : Nat, mday : Nat]
    /\ date \in [Threads -> [mon : Nat, mday : Nat]]
    /\ lock \in Threads \cup {None}
    /\ nextId \in 1..(MAX_IMAGE_ID - 1)
    /\ latchedId \in [Threads -> 0..(MAX_IMAGE_ID - 1)]
    /\ turn \in [Threads -> 0..latches]
    /\ latches \in Nat
    /\ started \in 1..(latches + 1)
    /\ created \subseteq [turn : 1..latches, id : ImageIds]

\* However threads are delayed between taking a number and using it, and
\* whatever date the shared buffer holds, two images made since the server was
\* last started have the same id only if the counter went all the way round
\* between them (DhsAdapterSim.cpp:50-57 under the mutex, 59-62 without).
NoEarlyReuse ==
    \A a, b \in created :
        started <= a.turn /\ a.id = b.id /\ a.turn < b.turn =>
            b.turn - a.turn >= MAX_IMAGE_ID - 1

\* As documented (IDhsAdapter.h:136), an id from createImage is unique.
UniqueIds == \A a, b \in created : a.id = b.id => a = b

\* A caller cannot tell the simulator from any other adapter, new ids included,
\* as long as the counter has not gone all the way round and the server has not
\* been started again.
ImplementsInterface ==
    Init /\ [][started' = 1 /\ latches' < MAX_IMAGE_ID /\ ~ Restart => Next]_adapterVars

=============================================================================
