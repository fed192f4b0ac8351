----------------------------- MODULE DhsAdapter -----------------------------
(***************************************************************************)
(* The adapter over the DHS client library (DhsAdapter.h, DhsAdapter.cpp). *)
(* One timed mutex serialises every use of the library.  A call takes it   *)
(* twice: once in checkConnection, which connects if there is no           *)
(* connection yet, and again for the operation itself; each time it gives  *)
(* up after LOCK_TIMEOUT seconds.                                          *)
(*                                                                         *)
(* The library is external.  From how it is used here: a function given a  *)
(* status other than success does nothing and leaves it; a call may fail,  *)
(* with or without effect on the DHS server, and may take any time, dhsWait *)
(* having no timeout.  Nothing is assumed of a call ever returning.        *)
(*                                                                         *)
(* One thing is assumed that the source does not show.  createImage keeps  *)
(* the pointer dhsBdName returns, releases the mutex and only then copies  *)
(* the id out of the library's memory (DhsAdapter.cpp:88-96).  The model   *)
(* takes that memory to be the call's alone until it is copied: newId is a *)
(* value of its own per thread.  With a library that gives every call the  *)
(* same memory, as localtime does for the simulator (DhsAdapterSim), a     *)
(* call could answer with the id made for the next one.                    *)
(***************************************************************************)
EXTENDS IDhsAdapter

VARIABLES pc,           \* where each calling thread is
          status,       \* the local variable status of each call, None without one
          newId,        \* the text dhsBdName's answer points at, None before
          lock,         \* the thread that holds the mutex, or None
          isConnected,
          opened        \* history: how many connections dhsConnect made

locals == <<pc, status, newId>>
connectionVars == <<isConnected, opened>>
vars == <<adapterVars, locals, lock, connectionVars>>

Goto(t, label) == pc' = [pc EXCEPT ![t] = label]

Leave(t, result) ==
    /\ status' = [status EXCEPT ![t] = result]
    /\ Goto(t, "return")

-----------------------------------------------------------------------------

\* Faulty variant: the local status is not initialised.
EnterUninitialised(t, c) ==
    /\ pc[t] = "idle"
    /\ call' = [call EXCEPT ![t] = c]
    /\ Goto(t, "connLock")
    /\ UNCHANGED <<done, reply, effects, status, newId, lock, connectionVars>>

\* Any of createImage, setImageLifeTime, setImageContrib, setImageKeywords.
Enter(t, c) ==
    /\ pc[t] = "idle"
    /\ call' = [call EXCEPT ![t] = c]
    /\ status' = [status EXCEPT ![t] = "success"]
    /\ Goto(t, "connLock")
    /\ UNCHANGED <<done, reply, effects, newId, lock, connectionVars>>

Acquire(t, from, to) ==
    /\ pc[t] = from
    /\ lock = None
    /\ lock' = t
    /\ Goto(t, to)
    /\ UNCHANGED <<adapterVars, status, newId, connectionVars>>

\* Faulty variant: the result of timed_lock is not looked at.
TimeoutIgnored(t, from) ==
    /\ pc[t] = from
    /\ lock # None
    /\ Goto(t, IF from = "connLock" THEN "checking" ELSE "operating")
    /\ UNCHANGED <<adapterVars, status, newId, lock, connectionVars>>

\* Faulty variant: the status is returned as it stands, which is success.
TimeoutUnnoticed(t, from) ==
    /\ pc[t] = from
    /\ lock # None
    /\ Leave(t, status[t])
    /\ UNCHANGED <<adapterVars, newId, lock, connectionVars>>

\* Faulty variant: an untimed lock, which never gives up.
TimeoutNever(t, from) == FALSE

\* timed_lock gives up while another thread holds the mutex.
Timeout(t, from) ==
    /\ pc[t] = from
    /\ lock # None
    /\ Leave(t, "error")
    /\ UNCHANGED <<adapterVars, newId, lock, connectionVars>>

Release(t, from, to) ==
    /\ pc[t] = from
    /\ lock' = None
    /\ Goto(t, to)
    /\ UNCHANGED <<adapterVars, status, newId, connectionVars>>

-----------------------------------------------------------------------------

AlreadyConnected(t) ==
    /\ pc[t] = "checking"
    /\ isConnected
    /\ Goto(t, "connUnlock")
    /\ UNCHANGED <<adapterVars, status, newId, lock, connectionVars>>

\* Faulty variant: connects whether or not there is a connection.
ConnectAlways(t) ==
    /\ pc[t] = "checking"
    /\ \E ok \in BOOLEAN :
            /\ isConnected' = ok
            /\ opened' = IF ok THEN opened + 1 ELSE opened
    /\ Goto(t, "connUnlock")
    /\ UNCHANGED <<adapterVars, status, newId, lock>>

Connect(t) ==
    /\ pc[t] = "checking"
    /\ ~ isConnected
    /\ \E ok \in BOOLEAN :
            /\ isConnected' = ok
            /\ opened' = IF ok THEN opened + 1 ELSE opened
    /\ Goto(t, "connUnlock")
    /\ UNCHANGED <<adapterVars, status, newId, lock>>

\* Faulty variant: the caller does not look at what checkConnection returns.
ReadConnectedIgnored(t) ==
    /\ pc[t] = "readState"
    /\ IF NeedsDhs(call[t]) THEN Goto(t, "opLock") /\ UNCHANGED status
                            ELSE Leave(t, status[t])
    /\ UNCHANGED <<adapterVars, newId, lock, connectionVars>>

\* checkConnection reads isConnected for its result after it has unlocked, so
\* the value may be one that another thread stored meanwhile.  With a
\* connection, a call about an empty list has nothing more to do.
ReadConnected(t) ==
    /\ pc[t] = "readState"
    /\ \/ /\ ~ isConnected
          /\ Leave(t, "error")
       \/ /\ isConnected
          /\ NeedsDhs(call[t])
          /\ Goto(t, "opLock")
          /\ UNCHANGED status
       \/ /\ isConnected
          /\ ~ NeedsDhs(call[t])
          /\ Leave(t, status[t])
    /\ UNCHANGED <<adapterVars, newId, lock, connectionVars>>

ConnLock(t) == Acquire(t, "connLock", "checking")
ConnTimeout(t) == Timeout(t, "connLock")
ConnUnlock(t) == Release(t, "connUnlock", "readState")

OpLock(t) ==
    Acquire(t, "opLock",
            IF call[t].op = "setImageKeywords" THEN "building" ELSE "operating")
OpTimeout(t) == Timeout(t, "opLock")
OpUnlock(t) == Release(t, "opUnlock", "return")

\* The attribute-value list for dhsBdPut; if a value could not be added, the
\* put is given a status it does nothing with.
BuildList(t) ==
    /\ pc[t] = "building"
    /\ \/ /\ Goto(t, "operating")
          /\ UNCHANGED status
       \/ /\ Goto(t, "opUnlock")
          /\ status' = [status EXCEPT ![t] = "error"]
    /\ UNCHANGED <<adapterVars, newId, lock, connectionVars>>

\* The DHS does what dhsBdName, dhsBdCtl or dhsBdPut asks (external).
DhsApplies(t) ==
    /\ pc[t] = "operating"
    /\ TakeEffect(t)
    /\ UNCHANGED <<locals, lock, connectionVars>>

\* Faulty variant: dhsStatus is not asked how the put ended.
DhsReturnsUnchecked(t) ==
    /\ pc[t] = "operating"
    /\ \/ /\ call[t].op = "createImage" => done[t] # None
          /\ newId' = IF call[t].op = "createImage"
                      THEN [newId EXCEPT ![t] = done[t].id] ELSE newId
          /\ UNCHANGED status
       \/ /\ status' = [status EXCEPT ![t] = "error"]
          /\ UNCHANGED newId
    /\ Goto(t, "opUnlock")
    /\ UNCHANGED <<adapterVars, lock, connectionVars>>

\* The library call comes back: with success if the DHS has done what was
\* asked, a put counting only once dhsWait has returned and dhsStatus says it
\* is done; with an error otherwise, and possibly even then.
DhsReturns(t) ==
    /\ pc[t] = "operating"
    /\ \/ /\ done[t] # None
          /\ newId' = IF call[t].op = "createImage"
                      THEN [newId EXCEPT ![t] = done[t].id] ELSE newId
          /\ UNCHANGED status
       \/ /\ status' = [status EXCEPT ![t] = "error"]
          /\ UNCHANGED newId
    /\ Goto(t, "opUnlock")
    /\ UNCHANGED <<adapterVars, lock, connectionVars>>

\* The call returns its status; only if that is success does createImage copy
\* the id to its caller, after the mutex is released, from memory that by
\* assumption (above) no other call has been given meanwhile.
Return(t) ==
    /\ pc[t] = "return"
    /\ reply' = [reply EXCEPT
                    ![t] = Reply(status[t], IF status[t] = "success"
                                            THEN newId[t] ELSE None)]
    /\ Goto(t, "returned")
    /\ UNCHANGED <<call, done, effects, status, newId, lock, connectionVars>>

\* The caller goes on, and the locals of the call are gone.
Resume(t) ==
    /\ pc[t] = "returned"
    /\ call' = [call EXCEPT ![t] = None]
    /\ done' = [done EXCEPT ![t] = None]
    /\ reply' = [reply EXCEPT ![t] = None]
    /\ status' = [status EXCEPT ![t] = None]
    /\ newId' = [newId EXCEPT ![t] = None]
    /\ Goto(t, "idle")
    /\ UNCHANGED <<effects, lock, connectionVars>>

-----------------------------------------------------------------------------

\* The constructor makes the first attempt to connect, before any call.
DhsInit ==
    /\ Init
    /\ pc = [t \in Threads |-> "idle"]
    /\ status = [t \in Threads |-> None]
    /\ newId = [t \in Threads |-> None]
    /\ lock = None
    /\ isConnected \in BOOLEAN
    /\ opened = IF isConnected THEN 1 ELSE 0

\* The steps of a thread that do not wait for the DHS.
LocalStep(t) ==
    \/ ConnLock(t) \/ ConnTimeout(t) \/ AlreadyConnected(t) \/ ConnUnlock(t)
    \/ ReadConnected(t) \/ OpLock(t) \/ OpTimeout(t) \/ BuildList(t)
    \/ OpUnlock(t) \/ Return(t)

DhsStep(t) == Connect(t) \/ DhsApplies(t) \/ DhsReturns(t)

DhsNext ==
    \E t \in Threads :
        \/ \E c \in Calls : Enter(t, c)
        \/ LocalStep(t)
        \/ DhsStep(t)
        \/ Resume(t)

DhsSpec == DhsInit /\ [][DhsNext]_vars

-----------------------------------------------------------------------------

Holding(t) ==
    pc[t] \in {"checking", "connUnlock", "building", "operating", "opUnlock"}

\* In the DHS, which may never let go of the thread.
InDhs(t) ==
    \/ pc[t] = "checking" /\ ~ isConnected
    \/ pc[t] = "operating"

DhsTypeOK ==
    /\ TypeOK
    /\ pc \in [Threads -> {"idle", "connLock", "checking", "connUnlock",
                           "readState", "opLock", "building", "operating",
                           "opUnlock", "return", "returned"}]
    /\ status \in [Threads -> {"success", "error", None}]
    /\ \A t \in Threads : status[t] = None <=> pc[t] = "idle"
    /\ newId \in [Threads -> ImageIds \cup {None}]
    /\ lock \in Threads \cup {None}
    /\ isConnected \in BOOLEAN
    /\ opened \in Nat

\* The DHS library is not reentrant: at no time are two threads in a part of
\* the adapter that uses it or the connection state, although a call gives up
\* the mutex halfway and may go on after failing to get it
\* (DhsAdapter.cpp:56-74, 85-89, 112-116, 142-147, 170-243).
MutualExclusion ==
    \A t, u \in Threads : Holding(t) /\ Holding(u) => t = u

\* No operation is tried on a null connection.  The state is read without the
\* lock and used under a later one (DhsAdapter.cpp:75, 81-88).
HasConnection ==
    \A t \in Threads : pc[t] \in {"opLock", "building", "operating"} => isConnected

\* However many threads find the adapter not connected, it never opens a
\* second connection and so never loses the first one, which only the
\* destructor could close (DhsAdapter.cpp:65-73, 42).
OneConnection == opened <= 1

\* To its callers the adapter is what the interface promises: in particular a
\* call that timed out or whose put did not finish is never a success.
ImplementsInterface == Spec

=============================================================================
