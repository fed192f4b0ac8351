------------------------------ MODULE LifeCycle ------------------------------
(***************************************************************************)
(* The life of the service object and of its adapter and cache             *)
(* (DhsService.cpp, DhsAdapter.cpp, service.cpp) against the requests that *)
(* use them.  The container, Axis2, calls create, stubInitWithConfig and   *)
(* remove, one of them at a time, and has threads call stubInvoke.  Its    *)
(* calls are external: nothing in the code keeps requests out while the    *)
(* service is set up or removed.                                           *)
(*                                                                         *)
(* Objects are numbered as they are made.  A pointer is the number of an   *)
(* object, or NULL.  A request that uses a pointer to nothing is lost, and *)
(* nothing is said of the process from there on.                           *)
(***************************************************************************)
EXTENDS Naturals

CONSTANTS Threads,     \* worker threads of the HTTP server
          MaxObjects,  \* bound on the objects made
          None

NULL == 0
Objects == 1 .. MaxObjects

ASSUME LifeCycleAssumption == MaxObjects \in Nat /\ None \notin Threads

VARIABLES simulate,    \* whether the service is configured to simulate the DHS
          service,     \* theService
          adapter,     \* its dhsAdapter
          cache,       \* its msgCache
          made,        \* the number of objects made
          alive,       \* those not deleted
          container,   \* where the container is, "idle" between its calls
          fresh,       \* the adapter that stubInitWithConfig brings in, or NULL
          library,     \* the DHS library: down, initialised ("up") or with its loop running
          started,     \* of each adapter, dhsInitialized
          connected,   \* whether its connection is not null
          isConnected,
          owner,       \* the thread that holds its mutex, or None
          pc,          \* where each thread is
          this,        \* the service and
          using,       \* the adapter it is in
          initialised, \* history: whether the service was set up
          again,       \* history: whether it was set up again
          disturbed    \* history: of each request, whether the container got in its way

pointers == <<service, adapter, cache>>
heap == <<made, alive>>
adapters == <<library, started, connected, isConnected>>
threadVars == <<pc, this, using>>
history == <<initialised, again, disturbed>>
vars == <<simulate, pointers, heap, container, fresh, adapters, owner, threadVars, history>>

Lost(t) == pc[t] = "lost"
Running == \A t \in Threads : ~ Lost(t)

Goto(from, to) == Running /\ container = from /\ container' = to

\* Another call of the container begins.
Disturb == disturbed' = [t \in Threads |-> disturbed[t] \/ pc[t] # "idle"]

-----------------------------------------------------------------------------
\* create and stubInitWithConfig

Create ==
    /\ Goto("idle", "idle")
    /\ service = NULL
    /\ made < MaxObjects
    /\ made' = made + 1
    /\ alive' = alive \cup {made'}
    /\ service' = made'
    /\ initialised' = FALSE
    /\ again' = FALSE
    /\ UNCHANGED <<simulate, adapter, cache, fresh, adapters, owner, threadVars, disturbed>>

\* Begins with the constructor of the adapter; a cache is still to be made.
StartInit ==
    /\ Goto("idle", IF simulate THEN "replacing" ELSE "starting")
    /\ service # NULL
    /\ made + 2 <= MaxObjects
    /\ made' = made + 1
    /\ alive' = alive \cup {made'}
    /\ fresh' = made'
    /\ again' = (again \/ initialised)
    /\ Disturb
    /\ UNCHANGED <<simulate, pointers, adapters, owner, threadVars, initialised>>

\* Faulty variant: dhsInitialized is not set.
StartLibraryUnnoticed ==
    /\ Goto("starting", "connecting")
    /\ library' \in {library, "up", "running"}
    /\ started' = started
    /\ UNCHANGED <<simulate, pointers, heap, fresh, connected, isConnected, owner, threadVars,
                   history>>

\* dhsInit and dhsEventLoop may fail.  Then dhsInitialized is not written.
StartLibrary ==
    /\ Goto("starting", "connecting")
    /\ \/ /\ library' = "running"
          /\ started' = [started EXCEPT ![fresh] = TRUE]
       \/ /\ library' \in {library, IF library = "down" THEN "up" ELSE library}
          /\ \E garbage \in BOOLEAN : started' = [started EXCEPT ![fresh] = garbage]
    /\ UNCHANGED <<simulate, pointers, heap, fresh, connected, isConnected, owner, threadVars,
                   history>>

\* Faulty variant: the status of dhsConnect is not looked at.
ConnectUnchecked(a) ==
    \E success \in {FALSE, library = "running"} :
        /\ connected' = [connected EXCEPT ![a] = success]
        /\ isConnected' = [isConnected EXCEPT ![a] = TRUE]
        /\ UNCHANGED <<library, started>>

\* dhsConnect can succeed only while the library's loop runs.
Connect(a) ==
    \E success \in {FALSE, library = "running"} :
        /\ connected' = [connected EXCEPT ![a] = success]
        /\ isConnected' = [isConnected EXCEPT ![a] = success]
        /\ UNCHANGED <<library, started>>

ConnectFirst ==
    /\ Goto("connecting", "replacing")
    /\ Connect(fresh)
    /\ UNCHANGED <<simulate, pointers, heap, fresh, owner, threadVars, history>>

\* Faulty variant: the old adapter is forgotten.
ReplaceUndeleted ==
    /\ Goto("replacing", "setting")
    /\ UNCHANGED <<simulate, pointers, heap, fresh, adapters, owner, threadVars, history>>

\* setDhsAdapter deletes the old adapter, and sets the new one afterwards.
Replace ==
    /\ Goto("replacing", IF adapter = NULL THEN "setting" ELSE "closing")
    /\ UNCHANGED <<simulate, pointers, heap, fresh, adapters, owner, threadVars, history>>

SetAdapter ==
    /\ Goto("setting", "dropping")
    /\ adapter' = fresh
    /\ UNCHANGED <<simulate, service, cache, heap, fresh, adapters, owner, threadVars, history>>

\* setMsgCache does the same with the cache.
ReplaceCache ==
    /\ fresh # NULL
    /\ Goto("dropping", "caching")
    /\ made' = made + 1
    /\ alive' = (alive \ {cache}) \cup {made'}
    /\ UNCHANGED <<simulate, pointers, fresh, adapters, owner, threadVars, history>>

SetCache ==
    /\ Goto("caching", "idle")
    /\ cache' = made
    /\ fresh' = NULL
    /\ initialised' = TRUE
    /\ UNCHANGED <<simulate, service, adapter, heap, adapters, owner, threadVars, again,
                   disturbed>>

-----------------------------------------------------------------------------
\* remove, with the destructors of the adapter, the cache and the service

StartRemove ==
    /\ Goto("idle", IF adapter = NULL THEN "dropping" ELSE "closing")
    /\ service # NULL
    /\ Disturb
    /\ UNCHANGED <<simulate, pointers, heap, fresh, adapters, owner, threadVars, initialised,
                   again>>

\* Whether there is a connection to close is asked without the mutex.
FindUnconnected ==
    /\ Goto("closing", "stopping")
    /\ ~ connected[adapter]
    /\ UNCHANGED <<simulate, pointers, heap, fresh, adapters, owner, threadVars, history>>

\* The destructor has the mutex of its adapter while it disconnects.
Free(a) == owner[a] = None /\ ~ (container = "disconnecting" /\ adapter = a)

\* The wait for the mutex is without limit here.  No request takes back the
\* connection that was found, so it is there still at the end of the wait.
LockToClose ==
    /\ Goto("closing", "disconnecting")
    /\ connected[adapter]
    /\ Free(adapter)
    /\ UNCHANGED <<simulate, pointers, heap, fresh, adapters, owner, threadVars, history>>

Disconnect ==
    /\ Goto("disconnecting", "stopping")
    /\ connected' = [connected EXCEPT ![adapter] = FALSE]
    /\ UNCHANGED <<simulate, pointers, heap, fresh, library, started, isConnected, owner,
                   threadVars, history>>

\* dhsEventLoopEnd and dhsExit are taken to stop the library when they return:
\* the code does not look at their status.
StopLibrary ==
    /\ Goto("stopping", IF fresh = NULL THEN "dropping" ELSE "setting")
    /\ library' = IF started[adapter] THEN "down" ELSE library
    /\ alive' = alive \ {adapter}
    /\ UNCHANGED <<simulate, pointers, made, fresh, started, connected, isConnected, owner,
                   threadVars, history>>

DropCache ==
    /\ fresh = NULL
    /\ Goto("dropping", "deleting")
    /\ alive' = alive \ {cache}
    /\ UNCHANGED <<simulate, pointers, made, fresh, adapters, owner, threadVars, history>>

DeleteService ==
    /\ Goto("deleting", "forgetting")
    /\ alive' = alive \ {service}
    /\ UNCHANGED <<simulate, pointers, made, fresh, adapters, owner, threadVars, history>>

\* Faulty variant: theService stays as it is.
ForgetNothing ==
    /\ Goto("forgetting", "idle")
    /\ UNCHANGED <<simulate, pointers, heap, fresh, adapters, owner, threadVars, history>>

\* theService is NULL only when everything is gone.
Forget ==
    /\ Goto("forgetting", "idle")
    /\ service' = NULL
    /\ adapter' = NULL
    /\ cache' = NULL
    /\ UNCHANGED <<simulate, heap, fresh, adapters, owner, threadVars, history>>

-----------------------------------------------------------------------------
\* Requests

ThreadAt(t, from, to) == Running /\ pc[t] = from /\ pc' = [pc EXCEPT ![t] = to]

\* Faulty variant: stubInvoke goes on without a service.
DispatchAlways(t) ==
    /\ ThreadAt(t, "idle", "serving")
    /\ this' = [this EXCEPT ![t] = service]
    /\ disturbed' = [disturbed EXCEPT ![t] = container # "idle" \/ ~ initialised]
    /\ UNCHANGED <<simulate, pointers, heap, container, fresh, adapters, owner, using,
                   initialised, again>>

\* stubInvoke; without a service the answer is an error.
Dispatch(t) ==
    /\ ThreadAt(t, "idle", "serving")
    /\ service # NULL
    /\ this' = [this EXCEPT ![t] = service]
    /\ disturbed' = [disturbed EXCEPT ![t] = container # "idle" \/ ~ initialised]
    /\ UNCHANGED <<simulate, pointers, heap, container, fresh, adapters, owner, using,
                   initialised, again>>

\* What is behind a pointer of the service.
Usable(t, pointer) == {this[t], pointer} \subseteq alive

LoseTrack(t) ==
    /\ \/ ThreadAt(t, "serving", "lost") /\ ~ (Usable(t, adapter) /\ Usable(t, cache))
       \/ ThreadAt(t, "locking", "lost") /\ using[t] \notin alive
       \/ ThreadAt(t, "holding", "lost") /\ using[t] \notin alive
    /\ UNCHANGED <<simulate, pointers, heap, container, fresh, adapters, owner, this, using,
                   history>>

EnterAdapter(t) ==
    /\ ThreadAt(t, "serving", "locking")
    /\ Usable(t, adapter)
    /\ using' = [using EXCEPT ![t] = adapter]
    /\ UNCHANGED <<simulate, pointers, heap, container, fresh, adapters, owner, this, history>>

LockAdapter(t) ==
    /\ ThreadAt(t, "locking", "holding")
    /\ using[t] \in alive
    /\ Free(using[t])
    /\ owner' = [owner EXCEPT ![using[t]] = t]
    /\ UNCHANGED <<simulate, pointers, heap, container, fresh, adapters, this, using, history>>

\* The wait for the mutex is timed in all methods of the real adapter.
GiveUp(t) ==
    /\ ~ simulate
    /\ ThreadAt(t, "locking", "serving")
    /\ using[t] \in alive
    /\ UNCHANGED <<simulate, pointers, heap, container, fresh, adapters, owner, this, using,
                   history>>

\* Faulty variant: a call that fails returns without unlocking the mutex.
LeaveLocked(t) ==
    /\ ThreadAt(t, "holding", "serving")
    /\ using[t] \in alive
    /\ IF simulate \/ isConnected[using[t]] THEN UNCHANGED adapters ELSE Connect(using[t])
    /\ owner' \in {owner, [owner EXCEPT ![using[t]] = None]}
    /\ UNCHANGED <<simulate, pointers, heap, container, fresh, this, using, history>>

\* With the mutex a thread connects, if need be, or has the DHS do something.
Leave(t) ==
    /\ ThreadAt(t, "holding", "serving")
    /\ using[t] \in alive
    /\ IF simulate \/ isConnected[using[t]] THEN UNCHANGED adapters ELSE Connect(using[t])
    /\ owner' = [owner EXCEPT ![using[t]] = None]
    /\ UNCHANGED <<simulate, pointers, heap, container, fresh, this, using, history>>

Answer(t) ==
    /\ ThreadAt(t, "serving", "idle")
    /\ this' = [this EXCEPT ![t] = NULL]
    /\ using' = [using EXCEPT ![t] = NULL]
    /\ disturbed' = [disturbed EXCEPT ![t] = FALSE]
    /\ UNCHANGED <<simulate, pointers, heap, container, fresh, adapters, owner, initialised,
                   again>>

-----------------------------------------------------------------------------

Init ==
    /\ simulate \in BOOLEAN
    /\ service = NULL /\ adapter = NULL /\ cache = NULL
    /\ made = 0 /\ alive = {}
    /\ container = "idle" /\ fresh = NULL
    /\ library = "down"
    /\ started = [a \in Objects |-> FALSE]
    /\ connected = [a \in Objects |-> FALSE]
    /\ isConnected = [a \in Objects |-> FALSE]
    /\ owner = [a \in Objects |-> None]
    /\ pc = [t \in Threads |-> "idle"]
    /\ this = [t \in Threads |-> NULL]
    /\ using = [t \in Threads |-> NULL]
    /\ initialised = FALSE /\ again = FALSE
    /\ disturbed = [t \in Threads |-> FALSE]

InitStep ==
    \/ StartLibrary \/ ConnectFirst \/ Replace \/ SetAdapter \/ ReplaceCache \/ SetCache
RemoveStep ==
    \/ FindUnconnected \/ LockToClose \/ Disconnect \/ StopLibrary
    \/ DropCache \/ DeleteService \/ Forget
ContainerStep == InitStep \/ RemoveStep
ContainerCall == Create \/ StartInit \/ StartRemove

ServeStep(t) == EnterAdapter(t) \/ LockAdapter(t) \/ GiveUp(t) \/ LoseTrack(t) \/ Answer(t)

Next ==
    \/ ContainerCall
    \/ ContainerStep
    \/ \E t \in Threads : Dispatch(t) \/ ServeStep(t) \/ Leave(t)

Spec == Init /\ [][Next]_vars

\* The container waits for a function of the DHS library to return.
InLibrary ==
    \/ container \in {"starting", "connecting", "disconnecting"}
    \/ container = "stopping" /\ started[adapter]

\* Calls of the container and requests go on.  Nothing is assumed of how long the
\* library takes, nor does the mutex promise anyone to get it, however often it
\* is free: its users are not queued.
Fairness ==
    /\ WF_vars(ContainerStep /\ ~ InLibrary)
    /\ \A t \in Threads : WF_vars(ServeStep(t))

FairSpec == Spec /\ Fairness

-----------------------------------------------------------------------------

ContainerLabels == {"idle", "starting", "connecting", "replacing", "closing",
                    "disconnecting", "stopping", "setting", "dropping", "caching",
                    "deleting", "forgetting"}

TypeOK ==
    /\ simulate \in BOOLEAN
    /\ made \in 0 .. MaxObjects
    /\ alive \subseteq 1 .. made
    /\ {service, adapter, cache, fresh} \subseteq 0 .. made
    /\ container \in ContainerLabels
    /\ library \in {"down", "up", "running"}
    /\ started \in [Objects -> BOOLEAN]
    /\ connected \in [Objects -> BOOLEAN]
    /\ isConnected \in [Objects -> BOOLEAN]
    /\ owner \in [Objects -> Threads \cup {None}]
    /\ pc \in [Threads -> {"idle", "serving", "locking", "holding", "lost"}]
    /\ this \in [Threads -> 0 .. made]
    /\ \A t \in Threads : pc[t] = "idle" <=> this[t] = NULL
    /\ using \in [Threads -> 0 .. made]
    /\ initialised \in BOOLEAN /\ again \in BOOLEAN
    /\ disturbed \in [Threads -> BOOLEAN]

\* The code needs no more of the container than that it keeps its calls apart
\* from the requests: one that comes after stubInitWithConfig has ended and is
\* answered before the next call of the container uses no pointer to nothing,
\* whatever was removed, made anew or replaced before it, and whatever other
\* requests were caught in it (DhsService.cpp:134-144, 222-231, DhsService.h:250-262).
UndisturbedAreServed == \A t \in Threads : Lost(t) => disturbed[t]

\* What is about to be deleted was not deleted before.
DeletedOnce ==
    /\ container \in {"closing", "disconnecting", "stopping"} => adapter \in alive
    /\ container = "dropping" => cache \in alive \cup {NULL}
    /\ container = "deleting" => service \in alive

\* Between the calls of the container nothing that was made is left over and
\* nothing that is pointed to is gone, and nothing is deleted a second time,
\* over any sequence of creating, setting up, setting up again and removing
\* (DhsService.cpp:53-60, DhsService.h:250-262).
NothingLeftOver ==
    Running =>
        /\ DeletedOnce
        /\ container = "idle" => alive = {service, adapter, cache} \ {NULL}

\* An adapter that takes itself for connected has a connection, and a library
\* that runs, when it uses the DHS: the state of the connection is not reset
\* by the destructor, nor when the library could not be started.  Not so after
\* the service is set up again, when the old adapter stops the library that
\* the new one has just connected by (DhsService.cpp:188, DhsAdapter.cpp:31, 43).
ConnectedOverLibrary ==
    \A t \in Threads :
        /\ pc[t] = "holding" /\ ~ simulate /\ isConnected[using[t]]
        /\ ~ disturbed[t] /\ ~ again
        => library = "running" /\ connected[using[t]]

\* When the service is gone the loop of the library does not run, although
\* whether to stop it is read from a member that is not written where it could
\* not be started (DhsAdapter.cpp:31, 46).  This is as far as dhsEventLoopEnd and
\* dhsExit do not fail, which the code takes for granted (DhsAdapter.cpp:48-50).
LibraryStops == container = "idle" /\ service = NULL => library # "running"

\* Removing the service ends, if requests do not go on entering the adapter for
\* ever, as the destructor may never get the mutex then, and unless a thread that
\* holds it, or the container itself, hangs in the DHS (DhsAdapter.cpp:41-50).
RemovalEnds ==
    \/ []<>(\E t \in Threads : pc[t] = "locking")
    \/ container # "idle" /\ fresh = NULL ~>
            (container = "idle" \/ ~ Running \/ []InLibrary
              \/ \E t \in Threads : [](pc[t] = "holding"))

=============================================================================
