--------------------------- MODULE LifeCycleProofs ---------------------------
(***************************************************************************)
(* Proofs about LifeCycle, for any threads and any number of objects: what *)
(* is alive at each place of the container, and what follows of it for the *)
(* requests.                                                               *)
(***************************************************************************)
EXTENDS LifeCycle, TLAPS

Pointers == {service, adapter, cache} \ {NULL}

\* The places of the destructor of the adapter, and those of stubInitWithConfig
\* up to where the new adapter is set.
Deleting == {"closing", "disconnecting", "stopping"}
BeforeSet == {"starting", "connecting", "replacing", "setting"} \cup Deleting
USE DEF Deleting

\* The pointers that are not NULL point to different objects.
Apart ==
    /\ service # NULL => service \notin {adapter, cache, fresh}
    /\ adapter # NULL => adapter # cache
    /\ cache # NULL => cache # fresh
    /\ fresh # NULL => (adapter = fresh <=> container \notin BeforeSet)

\* What is where the container is.
Places ==
    /\ container # "idle" => service # NULL
    /\ container \in {"starting", "connecting", "replacing", "setting", "caching"} =>
            fresh # NULL
    /\ container \in Deleting => adapter # NULL
    /\ container \in {"idle", "deleting", "forgetting"} => fresh = NULL
    /\ fresh # NULL /\ container # "caching" => made < MaxObjects
    /\ service = NULL => adapter = NULL /\ cache = NULL
    /\ container = "idle" => (adapter = NULL <=> cache = NULL)

Alive ==
    /\ container = "idle" => alive = Pointers
    /\ container \in {"starting", "connecting", "replacing"} \cup Deleting =>
            alive = (Pointers \cup {fresh}) \ {NULL}
    /\ container = "setting" => alive = {service, cache, fresh} \ {NULL}
    /\ container = "dropping" /\ fresh # NULL => alive = Pointers
    /\ container = "dropping" /\ fresh = NULL => alive = {service, cache} \ {NULL}
    /\ container = "caching" => alive = {service, adapter, made} /\ made \notin {service, adapter}
    /\ container = "deleting" => alive = {service}
    /\ container = "forgetting" => alive = {}

Heap == Apart /\ Places /\ Alive

SetUp == container = "idle" /\ service # NULL /\ initialised => adapter # NULL

\* A request the container did not get in the way of is in the service that
\* is there, and in its adapter.
Undisturbed ==
    \A t \in Threads :
        pc[t] # "idle" /\ ~ disturbed[t] =>
            /\ pc[t] # "lost"
            /\ container = "idle"
            /\ initialised
            /\ service # NULL
            /\ this[t] = service
            /\ pc[t] \in {"locking", "holding"} => using[t] = adapter

\* The adapter that counts, from when it is made.
Current == IF fresh # NULL THEN fresh ELSE adapter

Connection ==
    ~ simulate /\ ~ again =>
        /\ container = "idle" /\ ~ initialised => adapter = NULL
        /\ container \in BeforeSet /\ fresh # NULL => adapter = NULL
        /\ /\ container \in {"idle", "replacing", "setting", "dropping", "caching"}
           /\ container = "dropping" => fresh # NULL
           /\ Current # NULL
           /\ isConnected[Current]
           => library = "running" /\ connected[Current]

\* Where the library runs, an adapter that is alive knows that it does.
Library ==
    library = "running" =>
        \/ adapter \in alive /\ started[adapter]
        \/ fresh \in alive /\ container # "starting" /\ started[fresh]

IInv == TypeOK /\ Heap /\ SetUp /\ Undisturbed /\ Connection /\ Library

LEMMA PointersAreObjects ==
  ASSUME TypeOK
  PROVE  /\ \A x \in alive : x \in Objects /\ x # NULL
         /\ \A x \in {service, adapter, cache, fresh} : x # NULL => x \in Objects
         /\ \A t \in Threads : using[t] # NULL => using[t] \in Objects
<1>1. made \in Nat /\ made <= MaxObjects /\ MaxObjects \in Nat
  BY LifeCycleAssumption DEF TypeOK
<1>2. \A x \in 1 .. made : x \in Objects /\ x # NULL
  BY <1>1 DEF Objects, NULL
<1>3. \A x \in 0 .. made : x # NULL => x \in 1 .. made
  BY <1>1 DEF NULL
<1>4. QED
  BY <1>2, <1>3 DEF TypeOK

LEMMA InitIInv == Init => IInv
<1> SUFFICES ASSUME Init PROVE IInv
  OBVIOUS
<1>1. TypeOK
  <2>1. /\ simulate \in BOOLEAN /\ initialised \in BOOLEAN /\ again \in BOOLEAN
        /\ started \in [Objects -> BOOLEAN] /\ connected \in [Objects -> BOOLEAN]
        /\ isConnected \in [Objects -> BOOLEAN] /\ disturbed \in [Threads -> BOOLEAN]
    BY DEF Init
  <2>2. /\ made \in 0 .. MaxObjects /\ alive \subseteq 1 .. made
        /\ {service, adapter, cache, fresh} \subseteq 0 .. made
        /\ container \in ContainerLabels /\ library \in {"down", "up", "running"}
    BY LifeCycleAssumption DEF Init, NULL, ContainerLabels
  <2>3. /\ owner \in [Objects -> Threads \cup {None}]
        /\ pc \in [Threads -> {"idle", "serving", "locking", "holding", "lost"}]
        /\ this \in [Threads -> 0 .. made] /\ using \in [Threads -> 0 .. made]
        /\ \A t \in Threads : pc[t] = "idle" <=> this[t] = NULL
    BY DEF Init, NULL
  <2>4. QED
    BY <2>1, <2>2, <2>3 DEF TypeOK
<1>2. Heap
  BY DEF Init, Heap, Apart, Places, Alive, Pointers, NULL, BeforeSet
<1>3. SetUp /\ Undisturbed
  BY DEF Init, SetUp, Undisturbed
<1>4. Connection /\ Library
  BY DEF Init, Connection, Library, Current, NULL, BeforeSet
<1>5. QED
  BY <1>1, <1>2, <1>3, <1>4 DEF IInv

-----------------------------------------------------------------------------
\* Calls of the container

LEMMA CreateIInv ==
  ASSUME IInv, Create
  PROVE  IInv'
<1> USE DEF IInv
<1>1. /\ container = "idle" /\ container' = "idle" /\ service = NULL
      /\ made < MaxObjects /\ made' = made + 1 /\ service' = made'
      /\ alive' = alive \cup {made'}
      /\ ~ initialised' /\ ~ again' /\ initialised' \in BOOLEAN /\ again' \in BOOLEAN
      /\ UNCHANGED <<simulate, adapter, cache, fresh, library, started, connected, isConnected,
                     owner, pc, this, using, disturbed>>
  BY DEF Create, Goto, adapters, threadVars
<1>2. adapter = NULL /\ cache = NULL /\ fresh = NULL /\ alive = {} /\ made' # NULL
  BY <1>1 DEF Heap, Places, Alive, Pointers, TypeOK, NULL
<1>3. TypeOK'
  BY <1>1, LifeCycleAssumption DEF TypeOK, NULL
<1>4. Heap'
  BY <1>1, <1>2 DEF Heap, Apart, Places, Alive, Pointers, BeforeSet
<1>5. Undisturbed'
  BY <1>1 DEF Undisturbed
<1>6. Connection' /\ Library' /\ SetUp'
  BY <1>1, <1>2 DEF Connection, Library, Current, SetUp, BeforeSet
<1>7. QED
  BY <1>3, <1>4, <1>5, <1>6

LEMMA StartInitIInv ==
  ASSUME IInv, StartInit
  PROVE  IInv'
<1> USE DEF IInv
<1>1. /\ container = "idle" /\ container' = IF simulate THEN "replacing" ELSE "starting"
      /\ service # NULL
      /\ made + 2 <= MaxObjects /\ made' = made + 1 /\ fresh' = made'
      /\ alive' = alive \cup {made'} /\ again' = (again \/ initialised)
      /\ disturbed' = [t \in Threads |-> disturbed[t] \/ pc[t] # "idle"]
      /\ UNCHANGED <<simulate, service, adapter, cache, library, started, connected, isConnected,
                     owner, pc, this, using, initialised>>
  BY DEF StartInit, Goto, Disturb, pointers, adapters, threadVars
<1>2. /\ alive = Pointers /\ made' # NULL /\ alive \subseteq 1 .. made
      /\ made' \notin {service, adapter, cache}
  BY <1>1 DEF Heap, Alive, TypeOK, NULL
<1>3. TypeOK'
  BY <1>1, LifeCycleAssumption DEF TypeOK, NULL, ContainerLabels
<1>4. Heap'
  <2>1. Apart'
    BY <1>1, <1>2 DEF Heap, Apart, BeforeSet
  <2>2. Places'
    <3>1. made' < MaxObjects
      BY <1>1, LifeCycleAssumption DEF TypeOK
    <3>2. QED
      BY <1>1, <1>2, <3>1 DEF Heap, Places
  <2>3. Alive'
    BY <1>1, <1>2 DEF Alive, Pointers
  <2>4. QED
    BY <2>1, <2>2, <2>3 DEF Heap
<1>5. Undisturbed'
  BY <1>1 DEF Undisturbed
<1>6. SetUp'
  BY <1>1 DEF SetUp
<1>7. Connection'
  BY <1>1 DEF Connection
<1>8. Library'
  BY <1>1, <1>2 DEF Library, Heap, Places, TypeOK, NULL
<1>9. QED
  BY <1>3, <1>4, <1>5, <1>6, <1>7, <1>8

LEMMA StartRemoveIInv ==
  ASSUME IInv, StartRemove
  PROVE  IInv'
<1> USE DEF IInv
<1>1. /\ container = "idle" /\ container' = IF adapter = NULL THEN "dropping" ELSE "closing"
      /\ service # NULL
      /\ disturbed' = [t \in Threads |-> disturbed[t] \/ pc[t] # "idle"]
      /\ UNCHANGED <<simulate, service, adapter, cache, made, alive, fresh, library, started,
                     connected, isConnected, owner, pc, this, using, initialised, again>>
  BY DEF StartRemove, Goto, Disturb, pointers, heap, adapters, threadVars
<1>2. fresh = NULL /\ alive = Pointers
  BY <1>1 DEF Heap, Places, Alive
<1>3. TypeOK'
  BY <1>1 DEF TypeOK, ContainerLabels
<1>4. Heap'
  BY <1>1, <1>2 DEF Heap, Apart, Places, Alive, Pointers, BeforeSet
<1>5. Undisturbed'
  BY <1>1 DEF Undisturbed
<1>6. SetUp' /\ Connection'
  BY <1>1, <1>2 DEF SetUp, Connection, Current, BeforeSet
<1>7. Library'
  BY <1>1 DEF Library
<1>8. QED
  BY <1>3, <1>4, <1>5, <1>6, <1>7

-----------------------------------------------------------------------------
\* Steps of stubInitWithConfig

LEMMA StartLibraryIInv ==
  ASSUME IInv, StartLibrary
  PROVE  IInv'
<1> USE DEF IInv
<1>1. /\ container = "starting" /\ container' = "connecting"
      /\ library' \in {library, "up", "running"}
      /\ UNCHANGED <<simulate, service, adapter, cache, made, alive, fresh, connected,
                     isConnected, owner, pc, this, using, initialised, again, disturbed>>
  BY DEF StartLibrary, Goto, pointers, heap, threadVars, history
<1>2. /\ fresh \in Objects /\ fresh # NULL /\ fresh \in alive /\ fresh # adapter
  <2>1. fresh # NULL /\ fresh \in alive /\ fresh # adapter
    BY <1>1 DEF Heap, Apart, Places, Alive, BeforeSet
  <2>2. QED
    BY <2>1, PointersAreObjects
<1>3. PICK s \in BOOLEAN :
        /\ started' = [started EXCEPT ![fresh] = s]
        /\ library' = "running" => s \/ library = "running"
  BY DEF StartLibrary
<1>4. TypeOK'
  <2>1. started' \in [Objects -> BOOLEAN] /\ library' \in {"down", "up", "running"}
        /\ container' \in ContainerLabels
    BY <1>1, <1>3 DEF TypeOK, ContainerLabels
  <2>2. QED
    BY <1>1, <2>1 DEF TypeOK
<1>5. Heap'
  BY <1>1 DEF Heap, Apart, Places, Alive, Pointers, BeforeSet
<1>6. SetUp' /\ Undisturbed'
  BY <1>1 DEF SetUp, Undisturbed
<1>7. Connection'
  BY <1>1 DEF Connection, BeforeSet
<1>8. Library'
  <2>1. ASSUME library' = "running", ~ s
        PROVE  adapter \in alive /\ started'[adapter]
    <3>1. adapter \in alive /\ started[adapter]
      BY <1>1, <1>3, <2>1 DEF Library
    <3>2. adapter \in Objects
      BY <3>1, PointersAreObjects
    <3>3. QED
      BY <1>2, <1>3, <3>1, <3>2 DEF TypeOK
  <2>2. ASSUME s
        PROVE  started'[fresh]
    BY <1>2, <1>3, <2>2 DEF TypeOK
  <2>3. QED
    BY <1>1, <1>2, <2>1, <2>2 DEF Library
<1>9. QED
  BY <1>4, <1>5, <1>6, <1>7, <1>8

\* What connecting does, to any adapter.
LEMMA ConnectResult ==
  ASSUME TypeOK, NEW a \in Objects, Connect(a)
  PROVE  /\ connected' \in [Objects -> BOOLEAN] /\ isConnected' \in [Objects -> BOOLEAN]
         /\ isConnected'[a] => library = "running" /\ connected'[a]
         /\ \A b \in Objects : b # a =>
                (connected'[b] <=> connected[b]) /\ (isConnected'[b] <=> isConnected[b])
         /\ UNCHANGED <<library, started>>
<1>1. PICK success \in BOOLEAN :
        /\ success => library = "running"
        /\ connected' = [connected EXCEPT ![a] = success]
        /\ isConnected' = [isConnected EXCEPT ![a] = success]
        /\ UNCHANGED <<library, started>>
  BY DEF Connect
<1>2. QED
  BY <1>1 DEF TypeOK

LEMMA ConnectFirstIInv ==
  ASSUME IInv, ConnectFirst
  PROVE  IInv'
<1> USE DEF IInv
<1>1. /\ container = "connecting" /\ container' = "replacing" /\ Connect(fresh)
      /\ UNCHANGED <<simulate, service, adapter, cache, made, alive, fresh,
                     owner, pc, this, using, initialised, again, disturbed>>
  BY DEF ConnectFirst, Goto, pointers, heap, threadVars, history
<1>2. fresh \in Objects /\ fresh # NULL
  BY <1>1, PointersAreObjects DEF Heap, Places
<1>3. /\ connected' \in [Objects -> BOOLEAN] /\ isConnected' \in [Objects -> BOOLEAN]
      /\ isConnected'[fresh] => library = "running" /\ connected'[fresh]
      /\ UNCHANGED <<library, started>>
  BY <1>1, <1>2, ConnectResult
<1>4. TypeOK'
  BY <1>1, <1>3 DEF TypeOK, ContainerLabels
<1>5. Heap'
  BY <1>1 DEF Heap, Apart, Places, Alive, Pointers, BeforeSet
<1>6. SetUp' /\ Undisturbed'
  BY <1>1 DEF SetUp, Undisturbed
<1>7. Connection'
  BY <1>1, <1>2, <1>3 DEF Connection, BeforeSet, Current
<1>8. Library'
  BY <1>1, <1>3 DEF Library
<1>9. QED
  BY <1>4, <1>5, <1>6, <1>7, <1>8

LEMMA ReplaceIInv ==
  ASSUME IInv, Replace
  PROVE  IInv'
<1> USE DEF IInv
<1>1. /\ container = "replacing"
      /\ container' = IF adapter = NULL THEN "setting" ELSE "closing"
      /\ UNCHANGED <<simulate, service, adapter, cache, made, alive, fresh, library, started,
                     connected, isConnected, owner, pc, this, using, initialised, again,
                     disturbed>>
  BY DEF Replace, Goto, pointers, heap, adapters, threadVars, history
<1>2. TypeOK'
  BY <1>1 DEF TypeOK, ContainerLabels
<1>3. Heap'
  BY <1>1 DEF Heap, Apart, Places, Alive, Pointers, BeforeSet
<1>4. SetUp' /\ Undisturbed'
  BY <1>1 DEF SetUp, Undisturbed
<1>5. Connection' /\ Library'
  BY <1>1 DEF Connection, Library, BeforeSet, Current
<1>6. QED
  BY <1>2, <1>3, <1>4, <1>5

LEMMA SetAdapterIInv ==
  ASSUME IInv, SetAdapter
  PROVE  IInv'
<1> USE DEF IInv
<1>1. /\ container = "setting" /\ container' = "dropping" /\ adapter' = fresh
      /\ UNCHANGED <<simulate, service, cache, made, alive, fresh, library, started,
                     connected, isConnected, owner, pc, this, using, initialised, again,
                     disturbed>>
  BY DEF SetAdapter, Goto, heap, adapters, threadVars, history
<1>2. /\ fresh # NULL /\ alive = {service, cache, fresh} \ {NULL}
      /\ adapter # NULL => adapter \notin {service, cache, fresh}
  BY <1>1 DEF Heap, Apart, Places, Alive, BeforeSet
<1>3. TypeOK'
  BY <1>1 DEF TypeOK, ContainerLabels
<1>4. Heap'
  BY <1>1, <1>2 DEF Heap, Apart, Places, Alive, Pointers, BeforeSet
<1>5. SetUp' /\ Undisturbed'
  BY <1>1 DEF SetUp, Undisturbed
<1>6. Connection'
  BY <1>1, <1>2 DEF Connection, BeforeSet, Current
<1>7. Library'
  <2>1. adapter \notin alive
    BY <1>2, <1>1 DEF TypeOK, NULL
  <2>2. QED
    BY <1>1, <2>1 DEF Library
<1>8. QED
  BY <1>3, <1>4, <1>5, <1>6, <1>7

LEMMA ReplaceCacheIInv ==
  ASSUME IInv, ReplaceCache
  PROVE  IInv'
<1> USE DEF IInv
<1>1. /\ container = "dropping" /\ container' = "caching" /\ fresh # NULL
      /\ made' = made + 1 /\ alive' = (alive \ {cache}) \cup {made'}
      /\ UNCHANGED <<simulate, service, adapter, cache, fresh, library, started,
                     connected, isConnected, owner, pc, this, using, initialised, again,
                     disturbed>>
  BY DEF ReplaceCache, Goto, pointers, adapters, threadVars, history
<1>2. /\ adapter = fresh /\ service # NULL /\ service # adapter /\ made < MaxObjects
      /\ service # cache /\ alive = Pointers /\ adapter # NULL /\ adapter # cache
  BY <1>1 DEF Heap, Apart, Places, Alive, BeforeSet
<1>3. made' # NULL /\ made' \notin {service, adapter, cache}
  BY <1>1 DEF TypeOK, NULL
<1>4. alive' = {service, adapter, made'}
  BY <1>1, <1>2 DEF Pointers
<1>5. TypeOK'
  <2>1. made' \in 0 .. MaxObjects /\ alive' \subseteq 1 .. made' /\ container' \in ContainerLabels
    <3>1. made' \in 0 .. MaxObjects
      BY <1>1, <1>2, LifeCycleAssumption DEF TypeOK
    <3>2. alive \cup {made'} \subseteq 1 .. made'
      BY <1>1, LifeCycleAssumption DEF TypeOK
    <3>3. QED
      BY <1>1, <3>1, <3>2 DEF ContainerLabels
  <2>2. \A x \in 0 .. made : x \in 0 .. made'
    BY <1>1, <1>2 DEF TypeOK
  <2>3. /\ {service, adapter, cache, fresh}' \subseteq 0 .. made'
        /\ this' \in [Threads -> 0 .. made'] /\ using' \in [Threads -> 0 .. made']
    BY <1>1, <2>2 DEF TypeOK
  <2>4. QED
    BY <1>1, <2>1, <2>3 DEF TypeOK
<1>6. Heap'
  BY <1>1, <1>2, <1>3, <1>4 DEF Heap, Apart, Places, Alive, BeforeSet
<1>7. SetUp' /\ Undisturbed'
  BY <1>1 DEF SetUp, Undisturbed
<1>8. Connection' /\ Library'
  BY <1>1, <1>2, <1>4 DEF Connection, Library, BeforeSet, Current
<1>9. QED
  BY <1>5, <1>6, <1>7, <1>8

LEMMA SetCacheIInv ==
  ASSUME IInv, SetCache
  PROVE  IInv'
<1> USE DEF IInv
<1>1. /\ container = "caching" /\ container' = "idle" /\ cache' = made /\ fresh' = NULL
      /\ initialised'
      /\ UNCHANGED <<simulate, service, adapter, made, alive, library, started,
                     connected, isConnected, owner, pc, this, using, again, disturbed>>
  BY DEF SetCache, Goto, heap, adapters, threadVars, history
<1>2. /\ fresh # NULL /\ adapter = fresh /\ service # NULL /\ service # adapter
      /\ alive = {service, adapter, made} /\ made \notin {service, adapter} /\ made # NULL
  <2>1. /\ fresh # NULL /\ adapter = fresh /\ service # NULL /\ service # adapter
        /\ alive = {service, adapter, made} /\ made \notin {service, adapter}
    BY <1>1 DEF Heap, Apart, Places, Alive, BeforeSet
  <2>2. QED
    BY <2>1, PointersAreObjects
<1>3. TypeOK'
  <2>1. container' \in ContainerLabels /\ initialised' \in BOOLEAN
    BY DEF SetCache, Goto, ContainerLabels
  <2>2. {service, adapter, cache, fresh}' \subseteq 0 .. made'
    BY <1>1 DEF TypeOK, NULL
  <2>3. QED
    BY <1>1, <2>1, <2>2 DEF TypeOK
<1>4. Heap'
  BY <1>1, <1>2 DEF Heap, Apart, Places, Alive, Pointers, BeforeSet
<1>5. SetUp' /\ Undisturbed'
  BY <1>1, <1>2 DEF SetUp, Undisturbed
<1>6. Connection'
  BY <1>1, <1>2 DEF Connection, BeforeSet, Current
<1>7. Library'
  BY <1>1, <1>2 DEF Library
<1>8. QED
  BY <1>3, <1>4, <1>5, <1>6, <1>7

-----------------------------------------------------------------------------
\* Steps of remove, and of the destructors

\* The destructor goes from one place to the next.
LEMMA DestructorIInv ==
  ASSUME IInv, NEW from \in Deleting, NEW to \in Deleting, Goto(from, to),
         UNCHANGED <<simulate, pointers, heap, fresh, library, started, isConnected, owner,
                     threadVars, history>>,
         connected' \in [Objects -> BOOLEAN]
  PROVE  IInv'
<1> USE DEF IInv
<1>1. /\ container \in Deleting /\ container' \in Deleting
      /\ UNCHANGED <<simulate, service, adapter, cache, made, alive, fresh, library, started,
                     isConnected, owner, pc, this, using, initialised, again, disturbed>>
  BY DEF Goto, pointers, heap, threadVars, history
<1>2. TypeOK'
  BY <1>1 DEF TypeOK, ContainerLabels
<1>3. Heap'
  BY <1>1 DEF Heap, Apart, Places, Alive, Pointers, BeforeSet
<1>4. SetUp' /\ Undisturbed'
  BY <1>1 DEF SetUp, Undisturbed
<1>5. Connection'
  BY <1>1 DEF Connection, BeforeSet
<1>6. Library'
  BY <1>1 DEF Library
<1>7. QED
  BY <1>2, <1>3, <1>4, <1>5, <1>6

LEMMA FindUnconnectedIInv ==
  ASSUME IInv, FindUnconnected
  PROVE  IInv'
  BY DestructorIInv DEF FindUnconnected, adapters, IInv, TypeOK

LEMMA LockToCloseIInv ==
  ASSUME IInv, LockToClose
  PROVE  IInv'
  BY DestructorIInv DEF LockToClose, adapters, IInv, TypeOK

LEMMA DisconnectIInv ==
  ASSUME IInv, Disconnect
  PROVE  IInv'
<1>1. connected' \in [Objects -> BOOLEAN]
  BY DEF Disconnect, IInv, TypeOK
<1>2. QED
  BY <1>1, DestructorIInv DEF Disconnect

LEMMA StopLibraryIInv ==
  ASSUME IInv, StopLibrary
  PROVE  IInv'
<1> USE DEF IInv
<1>1. /\ container = "stopping"
      /\ container' = IF fresh = NULL THEN "dropping" ELSE "setting"
      /\ library' = IF started[adapter] THEN "down" ELSE library
      /\ alive' = alive \ {adapter}
      /\ UNCHANGED <<simulate, service, adapter, cache, made, fresh, started, connected,
                     isConnected, owner, pc, this, using, initialised, again, disturbed>>
  BY DEF StopLibrary, Goto, pointers, threadVars, history
<1>2. /\ adapter # NULL /\ adapter \notin {service, cache, fresh} /\ service # NULL
      /\ alive = (Pointers \cup {fresh}) \ {NULL}
  BY <1>1 DEF Heap, Apart, Places, Alive, BeforeSet
<1>3. TypeOK'
  <2>1. library' \in {"down", "up", "running"} /\ alive' \subseteq 1 .. made'
        /\ container' \in ContainerLabels
    BY <1>1 DEF TypeOK, ContainerLabels
  <2>2. QED
    BY <1>1, <2>1 DEF TypeOK
<1>4. Heap'
  <2>1. Apart'
    BY <1>1, <1>2 DEF Heap, Apart, BeforeSet
  <2>2. Places'
    BY <1>1, <1>2 DEF Heap, Places
  <2>3. Alive'
    BY <1>1, <1>2 DEF Alive, Pointers
  <2>4. QED
    BY <2>1, <2>2, <2>3 DEF Heap
<1>5. SetUp' /\ Undisturbed'
  BY <1>1 DEF SetUp, Undisturbed
<1>6. Connection'
  BY <1>1, <1>2 DEF Connection, BeforeSet, Current
<1>7. Library'
  BY <1>1, <1>2 DEF Library
<1>8. QED
  BY <1>3, <1>4, <1>5, <1>6, <1>7

LEMMA DropCacheIInv ==
  ASSUME IInv, DropCache
  PROVE  IInv'
<1> USE DEF IInv
<1>1. /\ container = "dropping" /\ container' = "deleting" /\ fresh = NULL
      /\ alive' = alive \ {cache}
      /\ UNCHANGED <<simulate, service, adapter, cache, made, fresh, library, started,
                     connected, isConnected, owner, pc, this, using, initialised, again,
                     disturbed>>
  BY DEF DropCache, Goto, pointers, adapters, threadVars, history
<1>2. /\ service # NULL /\ service \notin {cache, adapter} /\ alive = {service, cache} \ {NULL}
      /\ adapter # NULL => adapter # cache
  BY <1>1 DEF Heap, Apart, Places, Alive, BeforeSet
<1>3. TypeOK'
  BY <1>1 DEF TypeOK, ContainerLabels
<1>4. Heap'
  BY <1>1, <1>2 DEF Heap, Apart, Places, Alive, BeforeSet
<1>5. SetUp' /\ Undisturbed'
  BY <1>1 DEF SetUp, Undisturbed
<1>6. Connection'
  BY <1>1, <1>2 DEF Connection, BeforeSet, Current
<1>7. Library'
  <2>1. NULL \notin alive
    BY PointersAreObjects
  <2>2. adapter \notin alive /\ fresh \notin alive
    BY <1>1, <1>2, <2>1
  <2>3. QED
    BY <1>1, <2>2 DEF Library
<1>8. QED
  BY <1>3, <1>4, <1>5, <1>6, <1>7

LEMMA DeleteServiceIInv ==
  ASSUME IInv, DeleteService
  PROVE  IInv'
<1> USE DEF IInv
<1>1. /\ container = "deleting" /\ container' = "forgetting"
      /\ alive' = alive \ {service}
      /\ UNCHANGED <<simulate, service, adapter, cache, made, fresh, library, started,
                     connected, isConnected, owner, pc, this, using, initialised, again,
                     disturbed>>
  BY DEF DeleteService, Goto, pointers, adapters, threadVars, history
<1>2. fresh = NULL /\ service # NULL /\ alive = {service} /\ service # adapter
  BY <1>1 DEF Heap, Apart, Places, Alive, BeforeSet
<1>3. TypeOK'
  BY <1>1 DEF TypeOK, ContainerLabels
<1>4. Heap'
  BY <1>1, <1>2 DEF Heap, Apart, Places, Alive, BeforeSet
<1>5. SetUp' /\ Undisturbed'
  BY <1>1 DEF SetUp, Undisturbed
<1>6. Connection'
  BY <1>1, <1>2 DEF Connection, BeforeSet
<1>7. Library'
  <2>1. library # "running"
    BY <1>1, <1>2 DEF Library
  <2>2. QED
    BY <1>1, <2>1 DEF Library
<1>8. QED
  BY <1>3, <1>4, <1>5, <1>6, <1>7

LEMMA ForgetIInv ==
  ASSUME IInv, Forget
  PROVE  IInv'
<1> USE DEF IInv
<1>1. /\ container = "forgetting" /\ container' = "idle"
      /\ service' = NULL /\ adapter' = NULL /\ cache' = NULL
      /\ UNCHANGED <<simulate, made, alive, fresh, library, started, connected, isConnected,
                     owner, pc, this, using, initialised, again, disturbed>>
  BY DEF Forget, Goto, heap, adapters, threadVars, history
<1>2. fresh = NULL /\ alive = {}
  BY <1>1 DEF Heap, Places, Alive
<1>3. TypeOK'
  BY <1>1 DEF TypeOK, ContainerLabels, NULL
<1>4. Heap'
  BY <1>1, <1>2 DEF Heap, Apart, Places, Alive, Pointers, BeforeSet
<1>5. SetUp' /\ Undisturbed'
  BY <1>1 DEF SetUp, Undisturbed
<1>6. Connection'
  BY <1>1, <1>2 DEF Connection, BeforeSet, Current
<1>7. Library'
  BY <1>1, <1>2 DEF Library
<1>8. QED
  BY <1>3, <1>4, <1>5, <1>6, <1>7

-----------------------------------------------------------------------------
\* Requests

\* What the threads leave alone, when none of them connects.
LEMMA RequestsLeaveAlone ==
  ASSUME IInv,
         UNCHANGED <<simulate, pointers, heap, container, fresh, adapters, initialised, again>>
  PROVE  Heap' /\ SetUp' /\ Connection' /\ Library'
<1> USE DEF IInv
<1>1. UNCHANGED <<simulate, service, adapter, cache, made, alive, container, fresh, library,
                  started, connected, isConnected, initialised, again>>
  BY DEF pointers, heap, adapters
<1>2. Heap'
  BY <1>1 DEF Heap, Apart, Places, Alive, Pointers
<1>3. SetUp' /\ Library'
  BY <1>1 DEF SetUp, Library
<1>4. Connection'
  BY <1>1 DEF Connection, Current
<1>5. QED
  BY <1>2, <1>3, <1>4

\* A step that only moves a thread, on to where its request is not lost.
LEMMA MoveIInv ==
  ASSUME IInv, NEW t \in Threads, NEW from \in {"serving", "locking", "holding"},
         NEW to \in {"serving", "locking", "holding"}, ThreadAt(t, from, to),
         UNCHANGED <<simulate, pointers, heap, container, fresh, adapters, this, history>>,
         owner' \in [Objects -> Threads \cup {None}],
         using' \in [Threads -> 0 .. made],
         \A u \in Threads \ {t} : using'[u] = using[u],
         to \in {"locking", "holding"} =>
            using'[t] = IF from = "serving" THEN adapter ELSE using[t]
  PROVE  IInv'
<1> USE DEF IInv
<1>1. /\ pc[t] = from /\ pc' = [pc EXCEPT ![t] = to]
      /\ UNCHANGED <<simulate, service, adapter, cache, made, alive, container, fresh, library,
                     started, connected, isConnected, this, initialised, again, disturbed>>
  BY DEF ThreadAt, pointers, heap, adapters, history
<1>2. TypeOK'
  <2>1. /\ pc' \in [Threads -> {"idle", "serving", "locking", "holding", "lost"}]
        /\ \A u \in Threads : pc'[u] = "idle" <=> this[u] = NULL
    BY <1>1 DEF TypeOK
  <2>2. QED
    BY <1>1, <2>1 DEF TypeOK
<1>3. Undisturbed'
  <2> SUFFICES ASSUME NEW u \in Threads, pc'[u] # "idle", ~ disturbed[u]
               PROVE  /\ pc'[u] # "lost" /\ container = "idle" /\ initialised
                      /\ service # NULL /\ this[u] = service
                      /\ pc'[u] \in {"locking", "holding"} => using'[u] = adapter
    BY <1>1 DEF Undisturbed
  <2>1. CASE u = t
    <3>1. pc[t] = from /\ pc'[t] = to /\ pc[t] # "idle"
      BY <1>1 DEF TypeOK
    <3>2. QED
      BY <2>1, <3>1 DEF Undisturbed
  <2>2. CASE u # t
    <3>1. pc'[u] = pc[u] /\ using'[u] = using[u]
      BY <1>1, <2>2 DEF TypeOK
    <3>2. QED
      BY <3>1 DEF Undisturbed
  <2>3. QED
    BY <2>1, <2>2
<1>4. Heap' /\ SetUp' /\ Connection' /\ Library'
  BY <1>1, RequestsLeaveAlone DEF pointers, heap, adapters
<1>5. QED
  BY <1>2, <1>3, <1>4

LEMMA DispatchIInv ==
  ASSUME IInv, NEW t \in Threads, Dispatch(t)
  PROVE  IInv'
<1> USE DEF IInv
<1>1. /\ pc[t] = "idle" /\ pc' = [pc EXCEPT ![t] = "serving"] /\ service # NULL
      /\ this' = [this EXCEPT ![t] = service]
      /\ disturbed' = [disturbed EXCEPT ![t] = container # "idle" \/ ~ initialised]
      /\ UNCHANGED <<simulate, service, adapter, cache, made, alive, container, fresh, library,
                     started, connected, isConnected, owner, using, initialised, again>>
  BY DEF Dispatch, ThreadAt, pointers, heap, adapters
<1>2. TypeOK'
  <2>1. /\ pc' \in [Threads -> {"idle", "serving", "locking", "holding", "lost"}]
        /\ this' \in [Threads -> 0 .. made] /\ disturbed' \in [Threads -> BOOLEAN]
        /\ \A u \in Threads : pc'[u] = "idle" <=> this'[u] = NULL
    BY <1>1 DEF TypeOK
  <2>2. QED
    BY <1>1, <2>1 DEF TypeOK
<1>3. Undisturbed'
  <2> SUFFICES ASSUME NEW u \in Threads, pc'[u] # "idle", ~ disturbed'[u]
               PROVE  /\ pc'[u] # "lost" /\ container = "idle" /\ initialised
                      /\ service # NULL /\ this'[u] = service
                      /\ pc'[u] \in {"locking", "holding"} => using[u] = adapter
    BY <1>1 DEF Undisturbed
  <2>1. CASE u = t
    BY <1>1, <2>1 DEF TypeOK
  <2>2. CASE u # t
    <3>1. pc'[u] = pc[u] /\ this'[u] = this[u] /\ (disturbed'[u] <=> disturbed[u])
      BY <1>1, <2>2 DEF TypeOK
    <3>2. QED
      BY <3>1 DEF Undisturbed
  <2>3. QED
    BY <2>1, <2>2
<1>4. Heap' /\ SetUp' /\ Connection' /\ Library'
  BY <1>1, RequestsLeaveAlone DEF pointers, heap, adapters
<1>5. QED
  BY <1>2, <1>3, <1>4

\* Only a request that the container got in the way of is lost.
LEMMA LoseTrackIInv ==
  ASSUME IInv, NEW t \in Threads, LoseTrack(t)
  PROVE  IInv'
<1> USE DEF IInv
<1>1. /\ pc[t] \in {"serving", "locking", "holding"} /\ pc' = [pc EXCEPT ![t] = "lost"]
      /\ \/ ~ ({this[t], adapter} \subseteq alive /\ {this[t], cache} \subseteq alive)
         \/ pc[t] # "serving" /\ using[t] \notin alive
      /\ UNCHANGED <<simulate, service, adapter, cache, made, alive, container, fresh, library,
                     started, connected, isConnected, owner, this, using, initialised, again,
                     disturbed>>
  BY DEF LoseTrack, ThreadAt, Usable, pointers, heap, adapters, history
<1>2. disturbed[t]
  <2> SUFFICES ASSUME ~ disturbed[t] PROVE FALSE
    OBVIOUS
  <2>1. /\ container = "idle" /\ initialised /\ service # NULL /\ this[t] = service
        /\ pc[t] # "serving" => using[t] = adapter
    BY <1>1 DEF Undisturbed
  <2>2. adapter # NULL /\ cache # NULL /\ alive = {service, adapter, cache} \ {NULL}
    BY <2>1 DEF SetUp, Heap, Places, Alive, Pointers
  <2>3. QED
    BY <1>1, <2>1, <2>2
<1>3. TypeOK'
  <2>1. /\ pc' \in [Threads -> {"idle", "serving", "locking", "holding", "lost"}]
        /\ \A u \in Threads : pc'[u] = "idle" <=> this[u] = NULL
    BY <1>1 DEF TypeOK
  <2>2. QED
    BY <1>1, <2>1 DEF TypeOK
<1>4. Undisturbed'
  <2> SUFFICES ASSUME NEW u \in Threads, pc'[u] # "idle", ~ disturbed[u]
               PROVE  /\ pc'[u] # "lost" /\ container = "idle" /\ initialised
                      /\ service # NULL /\ this[u] = service
                      /\ pc'[u] \in {"locking", "holding"} => using[u] = adapter
    BY <1>1 DEF Undisturbed
  <2>1. u # t
    BY <1>2
  <2>2. pc'[u] = pc[u]
    BY <1>1, <2>1 DEF TypeOK
  <2>3. QED
    BY <2>2 DEF Undisturbed
<1>5. Heap' /\ SetUp' /\ Connection' /\ Library'
  BY <1>1, RequestsLeaveAlone DEF pointers, heap, adapters
<1>6. QED
  BY <1>3, <1>4, <1>5

LEMMA EnterAdapterIInv ==
  ASSUME IInv, NEW t \in Threads, EnterAdapter(t)
  PROVE  IInv'
<1>1. /\ using' \in [Threads -> 0 .. made] /\ using'[t] = adapter
      /\ \A u \in Threads \ {t} : using'[u] = using[u]
      /\ owner' \in [Objects -> Threads \cup {None}]
  BY DEF EnterAdapter, IInv, TypeOK
<1>2. QED
  BY <1>1, MoveIInv DEF EnterAdapter

LEMMA LockAdapterIInv ==
  ASSUME IInv, NEW t \in Threads, LockAdapter(t)
  PROVE  IInv'
<1>1. /\ using' \in [Threads -> 0 .. made] /\ using' = using
      /\ owner' \in [Objects -> Threads \cup {None}]
  BY DEF LockAdapter, IInv, TypeOK
<1>2. QED
  BY <1>1, MoveIInv DEF LockAdapter

LEMMA GiveUpIInv ==
  ASSUME IInv, NEW t \in Threads, GiveUp(t)
  PROVE  IInv'
<1>1. /\ using' \in [Threads -> 0 .. made] /\ using' = using
      /\ owner' \in [Objects -> Threads \cup {None}]
  BY DEF GiveUp, IInv, TypeOK
<1>2. QED
  BY <1>1, MoveIInv DEF GiveUp

LEMMA LeaveIInv ==
  ASSUME IInv, NEW t \in Threads, Leave(t)
  PROVE  IInv'
<1>1. owner' \in [Objects -> Threads \cup {None}] /\ using' \in [Threads -> 0 .. made]
  BY DEF Leave, IInv, TypeOK
<1>2. CASE simulate \/ isConnected[using[t]]
  BY <1>1, <1>2, MoveIInv DEF Leave
<1>3. CASE ~ simulate /\ ~ isConnected[using[t]]
  <2> USE DEF IInv
  <2>1. /\ pc[t] = "holding" /\ pc' = [pc EXCEPT ![t] = "serving"] /\ using[t] \in alive
        /\ Connect(using[t])
        /\ UNCHANGED <<simulate, service, adapter, cache, made, alive, container, fresh, this,
                       using, initialised, again, disturbed>>
    BY <1>3 DEF Leave, ThreadAt, pointers, heap, history
  <2>2. using[t] \in Objects
    BY <2>1, PointersAreObjects
  <2>3. /\ connected' \in [Objects -> BOOLEAN] /\ isConnected' \in [Objects -> BOOLEAN]
        /\ isConnected'[using[t]] => library = "running" /\ connected'[using[t]]
        /\ \A b \in Objects : b # using[t] =>
               (connected'[b] <=> connected[b]) /\ (isConnected'[b] <=> isConnected[b])
        /\ UNCHANGED <<library, started>>
    BY <2>1, <2>2, ConnectResult
  <2>4. TypeOK'
    <3>1. /\ pc' \in [Threads -> {"idle", "serving", "locking", "holding", "lost"}]
          /\ \A u \in Threads : pc'[u] = "idle" <=> this[u] = NULL
      BY <2>1 DEF TypeOK
    <3>2. QED
      BY <1>1, <2>1, <2>3, <3>1 DEF TypeOK
  <2>5. Undisturbed'
    <3> SUFFICES ASSUME NEW u \in Threads, pc'[u] # "idle", ~ disturbed[u]
                 PROVE  /\ pc'[u] # "lost" /\ container = "idle" /\ initialised
                        /\ service # NULL /\ this[u] = service
                        /\ pc'[u] \in {"locking", "holding"} => using[u] = adapter
      BY <2>1 DEF Undisturbed
    <3>1. /\ (pc[u] # "idle" /\ pc'[u] # "lost") \/ pc[u] = "lost"
          /\ pc'[u] \in {"locking", "holding"} => pc[u] = pc'[u]
      BY <2>1 DEF TypeOK
    <3>2. QED
      BY <3>1 DEF Undisturbed
  <2>6. Heap'
    BY <2>1 DEF Heap, Apart, Places, Alive, Pointers
  <2>7. SetUp' /\ Library'
    BY <2>1, <2>3 DEF SetUp, Library
  <2>8. Connection'
    <3>1. Current # NULL => Current \in Objects
      BY PointersAreObjects DEF Current
    <3>2. Current # NULL /\ isConnected'[Current] =>
             \/ library' = "running" /\ connected'[Current]
             \/ isConnected[Current] /\ (connected'[Current] <=> connected[Current])
      BY <2>3, <3>1
    <3>3. Current' = Current
      BY <2>1 DEF Current
    <3>4. QED
      BY <2>1, <2>3, <3>2, <3>3 DEF Connection
  <2>9. QED
    BY <2>4, <2>5, <2>6, <2>7, <2>8
<1>4. QED
  BY <1>2, <1>3

LEMMA AnswerIInv ==
  ASSUME IInv, NEW t \in Threads, Answer(t)
  PROVE  IInv'
<1> USE DEF IInv
<1>1. /\ pc[t] = "serving" /\ pc' = [pc EXCEPT ![t] = "idle"]
      /\ this' = [this EXCEPT ![t] = NULL] /\ using' = [using EXCEPT ![t] = NULL]
      /\ disturbed' = [disturbed EXCEPT ![t] = FALSE]
      /\ UNCHANGED <<simulate, service, adapter, cache, made, alive, container, fresh, library,
                     started, connected, isConnected, owner, initialised, again>>
  BY DEF Answer, ThreadAt, pointers, heap, adapters
<1>2. TypeOK'
  <2>1. NULL \in 0 .. made
    BY DEF TypeOK, NULL
  <2>2. /\ pc' \in [Threads -> {"idle", "serving", "locking", "holding", "lost"}]
        /\ this' \in [Threads -> 0 .. made] /\ using' \in [Threads -> 0 .. made]
        /\ disturbed' \in [Threads -> BOOLEAN]
        /\ \A u \in Threads : pc'[u] = "idle" <=> this'[u] = NULL
    BY <1>1, <2>1 DEF TypeOK
  <2>3. QED
    BY <1>1, <2>2 DEF TypeOK
<1>3. Undisturbed'
  <2> SUFFICES ASSUME NEW u \in Threads, pc'[u] # "idle", ~ disturbed'[u]
               PROVE  /\ pc'[u] # "lost" /\ container = "idle" /\ initialised
                      /\ service # NULL /\ this'[u] = service
                      /\ pc'[u] \in {"locking", "holding"} => using'[u] = adapter
    BY <1>1 DEF Undisturbed
  <2>1. u # t
    BY <1>1 DEF TypeOK
  <2>2. /\ pc'[u] = pc[u] /\ this'[u] = this[u] /\ using'[u] = using[u]
        /\ disturbed'[u] <=> disturbed[u]
    BY <1>1, <2>1 DEF TypeOK
  <2>3. QED
    BY <2>2 DEF Undisturbed
<1>4. Heap' /\ SetUp' /\ Connection' /\ Library'
  BY <1>1, RequestsLeaveAlone DEF pointers, heap, adapters
<1>5. QED
  BY <1>2, <1>3, <1>4

-----------------------------------------------------------------------------
\* The invariant, and what it implies

LEMMA StepIInv == IInv /\ [Next]_vars => IInv'
<1> SUFFICES ASSUME IInv, [Next]_vars PROVE IInv'
  OBVIOUS
<1>1. ASSUME ContainerCall PROVE IInv'
  BY <1>1, CreateIInv, StartInitIInv, StartRemoveIInv DEF ContainerCall
<1>2. ASSUME InitStep PROVE IInv'
  BY <1>2, StartLibraryIInv, ConnectFirstIInv, ReplaceIInv, SetAdapterIInv, ReplaceCacheIInv,
     SetCacheIInv DEF InitStep
<1>3. ASSUME RemoveStep PROVE IInv'
  BY <1>3, FindUnconnectedIInv, LockToCloseIInv, DisconnectIInv, StopLibraryIInv, DropCacheIInv,
     DeleteServiceIInv, ForgetIInv DEF RemoveStep
<1>4. ASSUME NEW t \in Threads, Dispatch(t) \/ ServeStep(t) \/ Leave(t) PROVE IInv'
  BY <1>4, DispatchIInv, EnterAdapterIInv, LockAdapterIInv, GiveUpIInv, LoseTrackIInv,
     AnswerIInv, LeaveIInv DEF ServeStep
<1>5. ASSUME UNCHANGED vars PROVE IInv'
  <2>1. UNCHANGED <<simulate, pointers, heap, container, fresh, adapters, initialised, again>>
        /\ UNCHANGED <<owner, pc, this, using, disturbed>>
    BY <1>5 DEF vars, threadVars, history
  <2>2. Heap' /\ SetUp' /\ Connection' /\ Library'
    BY <2>1, RequestsLeaveAlone
  <2>3. TypeOK' /\ Undisturbed'
    BY <2>1 DEF pointers, heap, adapters, IInv, TypeOK, Undisturbed
  <2>4. QED
    BY <2>2, <2>3 DEF IInv
<1>6. QED
  BY <1>1, <1>2, <1>3, <1>4, <1>5 DEF Next, ContainerStep

LEMMA Invariance == Spec => []IInv
  BY InitIInv, StepIInv, PTL DEF Spec

\* Every variable has its type, and no object is pointed to before it is made.
THEOREM LifeCycleTypes == Spec => []TypeOK
<1>1. IInv => TypeOK
  BY DEF IInv
<1>2. QED
  BY <1>1, Invariance, PTL

\* Only a request the container got in the way of uses a pointer to nothing
\* (DhsService.cpp:134-144, 222-231): for any threads, any number of services,
\* adapters and caches, and any order of the container's calls.
THEOREM RequestsLeftInPeaceAreServed == Spec => []UndisturbedAreServed
<1>1. IInv => UndisturbedAreServed
  BY DEF IInv, Undisturbed, UndisturbedAreServed, Lost
<1>2. QED
  BY <1>1, Invariance, PTL

\* Whatever is made is deleted, nothing is deleted that was deleted before, and
\* nothing that is pointed to between the container's calls has been deleted
\* (DhsService.cpp:53-60, DhsService.h:250-262).
THEOREM NothingIsLeftOver == Spec => []NothingLeftOver
<1>1. ASSUME IInv PROVE NothingLeftOver
  <2> USE <1>1 DEF IInv, Heap
  <2>1. container = "idle" => alive = {service, adapter, cache} \ {NULL}
    BY DEF Alive, Pointers
  <2>2. container \in Deleting => adapter \in alive
    BY DEF Places, Alive, Pointers
  <2>3. container = "dropping" => cache \in alive \cup {NULL}
    BY DEF Alive, Pointers
  <2>4. container = "deleting" => service \in alive
    BY DEF Alive
  <2>5. QED
    BY <2>1, <2>2, <2>3, <2>4 DEF NothingLeftOver, DeletedOnce
<1>2. QED
  BY <1>1, Invariance, PTL

\* An adapter that takes itself for connected is (DhsAdapter.cpp:17-36, 62-74),
\* unless the service was set up again.
THEOREM ConnectionsAreReal == Spec => []ConnectedOverLibrary
<1>1. IInv => ConnectedOverLibrary
  <2> SUFFICES ASSUME IInv, NEW t \in Threads, pc[t] = "holding", ~ simulate,
                      isConnected[using[t]], ~ disturbed[t], ~ again
               PROVE  library = "running" /\ connected[using[t]]
    BY DEF ConnectedOverLibrary
  <2>1. container = "idle" /\ initialised /\ service # NULL /\ using[t] = adapter
    BY DEF IInv, Undisturbed
  <2>2. adapter # NULL /\ Current = adapter
    BY <2>1 DEF IInv, SetUp, Heap, Places, Current
  <2>3. QED
    BY <2>1, <2>2 DEF IInv, Connection
<1>2. QED
  BY <1>1, Invariance, PTL

\* The library's loop is stopped when the service is gone, although the member
\* that says whether to stop it may be left unwritten (DhsAdapter.cpp:31, 46).
THEOREM LibraryIsStopped == Spec => []LibraryStops
<1>1. IInv => LibraryStops
  BY DEF IInv, Heap, Alive, Places, Pointers, Library, LibraryStops
<1>2. QED
  BY <1>1, Invariance, PTL

=============================================================================
