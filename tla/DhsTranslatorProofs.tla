------------------------ MODULE DhsTranslatorProofs ------------------------
(***************************************************************************)
(* Proofs about DhsTranslator, for any set of threads, requests and        *)
(* values: in it the adapter behaves as DhsAdapter says and the handlers   *)
(* as DhsService says, so what is proved of each holds of both together.   *)
(***************************************************************************)
EXTENDS DhsTranslator, DhsServiceProofs

DP == INSTANCE DhsAdapterProofs WITH pc <- place

-----------------------------------------------------------------------------

\* The instances made here and in DhsTranslator define the same things.
LEMMA SameCalls ==
  /\ Adapter!Calls = DP!Calls
  /\ Dhs!Calls = DP!Calls
  /\ Adapter!CreateImageCall = DP!CreateImageCall
  /\ Dhs!CreateImageCall = DP!CreateImageCall
  /\ \A c : Adapter!NeedsDhs(c) <=> DP!NeedsDhs(c)
  /\ \A c : Dhs!NeedsDhs(c) <=> DP!NeedsDhs(c)
  /\ \A c : Adapter!EffectsOf(c) = DP!EffectsOf(c)
  /\ \A c : Dhs!EffectsOf(c) = DP!EffectsOf(c)
  /\ \A s, id : Adapter!Reply(s, id) = DP!Reply(s, id)
  /\ \A s, id : Dhs!Reply(s, id) = DP!Reply(s, id)
  /\ Adapter!Effects = DP!Effects
  /\ Adapter!Replies = DP!Replies
BY DEF Adapter!Calls, Dhs!Calls, DP!Calls, Adapter!SetterCalls, Dhs!SetterCalls,
       DP!SetterCalls, Adapter!CreateImageCall, Dhs!CreateImageCall,
       DP!CreateImageCall, Adapter!LifetimeCall, Dhs!LifetimeCall,
       DP!LifetimeCall, Adapter!ContribCall, Dhs!ContribCall, DP!ContribCall,
       Adapter!KeywordsCall, Dhs!KeywordsCall, DP!KeywordsCall,
       Adapter!NeedsDhs, Dhs!NeedsDhs, DP!NeedsDhs, Adapter!ImageCreated,
       Dhs!ImageCreated, DP!ImageCreated, Adapter!EffectsOf, Dhs!EffectsOf,
       DP!EffectsOf, Adapter!Reply, Dhs!Reply, DP!Reply, Adapter!Effects,
       DP!Effects, Adapter!Replies, DP!Replies

LEMMA SameCallSteps ==
  ASSUME NEW t \in Threads
  PROVE  /\ \A c : Dhs!Enter(t, c) <=> DP!Enter(t, c)
         /\ Dhs!Resume(t) <=> DP!Resume(t)
BY DEF Dhs!Enter, DP!Enter, Dhs!Resume, DP!Resume, Dhs!Goto, DP!Goto,
       Dhs!connectionVars, DP!connectionVars

LEMMA SameLocalSteps ==
  ASSUME NEW t \in Threads
  PROVE  Dhs!LocalStep(t) <=> DP!LocalStep(t)
<1> USE DEF Dhs!connectionVars, DP!connectionVars
<1>1. /\ \A l : Dhs!Goto(t, l) <=> DP!Goto(t, l)
      /\ \A r : Dhs!Leave(t, r) <=> DP!Leave(t, r)
  BY DEF Dhs!Goto, DP!Goto, Dhs!Leave, DP!Leave
<1>2. /\ \A a, b : Dhs!Acquire(t, a, b) <=> DP!Acquire(t, a, b)
      /\ \A a, b : Dhs!Release(t, a, b) <=> DP!Release(t, a, b)
      /\ \A a : Dhs!Timeout(t, a) <=> DP!Timeout(t, a)
  BY <1>1
     DEF Dhs!adapterVars, DP!adapterVars, Dhs!Acquire, DP!Acquire, Dhs!Release, DP!Release, Dhs!Timeout, DP!Timeout
<1>3. /\ Dhs!AlreadyConnected(t) <=> DP!AlreadyConnected(t)
      /\ Dhs!ReadConnected(t) <=> DP!ReadConnected(t)
      /\ Dhs!BuildList(t) <=> DP!BuildList(t)
      /\ Dhs!Return(t) <=> DP!Return(t)
  BY <1>1, SameCalls
     DEF Dhs!AlreadyConnected, DP!AlreadyConnected, Dhs!ReadConnected,
         DP!ReadConnected, Dhs!BuildList, DP!BuildList, Dhs!Return, DP!Return,
         Dhs!adapterVars, DP!adapterVars
<1>4. QED
  BY <1>2, <1>3
     DEF Dhs!LocalStep, DP!LocalStep, Dhs!ConnLock, DP!ConnLock,
         Dhs!ConnTimeout, DP!ConnTimeout, Dhs!ConnUnlock, DP!ConnUnlock,
         Dhs!OpLock, DP!OpLock, Dhs!OpTimeout, DP!OpTimeout, Dhs!OpUnlock,
         DP!OpUnlock

LEMMA SameDhsSteps ==
  ASSUME NEW t \in Threads
  PROVE  Dhs!DhsStep(t) <=> DP!DhsStep(t)
<1> USE DEF Dhs!connectionVars, DP!connectionVars
<1>1. \A l : Dhs!Goto(t, l) <=> DP!Goto(t, l)
  BY DEF Dhs!Goto, DP!Goto
<1>2. Dhs!TakeEffect(t) <=> DP!TakeEffect(t)
  BY SameCalls DEF Dhs!TakeEffect, DP!TakeEffect
<1>3. /\ Dhs!Connect(t) <=> DP!Connect(t)
      /\ Dhs!DhsReturns(t) <=> DP!DhsReturns(t)
  BY <1>1
     DEF Dhs!Connect, DP!Connect, Dhs!DhsReturns, DP!DhsReturns,
         Dhs!adapterVars, DP!adapterVars
<1>4. Dhs!DhsApplies(t) <=> DP!DhsApplies(t)
  BY <1>2 DEF Dhs!DhsApplies, DP!DhsApplies, Dhs!locals, DP!locals
<1>5. QED
  BY <1>3, <1>4 DEF Dhs!DhsStep, DP!DhsStep

\* What the interface lets the adapter do, here and in the proofs about it.
LEMMA SameAnswers ==
  ASSUME NEW t \in Threads
  PROVE  /\ Adapter!TakeEffect(t) <=> DP!TakeEffect(t)
         /\ Adapter!Succeed(t) <=> DP!Succeed(t)
         /\ Adapter!Fail(t) <=> DP!Fail(t)
BY SameCalls
   DEF Adapter!TakeEffect, DP!TakeEffect, Adapter!Succeed, DP!Succeed,
       Adapter!Fail, DP!Fail

-----------------------------------------------------------------------------

\* To the adapter every step of the translator is one of its own or none.
LEMMA StepUsesDhs == [TranslatorNext]_allVars => [DP!DhsNext]_(DP!vars)
<1> SUFFICES ASSUME [TranslatorNext]_allVars
             PROVE  [DP!DhsNext]_(DP!vars)
  OBVIOUS
<1>1. ASSUME UNCHANGED <<adapterVars, dhsVars>>
      PROVE  UNCHANGED DP!vars
  BY <1>1
     DEF dhsVars, adapterVars, DP!vars, DP!adapterVars, DP!locals,
         DP!connectionVars
<1>2. ASSUME NEW t \in Threads, HandlerStep(t)
      PROVE  [DP!DhsNext]_(DP!vars)
  BY <1>1, <1>2, SameCallSteps, SameCalls DEF HandlerStep, AdapterSide, DP!DhsNext
<1>3. ASSUME NEW t \in Threads, LocalStep(t) \/ DhsStep(t)
      PROVE  DP!DhsNext
  BY <1>3, SameLocalSteps, SameDhsSteps DEF LocalStep, DhsStep, DP!DhsNext
<1>4. CASE TickStep \/ (\E t \in Threads : ReceiveStep(t)) \/ UNCHANGED allVars
  BY <1>1, <1>4 DEF TickStep, Tick, ReceiveStep, Receive, allVars, vars
<1>5. QED
  BY <1>2, <1>3, <1>4 DEF TranslatorNext

\* So the adapter's specification, and its invariants, hold in the translator.
LEMMA TranslatorUsesDhs == TranslatorSpec => DP!DhsSpec
<1>1. TranslatorInit => DP!DhsInit
  BY DEF TranslatorInit, Dhs!DhsInit, DP!DhsInit, Dhs!Init, DP!Init
<1>2. QED
  BY <1>1, StepUsesDhs, PTL DEF TranslatorSpec, DP!DhsSpec

LEMMA DhsAssumptions ==
  /\ None \notin Threads \cup ImageIds \cup Lifetimes
  /\ None \notin DP!Calls \cup DP!Effects \cup DP!Replies
  /\ None \notin {"success", "error"}
BY AdapterAssumption, SameCalls

LEMMA DhsInvariant == TranslatorSpec => []DP!IInv
<1>1. DP!DhsSpec => [](DP!IInv /\ DP!InterfaceInv)
  BY DP!Invariant, DhsAssumptions
<1>2. QED
  BY <1>1, TranslatorUsesDhs, PTL

\* To the handlers a step in the adapter is one the interface allows, or none.
LEMMA StepImplementsService == DP!IInv /\ [TranslatorNext]_allVars => [Next]_vars
<1> SUFFICES ASSUME DP!IInv, [TranslatorNext]_allVars
             PROVE  [Next]_vars
  OBVIOUS
<1>1. ASSUME NEW t \in Threads, LocalStep(t)
      PROVE  [Next]_vars
  <2>1. DP!LocalStep(t) /\ UNCHANGED <<threadVars, cacheVars>>
    BY <1>1, SameLocalSteps DEF LocalStep
  <2>2. UNCHANGED DP!adapterVars \/ DP!Succeed(t) \/ DP!Fail(t)
    BY <2>1, DP!LocalStepImplements, DhsAssumptions
  <2>3. QED
    BY <2>1, <2>2, SameAnswers
       DEF Next, AdapterStep, vars, adapterVars, DP!adapterVars
<1>2. ASSUME NEW t \in Threads, DhsStep(t)
      PROVE  [Next]_vars
  <2>1. DP!DhsStep(t) /\ UNCHANGED <<threadVars, cacheVars>>
    BY <1>2, SameDhsSteps DEF DhsStep
  <2>2. UNCHANGED DP!adapterVars \/ DP!TakeEffect(t)
    BY <2>1, DP!DhsStepImplements, DhsAssumptions
  <2>3. QED
    BY <2>1, <2>2, SameAnswers
       DEF Next, AdapterStep, vars, adapterVars, DP!adapterVars
<1>3. QED
  BY <1>1, <1>2
     DEF TranslatorNext, TickStep, ReceiveStep, HandlerStep, Next, allVars

\* The handlers over the real adapter are what DhsService says they are over
\* anything that keeps the promises of IDhsAdapter.h: what its theorems say
\* holds of the translator (DhsService.cpp:248-264, 321-340, 381-392 with
\* DhsAdapter.cpp:79-243).
THEOREM TranslatorImplementsService == TranslatorSpec => ImplementsService
<1>1. TranslatorInit => Init
  BY DEF TranslatorInit
<1>2. QED
  BY <1>1, StepImplementsService, DhsInvariant, PTL
     DEF TranslatorSpec, ImplementsService, Spec

\* In the translator as deployed, a client told "success" can rely on its
\* request having been done on the DHS, although the wait for the mutex may
\* have run out in any of its calls (DhsAdapter.cpp:56, 85, 112, 142, 170).
THEOREM TranslatorSuccessIsReliable == TranslatorSpec => []SuccessIsApplied
BY TranslatorImplementsService, SuccessIsReliable DEF ImplementsService

\* Nor does the translator as deployed send a message again that was recorded
\* with a timestamp at most validAge ago (DhsService.cpp:381-392).
THEOREM TranslatorNotSentAgainEarly == TranslatorSpec => NoEarlyRepeat
BY TranslatorImplementsService, NotSentAgainEarly DEF ImplementsService

\* Nor does it skip one on account of a transmission made too long ago
\* (DhsService.h:218-220).
THEOREM TranslatorSkipsOnlyRecent == TranslatorSpec => SkipIsRecent
BY TranslatorImplementsService, SkipsOnlyRecent DEF ImplementsService

\* Whatever requests come in, the library, which is not reentrant, is used by
\* one thread at a time (DhsAdapter.cpp:56-74, 170-243).
THEOREM TranslatorUsesLibraryByOne == TranslatorSpec => []Dhs!MutualExclusion
<1>1. DP!IInv => Dhs!MutualExclusion
  BY DEF DP!IInv, DP!LockOwner, DP!Holding, Dhs!MutualExclusion, Dhs!Holding
<1>2. QED
  BY <1>1, DhsInvariant, PTL

-----------------------------------------------------------------------------
(***************************************************************************)
(* No request goes round in circles.                                       *)
(***************************************************************************)

\* The invariant that the adapter has in the translator, of its own variables.
PlaceTypeOK ==
    /\ place \in [Threads -> DOMAIN CallSteps]
    /\ call \in [Threads -> Adapter!Calls \cup {None}]
    /\ done \in [Threads -> Adapter!Effects \cup {None}]
    /\ reply \in [Threads -> Adapter!Replies \cup {None}]

LEMMA PlaceTypes == DP!IInv => PlaceTypeOK
BY SameCalls DEF DP!IInv, DP!DhsTypeOK, DP!TypeOK, PlaceTypeOK, CallSteps

\* Where a handler goes from where it is.
Onwards(t) ==
    \/ pc[t] = "invoke" /\ pc'[t] \in {"creating", "lifetime", "purge", "respond"}
    \/ pc[t] = "creating" /\ pc'[t] \in {"lifetime", "respond"}
    \/ pc[t] = "lifetime" /\ pc'[t] \in {"settingLifetime", "contributors"}
    \/ pc[t] = "settingLifetime" /\ pc'[t] \in {"contributors", "respond"}
    \/ pc[t] = "contributors" /\ pc'[t] \in {"settingContributors", "respond"}
    \/ pc[t] = "settingContributors" /\ pc'[t] = "respond"
    \/ pc[t] = "purge" /\ pc'[t] = "check"
    \/ pc[t] = "check" /\ pc'[t] \in {"sending", "respond"}
    \/ pc[t] = "sending" /\ pc'[t] \in {"record", "respond"}
    \/ pc[t] = "record" /\ pc'[t] = "respond"
    \/ pc[t] = "respond" /\ pc'[t] = "idle"

LEMMA HandlersGoOn ==
  ASSUME ServiceInv, NEW t \in Threads, Handle(t)
  PROVE  Closer(t)
<1>1. Onwards(t)
  <2>1. CASE \/ DispatchOther(t) \/ Respond(t) \/ CreateImage(t) \/ ImageCreated(t)
             \/ SetParameters(t) \/ SetKeywords(t)
    BY <2>1
       DEF DispatchOther, Respond, CreateImage, ImageCreated, SetParameters,
           SetKeywords, Answer, AnswerError, CallAdapter, Goto, ServiceInv,
           ThreadTypeOK, Onwards
  <2>2. CASE \/ SetLifetime(t) \/ LifetimeSet(t) \/ SetContributors(t)
             \/ ContributorsSet(t)
    BY <2>2
       DEF SetLifetime, LifetimeSet, SetContributors, ContributorsSet, Answer,
           AnswerError, AnswerSuccess, CallAdapter, Goto, ServiceInv,
           ThreadTypeOK, Onwards
  <2>3. CASE Purge(t) \/ CheckTransaction(t) \/ KeywordsSent(t) \/ RecordTransaction(t)
    BY <2>3
       DEF Purge, CheckTransaction, KeywordsSent, RecordTransaction, Answer,
           AnswerError, CallAdapter, Goto, ServiceInv, ThreadTypeOK, Onwards
  <2>4. QED
    BY <2>1, <2>2, <2>3 DEF Handle
<1>2. HandlerSteps[pc'[t]] < HandlerSteps[pc[t]]
  BY <1>1 DEF Onwards, HandlerSteps
<1>3. QED
  BY <1>2 DEF Closer, HandlerStepsLeft

\* Where a call goes from where it is.
OnwardsInCall(t) ==
    \/ place[t] = "connLock" /\ place'[t] \in {"checking", "return"}
    \/ place[t] = "checking" /\ place'[t] = "connUnlock"
    \/ place[t] = "connUnlock" /\ place'[t] = "readState"
    \/ place[t] = "readState" /\ place'[t] \in {"opLock", "return"}
    \/ place[t] = "opLock" /\ place'[t] \in {"building", "operating", "return"}
    \/ place[t] = "building" /\ place'[t] \in {"operating", "opUnlock"}
    \/ place[t] = "operating" /\ place'[t] = "opUnlock"
    \/ place[t] = "opUnlock" /\ place'[t] = "return"
    \/ place[t] = "return" /\ place'[t] = "returned"

LEMMA PlacesGoOn ==
  ASSUME PlaceTypeOK, NEW t \in Threads,
         \/ Dhs!LocalStep(t)
         \/ Dhs!Connect(t)
         \/ Dhs!DhsReturns(t)
  PROVE  /\ OnwardsInCall(t)
         /\ place' = [place EXCEPT ![t] = place'[t]]
         /\ UNCHANGED <<call, done>>
         /\ reply' = [reply EXCEPT ![t] = reply'[t]]
<1>1. CASE \/ Dhs!ConnLock(t) \/ Dhs!ConnTimeout(t) \/ Dhs!ConnUnlock(t)
           \/ Dhs!OpLock(t) \/ Dhs!OpTimeout(t) \/ Dhs!OpUnlock(t)
  BY <1>1
     DEF Dhs!ConnLock, Dhs!ConnTimeout, Dhs!ConnUnlock, Dhs!OpLock, Dhs!OpTimeout,
         Dhs!OpUnlock, Dhs!Acquire, Dhs!Timeout, Dhs!Release, Dhs!Leave, Dhs!Goto,
         Dhs!adapterVars, PlaceTypeOK, OnwardsInCall
<1>2. CASE \/ Dhs!AlreadyConnected(t) \/ Dhs!ReadConnected(t) \/ Dhs!BuildList(t)
           \/ Dhs!Return(t) \/ Dhs!Connect(t) \/ Dhs!DhsReturns(t)
  BY <1>2
     DEF Dhs!AlreadyConnected, Dhs!ReadConnected, Dhs!BuildList, Dhs!Return,
         Dhs!Connect, Dhs!DhsReturns, Dhs!Leave, Dhs!Goto, Dhs!adapterVars,
         PlaceTypeOK, OnwardsInCall
<1>3. QED
  BY <1>1, <1>2 DEF Dhs!LocalStep

LEMMA EffectIsNew ==
  ASSUME PlaceTypeOK, NEW t \in Threads, Dhs!TakeEffect(t)
  PROVE  /\ done[t] = None /\ done'[t] # None
         /\ done' = [done EXCEPT ![t] = done'[t]]
<1>1. PICK e \in Dhs!EffectsOf(call[t]) : done' = [done EXCEPT ![t] = e]
  BY DEF Dhs!TakeEffect
<1>2. call[t] \in DP!Calls
  BY SameCalls DEF PlaceTypeOK, Dhs!TakeEffect
<1>3. e # None
  BY <1>1, <1>2, SameCalls, DP!EffectKinds, DhsAssumptions
<1>4. QED
  BY <1>1, <1>3 DEF PlaceTypeOK, Dhs!TakeEffect

LEMMA CallsGoOn ==
  ASSUME ServiceInv, PlaceTypeOK, NEW t \in Threads, LocalStep(t) \/ DhsStep(t)
  PROVE  Closer(t)
<1>1. pc' = pc /\ HandlerStepsLeft(t)' = HandlerStepsLeft(t)
  BY DEF LocalStep, DhsStep, threadVars, HandlerStepsLeft
<1>2. CASE Dhs!LocalStep(t) \/ Dhs!Connect(t) \/ Dhs!DhsReturns(t)
  <2>1. OnwardsInCall(t) /\ done' = done
    BY <1>2, PlacesGoOn
  <2>2. /\ CallSteps[place'[t]] < CallSteps[place[t]]
        /\ CallSteps[place'[t]] \in Nat /\ CallSteps[place[t]] \in Nat
    BY <2>1 DEF OnwardsInCall, CallSteps
  <2>3. CallStepsLeft(t)' < CallStepsLeft(t)
    BY <2>1, <2>2 DEF CallStepsLeft
  <2>4. QED
    BY <1>1, <2>3 DEF Closer
<1>3. CASE Dhs!DhsApplies(t)
  <2>1. place' = place /\ place[t] = "operating" /\ Dhs!TakeEffect(t)
    BY <1>3 DEF Dhs!DhsApplies, Dhs!locals
  <2>2. done[t] = None /\ done'[t] # None
    BY <2>1, EffectIsNew
  <2>3. CallSteps["operating"] = 4
    BY DEF CallSteps
  <2>4. CallStepsLeft(t)' < CallStepsLeft(t)
    BY <2>1, <2>2, <2>3 DEF CallStepsLeft
  <2>5. QED
    BY <1>1, <2>4 DEF Closer
<1>4. QED
  BY <1>2, <1>3 DEF LocalStep, DhsStep, Dhs!DhsStep

\* What belongs to a thread, and steps of others leave alone.
Untouched(u) ==
    UNCHANGED <<pc[u], place[u], call[u], done[u], reply[u], response[u]>>

LEMMA OthersUntouched ==
  ASSUME ServiceInv, PlaceTypeOK, NEW t \in Threads, NEW u \in Threads, u # t,
         ReceiveStep(t) \/ HandlerStep(t) \/ LocalStep(t) \/ DhsStep(t)
  PROVE  Untouched(u)
<1>1. CASE ReceiveStep(t)
  BY <1>1
     DEF ReceiveStep, Receive, Goto, dhsVars, adapterVars, ServiceInv, ThreadTypeOK,
         Untouched
<1>2. CASE HandlerStep(t)
  <2>1. pc'[u] = pc[u] /\ response'[u] = response[u]
    BY <1>2, StepsOfOthers DEF HandlerStep
  <2>2. UNCHANGED <<place[u], call[u], done[u], reply[u]>>
    <3>1. CASE UNCHANGED <<adapterVars, dhsVars>>
      BY <3>1 DEF adapterVars, dhsVars
    <3>2. CASE (\E c \in Adapter!Calls : Dhs!Enter(t, c)) \/ Dhs!Resume(t)
      BY <3>2 DEF Dhs!Enter, Dhs!Resume, Dhs!Goto, PlaceTypeOK
    <3>3. QED
      BY <1>2, <3>1, <3>2 DEF HandlerStep, AdapterSide
  <2>3. QED
    BY <2>1, <2>2 DEF Untouched
<1>3. ASSUME LocalStep(t) \/ DhsStep(t)
      PROVE  UNCHANGED <<place[u], call[u], done[u], reply[u]>>
  <2>1. CASE Dhs!LocalStep(t) \/ Dhs!Connect(t) \/ Dhs!DhsReturns(t)
    BY <2>1, PlacesGoOn DEF PlaceTypeOK
  <2>2. CASE Dhs!DhsApplies(t)
    <3>1. UNCHANGED <<place, call, reply>> /\ Dhs!TakeEffect(t)
      BY <2>2 DEF Dhs!DhsApplies, Dhs!TakeEffect, Dhs!locals
    <3>2. done'[u] = done[u]
      BY <3>1, EffectIsNew DEF PlaceTypeOK
    <3>3. QED
      BY <3>1, <3>2
  <2>3. QED
    BY <1>3, <2>1, <2>2 DEF LocalStep, DhsStep, Dhs!DhsStep
<1>4. CASE LocalStep(t) \/ DhsStep(t)
  BY <1>3, <1>4 DEF LocalStep, DhsStep, threadVars, Untouched
<1>5. QED
  BY <1>1, <1>2, <1>4

\* The argument for liveness that does not need fairness: every step that is made
\* for a request is one of a bounded number, so an answer can only be kept from
\* it by a thread that does not go on, or a DHS (DhsService.cpp:248-264, 321-340,
\* 381-392, DhsAdapter.cpp:55-75, 165-243).
THEOREM TranslatorNeverTriesAgain == TranslatorSpec => NothingIsTriedAgain
<1> DEFINE Forward ==
            \A t \in Threads :
                \/ request[t] = None
                \/ Closer(t)
                \/ UNCHANGED <<pc[t], place[t], call[t], done[t], reply[t], response[t]>>
<1>1. ServiceInv /\ PlaceTypeOK /\ [TranslatorNext]_allVars => [Forward]_allVars
  <2> SUFFICES ASSUME ServiceInv, PlaceTypeOK, TranslatorNext, NEW u \in Threads,
                      request[u] # None
               PROVE  Closer(u) \/ Untouched(u)
    BY DEF Untouched
  <2>1. CASE TickStep
    BY <2>1 DEF TickStep, Tick, threadVars, adapterVars, dhsVars, Untouched
  <2>2. ASSUME NEW t \in Threads,
               ReceiveStep(t) \/ HandlerStep(t) \/ LocalStep(t) \/ DhsStep(t)
        PROVE  Closer(u) \/ Untouched(u)
    <3>1. CASE u # t
      BY <2>2, <3>1, OthersUntouched
    <3>2. CASE u = t
      <4>1. ~ ReceiveStep(t)
        BY <3>2 DEF ReceiveStep, Receive, ServiceInv, Serving
      <4>2. QED
        BY <2>2, <3>2, <4>1, HandlersGoOn, CallsGoOn DEF HandlerStep
    <3>3. QED
      BY <3>1, <3>2
  <2>3. QED
    BY <2>1, <2>2 DEF TranslatorNext
<1>2. TranslatorSpec => []ServiceInv
  BY TranslatorImplementsService, Invariant, PTL DEF ImplementsService
<1>3. QED
  BY <1>1, <1>2, DhsInvariant, PlaceTypes, PTL DEF TranslatorSpec, NothingIsTriedAgain
=============================================================================
