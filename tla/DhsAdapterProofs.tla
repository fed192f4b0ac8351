-------------------------- MODULE DhsAdapterProofs --------------------------
(***************************************************************************)
(* Proofs about DhsAdapter, for any set of threads and any values: the     *)
(* library is used by one thread at a time and over one connection, and    *)
(* the adapter implements IDhsAdapter.                                     *)
(***************************************************************************)
EXTENDS DhsAdapter, IDhsAdapterProofs

\* The mutex is held exactly by the thread that is between lock and unlock.
LockOwner == \A t \in Threads : Holding(t) <=> lock = t

\* isConnected is set with the one connection and never reset.
Connected == opened = IF isConnected THEN 1 ELSE 0

\* What the place of a thread says about its call.
Progress(t) ==
    /\ call[t] = None <=> pc[t] = "idle"
    /\ reply[t] # None <=> pc[t] = "returned"
    /\ pc[t] \in {"opLock", "building", "operating"} => NeedsDhs(call[t])
    /\ pc[t] \in {"opUnlock", "return"} /\ status[t] = "success" =>
            /\ NeedsDhs(call[t]) => done[t] # None
            /\ call[t] = CreateImageCall => newId[t] # None
    /\ newId[t] # None =>
            call[t] = CreateImageCall /\ done[t] = ImageCreated(newId[t])

CallsProgress == \A t \in Threads : Progress(t)

IInv == DhsTypeOK /\ LockOwner /\ Connected /\ HasConnection /\ CallsProgress

-----------------------------------------------------------------------------

\* createImage always involves the DHS.
LEMMA CreateNeedsDhs == NeedsDhs(CreateImageCall)
BY DEF NeedsDhs, CreateImageCall

LEMMA InitIInv == DhsInit => IInv
<1> SUFFICES ASSUME DhsInit PROVE IInv
  OBVIOUS
<1>1. DhsTypeOK
  BY NoneAssumption DEF DhsInit, Init, DhsTypeOK, TypeOK
<1>2. LockOwner
  BY NoneAssumption DEF DhsInit, LockOwner, Holding
<1>3. Connected /\ HasConnection
  BY DEF DhsInit, Connected, HasConnection
<1>4. CallsProgress
  BY DEF DhsInit, Init, CallsProgress, Progress
<1>5. QED
  BY <1>1, <1>2, <1>3, <1>4 DEF IInv

\* One lemma per kind of step, each with the parts of the invariant in turn.
LEMMA EnterIInv ==
  ASSUME IInv, InterfaceInv, NEW t \in Threads, NEW c \in Calls, Enter(t, c)
  PROVE  IInv' /\ Invoke(t, c)
<1> USE DEF IInv, Enter, Goto, connectionVars
<1>1. c # None /\ CreateImageCall # None
  BY NoneAssumption DEF Calls
<1>2. call[t] = None /\ reply[t] = None /\ done[t] = None /\ newId[t] = None
  BY <1>1 DEF CallsProgress, Progress, InterfaceInv, EffectMatches
<1>3. DhsTypeOK'
  BY NoneAssumption DEF DhsTypeOK, TypeOK
<1>4. LockOwner'
  BY DEF DhsTypeOK, LockOwner, Holding
<1>5. Connected' /\ HasConnection'
  BY DEF DhsTypeOK, Connected, HasConnection
<1>6. CallsProgress'
  BY <1>1, <1>2 DEF DhsTypeOK, TypeOK, CallsProgress, Progress
<1>7. QED
  BY <1>2, <1>3, <1>4, <1>5, <1>6 DEF Invoke

LEMMA ConnLockIInv ==
  ASSUME IInv, NEW t \in Threads, ConnLock(t)
  PROVE  IInv'
<1> USE DEF IInv, ConnLock, Acquire, Goto, adapterVars, connectionVars
<1>1. DhsTypeOK'
  BY DEF DhsTypeOK, TypeOK
<1>2. LockOwner'
  BY NoneAssumption DEF DhsTypeOK, LockOwner, Holding
<1>3. Connected' /\ HasConnection'
  BY DEF DhsTypeOK, Connected, HasConnection
<1>4. CallsProgress'
  BY DEF DhsTypeOK, CallsProgress, Progress
<1>5. QED
  BY <1>1, <1>2, <1>3, <1>4

LEMMA TimeoutIInv ==
  ASSUME IInv, NEW t \in Threads, NEW from \in {"connLock", "opLock"},
         Timeout(t, from)
  PROVE  IInv'
<1> USE DEF IInv, Timeout, Leave, Goto, adapterVars, connectionVars
<1>1. DhsTypeOK'
  BY NoneAssumption DEF DhsTypeOK, TypeOK
<1>2. LockOwner'
  BY DEF DhsTypeOK, LockOwner, Holding
<1>3. Connected' /\ HasConnection'
  BY DEF DhsTypeOK, Connected, HasConnection
<1>4. CallsProgress'
  BY DEF DhsTypeOK, CallsProgress, Progress
<1>5. QED
  BY <1>1, <1>2, <1>3, <1>4

LEMMA CheckIInv ==
  ASSUME IInv, NEW t \in Threads, AlreadyConnected(t) \/ Connect(t)
  PROVE  IInv'
<1> USE DEF IInv, AlreadyConnected, Connect, Goto, adapterVars, connectionVars
<1>1. DhsTypeOK'
  BY DEF DhsTypeOK, TypeOK
<1>2. LockOwner'
  BY DEF DhsTypeOK, LockOwner, Holding
<1>3. Connected'
  BY DEF DhsTypeOK, Connected
<1>4. HasConnection'
  BY DEF DhsTypeOK, HasConnection
<1>5. CallsProgress'
  BY DEF DhsTypeOK, CallsProgress, Progress
<1>6. QED
  BY <1>1, <1>2, <1>3, <1>4, <1>5

LEMMA UnlockIInv ==
  ASSUME IInv, NEW t \in Threads, ConnUnlock(t) \/ OpUnlock(t)
  PROVE  IInv'
<1> USE DEF IInv, ConnUnlock, OpUnlock, Release, Goto, adapterVars, connectionVars
<1>1. DhsTypeOK'
  BY DEF DhsTypeOK, TypeOK
<1>2. LockOwner'
  BY NoneAssumption DEF DhsTypeOK, LockOwner, Holding
<1>3. Connected' /\ HasConnection'
  BY DEF DhsTypeOK, Connected, HasConnection
<1>4. CallsProgress'
  BY DEF DhsTypeOK, CallsProgress, Progress
<1>5. QED
  BY <1>1, <1>2, <1>3, <1>4

LEMMA ReadConnectedIInv ==
  ASSUME IInv, NEW t \in Threads, ReadConnected(t)
  PROVE  IInv'
<1> USE DEF IInv, ReadConnected, Leave, Goto, adapterVars, connectionVars
<1>1. DhsTypeOK'
  BY NoneAssumption DEF DhsTypeOK, TypeOK
<1>2. LockOwner'
  BY DEF DhsTypeOK, LockOwner, Holding
<1>3. Connected' /\ HasConnection'
  BY DEF DhsTypeOK, Connected, HasConnection
<1>4. CallsProgress'
  BY CreateNeedsDhs, NoneAssumption DEF DhsTypeOK, CallsProgress, Progress
<1>5. QED
  BY <1>1, <1>2, <1>3, <1>4

LEMMA OpLockIInv ==
  ASSUME IInv, NEW t \in Threads, OpLock(t)
  PROVE  IInv'
<1> USE DEF IInv, OpLock, Acquire, Goto, adapterVars, connectionVars
<1>1. DhsTypeOK'
  BY DEF DhsTypeOK, TypeOK
<1>2. LockOwner'
  BY NoneAssumption DEF DhsTypeOK, LockOwner, Holding
<1>3. Connected' /\ HasConnection'
  BY DEF DhsTypeOK, Connected, HasConnection
<1>4. CallsProgress'
  BY DEF DhsTypeOK, CallsProgress, Progress
<1>5. QED
  BY <1>1, <1>2, <1>3, <1>4

LEMMA BuildListIInv ==
  ASSUME IInv, NEW t \in Threads, BuildList(t)
  PROVE  IInv'
<1> USE DEF IInv, BuildList, Goto, adapterVars, connectionVars
<1>1. DhsTypeOK'
  BY NoneAssumption DEF DhsTypeOK, TypeOK
<1>2. LockOwner'
  BY DEF DhsTypeOK, LockOwner, Holding
<1>3. Connected' /\ HasConnection'
  BY DEF DhsTypeOK, Connected, HasConnection
<1>4. CallsProgress'
  BY DEF DhsTypeOK, CallsProgress, Progress
<1>5. QED
  BY <1>1, <1>2, <1>3, <1>4

LEMMA DhsAppliesIInv ==
  ASSUME IInv, NEW t \in Threads, DhsApplies(t)
  PROVE  IInv'
<1> USE DEF IInv, DhsApplies, locals, connectionVars
<1>1. PICK e \in EffectsOf(call[t]) :
        /\ done' = [done EXCEPT ![t] = e]
        /\ effects' = effects \cup {e}
  BY DEF TakeEffect
<1>2. call[t] \in Calls /\ call' = call /\ reply' = reply
  BY DEF TakeEffect, DhsTypeOK, TypeOK
<1>3. e \in Effects /\ e # None
  BY <1>2, EffectKinds
<1>4. DhsTypeOK'
  BY <1>1, <1>2, <1>3 DEF DhsTypeOK, TypeOK
<1>5. LockOwner' /\ Connected' /\ HasConnection'
  BY DEF LockOwner, Holding, Connected, HasConnection
<1>6. CallsProgress'
  <2>1. newId[t] = None
    <3>1. done[t] = None
      BY DEF TakeEffect
    <3>2. newId[t] # None => newId[t] \in ImageIds
      BY DEF DhsTypeOK
    <3>3. \A id \in ImageIds : ImageCreated(id) # None
      BY NoneAssumption DEF Effects
    <3>4. QED
      BY <3>1, <3>2, <3>3 DEF CallsProgress, Progress
  <2>2. QED
    BY <1>1, <1>2, <1>3, <2>1 DEF DhsTypeOK, TypeOK, CallsProgress, Progress
<1>7. QED
  BY <1>4, <1>5, <1>6

LEMMA DhsReturnsIInv ==
  ASSUME IInv, InterfaceInv, NEW t \in Threads, DhsReturns(t)
  PROVE  IInv'
<1> USE DEF IInv, DhsReturns, Goto, adapterVars, connectionVars
<1>1. call[t] \in Calls
  BY DEF DhsTypeOK, TypeOK, CallsProgress, Progress
<1>2. ASSUME done[t] # None, call[t].op = "createImage"
      PROVE  /\ call[t] = CreateImageCall
             /\ done[t].id \in ImageIds
             /\ done[t] = ImageCreated(done[t].id)
  <2>1. PICK id \in ImageIds : done[t] = ImageCreated(id)
    BY <1>2 DEF InterfaceInv, EffectMatches, IsEffectOf
  <2>2. QED
    BY <1>1, <1>2, <2>1, CallKinds DEF ImageCreated
<1>3. DhsTypeOK'
  BY <1>2, NoneAssumption DEF DhsTypeOK, TypeOK
<1>4. LockOwner'
  BY DEF DhsTypeOK, LockOwner, Holding
<1>5. Connected' /\ HasConnection'
  BY DEF DhsTypeOK, Connected, HasConnection
<1>6. CallsProgress'
  <2>1. \A u \in Threads \ {t} : Progress(u)'
    BY DEF DhsTypeOK, CallsProgress, Progress
  <2>2. Progress(t)'
    <3>1. CASE status[t] = "success" /\ status' = status /\ call[t].op = "createImage"
      BY <1>2, <3>1, NoneAssumption DEF DhsTypeOK, CallsProgress, Progress
    <3>2. CASE call[t].op # "createImage"
      BY <1>1, <3>2, CallKinds, NoneAssumption DEF DhsTypeOK, CallsProgress, Progress
    <3>3. CASE status' = [status EXCEPT ![t] = "error"] /\ newId' = newId
      BY <3>3 DEF DhsTypeOK, CallsProgress, Progress
    <3>4. CASE status[t] # "success"
      BY <1>2, <3>4, NoneAssumption DEF DhsTypeOK, CallsProgress, Progress
    <3>5. QED
      BY <3>1, <3>2, <3>3, <3>4
  <2>3. QED
    BY <2>1, <2>2 DEF CallsProgress
<1>7. QED
  BY <1>3, <1>4, <1>5, <1>6

\* The answer is the one the interface allows: success only after the effect,
\* with the id of the image that was created for this call.
LEMMA ReturnIInv ==
  ASSUME IInv, NEW t \in Threads, Return(t)
  PROVE  IInv' /\ (Succeed(t) \/ Fail(t))
<1> USE DEF IInv, Return, Goto, connectionVars
<1> DEFINE id == IF status[t] = "success" THEN newId[t] ELSE None
<1>1. /\ call[t] # None /\ reply[t] = None
      /\ status[t] \in {"success", "error"}
      /\ id \in ImageIds \cup {None}
  BY DEF DhsTypeOK, CallsProgress, Progress
<1>2. Reply(status[t], id) \in Replies
  BY <1>1 DEF Reply, Replies
<1>3. reply' = [reply EXCEPT ![t] = Reply(status[t], id)]
      /\ UNCHANGED <<call, done, effects>>
  OBVIOUS
<1>4. ASSUME status[t] = "success" PROVE Succeed(t)
  <2> HIDE DEF IInv, Return, Goto, connectionVars, id
  <2>1. id = newId[t]
    BY <1>4 DEF id
  <2>2. Progress(t)
    BY DEF IInv, CallsProgress
  <2>3. pc[t] = "return"
    BY DEF Return
  <2>4. NeedsDhs(call[t]) => done[t] # None
    BY <1>4, <2>2, <2>3 DEF Progress
  <2>5. id = IF call[t] = CreateImageCall THEN done[t].id ELSE None
    BY <1>1, <1>4, <2>1, <2>2, <2>3 DEF Progress, ImageCreated
  <2>6. QED
    BY <1>1, <1>3, <1>4, <2>4, <2>5 DEF Succeed
<1>5. ASSUME status[t] = "error" PROVE Fail(t)
  <2> HIDE DEF IInv, Return, Goto, connectionVars, id
  <2>1. id = None
    BY <1>5 DEF id
  <2>2. QED
    BY <1>1, <1>3, <1>5, <2>1 DEF Fail
<1> HIDE DEF id
<1>6. Reply(status[t], id) # None
  BY <1>2, NoneAssumption
<1>7. DhsTypeOK'
  BY <1>2, <1>3 DEF DhsTypeOK, TypeOK
<1>8. LockOwner' /\ Connected' /\ HasConnection'
  BY DEF DhsTypeOK, LockOwner, Holding, Connected, HasConnection
<1>9. CallsProgress'
  BY <1>3, <1>6 DEF DhsTypeOK, TypeOK, CallsProgress, Progress
<1>10. QED
  BY <1>1, <1>4, <1>5, <1>7, <1>8, <1>9

LEMMA ResumeIInv ==
  ASSUME IInv, NEW t \in Threads, Resume(t)
  PROVE  IInv' /\ Collect(t)
<1> USE DEF IInv, Resume, Goto, connectionVars
<1>1. DhsTypeOK'
  BY DEF DhsTypeOK, TypeOK
<1>2. LockOwner' /\ Connected' /\ HasConnection'
  BY DEF DhsTypeOK, LockOwner, Holding, Connected, HasConnection
<1>3. CallsProgress'
  BY DEF DhsTypeOK, TypeOK, CallsProgress, Progress
<1>4. Collect(t)
  BY DEF Collect, CallsProgress, Progress
<1>5. QED
  BY <1>1, <1>2, <1>3, <1>4

LEMMA NextIInv == IInv /\ InterfaceInv /\ [DhsNext]_vars => IInv'
<1> SUFFICES ASSUME IInv, InterfaceInv, [DhsNext]_vars
             PROVE  IInv'
  OBVIOUS
<1>1. ASSUME NEW t \in Threads, LocalStep(t)
      PROVE  IInv'
  BY <1>1, ConnLockIInv, TimeoutIInv, CheckIInv, UnlockIInv, ReadConnectedIInv,
     OpLockIInv, BuildListIInv, ReturnIInv
     DEF LocalStep, ConnTimeout, OpTimeout
<1>2. ASSUME NEW t \in Threads, DhsStep(t)
      PROVE  IInv'
  BY <1>2, CheckIInv, DhsAppliesIInv, DhsReturnsIInv DEF DhsStep
<1>3. CASE UNCHANGED vars
  BY <1>3 DEF vars, adapterVars, locals, connectionVars, IInv, DhsTypeOK, TypeOK,
              LockOwner, Holding, Connected, HasConnection, CallsProgress, Progress
<1>4. QED
  BY <1>1, <1>2, <1>3, EnterIInv, ResumeIInv DEF DhsNext

-----------------------------------------------------------------------------

\* What the steps of a thread in the adapter are to the interface.
LEMMA LocalStepImplements ==
  ASSUME IInv, NEW t \in Threads, LocalStep(t)
  PROVE  UNCHANGED adapterVars \/ Succeed(t) \/ Fail(t)
<1>1. CASE Return(t)
  BY <1>1, ReturnIInv
<1>2. CASE ~ Return(t)
  BY <1>2 DEF LocalStep, ConnLock, Acquire, ConnTimeout, OpTimeout, Timeout,
              AlreadyConnected, ConnUnlock, OpUnlock, Release, ReadConnected,
              OpLock, BuildList
<1>3. QED
  BY <1>1, <1>2

LEMMA DhsStepImplements ==
  ASSUME NEW t \in Threads, DhsStep(t)
  PROVE  UNCHANGED adapterVars \/ TakeEffect(t)
BY DEF DhsStep, Connect, DhsApplies, DhsReturns

\* Every step of the adapter is a step of the interface or does not concern it.
LEMMA StepImplements == IInv /\ InterfaceInv /\ [DhsNext]_vars => [Next]_adapterVars
<1> SUFFICES ASSUME IInv, InterfaceInv, [DhsNext]_vars
             PROVE  [Next]_adapterVars
  OBVIOUS
<1>1. ASSUME NEW t \in Threads, NEW c \in Calls, Enter(t, c)
      PROVE  Next
  BY <1>1, EnterIInv DEF Next
<1>2. ASSUME NEW t \in Threads, LocalStep(t) \/ DhsStep(t)
      PROVE  [Next]_adapterVars
  BY <1>2, LocalStepImplements, DhsStepImplements DEF Next
<1>3. ASSUME NEW t \in Threads, Resume(t)
      PROVE  Next
  BY <1>3, ResumeIInv DEF Next
<1>4. CASE UNCHANGED vars
  BY <1>4 DEF vars
<1>5. QED
  BY <1>1, <1>2, <1>3, <1>4 DEF DhsNext

LEMMA Invariant == DhsSpec => [](IInv /\ InterfaceInv)
<1>1. DhsInit => IInv /\ InterfaceInv
  BY InitIInv, InitInterfaceInv DEF DhsInit
<1>2. IInv /\ InterfaceInv /\ [DhsNext]_vars => (IInv /\ InterfaceInv)'
  BY NextIInv, StepImplements, NextInterfaceInv
<1>3. QED
  BY <1>1, <1>2, PTL DEF DhsSpec

\* The variables of the adapter keep their types.
THEOREM AdapterTypeCorrect == DhsSpec => []DhsTypeOK
<1>1. IInv => DhsTypeOK
  BY DEF IInv
<1>2. QED
  BY <1>1, Invariant, PTL

\* The library and the connection state are used by one thread at a time,
\* whatever waits for the mutex run out (DhsAdapter.cpp:56-74, 170-243).
THEOREM LibraryUsedByOne == DhsSpec => []MutualExclusion
<1>1. IInv => MutualExclusion
  BY DEF IInv, LockOwner, MutualExclusion
<1>2. QED
  BY <1>1, Invariant, PTL

\* A thread that goes on to an operation does so over a connection, although
\* it read isConnected without the mutex (DhsAdapter.cpp:74-75).
THEOREM OperatesConnected == DhsSpec => []HasConnection
<1>1. IInv => HasConnection
  BY DEF IInv
<1>2. QED
  BY <1>1, Invariant, PTL

\* No number of threads makes the adapter connect twice (DhsAdapter.cpp:65-73).
THEOREM ConnectsOnce == DhsSpec => []OneConnection
<1>1. IInv => OneConnection
  BY DEF IInv, Connected, OneConnection
<1>2. QED
  BY <1>1, Invariant, PTL

\* DhsAdapter implements IDhsAdapter: its initial states are initial states of
\* the interface, and each of its steps is a step or a stutter there.
THEOREM AdapterImplementsInterface == DhsSpec => ImplementsInterface
<1>1. DhsInit => Init
  BY DEF DhsInit
<1>2. QED
  BY <1>1, Invariant, StepImplements, PTL DEF DhsSpec, ImplementsInterface, Spec

\* So what callers are promised by the interface holds of this adapter: a call
\* answered with success was carried out by the DHS.
THEOREM AdapterSuccessIsDone == DhsSpec => []SuccessIsDone
BY AdapterImplementsInterface, SuccessCanBeReliedOn DEF ImplementsInterface
=============================================================================
