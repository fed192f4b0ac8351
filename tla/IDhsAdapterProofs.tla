------------------------- MODULE IDhsAdapterProofs -------------------------
(***************************************************************************)
(* Proofs about the adapter interface, for any set of threads and values.  *)
(***************************************************************************)
EXTENDS IDhsAdapter, TLAPS

\* The pending effect is the one the pending call asked for, and has happened.
EffectMatches ==
    \A t \in Threads : done[t] # None =>
        /\ call[t] # None
        /\ done[t] \in effects
        /\ IsEffectOf(done[t], call[t])

ReplyMatches ==
    \A t \in Threads : reply[t] # None =>
        /\ call[t] # None
        /\ reply[t].status = "success" /\ NeedsDhs(call[t]) =>
              /\ done[t] # None
              /\ call[t] = CreateImageCall => done[t] = ImageCreated(reply[t].id)

InterfaceInv == TypeOK /\ EffectMatches /\ ReplyMatches

\* createImage is the only call with that op.
LEMMA CallKinds ==
  ASSUME NEW c \in Calls
  PROVE  c.op = "createImage" <=> c = CreateImageCall
BY DEF Calls, SetterCalls, CreateImageCall, LifetimeCall, ContribCall, KeywordsCall

LEMMA EffectKinds ==
  ASSUME NEW c \in Calls, NEW e \in EffectsOf(c)
  PROVE  e \in Effects /\ e # None /\ IsEffectOf(e, c)
<1>1. e \in Effects /\ IsEffectOf(e, c)
  <2>1. CASE c.op = "createImage"
    BY <2>1 DEF EffectsOf, Effects, IsEffectOf
  <2>2. CASE c.op # "createImage"
    <3>1. c \in SetterCalls
      BY <2>2, CallKinds DEF Calls
    <3>2. QED
      BY <2>2, <3>1 DEF EffectsOf, Effects, IsEffectOf
  <2>3. QED
    BY <2>1, <2>2
<1>2. QED
  BY <1>1, NoneAssumption

LEMMA InitInterfaceInv == Init => InterfaceInv
BY DEF Init, InterfaceInv, TypeOK, EffectMatches, ReplyMatches

\* The reply to a successful createImage carries the id of the image created.
LEMMA SucceedReplies ==
  ASSUME InterfaceInv, NEW t \in Threads, Succeed(t)
  PROVE  \E r \in Replies :
            /\ reply' = [reply EXCEPT ![t] = r]
            /\ call[t] = CreateImageCall => done[t] = ImageCreated(r.id)
<1> DEFINE id == IF call[t] = CreateImageCall THEN done[t].id ELSE None
<1>1. /\ call[t] \in Calls
      /\ NeedsDhs(call[t]) => done[t] # None
      /\ reply' = [reply EXCEPT ![t] = Reply("success", id)]
  BY DEF Succeed, InterfaceInv, TypeOK
<1>2. ASSUME call[t] = CreateImageCall
      PROVE  id \in ImageIds /\ done[t] = ImageCreated(id)
  <2>1. NeedsDhs(call[t]) /\ call[t].op = "createImage"
    BY <1>2 DEF NeedsDhs, CreateImageCall
  <2>2. PICK i \in ImageIds : done[t] = ImageCreated(i)
    BY <1>1, <2>1 DEF InterfaceInv, EffectMatches, IsEffectOf
  <2>3. QED
    BY <1>2, <2>2 DEF ImageCreated
<1>3. id \in ImageIds \cup {None}
  BY <1>2
<1> HIDE DEF id
<1>4. Reply("success", id) \in Replies /\ Reply("success", id).id = id
  BY <1>3 DEF Reply, Replies
<1>5. QED
  BY <1>1, <1>2, <1>4

LEMMA NextInterfaceInv == InterfaceInv /\ [Next]_adapterVars => InterfaceInv'
<1> SUFFICES ASSUME InterfaceInv, [Next]_adapterVars
             PROVE  InterfaceInv'
  OBVIOUS
<1> USE DEF InterfaceInv
<1>1. ASSUME NEW t \in Threads, NEW c \in Calls, Invoke(t, c)
      PROVE  InterfaceInv'
  <2>1. c # None
    BY NoneAssumption
  <2>2. TypeOK'
    BY <1>1 DEF Invoke, TypeOK
  <2>3. done[t] = None /\ reply[t] = None
    BY <1>1 DEF Invoke, EffectMatches, ReplyMatches
  <2>4. EffectMatches'
    BY <1>1, <2>1, <2>3 DEF Invoke, TypeOK, EffectMatches
  <2>5. ReplyMatches'
    BY <1>1, <2>1, <2>3 DEF Invoke, TypeOK, ReplyMatches
  <2>6. QED
    BY <2>2, <2>4, <2>5
<1>2. ASSUME NEW t \in Threads, TakeEffect(t)
      PROVE  InterfaceInv'
  <2>1. PICK e \in EffectsOf(call[t]) :
          /\ done' = [done EXCEPT ![t] = e]
          /\ effects' = effects \cup {e}
    BY <1>2 DEF TakeEffect
  <2>2. /\ call[t] \in Calls
        /\ call[t] # None /\ reply[t] = None /\ done[t] = None
        /\ call' = call /\ reply' = reply
    BY <1>2 DEF TakeEffect, TypeOK
  <2>3. e \in Effects /\ e # None /\ IsEffectOf(e, call[t])
    BY <2>2, EffectKinds
  <2>4. TypeOK'
    BY <2>1, <2>2, <2>3 DEF TypeOK
  <2>5. EffectMatches'
    BY <2>1, <2>2, <2>3 DEF TypeOK, EffectMatches
  <2>6. ReplyMatches'
    BY <2>1, <2>2 DEF TypeOK, ReplyMatches
  <2>7. QED
    BY <2>4, <2>5, <2>6
<1>3. ASSUME NEW t \in Threads, Succeed(t)
      PROVE  InterfaceInv'
  <2>1. PICK r \in Replies :
          /\ reply' = [reply EXCEPT ![t] = r]
          /\ call[t] = CreateImageCall => done[t] = ImageCreated(r.id)
    BY <1>3, SucceedReplies
  <2>2. /\ call[t] # None
        /\ NeedsDhs(call[t]) => done[t] # None
        /\ call' = call /\ done' = done /\ effects' = effects
    BY <1>3 DEF Succeed
  <2>3. TypeOK'
    BY <2>1, <2>2 DEF TypeOK
  <2>4. EffectMatches'
    BY <2>2 DEF EffectMatches
  <2>5. ReplyMatches'
    BY <2>1, <2>2 DEF TypeOK, ReplyMatches
  <2>6. QED
    BY <2>3, <2>4, <2>5
<1>4. ASSUME NEW t \in Threads, Fail(t)
      PROVE  InterfaceInv'
  <2>1. Reply("error", None) \in Replies /\ Reply("error", None).status = "error"
    BY DEF Reply, Replies
  <2>2. TypeOK'
    BY <1>4, <2>1 DEF Fail, TypeOK
  <2>3. EffectMatches'
    BY <1>4 DEF Fail, EffectMatches
  <2>4. ReplyMatches'
    BY <1>4, <2>1 DEF Fail, TypeOK, ReplyMatches
  <2>5. QED
    BY <2>2, <2>3, <2>4
<1>5. ASSUME NEW t \in Threads, Collect(t)
      PROVE  InterfaceInv'
  <2>1. TypeOK'
    BY <1>5 DEF Collect, TypeOK
  <2>2. EffectMatches'
    BY <1>5 DEF Collect, TypeOK, EffectMatches
  <2>3. ReplyMatches'
    BY <1>5 DEF Collect, TypeOK, ReplyMatches
  <2>4. QED
    BY <2>1, <2>2, <2>3
<1>6. CASE UNCHANGED adapterVars
  BY <1>6 DEF adapterVars, TypeOK, EffectMatches, ReplyMatches
<1>7. QED
  BY <1>1, <1>2, <1>3, <1>4, <1>5, <1>6 DEF Next

LEMMA InterfaceInvariant == Spec => []InterfaceInv
BY InitInterfaceInv, NextInterfaceInv, PTL DEF Spec

\* A caller told of success can rely on its own request having been done
\* (IDhsAdapter.h:141-142, 151-152, 163, 174).
THEOREM SuccessCanBeReliedOn == Spec => []SuccessIsDone
<1>1. InterfaceInv => SuccessIsDone
  BY DEF InterfaceInv, EffectMatches, ReplyMatches, SuccessIsDone
<1>2. QED
  BY <1>1, InterfaceInvariant, PTL
=============================================================================
