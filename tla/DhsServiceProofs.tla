-------------------------- MODULE DhsServiceProofs --------------------------
(***************************************************************************)
(* Proofs about DhsService, for any set of threads, requests and values:   *)
(* it uses the adapter and the cache as their specifications have it, so   *)
(* their invariants hold in it, and with these that what it answers with   *)
(* success has been done on the DHS, and that it does not send a message   *)
(* again before its time.                                                  *)
(***************************************************************************)
EXTENDS DhsService, TLAPS

AP == INSTANCE IDhsAdapterProofs
CP == INSTANCE MessageCacheProofs WITH Data <- SetKeywordsRequests

AdapterLabels == {"creating", "settingLifetime", "settingContributors", "sending"}
ImageLabels == {"lifetime", "settingLifetime", "contributors", "settingContributors"}
KeywordLabels == {"purge", "check", "sending", "record"}

\* The types of what a thread keeps of its request.
ThreadTypeOK ==
    /\ pc \in [Threads -> Labels]
    /\ request \in [Threads -> Requests \cup {None}]
    /\ imageId \in [Threads -> ImageIds \cup {None}]
    /\ timestamp \in [Threads -> Nat]
    /\ now \in Nat
    /\ \A t \in Threads : timestamp[t] <= now
    /\ response \in [Threads -> Responses \cup {None}]

\* What the place of a thread says about its request and its adapter call.
Serving(t) ==
    /\ pc[t] = "idle" <=> request[t] = None
    /\ pc[t] = "respond" <=> response[t] # None
    /\ pc[t] = "creating" => request[t] \in CreateImageRequests
    /\ pc[t] \in ImageLabels =>
            /\ request[t] \in CreateImageRequests \cup SetParametersRequests
            /\ imageId[t] \in ImageIds
    /\ pc[t] = "settingLifetime" => request[t].lifetime # None
    /\ pc[t] \in KeywordLabels =>
            /\ request[t] \in SetKeywordsRequests
            /\ request[t].keywords # None
            /\ imageId[t] \in ImageIds

Calling(t) ==
    /\ pc[t] \notin AdapterLabels => call[t] = None
    /\ pc[t] = "creating" => call[t] = Adapter!CreateImageCall
    /\ pc[t] = "settingLifetime" =>
            call[t] = Adapter!LifetimeCall(imageId[t], request[t].lifetime)
    /\ pc[t] = "settingContributors" =>
            call[t] = Adapter!ContribCall(imageId[t], request[t].contribs)
    /\ pc[t] = "sending" =>
            call[t] = Adapter!KeywordsCall(imageId[t], request[t].keywords,
                                           request[t].final)

ServiceInv == ThreadTypeOK /\ \A t \in Threads : Serving(t) /\ Calling(t)

-----------------------------------------------------------------------------

LEMMA RequestKinds ==
  ASSUME NEW r \in Requests
  PROVE  /\ r # None
         /\ r.op = "createImage" => r \in CreateImageRequests
         /\ r.op = "setParameters" => r \in SetParametersRequests
         /\ r.op = "setKeywords" => r \in SetKeywordsRequests
BY RequestsAssumption
   DEF AllRequests, CreateImageRequests, SetParametersRequests,
       SetKeywordsRequests, OtherRequests

LEMMA CallsOfRequests ==
  /\ Adapter!CreateImageCall \in Adapter!Calls
  /\ \A id \in ImageIds :
        /\ \A r \in CreateImageRequests \cup SetParametersRequests :
              /\ r.lifetime # None =>
                    Adapter!LifetimeCall(id, r.lifetime) \in Adapter!Calls
              /\ Adapter!ContribCall(id, r.contribs) \in Adapter!Calls
        /\ \A r \in SetKeywordsRequests :
              r.keywords # None =>
                    Adapter!KeywordsCall(id, r.keywords, r.final) \in Adapter!Calls
BY DEF Adapter!Calls, Adapter!SetterCalls, CreateImageRequests,
       SetParametersRequests, SetKeywordsRequests

LEMMA ResponseTypes ==
  ASSUME NEW s \in Statuses, NEW i \in ImageIds \cup {None}
  PROVE  /\ [status |-> s, result |-> i] \in Responses
         /\ [status |-> s, result |-> i] # None
BY RequestsAssumption DEF Responses

\* The instances made here and in DhsService define the same things.
LEMMA SameOperators ==
  /\ Adapter!Calls = AP!Calls
  /\ Adapter!Effects = AP!Effects
  /\ Adapter!Replies = AP!Replies
  /\ Adapter!CreateImageCall = AP!CreateImageCall
  /\ \A c : Adapter!NeedsDhs(c) <=> AP!NeedsDhs(c)
  /\ \A c : Adapter!EffectsOf(c) = AP!EffectsOf(c)
  /\ \A id : Adapter!ImageCreated(id) = AP!ImageCreated(id)
  /\ \A s, id : Adapter!Reply(s, id) = AP!Reply(s, id)
BY DEF Adapter!Calls, AP!Calls, Adapter!Effects, AP!Effects, Adapter!Replies,
       AP!Replies, Adapter!NeedsDhs, AP!NeedsDhs, Adapter!ImageCreated,
       AP!ImageCreated, Adapter!Reply, AP!Reply, Adapter!SetterCalls,
       AP!SetterCalls, Adapter!CreateImageCall, AP!CreateImageCall,
       Adapter!LifetimeCall, AP!LifetimeCall, Adapter!ContribCall,
       AP!ContribCall, Adapter!KeywordsCall, AP!KeywordsCall,
       Adapter!EffectsOf, AP!EffectsOf

LEMMA SameInterface ==
  /\ Adapter!Init <=> AP!Init
  /\ Adapter!Next <=> AP!Next
  /\ Adapter!adapterVars = AP!adapterVars
<1>1. ASSUME NEW t \in Threads
      PROVE  /\ \A c : Adapter!Invoke(t, c) <=> AP!Invoke(t, c)
             /\ Adapter!TakeEffect(t) <=> AP!TakeEffect(t)
             /\ Adapter!Succeed(t) <=> AP!Succeed(t)
             /\ Adapter!Fail(t) <=> AP!Fail(t)
             /\ Adapter!Collect(t) <=> AP!Collect(t)
  BY SameOperators
     DEF Adapter!Invoke, AP!Invoke, Adapter!TakeEffect, AP!TakeEffect,
         Adapter!Succeed, AP!Succeed, Adapter!Fail, AP!Fail,
         Adapter!Collect, AP!Collect
<1>2. Adapter!Next <=> AP!Next
  BY <1>1, SameOperators DEF Adapter!Next, AP!Next
<1>3. QED
  BY <1>2 DEF Adapter!Init, AP!Init, Adapter!adapterVars, AP!adapterVars

LEMMA SameCache ==
  /\ Cache!Init <=> CP!Init
  /\ \A T : Cache!PurgeOldMessages(T) <=> CP!PurgeOldMessages(T)
  /\ Cache!Next <=> CP!Next
  /\ Cache!TypeOK <=> CP!TypeOK
  /\ Cache!Remembered <=> CP!Remembered
  /\ Cache!cacheVars = CP!cacheVars
<1>1. /\ \A T : Cache!PurgeOldMessages(T) <=> CP!PurgeOldMessages(T)
      /\ \A id, T, d : Cache!Add(id, T, d) <=> CP!Add(id, T, d)
      /\ Cache!Tick <=> CP!Tick
  BY DEF Cache!PurgeOldMessages, CP!PurgeOldMessages, Cache!AfterPurge,
         CP!AfterPurge, Cache!Purged, CP!Purged,
         Cache!Live, CP!Live, Cache!Expired, CP!Expired, Cache!Min, CP!Min,
         Cache!Add, CP!Add, Cache!ListOf, CP!ListOf, Cache!Tick, CP!Tick
<1>2. Cache!Next <=> CP!Next
  BY <1>1 DEF Cache!Next, CP!Next
<1>3. QED
  BY <1>1, <1>2 DEF Cache!Init, CP!Init, Cache!TypeOK, CP!TypeOK, Cache!Message,
              CP!Message, Cache!Record, CP!Record, Cache!Remembered,
              CP!Remembered, Cache!Holds, CP!Holds, Cache!ListOf, CP!ListOf,
              Cache!cacheVars, CP!cacheVars

\* What the interface's invariant says of the answer a thread has.
LEMMA AnswerFacts ==
  ASSUME AP!InterfaceInv, NEW t \in Threads
  PROVE  /\ Adapter!TypeOK
         /\ reply[t] # None => call[t] # None
         /\ Succeeded(t) /\ call[t] = Adapter!CreateImageCall =>
                /\ reply[t].id \in ImageIds
                /\ Adapter!ImageCreated(reply[t].id) \in effects
         /\ Succeeded(t) /\ call[t].op # "createImage" /\ Adapter!NeedsDhs(call[t]) =>
                call[t] \in effects
<1> USE SameOperators
<1>1. Adapter!TypeOK
  BY DEF AP!InterfaceInv, AP!TypeOK, Adapter!TypeOK
<1>2. done[t] # None => done[t] \in effects /\ AP!IsEffectOf(done[t], call[t])
  BY DEF AP!InterfaceInv, AP!EffectMatches
<1>3. reply[t] # None =>
        /\ call[t] # None
        /\ reply[t].status = "success" /\ Adapter!NeedsDhs(call[t]) =>
              /\ done[t] # None
              /\ call[t] = Adapter!CreateImageCall =>
                    done[t] = Adapter!ImageCreated(reply[t].id)
  BY DEF AP!InterfaceInv, AP!ReplyMatches
<1>4. ASSUME Succeeded(t), call[t] = Adapter!CreateImageCall
      PROVE  /\ reply[t].id \in ImageIds
             /\ Adapter!ImageCreated(reply[t].id) \in effects
  <2>1. call[t].op = "createImage" /\ Adapter!NeedsDhs(call[t])
    BY <1>4 DEF Adapter!CreateImageCall, Adapter!NeedsDhs
  <2>2. PICK id \in ImageIds : done[t] = Adapter!ImageCreated(id)
    BY <1>2, <1>3, <1>4, <2>1 DEF Succeeded, AP!IsEffectOf
  <2>3. QED
    BY <1>2, <1>3, <1>4, <2>1, <2>2 DEF Succeeded, Adapter!ImageCreated
<1>5. QED
  BY <1>1, <1>2, <1>3, <1>4 DEF Succeeded, AP!IsEffectOf

-----------------------------------------------------------------------------

LEMMA InitServiceInv == Init => ServiceInv
BY RequestsAssumption
   DEF Init, Adapter!Init, Cache!Init, ServiceInv, ThreadTypeOK, Serving, Calling,
       Labels, AdapterLabels, ImageLabels, KeywordLabels

\* A step of thread t changes what belongs to t only.
Affects(t) ==
    /\ pc' = [pc EXCEPT ![t] = pc'[t]]
    /\ request' = [request EXCEPT ![t] = request'[t]]
    /\ imageId' = [imageId EXCEPT ![t] = imageId'[t]]
    /\ timestamp' = [timestamp EXCEPT ![t] = timestamp'[t]]
    /\ response' = [response EXCEPT ![t] = response'[t]]
    /\ call' = [call EXCEPT ![t] = call'[t]]
    /\ now' = now

\* So the invariant has to be shown of t alone, answered or going on.
LEMMA OneThreadSteps ==
  ASSUME ServiceInv, Adapter!TypeOK, NEW t \in Threads, Affects(t),
         pc'[t] \in Labels, request'[t] \in Requests \cup {None},
         imageId'[t] \in ImageIds \cup {None}, response'[t] \in Responses \cup {None},
         timestamp'[t] \in Nat, timestamp'[t] <= now,
         Serving(t)', Calling(t)'
  PROVE  ServiceInv'
<1>1. ThreadTypeOK'
  BY DEF ServiceInv, ThreadTypeOK, Affects
<1>2. ASSUME NEW u \in Threads \ {t}
      PROVE  Serving(u)' /\ Calling(u)'
  <2>1. /\ pc'[u] = pc[u]
        /\ request'[u] = request[u]
        /\ imageId'[u] = imageId[u]
        /\ response'[u] = response[u]
        /\ call'[u] = call[u]
    BY DEF ServiceInv, ThreadTypeOK, Affects, Adapter!TypeOK
  <2>2. QED
    BY <2>1 DEF ServiceInv, Serving, Calling
<1>3. QED
  BY <1>1, <1>2 DEF ServiceInv

LEMMA Answered ==
  ASSUME ServiceInv, AP!InterfaceInv, NEW t \in Threads, Affects(t),
         pc[t] # "idle", NEW s \in Statuses, NEW i \in ImageIds \cup {None},
         Answer(t, s, i), request' = request, timestamp' = timestamp,
         imageId'[t] \in ImageIds \cup {None}, call'[t] = None
  PROVE  ServiceInv'
<1>1. /\ pc'[t] = "respond"
      /\ response'[t] \in Responses /\ response'[t] # None
      /\ request'[t] \in Requests
      /\ timestamp'[t] \in Nat /\ timestamp'[t] <= now
  BY ResponseTypes DEF Answer, Goto, ServiceInv, ThreadTypeOK, Serving
<1>2. Serving(t)'
  BY <1>1, RequestKinds DEF Serving, ImageLabels, KeywordLabels
<1>3. Calling(t)'
  BY <1>1 DEF Calling, AdapterLabels
<1>4. QED
  BY <1>1, <1>2, <1>3, OneThreadSteps, AnswerFacts DEF Labels

\* One lemma per kind of step: what it changes, and where t is then.
LEMMA ExchangeServiceInv ==
  ASSUME ServiceInv, AP!InterfaceInv, NEW t \in Threads,
         (\E r \in Requests : Receive(t, r)) \/ DispatchOther(t) \/ Respond(t)
  PROVE  ServiceInv'
<1>1. Affects(t) /\ call' = call
  BY AnswerFacts
     DEF Receive, DispatchOther, Respond, Answer, Goto, adapterVars, cacheVars,
         Affects, ServiceInv, ThreadTypeOK, Adapter!TypeOK
<1>2. ASSUME NEW r \in Requests, Receive(t, r)
      PROVE  ServiceInv'
  <2>1. /\ pc[t] = "idle" /\ pc'[t] = "invoke" /\ request'[t] = r
        /\ response' = response /\ imageId' = imageId /\ timestamp' = timestamp
    BY <1>2 DEF Receive, Goto, ServiceInv, ThreadTypeOK
  <2>2. Serving(t)' /\ Calling(t)'
    BY <1>1, <2>1, RequestKinds
       DEF ServiceInv, Serving, Calling, AdapterLabels, ImageLabels, KeywordLabels
  <2>3. QED
    BY <1>1, <2>1, <2>2, OneThreadSteps, AnswerFacts
       DEF ServiceInv, ThreadTypeOK, Labels
<1>3. ASSUME DispatchOther(t)
      PROVE  ServiceInv'
  <2>1. /\ pc[t] = "invoke" /\ Answer(t, "null", None) /\ "null" \in Statuses
        /\ request' = request /\ imageId' = imageId /\ timestamp' = timestamp
    BY <1>3 DEF DispatchOther, Statuses
  <2>2. call'[t] = None
    BY <1>1, <2>1 DEF ServiceInv, Calling, AdapterLabels
  <2>3. QED
    BY <1>1, <2>1, <2>2, Answered DEF ServiceInv, ThreadTypeOK
<1>4. ASSUME Respond(t)
      PROVE  ServiceInv'
  <2>1. /\ pc[t] = "respond" /\ pc'[t] = "idle" /\ request'[t] = None
        /\ imageId'[t] = None /\ timestamp'[t] = 0 /\ response'[t] = None
    BY <1>4 DEF Respond, Goto, ServiceInv, ThreadTypeOK
  <2>2. Serving(t)' /\ Calling(t)'
    BY <1>1, <2>1
       DEF ServiceInv, Serving, Calling, AdapterLabels, ImageLabels, KeywordLabels
  <2>3. QED
    BY <1>1, <2>1, <2>2, OneThreadSteps, AnswerFacts
       DEF ServiceInv, ThreadTypeOK, Labels
<1>5. QED
  BY <1>2, <1>3, <1>4

LEMMA CreateImageInv ==
  ASSUME ServiceInv, AP!InterfaceInv, NEW t \in Threads, CreateImage(t)
  PROVE  ServiceInv'
<1>1. /\ pc[t] = "invoke" /\ pc'[t] = "creating"
      /\ request[t].op = "createImage"
      /\ call' = [call EXCEPT ![t] = Adapter!CreateImageCall]
      /\ UNCHANGED <<request, imageId, timestamp, response, now>>
  BY DEF CreateImage, CallAdapter, Goto, cacheVars, Adapter!Invoke, ServiceInv,
         ThreadTypeOK
<1>2. Affects(t) /\ call'[t] = Adapter!CreateImageCall
  BY <1>1, AnswerFacts
     DEF CreateImage, CallAdapter, Goto, Affects, ServiceInv, ThreadTypeOK,
         Adapter!TypeOK
<1>3. request[t] \in Requests /\ request[t] \in CreateImageRequests
  BY <1>1, RequestKinds DEF ServiceInv, ThreadTypeOK, Serving
<1>4. Serving(t)' /\ Calling(t)'
  BY <1>1, <1>2, <1>3, RequestKinds
     DEF ServiceInv, Serving, Calling, AdapterLabels, ImageLabels, KeywordLabels
<1>5. QED
  BY <1>1, <1>2, <1>4, OneThreadSteps, AnswerFacts
     DEF ServiceInv, ThreadTypeOK, Labels

\* Taking the adapter's answer.
LEMMA CollectAffects ==
  ASSUME ServiceInv, AP!InterfaceInv, NEW t \in Threads, Adapter!Collect(t),
         request' = request, timestamp' = timestamp, now' = now,
         NEW p, pc' = [pc EXCEPT ![t] = p],
         NEW i, imageId' = [imageId EXCEPT ![t] = i],
         NEW a, response' = [response EXCEPT ![t] = a]
  PROVE  Affects(t) /\ call'[t] = None
BY AnswerFacts DEF Adapter!Collect, Affects, ServiceInv, ThreadTypeOK,
                   Adapter!TypeOK

LEMMA ImageCreatedInv ==
  ASSUME ServiceInv, AP!InterfaceInv, NEW t \in Threads, ImageCreated(t)
  PROVE  ServiceInv'
<1>1. /\ pc[t] = "creating" /\ response[t] = None
      /\ request[t] \in Requests /\ request[t] \in CreateImageRequests
      /\ call[t] = Adapter!CreateImageCall
  BY DEF ImageCreated, ServiceInv, ThreadTypeOK, Serving, Calling
<1>2. /\ request' = request /\ timestamp' = timestamp /\ now' = now
      /\ Adapter!Collect(t)
  BY DEF ImageCreated, cacheVars
<1>3. Succeeded(t) => reply[t].id \in ImageIds
  BY <1>1, AnswerFacts
<1>4. CASE Failed(t) /\ AnswerError(t, "DHS_ERROR") /\ imageId' = imageId
  <2>1. Affects(t) /\ call'[t] = None
    BY <1>2, <1>4, CollectAffects
       DEF AnswerError, Answer, Goto, ServiceInv, ThreadTypeOK
  <2>2. QED
    BY <1>1, <1>2, <1>4, <2>1, Answered
       DEF AnswerError, Statuses, ServiceInv, ThreadTypeOK
<1>5. CASE /\ Succeeded(t)
           /\ imageId' = [imageId EXCEPT ![t] = reply[t].id]
           /\ AnswerError(t, "INTERNAL_SERVER_ERROR")
  <2>1. Affects(t) /\ call'[t] = None /\ imageId'[t] = reply[t].id
    BY <1>2, <1>5, CollectAffects
       DEF AnswerError, Answer, Goto, ServiceInv, ThreadTypeOK
  <2>2. QED
    BY <1>1, <1>2, <1>3, <1>5, <2>1, Answered DEF AnswerError, Statuses
<1>6. CASE /\ Succeeded(t)
           /\ imageId' = [imageId EXCEPT ![t] = reply[t].id]
           /\ Goto(t, "lifetime") /\ response' = response
  <2>1. /\ Affects(t) /\ call'[t] = None /\ imageId'[t] = reply[t].id
        /\ pc'[t] = "lifetime"
    BY <1>2, <1>6, CollectAffects DEF Goto, ServiceInv, ThreadTypeOK
  <2>2. Serving(t)' /\ Calling(t)'
    BY <1>1, <1>2, <1>3, <1>6, <2>1, RequestKinds
       DEF Serving, Calling, AdapterLabels, ImageLabels, KeywordLabels
  <2>3. QED
    BY <1>2, <1>3, <1>6, <2>1, <2>2, OneThreadSteps, AnswerFacts
       DEF ServiceInv, ThreadTypeOK, Labels
<1>7. QED
  BY <1>4, <1>5, <1>6 DEF ImageCreated

\* Making a call of the adapter.
LEMMA CallAffects ==
  ASSUME ServiceInv, AP!InterfaceInv, NEW t \in Threads,
         NEW c, NEW label, CallAdapter(t, c, label),
         request' = request, timestamp' = timestamp, now' = now
  PROVE  /\ Affects(t) /\ call'[t] = c /\ pc'[t] = label
         /\ imageId' = imageId /\ response' = response
BY AnswerFacts
   DEF CallAdapter, Goto, Adapter!Invoke, Affects, ServiceInv, ThreadTypeOK,
       Adapter!TypeOK

LEMMA SetParametersInv ==
  ASSUME ServiceInv, AP!InterfaceInv, NEW t \in Threads, SetParameters(t)
  PROVE  ServiceInv'
<1>1. /\ pc[t] = "invoke" /\ response[t] = None /\ call[t] = None
      /\ request[t] \in Requests /\ request[t] \in SetParametersRequests
  BY RequestKinds
     DEF SetParameters, ServiceInv, ThreadTypeOK, Serving, Calling, AdapterLabels
<1>2. /\ request' = request /\ timestamp' = timestamp /\ now' = now /\ call' = call
  BY DEF SetParameters, adapterVars, cacheVars
<1>3. Affects(t)
  BY <1>2, AnswerFacts
     DEF SetParameters, AnswerError, Answer, Goto, Affects, ServiceInv, ThreadTypeOK,
         Adapter!TypeOK
<1>4. CASE /\ AnswerError(t, "INTERNAL_SERVER_ERROR") \/ AnswerError(t, "BAD_REQUEST")
           /\ imageId' = imageId
  BY <1>1, <1>2, <1>3, <1>4, Answered
     DEF AnswerError, Statuses, ServiceInv, ThreadTypeOK
<1>5. CASE /\ request[t].id # None
           /\ imageId' = [imageId EXCEPT ![t] = request[t].id]
           /\ Goto(t, "lifetime") /\ response' = response
  <2>1. request[t].id \in ImageIds
    BY <1>1, <1>5 DEF SetParametersRequests
  <2>2. imageId'[t] \in ImageIds /\ pc'[t] = "lifetime"
    BY <1>5, <2>1 DEF Goto, ServiceInv, ThreadTypeOK
  <2>3. Serving(t)' /\ Calling(t)'
    BY <1>1, <1>2, <1>5, <2>2, RequestKinds
       DEF Serving, Calling, AdapterLabels, ImageLabels, KeywordLabels
  <2>4. QED
    BY <1>2, <1>3, <1>5, <2>2, <2>3, OneThreadSteps, AnswerFacts
       DEF ServiceInv, ThreadTypeOK, Labels
<1>6. QED
  BY <1>4, <1>5 DEF SetParameters

LEMMA SetLifetimeInv ==
  ASSUME ServiceInv, AP!InterfaceInv, NEW t \in Threads, SetLifetime(t)
  PROVE  ServiceInv'
<1>1. /\ pc[t] = "lifetime" /\ response[t] = None /\ call[t] = None
      /\ request[t] \in Requests
      /\ request[t] \in CreateImageRequests \cup SetParametersRequests
      /\ imageId[t] \in ImageIds
  BY DEF SetLifetime, ServiceInv, ThreadTypeOK, Serving, Calling, AdapterLabels,
         ImageLabels
<1>2. /\ request' = request /\ timestamp' = timestamp /\ now' = now
  BY DEF SetLifetime, cacheVars
<1>3. /\ Affects(t) /\ imageId' = imageId /\ response' = response
      /\ \/ pc'[t] = "contributors" /\ call'[t] = None
         \/ /\ pc'[t] = "settingLifetime" /\ request[t].lifetime # None
            /\ call'[t] = Adapter!LifetimeCall(imageId[t], request[t].lifetime)
  <2>1. CASE Goto(t, "contributors") /\ UNCHANGED <<imageId, response, adapterVars>>
    BY <1>1, <1>2, <2>1, AnswerFacts
       DEF Goto, adapterVars, Affects, ServiceInv, ThreadTypeOK, Adapter!TypeOK
  <2>2. CASE /\ request[t].lifetime # None
             /\ CallAdapter(t, Adapter!LifetimeCall(imageId[t], request[t].lifetime),
                            "settingLifetime")
    BY <1>2, <2>2, CallAffects
  <2>3. QED
    BY <2>1, <2>2 DEF SetLifetime
<1>4. Serving(t)' /\ Calling(t)'
  BY <1>1, <1>2, <1>3, RequestKinds
     DEF Serving, Calling, AdapterLabels, ImageLabels, KeywordLabels
<1>5. QED
  BY <1>2, <1>3, <1>4, OneThreadSteps, AnswerFacts
     DEF ServiceInv, ThreadTypeOK, Labels

LEMMA LifetimeSetInv ==
  ASSUME ServiceInv, AP!InterfaceInv, NEW t \in Threads, LifetimeSet(t)
  PROVE  ServiceInv'
<1>1. /\ pc[t] = "settingLifetime" /\ response[t] = None
      /\ request[t] \in Requests
      /\ request[t] \in CreateImageRequests \cup SetParametersRequests
      /\ imageId[t] \in ImageIds
  BY DEF LifetimeSet, ServiceInv, ThreadTypeOK, Serving, ImageLabels
<1>2. /\ request' = request /\ timestamp' = timestamp /\ now' = now
      /\ imageId' = imageId /\ Adapter!Collect(t)
  BY DEF LifetimeSet, cacheVars
<1>3. Affects(t) /\ call'[t] = None
  BY <1>2, CollectAffects
     DEF LifetimeSet, AnswerError, Answer, Goto, ServiceInv, ThreadTypeOK
<1>4. CASE AnswerError(t, "DHS_ERROR")
  BY <1>1, <1>2, <1>3, <1>4, Answered
     DEF AnswerError, Statuses, ServiceInv, ThreadTypeOK
<1>5. CASE Goto(t, "contributors") /\ response' = response
  <2>1. pc'[t] = "contributors"
    BY <1>5 DEF Goto, ServiceInv, ThreadTypeOK
  <2>2. Serving(t)' /\ Calling(t)'
    BY <1>1, <1>2, <1>3, <1>5, <2>1, RequestKinds
       DEF Serving, Calling, AdapterLabels, ImageLabels, KeywordLabels
  <2>3. QED
    BY <1>2, <1>3, <1>5, <2>1, <2>2, OneThreadSteps, AnswerFacts
       DEF ServiceInv, ThreadTypeOK, Labels
<1>6. QED
  BY <1>4, <1>5 DEF LifetimeSet

LEMMA ContributorsInv ==
  ASSUME ServiceInv, AP!InterfaceInv, NEW t \in Threads,
         SetContributors(t) \/ ContributorsSet(t)
  PROVE  ServiceInv'
<1> DEFINE result == IF request[t].op = "createImage" THEN imageId[t] ELSE None
<1>1. /\ pc[t] \in {"contributors", "settingContributors"} /\ response[t] = None
      /\ request[t] \in Requests
      /\ request[t] \in CreateImageRequests \cup SetParametersRequests
      /\ imageId[t] \in ImageIds
      /\ pc[t] = "contributors" => call[t] = None
  BY DEF SetContributors, ContributorsSet, ServiceInv, ThreadTypeOK, Serving,
         Calling, ImageLabels, AdapterLabels
<1>2. /\ request' = request /\ timestamp' = timestamp /\ now' = now
      /\ imageId' = imageId
  BY CallAffects DEF SetContributors, ContributorsSet, CallAdapter, cacheVars
<1>3. PICK r \in ImageIds \cup {None} : r = result
  BY <1>1
<1> HIDE DEF result
<1>4. CASE pc[t] = "contributors" /\ AnswerSuccess(t) /\ UNCHANGED adapterVars
  <2>1. Affects(t) /\ call'[t] = None
    BY <1>1, <1>2, <1>4, AnswerFacts
       DEF AnswerSuccess, Answer, Goto, adapterVars, Affects, ServiceInv,
           ThreadTypeOK, Adapter!TypeOK
  <2>2. Answer(t, "success", r)
    BY <1>3, <1>4 DEF AnswerSuccess, result
  <2>3. QED
    BY <1>1, <1>2, <2>1, <2>2, Answered DEF Statuses, ServiceInv, ThreadTypeOK
<1>5. CASE CallAdapter(t, Adapter!ContribCall(imageId[t], request[t].contribs),
                       "settingContributors")
  <2>1. /\ Affects(t) /\ response' = response
        /\ pc'[t] = "settingContributors"
        /\ call'[t] = Adapter!ContribCall(imageId[t], request[t].contribs)
    BY <1>2, <1>5, CallAffects
  <2>2. Serving(t)' /\ Calling(t)'
    BY <1>1, <1>2, <2>1, RequestKinds
       DEF Serving, Calling, AdapterLabels, ImageLabels, KeywordLabels
  <2>3. QED
    BY <1>2, <2>1, <2>2, OneThreadSteps, AnswerFacts
       DEF ServiceInv, ThreadTypeOK, Labels
<1>6. CASE /\ Adapter!Collect(t)
           /\ AnswerError(t, "DHS_ERROR") \/ AnswerSuccess(t)
  <2>1. Affects(t) /\ call'[t] = None
    BY <1>2, <1>6, CollectAffects
       DEF AnswerError, AnswerSuccess, Answer, Goto, ServiceInv, ThreadTypeOK
  <2>2. Answer(t, "DHS_ERROR", None) \/ Answer(t, "success", r)
    BY <1>3, <1>6 DEF AnswerError, AnswerSuccess, result
  <2>3. QED
    BY <1>1, <1>2, <2>1, <2>2, Answered DEF Statuses, ServiceInv, ThreadTypeOK
<1>7. QED
  BY <1>4, <1>5, <1>6 DEF SetContributors, ContributorsSet

LEMMA SetKeywordsInv ==
  ASSUME ServiceInv, AP!InterfaceInv, NEW t \in Threads, SetKeywords(t)
  PROVE  ServiceInv'
<1>1. /\ pc[t] = "invoke" /\ response[t] = None /\ call[t] = None
      /\ request[t] \in Requests /\ request[t] \in SetKeywordsRequests
  BY RequestKinds
     DEF SetKeywords, ServiceInv, ThreadTypeOK, Serving, Calling, AdapterLabels
<1>2. /\ request' = request /\ now' = now /\ call' = call
  BY DEF SetKeywords, adapterVars, cacheVars
<1>3. Affects(t)
  BY <1>2, AnswerFacts
     DEF SetKeywords, AnswerError, Answer, Goto, Affects, ServiceInv, ThreadTypeOK,
         Adapter!TypeOK
<1>4. CASE /\ AnswerError(t, "INTERNAL_SERVER_ERROR") \/ AnswerError(t, "BAD_REQUEST")
           /\ UNCHANGED <<imageId, timestamp>>
  BY <1>1, <1>2, <1>3, <1>4, Answered
     DEF AnswerError, Statuses, ServiceInv, ThreadTypeOK
<1>5. CASE /\ request[t].id # None /\ request[t].keywords # None
           /\ imageId' = [imageId EXCEPT ![t] = request[t].id]
           /\ timestamp' = [timestamp EXCEPT ![t] = now]
           /\ Goto(t, "purge") /\ response' = response
  <2>1. request[t].id \in ImageIds
    BY <1>1, <1>5 DEF SetKeywordsRequests
  <2>2. /\ imageId'[t] \in ImageIds /\ pc'[t] = "purge"
        /\ timestamp'[t] = now /\ now \in Nat
    BY <1>5, <2>1 DEF Goto, ServiceInv, ThreadTypeOK
  <2>3. Serving(t)' /\ Calling(t)'
    BY <1>1, <1>2, <1>5, <2>2, RequestKinds
       DEF Serving, Calling, AdapterLabels, ImageLabels, KeywordLabels
  <2>4. QED
    BY <1>2, <1>3, <1>5, <2>2, <2>3, OneThreadSteps, AnswerFacts
       DEF ServiceInv, ThreadTypeOK, Labels
<1>6. QED
  BY <1>4, <1>5 DEF SetKeywords

LEMMA PurgeInv ==
  ASSUME ServiceInv, AP!InterfaceInv, NEW t \in Threads, Purge(t)
  PROVE  ServiceInv'
<1>1. /\ pc[t] = "purge" /\ pc'[t] = "check"
      /\ UNCHANGED <<request, imageId, timestamp, response, call, now>>
      /\ Affects(t)
  BY AnswerFacts
     DEF Purge, Goto, adapterVars, Cache!PurgeOldMessages, Affects, ServiceInv,
         ThreadTypeOK, Adapter!TypeOK
<1>2. Serving(t)' /\ Calling(t)'
  BY <1>1 DEF ServiceInv, Serving, Calling, AdapterLabels, ImageLabels, KeywordLabels
<1>3. QED
  BY <1>1, <1>2, OneThreadSteps, AnswerFacts DEF ServiceInv, ThreadTypeOK, Labels

LEMMA CheckTransactionInv ==
  ASSUME ServiceInv, AP!InterfaceInv, NEW t \in Threads, CheckTransaction(t)
  PROVE  ServiceInv'
<1>1. /\ pc[t] = "check" /\ response[t] = None /\ call[t] = None
      /\ request[t] \in Requests /\ request[t] \in SetKeywordsRequests
      /\ request[t].keywords # None /\ imageId[t] \in ImageIds
  BY DEF CheckTransaction, ServiceInv, ThreadTypeOK, Serving, Calling,
         AdapterLabels, KeywordLabels
<1>2. /\ request' = request /\ timestamp' = timestamp /\ now' = now
  BY DEF CheckTransaction, cacheVars
<1>3. CASE Answer(t, "success", None) /\ UNCHANGED <<imageId, adapterVars>>
  <2>1. Affects(t) /\ call'[t] = None
    BY <1>1, <1>2, <1>3, AnswerFacts
       DEF Answer, Goto, adapterVars, Affects, ServiceInv, ThreadTypeOK,
           Adapter!TypeOK
  <2>2. QED
    BY <1>1, <1>2, <1>3, <2>1, Answered DEF Statuses, ServiceInv, ThreadTypeOK
<1>4. CASE CallAdapter(t, Adapter!KeywordsCall(imageId[t], request[t].keywords,
                                               request[t].final), "sending")
  <2>1. /\ Affects(t) /\ response' = response /\ imageId' = imageId
        /\ pc'[t] = "sending"
        /\ call'[t] = Adapter!KeywordsCall(imageId[t], request[t].keywords,
                                           request[t].final)
    BY <1>2, <1>4, CallAffects
  <2>2. Serving(t)' /\ Calling(t)'
    BY <1>1, <1>2, <2>1, RequestKinds
       DEF Serving, Calling, AdapterLabels, ImageLabels, KeywordLabels
  <2>3. QED
    BY <1>2, <2>1, <2>2, OneThreadSteps, AnswerFacts
       DEF ServiceInv, ThreadTypeOK, Labels
<1>5. QED
  BY <1>3, <1>4 DEF CheckTransaction

LEMMA KeywordsSentInv ==
  ASSUME ServiceInv, AP!InterfaceInv, NEW t \in Threads, KeywordsSent(t)
  PROVE  ServiceInv'
<1>1. /\ pc[t] = "sending" /\ response[t] = None
      /\ request[t] \in Requests /\ request[t] \in SetKeywordsRequests
      /\ request[t].keywords # None /\ imageId[t] \in ImageIds
  BY DEF KeywordsSent, ServiceInv, ThreadTypeOK, Serving, KeywordLabels
<1>2. /\ request' = request /\ timestamp' = timestamp /\ now' = now
      /\ imageId' = imageId /\ Adapter!Collect(t)
  BY DEF KeywordsSent, cacheVars
<1>3. Affects(t) /\ call'[t] = None
  BY <1>2, CollectAffects
     DEF KeywordsSent, AnswerError, Answer, Goto, ServiceInv, ThreadTypeOK
<1>4. CASE AnswerError(t, "DHS_ERROR")
  BY <1>1, <1>2, <1>3, <1>4, Answered
     DEF AnswerError, Statuses, ServiceInv, ThreadTypeOK
<1>5. CASE Goto(t, "record") /\ response' = response
  <2>1. pc'[t] = "record"
    BY <1>5 DEF Goto, ServiceInv, ThreadTypeOK
  <2>2. Serving(t)' /\ Calling(t)'
    BY <1>1, <1>2, <1>3, <1>5, <2>1, RequestKinds
       DEF Serving, Calling, AdapterLabels, ImageLabels, KeywordLabels
  <2>3. QED
    BY <1>2, <1>3, <1>5, <2>1, <2>2, OneThreadSteps, AnswerFacts
       DEF ServiceInv, ThreadTypeOK, Labels
<1>6. QED
  BY <1>4, <1>5 DEF KeywordsSent

LEMMA RecordTransactionInv ==
  ASSUME ServiceInv, AP!InterfaceInv, NEW t \in Threads, RecordTransaction(t)
  PROVE  ServiceInv'
<1>1. /\ pc[t] = "record" /\ call[t] = None /\ Answer(t, "success", None)
      /\ UNCHANGED <<request, imageId, timestamp, call, now>>
  BY DEF RecordTransaction, Cache!Add, adapterVars, ServiceInv, Calling,
         AdapterLabels
<1>2. Affects(t) /\ call'[t] = None
  BY <1>1, AnswerFacts
     DEF Answer, Goto, Affects, ServiceInv, ThreadTypeOK, Adapter!TypeOK
<1>3. QED
  BY <1>1, <1>2, Answered DEF Statuses, ServiceInv, ThreadTypeOK

\* The steps that are not the thread's own.
LEMMA OtherServiceInv ==
  ASSUME ServiceInv, Tick \/ (\E t \in Threads : AdapterStep(t)) \/ UNCHANGED vars
  PROVE  ServiceInv'
<1>1. /\ UNCHANGED <<threadVars, call>> /\ now' \in {now, now + 1}
  BY DEF Tick, Cache!Tick, AdapterStep, vars, adapterVars, cacheVars,
         Adapter!TakeEffect, Adapter!Succeed, Adapter!Fail
<1>2. ThreadTypeOK'
  BY <1>1 DEF ServiceInv, ThreadTypeOK, threadVars
<1>3. QED
  BY <1>1, <1>2 DEF ServiceInv, Serving, Calling, threadVars

LEMMA NextServiceInv == ServiceInv /\ AP!InterfaceInv /\ [Next]_vars => ServiceInv'
BY ExchangeServiceInv, CreateImageInv, ImageCreatedInv, SetParametersInv,
   SetLifetimeInv, LifetimeSetInv, ContributorsInv, SetKeywordsInv, PurgeInv,
   CheckTransactionInv, KeywordsSentInv, RecordTransactionInv, OtherServiceInv
   DEF Next, Handle

-----------------------------------------------------------------------------

\* The service does with the adapter what the interface allows.
LEMMA NextUsesAdapter ==
  ServiceInv /\ AP!InterfaceInv /\ [Next]_vars => [AP!Next]_(AP!adapterVars)
<1> SUFFICES ASSUME ServiceInv, AP!InterfaceInv, [Next]_vars
             PROVE  Adapter!Next \/ UNCHANGED adapterVars
  BY SameInterface DEF AP!adapterVars, adapterVars
<1>1. ASSUME NEW t \in Threads, Handle(t)
      PROVE  Adapter!Next \/ UNCHANGED adapterVars
  <2>1. \/ \E c \in Adapter!Calls : Adapter!Invoke(t, c)
        \/ Adapter!Collect(t)
        \/ UNCHANGED adapterVars
    <3>1. CASE CreateImage(t)
      BY <3>1, CallsOfRequests DEF CreateImage, CallAdapter
    <3>2. CASE SetLifetime(t)
      BY <3>2, CallsOfRequests
         DEF SetLifetime, CallAdapter, ServiceInv, Serving, ImageLabels
    <3>3. CASE SetContributors(t)
      BY <3>3, CallsOfRequests
         DEF SetContributors, CallAdapter, ServiceInv, Serving, ImageLabels
    <3>4. CASE CheckTransaction(t)
      BY <3>4, CallsOfRequests
         DEF CheckTransaction, CallAdapter, ServiceInv, Serving, KeywordLabels
    <3>5. CASE ImageCreated(t) \/ LifetimeSet(t) \/ ContributorsSet(t) \/ KeywordsSent(t)
      BY <3>5 DEF ImageCreated, LifetimeSet, ContributorsSet, KeywordsSent
    <3>6. CASE \/ DispatchOther(t) \/ Respond(t) \/ SetParameters(t) \/ SetKeywords(t)
               \/ Purge(t) \/ RecordTransaction(t)
      BY <3>6 DEF DispatchOther, Respond, SetParameters, SetKeywords, Purge,
                  RecordTransaction
    <3>7. QED
      BY <1>1, <3>1, <3>2, <3>3, <3>4, <3>5, <3>6 DEF Handle
  <2>2. QED
    BY <2>1 DEF Adapter!Next
<1>2. QED
  BY <1>1 DEF Next, Receive, AdapterStep, Tick, vars, Adapter!Next

\* It presents to the cache times that have passed and ids that can be.
LEMMA NextUsesCache ==
  ServiceInv /\ [Next]_vars => [Cache!Next]_(Cache!cacheVars)
<1> SUFFICES ASSUME ServiceInv, [Next]_vars
             PROVE  Cache!Next \/ UNCHANGED cacheVars
  BY DEF Cache!cacheVars, cacheVars
<1>1. ASSUME NEW t \in Threads
      PROVE  timestamp[t] \in 0..now
  BY DEF ServiceInv, ThreadTypeOK
<1>2. ASSUME NEW t \in Threads, Purge(t)
      PROVE  Cache!Next
  BY <1>1, <1>2 DEF Purge, Cache!Next
<1>3. ASSUME NEW t \in Threads, RecordTransaction(t)
      PROVE  Cache!Next
  BY <1>1, <1>3
     DEF RecordTransaction, Cache!Next, ServiceInv, Serving, KeywordLabels
<1>4. ASSUME NEW t \in Threads, Handle(t), ~ Purge(t), ~ RecordTransaction(t)
      PROVE  UNCHANGED cacheVars
  BY <1>4 DEF Handle, DispatchOther, Respond, CreateImage, ImageCreated,
              SetParameters, SetLifetime, LifetimeSet, SetContributors,
              ContributorsSet, SetKeywords, CheckTransaction, KeywordsSent
<1>5. QED
  BY <1>2, <1>3, <1>4 DEF Next, Receive, AdapterStep, Tick, vars, Cache!Next

LEMMA Invariant == Spec => [](ServiceInv /\ AP!InterfaceInv)
<1>1. Init => ServiceInv /\ AP!InterfaceInv
  BY InitServiceInv, SameInterface, AP!InitInterfaceInv, AdapterAssumption,
     SameOperators DEF Init
<1>2. ServiceInv /\ AP!InterfaceInv /\ [Next]_vars => (ServiceInv /\ AP!InterfaceInv)'
  BY NextServiceInv, NextUsesAdapter, AP!NextInterfaceInv, AdapterAssumption,
     SameOperators
<1>3. QED
  BY <1>1, <1>2, PTL DEF Spec

\* The service uses the cache only as the cache's specification allows, so
\* what is proved of the cache holds in the service (DhsService.cpp:381-389,
\* DhsService.h:218, 225).
THEOREM ServiceUsesCache == Spec => UsesCache
<1>1. Init => Cache!Init
  BY DEF Init
<1>2. QED
  BY <1>1, NextUsesCache, Invariant, PTL DEF Spec, UsesCache, Cache!Spec

LEMMA CacheIsSpecified == Spec => CP!Spec
<1>1. Cache!Init => CP!Init
  BY SameCache
<1>2. [Cache!Next]_(Cache!cacheVars) => [CP!Next]_(CP!cacheVars)
  BY SameCache DEF Cache!cacheVars, CP!cacheVars
<1>3. QED
  BY <1>1, <1>2, ServiceUsesCache, PTL DEF UsesCache, Cache!Spec, CP!Spec

\* The variables of the service keep their types, those of the adapter and of
\* the cache included, and no thread is ahead of the clock.
THEOREM ServiceTypeCorrect == Spec => []TypeOK
<1>1. Spec => []CP!TypeOK
  BY CacheIsSpecified, CP!TypeCorrect, MemoryAssumption
<1>2. ServiceInv /\ AP!InterfaceInv /\ CP!TypeOK => TypeOK
  <2>1. AP!InterfaceInv => Adapter!TypeOK
    BY SameOperators DEF AP!InterfaceInv, AP!TypeOK, Adapter!TypeOK
  <2>2. QED
    BY <2>1, SameCache DEF TypeOK, ServiceInv, ThreadTypeOK
<1>3. QED
  BY <1>1, <1>2, Invariant, PTL

\* Only checkTransaction brings a thread from the check to anywhere else.
LEMMA LeavesCheck ==
  ASSUME ServiceInv, [Next]_vars, NEW t \in Threads,
         pc[t] = "check", pc'[t] # "check"
  PROVE  CheckTransaction(t)
<1>1. ASSUME NEW u \in Threads, Handle(u) \/ (\E r \in Requests : Receive(u, r)), u # t
      PROVE  pc'[t] = pc[t]
  BY <1>1
     DEF Handle, DispatchOther, Respond, CreateImage, ImageCreated, SetParameters,
         SetLifetime, LifetimeSet, SetContributors, ContributorsSet, SetKeywords,
         Purge, CheckTransaction, KeywordsSent, RecordTransaction, Receive, Answer,
         AnswerError, AnswerSuccess, CallAdapter, Goto, ServiceInv, ThreadTypeOK
<1>2. ASSUME Handle(t) \/ \E r \in Requests : Receive(t, r)
      PROVE  CheckTransaction(t)
  BY <1>2
     DEF Handle, DispatchOther, Respond, CreateImage, ImageCreated, SetParameters,
         SetLifetime, LifetimeSet, SetContributors, ContributorsSet, SetKeywords,
         Purge, KeywordsSent, RecordTransaction, Receive
<1>3. QED
  BY <1>1, <1>2 DEF Next, Tick, AdapterStep, threadVars, vars

\* There it sends a message it has not found and skips one it has.
LEMMA ChecksCache ==
  ASSUME ServiceInv, [Next]_vars, NEW t \in Threads
  PROVE  /\ Sends(t) => ~ Cache!Exists(imageId[t], request[t])
         /\ Skips(t) => Cache!Exists(imageId[t], request[t])
BY LeavesCheck
   DEF Sends, Skips, CheckTransaction, Answer, CallAdapter, Goto, ServiceInv,
       ThreadTypeOK

LEMMA SendsExpired ==
  ServiceInv /\ CP!Remembered /\ [Next]_vars =>
    \A t \in Threads : Sends(t) =>
        \A r \in Transmissions(t) : now - r.timestamp > ValidAge
<1> SUFFICES ASSUME ServiceInv, CP!Remembered, [Next]_vars,
                    NEW t \in Threads, Sends(t), NEW r \in Transmissions(t)
             PROVE  now - r.timestamp > ValidAge
  OBVIOUS
<1>1. ~ Cache!Holds(r)
  BY ChecksCache DEF Transmissions, Cache!Exists, Cache!Holds, Cache!ListOf
<1>2. QED
  BY <1>1, SameCache DEF Transmissions, Cache!Remembered

\* A message is sent only when it is not in the cache, and what was recorded
\* stays there for validAge seconds whatever other threads purge, so it is not
\* sent again before (DhsService.cpp:381-384, MessageCache.cpp:45).
THEOREM NotSentAgainEarly == Spec => NoEarlyRepeat
<1>1. Spec => []CP!Remembered
  BY CacheIsSpecified, CP!NotForgottenEarly, MemoryAssumption
<1>2. QED
  BY <1>1, SendsExpired, Invariant, PTL DEF Spec, NoEarlyRepeat

-----------------------------------------------------------------------------

\* How far the DHS has done what a thread was asked for, by the thread's place.
Applied(t) ==
    /\ pc[t] \in ImageLabels /\ request[t].op = "createImage" =>
            Adapter!ImageCreated(imageId[t]) \in effects
    /\ pc[t] \in {"contributors", "settingContributors"} /\ request[t].lifetime # None =>
            Adapter!LifetimeCall(imageId[t], request[t].lifetime) \in effects
    /\ pc[t] = "record" => Requested(request[t], imageId[t]) \subseteq effects
    /\ response[t] # None /\ response[t].status = "success" =>
            /\ Requested(request[t], imageId[t]) \subseteq effects
            /\ request[t].op = "createImage" => response[t].result = imageId[t]

\* What the cache remembers has been done.
RecordsApplied == \A r \in recorded : Requested(r.data, r.id) \subseteq effects

AppliedInv == RecordsApplied /\ \A t \in Threads : Applied(t)

LEMMA RequestedOfKeywords ==
  ASSUME NEW r \in SetKeywordsRequests, NEW id
  PROVE  Requested(r, id) = IF r.keywords = EmptyList
                            THEN {} ELSE {Adapter!KeywordsCall(id, r.keywords, r.final)}
BY DEF Requested, SetKeywordsRequests

LEMMA RequestedOfImages ==
  ASSUME NEW r \in CreateImageRequests \cup SetParametersRequests, NEW id, NEW S,
         r.op = "createImage" => Adapter!ImageCreated(id) \in S,
         r.lifetime # None => Adapter!LifetimeCall(id, r.lifetime) \in S,
         r.contribs # EmptyList => Adapter!ContribCall(id, r.contribs) \in S
  PROVE  Requested(r, id) \subseteq S
<1>1. r.op \in {"createImage", "setParameters"}
  BY DEF CreateImageRequests, SetParametersRequests
<1>2. Requested(r, id) =
        (IF r.op = "createImage" THEN {Adapter!ImageCreated(id)} ELSE {})
          \cup (IF r.lifetime = None
                THEN {} ELSE {Adapter!LifetimeCall(id, r.lifetime)})
          \cup (IF r.contribs = EmptyList
                THEN {} ELSE {Adapter!ContribCall(id, r.contribs)})
  BY <1>1 DEF Requested
<1>3. QED
  BY <1>2

\* Nothing that was done is undone.
LEMMA EffectsGrow == ServiceInv /\ [Next]_vars => effects \subseteq effects'
<1>1. ASSUME NEW t \in Threads, Handle(t)
      PROVE  effects' = effects
  BY <1>1
     DEF Handle, DispatchOther, Respond, CreateImage, ImageCreated, SetParameters,
         SetLifetime, LifetimeSet, SetContributors, ContributorsSet, SetKeywords,
         Purge, CheckTransaction, KeywordsSent, RecordTransaction, CallAdapter,
         Adapter!Invoke, Adapter!Collect, adapterVars
<1>2. QED
  BY <1>1 DEF Next, Receive, AdapterStep, Tick, vars, adapterVars,
              Adapter!TakeEffect, Adapter!Succeed, Adapter!Fail

\* A message found in the cache was recorded by some thread.
LEMMA FoundIsRecorded ==
  ASSUME CP!TypeOK, CP!InAdditionOrder, NEW id, NEW d, Cache!Exists(id, d)
  PROVE  \E r \in recorded : r.id = id /\ r.data = d
<1>1. PICK i \in DOMAIN Cache!ListOf(id) : Cache!ListOf(id)[i].data = d
  BY DEF Cache!Exists
<1>2. id \in DOMAIN cache /\ i \in DOMAIN cache[id] /\ cache[id][i].data = d
  BY <1>1 DEF Cache!ListOf
<1>3. i <= i
  BY <1>2 DEF CP!TypeOK
<1>4. \E r \in CP!Explained(id, i) : TRUE
  BY <1>2, <1>3 DEF CP!InAdditionOrder
<1>5. QED
  BY <1>2, <1>4 DEF CP!Explained

LEMMA StepsOfOthers ==
  ASSUME ServiceInv, NEW t \in Threads, NEW u \in Threads, u # t,
         Handle(t) \/ \E r \in Requests : Receive(t, r)
  PROVE  /\ pc'[u] = pc[u]
         /\ request'[u] = request[u]
         /\ imageId'[u] = imageId[u]
         /\ response'[u] = response[u]
BY DEF Handle, DispatchOther, Respond, CreateImage, ImageCreated, SetParameters,
       SetLifetime, LifetimeSet, SetContributors, ContributorsSet, SetKeywords,
       Purge, CheckTransaction, KeywordsSent, RecordTransaction, Receive, Answer,
       AnswerError, AnswerSuccess, CallAdapter, Goto, ServiceInv, ThreadTypeOK

LEMMA StaysApplied ==
  ASSUME NEW t \in Threads, Applied(t), effects \subseteq effects',
         pc'[t] = pc[t], request'[t] = request[t], imageId'[t] = imageId[t],
         response'[t] = response[t]
  PROVE  Applied(t)'
BY DEF Applied

\* A thread that has not begun, or is answered with an error, claims nothing.
LEMMA ClaimsNothing ==
  ASSUME NEW t \in Threads, ServiceInv',
         \/ pc'[t] \in Labels \ (ImageLabels \cup {"record", "respond"})
         \/ pc'[t] = "respond" /\ response'[t].status # "success"
  PROVE  Applied(t)'
BY DEF Applied, ServiceInv, Serving, ImageLabels

LEMMA ExchangeApplied ==
  ASSUME ServiceInv, ServiceInv', NEW t \in Threads,
         \/ \E r \in Requests : Receive(t, r)
         \/ DispatchOther(t) \/ Respond(t) \/ CreateImage(t) \/ SetKeywords(t) \/ Purge(t)
  PROVE  Applied(t)'
<1>1. \/ pc'[t] \in Labels \ (ImageLabels \cup {"record", "respond"})
      \/ pc'[t] = "respond" /\ response'[t].status # "success"
  BY DEF Receive, DispatchOther, Respond, CreateImage, SetKeywords, Purge, Answer,
         AnswerError, CallAdapter, Goto, ServiceInv, ThreadTypeOK, Labels, ImageLabels
<1>2. QED
  BY <1>1, ClaimsNothing

LEMMA ImageCreatedApplied ==
  ASSUME ServiceInv, ServiceInv', AP!InterfaceInv, AppliedInv, NEW t \in Threads,
         ImageCreated(t), effects' = effects
  PROVE  Applied(t)'
<1>1. CASE AnswerError(t, "DHS_ERROR") \/ AnswerError(t, "INTERNAL_SERVER_ERROR")
  BY <1>1, ClaimsNothing DEF AnswerError, Answer, Goto, ServiceInv, ThreadTypeOK
<1>2. CASE /\ Succeeded(t)
           /\ imageId' = [imageId EXCEPT ![t] = reply[t].id]
           /\ Goto(t, "lifetime")
  <2>1. pc'[t] = "lifetime" /\ response'[t] = None /\ imageId'[t] = reply[t].id
    BY <1>2 DEF Goto, ServiceInv, ThreadTypeOK, Serving
  <2>2. pc[t] = "creating" /\ call[t] = Adapter!CreateImageCall
    BY DEF ImageCreated, ServiceInv, Calling
  <2>3. Adapter!ImageCreated(imageId'[t]) \in effects'
    BY <1>2, <2>1, <2>2, AnswerFacts
  <2>4. QED
    BY <2>1, <2>3 DEF Applied
<1>3. QED
  BY <1>1, <1>2 DEF ImageCreated

LEMMA SetParametersApplied ==
  ASSUME ServiceInv, ServiceInv', NEW t \in Threads, SetParameters(t)
  PROVE  Applied(t)'
<1>1. CASE AnswerError(t, "BAD_REQUEST") \/ AnswerError(t, "INTERNAL_SERVER_ERROR")
  BY <1>1, ClaimsNothing DEF AnswerError, Answer, Goto, ServiceInv, ThreadTypeOK
<1>2. CASE Goto(t, "lifetime")
  <2>1. pc'[t] = "lifetime" /\ response'[t] = None
    BY <1>2 DEF Goto, ServiceInv, ThreadTypeOK, Serving
  <2>2. request'[t].op # "createImage"
    BY DEF SetParameters
  <2>3. QED
    BY <2>1, <2>2 DEF Applied
<1>3. QED
  BY <1>1, <1>2 DEF SetParameters

LEMMA LifetimeApplied ==
  ASSUME ServiceInv, ServiceInv', AP!InterfaceInv, AppliedInv, NEW t \in Threads,
         SetLifetime(t) \/ LifetimeSet(t), effects' = effects
  PROVE  Applied(t)'
<1>1. /\ request' = request
      /\ pc[t] \in {"lifetime", "settingLifetime"}
      /\ imageId' = imageId
      /\ request[t].op = "createImage" => Adapter!ImageCreated(imageId[t]) \in effects
  BY DEF SetLifetime, LifetimeSet, CallAdapter, AppliedInv, Applied, ImageLabels
<1>2. CASE AnswerError(t, "DHS_ERROR")
  BY <1>2, ClaimsNothing DEF AnswerError, Answer, Goto, ServiceInv, ThreadTypeOK
<1>3. CASE Goto(t, "settingLifetime")
  BY <1>1, <1>3 DEF Goto, Applied, ServiceInv, ThreadTypeOK, Serving
<1>4. CASE Goto(t, "contributors") /\ request[t].lifetime = None
  BY <1>1, <1>4 DEF Goto, Applied, ServiceInv, ThreadTypeOK, Serving
<1>5. CASE pc[t] = "settingLifetime" /\ Succeeded(t) /\ Goto(t, "contributors")
  <2>1. call[t] = Adapter!LifetimeCall(imageId[t], request[t].lifetime)
    BY <1>5 DEF ServiceInv, Calling
  <2>2. call[t].op # "createImage" /\ Adapter!NeedsDhs(call[t])
    BY <2>1 DEF Adapter!LifetimeCall, Adapter!NeedsDhs
  <2>3. Adapter!LifetimeCall(imageId[t], request[t].lifetime) \in effects
    BY <1>5, <2>1, <2>2, AnswerFacts
  <2>4. QED
    BY <1>1, <1>5, <2>3 DEF Goto, Applied, ServiceInv, ThreadTypeOK, Serving
<1>6. QED
  BY <1>2, <1>3, <1>4, <1>5 DEF SetLifetime, LifetimeSet, CallAdapter

LEMMA ContributorsApplied ==
  ASSUME ServiceInv, ServiceInv', AP!InterfaceInv, AppliedInv, NEW t \in Threads,
         SetContributors(t) \/ ContributorsSet(t), effects' = effects
  PROVE  Applied(t)'
<1>1. /\ request' = request
      /\ imageId' = imageId
      /\ pc[t] \in {"contributors", "settingContributors"}
      /\ request[t] \in CreateImageRequests \cup SetParametersRequests
      /\ request[t].op = "createImage" => Adapter!ImageCreated(imageId[t]) \in effects
      /\ request[t].lifetime # None =>
            Adapter!LifetimeCall(imageId[t], request[t].lifetime) \in effects
  BY DEF SetContributors, ContributorsSet, CallAdapter, AppliedInv, Applied,
         ImageLabels, ServiceInv, Serving
<1>2. CASE AnswerError(t, "DHS_ERROR")
  BY <1>2, ClaimsNothing DEF AnswerError, Answer, Goto, ServiceInv, ThreadTypeOK
<1>3. CASE Goto(t, "settingContributors")
  BY <1>1, <1>3 DEF Goto, Applied, ServiceInv, ThreadTypeOK, Serving
<1>4. ASSUME AnswerSuccess(t),
             request[t].contribs # EmptyList =>
                Adapter!ContribCall(imageId[t], request[t].contribs) \in effects
      PROVE  Applied(t)'
  <2>1. Requested(request[t], imageId[t]) \subseteq effects
    BY <1>1, <1>4, RequestedOfImages
  <2>2. /\ pc'[t] = "respond"
        /\ request[t].op = "createImage" => response'[t].result = imageId[t]
    BY <1>4 DEF AnswerSuccess, Answer, Goto, ServiceInv, ThreadTypeOK
  <2>3. QED
    BY <1>1, <2>1, <2>2 DEF Applied, ImageLabels
<1>5. ASSUME pc[t] = "settingContributors", Succeeded(t), AnswerSuccess(t)
      PROVE  Applied(t)'
  <2>1. call[t] = Adapter!ContribCall(imageId[t], request[t].contribs)
    BY <1>5 DEF ServiceInv, Calling
  <2>2. /\ call[t].op # "createImage"
        /\ request[t].contribs # EmptyList => Adapter!NeedsDhs(call[t])
    BY <2>1 DEF Adapter!ContribCall, Adapter!NeedsDhs
  <2>3. QED
    BY <1>4, <1>5, <2>1, <2>2, AnswerFacts
<1>6. QED
  BY <1>2, <1>3, <1>4, <1>5 DEF SetContributors, ContributorsSet, CallAdapter

\* A remembered message needs no sending: whoever recorded it had it done.
LEMMA CheckTransactionApplied ==
  ASSUME ServiceInv, ServiceInv', CP!TypeOK, CP!InAdditionOrder, AppliedInv,
         NEW t \in Threads, CheckTransaction(t), effects' = effects
  PROVE  Applied(t)'
<1>1. CASE Goto(t, "sending")
  BY <1>1, ClaimsNothing DEF Goto, ServiceInv, ThreadTypeOK, Labels, ImageLabels
<1>2. CASE /\ Cache!Exists(imageId[t], request[t])
           /\ Answer(t, "success", None)
           /\ imageId' = imageId
  <2>1. PICK r \in recorded : r.id = imageId[t] /\ r.data = request[t]
    BY <1>2, FoundIsRecorded
  <2>2. Requested(request[t], imageId[t]) \subseteq effects
    BY <2>1 DEF AppliedInv, RecordsApplied
  <2>3. pc'[t] = "respond" /\ request' = request /\ request[t].op # "createImage"
    BY <1>2 DEF CheckTransaction, Answer, Goto, ServiceInv, ThreadTypeOK, Serving,
                KeywordLabels, SetKeywordsRequests
  <2>4. QED
    BY <1>2, <2>2, <2>3 DEF Applied, ImageLabels
<1>3. QED
  BY <1>1, <1>2 DEF CheckTransaction, CallAdapter

LEMMA KeywordsSentApplied ==
  ASSUME ServiceInv, ServiceInv', AP!InterfaceInv, NEW t \in Threads,
         KeywordsSent(t), effects' = effects
  PROVE  Applied(t)'
<1>1. CASE AnswerError(t, "DHS_ERROR")
  BY <1>1, ClaimsNothing DEF AnswerError, Answer, Goto, ServiceInv, ThreadTypeOK
<1>2. CASE Succeeded(t) /\ Goto(t, "record")
  <2>1. /\ request[t] \in SetKeywordsRequests
        /\ call[t] = Adapter!KeywordsCall(imageId[t], request[t].keywords,
                                          request[t].final)
    BY DEF KeywordsSent, ServiceInv, Serving, Calling, KeywordLabels
  <2>2. /\ call[t].op # "createImage"
        /\ request[t].keywords # EmptyList => Adapter!NeedsDhs(call[t])
    BY <2>1 DEF Adapter!KeywordsCall, Adapter!NeedsDhs
  <2>3. Requested(request[t], imageId[t]) \subseteq effects
    BY <1>2, <2>1, <2>2, AnswerFacts, RequestedOfKeywords
  <2>4. /\ pc'[t] = "record" /\ response'[t] = None
        /\ request' = request /\ imageId' = imageId
    BY <1>2 DEF KeywordsSent, Goto, ServiceInv, ThreadTypeOK, Serving
  <2>5. QED
    BY <2>3, <2>4 DEF Applied, ImageLabels
<1>3. QED
  BY <1>1, <1>2 DEF KeywordsSent

LEMMA RecordTransactionApplied ==
  ASSUME ServiceInv, AppliedInv, NEW t \in Threads, RecordTransaction(t),
         effects' = effects
  PROVE  Applied(t)' /\ RecordsApplied'
<1>1. /\ Requested(request[t], imageId[t]) \subseteq effects
      /\ pc'[t] = "respond"
      /\ request' = request /\ imageId' = imageId
      /\ request[t].op # "createImage"
  BY DEF RecordTransaction, Answer, Goto, AppliedInv, Applied, ServiceInv,
         ThreadTypeOK, Serving, KeywordLabels, SetKeywordsRequests
<1>2. Applied(t)'
  BY <1>1 DEF Applied, ImageLabels
<1>3. recorded' = recorded \cup {[id |-> imageId[t], timestamp |-> timestamp[t],
                                  data |-> request[t], addedAt |-> now]}
  BY DEF RecordTransaction, Cache!Add
<1>4. RecordsApplied'
  BY <1>1, <1>3 DEF AppliedInv, RecordsApplied
<1>5. QED
  BY <1>2, <1>4

LEMMA NextAppliedInv ==
  /\ ServiceInv /\ ServiceInv' /\ AP!InterfaceInv /\ CP!TypeOK /\ CP!InAdditionOrder
  /\ AppliedInv /\ [Next]_vars
  => AppliedInv'
<1> SUFFICES ASSUME ServiceInv, ServiceInv', AP!InterfaceInv, CP!TypeOK,
                    CP!InAdditionOrder, AppliedInv, [Next]_vars
             PROVE  AppliedInv'
  OBVIOUS
<1>1. effects \subseteq effects'
  BY EffectsGrow
<1>2. recorded' = recorded => RecordsApplied'
  BY <1>1 DEF AppliedInv, RecordsApplied
<1>3. ASSUME NEW t \in Threads, Handle(t) \/ \E r \in Requests : Receive(t, r)
      PROVE  AppliedInv'
  <2>1. effects' = effects
    BY <1>3
       DEF Handle, DispatchOther, Respond, CreateImage, ImageCreated, SetParameters,
           SetLifetime, LifetimeSet, SetContributors, ContributorsSet, SetKeywords,
           Purge, CheckTransaction, KeywordsSent, RecordTransaction, Receive,
           CallAdapter, Adapter!Invoke, Adapter!Collect, adapterVars
  <2>2. Applied(t)'
    BY <1>3, <2>1, ExchangeApplied, ImageCreatedApplied, SetParametersApplied,
       LifetimeApplied, ContributorsApplied, CheckTransactionApplied,
       KeywordsSentApplied, RecordTransactionApplied DEF Handle
  <2>3. ASSUME NEW u \in Threads, u # t
        PROVE  Applied(u)'
    BY <1>1, <1>3, <2>3, StepsOfOthers, StaysApplied DEF AppliedInv
  <2>4. RecordsApplied'
    <3>1. CASE RecordTransaction(t)
      BY <2>1, <3>1, RecordTransactionApplied
    <3>2. CASE ~ RecordTransaction(t)
      BY <1>2, <1>3, <3>2
         DEF Handle, DispatchOther, Respond, CreateImage, ImageCreated,
             SetParameters, SetLifetime, LifetimeSet, SetContributors,
             ContributorsSet, SetKeywords, Purge, CheckTransaction, KeywordsSent,
             Receive, cacheVars, Cache!PurgeOldMessages
    <3>3. QED
      BY <3>1, <3>2
  <2>5. QED
    BY <2>2, <2>3, <2>4 DEF AppliedInv
<1>4. CASE Tick \/ (\E t \in Threads : AdapterStep(t)) \/ UNCHANGED vars
  <2>1. UNCHANGED threadVars /\ recorded' = recorded
    BY <1>4 DEF Tick, Cache!Tick, AdapterStep, vars, cacheVars
  <2>2. \A t \in Threads : Applied(t)'
    BY <1>1, <2>1, StaysApplied DEF AppliedInv, threadVars
  <2>3. QED
    BY <1>2, <2>1, <2>2 DEF AppliedInv
<1>5. QED
  BY <1>3, <1>4 DEF Next

LEMMA AppliedInvariant == Spec => []AppliedInv
<1>1. Init => AppliedInv
  BY DEF Init, Cache!Init, AppliedInv, RecordsApplied, Applied, ImageLabels
<1>2. Spec => [](CP!TypeOK /\ CP!InAdditionOrder)
  <2>1. Spec => []CP!TypeOK
    BY CacheIsSpecified, CP!TypeCorrect, MemoryAssumption
  <2>2. Spec => []CP!InAdditionOrder
    BY CacheIsSpecified, CP!ListsInAdditionOrder, MemoryAssumption
  <2>3. QED
    BY <2>1, <2>2, PTL
<1>3. QED
  BY <1>1, <1>2, NextAppliedInv, Invariant, PTL DEF Spec

\* A client told "success" can rely on its request having been done on the DHS,
\* even when the service only found that another thread had recorded it
\* (DhsService.cpp:248-264, 321-340, 382-392).
THEOREM SuccessIsReliable == Spec => []SuccessIsApplied
<1>1. AppliedInv => SuccessIsApplied
  BY DEF AppliedInv, Applied, SuccessIsApplied
<1>2. QED
  BY <1>1, AppliedInvariant, PTL

\* The service never remembers a message the DHS has not been told: a retry
\* after a failure is always sent (DhsService.cpp:386-390).
THEOREM RemembersOnlyApplied == Spec => []RecordsApplied
BY AppliedInvariant, PTL DEF AppliedInv

\* What is left of the documented meaning of final (IDhsAdapter.h:173): a client
\* that is told "success" knows the DHS was told it was the last piece, if there
\* was at least one keyword in it (DhsAdapter.cpp:218 with DhsService.cpp:382-392).
FinalKeywordsAreDelivered ==
    \A t \in Threads :
        /\ response[t] # None /\ response[t].status = "success"
        /\ request[t] \in SetKeywordsRequests
        /\ request[t].final /\ request[t].keywords # EmptyList
        => \E e \in effects : /\ e.op = "setImageKeywords"
                              /\ e.id = imageId[t]
                              /\ e.final

THEOREM FinalNeedsKeywords == Spec => []FinalKeywordsAreDelivered
<1>1. SuccessIsApplied => FinalKeywordsAreDelivered
  <2> SUFFICES ASSUME SuccessIsApplied, NEW t \in Threads,
                      response[t] # None, response[t].status = "success",
                      request[t] \in SetKeywordsRequests,
                      request[t].final, request[t].keywords # EmptyList
               PROVE  \E e \in effects : /\ e.op = "setImageKeywords"
                                         /\ e.id = imageId[t]
                                         /\ e.final
    BY DEF FinalKeywordsAreDelivered
  <2> DEFINE sent == Adapter!KeywordsCall(imageId[t], request[t].keywords,
                                          request[t].final)
  <2>1. Requested(request[t], imageId[t]) = {sent}
    BY RequestedOfKeywords
  <2>2. sent \in effects
    BY <2>1 DEF SuccessIsApplied
  <2>3. sent.op = "setImageKeywords" /\ sent.id = imageId[t] /\ sent.final
    BY DEF Adapter!KeywordsCall
  <2>4. QED
    BY <2>2, <2>3
<1>2. QED
  BY <1>1, SuccessIsReliable, PTL

-----------------------------------------------------------------------------

\* Once a thread has purged the cache, all it can find there was recorded at
\* most validAge seconds before its request, or after it.
Recent(t, id, i) ==
    \E r \in CP!Explained(id, i) :
        \/ timestamp[t] - r.addedAt <= ValidAge
        \/ r.addedAt >= timestamp[t]

FindsRecent ==
    \A t \in Threads : pc[t] = "check" =>
        \A id \in DOMAIN cache : \A i \in DOMAIN cache[id] : Recent(t, id, i)

\* Only a purge of its own brings a thread to the check.
LEMMA ChecksAfterPurge ==
  ASSUME ServiceInv, [Next]_vars, NEW t \in Threads, pc'[t] = "check"
  PROVE  /\ timestamp'[t] = timestamp[t]
         /\ pc[t] = "check" \/ Purge(t)
<1>1. ASSUME NEW u \in Threads, Handle(u) \/ (\E r \in Requests : Receive(u, r)), u # t
      PROVE  pc'[t] = pc[t] /\ timestamp'[t] = timestamp[t]
  BY <1>1, StepsOfOthers
     DEF Handle, DispatchOther, Respond, CreateImage, ImageCreated, SetParameters,
         SetLifetime, LifetimeSet, SetContributors, ContributorsSet, SetKeywords,
         Purge, CheckTransaction, KeywordsSent, RecordTransaction, Receive,
         ServiceInv, ThreadTypeOK
<1>2. ASSUME Handle(t) \/ \E r \in Requests : Receive(t, r)
      PROVE  Purge(t) /\ timestamp'[t] = timestamp[t]
  BY <1>2
     DEF Handle, DispatchOther, Respond, CreateImage, ImageCreated, SetParameters,
         SetLifetime, LifetimeSet, SetContributors, ContributorsSet, SetKeywords,
         Purge, CheckTransaction, KeywordsSent, RecordTransaction, Receive, Answer,
         AnswerError, AnswerSuccess, CallAdapter, Goto, ServiceInv, ThreadTypeOK
<1>3. QED
  BY <1>1, <1>2 DEF Next, Tick, AdapterStep, threadVars, vars

LEMMA NextFindsRecent ==
  /\ ServiceInv /\ CP!TypeOK /\ CP!InAdditionOrder /\ FindsRecent /\ [Next]_vars
  => FindsRecent'
<1> SUFFICES ASSUME ServiceInv, CP!TypeOK, CP!InAdditionOrder, FindsRecent, [Next]_vars,
                    NEW t \in Threads, pc'[t] = "check",
                    NEW id \in DOMAIN cache', NEW i \in DOMAIN cache'[id]
             PROVE  Recent(t, id, i)'
  BY DEF FindsRecent
<1>1. timestamp'[t] = timestamp[t] /\ (pc[t] = "check" \/ Purge(t))
  BY ChecksAfterPurge
<1>2. timestamp[t] \in 0..now
  BY DEF ServiceInv, ThreadTypeOK
<1>3. CASE Purge(t)
  <2>1. CP!PurgeOldMessages(timestamp[t])
    BY <1>3, SameCache DEF Purge
  <2>2. cache' = CP!AfterPurge(timestamp[t]) /\ recorded' = recorded
    BY <2>1 DEF CP!PurgeOldMessages
  <2>3. CP!PurgeForgets
    BY CP!AfterPurgeRecent, MemoryAssumption
  <2>4. CP!AddedSince(id, cache'[id][i], timestamp[t])
    BY <1>2, <2>2, <2>3 DEF CP!PurgeForgets
  <2>5. QED
    BY <1>1, <2>2, <2>4 DEF CP!AddedSince, CP!Explained, Recent
<1>4. CASE pc[t] = "check"
  <2>1. [CP!Next]_(CP!cacheVars)
    BY NextUsesCache, SameCache DEF Cache!cacheVars, CP!cacheVars
  <2>2. \/ /\ id \in DOMAIN cache
           /\ \E j \in DOMAIN cache[id] :
                 CP!Explained(id, j) \subseteq CP!Explained(id, i)'
        \/ \E r \in CP!Explained(id, i)' : r.addedAt = now
    BY <2>1, CP!NextKeepsExplanations, MemoryAssumption
  <2>3. CASE /\ id \in DOMAIN cache
             /\ \E j \in DOMAIN cache[id] :
                   CP!Explained(id, j) \subseteq CP!Explained(id, i)'
    BY <1>1, <1>4, <2>3 DEF FindsRecent, Recent
  <2>4. CASE \E r \in CP!Explained(id, i)' : r.addedAt = now
    BY <1>1, <1>2, <2>4 DEF Recent
  <2>5. QED
    BY <2>2, <2>3, <2>4
<1>5. QED
  BY <1>1, <1>3, <1>4

LEMMA SkipsRecent ==
  ServiceInv /\ CP!TypeOK /\ FindsRecent /\ [Next]_vars =>
    \A t \in Threads : Skips(t) =>
        \E r \in Transmissions(t) :
            \/ timestamp[t] - r.addedAt <= ValidAge
            \/ r.addedAt >= timestamp[t]
<1> SUFFICES ASSUME ServiceInv, CP!TypeOK, FindsRecent, [Next]_vars,
                    NEW t \in Threads, Skips(t)
             PROVE  \E r \in Transmissions(t) :
                        \/ timestamp[t] - r.addedAt <= ValidAge
                        \/ r.addedAt >= timestamp[t]
  OBVIOUS
<1>1. Cache!Exists(imageId[t], request[t])
  BY ChecksCache
<1>2. PICK i \in DOMAIN Cache!ListOf(imageId[t]) :
        Cache!ListOf(imageId[t])[i].data = request[t]
  BY <1>1 DEF Cache!Exists
<1>3. /\ imageId[t] \in DOMAIN cache
      /\ i \in DOMAIN cache[imageId[t]]
      /\ cache[imageId[t]][i].data = request[t]
  BY <1>2 DEF Cache!ListOf
<1>4. Recent(t, imageId[t], i)
  BY <1>3 DEF FindsRecent, Skips
<1>5. QED
  BY <1>3, <1>4 DEF Recent, CP!Explained, Transmissions

\* A message is not skipped on account of an old transmission: the purge before
\* the check has removed what was recorded too long before the request, and no
\* other thread brings it back (DhsService.h:218-220, DhsService.cpp:381).
THEOREM SkipsOnlyRecent == Spec => SkipIsRecent
<1>1. Init => FindsRecent
  BY DEF Init, FindsRecent
<1>2. Spec => []CP!TypeOK
  BY CacheIsSpecified, CP!TypeCorrect, MemoryAssumption
<1>3. Spec => []CP!InAdditionOrder
  BY CacheIsSpecified, CP!ListsInAdditionOrder, MemoryAssumption
<1>4. Spec => []FindsRecent
  BY <1>1, <1>2, <1>3, NextFindsRecent, Invariant, PTL DEF Spec
<1>5. QED
  BY <1>2, <1>4, SkipsRecent, Invariant, PTL DEF Spec, SkipIsRecent
=============================================================================
