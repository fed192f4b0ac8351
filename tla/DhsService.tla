----------------------------- MODULE DhsService -----------------------------
(***************************************************************************)
(* The service (DhsService.h, DhsService.cpp): the HTTP server runs each   *)
(* request on one of its threads, through stubInvoke and invoke, to its    *)
(* answer.  Threads share the DHS adapter, here what IDhsAdapter promises, *)
(* and the message cache.  A request is seen as what parsing its body      *)
(* yields; two setKeywords requests are the same message when they are the *)
(* same record.                                                            *)
(***************************************************************************)
EXTENDS Integers

CONSTANTS Threads, ImageIds, Lifetimes, ContribLists, KeywordLists, EmptyList,
          None,      \* as in IDhsAdapter
          Requests,  \* the requests clients send
          ValidAge   \* cacheMemory: seconds a setKeywords message is remembered

\* A name or value that is missing or cannot be parsed is None; malformed is
\* a body on which parsing throws (a string built from a null pointer).
CreateImageRequests ==
    [op : {"createImage"}, lifetime : Lifetimes \cup {None},
     contribs : ContribLists, malformed : BOOLEAN]

SetParametersRequests ==
    [op : {"setParameters"}, id : ImageIds \cup {None},
     lifetime : Lifetimes \cup {None}, contribs : ContribLists,
     malformed : BOOLEAN]

SetKeywordsRequests ==
    [op : {"setKeywords"}, id : ImageIds \cup {None},
     keywords : KeywordLists \cup {None}, final : BOOLEAN, malformed : BOOLEAN]

OtherRequests == [op : {"other"}]

AllRequests == CreateImageRequests \cup SetParametersRequests
                   \cup SetKeywordsRequests \cup OtherRequests

Statuses == {"success", "BAD_REQUEST", "DHS_ERROR", "INTERNAL_SERVER_ERROR", "null"}

Responses == [status : Statuses, result : ImageIds \cup {None}]

ASSUME RequestsAssumption ==
    /\ Requests \subseteq AllRequests
    /\ None \notin AllRequests \cup KeywordLists \cup Responses
    /\ EmptyList \in ContribLists

ASSUME MemoryAssumption == ValidAge \in Int

VARIABLES pc,         \* where each thread is
          request,    \* the request it serves, or None
          imageId,    \* the image the request is about, or None
          timestamp,  \* time(NULL) when setKeywords had parsed its request
          response,   \* its answer, or None
          call, done, reply, effects,  \* the adapter (IDhsAdapter)
          cache, now, recorded         \* the message cache (MessageCache)

adapterVars == <<call, done, reply, effects>>
cacheVars == <<cache, now, recorded>>
threadVars == <<pc, request, imageId, timestamp, response>>
vars == <<threadVars, adapterVars, cacheVars>>

Adapter == INSTANCE IDhsAdapter

ASSUME AdapterAssumption ==
    /\ None \notin Threads \cup ImageIds \cup Lifetimes
    /\ None \notin Adapter!Calls \cup Adapter!Effects \cup Adapter!Replies
    /\ None \notin {"success", "error"}

Cache == INSTANCE MessageCache WITH Data <- SetKeywordsRequests

-----------------------------------------------------------------------------

Goto(t, label) == pc' = [pc EXCEPT ![t] = label]

Answer(t, status, result) ==
    /\ response' = [response EXCEPT ![t] = [status |-> status, result |-> result]]
    /\ Goto(t, "respond")

AnswerError(t, type) == Answer(t, type, None)

\* Call the adapter and wait for its return at the given place.
CallAdapter(t, c, label) ==
    /\ Adapter!Invoke(t, c)
    /\ Goto(t, label)
    /\ UNCHANGED <<imageId, response>>

Succeeded(t) == reply[t] # None /\ reply[t].status = "success"
Failed(t) == reply[t] # None /\ reply[t].status # "success"

\* The adapter works on the call of a thread (external to this module).
AdapterStep(t) ==
    /\ \/ Adapter!TakeEffect(t)
       \/ Adapter!Succeed(t)
       \/ Adapter!Fail(t)
    /\ UNCHANGED <<threadVars, cacheVars>>

-----------------------------------------------------------------------------

\* The HTTP server hands a request to an idle thread.
Receive(t, r) ==
    /\ pc[t] = "idle"
    /\ request' = [request EXCEPT ![t] = r]
    /\ Goto(t, "invoke")
    /\ UNCHANGED <<imageId, timestamp, response, adapterVars, cacheVars>>

\* invoke() answers null to what is none of its operations.
DispatchOther(t) ==
    /\ pc[t] = "invoke"
    /\ request[t].op = "other"
    /\ Answer(t, "null", None)
    /\ UNCHANGED <<request, imageId, timestamp, adapterVars, cacheVars>>

\* The answer goes out and the thread is free again.
Respond(t) ==
    /\ pc[t] = "respond"
    /\ request' = [request EXCEPT ![t] = None]
    /\ imageId' = [imageId EXCEPT ![t] = None]
    /\ timestamp' = [timestamp EXCEPT ![t] = 0]
    /\ response' = [response EXCEPT ![t] = None]
    /\ Goto(t, "idle")
    /\ UNCHANGED <<adapterVars, cacheVars>>

-----------------------------------------------------------------------------
\* createImage

CreateImage(t) ==
    /\ pc[t] = "invoke"
    /\ request[t].op = "createImage"
    /\ CallAdapter(t, Adapter!CreateImageCall, "creating")
    /\ UNCHANGED <<request, timestamp, cacheVars>>

\* The parameters are parsed only once the image exists, so it stays when they
\* are malformed, and when setting them fails later.
ImageCreated(t) ==
    /\ pc[t] = "creating"
    /\ \/ /\ Failed(t)
          /\ AnswerError(t, "DHS_ERROR")
          /\ UNCHANGED imageId
       \/ /\ Succeeded(t)
          /\ imageId' = [imageId EXCEPT ![t] = reply[t].id]
          /\ \/ /\ request[t].malformed
                /\ AnswerError(t, "INTERNAL_SERVER_ERROR")
             \/ /\ ~ request[t].malformed
                /\ Goto(t, "lifetime")
                /\ UNCHANGED response
    /\ Adapter!Collect(t)
    /\ UNCHANGED <<request, timestamp, cacheVars>>

-----------------------------------------------------------------------------
\* setParameters, also the second half of createImage

SetParameters(t) ==
    /\ pc[t] = "invoke"
    /\ request[t].op = "setParameters"
    /\ \/ /\ request[t].malformed
          /\ AnswerError(t, "INTERNAL_SERVER_ERROR")
          /\ UNCHANGED imageId
       \/ /\ ~ request[t].malformed
          /\ request[t].id = None
          /\ AnswerError(t, "BAD_REQUEST")
          /\ UNCHANGED imageId
       \/ /\ ~ request[t].malformed
          /\ request[t].id # None
          /\ imageId' = [imageId EXCEPT ![t] = request[t].id]
          /\ Goto(t, "lifetime")
          /\ UNCHANGED response
    /\ UNCHANGED <<request, timestamp, adapterVars, cacheVars>>

SetLifetime(t) ==
    /\ pc[t] = "lifetime"
    /\ \/ /\ request[t].lifetime = None
          /\ Goto(t, "contributors")
          /\ UNCHANGED <<imageId, response, adapterVars>>
       \/ /\ request[t].lifetime # None
          /\ CallAdapter(t, Adapter!LifetimeCall(imageId[t], request[t].lifetime),
                         "settingLifetime")
    /\ UNCHANGED <<request, timestamp, cacheVars>>

\* Faulty variant: goes on to the contributors whatever came of the lifetime.
LifetimeUnchecked(t) ==
    /\ pc[t] = "settingLifetime"
    /\ reply[t] # None
    /\ Goto(t, "contributors")
    /\ UNCHANGED response
    /\ Adapter!Collect(t)
    /\ UNCHANGED <<request, imageId, timestamp, cacheVars>>

\* Faulty variant: the call is made again after an error.
LifetimeRetried(t) ==
    /\ pc[t] = "settingLifetime"
    /\ \/ Failed(t) /\ Goto(t, "lifetime") /\ UNCHANGED response
       \/ Succeeded(t) /\ Goto(t, "contributors") /\ UNCHANGED response
    /\ Adapter!Collect(t)
    /\ UNCHANGED <<request, imageId, timestamp, cacheVars>>

LifetimeSet(t) ==
    /\ pc[t] = "settingLifetime"
    /\ \/ Failed(t) /\ AnswerError(t, "DHS_ERROR")
       \/ Succeeded(t) /\ Goto(t, "contributors") /\ UNCHANGED response
    /\ Adapter!Collect(t)
    /\ UNCHANGED <<request, imageId, timestamp, cacheVars>>

\* createImage answers with the new id, setParameters with nothing.
AnswerSuccess(t) ==
    Answer(t, "success", IF request[t].op = "createImage" THEN imageId[t] ELSE None)

SetContributors(t) ==
    /\ pc[t] = "contributors"
    /\ \/ /\ request[t].contribs = EmptyList
          /\ AnswerSuccess(t)
          /\ UNCHANGED <<imageId, adapterVars>>
       \/ /\ request[t].contribs # EmptyList
          /\ CallAdapter(t, Adapter!ContribCall(imageId[t], request[t].contribs),
                         "settingContributors")
    /\ UNCHANGED <<request, timestamp, cacheVars>>

ContributorsSet(t) ==
    /\ pc[t] = "settingContributors"
    /\ \/ Failed(t) /\ AnswerError(t, "DHS_ERROR")
       \/ Succeeded(t) /\ AnswerSuccess(t)
    /\ Adapter!Collect(t)
    /\ UNCHANGED <<request, imageId, timestamp, cacheVars>>

-----------------------------------------------------------------------------
\* setKeywords

SetKeywords(t) ==
    /\ pc[t] = "invoke"
    /\ request[t].op = "setKeywords"
    /\ \/ /\ request[t].malformed
          /\ AnswerError(t, "INTERNAL_SERVER_ERROR")
          /\ UNCHANGED <<imageId, timestamp>>
       \/ /\ ~ request[t].malformed
          /\ request[t].id = None \/ request[t].keywords = None
          /\ AnswerError(t, "BAD_REQUEST")
          /\ UNCHANGED <<imageId, timestamp>>
       \/ /\ ~ request[t].malformed
          /\ request[t].id # None /\ request[t].keywords # None
          /\ imageId' = [imageId EXCEPT ![t] = request[t].id]
          /\ timestamp' = [timestamp EXCEPT ![t] = now]
          /\ Goto(t, "purge")
          /\ UNCHANGED response
    /\ UNCHANGED <<request, adapterVars, cacheVars>>

\* Faulty variant: nothing is ever forgotten.
PurgeNothing(t) ==
    /\ pc[t] = "purge"
    /\ Goto(t, "check")
    /\ UNCHANGED <<request, imageId, timestamp, response, adapterVars, cacheVars>>

\* Faulty variant: the cache is purged as of a second later.
PurgeAhead(t) ==
    /\ pc[t] = "purge"
    /\ Cache!PurgeOldMessages(timestamp[t] + 1)
    /\ Goto(t, "check")
    /\ UNCHANGED <<request, imageId, timestamp, response, adapterVars>>

\* The first half of checkTransaction, a call of its own on the cache.
Purge(t) ==
    /\ pc[t] = "purge"
    /\ Cache!PurgeOldMessages(timestamp[t])
    /\ Goto(t, "check")
    /\ UNCHANGED <<request, imageId, timestamp, response, adapterVars>>

\* The second half: a message that is remembered is answered with success
\* without another word to the DHS, one that is not is sent.
CheckTransaction(t) ==
    /\ pc[t] = "check"
    /\ \/ /\ Cache!Exists(imageId[t], request[t])
          /\ Answer(t, "success", None)
          /\ UNCHANGED <<imageId, adapterVars>>
       \/ /\ ~ Cache!Exists(imageId[t], request[t])
          /\ CallAdapter(t, Adapter!KeywordsCall(imageId[t], request[t].keywords,
                                                 request[t].final),
                         "sending")
    /\ UNCHANGED <<request, timestamp, cacheVars>>

\* Faulty variant: the message is recorded whatever came of it.
KeywordsUnchecked(t) ==
    /\ pc[t] = "sending"
    /\ reply[t] # None
    /\ Goto(t, "record")
    /\ UNCHANGED response
    /\ Adapter!Collect(t)
    /\ UNCHANGED <<request, imageId, timestamp, cacheVars>>

KeywordsSent(t) ==
    /\ pc[t] = "sending"
    /\ \/ Failed(t) /\ AnswerError(t, "DHS_ERROR")
       \/ Succeeded(t) /\ Goto(t, "record") /\ UNCHANGED response
    /\ Adapter!Collect(t)
    /\ UNCHANGED <<request, imageId, timestamp, cacheVars>>

\* Faulty variant: the time recorded is when the message expires.
RecordExpiry(t) ==
    /\ pc[t] = "record"
    /\ Cache!Add(imageId[t], timestamp[t] + ValidAge, request[t])
    /\ Answer(t, "success", None)
    /\ UNCHANGED <<request, imageId, timestamp, adapterVars>>

\* The time recorded is the one read before the message was sent.
RecordTransaction(t) ==
    /\ pc[t] = "record"
    /\ Cache!Add(imageId[t], timestamp[t], request[t])
    /\ Answer(t, "success", None)
    /\ UNCHANGED <<request, imageId, timestamp, adapterVars>>

-----------------------------------------------------------------------------

Tick == Cache!Tick /\ UNCHANGED <<threadVars, adapterVars>>

Init ==
    /\ pc = [t \in Threads |-> "idle"]
    /\ request = [t \in Threads |-> None]
    /\ imageId = [t \in Threads |-> None]
    /\ timestamp = [t \in Threads |-> 0]
    /\ response = [t \in Threads |-> None]
    /\ Adapter!Init
    /\ Cache!Init

Handle(t) ==
    \/ DispatchOther(t) \/ Respond(t)
    \/ CreateImage(t) \/ ImageCreated(t)
    \/ SetParameters(t) \/ SetLifetime(t) \/ LifetimeSet(t)
    \/ SetContributors(t) \/ ContributorsSet(t)
    \/ SetKeywords(t) \/ Purge(t) \/ CheckTransaction(t) \/ KeywordsSent(t)
    \/ RecordTransaction(t)

Next ==
    \/ Tick
    \/ \E t \in Threads :
        \/ \E r \in Requests : Receive(t, r)
        \/ Handle(t)
        \/ AdapterStep(t)

Spec == Init /\ [][Next]_vars

-----------------------------------------------------------------------------

Labels == {"idle", "invoke", "creating", "lifetime", "settingLifetime",
           "contributors", "settingContributors", "purge", "check", "sending",
           "record", "respond"}

TypeOK ==
    /\ pc \in [Threads -> Labels]
    /\ request \in [Threads -> Requests \cup {None}]
    /\ imageId \in [Threads -> ImageIds \cup {None}]
    /\ timestamp \in [Threads -> Nat]
    /\ \A t \in Threads : timestamp[t] <= now
    /\ response \in [Threads -> Responses \cup {None}]
    /\ Adapter!TypeOK
    /\ Cache!TypeOK

\* What the DHS has been made to do when a request has been carried out on
\* an image.
Requested(r, id) ==
    CASE r.op = "setKeywords" ->
            IF r.keywords = EmptyList
            THEN {} ELSE {Adapter!KeywordsCall(id, r.keywords, r.final)}
      [] r.op \in {"createImage", "setParameters"} ->
            (IF r.op = "createImage" THEN {Adapter!ImageCreated(id)} ELSE {})
              \cup (IF r.lifetime = None
                    THEN {} ELSE {Adapter!LifetimeCall(id, r.lifetime)})
              \cup (IF r.contribs = EmptyList
                    THEN {} ELSE {Adapter!ContribCall(id, r.contribs)})
      [] OTHER -> {}

\* A client told "success" can rely on it: all its request asked for has been
\* done on the DHS.  setKeywords may say so without calling the DHS, trusting
\* what another thread recorded (DhsService.cpp:382-392), and createImage and
\* setParameters after two or three calls any of which may fail
\* (DhsService.cpp:248-264, 321-340).
SuccessIsApplied ==
    \A t \in Threads :
        response[t] # None /\ response[t].status = "success" =>
            /\ Requested(request[t], imageId[t]) \subseteq effects
            /\ request[t].op = "createImage" => response[t].result = imageId[t]

\* The records of earlier transmissions of the message a thread handles.
Transmissions(t) ==
    {r \in recorded : r.id = imageId[t] /\ r.data = request[t]}

Sends(t) == pc[t] = "check" /\ pc'[t] = "sending"
Skips(t) == pc[t] = "check" /\ pc'[t] = "respond"

\* A message already recorded is not sent again within validAge seconds,
\* whatever the other threads add and purge meanwhile
\* (DhsService.cpp:381-384, MessageCache.cpp:45).
NoEarlyRepeat ==
    [][\A t \in Threads : Sends(t) =>
            \A r \in Transmissions(t) : now - r.timestamp > ValidAge]_vars

\* A message is not skipped on account of one recorded too long ago: one was
\* recorded at most validAge seconds before the request, or after it
\* (DhsService.h:218-220, DhsService.cpp:381).
SkipIsRecent ==
    [][\A t \in Threads : Skips(t) =>
            \E r \in Transmissions(t) :
                \/ timestamp[t] - r.addedAt <= ValidAge
                \/ r.addedAt >= timestamp[t]]_vars

\* The service uses the cache as its specification has it, in particular with
\* times its threads have read (DhsService.cpp:381-389, DhsService.h:218, 225),
\* so what is shown of the cache holds in the service.
UsesCache == Cache!Spec

\* As documented: "final indicates if this is the last piece of the image"
\* (IDhsAdapter.h:173), so a successful final setKeywords tells the DHS so.
FinalIsDelivered ==
    \A t \in Threads :
        /\ response[t] # None /\ response[t].status = "success"
        /\ request[t].op = "setKeywords" /\ request[t].final
        => \E e \in effects : /\ e.op = "setImageKeywords"
                              /\ e.id = imageId[t]
                              /\ e.final

\* As documented (DhsService.h:212): checkTransaction "checks if a message was
\* already processed successfully", so it lets none pass that another thread
\* has had processed successfully and is about to record.
ProcessedIsNoticed ==
    [][\A t \in Threads : Sends(t) =>
            ~ \E u \in Threads \ {t} :
                  pc[u] = "record" /\ request[u] = request[t]]_vars

=============================================================================
