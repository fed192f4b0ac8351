---------------------------- MODULE IDhsAdapter ----------------------------
(***************************************************************************)
(* What the service is promised by a DHS adapter (IDhsAdapter.h), seen     *)
(* from the threads that call it.  A call of thread t takes effect on the  *)
(* DHS at most once, between its invocation and its reply; a call answered *)
(* with success has taken effect; one answered with an error may or may    *)
(* not have.  createImage gives an id nobody was given before.             *)
(*                                                                         *)
(* Calls with an empty list of contributors or keywords concern no data:   *)
(* the adapters answer them without involving the DHS (DhsAdapter.cpp:134, *)
(* 169).                                                                   *)
(***************************************************************************)
EXTENDS Naturals

CONSTANTS Threads,       \* worker threads of the HTTP server
          ImageIds,      \* image ids
          Lifetimes,     \* DHS_BD_LIFETIME values
          ContribLists,  \* lists of contributors
          KeywordLists,  \* lists of keywords with their types and values
          EmptyList,     \* the list with nothing in it
          None           \* no value

VARIABLES call,      \* the call a thread has pending, or None
          done,      \* the effect the pending call had on the DHS, or None
          reply,     \* the answer to the pending call, or None
          effects    \* history: everything the DHS was made to do

adapterVars == <<call, done, reply, effects>>

-----------------------------------------------------------------------------

CreateImageCall == [op |-> "createImage"]

LifetimeCall(id, lifetime) ==
    [op |-> "setImageLifeTime", id |-> id, lifetime |-> lifetime]

ContribCall(id, contribs) ==
    [op |-> "setImageContrib", id |-> id, contribs |-> contribs]

KeywordsCall(id, keywords, final) ==
    [op |-> "setImageKeywords", id |-> id, keywords |-> keywords, final |-> final]

SetterCalls ==
    {LifetimeCall(id, l) : id \in ImageIds, l \in Lifetimes}
        \cup {ContribCall(id, c) : id \in ImageIds, c \in ContribLists}
        \cup {KeywordsCall(id, k, f) : id \in ImageIds, k \in KeywordLists,
                                       f \in BOOLEAN}

Calls == {CreateImageCall} \cup SetterCalls

\* The DHS is told nothing of an empty list, not even that it was final.
NeedsDhs(c) ==
    /\ c.op = "setImageContrib" => c.contribs # EmptyList
    /\ c.op = "setImageKeywords" => c.keywords # EmptyList

ImageCreated(id) == [op |-> "createImage", id |-> id]

Effects == {ImageCreated(id) : id \in ImageIds} \cup SetterCalls

\* The effects a call can have now: the image created is a new one.
EffectsOf(c) ==
    IF c.op = "createImage"
    THEN {ImageCreated(id) : id \in ImageIds} \ effects
    ELSE {c}

Reply(status, id) == [status |-> status, id |-> id]

Replies == [status : {"success", "error"}, id : ImageIds \cup {None}]

ASSUME NoneAssumption ==
    /\ None \notin Threads \cup ImageIds \cup Lifetimes
    /\ None \notin Calls \cup Effects \cup Replies
    /\ None \notin {"success", "error"}

-----------------------------------------------------------------------------

Invoke(t, c) ==
    /\ call[t] = None
    /\ call' = [call EXCEPT ![t] = c]
    /\ UNCHANGED <<done, reply, effects>>

TakeEffect(t) ==
    /\ call[t] # None
    /\ reply[t] = None
    /\ done[t] = None
    /\ NeedsDhs(call[t])
    /\ \E e \in EffectsOf(call[t]) :
            /\ done' = [done EXCEPT ![t] = e]
            /\ effects' = effects \cup {e}
    /\ UNCHANGED <<call, reply>>

\* Only createImage has something to return, the id of the image created.
Succeed(t) ==
    /\ call[t] # None
    /\ reply[t] = None
    /\ NeedsDhs(call[t]) => done[t] # None
    /\ reply' = [reply EXCEPT
                    ![t] = Reply("success", IF call[t] = CreateImageCall
                                            THEN done[t].id ELSE None)]
    /\ UNCHANGED <<call, done, effects>>

Fail(t) ==
    /\ call[t] # None
    /\ reply[t] = None
    /\ reply' = [reply EXCEPT ![t] = Reply("error", None)]
    /\ UNCHANGED <<call, done, effects>>

\* The caller goes on with the answer.
Collect(t) ==
    /\ reply[t] # None
    /\ call' = [call EXCEPT ![t] = None]
    /\ done' = [done EXCEPT ![t] = None]
    /\ reply' = [reply EXCEPT ![t] = None]
    /\ UNCHANGED effects

Init ==
    /\ call = [t \in Threads |-> None]
    /\ done = [t \in Threads |-> None]
    /\ reply = [t \in Threads |-> None]
    /\ effects = {}

Next ==
    \E t \in Threads :
        \/ \E c \in Calls : Invoke(t, c)
        \/ TakeEffect(t)
        \/ Succeed(t)
        \/ Fail(t)
        \/ Collect(t)

Spec == Init /\ [][Next]_adapterVars

-----------------------------------------------------------------------------

TypeOK ==
    /\ call \in [Threads -> Calls \cup {None}]
    /\ done \in [Threads -> Effects \cup {None}]
    /\ reply \in [Threads -> Replies \cup {None}]
    /\ effects \subseteq Effects

\* e is what the call c asks of the DHS.
IsEffectOf(e, c) ==
    IF c.op = "createImage" THEN \E id \in ImageIds : e = ImageCreated(id)
                            ELSE e = c

\* A thread that is told its call succeeded can rely on it: what it asked for
\* (not what another thread did), was done on the DHS, and an id it gets is
\* that of the image created for it.
SuccessIsDone ==
    \A t \in Threads :
        reply[t] # None /\ reply[t].status = "success" /\ NeedsDhs(call[t]) =>
            /\ done[t] \in effects
            /\ IsEffectOf(done[t], call[t])
            /\ call[t] = CreateImageCall => done[t] = ImageCreated(reply[t].id)

=============================================================================
