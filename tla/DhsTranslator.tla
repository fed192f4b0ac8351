---------------------------- MODULE DhsTranslator ----------------------------
(***************************************************************************)
(* The whole translator as it is deployed with a real DHS: the request     *)
(* handlers (DhsService) over the adapter of the client library            *)
(* (DhsAdapter).  A thread is in both at once: where its handler has       *)
(* called the adapter it is at some place in there, with the handler       *)
(* waiting, since all methods of an adapter block their caller             *)
(* (IDhsAdapter.h:20).                                                     *)
(***************************************************************************)
EXTENDS DhsService

VARIABLES place,  \* where each thread is in the adapter
          status, newId, lock, isConnected, opened  \* as in DhsAdapter

dhsVars == <<place, status, newId, lock, isConnected, opened>>
allVars == <<vars, dhsVars>>

Dhs == INSTANCE DhsAdapter WITH pc <- place

-----------------------------------------------------------------------------

\* What a handler's step is to the adapter: nothing, a call, or a return.
AdapterSide(t) ==
    \/ UNCHANGED <<adapterVars, dhsVars>>
    \/ \E c \in Adapter!Calls : Dhs!Enter(t, c)
    \/ Dhs!Resume(t)

ReceiveStep(t) == (\E r \in Requests : Receive(t, r)) /\ UNCHANGED dhsVars

HandlerStep(t) == AdapterSide(t) /\ Handle(t)

\* The steps of a thread in the adapter, and those that wait for the DHS.
LocalStep(t) == Dhs!LocalStep(t) /\ UNCHANGED <<threadVars, cacheVars>>
DhsStep(t) == Dhs!DhsStep(t) /\ UNCHANGED <<threadVars, cacheVars>>

TickStep == Tick /\ UNCHANGED dhsVars

TranslatorInit == Init /\ Dhs!DhsInit

TranslatorNext ==
    \/ TickStep
    \/ \E t \in Threads :
        ReceiveStep(t) \/ HandlerStep(t) \/ LocalStep(t) \/ DhsStep(t)

TranslatorSpec == TranslatorInit /\ [][TranslatorNext]_allVars

\* Threads run and waits for the mutex end, but clients need not send
\* anything, and the DHS need not answer.
Fairness ==
    \A t \in Threads : WF_allVars(HandlerStep(t)) /\ WF_allVars(LocalStep(t))

-----------------------------------------------------------------------------

\* Over the real adapter the handlers still are what DhsService says they are
\* over any adapter: what is shown there, that success can be relied on above
\* all, holds of the translator.
ImplementsService == Spec

\* A client gets an answer unless the DHS hangs in a call made for it: not
\* when it hangs for another client, with the mutex held for ever, and however
\* many calls its own request takes (DhsAdapter.cpp:56, 85, 112, 142, 170, 234).
EveryRequestIsAnswered ==
    \A t \in Threads :
        request[t] # None ~> (response[t] # None \/ [] Dhs!InDhs(t))

\* How many steps at most a handler has still to make, and how many the adapter
\* in the call it is in, one of them the effect on the DHS.
HandlerSteps ==
    [idle |-> 0, respond |-> 1,
     settingContributors |-> 2, contributors |-> 3, settingLifetime |-> 4,
     lifetime |-> 5, creating |-> 6,
     record |-> 2, sending |-> 3, check |-> 4, purge |-> 5, invoke |-> 7]

CallSteps ==
    [idle |-> 0, returned |-> 1, return |-> 2, opUnlock |-> 3, operating |-> 4,
     building |-> 5, opLock |-> 6, readState |-> 7, connUnlock |-> 8,
     checking |-> 9, connLock |-> 10]

HandlerStepsLeft(t) == HandlerSteps[pc[t]]
CallStepsLeft(t) == CallSteps[place[t]] + (IF done[t] = None THEN 1 ELSE 0)

Closer(t) ==
    \/ HandlerStepsLeft(t)' < HandlerStepsLeft(t)
    \/ /\ HandlerStepsLeft(t)' = HandlerStepsLeft(t)
       /\ CallStepsLeft(t)' < CallStepsLeft(t)

\* No request goes round in circles, whatever fails and whatever runs out of
\* time in it: nothing is tried again, so each step made for it, by its thread or
\* by the DHS, brings it closer to its answer, and no step of another request
\* takes it back (DhsService.cpp:248-264, 321-340, 381-392, DhsAdapter.cpp:55-75,
\* 165-243).
NothingIsTriedAgain ==
    [][\A t \in Threads :
          \/ request[t] = None
          \/ Closer(t)
          \/ UNCHANGED <<pc[t], place[t], call[t], done[t], reply[t], response[t]>>]_allVars

=============================================================================
