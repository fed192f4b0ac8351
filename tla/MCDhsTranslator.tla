--------------------------- MODULE MCDhsTranslator ---------------------------
(***************************************************************************)
(* DhsTranslator under TLC: the clock stops at MaxTime.                    *)
(***************************************************************************)
EXTENDS DhsTranslator

CONSTANTS MaxTime

MCNext ==
    \/ now < MaxTime /\ TickStep
    \/ \E t \in Threads :
        ReceiveStep(t) \/ HandlerStep(t) \/ LocalStep(t) \/ DhsStep(t)

MCSpec == TranslatorInit /\ [][MCNext]_allVars

MCFairSpec == MCSpec /\ Fairness

\* Every operation, well formed and asking for all it can.
MCRequests ==
    {r \in SetKeywordsRequests :
        r.id # None /\ r.keywords \notin {None, EmptyList} /\ ~ r.final /\ ~ r.malformed}
    \cup {r \in CreateImageRequests :
        r.lifetime # None /\ r.contribs # EmptyList /\ ~ r.malformed}
=============================================================================
