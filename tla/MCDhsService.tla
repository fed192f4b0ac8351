---------------------------- MODULE MCDhsService ----------------------------
(***************************************************************************)
(* DhsService under TLC: the clock stops at MaxTime and a setKeywords      *)
(* request is received only while fewer than MaxRecords messages have been *)
(* recorded.                                                               *)
(***************************************************************************)
EXTENDS DhsService, FiniteSets, TLC

CONSTANTS MaxTime, MaxRecords

MCNext ==
    \/ now < MaxTime /\ Tick
    \/ \E t \in Threads :
        \/ \E r \in Requests :
                /\ r.op = "setKeywords" => Cardinality(recorded) < MaxRecords
                /\ Receive(t, r)
        \/ Handle(t)
        \/ AdapterStep(t)

MCSpec == Init /\ [][MCNext]_vars

\* For the run about setKeywords, its well formed requests and no other
\* operation (which is always received, so the model never stops).
KeywordsRequests ==
    OtherRequests \cup
    {r \in SetKeywordsRequests : r.id # None /\ r.keywords # None /\ ~ r.malformed}

\* For the run about the rest, everything but those.
ImageRequests == OtherRequests \cup (AllRequests \ KeywordsRequests)

Symmetry == Permutations(Threads)
=============================================================================
