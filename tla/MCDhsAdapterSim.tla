-------------------------- MODULE MCDhsAdapterSim --------------------------
(***************************************************************************)
(* DhsAdapterSim under TLC: two dates on either side of the end of a       *)
(* month, and at most MaxLatches images.  The setters are called only      *)
(* about the ids in SetIds, and not with the last keywords, which makes no *)
(* difference to the simulator.                                            *)
(***************************************************************************)
EXTENDS DhsAdapterSim, FiniteSets, TLC

CONSTANTS MaxLatches, SetIds

MCCalendar == <<[mon |-> 0, mday |-> 31], [mon |-> 1, mday |-> 1]>>

MCImageIds == [mon : {0, 1}, mday : {1, 31}, number : 1..(MAX_IMAGE_ID - 1)]

FirstId == {[mon |-> 0, mday |-> 31, number |-> 1]}

Creating == {t \in Threads : call[t] = CreateImageCall /\ turn[t] = 0}

MCEnter(t, c) ==
    /\ IF c = CreateImageCall
       THEN latches + Cardinality(Creating) < MaxLatches
       ELSE c.id \in SetIds /\ ("final" \in DOMAIN c => ~ c.final)
    /\ Enter(t, c)

MCNext ==
    \/ Tick
    \/ \E t \in Threads :
        \/ \E c \in Calls : MCEnter(t, c)
        \/ CreateImageStep(t) \/ Set(t) \/ Return(t) \/ Resume(t)

\* The server is started again once, with images made before.
MCRestart == started = 1 /\ latches > 0 /\ Restart

MCSpec == SimInit /\ [][MCNext \/ MCRestart]_vars

Symmetry == Permutations(Threads)
=============================================================================
