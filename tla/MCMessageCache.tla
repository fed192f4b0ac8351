--------------------------- MODULE MCMessageCache ---------------------------
(***************************************************************************)
(* MessageCache under TLC: the clock stops at MaxTime and at most MaxAdds  *)
(* messages are held at a time.                                            *)
(***************************************************************************)
EXTENDS MessageCache, TLC

CONSTANTS MaxTime, MaxAdds

MCTick == now < MaxTime /\ Tick

MCPurge == \E currentTime \in 0..now : PurgeOldMessages(currentTime)

MCAdd ==
    /\ Cardinality(recorded) < MaxAdds
    /\ MapThenSumSet(LAMBDA id : Len(cache[id]), DOMAIN cache) < MaxAdds
    /\ \E id \in ImageIds, timestamp \in 0..now, data \in Data :
            Add(id, timestamp, data)

MCNext == MCTick \/ MCPurge \/ MCAdd

MCSpec == Init /\ [][MCNext]_cacheVars

Symmetry == Permutations(ImageIds) \cup Permutations(Data)
=============================================================================
