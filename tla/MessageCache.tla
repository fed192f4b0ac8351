---------------------------- MODULE MessageCache ----------------------------
(***************************************************************************)
(* The memory of the setKeywords messages already handed to the DHS        *)
(* (MessageCache.h, MessageCache.cpp): for each image id a list of         *)
(* messages in the order they were recorded, each with the time at which   *)
(* the request that carried it was received.                               *)
(*                                                                         *)
(* Every method runs wholly under the cache's mutex, so a call is one      *)
(* step.  The time a method is given is not the current time but one its   *)
(* caller read earlier: between time(NULL) in DhsService::setKeywords and  *)
(* the call, the calling thread may have been delayed, for purge by other  *)
(* threads and for add by the whole exchange with the DHS.  Calls of       *)
(* different threads therefore present their times out of order.           *)
(*                                                                         *)
(* The stored hash is not kept: exists compares the data as well, and      *)
(* equal data have equal hashes.                                           *)
(***************************************************************************)
EXTENDS Integers, Sequences, FiniteSetsExt

CONSTANTS ImageIds,  \* the image ids clients name
          Data,      \* message texts (the request body as a string)
          ValidAge   \* validAge: the number of seconds a message is remembered

\* memoryPeriod is read from the configuration as any number, negative too.
ASSUME ValidAgeAssumption == ValidAge \in Int

VARIABLES cache,     \* map<ImageId, list<Message*>>: its domain is the keys present
          now,       \* the clock read by time(NULL), in seconds
          recorded   \* history: every add() there was, with the time it was made

cacheVars == <<cache, now, recorded>>

Message == [timestamp : Nat, data : Data]
Record  == [id : ImageIds, timestamp : Nat, data : Data, addedAt : Nat]

-----------------------------------------------------------------------------

\* The list a key maps to; an absent key and an empty list hold the same messages.
ListOf(id) == IF id \in DOMAIN cache THEN cache[id] ELSE <<>>

Expired(m, currentTime) == currentTime - m.timestamp > ValidAge

Live(list, currentTime) == {i \in DOMAIN list : ~ Expired(list[i], currentTime)}

\* Faulty variant: a message goes once validAge seconds have passed, not more.
PurgedEarly(list, currentTime) ==
    LET keep == {i \in DOMAIN list : currentTime - list[i].timestamp < ValidAge}
    IN  IF keep = {} THEN <<>> ELSE SubSeq(list, Min(keep), Len(list))

\* Faulty variant: nothing is ever forgotten.
PurgedNever(list, currentTime) == list

\* PurgeList: messages are popped from the front until one is not expired.
Purged(list, currentTime) ==
    IF Live(list, currentTime) = {}
    THEN <<>>
    ELSE SubSeq(list, Min(Live(list, currentTime)), Len(list))

-----------------------------------------------------------------------------

\* Faulty variant: the keys of emptied lists stay in the map.
AfterPurgeOfLists(currentTime) ==
    [id \in DOMAIN cache |-> Purged(cache[id], currentTime)]

\* Every list is purged, and a key whose list became empty is erased.
AfterPurge(currentTime) ==
    [id \in {k \in DOMAIN cache : Purged(cache[k], currentTime) # <<>>} |->
        Purged(cache[id], currentTime)]

PurgeOldMessages(currentTime) ==
    /\ cache' = AfterPurge(currentTime)
    /\ UNCHANGED <<now, recorded>>

\* exists() is a query: it changes nothing and ignores the timestamps.
Exists(id, data) == \E i \in DOMAIN ListOf(id) : ListOf(id)[i].data = data

\* Faulty variant: the message goes to the front of the list.
AddFront(id, timestamp, data) ==
    /\ cache' = [k \in DOMAIN cache \cup {id} |->
                    IF k = id
                    THEN <<[timestamp |-> timestamp, data |-> data]>> \o ListOf(id)
                    ELSE cache[k]]
    /\ recorded' = recorded \cup {[id |-> id, timestamp |-> timestamp,
                                   data |-> data, addedAt |-> now]}
    /\ UNCHANGED now

\* Faulty variant: the message carries the end of its life, rounded the wrong
\* way, instead of its timestamp.
AddBackdated(id, timestamp, data) ==
    /\ cache' = [k \in DOMAIN cache \cup {id} |->
                    IF k = id
                    THEN Append(ListOf(id), [timestamp |-> timestamp - ValidAge,
                                             data |-> data])
                    ELSE cache[k]]
    /\ recorded' = recorded \cup {[id |-> id, timestamp |-> timestamp,
                                   data |-> data, addedAt |-> now]}
    /\ UNCHANGED now

\* The message goes to the back of its image's list, without looking whether
\* it is there already.
Add(id, timestamp, data) ==
    /\ cache' = [k \in DOMAIN cache \cup {id} |->
                    IF k = id
                    THEN Append(ListOf(id), [timestamp |-> timestamp, data |-> data])
                    ELSE cache[k]]
    /\ recorded' = recorded \cup {[id |-> id, timestamp |-> timestamp,
                                   data |-> data, addedAt |-> now]}
    /\ UNCHANGED now

\* Time passes (the system clock, not part of the class).
Tick ==
    /\ now' = now + 1
    /\ UNCHANGED <<cache, recorded>>

Init ==
    /\ cache = [id \in {} |-> <<>>]
    /\ now = 0
    /\ recorded = {}

\* Callers present any time they can have read so far.
Next ==
    \/ Tick
    \/ \E currentTime \in 0..now : PurgeOldMessages(currentTime)
    \/ \E id \in ImageIds, timestamp \in 0..now, data \in Data :
            Add(id, timestamp, data)

Spec == Init /\ [][Next]_cacheVars

-----------------------------------------------------------------------------

TypeOK ==
    /\ DOMAIN cache \subseteq ImageIds
    /\ \A id \in DOMAIN cache : cache[id] \in Seq(Message)
    /\ now \in Nat
    /\ recorded \subseteq Record
    /\ \A r \in recorded : r.timestamp <= r.addedAt /\ r.addedAt <= now

\* A message is not forgotten before its time: whatever was recorded is still
\* found by exists() unless more than validAge seconds have passed since its
\* timestamp.  It is at risk from every purge, made by any thread with a time
\* that may be behind or ahead of the timestamps in the list
\* (MessageCache.cpp:44-50, 59-63, 94).
Holds(r) == \E i \in DOMAIN ListOf(r.id) :
                /\ ListOf(r.id)[i].data = r.data
                /\ ListOf(r.id)[i].timestamp = r.timestamp

Remembered == \A r \in recorded : Holds(r) \/ now - r.timestamp > ValidAge

\* The map grows by the ids clients send, so it must also shrink: no key
\* outlives its messages (MessageCache.cpp:61 erases the key with its last one).
NoEmptyLists == \A id \in DOMAIN cache : cache[id] # <<>>

\* Nothing is in the cache that no add() put there, and the list of an image
\* holds its messages in the order of the adds even when their timestamps are
\* out of order: the addition times that explain the list can be chosen
\* ascending.
Explained(id, i) ==
    {r \in recorded : /\ r.id = id
                      /\ r.data = cache[id][i].data
                      /\ r.timestamp = cache[id][i].timestamp}

InAdditionOrder ==
    \A id \in DOMAIN cache : \A i, j \in DOMAIN cache[id] :
        i <= j => \E r \in Explained(id, i), s \in Explained(id, j) :
                    r.addedAt <= s.addedAt

\* A purge does forget, for whatever time and in whatever state it is made.
\* Only the front of a list is examined, so a message recorded behind a younger
\* one outlives its own validAge, but never by more than the delay between its
\* timestamp and its recording: every message that a purge for time T leaves
\* was recorded at most validAge seconds before T
\* (MessageCache.cpp:44-50, 59-63 with DhsService.cpp:381, 389).
AddedSince(id, m, T) ==
    \E r \in recorded : /\ r.id = id
                        /\ r.data = m.data
                        /\ r.timestamp = m.timestamp
                        /\ T - r.addedAt <= ValidAge

PurgeForgets ==
    \A T \in 0..now : \A id \in DOMAIN AfterPurge(T) :
        \A i \in DOMAIN AfterPurge(T)[id] : AddedSince(id, AfterPurge(T)[id][i], T)

=============================================================================
