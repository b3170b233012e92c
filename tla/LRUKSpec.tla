------------------------------ MODULE LRUKSpec ------------------------------
(***************************************************************************)
(* What the LRU-K replacer promises (the doc comments of                  *)
(* src/buffer/lru_k_replacer.cpp): it remembers, for each tracked frame,   *)
(* the last K access timestamps and whether it is evictable, and Evict     *)
(* removes the evictable frame of largest backward k-distance, where a     *)
(* frame with fewer than K accesses has distance +inf and ties among those *)
(* go to the frame whose oldest timestamp is furthest in the past.         *)
(* There are no cold or hot lists here and no size counter: the victim is  *)
(* chosen by the definition, not by a scan.                                *)
(***************************************************************************)
EXTENDS Integers, Sequences

CONSTANTS FrameIds, K

VARIABLES nodeStore, history, isEvictable, currentTimestamp

specVars == <<nodeStore, history, isEvictable, currentTimestamp>>

NoFrame == -1

(* The last K elements of a sequence. *)
LastK(s) == IF Len(s) > K THEN SubSeq(s, Len(s) - K + 1, Len(s)) ELSE s

Candidates == {f \in nodeStore : isEvictable[f]}

(* Frames whose backward k-distance is +inf. *)
InfiniteDistance == {f \in Candidates : Len(history[f]) < K}

(* Backward k-distance of a frame with K accesses: now minus the K-th most *)
(* recent access.                                                          *)
KDistance(f) == currentTimestamp - history[f][Len(history[f]) - K + 1]

Victim ==
    IF Candidates = {} THEN NoFrame
    ELSE IF InfiniteDistance # {}
    THEN CHOOSE f \in InfiniteDistance :
             \A g \in InfiniteDistance : history[f][1] <= history[g][1]
    ELSE CHOOSE f \in Candidates : \A g \in Candidates : KDistance(f) >= KDistance(g)

Init ==
    /\ nodeStore = {}
    /\ history = [f \in FrameIds |-> <<>>]
    /\ isEvictable = [f \in FrameIds |-> FALSE]
    /\ currentTimestamp = 0

Access(f) ==
    /\ nodeStore' = nodeStore \cup {f}
    /\ history' = [history EXCEPT ![f] = LastK(Append(@, currentTimestamp))]
    /\ currentTimestamp' = currentTimestamp + 1
    /\ UNCHANGED isEvictable

MarkEvictable(f, flag) ==
    /\ f \in nodeStore
    /\ isEvictable' = [isEvictable EXCEPT ![f] = flag]
    /\ UNCHANGED <<nodeStore, history, currentTimestamp>>

Forget(f) ==
    /\ f \in Candidates
    /\ nodeStore' = nodeStore \ {f}
    /\ history' = [history EXCEPT ![f] = <<>>]
    /\ isEvictable' = [isEvictable EXCEPT ![f] = FALSE]
    /\ UNCHANGED currentTimestamp

EvictVictim == Victim # NoFrame /\ Forget(Victim)

Next ==
    \/ \E f \in FrameIds : Access(f)
    \/ \E f \in FrameIds, flag \in BOOLEAN : MarkEvictable(f, flag)
    \/ \E f \in FrameIds : Forget(f)
    \/ EvictVictim

Spec == Init /\ [][Next]_specVars
=============================================================================
