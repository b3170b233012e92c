--------------------------- MODULE MCLRUKReplacer ---------------------------
(***************************************************************************)
(* The replacer on its own, driven by any sequence of calls the buffer    *)
(* pool could make (RecordAccess, SetEvictable, Evict, Remove on any      *)
(* frame), with the timestamp bounded by MaxTimestamp.                    *)
(***************************************************************************)
EXTENDS LRUKReplacer, FiniteSets

CONSTANT MaxTimestamp   \* bound on current_timestamp_, i.e. on the number of RecordAccess calls

Abs == INSTANCE LRUKSpec

MCInit == ReplacerInit

MCNext ==
    \/ \E f \in FrameIds : currentTimestamp < MaxTimestamp /\ RecordAccess(f)
    \/ \E f \in FrameIds, flag \in BOOLEAN : SetEvictable(f, flag)
    \/ Evict
    \/ \E f \in FrameIds : ReplacerRemove(f)

MCSpec == MCInit /\ [][MCNext]_replacerVars

(* Evict picks exactly the frame the LRU-K definition picks: among the    *)
(* evictable frames, one with +inf backward k-distance and the oldest      *)
(* first access if there is any, else the one of largest k-distance; and  *)
(* it returns std::nullopt only when no frame is evictable.  This is the  *)
(* two-pass scan of cold_frames_ and hot_frames_ in LRUKReplacer::Evict,  *)
(* which is only right while the lists stay in step with the histories.   *)
VictimMatchesDefinition == Victim = Abs!Victim

(* curr_size_, maintained incrementally by SetEvictable, Evict and Remove,*)
(* always equals the number of tracked evictable frames (what Size()      *)
(* documents).                                                            *)
SizeMatchesEvictable == currSize = Cardinality({f \in nodeStore : isEvictable[f]})

(* Every behaviour of the replacer is a behaviour of LRUKSpec: histories  *)
(* are the last K accesses, and nodes are created, flagged and dropped as *)
(* the abstract replacer does.                                            *)
ImplementsLRUKSpec == Abs!Spec
=============================================================================
