---------------------------- MODULE LRUKReplacer ----------------------------
(***************************************************************************)
(* The LRU-K replacer of src/buffer/lru_k_replacer.cpp.                    *)
(*                                                                         *)
(* Every public method takes latch_ for its whole body, so each one is a   *)
(* single atomic action here.  node_store_ is the set nodeStore together   *)
(* with the per-frame fields history and isEvictable; an erased node has   *)
(* its fields back at their defaults (<<>> and FALSE), which is also what  *)
(* a freshly emplaced LRUKNode() holds.  The operations are parameterised *)
(* actions so that BufferPoolManager can conjoin them into its own steps.  *)
(***************************************************************************)
EXTENDS Integers, Sequences, SequencesExt

CONSTANTS
    FrameIds,   \* 0 .. replacer_size_ - 1
    K           \* k_

VARIABLES
    nodeStore,         \* frame ids that have an LRUKNode in node_store_
    history,           \* history_: at most K timestamps, oldest first
    isEvictable,       \* is_evictable_
    coldFrames,        \* cold_frames_: fewer than K accesses, insertion order
    hotFrames,         \* hot_frames_: K accesses, in the order they reached K
    currentTimestamp,  \* current_timestamp_
    currSize           \* curr_size_

replacerVars ==
    <<nodeStore, history, isEvictable, coldFrames, hotFrames,
      currentTimestamp, currSize>>

\* frame_id_t -1, the "no frame" value the scans of Evict start from.
NoFrame == -1

ReplacerInit ==
    /\ nodeStore = {}
    /\ history = [f \in FrameIds |-> <<>>]
    /\ isEvictable = [f \in FrameIds |-> FALSE]
    /\ coldFrames = <<>>
    /\ hotFrames = <<>>
    /\ currentTimestamp = 0
    /\ currSize = 0

Candidate(f) == f \in nodeStore /\ isEvictable[f]

(* First pass of Evict: the first evictable frame of cold_frames_.         *)
ColdVictim ==
    LET i == SelectInSeq(coldFrames, Candidate)
    IN  IF i = 0 THEN NoFrame ELSE coldFrames[i]

(* Second pass: scan hot_frames_ keeping <<mx, max_fid>>; a frame replaces *)
(* the best so far only when its distance is strictly larger.             *)
HotVictim ==
    LET Scan(best, f) ==
            IF Candidate(f) /\ currentTimestamp - history[f][1] > best[1]
            THEN <<currentTimestamp - history[f][1], f>>
            ELSE best
    IN  FoldLeft(Scan, <<0, NoFrame>>, hotFrames)[2]

(* The frame id Evict returns, or NoFrame for std::nullopt.               *)
Victim == IF ColdVictim # NoFrame THEN ColdVictim ELSE HotVictim

(* Evict, when it finds a victim: erase the node, take it off the list it  *)
(* was found in, decrement curr_size_.                                     *)
Evict ==
    LET v == Victim IN
    /\ v # NoFrame
    /\ nodeStore' = nodeStore \ {v}
    /\ history' = [history EXCEPT ![v] = <<>>]
    /\ isEvictable' = [isEvictable EXCEPT ![v] = FALSE]
    /\ coldFrames' = IF ColdVictim # NoFrame THEN Remove(coldFrames, v) ELSE coldFrames
    /\ hotFrames' = IF ColdVictim # NoFrame THEN hotFrames ELSE Remove(hotFrames, v)
    /\ currSize' = currSize - 1
    /\ UNCHANGED currentTimestamp

(* Mutant: the move to hot_frames_ one access late (size() == k_ + 1). *)
RecordAccessLateHot(f) ==
    LET created == f \notin nodeStore
        cold1   == IF created THEN Append(coldFrames, f) ELSE coldFrames
        h       == Append(history[f], currentTimestamp)
    IN
    /\ nodeStore' = nodeStore \cup {f}
    /\ history' = [history EXCEPT ![f] = IF Len(h) > K THEN Tail(h) ELSE h]
    /\ coldFrames' = IF Len(h) = K + 1 THEN Remove(cold1, f) ELSE cold1
    /\ hotFrames' = IF Len(h) = K + 1 THEN Append(hotFrames, f) ELSE hotFrames
    /\ currentTimestamp' = currentTimestamp + 1
    /\ UNCHANGED <<isEvictable, currSize>>

(* Mutant: the pop_front of the oldest timestamp is missing. *)
RecordAccessNoPop(f) ==
    LET created == f \notin nodeStore
        cold1   == IF created THEN Append(coldFrames, f) ELSE coldFrames
        h       == Append(history[f], currentTimestamp)
    IN
    /\ nodeStore' = nodeStore \cup {f}
    /\ history' = [history EXCEPT ![f] = h]
    /\ coldFrames' = IF Len(h) = K THEN Remove(cold1, f) ELSE cold1
    /\ hotFrames' = IF Len(h) = K THEN Append(hotFrames, f) ELSE hotFrames
    /\ currentTimestamp' = currentTimestamp + 1
    /\ UNCHANGED <<isEvictable, currSize>>

(* RecordAccess: create the node at the tail of cold_frames_ if unknown,  *)
(* append the timestamp, move to hot_frames_ on reaching K, then drop the  *)
(* oldest entry beyond K.  The out-of-range BUSTUB_ENSURE cannot fire:     *)
(* every caller passes a frame of FrameIds.                                *)
RecordAccess(f) ==
    LET created == f \notin nodeStore
        cold1   == IF created THEN Append(coldFrames, f) ELSE coldFrames
        h       == Append(history[f], currentTimestamp)
    IN
    /\ nodeStore' = nodeStore \cup {f}
    /\ history' = [history EXCEPT ![f] = IF Len(h) > K THEN Tail(h) ELSE h]
    /\ coldFrames' = IF Len(h) = K THEN Remove(cold1, f) ELSE cold1
    /\ hotFrames' = IF Len(h) = K THEN Append(hotFrames, f) ELSE hotFrames
    /\ currentTimestamp' = currentTimestamp + 1
    /\ UNCHANGED <<isEvictable, currSize>>

(* Mutant: curr_size_ moves without checking the old flag. *)
SetEvictableNoCheck(f, flag) ==
    LET changes == f \in nodeStore IN
    /\ isEvictable' = IF changes THEN [isEvictable EXCEPT ![f] = flag] ELSE isEvictable
    /\ currSize' = IF ~changes THEN currSize
                   ELSE IF flag THEN currSize + 1 ELSE currSize - 1
    /\ UNCHANGED <<nodeStore, history, coldFrames, hotFrames, currentTimestamp>>

(* SetEvictable: a silent no-op for an unknown frame; otherwise flip the   *)
(* flag and move curr_size_ only when the flag really changes.             *)
SetEvictable(f, flag) ==
    LET changes == f \in nodeStore /\ isEvictable[f] # flag IN
    /\ isEvictable' = IF changes THEN [isEvictable EXCEPT ![f] = flag] ELSE isEvictable
    /\ currSize' = IF ~changes THEN currSize
                   ELSE IF flag THEN currSize + 1 ELSE currSize - 1
    /\ UNCHANGED <<nodeStore, history, coldFrames, hotFrames, currentTimestamp>>

(* Mutant: Remove forgets curr_size_--. *)
ReplacerRemoveKeepsSize(f) ==
    /\ f \in nodeStore => isEvictable[f]
    /\ IF f \notin nodeStore
       THEN UNCHANGED replacerVars
       ELSE /\ nodeStore' = nodeStore \ {f}
            /\ history' = [history EXCEPT ![f] = <<>>]
            /\ isEvictable' = [isEvictable EXCEPT ![f] = FALSE]
            /\ coldFrames' = IF Len(history[f]) < K THEN Remove(coldFrames, f) ELSE coldFrames
            /\ hotFrames' = IF Len(history[f]) < K THEN hotFrames ELSE Remove(hotFrames, f)
            /\ UNCHANGED <<currentTimestamp, currSize>>

(* Remove (named ReplacerRemove: SequencesExt owns Remove).  Unknown       *)
(* frames are a no-op; a known non-evictable frame makes BUSTUB_ENSURE     *)
(* abort, so no caller may take that step.  The list is picked by the      *)
(* history length.                                                         *)
ReplacerRemove(f) ==
    /\ f \in nodeStore => isEvictable[f]
    /\ IF f \notin nodeStore
       THEN UNCHANGED replacerVars
       ELSE /\ nodeStore' = nodeStore \ {f}
            /\ history' = [history EXCEPT ![f] = <<>>]
            /\ isEvictable' = [isEvictable EXCEPT ![f] = FALSE]
            /\ coldFrames' = IF Len(history[f]) < K THEN Remove(coldFrames, f) ELSE coldFrames
            /\ hotFrames' = IF Len(history[f]) < K THEN hotFrames ELSE Remove(hotFrames, f)
            /\ currSize' = currSize - 1
            /\ UNCHANGED currentTimestamp

(* Size() reads curr_size_ and changes nothing. *)
Size == currSize

ReplacerTypeOK ==
    /\ nodeStore \subseteq FrameIds
    /\ history \in [FrameIds -> Seq(Nat)]
    /\ isEvictable \in [FrameIds -> BOOLEAN]
    /\ coldFrames \in Seq(FrameIds)
    /\ hotFrames \in Seq(FrameIds)
    /\ currentTimestamp \in Nat
    /\ currSize \in Nat
=============================================================================
