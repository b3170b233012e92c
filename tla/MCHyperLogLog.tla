--------------------------- MODULE MCHyperLogLog ---------------------------
(***************************************************************************)
(* Both estimators side by side, their calls interleaved.  In each initial *)
(* state one is built with an argument from MCNBits and the other with a   *)
(* negative one (valid_ = false, every call returns early), so the states *)
(* of the two classes add up instead of multiplying.  MCNBits holds a      *)
(* negative argument and two bucket counts whose ranks stay below the     *)
(* word width.                                                             *)
(***************************************************************************)
EXTENDS Integers

CONSTANTS W, DenseBits, OverflowBits, AlphaNum, AlphaDen

VARIABLES hValid, hNBits, bucket, hCard, hRank,
          pValid, pNBits, dense, overflow, pCard, pRank

hVars == <<hValid, hNBits, bucket, hCard, hRank>>
pVars == <<pValid, pNBits, dense, overflow, pCard, pRank>>
vars == <<hVars, pVars>>

MCNBits == {-1, 1, 2}

H(N) == INSTANCE HyperLogLog
          WITH NBits <- N, valid <- hValid, nBits <- hNBits,
               cardinality <- hCard, rank <- hRank
P(N) == INSTANCE HyperLogLogPresto
          WITH NBits <- N, valid <- pValid, nBits <- pNBits,
               cardinality <- pCard, rank <- pRank

MCInit ==
    \E n \in MCNBits :
        \/ H({n})!Init /\ P({-1})!Init
        \/ H({-1})!Init /\ P({n})!Init

HLLNext == H(MCNBits)!Next /\ UNCHANGED pVars
PrestoNext == P(MCNBits)!Next /\ UNCHANGED hVars

MCNext == HLLNext \/ PrestoNext

\* The type invariants of the two estimators.
HLLTypeOK == H(MCNBits)!HLLTypeOK
PrestoTypeOK == P(MCNBits)!PrestoTypeOK

\* Every bucket of HyperLogLog holds the reference rank of the hashes added
\* to it (PositionOfLeftmostOne, GetBucketValue and the max of AddElem).
BucketsMatchReference == H(MCNBits)!BucketsMatchReference

\* Every Presto register, put together from its dense part and overflow
\* entry, holds the reference trailing-zero rank of the hashes added to it.
RegistersMatchReference == P(MCNBits)!RegistersMatchReference

\* HyperLogLog's ComputeCardinality never reports fewer distinct elements
\* than an earlier call did: AddElem only raises buckets, and a raised
\* bucket must lower res.  This fails if a bucket falls, or if the term of
\* a bucket, 1.0 / (1 << bucket), is not decreasing in it.
HLLEstimateMonotone == [][hCard' >= hCard]_vars

=============================================================================
