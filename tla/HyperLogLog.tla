---------------------------- MODULE HyperLogLog ----------------------------
(***************************************************************************)
(* HyperLogLog<KeyType> of src/primer/hyperloglog.cpp.                    *)
(*                                                                         *)
(* A key is represented by its hash: CalculateHash is a hash function the *)
(* model does not look inside, so AddElem takes any hash of the word.  The *)
(* 64-bit word (BITSET_CAPACITY) is scaled down to W bits; every place     *)
(* where the code's arithmetic depends on the width (the scan bounds, the *)
(* bucket index, the shift 1ULL << bucket_[i]) uses W in its stead, so the *)
(* edge at a shift by the full width is kept.                              *)
(*                                                                         *)
(* The double arithmetic of ComputeCardinality is computed exactly: the   *)
(* sum of 2^-bucket is scaled by 2^W to an integer, and the conversion to *)
(* the integral cardinality_ truncates.                                    *)
(*                                                                         *)
(* rank is a history variable: the bucket array a textbook HyperLogLog    *)
(* with the reference definitions RefBucket and RefRank would hold after  *)
(* the same hashes were added.                                             *)
(***************************************************************************)
EXTENDS Integers, FiniteSetsExt

CONSTANTS
    W,          \* width of the hash word (BITSET_CAPACITY)
    NBits,      \* constructor arguments n_bits explored
    AlphaNum,   \* CONSTANT = AlphaNum / AlphaDen
    AlphaDen

VARIABLES valid, nBits, bucket, cardinality, rank

vars == <<valid, nBits, bucket, cardinality, rank>>

Hashes == 0..(2^W - 1)

HigherOf(a, b) == IF a >= b THEN a ELSE b

----------------------------------------------------------------------------
(* Reference definitions, independent of the code's loops.                *)

\* The bucket is the value of the top n bits of the hash.
RefBucket(h, n) == h \div 2^(W - n)

\* The rank is the 1-based position of the leftmost one in the remaining
\* W - n bits, counted from their top; W - n when they are all zero (the
\* convention the code's final return chooses).
RefRank(h, n) ==
    LET x == h % 2^(W - n)
        log2 == CHOOSE k \in 0..W : 2^k <= x /\ x < 2^(k + 1)
    IN  IF x = 0 THEN W - n ELSE (W - n) - log2

----------------------------------------------------------------------------
(* The code.                                                               *)

\* ComputeBinary: bit i of std::bitset<BITSET_CAPACITY>(hash).
Bit(h, i) == (h \div 2^i) % 2

\* Mutant: the textbook rank W - n + 1 when no one is found.
RECURSIVE ScanDownTextbook(_, _, _)
ScanDownTextbook(h, n, i) ==
    IF i < 0 THEN W - n + 1
    ELSE IF Bit(h, i) = 1 THEN W - n - i
    ELSE ScanDownTextbook(h, n, i - 1)

\* The loop of PositionOfLeftmostOne from bit i downwards.
RECURSIVE ScanDown(_, _, _)
ScanDown(h, n, i) ==
    IF i < 0 THEN W - n
    ELSE IF Bit(h, i) = 1 THEN W - n - i
    ELSE ScanDown(h, n, i - 1)

\* Mutant: the scan starts one bit too high, on the last bucket bit.
PositionOfLeftmostOneFromBucketBit(h, n) == ScanDown(h, n, W - n)

PositionOfLeftmostOne(h, n) == ScanDown(h, n, W - n - 1)

\* GetBucketValue: value = (value << 1) | bset[W - 1 - i] for i < n.
RECURSIVE TopBits(_, _, _, _)
TopBits(h, n, i, value) ==
    IF i >= n THEN value
    ELSE TopBits(h, n, i + 1, 2 * value + Bit(h, W - 1 - i))

GetBucketValue(h, n) == TopBits(h, n, 0, 0)

\* Mutant: 1 << b on an int, half the width of the hash word.
ShiftLeftOneInt(b) == 2^(b % (W \div 2))

\* 1ULL << b on a W-bit word.  A count of W or more is undefined; the
\* shift instructions of x86-64 and AArch64 take the count modulo W.
ShiftLeftOne(b) == 2^(b % W)

\* The constructor HyperLogLog(n_bits).
Init ==
    \E n \in NBits :
        /\ cardinality = 0
        /\ valid = (n >= 0)
        /\ nBits = HigherOf(n, 0)
        /\ bucket = [j \in 0..(IF n >= 0 THEN 2^n - 1 ELSE -1) |-> 0]
        /\ rank = bucket

\* AddElem(val): early return when invalid, else bucket_[GetBucketValue] =
\* max(bucket_[GetBucketValue], PositionOfLeftmostOne).
AddElem(h) ==
    \/ /\ ~valid
       /\ UNCHANGED vars
    \/ /\ valid
       /\ LET p == PositionOfLeftmostOne(h, nBits)
              j == GetBucketValue(h, nBits)
              r == RefBucket(h, nBits)
          IN  /\ bucket' = [bucket EXCEPT ![j] = HigherOf(@, p)]
              /\ rank' = [rank EXCEPT ![r] = HigherOf(@, RefRank(h, nBits))]
       /\ UNCHANGED <<valid, nBits, cardinality>>

\* ComputeCardinality: res = sum of 1.0 / (1ULL << bucket_[i]), scaled by
\* 2^W; cardinality_ = CONSTANT * m * m * (1.0 / res), truncated.
ComputeCardinality ==
    \/ /\ ~valid
       /\ UNCHANGED vars
    \/ /\ valid
       /\ LET m == 2^nBits
              res == MapThenSumSet(LAMBDA i : 2^W \div ShiftLeftOne(bucket[i]),
                                   DOMAIN bucket)
          IN  cardinality' = (AlphaNum * m * m * 2^W) \div (AlphaDen * res)
       /\ UNCHANGED <<valid, nBits, bucket, rank>>

Next ==
    \/ \E h \in Hashes : AddElem(h)
    \/ ComputeCardinality

Spec == Init /\ [][Next]_vars

----------------------------------------------------------------------------
(* Properties.                                                             *)

HLLTypeOK ==
    /\ valid \in BOOLEAN
    /\ nBits \in 0..W
    /\ bucket \in [DOMAIN bucket -> 0..(W - nBits)]
    /\ cardinality \in Nat

\* After any sequence of AddElem calls, every bucket the code keeps holds
\* what the reference HyperLogLog holds: the highest rank, by the reference
\* definitions, of the hashes added whose top n_bits select that bucket.
\* This checks the scan bounds of PositionOfLeftmostOne, the bit order of
\* GetBucketValue and the max of AddElem together, over every hash.
BucketsMatchReference == bucket = rank

=============================================================================
