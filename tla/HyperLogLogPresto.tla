------------------------- MODULE HyperLogLogPresto -------------------------
(***************************************************************************)
(* HyperLogLogPresto<KeyType> of src/primer/hyperloglog_presto.cpp.       *)
(*                                                                         *)
(* As in HyperLogLog, a key is its hash and the 64-bit word is scaled to  *)
(* W bits.  A register is split into a dense part of DenseBits bits (the  *)
(* code's DENSE_BUCKET_SIZE, written as 4 and 0x0F in AddElem) kept in a  *)
(* vector, and an overflow part of OverflowBits bits kept in a map only   *)
(* for registers that need it.  Both are scaled with W so that ranks do   *)
(* reach the overflow part.                                                *)
(*                                                                         *)
(* rank is a history variable: the registers a textbook HyperLogLog with  *)
(* the reference definitions RefBucket and RefRank would hold.            *)
(***************************************************************************)
EXTENDS Integers, FiniteSetsExt, TLC

CONSTANTS
    W,              \* width of the hash word
    NBits,          \* constructor arguments n_leading_bits explored
    DenseBits,      \* DENSE_BUCKET_SIZE
    OverflowBits,   \* OVERFLOW_BUCKET_SIZE
    AlphaNum,       \* CONSTANT = AlphaNum / AlphaDen
    AlphaDen

VARIABLES valid, nBits, dense, overflow, cardinality, rank

vars == <<valid, nBits, dense, overflow, cardinality, rank>>

Hashes == 0..(2^W - 1)

\* The largest value a register (overflow << DenseBits) + dense can hold.
RegisterMax == 2^(DenseBits + OverflowBits) - 1

HigherOf(a, b) == IF a >= b THEN a ELSE b

----------------------------------------------------------------------------
(* Reference definitions, independent of the code's loops.                *)

\* The register is selected by the top n bits of the hash.
RefBucket(h, n) == h \div 2^(W - n)

\* The rank is the number of trailing zeros of the low W - n bits, W - n
\* when they are all zero.
RefRank(h, n) ==
    LET x == h % 2^(W - n)
    IN  Max({k \in 0..(W - n) : x % 2^k = 0})

----------------------------------------------------------------------------
(* The code.                                                               *)

\* (hash >> i) & 1
Bit(h, i) == (h \div 2^i) % 2

\* hash >> s on a W-bit word.  A count of W is undefined; the shift
\* instructions of x86-64 and AArch64 take the count modulo W.
ShiftRight(h, s) == h \div 2^(s % W)

\* The loop counting p: zeros from bit i upwards, stopping at a one or
\* at bit W - n.
RECURSIVE TrailingZeros(_, _, _)
TrailingZeros(h, n, i) ==
    IF i >= W - n \/ Bit(h, i) = 1 THEN i
    ELSE TrailingZeros(h, n, i + 1)

\* The constructor HyperLogLogPresto(n_leading_bits).
Init ==
    \E n \in NBits :
        /\ cardinality = 0
        /\ valid = (n >= 0)
        /\ nBits = HigherOf(n, 0)
        /\ dense = [j \in 0..(IF n >= 0 THEN 2^n - 1 ELSE -1) |-> 0]
        /\ overflow = [j \in {} |-> 0]
        /\ rank = dense

\* overflow_bucket_.count(j) > 0 ? overflow_bucket_[j] : 0
OverflowOf(j) == IF j \in DOMAIN overflow THEN overflow[j] ELSE 0

\* Mutant: the dense part is assigned p without the mask 0x0F.
DenseUnmasked(p) == p

\* p & 0x0F
DensePart(p) == p % 2^DenseBits

\* Mutant: the old register is read from the dense part alone.
OldValueDenseOnly(j, denseVal) == denseVal

\* (overflow_val << DENSE_BUCKET_SIZE) + dense_val
OldValue(j, denseVal) == OverflowOf(j) * 2^DenseBits + denseVal

\* AddElem(val).  bucket_num = hash >> (64 - n_leading_bits_); p counts the
\* trailing zeros; when p exceeds the register, the dense part takes
\* p & 0x0F and, when p >> 4 is not zero, the overflow map takes it.
\* Reading or writing dense_bucket_ at an index past its end is undefined:
\* the read yields any register value and the write does not reach the
\* model's registers.
AddElem(h) ==
    \/ /\ ~valid
       /\ UNCHANGED vars
    \/ /\ valid
       /\ \E garbage \in 0..RegisterMax :
          LET j == ShiftRight(h, W - nBits)
              p == TrailingZeros(h, nBits, 0)
              inRange == j \in DOMAIN dense
              denseVal == IF inRange THEN dense[j] ELSE garbage
              high == p \div 2^DenseBits
              r == RefBucket(h, nBits)
          IN  /\ IF p > OldValue(j, denseVal)
                 THEN /\ dense' = IF inRange
                                  THEN [dense EXCEPT ![j] = DensePart(p)]
                                  ELSE dense
                      /\ overflow' = IF high > 0
                                     THEN (j :> high % 2^OverflowBits) @@ overflow
                                     ELSE overflow
                 ELSE UNCHANGED <<dense, overflow>>
              /\ rank' = [rank EXCEPT ![r] = HigherOf(@, RefRank(h, nBits))]
       /\ UNCHANGED <<valid, nBits, cardinality>>

\* The register i as ComputeCardinality reads it: (overflow_val << 4) + dense.
Register(i) == OverflowOf(i) * 2^DenseBits + dense[i]

\* ComputeCardinality: res = sum of 1.0 / (1 << register) over the m
\* registers, on a 128-bit shift (no register reaches 128), scaled by
\* 2^RegisterMax; cardinality_ = CONSTANT * m / res * m, truncated.
ComputeCardinality ==
    \/ /\ ~valid
       /\ UNCHANGED vars
    \/ /\ valid
       /\ LET m == 2^nBits
              res == MapThenSumSet(LAMBDA i : 2^(RegisterMax - Register(i)),
                                   0..(m - 1))
          IN  cardinality' = (AlphaNum * m * m * 2^RegisterMax) \div (AlphaDen * res)
       /\ UNCHANGED <<valid, nBits, dense, overflow, rank>>

Next ==
    \/ \E h \in Hashes : AddElem(h)
    \/ ComputeCardinality

Spec == Init /\ [][Next]_vars

----------------------------------------------------------------------------
(* Properties.                                                             *)

PrestoTypeOK ==
    /\ valid \in BOOLEAN
    /\ nBits \in 0..W
    /\ dense \in [DOMAIN dense -> 0..(2^DenseBits - 1)]
    /\ overflow \in [DOMAIN overflow -> 1..(2^OverflowBits - 1)]
    /\ cardinality \in Nat

\* After any sequence of AddElem calls, every register, put together from
\* its dense part and its overflow entry, holds the highest reference rank
\* of the hashes added to it.  This checks the split of p into p & 0x0F
\* and p >> 4, the comparison with the register put back together, and the
\* index hash >> (64 - n_leading_bits_).
RegistersMatchReference ==
    \A i \in DOMAIN rank : Register(i) = rank[i]

=============================================================================
