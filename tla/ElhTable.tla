------------------------------ MODULE ElhTable ------------------------------
(***************************************************************************)
(* The two-level hash table of src/src/elh.c: the level A1 of buckets of   *)
(* up to BucketMax positions, most recent first, and the level A2 of one   *)
(* position per bucket that receives what an insertion pushes out of A1.   *)
(* Both codecs insert in the same way: elh_put serves the block codec, and *)
(* elh_stream_compress repeats its body inline.  A position 0 means "no    *)
(* entry", so the first byte of the input can never be a candidate.        *)
(*                                                                         *)
(* Here and in the modules built on this one a definition marked FAULTY is *)
(* a mistake the code could contain.  No specification uses it; README.md  *)
(* tells which property finds each one when it takes its original's place. *)
(***************************************************************************)
EXTENDS Integers

CONSTANTS
    BucketMax,      \* ELH_BUCKET_MAX: slots of an A1 bucket
    Bucket1,        \* the A1 buckets
    Bucket2,        \* the A2 buckets
    Hash1(_),       \* elh_hash_a1: the A1 bucket of MINMATCH bytes
    Hash2(_),       \* elh_hash_a2: the A2 bucket of MINMATCH bytes
    PosMod,         \* positions are U32: 2^32
    DistMax,        \* ELH_DISTANCE_MAX: the largest offset of a match
    AdaptWindow,    \* ELH_ADAPT_WINDOW: inserts between two adaptations
    AdaptUp,        \* ELH_ADAPT_UP
    AdaptDown       \* ELH_ADAPT_DOWN

ASSUME TableAssumption ==
    /\ BucketMax \in Nat \ {0}
    /\ PosMod \in Nat \ {0}
    /\ DistMax \in Nat \ {0}
    /\ DistMax < PosMod
    /\ AdaptWindow \in Nat \ {0}
    /\ AdaptUp \in Nat
    /\ AdaptDown \in Nat

Pos == 0 .. PosMod - 1
Slot == 1 .. BucketMax

HashTable == [a1 : [Bucket1 -> [Slot -> Pos]], a2 : [Bucket2 -> Pos]]

\* calloc, and the memset of elh_stream_reset.
EmptyTable == [a1 |-> [b \in Bucket1 |-> [j \in Slot |-> 0]],
               a2 |-> [b \in Bucket2 |-> 0]]

\* The position the insertion of seq pushes out of the first k slots of its
\* bucket, 0 when the k-th slot was free.
Evicted(ht, seq, k) == ht.a1[Hash1(seq)][k]

Evictions(ht, seq, k) == IF Evicted(ht, seq, k) # 0 THEN 1 ELSE 0

\* elh_put: the first k slots shift by one, the slots beyond k keep what an
\* earlier and larger k left there, and the evicted position goes to the A2
\* bucket of the NEW sequence.
ElhPut(ht, seq, pos, k) ==
    [a1 |-> [ht.a1 EXCEPT ![Hash1(seq)] =
                [j \in Slot |-> IF j = 1 THEN pos
                                ELSE IF j <= k THEN @[j - 1] ELSE @[j]]],
     a2 |-> IF Evicted(ht, seq, k) # 0
            THEN [ht.a2 EXCEPT ![Hash2(seq)] = Evicted(ht, seq, k)]
            ELSE ht.a2]

\* The positions a table holds, 0 apart.
Entries(ht) ==
    ({ht.a1[b][j] : b \in Bucket1, j \in Slot} \cup {ht.a2[b] : b \in Bucket2})
        \ {0}

-----------------------------------------------------------------------------
\* cur - p in U32 arithmetic.
Dist(cur, p) == (cur - p) % PosMod

\* FAULTY: an offset one larger than the field of a token can say.
FaultyNear(cur, p, window) ==
    p # 0 /\ Dist(cur, p) <= DistMax + 1 /\ (window # 0 => Dist(cur, p) <= window)

\* The entry p may be used for a match at cur: not empty, near enough for an
\* offset, and inside the window the caller asked for (0: no window).
Near(cur, p, window) ==
    /\ p # 0
    /\ Dist(cur, p) <= DistMax
    /\ window # 0 => Dist(cur, p) <= window

\* elh_get: the longest match among the usable slots, the earliest slot on a
\* tie; the overflow level only when no slot is usable; 0 when there is no
\* candidate.  same is the set of entries whose MINMATCH bytes are the ones
\* sought, length[p] measures the match at p.
Usable(ht, seq, cur, k, window, same) ==
    {j \in 1 .. k : /\ Near(cur, ht.a1[Hash1(seq)][j], window)
                    /\ ht.a1[Hash1(seq)][j] \in same}

ElhGet(ht, seq, cur, k, ovf, window, same, length) ==
    LET slot == ht.a1[Hash1(seq)]
        use  == Usable(ht, seq, cur, k, window, same)
        over == ht.a2[Hash2(seq)]
    IN  IF use # {}
        THEN slot[CHOOSE j \in use :
                    \A i \in use : \/ length[slot[i]] < length[slot[j]]
                                   \/ /\ length[slot[i]] = length[slot[j]]
                                      /\ j <= i]
        ELSE IF ovf /\ Near(cur, over, window) /\ over \in same THEN over ELSE 0

-----------------------------------------------------------------------------
(***************************************************************************)
(* Adaptive bucket depth.  count is adapt_count, evict is evict_count, k   *)
(* the current depth; on is do_adapt.                                      *)
(***************************************************************************)
Adaptation == [k : Slot, count : Nat, evict : Nat, on : BOOLEAN]

\* FAULTY: bucket_k is not clamped.
FaultyInitialDepth(bucketK) == IF bucketK < 1 THEN 1 ELSE bucketK

\* The depth a call starts with: bucket_k clamped to 1 .. BucketMax; 0 asks
\* for the adaptive mode, which starts at 1.
InitialDepth(bucketK) ==
    IF bucketK < 1 THEN 1 ELSE IF bucketK > BucketMax THEN BucketMax ELSE bucketK

NextDepth(k, evict) ==
    IF evict = 0 THEN 1
    ELSE IF evict > AdaptUp /\ k < BucketMax THEN k + 1
    ELSE IF evict < AdaptDown /\ k > 1 THEN k - 1
    ELSE k

\* What one probe of the search loop does to the counters.
CountProbe(ad) ==
    IF ~ ad.on THEN ad
    ELSE IF ad.count + 1 < AdaptWindow THEN [ad EXCEPT !.count = @ + 1]
    ELSE [ad EXCEPT !.k = NextDepth(ad.k, ad.evict), !.count = 0, !.evict = 0]

CountEvictions(ad, n) == [ad EXCEPT !.evict = @ + n]
=============================================================================
