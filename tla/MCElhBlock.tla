----------------------------- MODULE MCElhBlock ------------------------------
(***************************************************************************)
(* Constants of the runs of ElhBlock.  The sizes of the code are scaled    *)
(* down together: matches of 2 bytes instead of 4, offsets up to 5 instead *)
(* of 65535, buckets of 2 slots instead of 4.                              *)
(***************************************************************************)
EXTENDS ElhBlockInv

MCByte == {0, 1}

\* Two sequences to an A1 bucket, and two others to an A2 bucket, so that a
\* window of probes evicts often, seldom or never.
MCTwo(s) == s[0]
MCHash2(s) == s[1]
\* An A1 bucket for each sequence.
MCFour(s) == 2 * s[0] + s[1]

Bits(m) == [1 .. m -> MCByte]

\* Every input of up to 5 bits, and every one of 9 and of 12.
SomeSrcs == UNION {Bits(m) : m \in 0 .. 5} \cup Bits(9)
            \cup {s \in Bits(12) : s[1] = 0}
LongSrcs == {s \in Bits(14) : s[1] = 0 /\ s[2] = 1}

Default == [bucketK |-> 2, overflow |-> TRUE, skipDiv |-> 8, window |-> 0]

Tunings == {Default,
            [Default EXCEPT !.bucketK = 0, !.overflow = FALSE],
            [Default EXCEPT !.bucketK = 9, !.skipDiv = 1, !.window = 2]}
Adaptive == {[Default EXCEPT !.bucketK = 0]}
=============================================================================
