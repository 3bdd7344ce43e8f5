---------------------------- MODULE MCElhStream -----------------------------
(***************************************************************************)
(* Constants of the runs of ElhStream.  The sizes of the code are scaled   *)
(* down together: matches of 2 bytes instead of 4, rings of 4 bytes        *)
(* instead of 65536, buckets of 2 slots instead of 4.                      *)
(***************************************************************************)
EXTENDS ElhStreamInv

MCByte == {0, 1}
MCJunk == 2

\* Collisions in both levels, and two sequences that share their A1 bucket
\* but not their A2 bucket.
MCHash1(s) == 0
MCHash2(s) == s[1]

AllTapes == [0 .. N - 1 -> MCByte]
\* Tapes that begin with 0 1, and with 0 1 0 1.
SomeTapes == {t \in AllTapes : t[0] = 0 /\ t[1] = 1}
FewTapes == {t \in SomeTapes : t[2] = 0 /\ t[3] = 1}

Default == [bucketK |-> 2, overflow |-> TRUE, skipDiv |-> 8, window |-> 0, wide |-> FALSE]

\* The escape of wide offsets, and the same offsets without it.
Offsets == {Default, [Default EXCEPT !.wide = TRUE]}

\* Adaptive depth, with and without the overflow level; a window; a bucket_k
\* to be clamped with the fastest search.
Tunings == {[Default EXCEPT !.bucketK = 0],
            [Default EXCEPT !.bucketK = 0, !.overflow = FALSE, !.wide = TRUE],
            [Default EXCEPT !.window = 2],
            [Default EXCEPT !.bucketK = 9, !.skipDiv = 1, !.window = 9]}
AllParams == Offsets \cup Tunings
=============================================================================
