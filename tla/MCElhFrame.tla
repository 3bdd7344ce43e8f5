----------------------------- MODULE MCElhFrame ------------------------------
(***************************************************************************)
(* Constants of the runs of ElhFrame: chunks of up to 3 bytes instead of   *)
(* 65536, headers of 2 and 1 bytes instead of 40 and 12, blocks of one     *)
(* byte more than their input at most.                                     *)
(***************************************************************************)
EXTENDS ElhFrame

MCBlockBound(m) == m + 1
MCChunkSizes == {-1, 1, 2, 9}
MCSlack == {-1, 0, 2}
MCDecSlack == {-1, 0, 3}
MCFields == 0 .. 6 \cup {200}

ASSUME MCNoOverflow == NoOverflow
=============================================================================
