----------------------------- MODULE MCElhBound -----------------------------
(***************************************************************************)
(* Constants of the runs of ElhBound: the lengths on both sides of every   *)
(* threshold of the token format.  An int has 1700 values, so that the     *)
(* bounds of 800 bytes fit for a block and wrap to -57 for a stream.       *)
(***************************************************************************)
EXTENDS ElhBound

MCSlack == {-1, 0, 90}
MCLits == {0, 1, 14, 15, 270}
MCMatches == {4, 18, 19, 274}
=============================================================================
