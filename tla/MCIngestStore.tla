--------------------------- MODULE MCIngestStore ----------------------------
(***************************************************************************)
(* Constants of the runs of IngestStore: three batches, so that a listing  *)
(* with a limit leaves some out and a torn line has stores before and      *)
(* after it; the batches and the threads are interchangeable.              *)
(***************************************************************************)
EXTENDS IngestStore, TLC

MCSymmetry == Permutations(Batches) \cup Permutations(Readers)
=============================================================================
