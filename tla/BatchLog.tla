------------------------------ MODULE BatchLog -------------------------------
(***************************************************************************)
(* What the ingest store promises of its batches, without files: a batch   *)
(* is recorded in one step, once and for all, and acknowledged in another; *)
(* only a fault can come between the two, and it leaves one batch recorded *)
(* whose client was told nothing.                                          *)
(***************************************************************************)
EXTENDS Naturals, Sequences

CONSTANTS Batches,  \* batch ids
          None      \* no batch

VARIABLES recorded,  \* the batches that are there for good
          pending,   \* the one of them whose client waits for the answer
          acked,     \* the batches acknowledged, in order
          faults     \* faults so far

vars == <<recorded, pending, acked, faults>>

Init == recorded = {} /\ pending = None /\ acked = <<>> /\ faults = 0

(* store_ingest_batch up to the last byte of the metadata line. *)
Record(b) ==
  /\ pending = None
  /\ b \notin recorded
  /\ recorded' = recorded \cup {b}
  /\ pending' = b
  /\ UNCHANGED <<acked, faults>>

(* Its return. *)
Acknowledge ==
  /\ pending # None
  /\ acked' = Append(acked, pending)
  /\ pending' = None
  /\ UNCHANGED <<recorded, faults>>

(* A failed write, or a crash: who waits is not acknowledged. *)
Fault ==
  /\ pending' = None
  /\ faults' = faults + 1
  /\ UNCHANGED <<recorded, acked>>

Next == (\E b \in Batches : Record(b)) \/ Acknowledge \/ Fault

Spec == Init /\ [][Next]_vars
=============================================================================
