--------------------------- MODULE LosslessBlock ----------------------------
(***************************************************************************)
(* What the block codec promises to its callers, the frame functions       *)
(* first of all: a call of elh_compress whose buffer has the size of its   *)
(* bound gives a block, or fails for want of memory and leaves nothing     *)
(* behind; a call of elh_decompress on the block gives the input if its    *)
(* buffer has room for all of it, and fails otherwise.                     *)
(***************************************************************************)
EXTENDS Naturals, Sequences

CONSTANT Inputs     \* what may be compressed

VARIABLES
    given,  \* the input
    state,  \* which of the two calls has returned, and how
    room,   \* the capacity of the buffer of elh_decompress
    got     \* what it gave

vars == <<given, state, room, got>>

Init == given \in Inputs /\ state = "given" /\ room = 0 /\ got = <<>>

Compress ==
    /\ state = "given"
    /\ state' = "block"
    /\ UNCHANGED <<given, room, got>>

\* An empty input needs no memory.
NoMemory ==
    /\ state = "given" /\ given # <<>>
    /\ state' = "nomem"
    /\ UNCHANGED <<given, room, got>>

Decompress ==
    /\ state = "block"
    /\ room' \in Nat
    /\ \/ room' >= Len(given) /\ state' = "done" /\ got' = given
       \/ room' < Len(given) /\ state' = "failed" /\ got' = got
    /\ UNCHANGED given

Next == Compress \/ NoMemory \/ Decompress

Spec == Init /\ [][Next]_vars
=============================================================================
