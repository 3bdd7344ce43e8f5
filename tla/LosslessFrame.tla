--------------------------- MODULE LosslessFrame ----------------------------
(***************************************************************************)
(* What the frame functions promise to the tool and the bindings: with a   *)
(* buffer of the size of its bound elh_frame_compress gives a frame, and   *)
(* with a smaller one nothing; elh_frame_decompress gives the input or     *)
(* refuses, also when the frame was damaged in between, and refuses a      *)
(* frame that arrived whole just when its buffer has no room for the input.*)
(***************************************************************************)
EXTENDS Integers, Sequences

CONSTANT Inputs     \* what may be put into a frame

VARIABLES
    given,      \* the input
    enough,     \* elh_frame_compress has a buffer of the size of its bound
    state,      \* which of the two calls has returned, and how
    damaged,    \* the frame is no longer what was written
    room,       \* the capacity of the buffer of elh_frame_decompress
    got         \* what it gave

vars == <<given, enough, state, damaged, room, got>>

Init ==
    /\ given \in Inputs /\ enough \in BOOLEAN
    /\ state = "given" /\ damaged = FALSE /\ room = 0 /\ got = <<>>

Compress ==
    /\ state = "given"
    /\ state' = IF enough THEN "frame" ELSE "refused"
    /\ UNCHANGED <<given, enough, damaged, room, got>>

Damage ==
    /\ state = "frame" /\ ~ damaged
    /\ damaged' = TRUE
    /\ UNCHANGED <<given, enough, state, room, got>>

Accept ==
    /\ state = "frame"
    /\ room' \in Int /\ room' >= Len(given)
    /\ state' = "decoded" /\ got' = given
    /\ UNCHANGED <<given, enough, damaged>>

Reject ==
    /\ state = "frame"
    /\ room' \in Int /\ (damaged \/ room' < Len(given))
    /\ state' = "rejected"
    /\ UNCHANGED <<given, enough, damaged, got>>

Next == Compress \/ Damage \/ Accept \/ Reject

Spec == Init /\ [][Next]_vars
=============================================================================
