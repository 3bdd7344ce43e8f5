--------------------------- MODULE LosslessStream ---------------------------
(***************************************************************************)
(* What the streaming codec promises: the bytes written come out again,    *)
(* unchanged, once each and in order, a whole chunk at a time.             *)
(***************************************************************************)
EXTENDS Integers, Sequences

CONSTANTS Byte, ChunkLens

VARIABLES
    written,    \* every byte handed to the encoder
    pending,    \* the sizes of the chunks not yet read
    out         \* every byte the decoder returned

vars == <<written, pending, out>>

Init == written = <<>> /\ pending = <<>> /\ out = <<>>

Write(n) ==
    /\ \E data \in [1 .. n -> Byte] : written' = written \o data
    /\ pending' = Append(pending, n)
    /\ UNCHANGED out

Read ==
    /\ pending # <<>>
    /\ out' = out \o SubSeq(written, Len(out) + 1, Len(out) + Head(pending))
    /\ pending' = Tail(pending)
    /\ UNCHANGED written

Next == (\E n \in ChunkLens : Write(n)) \/ Read

Spec == Init /\ [][Next]_vars

=============================================================================
