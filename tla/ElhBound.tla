------------------------------ MODULE ElhBound ------------------------------
(***************************************************************************)
(* The output pointer of the two encoders of src/src/elh.c, in bytes.      *)
(*                                                                         *)
(* ElhStream and ElhBlock emit tokens as records and never fail; this      *)
(* module keeps only what a token costs: elh_compress and                  *)
(* elh_stream_compress accept a buffer of the size their bound function    *)
(* names and then check the room left before each part of a token.  Which  *)
(* literals and matches there are is left open, so every input is covered. *)
(*                                                                         *)
(* The sizes of the code are kept (15, 255, 4, 5, 13); only the width of   *)
(* an int is a parameter.                                                  *)
(***************************************************************************)
EXTENDS Integers

CONSTANTS
    IntMod,     \* an int wraps modulo this: 2^32
    SrcSizes,   \* the srcSize considered
    Slack,      \* dstCapacity considered, relative to the bound
    LitLens,    \* the lengths of the literals of a token
    MatchLens   \* the lengths of a match

ASSUME BoundAssumption ==
    /\ IntMod \in Nat \ {0} /\ IntMod % 2 = 0
    /\ SrcSizes \subseteq 1 .. IntMod \div 2 - 1
    /\ Slack \subseteq Int
    /\ LitLens \subseteq Nat
    /\ MatchLens \subseteq Nat

MinMatch == 4
LastLiterals == 5
MFLimit == 13
Mask == 15          \* ELH_RUN_MASK and ELH_ML_MASK

VARIABLES
    kind,       \* "block", "stream", or "wide": a stream with wide offsets
    n,          \* srcSize
    room,       \* dstCapacity
    pos,        \* anchor: bytes of the input behind the emitted tokens
    op,         \* bytes written
    rest,       \* what is left to write of a long match length
    pc          \* "start", "search", "ext", "done", "refused", "failed"

vars == <<kind, n, room, pos, op, rest, pc>>

\* What the sum x is as an int.
ToInt(x) == ((x + IntMod \div 2) % IntMod) - IntMod \div 2

IsInt(x) == x \in -(IntMod \div 2) .. IntMod \div 2 - 1

BlockSize(s) == s + (s \div 255) + (s \div 65536 + 1) * 8 + 32
WideSize(s) == BlockSize(s) + (s \div 4) * 4

Size(k, s) == IF k = "block" THEN BlockSize(s) ELSE WideSize(s)

\* FAULTY: the stream's bound without the room for wide offsets.
FaultyBound(k, s) == ToInt(BlockSize(s))

\* elh_compress_bound and elh_stream_bound.
Bound(k, s) == ToInt(Size(k, s))

\* The bytes that follow a length of len whose half of the token is full.
Ext(len) == IF len >= Mask THEN (len - Mask) \div 255 + 1 ELSE 0

Init ==
    /\ kind \in {"block", "stream", "wide"}
    /\ n \in SrcSizes
    /\ room \in {Bound(kind, n) + d : d \in Slack} /\ IsInt(room)
    /\ pos = 0 /\ op = 0 /\ rest = 0
    /\ pc = "start"

Start ==
    /\ pc = "start"
    /\ pc' = IF room < Bound(kind, n) THEN "refused" ELSE "search"
    /\ UNCHANGED <<kind, n, room, pos, op, rest>>

\* A match of ml bytes after lit literals: token, literals, offset.
Token(lit, ml) ==
    /\ pc = "search"
    /\ ml >= MinMatch
    /\ pos + lit <= n - MFLimit
    /\ pos + lit + ml <= n - LastLiterals
    /\ IF op + 1 + lit + lit \div 255 + 10 > room
       THEN pc' = "failed" /\ UNCHANGED <<pos, op, rest>>
       ELSE /\ \E offset \in IF kind = "wide" THEN {2, 6} ELSE {2} :
                  op' = op + 1 + Ext(lit) + lit + offset
            /\ pos' = pos + lit + ml
            /\ IF ml - MinMatch < Mask
               THEN pc' = "search" /\ UNCHANGED rest
               ELSE pc' = "ext" /\ rest' = ml - MinMatch - Mask
    /\ UNCHANGED <<kind, n, room>>

\* The rest of a long match length.
MatchExt ==
    /\ pc = "ext"
    /\ IF op + rest \div 255 + 2 > room
       THEN pc' = "failed" /\ UNCHANGED op
       ELSE pc' = "search" /\ op' = op + rest \div 255 + 1
    /\ UNCHANGED <<kind, n, room, pos, rest>>

\* FAULTY: the last literals are written without a look at the room.
FaultyLast ==
    /\ pc = "search"
    /\ pc' = "done" /\ op' = op + 1 + Ext(n - pos) + (n - pos)
    /\ UNCHANGED <<kind, n, room, pos, rest>>

\* The last literals.
Last ==
    /\ pc = "search"
    /\ LET lit == n - pos
       IN  IF op + lit + lit \div 255 + 2 > room
           THEN pc' = "failed" /\ UNCHANGED op
           ELSE pc' = "done" /\ op' = op + 1 + Ext(lit) + lit
    /\ UNCHANGED <<kind, n, room, pos, rest>>

Next ==
    \/ Start
    \/ \E lit \in LitLens, ml \in MatchLens : Token(lit, ml)
    \/ MatchExt
    \/ Last

Spec == Init /\ [][Next]_vars

-----------------------------------------------------------------------------
TypeOK ==
    /\ kind \in {"block", "stream", "wide"}
    /\ n \in SrcSizes /\ room \in Int
    /\ pos \in 0 .. n /\ op \in Nat /\ rest \in Nat
    /\ pc \in {"start", "search", "ext", "done", "refused", "failed"}

\* The bound of the call fits an int.
BoundFits == Size(kind, n) < IntMod \div 2

\* A call that passed the check of its buffer has room to the end: none of
\* the later "return -1" of the two encoders can be reached, which would
\* leave positions of bytes that were never sent in the stream's hash table.
NeverFails == BoundFits => pc # "failed"

\* elh.h: "Max compressed output size": the output fits the bound however
\* large the buffer is.  A bound that wrapped lets a buffer pass that is too
\* small; then the later checks keep the output within that buffer.
WithinBound ==
    /\ BoundFits /\ pc = "done" => op <= Bound(kind, n)
    /\ op > 0 => op <= room
=============================================================================
