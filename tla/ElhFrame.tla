------------------------------ MODULE ElhFrame -------------------------------
(***************************************************************************)
(* The frame container of src/src/elh_frame.c: a header, then chunks that  *)
(* are blocks of elh_compress or raw bytes.                                *)
(*                                                                         *)
(* A frame is stored or sent between elh_frame_compress and                *)
(* elh_frame_decompress, so between the two calls it may be damaged once:  *)
(* cut, followed by other bytes, a chunk lost or repeated, a field         *)
(* changed.  chunks is what was written; what arrives is chunks seen       *)
(* through damage.                                                         *)
(*                                                                         *)
(* A byte of the input is its position, which makes a lost, repeated or    *)
(* misplaced byte visible.  A block is what ElhBlock shows of it: any size *)
(* up to the bound, and elh_decompress gives its bytes back if they fit.   *)
(***************************************************************************)
EXTENDS Integers, Sequences, FiniteSetsExt

CONSTANTS
    Header,         \* ELH_FRAME_HEADER_SIZE
    ChunkHeader,    \* ELH_FRAME_CHUNK_HEADER_SIZE
    MaxChunk,       \* ELH_FRAME_DEFAULT_CHUNK_SIZE
    BlockBound(_),  \* elh_compress_bound
    IntMod,         \* an int wraps modulo this: 2^32
    SrcSizes,       \* srcSize
    ChunkSizes,     \* params.chunk_size
    Slack,          \* dstCapacity, relative to the bound
    DecSlack,       \* dstCapacity of the decoder, relative to srcSize
    Damages,        \* what may happen to a frame between the calls
    Fields          \* what a changed field may say, how many bytes may follow

AllDamages == {"cut", "trail", "lost", "repeated", "form", "reserved", "rawsize",
               "original"}

ASSUME FrameAssumption ==
    /\ Header \in Nat \ {0} /\ ChunkHeader \in Nat \ {0} /\ MaxChunk \in Nat \ {0}
    /\ IntMod \in Nat \ {0} /\ IntMod % 2 = 0
    /\ \A m \in 1 .. MaxChunk : BlockBound(m) \in Nat /\ BlockBound(m) > m
    /\ \A m \in 1 .. MaxChunk : \A l \in 1 .. m : BlockBound(l) <= BlockBound(m)
    /\ SrcSizes \subseteq Nat /\ ChunkSizes \subseteq Int
    /\ \A s \in SrcSizes : s < IntMod \div 2
    /\ Slack \subseteq Int /\ DecSlack \subseteq Int
    /\ Damages \subseteq AllDamages /\ Fields \subseteq Nat

VARIABLES
    n, size, store,     \* srcSize, chunk_size normalised, store_uncompressed
    cap, op, pos,       \* dstCapacity, bytes written, bytes read
    chunks,             \* the chunks written
    damage,             \* what happened to the frame since: kind, chunk, value
    dcap, ip, ci, out,  \* the decoder: capacity, byte read, chunk, output
    pc

input == <<n, size, store, cap>>
frame == <<chunks, damage>>
decoder == <<dcap, ip, ci, out>>
vars == <<input, op, pos, frame, decoder, pc>>

Whole == [kind |-> "none", chunk |-> 0, to |-> 0]

-----------------------------------------------------------------------------
\* What the sum x is as an int, and C's division.
ToInt(x) == ((x + IntMod \div 2) % IntMod) - IntMod \div 2
CDiv(a, b) == IF a >= 0 THEN a \div b ELSE -((-a) \div b)

\* FAULTY: a chunk size that is too large is kept.
FaultyNormChunkSize(c) == IF c <= 0 THEN MaxChunk ELSE c

\* norm_chunk_size
NormChunkSize(c) == IF c <= 0 \/ c > MaxChunk THEN MaxChunk ELSE c

\* FAULTY: the headers of the chunks are forgotten.
FaultyFrameBound(s, c) ==
    IF s = 0 THEN Header
    ELSE ToInt(Header + CDiv(ToInt(s + c - 1), c) * BlockBound(c))

\* elh_frame_compress_bound, of a normalised chunk size.
FrameBound(s, c) ==
    IF s = 0 THEN Header
    ELSE ToInt(Header + CDiv(ToInt(s + c - 1), c) * (ChunkHeader + BlockBound(c)))

Init ==
    /\ n \in SrcSizes
    /\ size \in {NormChunkSize(c) : c \in ChunkSizes}
    /\ store \in BOOLEAN
    /\ cap \in {FrameBound(n, size) + d : d \in Slack}
    /\ op = 0 /\ pos = 0
    /\ chunks = <<>> /\ damage = Whole
    /\ dcap = 0 /\ ip = 0 /\ ci = 1 /\ out = <<>>
    /\ pc = "start"

-----------------------------------------------------------------------------
(***************************************************************************)
(* elh_frame_compress.                                                     *)
(***************************************************************************)
EncBegin ==
    /\ pc = "start"
    /\ IF cap < FrameBound(n, size) THEN pc' = "refused" /\ UNCHANGED op
                                    ELSE pc' = "chunk" /\ op' = Header
    /\ UNCHANGED <<input, pos, frame, decoder>>

RawSize == Min({n - pos, size})
PayloadCap == cap - (op + ChunkHeader)

\* elh_compress of the chunk: -1 without memory for its table or without the
\* room its bound asks for, else a size within the bound.
Outcomes ==
    {-1} \cup IF PayloadCap < BlockBound(RawSize) THEN {} ELSE 1 .. BlockBound(RawSize)

\* The chunk is stored raw.
StoredRaw(comp) == comp < 0 \/ (store /\ comp >= RawSize)

Stored(raw, comp) ==
    [from |-> pos, raw |-> RawSize, at |-> op,
     comp |-> IF raw THEN RawSize ELSE comp,
     isRaw |-> raw]

\* The chunk header, or a raw chunk, does not fit: -1.
EncChunk ==
    /\ pc = "chunk"
    /\ pos < n
    /\ \E comp \in Outcomes :
        LET c == Stored(StoredRaw(comp), comp)
        IN  IF PayloadCap < 0 \/ (StoredRaw(comp) /\ PayloadCap < RawSize)
            THEN pc' = "failed" /\ UNCHANGED <<chunks, op, pos>>
            ELSE /\ chunks' = Append(chunks, c)
                 /\ op' = op + ChunkHeader + c.comp
                 /\ pos' = pos + RawSize
                 /\ UNCHANGED pc
    /\ UNCHANGED <<input, damage, decoder>>

EncReturn ==
    /\ pc = "chunk"
    /\ pos >= n
    /\ pc' = "frame"
    /\ UNCHANGED <<input, op, pos, frame, decoder>>

-----------------------------------------------------------------------------
(***************************************************************************)
(* Between the calls.                                                      *)
(***************************************************************************)
Hurt(kind, i, x) ==
    /\ kind \in Damages
    /\ damage' = [kind |-> kind, chunk |-> i, to |-> x]

\* form: magic, version or header size.  original: the recorded size.
Damage ==
    /\ pc = "frame"
    /\ damage = Whole
    /\ \/ \E x \in 0 .. op - 1 : Hurt("cut", 0, x)
       \/ \E x \in Fields \ {0} : Hurt("trail", 0, x)
       \/ Hurt("form", 0, 0)
       \/ \E x \in Fields \ {n} : Hurt("original", 0, x)
       \/ \E i \in DOMAIN chunks :
            \/ \E kind \in {"lost", "repeated", "reserved"} : Hurt(kind, i, 0)
            \/ \E x \in Fields \ {chunks[i].raw} : Hurt("rawsize", i, x)
    /\ UNCHANGED <<input, op, pos, chunks, decoder, pc>>

\* The bytes that arrive, and the original size they record.
Extent(i) == ChunkHeader + chunks[i].comp

Arrived ==
    CASE damage.kind = "cut" -> damage.to
      [] damage.kind = "trail" -> op + damage.to
      [] damage.kind = "lost" -> op - Extent(damage.chunk)
      [] damage.kind = "repeated" -> op + Extent(damage.chunk)
      [] OTHER -> op

Recorded == IF damage.kind = "original" THEN damage.to ELSE n

\* The chunk at hand, as it arrives.
Index ==
    CASE damage.kind = "lost" /\ ci >= damage.chunk -> ci + 1
      [] damage.kind = "repeated" /\ ci > damage.chunk -> ci - 1
      [] OTHER -> ci

Chunk == chunks[Index]
Reserved == damage.kind = "reserved" /\ ci = damage.chunk
RawField == IF damage.kind = "rawsize" /\ ci = damage.chunk THEN damage.to ELSE Chunk.raw

-----------------------------------------------------------------------------
(***************************************************************************)
(* elh_frame_decompress.                                                   *)
(***************************************************************************)
ValidHeader == Arrived >= Header /\ damage.kind # "form"

\* elh_frame_get_original_size, with which the command line tool and the
\* bindings choose their buffer.
GetOriginalSize ==
    IF ~ ValidHeader \/ Recorded >= IntMod \div 2 THEN -1 ELSE Recorded

Capacities == {n + d : d \in DecSlack} \cup {GetOriginalSize}

DecBegin(c) ==
    /\ pc = "frame"
    /\ dcap' = c
    /\ IF c < 0 \/ ~ ValidHeader \/ Recorded > c \/ Recorded >= IntMod \div 2
       THEN pc' = "rejected" /\ UNCHANGED ip
       ELSE pc' = "decode" /\ ip' = Header
    /\ UNCHANGED <<input, op, pos, frame, ci, out>>

Payload == ip + ChunkHeader

\* FAULTY: a block that gives fewer bytes than the header says will do.
FaultyDecoded ==
    IF Chunk.isRaw THEN Chunk.comp = RawField ELSE Chunk.raw <= RawField

\* The payload gives as many bytes as the header says: elh_decompress has room
\* for no more than RawField, and a smaller result is refused.
Decoded == IF Chunk.isRaw THEN Chunk.comp = RawField ELSE Chunk.raw = RawField

\* FAULTY: a chunk that would just fill the output is refused.
FaultyFits == Len(out) + RawField < dcap

\* FAULTY: one byte of room is room for the chunk.
LaxFits == Len(out) < dcap

Fits == Len(out) + RawField <= dcap

\* The chunk passes every check.
Accepted ==
    /\ Payload <= Arrived
    /\ ~ Reserved
    /\ RawField \in 1 .. MaxChunk
    /\ Chunk.comp # 0 /\ Payload + Chunk.comp <= Arrived
    /\ Fits
    /\ Decoded

DecChunk ==
    /\ pc = "decode"
    /\ Len(out) < Recorded
    /\ IF Accepted
       THEN /\ out' = out \o [j \in 1 .. RawField |-> Chunk.from + j]
            /\ ip' = Payload + Chunk.comp
            /\ ci' = ci + 1
            /\ UNCHANGED pc
       ELSE pc' = "rejected" /\ UNCHANGED <<out, ip, ci>>
    /\ UNCHANGED <<input, op, pos, frame, dcap>>

\* FAULTY: bytes after the last chunk are not looked at.
FaultyEnd == "decoded"

End == IF ip # Arrived THEN "rejected" ELSE "decoded"

DecReturn ==
    /\ pc = "decode"
    /\ Len(out) >= Recorded
    /\ pc' = End
    /\ UNCHANGED <<input, op, pos, frame, decoder>>

-----------------------------------------------------------------------------
Next ==
    \/ EncBegin \/ EncChunk \/ EncReturn
    \/ Damage
    \/ \E c \in Capacities : DecBegin(c)
    \/ DecChunk \/ DecReturn

Spec == Init /\ [][Next]_vars

-----------------------------------------------------------------------------
(***************************************************************************)
(* Properties.                                                             *)
(***************************************************************************)
ChunkType == [from : Nat, raw : Nat, at : Nat, comp : Nat, isRaw : BOOLEAN]

TypeOK ==
    /\ n \in SrcSizes /\ size \in 1 .. MaxChunk /\ store \in BOOLEAN /\ cap \in Int
    /\ op \in Nat /\ pos \in 0 .. n
    /\ chunks \in Seq(ChunkType)
    /\ damage \in [kind : {"none"} \cup Damages, chunk : Nat, to : Nat]
    /\ dcap \in Int /\ ip \in Nat /\ ci \in Nat /\ out \in Seq(Nat)
    /\ pc \in {"start", "refused", "chunk", "failed", "frame", "decode", "rejected",
               "decoded"}

Source == [j \in 1 .. n |-> j]

\* What is accepted is the input, also after one of the modelled damages.
Lossless == pc = "decoded" => out = Source

\* A frame that arrives whole is refused only for want of room.
FailsOnlyForRoom == pc = "rejected" /\ damage = Whole => dcap < n

\* docs/ELH_FRAME_FORMAT.md, "Decoders must reject": every modelled damage is
\* refused, a changed original size apart.  Damages has no changed payload
\* and no exchanged chunks, which the format cannot tell.
DamageRejected == pc = "decoded" => damage.kind \in {"none", "original"}

\* A caller that asks elh_frame_get_original_size for the size of its buffer,
\* as the tool and the bindings do, gets exactly that many bytes, and none of
\* the modelled damages goes unnoticed: a recorded size that is too small or too
\* large is refused as well.
RecordedSizeIsExact ==
    pc = "decoded" /\ dcap = GetOriginalSize => damage = Whole /\ Len(out) = dcap

\* The bound in plain numbers, and that it fits an int: what the two
\* properties below need of the sizes.
Ceil(s, c) == (s + c - 1) \div c
Cost(c) == ChunkHeader + BlockBound(c)

NoOverflow ==
    \A s \in SrcSizes : \A c \in ChunkSizes :
        LET m == NormChunkSize(c)
        IN  /\ s + m - 1 < IntMod \div 2
            /\ Header + Ceil(s, m) * Cost(m) < IntMod \div 2

\* A call that passed the check of its buffer has room to the end, and each
\* chunk has the room its block asks for: a chunk is stored raw only because
\* it does not shrink or for want of memory.
RoomToTheEnd ==
    /\ pc # "failed"
    /\ pc = "chunk" /\ pos < n => PayloadCap >= BlockBound(RawSize)

\* elh_frame.h: "Worst-case frame size for srcSize bytes using chunked block
\* compression."
WithinBound == pc = "frame" => op <= FrameBound(n, size)

\* The frame keeps the contract of its callers, however its chunks came out
\* and whatever one damage did.
Contract == INSTANCE LosslessFrame WITH
    Inputs  <- {[j \in 1 .. m |-> j] : m \in SrcSizes},
    given   <- Source,
    enough  <- cap >= FrameBound(n, size),
    state   <- CASE pc \in {"start", "chunk"} -> "given"
                 [] pc \in {"refused", "failed"} -> "refused"
                 [] pc \in {"frame", "decode"} -> "frame"
                 [] OTHER -> pc,
    damaged <- damage # Whole,
    room    <- IF pc \in {"decoded", "rejected"} THEN dcap ELSE 0,
    got     <- IF pc = "decoded" THEN out ELSE <<>>
ContractSpec == Contract!Spec
=============================================================================
