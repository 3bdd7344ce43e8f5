----------------------------- MODULE ElhStream ------------------------------
(***************************************************************************)
(* The streaming codec of src/src/elh.c: an encoder (elh_stream_compress)  *)
(* and a decoder (elh_stream_decompress), each with an elh_stream_t of its *)
(* own, and the wire that carries the compressed chunks from one to the    *)
(* other in order.                                                         *)
(*                                                                         *)
(* The input is a tape of N bytes fed to the encoder in chunks.  A match   *)
(* may reach into earlier chunks, whose bytes the encoder keeps in the     *)
(* ring window_buf and the decoder in the ring history; both sides address *)
(* the rings with U32 counters of the bytes seen so far.                   *)
(*                                                                         *)
(* A call runs from "idle" back to "idle" in the steps of its loops.  The  *)
(* two calls share nothing but the wire, which only the last step of a     *)
(* call changes, so running one call at a time loses no behaviour.         *)
(*                                                                         *)
(* Tokens are records, not bytes.  The output pointer of the encoder is    *)
(* left to ElhBound, which shows that a call whose buffer passed the check *)
(* against elh_stream_bound has no other way to fail.                      *)
(***************************************************************************)
EXTENDS ElhTable, Sequences, FiniteSetsExt

CONSTANTS
    Byte,           \* the values of a byte
    Zero,           \* the byte calloc leaves in the rings
    Junk,           \* what a read outside a buffer returns
    N,              \* length of the tape
    Tapes,          \* the tapes considered
    MinMatch,       \* ELH_MINMATCH
    LastLiterals,   \* ELH_LASTLITERALS
    MFLimit,        \* ELH_MFLIMIT
    Ring,           \* size of window_buf and history, and of U16: 65536
    MeasureCap,     \* the 65530 that stops the first measure of a match
    ChunkLens,      \* srcSize of the calls
    Params,         \* the elh_params_t considered, skipDiv for acceleration
    DecCaps,        \* dstCapacity of the decoder's calls
    MaxWire,        \* bound: chunks on the wire
    MaxResets       \* bound: resets of the encoder

VARIABLES
    tape, sent,                 \* the input, and how much of it was encoded
    params,                     \* elh_stream_t.params, the same on both sides
    ht, curPos, win,            \* the encoder: table, counter, window_buf
    hist, histPos,              \* the decoder: history, counter
    wire,                       \* chunks encoded and not yet decoded
    recvd,                      \* everything the decoder returned
    pc,                         \* where the running call is
    len, ip, anchor, skips, ad, \* the encoder's call: srcSize, pointers, ...
    mpos, hp, toks,             \* ... match_spos, hash pointer, output
    cap, ti, dout, ci, dret,    \* the decoder's call: capacity, token, output
    resets                      \* history: where in the tape resets happened

encVars  == <<ht, curPos, win>>
encCall  == <<len, ip, anchor, skips, ad, mpos, hp, toks>>
decVars  == <<hist, histPos, recvd>>
decCall  == <<cap, ti, dout, ci, dret>>
input    == <<tape, params>>
link     == <<sent, wire, resets>>
vars == <<input, link, encVars, decVars, pc, encCall, decCall>>

ASSUME StreamAssumption ==
    /\ Zero \in Byte
    /\ Junk \notin Byte
    /\ N \in Nat
    /\ Tapes \subseteq [0 .. N - 1 -> Byte]
    /\ MinMatch \in Nat \ {0}
    /\ LastLiterals \in Nat \ {0}
    /\ MFLimit \in Nat
    /\ MFLimit >= MinMatch + LastLiterals
    /\ Ring \in Nat \ {0, 1}
    /\ DistMax = Ring - 1
    /\ PosMod % Ring = 0
    /\ MeasureCap \in Nat
    /\ MeasureCap >= MinMatch
    /\ ChunkLens \subseteq Nat \ {0}
    /\ Params \subseteq [bucketK : Int, overflow : BOOLEAN, skipDiv : Nat \ {0},
                         window : Int, wide : BOOLEAN]
    /\ DecCaps \subseteq Nat
    /\ MaxWire \in Nat
    /\ MaxResets \in Nat

\* The sequences of MinMatch bytes, as elh_read32 reads them.
Seq4 == [0 .. MinMatch - 1 -> Byte \cup {Junk}]

ASSUME HashAssumption ==
    \A s \in Seq4 : Hash1(s) \in Bucket1 /\ Hash2(s) \in Bucket2

-----------------------------------------------------------------------------
(***************************************************************************)
(* Memory the encoder reads.                                               *)
(***************************************************************************)
MFL == len - MFLimit            \* mflimit - src8
FaultyML == len                 \* FAULTY: no last literals
ML  == len - LastLiterals       \* mlimit - src8

WLim == IF params.window <= 0 \/ params.window > DistMax THEN 0 ELSE params.window

\* src8[x]
SrcByte(x) == IF x < len THEN tape[sent + x] ELSE Junk

\* SPOS: the stream position of src8[x].
SPos(x) == (curPos + x) % PosMod

\* GETB: the byte at stream position P, from the caller's chunk or the ring.
GetB(P) == IF P >= curPos THEN SrcByte(P - curPos) ELSE win[P % Ring]

\* The byte n places after or before position P, U32 arithmetic.
GetAt(P, n) == GetB((P + n) % PosMod)

\* elh_read32(src8 + x)
Read32(x) == [j \in 0 .. MinMatch - 1 |-> SrcByte(x + j)]


\* GR32(p) == elh_read32(src8 + x)
SameSeq(x, p) == \A j \in 0 .. MinMatch - 1 : GetAt(p, j) = SrcByte(x + j)

\* The length of the match at x with position p, MinMatch bytes of which are
\* known to agree: up to limit bytes, and never into the last literals.
MatchLen(x, p, limit) ==
    Max({m \in MinMatch .. limit :
            \A j \in MinMatch .. m - 1 :
                x + j < ML /\ SrcByte(x + j) = GetAt(p, j)})

\* How far a match at x with position p extends backward.
BackLen(x, p) ==
    Max({n \in 0 .. x - anchor :
            n <= p /\ \A j \in 1 .. n : SrcByte(x - j) = GetB(p - j)})

\* The candidate the search finds at ip, 0 for none.
Alike == {p \in Entries(ht) : SameSeq(ip, p)}

Candidate ==
    ElhGet(ht, Read32(ip), SPos(ip), ad.k, params.overflow, WLim,
           Alike, [p \in Alike |-> MatchLen(ip, p, MeasureCap)])

\* FAULTY: of a chunk longer than the ring the first bytes stay.
FaultyRingWrite(ring, start, data) ==
    [s \in 0 .. Ring - 1 |->
        LET here == {i \in DOMAIN data : (start + i - 1) % Ring = s}
        IN  IF here = {} THEN ring[s] ELSE data[Min(here)]]

\* Copying data into a ring from stream position start on; later bytes win.
RingWrite(ring, start, data) ==
    [s \in 0 .. Ring - 1 |->
        LET here == {i \in DOMAIN data : (start + i - 1) % Ring = s}
        IN  IF here = {} THEN ring[s] ELSE data[Max(here)]]

\* The n bytes of the tape from t on.
TapeSeg(t, n) == [i \in 1 .. n |-> tape[t + i - 1]]

-----------------------------------------------------------------------------
\* The counters between calls.
NoCall == [k |-> 1, count |-> 0, evict |-> 0, on |-> FALSE]

Init ==
    /\ tape \in Tapes
    /\ params \in Params
    /\ sent = 0 /\ wire = <<>> /\ resets = {0}
    /\ ht = EmptyTable /\ curPos = 0
    /\ win = [s \in 0 .. Ring - 1 |-> Zero]
    /\ hist = [s \in 0 .. Ring - 1 |-> Zero] /\ histPos = 0 /\ recvd = <<>>
    /\ pc = "idle"
    /\ len = 0 /\ ip = 0 /\ anchor = 0 /\ skips = 0 /\ mpos = 0 /\ hp = 0
    /\ ad = NoCall /\ toks = <<>>
    /\ cap = 0 /\ ti = 0 /\ dout = <<>> /\ ci = 0 /\ dret = 0

-----------------------------------------------------------------------------
(***************************************************************************)
(* elh_stream_compress.                                                    *)
(***************************************************************************)

\* The caller passes the next n bytes of the tape.
EncBegin(n) ==
    /\ pc = "idle"
    /\ Len(wire) < MaxWire
    /\ sent + n <= N
    /\ len' = n /\ anchor' = 0 /\ skips' = 0 /\ mpos' = 0 /\ hp' = 0 /\ toks' = <<>>
    /\ ad' = [k |-> InitialDepth(params.bucketK), count |-> 0, evict |-> 0,
              on |-> params.bucketK = 0]
    /\ IF n < MinMatch + 1 THEN pc' = "last" /\ ip' = 0
                           ELSE pc' = "search" /\ ip' = 1
    /\ UNCHANGED <<input, link, encVars, decVars, decCall>>

\* One probe: look ip up, insert it.  On a hit the loop is left before the
\* adaptation is counted.
Insert(x) == ht' = ElhPut(ht, Read32(x), SPos(x), ad.k)

EncHit ==
    /\ pc = "search"
    /\ ip <= MFL
    /\ Candidate # 0
    /\ mpos' = Candidate
    /\ Insert(ip)
    /\ ad' = CountEvictions(ad, Evictions(ht, Read32(ip), ad.k))
    /\ pc' = "found"
    /\ UNCHANGED <<input, link, curPos, win, decVars, decCall,
                   len, ip, anchor, skips, hp, toks>>

EncMiss ==
    /\ pc = "search"
    /\ ip <= MFL
    /\ Candidate = 0
    /\ Insert(ip)
    /\ ad' = CountProbe(CountEvictions(ad, Evictions(ht, Read32(ip), ad.k)))
    /\ skips' = skips + 1
    /\ ip' = ip + 1 + skips' \div params.skipDiv
    /\ UNCHANGED <<input, link, curPos, win, decVars, decCall, pc,
                   len, anchor, mpos, hp, toks>>

EncSearchEnd ==
    /\ pc = "search"
    /\ ip > MFL
    /\ pc' = "last"
    /\ UNCHANGED <<input, link, encVars, decVars, decCall, encCall>>

\* _found: extend backward, measure again, emit token, literals and offset.
\* at (history) is where on the tape the literals of the token start.
MatchToken(x, p, ml) ==
    LET off == Dist(SPos(x), p)
    IN  [lits  |-> TapeSeg(sent + anchor, x - anchor),
         off16 |-> IF params.wide /\ off > Ring - 2 THEN Ring - 1 ELSE off % Ring,
         off32 |-> off,
         ml    |-> ml,
         at    |-> sent + anchor]

EncEmit ==
    /\ pc = "found"
    /\ LET back == BackLen(ip, mpos)
           ml   == MatchLen(ip - back, mpos - back, len)
       IN  /\ toks' = Append(toks, MatchToken(ip - back, mpos - back, ml))
           /\ ip' = ip - back + ml
           /\ anchor' = ip - back + ml
           /\ hp' = ip - back + 2
           /\ mpos' = mpos - back
    /\ pc' = "hash"
    /\ UNCHANGED <<input, link, encVars, decVars, decCall, len, skips, ad>>

\* FAULTY: the loop over the positions inside a match does not advance.
FaultyEncHash ==
    /\ pc = "hash" /\ hp < ip - 1 /\ hp <= MFL
    /\ Insert(hp)
    /\ UNCHANGED <<input, link, curPos, win, decVars, decCall, pc, encCall>>

\* Insert the positions inside the match; evictions are not counted here.
EncHash ==
    /\ pc = "hash"
    /\ hp < ip - 1 /\ hp <= MFL
    /\ Insert(hp)
    /\ hp' = hp + 1
    /\ UNCHANGED <<input, link, curPos, win, decVars, decCall, pc,
                   len, ip, anchor, skips, ad, mpos, toks>>

EncHashDone ==
    /\ pc = "hash"
    /\ ~ (hp < ip - 1 /\ hp <= MFL)
    /\ pc' = IF ip > MFL THEN "last" ELSE "search"
    /\ skips' = 0
    /\ UNCHANGED <<input, link, encVars, decVars, decCall,
                   len, ip, anchor, ad, mpos, hp, toks>>

\* _last: emit the remaining literals, copy the chunk into the ring, return.
\* raw, start and epoch (history) say which bytes of the tape the chunk holds
\* and where the encoder was last reset.
LastToken == [lits  |-> TapeSeg(sent + anchor, len - anchor),
              off16 |-> 0, off32 |-> 0, ml |-> 0, at |-> sent + anchor]

EncLast ==
    /\ pc = "last"
    /\ wire' = Append(wire, [toks |-> Append(toks, LastToken), raw |-> len,
                             start |-> sent, epoch |-> Max(resets)])
    /\ win' = RingWrite(win, curPos, TapeSeg(sent, len))
    /\ curPos' = (curPos + len) % PosMod
    /\ sent' = sent + len
    /\ pc' = "idle"
    /\ len' = 0 /\ ip' = 0 /\ anchor' = 0 /\ skips' = 0 /\ mpos' = 0 /\ hp' = 0
    /\ ad' = NoCall /\ toks' = <<>>
    /\ UNCHANGED <<input, resets, ht, decVars, decCall>>

\* FAULTY: the reset keeps the table.
FaultyResetEnc ==
    /\ pc = "idle" /\ sent \notin resets /\ Cardinality(resets) <= MaxResets
    /\ curPos' = 0 /\ resets' = resets \cup {sent}
    /\ UNCHANGED <<input, sent, wire, ht, win, decVars, decCall, pc, encCall>>

\* elh_stream_reset on the encoder's stream: the rings keep their bytes.
ResetEnc ==
    /\ pc = "idle"
    /\ sent \notin resets
    /\ Cardinality(resets) <= MaxResets
    /\ ht' = EmptyTable
    /\ curPos' = 0
    /\ resets' = resets \cup {sent}
    /\ UNCHANGED <<input, sent, wire, win, decVars, decCall, pc, encCall>>

-----------------------------------------------------------------------------
(***************************************************************************)
(* elh_stream_decompress.  The chunk stays on the wire until a call has    *)
(* returned its bytes, so the caller may try again after a failure.        *)
(***************************************************************************)
Chunk == Head(wire)
Tok == Chunk.toks[ti]
Offset == IF params.wide /\ Tok.off16 = Ring - 1 THEN Tok.off32 ELSE Tok.off16

DecBegin(c) ==
    /\ pc = "idle"
    /\ wire # <<>>
    /\ cap' = c /\ ti' = 1 /\ dout' = <<>> /\ ci' = 0 /\ dret' = 0
    /\ pc' = "lits"
    /\ UNCHANGED <<input, link, encVars, decVars, encCall>>

\* FAULTY: a call short of room returns what it has.
FaultyFail ==
    /\ dret' = -1
    /\ pc' = "return"
    /\ UNCHANGED <<cap, ti, dout, ci>>

Fail ==
    /\ dret' = -1
    /\ pc' = "idle"
    /\ UNCHANGED <<cap, ti, dout, ci>>

\* FAULTY: a buffer that would just be filled is refused.
FaultyExceeds(n) == Len(dout) + n >= cap

\* n more bytes do not fit: op + n > oend.
Exceeds(n) == Len(dout) + n > cap

\* Token and literals; the last token has no match.
DecLits ==
    /\ pc = "lits"
    /\ IF Exceeds(Len(Tok.lits)) THEN Fail
       ELSE /\ dout' = dout \o Tok.lits
            /\ pc' = IF ti = Len(Chunk.toks) THEN "return" ELSE "match"
            /\ UNCHANGED <<cap, ti, ci, dret>>
    /\ UNCHANGED <<input, link, encVars, decVars, encCall>>

\* Offset and match length.
DecMatch ==
    /\ pc = "match"
    /\ IF Tok.off16 = 0 \/ Exceeds(Tok.ml) THEN Fail
       ELSE /\ pc' = "copy"
            /\ ci' = 0
            /\ UNCHANGED <<cap, ti, dout, dret>>
    /\ UNCHANGED <<input, link, encVars, decVars, encCall>>

\* op0[x]
OutByte(x) == IF x < Len(dout) THEN dout[x + 1] ELSE Junk

\* FAULTY: a match that starts in the ring is read from the ring to its end.
FaultyCopyByte ==
    LET curOut == Len(dout) - ci
        absPos == (histPos + curOut - Offset + ci) % PosMod
    IN  IF Offset <= curOut THEN OutByte(Len(dout) - Offset) ELSE hist[absPos % Ring]

\* The byte the copy loop reads for op[ci]: from the output of this call when
\* the match starts there, else through the absolute position.
CopyByte ==
    LET curOut == Len(dout) - ci
        absPos == (histPos + curOut - Offset + ci) % PosMod
    IN  IF Offset <= curOut THEN OutByte(Len(dout) - Offset)
        ELSE IF absPos >= histPos THEN OutByte(absPos - histPos)
        ELSE hist[absPos % Ring]

DecCopy ==
    /\ pc = "copy"
    /\ dout' = Append(dout, CopyByte)
    /\ IF ci + 1 < Tok.ml THEN ci' = ci + 1 /\ UNCHANGED <<ti, pc>>
                          ELSE ci' = 0 /\ ti' = ti + 1 /\ pc' = "lits"
    /\ UNCHANGED <<input, link, encVars, decVars, encCall, cap, dret>>

\* Only a call that succeeds touches the stream's state.
DecReturn ==
    /\ pc = "return"
    /\ hist' = RingWrite(hist, histPos, dout)
    /\ histPos' = (histPos + Len(dout)) % PosMod
    /\ recvd' = recvd \o dout
    /\ wire' = Tail(wire)
    /\ dret' = Len(dout)
    /\ pc' = "idle"
    /\ cap' = 0 /\ ti' = 0 /\ dout' = <<>>
    /\ UNCHANGED <<input, sent, resets, encVars, encCall, ci>>

\* elh_stream_reset on the decoder's stream, at a place on the tape where the
\* encoder was reset; the caller may as well leave it out.
ResetDec ==
    /\ pc = "idle"
    /\ histPos # 0
    /\ Len(recvd) \in resets
    /\ histPos' = 0
    /\ UNCHANGED <<input, link, encVars, hist, recvd, pc, encCall, decCall>>

-----------------------------------------------------------------------------
EncStep == EncHit \/ EncMiss \/ EncSearchEnd \/ EncEmit \/ EncHash
           \/ EncHashDone \/ EncLast
DecStep == DecLits \/ DecMatch \/ DecCopy \/ DecReturn

Next ==
    \/ \E n \in ChunkLens : EncBegin(n)
    \/ EncStep
    \/ ResetEnc
    \/ \E c \in DecCaps : DecBegin(c)
    \/ DecStep
    \/ ResetDec

Spec == Init /\ [][Next]_vars

\* A call that was started runs to its end.  Nothing makes the caller read,
\* so delivery is claimed only for a receiver that keeps trying and does not
\* for ever offer a buffer that is too small.
MaxCap == Max(DecCaps)
FairSpec == Spec /\ WF_vars(EncStep \/ DecStep) /\ SF_vars(DecBegin(MaxCap))

-----------------------------------------------------------------------------
(***************************************************************************)
(* Properties.                                                             *)
(***************************************************************************)
TokenType == [lits : Seq(Byte \cup {Junk}), off16 : 0 .. Ring - 1, off32 : Pos,
              ml : Nat, at : Nat]
ChunkType == [toks : Seq(TokenType), raw : Nat, start : Nat, epoch : Nat]

\* Every variable has the type its C counterpart gives it.
TypeOK ==
    /\ tape \in Tapes /\ params \in Params
    /\ sent \in 0 .. N /\ wire \in Seq(ChunkType)
    /\ resets \subseteq 0 .. N /\ 0 \in resets
    /\ ht \in HashTable /\ curPos \in Pos
    /\ win \in [0 .. Ring - 1 -> Byte]
    /\ hist \in [0 .. Ring - 1 -> Byte \cup {Junk}] /\ histPos \in Pos
    /\ recvd \in Seq(Byte \cup {Junk})
    /\ pc \in {"idle", "search", "found", "hash", "last",
               "lits", "match", "copy", "return"}
    /\ len \in Nat /\ ip \in Nat /\ anchor \in Nat /\ skips \in Nat
    /\ ad \in Adaptation /\ mpos \in Pos /\ hp \in Nat
    /\ toks \in Seq(TokenType)
    /\ cap \in Nat /\ ti \in Nat /\ dout \in Seq(Byte \cup {Junk}) /\ ci \in Nat
    /\ dret \in Int

\* What the decoder has returned is what the encoder was given (README: "fast
\* lossless compression"; the roundtrip of tests/test_streaming.c), whatever
\* the parameters, the sizes of the calls and the resets.
Lossless ==
    /\ Len(recvd) <= sent
    /\ \A i \in 1 .. Len(recvd) : recvd[i] = tape[i - 1]

\* The stream position 0 of the encoder, and of the decoder, on the tape,
\* while the counters have not wrapped.
EncBase == sent - curPos
DecBase == Len(recvd) - histPos

\* A match never reaches back further than the offset field can say, the
\* rings keep, the caller's window or the last reset of the encoder allows.
OffsetsInHistory ==
    \A c \in Range(wire) : \A t \in Range(c.toks) :
        t.ml > 0 => /\ t.off32 \in 1 .. DistMax
                    /\ t.off32 <= t.at + Len(t.lits) - c.epoch
                    /\ WLim # 0 => t.off32 <= WLim

\* A call to the decoder fails only when the buffer it was given is smaller
\* than the chunk: no other -1 of elh_stream_decompress can be reached, and a
\* chunk that failed for want of room decodes on a later call.
FailsOnlyForRoom == dret = -1 => wire # <<>> /\ cap < Head(wire).raw

\* The rule of the LZ4 block format for its end: the last literals of a chunk
\* with a match are at least LastLiterals, and the last match starts MFLimit
\* bytes before the end or earlier.
EndOfBlock ==
    \A c \in Range(wire) :
        LET n == Len(c.toks)
        IN  n > 1 => /\ Len(c.toks[n].lits) >= LastLiterals
                     /\ Len(c.toks[n].lits) + c.toks[n - 1].ml >= MFLimit

\* Between calls the table holds only positions of bytes the ring still has
\* or has forgotten, never of a byte to come: a stale slot, whatever depth
\* left it there, is at worst too old.
TableBehind == pc = "idle" => \A p \in Entries(ht) : p < curPos

\* The encoder's ring holds the last bytes since the reset at their places.
WindowCurrent ==
    \A P \in 0 .. curPos - 1 :
        P >= curPos - Ring => win[P % Ring] = tape[EncBase + P]

\* The codec implements the abstract stream: a call to the decoder that
\* returns hands over exactly the bytes of the oldest chunk.
Abstract == INSTANCE LosslessStream WITH
    written <- TapeSeg(0, sent),
    pending <- [i \in 1 .. Len(wire) |-> wire[i].raw],
    out     <- recvd
AbstractSpec == Abstract!Spec

\* Every call returns: no loop of the codec can run for ever.
CallsReturn == pc # "idle" ~> pc = "idle"

\* Under a persistent receiver every byte that was encoded is delivered.
Delivery == \A n \in 1 .. N : sent = n ~> Len(recvd) >= n
=============================================================================
