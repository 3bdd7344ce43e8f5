------------------------------ MODULE ElhBlock -------------------------------
(***************************************************************************)
(* The block codec of src/src/elh.c: elh_compress and elh_decompress on    *)
(* one buffer.                                                             *)
(*                                                                         *)
(* It differs from the streaming codec in what it can see and in what it   *)
(* counts: positions are offsets into the buffer, so matches may reach any *)
(* earlier byte of it and backward extension stops at its start; a probe   *)
(* is counted before its result is looked at; evictions caused by the      *)
(* inside of a match are counted too; and elh_get has a second             *)
(* implementation, with AVX2, for the largest bucket depth.                *)
(*                                                                         *)
(* Tokens are records.  The output pointer is left to ElhBound.            *)
(***************************************************************************)
EXTENDS ElhTable, Sequences, FiniteSetsExt

CONSTANTS
    Byte,           \* the values of a byte
    Srcs,           \* the inputs considered
    MinMatch,       \* ELH_MINMATCH
    LastLiterals,   \* ELH_LASTLITERALS
    MFLimit,        \* ELH_MFLIMIT
    Params,         \* the elh_params_t considered, skipDiv for acceleration
    DecCaps         \* dstCapacity of the decoder's call

\* srcSize is an int, a position a U32.
ASSUME BlockAssumption ==
    /\ Srcs \subseteq Seq(Byte)
    /\ \A s \in Srcs : Len(s) < PosMod \div 2
    /\ MinMatch \in Nat \ {0}
    /\ LastLiterals \in Nat \ {0}
    /\ MFLimit \in Nat
    /\ MFLimit >= MinMatch + LastLiterals
    /\ Params \subseteq [bucketK : Int, overflow : BOOLEAN, skipDiv : Nat \ {0},
                         window : Int]
    /\ DecCaps \subseteq Nat

ASSUME BlockHashAssumption ==
    \A s \in [0 .. MinMatch - 1 -> Byte] : Hash1(s) \in Bucket1 /\ Hash2(s) \in Bucket2

VARIABLES
    src, params,            \* the arguments of elh_compress
    pc,                     \* where the calls are
    ht,                     \* the hash table of the call
    ip, anchor, skips,      \* pointers into src, probes since the last match
    ad,                     \* k, adapt_count, evict_count, do_adapt
    mpos, hp,               \* mptr - base, and the pointer inside a match
    toks,                   \* the compressed block
    cap, ti, dout, ci,      \* the decoder's call: capacity, token, output
    locked                  \* history: a window of inserts evicted nothing

encCall == <<ht, ip, anchor, skips, ad, mpos, hp, toks, locked>>
decCall == <<cap, ti, dout, ci>>
vars == <<src, params, pc, encCall, decCall>>

-----------------------------------------------------------------------------
SrcSize == Len(src)
MFL == SrcSize - MFLimit            \* mflimit - base
ML  == SrcSize - LastLiterals       \* mlimit - base

WLim == IF params.window <= 0 \/ params.window > DistMax THEN 0 ELSE params.window

\* base[x]
SrcByte(x) == src[x + 1]

\* elh_read32(base + x)
Read32(x) == [j \in 0 .. MinMatch - 1 |-> SrcByte(x + j)]

SameSeq(x, p) == \A j \in 0 .. MinMatch - 1 : SrcByte(p + j) = SrcByte(x + j)

\* FAULTY: the match runs to the end of the buffer.
FaultyMatchLen(x, p) ==
    Max({m \in MinMatch .. SrcSize :
            \A j \in MinMatch .. m - 1 :
                x + j < SrcSize /\ SrcByte(x + j) = SrcByte(p + j)})

\* The length of the match at x with position p, MinMatch bytes of which are
\* known to agree: never into the last literals.
MatchLen(x, p) ==
    Max({m \in MinMatch .. SrcSize :
            \A j \in MinMatch .. m - 1 :
                x + j < ML /\ SrcByte(x + j) = SrcByte(p + j)})

\* FAULTY: the backward extension does not stop at the last match.
FaultyBackLen(x, p) ==
    Max({b \in 0 .. x : b <= p /\ \A j \in 1 .. b : SrcByte(x - j) = SrcByte(p - j)})

\* How far a match at x with position p extends backward.
BackLen(x, p) ==
    Max({b \in 0 .. x - anchor :
            b <= p /\ \A j \in 1 .. b : SrcByte(x - j) = SrcByte(p - j)})

\* The candidate the search finds at ip, 0 for none.
Alike == {p \in Entries(ht) : SameSeq(ip, p)}

Candidate ==
    ElhGet(ht, Read32(ip), ip, ad.k, params.overflow, WLim,
           Alike, [p \in Alike |-> MatchLen(ip, p)])

-----------------------------------------------------------------------------
(***************************************************************************)
(* The AVX2 variant of elh_get tests the four slots of a bucket at once,   *)
(* with comparisons of signed lanes.                                       *)
(***************************************************************************)
Signed(x) == IF x < PosMod \div 2 THEN x ELSE x - PosMod

\* FAULTY: the distance itself is compared, not the distance less one.
FaultySimdNear(cur, p, window) ==
    /\ Signed(p) > 0
    /\ Signed(Dist(cur, p)) < DistMax
    /\ window # 0 => Signed(Dist(cur, p)) < window

SimdNear(cur, p, window) ==
    /\ Signed(p) > 0
    /\ Signed(Dist(cur, p + 1)) < DistMax
    /\ window # 0 => Signed(Dist(cur, p + 1)) < window

-----------------------------------------------------------------------------
Init ==
    /\ src \in Srcs
    /\ params \in Params
    /\ pc = "start"
    /\ ht = EmptyTable
    /\ ip = 0 /\ anchor = 0 /\ skips = 0 /\ mpos = 0 /\ hp = 0
    /\ ad = [k |-> InitialDepth(params.bucketK), count |-> 0, evict |-> 0,
             on |-> params.bucketK = 0]
    /\ toks = <<>> /\ locked = FALSE
    /\ cap = 0 /\ ti = 0 /\ dout = <<>> /\ ci = 0

\* An empty input gives an empty block; a short one only literals.
EncBegin ==
    /\ pc = "start"
    /\ pc' = IF SrcSize = 0 THEN "encoded"
             ELSE IF SrcSize < MinMatch + 1 THEN "last" ELSE "search"
    /\ ip' = IF pc' = "search" THEN 1 ELSE 0
    /\ UNCHANGED <<src, params, decCall, ht, anchor, skips, ad, mpos, hp, toks, locked>>

\* The calloc of the table fails: -1.
EncNoMemory ==
    /\ pc = "start" /\ SrcSize > 0
    /\ pc' = "nomem"
    /\ UNCHANGED <<src, params, encCall, decCall>>

\* One probe: look ip up, insert it, count.
Counted == CountEvictions(ad, Evictions(ht, Read32(ip), ad.k))
WindowEnds == ad.on /\ ad.count + 1 >= AdaptWindow

Probe ==
    /\ pc = "search"
    /\ ip <= MFL
    /\ ht' = ElhPut(ht, Read32(ip), ip, ad.k)
    /\ ad' = CountProbe(Counted)
    /\ locked' = (locked \/ (WindowEnds /\ Counted.evict = 0))
    /\ UNCHANGED <<src, params, decCall, anchor, hp, toks>>

EncHit ==
    /\ Probe
    /\ Candidate # 0
    /\ mpos' = Candidate
    /\ pc' = "found"
    /\ UNCHANGED <<ip, skips>>

EncMiss ==
    /\ Probe
    /\ Candidate = 0
    /\ skips' = skips + 1
    /\ ip' = ip + 1 + skips' \div params.skipDiv
    /\ UNCHANGED <<pc, mpos>>

EncSearchEnd ==
    /\ pc = "search"
    /\ ip > MFL
    /\ pc' = "last"
    /\ UNCHANGED <<src, params, encCall, decCall>>

\* The bytes of the input from x to y.
Seg(x, y) == SubSeq(src, x + 1, y)

\* _found: extend backward, measure, emit.  at (history) is where the
\* literals of the token start.
MatchToken(x, p, ml) ==
    [lits |-> Seg(anchor, x), off |-> (x - p) % (DistMax + 1), ml |-> ml, at |-> anchor]

EncEmit ==
    /\ pc = "found"
    /\ LET back == BackLen(ip, mpos)
           ml   == MatchLen(ip - back, mpos - back)
       IN  /\ toks' = Append(toks, MatchToken(ip - back, mpos - back, ml))
           /\ ip' = ip - back + ml
           /\ anchor' = ip - back + ml
           /\ hp' = ip - back + 2
           /\ mpos' = mpos - back
    /\ pc' = "hash"
    /\ UNCHANGED <<src, params, decCall, ht, skips, ad, locked>>

\* FAULTY: the loop over the positions inside a match does not advance.
FaultyEncHash ==
    /\ pc = "hash" /\ hp < ip - 1 /\ hp <= MFL
    /\ ht' = ElhPut(ht, Read32(hp), hp, ad.k)
    /\ UNCHANGED <<src, params, pc, decCall, ip, anchor, skips, ad, mpos, hp, toks, locked>>

\* Insert the positions inside the match; their evictions count.
EncHash ==
    /\ pc = "hash"
    /\ hp < ip - 1 /\ hp <= MFL
    /\ ht' = ElhPut(ht, Read32(hp), hp, ad.k)
    /\ ad' = CountEvictions(ad, Evictions(ht, Read32(hp), ad.k))
    /\ hp' = hp + 1
    /\ UNCHANGED <<src, params, pc, decCall, ip, anchor, skips, mpos, toks, locked>>

EncHashDone ==
    /\ pc = "hash"
    /\ ~ (hp < ip - 1 /\ hp <= MFL)
    /\ pc' = IF ip > MFL THEN "last" ELSE "search"
    /\ skips' = 0
    /\ UNCHANGED <<src, params, decCall, ht, ip, anchor, ad, mpos, hp, toks, locked>>

\* _last_lits: the remaining literals; the table is freed.
EncLast ==
    /\ pc = "last"
    /\ toks' = Append(toks, [lits |-> Seg(anchor, SrcSize), off |-> 0, ml |-> 0,
                             at |-> anchor])
    /\ ht' = EmptyTable
    /\ pc' = "encoded"
    /\ UNCHANGED <<src, params, decCall, ip, anchor, skips, ad, mpos, hp, locked>>

-----------------------------------------------------------------------------
(***************************************************************************)
(* elh_decompress.                                                         *)
(***************************************************************************)
Tok == toks[ti]

DecBegin(c) ==
    /\ pc = "encoded"
    /\ cap' = c /\ ti' = 1
    /\ pc' = IF toks = <<>> THEN "done" ELSE "lits"
    /\ UNCHANGED <<src, params, encCall, dout, ci>>

\* FAULTY: one byte of room is room for all.
FaultyExceeds(m) == Len(dout) >= cap

\* m more bytes do not fit: op + m > oend.
Exceeds(m) == Len(dout) + m > cap

DecLits ==
    /\ pc = "lits"
    /\ IF Exceeds(Len(Tok.lits)) THEN pc' = "failed" /\ UNCHANGED dout
       ELSE /\ dout' = dout \o Tok.lits
            /\ pc' = IF ti = Len(toks) THEN "done" ELSE "match"
    /\ UNCHANGED <<src, params, encCall, cap, ti, ci>>

DecMatch ==
    /\ pc = "match"
    /\ ci' = 0
    /\ pc' = IF Tok.off = 0 \/ Tok.off > Len(dout) \/ Exceeds(Tok.ml)
             THEN "failed" ELSE "copy"
    /\ UNCHANGED <<src, params, encCall, cap, ti, dout>>

\* op[i] = match[i]: a match may overlap the bytes it produces.
DecCopy ==
    /\ pc = "copy"
    /\ dout' = Append(dout, dout[Len(dout) - Tok.off + 1])
    /\ IF ci + 1 < Tok.ml THEN ci' = ci + 1 /\ UNCHANGED <<ti, pc>>
                          ELSE ci' = 0 /\ ti' = ti + 1 /\ pc' = "lits"
    /\ UNCHANGED <<src, params, encCall, cap>>

-----------------------------------------------------------------------------
Next ==
    \/ EncBegin \/ EncNoMemory
    \/ EncHit \/ EncMiss \/ EncSearchEnd \/ EncEmit \/ EncHash \/ EncHashDone \/ EncLast
    \/ \E c \in DecCaps : DecBegin(c)
    \/ DecLits \/ DecMatch \/ DecCopy

Spec == Init /\ [][Next]_vars

\* A call that was made runs.
FairSpec == Spec /\ WF_vars(Next)

-----------------------------------------------------------------------------
(***************************************************************************)
(* Properties.                                                             *)
(***************************************************************************)
TokenType == [lits : Seq(Byte), off : 0 .. DistMax, ml : Nat, at : Nat]
EncPc == {"search", "found", "hash", "last"}
DecPc == {"lits", "match", "copy"}

TypeOK ==
    /\ src \in Srcs /\ params \in Params
    /\ pc \in {"start", "encoded", "nomem", "done", "failed"} \cup EncPc \cup DecPc
    /\ ht \in HashTable
    /\ ip \in Nat /\ anchor \in Nat /\ skips \in Nat /\ ad \in Adaptation
    /\ mpos \in Nat /\ hp \in Nat
    /\ toks \in Seq(TokenType)
    /\ cap \in Nat /\ ti \in Nat /\ dout \in Seq(Byte) /\ ci \in Nat
    /\ locked \in BOOLEAN

\* Decompression returns the input (README.md: "lossless").
Lossless == pc = "done" => dout = src

\* Decompression of a block of elh_compress fails only for want of room.
FailsOnlyForRoom == pc = "failed" => cap < SrcSize

\* The rule of the LZ4 block format for the end of a block, on which decoders
\* of that format that copy in words rely: the last literals of a block with a
\* match are at least LastLiterals, and the last match starts MFLimit bytes
\* before the end or earlier.
EndOfBlock ==
    pc = "encoded" =>
        LET m == Len(toks)
        IN  m > 1 => /\ Len(toks[m].lits) >= LastLiterals
                     /\ Len(toks[m].lits) + toks[m - 1].ml >= MFLimit

\* The AVX2 build of elh_get accepts the candidates the scalar one accepts, so
\* both builds write the same block.
SimdAgrees ==
    pc = "search" /\ ip <= MFL =>
        \A p \in Entries(ht) : SimdNear(ip, p, WLim) <=> Near(ip, p, WLim)

\* elh.c:219: "Lock k=1 and disable further adaptation."
StaysLocked == locked => ad.k = 1

\* Together the calls keep the contract of LosslessBlock, on which the frame
\* functions rely: in particular a buffer is enough just when the input fits,
\* and is never written beyond its end.
Contract == INSTANCE LosslessBlock WITH
    Inputs <- Srcs,
    given  <- src,
    state  <- IF pc \in {"start"} \cup EncPc THEN "given"
              ELSE IF pc \in {"encoded"} \cup DecPc THEN "block" ELSE pc,
    room   <- IF pc \in {"done", "failed"} THEN cap ELSE 0,
    got    <- IF pc = "done" THEN dout ELSE <<>>
ContractSpec == Contract!Spec

\* Both calls return.
Terminates == <>(pc \in {"done", "failed", "nomem"})
=============================================================================
