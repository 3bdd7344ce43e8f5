---------------------------- MODULE ElhStreamInv ----------------------------
(***************************************************************************)
(* The inductive invariants behind the properties of ElhStream.  They live *)
(* in a module of their own so that TLC can check them before and beside   *)
(* the proofs of ElhStreamProofs.                                          *)
(*                                                                         *)
(* Shape is what type correctness rests on, and holds whatever the         *)
(* counters do.  Inv says what each side's memory has to do with the tape, *)
(* and needs the counters not to wrap.                                     *)
(***************************************************************************)
EXTENDS ElhStream

EncPc == {"search", "found", "hash", "last"}
DecPc == {"lits", "match", "copy", "return"}

Shape ==
    /\ pc \in EncPc => /\ len > 0 /\ sent + len <= N /\ anchor <= len
    /\ pc \notin EncPc => len = 0
    /\ pc \in {"search", "found"} => anchor <= ip
    /\ pc = "found" => ip <= MFL
    /\ pc = "hash" => ip = anchor
    /\ pc \in DecPc => wire # <<>> /\ ti \in 1 .. Len(Chunk.toks)
    /\ pc \in {"match", "copy"} => ti < Len(Chunk.toks)
    /\ \A i \in 1 .. Len(wire) : wire[i].toks # <<>>

-----------------------------------------------------------------------------
\* The counters are cumulative byte counts since a reset, and no reset of the
\* encoder is later than its last.
Counters ==
    /\ curPos <= sent /\ EncBase \in resets
    /\ \A r \in resets : r <= EncBase
    /\ histPos <= Len(recvd) /\ DecBase \in resets

\* The chunks on the wire cover the tape from what was received to what was
\* sent, without gap or overlap.
Chain ==
    /\ wire = <<>> => Len(recvd) = sent
    /\ wire # <<>> => /\ wire[1].start = Len(recvd)
                      /\ wire[Len(wire)].start + wire[Len(wire)].raw = sent
    /\ \A i \in 1 .. Len(wire) - 1 : wire[i].start + wire[i].raw = wire[i + 1].start
    /\ \A i \in 1 .. Len(wire) : wire[i].start + wire[i].raw <= sent
    /\ \A i, j \in 1 .. Len(wire) :
          i < j => wire[i].start + wire[i].raw <= wire[j].start

TokEnd(t) == t.at + Len(t.lits) + t.ml

\* Literals are copied from the tape; a match stays between lo, the encoder's
\* last reset, and hi, and repeats bytes a legal offset before it.
GoodToken(t, lo, hi) ==
    /\ lo <= t.at
    /\ TokEnd(t) <= hi
    /\ \A j \in 1 .. Len(t.lits) : t.lits[j] = tape[t.at + j - 1]
    /\ t.ml > 0 =>
        /\ t.off16 = t.off32
        /\ t.off32 \in 1 .. DistMax
        /\ t.off32 <= t.at + Len(t.lits) - lo
        /\ \A j \in 0 .. t.ml - 1 :
              tape[t.at + Len(t.lits) + j] = tape[t.at + Len(t.lits) + j - t.off32]

\* Tokens that follow one another from start on.
GoodTokens(ts, start, lo, hi) ==
    /\ ts # <<>> => ts[1].at = start
    /\ \A i \in 1 .. Len(ts) : GoodToken(ts[i], lo, hi)
    /\ \A i \in 1 .. Len(ts) - 1 : ts[i].ml > 0 /\ ts[i + 1].at = TokEnd(ts[i])

GoodChunk(c) ==
    /\ c.raw > 0
    /\ c.start + c.raw <= N
    /\ c.toks # <<>>
    /\ GoodTokens(c.toks, c.start, c.epoch, c.start + c.raw)
    /\ c.toks[Len(c.toks)].ml = 0
    /\ TokEnd(c.toks[Len(c.toks)]) = c.start + c.raw
    /\ \A r \in resets : r <= c.start => r <= c.epoch

GoodWire == \A i \in 1 .. Len(wire) : GoodChunk(wire[i])

\* No entry of the table is ahead of the search: stream positions the encoder
\* has inserted and passed.
TableInv ==
    /\ \A p \in Entries(ht) : p < curPos + len
    /\ pc \in {"search", "hash"} => \A p \in Entries(ht) : p < curPos + ip
    /\ pc = "found" => \A p \in Entries(ht) : p <= curPos + ip

\* The running encoder call: a candidate that was found repeats on the tape,
\* and the tokens so far lead up to anchor.
FoundInv ==
    pc = "found" =>
        /\ mpos > 0 /\ mpos < curPos + ip
        /\ curPos + ip - mpos <= DistMax
        /\ \A j \in 0 .. MinMatch - 1 :
              tape[sent + ip + j] = tape[EncBase + mpos + j]

CallInv ==
    pc \in EncPc =>
        /\ GoodTokens(toks, sent, EncBase, sent + len)
        /\ toks = <<>> => anchor = 0
        /\ toks # <<>> => /\ toks[Len(toks)].ml > 0
                          /\ TokEnd(toks[Len(toks)]) = sent + anchor

\* The decoder's ring, and its output so far.
HistoryCurrent ==
    \A P \in 0 .. histPos - 1 :
        P >= histPos - Ring => hist[P % Ring] = tape[DecBase + P]

OutputInv ==
    pc \in DecPc =>
        /\ \A j \in 1 .. Len(dout) : dout[j] = tape[Len(recvd) + j - 1]
        /\ Len(recvd) + Len(dout) <= sent
        /\ pc = "lits"  => Len(recvd) + Len(dout) = Tok.at
        /\ pc = "match" => Len(recvd) + Len(dout) = Tok.at + Len(Tok.lits)
        /\ pc = "copy"  => /\ ci < Tok.ml
                           /\ Len(recvd) + Len(dout) = Tok.at + Len(Tok.lits) + ci
        /\ pc = "return" => Len(dout) = Chunk.raw

\* The two sides and what they share.
LinkInv == Counters /\ Chain /\ GoodWire
EncInv == TableInv /\ WindowCurrent /\ FoundInv /\ CallInv
DecInv == HistoryCurrent /\ OutputInv /\ FailsOnlyForRoom /\ Lossless

Inv == LinkInv /\ EncInv /\ DecInv
-----------------------------------------------------------------------------
(***************************************************************************)
(* What bounds a call, whatever the counters do.                           *)
(***************************************************************************)
\* Every token but the last of a chunk has a match.
MatchesInv ==
    /\ \A i \in 1 .. Len(toks) : toks[i].ml > 0
    /\ \A w \in 1 .. Len(wire) :
          \A i \in 1 .. Len(wire[w].toks) - 1 : wire[w].toks[i].ml > 0

\* The decoder's output stays within its buffer, with what is left of a match:
\* the copy loops (elh.c:667-689) do not look at oend any more.
RoomInv ==
    /\ Len(dout) <= cap
    /\ pc = "copy" => ci < Tok.ml /\ Len(dout) + (Tok.ml - ci) <= cap

\* A bound on the steps a call still takes: the bytes behind anchor, for each
\* of them a search and the hashing of a match; the tokens not yet decoded and
\* the room left in the buffer.
Rest(x) == IF x <= len THEN len + 1 - x ELSE 0

Lap == 2 * len + 6

LapLeft ==
    CASE pc = "search" -> Rest(ip) + 2
      [] pc = "found" -> Rest(ip) + 1
      [] pc = "hash" -> len + 4 + Rest(hp)
      [] pc = "last" -> 1

TokensLeft == 3 * (Len(Chunk.toks) - ti) + (cap - Len(dout))

CallLeft ==
    CASE pc \in EncPc -> (len - anchor) * Lap + LapLeft
      [] pc = "lits" -> TokensLeft + 3
      [] pc = "match" -> TokensLeft + 2
      [] pc = "copy" -> TokensLeft + 1
      [] pc = "return" -> 1
      [] pc = "idle" -> 0

\* Every step of a call brings its return nearer: no loop of
\* elh_stream_compress or elh_stream_decompress runs for ever, whatever the
\* counters, and the work of a call is bounded by the square of its chunk and
\* by the tokens and the room it was given.
CallProgress ==
    [][CallLeft' \in Nat /\ (pc # "idle" => CallLeft' < CallLeft)]_vars
=============================================================================
