----------------------------- MODULE ElhBlockInv -----------------------------
(***************************************************************************)
(* The inductive invariant of the block codec: what its pointers, its      *)
(* table, its tokens and the decoder's output have to do with the input.   *)
(***************************************************************************)
EXTENDS ElhBlock

\* The place of the match of a token, and of the token after it.
MatchAt(t) == t.at + Len(t.lits)
TokEnd(t) == MatchAt(t) + t.ml

\* Literals are copied from the input; a match repeats bytes a legal offset
\* before it and keeps the rule for the end of a block.
GoodToken(t) ==
    /\ TokEnd(t) <= SrcSize
    /\ \A i \in 1 .. Len(t.lits) : t.lits[i] = src[t.at + i]
    /\ t.ml > 0 =>
        /\ t.off \in 1 .. MatchAt(t)
        /\ WLim # 0 => t.off <= WLim
        /\ MatchAt(t) <= MFL /\ TokEnd(t) <= ML
        /\ \A i \in MatchAt(t) + 1 .. TokEnd(t) : src[i] = src[i - t.off]

\* Tokens that follow one another from the start of the input on.
GoodTokens(ts) ==
    /\ ts # <<>> => ts[1].at = 0
    /\ \A i \in 1 .. Len(ts) : GoodToken(ts[i])
    /\ \A i \in 1 .. Len(ts) - 1 : ts[i].ml > 0 /\ ts[i + 1].at = TokEnd(ts[i])

\* While the encoder runs the tokens lead up to anchor; a complete block ends
\* with literals, at the end of the input.
Complete == {"encoded", "done", "failed"} \cup DecPc

TokensInv ==
    /\ GoodTokens(toks)
    /\ pc \in {"start", "nomem"} => toks = <<>> /\ anchor = 0
    /\ pc \in EncPc =>
        /\ toks = <<>> => anchor = 0
        /\ toks # <<>> => toks[Len(toks)].ml > 0 /\ TokEnd(toks[Len(toks)]) = anchor
    /\ pc \in Complete =>
        /\ toks = <<>> => SrcSize = 0
        /\ toks # <<>> => toks[Len(toks)].ml = 0 /\ TokEnd(toks[Len(toks)]) = SrcSize

\* No entry of the table is ahead of the search; a candidate that was found
\* repeats in the input.
EncInv ==
    /\ pc \in EncPc => anchor <= SrcSize
    /\ pc \in {"start", "search"} => ip >= anchor
    /\ pc = "start" => Entries(ht) = {}
    /\ pc \in {"search", "hash"} => \A p \in Entries(ht) : p < ip
    /\ pc = "hash" => ip = anchor
    /\ pc = "found" =>
        /\ anchor <= ip /\ ip <= MFL
        /\ mpos \in 1 .. ip - 1 /\ ip - mpos <= DistMax
        /\ WLim # 0 => ip - mpos <= WLim
        /\ SameSeq(ip, mpos)
        /\ \A p \in Entries(ht) : p <= ip

\* The decoder has written the input up to where its token says.
DecInv ==
    /\ pc \notin {"done", "failed"} \cup DecPc => dout = <<>>
    /\ Len(dout) <= SrcSize
    /\ \A i \in 1 .. Len(dout) : dout[i] = src[i]
    /\ pc \in DecPc => ti \in 1 .. Len(toks)
    /\ pc \in {"match", "copy"} => ti < Len(toks)
    /\ pc = "lits" => Len(dout) = Tok.at
    /\ pc = "match" => Len(dout) = MatchAt(Tok)
    /\ pc = "copy" => ci < Tok.ml /\ Len(dout) = MatchAt(Tok) + ci
    /\ pc = "done" => Len(dout) = SrcSize
    /\ FailsOnlyForRoom

Inv == TokensInv /\ EncInv /\ DecInv

\* The decoder's output stays within its buffer, with what is left of a match.
RoomInv ==
    /\ pc \in {"lits", "match", "done"} => Len(dout) <= cap
    /\ pc = "copy" => Len(dout) + (Tok.ml - ci) <= cap

-----------------------------------------------------------------------------
(***************************************************************************)
(* A bound on the steps the two calls still take, in terms of the size of  *)
(* the input: the bytes behind anchor, for each of them a search and the   *)
(* hashing of a match, and three steps for each byte the decoder has still *)
(* to write.                                                               *)
(***************************************************************************)
Rest(x) == IF x <= SrcSize THEN SrcSize + 1 - x ELSE 0

Lap == 2 * SrcSize + 5

LapLeft ==
    CASE pc = "search" -> Rest(ip) + 1
      [] pc = "found" -> Rest(ip)
      [] pc = "hash" -> SrcSize + 3 + Rest(hp)
      [] pc = "last" -> 0

StepsLeft ==
    CASE pc = "start" -> 3 * SrcSize + 4 + (SrcSize + 1) * Lap
      [] pc \in EncPc -> 3 * SrcSize + 4 + (SrcSize - anchor) * Lap + LapLeft
      [] pc = "encoded" -> 3 * SrcSize + 3
      [] pc = "lits" -> 3 * (SrcSize - Len(dout)) + 2
      [] pc = "match" -> 3 * (SrcSize - Len(dout)) + 1
      [] pc = "copy" -> 3 * (SrcSize - Len(dout))
      [] pc \in {"done", "failed", "nomem"} -> 0

\* Every step of either call brings it nearer to its return: no loop of elh_compress
\* or elh_decompress runs for ever (elh.c:206-289, 587-608), and the work is
\* bounded by the square of the size of the input.
Progress == [][StepsLeft' < StepsLeft /\ StepsLeft' \in Nat]_vars
=============================================================================
