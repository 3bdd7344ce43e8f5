--------------------------- MODULE ElhBlockProofs ---------------------------
(***************************************************************************)
(* The block codec is type correct, lossless, keeps the rule for the end   *)
(* of a block and fails only for want of room, for every input, every      *)
(* parameter and every value of the constants; both builds of elh_get take *)
(* the same candidates; the codec keeps the contract of its callers, and   *)
(* every step brings the return of its call nearer.                        *)
(*                                                                         *)
(* The argument is that of ElhStreamProofs without the rings: a candidate  *)
(* repeats in the input, so every token says something true of it          *)
(* (GoodToken), the tokens follow one another to its end (TokensInv), and  *)
(* a decoder that starts a token at its place ends it at the place of the  *)
(* next (DecInv).                                                          *)
(***************************************************************************)
EXTENDS ElhBlockInv, ElhTableProofs, SequenceTheorems

LEMMA Sizes ==
    /\ MinMatch \in Nat \ {0} /\ LastLiterals \in Nat \ {0} /\ MFLimit \in Nat
    /\ MFLimit >= MinMatch + LastLiterals
    /\ PosMod \in Nat /\ PosMod > 0 /\ DistMax \in Nat /\ DistMax > 0 /\ DistMax < PosMod
  BY BlockAssumption, TableAssumption

Good == TypeOK /\ Inv

-----------------------------------------------------------------------------
(***************************************************************************)
(* What the encoder reads.                                                 *)
(***************************************************************************)
LEMMA SrcFacts ==
    ASSUME TypeOK
    PROVE  /\ src \in Seq(Byte) /\ SrcSize \in Nat /\ SrcSize < PosMod \div 2
           /\ SrcSize < PosMod /\ SrcSize = Len(src)
           /\ \A x \in 0 .. SrcSize - 1 : SrcByte(x) \in Byte
           /\ MFL = SrcSize - MFLimit /\ ML = SrcSize - LastLiterals
<1>1. src \in Seq(Byte) /\ Len(src) < PosMod \div 2
  BY BlockAssumption DEF TypeOK
<1>2. Len(src) \in Nat /\ PosMod \div 2 <= PosMod
  BY <1>1, Sizes
<1>3. \A x \in 0 .. Len(src) - 1 : src[x + 1] \in Byte
  BY <1>1, <1>2
<1> QED
  BY <1>1, <1>2, <1>3, Sizes DEF SrcSize, SrcByte, MFL, ML

LEMMA WLimType == TypeOK => WLim \in Nat /\ WLim <= DistMax
<1> SUFFICES ASSUME TypeOK PROVE WLim \in Nat /\ WLim <= DistMax
  OBVIOUS
<1>1. params.window \in Int
  BY BlockAssumption DEF TypeOK
<1> QED
  BY <1>1, Sizes DEF WLim

LEMMA Read32Type ==
    ASSUME TypeOK, NEW x \in Nat, x + MinMatch <= SrcSize
    PROVE  Hash1(Read32(x)) \in Bucket1 /\ Hash2(Read32(x)) \in Bucket2
<1>1. \A j \in 0 .. MinMatch - 1 : x + j \in 0 .. SrcSize - 1
  BY SrcFacts, Sizes
<1>2. \A j \in 0 .. MinMatch - 1 : SrcByte(x + j) \in Byte
  BY <1>1, SrcFacts
<1>3. Read32(x) \in [0 .. MinMatch - 1 -> Byte]
  BY <1>2 DEF Read32
<1> QED
  BY <1>3, BlockHashAssumption

LEMMA PosInRange ==
    ASSUME TypeOK, NEW x \in Nat, x <= SrcSize
    PROVE  x \in Pos /\ \A p \in Nat : p <= x => Dist(x, p) = x - p
<1>1. x \in Nat /\ x < PosMod
  BY SrcFacts, Sizes
<1>2. ASSUME NEW p \in Nat, p <= x PROVE Dist(x, p) = x - p
  <2>1. x - p \in Nat /\ x - p < PosMod
    BY <1>1, <1>2, Sizes
  <2>2. (x - p) % PosMod = x - p
    BY <2>1, Sizes
  <2> QED
    BY <2>2 DEF Dist
<1> QED
  BY <1>1, <1>2, Sizes DEF Pos

LEMMA EntriesNat ==
    ASSUME TypeOK
    PROVE  \A p \in Entries(ht) : p \in Nat /\ p > 0
<1>1. /\ \A b \in Bucket1, j \in Slot : ht.a1[b][j] \in Pos
      /\ \A b \in Bucket2 : ht.a2[b] \in Pos
  BY DEF TypeOK, HashTable
<1>2. \A p \in Entries(ht) : p \in Pos \ {0}
  BY <1>1 DEF Entries
<1> QED
  BY <1>2, Sizes DEF Pos

\* A measured match has at least MinMatch bytes, stays before the last
\* literals and repeats the bytes at p; it is maximal.
MatchSet(x, p) ==
    {m \in MinMatch .. SrcSize :
        \A j \in MinMatch .. m - 1 : x + j < ML /\ SrcByte(x + j) = SrcByte(p + j)}

LEMMA MatchLenSpec ==
    ASSUME TypeOK, NEW x, NEW p, MinMatch <= SrcSize
    PROVE  /\ MatchLen(x, p) \in MatchSet(x, p)
           /\ \A m \in MatchSet(x, p) : m <= MatchLen(x, p)
           /\ MatchLen(x, p) \in MinMatch .. SrcSize
<1> DEFINE T == MatchSet(x, p)
<1>1. MatchLen(x, p) = Max(T)
  BY DEF MatchLen, MatchSet
<1>2. SrcSize \in Nat
  BY SrcFacts
<1>3. MinMatch \in T
  BY <1>2, Sizes DEF MatchSet
<1>4. T \in SUBSET (0 .. SrcSize) /\ T \in SUBSET (MinMatch .. SrcSize)
  BY <1>2, Sizes DEF MatchSet
<1> HIDE DEF T
<1>5. Max(T) \in T /\ \A y \in T : y <= Max(T)
  BY <1>2, <1>3, <1>4, MaxBounded
<1> QED
  BY <1>1, <1>4, <1>5 DEF T

BackSet(x, p) ==
    {b \in 0 .. x - anchor :
        b <= p /\ \A j \in 1 .. b : SrcByte(x - j) = SrcByte(p - j)}

LEMMA BackLenSpec ==
    ASSUME TypeOK, NEW x \in Nat, anchor <= x, NEW p \in Nat
    PROVE  BackLen(x, p) \in BackSet(x, p) /\ BackLen(x, p) \in 0 .. x - anchor
<1> DEFINE T == BackSet(x, p)
<1>1. BackLen(x, p) = Max(T)
  BY DEF BackLen, BackSet
<1>2. anchor \in Nat /\ x - anchor \in Nat
  BY DEF TypeOK
<1>3. 0 \in T /\ T \in SUBSET (0 .. x - anchor)
  BY <1>2 DEF BackSet
<1> HIDE DEF T
<1>4. Max(T) \in T
  BY <1>2, <1>3, MaxBounded
<1> QED
  BY <1>1, <1>3, <1>4 DEF T

\* What a probe finds is behind it, near, and has the same first bytes.
LEMMA CandidateSpec ==
    ASSUME Good, pc = "search", ip <= MFL, Candidate # 0
    PROVE  /\ Candidate \in 1 .. ip - 1 /\ ip - Candidate <= DistMax
           /\ WLim # 0 => ip - Candidate <= WLim
           /\ SameSeq(ip, Candidate)
<1> USE DEF Good
<1> DEFINE length == [p \in Alike |-> MatchLen(ip, p)]
<1>1. /\ ht \in HashTable /\ ad.k \in Slot /\ ip \in Nat /\ SrcSize \in Nat
      /\ ip <= SrcSize /\ MinMatch <= SrcSize
  BY SrcFacts, Sizes DEF TypeOK, Adaptation
<1>2. Alike \in SUBSET Entries(ht)
  BY DEF Alike
<1>3. \A p \in Alike : MatchLen(ip, p) \in 0 .. SrcSize
  BY <1>1, MatchLenSpec, Sizes
<1>4. length \in [Alike -> 0 .. SrcSize]
  BY <1>3
<1>5. Candidate = ElhGet(ht, Read32(ip), ip, ad.k, params.overflow, WLim, Alike, length)
  BY DEF Candidate
<1> HIDE DEF length
<1>6. Candidate \in Alike /\ Near(ip, Candidate, WLim)
  BY <1>1, <1>2, <1>4, <1>5, GetIsUsable
<1>7. Candidate \in Nat /\ Candidate > 0 /\ Candidate < ip
  BY <1>6, EntriesNat DEF Alike, Inv, EncInv
<1>8. Dist(ip, Candidate) = ip - Candidate
  BY <1>1, <1>7, PosInRange
<1> QED
  BY <1>1, <1>6, <1>7, <1>8 DEF Alike, Near

LEMMA SegFacts ==
    ASSUME TypeOK, NEW x \in Nat, NEW y \in Nat, x <= y, y <= SrcSize
    PROVE  /\ Seg(x, y) \in Seq(Byte) /\ Len(Seg(x, y)) = y - x
           /\ \A i \in 1 .. y - x : Seg(x, y)[i] = src[x + i]
<1>1. src \in Seq(Byte) /\ x + 1 \in 1 .. Len(src) + 1 /\ y \in (x + 1) - 1 .. Len(src)
  BY SrcFacts
<1>2. /\ SubSeq(src, x + 1, y) \in Seq(Byte)
      /\ Len(SubSeq(src, x + 1, y)) = y - (x + 1) + 1
      /\ \A i \in 1 .. y - (x + 1) + 1 : SubSeq(src, x + 1, y)[i] = src[(x + 1) + i - 1]
  BY <1>1, SubSeqProperties
<1>3. /\ (y - (x + 1)) + 1 = y - x /\ y - (x + 1) + 1 = y - x
      /\ \A i \in 1 .. y - x : (x + 1) + i - 1 = x + i
  OBVIOUS
<1> QED
  BY <1>2, <1>3 DEF Seg

\* An insertion adds no entry but the position.
LEMMA InsertSpec ==
    ASSUME TypeOK, NEW x \in Nat, x <= MFL
    PROVE  /\ ElhPut(ht, Read32(x), x, ad.k) \in HashTable
           /\ Entries(ElhPut(ht, Read32(x), x, ad.k)) \subseteq Entries(ht) \cup {x}
<1>1. x + MinMatch <= SrcSize /\ x <= SrcSize
  BY SrcFacts, Sizes
<1>2. Hash1(Read32(x)) \in Bucket1 /\ Hash2(Read32(x)) \in Bucket2
  BY <1>1, Read32Type
<1>3. x \in Pos /\ ht \in HashTable /\ ad.k \in Slot
  BY <1>1, PosInRange DEF TypeOK, Adaptation
<1> QED
  BY <1>2, <1>3, PutType

-----------------------------------------------------------------------------
\* The token of a match: it starts at or after the last token's end, ends
\* beyond the position that was searched for, in front of the last literals,
\* and repeats the bytes an offset before it.
Back == BackLen(ip, mpos)
MatchIp == ip - Back
MatchPos == mpos - Back
MatchMl == MatchLen(MatchIp, MatchPos)

LEMMA EmitSpec ==
    ASSUME Good, pc = "found"
    PROVE  /\ MatchIp \in anchor .. MFL /\ MatchPos \in Nat /\ MatchMl \in Nat
           /\ MatchIp - MatchPos = ip - mpos
           /\ MatchMl > 0 /\ MatchIp + MatchMl > ip /\ MatchIp + MatchMl <= ML
           /\ \A j \in 0 .. MatchMl - 1 : SrcByte(MatchIp + j) = SrcByte(MatchPos + j)
<1> USE DEF Good
<1> DEFINE b == Back
           x == MatchIp
           p == MatchPos
           ml == MatchMl
<1>1. /\ ip \in Nat /\ mpos \in Nat /\ anchor \in Nat /\ anchor <= ip /\ ip <= MFL
      /\ mpos < ip /\ SameSeq(ip, mpos)
  BY DEF TypeOK, Inv, EncInv, EncPc
<1>2. b \in BackSet(ip, mpos) /\ b \in 0 .. ip - anchor
  BY <1>1, BackLenSpec DEF Back
<1>3. b \in Nat /\ b <= mpos /\ \A j \in 1 .. b : SrcByte(ip - j) = SrcByte(mpos - j)
  BY <1>1, <1>2 DEF BackSet
<1>4. x = ip - b /\ p = mpos - b
  BY DEF MatchIp, MatchPos
<1>5. /\ SrcSize \in Nat /\ MFL = SrcSize - MFLimit /\ ML = SrcSize - LastLiterals
      /\ MFL + MinMatch <= ML /\ MinMatch <= SrcSize /\ MFL <= SrcSize
  BY <1>1, SrcFacts, Sizes
<1>6. /\ ml \in MatchSet(x, p) /\ ml \in MinMatch .. SrcSize
      /\ \A m \in MatchSet(x, p) : m <= ml
  BY <1>5, MatchLenSpec DEF MatchMl
<1> HIDE DEF b, x, p, ml
<1>7. x \in Nat /\ p \in Nat /\ x >= anchor /\ x <= MFL /\ x - p = ip - mpos /\ ip = x + b
  BY <1>1, <1>2, <1>3, <1>4, <1>5, Sizes
<1>8. ASSUME NEW j \in 0 .. (b + MinMatch) - 1
      PROVE  SrcByte(x + j) = SrcByte(p + j)
  <2>1. CASE j < b
    <3>1. b - j \in 1 .. b /\ ip - (b - j) = x + j /\ mpos - (b - j) = p + j
      BY <1>1, <1>3, <1>4, <2>1, Sizes
    <3>2. SrcByte(ip - (b - j)) = SrcByte(mpos - (b - j))
      BY <1>3, <3>1
    <3> QED
      BY <3>1, <3>2
  <2>2. CASE j >= b
    <3>1. j - b \in 0 .. MinMatch - 1 /\ ip + (j - b) = x + j /\ mpos + (j - b) = p + j
      BY <1>1, <1>3, <1>4, <2>2, Sizes
    <3>2. SrcByte(mpos + (j - b)) = SrcByte(ip + (j - b))
      BY <1>1, <3>1 DEF SameSeq
    <3> QED
      BY <3>1, <3>2
  <2> QED
    BY <1>3, <2>1, <2>2, Sizes
<1>9. b + MinMatch \in MatchSet(x, p)
  <2>1. b + MinMatch \in MinMatch .. SrcSize
    BY <1>1, <1>3, <1>5, Sizes
  <2>2. ASSUME NEW j \in MinMatch .. (b + MinMatch) - 1
        PROVE  x + j < ML /\ SrcByte(x + j) = SrcByte(p + j)
    <3>1. j \in 0 .. (b + MinMatch) - 1 /\ x + j < ML
      BY <1>1, <1>3, <1>5, <1>7, Sizes
    <3> QED
      BY <1>8, <3>1
  <2> QED
    BY <2>1, <2>2 DEF MatchSet
<1>10. ml >= b + MinMatch /\ ml \in Nat
  <2>1. b + MinMatch <= ml
    BY <1>6, <1>9
  <2>2. ml \in Nat
    BY <1>6, Sizes
  <2> QED
    BY <1>3, <2>1, <2>2, Sizes
<1>11. ml > 0 /\ x + ml > ip
  BY <1>3, <1>7, <1>10, Sizes
<1>12. \A j \in MinMatch .. ml - 1 : x + j < ML /\ SrcByte(x + j) = SrcByte(p + j)
  BY <1>6 DEF MatchSet
<1>13. x + ml <= ML
  <2>1. CASE ml = MinMatch
    BY <1>5, <1>7, <2>1, Sizes
  <2>2. CASE ml > MinMatch
    <3>1. ml - 1 \in MinMatch .. ml - 1
      BY <1>10, <2>2, Sizes
    <3>2. x + (ml - 1) < ML
      BY <1>12, <3>1
    <3> QED
      BY <1>5, <1>7, <1>10, <3>2, Sizes
  <2> QED
    BY <1>6, <1>10, <2>1, <2>2, Sizes
<1>14. ASSUME NEW j \in 0 .. ml - 1
       PROVE  SrcByte(x + j) = SrcByte(p + j)
  <2>1. CASE j < MinMatch
    <3>1. j \in 0 .. (b + MinMatch) - 1
      BY <1>3, <2>1, Sizes
    <3> QED
      BY <1>8, <3>1
  <2>2. CASE j >= MinMatch
    <3>1. j \in MinMatch .. ml - 1
      BY <1>10, <2>2, Sizes
    <3>2. x + j < ML /\ SrcByte(x + j) = SrcByte(p + j)
      BY <1>12, <3>1
    <3> QED
      BY <3>2
  <2>3. j \in Nat
    BY <1>10
  <2> QED
    BY <2>1, <2>2, <2>3, Sizes
<1>15. x \in anchor .. MFL
  BY <1>1, <1>5, <1>7, Sizes
<1> QED
  BY <1>7, <1>10, <1>11, <1>13, <1>14, <1>15 DEF x, p, ml

-----------------------------------------------------------------------------
(***************************************************************************)
(* What the steps leave alone.                                             *)
(***************************************************************************)
LEMMA ArgsFrame ==
    ASSUME src' = src, params' = params
    PROVE  SrcSize' = SrcSize /\ MFL' = MFL /\ ML' = ML /\ WLim' = WLim
  BY DEF SrcSize, MFL, ML, WLim

LEMMA TokenFrame ==
    ASSUME src' = src, params' = params, NEW i, toks'[i] = toks[i], GoodToken(toks[i])
    PROVE  GoodToken(toks[i])'
  BY ArgsFrame DEF GoodToken, MatchAt, TokEnd

LEMMA TokensFrame ==
    ASSUME src' = src, params' = params, toks' = toks, GoodTokens(toks)
    PROVE  GoodTokens(toks)'
<1>1. ASSUME NEW i \in 1 .. Len(toks)
      PROVE  GoodToken(toks[i])'
  <2>1. GoodToken(toks[i]) /\ toks'[i] = toks[i]
    BY <1>1 DEF GoodTokens
  <2> QED
    BY <2>1, TokenFrame
<1>2. \A i \in 1 .. Len(toks') : GoodToken(toks[i])'
  BY <1>1
<1> QED
  BY <1>2 DEF GoodTokens, MatchAt, TokEnd

\* The decoder's part of the invariant while the encoder runs.
LEMMA DecFrame ==
    ASSUME Good, src' = src, dout' = dout,
           pc \notin {"done", "failed"} \cup DecPc, pc' \notin {"done", "failed"} \cup DecPc
    PROVE  DecInv'
<1>1. dout = <<>> /\ SrcSize' = SrcSize /\ SrcSize \in Nat
  BY SrcFacts DEF Good, Inv, DecInv, SrcSize
<1>2. dout' = <<>> /\ Len(dout') = 0
  BY <1>1
<1> QED
  BY <1>1, <1>2 DEF DecInv, DecPc, FailsOnlyForRoom

\* A token that starts where the last one ends continues the block.
LEMMA AppendToken ==
    ASSUME Good, src' = src, params' = params,
           NEW t \in TokenType, toks' = Append(toks, t), GoodToken(t),
           toks = <<>> => t.at = 0,
           toks # <<>> => toks[Len(toks)].ml > 0 /\ t.at = TokEnd(toks[Len(toks)])
    PROVE  /\ toks' \in Seq(TokenType) /\ GoodTokens(toks)'
           /\ toks' # <<>> /\ toks'[Len(toks')] = t
<1>1. toks \in Seq(TokenType) /\ GoodTokens(toks)
  BY DEF Good, TypeOK, Inv, TokensInv
<1>2. /\ Len(toks) \in Nat /\ Len(toks') = Len(toks) + 1 /\ toks'[Len(toks) + 1] = t
      /\ toks' # <<>> /\ \A i \in 1 .. Len(toks) : toks'[i] = toks[i]
  BY <1>1, AppendFacts
<1>3. toks' \in Seq(TokenType)
  BY <1>1
<1>4. ASSUME NEW i \in 1 .. Len(toks')
      PROVE  GoodToken(toks[i])'
  <2>1. CASE i \in 1 .. Len(toks)
    <3>1. GoodToken(toks[i]) /\ toks'[i] = toks[i]
      BY <1>1, <1>2, <2>1 DEF GoodTokens
    <3> QED
      BY <3>1, TokenFrame
  <2>2. CASE i = Len(toks) + 1
    <3>1. toks'[i] = t
      BY <1>2, <2>2
    <3> QED
      BY <3>1, ArgsFrame DEF GoodToken, MatchAt, TokEnd
  <2> QED
    BY <1>2, <2>1, <2>2
<1>5. ASSUME NEW i \in 1 .. Len(toks') - 1
      PROVE  toks'[i].ml > 0 /\ toks'[i + 1].at = TokEnd(toks[i])'
  <2>1. i \in 1 .. Len(toks) /\ toks'[i] = toks[i]
    BY <1>2
  <2>2. TokEnd(toks[i])' = TokEnd(toks[i])
    BY <2>1 DEF TokEnd, MatchAt
  <2>3. CASE i = Len(toks)
    <3>1. toks # <<>> /\ toks'[i + 1] = t
      BY <1>1, <1>2, <2>1, <2>3
    <3> QED
      BY <2>1, <2>2, <2>3, <3>1
  <2>4. CASE i # Len(toks)
    <3>1. i \in 1 .. Len(toks) - 1 /\ i + 1 \in 1 .. Len(toks)
      BY <1>2, <2>1, <2>4
    <3>2. toks[i].ml > 0 /\ toks[i + 1].at = TokEnd(toks[i]) /\ toks'[i + 1] = toks[i + 1]
      BY <1>1, <1>2, <3>1 DEF GoodTokens
    <3> QED
      BY <2>1, <2>2, <3>2
  <2> QED
    BY <2>3, <2>4
<1>6. toks'[1].at = 0
  <2>1. CASE toks = <<>>
    <3>1. Len(toks) = 0
      BY <2>1
    <3> QED
      BY <1>2, <2>1, <3>1
  <2>2. CASE toks # <<>>
    <3>1. 1 \in 1 .. Len(toks)
      BY <1>1, <1>2, <2>2
    <3>2. toks'[1] = toks[1] /\ toks[1].at = 0
      BY <1>1, <1>2, <2>2, <3>1 DEF GoodTokens
    <3> QED
      BY <3>2
  <2> QED
    BY <2>1, <2>2
<1>7. GoodTokens(toks)'
  BY <1>4, <1>5, <1>6 DEF GoodTokens
<1> QED
  BY <1>2, <1>3, <1>7

\* A probe and an insertion inside a match keep the table and the counters.
LEMMA CountsType ==
    ASSUME TypeOK, NEW x
    PROVE  /\ CountEvictions(ad, Evictions(ht, Read32(x), ad.k)) \in Adaptation
           /\ CountProbe(CountEvictions(ad, Evictions(ht, Read32(x), ad.k))) \in Adaptation
<1>1. ad \in Adaptation /\ Evictions(ht, Read32(x), ad.k) \in Nat
  BY EvictionsType DEF TypeOK
<1>2. CountEvictions(ad, Evictions(ht, Read32(x), ad.k)) \in Adaptation
  BY <1>1, AdaptationType
<1> QED
  BY <1>2, AdaptationType

-----------------------------------------------------------------------------
(***************************************************************************)
(* The encoder.                                                            *)
(***************************************************************************)
LEMMA InitGood == Init => Good
<1> SUFFICES ASSUME Init PROVE Good
  OBVIOUS
<1>1. ht \in HashTable /\ Entries(ht) = {}
  BY EmptyTableType DEF Init
<1>2. ad \in Adaptation
  <2>1. params.bucketK \in Int
    BY BlockAssumption DEF Init
  <2>2. InitialDepth(params.bucketK) \in Slot /\ (params.bucketK = 0) \in BOOLEAN
    BY <2>1, DepthType
  <2> QED
    BY <2>2 DEF Init, Adaptation
<1>3. TypeOK
  <2>1. <<>> \in Seq(Byte) /\ <<>> \in Seq(TokenType)
    OBVIOUS
  <2> QED
    BY <1>1, <1>2, <2>1 DEF Init, TypeOK
<1>4. SrcSize \in Nat
  BY <1>3, SrcFacts
<1>5. Len(<<>>) = 0
  OBVIOUS
<1>6. TokensInv
  BY <1>5 DEF Init, TokensInv, GoodTokens, EncPc, Complete, DecPc
<1>7. EncInv /\ DecInv
  BY <1>1, <1>4, <1>5 DEF Init, EncInv, DecInv, EncPc, DecPc, FailsOnlyForRoom
<1> QED
  BY <1>3, <1>6, <1>7 DEF Good, Inv

LEMMA BeginGood ==
    ASSUME Good, EncBegin
    PROVE  Good'
<1> USE DEF Good
<1>1. /\ pc = "start" /\ toks = <<>> /\ anchor = 0 /\ Entries(ht) = {}
      /\ GoodTokens(toks) /\ SrcSize \in Nat
  BY SrcFacts DEF EncBegin, Inv, TokensInv, EncInv
<1>2. UNCHANGED <<src, params, decCall, ht, anchor, skips, ad, mpos, hp, toks, locked>>
  BY DEF EncBegin
<1>3. \/ pc' = "encoded" /\ ip' = 0 /\ SrcSize = 0
      \/ pc' = "last" /\ ip' = 0
      \/ pc' = "search" /\ ip' = 1
  <2>1. /\ pc' = IF SrcSize = 0 THEN "encoded"
                 ELSE IF SrcSize < MinMatch + 1 THEN "last" ELSE "search"
        /\ ip' = IF pc' = "search" THEN 1 ELSE 0
    BY DEF EncBegin
  <2> QED
    BY <2>1, Zenon
<1>4. TypeOK'
  BY <1>2, <1>3 DEF TypeOK, decCall, EncPc
<1>5. GoodTokens(toks)' /\ SrcSize' = SrcSize
  BY <1>1, <1>2, TokensFrame, ArgsFrame
<1>6. TokensInv'
  BY <1>1, <1>2, <1>3, <1>5 DEF TokensInv, EncPc, Complete, DecPc
<1>7. EncInv'
  BY <1>1, <1>2, <1>3, <1>5 DEF EncInv, EncPc
<1>8. DecInv'
  BY <1>1, <1>2, <1>3, DecFrame DEF DecPc, decCall
<1> QED
  BY <1>4, <1>6, <1>7, <1>8 DEF Inv

LEMMA NoMemoryGood ==
    ASSUME Good, EncNoMemory
    PROVE  Good'
<1> USE DEF Good
<1>1. pc = "start" /\ toks = <<>> /\ anchor = 0 /\ GoodTokens(toks)
  BY DEF EncNoMemory, Inv, TokensInv
<1>2. UNCHANGED <<src, params, encCall, decCall>> /\ pc' = "nomem"
  BY DEF EncNoMemory
<1>3. TypeOK'
  BY <1>2 DEF TypeOK, encCall, decCall
<1>4. GoodTokens(toks)'
  BY <1>1, <1>2, TokensFrame DEF encCall
<1>5. TokensInv'
  BY <1>1, <1>2, <1>4 DEF TokensInv, EncPc, Complete, DecPc, encCall
<1>6. EncInv'
  BY <1>2 DEF EncInv, EncPc
<1>7. DecInv'
  BY <1>1, <1>2, DecFrame DEF DecPc, decCall
<1> QED
  BY <1>3, <1>5, <1>6, <1>7 DEF Inv

\* A probe that finds a candidate and one that does not.
LEMMA ProbeFacts ==
    ASSUME Good, Probe
    PROVE  /\ pc = "search" /\ ip \in Nat /\ ip <= MFL /\ SrcSize \in Nat
           /\ MFL <= SrcSize /\ GoodTokens(toks) /\ anchor \in Nat /\ anchor <= ip
           /\ anchor <= SrcSize
           /\ toks = <<>> => anchor = 0
           /\ toks # <<>> => toks[Len(toks)].ml > 0 /\ TokEnd(toks[Len(toks)]) = anchor
           /\ src' = src /\ params' = params /\ toks' = toks /\ anchor' = anchor
           /\ hp' = hp /\ cap' = cap /\ ti' = ti /\ dout' = dout /\ ci' = ci
           /\ ht' \in HashTable /\ ad' \in Adaptation /\ locked' \in BOOLEAN
           /\ \A p \in Entries(ht') : p \in Nat /\ p <= ip
           /\ GoodTokens(toks)' /\ SrcSize' = SrcSize /\ MFL' = MFL /\ WLim' = WLim
           /\ TokEnd(toks[Len(toks)])' = TokEnd(toks[Len(toks)])
<1> USE DEF Good
<1>1. /\ pc = "search" /\ ip \in Nat /\ ip <= MFL /\ SrcSize \in Nat /\ MFL <= SrcSize
  BY SrcFacts, Sizes DEF Probe, TypeOK
<1>2. /\ GoodTokens(toks) /\ anchor \in Nat /\ anchor <= ip /\ anchor <= SrcSize
      /\ toks = <<>> => anchor = 0
      /\ toks # <<>> => toks[Len(toks)].ml > 0 /\ TokEnd(toks[Len(toks)]) = anchor
      /\ \A p \in Entries(ht) : p < ip
  BY <1>1 DEF TypeOK, Inv, TokensInv, EncInv, EncPc
<1>3. /\ src' = src /\ params' = params /\ toks' = toks /\ anchor' = anchor
      /\ hp' = hp /\ cap' = cap /\ ti' = ti /\ dout' = dout /\ ci' = ci
  BY DEF Probe, decCall
<1>4. ht' = ElhPut(ht, Read32(ip), ip, ad.k) /\ ad' = CountProbe(Counted)
  BY DEF Probe
<1>5. ht' \in HashTable /\ Entries(ht') \subseteq Entries(ht) \cup {ip}
  BY <1>1, <1>4, InsertSpec
<1>6. ad' \in Adaptation
  BY <1>4, CountsType DEF Counted
<1>7. locked' \in BOOLEAN
  <2>1. locked' = (locked \/ (WindowEnds /\ Counted.evict = 0))
    BY DEF Probe
  <2> QED
    BY <2>1
<1>8. \A p \in Entries(ht') : p \in Nat /\ p <= ip
  BY <1>1, <1>2, <1>5, EntriesNat
<1>9. GoodTokens(toks)' /\ SrcSize' = SrcSize /\ MFL' = MFL /\ WLim' = WLim
  BY <1>2, <1>3, TokensFrame, ArgsFrame
<1>10. TokEnd(toks[Len(toks)])' = TokEnd(toks[Len(toks)])
  BY <1>3 DEF TokEnd, MatchAt
<1> QED
  BY <1>1, <1>2, <1>3, <1>5, <1>6, <1>7, <1>8, <1>9, <1>10

LEMMA HitGood ==
    ASSUME Good, EncHit
    PROVE  Good'
<1> USE DEF Good
<1>1. /\ Candidate # 0 /\ mpos' = Candidate /\ pc' = "found" /\ ip' = ip /\ skips' = skips
      /\ Probe
  BY DEF EncHit
<1>2. pc = "search" /\ ip \in Nat /\ ip <= MFL
  BY <1>1, ProbeFacts
<1>3. /\ Candidate \in 1 .. ip - 1 /\ ip - Candidate <= DistMax
      /\ WLim # 0 => ip - Candidate <= WLim
      /\ SameSeq(ip, Candidate)
  BY <1>1, <1>2, CandidateSpec
<1>4. TypeOK'
  BY <1>1, <1>2, <1>3, ProbeFacts DEF TypeOK, EncPc
<1>5. TokensInv'
  <2>1. /\ GoodTokens(toks)' /\ toks' = toks /\ anchor' = anchor
        /\ toks = <<>> => anchor = 0
        /\ toks # <<>> => toks[Len(toks)].ml > 0 /\ TokEnd(toks[Len(toks)]) = anchor
        /\ TokEnd(toks[Len(toks)])' = TokEnd(toks[Len(toks)])
    BY <1>1, ProbeFacts
  <2> QED
    BY <1>1, <2>1 DEF TokensInv, EncPc, Complete, DecPc
<1>6. EncInv'
  <2>1. /\ anchor' = anchor /\ anchor <= ip /\ anchor <= SrcSize /\ SrcSize' = SrcSize
        /\ MFL' = MFL /\ WLim' = WLim /\ \A p \in Entries(ht') : p <= ip
    BY <1>1, ProbeFacts
  <2>2. SameSeq(ip, mpos)'
    <3>1. src' = src
      BY <1>1, ProbeFacts
    <3> QED
      BY <1>1, <1>3, <3>1 DEF SameSeq, SrcByte
  <2> QED
    BY <1>1, <1>2, <1>3, <2>1, <2>2 DEF EncInv, EncPc
<1>7. DecInv'
  BY <1>1, <1>2, ProbeFacts, DecFrame DEF DecPc
<1> QED
  BY <1>4, <1>5, <1>6, <1>7 DEF Inv

LEMMA MissGood ==
    ASSUME Good, EncMiss
    PROVE  Good'
<1> USE DEF Good
<1>1. /\ Probe /\ pc' = pc /\ mpos' = mpos /\ skips' = skips + 1
      /\ ip' = ip + 1 + skips' \div params.skipDiv
  BY DEF EncMiss
<1>2. pc = "search" /\ ip \in Nat /\ ip <= MFL /\ skips' \in Nat /\ mpos \in Nat
  BY <1>1, ProbeFacts DEF TypeOK
<1>3. ip' \in Nat /\ ip' > ip
  <2>1. params.skipDiv \in Nat \ {0}
    BY BlockAssumption DEF TypeOK
  <2>2. skips' \div params.skipDiv \in Nat
    BY <1>2, <2>1
  <2> HIDE DEF Good
  <2> QED
    BY <1>1, <1>2, <2>2
<1>4. TypeOK'
  BY <1>1, <1>2, <1>3, ProbeFacts DEF TypeOK, EncPc
<1>5. TokensInv'
  <2>1. /\ GoodTokens(toks)' /\ toks' = toks /\ anchor' = anchor
        /\ toks = <<>> => anchor = 0
        /\ toks # <<>> => toks[Len(toks)].ml > 0 /\ TokEnd(toks[Len(toks)]) = anchor
        /\ TokEnd(toks[Len(toks)])' = TokEnd(toks[Len(toks)])
    BY <1>1, ProbeFacts
  <2> QED
    BY <1>1, <1>2, <2>1 DEF TokensInv, EncPc, Complete, DecPc
<1>6. EncInv'
  <2>1. /\ anchor' = anchor /\ anchor <= ip /\ anchor <= SrcSize /\ SrcSize' = SrcSize
        /\ anchor \in Nat /\ \A p \in Entries(ht') : p \in Nat /\ p <= ip
    BY <1>1, ProbeFacts
  <2>2. anchor' <= ip' /\ \A p \in Entries(ht') : p < ip'
    BY <1>2, <1>3, <2>1
  <2> QED
    BY <1>1, <1>2, <2>1, <2>2 DEF EncInv, EncPc
<1>7. DecInv'
  BY <1>1, <1>2, ProbeFacts, DecFrame DEF DecPc
<1> QED
  BY <1>4, <1>5, <1>6, <1>7 DEF Inv

LEMMA SearchEndGood ==
    ASSUME Good, EncSearchEnd
    PROVE  Good'
<1> USE DEF Good
<1>1. /\ pc = "search" /\ pc' = "last" /\ UNCHANGED <<src, params, encCall, decCall>>
  BY DEF EncSearchEnd
<1>2. TypeOK'
  BY <1>1 DEF TypeOK, encCall, decCall, EncPc
<1>3. GoodTokens(toks)' /\ SrcSize' = SrcSize
  BY <1>1, TokensFrame, ArgsFrame DEF Inv, TokensInv, encCall
<1>4. TokensInv'
  BY <1>1, <1>3 DEF Inv, TokensInv, EncPc, Complete, DecPc, encCall, TokEnd, MatchAt
<1>5. EncInv'
  BY <1>1, <1>3 DEF Inv, EncInv, EncPc, encCall
<1>6. DecInv'
  BY <1>1, DecFrame DEF DecPc, decCall
<1> QED
  BY <1>2, <1>4, <1>5, <1>6 DEF Inv

\* The token EncEmit writes.
LEMMA EmitToken ==
    ASSUME Good, pc = "found"
    PROVE  LET t == MatchToken(MatchIp, MatchPos, MatchMl)
           IN  /\ t \in TokenType /\ GoodToken(t) /\ t.at = anchor
               /\ t.ml = MatchMl /\ t.ml > 0 /\ TokEnd(t) = MatchIp + MatchMl
<1> USE DEF Good
<1> DEFINE t == MatchToken(MatchIp, MatchPos, MatchMl)
           x == MatchIp
           p == MatchPos
           ml == MatchMl
<1>1. /\ ip \in Nat /\ mpos \in 1 .. ip - 1 /\ ip - mpos <= DistMax /\ anchor \in Nat
      /\ WLim # 0 => ip - mpos <= WLim
  BY DEF TypeOK, Inv, EncInv
<1>2. /\ x \in anchor .. MFL /\ p \in Nat /\ ml \in Nat /\ x - p = ip - mpos
      /\ ml > 0 /\ x + ml > ip /\ x + ml <= ML
      /\ \A j \in 0 .. ml - 1 : SrcByte(x + j) = SrcByte(p + j)
  BY EmitSpec
<1>3. SrcSize \in Nat /\ MFL <= SrcSize /\ ML <= SrcSize /\ MFL \in Int /\ ML \in Int
  BY SrcFacts, Sizes
<1>4. /\ t.lits = Seg(anchor, x) /\ t.off = (x - p) % (DistMax + 1) /\ t.ml = ml
      /\ t.at = anchor
      /\ t = [lits |-> t.lits, off |-> t.off, ml |-> t.ml, at |-> t.at]
  BY DEF MatchToken
<1> HIDE DEF x, p, ml, t
<1>5. x \in Nat /\ anchor <= x /\ x <= SrcSize
  BY <1>1, <1>2, <1>3
<1>6. /\ t.lits \in Seq(Byte) /\ Len(t.lits) = x - anchor
      /\ \A i \in 1 .. x - anchor : t.lits[i] = src[anchor + i]
  BY <1>1, <1>4, <1>5, SegFacts
<1>7. x - p \in 1 .. DistMax /\ x - p = ip - mpos
  BY <1>1, <1>2, <1>5, Sizes
<1>8. t.off = x - p
  <2>1. (x - p) % (DistMax + 1) = x - p
    BY <1>7, Sizes
  <2> QED
    BY <1>4, <2>1
<1>9. t.off \in 0 .. DistMax /\ t.off \in 1 .. x
  BY <1>2, <1>5, <1>7, <1>8, Sizes
<1>10. t \in TokenType
  BY <1>1, <1>2, <1>4, <1>6, <1>9 DEF TokenType
<1>11. MatchAt(t) = x /\ TokEnd(t) = x + ml
  <2>1. anchor + (x - anchor) = x
    BY <1>1, <1>5
  <2> QED
    BY <1>4, <1>6, <2>1 DEF MatchAt, TokEnd
<1>12. ASSUME NEW i \in x + 1 .. x + ml
       PROVE  src[i] = src[i - t.off]
  <2>1. (i - 1) - x \in 0 .. ml - 1 /\ i \in Nat
    BY <1>2, <1>5
  <2>2. SrcByte(x + ((i - 1) - x)) = SrcByte(p + ((i - 1) - x))
    BY <1>2, <2>1
  <2>3. (x + ((i - 1) - x)) + 1 = i /\ (p + ((i - 1) - x)) + 1 = i - t.off
    BY <1>2, <1>5, <1>8, <2>1
  <2> QED
    BY <2>2, <2>3 DEF SrcByte
<1>13. WLim # 0 => t.off <= WLim
  BY <1>1, <1>7, <1>8
<1>14. TokEnd(t) <= SrcSize /\ TokEnd(t) <= ML /\ MatchAt(t) <= MFL
  BY <1>2, <1>3, <1>5, <1>11
<1>15. GoodToken(t)
  BY <1>4, <1>6, <1>9, <1>11, <1>12, <1>13, <1>14 DEF GoodToken
<1> QED
  BY <1>2, <1>4, <1>10, <1>11, <1>15 DEF t, x, p, ml

LEMMA EmitGood ==
    ASSUME Good, EncEmit
    PROVE  Good'
<1> USE DEF Good
<1> DEFINE t == MatchToken(MatchIp, MatchPos, MatchMl)
<1>1. /\ pc = "found" /\ pc' = "hash" /\ toks' = Append(toks, t)
      /\ ip' = MatchIp + MatchMl /\ anchor' = MatchIp + MatchMl
      /\ hp' = MatchIp + 2 /\ mpos' = MatchPos
      /\ UNCHANGED <<src, params, decCall, ht, skips, ad, locked>>
  BY DEF EncEmit, Back, MatchIp, MatchPos, MatchMl
<1>2. /\ MatchIp \in anchor .. MFL /\ MatchPos \in Nat /\ MatchMl \in Nat
      /\ MatchIp + MatchMl > ip /\ MatchIp + MatchMl <= ML /\ anchor \in Nat /\ ip \in Nat
  BY <1>1, EmitSpec DEF TypeOK
<1>3. /\ t \in TokenType /\ GoodToken(t) /\ t.at = anchor
      /\ t.ml > 0 /\ TokEnd(t) = MatchIp + MatchMl
  BY <1>1, EmitToken
<1> HIDE DEF t
<1>4. SrcSize \in Nat /\ MFL \in Int /\ ML <= SrcSize /\ ML \in Int /\ SrcSize' = SrcSize
  BY <1>1, SrcFacts, Sizes, ArgsFrame
<1>5. MatchIp \in Nat /\ ip' \in Nat /\ ip' > ip /\ ip' <= SrcSize /\ hp' \in Nat
  BY <1>1, <1>2, <1>4
<1>6. /\ toks = <<>> => t.at = 0
      /\ toks # <<>> => toks[Len(toks)].ml > 0 /\ t.at = TokEnd(toks[Len(toks)])
  BY <1>1, <1>3 DEF Inv, TokensInv, EncPc
<1>7. toks' \in Seq(TokenType) /\ GoodTokens(toks)' /\ toks' # <<>> /\ toks'[Len(toks')] = t
  BY <1>1, <1>3, <1>6, AppendToken
<1>8. TypeOK'
  BY <1>1, <1>2, <1>5, <1>7 DEF TypeOK, decCall, EncPc
<1>9. TokEnd(toks[Len(toks)])' = TokEnd(t)
  BY <1>7 DEF TokEnd, MatchAt
<1>10. TokensInv'
  BY <1>1, <1>3, <1>7, <1>9 DEF TokensInv, EncPc, Complete, DecPc
<1>11. EncInv'
  <2>1. \A p \in Entries(ht) : p \in Nat /\ p <= ip
    BY <1>1, EntriesNat DEF Inv, EncInv
  <2>2. \A p \in Entries(ht) : p < ip'
    BY <1>2, <1>5, <2>1
  <2> QED
    BY <1>1, <1>4, <1>5, <2>2 DEF EncInv, EncPc
<1>12. DecInv'
  BY <1>1, DecFrame DEF DecPc, decCall
<1> QED
  BY <1>8, <1>10, <1>11, <1>12 DEF Inv

LEMMA HashGood ==
    ASSUME Good, EncHash
    PROVE  Good'
<1> USE DEF Good
<1>1. /\ pc = "hash" /\ hp < ip - 1 /\ hp <= MFL
      /\ ht' = ElhPut(ht, Read32(hp), hp, ad.k)
      /\ ad' = CountEvictions(ad, Evictions(ht, Read32(hp), ad.k))
      /\ hp' = hp + 1
      /\ UNCHANGED <<src, params, pc, decCall, ip, anchor, skips, mpos, toks, locked>>
  BY DEF EncHash
<1>2. /\ hp \in Nat /\ ip \in Nat /\ anchor <= SrcSize /\ ip = anchor
      /\ GoodTokens(toks) /\ \A p \in Entries(ht) : p \in Nat /\ p < ip
  BY <1>1, EntriesNat DEF TypeOK, Inv, EncInv, TokensInv, EncPc
<1>3. ht' \in HashTable /\ Entries(ht') \subseteq Entries(ht) \cup {hp}
  BY <1>1, <1>2, InsertSpec
<1>4. ad' \in Adaptation
  BY <1>1, CountsType
<1>5. TypeOK'
  BY <1>1, <1>2, <1>3, <1>4 DEF TypeOK, decCall
<1>6. GoodTokens(toks)' /\ SrcSize' = SrcSize
  BY <1>1, <1>2, TokensFrame, ArgsFrame
<1>7. TokensInv'
  BY <1>1, <1>6 DEF Inv, TokensInv, EncPc, Complete, DecPc, TokEnd, MatchAt
<1>8. \A p \in Entries(ht') : p < ip
  BY <1>1, <1>2, <1>3
<1>9. EncInv'
  BY <1>1, <1>2, <1>6, <1>8 DEF EncInv, EncPc
<1>10. DecInv'
  BY <1>1, DecFrame DEF DecPc, decCall
<1> QED
  BY <1>5, <1>7, <1>9, <1>10 DEF Inv

LEMMA HashDoneGood ==
    ASSUME Good, EncHashDone
    PROVE  Good'
<1> USE DEF Good
<1>1. /\ pc = "hash" /\ pc' \in {"last", "search"} /\ skips' = 0
      /\ UNCHANGED <<src, params, decCall, ht, ip, anchor, ad, mpos, hp, toks, locked>>
  <2>1. pc' = IF ip > MFL THEN "last" ELSE "search"
    BY DEF EncHashDone
  <2> QED
    BY <2>1, Zenon DEF EncHashDone
<1>2. /\ ip \in Nat /\ anchor <= SrcSize /\ ip = anchor /\ hp \in Nat
      /\ GoodTokens(toks) /\ \A p \in Entries(ht) : p < ip
  BY <1>1 DEF TypeOK, Inv, EncInv, TokensInv, EncPc
<1>3. TypeOK'
  BY <1>1 DEF TypeOK, decCall, EncPc
<1>4. GoodTokens(toks)' /\ SrcSize' = SrcSize
  BY <1>1, <1>2, TokensFrame, ArgsFrame
<1>5. TokensInv'
  BY <1>1, <1>4 DEF Inv, TokensInv, EncPc, Complete, DecPc, TokEnd, MatchAt
<1>6. EncInv'
  BY <1>1, <1>2, <1>4 DEF EncInv, EncPc
<1>7. DecInv'
  BY <1>1, DecFrame DEF DecPc, decCall
<1> QED
  BY <1>3, <1>5, <1>6, <1>7 DEF Inv

LEMMA LastGood ==
    ASSUME Good, EncLast
    PROVE  Good'
<1> USE DEF Good
<1> DEFINE t == [lits |-> Seg(anchor, SrcSize), off |-> 0, ml |-> 0, at |-> anchor]
<1>1. /\ pc = "last" /\ pc' = "encoded" /\ ht' = EmptyTable /\ toks' = Append(toks, t)
      /\ UNCHANGED <<src, params, decCall, ip, anchor, skips, ad, mpos, hp, locked>>
  BY DEF EncLast
<1>2. /\ anchor \in Nat /\ anchor <= SrcSize /\ SrcSize \in Nat
      /\ toks = <<>> => anchor = 0
      /\ toks # <<>> => toks[Len(toks)].ml > 0 /\ TokEnd(toks[Len(toks)]) = anchor
  BY <1>1, SrcFacts DEF TypeOK, Inv, TokensInv, EncInv, EncPc
<1>3. /\ Seg(anchor, SrcSize) \in Seq(Byte) /\ Len(Seg(anchor, SrcSize)) = SrcSize - anchor
      /\ \A i \in 1 .. SrcSize - anchor : Seg(anchor, SrcSize)[i] = src[anchor + i]
  <2>1. TypeOK /\ anchor \in Nat /\ SrcSize \in Nat /\ anchor <= SrcSize /\ SrcSize <= SrcSize
    BY <1>2
  <2> QED
    BY <2>1, SegFacts, Zenon
<1>4. t \in TokenType
  BY <1>2, <1>3, Sizes DEF TokenType
<1>5. /\ t.lits = Seg(anchor, SrcSize) /\ t.ml = 0 /\ t.at = anchor
      /\ Len(t.lits) = SrcSize - anchor
  BY <1>3
<1> HIDE DEF t
<1>6. TokEnd(t) = SrcSize
  <2>1. anchor + (SrcSize - anchor) + 0 = SrcSize
    BY <1>2
  <2> QED
    BY <1>5, <2>1 DEF TokEnd, MatchAt
<1>7. GoodToken(t)
  BY <1>2, <1>3, <1>5, <1>6 DEF GoodToken
<1>8. toks' \in Seq(TokenType) /\ GoodTokens(toks)' /\ toks' # <<>> /\ toks'[Len(toks')] = t
  BY <1>1, <1>2, <1>4, <1>5, <1>7, AppendToken
<1>9. SrcSize' = SrcSize /\ TokEnd(toks[Len(toks)])' = TokEnd(t)
  BY <1>1, <1>8, ArgsFrame DEF TokEnd, MatchAt
<1>10. TypeOK'
  BY <1>1, <1>8, EmptyTableType DEF TypeOK, decCall
<1>11. TokensInv'
  BY <1>1, <1>5, <1>6, <1>8, <1>9 DEF TokensInv, EncPc, Complete, DecPc
<1>12. EncInv'
  BY <1>1 DEF EncInv, EncPc
<1>13. DecInv'
  BY <1>1, DecFrame DEF DecPc, decCall
<1> QED
  BY <1>10, <1>11, <1>12, <1>13 DEF Inv

-----------------------------------------------------------------------------
(***************************************************************************)
(* The decoder.                                                            *)
(***************************************************************************)
\* The encoder's part of the invariant while the decoder runs.
LEMMA EncFrame ==
    ASSUME Good, src' = src, params' = params, UNCHANGED encCall,
           pc \in Complete, pc' \in Complete
    PROVE  TokensInv' /\ EncInv' /\ SrcSize' = SrcSize
<1> USE DEF Good
<1>1. toks' = toks /\ GoodTokens(toks) /\ SrcSize' = SrcSize
  BY ArgsFrame DEF encCall, Inv, TokensInv
<1>2. GoodTokens(toks)'
  BY <1>1, TokensFrame
<1>3. TokEnd(toks[Len(toks)])' = TokEnd(toks[Len(toks)])
  BY <1>1 DEF TokEnd, MatchAt
<1>4. /\ toks = <<>> => SrcSize = 0
      /\ toks # <<>> => toks[Len(toks)].ml = 0 /\ TokEnd(toks[Len(toks)]) = SrcSize
  BY DEF Inv, TokensInv
<1>5. pc' \notin EncPc \cup {"start", "nomem"}
  BY DEF Complete, EncPc, DecPc
<1>6. TokensInv'
  BY <1>1, <1>2, <1>3, <1>4, <1>5 DEF TokensInv
<1>7. EncInv'
  BY <1>5 DEF EncInv, EncPc
<1> QED
  BY <1>1, <1>6, <1>7

\* What the decoder knows of the token it is at.
LEMMA TokFacts ==
    ASSUME Good, pc \in DecPc
    PROVE  /\ ti \in 1 .. Len(toks) /\ Len(toks) \in Nat /\ SrcSize \in Nat
           /\ Tok \in TokenType /\ GoodToken(Tok)
           /\ ti < Len(toks) => Tok.ml > 0 /\ toks[ti + 1].at = TokEnd(Tok)
           /\ ti = Len(toks) => Tok.ml = 0 /\ TokEnd(Tok) = SrcSize
           /\ MatchAt(Tok) \in Nat /\ TokEnd(Tok) = MatchAt(Tok) + Tok.ml
           /\ TokEnd(Tok) <= SrcSize
<1> USE DEF Good
<1>1. /\ ti \in 1 .. Len(toks) /\ toks \in Seq(TokenType) /\ GoodTokens(toks)
      /\ toks # <<>> => toks[Len(toks)].ml = 0 /\ TokEnd(toks[Len(toks)]) = SrcSize
  BY DEF TypeOK, Inv, TokensInv, DecInv, Complete
<1>2. Len(toks) \in Nat /\ toks # <<>> /\ SrcSize \in Nat
  <2>1. Len(toks) \in Nat /\ Len(toks) # 0
    BY <1>1
  <2>2. Len(<<>>) = 0
    OBVIOUS
  <2> QED
    BY <2>1, <2>2, SrcFacts
<1>3. Tok \in TokenType /\ GoodToken(Tok)
  BY <1>1 DEF Tok, GoodTokens
<1>4. ti < Len(toks) => Tok.ml > 0 /\ toks[ti + 1].at = TokEnd(Tok)
  <2>1. ti < Len(toks) => ti \in 1 .. Len(toks) - 1
    BY <1>1, <1>2
  <2> QED
    BY <1>1, <2>1 DEF Tok, GoodTokens
<1>5. ti = Len(toks) => Tok.ml = 0 /\ TokEnd(Tok) = SrcSize
  BY <1>1, <1>2 DEF Tok
<1>6. MatchAt(Tok) \in Nat /\ TokEnd(Tok) = MatchAt(Tok) + Tok.ml /\ TokEnd(Tok) <= SrcSize
  <2>1. Tok.at \in Nat /\ Len(Tok.lits) \in Nat
    BY <1>3 DEF TokenType
  <2> QED
    BY <1>3, <2>1 DEF MatchAt, TokEnd, GoodToken
<1> QED
  BY <1>1, <1>2, <1>3, <1>4, <1>5, <1>6

LEMMA DecBeginGood ==
    ASSUME Good, NEW c \in DecCaps, DecBegin(c)
    PROVE  Good'
<1> USE DEF Good
<1>1. /\ pc = "encoded" /\ cap' = c /\ ti' = 1 /\ dout' = dout /\ ci' = ci
      /\ src' = src /\ params' = params /\ UNCHANGED encCall
      /\ toks = <<>> => pc' = "done"
      /\ toks # <<>> => pc' = "lits"
  BY DEF DecBegin
<1>2. pc' \in {"done", "lits"} /\ c \in Nat
  BY <1>1, BlockAssumption
<1>3. /\ dout = <<>> /\ SrcSize \in Nat /\ toks \in Seq(TokenType) /\ GoodTokens(toks)
      /\ toks = <<>> => SrcSize = 0
  BY <1>1, SrcFacts DEF Inv, DecInv, TokensInv, Complete, TypeOK, DecPc
<1>4. TypeOK'
  BY <1>1, <1>2 DEF TypeOK, encCall, DecPc
<1>5. TokensInv' /\ EncInv' /\ SrcSize' = SrcSize
  BY <1>1, <1>2, EncFrame DEF Complete, DecPc
<1>6. Len(dout') = 0 /\ toks' = toks
  BY <1>1, <1>3 DEF encCall
<1>7. toks # <<>> => 1 \in 1 .. Len(toks) /\ toks[1].at = 0
  BY <1>3 DEF GoodTokens
<1>8. DecInv'
  BY <1>1, <1>2, <1>3, <1>5, <1>6, <1>7 DEF DecInv, Tok, DecPc, FailsOnlyForRoom
<1> QED
  BY <1>4, <1>5, <1>8 DEF Inv

LEMMA DecLitsGood ==
    ASSUME Good, DecLits
    PROVE  Good'
<1> USE DEF Good
<1>1. /\ pc = "lits" /\ cap' = cap /\ ti' = ti /\ ci' = ci
      /\ src' = src /\ params' = params /\ UNCHANGED encCall
      /\ \/ Len(dout) + Len(Tok.lits) > cap /\ pc' = "failed" /\ dout' = dout
         \/ /\ dout' = dout \o Tok.lits
            /\ \/ ti = Len(toks) /\ pc' = "done"
               \/ ti # Len(toks) /\ pc' = "match"
  BY DEF DecLits, Exceeds
<1>2. /\ ti \in 1 .. Len(toks) /\ Len(toks) \in Nat /\ SrcSize \in Nat
      /\ Tok \in TokenType /\ GoodToken(Tok)
      /\ ti = Len(toks) => Tok.ml = 0 /\ TokEnd(Tok) = SrcSize
      /\ MatchAt(Tok) \in Nat /\ TokEnd(Tok) = MatchAt(Tok) + Tok.ml
      /\ TokEnd(Tok) <= SrcSize
  BY <1>1, TokFacts DEF DecPc
<1>3. /\ dout \in Seq(Byte) /\ Len(dout) = Tok.at /\ cap \in Nat
      /\ \A i \in 1 .. Len(dout) : dout[i] = src[i]
  BY <1>1 DEF TypeOK, Inv, DecInv
<1>4. Tok.lits \in Seq(Byte) /\ Tok.at \in Nat /\ Tok.ml \in Nat
  BY <1>2 DEF TokenType
<1>5. Len(dout) + Len(Tok.lits) = MatchAt(Tok) /\ MatchAt(Tok) <= SrcSize
  BY <1>2, <1>3, <1>4 DEF MatchAt
<1>6. pc' \in Complete /\ pc \in Complete /\ toks' = toks
  BY <1>1 DEF Complete, DecPc, encCall
<1>7. TokensInv' /\ EncInv' /\ SrcSize' = SrcSize
  BY <1>1, <1>6, EncFrame
<1>8. /\ Tok' = Tok /\ MatchAt(Tok)' = MatchAt(Tok)
  BY <1>1, <1>6 DEF Tok, MatchAt
<1>9. CASE pc' = "failed" /\ dout' = dout /\ Len(dout) + Len(Tok.lits) > cap
  <2>1. TypeOK'
    BY <1>1, <1>9 DEF TypeOK, encCall
  <2>2. cap' < SrcSize' /\ Len(dout) <= SrcSize
    BY <1>1, <1>2, <1>3, <1>4, <1>5, <1>7, <1>9
  <2>3. DecInv'
    BY <1>1, <1>3, <1>7, <1>9, <2>2 DEF DecInv, DecPc, FailsOnlyForRoom
  <2> QED
    BY <1>7, <2>1, <2>3 DEF Inv
<1>10. CASE dout' = dout \o Tok.lits /\ pc' \in {"done", "match"}
  <2>1. dout' \in Seq(Byte) /\ Len(dout') = MatchAt(Tok)
    <3>1. dout \o Tok.lits \in Seq(Byte) /\ Len(dout \o Tok.lits) = Len(dout) + Len(Tok.lits)
      BY <1>3, <1>4, ConcatProperties
    <3> QED
      BY <1>5, <1>10, <3>1
  <2>2. TypeOK'
    BY <1>1, <1>10, <2>1 DEF TypeOK, encCall, DecPc
  <2>3. ASSUME NEW i \in 1 .. Len(dout')
        PROVE  dout'[i] = src[i]
    <3>1. CASE i <= Len(dout)
      <4>1. i \in 1 .. Len(dout)
        BY <1>3, <2>1, <3>1
      <4>2. dout'[i] = dout[i]
        BY <1>3, <1>4, <1>10, <4>1
      <4> QED
        BY <1>3, <4>1, <4>2
    <3>2. CASE i > Len(dout)
      <4>1. i - Len(dout) \in 1 .. Len(Tok.lits) /\ Tok.at + (i - Len(dout)) = i
        BY <1>3, <1>4, <1>5, <2>1, <3>2
      <4>2. dout'[i] = Tok.lits[i - Len(dout)]
        BY <1>3, <1>4, <1>10, <2>1, <3>2
      <4>3. Tok.lits[i - Len(dout)] = src[Tok.at + (i - Len(dout))]
        BY <1>2, <4>1 DEF GoodToken
      <4> QED
        BY <4>1, <4>2, <4>3
    <3> QED
      BY <1>3, <2>1, <3>1, <3>2
  <2>4. pc' = "done" => Len(dout') = SrcSize
    <3>1. pc' = "done" => ti = Len(toks)
      BY <1>1
    <3> QED
      BY <1>2, <1>4, <2>1, <3>1
  <2>5. pc' = "match" => ti' \in 1 .. Len(toks') /\ ti' < Len(toks')
    BY <1>1, <1>2, <1>6
  <2>6. DecInv'
    BY <1>1, <1>5, <1>7, <1>8, <1>10, <2>1, <2>3, <2>4, <2>5
       DEF DecInv, DecPc, FailsOnlyForRoom
  <2> QED
    BY <1>7, <2>2, <2>6 DEF Inv
<1> QED
  BY <1>1, <1>9, <1>10

LEMMA DecMatchGood ==
    ASSUME Good, DecMatch
    PROVE  Good'
<1> USE DEF Good
<1>1. /\ pc = "match" /\ cap' = cap /\ ti' = ti /\ ci' = 0 /\ dout' = dout
      /\ src' = src /\ params' = params /\ UNCHANGED encCall
      /\ \/ /\ Tok.off = 0 \/ Tok.off > Len(dout) \/ Len(dout) + Tok.ml > cap
            /\ pc' = "failed"
         \/ pc' = "copy"
  BY DEF DecMatch, Exceeds
<1>2. /\ ti \in 1 .. Len(toks) /\ Len(toks) \in Nat /\ SrcSize \in Nat
      /\ Tok \in TokenType /\ GoodToken(Tok) /\ ti < Len(toks) /\ Tok.ml > 0
      /\ MatchAt(Tok) \in Nat /\ TokEnd(Tok) = MatchAt(Tok) + Tok.ml
      /\ TokEnd(Tok) <= SrcSize
  BY <1>1, TokFacts DEF DecPc, Inv, DecInv
<1>3. /\ dout \in Seq(Byte) /\ Len(dout) = MatchAt(Tok) /\ cap \in Nat
      /\ \A i \in 1 .. Len(dout) : dout[i] = src[i]
  BY <1>1 DEF TypeOK, Inv, DecInv
<1>4. Tok.off \in 1 .. MatchAt(Tok) /\ Tok.ml \in Nat
  BY <1>2 DEF GoodToken, TokenType
<1>5. pc' \in Complete /\ pc \in Complete /\ toks' = toks
  BY <1>1 DEF Complete, DecPc, encCall
<1>6. TokensInv' /\ EncInv' /\ SrcSize' = SrcSize
  BY <1>1, <1>5, EncFrame
<1>7. Tok' = Tok /\ MatchAt(Tok)' = MatchAt(Tok)
  BY <1>1, <1>5 DEF Tok, MatchAt
<1>8. pc' = "failed" => cap' < SrcSize'
  BY <1>1, <1>2, <1>3, <1>4, <1>6
<1>9. Len(dout) <= SrcSize
  BY <1>2, <1>3, <1>4
<1>10. TypeOK'
  BY <1>1 DEF TypeOK, encCall, DecPc
<1>11. pc' \in {"failed", "copy"} /\ Len(dout') = MatchAt(Tok) + 0 /\ 0 < Tok.ml
  BY <1>1, <1>2, <1>3
<1>12. DecInv'
  BY <1>1, <1>2, <1>3, <1>5, <1>6, <1>7, <1>8, <1>9, <1>11
     DEF DecInv, DecPc, FailsOnlyForRoom
<1> QED
  BY <1>6, <1>10, <1>12 DEF Inv

LEMMA DecCopyGood ==
    ASSUME Good, DecCopy
    PROVE  Good'
<1> USE DEF Good
<1>1. /\ pc = "copy" /\ cap' = cap /\ src' = src /\ params' = params /\ UNCHANGED encCall
      /\ dout' = Append(dout, dout[Len(dout) - Tok.off + 1])
      /\ \/ ci + 1 < Tok.ml /\ ci' = ci + 1 /\ ti' = ti /\ pc' = "copy"
         \/ ~ (ci + 1 < Tok.ml) /\ ci' = 0 /\ ti' = ti + 1 /\ pc' = "lits"
  BY DEF DecCopy
<1>2. /\ ti \in 1 .. Len(toks) /\ Len(toks) \in Nat /\ SrcSize \in Nat
      /\ Tok \in TokenType /\ GoodToken(Tok) /\ ti < Len(toks)
      /\ Tok.ml > 0 /\ toks[ti + 1].at = TokEnd(Tok)
      /\ MatchAt(Tok) \in Nat /\ TokEnd(Tok) = MatchAt(Tok) + Tok.ml
      /\ TokEnd(Tok) <= SrcSize
  BY <1>1, TokFacts DEF DecPc, Inv, DecInv
<1>3. /\ dout \in Seq(Byte) /\ ci \in Nat /\ ci < Tok.ml /\ Len(dout) = MatchAt(Tok) + ci
      /\ \A i \in 1 .. Len(dout) : dout[i] = src[i]
  BY <1>1 DEF TypeOK, Inv, DecInv
<1>4. Tok.off \in 1 .. MatchAt(Tok) /\ Tok.ml \in Nat
  BY <1>2 DEF GoodToken, TokenType
<1> DEFINE n == Len(dout)
           b == dout[Len(dout) - Tok.off + 1]
<1>5. n \in Nat /\ n + 1 \in MatchAt(Tok) + 1 .. TokEnd(Tok) /\ n + 1 <= SrcSize
  <2>1. n = MatchAt(Tok) + ci /\ ci \in Nat /\ ci < Tok.ml /\ Tok.ml \in Nat
    BY <1>3, <1>4
  <2>2. /\ MatchAt(Tok) \in Nat /\ TokEnd(Tok) = MatchAt(Tok) + Tok.ml
        /\ TokEnd(Tok) <= SrcSize /\ SrcSize \in Nat
    BY <1>2
  <2> HIDE DEF n
  <2> QED
    BY <2>1, <2>2
<1>6. n - Tok.off + 1 \in 1 .. n /\ n - Tok.off + 1 = (n + 1) - Tok.off
  <2>1. Tok.off \in Nat /\ Tok.off >= 1 /\ Tok.off <= n
    BY <1>2, <1>3, <1>4
  <2> HIDE DEF n
  <2> QED
    BY <1>5, <2>1
<1>7. b = src[n + 1] /\ b \in Byte
  <2>1. b = src[(n + 1) - Tok.off] /\ b \in Byte
    BY <1>3, <1>6
  <2>2. src[n + 1] = src[(n + 1) - Tok.off]
    BY <1>2, <1>5 DEF GoodToken
  <2> QED
    BY <2>1, <2>2
<1>8. dout' = Append(dout, b)
  BY <1>1
<1> HIDE DEF b
<1>9. /\ Len(dout') = n + 1 /\ dout'[n + 1] = b
      /\ \A i \in 1 .. n : dout'[i] = dout[i]
  BY <1>3, <1>8, AppendFacts
<1>10. \A i \in 1 .. Len(dout') : dout'[i] = src[i]
  <2> TAKE i \in 1 .. Len(dout')
  <2>1. i \in 1 .. n \/ i = n + 1
    BY <1>5, <1>9
  <2> QED
    BY <1>3, <1>7, <1>9, <2>1
<1>11. dout' \in Seq(Byte)
  BY <1>3, <1>7, <1>8
<1>12. pc' \in {"lits", "copy"} /\ ti' \in Nat /\ ci' \in Nat
  BY <1>1, <1>2, <1>3
<1>13. TypeOK'
  BY <1>1, <1>11, <1>12 DEF TypeOK, encCall, DecPc
<1>14. pc' \in Complete /\ pc \in Complete /\ toks' = toks
  BY <1>1 DEF Complete, DecPc, encCall
<1>15. TokensInv' /\ EncInv' /\ SrcSize' = SrcSize
  BY <1>1, <1>14, EncFrame
<1>16. ti' \in 1 .. Len(toks')
  BY <1>1, <1>2, <1>14
<1>17. pc' = "copy" => /\ ci' < Tok'.ml /\ Len(dout') = MatchAt(Tok)' + ci'
                       /\ ti' < Len(toks')
  <2>1. pc' = "copy" => ti' = ti /\ ci' = ci + 1 /\ ci + 1 < Tok.ml
    BY <1>1
  <2>2. ti' = ti => Tok' = Tok /\ MatchAt(Tok)' = MatchAt(Tok)
    BY <1>14 DEF Tok, MatchAt
  <2> QED
    BY <1>2, <1>3, <1>9, <1>14, <2>1, <2>2
<1>18. pc' = "lits" => Len(dout') = Tok'.at
  <2>1. pc' = "lits" => ti' = ti + 1 /\ ~ (ci + 1 < Tok.ml)
    BY <1>1
  <2>2. pc' = "lits" => n + 1 = TokEnd(Tok)
    <3>1. n = MatchAt(Tok) + ci /\ TokEnd(Tok) = MatchAt(Tok) + Tok.ml /\ MatchAt(Tok) \in Nat
      BY <1>2, <1>3
    <3>2. ci \in Nat /\ ci < Tok.ml /\ Tok.ml \in Nat
      BY <1>3, <1>4
    <3> HIDE DEF n
    <3> QED
      BY <2>1, <3>1, <3>2
  <2>3. ti' = ti + 1 => Tok' = toks[ti + 1]
    BY <1>14 DEF Tok
  <2> QED
    BY <1>2, <1>9, <2>1, <2>2, <2>3
<1>19. DecInv'
  BY <1>5, <1>9, <1>10, <1>12, <1>15, <1>16, <1>17, <1>18, <1>1
     DEF DecInv, DecPc, FailsOnlyForRoom
<1> QED
  BY <1>13, <1>15, <1>19 DEF Inv

LEMMA StutterGood ==
    ASSUME Good, UNCHANGED vars
    PROVE  Good'
<1> USE DEF Good
<1>1. UNCHANGED <<src, params, pc, encCall, decCall>>
  BY DEF vars
<1>2. TypeOK'
  BY <1>1 DEF TypeOK, encCall, decCall
<1>3. GoodTokens(toks)' /\ SrcSize' = SrcSize /\ MFL' = MFL /\ WLim' = WLim
  BY <1>1, TokensFrame, ArgsFrame DEF Inv, TokensInv, encCall
<1>4. TokEnd(toks[Len(toks)])' = TokEnd(toks[Len(toks)])
  BY <1>1 DEF TokEnd, MatchAt, encCall
<1>5. TokensInv'
  BY <1>1, <1>3, <1>4 DEF Inv, TokensInv, encCall
<1>6. SameSeq(ip, mpos)' = SameSeq(ip, mpos)
  BY <1>1 DEF SameSeq, SrcByte, encCall
<1>7. EncInv'
  BY <1>1, <1>3, <1>6 DEF Inv, EncInv, encCall
<1>8. Tok' = Tok /\ MatchAt(Tok)' = MatchAt(Tok)
  BY <1>1 DEF Tok, MatchAt, encCall, decCall
<1>9. DecInv'
  BY <1>1, <1>3, <1>8 DEF Inv, DecInv, FailsOnlyForRoom, encCall, decCall
<1> QED
  BY <1>2, <1>5, <1>7, <1>9 DEF Inv

-----------------------------------------------------------------------------
(***************************************************************************)
(* The theorems.                                                           *)
(***************************************************************************)
\* The types and the invariant hold in every state of both calls.
THEOREM InvCorrect == Spec => [](TypeOK /\ Inv)
<1>1. Init => Good
  BY InitGood
<1>2. Good /\ [Next]_vars => Good'
  <2> SUFFICES ASSUME Good, [Next]_vars
               PROVE  Good'
    OBVIOUS
  <2>1. CASE EncBegin
    BY <2>1, BeginGood
  <2>2. CASE EncNoMemory
    BY <2>2, NoMemoryGood
  <2>3. CASE EncHit
    BY <2>3, HitGood
  <2>4. CASE EncMiss
    BY <2>4, MissGood
  <2>5. CASE EncSearchEnd
    BY <2>5, SearchEndGood
  <2>6. CASE EncEmit
    BY <2>6, EmitGood
  <2>7. CASE EncHash
    BY <2>7, HashGood
  <2>8. CASE EncHashDone
    BY <2>8, HashDoneGood
  <2>9. CASE EncLast
    BY <2>9, LastGood
  <2>10. CASE \E c \in DecCaps : DecBegin(c)
    BY <2>10, DecBeginGood
  <2>11. CASE DecLits
    BY <2>11, DecLitsGood
  <2>12. CASE DecMatch
    BY <2>12, DecMatchGood
  <2>13. CASE DecCopy
    BY <2>13, DecCopyGood
  <2>14. CASE UNCHANGED vars
    BY <2>14, StutterGood
  <2> QED
    BY <2>1, <2>2, <2>3, <2>4, <2>5, <2>6, <2>7, <2>8, <2>9, <2>10, <2>11, <2>12,
       <2>13, <2>14 DEF Next
<1>3. Good <=> TypeOK /\ Inv
  BY DEF Good
<1> QED
  BY <1>1, <1>2, <1>3, PTL DEF Spec

\* Every variable of both calls keeps its type.
THEOREM TypeCorrect == Spec => []TypeOK
  BY InvCorrect, PTL

\* elh_decompress(elh_compress(src)) = src.
THEOREM LosslessCorrect == Spec => []Lossless
<1>1. ASSUME TypeOK, Inv PROVE Lossless
  <2> SUFFICES ASSUME pc = "done" PROVE dout = src
    BY DEF Lossless
  <2>1. /\ dout \in Seq(Byte) /\ src \in Seq(Byte) /\ Len(dout) = Len(src)
        /\ \A i \in 1 .. Len(dout) : dout[i] = src[i]
    BY <1>1, SrcFacts DEF TypeOK, Inv, DecInv, SrcSize
  <2>2. Len(dout) \in Nat
    BY <2>1
  <2> QED
    BY <2>1, <2>2, SeqEqual
<1> QED
  BY <1>1, InvCorrect, PTL

\* A block of elh_compress is refused only when the output does not fit.
THEOREM FailsOnlyForRoomCorrect == Spec => []FailsOnlyForRoom
<1>1. Inv => FailsOnlyForRoom
  BY DEF Inv, DecInv
<1> QED
  BY <1>1, InvCorrect, PTL

\* The search limit and the match limit keep the rule for the end of a block.
THEOREM EndOfBlockCorrect == Spec => []EndOfBlock
<1>1. ASSUME TypeOK, Inv PROVE EndOfBlock
  <2> DEFINE m == Len(toks)
  <2> SUFFICES ASSUME pc = "encoded", m > 1
               PROVE  /\ Len(toks[m].lits) >= LastLiterals
                      /\ Len(toks[m].lits) + toks[m - 1].ml >= MFLimit
    BY DEF EndOfBlock
  <2>1. /\ toks \in Seq(TokenType) /\ GoodTokens(toks)
        /\ toks # <<>> => toks[m].ml = 0 /\ TokEnd(toks[m]) = SrcSize
    BY <1>1 DEF TypeOK, Inv, TokensInv, Complete
  <2>2. m \in Nat /\ toks # <<>>
    BY <2>1
  <2> HIDE DEF m
  <2>3. m - 1 \in 1 .. m /\ m - 1 \in 1 .. m - 1 /\ (m - 1) + 1 = m
    BY <2>2
  <2>4. /\ GoodToken(toks[m - 1]) /\ toks[m - 1].ml > 0
        /\ toks[m].at = TokEnd(toks[m - 1])
    BY <2>1, <2>3 DEF GoodTokens, m
  <2>5. /\ toks[m - 1] \in TokenType /\ toks[m] \in TokenType
    BY <2>1, <2>2, <2>3 DEF m
  <2>6. /\ toks[m - 1].ml \in Nat /\ toks[m - 1].at \in Nat /\ Len(toks[m - 1].lits) \in Nat
        /\ toks[m].at \in Nat /\ Len(toks[m].lits) \in Nat
    BY <2>5 DEF TokenType
  <2>7. MatchAt(toks[m - 1]) <= MFL /\ TokEnd(toks[m - 1]) <= ML
    BY <2>4 DEF GoodToken
  <2>8. /\ SrcSize = toks[m].at + Len(toks[m].lits)
        /\ toks[m].at = MatchAt(toks[m - 1]) + toks[m - 1].ml
        /\ MatchAt(toks[m - 1]) \in Nat
    <3>1. TokEnd(toks[m]) = toks[m].at + Len(toks[m].lits) + toks[m].ml
      BY DEF TokEnd, MatchAt
    <3>2. /\ TokEnd(toks[m - 1]) = MatchAt(toks[m - 1]) + toks[m - 1].ml
          /\ MatchAt(toks[m - 1]) = toks[m - 1].at + Len(toks[m - 1].lits)
      BY DEF TokEnd, MatchAt
    <3>3. toks[m].ml = 0 /\ TokEnd(toks[m]) = SrcSize
      BY <2>1, <2>2
    <3> QED
      BY <2>4, <2>6, <3>1, <3>2, <3>3
  <2>9. MFL = SrcSize - MFLimit /\ ML = SrcSize - LastLiterals /\ SrcSize \in Nat
    BY <1>1, SrcFacts
  <2>10. toks[m].at <= SrcSize - LastLiterals
    BY <2>4, <2>7, <2>9
  <2>11. MatchAt(toks[m - 1]) <= SrcSize - MFLimit
    BY <2>7, <2>9
  <2> DEFINE at == toks[m].at
             lits == Len(toks[m].lits)
             ml == toks[m - 1].ml
             match == MatchAt(toks[m - 1])
  <2>12. /\ at \in Nat /\ lits \in Nat /\ ml \in Nat /\ match \in Nat
         /\ SrcSize = at + lits /\ at = match + ml
         /\ at <= SrcSize - LastLiterals /\ match <= SrcSize - MFLimit
    BY <2>6, <2>8, <2>10, <2>11
  <2> HIDE DEF at, lits, ml, match
  <2>13. lits >= LastLiterals /\ lits + ml >= MFLimit
    BY <2>9, <2>12, Sizes
  <2> QED
    BY <2>13 DEF lits, ml
<1> QED
  BY <1>1, InvCorrect, PTL

\* Positions below half of the U32 range are positive as signed lanes, so the
\* AVX2 comparisons decide as the scalar ones do.
THEOREM SimdAgreesCorrect == Spec => []SimdAgrees
<1>1. ASSUME TypeOK, Inv PROVE SimdAgrees
  <2> SUFFICES ASSUME pc = "search", ip <= MFL, NEW p \in Entries(ht)
               PROVE  SimdNear(ip, p, WLim) <=> Near(ip, p, WLim)
    BY DEF SimdAgrees
  <2>1. p \in Nat /\ p > 0 /\ p < ip /\ ip \in Nat /\ ip <= SrcSize /\ WLim \in Nat
    BY <1>1, EntriesNat, SrcFacts, Sizes, WLimType DEF Inv, EncInv, TypeOK
  <2>2. Dist(ip, p) = ip - p /\ Dist(ip, p + 1) = ip - (p + 1)
    BY <1>1, <2>1, PosInRange
  <2>3. SrcSize \in Nat /\ SrcSize < PosMod \div 2
    BY <1>1, SrcFacts
  <2>4. ip - (p + 1) \in Nat /\ ip - (p + 1) < PosMod \div 2 /\ p < PosMod \div 2
    BY <2>1, <2>3, Sizes
  <2>5. Signed(p) = p /\ Signed(Dist(ip, p + 1)) = ip - (p + 1)
    BY <2>2, <2>4 DEF Signed
  <2> QED
    BY <2>1, <2>2, <2>5, Sizes DEF SimdNear, Near
<1> QED
  BY <1>1, InvCorrect, PTL

-----------------------------------------------------------------------------
(***************************************************************************)
(* The contract with the callers.  The decoder is never beyond its buffer, *)
(* so that what it gives fitted into it.                                   *)
(***************************************************************************)
LEMMA RoomInit == Init => RoomInv
  BY DEF Init, RoomInv

LEMMA RoomStep == Good /\ RoomInv /\ [Next]_vars => RoomInv'
<1> SUFFICES ASSUME Good, RoomInv, [Next]_vars PROVE RoomInv'
  OBVIOUS
<1>1. dout \in Seq(Byte) /\ cap \in Nat /\ ci \in Nat /\ Len(dout) \in Nat
  BY DEF Good, TypeOK
<1>2. CASE \E c \in DecCaps : DecBegin(c)
  <2>1. /\ pc = "encoded" /\ dout' = dout /\ cap' \in DecCaps
        /\ pc' \in {"done", "lits"}
    BY <1>2 DEF DecBegin
  <2>2. dout' = <<>> /\ cap' \in Nat
    BY <2>1, BlockAssumption DEF Good, Inv, DecInv, DecPc
  <2> QED
    BY <2>1, <2>2 DEF RoomInv
<1>3. CASE DecLits
  <2>1. pc = "lits" /\ cap' = cap
    BY <1>3 DEF DecLits
  <2>2. Tok \in TokenType
    BY <2>1, TokFacts DEF Good, Inv, DecInv, DecPc
  <2>3. CASE Exceeds(Len(Tok.lits))
    <3>1. pc' = "failed"
      BY <1>3, <2>3 DEF DecLits
    <3> QED
      BY <3>1 DEF RoomInv
  <2>4. CASE ~ Exceeds(Len(Tok.lits))
    <3>1. dout' = dout \o Tok.lits /\ pc' \in {"done", "match"}
      BY <1>3, <2>4 DEF DecLits
    <3>2. Tok.lits \in Seq(Byte) /\ Len(Tok.lits) \in Nat
      BY <2>2 DEF TokenType
    <3>3. Len(dout') = Len(dout) + Len(Tok.lits)
      BY <1>1, <3>1, <3>2, ConcatProperties
    <3>4. Len(dout) + Len(Tok.lits) <= cap
      BY <1>1, <2>4, <3>2 DEF Exceeds
    <3> QED
      BY <2>1, <3>1, <3>3, <3>4 DEF RoomInv
  <2> QED
    BY <2>3, <2>4
<1>4. CASE DecMatch
  <2>1. pc = "match" /\ ci' = 0 /\ UNCHANGED <<cap, dout>> /\ pc' \in {"failed", "copy"}
    BY <1>4 DEF DecMatch
  <2>2. Tok \in TokenType /\ Tok' = Tok
    BY <1>4, <2>1, TokFacts DEF Good, Inv, DecInv, DecPc, DecMatch, Tok, encCall
  <2>3. Tok.ml \in Nat
    BY <2>2 DEF TokenType
  <2>4. pc' = "copy" => Len(dout) + Tok.ml <= cap
    BY <1>1, <1>4, <2>3 DEF DecMatch, Exceeds
  <2> QED
    BY <1>1, <2>1, <2>2, <2>3, <2>4 DEF RoomInv
<1>5. CASE DecCopy
  <2>1. /\ pc = "copy" /\ cap' = cap
        /\ dout' = Append(dout, dout[Len(dout) - Tok.off + 1])
        /\ \/ ci + 1 < Tok.ml /\ ci' = ci + 1 /\ pc' = "copy" /\ UNCHANGED <<ti, toks>>
           \/ ~ (ci + 1 < Tok.ml) /\ pc' = "lits"
    BY <1>5 DEF DecCopy, encCall
  <2>2. Tok \in TokenType /\ ci < Tok.ml
    BY <2>1, TokFacts DEF Good, Inv, DecInv, DecPc
  <2>3. Tok.ml \in Nat
    BY <2>2 DEF TokenType
  <2>4. Len(dout') = Len(dout) + 1
    BY <1>1, <2>1
  <2>5. Len(dout) + (Tok.ml - ci) <= cap
    BY <2>1 DEF RoomInv
  <2>6. CASE pc' = "copy"
    <3>1. ci' = ci + 1 /\ Tok' = Tok
      BY <2>1, <2>6 DEF Tok
    <3> QED
      BY <1>1, <2>1, <2>3, <2>4, <2>5, <2>6, <3>1 DEF RoomInv
  <2>7. CASE pc' = "lits"
    BY <1>1, <2>1, <2>2, <2>3, <2>4, <2>5, <2>7 DEF RoomInv
  <2> QED
    BY <2>1, <2>6, <2>7
<1>6. CASE pc' \notin {"lits", "match", "copy", "done"}
  BY <1>6 DEF RoomInv
<1>7. CASE UNCHANGED vars
  BY <1>7 DEF vars, encCall, decCall, RoomInv, Tok
<1> QED
  BY <1>2, <1>3, <1>4, <1>5, <1>6, <1>7
     DEF Next, EncBegin, EncNoMemory, Probe, EncHit, EncMiss, EncSearchEnd, EncEmit, EncHash,
         EncHashDone, EncLast

\* What is given fits, and is the input; what is refused does not fit.
Returns ==
    /\ src \in Seq(Byte) /\ cap \in Nat
    /\ pc = "done" => dout = src /\ cap >= Len(src)
    /\ pc = "failed" => cap < Len(src)

LEMMA Returned ==
    ASSUME Good, RoomInv
    PROVE  Returns
<1>1. src \in Seq(Byte) /\ dout \in Seq(Byte) /\ cap \in Nat
  BY SrcFacts DEF Good, TypeOK
<1>2. ASSUME pc = "done" PROVE dout = src /\ cap >= Len(src)
  <2>1. Len(dout) = Len(src) /\ Len(dout) <= cap /\ \A i \in 1 .. Len(dout) : dout[i] = src[i]
    BY <1>2, SrcFacts DEF Good, Inv, DecInv, SrcSize, RoomInv
  <2>2. dout = src
    BY <1>1, <2>1, SeqEqual
  <2> QED
    BY <1>1, <2>1, <2>2
<1>3. pc = "failed" => cap < Len(src)
  BY DEF Good, Inv, DecInv, FailsOnlyForRoom, SrcSize
<1> QED
  BY <1>1, <1>2, <1>3 DEF Returns

\* What the contract sees of a state.
Given == pc \in {"start"} \cup EncPc
Block == pc \in {"encoded"} \cup DecPc

LEMMA ContractStutter ==
    ASSUME src' = src,
           (UNCHANGED <<pc, cap, dout>>) \/ (Given /\ Given') \/ (Block /\ Block')
    PROVE  UNCHANGED Contract!vars
  BY DEF Contract!vars, Given, Block, EncPc, DecPc

LEMMA ContractDecompress ==
    ASSUME Returns', src' = src, Block, pc' \in {"done", "failed"}
    PROVE  Contract!Decompress
<1>1. /\ src \in Seq(Byte) /\ cap' \in Nat
      /\ pc' = "done" => dout' = src /\ cap' >= Len(src)
      /\ pc' = "failed" => cap' < Len(src)
  BY DEF Returns
<1>2. pc \notin {"done", "failed", "start"} \cup EncPc
  BY DEF Block, EncPc, DecPc
<1> QED
  BY <1>1, <1>2 DEF Contract!Decompress, Block, EncPc, DecPc

LEMMA ContractStep ==
    Good /\ Returns' /\ [Next]_vars => [Contract!Next]_(Contract!vars)
<1> SUFFICES ASSUME Good, Returns', [Next]_vars
             PROVE  [Contract!Next]_(Contract!vars)
  OBVIOUS
<1>1. src' = src
  BY DEF Next, EncBegin, EncNoMemory, Probe, EncHit, EncMiss, EncSearchEnd, EncEmit, EncHash,
         EncHashDone, EncLast, DecBegin, DecLits, DecMatch, DecCopy, vars
<1>2. CASE EncNoMemory
  <2>1. pc = "start" /\ pc' = "nomem" /\ SrcSize > 0
    BY <1>2 DEF EncNoMemory
  <2>2. src # <<>>
    <3>1. Len(<<>>) = 0
      OBVIOUS
    <3>2. SrcSize # 0
      BY <2>1, SrcFacts DEF Good
    <3> QED
      BY <3>1, <3>2 DEF SrcSize
  <2> QED
    BY <1>1, <2>1, <2>2 DEF EncPc, DecPc, Contract!Next, Contract!NoMemory
<1>3. CASE Given /\ pc' = "encoded"
  BY <1>1, <1>3 DEF Given, EncPc, DecPc, Contract!Next, Contract!Compress
<1>4. CASE Block /\ pc' \in {"done", "failed"}
  BY <1>1, <1>4, ContractDecompress DEF Contract!Next
<1>5. CASE (Given /\ Given') \/ (Block /\ Block')
  BY <1>1, <1>5, ContractStutter
<1>6. CASE UNCHANGED vars
  BY <1>6, ContractStutter DEF vars, decCall
<1> QED
  <2>1. CASE EncBegin \/ EncHit \/ EncMiss \/ EncSearchEnd \/ EncEmit \/ EncHash
             \/ EncHashDone \/ EncLast
    BY <1>3, <1>5, <2>1
       DEF EncBegin, Probe, EncHit, EncMiss, EncSearchEnd, EncEmit, EncHash, EncHashDone,
           EncLast, Given, EncPc
  <2>2. CASE (\E c \in DecCaps : DecBegin(c)) \/ DecLits \/ DecMatch \/ DecCopy
    BY <1>4, <1>5, <2>2 DEF DecBegin, DecLits, DecMatch, DecCopy, Block, DecPc
  <2> QED
    BY <1>2, <1>6, <2>1, <2>2 DEF Next

\* The block codec keeps the contract the frame functions rely on: a block is
\* made unless memory fails, and given back whole just when the buffer has room
\* for the input (elh.c:159-310, 578-610).
THEOREM ContractImplemented == Spec => ContractSpec
<1>1. Init => Good /\ RoomInv
  BY InitGood, RoomInit
<1>2. Good /\ RoomInv /\ [Next]_vars => RoomInv'
  BY RoomStep
<1>3. Init => Contract!Init
  BY DEF Init, Contract!Init
<1>4. Good /\ RoomInv => Returns
  BY Returned
<1>5. Good /\ Returns' /\ [Next]_vars => [Contract!Next]_(Contract!vars)
  BY ContractStep
<1>6. Good <=> TypeOK /\ Inv
  BY DEF Good
<1> QED
  BY <1>1, <1>2, <1>3, <1>4, <1>5, <1>6, InvCorrect, PTL
     DEF Spec, ContractSpec, Contract!Spec

-----------------------------------------------------------------------------
(***************************************************************************)
(* No loop runs for ever.                                                  *)
(***************************************************************************)
LEMMA RestFacts ==
    ASSUME TypeOK, NEW x \in Nat
    PROVE  /\ Rest(x) \in Nat /\ Rest(x) <= SrcSize + 1
           /\ \A y \in Nat : x < y /\ x <= SrcSize => Rest(y) < Rest(x)
<1>1. SrcSize \in Nat
  BY SrcFacts
<1> QED
  BY <1>1 DEF Rest

\* A lap outweighs all that is left within one.
LEMMA LapFalls ==
    ASSUME NEW s \in Nat, NEW a \in Nat, NEW b \in Nat, a < b, b <= s + 1,
           NEW u \in Nat, NEW v \in Nat, v < 2 * s + 5
    PROVE  a * (2 * s + 5) + v < b * (2 * s + 5) + u
<1> DEFINE lap == 2 * s + 5
<1>1. lap \in Nat
  OBVIOUS
<1>2. PICK d \in Nat : b = a + 1 + d
  <2>1. b - a - 1 \in Nat /\ b = a + 1 + (b - a - 1)
    OBVIOUS
  <2> QED
    BY <2>1
<1> HIDE DEF lap
<1>3. b * lap = a * lap + lap + d * lap
  BY <1>1, <1>2
<1>4. d * lap \in Nat /\ a * lap \in Nat
  BY <1>1
<1>5. v < lap
  BY DEF lap
<1>6. a * lap + v < b * lap + u
  <2> DEFINE x == a * lap
             y == d * lap
             z == b * lap
  <2>1. x \in Nat /\ y \in Nat /\ z = x + lap + y
    BY <1>3, <1>4
  <2> HIDE DEF x, y, z
  <2>2. x + v < z + u
    BY <1>1, <1>5, <2>1
  <2> QED
    BY <2>2 DEF x, z
<1> QED
  BY <1>6 DEF lap

LeftNat == StepsLeft \in Nat

LEMMA LeftType == Good => StepsLeft \in Nat
<1> SUFFICES ASSUME Good PROVE StepsLeft \in Nat
  OBVIOUS
<1>1. /\ SrcSize \in Nat /\ anchor \in Nat /\ Len(dout) \in Nat /\ Len(dout) <= SrcSize
      /\ ip \in Nat /\ hp \in Nat
      /\ pc \in {"start", "encoded", "nomem", "done", "failed"} \cup EncPc \cup DecPc
  BY SrcFacts DEF Good, TypeOK, Inv, DecInv
<1>2. Rest(ip) \in Nat /\ Rest(hp) \in Nat
  BY <1>1, RestFacts DEF Good
<1>3. CASE pc \in EncPc
  <2>1. SrcSize - anchor \in Nat /\ Lap \in Nat
    BY <1>1, <1>3 DEF Good, Inv, EncInv, Lap
  <2>2. (SrcSize - anchor) * Lap \in Nat
    BY <2>1
  <2>3. LapLeft \in Nat
    BY <1>1, <1>2, <1>3 DEF LapLeft, EncPc
  <2>4. StepsLeft = 3 * SrcSize + 4 + (SrcSize - anchor) * Lap + LapLeft
    BY <1>3 DEF StepsLeft, EncPc
  <2> DEFINE m == (SrcSize - anchor) * Lap
  <2>5. m \in Nat /\ StepsLeft = 3 * SrcSize + 4 + m + LapLeft
    BY <2>2, <2>4
  <2> HIDE DEF m
  <2> QED
    BY <1>1, <2>3, <2>5
<1>4. CASE pc = "start"
  <2>1. (SrcSize + 1) * Lap \in Nat
    BY <1>1 DEF Lap
  <2> DEFINE m == (SrcSize + 1) * Lap
  <2>2. m \in Nat /\ StepsLeft = 3 * SrcSize + 4 + m
    BY <1>4, <2>1 DEF StepsLeft, EncPc
  <2> HIDE DEF m
  <2> QED
    BY <1>1, <2>2
<1>5. CASE pc \notin {"start"} \cup EncPc
  <2>1. SrcSize - Len(dout) \in Nat
    BY <1>1
  <2>2. pc \in DecPc => StepsLeft \in {3 * (SrcSize - Len(dout)) + i : i \in 0 .. 2}
    <3>1. pc = "lits" => StepsLeft = 3 * (SrcSize - Len(dout)) + 2
      BY DEF StepsLeft, EncPc
    <3>2. pc = "match" => StepsLeft = 3 * (SrcSize - Len(dout)) + 1
      BY DEF StepsLeft, EncPc
    <3>3. pc = "copy" => StepsLeft = 3 * (SrcSize - Len(dout)) + 0
      BY <2>1 DEF StepsLeft, EncPc
    <3> QED
      BY <3>1, <3>2, <3>3 DEF DecPc
  <2>3. pc = "encoded" => StepsLeft = 3 * SrcSize + 3
    BY DEF StepsLeft, EncPc
  <2>4. pc \in {"done", "failed", "nomem"} => StepsLeft = 0
    BY DEF StepsLeft, EncPc
  <2> QED
    BY <1>1, <1>5, <2>1, <2>2, <2>3, <2>4
<1> QED
  BY <1>3, <1>4, <1>5

\* A step within a lap.
LEMMA WithinLap ==
    ASSUME Good, UNCHANGED <<src, anchor>>, pc \in EncPc, pc' \in EncPc,
           LapLeft \in Nat, LapLeft' \in Nat, LapLeft' < LapLeft
    PROVE  StepsLeft' < StepsLeft
<1>1. SrcSize \in Nat /\ SrcSize - anchor \in Nat /\ Lap \in Nat
  BY SrcFacts DEF Good, Inv, EncInv, TypeOK, Lap
<1> DEFINE m == (SrcSize - anchor) * Lap
<1>2. m \in Nat
  BY <1>1
<1>3. StepsLeft = 3 * SrcSize + 4 + m + LapLeft
  BY DEF StepsLeft, EncPc
<1>4. StepsLeft' = 3 * SrcSize + 4 + m + LapLeft'
  <2>1. SrcSize' = SrcSize /\ Lap' = Lap
    BY DEF SrcSize, Lap
  <2>2. StepsLeft' = 3 * SrcSize' + 4 + (SrcSize' - anchor') * Lap' + LapLeft'
    BY DEF StepsLeft, EncPc
  <2> QED
    BY <2>1, <2>2
<1> HIDE DEF m
<1> DEFINE u == LapLeft
           v == LapLeft'
           s == 3 * SrcSize + 4
<1>5. u \in Nat /\ v \in Nat /\ v < u /\ s \in Nat
  BY <1>1
<1>6. StepsLeft = s + m + u /\ StepsLeft' = s + m + v
  BY <1>3, <1>4
<1> HIDE DEF u, v, s
<1>7. s + m + v < s + m + u
  BY <1>2, <1>5
<1> QED
  BY <1>6, <1>7

\* A step that ends a lap.
LEMMA NextLap ==
    ASSUME Good, Good', src' = src, NEW a \in Nat, NEW u \in Nat, NEW v \in Nat,
           anchor' \in Nat, a < SrcSize + 1, SrcSize - anchor' = a,
           pc' \in EncPc, LapLeft' = v, v < Lap,
           \/ pc \in EncPc /\ anchor < anchor' /\ LapLeft = u
           \/ pc = "start" /\ u = 0
    PROVE  StepsLeft' < StepsLeft
<1>1. SrcSize \in Nat /\ anchor \in Nat /\ SrcSize' = SrcSize /\ Lap' = Lap /\ Lap = 2 * SrcSize + 5
  BY SrcFacts DEF Good, TypeOK, SrcSize, Lap
<1>2. PICK b \in Nat : /\ a < b /\ b <= SrcSize + 1
                       /\ StepsLeft = 3 * SrcSize + 4 + b * Lap + u
  <2>1. CASE pc \in EncPc
    <3>0. anchor < anchor' /\ LapLeft = u
      BY <2>1 DEF EncPc
    <3>1. SrcSize - anchor \in Nat /\ a < SrcSize - anchor /\ SrcSize - anchor <= SrcSize + 1
      <4>1. anchor <= SrcSize
        BY <2>1 DEF Good, Inv, EncInv
      <4>2. PICK s \in Nat, x \in Nat, y \in Nat : s = SrcSize /\ x = anchor /\ y = anchor'
        BY <1>1
      <4>3. x < y /\ x <= s /\ s - y = a
        BY <3>0, <4>1, <4>2
      <4>4. s - x \in Nat /\ a < s - x /\ s - x <= s + 1
        BY <4>3
      <4> QED
        BY <4>2, <4>4
    <3>2. StepsLeft = 3 * SrcSize + 4 + (SrcSize - anchor) * Lap + u
      BY <2>1, <3>0 DEF StepsLeft, EncPc
    <3> QED
      BY <3>1, <3>2
  <2>2. CASE pc = "start"
    <3>1. SrcSize + 1 \in Nat
      BY <1>1
    <3>2. StepsLeft = 3 * SrcSize + 4 + (SrcSize + 1) * Lap + 0
      <4>1. StepsLeft = 3 * SrcSize + 4 + (SrcSize + 1) * Lap
        BY <2>2 DEF StepsLeft, EncPc
      <4>2. (SrcSize + 1) * Lap \in Nat
        BY <1>1
      <4> QED
        BY <1>1, <4>1, <4>2
    <3>3. u = 0
      BY <2>2 DEF EncPc
    <3> QED
      BY <1>1, <3>1, <3>2, <3>3
  <2> QED
    BY <2>1, <2>2
<1>3. StepsLeft' = 3 * SrcSize + 4 + a * Lap + v
  BY <1>1 DEF StepsLeft, EncPc
<1>4. a * Lap + v < b * Lap + u
  BY <1>1, <1>2, LapFalls
<1> DEFINE x == a * Lap
           y == b * Lap
<1>5. x \in Nat /\ y \in Nat /\ x + v < y + u
  BY <1>1, <1>2, <1>4
<1>6. StepsLeft = 3 * SrcSize + 4 + y + u /\ StepsLeft' = 3 * SrcSize + 4 + x + v
  BY <1>2, <1>3
<1> HIDE DEF x, y
<1> QED
  BY <1>1, <1>5, <1>6

\* The search ends, and each match leaves the anchor behind.
LEMMA EncProgress ==
    ASSUME Good, Good',
           EncHit \/ EncMiss \/ EncSearchEnd \/ EncEmit \/ EncHash \/ EncHashDone
    PROVE  StepsLeft' < StepsLeft
<1>1. /\ SrcSize \in Nat /\ ip \in Nat /\ hp \in Nat /\ anchor \in Nat
      /\ MFL <= SrcSize /\ MFL \in Int /\ src' = src /\ SrcSize' = SrcSize
      /\ ip' \in Nat /\ hp' \in Nat /\ anchor' \in Nat
  <2>1. src' = src
    BY DEF EncHit, EncMiss, Probe, EncSearchEnd, EncEmit, EncHash, EncHashDone
  <2>2. /\ ip \in Nat /\ hp \in Nat /\ anchor \in Nat
        /\ ip' \in Nat /\ hp' \in Nat /\ anchor' \in Nat
    BY DEF Good, TypeOK
  <2>3. SrcSize \in Nat /\ MFL \in Int /\ MFL <= SrcSize
    BY SrcFacts, Sizes DEF Good
  <2> QED
    BY <2>1, <2>2, <2>3 DEF SrcSize
<1>2. Rest(ip) \in Nat /\ Rest(hp) \in Nat /\ Rest(ip) <= SrcSize + 1
  BY <1>1, RestFacts DEF Good
<1>3. /\ Rest(ip)' = IF ip' <= SrcSize THEN SrcSize + 1 - ip' ELSE 0
      /\ Rest(hp)' = IF hp' <= SrcSize THEN SrcSize + 1 - hp' ELSE 0
      /\ Rest(ip) = IF ip <= SrcSize THEN SrcSize + 1 - ip ELSE 0
      /\ Rest(hp) = IF hp <= SrcSize THEN SrcSize + 1 - hp ELSE 0
  BY <1>1 DEF Rest
<1>4. CASE EncHit
  <2>1. pc = "search" /\ pc' = "found" /\ UNCHANGED <<ip, anchor>>
    BY <1>4 DEF EncHit, Probe
  <2>2. Rest(ip)' = Rest(ip)
    BY <1>1, <2>1 DEF Rest
  <2>3. LapLeft = Rest(ip) + 1 /\ LapLeft' = Rest(ip)
    BY <2>1, <2>2 DEF LapLeft
  <2> QED
    BY <1>1, <1>2, <2>1, <2>3, WithinLap DEF EncPc
<1>5. CASE EncMiss
  <2>1. pc = "search" /\ pc' = "search" /\ UNCHANGED anchor /\ ip <= SrcSize
    BY <1>1, <1>5 DEF EncMiss, Probe
  <2>2. ip < ip'
    <3>1. params.skipDiv \in Nat \ {0} /\ skips \in Nat /\ skips' = skips + 1
      BY <1>5, BlockAssumption DEF EncMiss, Good, TypeOK
    <3>2. skips' \div params.skipDiv \in Nat /\ ip' = ip + 1 + skips' \div params.skipDiv
      BY <1>5, <3>1 DEF EncMiss
    <3> QED
      BY <1>1, <3>2
  <2>3. Rest(ip)' \in Nat /\ Rest(ip)' < Rest(ip)
    <3> DEFINE s == SrcSize
               x == ip
               y == ip'
               r1 == IF x <= s THEN s + 1 - x ELSE 0
               r2 == IF y <= s THEN s + 1 - y ELSE 0
    <3>1. s \in Nat /\ x \in Nat /\ y \in Nat /\ x < y /\ x <= s
      BY <1>1, <2>1, <2>2
    <3>2. Rest(ip)' = r2 /\ Rest(ip) = r1
      BY <1>3
    <3> HIDE DEF s, x, y
    <3>3. r2 \in Nat /\ r2 < r1
      BY <3>1
    <3> HIDE DEF r1, r2
    <3> QED
      BY <3>2, <3>3
  <2>4. LapLeft = Rest(ip) + 1 /\ LapLeft' = Rest(ip)' + 1
    BY <2>1 DEF LapLeft
  <2> QED
    BY <1>1, <1>2, <2>1, <2>3, <2>4, WithinLap DEF EncPc
<1>6. CASE EncSearchEnd
  <2>1. pc = "search" /\ pc' = "last" /\ UNCHANGED anchor
    BY <1>6 DEF EncSearchEnd, encCall
  <2>2. LapLeft = Rest(ip) + 1 /\ LapLeft' = 0
    BY <2>1 DEF LapLeft
  <2> QED
    BY <1>1, <1>2, <2>1, <2>2, WithinLap DEF EncPc
<1>7. CASE EncEmit
  <2>1. /\ pc = "found" /\ pc' = "hash" /\ ip' = MatchIp + MatchMl
        /\ anchor' = MatchIp + MatchMl /\ hp' = MatchIp + 2
    BY <1>7 DEF EncEmit, Back, MatchIp, MatchPos, MatchMl
  <2>2. anchor' > ip /\ anchor' <= ML /\ anchor <= ip
    <3>1. MatchIp + MatchMl > ip /\ MatchIp + MatchMl <= ML
      BY <2>1, EmitSpec
    <3>2. anchor <= ip
      BY <2>1 DEF Good, Inv, EncInv
    <3> QED
      BY <2>1, <3>1, <3>2
  <2>3. ML <= SrcSize /\ ML \in Int
    <3>1. ML = SrcSize - LastLiterals
      BY SrcFacts DEF Good
    <3> QED
      BY <1>1, <3>1, Sizes
  <2>4. anchor < anchor' /\ SrcSize - anchor' \in Nat /\ SrcSize - anchor' < SrcSize + 1
    <3> DEFINE s == SrcSize
               x == anchor
               y == anchor'
    <3>1. s \in Nat /\ x \in Nat /\ y \in Nat /\ x < y /\ y <= s
      <4>1. anchor < anchor'
        BY <1>1, <2>2
      <4>2. anchor' <= SrcSize
        BY <1>1, <2>2, <2>3
      <4> QED
        BY <1>1, <4>1, <4>2
    <3> HIDE DEF s, x, y
    <3>2. x < y /\ s - y \in Nat /\ s - y < s + 1
      BY <3>1
    <3> QED
      BY <3>2 DEF s, x, y
  <2>5. Rest(hp)' \in Nat /\ Rest(hp)' <= SrcSize + 1
    <3> DEFINE s == SrcSize
               y == hp'
    <3>1. s \in Nat /\ y \in Nat /\ Rest(hp)' = IF y <= s THEN s + 1 - y ELSE 0
      BY <1>1, <1>3
    <3> HIDE DEF s, y
    <3>2. (IF y <= s THEN s + 1 - y ELSE 0) \in Nat /\ (IF y <= s THEN s + 1 - y ELSE 0) <= s + 1
      BY <3>1
    <3> QED
      BY <3>1, <3>2 DEF s
  <2>6. LapLeft' = SrcSize + 3 + Rest(hp)' /\ LapLeft = Rest(ip)
    BY <1>1, <2>1 DEF LapLeft
  <2>7. LapLeft' \in Nat /\ LapLeft' < Lap /\ LapLeft \in Nat
    BY <1>1, <1>2, <2>5, <2>6 DEF Lap
  <2> DEFINE a == SrcSize - anchor'
             u == LapLeft
             v == LapLeft'
  <2>8. a \in Nat /\ a < SrcSize + 1 /\ u \in Nat /\ v \in Nat /\ v < Lap
    BY <2>4, <2>7
  <2>9. a = SrcSize - anchor' /\ u = LapLeft /\ v = LapLeft' /\ pc \in EncPc /\ pc' \in EncPc
    BY <2>1 DEF EncPc
  <2> HIDE DEF a, u, v
  <2> QED
    BY <1>1, <2>4, <2>8, <2>9, NextLap
<1>8. CASE EncHash
  <2>1. /\ pc = "hash" /\ pc' = "hash" /\ hp < ip - 1 /\ hp' = hp + 1 /\ UNCHANGED anchor
    BY <1>8 DEF EncHash
  <2>2. ip <= SrcSize
    BY <1>1, <2>1 DEF Good, Inv, EncInv, EncPc
  <2>3. Rest(hp)' \in Nat /\ Rest(hp)' < Rest(hp)
    BY <1>1, <1>3, <2>1, <2>2
  <2>4. LapLeft = SrcSize + 3 + Rest(hp) /\ LapLeft' = SrcSize + 3 + Rest(hp)'
    BY <1>1, <2>1 DEF LapLeft
  <2> QED
    BY <1>1, <1>2, <2>1, <2>3, <2>4, WithinLap DEF EncPc
<1>9. CASE EncHashDone
  <2>1. pc = "hash" /\ pc' \in {"last", "search"} /\ UNCHANGED <<ip, anchor>>
    BY <1>9 DEF EncHashDone
  <2>2. Rest(ip)' = Rest(ip)
    BY <1>1, <2>1 DEF Rest
  <2>3. LapLeft = SrcSize + 3 + Rest(hp) /\ LapLeft' \in {0, Rest(ip) + 1}
    BY <2>1, <2>2 DEF LapLeft
  <2> QED
    BY <1>1, <1>2, <2>1, <2>3, WithinLap DEF EncPc
<1> QED
  BY <1>4, <1>5, <1>6, <1>7, <1>8, <1>9

\* Both calls begin, and the encoder's ends.
LEMMA CallProgress ==
    ASSUME Good, Good', StepsLeft \in Nat, EncBegin \/ EncNoMemory \/ EncLast
    PROVE  StepsLeft' < StepsLeft
<1>1. SrcSize \in Nat /\ SrcSize' = SrcSize /\ anchor \in Nat /\ Lap \in Nat /\ src' = src
  <2>1. src' = src
    BY DEF EncBegin, EncNoMemory, EncLast
  <2>2. SrcSize \in Nat /\ anchor \in Nat
    BY SrcFacts DEF Good, TypeOK
  <2> QED
    BY <2>1, <2>2 DEF SrcSize, Lap
<1>2. CASE pc' \in {"encoded", "nomem"} /\ pc \in {"start", "last"}
  <2>1. StepsLeft' <= 3 * SrcSize + 3
    BY <1>1, <1>2 DEF StepsLeft, EncPc
  <2>2. StepsLeft >= 3 * SrcSize + 4
    <3>1. CASE pc = "start"
      <4>1. (SrcSize + 1) * Lap \in Nat
        BY <1>1
      <4> DEFINE m == (SrcSize + 1) * Lap
      <4>2. m \in Nat /\ StepsLeft = 3 * SrcSize + 4 + m
        BY <3>1, <4>1 DEF StepsLeft, EncPc
      <4> HIDE DEF m
      <4> QED
        BY <1>1, <4>2
    <3>2. CASE pc = "last"
      <4>1. SrcSize - anchor \in Nat
        BY <1>1, <3>2 DEF Good, Inv, EncInv, EncPc
      <4>2. (SrcSize - anchor) * Lap \in Nat
        BY <1>1, <4>1
      <4> DEFINE m == (SrcSize - anchor) * Lap
      <4>3. m \in Nat /\ StepsLeft = 3 * SrcSize + 4 + m + 0
        BY <3>2, <4>2 DEF StepsLeft, LapLeft, EncPc
      <4> HIDE DEF m
      <4> QED
        BY <1>1, <4>3
    <3> QED
      BY <1>2, <3>1, <3>2
  <2>3. StepsLeft' \in Int
    BY <1>1, <1>2 DEF StepsLeft, EncPc
  <2> QED
    BY <1>1, <2>1, <2>2, <2>3
<1>3. CASE EncBegin /\ pc' \in {"last", "search"}
  <2>1. pc = "start" /\ anchor = 0 /\ anchor' = 0 /\ ip' \in {0, 1}
    BY <1>3 DEF EncBegin, Good, Inv, TokensInv
  <2>2. LapLeft' \in Nat /\ LapLeft' < Lap
    BY <1>1, <1>3, <2>1 DEF LapLeft, Rest, Lap
  <2> DEFINE v == LapLeft'
  <2>3. v \in Nat /\ v < Lap /\ v = LapLeft' /\ pc' \in EncPc
    BY <1>3, <2>2 DEF EncPc
  <2> HIDE DEF v
  <2>4. SrcSize < SrcSize + 1 /\ SrcSize - anchor' = SrcSize /\ anchor' \in Nat /\ 0 \in Nat
    BY <1>1, <2>1
  <2> QED
    BY <1>1, <2>1, <2>3, <2>4, NextLap
<1> QED
  BY <1>2, <1>3 DEF EncBegin, EncNoMemory, EncLast

LEMMA DecProgress ==
    ASSUME Good, Good', (\E c \in DecCaps : DecBegin(c)) \/ DecLits \/ DecMatch \/ DecCopy
    PROVE  StepsLeft' < StepsLeft
<1>1. /\ SrcSize \in Nat /\ SrcSize' = SrcSize /\ dout \in Seq(Byte)
      /\ Len(dout) \in Nat /\ Len(dout) <= SrcSize
      /\ Len(dout') \in Nat /\ Len(dout') <= SrcSize
  <2>1. src' = src
    BY DEF DecBegin, DecLits, DecMatch, DecCopy
  <2>2. SrcSize \in Nat /\ SrcSize' = SrcSize
    BY <2>1, SrcFacts DEF Good, SrcSize
  <2>3. /\ dout \in Seq(Byte) /\ Len(dout) <= SrcSize
        /\ dout' \in Seq(Byte) /\ Len(dout') <= SrcSize'
    BY DEF Good, TypeOK, Inv, DecInv
  <2> QED
    BY <2>2, <2>3
<1>2. CASE \E c \in DecCaps : DecBegin(c)
  <2>1. pc = "encoded" /\ pc' \in {"done", "lits"} /\ dout' = dout
    BY <1>2 DEF DecBegin
  <2> QED
    BY <1>1, <2>1 DEF StepsLeft, EncPc
<1>3. CASE DecLits
  <2>1. pc = "lits" /\ pc' \in {"failed", "done", "match"}
    BY <1>3 DEF DecLits
  <2>2. Tok \in TokenType
    BY <2>1, TokFacts DEF DecPc
  <2>3. Len(dout') >= Len(dout)
    <3>1. CASE dout' = dout
      BY <1>1, <3>1
    <3>2. CASE dout' = dout \o Tok.lits
      <4>1. Tok.lits \in Seq(Byte) /\ Len(Tok.lits) \in Nat
        BY <2>2 DEF TokenType
      <4>2. Len(dout') = Len(dout) + Len(Tok.lits)
        BY <1>1, <3>2, <4>1, ConcatProperties
      <4> QED
        BY <1>1, <4>1, <4>2
    <3> QED
      BY <1>3, <3>1, <3>2 DEF DecLits
  <2> QED
    BY <1>1, <2>1, <2>3 DEF StepsLeft, EncPc
<1>4. CASE DecMatch
  <2>1. pc = "match" /\ pc' \in {"failed", "copy"} /\ dout' = dout
    BY <1>4 DEF DecMatch
  <2> QED
    BY <1>1, <2>1 DEF StepsLeft, EncPc
<1>5. CASE DecCopy
  <2>1. pc = "copy" /\ pc' \in {"copy", "lits"} /\ Len(dout') = Len(dout) + 1
    BY <1>1, <1>5 DEF DecCopy
  <2> QED
    BY <1>1, <2>1 DEF StepsLeft, EncPc
<1> QED
  BY <1>2, <1>3, <1>4, <1>5

\* Every step of a call brings its return nearer, for every input and every
\* parameter: the calls end, provided they run (elh.c:206-289, 587-608).
THEOREM ProgressCorrect == Spec => Progress
<1>1. Good => LeftNat
  BY LeftType DEF LeftNat
<1>2. Good /\ Good' /\ LeftNat /\ LeftNat' /\ [Next]_vars
        => [StepsLeft' < StepsLeft /\ StepsLeft' \in Nat]_vars
  BY EncProgress, CallProgress, DecProgress DEF LeftNat, Next
<1>3. Good <=> TypeOK /\ Inv
  BY DEF Good
<1> QED
  BY <1>1, <1>2, <1>3, InvCorrect, PTL DEF Spec, Progress
=============================================================================
