-------------------------- MODULE ElhStreamProofs ---------------------------
(***************************************************************************)
(* The streaming codec is lossless as long as the U32 counters do not      *)
(* wrap, for every tape, parameters, sizes of calls, resets and constants. *)
(*                                                                         *)
(* The argument: both rings hold the last Ring bytes of the tape at their  *)
(* places (WindowCurrent, HistoryCurrent), so a candidate the encoder      *)
(* verified through its ring repeats on the tape (FoundInv), every token   *)
(* says something true of the tape (GoodToken), and a decoder that starts  *)
(* a token at its place on the tape ends it at the place of the next       *)
(* (OutputInv).                                                            *)
(*                                                                         *)
(* What does not depend on the counters is proved without the condition:   *)
(* the types, the end of a block, that the decoder stays in its buffer,    *)
(* and that each step of a call brings its return nearer.                  *)
(***************************************************************************)
EXTENDS ElhStreamInv, ElhTableProofs, SequenceTheorems

-----------------------------------------------------------------------------
(***************************************************************************)
(* Type correctness, for every tape, every parameter and every value of    *)
(* the constants, and the lemmas about the operators that all parts use.   *)
(***************************************************************************)
\* What the proofs use of the assumptions.
LEMMA Sizes ==
    /\ N \in Nat /\ MinMatch \in Nat \ {0} /\ LastLiterals \in Nat \ {0}
    /\ MFLimit \in Nat /\ MFLimit >= MinMatch + LastLiterals
    /\ Ring \in Nat /\ Ring > 1 /\ DistMax = Ring - 1
    /\ PosMod \in Nat /\ PosMod > 0 /\ DistMax < PosMod
    /\ MeasureCap \in Nat /\ MeasureCap >= MinMatch
  BY StreamAssumption, TableAssumption

-----------------------------------------------------------------------------
(***************************************************************************)
(* The operators on the encoder's memory.                                  *)
(***************************************************************************)
LEMMA SrcByteType ==
    ASSUME TypeOK, Shape, NEW x \in Nat, x < len => pc \in EncPc
    PROVE  /\ SrcByte(x) \in Byte \cup {Junk}
           /\ x < len => SrcByte(x) = tape[sent + x] /\ tape[sent + x] \in Byte
<1>1. tape \in [0 .. N - 1 -> Byte] /\ sent \in Nat /\ len \in Nat
  BY StreamAssumption DEF TypeOK
<1>2. x < len => sent + x \in 0 .. N - 1
  BY <1>1, Sizes DEF Shape
<1> QED
  BY <1>1, <1>2 DEF SrcByte

LEMMA Read32Type ==
    ASSUME TypeOK, Shape, pc \in EncPc, NEW x \in Nat
    PROVE  Read32(x) \in Seq4 /\ Hash1(Read32(x)) \in Bucket1 /\ Hash2(Read32(x)) \in Bucket2
<1>1. \A j \in 0 .. MinMatch - 1 : SrcByte(x + j) \in Byte \cup {Junk}
  BY SrcByteType, Sizes
<1>2. Read32(x) \in Seq4
  BY <1>1 DEF Read32, Seq4
<1> QED
  BY <1>2, HashAssumption

LEMMA SPosType ==
    ASSUME TypeOK, NEW x \in Nat
    PROVE  SPos(x) \in Pos
  BY Sizes DEF TypeOK, SPos, Pos

\* A measured match has at least MinMatch and at most limit bytes, stays
\* before the last literals and repeats the bytes at p; it is maximal.
MatchSet(x, p, limit) ==
    {m \in MinMatch .. limit :
        \A j \in MinMatch .. m - 1 : x + j < ML /\ SrcByte(x + j) = GetAt(p, j)}

LEMMA MatchLenSpec ==
    ASSUME NEW x, NEW p, NEW limit \in Nat, limit >= MinMatch
    PROVE  /\ MatchLen(x, p, limit) \in MatchSet(x, p, limit)
           /\ \A m \in MatchSet(x, p, limit) : m <= MatchLen(x, p, limit)
           /\ MatchLen(x, p, limit) \in MinMatch .. limit
<1> DEFINE T == MatchSet(x, p, limit)
<1>1. MatchLen(x, p, limit) = Max(T)
  BY DEF MatchLen, MatchSet
<1>2. MinMatch \in T
  BY Sizes DEF MatchSet
<1>3. T \in SUBSET (0 .. limit) /\ T \in SUBSET (MinMatch .. limit)
  BY Sizes DEF MatchSet
<1> HIDE DEF T
<1>4. Max(T) \in T /\ \A y \in T : y <= Max(T)
  BY <1>2, <1>3, MaxBounded
<1> QED
  BY <1>1, <1>3, <1>4 DEF T

BackSet(x, p) ==
    {n \in 0 .. x - anchor : n <= p /\ \A j \in 1 .. n : SrcByte(x - j) = GetB(p - j)}

LEMMA BackLenSpec ==
    ASSUME TypeOK, NEW x \in Nat, anchor <= x, NEW p \in Nat
    PROVE  BackLen(x, p) \in BackSet(x, p) /\ BackLen(x, p) \in 0 .. x - anchor
<1> DEFINE T == BackSet(x, p)
<1>1. BackLen(x, p) = Max(T)
  BY DEF BackLen, BackSet
<1>2. anchor \in Nat /\ x - anchor \in Nat
  BY DEF TypeOK
<1>3. 0 \in T /\ T \in SUBSET (0 .. x - anchor)
  BY <1>2 DEF BackSet
<1> HIDE DEF T
<1>4. Max(T) \in T
  BY <1>2, <1>3, MaxBounded
<1> QED
  BY <1>1, <1>3, <1>4 DEF T

\* The candidate of a probe is 0 or a near entry of the table with the same
\* first bytes.
LEMMA CandidateSpec ==
    ASSUME TypeOK
    PROVE  /\ Candidate \in Pos
           /\ Candidate # 0 => /\ Candidate \in Entries(ht)
                               /\ SameSeq(ip, Candidate)
                               /\ Near(SPos(ip), Candidate, WLim)
<1> DEFINE length == [p \in Alike |-> MatchLen(ip, p, MeasureCap)]
<1>1. ht \in HashTable /\ ad.k \in Slot
  BY DEF TypeOK, Adaptation
<1>2. Alike \in SUBSET Entries(ht)
  BY DEF Alike
<1>3. \A p \in Alike : MatchLen(ip, p, MeasureCap) \in 0 .. MeasureCap
  BY MatchLenSpec, Sizes
<1>4. length \in [Alike -> 0 .. MeasureCap]
  BY <1>3
<1>5. Candidate = ElhGet(ht, Read32(ip), SPos(ip), ad.k, params.overflow, WLim, Alike, length)
  BY DEF Candidate
<1> HIDE DEF length
<1>6. Candidate = 0 \/ (Candidate \in Alike /\ Near(SPos(ip), Candidate, WLim))
  BY <1>1, <1>2, <1>4, <1>5, Sizes, GetIsUsable
<1>7. Entries(ht) \subseteq Pos
  BY <1>1 DEF Entries, HashTable
<1>8. 0 \in Pos
  BY Sizes DEF Pos
<1> QED
  BY <1>6, <1>7, <1>8 DEF Alike

LEMMA TapeSegType ==
    ASSUME NEW t \in Nat, NEW n \in Nat, t + n <= N, TypeOK
    PROVE  TapeSeg(t, n) \in Seq(Byte) /\ Len(TapeSeg(t, n)) = n
           /\ \A i \in 1 .. n : TapeSeg(t, n)[i] = tape[t + i - 1]
<1>1. \A i \in 1 .. n : tape[t + i - 1] \in Byte
  BY StreamAssumption, Sizes DEF TypeOK
<1> QED
  BY <1>1 DEF TapeSeg

\* A copy into a ring keeps it a ring.
LEMMA RingWriteType ==
    ASSUME NEW S, NEW ring \in [0 .. Ring - 1 -> S], NEW start \in Nat,
           NEW data \in Seq(S)
    PROVE  RingWrite(ring, start, data) \in [0 .. Ring - 1 -> S]
<1> DEFINE here(s) == {i \in DOMAIN data : (start + i - 1) % Ring = s}
<1>1. Len(data) \in Nat /\ DOMAIN data = 1 .. Len(data) /\ Ring \in Nat \ {0}
  BY Sizes
<1>2. RingWrite(ring, start, data) =
        [s \in 0 .. Ring - 1 |-> IF here(s) = {} THEN ring[s] ELSE data[Max(here(s))]]
  BY DEF RingWrite
<1>3. ASSUME NEW s \in 0 .. Ring - 1
      PROVE  (IF here(s) = {} THEN ring[s] ELSE data[Max(here(s))]) \in S
  <2>1. here(s) \in SUBSET (0 .. Len(data)) /\ here(s) \subseteq DOMAIN data
    BY <1>1
  <2> HIDE DEF here
  <2>2. CASE here(s) # {}
    <3>1. Max(here(s)) \in DOMAIN data
      BY <1>1, <2>1, <2>2, MaxBounded
    <3> QED
      BY <2>2, <3>1
  <2> QED
    BY <2>2
<1> QED
  BY <1>2, <1>3

\* After a copy into a ring the last Ring positions are at their places, the
\* new bytes and the old ones.
LEMMA RingWriteAt ==
    ASSUME NEW S, NEW ring \in [0 .. Ring - 1 -> S], NEW start \in Nat,
           NEW data \in Seq(S),
           NEW P \in Nat, P < start + Len(data), P + Ring >= start + Len(data)
    PROVE  RingWrite(ring, start, data)[P % Ring] =
             IF P >= start THEN data[P - start + 1] ELSE ring[P % Ring]
<1> DEFINE here(s) == {i \in DOMAIN data : (start + i - 1) % Ring = s}
           new == RingWrite(ring, start, data)
           n == Len(data)
<1>1. n \in Nat /\ DOMAIN data = 1 .. n /\ Ring \in Nat \ {0}
  BY Sizes
<1>2. new = [s \in 0 .. Ring - 1 |-> IF here(s) = {} THEN ring[s] ELSE data[Max(here(s))]]
  BY DEF RingWrite
<1>3. \A s : \A i \in here(s) : i \in 1 .. n /\ (start + i - 1) % Ring = s
  BY <1>1
<1>4. ASSUME NEW i \in 1 .. n, P = start + i - 1
      PROVE  i \in here(P % Ring)
  BY <1>1, <1>4
<1>5. P < start + n /\ P + Ring >= start + n
  OBVIOUS
<1> HIDE DEF here, n, new
<1>6. ASSUME NEW s, here(s) # {}
      PROVE  Max(here(s)) \in here(s) /\ \A i \in here(s) : i <= Max(here(s))
  <2>1. here(s) \in SUBSET (0 .. n)
    BY <1>1, <1>3
  <2> QED
    BY <1>1, <1>6, <2>1, MaxBounded
<1> DEFINE s == P % Ring
<1>7. s \in 0 .. Ring - 1
  BY <1>1
<1>8. new[s] = IF here(s) = {} THEN ring[s] ELSE data[Max(here(s))]
  BY <1>2, <1>7
\* No index after that of P falls on the slot of P.
<1>9. ASSUME NEW i \in here(s)
      PROVE  i \in 1 .. n /\ start + i - 1 <= P
  <2>1. i \in 1 .. n /\ (start + i - 1) % Ring = P % Ring
    BY <1>3
  <2>2. start + i - 1 \in Nat /\ start + i - 1 < P + Ring
    BY <1>1, <1>5, <2>1
  <2>3. ~ (P < start + i - 1)
    BY <1>1, <2>1, <2>2, DistinctRemainders
  <2> QED
    BY <2>1, <2>2, <2>3
<1> HIDE DEF s
<1>10. CASE P >= start
  <2>1. P - start + 1 \in here(s)
    <3>1. P - start + 1 \in 1 .. n
      BY <1>1, <1>5, <1>10
    <3>2. P = start + (P - start + 1) - 1
      OBVIOUS
    <3> QED
      BY <1>4, <3>1, <3>2 DEF s
  <2>2. Max(here(s)) \in here(s) /\ P - start + 1 <= Max(here(s))
    BY <1>6, <2>1
  <2>3. Max(here(s)) \in Nat /\ start + Max(here(s)) - 1 <= P
    BY <1>1, <1>9, <2>2
  <2>4. Max(here(s)) = P - start + 1
    BY <1>10, <2>2, <2>3
  <2> QED
    BY <1>8, <1>10, <2>1, <2>4 DEF s, new
<1>11. CASE P < start
  <2>1. here(s) = {}
    <3> SUFFICES ASSUME NEW i \in here(s)
                 PROVE  FALSE
      OBVIOUS
    <3>1. i \in 1 .. n /\ start + i - 1 <= P
      BY <1>9
    <3> QED
      BY <1>1, <1>11, <3>1
  <2> QED
    BY <1>8, <1>11, <2>1 DEF s, new
<1> QED
  BY <1>10, <1>11

-----------------------------------------------------------------------------
(***************************************************************************)
(* Type correctness.                                                       *)
(***************************************************************************)
TypeInv == TypeOK /\ Shape

LEMMA TypeInit == Init => TypeInv
<1> SUFFICES ASSUME Init PROVE TypeInv
  OBVIOUS
<1>1. 0 \in Pos /\ 1 \in Slot /\ Zero \in Byte
  BY StreamAssumption, TableAssumption DEF Pos, Slot
<1>2. NoCall \in Adaptation
  BY <1>1 DEF NoCall, Adaptation
<1>3. TypeOK
  BY <1>1, <1>2, EmptyTableType, Sizes DEF Init, TypeOK
<1>4. Shape
  BY DEF Init, Shape, EncPc, DecPc
<1> QED
  BY <1>3, <1>4 DEF TypeInv

LEMMA TypeEncBegin ==
    ASSUME TypeInv, NEW n \in ChunkLens, EncBegin(n)
    PROVE  TypeInv'
<1> USE DEF TypeInv
<1>1. n \in Nat /\ n > 0
  BY StreamAssumption
<1>2. ad' \in Adaptation
  <2>1. params.bucketK \in Int
    BY StreamAssumption DEF TypeOK
  <2>2. InitialDepth(params.bucketK) \in Slot
    BY <2>1, DepthType
  <2> QED
    BY <2>2 DEF EncBegin, Adaptation
<1>3. <<>> \in Seq(TokenType) /\ 0 \in Pos
  BY Sizes DEF Pos
<1>4. TypeOK'
  BY <1>1, <1>2, <1>3 DEF TypeOK, EncBegin, input, link, encVars, decVars, decCall
<1>5. Shape'
  BY <1>1 DEF TypeOK, Shape, EncBegin, input, link, encVars, decVars, decCall,
              EncPc, DecPc, MFL, Chunk
<1> QED
  BY <1>4, <1>5

\* An insertion at x leaves a well-formed table.
LEMMA InsertType ==
    ASSUME TypeInv, pc \in EncPc, NEW x \in Nat, Insert(x)
    PROVE  ht' \in HashTable
<1>1. Hash1(Read32(x)) \in Bucket1 /\ Hash2(Read32(x)) \in Bucket2
  BY Read32Type DEF TypeInv
<1>2. SPos(x) \in Pos /\ ht \in HashTable /\ ad.k \in Slot
  BY SPosType DEF TypeInv, TypeOK, Adaptation
<1> QED
  BY <1>1, <1>2, PutType DEF Insert

LEMMA TypeEncHit ==
    ASSUME TypeInv, EncHit
    PROVE  TypeInv'
<1> USE DEF TypeInv
<1>1. ht' \in HashTable
  BY InsertType DEF EncHit, TypeOK, EncPc
<1>2. ad' \in Adaptation
  BY EvictionsType, AdaptationType DEF EncHit, TypeOK
<1>3. mpos' \in Pos
  BY CandidateSpec DEF EncHit
<1>4. TypeOK'
  BY <1>1, <1>2, <1>3 DEF TypeOK, EncHit, input, link, decVars, decCall
<1>5. Shape'
  BY DEF TypeOK, Shape, EncHit, input, link, decVars, decCall,
         EncPc, DecPc, MFL, Chunk
<1> QED
  BY <1>4, <1>5

LEMMA TypeEncMiss ==
    ASSUME TypeInv, EncMiss
    PROVE  TypeInv'
<1> USE DEF TypeInv
<1>1. ht' \in HashTable
  BY InsertType DEF EncMiss, TypeOK, EncPc
<1>2. ad' \in Adaptation
  BY EvictionsType, AdaptationType DEF EncMiss, TypeOK
<1>3. skips' \in Nat /\ ip' \in Nat /\ ip' >= ip
  <2>1. params.skipDiv \in Nat \ {0}
    BY StreamAssumption DEF TypeOK
  <2>2. skips' \in Nat
    BY DEF EncMiss, TypeOK
  <2>3. skips' \div params.skipDiv \in Nat
    BY <2>1, <2>2
  <2> QED
    BY <2>2, <2>3 DEF EncMiss, TypeOK
<1>4. TypeOK'
  BY <1>1, <1>2, <1>3 DEF TypeOK, EncMiss, input, link, decVars, decCall
<1>5. Shape'
  BY <1>3 DEF TypeOK, Shape, EncMiss, input, link, decVars, decCall,
         EncPc, DecPc, MFL, Chunk
<1> QED
  BY <1>4, <1>5

LEMMA TypeEncSearchEnd ==
    ASSUME TypeInv, EncSearchEnd
    PROVE  TypeInv'
<1> USE DEF TypeInv
<1>1. TypeOK'
  BY DEF TypeOK, EncSearchEnd, input, link, encVars, decVars, decCall, encCall
<1>2. Shape'
  BY DEF TypeOK, Shape, EncSearchEnd, input, link, encVars, decVars, decCall, encCall,
         EncPc, DecPc, MFL, Chunk
<1> QED
  BY <1>1, <1>2

\* What EncEmit computes: how far the match was extended, where it starts, and
\* its length.
LEMMA EmitShape ==
    ASSUME TypeInv, pc = "found"
    PROVE  LET back == BackLen(ip, mpos)
               ml == MatchLen(ip - back, mpos - back, len)
           IN  /\ back \in 0 .. ip - anchor /\ back \in BackSet(ip, mpos)
               /\ back <= mpos
               /\ ip - back \in anchor .. ip
               /\ mpos - back \in Pos
               /\ ml \in MinMatch .. len
               /\ ml \in MatchSet(ip - back, mpos - back, len)
               /\ \A m \in MatchSet(ip - back, mpos - back, len) : m <= ml
<1> DEFINE back == BackLen(ip, mpos)
<1>1. ip \in Nat /\ anchor \in Nat /\ anchor <= ip /\ mpos \in Pos /\ mpos \in Nat
      /\ len \in Nat /\ ip <= len - MFLimit
  BY Sizes DEF TypeInv, TypeOK, Shape, MFL, Pos
<1>2. back \in 0 .. ip - anchor /\ back \in BackSet(ip, mpos)
  BY <1>1, BackLenSpec DEF TypeInv
<1>3. back <= mpos
  BY <1>2 DEF BackSet
<1>4. ip - back \in anchor .. ip /\ mpos - back \in Pos
  BY <1>1, <1>2, <1>3, Sizes DEF Pos
<1>5. len >= MinMatch
  BY <1>1, Sizes
<1> QED
  BY <1>1, <1>2, <1>3, <1>4, <1>5, MatchLenSpec

LEMMA MatchEnd ==
    ASSUME NEW x, NEW p, NEW m \in MatchSet(x, p, len), TypeInv, x \in Nat,
           x + MinMatch <= len
    PROVE  x + m <= len
<1>1. m \in MinMatch .. len /\ \A j \in MinMatch .. m - 1 : x + j < ML
  BY DEF MatchSet
<1>2. len \in Nat /\ ML < len
  BY Sizes DEF ML, TypeInv, TypeOK
<1>3. CASE m = MinMatch
  BY <1>3
<1>4. CASE m > MinMatch
  <2>1. x + (m - 1) < ML
    BY <1>1, <1>4, Sizes
  <2> QED
    BY <1>1, <1>2, <2>1, Sizes DEF ML
<1> QED
  BY <1>1, <1>3, <1>4, Sizes

LEMMA TokenTypeOfMatch ==
    ASSUME TypeInv, pc = "found", NEW x \in anchor .. ip, NEW p \in Pos, NEW ml \in Nat
    PROVE  MatchToken(x, p, ml) \in TokenType
<1>1. /\ anchor \in Nat /\ ip \in Nat /\ sent \in Nat /\ len \in Nat /\ curPos \in Int
      /\ ip <= len - MFLimit /\ sent + len <= N
  BY DEF TypeInv, TypeOK, Shape, MFL, EncPc, Pos
<1>2. TapeSeg(sent + anchor, x - anchor) \in Seq(Byte)
  <2>1. sent + anchor \in Nat /\ x - anchor \in Nat /\ (sent + anchor) + (x - anchor) <= N
    BY <1>1, Sizes
  <2> QED
    BY <2>1, TapeSegType DEF TypeInv
<1>3. TapeSeg(sent + anchor, x - anchor) \in Seq(Byte \cup {Junk})
  BY <1>2
<1> DEFINE off == Dist(SPos(x), p)
           off16 == IF params.wide /\ off > Ring - 2 THEN Ring - 1 ELSE off % Ring
<1>4. off \in Pos
  BY <1>1, Sizes, SPosType DEF TypeInv, Dist, Pos
<1>5. off16 \in 0 .. Ring - 1
  BY <1>4, Sizes DEF Pos
<1>6. sent + anchor \in Nat
  BY <1>1
<1>7. MatchToken(x, p, ml) =
        [lits |-> TapeSeg(sent + anchor, x - anchor), off16 |-> off16, off32 |-> off,
         ml |-> ml, at |-> sent + anchor]
  BY DEF MatchToken
<1> HIDE DEF off, off16
<1> QED
  BY <1>3, <1>4, <1>5, <1>6, <1>7 DEF TokenType

LEMMA TypeEncEmit ==
    ASSUME TypeInv, EncEmit
    PROVE  TypeInv'
<1> DEFINE back == BackLen(ip, mpos)
           ml == MatchLen(ip - back, mpos - back, len)
<1>1. /\ back \in 0 .. ip - anchor /\ ip - back \in anchor .. ip
      /\ mpos - back \in Pos /\ ml \in MinMatch .. len
      /\ ml \in MatchSet(ip - back, mpos - back, len)
  BY EmitShape DEF EncEmit
<1> HIDE DEF back, ml
<1>2. /\ ip \in Nat /\ anchor \in Nat /\ len \in Nat /\ ip <= len - MFLimit
      /\ ip - back \in Nat /\ ml \in Nat
  BY <1>1, Sizes DEF TypeInv, TypeOK, Shape, EncEmit, MFL
<1>3. ip - back + ml <= len
  <2>1. (ip - back) + MinMatch <= len
    BY <1>1, <1>2, Sizes
  <2> QED
    BY <1>1, <1>2, <2>1, MatchEnd
<1>4. toks' \in Seq(TokenType)
  <2>1. MatchToken(ip - back, mpos - back, ml) \in TokenType
    BY <1>1, <1>2, TokenTypeOfMatch DEF EncEmit
  <2> QED
    BY <2>1 DEF EncEmit, TypeInv, TypeOK, back, ml
<1>5. /\ ip' = ip - back + ml /\ anchor' = ip - back + ml /\ hp' = ip - back + 2
      /\ mpos' = mpos - back /\ ip' \in Nat /\ hp' \in Nat /\ pc' = "hash"
  BY <1>2 DEF EncEmit, back, ml
<1>6. TypeOK'
  BY <1>1, <1>2, <1>4, <1>5
     DEF TypeInv, TypeOK, EncEmit, input, link, encVars, decVars, decCall
<1>7. Shape'
  BY <1>1, <1>2, <1>3, <1>5
     DEF TypeInv, TypeOK, Shape, EncEmit, input, link, encVars, decVars, decCall,
         EncPc, DecPc, MFL, Chunk
<1> QED
  BY <1>6, <1>7 DEF TypeInv

LEMMA TypeEncHash ==
    ASSUME TypeInv, EncHash
    PROVE  TypeInv'
<1> USE DEF TypeInv
<1>1. ht' \in HashTable
  BY InsertType DEF EncHash, TypeOK, EncPc
<1>2. TypeOK'
  BY <1>1 DEF TypeOK, EncHash, input, link, decVars, decCall
<1>3. Shape'
  BY DEF TypeOK, Shape, EncHash, input, link, decVars, decCall, EncPc, DecPc, MFL, Chunk
<1> QED
  BY <1>2, <1>3

LEMMA TypeEncHashDone ==
    ASSUME TypeInv, EncHashDone
    PROVE  TypeInv'
<1> USE DEF TypeInv
<1>1. TypeOK'
  BY DEF TypeOK, EncHashDone, input, link, encVars, decVars, decCall
<1>2. Shape'
  BY DEF TypeOK, Shape, EncHashDone, input, link, encVars, decVars, decCall,
         EncPc, DecPc, MFL, Chunk
<1> QED
  BY <1>1, <1>2

LEMMA TypeEncLast ==
    ASSUME TypeInv, EncLast
    PROVE  TypeInv'
<1> USE DEF TypeInv
<1>1. /\ anchor \in Nat /\ len \in Nat /\ sent \in Nat /\ sent + len <= N
      /\ anchor <= len /\ curPos \in Nat
  BY DEF TypeOK, Shape, EncLast, EncPc, Pos
<1>2. win' \in [0 .. Ring - 1 -> Byte]
  <2>1. TapeSeg(sent, len) \in Seq(Byte)
    BY <1>1, TapeSegType
  <2> QED
    BY <1>1, <2>1, RingWriteType DEF EncLast, TypeOK
<1>3. wire' \in Seq(ChunkType) /\ wire' # <<>>
  <2>1. TapeSeg(sent + anchor, len - anchor) \in Seq(Byte \cup {Junk})
    <3>1. sent + anchor \in Nat /\ len - anchor \in Nat /\ (sent + anchor) + (len - anchor) <= N
      BY <1>1
    <3>2. TapeSeg(sent + anchor, len - anchor) \in Seq(Byte)
      BY <3>1, TapeSegType
    <3> QED
      BY <3>2
  <2>2. LastToken \in TokenType
    BY <1>1, <2>1, Sizes DEF LastToken, TokenType, Pos
  <2>3. Append(toks, LastToken) \in Seq(TokenType)
    BY <2>2 DEF TypeOK
  <2>4. Max(resets) \in Nat
    <3>1. resets \in SUBSET (0 .. N) /\ resets # {} /\ N \in Nat
      BY Sizes DEF TypeOK
    <3>2. Max(resets) \in resets
      BY <3>1, MaxBounded
    <3>3. Max(resets) \in 0 .. N
      BY <3>1, <3>2
    <3> QED
      BY <3>1, <3>3
  <2>5. [toks |-> Append(toks, LastToken), raw |-> len, start |-> sent,
         epoch |-> Max(resets)] \in ChunkType
    BY <1>1, <2>3, <2>4 DEF ChunkType
  <2> QED
    BY <2>5 DEF EncLast, TypeOK
<1>4. \A i \in 1 .. Len(wire') : wire'[i].toks # <<>>
  <2>1. Append(toks, LastToken) # <<>>
    BY AppendFacts DEF TypeOK
  <2> DEFINE c == [toks |-> Append(toks, LastToken), raw |-> len, start |-> sent,
                   epoch |-> Max(resets)]
  <2>2. wire \in Seq(ChunkType) /\ \A i \in 1 .. Len(wire) : wire[i].toks # <<>>
    BY DEF TypeOK, Shape
  <2>3. wire' = Append(wire, c) /\ c.toks # <<>>
    BY <2>1 DEF EncLast
  <2> HIDE DEF c
  <2>4. /\ Len(wire) \in Nat /\ Len(wire') = Len(wire) + 1 /\ wire'[Len(wire) + 1] = c
        /\ \A i \in 1 .. Len(wire) : wire'[i] = wire[i]
    BY <2>2, <2>3, AppendFacts
  <2> QED
    BY <2>2, <2>3, <2>4
<1>5. curPos' \in Pos /\ 0 \in Pos /\ NoCall \in Adaptation /\ <<>> \in Seq(TokenType)
  <2>1. (curPos + len) % PosMod \in 0 .. PosMod - 1
    BY <1>1, Sizes
  <2>2. 1 \in Slot
    BY TableAssumption DEF Slot
  <2>3. curPos' = (curPos + len) % PosMod
    BY DEF EncLast
  <2>4. NoCall \in Adaptation
    BY <2>2 DEF NoCall, Adaptation
  <2>5. 0 \in Pos
    BY Sizes DEF Pos
  <2> QED
    BY <2>1, <2>3, <2>4, <2>5 DEF Pos
<1>6. TypeOK'
  BY <1>1, <1>2, <1>3, <1>5 DEF TypeOK, EncLast, input, decVars, decCall
<1>7. Shape'
  BY <1>4, <1>5 DEF TypeOK, Shape, EncLast, input, decVars, decCall, EncPc, DecPc
<1> QED
  BY <1>6, <1>7

LEMMA TypeResetEnc ==
    ASSUME TypeInv, ResetEnc
    PROVE  TypeInv'
<1> USE DEF TypeInv
<1>1. 0 \in Pos
  BY Sizes DEF Pos
<1>2. TypeOK'
  BY <1>1, EmptyTableType DEF TypeOK, ResetEnc, input, decVars, decCall, encCall
<1>3. Shape'
  BY DEF TypeOK, Shape, ResetEnc, input, decVars, decCall, encCall, EncPc, DecPc
<1> QED
  BY <1>2, <1>3

\* The chunk a decoder call works on, and its current token.
LEMMA TokType ==
    ASSUME TypeInv, pc \in DecPc
    PROVE  Chunk \in ChunkType /\ Tok \in TokenType
<1>1. Chunk \in ChunkType
  BY DEF TypeInv, TypeOK, Shape, Chunk
<1> QED
  BY <1>1 DEF TypeInv, Shape, Tok, ChunkType

LEMMA TypeDecBegin ==
    ASSUME TypeInv, NEW c \in DecCaps, DecBegin(c)
    PROVE  TypeInv'
<1> USE DEF TypeInv
<1>1. c \in Nat
  BY StreamAssumption
<1>2. TypeOK'
  BY <1>1 DEF TypeOK, DecBegin, input, link, encVars, decVars, encCall
<1>3. Len(Chunk.toks) >= 1
  <2>1. Chunk \in ChunkType /\ Chunk.toks # <<>>
    BY DEF TypeOK, Shape, DecBegin, Chunk
  <2> QED
    BY <2>1 DEF ChunkType
<1>4. Shape'
  BY <1>3 DEF TypeOK, Shape, DecBegin, input, link, encVars, decVars, encCall,
              EncPc, DecPc, Chunk
<1> QED
  BY <1>2, <1>4

\* A failing call leaves everything but its result alone.
LEMMA TypeFail ==
    ASSUME TypeInv, pc \in DecPc, Fail,
           UNCHANGED <<input, link, encVars, decVars, encCall>>
    PROVE  TypeInv'
<1> USE DEF TypeInv
<1>1. TypeOK'
  BY DEF TypeOK, Fail, input, link, encVars, decVars, encCall
<1>2. Shape'
  BY DEF TypeOK, Shape, Fail, input, link, encVars, decVars, encCall, EncPc, DecPc, Chunk
<1> QED
  BY <1>1, <1>2

LEMMA TypeDecLits ==
    ASSUME TypeInv, DecLits
    PROVE  TypeInv'
<1>1. CASE Fail
  BY <1>1, TypeFail DEF DecLits, DecPc
<1>2. CASE ~ Fail
  <2>1. /\ dout' = dout \o Tok.lits
        /\ pc' = IF ti = Len(Chunk.toks) THEN "return" ELSE "match"
        /\ UNCHANGED <<cap, ti, ci, dret>>
        /\ UNCHANGED <<input, link, encVars, decVars, encCall>>
        /\ pc = "lits"
    BY <1>2 DEF DecLits
  <2>2. Tok.lits \in Seq(Byte \cup {Junk})
    BY <2>1, TokType DEF DecPc, TokenType
  <2>3. TypeOK'
    BY <2>1, <2>2 DEF TypeInv, TypeOK, input, link, encVars, decVars, encCall
  <2>4. Chunk' = Chunk /\ Chunk \in ChunkType
    BY <2>1, TokType DEF Chunk, link, DecPc
  <2>5. Shape'
    BY <2>1, <2>4 DEF TypeInv, TypeOK, Shape, input, link, encVars, decVars, encCall,
                      EncPc, DecPc, ChunkType
  <2> QED
    BY <2>3, <2>5 DEF TypeInv
<1> QED
  BY <1>1, <1>2

LEMMA TypeDecMatch ==
    ASSUME TypeInv, DecMatch
    PROVE  TypeInv'
<1>1. CASE Fail
  BY <1>1, TypeFail DEF DecMatch, DecPc
<1>2. CASE ~ Fail
  <2>1. /\ pc' = "copy" /\ ci' = 0 /\ UNCHANGED <<cap, ti, dout, dret>>
        /\ UNCHANGED <<input, link, encVars, decVars, encCall>>
        /\ pc = "match"
    BY <1>2 DEF DecMatch
  <2>2. TypeOK'
    BY <2>1 DEF TypeInv, TypeOK, input, link, encVars, decVars, encCall
  <2>3. Shape'
    BY <2>1 DEF TypeInv, TypeOK, Shape, input, link, encVars, decVars, encCall,
                EncPc, DecPc, Chunk
  <2> QED
    BY <2>2, <2>3 DEF TypeInv
<1> QED
  BY <1>1, <1>2

LEMMA TypeCopyByte ==
    ASSUME TypeInv, pc = "copy"
    PROVE  CopyByte \in Byte \cup {Junk}
<1>1. Tok \in TokenType
  BY TokType DEF DecPc
<1>2. Offset \in Nat
  BY <1>1, Sizes DEF Offset, TokenType, Pos
<1>3. /\ dout \in Seq(Byte \cup {Junk}) /\ Len(dout) \in Nat /\ ci \in Nat
      /\ histPos \in Nat /\ hist \in [0 .. Ring - 1 -> Byte \cup {Junk}]
  BY DEF TypeInv, TypeOK, Pos
<1>4. ASSUME NEW x \in Nat
      PROVE  OutByte(x) \in Byte \cup {Junk}
  BY <1>3 DEF OutByte
<1> DEFINE absPos == (histPos + (Len(dout) - ci) - Offset + ci) % PosMod
<1>5. absPos \in Nat /\ absPos % Ring \in 0 .. Ring - 1
  BY <1>2, <1>3, Sizes
<1>6. CopyByte = IF Offset <= Len(dout) - ci THEN OutByte(Len(dout) - Offset)
                 ELSE IF absPos >= histPos THEN OutByte(absPos - histPos)
                 ELSE hist[absPos % Ring]
  BY DEF CopyByte
<1>7. CASE Offset <= Len(dout) - ci
  <2>1. Len(dout) - Offset \in Nat
    BY <1>2, <1>3, <1>7
  <2> QED
    BY <1>4, <1>6, <1>7, <2>1
<1> HIDE DEF absPos
<1>8. CASE ~ (Offset <= Len(dout) - ci) /\ absPos >= histPos
  <2>1. absPos - histPos \in Nat
    BY <1>3, <1>5, <1>8
  <2> QED
    BY <1>4, <1>6, <1>8, <2>1
<1>9. CASE ~ (Offset <= Len(dout) - ci) /\ ~ (absPos >= histPos)
  BY <1>3, <1>5, <1>6, <1>9
<1> QED
  BY <1>7, <1>8, <1>9

LEMMA TypeDecCopy ==
    ASSUME TypeInv, DecCopy
    PROVE  TypeInv'
<1>1. CopyByte \in Byte \cup {Junk}
  BY TypeCopyByte DEF DecCopy
<1>2. ti' \in Nat /\ ci' \in Nat /\ pc' \in {"copy", "lits"}
  BY DEF DecCopy, TypeInv, TypeOK
<1>3. TypeOK'
  BY <1>1, <1>2 DEF DecCopy, TypeInv, TypeOK, input, link, encVars, decVars, encCall
<1>4. Chunk' = Chunk /\ Chunk \in ChunkType
  BY TokType DEF Chunk, link, DecPc, DecCopy
<1>5. ti' \in 1 .. Len(Chunk.toks) /\ (pc' = "copy" => ti' < Len(Chunk.toks))
  <2>1. ti \in 1 .. Len(Chunk.toks) /\ ti < Len(Chunk.toks) /\ Len(Chunk.toks) \in Nat
    BY <1>4 DEF DecCopy, TypeInv, Shape, ChunkType, DecPc
  <2>2. \/ ti' = ti
        \/ ti' = ti + 1 /\ pc' = "lits"
    BY DEF DecCopy
  <2> QED
    BY <2>1, <2>2
<1>6. Shape'
  BY <1>2, <1>4, <1>5 DEF DecCopy, TypeInv, Shape, input, link, encVars, decVars, encCall,
                          EncPc, DecPc
<1> QED
  BY <1>3, <1>6 DEF TypeInv

LEMMA TypeDecReturn ==
    ASSUME TypeInv, DecReturn
    PROVE  TypeInv'
<1>1. hist' \in [0 .. Ring - 1 -> Byte \cup {Junk}]
  <2>1. /\ hist \in [0 .. Ring - 1 -> Byte \cup {Junk}] /\ histPos \in Nat
        /\ dout \in Seq(Byte \cup {Junk})
    BY DEF TypeInv, TypeOK, Pos
  <2>2. hist' = RingWrite(hist, histPos, dout)
    BY DEF DecReturn
  <2> QED
    BY <2>1, <2>2, RingWriteType
<1>2. histPos' \in Pos
  BY Sizes DEF DecReturn, TypeInv, TypeOK, Pos
<1>3. recvd' \in Seq(Byte \cup {Junk}) /\ <<>> \in Seq(Byte \cup {Junk})
  BY DEF DecReturn, TypeInv, TypeOK
<1>4. wire' \in Seq(ChunkType) /\ \A i \in 1 .. Len(wire') : wire'[i].toks # <<>>
  BY DEF DecReturn, TypeInv, TypeOK, Shape, DecPc
<1>5. Len(dout) \in Nat
  BY DEF TypeInv, TypeOK
<1>6. TypeOK'
  BY <1>1, <1>2, <1>3, <1>4, <1>5 DEF DecReturn, TypeInv, TypeOK, input, encVars, encCall
<1>7. Shape'
  BY <1>4 DEF DecReturn, TypeInv, TypeOK, Shape, input, encVars, encCall, EncPc, DecPc
<1> QED
  BY <1>6, <1>7 DEF TypeInv

LEMMA TypeResetDec ==
    ASSUME TypeInv, ResetDec
    PROVE  TypeInv'
<1>1. 0 \in Pos
  BY Sizes DEF Pos
<1>2. TypeOK'
  BY <1>1 DEF ResetDec, TypeInv, TypeOK, input, link, encVars, encCall, decCall
<1>3. Shape'
  BY DEF ResetDec, TypeInv, TypeOK, Shape, input, link, encVars, encCall, decCall,
         EncPc, DecPc, Chunk
<1> QED
  BY <1>2, <1>3 DEF TypeInv

LEMMA TypeStutter ==
    ASSUME TypeInv, UNCHANGED vars
    PROVE  TypeInv'
<1>1. TypeOK'
  BY DEF TypeInv, TypeOK, vars, input, link, encVars, decVars, encCall, decCall
<1>2. Shape'
  BY DEF TypeInv, TypeOK, Shape, vars, input, link, encVars, decVars, encCall, decCall,
         EncPc, DecPc, MFL, Chunk
<1> QED
  BY <1>1, <1>2 DEF TypeInv

LEMMA TypeStep == TypeInv /\ [Next]_vars => TypeInv'
<1> SUFFICES ASSUME TypeInv, [Next]_vars PROVE TypeInv'
  OBVIOUS
<1>1. ASSUME NEW n \in ChunkLens, EncBegin(n) PROVE TypeInv'
  BY <1>1, TypeEncBegin
<1>2. CASE EncStep
  BY <1>2, TypeEncHit, TypeEncMiss, TypeEncSearchEnd, TypeEncEmit, TypeEncHash,
     TypeEncHashDone, TypeEncLast DEF EncStep
<1>3. ASSUME NEW c \in DecCaps, DecBegin(c) PROVE TypeInv'
  BY <1>3, TypeDecBegin
<1>4. CASE DecStep
  BY <1>4, TypeDecLits, TypeDecMatch, TypeDecCopy, TypeDecReturn DEF DecStep
<1> QED
  BY <1>1, <1>2, <1>3, <1>4, TypeResetEnc, TypeResetDec, TypeStutter DEF Next

\* In every state of the codec every variable has its type: positions fit in
\* a U32 and wrap there, depths stay within a bucket, rings hold bytes.
THEOREM TypeCorrect == Spec => []TypeOK
<1>1. Init => TypeInv
  BY TypeInit
<1>2. TypeInv /\ [Next]_vars => TypeInv'
  BY TypeStep
<1>3. TypeInv => TypeOK
  BY DEF TypeInv
<1> QED
  BY <1>1, <1>2, <1>3, PTL DEF Spec

-----------------------------------------------------------------------------
(***************************************************************************)
(* The inductive invariant.                                                *)
(***************************************************************************)
\* The tape is shorter than the range of the counters: 4 GiB.
NoWrap == N < PosMod

-----------------------------------------------------------------------------
(***************************************************************************)
(* Frames: a step of one side leaves the invariant of the other alone.     *)
(***************************************************************************)
LEMMA WireFrame ==
    ASSUME UNCHANGED <<tape, resets>>, \A i \in 1 .. Len(wire') : GoodChunk(wire'[i])
    PROVE  GoodWire'
<1> SUFFICES ASSUME NEW i \in 1 .. Len(wire')
             PROVE  GoodChunk(wire[i])'
  BY DEF GoodWire
<1>1. tape' = tape /\ resets' = resets /\ GoodChunk(wire'[i])
  OBVIOUS
<1>2. GoodTokens(wire'[i].toks, wire'[i].start, wire'[i].epoch,
                 wire'[i].start + wire'[i].raw)
  BY <1>1 DEF GoodChunk
<1>3. ASSUME NEW k \in 1 .. Len(wire'[i].toks)
      PROVE  GoodToken(wire[i].toks[k], wire[i].epoch, wire[i].start + wire[i].raw)'
  <2>1. GoodToken(wire'[i].toks[k], wire'[i].epoch, wire'[i].start + wire'[i].raw)
    BY <1>2 DEF GoodTokens
  <2> QED
    BY <1>1, <2>1 DEF GoodToken, TokEnd
<1>4. GoodTokens(wire[i].toks, wire[i].start, wire[i].epoch,
                 wire[i].start + wire[i].raw)'
  BY <1>2, <1>3 DEF GoodTokens, TokEnd
<1> QED
  BY <1>1, <1>4 DEF GoodChunk, TokEnd

LEMMA LinkFrame ==
    ASSUME LinkInv, UNCHANGED <<tape, sent, curPos, resets, recvd, histPos, wire>>
    PROVE  LinkInv'
<1>1. Counters' /\ Chain'
  BY DEF LinkInv, Counters, Chain, EncBase, DecBase
<1>2. GoodWire'
  BY WireFrame DEF LinkInv, GoodWire
<1> QED
  BY <1>1, <1>2 DEF LinkInv

LEMMA EncFrame ==
    ASSUME EncInv, pc \notin EncPc, pc' \notin EncPc,
           UNCHANGED <<tape, sent, ht, curPos, win, len>>
    PROVE  EncInv'
  BY DEF EncInv, TableInv, WindowCurrent, FoundInv, CallInv, EncPc, EncBase

LEMMA DecFrame ==
    ASSUME DecInv, pc' \notin DecPc,
           UNCHANGED <<tape, sent, wire, hist, histPos, recvd, cap, dret>>
    PROVE  DecInv'
  BY DEF DecInv, HistoryCurrent, OutputInv, FailsOnlyForRoom, Lossless, DecBase

-----------------------------------------------------------------------------
(***************************************************************************)
(* What the encoder reads.                                                 *)
(***************************************************************************)
Good == NoWrap /\ TypeInv /\ Inv

\* The ranges of the encoder's variables during a call.
LEMMA EncRanges ==
    ASSUME Good, pc \in EncPc
    PROVE  /\ len \in Nat /\ len > 0 /\ sent \in Nat /\ curPos \in Nat /\ ip \in Nat
           /\ anchor \in Nat /\ anchor <= len /\ hp \in Nat /\ mpos \in Nat
           /\ curPos <= sent /\ sent + len <= N /\ curPos + len < PosMod
           /\ EncBase \in Nat /\ EncBase = sent - curPos
  BY Sizes DEF Good, NoWrap, TypeInv, TypeOK, Shape, Inv, LinkInv, Counters, EncBase, Pos

\* A position the ring still has or the chunk already has reads its tape byte.
LEMMA GetBOnTape ==
    ASSUME Good, pc \in EncPc, NEW P \in Nat, P < curPos + len, P + Ring >= curPos
    PROVE  GetB(P) = tape[EncBase + P]
<1>1. CASE P >= curPos
  <2>1. P - curPos \in Nat /\ P - curPos < len
    BY <1>1, EncRanges
  <2>2. SrcByte(P - curPos) = tape[sent + (P - curPos)]
    BY <2>1, SrcByteType DEF Good, TypeInv
  <2>3. sent + (P - curPos) = EncBase + P
    BY EncRanges
  <2> QED
    BY <1>1, <2>2, <2>3 DEF GetB
<1>2. CASE P < curPos
  <2>1. P \in 0 .. curPos - 1 /\ P >= curPos - Ring
    BY <1>2, EncRanges, Sizes
  <2>2. win[P % Ring] = tape[EncBase + P]
    BY <2>1 DEF Good, Inv, EncInv, WindowCurrent
  <2> QED
    BY <1>2, <2>1, <2>2, EncRanges DEF GetB
<1> QED
  BY <1>1, <1>2, EncRanges

\* Comparing bytes through the ring is comparing bytes of the tape.
LEMMA SameOnTape ==
    ASSUME Good, pc \in EncPc, NEW x \in Nat, NEW p \in Nat, NEW j \in Nat,
           x + j < len, p < curPos + x, p + Ring >= curPos
    PROVE  SrcByte(x + j) = GetAt(p, j) <=> tape[sent + x + j] = tape[EncBase + p + j]
<1>1. SrcByte(x + j) = tape[sent + (x + j)]
  BY SrcByteType DEF Good, TypeInv
<1>2. p + j \in Nat /\ p + j < curPos + len /\ p + j + Ring >= curPos
  BY EncRanges, Sizes
<1>3. (p + j) % PosMod = p + j
  BY <1>2, EncRanges, Sizes
<1>4. GetAt(p, j) = tape[EncBase + (p + j)]
  BY <1>2, <1>3, GetBOnTape DEF GetAt
<1>5. sent + (x + j) = sent + x + j /\ EncBase + (p + j) = EncBase + p + j
  BY EncRanges
<1> QED
  BY <1>1, <1>4, <1>5

LEMMA SPosNoWrap ==
    ASSUME Good, pc \in EncPc, NEW x \in 0 .. len
    PROVE  SPos(x) = curPos + x
<1>1. curPos + x \in 0 .. PosMod - 1
  BY EncRanges, Sizes
<1> QED
  BY <1>1, Sizes DEF SPos

LEMMA DistNoWrap ==
    ASSUME Good, pc \in EncPc, NEW x \in 0 .. len, NEW p \in Nat, p <= curPos + x
    PROVE  Dist(SPos(x), p) = curPos + x - p
<1>1. curPos + x - p \in 0 .. PosMod - 1
  BY EncRanges, Sizes
<1>2. SPos(x) = curPos + x
  BY SPosNoWrap
<1>3. (curPos + x) - p = curPos + x - p
  BY EncRanges
<1>4. Dist(SPos(x), p) = (curPos + x - p) % PosMod
  BY <1>2, <1>3 DEF Dist
<1> QED
  BY <1>1, <1>4, EncRanges, Sizes

\* The entries after an insertion at x.
LEMMA InsertEntries ==
    ASSUME Good, pc \in EncPc, NEW x \in 0 .. len, Insert(x)
    PROVE  \A p \in Entries(ht') : p \in Entries(ht) \/ p = curPos + x
<1>1. Hash1(Read32(x)) \in Bucket1 /\ Hash2(Read32(x)) \in Bucket2
  BY Read32Type, EncRanges DEF Good, TypeInv
<1>2. SPos(x) \in Pos /\ ht \in HashTable /\ ad.k \in Slot
  BY SPosType, EncRanges DEF Good, TypeInv, TypeOK, Adaptation
<1>3. Entries(ht') \subseteq Entries(ht) \cup {SPos(x)}
  BY <1>1, <1>2, PutType DEF Insert
<1> QED
  BY <1>3, SPosNoWrap

\* data is what the tape holds from at on, and a ring has its last bytes before
\* position cur at their places, position 0 being at base on the tape.
OnTape(data, at) == \A i \in 1 .. Len(data) : data[i] = tape[at + i - 1]

RingHas(ring, base, cur) ==
    \A P \in 0 .. cur - 1 : P >= cur - Ring => ring[P % Ring] = tape[base + P]

LEMMA RingOnTape ==
    ASSUME NEW S, NEW ring \in [0 .. Ring - 1 -> S], NEW start \in Nat,
           NEW data \in Seq(S), NEW base \in Nat,
           OnTape(data, base + start), RingHas(ring, base, start)
    PROVE  RingHas(RingWrite(ring, start, data), base, start + Len(data))
<1> DEFINE new == RingWrite(ring, start, data)
<1>1. Len(data) \in Nat /\ Ring \in Nat
  BY Sizes
<1>2. ASSUME NEW P \in Nat, P < start + Len(data), P + Ring >= start + Len(data)
      PROVE  new[P % Ring] = tape[base + P]
  <2>1. P < start + Len(data) /\ P + Ring >= start + Len(data)
    BY <1>2
  <2>2. new[P % Ring] = IF P >= start THEN data[P - start + 1] ELSE ring[P % Ring]
    BY <2>1, RingWriteAt, ZenonT(30)
  <2> HIDE DEF new
  <2>3. CASE P >= start
    <3>1. P - start + 1 \in 1 .. Len(data) /\ (base + start) + (P - start + 1) - 1 = base + P
      BY <1>1, <2>1, <2>3
    <3> QED
      BY <2>2, <2>3, <3>1 DEF OnTape
  <2>4. CASE P < start
    <3>1. P \in 0 .. start - 1 /\ P >= start - Ring
      BY <1>1, <2>1, <2>4
    <3> QED
      BY <2>2, <2>4, <3>1 DEF RingHas
  <2> QED
    BY <2>3, <2>4
<1> HIDE DEF new
<1>3. ASSUME NEW P \in 0 .. (start + Len(data)) - 1, P >= (start + Len(data)) - Ring
      PROVE  new[P % Ring] = tape[base + P]
  <2>1. P \in Nat /\ P < start + Len(data) /\ P + Ring >= start + Len(data)
    BY <1>1, <1>3
  <2> QED
    BY <1>2, <2>1
<1> QED
  BY <1>3 DEF RingHas, new

LEMMA ChunkNats ==
    ASSUME TypeInv, NEW i \in 1 .. Len(wire)
    PROVE  /\ wire[i].start \in Nat /\ wire[i].raw \in Nat /\ wire[i].epoch \in Nat
           /\ wire[i].toks \in Seq(TokenType)
<1>1. wire[i] \in ChunkType
  BY DEF TypeInv, TypeOK
<1> QED
  BY <1>1 DEF ChunkType

LEMMA EntriesNat ==
    ASSUME TypeInv
    PROVE  \A p \in Entries(ht) : p \in Nat /\ p > 0
<1>1. /\ \A b \in Bucket1, j \in Slot : ht.a1[b][j] \in Pos
      /\ \A b \in Bucket2 : ht.a2[b] \in Pos
  BY DEF TypeInv, TypeOK, HashTable
<1>2. \A p \in Entries(ht) : p \in Pos \ {0}
  BY <1>1 DEF Entries
<1> QED
  BY <1>2, Sizes DEF Pos

-----------------------------------------------------------------------------
(***************************************************************************)
(* The encoder's steps.                                                    *)
(***************************************************************************)

\* What a probe finds is behind it, near, and repeats on the tape.
LEMMA CandidateOnTape ==
    ASSUME Good, pc = "search", ip <= MFL, Candidate # 0
    PROVE  /\ Candidate \in Nat /\ Candidate > 0 /\ Candidate < curPos + ip
           /\ curPos + ip - Candidate <= DistMax
           /\ \A j \in 0 .. MinMatch - 1 :
                 tape[sent + ip + j] = tape[EncBase + Candidate + j]
<1> DEFINE p == Candidate
<1>1. p \in Entries(ht) /\ SameSeq(ip, p) /\ Near(SPos(ip), p, WLim)
  BY CandidateSpec DEF Good, TypeInv
<1> HIDE DEF p
<1>2. pc \in EncPc /\ ip + MinMatch <= len /\ ip \in 0 .. len
  BY EncRanges, Sizes DEF EncPc, MFL
<1>3. p \in Nat /\ p > 0 /\ p < curPos + ip
  BY <1>1, EntriesNat DEF Good, Inv, EncInv, TableInv
<1>4. curPos + ip - p <= DistMax
  <2>1. Dist(SPos(ip), p) = curPos + ip - p
    BY <1>2, <1>3, DistNoWrap, EncRanges
  <2> QED
    BY <1>1, <2>1 DEF Near
<1>5. p + Ring >= curPos
  BY <1>2, <1>3, <1>4, EncRanges, Sizes
<1>6. ASSUME NEW j \in 0 .. MinMatch - 1
      PROVE  tape[sent + ip + j] = tape[EncBase + p + j]
  <2>1. SrcByte(ip + j) = GetAt(p, j)
    BY <1>1 DEF SameSeq
  <2>2. j \in Nat /\ ip + j < len /\ ip \in Nat
    BY <1>2, EncRanges, Sizes
  <2> QED
    BY <1>2, <1>3, <1>5, <2>1, <2>2, SameOnTape
<1> QED
  BY <1>3, <1>4, <1>6 DEF p

LEMMA InvEncBegin ==
    ASSUME Good, NEW n \in ChunkLens, EncBegin(n)
    PROVE  Inv'
<1> USE DEF Good, TypeInv
<1>1. n \in Nat /\ n > 0
  BY StreamAssumption
<1>2. LinkInv'
  BY LinkFrame DEF Inv, EncBegin, input, link, encVars, decVars
<1>3. DecInv'
  BY DecFrame DEF Inv, EncBegin, input, link, decVars, decCall, DecPc
<1>4. TableInv'
  <2>1. len = 0 /\ curPos \in Nat /\ \A p \in Entries(ht) : p \in Nat
    BY EntriesNat, Sizes DEF Shape, EncBegin, EncPc, TypeOK, Pos
  <2>2. \A p \in Entries(ht) : p < curPos
    BY <2>1 DEF Inv, EncInv, TableInv
  <2>3. ht' = ht /\ curPos' = curPos /\ len' = n /\ (pc' = "last" \/ (pc' = "search" /\ ip' = 1))
    BY DEF EncBegin, encVars
  <2>4. Entries(ht)' = Entries(ht)
    BY <2>3 DEF Entries
  <2> QED
    BY <1>1, <2>1, <2>2, <2>3, <2>4 DEF TableInv
<1>5. WindowCurrent'
  BY DEF Inv, EncInv, WindowCurrent, EncBegin, input, link, encVars, EncBase
<1>6. FoundInv'
  BY DEF FoundInv, EncBegin
<1>7. CallInv'
  BY DEF CallInv, EncBegin, GoodTokens
<1> QED
  BY <1>2, <1>3, <1>4, <1>5, <1>6, <1>7 DEF Inv, EncInv

LEMMA InvEncHit ==
    ASSUME Good, EncHit
    PROVE  Inv'
<1> USE DEF Good, TypeInv
<1>1. pc \in EncPc /\ ip \in Nat /\ ip + MinMatch <= len /\ ip \in 0 .. len
  BY EncRanges, Sizes DEF EncPc, MFL, EncHit
<1>2. LinkInv'
  BY LinkFrame DEF Inv, EncHit, input, link, decVars
<1>3. DecInv'
  BY DecFrame DEF Inv, EncHit, input, link, decVars, decCall, DecPc
<1>4. TableInv'
  <2>1. \A p \in Entries(ht') : p \in Entries(ht) \/ p = curPos + ip
    BY <1>1, InsertEntries DEF EncHit
  <2>2. \A p \in Entries(ht) : p \in Nat /\ p < curPos + ip
    BY EntriesNat DEF Inv, EncInv, TableInv, EncHit
  <2>3. \A p \in Entries(ht') : p <= curPos + ip /\ p < curPos + len
    BY <1>1, <2>1, <2>2, EncRanges, Sizes
  <2>4. Entries(ht)' = Entries(ht')
    BY DEF Entries
  <2> QED
    BY <2>3, <2>4 DEF TableInv, EncHit
<1>5. WindowCurrent'
  BY DEF Inv, EncInv, WindowCurrent, EncHit, input, link, EncBase
<1>6. FoundInv'
  <2>1. mpos' = Candidate /\ UNCHANGED <<tape, sent, curPos, ip>>
    BY DEF EncHit, input, link
  <2> QED
    BY <2>1, CandidateOnTape DEF FoundInv, EncHit, EncBase
<1>7. CallInv'
  BY <1>1 DEF Inv, EncInv, CallInv, EncHit, GoodTokens, GoodToken, TokEnd, EncBase, input, link
<1> QED
  BY <1>2, <1>3, <1>4, <1>5, <1>6, <1>7 DEF Inv, EncInv

LEMMA InvEncMiss ==
    ASSUME Good, TypeInv', EncMiss
    PROVE  Inv'
<1> USE DEF Good
<1>1. pc \in EncPc /\ ip \in Nat /\ ip + MinMatch <= len /\ ip \in 0 .. len
  BY EncRanges, Sizes DEF EncPc, MFL, EncMiss
<1>2. LinkInv'
  BY LinkFrame DEF Inv, EncMiss, input, link, decVars
<1>3. DecInv'
  BY DecFrame DEF Inv, EncMiss, input, link, decVars, decCall, DecPc
<1>4. TableInv'
  <2>1. \A p \in Entries(ht') : p \in Entries(ht) \/ p = curPos + ip
    BY <1>1, InsertEntries DEF EncMiss
  <2>2. \A p \in Entries(ht) : p \in Nat /\ p < curPos + ip
    BY EntriesNat DEF Inv, EncInv, TableInv, EncMiss
  <2>3. ip' \in Nat /\ ip' > ip
    <3>1. params.skipDiv \in Nat \ {0} /\ skips' \in Nat
      BY StreamAssumption DEF TypeInv, TypeOK
    <3>2. skips' \div params.skipDiv \in Nat
      BY <3>1
    <3> QED
      BY <1>1, <3>2 DEF EncMiss
  <2>4. \A p \in Entries(ht') : p < curPos + ip' /\ p < curPos + len
    BY <1>1, <2>1, <2>2, <2>3, EncRanges, Sizes
  <2>5. Entries(ht)' = Entries(ht')
    BY DEF Entries
  <2> QED
    BY <2>4, <2>5 DEF TableInv, EncMiss
<1>5. WindowCurrent'
  BY DEF Inv, EncInv, WindowCurrent, EncMiss, input, link, EncBase
<1>6. FoundInv'
  BY DEF FoundInv, EncMiss
<1>7. CallInv'
  BY <1>1 DEF Inv, EncInv, CallInv, EncMiss, GoodTokens, GoodToken, TokEnd, EncBase, input, link
<1> QED
  BY <1>2, <1>3, <1>4, <1>5, <1>6, <1>7 DEF Inv, EncInv

LEMMA InvEncSearchEnd ==
    ASSUME Good, EncSearchEnd
    PROVE  Inv'
<1> USE DEF Good
<1>1. LinkInv'
  BY LinkFrame DEF Inv, EncSearchEnd, input, link, encVars, decVars
<1>2. DecInv'
  BY DecFrame DEF Inv, EncSearchEnd, input, link, decVars, decCall, DecPc
<1>3. EncInv'
  BY DEF Inv, EncInv, TableInv, WindowCurrent, FoundInv, CallInv, EncSearchEnd, Entries,
         GoodTokens, GoodToken, TokEnd, EncBase, input, link, encVars, encCall, EncPc
<1> QED
  BY <1>1, <1>2, <1>3 DEF Inv

\* Where a match token starts and what it refers to: the first back bytes were
\* found by the backward extension, the next MinMatch by the search, the rest
\* by the measure.
LEMMA EmitSpec ==
    ASSUME Good, pc = "found",
           NEW back, back = BackLen(ip, mpos),
           NEW ml, ml = MatchLen(ip - back, mpos - back, len)
    PROVE  /\ back \in Nat /\ back <= ip - anchor /\ back <= mpos
           /\ ml \in Nat /\ ml >= back + MinMatch
           /\ ip - back + ml <= len
           /\ \A j \in 0 .. ml - 1 :
                 tape[sent + (ip - back) + j] = tape[EncBase + (mpos - back) + j]
<1> USE DEF Good
<1> DEFINE x == ip - back
           q == mpos - back
<1>1. pc \in EncPc /\ ip \in Nat /\ ip + MFLimit <= len
  BY EncRanges, Sizes DEF EncPc, MFL, Shape, TypeInv
<1>2. /\ back \in 0 .. ip - anchor /\ back \in BackSet(ip, mpos) /\ back <= mpos
      /\ x \in anchor .. ip /\ q \in Pos /\ ml \in MinMatch .. len
      /\ ml \in MatchSet(x, q, len)
      /\ \A m \in MatchSet(x, q, len) : m <= ml
  BY EmitShape
<1>3. /\ back \in Nat /\ x \in Nat /\ q \in Nat /\ ml \in Nat /\ anchor \in Nat
      /\ ip = x + back /\ mpos = q + back
  BY <1>1, <1>2, EncRanges, Sizes DEF Pos
<1>4. /\ mpos > 0 /\ mpos < curPos + ip /\ curPos + ip - mpos <= DistMax
      /\ \A j \in 0 .. MinMatch - 1 : tape[sent + ip + j] = tape[EncBase + mpos + j]
  BY DEF Inv, EncInv, FoundInv
<1> HIDE DEF x, q
<1>5. q < curPos + x /\ q + Ring >= curPos
  BY <1>1, <1>3, <1>4, EncRanges, Sizes
<1>6. ASSUME NEW j \in Nat, j < back
      PROVE  tape[sent + x + j] = tape[EncBase + q + j]
  <2> DEFINE i == back - j
  <2>1. i \in 1 .. back /\ ip - i \in Nat /\ mpos - i \in Nat
    BY <1>3, <1>6
  <2>2. SrcByte(ip - i) = GetB(mpos - i)
    BY <1>2, <2>1 DEF BackSet
  <2>3. ip - i < len /\ mpos - i < curPos + len /\ mpos - i + Ring >= curPos
    BY <1>1, <1>3, <1>4, <1>5, <2>1, EncRanges, Sizes
  <2>4. SrcByte(ip - i) = tape[sent + (ip - i)]
    BY <2>1, <2>3, SrcByteType, <1>1 DEF TypeInv
  <2>5. GetB(mpos - i) = tape[EncBase + (mpos - i)]
    BY <1>1, <2>1, <2>3, GetBOnTape
  <2>6. sent + (ip - i) = sent + x + j /\ EncBase + (mpos - i) = EncBase + q + j
    BY <1>1, <1>3, <1>6, EncRanges
  <2> QED
    BY <2>2, <2>4, <2>5, <2>6
<1>7. ASSUME NEW j \in Nat, j < back + MinMatch
      PROVE  tape[sent + x + j] = tape[EncBase + q + j]
  <2>1. CASE j >= back
    <3>1. j - back \in 0 .. MinMatch - 1
      BY <1>3, <1>7, <2>1, Sizes
    <3>2. tape[sent + ip + (j - back)] = tape[EncBase + mpos + (j - back)]
      BY <1>4, <3>1
    <3>3. /\ sent + ip + (j - back) = sent + x + j
          /\ EncBase + mpos + (j - back) = EncBase + q + j
      BY <1>1, <1>3, <1>7, EncRanges
    <3> QED
      BY <3>2, <3>3
  <2> QED
    BY <1>3, <1>6, <2>1
<1>8. back + MinMatch <= ml
  <2>1. ASSUME NEW j \in MinMatch .. back + MinMatch - 1
        PROVE  x + j < ML /\ SrcByte(x + j) = GetAt(q, j)
    <3>1. j \in Nat /\ j < back + MinMatch /\ x + j < ML /\ x + j < len
      BY <1>1, <1>3, <2>1, EncRanges, Sizes DEF ML
    <3>2. tape[sent + x + j] = tape[EncBase + q + j]
      BY <1>7, <3>1
    <3> QED
      BY <1>1, <1>3, <1>5, <3>1, <3>2, SameOnTape
  <2>2. back + MinMatch \in MinMatch .. len
    BY <1>1, <1>3, EncRanges, Sizes
  <2>3. back + MinMatch \in MatchSet(x, q, len)
    <3>1. \A j \in MinMatch .. (back + MinMatch) - 1 : j \in MinMatch .. back + MinMatch - 1
      BY <1>3, Sizes
    <3> QED
      BY <2>1, <2>2, <3>1 DEF MatchSet
  <2> QED
    BY <1>2, <2>3 DEF x, q
<1>9. x + ml <= len
  <2>1. x + MinMatch <= len
    BY <1>1, <1>3, EncRanges, Sizes
  <2> QED
    BY <1>2, <1>3, <2>1, MatchEnd DEF x, q
<1>10. ASSUME NEW j \in 0 .. ml - 1
       PROVE  tape[sent + x + j] = tape[EncBase + q + j]
  <2>1. j \in Nat /\ x + j < len
    BY <1>1, <1>3, <1>9, EncRanges
  <2>2. CASE j < back + MinMatch
    BY <1>7, <2>1, <2>2
  <2>3. CASE j >= back + MinMatch
    <3>1. j \in MinMatch .. ml - 1
      BY <1>3, <2>3, Sizes
    <3>2. SrcByte(x + j) = GetAt(q, j)
      BY <1>2, <3>1 DEF MatchSet, x, q
    <3> QED
      BY <1>1, <1>3, <1>5, <2>1, <3>2, SameOnTape
  <2> QED
    BY <1>3, <2>1, <2>2, <2>3, Sizes
<1> QED
  BY <1>2, <1>3, <1>8, <1>9, <1>10 DEF x, q

\* Tokens that are good and followed by a good one at their end are good.
LEMMA AppendToken ==
    ASSUME NEW S, NEW ts \in Seq(S), NEW t \in S, NEW start, NEW lo, NEW hi,
           GoodTokens(ts, start, lo, hi), GoodToken(t, lo, hi),
           ts = <<>> => t.at = start,
           ts # <<>> => ts[Len(ts)].ml > 0 /\ TokEnd(ts[Len(ts)]) = t.at
    PROVE  /\ GoodTokens(Append(ts, t), start, lo, hi)
           /\ Len(Append(ts, t)) = Len(ts) + 1 /\ Append(ts, t) # <<>>
           /\ Append(ts, t)[Len(ts) + 1] = t
<1> DEFINE new == Append(ts, t)
<1>1. /\ Len(ts) \in Nat /\ Len(new) = Len(ts) + 1
      /\ new[Len(ts) + 1] = t /\ \A i \in 1 .. Len(ts) : new[i] = ts[i]
  BY AppendFacts
<1>2. new # <<>>
  BY AppendFacts
<1> HIDE DEF new
<1>3. new[1].at = start
  <2>1. CASE ts = <<>>
    BY <1>1, <2>1
  <2>2. CASE ts # <<>>
    <3>1. 1 \in 1 .. Len(ts)
      BY <2>2
    <3> QED
      BY <1>1, <2>2, <3>1 DEF GoodTokens
  <2> QED
    BY <2>1, <2>2
<1>4. \A i \in 1 .. Len(new) : GoodToken(new[i], lo, hi)
  BY <1>1 DEF GoodTokens
<1>5. ASSUME NEW i \in 1 .. Len(new) - 1
      PROVE  new[i].ml > 0 /\ new[i + 1].at = TokEnd(new[i])
  <2>1. CASE i < Len(ts)
    <3>1. i \in 1 .. Len(ts) - 1 /\ i \in 1 .. Len(ts) /\ i + 1 \in 1 .. Len(ts)
      BY <1>1, <2>1
    <3> QED
      BY <1>1, <3>1 DEF GoodTokens
  <2>2. CASE i = Len(ts)
    <3>1. ts # <<>> /\ i \in 1 .. Len(ts)
      BY <1>1, <2>2
    <3> QED
      BY <1>1, <2>2, <3>1
  <2> QED
    BY <1>1, <2>1, <2>2
<1> QED
  BY <1>1, <1>2, <1>3, <1>4, <1>5 DEF GoodTokens, new

\* The token of a match says something true.
LEMMA MatchTokenGood ==
    ASSUME Good, pc = "found",
           NEW back, back = BackLen(ip, mpos),
           NEW ml, ml = MatchLen(ip - back, mpos - back, len),
           NEW t, t = MatchToken(ip - back, mpos - back, ml)
    PROVE  /\ t \in TokenType /\ t.at = sent + anchor /\ t.ml = ml
           /\ TokEnd(t) = sent + (ip - back) + ml
           /\ GoodToken(t, EncBase, sent + len)
<1> USE DEF Good
<1> DEFINE x == ip - back
           q == mpos - back
<1>1. \A j \in 0 .. ml - 1 : tape[sent + x + j] = tape[EncBase + q + j]
  BY EmitSpec
<1>2. pc \in EncPc
  BY DEF EncPc
<1>3. /\ ml \in Nat /\ ml > 0 /\ x + ml <= len /\ x \in anchor .. ip /\ q \in Pos
      /\ back \in Nat /\ back <= mpos
  BY EmitSpec, EmitShape, Sizes
<1>4. /\ anchor \in Nat /\ ip \in Nat /\ len \in Nat /\ sent \in Nat /\ curPos \in Nat
      /\ mpos \in Nat /\ sent + len <= N /\ N \in Nat /\ EncBase = sent - curPos
      /\ EncBase \in Nat
  BY <1>2, EncRanges, Sizes
<1>5. x \in Nat /\ x \in 0 .. len /\ x - anchor \in Nat /\ q \in Nat
  BY <1>3, <1>4, Sizes DEF Pos
<1>6. q < curPos + x /\ q <= curPos + x /\ curPos + x - q <= DistMax
  <2>1. mpos < curPos + ip /\ curPos + ip - mpos <= DistMax
    BY DEF Inv, EncInv, FoundInv
  <2> QED
    BY <1>3, <1>4, <2>1, Sizes
<1> HIDE DEF x, q
<1> DEFINE off == curPos + x - q
<1>7. off \in 1 .. DistMax /\ off \in Nat
  BY <1>4, <1>5, <1>6, Sizes
<1>8. t = [lits |-> TapeSeg(sent + anchor, x - anchor), off16 |-> off, off32 |-> off,
           ml |-> ml, at |-> sent + anchor]
  <2>1. Dist(SPos(x), q) = off
    BY <1>2, <1>5, <1>6, DistNoWrap
  <2>2. off % Ring = off /\ (off > Ring - 2 => off = Ring - 1)
    BY <1>7, Sizes
  <2> HIDE DEF off
  <2>3. (IF params.wide /\ off > Ring - 2 THEN Ring - 1 ELSE off % Ring) = off
    BY <2>2
  <2> QED
    BY <2>1, <2>3 DEF MatchToken, x, q
<1>9. /\ Len(TapeSeg(sent + anchor, x - anchor)) = x - anchor
      /\ \A i \in 1 .. x - anchor :
            TapeSeg(sent + anchor, x - anchor)[i] = tape[sent + anchor + i - 1]
  <2>1. sent + anchor \in Nat /\ (sent + anchor) + (x - anchor) <= N
    BY <1>4, <1>5
  <2> QED
    BY <1>5, <2>1, TapeSegType DEF TypeInv
<1>10. /\ t.at = sent + anchor /\ t.ml = ml /\ t.off16 = off /\ t.off32 = off
       /\ Len(t.lits) = x - anchor
       /\ \A i \in 1 .. x - anchor : t.lits[i] = tape[t.at + i - 1]
  <2> HIDE DEF off
  <2> QED
    BY <1>8, <1>9
<1>11. t \in TokenType
  BY <1>3, TokenTypeOfMatch DEF TypeInv, x, q
<1>12. t.at + Len(t.lits) = sent + x /\ TokEnd(t) = sent + x + ml
  <2>1. t.at = sent + anchor /\ t.ml = ml /\ Len(t.lits) = x - anchor
    BY <1>10
  <2>2. t.at + Len(t.lits) = sent + x
    BY <1>4, <1>5, <2>1
  <2> QED
    BY <2>1, <2>2 DEF TokEnd
<1>13. \A j \in 0 .. ml - 1 : sent + x + j - off = EncBase + q + j
  BY <1>3, <1>4, <1>5
<1>14. GoodToken(t, EncBase, sent + len)
  <2>1. EncBase <= t.at /\ TokEnd(t) <= sent + len
    <3>1. t.at = sent + anchor
      BY <1>10
    <3>2. EncBase <= sent + anchor
      BY <1>4
    <3>3. sent + x + ml <= sent + len
      <4>1. x + ml <= len
        BY <1>3 DEF x
      <4> QED
        BY <1>3, <1>4, <1>5, <4>1
    <3> QED
      BY <1>12, <3>1, <3>2, <3>3
  <2>2. t.off32 <= t.at + Len(t.lits) - EncBase
    <3>1. t.off32 = off /\ t.at = sent + anchor /\ Len(t.lits) = x - anchor
      BY <1>10
    <3> QED
      BY <1>4, <1>5, <3>1
  <2>3. \A j \in 0 .. t.ml - 1 :
          tape[t.at + Len(t.lits) + j] = tape[t.at + Len(t.lits) + j - t.off32]
    BY <1>1, <1>10, <1>12, <1>13
  <2> HIDE DEF off
  <2> QED
    BY <1>7, <1>10, <2>1, <2>2, <2>3 DEF GoodToken
<1> QED
  BY <1>10, <1>11, <1>12, <1>14 DEF x

LEMMA InvEncEmit ==
    ASSUME Good, EncEmit
    PROVE  Inv'
<1> USE DEF Good
<1> DEFINE back == BackLen(ip, mpos)
           ml == MatchLen(ip - back, mpos - back, len)
           t == MatchToken(ip - back, mpos - back, ml)
<1>1. /\ toks' = Append(toks, t) /\ ip' = ip - back + ml /\ anchor' = ip - back + ml
      /\ pc = "found" /\ pc' = "hash" /\ pc \in EncPc
  BY DEF EncEmit, EncPc
<1>2. back \in Nat /\ ml \in Nat /\ ml >= back + MinMatch /\ ip - back + ml <= len
  BY <1>1, EmitSpec
<1>3. /\ t \in TokenType /\ t.at = sent + anchor /\ t.ml = ml
      /\ TokEnd(t) = sent + (ip - back) + ml /\ GoodToken(t, EncBase, sent + len)
  BY <1>1, MatchTokenGood
<1> HIDE DEF back, ml, t
<1>4. LinkInv'
  BY LinkFrame DEF Inv, EncEmit, input, link, encVars, decVars
<1>5. DecInv'
  BY DecFrame DEF Inv, EncEmit, input, link, decVars, decCall, DecPc
<1>6. UNCHANGED <<ht, curPos, len, sent, tape, win>>
  BY DEF EncEmit, input, link, encVars
<1>7. TableInv'
  <2>1. Entries(ht)' = Entries(ht)
    BY <1>6 DEF Entries
  <2>2. \A p \in Entries(ht) : p \in Nat /\ p <= curPos + ip /\ p < curPos + len
    <3>1. TableInv
      BY DEF Inv, EncInv
    <3> QED
      BY <1>1, <3>1, EntriesNat DEF TableInv
  <2>3. ip < ip' /\ ip' \in Nat /\ ip' <= len
    <3>1. ip \in Nat /\ len \in Nat /\ MinMatch \in Nat /\ MinMatch > 0
      BY <1>1, EncRanges, Sizes
    <3> QED
      BY <1>1, <1>2, <3>1
  <2>4. \A p \in Entries(ht) : p < curPos + ip'
    <3>1. curPos \in Nat /\ ip \in Nat
      BY <1>1, EncRanges
    <3> QED
      BY <2>2, <2>3, <3>1
  <2> QED
    BY <1>1, <1>6, <2>1, <2>2, <2>4 DEF TableInv
<1>8. WindowCurrent'
  BY <1>6 DEF Inv, EncInv, WindowCurrent, EncBase
<1>9. FoundInv'
  BY <1>1 DEF FoundInv
<1>10. CallInv'
  <2>1. /\ GoodTokens(toks, sent, EncBase, sent + len)
        /\ toks = <<>> => anchor = 0
        /\ toks # <<>> => toks[Len(toks)].ml > 0 /\ TokEnd(toks[Len(toks)]) = sent + anchor
    BY <1>1 DEF Inv, EncInv, CallInv
  <2>2. toks \in Seq(TokenType)
    BY DEF TypeInv, TypeOK
  <2>3. toks = <<>> => t.at = sent
    BY <1>1, <1>3, <2>1, EncRanges
  <2>4. /\ GoodTokens(toks', sent, EncBase, sent + len)
        /\ toks' # <<>> /\ Len(toks') = Len(toks) + 1 /\ toks'[Len(toks) + 1] = t
    BY <1>1, <1>3, <2>1, <2>2, <2>3, AppendToken
  <2>5. t.ml > 0 /\ TokEnd(t) = sent + anchor'
    <3>1. /\ ip \in Nat /\ sent \in Nat /\ MinMatch \in Nat /\ MinMatch > 0
          /\ anchor' = ip - back + ml
      BY <1>1, EncRanges, Sizes
    <3>2. t.ml = ml /\ TokEnd(t) = sent + (ip - back) + ml
      BY <1>3
    <3> QED
      BY <1>2, <3>1, <3>2
  <2>6. GoodTokens(toks, sent, EncBase, sent + len)' = GoodTokens(toks', sent, EncBase, sent + len)
    BY <1>6 DEF GoodTokens, GoodToken, TokEnd, EncBase
  <2> QED
    BY <1>6, <2>4, <2>5, <2>6 DEF CallInv, TokEnd
<1> QED
  BY <1>4, <1>5, <1>7, <1>8, <1>9, <1>10 DEF Inv, EncInv

LEMMA InvEncHash ==
    ASSUME Good, EncHash
    PROVE  Inv'
<1> USE DEF Good
<1>1. pc \in EncPc /\ hp \in 0 .. len /\ hp < ip /\ hp < len /\ hp \in Nat
  BY EncRanges, Sizes DEF EncPc, MFL, EncHash
<1>2. LinkInv'
  BY LinkFrame DEF Inv, EncHash, input, link, decVars
<1>3. DecInv'
  BY DecFrame DEF Inv, EncHash, input, link, decVars, decCall, DecPc
<1>4. TableInv'
  <2>1. \A p \in Entries(ht') : p \in Entries(ht) \/ p = curPos + hp
    BY <1>1, InsertEntries DEF EncHash
  <2>2. \A p \in Entries(ht) : p \in Nat /\ p < curPos + ip /\ p < curPos + len
    BY EntriesNat DEF Inv, EncInv, TableInv, EncHash
  <2>3. \A p \in Entries(ht') : p < curPos + ip /\ p < curPos + len
    BY <1>1, <2>1, <2>2, EncRanges
  <2>4. Entries(ht)' = Entries(ht')
    BY DEF Entries
  <2> QED
    BY <2>3, <2>4 DEF TableInv, EncHash
<1>5. WindowCurrent'
  BY DEF Inv, EncInv, WindowCurrent, EncHash, input, link, EncBase
<1>6. FoundInv'
  BY DEF FoundInv, EncHash
<1>7. CallInv'
  BY <1>1 DEF Inv, EncInv, CallInv, EncHash, GoodTokens, GoodToken, TokEnd, EncBase, input, link
<1> QED
  BY <1>2, <1>3, <1>4, <1>5, <1>6, <1>7 DEF Inv, EncInv

LEMMA InvEncHashDone ==
    ASSUME Good, EncHashDone
    PROVE  Inv'
<1> USE DEF Good
<1>1. LinkInv'
  BY LinkFrame DEF Inv, EncHashDone, input, link, encVars, decVars
<1>2. DecInv'
  BY DecFrame DEF Inv, EncHashDone, input, link, decVars, decCall, DecPc
<1>3. pc = "hash" /\ pc' \in {"last", "search"}
      /\ UNCHANGED <<tape, sent, ht, curPos, win, len, ip, anchor, toks>>
  BY DEF EncHashDone, input, link, encVars
<1>4. TableInv' /\ WindowCurrent' /\ FoundInv'
  BY <1>3 DEF Inv, EncInv, TableInv, WindowCurrent, FoundInv, Entries, EncBase
<1>5. CallInv'
  BY <1>3 DEF Inv, EncInv, CallInv, EncPc, GoodTokens, GoodToken, TokEnd, EncBase
<1> QED
  BY <1>1, <1>2, <1>4, <1>5 DEF Inv, EncInv

LEMMA LastReset ==
    ASSUME TypeInv, Inv
    PROVE  Max(resets) = EncBase
<1>1. resets \subseteq 0 .. N /\ EncBase \in resets /\ \A r \in resets : r <= EncBase
  BY DEF TypeInv, TypeOK, Inv, LinkInv, Counters
<1>2. Max(resets) \in resets /\ \A r \in resets : r <= Max(resets)
  BY <1>1, MaxBounded, Sizes
<1>3. Max(resets) \in Nat /\ EncBase \in Nat
  <2>1. Max(resets) \in 0 .. N /\ EncBase \in 0 .. N
    BY <1>1, <1>2
  <2> QED
    BY <2>1, Sizes
<1> QED
  BY <1>1, <1>2, <1>3

LEMMA InvEncLast ==
    ASSUME Good, TypeInv', EncLast
    PROVE  Inv'
<1> USE DEF Good
<1> DEFINE c == [toks |-> Append(toks, LastToken), raw |-> len, start |-> sent,
                 epoch |-> EncBase]
<1>1. pc \in EncPc /\ pc = "last" /\ pc' = "idle"
  BY DEF EncLast, EncPc
<1>2. /\ anchor \in Nat /\ len \in Nat /\ len > 0 /\ sent \in Nat /\ curPos \in Nat
      /\ anchor <= len /\ sent + len <= N /\ N \in Nat /\ EncBase = sent - curPos
      /\ EncBase \in Nat /\ curPos <= sent /\ curPos + len < PosMod
  BY <1>1, EncRanges, Sizes
<1>3. /\ wire' = Append(wire, c) /\ sent' = sent + len /\ len' = 0
      /\ win' = RingWrite(win, curPos, TapeSeg(sent, len))
      /\ curPos' = curPos + len
      /\ UNCHANGED <<tape, ht, resets, recvd, histPos, hist, dret, cap>>
  <2>1. (curPos + len) % PosMod = curPos + len
    BY <1>2, Sizes
  <2> QED
    BY <2>1, LastReset DEF EncLast, input, decVars, decCall
<1>4. EncBase' = EncBase /\ DecBase' = DecBase
  BY <1>2, <1>3 DEF EncBase, DecBase
<1>5. wire \in Seq(ChunkType) /\ Len(wire) \in Nat /\ Len(wire') = Len(wire) + 1
      /\ wire'[Len(wire) + 1] = c /\ \A i \in 1 .. Len(wire) : wire'[i] = wire[i]
  <2>1. wire \in Seq(ChunkType)
    BY DEF TypeInv, TypeOK
  <2> HIDE DEF c
  <2> QED
    BY <1>3, <2>1, AppendFacts
<1>6. wire' # <<>>
  <2>1. wire \in Seq(ChunkType)
    BY DEF TypeInv, TypeOK
  <2> HIDE DEF c
  <2> QED
    BY <1>3, <2>1, AppendFacts
<1> DEFINE t == LastToken
<1>7. /\ t \in TokenType /\ t.at = sent + anchor /\ t.ml = 0
      /\ GoodToken(t, EncBase, sent + len) /\ TokEnd(t) = sent + len
  <2>1. /\ TapeSeg(sent + anchor, len - anchor) \in Seq(Byte)
        /\ Len(TapeSeg(sent + anchor, len - anchor)) = len - anchor
        /\ \A i \in 1 .. len - anchor :
              TapeSeg(sent + anchor, len - anchor)[i] = tape[sent + anchor + i - 1]
    <3>1. sent + anchor \in Nat /\ len - anchor \in Nat /\ (sent + anchor) + (len - anchor) <= N
      BY <1>2
    <3> QED
      BY <3>1, TapeSegType DEF TypeInv
  <2>2. /\ t.at = sent + anchor /\ t.ml = 0 /\ t.off16 = 0 /\ t.off32 = 0
        /\ t.lits = TapeSeg(sent + anchor, len - anchor)
    BY DEF LastToken
  <2>3. t \in TokenType
    <3>1. TapeSeg(sent + anchor, len - anchor) \in Seq(Byte \cup {Junk})
      BY <2>1
    <3> QED
      BY <1>2, <3>1, Sizes DEF LastToken, TokenType, Pos
  <2>4. TokEnd(t) = sent + len
    BY <1>2, <2>1, <2>2 DEF TokEnd
  <2>5. EncBase <= t.at
    BY <1>2, <2>2
  <2> HIDE DEF t
  <2>6. GoodToken(t, EncBase, sent + len)
    BY <1>2, <2>1, <2>2, <2>4, <2>5 DEF GoodToken
  <2> QED
    BY <2>2, <2>3, <2>4, <2>6
<1>8. /\ GoodTokens(c.toks, sent, EncBase, sent + len) /\ c.toks # <<>>
      /\ c.toks[Len(c.toks)] = t
  <2>1. /\ GoodTokens(toks, sent, EncBase, sent + len)
        /\ toks = <<>> => anchor = 0
        /\ toks # <<>> => toks[Len(toks)].ml > 0 /\ TokEnd(toks[Len(toks)]) = sent + anchor
    BY <1>1 DEF Inv, EncInv, CallInv
  <2> HIDE DEF t
  <2>2. toks \in Seq(TokenType)
    BY DEF TypeInv, TypeOK
  <2>3. toks = <<>> => t.at = sent
    BY <1>2, <1>7, <2>1
  <2> QED
    BY <1>7, <2>1, <2>2, <2>3, AppendToken DEF t
<1> HIDE DEF t
<1>9. c.raw = len /\ c.start = sent /\ c.epoch = EncBase
  OBVIOUS
<1> HIDE DEF c
<1>10. LinkInv'
  <2>1. Counters'
    BY <1>2, <1>3, <1>4 DEF Inv, LinkInv, Counters
  <2>2. Chain'
    <3>1. /\ wire = <<>> => Len(recvd) = sent
          /\ wire # <<>> => /\ wire[1].start = Len(recvd)
                            /\ wire[Len(wire)].start + wire[Len(wire)].raw = sent
          /\ \A i \in 1 .. Len(wire) - 1 :
                wire[i].start + wire[i].raw = wire[i + 1].start
          /\ \A i \in 1 .. Len(wire) : wire[i].start + wire[i].raw <= sent
          /\ \A i, j \in 1 .. Len(wire) :
                i < j => wire[i].start + wire[i].raw <= wire[j].start
      BY DEF Inv, LinkInv, Chain
    <3>2. Len(recvd) <= sent /\ Len(recvd) \in Nat
      BY DEF Inv, DecInv, Lossless, TypeInv, TypeOK
    <3>3. \A i \in 1 .. Len(wire) : wire[i].start \in Nat /\ wire[i].raw \in Nat
      BY ChunkNats
    <3>4. wire'[1].start = Len(recvd)
      <4>1. CASE wire = <<>>
        BY <1>5, <1>9, <3>1, <4>1
      <4>2. CASE wire # <<>>
        <5>1. 1 \in 1 .. Len(wire)
          BY <1>5, <4>2
        <5> QED
          BY <1>5, <3>1, <4>2, <5>1
      <4> QED
        BY <4>1, <4>2
    <3>5. ASSUME NEW i \in 1 .. Len(wire') - 1
          PROVE  wire'[i].start + wire'[i].raw = wire'[i + 1].start
      <4>1. CASE i < Len(wire)
        <5>1. i \in 1 .. Len(wire) - 1 /\ i \in 1 .. Len(wire) /\ i + 1 \in 1 .. Len(wire)
          BY <1>5, <4>1
        <5> QED
          BY <1>5, <3>1, <5>1
      <4>2. CASE i = Len(wire)
        <5>1. wire # <<>> /\ i \in 1 .. Len(wire)
          BY <1>5, <4>2
        <5> QED
          BY <1>5, <1>9, <3>1, <4>2, <5>1
      <4> QED
        BY <1>5, <4>1, <4>2
    <3>6. ASSUME NEW i \in 1 .. Len(wire')
          PROVE  wire'[i].start + wire'[i].raw <= sent + len
      <4>1. CASE i \in 1 .. Len(wire)
        BY <1>2, <1>5, <3>1, <3>3, <4>1
      <4>2. CASE i = Len(wire) + 1
        BY <1>2, <1>5, <1>9, <3>2, <4>2
      <4> QED
        BY <1>5, <4>1, <4>2
    <3>7. ASSUME NEW i \in 1 .. Len(wire'), NEW j \in 1 .. Len(wire'), i < j
          PROVE  wire'[i].start + wire'[i].raw <= wire'[j].start
      <4>1. i \in 1 .. Len(wire)
        BY <1>5, <3>7
      <4>2. CASE j \in 1 .. Len(wire)
        BY <1>5, <3>1, <3>7, <4>1, <4>2
      <4>3. CASE j = Len(wire) + 1
        BY <1>5, <1>9, <3>1, <4>1, <4>3
      <4> QED
        BY <1>5, <4>2, <4>3
    <3> QED
      BY <1>3, <1>5, <1>6, <1>9, <3>4, <3>5, <3>6, <3>7 DEF Chain
  <2>3. GoodWire'
    <3>1. ASSUME NEW i \in 1 .. Len(wire')
          PROVE  GoodChunk(wire'[i])
      <4>1. CASE i \in 1 .. Len(wire)
        BY <1>5, <4>1 DEF Inv, LinkInv, GoodWire
      <4>2. CASE i = Len(wire) + 1
        <5>1. GoodChunk(c)
          BY <1>2, <1>7, <1>8, <1>9 DEF GoodChunk, Inv, LinkInv, Counters
        <5> QED
          BY <1>5, <4>2, <5>1
      <4> QED
        BY <1>5, <4>1, <4>2
    <3>2. UNCHANGED <<tape, resets>>
      BY <1>3
    <3> QED
      BY <3>1, <3>2, WireFrame
  <2> QED
    BY <2>1, <2>2, <2>3 DEF LinkInv
<1>11. TableInv'
  <2>1. Entries(ht)' = Entries(ht)
    BY <1>3 DEF Entries
  <2>2. \A p \in Entries(ht) : p < curPos + len
    BY DEF Inv, EncInv, TableInv
  <2> QED
    BY <1>1, <1>2, <1>3, <2>1, <2>2 DEF TableInv
<1>12. WindowCurrent'
  <2> DEFINE data == TapeSeg(sent, len)
  <2>1. data \in Seq(Byte) /\ Len(data) = len
        /\ \A i \in 1 .. len : data[i] = tape[sent + i - 1]
    BY <1>2, TapeSegType DEF TypeInv
  <2>2. win \in [0 .. Ring - 1 -> Byte] /\ win' = RingWrite(win, curPos, data)
    BY <1>3 DEF TypeInv, TypeOK
  <2> HIDE DEF data
  <2>3. OnTape(data, EncBase + curPos)
    BY <1>2, <2>1 DEF OnTape
  <2>4. RingHas(win, EncBase, curPos)
    BY DEF Inv, EncInv, WindowCurrent, RingHas
  <2>5. RingHas(RingWrite(win, curPos, data), EncBase, curPos + Len(data))
    BY <1>2, <2>1, <2>2, <2>3, <2>4, RingOnTape
  <2>6. RingHas(win', EncBase, curPos + len)
    BY <2>1, <2>2, <2>5
  <2> QED
    BY <1>3, <1>4, <2>6 DEF WindowCurrent, RingHas
<1>13. FoundInv' /\ CallInv'
  BY <1>1 DEF FoundInv, CallInv, EncPc
<1>14. DecInv'
  <2>1. HistoryCurrent'
    BY <1>3, <1>4 DEF HistoryCurrent, Inv, DecInv
  <2>2. OutputInv'
    BY <1>1 DEF OutputInv, DecPc
  <2>3. FailsOnlyForRoom'
    <3>1. wire # <<>> => Head(wire') = Head(wire)
      BY <1>5, <1>3, <1>6
    <3> QED
      BY <1>3, <1>6, <3>1 DEF FailsOnlyForRoom, Inv, DecInv
  <2>4. Lossless'
    <3>1. Len(recvd) \in Nat
      BY DEF TypeInv, TypeOK
    <3> QED
      BY <1>2, <1>3, <3>1 DEF Lossless, Inv, DecInv
  <2> QED
    BY <2>1, <2>2, <2>3, <2>4 DEF DecInv
<1> QED
  BY <1>10, <1>11, <1>12, <1>13, <1>14 DEF Inv, EncInv

LEMMA InvResetEnc ==
    ASSUME Good, TypeInv', ResetEnc
    PROVE  Inv'
<1> USE DEF Good
<1>1. /\ pc = "idle" /\ pc' = "idle" /\ ht' = EmptyTable /\ curPos' = 0 /\ len = 0
      /\ resets' = resets \cup {sent}
      /\ UNCHANGED <<tape, sent, wire, win, hist, histPos, recvd, len, cap, dret>>
  BY DEF ResetEnc, input, decVars, decCall, encCall, Shape, TypeInv, EncPc
<1>2. sent \in Nat /\ curPos \in Nat /\ curPos <= sent /\ EncBase <= sent
  BY Sizes DEF Inv, LinkInv, Counters, EncBase, TypeInv, TypeOK, Pos
<1>3. EncBase' = sent /\ DecBase' = DecBase
  BY <1>1, <1>2 DEF EncBase, DecBase
<1>4. Counters'
  <2>1. \A r \in resets : r \in Nat /\ r <= EncBase
    BY Sizes DEF Inv, LinkInv, Counters, TypeInv, TypeOK
  <2>2. EncBase \in Nat
    BY <2>1 DEF Inv, LinkInv, Counters
  <2> QED
    BY <1>1, <1>2, <1>3, <2>1, <2>2 DEF Counters, Inv, LinkInv
<1>5. Chain'
  BY <1>1 DEF Chain, Inv, LinkInv
<1>6. GoodWire'
  <2>1. ASSUME NEW i \in 1 .. Len(wire)
        PROVE  GoodChunk(wire[i])'
    <3>1. GoodChunk(wire[i]) /\ wire[i].start + wire[i].raw <= sent
          /\ wire[i].start \in Nat /\ wire[i].raw \in Nat
      BY ChunkNats DEF Inv, LinkInv, GoodWire, Chain
    <3>2. wire[i].start < sent
      BY <1>2, <3>1 DEF GoodChunk
    <3>3. \A r \in resets' : r <= wire[i].start => r <= wire[i].epoch
      BY <1>1, <1>2, <3>1, <3>2 DEF GoodChunk
    <3>4. /\ tape' = tape /\ wire' = wire
          /\ GoodTokens(wire[i].toks, wire[i].start, wire[i].epoch,
                        wire[i].start + wire[i].raw)
      BY <1>1, <3>1 DEF GoodChunk
    <3>5. GoodTokens(wire[i].toks, wire[i].start, wire[i].epoch,
                     wire[i].start + wire[i].raw)'
      BY <3>4 DEF GoodTokens, GoodToken, TokEnd
    <3> QED
      BY <3>1, <3>3, <3>4, <3>5 DEF GoodChunk, TokEnd
  <2> QED
    BY <1>1, <2>1 DEF GoodWire
<1>7. EncInv'
  <2>1. TableInv'
    <3>1. Entries(ht)' = {}
      BY <1>1, EmptyTableType DEF Entries
    <3> QED
      BY <3>1 DEF TableInv
  <2>2. WindowCurrent'
    BY <1>1 DEF WindowCurrent
  <2> QED
    BY <1>1, <2>1, <2>2 DEF EncInv, FoundInv, CallInv, EncPc
<1>8. DecInv'
  BY <1>1, DecFrame DEF Inv, DecPc
<1> QED
  BY <1>4, <1>5, <1>6, <1>7, <1>8 DEF Inv, LinkInv

-----------------------------------------------------------------------------
(***************************************************************************)
(* The decoder's steps.                                                    *)
(***************************************************************************)

\* A step of a decoder call before its return changes the call's own state.
LEMMA DecCallFrame ==
    ASSUME Inv, pc \notin EncPc, pc' \notin EncPc,
           UNCHANGED <<input, link, encVars, decVars, encCall>>
    PROVE  LinkInv' /\ EncInv' /\ HistoryCurrent' /\ Lossless'
<1>1. UNCHANGED <<tape, sent, wire, resets, ht, curPos, win, hist, histPos, recvd, len>>
  BY DEF input, link, encVars, decVars, encCall
<1>2. LinkInv' /\ EncInv'
  BY <1>1, LinkFrame, EncFrame DEF Inv
<1>3. HistoryCurrent' /\ Lossless'
  BY <1>1 DEF Inv, DecInv, HistoryCurrent, Lossless, DecBase
<1> QED
  BY <1>2, <1>3

LEMMA HeadChunk ==
    ASSUME TypeInv, Inv, wire # <<>>
    PROVE  /\ Len(wire) \in Nat /\ 1 \in 1 .. Len(wire) /\ Chunk = wire[1]
           /\ GoodChunk(Chunk)
           /\ Chunk.start = Len(recvd) /\ Chunk.start + Chunk.raw <= sent
           /\ Chunk.start \in Nat /\ Chunk.raw \in Nat /\ Chunk.epoch \in Nat
           /\ Chunk.toks \in Seq(TokenType) /\ Len(Chunk.toks) \in Nat
<1>1. Len(wire) \in Nat /\ 1 \in 1 .. Len(wire) /\ Chunk = wire[1]
  BY DEF TypeInv, TypeOK, Chunk
<1>2. GoodChunk(Chunk) /\ Chunk.start = Len(recvd) /\ Chunk.start + Chunk.raw <= sent
  BY <1>1 DEF Inv, LinkInv, GoodWire, Chain
<1>3. /\ Chunk.start \in Nat /\ Chunk.raw \in Nat /\ Chunk.epoch \in Nat
      /\ Chunk.toks \in Seq(TokenType)
  BY <1>1, ChunkNats
<1> QED
  BY <1>1, <1>2, <1>3

\* The token the decoder is at.
LEMMA CurrentToken ==
    ASSUME TypeInv, Inv, pc \in DecPc
    PROVE  /\ Tok \in TokenType /\ Tok.at \in Nat /\ Tok.ml \in Nat
           /\ Tok.lits \in Seq(Byte \cup {Junk}) /\ Len(Tok.lits) \in Nat
           /\ GoodToken(Tok, Chunk.epoch, Chunk.start + Chunk.raw)
           /\ ti \in Nat /\ ti <= Len(Chunk.toks)
           /\ ti < Len(Chunk.toks) =>
                Tok.ml > 0 /\ Chunk.toks[ti + 1].at = TokEnd(Tok)
           /\ ti = Len(Chunk.toks) =>
                Tok.ml = 0 /\ TokEnd(Tok) = Chunk.start + Chunk.raw
<1>1. wire # <<>> /\ ti \in 1 .. Len(Chunk.toks)
  BY DEF TypeInv, Shape
<1>2. Len(Chunk.toks) \in Nat /\ GoodChunk(Chunk)
  BY <1>1, HeadChunk
<1>3. Tok \in TokenType
  BY TokType
<1>4. /\ GoodToken(Tok, Chunk.epoch, Chunk.start + Chunk.raw)
      /\ ti \in 1 .. Len(Chunk.toks) - 1 =>
            Tok.ml > 0 /\ Chunk.toks[ti + 1].at = TokEnd(Tok)
      /\ ti = Len(Chunk.toks) =>
            Tok.ml = 0 /\ TokEnd(Tok) = Chunk.start + Chunk.raw
  BY <1>1, <1>2 DEF GoodChunk, GoodTokens, Tok
<1>5. /\ Tok.at \in Nat /\ Tok.ml \in Nat
      /\ Tok.lits \in Seq(Byte \cup {Junk}) /\ Len(Tok.lits) \in Nat
  BY <1>3 DEF TokenType
<1> QED
  BY <1>1, <1>2, <1>3, <1>4, <1>5

\* Where the output of the call is on the tape, and how long it can get.
LEMMA OutputRanges ==
    ASSUME TypeInv, Inv, pc \in DecPc
    PROVE  /\ Len(recvd) \in Nat /\ Len(dout) \in Nat /\ cap \in Nat /\ ci \in Nat
           /\ sent \in Nat /\ sent <= N /\ N \in Nat
           /\ Chunk.start = Len(recvd) /\ Chunk.raw \in Nat
           /\ Len(recvd) + Chunk.raw <= sent
           /\ Tok.at + Len(Tok.lits) + Tok.ml <= Len(recvd) + Chunk.raw
           /\ wire # <<>> /\ Head(wire) = Chunk
<1>1. wire # <<>>
  BY DEF TypeInv, Shape
<1>2. TokEnd(Tok) <= Chunk.start + Chunk.raw
  BY CurrentToken DEF GoodToken
<1> QED
  BY <1>1, <1>2, HeadChunk, Sizes DEF TypeInv, TypeOK, TokEnd, Chunk

LEMMA InvDecBegin ==
    ASSUME Good, NEW c \in DecCaps, DecBegin(c)
    PROVE  Inv'
<1> USE DEF Good
<1>1. LinkInv' /\ EncInv' /\ HistoryCurrent' /\ Lossless'
  BY DecCallFrame DEF DecBegin, EncPc
<1>2. /\ pc' = "lits" /\ dout' = <<>> /\ ti' = 1 /\ dret' = 0 /\ wire # <<>>
      /\ UNCHANGED <<recvd, wire, sent, tape>>
  BY DEF DecBegin, link, decVars, input
<1>3. Tok' = Chunk.toks[1]
  BY <1>2 DEF Tok, Chunk
<1>4. Len(recvd) = Chunk.toks[1].at
  BY <1>2, HeadChunk DEF GoodChunk, GoodTokens
<1>5. Len(recvd) \in Nat /\ Len(recvd) <= sent
  BY DEF TypeInv, TypeOK, Inv, DecInv, Lossless
<1>6. OutputInv'
  BY <1>2, <1>3, <1>4, <1>5 DEF OutputInv
<1>7. FailsOnlyForRoom'
  BY <1>2 DEF FailsOnlyForRoom
<1> QED
  BY <1>1, <1>6, <1>7 DEF Inv, DecInv

\* A call that gives up for want of room leaves everything else as it was.
LEMMA InvFail ==
    ASSUME Good, pc \in DecPc, Fail, cap < Chunk.raw,
           UNCHANGED <<input, link, encVars, decVars, encCall>>
    PROVE  Inv'
<1> USE DEF Good
<1>1. LinkInv' /\ EncInv' /\ HistoryCurrent' /\ Lossless'
  BY DecCallFrame DEF Fail, EncPc, DecPc
<1>2. OutputInv'
  BY DEF OutputInv, Fail, DecPc
<1>3. FailsOnlyForRoom'
  BY OutputRanges DEF FailsOnlyForRoom, Fail, link
<1> QED
  BY <1>1, <1>2, <1>3 DEF Inv, DecInv

LEMMA InvDecLits ==
    ASSUME Good, DecLits
    PROVE  Inv'
<1> USE DEF Good
<1>1. pc \in DecPc /\ pc = "lits" /\ UNCHANGED <<input, link, encVars, decVars, encCall>>
  BY DEF DecLits, DecPc
<1>2. /\ \A j \in 1 .. Len(dout) : dout[j] = tape[Len(recvd) + j - 1]
      /\ Len(recvd) + Len(dout) = Tok.at
  BY <1>1 DEF Inv, DecInv, OutputInv
<1>3. CASE Len(dout) + Len(Tok.lits) > cap
  <2>1. cap < Chunk.raw
    <3>1. /\ Len(Tok.lits) \in Nat /\ Tok.at \in Nat /\ Tok.ml \in Nat
          /\ Len(dout) \in Nat /\ Len(recvd) \in Nat /\ cap \in Nat /\ Chunk.raw \in Nat
          /\ Tok.at + Len(Tok.lits) + Tok.ml <= Len(recvd) + Chunk.raw
      BY <1>1, CurrentToken, OutputRanges
    <3> QED
      BY <1>2, <1>3, <3>1
  <2> QED
    BY <1>1, <1>3, <2>1, InvFail DEF DecLits, Exceeds
<1>4. CASE ~ (Len(dout) + Len(Tok.lits) > cap)
  <2>1. /\ dout' = dout \o Tok.lits /\ UNCHANGED <<cap, ti, ci, dret>>
        /\ pc' = IF ti = Len(Chunk.toks) THEN "return" ELSE "match"
    BY <1>4 DEF DecLits, Exceeds
  <2>2. LinkInv' /\ EncInv' /\ HistoryCurrent' /\ Lossless'
    BY <1>1, <2>1, DecCallFrame DEF EncPc
  <2>3. /\ Len(dout') = Len(dout) + Len(Tok.lits)
        /\ \A j \in 1 .. Len(dout') :
              dout'[j] = IF j <= Len(dout) THEN dout[j] ELSE Tok.lits[j - Len(dout)]
    <3>1. dout \in Seq(Byte \cup {Junk}) /\ Tok.lits \in Seq(Byte \cup {Junk})
      BY <1>1, CurrentToken DEF TypeInv, TypeOK
    <3> QED
      BY <2>1, <3>1
  <2>4. ASSUME NEW j \in 1 .. Len(dout')
        PROVE  dout'[j] = tape[Len(recvd) + j - 1]
    <3>1. Len(dout) \in Nat /\ Len(recvd) \in Nat /\ Len(Tok.lits) \in Nat
      BY <1>1, CurrentToken, OutputRanges
    <3>2. CASE j <= Len(dout)
      BY <1>2, <2>3, <3>1, <3>2
    <3>3. CASE j > Len(dout)
      <4>1. j - Len(dout) \in 1 .. Len(Tok.lits)
        BY <2>3, <3>1, <3>3
      <4>2. Tok.lits[j - Len(dout)] = tape[Tok.at + (j - Len(dout)) - 1]
        BY <1>1, <4>1, CurrentToken DEF GoodToken
      <4>3. Tok.at + (j - Len(dout)) - 1 = Len(recvd) + j - 1
        BY <1>2, <2>3, <3>1, <4>1
      <4> QED
        BY <2>3, <3>1, <3>3, <4>2, <4>3
    <3> QED
      BY <2>3, <3>1, <3>2, <3>3
  <2>5. Tok' = Tok /\ Chunk' = Chunk
    BY <1>1, <2>1 DEF Tok, Chunk, link
  <2>6. ti = Len(Chunk.toks) => Tok.at + Len(Tok.lits) = Len(recvd) + Chunk.raw
    <3>1. /\ Tok.at \in Nat /\ Len(Tok.lits) \in Nat
          /\ ti = Len(Chunk.toks) =>
               Tok.ml = 0 /\ TokEnd(Tok) = Chunk.start + Chunk.raw
      BY <1>1, CurrentToken
    <3>2. Chunk.start = Len(recvd)
      BY <1>1, OutputRanges
    <3> QED
      BY <3>1, <3>2 DEF TokEnd
  <2>7. OutputInv'
    <3>1. UNCHANGED <<recvd, sent, tape>>
      BY <1>1 DEF decVars, link, input
    <3>2. Len(recvd) + Len(dout') = Tok.at + Len(Tok.lits)
      <4>1. Len(Tok.lits) \in Nat /\ Len(recvd) \in Nat /\ Len(dout) \in Nat
        BY <1>1, CurrentToken, OutputRanges
      <4> QED
        BY <1>2, <2>3, <4>1
    <3>3. Len(recvd) + Len(dout') <= sent
      BY <1>1, <3>2, CurrentToken, OutputRanges
    <3>4. ti = Len(Chunk.toks) => Len(dout') = Chunk.raw
      <4>1. Len(dout') \in Nat /\ Len(recvd) \in Nat /\ Chunk.raw \in Nat
        BY <1>1, <2>3, CurrentToken, OutputRanges
      <4> QED
        BY <2>6, <3>2, <4>1
    <3> QED
      BY <2>1, <2>4, <2>5, <3>1, <3>2, <3>3, <3>4 DEF OutputInv
  <2>8. FailsOnlyForRoom'
    BY <1>1, <2>1 DEF FailsOnlyForRoom, Inv, DecInv, link
  <2> QED
    BY <2>2, <2>7, <2>8 DEF Inv, DecInv
<1> QED
  BY <1>3, <1>4

LEMMA InvDecMatch ==
    ASSUME Good, DecMatch
    PROVE  Inv'
<1> USE DEF Good
<1>1. pc \in DecPc /\ pc = "match" /\ UNCHANGED <<input, link, encVars, decVars, encCall>>
  BY DEF DecMatch, DecPc
<1>2. /\ \A j \in 1 .. Len(dout) : dout[j] = tape[Len(recvd) + j - 1]
      /\ Len(recvd) + Len(dout) = Tok.at + Len(Tok.lits)
  BY <1>1 DEF Inv, DecInv, OutputInv
<1>3. Tok.ml > 0 /\ Tok.off16 # 0
  <2>1. ti < Len(Chunk.toks)
    BY <1>1 DEF TypeInv, Shape
  <2>2. Tok.ml > 0 /\ GoodToken(Tok, Chunk.epoch, Chunk.start + Chunk.raw)
    BY <1>1, <2>1, CurrentToken
  <2>3. Tok.off16 = Tok.off32 /\ Tok.off32 \in 1 .. DistMax
    BY <2>2 DEF GoodToken
  <2> QED
    BY <2>2, <2>3
<1>4. CASE Len(dout) + Tok.ml > cap
  <2>1. cap < Chunk.raw
    BY <1>1, <1>2, <1>4, CurrentToken, OutputRanges
  <2> QED
    BY <1>1, <1>4, <2>1, InvFail DEF DecMatch, Exceeds
<1>5. CASE ~ (Len(dout) + Tok.ml > cap)
  <2>1. pc' = "copy" /\ ci' = 0 /\ UNCHANGED <<cap, ti, dout, dret>>
    BY <1>3, <1>5 DEF DecMatch, Exceeds
  <2>2. LinkInv' /\ EncInv' /\ HistoryCurrent' /\ Lossless'
    BY <1>1, <2>1, DecCallFrame DEF EncPc
  <2>3. Tok' = Tok /\ Chunk' = Chunk /\ UNCHANGED <<recvd, sent, tape>>
    BY <1>1, <2>1 DEF Tok, Chunk, link, decVars, input
  <2>4. OutputInv'
    <3>1. Len(recvd) + Len(dout) <= sent
      BY <1>1 DEF Inv, DecInv, OutputInv
    <3>2. Len(recvd) + Len(dout) = Tok.at + Len(Tok.lits) + 0
      BY <1>1, <1>2, CurrentToken
    <3> QED
      BY <1>2, <1>3, <2>1, <2>3, <3>1, <3>2 DEF OutputInv
  <2>5. FailsOnlyForRoom'
    BY <1>1, <2>1 DEF FailsOnlyForRoom, Inv, DecInv, link
  <2> QED
    BY <2>2, <2>4, <2>5 DEF Inv, DecInv
<1> QED
  BY <1>4, <1>5

\* The copy loop reads the byte a match distance back on the tape, from the
\* output of the call or from the ring, and that is the byte due next.
LEMMA CopyOnTape ==
    ASSUME Good, pc = "copy"
    PROVE  CopyByte = tape[Len(recvd) + Len(dout)]
<1> USE DEF Good
<1> DEFINE o == Len(dout)
           q == Len(recvd) + Len(dout)
           m == Tok.at + Len(Tok.lits)
<1>1. pc \in DecPc /\ ti < Len(Chunk.toks)
  BY DEF DecPc, TypeInv, Shape
<1>2. /\ o \in Nat /\ m \in Nat /\ q \in Nat /\ ci \in Nat /\ Len(recvd) \in Nat
      /\ histPos \in Nat /\ PosMod \in Nat /\ q < PosMod /\ Chunk.epoch \in Nat
      /\ q = Len(recvd) + o
  <2>1. wire # <<>>
    BY <1>1 DEF TypeInv, Shape
  <2>2. histPos \in Nat /\ q <= sent
    BY <1>1 DEF TypeInv, TypeOK, Pos, Inv, DecInv, OutputInv
  <2>3. /\ Len(dout) \in Nat /\ Len(recvd) \in Nat /\ ci \in Nat /\ sent <= N /\ N \in Nat
        /\ sent \in Nat /\ Tok.at \in Nat /\ Len(Tok.lits) \in Nat
    BY <1>1, CurrentToken, OutputRanges
  <2>4. Chunk.epoch \in Nat /\ PosMod \in Nat /\ N < PosMod
    BY <2>1, HeadChunk, Sizes DEF NoWrap
  <2> QED
    BY <2>2, <2>3, <2>4
<1>3. /\ \A j \in 1 .. o : dout[j] = tape[Len(recvd) + j - 1]
      /\ q = m + ci /\ ci < Tok.ml
  BY <1>1 DEF Inv, DecInv, OutputInv
<1>4. /\ Tok.ml \in Nat /\ Tok.off16 = Tok.off32 /\ Tok.off32 \in 1 .. DistMax
      /\ Tok.off32 <= m - Chunk.epoch
      /\ \A j \in 0 .. Tok.ml - 1 :
            tape[Tok.at + Len(Tok.lits) + j] = tape[Tok.at + Len(Tok.lits) + j - Tok.off32]
  <2>1. GoodToken(Tok, Chunk.epoch, Chunk.start + Chunk.raw) /\ Tok.ml > 0 /\ Tok.ml \in Nat
        /\ Tok.at \in Nat /\ Len(Tok.lits) \in Nat
    BY <1>1, CurrentToken
  <2>2. Tok.off32 <= Tok.at + Len(Tok.lits) - Chunk.epoch /\ Tok.off32 \in 1 .. DistMax
    BY <2>1 DEF GoodToken
  <2>3. Tok.off32 <= m - Chunk.epoch
    BY <1>2, <2>1, <2>2, Sizes
  <2> QED
    BY <2>1, <2>2, <2>3 DEF GoodToken
<1> DEFINE off == Offset
<1>5. off = Tok.off32 /\ off \in Nat /\ off >= 1 /\ off < Ring
  BY <1>4, Sizes DEF Offset
<1>6. tape[m + ci] = tape[(m + ci) - off]
  <2>1. ci \in 0 .. Tok.ml - 1
    BY <1>2, <1>3, <1>4
  <2>2. tape[Tok.at + Len(Tok.lits) + ci] = tape[Tok.at + Len(Tok.lits) + ci - Tok.off32]
    BY <1>4, <2>1
  <2>3. Tok.at + Len(Tok.lits) + ci - Tok.off32 = (m + ci) - off
    <3>1. Tok.at \in Nat /\ Len(Tok.lits) \in Nat
      BY <1>1, CurrentToken
    <3>2. ci \in Nat /\ off \in Nat /\ off = Tok.off32
      BY <1>2, <1>5
    <3> QED
      BY <3>1, <3>2
  <2> QED
    BY <2>2, <2>3
<1>7. DecBase \in Nat /\ DecBase <= Chunk.epoch /\ histPos <= Len(recvd)
      /\ DecBase = Len(recvd) - histPos
  <2>1. DecBase \in resets /\ histPos <= Len(recvd)
    BY DEF Inv, LinkInv, Counters
  <2>2. DecBase \in Nat /\ DecBase <= Len(recvd)
    BY <1>2, <2>1 DEF DecBase
  <2>3. Len(recvd) = Chunk.start /\ \A r \in resets : r <= Chunk.start => r <= Chunk.epoch
    <3>1. wire # <<>>
      BY <1>1 DEF TypeInv, Shape
    <3> QED
      BY <3>1, HeadChunk DEF GoodChunk
  <2> QED
    BY <2>1, <2>2, <2>3 DEF DecBase
<1>8. HistoryCurrent
  BY DEF Inv, DecInv
<1> HIDE DEF o, q, m, off
<1>9. ASSUME off <= o
      PROVE  OutByte(o - off) = tape[q - off]
  <2>1. o - off \in Nat /\ o - off < o /\ (o - off) + 1 \in 1 .. o
    BY <1>2, <1>5, <1>9
  <2>2. dout[(o - off) + 1] = tape[Len(recvd) + ((o - off) + 1) - 1]
    BY <1>3, <2>1
  <2>3. Len(recvd) + ((o - off) + 1) - 1 = q - off
    BY <1>2, <1>5
  <2> QED
    BY <2>1, <2>2, <2>3 DEF OutByte, o
<1>10. CASE off <= o - ci
  <2>1. CopyByte = OutByte(o - off)
    BY <1>10 DEF CopyByte, o, off
  <2>2. off <= o
    BY <1>2, <1>5, <1>10
  <2> QED
    BY <1>3, <1>6, <1>9, <2>1, <2>2 DEF q, o
<1>11. CASE ~ (off <= o - ci)
  <2> DEFINE A == (histPos + o) - off
  <2>1. A \in Nat /\ A < PosMod /\ DecBase + A = q - off
    <3>1. q = m + ci /\ off <= m - Chunk.epoch
      BY <1>3, <1>4, <1>5
    <3>2. q - off >= DecBase
      BY <1>2, <1>5, <1>7, <3>1
    <3>3. /\ histPos \in Nat /\ o \in Nat /\ off \in Nat /\ q = Len(recvd) + o
          /\ Len(recvd) \in Nat /\ DecBase = Len(recvd) - histPos
          /\ q < PosMod /\ histPos <= Len(recvd) /\ off >= 1 /\ PosMod \in Nat
      BY <1>2, <1>5, <1>7
    <3>4. DecBase + A = q - off
      BY <3>3
    <3>5. A \in Nat
      BY <3>2, <3>3, <3>4
    <3>6. A < PosMod
      BY <3>3
    <3> QED
      BY <3>4, <3>5, <3>6
  <2>2. (histPos + (o - ci) - off + ci) % PosMod = A
    <3>1. histPos + (o - ci) - off + ci = A
      BY <1>2, <1>5
    <3> HIDE DEF A
    <3>2. A \in Nat /\ PosMod \in Nat /\ A < PosMod
      BY <1>2, <2>1
    <3>3. A % PosMod = A
      BY <3>2
    <3> QED
      BY <3>1, <3>3
  <2>3. CopyByte = IF A >= histPos THEN OutByte(A - histPos) ELSE hist[A % Ring]
    BY <1>11, <2>2 DEF CopyByte, o, off
  <2>4. CASE A >= histPos
    <3>1. off <= o /\ A - histPos = o - off
      BY <1>2, <1>5, <2>4
    <3>2. CopyByte = OutByte(o - off)
      BY <2>3, <2>4, <3>1
    <3>3. OutByte(o - off) = tape[q - off] /\ tape[q] = tape[q - off]
      BY <1>3, <1>6, <1>9, <3>1
    <3> QED
      BY <3>2, <3>3 DEF q
  <2>5. CASE A < histPos
    <3>1. A \in 0 .. histPos - 1 /\ A >= histPos - Ring
      <4>1. /\ A \in Nat /\ histPos \in Nat /\ o \in Nat /\ off \in Nat /\ off < Ring
            /\ Ring \in Nat
        BY <1>2, <1>5, <2>1, Sizes
      <4> QED
        BY <4>1, <2>5
    <3>2. hist[A % Ring] = tape[DecBase + A]
      BY <1>8, <3>1 DEF HistoryCurrent
    <3>3. ~ (A >= histPos)
      BY <1>2, <2>1, <2>5
    <3> QED
      BY <1>3, <1>6, <2>1, <2>3, <3>2, <3>3 DEF q, o
  <2> QED
    BY <1>2, <2>1, <2>4, <2>5
<1> QED
  BY <1>10, <1>11

LEMMA InvDecCopy ==
    ASSUME Good, DecCopy
    PROVE  Inv'
<1> USE DEF Good
<1> DEFINE r == Len(recvd)
           o == Len(dout)
           m == Tok.at + Len(Tok.lits)
<1>1. /\ pc \in DecPc /\ pc = "copy" /\ pc' \in DecPc
      /\ UNCHANGED <<input, link, encVars, decVars, encCall, cap, dret>>
  BY DEF DecCopy, DecPc
<1>2. LinkInv' /\ EncInv' /\ HistoryCurrent' /\ Lossless'
  BY <1>1, DecCallFrame DEF DecCopy, EncPc, DecPc
<1>3. dout' = Append(dout, tape[r + o])
  BY <1>1, CopyOnTape DEF DecCopy
<1>4. /\ o \in Nat /\ Len(dout') = o + 1
      /\ dout'[o + 1] = tape[r + o]
      /\ \A j \in 1 .. o : dout'[j] = dout[j]
  <2>1. dout \in Seq(Byte \cup {Junk})
    BY DEF TypeInv, TypeOK
  <2> QED
    BY <1>3, <2>1, AppendFacts
<1>5. /\ \A j \in 1 .. o : dout[j] = tape[r + j - 1]
      /\ r + o = m + ci
      /\ ci < Tok.ml
  BY <1>1 DEF Inv, DecInv, OutputInv
<1>6. /\ r \in Nat /\ ci \in Nat /\ sent \in Nat /\ m \in Nat /\ Tok.ml \in Nat
      /\ m + Tok.ml <= sent /\ TokEnd(Tok) = m + Tok.ml
  <2>1. /\ Tok.at \in Nat /\ Len(Tok.lits) \in Nat /\ Tok.ml \in Nat
        /\ r \in Nat /\ ci \in Nat /\ sent \in Nat
        /\ r + Chunk.raw <= sent /\ Chunk.raw \in Nat
        /\ Tok.at + Len(Tok.lits) + Tok.ml <= r + Chunk.raw
    BY <1>1, OutputRanges, CurrentToken
  <2> QED
    BY <2>1 DEF TokEnd
<1>7. UNCHANGED <<recvd, sent, tape, wire>> /\ Chunk' = Chunk
  BY <1>1 DEF decVars, link, input, Chunk
<1>8. r + (o + 1) <= sent /\ r + (o + 1) = m + (ci + 1)
  <2> DEFINE l == Tok.ml
  <2>1. o \in Nat /\ r + o = m + ci /\ ci < l
    BY <1>4, <1>5
  <2>2. r \in Nat /\ ci \in Nat /\ sent \in Nat /\ m \in Nat /\ l \in Nat /\ m + l <= sent
    BY <1>6
  <2> HIDE DEF r, o, m, l
  <2>3. (r + o) + 1 = (m + ci) + 1 /\ (m + ci) + 1 <= m + l
    BY <2>1, <2>2
  <2> QED
    BY <2>1, <2>2, <2>3
<1>9. OutputInv' <=>
        /\ pc' = "lits" => r + (o + 1) = Tok'.at
        /\ pc' = "copy" => /\ ci' < Tok'.ml
                           /\ r + (o + 1) = Tok'.at + Len(Tok'.lits) + ci'
  <2>1. ASSUME NEW j \in 1 .. o + 1
        PROVE  dout'[j] = tape[r + j - 1]
    <3> HIDE DEF r, o
    <3>1. CASE j \in 1 .. o
      BY <1>4, <1>5, <3>1
    <3>2. CASE j = o + 1
      <4>1. r + (o + 1) - 1 = r + o
        BY <1>4, <1>6
      <4> QED
        BY <1>4, <3>2, <4>1
    <3> QED
      BY <1>4, <3>1, <3>2
  <2>2. pc' \in {"lits", "copy"}
    BY DEF DecCopy
  <2> QED
    BY <1>1, <1>4, <1>7, <1>8, <2>1, <2>2 DEF OutputInv
<1>10. FailsOnlyForRoom'
  BY <1>1, <1>7 DEF FailsOnlyForRoom, Inv, DecInv
<1>11. CASE ci + 1 < Tok.ml
  <2>1. ci' = ci + 1 /\ ti' = ti /\ pc' = "copy"
    BY <1>1, <1>11 DEF DecCopy
  <2>2. Tok' = Tok
    BY <1>7, <2>1 DEF Tok
  <2>3. OutputInv'
    BY <1>8, <1>9, <1>11, <2>1, <2>2
  <2> QED
    BY <1>2, <1>10, <2>3 DEF Inv, DecInv
<1>12. CASE ~ (ci + 1 < Tok.ml)
  <2>1. ti' = ti + 1 /\ pc' = "lits"
    BY <1>1, <1>12 DEF DecCopy
  <2>2. Tok' = Chunk.toks[ti + 1]
    BY <1>7, <2>1 DEF Tok
  <2>3. Tok'.at = TokEnd(Tok)
    <3>1. ti < Len(Chunk.toks)
      BY <1>1 DEF TypeInv, Shape
    <3> QED
      BY <1>1, <2>2, <3>1, CurrentToken
  <2>4. r + (o + 1) = Tok'.at
    <3> HIDE DEF r, o, m
    <3>1. ci + 1 = Tok.ml
      BY <1>5, <1>6, <1>12
    <3> QED
      BY <1>6, <1>8, <2>3, <3>1
  <2>5. OutputInv'
    BY <1>9, <2>1, <2>4
  <2> QED
    BY <1>2, <1>10, <2>5 DEF Inv, DecInv
<1> QED
  BY <1>11, <1>12

LEMMA InvDecReturn ==
    ASSUME Good, TypeInv', DecReturn
    PROVE  Inv'
<1> USE DEF Good
<1> DEFINE r == Len(recvd)
           o == Len(dout)
<1>1. /\ pc \in DecPc /\ pc = "return" /\ pc' = "idle" /\ wire # <<>>
      /\ UNCHANGED <<tape, sent, resets, ht, curPos, win, len>>
      /\ wire' = Tail(wire) /\ recvd' = recvd \o dout /\ dret' = o
      /\ hist' = RingWrite(hist, histPos, dout) /\ histPos' = (histPos + o) % PosMod
  BY DEF DecReturn, DecPc, input, encVars, encCall, TypeInv, Shape
<1>2. /\ \A j \in 1 .. o : dout[j] = tape[r + j - 1]
      /\ r + o <= sent /\ o = Chunk.raw
  BY <1>1 DEF Inv, DecInv, OutputInv
<1>3. /\ r \in Nat /\ o \in Nat /\ sent \in Nat /\ sent < PosMod /\ histPos \in Nat
      /\ histPos <= r /\ DecBase \in resets /\ DecBase = r - histPos /\ PosMod \in Nat
  <2>1. histPos \in Nat /\ DecBase \in resets /\ histPos <= r
    BY DEF TypeInv, TypeOK, Pos, Inv, LinkInv, Counters
  <2> QED
    BY <1>1, <2>1, OutputRanges, Sizes DEF NoWrap, DecBase
<1>4. /\ Len(wire) \in Nat /\ 1 \in 1 .. Len(wire) /\ wire[1].raw = o /\ wire[1].start = r
      /\ Len(wire') = Len(wire) - 1
      /\ \A i \in 1 .. Len(wire) - 1 : wire'[i] = wire[i + 1]
  <2>1. /\ Len(wire) \in Nat /\ 1 \in 1 .. Len(wire) /\ wire[1].raw = o /\ wire[1].start = r
    BY <1>1, <1>2, HeadChunk
  <2>2. wire \in Seq(ChunkType)
    BY DEF TypeInv, TypeOK
  <2> QED
    BY <1>1, <2>1, <2>2
<1>5. /\ Len(recvd') = r + o
      /\ \A j \in 1 .. r + o : recvd'[j] = IF j <= r THEN recvd[j] ELSE dout[j - r]
  <2>1. recvd \in Seq(Byte \cup {Junk}) /\ dout \in Seq(Byte \cup {Junk})
    BY DEF TypeInv, TypeOK
  <2> QED
    BY <1>1, <2>1
<1>6. histPos' = histPos + o
  <2>1. histPos + o \in 0 .. PosMod - 1
    BY <1>2, <1>3
  <2> HIDE DEF o
  <2>2. histPos + o \in Nat /\ PosMod \in Nat /\ histPos + o < PosMod
    BY <1>3, <2>1
  <2>3. (histPos + o) % PosMod = histPos + o
    BY <2>2
  <2> QED
    BY <1>1, <2>3
<1>7. DecBase' = DecBase /\ EncBase' = EncBase
  <2>1. Len(recvd') - histPos' = r - histPos
    BY <1>3, <1>5, <1>6
  <2> QED
    BY <1>1, <1>3, <2>1 DEF DecBase, EncBase
<1>8. Counters'
  <2>1. histPos' <= Len(recvd')
    BY <1>3, <1>5, <1>6
  <2> QED
    BY <1>1, <1>3, <1>7, <2>1 DEF Counters, Inv, LinkInv
<1>9. Chain'
  <2>1. /\ wire[Len(wire)].start + wire[Len(wire)].raw = sent
        /\ \A i \in 1 .. Len(wire) - 1 : wire[i].start + wire[i].raw = wire[i + 1].start
        /\ \A i \in 1 .. Len(wire) : wire[i].start + wire[i].raw <= sent
        /\ \A i, j \in 1 .. Len(wire) :
              i < j => wire[i].start + wire[i].raw <= wire[j].start
    BY <1>1 DEF Inv, LinkInv, Chain
  <2>2. ASSUME wire' = <<>>
        PROVE  Len(recvd') = sent
    <3>1. Len(wire) = 1
      BY <1>4, <2>2
    <3> QED
      BY <1>4, <1>5, <2>1, <3>1
  <2>3. ASSUME wire' # <<>>
        PROVE  /\ wire'[1].start = Len(recvd')
               /\ wire'[Len(wire')].start + wire'[Len(wire')].raw = sent
    <3>1. Len(wire) > 1
      <4>1. wire' \in Seq(ChunkType)
        BY DEF TypeInv, TypeOK
      <4>2. Len(wire') # 0
        BY <2>3, <4>1
      <4> QED
        BY <1>4, <4>2
    <3>2. 1 \in 1 .. Len(wire) - 1 /\ Len(wire) - 1 \in 1 .. Len(wire) - 1
      BY <1>4, <3>1
    <3>3. wire'[1] = wire[2] /\ wire[1].start + wire[1].raw = wire[2].start
      <4>1. wire'[1] = wire[1 + 1] /\ wire[1].start + wire[1].raw = wire[1 + 1].start
        BY <1>4, <2>1, <3>2
      <4>2. 1 + 1 = 2
        OBVIOUS
      <4> QED
        BY <4>1, <4>2
    <3>4. wire'[Len(wire) - 1] = wire[Len(wire)]
      BY <1>4, <3>2
    <3> QED
      BY <1>4, <1>5, <2>1, <3>3, <3>4
  <2>4. ASSUME NEW i \in 1 .. Len(wire') - 1
        PROVE  wire'[i].start + wire'[i].raw = wire'[i + 1].start
    <3>1. i \in 1 .. Len(wire) - 1 /\ i + 1 \in 1 .. Len(wire) - 1
      BY <1>4
    <3> QED
      BY <1>4, <2>1, <3>1
  <2>5. ASSUME NEW i \in 1 .. Len(wire')
        PROVE  wire'[i].start + wire'[i].raw <= sent
    <3>1. i \in 1 .. Len(wire) - 1 /\ i + 1 \in 1 .. Len(wire)
      BY <1>4
    <3> QED
      BY <1>4, <2>1, <3>1
  <2>6. ASSUME NEW i \in 1 .. Len(wire'), NEW j \in 1 .. Len(wire'), i < j
        PROVE  wire'[i].start + wire'[i].raw <= wire'[j].start
    <3>1. /\ i \in 1 .. Len(wire) - 1 /\ i + 1 \in 1 .. Len(wire) /\ i + 1 < j + 1
          /\ j \in 1 .. Len(wire) - 1 /\ j + 1 \in 1 .. Len(wire)
      BY <1>4, <2>6
    <3> QED
      BY <1>4, <2>1, <3>1
  <2> QED
    BY <1>1, <2>2, <2>3, <2>4, <2>5, <2>6 DEF Chain
<1>10. GoodWire'
  <2>1. ASSUME NEW i \in 1 .. Len(wire')
        PROVE  GoodChunk(wire'[i])
    <3>1. i \in 1 .. Len(wire) - 1 /\ i + 1 \in 1 .. Len(wire)
      BY <1>4
    <3> QED
      BY <1>4, <3>1 DEF Inv, LinkInv, GoodWire
  <2> QED
    BY <1>1, <2>1, WireFrame
<1>11. EncInv'
  BY <1>1, EncFrame DEF Inv, EncPc
<1>12. HistoryCurrent'
  <2>1. /\ hist \in [0 .. Ring - 1 -> Byte \cup {Junk}] /\ dout \in Seq(Byte \cup {Junk})
        /\ DecBase \in Nat
    BY <1>3 DEF TypeInv, TypeOK
  <2>2. OnTape(dout, DecBase + histPos)
    <3>1. DecBase + histPos = r
      BY <1>3
    <3> QED
      BY <1>2, <3>1 DEF OnTape
  <2>3. RingHas(hist, DecBase, histPos)
    BY DEF Inv, DecInv, HistoryCurrent, RingHas
  <2>4. RingHas(RingWrite(hist, histPos, dout), DecBase, histPos + o)
    BY <1>3, <2>1, <2>2, <2>3, RingOnTape
  <2> QED
    BY <1>1, <1>6, <1>7, <2>4 DEF HistoryCurrent, RingHas
<1>13. Lossless'
  <2>1. ASSUME NEW j \in 1 .. r + o
        PROVE  recvd'[j] = tape[j - 1]
    <3>1. CASE j <= r
      <4>1. j \in 1 .. r
        BY <1>3, <3>1
      <4> QED
        BY <1>5, <3>1, <4>1 DEF Inv, DecInv, Lossless
    <3>2. CASE ~ (j <= r)
      <4>1. j - r \in 1 .. o /\ r + (j - r) - 1 = j - 1
        BY <1>3, <3>2
      <4> QED
        BY <1>2, <1>5, <3>2, <4>1
    <3> QED
      BY <3>1, <3>2
  <2> QED
    BY <1>1, <1>2, <1>5, <2>1 DEF Lossless
<1>14. FailsOnlyForRoom' /\ OutputInv'
  <2>1. dret' # -1
    BY <1>1, <1>3
  <2> QED
    BY <1>1, <2>1 DEF FailsOnlyForRoom, OutputInv, DecPc
<1> QED
  BY <1>8, <1>9, <1>10, <1>11, <1>12, <1>13, <1>14 DEF Inv, LinkInv, DecInv

LEMMA InvResetDec ==
    ASSUME Good, ResetDec
    PROVE  Inv'
<1> USE DEF Good
<1>1. /\ pc = "idle" /\ pc' = "idle" /\ histPos' = 0 /\ Len(recvd) \in resets
      /\ UNCHANGED <<tape, sent, resets, wire, ht, curPos, win, len, hist, recvd, cap, dret>>
  BY DEF ResetDec, input, link, encVars, encCall, decCall
<1>2. Len(recvd) \in Nat /\ DecBase' = Len(recvd) /\ EncBase' = EncBase
  BY <1>1 DEF DecBase, EncBase, TypeInv, TypeOK
<1>3. Counters'
  BY <1>1, <1>2 DEF Counters, Inv, LinkInv
<1>4. Chain' /\ GoodWire'
  <2>1. Chain'
    BY <1>1 DEF Inv, LinkInv, Chain
  <2>2. GoodWire'
    BY <1>1, WireFrame DEF Inv, LinkInv, GoodWire
  <2> QED
    BY <2>1, <2>2
<1>5. EncInv'
  BY <1>1, EncFrame DEF Inv, EncPc
<1>6. HistoryCurrent' /\ OutputInv'
  BY <1>1 DEF HistoryCurrent, OutputInv, DecPc
<1>7. FailsOnlyForRoom' /\ Lossless'
  BY <1>1 DEF Inv, DecInv, FailsOnlyForRoom, Lossless
<1> QED
  BY <1>3, <1>4, <1>5, <1>6, <1>7 DEF Inv, LinkInv, DecInv

-----------------------------------------------------------------------------
(***************************************************************************)
(* The theorems.                                                           *)
(***************************************************************************)
LEMMA InvInit == Init => Inv
<1> SUFFICES ASSUME Init PROVE Inv
  OBVIOUS
<1>1. Entries(ht) = {}
  BY EmptyTableType DEF Init
<1>2. LinkInv
  BY DEF Init, LinkInv, Counters, Chain, GoodWire, EncBase, DecBase
<1>3. EncInv
  BY <1>1 DEF Init, EncInv, TableInv, WindowCurrent, FoundInv, CallInv, EncPc
<1>4. DecInv
  BY DEF Init, DecInv, HistoryCurrent, OutputInv, FailsOnlyForRoom, Lossless, DecPc
<1> QED
  BY <1>2, <1>3, <1>4 DEF Inv

LEMMA InvStutter == Inv /\ UNCHANGED vars => Inv'
<1> SUFFICES ASSUME Inv, UNCHANGED vars PROVE Inv'
  OBVIOUS
<1>1. UNCHANGED <<tape, sent, curPos, resets, recvd, histPos, wire>>
  BY DEF vars, input, link, encVars, decVars
<1>2. LinkInv'
  BY <1>1, LinkFrame DEF Inv
<1>3. UNCHANGED <<pc, ht, win, len, ip, anchor, mpos, toks>>
  BY DEF vars, encVars, encCall
<1>4. EncInv'
  BY <1>1, <1>3 DEF Inv, EncInv, TableInv, WindowCurrent, FoundInv, CallInv, Entries,
                    GoodTokens, GoodToken, TokEnd, EncBase
<1>5. UNCHANGED <<hist, cap, ti, dout, ci, dret>>
  BY DEF vars, decVars, decCall
<1>6. DecInv'
  BY <1>1, <1>3, <1>5 DEF Inv, DecInv, HistoryCurrent, OutputInv, FailsOnlyForRoom,
                          Lossless, DecBase, Tok, Chunk
<1> QED
  BY <1>2, <1>4, <1>6 DEF Inv

LEMMA InvStep == Good /\ [Next]_vars => Inv'
<1> SUFFICES ASSUME Good, [Next]_vars PROVE Inv'
  OBVIOUS
<1>1. TypeInv'
  BY TypeStep DEF Good
<1>2. ASSUME NEW n \in ChunkLens, EncBegin(n) PROVE Inv'
  BY <1>2, InvEncBegin
<1>3. CASE EncStep
  BY <1>1, <1>3, InvEncHit, InvEncMiss, InvEncSearchEnd, InvEncEmit, InvEncHash,
     InvEncHashDone, InvEncLast DEF EncStep
<1>4. ASSUME NEW c \in DecCaps, DecBegin(c) PROVE Inv'
  BY <1>4, InvDecBegin
<1>5. CASE DecStep
  BY <1>1, <1>5, InvDecLits, InvDecMatch, InvDecCopy, InvDecReturn DEF DecStep
<1>6. CASE ResetEnc
  BY <1>1, <1>6, InvResetEnc
<1>7. CASE ResetDec
  BY <1>7, InvResetDec
<1>8. CASE UNCHANGED vars
  BY <1>8, InvStutter DEF Good
<1> QED
  BY <1>2, <1>3, <1>4, <1>5, <1>6, <1>7, <1>8 DEF Next

\* The inductive invariant, while the tape is shorter than 4 GiB.
THEOREM InvCorrect == NoWrap => (Spec => []Inv)
<1> SUFFICES ASSUME NoWrap PROVE Spec => []Inv
  OBVIOUS
<1>1. Init => TypeInv /\ Inv
  BY TypeInit, InvInit
<1>2. (TypeInv /\ Inv) /\ [Next]_vars => (TypeInv /\ Inv)'
  BY TypeStep, InvStep DEF Good
<1> QED
  BY <1>1, <1>2, PTL DEF Spec

\* Whatever the tape, the parameters, the sizes of the calls and the resets
\* on both sides, what the decoder has returned is what the encoder was given.
THEOREM LosslessCorrect == NoWrap => (Spec => []Lossless)
<1> SUFFICES ASSUME NoWrap PROVE Spec => []Lossless
  OBVIOUS
<1>1. Inv => Lossless
  BY DEF Inv, DecInv
<1> QED
  BY <1>1, InvCorrect, PTL

\* The decoder rejects nothing the encoder wrote but for want of room.
THEOREM FailsOnlyForRoomCorrect == NoWrap => (Spec => []FailsOnlyForRoom)
<1> SUFFICES ASSUME NoWrap PROVE Spec => []FailsOnlyForRoom
  OBVIOUS
<1>1. Inv => FailsOnlyForRoom
  BY DEF Inv, DecInv
<1> QED
  BY <1>1, InvCorrect, PTL

\* The encoder's ring never forgets or misplaces one of its last bytes.
THEOREM WindowCurrentCorrect == NoWrap => (Spec => []WindowCurrent)
<1> SUFFICES ASSUME NoWrap PROVE Spec => []WindowCurrent
  OBVIOUS
<1>1. Inv => WindowCurrent
  BY DEF Inv, EncInv
<1> QED
  BY <1>1, InvCorrect, PTL

\* Between calls the hash table knows only bytes that were encoded.
THEOREM TableBehindCorrect == NoWrap => (Spec => []TableBehind)
<1> SUFFICES ASSUME NoWrap PROVE Spec => []TableBehind
  OBVIOUS
<1>1. TypeInv /\ Inv => TableBehind
  BY EntriesNat, Sizes DEF TypeInv, TypeOK, Shape, Inv, EncInv, TableInv, TableBehind,
                           EncPc, Pos
<1>2. Init => TypeInv
  BY TypeInit
<1>3. TypeInv /\ [Next]_vars => TypeInv'
  BY TypeStep
<1> QED
  BY <1>1, <1>2, <1>3, InvCorrect, PTL DEF Spec

-----------------------------------------------------------------------------
(***************************************************************************)
(* The end of a block.  A match found at ip <= MFL is not extended past    *)
(* the last literals, and it stays the last of its chunk or is followed by *)
(* another like it; nothing here depends on the counters.                  *)
(***************************************************************************)
EndInv ==
    /\ pc \in EncPc /\ toks # <<>> => anchor <= ML /\ anchor - toks[Len(toks)].ml <= MFL
    /\ EndOfBlock

LEMMA EndFrame ==
    ASSUME EndInv, UNCHANGED wire,
           pc' \in EncPc => (pc \in EncPc /\ UNCHANGED <<toks, anchor, len>>) \/ toks' = <<>>
    PROVE  EndInv'
  BY DEF EndInv, EndOfBlock, ML, MFL

\* A match does not run into the last literals.
LEMMA MatchBeforeLiterals ==
    ASSUME NEW x, NEW p, NEW m \in MatchSet(x, p, len), TypeInv, x \in Nat, x <= MFL
    PROVE  x + m <= ML
<1>1. m \in MinMatch .. len /\ \A j \in MinMatch .. m - 1 : x + j < ML
  BY DEF MatchSet
<1>2. len \in Nat /\ ML \in Int /\ x + MinMatch <= ML /\ MinMatch \in Nat
  <2>1. len \in Nat
    BY DEF TypeInv, TypeOK
  <2> QED
    BY <2>1, Sizes DEF ML, MFL
<1>3. CASE m = MinMatch
  BY <1>2, <1>3
<1>4. CASE m > MinMatch
  <2>1. m - 1 \in MinMatch .. m - 1 /\ m \in Nat
    BY <1>1, <1>2, <1>4
  <2>2. x + (m - 1) < ML
    BY <1>1, <2>1
  <2> QED
    BY <1>2, <2>1, <2>2
<1> QED
  BY <1>1, <1>2, <1>3, <1>4

LEMMA EndEncEmit ==
    ASSUME TypeInv, EndInv, EncEmit
    PROVE  EndInv'
<1> DEFINE back == BackLen(ip, mpos)
           x == ip - back
           ml == MatchLen(x, mpos - back, len)
           t == MatchToken(x, mpos - back, ml)
<1>1. /\ toks' = Append(toks, t) /\ anchor' = x + ml /\ pc = "found"
      /\ UNCHANGED <<len, wire>>
  BY DEF EncEmit, link
<1>2. /\ x \in anchor .. ip /\ mpos - back \in Pos /\ ml \in MinMatch .. len
      /\ ml \in MatchSet(x, mpos - back, len)
  BY <1>1, EmitShape
<1>3. x \in Nat /\ x <= MFL /\ ml \in Nat /\ MFL \in Int /\ ML \in Int
  BY <1>1, <1>2, Sizes DEF TypeInv, TypeOK, Shape, MFL, ML
<1>4. x + ml <= ML
  BY <1>2, <1>3, MatchBeforeLiterals
<1>5. t \in TokenType /\ t.ml = ml
  <2>1. t \in TokenType
    BY <1>1, <1>2, <1>3, TokenTypeOfMatch
  <2> QED
    BY <2>1 DEF MatchToken
<1> HIDE DEF t, ml, x
<1>6. toks'[Len(toks')] = t
  <2>1. toks \in Seq(TokenType)
    BY DEF TypeInv, TypeOK
  <2> QED
    BY <1>1, <1>5, <2>1, AppendFacts
<1>7. anchor' <= ML' /\ anchor' - toks'[Len(toks')].ml <= MFL'
  <2>1. ML' = ML /\ MFL' = MFL
    BY <1>1 DEF ML, MFL
  <2>2. (x + ml) - ml <= MFL
    BY <1>3
  <2> QED
    BY <1>1, <1>4, <1>5, <1>6, <2>1, <2>2
<1> QED
  BY <1>1, <1>7 DEF EndInv, EndOfBlock

LEMMA EndEncLast ==
    ASSUME TypeInv, EndInv, EncLast
    PROVE  EndInv'
<1> DEFINE c == [toks |-> Append(toks, LastToken), raw |-> len, start |-> sent,
                 epoch |-> Max(resets)]
<1>1. pc = "last" /\ pc \in EncPc /\ pc' = "idle" /\ pc' \notin EncPc /\ wire' = Append(wire, c)
  BY DEF EncLast, EncPc
<1>2. /\ anchor \in Nat /\ len \in Nat /\ anchor <= len /\ sent \in Nat /\ sent + len <= N
      /\ toks \in Seq(TokenType) /\ wire \in Seq(ChunkType) /\ N \in Nat
  BY <1>1, Sizes DEF TypeInv, TypeOK, Shape
<1>3. Len(LastToken.lits) = len - anchor
  <2>1. sent + anchor \in Nat /\ len - anchor \in Nat /\ (sent + anchor) + (len - anchor) <= N
    BY <1>2
  <2> QED
    BY <2>1, TapeSegType DEF LastToken, TypeInv
<1>4. /\ Len(toks) \in Nat /\ Len(c.toks) = Len(toks) + 1 /\ c.toks[Len(toks) + 1] = LastToken
      /\ \A i \in 1 .. Len(toks) : c.toks[i] = toks[i]
  BY <1>2, AppendFacts
<1>5. ASSUME Len(c.toks) > 1
      PROVE  LET n == Len(c.toks)
             IN  /\ Len(c.toks[n].lits) >= LastLiterals
                 /\ Len(c.toks[n].lits) + c.toks[n - 1].ml >= MFLimit
  <2>1. Len(toks) >= 1 /\ toks # <<>>
    BY <1>2, <1>4, <1>5
  <2>2. anchor <= ML /\ anchor - toks[Len(toks)].ml <= MFL
    BY <1>1, <2>1 DEF EndInv
  <2>3. toks[Len(toks)].ml \in Nat
    <3>1. toks[Len(toks)] \in TokenType
      BY <1>2, <2>1
    <3> QED
      BY <3>1 DEF TokenType
  <2>4. c.toks[Len(c.toks)] = LastToken /\ c.toks[Len(c.toks) - 1] = toks[Len(toks)]
    BY <1>4, <2>1
  <2> HIDE DEF c
  <2>5. /\ Len(c.toks[Len(c.toks)].lits) = len - anchor
        /\ c.toks[Len(c.toks) - 1].ml = toks[Len(toks)].ml
    BY <1>3, <2>4
  <2> DEFINE e == toks[Len(toks)].ml
  <2> HIDE DEF e
  <2>6. len - anchor >= LastLiterals /\ (len - anchor) + e >= MFLimit
    <3>1. anchor <= len - LastLiterals /\ anchor - e <= len - MFLimit /\ e \in Nat
      BY <2>2, <2>3 DEF ML, MFL, e
    <3> QED
      BY <1>2, <3>1, Sizes
  <2> QED
    BY <2>5, <2>6 DEF e
<1> HIDE DEF c
<1>6. Range(wire') = Range(wire) \cup {c}
  <2>1. /\ DOMAIN wire = 1 .. Len(wire) /\ DOMAIN wire' = 1 .. Len(wire) + 1
        /\ Len(wire) \in Nat /\ wire'[Len(wire) + 1] = c
        /\ \A i \in 1 .. Len(wire) : wire'[i] = wire[i]
    BY <1>1, <1>2
  <2> QED
    BY <2>1 DEF Range
<1> QED
  BY <1>1, <1>5, <1>6 DEF EndInv, EndOfBlock

\* A chunk less on the wire.
LEMMA TailRange ==
    ASSUME TypeInv, wire # <<>>
    PROVE  Range(Tail(wire)) \subseteq Range(wire)
<1>1. wire \in Seq(ChunkType)
  BY DEF TypeInv, TypeOK
<1>2. /\ DOMAIN wire = 1 .. Len(wire) /\ Len(wire) \in Nat
      /\ DOMAIN Tail(wire) = 1 .. Len(wire) - 1
      /\ \A i \in 1 .. Len(wire) - 1 : Tail(wire)[i] = wire[i + 1]
  BY <1>1
<1> QED
  BY <1>2 DEF Range

LEMMA EndStep == TypeInv /\ EndInv /\ [Next]_vars => EndInv'
<1> SUFFICES ASSUME TypeInv, EndInv, [Next]_vars PROVE EndInv'
  OBVIOUS
<1>1. ASSUME NEW n \in ChunkLens, EncBegin(n) PROVE EndInv'
  BY <1>1, EndFrame DEF EncBegin, link
<1>2. CASE EncHit \/ EncMiss \/ EncSearchEnd \/ EncHash \/ EncHashDone
  BY <1>2, EndFrame DEF EncHit, EncMiss, EncSearchEnd, EncHash, EncHashDone, link,
                        encCall, EncPc
<1>3. CASE EncEmit
  BY <1>3, EndEncEmit
<1>4. CASE EncLast
  BY <1>4, EndEncLast
<1>5. CASE ResetEnc \/ ResetDec
  BY <1>5, EndFrame DEF ResetEnc, ResetDec, link, EncPc
<1>6. ASSUME NEW c \in DecCaps, DecBegin(c) PROVE EndInv'
  BY <1>6, EndFrame DEF DecBegin, link, EncPc
<1>7. CASE DecLits \/ DecMatch \/ DecCopy
  <2>1. pc' \notin EncPc /\ UNCHANGED wire
    BY <1>7 DEF DecLits, DecMatch, DecCopy, Fail, link, EncPc
  <2> QED
    BY <2>1, EndFrame
<1>8. CASE DecReturn
  <2>1. wire # <<>> /\ wire' = Tail(wire) /\ pc' \notin EncPc
    BY <1>8 DEF DecReturn, TypeInv, Shape, DecPc, EncPc
  <2> QED
    BY <2>1, TailRange DEF EndInv, EndOfBlock
<1>9. CASE UNCHANGED vars
  BY <1>9, EndFrame DEF vars, link, encCall
<1> QED
  BY <1>1, <1>2, <1>3, <1>4, <1>5, <1>6, <1>7, <1>8, <1>9 DEF Next, EncStep, DecStep

\* Every chunk ends as the block format demands, also when the counters wrap.
THEOREM EndOfBlockCorrect == Spec => []EndOfBlock
<1>1. Init => TypeInv /\ EndInv
  BY TypeInit DEF Init, EndInv, EndOfBlock, EncPc, Range
<1>2. TypeInv /\ EndInv /\ [Next]_vars => (TypeInv /\ EndInv)'
  BY TypeStep, EndStep
<1>3. EndInv => EndOfBlock
  BY DEF EndInv
<1> QED
  BY <1>1, <1>2, <1>3, PTL DEF Spec

-----------------------------------------------------------------------------
(***************************************************************************)
(* Offsets.  That they stay behind the last reset and fit their field is   *)
(* part of GoodToken; the caller's window is kept by the search and not    *)
(* widened by the backward extension, which moves both ends of a match.    *)
(***************************************************************************)
InWindow(t) == t.ml > 0 /\ WLim # 0 => t.off32 <= WLim

WindowInv ==
    /\ pc = "found" /\ WLim # 0 => curPos + ip - mpos <= WLim
    /\ pc \in EncPc => \A k \in 1 .. Len(toks) : InWindow(toks[k])
    /\ \A c \in Range(wire) : \A k \in 1 .. Len(c.toks) : InWindow(c.toks[k])

LEMMA WindowFrame ==
    ASSUME WindowInv, UNCHANGED <<params, wire>>, pc' # "found",
           pc' \in EncPc => (pc \in EncPc /\ UNCHANGED toks) \/ toks' = <<>>
    PROVE  WindowInv'
<1>1. WLim' = WLim
  BY DEF WLim
<1>2. ASSUME NEW t, InWindow(t) PROVE (t.ml > 0 /\ WLim # 0 => t.off32 <= WLim)'
  BY <1>1, <1>2 DEF InWindow
<1> QED
  BY <1>1 DEF WindowInv, InWindow

LEMMA WindowEncHit ==
    ASSUME Good, WindowInv, EncHit
    PROVE  WindowInv'
<1>1. /\ pc = "search" /\ pc \in EncPc /\ ip <= MFL /\ Candidate # 0 /\ mpos' = Candidate
      /\ UNCHANGED <<params, wire, curPos, ip, toks>>
  BY DEF EncHit, EncPc, input, link
<1>2. Candidate \in Nat /\ Candidate < curPos + ip
  BY <1>1, CandidateOnTape
<1>3. Near(SPos(ip), Candidate, WLim)
  BY <1>1, CandidateSpec DEF Good, TypeInv
<1>4. ip \in 0 .. len /\ curPos + ip \in Nat
  BY <1>1, EncRanges, Sizes DEF MFL
<1>5. Dist(SPos(ip), Candidate) = curPos + ip - Candidate
  BY <1>1, <1>2, <1>4, DistNoWrap
<1>6. WLim # 0 => curPos + ip - mpos' <= WLim
  BY <1>1, <1>3, <1>5 DEF Near
<1>7. WLim' = WLim
  BY <1>1 DEF WLim
<1> QED
  BY <1>1, <1>6, <1>7 DEF WindowInv, InWindow

LEMMA WindowEncEmit ==
    ASSUME Good, WindowInv, EncEmit
    PROVE  WindowInv'
<1> USE DEF Good
<1> DEFINE back == BackLen(ip, mpos)
           x == ip - back
           q == mpos - back
           ml == MatchLen(x, q, len)
           t == MatchToken(x, q, ml)
<1>1. /\ toks' = Append(toks, t) /\ pc = "found" /\ pc \in EncPc /\ pc' = "hash"
      /\ UNCHANGED <<params, wire>>
  BY DEF EncEmit, EncPc, input, link
<1>2. /\ x \in anchor .. ip /\ q \in Pos /\ back \in 0 .. ip - anchor /\ ml \in Nat
      /\ t \in TokenType
  <2>1. /\ x \in anchor .. ip /\ q \in Pos /\ back \in 0 .. ip - anchor /\ ml \in MinMatch .. len
    BY <1>1, EmitShape
  <2>2. ml \in Nat
    BY <2>1, Sizes
  <2> QED
    BY <1>1, <2>1, <2>2, TokenTypeOfMatch
<1>3. t.off32 = Dist(SPos(x), q)
  BY DEF MatchToken
<1>4. /\ mpos < curPos + ip /\ curPos \in Nat /\ ip \in Nat /\ mpos \in Nat /\ anchor \in Nat
      /\ ip <= len /\ len \in Nat
  <2>1. mpos < curPos + ip
    BY <1>1 DEF Inv, EncInv, FoundInv
  <2>2. ip <= MFL
    BY <1>1 DEF TypeInv, Shape
  <2> QED
    BY <1>1, <2>1, <2>2, EncRanges, Sizes DEF MFL
<1>5. /\ x \in 0 .. len /\ q \in Nat /\ q <= curPos + x
      /\ curPos + x - q = curPos + ip - mpos
  <2>1. q \in Nat
    BY <1>2, Sizes DEF Pos
  <2>2. back \in Nat
    BY <1>2, <1>4
  <2> HIDE DEF back
  <2> QED
    BY <1>2, <1>4, <2>1, <2>2
<1> HIDE DEF x, q
<1>6. t.off32 = curPos + ip - mpos
  BY <1>1, <1>3, <1>5, DistNoWrap
<1> HIDE DEF t
<1>7. InWindow(t)
  BY <1>1, <1>6 DEF WindowInv, InWindow
<1>8. ASSUME NEW k \in 1 .. Len(toks') PROVE InWindow(toks'[k])
  <2>1. toks \in Seq(TokenType) /\ Len(toks) \in Nat
    BY DEF TypeInv, TypeOK
  <2>2. /\ Len(toks') = Len(toks) + 1 /\ toks'[Len(toks) + 1] = t
        /\ \A i \in 1 .. Len(toks) : toks'[i] = toks[i]
    BY <1>1, <1>2, <2>1, AppendFacts
  <2>3. k \in 1 .. Len(toks) \/ k = Len(toks) + 1
    BY <2>1, <2>2
  <2> QED
    BY <1>1, <1>7, <2>2, <2>3 DEF WindowInv
<1>9. WLim' = WLim
  BY <1>1 DEF WLim
<1> QED
  BY <1>1, <1>8, <1>9 DEF WindowInv, InWindow

LEMMA WindowEncLast ==
    ASSUME Good, WindowInv, EncLast
    PROVE  WindowInv'
<1> USE DEF Good
<1> DEFINE c == [toks |-> Append(toks, LastToken), raw |-> len, start |-> sent,
                 epoch |-> Max(resets)]
<1>1. /\ pc = "last" /\ pc \in EncPc /\ pc' = "idle" /\ pc' \notin EncPc
      /\ wire' = Append(wire, c) /\ params' = params
  BY DEF EncLast, EncPc, input
<1>2. toks \in Seq(TokenType) /\ wire \in Seq(ChunkType)
  BY DEF TypeInv, TypeOK
<1>3. ASSUME NEW k \in 1 .. Len(c.toks) PROVE InWindow(c.toks[k])
  <2>1. InWindow(LastToken)
    BY DEF InWindow, LastToken
  <2>2. /\ Len(toks) \in Nat /\ Len(c.toks) = Len(toks) + 1
        /\ c.toks[Len(toks) + 1] = LastToken
        /\ \A i \in 1 .. Len(toks) : c.toks[i] = toks[i]
    BY <1>2, AppendFacts
  <2>3. k \in 1 .. Len(toks) \/ k = Len(toks) + 1
    BY <2>2
  <2> HIDE DEF c
  <2> QED
    BY <1>1, <2>1, <2>2, <2>3 DEF WindowInv
<1> HIDE DEF c
<1>4. Range(wire') = Range(wire) \cup {c}
  <2>1. /\ DOMAIN wire = 1 .. Len(wire) /\ DOMAIN wire' = 1 .. Len(wire) + 1
        /\ Len(wire) \in Nat /\ wire'[Len(wire) + 1] = c
        /\ \A i \in 1 .. Len(wire) : wire'[i] = wire[i]
    BY <1>1, <1>2
  <2> QED
    BY <2>1 DEF Range
<1>5. \A d \in Range(wire') : \A k \in 1 .. Len(d.toks) : InWindow(d.toks[k])
  BY <1>3, <1>4 DEF WindowInv
<1>6. WLim' = WLim
  BY <1>1 DEF WLim
<1> QED
  BY <1>1, <1>5, <1>6 DEF WindowInv, InWindow, EncPc

LEMMA WindowStep == Good /\ WindowInv /\ [Next]_vars => WindowInv'
<1> SUFFICES ASSUME Good, WindowInv, [Next]_vars PROVE WindowInv'
  OBVIOUS
<1>1. ASSUME NEW n \in ChunkLens, EncBegin(n) PROVE WindowInv'
  BY <1>1, WindowFrame DEF EncBegin, link, input
<1>2. CASE EncHit
  BY <1>2, WindowEncHit
<1>3. CASE EncMiss \/ EncSearchEnd \/ EncHash \/ EncHashDone
  BY <1>3, WindowFrame DEF EncMiss, EncSearchEnd, EncHash, EncHashDone, link, input,
                           encCall, EncPc
<1>4. CASE EncEmit
  BY <1>4, WindowEncEmit
<1>5. CASE EncLast
  BY <1>5, WindowEncLast
<1>6. CASE ResetEnc \/ ResetDec
  BY <1>6, WindowFrame DEF ResetEnc, ResetDec, link, input, EncPc
<1>7. ASSUME NEW c \in DecCaps, DecBegin(c) PROVE WindowInv'
  BY <1>7, WindowFrame DEF DecBegin, link, input, EncPc
<1>8. CASE DecLits \/ DecMatch \/ DecCopy
  <2>1. pc' \notin EncPc /\ UNCHANGED <<params, wire>> /\ pc' # "found"
    BY <1>8 DEF DecLits, DecMatch, DecCopy, Fail, link, input, EncPc
  <2> QED
    BY <2>1, WindowFrame
<1>9. CASE DecReturn
  <2>1. wire # <<>> /\ wire' = Tail(wire) /\ pc' \notin EncPc /\ params' = params
    BY <1>9 DEF DecReturn, Good, TypeInv, Shape, DecPc, EncPc, input
  <2>2. WLim' = WLim
    BY <2>1 DEF WLim
  <2>3. Range(wire') \subseteq Range(wire)
    BY <2>1, TailRange DEF Good
  <2>4. pc' # "found"
    BY <2>1 DEF EncPc
  <2> QED
    BY <2>1, <2>2, <2>3, <2>4 DEF WindowInv, InWindow
<1>10. CASE UNCHANGED vars
  <2>1. WLim' = WLim
    BY <1>10 DEF vars, input, WLim
  <2> QED
    BY <1>10, <2>1 DEF vars, link, encVars, encCall, WindowInv, InWindow
<1> QED
  BY <1>1, <1>2, <1>3, <1>4, <1>5, <1>6, <1>7, <1>8, <1>9, <1>10 DEF Next, EncStep, DecStep

\* Every match reaches back at most to the last reset of the encoder, within
\* the caller's window and what the rings keep.
THEOREM OffsetsInHistoryCorrect == NoWrap => (Spec => []OffsetsInHistory)
<1> SUFFICES ASSUME NoWrap PROVE Spec => []OffsetsInHistory
  OBVIOUS
<1>1. Init => WindowInv
  BY DEF Init, WindowInv, EncPc, Range
<1>2. Init => TypeInv
  BY TypeInit
<1>3. TypeInv /\ [Next]_vars => TypeInv'
  BY TypeStep
<1>4. TypeInv /\ Inv /\ WindowInv /\ [Next]_vars => WindowInv'
  BY WindowStep DEF Good
<1>5. TypeInv /\ Inv /\ WindowInv => OffsetsInHistory
  <2> SUFFICES ASSUME TypeInv, Inv, WindowInv, NEW c \in Range(wire), NEW t \in Range(c.toks),
                      t.ml > 0
               PROVE  /\ t.off32 \in 1 .. DistMax
                      /\ t.off32 <= t.at + Len(t.lits) - c.epoch
                      /\ WLim # 0 => t.off32 <= WLim
    BY DEF OffsetsInHistory
  <2>1. PICK i \in 1 .. Len(wire) : c = wire[i]
    <3>1. DOMAIN wire = 1 .. Len(wire)
      BY DEF TypeInv, TypeOK
    <3> QED
      BY <3>1 DEF Range
  <2>2. PICK k \in 1 .. Len(c.toks) : t = c.toks[k]
    <3>1. c.toks \in Seq(TokenType)
      BY <2>1, ChunkNats
    <3>2. DOMAIN c.toks = 1 .. Len(c.toks)
      BY <3>1
    <3> QED
      BY <3>2 DEF Range
  <2>3. GoodToken(t, c.epoch, c.start + c.raw)
    BY <2>1, <2>2 DEF Inv, LinkInv, GoodWire, GoodChunk, GoodTokens
  <2>4. InWindow(t)
    BY <2>2 DEF WindowInv
  <2> QED
    BY <2>3, <2>4 DEF GoodToken, InWindow
<1> QED
  BY <1>1, <1>2, <1>3, <1>4, <1>5, InvCorrect, PTL DEF Spec

-----------------------------------------------------------------------------
(***************************************************************************)
(* The codec implements the abstract stream: the last step of a call to    *)
(* the encoder writes its chunk, the last step of a call to the decoder    *)
(* reads one, and no other step is seen.                                   *)
(***************************************************************************)
LenInv == pc \in EncPc => len \in ChunkLens

LEMMA LenStep == LenInv /\ [Next]_vars => LenInv'
  BY DEF LenInv, Next, EncBegin, EncStep, EncHit, EncMiss, EncSearchEnd, EncEmit, EncHash,
         EncHashDone, EncLast, ResetEnc, DecBegin, DecStep, DecLits, DecMatch, DecCopy,
         DecReturn, ResetDec, Fail, encCall, vars, EncPc

\* A longer piece of the tape is a shorter one and what follows it.
LEMMA TapeSegSplit ==
    ASSUME TypeOK, NEW s \in Nat, NEW n \in Nat, s + n <= N
    PROVE  TapeSeg(0, s + n) = TapeSeg(0, s) \o TapeSeg(s, n)
<1> DEFINE a == TapeSeg(0, s)
           b == TapeSeg(s, n)
           c == TapeSeg(0, s + n)
<1>1. /\ a \in Seq(Byte) /\ Len(a) = s /\ \A i \in 1 .. s : a[i] = tape[0 + i - 1]
      /\ b \in Seq(Byte) /\ Len(b) = n /\ \A i \in 1 .. n : b[i] = tape[s + i - 1]
      /\ c \in Seq(Byte) /\ Len(c) = s + n /\ \A i \in 1 .. s + n : c[i] = tape[0 + i - 1]
  <2>1. s + n \in Nat /\ 0 + s <= N /\ 0 + (s + n) <= N
    BY Sizes
  <2> QED
    BY <2>1, TapeSegType
<1> HIDE DEF a, b, c
<1>2. /\ a \o b \in Seq(Byte) /\ Len(a \o b) = s + n
      /\ \A i \in 1 .. s + n : (a \o b)[i] = IF i <= s THEN a[i] ELSE b[i - s]
  BY <1>1, ConcatProperties
<1>3. ASSUME NEW i \in 1 .. s + n PROVE (a \o b)[i] = c[i]
  <2> DEFINE d == a \o b
  <2>1. d[i] = IF i <= s THEN a[i] ELSE b[i - s]
    BY <1>2
  <2> HIDE DEF d
  <2>2. c[i] = tape[0 + i - 1]
    BY <1>1
  <2>3. CASE i <= s
    <3>1. i \in 1 .. s
      BY <2>3
    <3>2. a[i] = tape[0 + i - 1]
      BY <1>1, <3>1
    <3> QED
      BY <2>1, <2>2, <2>3, <3>2 DEF d
  <2>4. CASE i > s
    <3>1. i - s \in 1 .. n /\ s + (i - s) - 1 = 0 + i - 1 /\ ~ (i <= s)
      BY <2>4
    <3>2. b[i - s] = tape[s + (i - s) - 1]
      BY <1>1, <3>1
    <3> QED
      BY <2>1, <2>2, <3>1, <3>2 DEF d
  <2>5. i <= s \/ i > s
    OBVIOUS
  <2> QED
    BY <2>3, <2>4, <2>5
<1>4. c = a \o b
  BY <1>1, <1>2, <1>3, SeqEqual
<1> QED
  BY <1>4 DEF a, b, c

RawSizes(w) == [i \in 1 .. Len(w) |-> w[i].raw]

LEMMA WriteStep ==
    ASSUME Good, LenInv, EncLast
    PROVE  Abstract!Write(len)
<1> DEFINE c == [toks |-> Append(toks, LastToken), raw |-> len, start |-> sent,
                 epoch |-> Max(resets)]
<1>1. /\ pc \in EncPc /\ wire' = Append(wire, c) /\ sent' = sent + len
      /\ UNCHANGED <<tape, recvd>>
  BY DEF EncLast, EncPc, input, decVars
<1>2. sent \in Nat /\ len \in Nat /\ sent + len <= N
  BY <1>1, EncRanges
<1>3. TapeSeg(0, sent)' = TapeSeg(0, sent) \o TapeSeg(sent, len)
  <2>1. TapeSeg(0, sent)' = TapeSeg(0, sent + len)
    BY <1>1 DEF TapeSeg
  <2> QED
    BY <1>2, <2>1, TapeSegSplit DEF Good, TypeInv
<1>4. TapeSeg(sent, len) \in [1 .. len -> Byte]
  <2>1. TapeSeg(sent, len) \in Seq(Byte) /\ Len(TapeSeg(sent, len)) = len
    BY <1>2, TapeSegType DEF Good, TypeInv
  <2> QED
    BY <2>1
<1>5. RawSizes(wire') = Append(RawSizes(wire), len)
  <2>1. wire \in Seq(ChunkType) /\ Len(wire) \in Nat
    BY DEF Good, TypeInv, TypeOK
  <2>2. c.raw = len
    OBVIOUS
  <2> HIDE DEF c
  <2>3. /\ Len(wire') = Len(wire) + 1 /\ wire'[Len(wire) + 1] = c
        /\ \A i \in 1 .. Len(wire) : wire'[i] = wire[i]
    BY <1>1, <2>1
  <2>4. /\ RawSizes(wire) \in Seq(Nat) /\ Len(RawSizes(wire)) = Len(wire)
        /\ RawSizes(wire') \in Seq(Nat) /\ Len(RawSizes(wire')) = Len(wire) + 1
    <3>1. \A i \in 1 .. Len(wire) : wire[i].raw \in Nat
      BY ChunkNats DEF Good
    <3>2. \A i \in 1 .. Len(wire) + 1 : wire'[i].raw \in Nat
      BY <1>2, <2>1, <2>2, <2>3, <3>1
    <3> QED
      BY <2>1, <2>3, <3>1, <3>2 DEF RawSizes
  <2>5. \A i \in 1 .. Len(wire) + 1 : RawSizes(wire')[i] = Append(RawSizes(wire), len)[i]
    BY <1>2, <2>1, <2>2, <2>3, <2>4 DEF RawSizes
  <2>6. Append(RawSizes(wire), len) \in Seq(Nat)
        /\ Len(Append(RawSizes(wire), len)) = Len(wire) + 1
    BY <1>2, <2>4
  <2> QED
    BY <2>4, <2>5, <2>6, SeqEqual
<1>6. \E data \in [1 .. len -> Byte] : TapeSeg(0, sent)' = TapeSeg(0, sent) \o data
  BY <1>3, <1>4
<1> QED
  BY <1>1, <1>5, <1>6 DEF Abstract!Write, RawSizes

LEMMA ReadStep ==
    ASSUME Good, TypeInv', DecReturn
    PROVE  Abstract!Read
<1> USE DEF Good
<1> DEFINE r == Len(recvd)
           o == Len(dout)
           w == TapeSeg(0, sent)
<1>1. /\ pc = "return" /\ pc \in DecPc /\ wire # <<>> /\ wire' = Tail(wire)
      /\ recvd' = recvd \o dout /\ UNCHANGED <<tape, sent>>
  BY DEF DecReturn, DecPc, TypeInv, Shape, input
<1>2. /\ \A j \in 1 .. o : dout[j] = tape[r + j - 1]
      /\ r + o <= sent /\ o = Chunk.raw /\ Chunk = wire[1]
  BY <1>1, HeadChunk DEF Inv, DecInv, OutputInv
<1>3. /\ recvd \in Seq(Byte \cup {Junk}) /\ dout \in Seq(Byte \cup {Junk})
      /\ r \in Nat /\ o \in Nat /\ sent \in Nat /\ sent <= N
      /\ wire \in Seq(ChunkType) /\ Len(wire) \in Nat
  <2>1. /\ recvd \in Seq(Byte \cup {Junk}) /\ dout \in Seq(Byte \cup {Junk})
        /\ sent \in 0 .. N /\ wire \in Seq(ChunkType)
    BY DEF TypeInv, TypeOK
  <2>2. r \in Nat /\ o \in Nat /\ Len(wire) \in Nat
    BY <2>1
  <2> HIDE DEF r, o
  <2>3. sent \in Nat /\ sent <= N
    BY <2>1, Sizes
  <2> QED
    BY <2>1, <2>2, <2>3
<1>4. w \in Seq(Byte) /\ Len(w) = sent /\ \A i \in 1 .. sent : w[i] = tape[0 + i - 1]
  <2>1. 0 + sent <= N
    BY <1>3
  <2> QED
    BY <1>3, <2>1, TapeSegType DEF TypeInv
<1>5. dout = SubSeq(w, r + 1, r + o)
  <2> HIDE DEF r, o, w
  <2>1. /\ SubSeq(w, r + 1, r + o) \in Seq(Byte) /\ Len(SubSeq(w, r + 1, r + o)) = o
        /\ \A j \in 1 .. o : SubSeq(w, r + 1, r + o)[j] = w[(r + 1) + j - 1]
    <3>1. \A i \in r + 1 .. r + o : w[i] \in Byte
      <4>1. \A i \in r + 1 .. r + o : i \in 1 .. sent
        BY <1>2, <1>3
      <4>2. \A i \in 1 .. sent : w[i] \in Byte
        BY <1>3, <1>4
      <4> QED
        BY <4>1, <4>2
    <3>2. /\ r + 1 \in Int /\ r + o \in Int /\ (r + o) - (r + 1) + 1 = o
          /\ (IF r + 1 <= r + o THEN (r + o) - (r + 1) + 1 ELSE 0) = o
      BY <1>3
    <3>3. /\ SubSeq(w, r + 1, r + o) \in Seq(Byte)
          /\ Len(SubSeq(w, r + 1, r + o)) =
                IF r + 1 <= r + o THEN (r + o) - (r + 1) + 1 ELSE 0
          /\ \A j \in 1 .. (r + o) - (r + 1) + 1 :
                SubSeq(w, r + 1, r + o)[j] = w[(r + 1) + j - 1]
      BY <3>1, <3>2, SubSeqProperties
    <3> QED
      BY <3>2, <3>3
  <2>2. ASSUME NEW j \in 1 .. o PROVE dout[j] = SubSeq(w, r + 1, r + o)[j]
    <3>1. (r + 1) + j - 1 \in 1 .. sent /\ 0 + ((r + 1) + j - 1) - 1 = r + j - 1
      BY <1>2, <1>3
    <3> QED
      BY <1>2, <1>4, <2>1, <3>1
  <2>3. SubSeq(w, r + 1, r + o) \in Seq(Byte \cup {Junk})
    BY <2>1
  <2>4. Len(dout) = o
    BY DEF o
  <2> QED
    BY <1>3, <2>1, <2>2, <2>3, <2>4, SeqEqual
<1>6. /\ RawSizes(wire) \in Seq(Nat) /\ Len(RawSizes(wire)) = Len(wire)
      /\ RawSizes(wire) # <<>> /\ Head(RawSizes(wire)) = o
      /\ RawSizes(wire') = Tail(RawSizes(wire))
  <2>1. \A i \in 1 .. Len(wire) : wire[i].raw \in Nat
    BY ChunkNats
  <2>2. /\ RawSizes(wire) \in Seq(Nat) /\ Len(RawSizes(wire)) = Len(wire)
        /\ \A i \in 1 .. Len(wire) : RawSizes(wire)[i] = wire[i].raw
    BY <1>3, <2>1 DEF RawSizes
  <2>3. Len(wire) >= 1
    BY <1>1, <1>3
  <2>4. /\ Len(wire') = Len(wire) - 1
        /\ \A i \in 1 .. Len(wire) - 1 : wire'[i] = wire[i + 1]
    BY <1>1, <1>3, <2>3
  <2>5. /\ RawSizes(wire') \in Seq(Nat) /\ Len(RawSizes(wire')) = Len(wire) - 1
        /\ \A i \in 1 .. Len(wire) - 1 : RawSizes(wire')[i] = wire[i + 1].raw
    <3>1. \A i \in 1 .. Len(wire) - 1 : wire[i + 1].raw \in Nat /\ i + 1 \in 1 .. Len(wire)
      BY <1>3, <2>1
    <3>2. \A i \in 1 .. Len(wire) - 1 : wire'[i].raw \in Nat /\ wire'[i].raw = wire[i + 1].raw
      BY <2>4, <3>1
    <3>3. RawSizes(wire') = [i \in 1 .. Len(wire) - 1 |-> wire'[i].raw]
      BY <2>4 DEF RawSizes
    <3>4. Len(wire) - 1 \in Nat
      BY <1>3, <2>3
    <3> QED
      BY <3>2, <3>3, <3>4
  <2>6. /\ Tail(RawSizes(wire)) \in Seq(Nat) /\ Len(Tail(RawSizes(wire))) = Len(wire) - 1
        /\ \A i \in 1 .. Len(wire) - 1 : Tail(RawSizes(wire))[i] = RawSizes(wire)[i + 1]
        /\ RawSizes(wire) # <<>> /\ Head(RawSizes(wire)) = RawSizes(wire)[1]
    BY <1>3, <2>2, <2>3
  <2>7. RawSizes(wire') = Tail(RawSizes(wire))
    <3>1. \A i \in 1 .. Len(wire) - 1 : RawSizes(wire')[i] = Tail(RawSizes(wire))[i]
      BY <1>3, <2>2, <2>5, <2>6
    <3> QED
      BY <2>5, <2>6, <3>1, SeqEqual
  <2>8. RawSizes(wire)[1] = o
    BY <1>2, <1>3, <2>2, <2>3
  <2> QED
    BY <2>2, <2>6, <2>7, <2>8
<1>7. TapeSeg(0, sent)' = w
  BY <1>1 DEF TapeSeg
<1> HIDE DEF w, o
<1>8. recvd' = recvd \o SubSeq(w, Len(recvd) + 1, Len(recvd) + Head(RawSizes(wire)))
  BY <1>1, <1>5, <1>6
<1> QED
  BY <1>6, <1>7, <1>8 DEF Abstract!Read, RawSizes, w

LEMMA AbstractStutter ==
    ASSUME UNCHANGED <<tape, sent, wire, recvd>>
    PROVE  UNCHANGED Abstract!vars
  BY DEF Abstract!vars, TapeSeg

LEMMA AbstractStep ==
    Good /\ TypeInv' /\ LenInv /\ [Next]_vars => [Abstract!Next]_(Abstract!vars)
<1> SUFFICES ASSUME Good, TypeInv', LenInv, [Next]_vars
             PROVE  [Abstract!Next]_(Abstract!vars)
  OBVIOUS
<1>1. CASE EncLast
  <2>1. len \in ChunkLens
    BY <1>1 DEF EncLast, LenInv, EncPc
  <2> QED
    BY <1>1, <2>1, WriteStep DEF Abstract!Next, Abstract!Write
<1>2. CASE DecReturn
  BY <1>2, ReadStep DEF Abstract!Next
<1>3. CASE UNCHANGED <<tape, sent, wire, recvd>>
  BY <1>3, AbstractStutter
<1> QED
  BY <1>1, <1>2, <1>3
     DEF Next, EncBegin, EncStep, EncHit, EncMiss, EncSearchEnd, EncEmit, EncHash,
         EncHashDone, ResetEnc, DecBegin, DecStep, DecLits, DecMatch, DecCopy,
         ResetDec, Fail, input, link, decVars, vars

LEMMA AbstractInit == Init => Abstract!Init
<1> SUFFICES ASSUME Init PROVE Abstract!Init
  OBVIOUS
<1>1. sent = 0 /\ wire = <<>> /\ recvd = <<>>
  BY DEF Init
<1>2. TapeSeg(0, sent) = <<>>
  BY <1>1 DEF TapeSeg
<1>3. [i \in 1 .. Len(wire) |-> wire[i].raw] = <<>>
  BY <1>1
<1> QED
  BY <1>1, <1>2, <1>3 DEF Abstract!Init

\* The codec implements the abstract stream: whatever it does inside its
\* calls, chunks come out whole, once, unchanged and in order.
THEOREM AbstractSpecImplemented == NoWrap => (Spec => AbstractSpec)
<1> SUFFICES ASSUME NoWrap PROVE Spec => AbstractSpec
  OBVIOUS
<1>1. Init => TypeInv /\ Inv /\ LenInv
  BY TypeInit, InvInit DEF Init, LenInv, EncPc
<1>2. (TypeInv /\ Inv /\ LenInv) /\ [Next]_vars => (TypeInv /\ Inv /\ LenInv)'
  BY TypeStep, InvStep, LenStep DEF Good
<1>3. (TypeInv /\ Inv /\ LenInv) /\ TypeInv' /\ [Next]_vars => [Abstract!Next]_(Abstract!vars)
  BY AbstractStep DEF Good
<1> QED
  BY <1>1, <1>2, <1>3, AbstractInit, PTL DEF Spec, AbstractSpec, Abstract!Spec
-----------------------------------------------------------------------------
(***************************************************************************)
(* Room.  The decoder checks a match against its buffer before it copies   *)
(* it, so it never writes beyond the end, also when the counters wrapped   *)
(* and what it copies is wrong.                                            *)
(***************************************************************************)
LEMMA MatchesFrame ==
    ASSUME MatchesInv, UNCHANGED wire, UNCHANGED toks \/ toks' = <<>>
    PROVE  MatchesInv'
<1>1. CASE UNCHANGED toks
  BY <1>1 DEF MatchesInv
<1>2. CASE toks' = <<>>
  BY <1>2 DEF MatchesInv
<1> QED
  BY <1>1, <1>2

LEMMA MatchesEncEmit ==
    ASSUME TypeInv, MatchesInv, EncEmit
    PROVE  MatchesInv'
<1> DEFINE back == BackLen(ip, mpos)
           ml == MatchLen(ip - back, mpos - back, len)
           t == MatchToken(ip - back, mpos - back, ml)
<1>1. toks' = Append(toks, t) /\ pc = "found" /\ UNCHANGED wire
  BY DEF EncEmit, link
<1>2. t.ml = ml /\ ml \in MinMatch .. len
  BY <1>1, EmitShape DEF MatchToken
<1>3. ml > 0
  BY <1>2, Sizes
<1> HIDE DEF t, ml
<1>4. /\ Len(toks) \in Nat /\ Len(toks') = Len(toks) + 1 /\ toks'[Len(toks) + 1] = t
      /\ \A i \in 1 .. Len(toks) : toks'[i] = toks[i]
  BY <1>1, AppendFacts DEF TypeInv, TypeOK
<1>5. \A i \in 1 .. Len(toks') : toks'[i].ml > 0
  BY <1>2, <1>3, <1>4 DEF MatchesInv
<1> QED
  BY <1>1, <1>5 DEF MatchesInv

LEMMA MatchesEncLast ==
    ASSUME TypeInv, MatchesInv, EncLast
    PROVE  MatchesInv'
<1> DEFINE c == [toks |-> Append(toks, LastToken), raw |-> len, start |-> sent,
                 epoch |-> Max(resets)]
<1>1. toks' = <<>> /\ wire' = Append(wire, c) /\ c.toks = Append(toks, LastToken)
  BY DEF EncLast
<1> HIDE DEF c
<1>2. /\ Len(toks) \in Nat /\ Len(c.toks) = Len(toks) + 1
      /\ \A i \in 1 .. Len(toks) : c.toks[i] = toks[i]
  BY <1>1, AppendFacts DEF TypeInv, TypeOK
<1>3. \A i \in 1 .. Len(c.toks) - 1 : c.toks[i].ml > 0
  BY <1>2 DEF MatchesInv
<1>4. /\ Len(wire) \in Nat /\ Len(wire') = Len(wire) + 1 /\ wire'[Len(wire) + 1] = c
      /\ \A w \in 1 .. Len(wire) : wire'[w] = wire[w]
  BY <1>1, AppendFacts DEF TypeInv, TypeOK
<1>5. ASSUME NEW w \in 1 .. Len(wire'), NEW i \in 1 .. Len(wire'[w].toks) - 1
      PROVE  wire'[w].toks[i].ml > 0
  <2>1. CASE w \in 1 .. Len(wire)
    BY <1>4, <1>5, <2>1 DEF MatchesInv
  <2>2. CASE w = Len(wire) + 1
    BY <1>3, <1>4, <1>5, <2>2
  <2> QED
    BY <1>4, <2>1, <2>2
<1> QED
  BY <1>1, <1>5 DEF MatchesInv

LEMMA MatchesDecReturn ==
    ASSUME TypeInv, MatchesInv, DecReturn
    PROVE  MatchesInv'
<1>1. wire # <<>> /\ wire' = Tail(wire) /\ UNCHANGED toks
  BY DEF DecReturn, encCall, TypeInv, Shape, DecPc
<1>2. /\ Len(wire) \in Nat /\ Len(wire') = Len(wire) - 1
      /\ \A w \in 1 .. Len(wire') : wire'[w] = wire[w + 1] /\ w + 1 \in 1 .. Len(wire)
  BY <1>1 DEF TypeInv, TypeOK
<1> QED
  BY <1>1, <1>2 DEF MatchesInv

LEMMA MatchesStep == TypeInv /\ MatchesInv /\ [Next]_vars => MatchesInv'
<1> SUFFICES ASSUME TypeInv, MatchesInv, [Next]_vars PROVE MatchesInv'
  OBVIOUS
<1>1. CASE EncEmit
  BY <1>1, MatchesEncEmit
<1>2. CASE EncLast
  BY <1>2, MatchesEncLast
<1>3. CASE DecReturn
  BY <1>3, MatchesDecReturn
<1>4. ASSUME NEW n \in ChunkLens, EncBegin(n) PROVE MatchesInv'
  BY <1>4, MatchesFrame DEF EncBegin, link
<1>5. CASE EncHit \/ EncMiss \/ EncSearchEnd \/ EncHash \/ EncHashDone
  BY <1>5, MatchesFrame DEF EncHit, EncMiss, EncSearchEnd, EncHash, EncHashDone, link,
                            encCall
<1>6. CASE ResetEnc \/ ResetDec
  BY <1>6, MatchesFrame DEF ResetEnc, ResetDec, link, encCall
<1>7. ASSUME NEW c \in DecCaps, DecBegin(c) PROVE MatchesInv'
  BY <1>7, MatchesFrame DEF DecBegin, link, encCall
<1>8. CASE DecLits \/ DecMatch \/ DecCopy
  BY <1>8, MatchesFrame DEF DecLits, DecMatch, DecCopy, link, encCall
<1>9. CASE UNCHANGED vars
  BY <1>9, MatchesFrame DEF vars, link, encCall
<1> QED
  BY <1>1, <1>2, <1>3, <1>4, <1>5, <1>6, <1>7, <1>8, <1>9 DEF Next, EncStep, DecStep

\* The token of a match is not the last of its chunk, and so has a match.
LEMMA TokHasMatch ==
    ASSUME TypeInv, MatchesInv, pc \in {"match", "copy"}
    PROVE  Tok.ml \in Nat /\ Tok.ml > 0
<1>1. Chunk \in ChunkType /\ Tok \in TokenType
  BY TokType DEF DecPc
<1>2. wire # <<>> /\ wire \in Seq(ChunkType) /\ ti \in 1 .. Len(Chunk.toks) /\ ti < Len(Chunk.toks)
  BY DEF TypeInv, TypeOK, Shape, DecPc
<1>3. Len(Chunk.toks) \in Nat
  BY <1>1 DEF ChunkType
<1>4. Chunk = wire[1] /\ 1 \in 1 .. Len(wire)
  BY <1>2 DEF Chunk
<1>5. ti \in 1 .. Len(wire[1].toks) - 1
  BY <1>2, <1>3, <1>4
<1>6. wire[1].toks[ti].ml > 0
  BY <1>4, <1>5 DEF MatchesInv
<1> QED
  BY <1>1, <1>4, <1>6 DEF Tok, TokenType

LEMMA RoomFrame ==
    ASSUME RoomInv, UNCHANGED <<cap, dout>>, pc' # "copy"
    PROVE  RoomInv'
  BY DEF RoomInv

LEMMA RoomStep == TypeInv /\ MatchesInv /\ RoomInv /\ [Next]_vars => RoomInv'
<1> SUFFICES ASSUME TypeInv, MatchesInv, RoomInv, [Next]_vars PROVE RoomInv'
  OBVIOUS
<1>1. /\ dout \in Seq(Byte \cup {Junk}) /\ Len(dout) \in Nat /\ cap \in Nat /\ ci \in Nat
      /\ Len(dout) <= cap
  BY DEF TypeInv, TypeOK, RoomInv
<1>2. ASSUME NEW n \in ChunkLens, EncBegin(n) PROVE RoomInv'
  BY <1>2, RoomFrame DEF EncBegin, decCall
<1>3. CASE EncStep
  BY <1>3, RoomFrame DEF EncStep, EncHit, EncMiss, EncSearchEnd, EncEmit, EncHash,
                         EncHashDone, EncLast, decCall
<1>4. CASE ResetEnc \/ ResetDec
  BY <1>4, RoomFrame DEF ResetEnc, ResetDec, decCall
<1>5. ASSUME NEW c \in DecCaps, DecBegin(c) PROVE RoomInv'
  BY <1>5, StreamAssumption DEF DecBegin, RoomInv
<1>6. CASE DecLits
  <2>1. pc = "lits" /\ cap' = cap /\ pc' # "copy"
    BY <1>6 DEF DecLits, Fail
  <2>2. CASE Fail
    BY <2>1, <2>2, RoomFrame DEF Fail
  <2>3. CASE ~ Fail
    <3>1. ~ Exceeds(Len(Tok.lits)) /\ dout' = dout \o Tok.lits
      BY <1>6, <2>3 DEF DecLits
    <3>2. Tok.lits \in Seq(Byte \cup {Junk}) /\ Len(Tok.lits) \in Nat
      <4>1. Tok \in TokenType
        BY <2>1, TokType DEF DecPc
      <4> QED
        BY <4>1 DEF TokenType
    <3>3. Len(dout') = Len(dout) + Len(Tok.lits)
      BY <1>1, <3>1, <3>2, ConcatProperties
    <3>4. Len(dout) + Len(Tok.lits) <= cap
      BY <1>1, <3>1, <3>2 DEF Exceeds
    <3> QED
      BY <2>1, <3>3, <3>4 DEF RoomInv
  <2> QED
    BY <2>2, <2>3
<1>7. CASE DecMatch
  <2>1. pc = "match" /\ UNCHANGED <<cap, dout>>
    BY <1>7 DEF DecMatch, Fail
  <2>2. CASE Fail
    BY <2>1, <2>2, RoomFrame DEF Fail
  <2>3. CASE ~ Fail
    <3>1. ~ Exceeds(Tok.ml) /\ ci' = 0 /\ Tok' = Tok
      BY <1>7, <2>3 DEF DecMatch, Tok, Chunk, link
    <3>2. Tok.ml \in Nat /\ Tok.ml > 0
      BY <2>1, TokHasMatch
    <3> DEFINE m == Tok.ml
    <3>3. m \in Nat /\ m > 0 /\ Tok'.ml = m /\ Len(dout) + m <= cap
      BY <1>1, <3>1, <3>2 DEF Exceeds
    <3> HIDE DEF m
    <3>4. ci' < m /\ Len(dout') + (m - ci') <= cap'
      BY <1>1, <2>1, <3>1, <3>3
    <3> QED
      BY <1>1, <2>1, <3>3, <3>4 DEF RoomInv
  <2> QED
    BY <2>2, <2>3
<1>8. CASE DecCopy
  <2>1. pc = "copy" /\ cap' = cap /\ dout' = Append(dout, CopyByte)
    BY <1>8 DEF DecCopy
  <2>2. Len(dout') = Len(dout) + 1
    BY <1>1, <2>1
  <2>3. Tok.ml \in Nat /\ ci < Tok.ml /\ Len(dout) + (Tok.ml - ci) <= cap
    BY <2>1, TokHasMatch DEF RoomInv
  <2>4. Len(dout') <= cap'
    BY <1>1, <2>1, <2>2, <2>3
  <2>5. pc' = "copy" => ci' < Tok'.ml /\ Len(dout') + (Tok'.ml - ci') <= cap'
    <3>1. pc' = "copy" => ci + 1 < Tok.ml /\ ci' = ci + 1 /\ Tok' = Tok
      BY <1>8 DEF DecCopy, Tok, Chunk, link
    <3> QED
      BY <1>1, <2>1, <2>2, <2>3, <3>1
  <2> QED
    BY <2>4, <2>5 DEF RoomInv
<1>9. CASE DecReturn
  BY <1>9 DEF DecReturn, RoomInv
<1>10. CASE UNCHANGED vars
  BY <1>10 DEF vars, decCall, link, RoomInv, Tok, Chunk
<1> QED
  BY <1>2, <1>3, <1>4, <1>5, <1>6, <1>7, <1>8, <1>9, <1>10 DEF Next, DecStep

\* The output of elh_stream_decompress never goes beyond dstCapacity
\* (elh.c:645, 663), for every chunk an encoder makes, wrapped or not.
THEOREM RoomCorrect == Spec => []RoomInv
<1>1. Init => TypeInv /\ MatchesInv /\ RoomInv
  BY TypeInit DEF Init, MatchesInv, RoomInv
<1>2. TypeInv /\ MatchesInv /\ RoomInv /\ [Next]_vars => (TypeInv /\ MatchesInv /\ RoomInv)'
  BY TypeStep, MatchesStep, RoomStep
<1> QED
  BY <1>1, <1>2, PTL DEF Spec

-----------------------------------------------------------------------------
(***************************************************************************)
(* Every step of a call brings its return nearer.                          *)
(***************************************************************************)
\* A lap outweighs all that is left within one.
LEMMA LapFalls ==
    ASSUME NEW a \in Nat, NEW b \in Nat, a < b, NEW lap \in Nat,
           NEW u \in Nat, NEW v \in Nat, v < lap
    PROVE  a * lap + v < b * lap + u
<1>1. PICK d \in Nat : b = a + 1 + d
  <2>1. b - a - 1 \in Nat /\ b = a + 1 + (b - a - 1)
    OBVIOUS
  <2> QED
    BY <2>1
<1> DEFINE x == a * lap
           y == d * lap
           z == b * lap
<1>2. x \in Nat /\ y \in Nat /\ z = x + lap + y
  BY <1>1
<1> HIDE DEF x, y, z
<1>3. x + v < z + u
  BY <1>2
<1> QED
  BY <1>3 DEF x, z

\* The encoder's variables during a call.
LEMMA EncNats ==
    ASSUME TypeInv
    PROVE  /\ len \in Nat /\ anchor \in Nat /\ ip \in Nat /\ hp \in Nat /\ Lap \in Nat
           /\ MFL \in Int /\ MFL <= len
           /\ pc \in EncPc => len - anchor \in Nat
           /\ Rest(ip) \in Nat /\ Rest(hp) \in Nat
           /\ Rest(ip) <= len + 1 /\ Rest(hp) <= len + 1
<1>1. len \in Nat /\ anchor \in Nat /\ ip \in Nat /\ hp \in Nat /\ MFLimit \in Nat
  BY Sizes DEF TypeInv, TypeOK
<1>2. pc \in EncPc => anchor <= len
  BY DEF TypeInv, Shape
<1> QED
  BY <1>1, <1>2 DEF Lap, MFL, Rest

LEMMA LapLeftNat ==
    ASSUME TypeInv, pc \in EncPc
    PROVE  LapLeft \in Nat /\ LapLeft > 0 /\ LapLeft < Lap
<1>1. len \in Nat /\ Rest(ip) \in Nat /\ Rest(hp) \in Nat /\ Rest(ip) <= len + 1 /\ Rest(hp) <= len + 1
  BY EncNats
<1>2. LapLeft \in {Rest(ip) + 2, Rest(ip) + 1, len + 4 + Rest(hp), 1}
  BY DEF LapLeft, EncPc
<1> QED
  BY <1>1, <1>2 DEF Lap

\* What is left of a call of the encoder, and of one of the decoder.
LEMMA EncLeft ==
    ASSUME TypeInv, pc \in EncPc
    PROVE  CallLeft = (len - anchor) * Lap + LapLeft /\ CallLeft \in Nat /\ CallLeft > 0
<1>1. CallLeft = (len - anchor) * Lap + LapLeft
  BY DEF CallLeft, EncPc
<1>2. (len - anchor) * Lap \in Nat
  BY EncNats
<1> DEFINE m == (len - anchor) * Lap
<1>3. m \in Nat /\ CallLeft = m + LapLeft
  BY <1>1, <1>2
<1> HIDE DEF m
<1> QED
  BY <1>1, <1>3, LapLeftNat

LEMMA DecLeft ==
    ASSUME TypeInv, RoomInv, pc \in DecPc
    PROVE  /\ TokensLeft \in Nat
           /\ CallLeft = CASE pc = "lits" -> TokensLeft + 3
                           [] pc = "match" -> TokensLeft + 2
                           [] pc = "copy" -> TokensLeft + 1
                           [] pc = "return" -> 1
           /\ CallLeft \in Nat /\ CallLeft > 0
<1>1. Len(Chunk.toks) \in Nat /\ ti \in 1 .. Len(Chunk.toks)
  BY TokType DEF TypeInv, Shape, ChunkType
<1>2. cap \in Nat /\ Len(dout) \in Nat /\ Len(dout) <= cap
  BY DEF TypeInv, TypeOK, RoomInv
<1>3. TokensLeft \in Nat
  BY <1>1, <1>2 DEF TokensLeft
<1>4. CallLeft = CASE pc = "lits" -> TokensLeft + 3
                   [] pc = "match" -> TokensLeft + 2
                   [] pc = "copy" -> TokensLeft + 1
                   [] pc = "return" -> 1
  BY DEF CallLeft, EncPc, DecPc
<1> QED
  BY <1>3, <1>4 DEF DecPc

LapNat == pc \in EncPc => LapLeft \in Nat /\ LapLeft < Lap
LeftNat == CallLeft \in Nat /\ (pc # "idle" => CallLeft > 0) /\ (pc = "idle" => CallLeft = 0)

LEMMA LeftType == TypeInv /\ RoomInv => LapNat /\ LeftNat
<1> SUFFICES ASSUME TypeInv, RoomInv PROVE LapNat /\ LeftNat
  OBVIOUS
<1>1. pc \in EncPc \cup DecPc \cup {"idle"}
  BY DEF TypeInv, TypeOK, EncPc, DecPc
<1>2. pc = "idle" => CallLeft = 0
  BY DEF CallLeft, EncPc
<1> QED
  BY <1>1, <1>2, EncLeft, DecLeft, LapLeftNat DEF LeftNat, LapNat

LEMMA WithinLap ==
    ASSUME TypeInv, LapNat', UNCHANGED <<len, anchor>>, pc \in EncPc, pc' \in EncPc,
           LapLeft' < LapLeft
    PROVE  CallLeft' < CallLeft
<1>1. CallLeft = (len - anchor) * Lap + LapLeft
  BY EncLeft
<1>2. CallLeft' = (len - anchor) * Lap + LapLeft'
  <2>1. CallLeft' = (len' - anchor') * Lap' + LapLeft'
    BY DEF CallLeft, EncPc
  <2>2. Lap' = Lap
    BY DEF Lap
  <2> QED
    BY <2>1, <2>2
<1>3. (len - anchor) * Lap \in Nat /\ LapLeft \in Nat
  BY EncNats, LapLeftNat
<1>4. LapLeft' \in Nat
  BY DEF LapNat, EncPc
<1> DEFINE m == (len - anchor) * Lap
           u == LapLeft
           v == LapLeft'
<1>5. m \in Nat /\ u \in Nat /\ v \in Nat /\ v < u /\ CallLeft = m + u /\ CallLeft' = m + v
  BY <1>1, <1>2, <1>3, <1>4
<1> HIDE DEF m, u, v
<1> QED
  BY <1>5

\* A position further on has less of the chunk behind it.
LEMMA RestFalls ==
    ASSUME NEW s \in Nat, NEW x \in Nat, NEW y \in Nat, x < y, x <= s
    PROVE  LET r(z) == IF z <= s THEN s + 1 - z ELSE 0 IN r(y) \in Nat /\ r(y) < r(x)
  OBVIOUS

\* The search ends, and each match leaves the anchor behind.
LEMMA EncProgress ==
    ASSUME TypeInv, TypeInv', LapNat, LapNat',
           EncHit \/ EncMiss \/ EncSearchEnd \/ EncEmit \/ EncHash \/ EncHashDone
    PROVE  CallLeft' < CallLeft
<1>1. /\ len \in Nat /\ ip \in Nat /\ hp \in Nat /\ anchor \in Nat /\ len' = len
      /\ MFL <= len /\ MFL \in Int
      /\ ip' \in Nat /\ hp' \in Nat /\ anchor' \in Nat
  <2>1. len' = len
    BY DEF EncHit, EncMiss, EncSearchEnd, EncEmit, EncHash, EncHashDone, encCall
  <2>2. ip' \in Nat /\ hp' \in Nat /\ anchor' \in Nat
    BY DEF TypeInv, TypeOK
  <2> QED
    BY <2>1, <2>2, EncNats
<1>2. Rest(ip) \in Nat /\ Rest(hp) \in Nat /\ Rest(ip) <= len + 1
  BY EncNats
<1>3. /\ Rest(ip)' = IF ip' <= len THEN len + 1 - ip' ELSE 0
      /\ Rest(hp)' = IF hp' <= len THEN len + 1 - hp' ELSE 0
      /\ Rest(ip) = IF ip <= len THEN len + 1 - ip ELSE 0
      /\ Rest(hp) = IF hp <= len THEN len + 1 - hp ELSE 0
  BY <1>1 DEF Rest
<1>4. CASE EncHit
  <2>1. pc = "search" /\ pc' = "found" /\ UNCHANGED <<ip, anchor>>
    BY <1>4 DEF EncHit
  <2>2. Rest(ip)' = Rest(ip)
    BY <1>3, <2>1
  <2>3. LapLeft = Rest(ip) + 2 /\ LapLeft' = Rest(ip) + 1
    BY <2>1, <2>2 DEF LapLeft
  <2> QED
    BY <1>1, <1>2, <2>1, <2>3, WithinLap DEF EncPc
<1>5. CASE EncMiss
  <2>1. pc = "search" /\ pc' = "search" /\ UNCHANGED anchor /\ ip <= len
    BY <1>1, <1>5 DEF EncMiss
  <2>2. ip < ip'
    <3>1. params.skipDiv \in Nat \ {0} /\ skips' \in Nat
      BY <1>5, StreamAssumption DEF EncMiss, TypeInv, TypeOK
    <3>2. skips' \div params.skipDiv \in Nat /\ ip' = ip + 1 + skips' \div params.skipDiv
      BY <1>5, <3>1 DEF EncMiss
    <3> QED
      BY <1>1, <3>2
  <2>3. Rest(ip)' \in Nat /\ Rest(ip)' < Rest(ip)
    BY <1>1, <1>3, <2>1, <2>2, RestFalls
  <2>4. LapLeft = Rest(ip) + 2 /\ LapLeft' = Rest(ip)' + 2
    BY <2>1 DEF LapLeft
  <2> QED
    BY <1>1, <1>2, <2>1, <2>3, <2>4, WithinLap DEF EncPc
<1>6. CASE EncSearchEnd
  <2>1. pc = "search" /\ pc' = "last" /\ UNCHANGED anchor
    BY <1>6 DEF EncSearchEnd, encCall
  <2>2. LapLeft = Rest(ip) + 2 /\ LapLeft' = 1
    BY <2>1 DEF LapLeft
  <2> QED
    BY <1>1, <1>2, <2>1, <2>2, WithinLap DEF EncPc
<1>7. CASE EncEmit
  <2>1. pc = "found" /\ pc' = "hash" /\ pc \in EncPc /\ pc' \in EncPc
    BY <1>7 DEF EncEmit, EncPc
  <2>2. anchor < anchor' /\ anchor' <= len
    <3> DEFINE back == BackLen(ip, mpos)
               ml == MatchLen(ip - back, mpos - back, len)
    <3>1. anchor' = ip - back + ml
      BY <1>7 DEF EncEmit
    <3>2. ip - back \in anchor .. ip /\ ml \in MinMatch .. len
      BY <2>1, EmitShape
    <3> HIDE DEF back, ml
    <3>3. anchor < anchor'
      BY <1>1, <3>1, <3>2, Sizes
    <3>4. anchor' <= len'
      BY <2>1 DEF TypeInv, Shape
    <3> QED
      BY <1>1, <3>3, <3>4
  <2> DEFINE a == len - anchor'
             b == len - anchor
             u == LapLeft
             v == LapLeft'
             lap == Lap
  <2>3. a \in Nat /\ b \in Nat /\ a < b /\ lap \in Nat
    <3>1. lap \in Nat
      BY EncNats
    <3> DEFINE n == len
               x == anchor
               y == anchor'
    <3>2. n \in Nat /\ x \in Nat /\ y \in Nat /\ x < y /\ y <= n
      BY <1>1, <2>2
    <3> HIDE DEF n, x, y, lap
    <3>3. n - y \in Nat /\ n - x \in Nat /\ n - y < n - x
      BY <3>2
    <3> QED
      BY <3>1, <3>3 DEF n, x, y
  <2>4. u \in Nat /\ v \in Nat /\ v < lap
    <3>1. Lap' = Lap
      BY <1>1 DEF Lap
    <3> QED
      BY <2>1, <3>1 DEF LapNat, EncPc
  <2>5. CallLeft = b * lap + u
    BY <2>1, EncLeft
  <2>6. CallLeft' = a * lap + v
    <3>1. CallLeft' = (len' - anchor') * Lap' + LapLeft'
      BY <2>1 DEF CallLeft, EncPc
    <3>2. Lap' = Lap
      BY <1>1 DEF Lap
    <3> QED
      BY <1>1, <3>1, <3>2
  <2> HIDE DEF a, b, u, v, lap
  <2>7. a * lap + v < b * lap + u
    BY <2>3, <2>4, LapFalls
  <2> QED
    BY <2>5, <2>6, <2>7
<1>8. CASE EncHash
  <2>1. pc = "hash" /\ pc' = "hash" /\ hp < ip - 1 /\ hp' = hp + 1 /\ UNCHANGED anchor /\ hp <= len
    BY <1>1, <1>8 DEF EncHash
  <2>2. hp < hp'
    BY <1>1, <2>1
  <2>3. Rest(hp)' \in Nat /\ Rest(hp)' < Rest(hp)
    BY <1>1, <1>3, <2>1, <2>2, RestFalls
  <2>4. LapLeft = len + 4 + Rest(hp) /\ LapLeft' = len + 4 + Rest(hp)'
    BY <1>1, <2>1 DEF LapLeft
  <2> QED
    BY <1>1, <1>2, <2>1, <2>3, <2>4, WithinLap DEF EncPc
<1>9. CASE EncHashDone
  <2>1. pc = "hash" /\ pc' \in {"last", "search"} /\ UNCHANGED <<ip, anchor>>
    BY <1>9 DEF EncHashDone
  <2>2. Rest(ip)' = Rest(ip)
    BY <1>3, <2>1
  <2>3. LapLeft = len + 4 + Rest(hp) /\ LapLeft' \in {1, Rest(ip) + 2}
    BY <2>1, <2>2 DEF LapLeft
  <2> QED
    BY <1>1, <1>2, <2>1, <2>3, WithinLap DEF EncPc
<1> QED
  BY <1>4, <1>5, <1>6, <1>7, <1>8, <1>9

LEMMA DecProgress ==
    ASSUME TypeInv, TypeInv', RoomInv, RoomInv', LeftNat', DecLits \/ DecMatch \/ DecCopy
    PROVE  CallLeft' < CallLeft
<1>1. /\ pc \in DecPc /\ pc' \in DecPc \cup {"idle"} /\ Chunk' = Chunk /\ cap' = cap
      /\ pc' = "idle" \/ (ti' \in 1 .. Len(Chunk.toks))
  <2>1. pc \in DecPc /\ pc' \in DecPc \cup {"idle"} /\ Chunk' = Chunk /\ cap' = cap
    BY DEF DecLits, DecMatch, DecCopy, Fail, DecPc, Chunk, link
  <2>2. pc' \in DecPc => ti' \in 1 .. Len(Chunk'.toks)
    BY DEF TypeInv, Shape
  <2> QED
    BY <2>1, <2>2
<1>2. CASE pc' = "idle"
  BY <1>1, <1>2, DecLeft DEF LeftNat
<1>3. CASE pc' # "idle"
  <2> DEFINE n == Len(Chunk.toks)
             x == Len(dout)
             y == Len(dout')
  <2>1. /\ n \in Nat /\ ti \in Nat /\ ti' \in Nat /\ ti <= n /\ ti' <= n
        /\ x \in Nat /\ y \in Nat /\ x <= cap /\ y <= cap /\ cap \in Nat
    <3>1. Chunk \in ChunkType
      BY <1>1, TokType
    <3>2. n \in Nat /\ ti \in 1 .. n /\ ti' \in 1 .. n
      BY <1>1, <1>3, <3>1 DEF ChunkType, TypeInv, Shape
    <3>3. x \in Nat /\ y \in Nat /\ cap \in Nat
      <4>1. dout \in Seq(Byte \cup {Junk}) /\ cap \in Nat
        BY DEF TypeInv, TypeOK
      <4>2. dout' \in Seq(Byte \cup {Junk})
        BY DEF TypeInv, TypeOK
      <4> QED
        BY <4>1, <4>2
    <3>4. x <= cap /\ y <= cap'
      BY DEF RoomInv
    <3> QED
      BY <1>1, <3>2, <3>3, <3>4
  <2>2. TokensLeft = 3 * (n - ti) + (cap - x) /\ TokensLeft' = 3 * (n - ti') + (cap - y)
    BY <1>1 DEF TokensLeft
  <2>3. /\ pc = "lits" => CallLeft = TokensLeft + 3
        /\ pc = "match" => CallLeft = TokensLeft + 2
        /\ pc = "copy" => CallLeft = TokensLeft + 1
        /\ pc' = "lits" => CallLeft' = TokensLeft' + 3
        /\ pc' = "match" => CallLeft' = TokensLeft' + 2
        /\ pc' = "copy" => CallLeft' = TokensLeft' + 1
        /\ pc' = "return" => CallLeft' = 1
    BY DEF CallLeft, EncPc
  <2>4. CASE DecLits
    <3>1. /\ pc = "lits" /\ pc' \in {"match", "return"} /\ ti' = ti
          /\ dout' = dout \o Tok.lits
      BY <1>3, <2>4 DEF DecLits, Fail
    <3>2. y >= x
      <4>1. Tok.lits \in Seq(Byte \cup {Junk}) /\ dout \in Seq(Byte \cup {Junk})
        BY <1>1, TokType DEF TokenType, TypeInv, TypeOK
      <4>2. Len(dout') = Len(dout) + Len(Tok.lits) /\ Len(Tok.lits) \in Nat
        BY <3>1, <4>1, ConcatProperties
      <4> QED
        BY <2>1, <4>2
    <3> HIDE DEF n, x, y
    <3> QED
      BY <2>1, <2>2, <2>3, <3>1, <3>2
  <2>5. CASE DecMatch
    <3>1. pc = "match" /\ pc' = "copy" /\ ti' = ti /\ y = x
      BY <1>3, <2>5 DEF DecMatch, Fail
    <3> HIDE DEF n, x, y
    <3> QED
      BY <2>1, <2>2, <2>3, <3>1
  <2>6. CASE DecCopy
    <3>1. pc = "copy" /\ ((pc' = "copy" /\ ti' = ti) \/ (pc' = "lits" /\ ti' = ti + 1))
      BY <2>6 DEF DecCopy
    <3>2. y = x + 1
      BY <2>6 DEF DecCopy, TypeInv, TypeOK
    <3> HIDE DEF n, x, y
    <3> QED
      BY <2>1, <2>2, <2>3, <3>1, <3>2
  <2> QED
    BY <2>4, <2>5, <2>6
<1> QED
  BY <1>2, <1>3

\* No loop of the two calls runs for ever, for every chunk, parameter and
\* buffer and also when the counters wrapped (elh.c:412-556, 639-691).
THEOREM CallProgressCorrect == Spec => CallProgress
<1> DEFINE I == TypeInv /\ RoomInv
           J == LapNat /\ LeftNat
<1>1. Init => TypeInv /\ MatchesInv /\ RoomInv
  BY TypeInit DEF Init, MatchesInv, RoomInv
<1>2. TypeInv /\ MatchesInv /\ RoomInv /\ [Next]_vars => (TypeInv /\ MatchesInv /\ RoomInv)'
  BY TypeStep, MatchesStep, RoomStep
<1>3. I => J
  BY LeftType
<1>4. I /\ I' /\ J /\ J' /\ [Next]_vars
        => [CallLeft' \in Nat /\ (pc # "idle" => CallLeft' < CallLeft)]_vars
  <2> SUFFICES ASSUME I, I', J, J', Next, pc # "idle"
               PROVE  CallLeft' < CallLeft
    BY DEF LeftNat
  <2>1. CASE EncLast \/ DecReturn
    <3>1. pc' = "idle"
      BY <2>1 DEF EncLast, DecReturn
    <3> QED
      BY <3>1 DEF LeftNat
  <2>2. CASE EncHit \/ EncMiss \/ EncSearchEnd \/ EncEmit \/ EncHash \/ EncHashDone
    BY <2>2, EncProgress
  <2>3. CASE DecLits \/ DecMatch \/ DecCopy
    BY <2>3, DecProgress
  <2> QED
    BY <2>1, <2>2, <2>3 DEF Next, EncStep, DecStep, EncBegin, DecBegin, ResetEnc, ResetDec
<1> QED
  BY <1>1, <1>2, <1>3, <1>4, PTL DEF Spec, CallProgress
=============================================================================
