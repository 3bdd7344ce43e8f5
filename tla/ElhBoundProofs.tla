--------------------------- MODULE ElhBoundProofs ---------------------------
(***************************************************************************)
(* A call of either encoder never writes past its buffer; while its bound  *)
(* fits an int, one that accepted its buffer never runs out of room, and   *)
(* what it writes fits the bound.                                          *)
(*                                                                         *)
(* The bytes written so far never exceed Spent(pos), the share of the      *)
(* bound that the pos input bytes behind them pay for: a token that covers *)
(* a match of at least MinMatch bytes costs no more than those bytes.      *)
(***************************************************************************)
EXTENDS ElhBound, TLAPS

\* What p bytes of input pay for: themselves, a byte for each 255, and with
\* wide offsets the 4 bytes of each escape out of the 4 bytes of its match.
Spent(p) == p + (p \div 255) + (IF kind = "wide" THEN p ELSE 0)

\* What holds while the bound fits an int: the output is within Spent, and
\* the check of dstCapacity has granted room for the bound.
PaidInv ==
    /\ TypeOK
    /\ pc = "start" => pos = 0 /\ op = 0
    /\ pc \in {"search", "ext"} => room >= Bound(kind, n)
    /\ pc = "search" => op <= Spent(pos)
    /\ pc = "ext" => op + (rest \div 255) + 1 <= Spent(pos)
    /\ pc # "failed"
    /\ pc = "done" => op <= Bound(kind, n)

InRoom == op > 0 => op <= room

\* The inductive invariant.
BoundInv ==
    /\ TypeOK
    /\ InRoom
    /\ BoundFits => PaidInv

-----------------------------------------------------------------------------
\* Quotients by 255 are naturals and add up to at most the quotient of the sum.
LEMMA Div255 ==
    ASSUME NEW a \in Nat, NEW b \in Nat
    PROVE  /\ a \div 255 \in Nat
           /\ (a \div 255) + (b \div 255) <= (a + b) \div 255
  OBVIOUS

\* A length costs at most one byte more than its quotient by 255.
LEMMA ExtCost ==
    ASSUME NEW a \in Nat
    PROVE  /\ Ext(a) \in Nat
           /\ Ext(a) <= (a \div 255) + 1
           /\ a < 15 => Ext(a) = 0
  BY DEF Ext, Mask

\* A bound that fits an int is what the bound functions return.
LEMMA BoundValue ==
    ASSUME BoundAssumption,
           NEW k \in {"block", "stream", "wide"}, NEW s \in SrcSizes,
           Size(k, s) < IntMod \div 2
    PROVE  /\ Bound(k, s) \in Int
           /\ Bound(k, s) >= (s + (s \div 255)) + 40
           /\ k = "wide" => Bound(k, s) >= ((s + s) + (s \div 255)) + 37
  <1>1. s \in Nat /\ IntMod \in Nat /\ IntMod > 0 /\ IntMod % 2 = 0
    BY DEF BoundAssumption
  <1>2. /\ BlockSize(s) \in Nat /\ WideSize(s) \in Nat
        /\ BlockSize(s) <= WideSize(s)
        /\ BlockSize(s) >= (s + (s \div 255)) + 40
        /\ WideSize(s) >= ((s + s) + (s \div 255)) + 37
    BY <1>1 DEF BlockSize, WideSize
  <1>3. /\ Size(k, s) \in Nat
        /\ Size(k, s) >= (s + (s \div 255)) + 40
        /\ k = "wide" => Size(k, s) >= ((s + s) + (s \div 255)) + 37
    BY <1>1, <1>2 DEF Size
  <1>4. ASSUME NEW x \in Nat, x < IntMod \div 2 PROVE ToInt(x) = x
    <2> DEFINE h == IntMod \div 2
    <2>1. h \in Nat /\ x + h \in Nat /\ x + h < IntMod /\ h >= 0
      BY <1>1, <1>4
    <2> HIDE DEF h
    <2>2. (x + h) % IntMod = x + h
      BY <2>1, <1>1
    <2>3. QED
      BY <2>1, <2>2, <1>1 DEF ToInt, h
  <1>5. Bound(k, s) = Size(k, s)
    BY <1>3, <1>4 DEF Bound
  <1>6. QED
    BY <1>3, <1>5

-----------------------------------------------------------------------------
LEMMA InitPaid == BoundAssumption /\ Init => PaidInv
  <1> SUFFICES ASSUME BoundAssumption, Init PROVE PaidInv
    OBVIOUS
  <1>1. n \in Nat /\ n > 0
    BY DEF Init, BoundAssumption
  <1>2. Bound(kind, n) \in Int
    BY <1>1 DEF Init, Bound, Size, ToInt, BlockSize, WideSize, BoundAssumption
  <1>3. room \in Int
    BY <1>2 DEF Init, BoundAssumption
  <1>4. QED
    BY <1>1, <1>3 DEF Init, PaidInv, TypeOK

\* Literals and a match: the check before the literals passes, and the token
\* is paid for by the bytes it covers.
LEMMA TokenStep ==
    ASSUME BoundFits, BoundAssumption, PaidInv,
           NEW lit \in LitLens, NEW ml \in MatchLens, Token(lit, ml)
    PROVE  PaidInv'
  <1>1. /\ n \in SrcSizes /\ n \in Nat /\ pos \in Nat /\ op \in Nat /\ rest \in Nat
        /\ lit \in Nat /\ ml \in Nat /\ ml >= 4 /\ room \in Int
        /\ (pos + lit) + 13 <= n /\ ((pos + lit) + ml) + 5 <= n
        /\ kind \in {"block", "stream", "wide"} /\ pc = "search"
    BY DEF PaidInv, TypeOK, BoundAssumption, Token, MinMatch, LastLiterals, MFLimit
  <1>2. op <= Spent(pos) /\ room >= Bound(kind, n)
    BY <1>1 DEF PaidInv
  <1> DEFINE q == (pos + lit) + ml
  <1>3. /\ (pos \div 255) + (lit \div 255) <= (pos + lit) \div 255
        /\ ((pos + lit) \div 255) + (ml \div 255) <= q \div 255
        /\ q \div 255 <= n \div 255
        /\ pos \div 255 \in Nat /\ lit \div 255 \in Nat /\ ml \div 255 \in Nat
        /\ q \div 255 \in Nat /\ q \in 0 .. n
    BY <1>1, Div255
  <1>4. ~ (op + 1 + lit + lit \div 255 + 10 > room)
    <2>1. CASE kind = "wide"
      BY <2>1, <1>1, <1>2, <1>3, BoundValue DEF BoundFits, Spent
    <2>2. CASE kind # "wide"
      BY <2>2, <1>1, <1>2, <1>3, BoundValue DEF BoundFits, Spent
    <2>3. QED
      BY <2>1, <2>2
  <1>5. PICK offset \in IF kind = "wide" THEN {2, 6} ELSE {2} :
            op' = op + 1 + Ext(lit) + lit + offset
    BY <1>4 DEF Token
  <1>6. /\ pos' = q
        /\ IF ml - MinMatch < Mask
           THEN pc' = "search" /\ UNCHANGED rest
           ELSE pc' = "ext" /\ rest' = ml - MinMatch - Mask
        /\ UNCHANGED <<kind, n, room>>
    BY <1>4 DEF Token
  <1>7. Ext(lit) \in Nat /\ Ext(lit) <= (lit \div 255) + 1
    BY <1>1, ExtCost
  <1>8. op' \in Nat /\ offset \in {2, 6} /\ (kind # "wide" => offset = 2)
    BY <1>1, <1>5, <1>7
  <1>9. CASE ml - MinMatch < Mask
    <2>1. op' <= (q + (q \div 255)) + (IF kind = "wide" THEN q ELSE 0)
      BY <1>1, <1>2, <1>3, <1>5, <1>7, <1>8 DEF Spent
    <2>2. op' <= Spent(pos)'
      BY <2>1, <1>6 DEF Spent
    <2>3. QED
      BY <2>2, <1>1, <1>2, <1>3, <1>6, <1>8, <1>9
         DEF PaidInv, TypeOK, Bound
  <1>10. CASE ~ (ml - MinMatch < Mask)
    <2>1. rest' \in Nat /\ ml = rest' + 19
      BY <1>10, <1>1, <1>6 DEF MinMatch, Mask
    <2>2. rest' \div 255 \in Nat /\ rest' \div 255 <= ml \div 255
      <3>1. ASSUME NEW r \in Nat
            PROVE  r \div 255 \in Nat /\ r \div 255 <= (r + 19) \div 255
        OBVIOUS
      <3>2. (rest' \div 255) \in Nat /\ rest' \div 255 <= (rest' + 19) \div 255
        BY <2>1, <3>1, Zenon
      <3>3. QED
        BY <2>1, <3>2, Zenon
    <2>3. (op' + (rest' \div 255)) + 1
             <= (q + (q \div 255)) + (IF kind = "wide" THEN q ELSE 0)
      BY <2>1, <2>2, <1>1, <1>2, <1>3, <1>5, <1>7, <1>8 DEF Spent
    <2>4. op' + (rest' \div 255) + 1 <= Spent(pos)'
      BY <2>1, <2>2, <2>3, <1>6, <1>8 DEF Spent
    <2>5. pc' = "ext" /\ pos' = q /\ UNCHANGED <<kind, n, room>>
      BY <1>6, <1>10
    <2>6. TypeOK'
      BY <2>1, <2>5, <1>1, <1>3, <1>8 DEF TypeOK
    <2>7. room' >= Bound(kind, n)'
      BY <2>5, <1>2 DEF Bound
    <2>8. QED
      BY <2>4, <2>5, <2>6, <2>7 DEF PaidInv
  <1>11. QED
    BY <1>9, <1>10

LEMMA MatchExtStep ==
    ASSUME BoundFits, BoundAssumption, PaidInv, MatchExt
    PROVE  PaidInv'
  <1>1. /\ n \in SrcSizes /\ n \in Nat /\ pos \in Nat /\ op \in Nat /\ rest \in Nat
        /\ pos <= n /\ room \in Int
        /\ kind \in {"block", "stream", "wide"} /\ pc = "ext"
    BY DEF PaidInv, TypeOK, BoundAssumption, MatchExt
  <1>2. (op + (rest \div 255)) + 1 <= Spent(pos) /\ room >= Bound(kind, n)
    BY <1>1 DEF PaidInv
  <1>3. /\ pos \div 255 \in Nat /\ rest \div 255 \in Nat
        /\ pos \div 255 <= n \div 255 /\ n \div 255 \in Nat
    BY <1>1
  <1>4. ~ (op + rest \div 255 + 2 > room)
    <2>1. CASE kind = "wide"
      BY <2>1, <1>1, <1>2, <1>3, BoundValue DEF BoundFits, Spent
    <2>2. CASE kind # "wide"
      BY <2>2, <1>1, <1>2, <1>3, BoundValue DEF BoundFits, Spent
    <2>3. QED
      BY <2>1, <2>2
  <1>5. /\ pc' = "search" /\ op' = op + (rest \div 255) + 1
        /\ UNCHANGED <<kind, n, room, pos, rest>>
    BY <1>4 DEF MatchExt
  <1>6. op' \in Nat /\ op' <= Spent(pos)'
    BY <1>1, <1>2, <1>3, <1>5 DEF Spent
  <1>7. QED
    BY <1>1, <1>2, <1>5, <1>6
       DEF PaidInv, TypeOK, Bound

LEMMA LastStep ==
    ASSUME BoundFits, BoundAssumption, PaidInv, Last
    PROVE  PaidInv'
  <1> DEFINE lit == n - pos
  <1>1. /\ n \in SrcSizes /\ n \in Nat /\ pos \in Nat /\ op \in Nat /\ rest \in Nat
        /\ pos <= n /\ lit \in Nat /\ n = pos + lit /\ room \in Int
        /\ kind \in {"block", "stream", "wide"} /\ pc = "search"
    BY DEF PaidInv, TypeOK, BoundAssumption, Last
  <1>2. op <= Spent(pos) /\ room >= Bound(kind, n)
    BY <1>1 DEF PaidInv
  <1>3. /\ (pos \div 255) + (lit \div 255) <= n \div 255
        /\ pos \div 255 \in Nat /\ lit \div 255 \in Nat /\ n \div 255 \in Nat
    BY <1>1, Div255
  <1>4. (((op + lit) + (lit \div 255)) + 2) <= Bound(kind, n) /\ Bound(kind, n) \in Int
    <2>1. CASE kind = "wide"
      BY <2>1, <1>1, <1>2, <1>3, BoundValue DEF BoundFits, Spent
    <2>2. CASE kind # "wide"
      BY <2>2, <1>1, <1>2, <1>3, BoundValue DEF BoundFits, Spent
    <2>3. QED
      BY <2>1, <2>2
  <1>5. ~ (op + lit + lit \div 255 + 2 > room)
    BY <1>1, <1>2, <1>3, <1>4
  <1>6. /\ pc' = "done" /\ op' = op + 1 + Ext(lit) + lit
        /\ UNCHANGED <<kind, n, room, pos, rest>>
    BY <1>5 DEF Last
  <1>7. Ext(lit) \in Nat /\ Ext(lit) <= (lit \div 255) + 1
    BY <1>1, ExtCost
  <1>8. op' \in Nat /\ op' <= Bound(kind, n)
    BY <1>1, <1>3, <1>4, <1>6, <1>7
  <1>9. QED
    BY <1>1, <1>6, <1>8 DEF PaidInv, TypeOK, Bound

LEMMA NextPaid ==
    BoundFits /\ BoundAssumption /\ PaidInv /\ [Next]_vars => PaidInv'
  <1> SUFFICES ASSUME BoundFits, BoundAssumption, PaidInv, [Next]_vars
               PROVE  PaidInv'
    OBVIOUS
  <1>1. CASE Start
    <2>1. op' = 0 /\ pos' = 0 /\ UNCHANGED <<kind, n, room, rest>>
      BY <1>1 DEF Start, PaidInv
    <2>2. Spent(pos)' >= 0
      BY <2>1 DEF Spent
    <2>3. Bound(kind, n) \in Int /\ room \in Int
      BY BoundValue DEF BoundFits, PaidInv, TypeOK
    <2>4. QED
      BY <1>1, <2>1, <2>2, <2>3
         DEF Start, PaidInv, TypeOK, Bound
  <1>2. CASE \E lit \in LitLens, ml \in MatchLens : Token(lit, ml)
    BY <1>2, TokenStep
  <1>3. CASE MatchExt
    BY <1>3, MatchExtStep
  <1>4. CASE Last
    BY <1>4, LastStep
  <1>5. CASE UNCHANGED vars
    BY <1>5 DEF vars, PaidInv, TypeOK, Spent, Bound
  <1>6. QED
    BY <1>1, <1>2, <1>3, <1>4, <1>5 DEF Next

-----------------------------------------------------------------------------
(***************************************************************************)
(* Without the condition on the bound: each check covers what is written   *)
(* up to the next.                                                         *)
(***************************************************************************)
\* Every step keeps the types and stays in the buffer.
LEMMA TypeStep ==
    ASSUME BoundAssumption, TypeOK, InRoom, [Next]_vars
    PROVE  TypeOK' /\ InRoom'
  <1>1. /\ n \in SrcSizes /\ n \in Nat /\ pos \in Nat /\ op \in Nat /\ rest \in Nat
        /\ pos <= n /\ room \in Int /\ kind \in {"block", "stream", "wide"}
    BY DEF TypeOK, BoundAssumption
  <1>2. CASE Start
    BY <1>1, <1>2 DEF Start, TypeOK, InRoom
  <1>3. ASSUME NEW lit \in LitLens, NEW ml \in MatchLens, Token(lit, ml)
        PROVE  TypeOK' /\ InRoom'
    <2>1. /\ lit \in Nat /\ ml \in Nat /\ ml >= 4
          /\ ((pos + lit) + ml) + 5 <= n
          /\ UNCHANGED <<kind, n, room>>
      BY <1>1, <1>3 DEF BoundAssumption, Token, MinMatch, LastLiterals
    <2>2. CASE op + 1 + lit + lit \div 255 + 10 > room
      BY <1>1, <1>3, <2>1, <2>2 DEF Token, TypeOK, InRoom
    <2>3. CASE ~ (op + 1 + lit + lit \div 255 + 10 > room)
      <3>1. PICK offset \in IF kind = "wide" THEN {2, 6} ELSE {2} :
                op' = op + 1 + Ext(lit) + lit + offset
        BY <1>3, <2>3 DEF Token
      <3>2. /\ pos' = pos + lit + ml
            /\ IF ml - MinMatch < Mask
               THEN pc' = "search" /\ UNCHANGED rest
               ELSE pc' = "ext" /\ rest' = ml - MinMatch - Mask
        BY <1>3, <2>3 DEF Token
      <3>3. /\ lit \div 255 \in Nat
            /\ Ext(lit) \in Nat /\ Ext(lit) <= (lit \div 255) + 1
            /\ offset \in {2, 6}
        BY <2>1, ExtCost
      <3>4. op' \in Nat /\ op' <= room
        BY <1>1, <2>1, <2>3, <3>1, <3>3
      <3>5. rest' \in Nat /\ pc' \in {"search", "ext"}
        BY <1>1, <2>1, <3>2 DEF MinMatch, Mask
      <3>6. pos' \in 0 .. n
        BY <1>1, <2>1, <3>2
      <3>7. QED
        BY <1>1, <2>1, <3>4, <3>5, <3>6 DEF TypeOK, InRoom
    <2>4. QED
      BY <2>2, <2>3
  <1>4. CASE MatchExt
    <2>1. rest \div 255 \in Nat
      BY <1>1
    <2>2. UNCHANGED <<kind, n, room, pos, rest>> /\ pc' \in {"failed", "search"}
      BY <1>4 DEF MatchExt
    <2>3. op' \in Nat /\ InRoom'
      BY <1>1, <1>4, <2>1, <2>2 DEF MatchExt, InRoom
    <2>4. QED
      BY <1>1, <2>2, <2>3 DEF TypeOK
  <1>5. CASE Last
    <2> DEFINE lit == n - pos
    <2>1. /\ lit \in Nat /\ lit \div 255 \in Nat
          /\ Ext(lit) \in Nat /\ Ext(lit) <= (lit \div 255) + 1
      BY <1>1, ExtCost
    <2>2. UNCHANGED <<kind, n, room, pos, rest>> /\ pc' \in {"failed", "done"}
      BY <1>5 DEF Last
    <2>3. op' = op \/ /\ op' = op + 1 + Ext(lit) + lit
                      /\ ~ (op + lit + lit \div 255 + 2 > room)
      BY <1>5 DEF Last
    <2>4. op' \in Nat /\ InRoom'
      BY <1>1, <2>1, <2>2, <2>3 DEF InRoom
    <2>5. QED
      BY <1>1, <2>2, <2>4 DEF TypeOK
  <1>6. CASE UNCHANGED vars
    BY <1>6 DEF vars, TypeOK, InRoom
  <1>7. QED
    BY <1>2, <1>3, <1>4, <1>5, <1>6 DEF Next

LEMMA BoundInvariant == Spec => []BoundInv
  <1>1. Init => BoundInv
    <2> SUFFICES ASSUME Init PROVE BoundInv
      OBVIOUS
    <2>1. PaidInv
      BY BoundAssumption, InitPaid
    <2>2. op = 0
      BY DEF Init
    <2>3. QED
      BY <2>1, <2>2 DEF BoundInv, PaidInv, InRoom
  <1>2. BoundInv /\ [Next]_vars => BoundInv'
    <2> SUFFICES ASSUME BoundInv, [Next]_vars PROVE BoundInv'
      OBVIOUS
    <2>1. TypeOK' /\ InRoom'
      BY BoundAssumption, TypeStep DEF BoundInv
    <2>2. UNCHANGED <<kind, n>>
      BY DEF Next, Start, Token, MatchExt, Last, vars
    <2>3. BoundFits' => BoundFits
      BY <2>2 DEF BoundFits, Size, BlockSize, WideSize
    <2>4. BoundFits' => PaidInv'
      BY <2>3, BoundAssumption, NextPaid DEF BoundInv
    <2>5. QED
      BY <2>1, <2>4 DEF BoundInv
  <1>3. QED
    BY <1>1, <1>2, PTL DEF Spec

\* No call of elh_compress or elh_stream_compress that accepted its buffer and
\* whose bound fits an int runs out of room, whatever matches it finds.
THEOREM NeverFailsCorrect == Spec => []NeverFails
  <1>1. BoundInv => NeverFails
    BY DEF BoundInv, PaidInv, NeverFails
  <1>2. QED
    BY <1>1, BoundInvariant, PTL

\* What it writes fits the bound the bound functions promise, and the buffer
\* also when that bound has wrapped.
THEOREM WithinBoundCorrect == Spec => []WithinBound
  <1>1. BoundInv => WithinBound
    BY DEF BoundInv, PaidInv, InRoom, WithinBound
  <1>2. QED
    BY <1>1, BoundInvariant, PTL
=============================================================================
