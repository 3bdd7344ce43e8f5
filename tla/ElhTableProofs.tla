--------------------------- MODULE ElhTableProofs ---------------------------
(***************************************************************************)
(* Facts about the operators of ElhTable, and about finite choices and     *)
(* remainders, that the proofs about the codecs cite.                      *)
(***************************************************************************)
EXTENDS ElhTable, Sequences, FiniteSetsExt, WellFoundedInduction, TLAPS

\* < on the naturals, as the relation of NatLessThanWellFounded.
NatLt == {ss \in Nat \X Nat : ss[1] < ss[2]}

\* Every set of naturals has a least element.
LEMMA NatMin ==
    ASSUME NEW T \in SUBSET Nat, T # {}
    PROVE  \E x \in T : \A y \in T : x <= y
<1>1. IsWellFoundedOn(NatLt, Nat)
  BY NatLessThanWellFounded DEF OpToRel, NatLt
<1>2. PICK x \in T : \A y \in T : ~ (<<y, x>> \in NatLt)
  BY <1>1, WFMin
<1>3. \A y \in T : ~ (y < x)
  BY <1>2 DEF NatLt
<1> QED
  BY <1>3

\* Every bounded set of naturals has a greatest element, and Max returns it.
LEMMA MaxBounded ==
    ASSUME NEW B \in Nat, NEW T \in SUBSET (0 .. B), T # {}
    PROVE  Max(T) \in T /\ \A y \in T : y <= Max(T)
<1> DEFINE D == {B - y : y \in T}
<1>1. D \in SUBSET Nat /\ D # {}
  <2>1. \A y \in T : B - y \in Nat
    OBVIOUS
  <2>2. \A d \in D : d \in Nat
    BY <2>1
  <2>3. PICK y \in T : TRUE
    OBVIOUS
  <2>4. B - y \in D
    BY <2>3
  <2> QED
    BY <2>2, <2>4
<1>2. PICK d \in D : \A e \in D : d <= e
  BY <1>1, NatMin
<1>3. PICK x \in T : d = B - x
  BY <1>2
<1>4. \A y \in T : y <= x
  <2> TAKE y \in T
  <2>1. B - x <= B - y
    BY <1>2, <1>3
  <2> QED
    BY <2>1
<1> QED
  BY <1>3, <1>4 DEF Max

\* Two numbers less than B apart leave different remainders modulo B.
LEMMA DistinctRemainders ==
    ASSUME NEW B \in Nat \ {0}, NEW a \in Nat, NEW b \in Nat, a < b, b < a + B
    PROVE  a % B # b % B
<1>1. a = B * (a \div B) + (a % B) /\ b = B * (b \div B) + (b % B)
  OBVIOUS
<1>2. a \div B \in Nat /\ b \div B \in Nat
  OBVIOUS
<1>3. SUFFICES ASSUME a % B = b % B
               PROVE  FALSE
  OBVIOUS
<1> DEFINE q == a \div B
           r == b \div B
<1>4. B * r - B * q = b - a
  BY <1>1, <1>3
<1>5. CASE r <= q
  <2>1. B * r <= B * q
    BY <1>2, <1>5
  <2> QED
    BY <1>4, <2>1
<1>6. CASE r > q
  <2>1. r >= q + 1
    BY <1>2, <1>6
  <2> HIDE DEF q, r
  <2>2. q \in Nat /\ r \in Nat
    BY <1>2 DEF q, r
  <2>3. B * r >= B * (q + 1)
    BY <2>1, <2>2
  <2>4. B * (q + 1) = B * q + B
    BY <2>2
  <2> QED
    BY <1>4, <2>2, <2>3, <2>4
<1> QED
  BY <1>2, <1>5, <1>6

\* Appending an element leaves the others where they are.
LEMMA AppendFacts ==
    ASSUME NEW S, NEW s \in Seq(S), NEW e
    PROVE  /\ Len(s) \in Nat /\ Len(Append(s, e)) = Len(s) + 1
           /\ Append(s, e)[Len(s) + 1] = e /\ Append(s, e) # <<>>
           /\ \A i \in 1 .. Len(s) : Append(s, e)[i] = s[i]
<1>1. s \in Seq(S \cup {e}) /\ e \in S \cup {e}
  OBVIOUS
<1>2. Len(Append(s, e)) = Len(s) + 1 /\ Len(s) \in Nat /\ Append(s, e)[Len(s) + 1] = e
  BY <1>1
<1>3. \A i \in 1 .. Len(s) : Append(s, e)[i] = s[i]
  BY <1>1
<1>4. Len(Append(s, e)) # 0
  BY <1>2
<1>5. Append(s, e) # <<>>
  <2> SUFFICES ASSUME Append(s, e) = <<>>
               PROVE  FALSE
    OBVIOUS
  <2>1. Len(<<>>) = 0
    OBVIOUS
  <2> QED
    BY <1>4, <2>1, Zenon
<1> QED
  BY <1>2, <1>3, <1>5

-----------------------------------------------------------------------------
\* Among finitely many slots with bounded lengths the search has a first
\* longest one.
LEMMA FirstLongest ==
    ASSUME NEW k \in Nat, NEW S \in SUBSET (1 .. k), S # {},
           NEW B \in Nat, NEW f, \A j \in S : f[j] \in 0 .. B
    PROVE  \E j \in S : \A i \in S : f[i] < f[j] \/ (f[i] = f[j] /\ j <= i)
<1> DEFINE L == {f[j] : j \in S}
<1>1. L \in SUBSET (0 .. B) /\ L # {}
  <2>1. PICK j \in S : TRUE
    OBVIOUS
  <2>2. f[j] \in L
    BY <2>1
  <2>3. \A y \in L : y \in 0 .. B
    OBVIOUS
  <2> QED
    BY <2>2, <2>3
<1>2. Max(L) \in L /\ \A y \in L : y <= Max(L)
  BY <1>1, MaxBounded
<1> DEFINE M == {j \in S : f[j] = Max(L)}
<1>3. M \in SUBSET Nat /\ M # {}
  <2>1. PICK j \in S : f[j] = Max(L)
    BY <1>2
  <2>2. j \in M
    BY <2>1
  <2>3. M \subseteq S /\ S \subseteq Nat
    OBVIOUS
  <2> QED
    BY <2>2, <2>3
<1>4. PICK j \in M : \A i \in M : j <= i
  BY <1>3, NatMin
<1>5. \A i \in S : f[i] < f[j] \/ (f[i] = f[j] /\ j <= i)
  <2> TAKE i \in S
  <2>1. f[i] \in Nat /\ f[j] \in Nat /\ f[i] <= f[j]
    BY <1>2, <1>4
  <2>2. f[i] = f[j] => j <= i
    BY <1>4
  <2> QED
    BY <2>1, <2>2
<1> QED
  BY <1>4, <1>5

\* elh_get returns 0 or an entry of the table that is near enough and whose
\* MINMATCH bytes are the ones sought.
LEMMA GetIsUsable ==
    ASSUME NEW ht \in HashTable, NEW seq, NEW cur, NEW k \in Slot,
           NEW ovf, NEW window, NEW same \in SUBSET Entries(ht),
           NEW B \in Nat, NEW length \in [same -> 0 .. B]
    PROVE  LET p == ElhGet(ht, seq, cur, k, ovf, window, same, length)
           IN  p = 0 \/ (p \in same /\ Near(cur, p, window))
<1> DEFINE p == ElhGet(ht, seq, cur, k, ovf, window, same, length)
           slot == ht.a1[Hash1(seq)]
           use  == Usable(ht, seq, cur, k, window, same)
           over == ht.a2[Hash2(seq)]
           best == CHOOSE j \in use :
                     \A i \in use : \/ length[slot[i]] < length[slot[j]]
                                    \/ /\ length[slot[i]] = length[slot[j]]
                                       /\ j <= i
<1>1. p = IF use # {} THEN slot[best]
          ELSE IF ovf /\ Near(cur, over, window) /\ over \in same THEN over ELSE 0
  BY DEF ElhGet
<1>2. \A j \in use : j \in 1 .. k /\ Near(cur, slot[j], window) /\ slot[j] \in same
  BY DEF Usable
<1>3. CASE use # {}
  <2> DEFINE f == [j \in use |-> length[slot[j]]]
  <2>1. \A j \in use : f[j] \in 0 .. B
    BY <1>2
  <2>2. k \in Nat /\ use \in SUBSET (1 .. k)
    BY <1>2, TableAssumption DEF Slot
  <2> HIDE DEF use
  <2>3. \E j \in use : \A i \in use : f[i] < f[j] \/ (f[i] = f[j] /\ j <= i)
    <3> HIDE DEF f
    <3> QED
      BY <1>3, <2>1, <2>2, FirstLongest
  <2>4. best \in use
    BY <2>3
  <2> QED
    BY <1>1, <1>2, <1>3, <2>4
<1>4. CASE use = {}
  BY <1>1, <1>4
<1> QED
  BY <1>3, <1>4

\* An insertion keeps the table well formed and adds no entry but pos.
LEMMA PutType ==
    ASSUME NEW ht \in HashTable, NEW seq, NEW pos \in Pos, NEW k \in Slot,
           Hash1(seq) \in Bucket1, Hash2(seq) \in Bucket2
    PROVE  /\ ElhPut(ht, seq, pos, k) \in HashTable
           /\ Entries(ElhPut(ht, seq, pos, k)) \subseteq Entries(ht) \cup {pos}
<1> DEFINE h1 == Hash1(seq)
           row == [j \in Slot |-> IF j = 1 THEN pos
                                  ELSE IF j <= k THEN ht.a1[h1][j - 1] ELSE ht.a1[h1][j]]
           new == ElhPut(ht, seq, pos, k)
<1>1. \A b \in Bucket1 : \A j \in Slot : ht.a1[b][j] \in Pos
  BY DEF HashTable
<1>2. \A j \in Slot : j # 1 => j - 1 \in Slot
  BY TableAssumption DEF Slot
<1>3. Evicted(ht, seq, k) = ht.a1[h1][k]
  BY DEF Evicted
<1>4. /\ new.a1 = [ht.a1 EXCEPT ![h1] = row]
      /\ new.a2 = IF ht.a1[h1][k] # 0 THEN [ht.a2 EXCEPT ![Hash2(seq)] = ht.a1[h1][k]]
                  ELSE ht.a2
      /\ new = [a1 |-> new.a1, a2 |-> new.a2]
  BY <1>3 DEF ElhPut
<1>5. row \in [Slot -> Pos]
  BY <1>1, <1>2
<1>6. new.a1 \in [Bucket1 -> [Slot -> Pos]]
  BY <1>4, <1>5 DEF HashTable
<1>7. new.a2 \in [Bucket2 -> Pos]
  BY <1>1, <1>4 DEF HashTable
<1>8. \A j \in Slot : row[j] = pos \/ \E i \in Slot : row[j] = ht.a1[h1][i]
  BY <1>2
<1>9. \A b \in Bucket1, j \in Slot :
        new.a1[b][j] \in {ht.a1[c][i] : c \in Bucket1, i \in Slot} \cup {pos}
  <2> TAKE b \in Bucket1, j \in Slot
  <2>1. CASE b = h1
    <3>1. new.a1[b][j] = row[j]
      BY <1>4, <2>1 DEF HashTable
    <3> QED
      BY <1>8, <3>1
  <2>2. CASE b # h1
    BY <1>4, <2>2 DEF HashTable
  <2> QED
    BY <2>1, <2>2
<1>10. \A b \in Bucket2 :
        new.a2[b] \in {ht.a1[c][i] : c \in Bucket1, i \in Slot}
                      \cup {ht.a2[c] : c \in Bucket2}
  BY <1>4 DEF HashTable
<1> HIDE DEF new, row
<1>11. new \in HashTable
  BY <1>4, <1>6, <1>7 DEF HashTable
<1>12. Entries(new) \subseteq Entries(ht) \cup {pos}
  BY <1>9, <1>10 DEF Entries
<1> QED
  BY <1>11, <1>12 DEF new

LEMMA EmptyTableType == EmptyTable \in HashTable /\ Entries(EmptyTable) = {}
<1>1. 0 \in Pos
  BY TableAssumption DEF Pos
<1> QED
  BY <1>1 DEF EmptyTable, HashTable, Entries

-----------------------------------------------------------------------------
\* The depth stays between 1 and BucketMax, and the counters stay naturals.
LEMMA DepthType ==
    /\ \A b \in Int : InitialDepth(b) \in Slot
    /\ \A k \in Slot, e \in Nat : NextDepth(k, e) \in Slot
  BY TableAssumption DEF InitialDepth, NextDepth, Slot

LEMMA AdaptationType ==
    ASSUME NEW a \in Adaptation
    PROVE  /\ CountProbe(a) \in Adaptation
           /\ \A n \in Nat : CountEvictions(a, n) \in Adaptation
<1>1. NextDepth(a.k, a.evict) \in Slot
  BY DepthType DEF Adaptation
<1> DEFINE up   == [a EXCEPT !.count = @ + 1]
           next == [a EXCEPT !.k = NextDepth(a.k, a.evict), !.count = 0, !.evict = 0]
<1>2. CountProbe(a) \in Adaptation
  <2>1. up \in Adaptation
    BY DEF Adaptation
  <2>2. next \in Adaptation
    BY <1>1 DEF Adaptation
  <2>3. CountProbe(a) \in {a, up, next}
    BY Zenon DEF CountProbe
  <2> HIDE DEF up, next
  <2> QED
    BY <2>1, <2>2, <2>3
<1>3. \A n \in Nat : CountEvictions(a, n) \in Adaptation
  BY DEF CountEvictions, Adaptation
<1> QED
  BY <1>2, <1>3

LEMMA EvictionsType ==
    \A ht, seq, k : Evictions(ht, seq, k) \in Nat
  BY DEF Evictions
=============================================================================
