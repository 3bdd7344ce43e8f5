--------------------------- MODULE ElhFrameProofs ---------------------------
(***************************************************************************)
(* For every size of the headers and the chunks, every input and every     *)
(* damage: what the decoder accepts is the input.                          *)
(*                                                                         *)
(* The chunks written follow each other without a gap, in the input and in *)
(* the frame, and only the last may be short (Layout).  The decoder keeps  *)
(* in step with them up to a lost or repeated chunk; behind it, the bytes  *)
(* it has written and the bytes it has read are off by exactly that chunk, *)
(* so that the two ends can no longer be reached together (Progress).      *)
(* With the room that the bound grants (RoomInv) this is the contract of   *)
(* LosslessFrame.                                                          *)
(***************************************************************************)
EXTENDS ElhFrame, SequenceTheorems, TLAPS

\* Where chunk j begins, in the frame and in the input; the chunk after the
\* last begins at the end.
At(j) == IF j <= Len(chunks) THEN chunks[j].at ELSE op
From(j) == IF j <= Len(chunks) THEN chunks[j].from ELSE pos

Began == pc \notin {"start", "refused"}
Wrote == pc \in {"frame", "decode", "rejected", "decoded"}

Layout ==
    /\ Began => At(1) = Header /\ op >= Header
    /\ ~ Began => chunks = <<>> /\ op = 0
    /\ From(1) = 0
    /\ \A j \in 1 .. Len(chunks) :
        /\ chunks[j].raw \in 1 .. size
        /\ chunks[j].comp > 0
        /\ chunks[j].isRaw => chunks[j].comp = chunks[j].raw
        /\ From(j + 1) = chunks[j].from + chunks[j].raw
        /\ At(j + 1) = chunks[j].at + ChunkHeader + chunks[j].comp
        /\ From(j + 1) <= pos /\ At(j + 1) <= op
        /\ j < Len(chunks) => chunks[j].raw = size
    /\ pos < n => \A j \in 1 .. Len(chunks) : chunks[j].raw = size
    /\ Wrote => pos = n
    /\ ~ Wrote => damage = Whole
    /\ pc \in {"start", "refused", "chunk", "failed", "frame"} => ci = 1 /\ out = <<>>

\* What a damage says of the frame.
DamageOK ==
    /\ damage.kind = "none" => damage = Whole
    /\ damage.kind = "cut" => damage.to < op
    /\ damage.kind = "trail" => damage.to > 0
    /\ damage.kind = "original" => damage.to # n
    /\ damage.kind \in {"lost", "repeated", "reserved", "rawsize"} =>
        damage.chunk \in 1 .. Len(chunks)
    /\ damage.kind = "rawsize" => damage.to # chunks[damage.chunk].raw

\* No chunk has been lost or repeated on the way to chunk ci.
InStep == damage.kind \in {"lost", "repeated"} => ci <= damage.chunk

Progress ==
    /\ damage.kind # "form"
    /\ Recorded <= dcap
    /\ Len(out) <= dcap
    /\ ci > 0
    /\ InStep => /\ ci <= Len(chunks) + 1
                 /\ ip = At(ci)
                 /\ out = [j \in 1 .. From(ci) |-> j]
    /\ damage.kind \in {"reserved", "rawsize"} => ci <= damage.chunk
    /\ damage.kind = "lost" /\ ~ InStep =>
        /\ ci <= Len(chunks)
        /\ Len(out) = From(ci + 1) - chunks[damage.chunk].raw
        /\ ip = At(ci + 1) - Extent(damage.chunk)
    /\ damage.kind = "repeated" /\ ~ InStep =>
        /\ ci <= Len(chunks) + 1
        /\ Len(out) = From(ci - 1) + chunks[damage.chunk].raw
        /\ ip = At(ci - 1) + Extent(damage.chunk)

FrameInv ==
    /\ TypeOK
    /\ Layout
    /\ DamageOK
    /\ pc = "decode" => Progress
    /\ Lossless
    /\ FailsOnlyForRoom
    /\ DamageRejected
    /\ RecordedSizeIsExact

-----------------------------------------------------------------------------
\* The smaller of two integers.
LEMMA MinOfTwo ==
    ASSUME NEW a \in Int, NEW b \in Int
    PROVE  Min({a, b}) = IF a <= b THEN a ELSE b
  <1> DEFINE m == IF a <= b THEN a ELSE b
  <1>1. m \in {a, b} /\ \A y \in {a, b} : m <= y
    OBVIOUS
  <1>2. \A x \in {a, b} : (\A y \in {a, b} : x <= y) => x = m
    OBVIOUS
  <1>3. QED
    BY <1>1, <1>2 DEF Min

\* A chunk is never empty and never larger than the chunk size.
LEMMA RawSizeValue ==
    ASSUME FrameAssumption, TypeOK, pos < n
    PROVE  /\ RawSize \in 1 .. size
           /\ RawSize <= n - pos
           /\ RawSize < n - pos => RawSize = size
  <1>1. n - pos \in Nat \ {0} /\ size \in Nat \ {0}
    BY DEF TypeOK, FrameAssumption
  <1>2. RawSize = IF n - pos <= size THEN n - pos ELSE size
    BY <1>1, MinOfTwo DEF RawSize
  <1>3. QED
    BY <1>1, <1>2

LEMMA NormSize ==
    ASSUME FrameAssumption, NEW c \in ChunkSizes
    PROVE  NormChunkSize(c) \in 1 .. MaxChunk
  BY DEF FrameAssumption, NormChunkSize

\* The bound is an integer, whatever its sums wrap to.
LEMMA FrameBoundInt ==
    ASSUME FrameAssumption, NEW s \in Nat, NEW c \in 1 .. MaxChunk
    PROVE  FrameBound(s, c) \in Int
  <1>1. \A x \in Int : ToInt(x) \in Int
    BY DEF ToInt, FrameAssumption
  <1>2. \A x \in Int : CDiv(x, c) \in Int
    BY DEF CDiv
  <1>3. s + c - 1 \in Int /\ ChunkHeader + BlockBound(c) \in Int /\ Header \in Int
    BY DEF FrameAssumption
  <1>4. CDiv(ToInt(s + c - 1), c) \in Int
    BY <1>1, <1>2, <1>3
  <1> DEFINE a == CDiv(ToInt(s + c - 1), c)
             b == ChunkHeader + BlockBound(c)
  <1>5. a \in Int /\ b \in Int
    BY <1>3, <1>4
  <1> HIDE DEF a, b
  <1>6. Header + a * b \in Int
    BY <1>3, <1>5
  <1>7. QED
    BY <1>1, <1>3, <1>6 DEF FrameBound, a, b

LEMMA InitFrame == FrameAssumption /\ Init => FrameInv
  <1> SUFFICES ASSUME FrameAssumption, Init PROVE FrameInv
    OBVIOUS
  <1>1. n \in Nat /\ size \in 1 .. MaxChunk
    BY NormSize DEF Init, FrameAssumption
  <1>2. cap \in Int
    BY <1>1, FrameBoundInt DEF Init, FrameAssumption
  <1>3. TypeOK
    BY <1>1, <1>2 DEF Init, TypeOK, Whole
  <1>4. Layout /\ DamageOK
    BY <1>1 DEF Init, Layout, DamageOK, Began, Wrote, At, From, Whole
  <1>5. QED
    BY <1>3, <1>4 DEF Init, FrameInv, Lossless, FailsOnlyForRoom, DamageRejected,
       RecordedSizeIsExact
-----------------------------------------------------------------------------
(***************************************************************************)
(* The encoder's steps.                                                    *)
(***************************************************************************)
LEMMA EncBeginFrame ==
    ASSUME FrameAssumption, FrameInv, EncBegin PROVE FrameInv'
  <1>1. Header \in Nat /\ op \in Nat /\ pc = "start"
    BY DEF FrameInv, TypeOK, FrameAssumption, EncBegin
  <1>2. chunks = <<>> /\ op = 0 /\ damage = Whole
    BY <1>1 DEF FrameInv, Layout, Began, Wrote
  <1>3. TypeOK'
    BY <1>1 DEF FrameInv, TypeOK, EncBegin, input, frame, decoder
  <1>4. Len(chunks) = 0 /\ UNCHANGED <<n, size, pos, chunks, damage, ci, out>>
    BY <1>2 DEF EncBegin, input, frame, decoder
  <1>5. At(1)' = op' /\ From(1)' = pos /\ From(1) = pos
    BY <1>4 DEF At, From
  <1>6. Layout'
    <2>1. CASE pc' = "refused" /\ UNCHANGED op
      BY <2>1, <1>1, <1>2, <1>4, <1>5 DEF FrameInv, Layout, Began, Wrote
    <2>2. CASE pc' = "chunk" /\ op' = Header
      BY <2>2, <1>1, <1>2, <1>4, <1>5 DEF FrameInv, Layout, Began, Wrote
    <2>3. QED
      BY <2>1, <2>2 DEF EncBegin
  <1>7. DamageOK'
    BY <1>2, <1>4 DEF DamageOK, Whole
  <1>8. QED
    BY <1>3, <1>6, <1>7 DEF FrameInv, EncBegin, Lossless, FailsOnlyForRoom, DamageRejected,
       RecordedSizeIsExact

\* The chunk appended is well formed and follows the last.
LEMMA EncChunkFrame ==
    ASSUME FrameAssumption, FrameInv, EncChunk PROVE FrameInv'
  <1>1. /\ TypeOK /\ Layout /\ DamageOK /\ pc = "chunk" /\ pos < n
        /\ UNCHANGED <<input, damage, decoder>>
    BY DEF FrameInv, EncChunk
  <1>2. CASE pc' = "failed" /\ UNCHANGED <<chunks, op, pos>>
    <2>1. TypeOK'
      BY <1>1, <1>2 DEF TypeOK, input, decoder
    <2>2. Layout' /\ DamageOK'
      BY <1>1, <1>2 DEF Layout, DamageOK, Began, Wrote, At, From, input, decoder
    <2>3. QED
      BY <1>2, <2>1, <2>2 DEF FrameInv, Lossless, FailsOnlyForRoom, DamageRejected,
         RecordedSizeIsExact
  <1>3. ASSUME NEW comp \in Outcomes,
               chunks' = Append(chunks, Stored(StoredRaw(comp), comp)),
               op' = op + ChunkHeader + Stored(StoredRaw(comp), comp).comp,
               pos' = pos + RawSize,
               pc' = pc
        PROVE FrameInv'
    <2> DEFINE c == Stored(StoredRaw(comp), comp)
    <2>1. /\ n \in Nat /\ pos \in Nat /\ op \in Nat /\ size \in Nat
          /\ RawSize \in 1 .. size /\ RawSize <= n - pos
          /\ RawSize < n - pos => RawSize = size
          /\ ChunkHeader \in Nat
      BY <1>1, RawSizeValue DEF TypeOK, FrameAssumption
    <2>2. StoredRaw(comp) \/ comp \in Nat \ {0}
      <3>1. BlockBound(RawSize) \in Nat
        BY <1>1, <2>1 DEF TypeOK, FrameAssumption
      <3>2. QED
        BY <3>1 DEF Outcomes, StoredRaw
    <2>3. /\ c \in ChunkType
          /\ c.from = pos /\ c.raw = RawSize /\ c.at = op /\ c.comp > 0
          /\ c.isRaw => c.comp = c.raw
      <3>1. StoredRaw(comp) \in BOOLEAN
        BY <1>1 DEF StoredRaw, TypeOK
      <3>2. CASE StoredRaw(comp)
        BY <2>1, <3>1, <3>2 DEF Stored, ChunkType
      <3>3. CASE ~ StoredRaw(comp)
        BY <2>1, <2>2, <3>1, <3>3 DEF Stored, ChunkType
      <3>4. QED
        BY <3>2, <3>3
    <2> HIDE DEF c
    <2>4. chunks \in Seq(ChunkType) /\ Len(chunks) \in Nat
      BY <1>1 DEF TypeOK
    <2>41. PICK L \in Nat : L = Len(chunks)
      BY <2>4
    <2>5. /\ chunks' \in Seq(ChunkType) /\ Len(chunks') = L + 1 /\ chunks'[L + 1] = c
          /\ \A j \in 1 .. L : chunks'[j] = chunks[j]
      BY <1>3, <2>3, <2>4, <2>41 DEF c
    <2>6. c.comp \in Nat /\ c.raw \in Nat
      BY <2>3 DEF ChunkType
    <2>7. op' = (op + ChunkHeader) + c.comp /\ op' \in Nat /\ pos' = pos + c.raw
      BY <1>3, <2>1, <2>3, <2>6 DEF c
    <2>8. TypeOK'
      <3>1. pos' \in 0 .. n /\ op' \in Nat /\ chunks' \in Seq(ChunkType)
        BY <2>1, <2>3, <2>5, <2>7
      <3>2. QED
        BY <1>1, <1>3, <3>1 DEF TypeOK, input, decoder
    <2>9. /\ \A j \in 1 .. L : At(j)' = chunks[j].at /\ From(j)' = chunks[j].from
          /\ At(L + 1)' = op /\ From(L + 1)' = pos
          /\ At(L + 2)' = op' /\ From(L + 2)' = pos'
      <3>1. \A j \in 1 .. L + 1 : At(j)' = chunks'[j].at /\ From(j)' = chunks'[j].from
        BY <2>41, <2>5 DEF At, From
      <3>2. At(L + 2)' = op' /\ From(L + 2)' = pos'
        BY <2>41, <2>5 DEF At, From
      <3>3. L + 1 \in 1 .. L + 1 /\ \A j \in 1 .. L : j \in 1 .. L + 1
        BY <2>41
      <3>4. QED
        BY <3>1, <3>2, <3>3, <2>3, <2>5
    <2>10. /\ \A j \in 1 .. L : At(j) = chunks[j].at /\ From(j) = chunks[j].from
           /\ At(L + 1) = op /\ From(L + 1) = pos
      BY <2>41 DEF At, From
    <2>11. \A j \in 1 .. L + 1 : At(j)' = At(j) /\ From(j)' = From(j)
      <3>1. \A j \in 1 .. L + 1 : j \in 1 .. L \/ j = L + 1
        BY <2>41
      <3>2. QED
        BY <3>1, <2>9, <2>10
    <2>12. Layout'
      <3>1. /\ At(1) = Header /\ op >= Header /\ From(1) = 0 /\ ci = 1 /\ out = <<>>
            /\ damage = Whole
        BY <1>1 DEF Layout, Began, Wrote
      <3>2. \A j \in 1 .. L :
              /\ chunks[j].raw = size
              /\ chunks[j].comp > 0
              /\ chunks[j].isRaw => chunks[j].comp = chunks[j].raw
              /\ From(j + 1) = chunks[j].from + chunks[j].raw
              /\ At(j + 1) = chunks[j].at + ChunkHeader + chunks[j].comp
              /\ From(j + 1) <= pos /\ At(j + 1) <= op
        BY <1>1, <2>41 DEF Layout
      <3>3. \A j \in 1 .. L : From(j + 1) \in Nat /\ At(j + 1) \in Nat
        <4>1. \A j \in 1 .. L + 1 : From(j) \in Nat /\ At(j) \in Nat
          <5>1. \A j \in 1 .. L : chunks[j] \in ChunkType
            BY <2>4, <2>41
          <5>2. \A j \in 1 .. L : chunks[j].at \in Nat /\ chunks[j].from \in Nat
            BY <5>1 DEF ChunkType
          <5>3. \A j \in 1 .. L + 1 : j \in 1 .. L \/ j = L + 1
            BY <2>41
          <5>4. QED
            BY <5>2, <5>3, <2>1, <2>10
        <4>2. QED
          BY <4>1, <2>41
      <3>4. \A j \in 1 .. L :
              /\ From(j + 1)' = chunks'[j].from + chunks'[j].raw
              /\ At(j + 1)' = chunks'[j].at + ChunkHeader + chunks'[j].comp
              /\ From(j + 1)' <= pos' /\ At(j + 1)' <= op'
              /\ chunks'[j].raw = size
              /\ chunks'[j].comp > 0
              /\ chunks'[j].isRaw => chunks'[j].comp = chunks'[j].raw
        <4> SUFFICES ASSUME NEW j \in 1 .. L
                     PROVE  /\ From(j + 1)' = chunks'[j].from + chunks'[j].raw
                            /\ At(j + 1)' = chunks'[j].at + ChunkHeader + chunks'[j].comp
                            /\ From(j + 1)' <= pos' /\ At(j + 1)' <= op'
                            /\ chunks'[j].raw = size
                            /\ chunks'[j].comp > 0
                            /\ chunks'[j].isRaw => chunks'[j].comp = chunks'[j].raw
          OBVIOUS
        <4>1. From(j + 1)' = From(j + 1) /\ At(j + 1)' = At(j + 1)
          <5>1. j + 1 \in 1 .. L + 1
            BY <2>41
          <5>2. QED
            BY <5>1, <2>11
        <4>2. chunks'[j] = chunks[j]
          BY <2>5
        <4>3. From(j + 1) \in Nat /\ At(j + 1) \in Nat
          BY <3>3
        <4>4. QED
          BY <4>1, <4>2, <4>3, <3>2, <2>1, <2>6, <2>7
      <3>5. /\ From(L + 2)' = chunks'[L + 1].from + chunks'[L + 1].raw
            /\ At(L + 2)' = chunks'[L + 1].at + ChunkHeader + chunks'[L + 1].comp
            /\ From(L + 2)' <= pos' /\ At(L + 2)' <= op'
            /\ chunks'[L + 1].raw \in 1 .. size
            /\ chunks'[L + 1].comp > 0
            /\ chunks'[L + 1].isRaw => chunks'[L + 1].comp = chunks'[L + 1].raw
        <4>1. /\ pos' = c.from + c.raw /\ op' = c.at + ChunkHeader + c.comp
              /\ pos' <= pos' /\ op' <= op'
          BY <2>1, <2>3, <2>6, <2>7
        <4>2. c.raw \in 1 .. size /\ c.comp > 0 /\ (c.isRaw => c.comp = c.raw)
          BY <2>1, <2>3
        <4>3. chunks'[L + 1] = c /\ At(L + 2)' = op' /\ From(L + 2)' = pos'
          BY <2>5, <2>9
        <4>4. QED
          BY <4>1, <4>2, <4>3
      <3>6. \A j \in 1 .. Len(chunks') :
              /\ chunks'[j].raw \in 1 .. size
              /\ chunks'[j].comp > 0
              /\ chunks'[j].isRaw => chunks'[j].comp = chunks'[j].raw
              /\ From(j + 1)' = chunks'[j].from + chunks'[j].raw
              /\ At(j + 1)' = chunks'[j].at + ChunkHeader + chunks'[j].comp
              /\ From(j + 1)' <= pos' /\ At(j + 1)' <= op'
              /\ j < Len(chunks') => chunks'[j].raw = size
        <4> SUFFICES ASSUME NEW j \in 1 .. Len(chunks')
                     PROVE  /\ chunks'[j].raw \in 1 .. size
                            /\ chunks'[j].comp > 0
                            /\ chunks'[j].isRaw => chunks'[j].comp = chunks'[j].raw
                            /\ From(j + 1)' = chunks'[j].from + chunks'[j].raw
                            /\ At(j + 1)' = chunks'[j].at + ChunkHeader + chunks'[j].comp
                            /\ From(j + 1)' <= pos' /\ At(j + 1)' <= op'
                            /\ j < Len(chunks') => chunks'[j].raw = size
          OBVIOUS
        <4>1. CASE j \in 1 .. L
          <5>1. chunks'[j].raw = size /\ size \in 1 .. size
            BY <3>4, <4>1, <2>1
          <5>2. QED
            BY <5>1, <3>4, <4>1
        <4>2. CASE j = L + 1
          <5>1. j + 1 = L + 2 /\ ~ (j < Len(chunks'))
            BY <2>41, <2>5, <4>2
          <5>2. From(j + 1)' = From(L + 2)' /\ At(j + 1)' = At(L + 2)'
            BY <5>1
          <5>3. chunks'[j] = chunks'[L + 1]
            BY <4>2
          <5>4. QED
            BY <3>5, <5>1, <5>2, <5>3
        <4>3. QED
          BY <4>1, <4>2, <2>41, <2>5
      <3>7. pos' < n' => \A j \in 1 .. Len(chunks') : chunks'[j].raw = size
        <4>1. pos' < n' => c.raw = size
          BY <1>1, <2>1, <2>3, <2>6, <2>7 DEF input
        <4>2. QED
          BY <4>1, <3>4, <2>41, <2>5
      <3>8. At(1)' = Header /\ From(1)' = 0 /\ op' >= Header
        <4>1. 1 \in 1 .. L + 1
          BY <2>41
        <4>2. QED
          BY <4>1, <3>1, <2>11, <2>1, <2>6, <2>7 DEF FrameAssumption
      <3>9. QED
        BY <1>1, <1>3, <3>1, <3>6, <3>7, <3>8 DEF Layout, Began, Wrote, input, decoder
    <2>13. DamageOK'
      BY <1>1 DEF DamageOK, Layout, Wrote, Whole
    <2>14. QED
      BY <1>1, <1>3, <2>8, <2>12, <2>13 DEF FrameInv, Lossless, FailsOnlyForRoom,
         DamageRejected, RecordedSizeIsExact
  <1>4. QED
    BY <1>2, <1>3 DEF EncChunk

LEMMA EncReturnFrame ==
    ASSUME FrameAssumption, FrameInv, EncReturn PROVE FrameInv'
  <1>1. TypeOK /\ Layout /\ DamageOK
    BY DEF FrameInv
  <1>2. TypeOK'
    BY <1>1 DEF TypeOK, EncReturn, input, frame, decoder
  <1>3. pos = n /\ ci = 1 /\ out = <<>>
    BY <1>1 DEF TypeOK, Layout, EncReturn, FrameAssumption
  <1>4. Layout' /\ DamageOK'
    BY <1>1, <1>3 DEF Layout, DamageOK, Began, Wrote, At, From, EncReturn,
       input, frame, decoder
  <1>5. QED
    BY <1>2, <1>4 DEF FrameInv, EncReturn, Lossless, FailsOnlyForRoom, DamageRejected,
       RecordedSizeIsExact

LEMMA DamageFrame ==
    ASSUME FrameAssumption, FrameInv, Damage PROVE FrameInv'
  <1>1. /\ TypeOK /\ Layout /\ pc = "frame"
        /\ UNCHANGED <<input, op, pos, chunks, decoder, pc>>
    BY DEF FrameInv, Damage
  <1> DEFINE Good(kind, i, x) ==
                /\ kind \in Damages /\ i \in Nat /\ x \in Nat
                /\ kind # "none"
                /\ damage' = [kind |-> kind, chunk |-> i, to |-> x]
                /\ kind = "cut" => x < op
                /\ kind = "trail" => x > 0
                /\ kind = "original" => x # n
                /\ kind \in {"lost", "repeated", "reserved", "rawsize"} =>
                    i \in 1 .. Len(chunks)
                /\ kind = "rawsize" => x # chunks[i].raw
  <1>2. \E kind, i, x : Good(kind, i, x)
    <2>1. /\ op \in Nat /\ Fields \subseteq Nat
          /\ DOMAIN chunks = 1 .. Len(chunks) /\ Len(chunks) \in Nat
      BY <1>1 DEF TypeOK, FrameAssumption
    <2>2. ASSUME NEW x \in 0 .. op - 1, Hurt("cut", 0, x) PROVE Good("cut", 0, x)
      BY <2>1, <2>2 DEF Hurt
    <2>3. ASSUME NEW x \in Fields \ {0}, Hurt("trail", 0, x) PROVE Good("trail", 0, x)
      BY <2>1, <2>3 DEF Hurt
    <2>4. ASSUME Hurt("form", 0, 0) PROVE Good("form", 0, 0)
      BY <2>4 DEF Hurt
    <2>5. ASSUME NEW x \in Fields \ {n}, Hurt("original", 0, x) PROVE Good("original", 0, x)
      BY <2>1, <2>5 DEF Hurt
    <2>6. ASSUME NEW i \in DOMAIN chunks, NEW kind \in {"lost", "repeated", "reserved"},
                 Hurt(kind, i, 0)
          PROVE  Good(kind, i, 0)
      BY <2>1, <2>6 DEF Hurt
    <2>7. ASSUME NEW i \in DOMAIN chunks, NEW x \in Fields, x # chunks[i].raw,
                 Hurt("rawsize", i, x)
          PROVE  Good("rawsize", i, x)
      <3>1. x \in Nat /\ x # chunks[i].raw
        BY <2>1, <2>7
      <3>2. i \in Nat /\ i \in 1 .. Len(chunks)
        BY <2>1
      <3>3. "rawsize" \in Damages /\ damage' = [kind |-> "rawsize", chunk |-> i, to |-> x]
        BY <2>7 DEF Hurt
      <3>4. QED
        BY <3>1, <3>2, <3>3
    <2> HIDE DEF Good
    <2>8. QED
      BY <2>2, <2>3, <2>4, <2>5, <2>6, <2>7, Zenon DEF Damage
  <1>21. PICK kind, i, x : Good(kind, i, x)
    BY <1>2
  <1>3. TypeOK'
    BY <1>1, <1>21 DEF TypeOK, input, decoder
  <1>4. Layout'
    BY <1>1 DEF Layout, Began, Wrote, At, From, input, decoder
  <1>5. DamageOK'
    BY <1>1, <1>21 DEF DamageOK, input
  <1>6. QED
    BY <1>1, <1>3, <1>4, <1>5 DEF FrameInv, Lossless, FailsOnlyForRoom, DamageRejected,
       RecordedSizeIsExact
-----------------------------------------------------------------------------
(***************************************************************************)
(* The decoder's steps.                                                    *)
(***************************************************************************)
\* The chunks tile the input and the frame.
LEMMA Tiling ==
    ASSUME FrameAssumption, TypeOK, Layout, Wrote
    PROVE  /\ Len(chunks) \in Nat /\ n \in Nat /\ op \in Nat
           /\ At(1) = Header /\ From(1) = 0 /\ Header <= op
           /\ At(Len(chunks) + 1) = op /\ From(Len(chunks) + 1) = n
           /\ \A j \in 1 .. Len(chunks) + 1 : At(j) \in Nat /\ From(j) \in Nat
           /\ \A j \in 1 .. Len(chunks) :
                /\ At(j) = chunks[j].at /\ From(j) = chunks[j].from
                /\ chunks[j].comp \in Nat \ {0}
                /\ chunks[j].raw \in Nat \ {0} /\ chunks[j].raw <= size
                /\ chunks[j].isRaw => chunks[j].comp = chunks[j].raw
                /\ Extent(j) = ChunkHeader + chunks[j].comp /\ Extent(j) \in Nat \ {0}
                /\ At(j + 1) = At(j) + Extent(j) /\ At(j + 1) <= op
                /\ From(j + 1) = From(j) + chunks[j].raw /\ From(j + 1) <= n
                /\ j < Len(chunks) => chunks[j].raw = size
  <1>1. /\ Len(chunks) \in Nat /\ n \in Nat /\ op \in Nat /\ pos = n /\ size \in Nat
        /\ ChunkHeader \in Nat \ {0} /\ Began
    BY DEF TypeOK, FrameAssumption, Layout, Wrote, Began
  <1>2. At(1) = Header /\ From(1) = 0 /\ Header <= op
    BY <1>1 DEF Layout, FrameAssumption
  <1>3. At(Len(chunks) + 1) = op /\ From(Len(chunks) + 1) = n
    BY <1>1 DEF At, From
  <1>4. \A j \in 1 .. Len(chunks) :
            /\ chunks[j].at \in Nat /\ chunks[j].from \in Nat
            /\ chunks[j].comp \in Nat /\ chunks[j].raw \in Nat
    <2>1. \A j \in 1 .. Len(chunks) : chunks[j] \in ChunkType
      BY <1>1 DEF TypeOK
    <2>2. QED
      BY <2>1 DEF ChunkType
  <1>5. \A j \in 1 .. Len(chunks) : At(j) = chunks[j].at /\ From(j) = chunks[j].from
    BY <1>1 DEF At, From
  <1>6. \A j \in 1 .. Len(chunks) + 1 : At(j) \in Nat /\ From(j) \in Nat
    <2>1. \A j \in 1 .. Len(chunks) + 1 : j \in 1 .. Len(chunks) \/ j = Len(chunks) + 1
      BY <1>1
    <2>2. QED
      BY <2>1, <1>1, <1>3, <1>4, <1>5
  <1>7. \A j \in 1 .. Len(chunks) :
            /\ chunks[j].raw \in 1 .. size
            /\ chunks[j].comp > 0
            /\ chunks[j].isRaw => chunks[j].comp = chunks[j].raw
            /\ From(j + 1) = chunks[j].from + chunks[j].raw
            /\ At(j + 1) = chunks[j].at + ChunkHeader + chunks[j].comp
            /\ From(j + 1) <= pos /\ At(j + 1) <= op
            /\ j < Len(chunks) => chunks[j].raw = size
    BY DEF Layout
  <1>8. ASSUME NEW j \in 1 .. Len(chunks)
        PROVE  /\ chunks[j].comp \in Nat \ {0}
               /\ chunks[j].raw \in Nat \ {0} /\ chunks[j].raw <= size
               /\ Extent(j) = ChunkHeader + chunks[j].comp /\ Extent(j) \in Nat \ {0}
               /\ At(j + 1) = At(j) + Extent(j) /\ At(j + 1) <= op
               /\ From(j + 1) = From(j) + chunks[j].raw /\ From(j + 1) <= n
    <2>1. Extent(j) = ChunkHeader + chunks[j].comp
      BY DEF Extent
    <2>2. QED
      <3>1. /\ chunks[j].comp \in Nat /\ chunks[j].raw \in Nat /\ At(j) \in Nat
            /\ At(j) = chunks[j].at /\ From(j) = chunks[j].from
            /\ ChunkHeader \in Nat \ {0} /\ pos = n
        BY <1>1, <1>4, <1>5
      <3>2. /\ chunks[j].raw \in 1 .. size /\ chunks[j].comp > 0
            /\ From(j + 1) = chunks[j].from + chunks[j].raw
            /\ At(j + 1) = chunks[j].at + ChunkHeader + chunks[j].comp
            /\ From(j + 1) <= pos /\ At(j + 1) <= op
        BY <1>7
      <3>3. QED
        BY <2>1, <3>1, <3>2
  <1>9. QED
    BY <1>1, <1>2, <1>3, <1>5, <1>6, <1>7, <1>8

\* The positions 1 to f, and r more.
LEMMA Extend ==
    ASSUME NEW f \in Nat, NEW r \in Nat
    PROVE  [j \in 1 .. f |-> j] \o [j \in 1 .. r |-> f + j] = [j \in 1 .. f + r |-> j]
  <1> DEFINE a == [j \in 1 .. f |-> j]
             b == [j \in 1 .. r |-> f + j]
             w == [j \in 1 .. f + r |-> j]
  <1>1. a \in Seq(Nat) /\ b \in Seq(Nat) /\ w \in Seq(Nat)
    OBVIOUS
  <1>2. Len(a) = f /\ Len(b) = r /\ Len(w) = f + r
    OBVIOUS
  <1>3. (a \o b) \in Seq(Nat) /\ Len(a \o b) = f + r
    BY <1>1, <1>2
  <1>4. \A j \in 1 .. f + r : (a \o b)[j] = w[j]
    BY <1>1, <1>2
  <1> HIDE DEF a, b, w
  <1>5. a \o b = w
    BY <1>1, <1>2, <1>3, <1>4, SeqEqual
  <1>6. QED
    BY <1>5 DEF a, b, w

LEMMA DecBeginFrame ==
    ASSUME FrameAssumption, FrameInv, NEW c \in Capacities, DecBegin(c)
    PROVE  FrameInv'
  <1>1. /\ TypeOK /\ Layout /\ DamageOK /\ pc = "frame" /\ Wrote
        /\ dcap' = c /\ UNCHANGED <<input, op, pos, frame, ci, out>>
    BY DEF FrameInv, DecBegin, Wrote
  <1>2. /\ n \in Nat /\ Recorded \in Nat /\ n < IntMod \div 2 /\ c \in Int
        /\ ci = 1 /\ out = <<>> /\ Header \in Nat
    <2>1. n \in SrcSizes /\ n \in Nat /\ damage.to \in Nat /\ Header \in Nat
      BY <1>1 DEF TypeOK, FrameAssumption
    <2>2. Recorded \in Nat
      BY <2>1 DEF Recorded
    <2>3. c \in Int
      BY <2>1, <2>2 DEF Capacities, GetOriginalSize, FrameAssumption
    <2>4. QED
      BY <1>1, <2>1, <2>2, <2>3 DEF Layout, FrameAssumption
  <1>3. TypeOK'
    <2>1. pc' \in {"rejected", "decode"} /\ ip' \in Nat
      BY <1>1, <1>2 DEF DecBegin, TypeOK
    <2>2. QED
      BY <1>1, <1>2, <2>1 DEF TypeOK, input, frame
  <1>4. pc' \in {"rejected", "decode"}
    BY DEF DecBegin
  <1>5. Layout' /\ DamageOK'
    BY <1>1, <1>4 DEF Layout, DamageOK, Began, Wrote, At, From, input, frame
  <1>6. pc' = "decode" => Progress'
    <2> SUFFICES ASSUME pc' = "decode" PROVE Progress'
      OBVIOUS
    <2>1. c >= 0 /\ ValidHeader /\ Recorded <= c /\ ip' = Header
      BY <1>2 DEF DecBegin
    <2>2. At(1) = Header /\ From(1) = 0 /\ Len(chunks) \in Nat
      BY <1>1, Tiling
    <2>3. [j \in 1 .. 0 |-> j] = <<>>
      OBVIOUS
    <2>4. damage.kind \in {"lost", "repeated", "reserved", "rawsize"} => damage.chunk >= 1
      BY <1>1, <2>2 DEF DamageOK
    <2>5. /\ Recorded' = Recorded /\ At(1)' = At(1) /\ From(1)' = From(1)
          /\ ci' = 1 /\ out' = <<>> /\ UNCHANGED <<chunks, damage>>
      BY <1>1, <1>2 DEF Recorded, At, From, input, frame
    <2>6. InStep'
      BY <2>4, <2>5 DEF InStep
    <2>7. damage.kind # "form"
      BY <2>1 DEF ValidHeader
    <2>8. At(ci)' = Header /\ From(ci)' = 0
      BY <2>2, <2>5 DEF At, From
    <2>9. QED
      BY <1>1, <1>2, <2>1, <2>2, <2>3, <2>4, <2>5, <2>6, <2>7, <2>8 DEF Progress
  <1>7. FailsOnlyForRoom'
    <2> SUFFICES ASSUME pc' = "rejected", damage = Whole PROVE c < n
      BY <1>1 DEF FailsOnlyForRoom, input, frame
    <2>1. damage.kind = "none"
      BY DEF Whole
    <2>2. Arrived = op /\ Recorded = n /\ op >= Header
      BY <1>1, <2>1, Tiling DEF Arrived, Recorded
    <2>3. ValidHeader
      BY <2>1, <2>2 DEF ValidHeader
    <2>4. QED
      BY <1>2, <2>2, <2>3 DEF DecBegin
  <1>8. QED
    BY <1>3, <1>4, <1>5, <1>6, <1>7 DEF FrameInv, Lossless, DamageRejected,
       RecordedSizeIsExact
\* A chunk that is accepted is one that was written, with the size it has.
LEMMA Taken ==
    ASSUME FrameAssumption, TypeOK, Layout, DamageOK, Wrote, Progress,
           Len(out) < Recorded, Accepted
    PROVE  /\ Index \in 1 .. Len(chunks)
           /\ RawField = Chunk.raw
           /\ damage.kind \in {"reserved", "rawsize"} => ci < damage.chunk
  <1>1. /\ Len(chunks) \in Nat /\ n \in Nat /\ op \in Nat /\ ChunkHeader \in Nat \ {0}
        /\ At(Len(chunks) + 1) = op /\ From(Len(chunks) + 1) = n
        /\ ci \in Nat \ {0} /\ ip \in Nat /\ damage.chunk \in Nat /\ damage.to \in Nat
    BY Tiling DEF TypeOK, FrameAssumption, Progress
  <1>2. ip + ChunkHeader <= Arrived
    BY DEF Accepted, Payload
  <1>3. CASE damage.kind \notin {"lost", "repeated"}
    <2>1. /\ ci <= Len(chunks) + 1 /\ ip = At(ci) /\ out = [j \in 1 .. From(ci) |-> j]
          /\ Index = ci
      BY <1>3 DEF Progress, InStep, Index
    <2>2. ci # Len(chunks) + 1
      <3> SUFFICES ASSUME ci = Len(chunks) + 1 PROVE FALSE
        OBVIOUS
      <3>1. ip = op /\ out = [j \in 1 .. n |-> j]
        BY <1>1, <2>1
      <3>2. Len(out) = n
        BY <1>1, <3>1
      <3>3. damage.kind = "original"
        BY <3>2, <1>1 DEF Recorded
      <3>4. Arrived = op
        BY <3>3 DEF Arrived
      <3>5. QED
        BY <3>1, <3>4, <1>1, <1>2
    <2>3. ci \in 1 .. Len(chunks)
      BY <1>1, <2>1, <2>2
    <2>4. Chunk = chunks[ci]
      BY <2>1 DEF Chunk
    <2>5. ~ (damage.kind = "rawsize" /\ ci = damage.chunk)
      <3> SUFFICES ASSUME damage.kind = "rawsize", ci = damage.chunk PROVE FALSE
        OBVIOUS
      <3>1. RawField = damage.to /\ damage.to # Chunk.raw
        BY <2>4 DEF RawField, DamageOK
      <3>2. Chunk.isRaw => Chunk.comp = Chunk.raw
        BY <2>3, <2>4, Tiling
      <3>3. Decoded
        BY DEF Accepted
      <3>4. QED
        BY <3>1, <3>2, <3>3 DEF Decoded
    <2>6. ~ (damage.kind = "reserved" /\ ci = damage.chunk)
      BY DEF Accepted, Reserved
    <2>7. damage.kind \in {"reserved", "rawsize"} => ci <= damage.chunk
      BY DEF Progress
    <2>8. QED
      BY <1>1, <2>1, <2>3, <2>5, <2>6, <2>7 DEF RawField
  <1>4. ASSUME damage.kind \in {"lost", "repeated"}
        PROVE  RawField = Chunk.raw /\ damage.chunk \in 1 .. Len(chunks)
    BY <1>4 DEF RawField, DamageOK
  <1>5. CASE damage.kind = "lost"
    <2>1. /\ damage.chunk \in 1 .. Len(chunks) /\ Arrived = op - Extent(damage.chunk)
          /\ Extent(damage.chunk) \in Nat
      BY <1>4, <1>5, Tiling DEF Arrived
    <2>2. CASE ci < damage.chunk
      BY <1>1, <1>4, <1>5, <2>1, <2>2 DEF Index
    <2>3. CASE ci >= damage.chunk
      <3>1. Index = ci + 1
        BY <1>5, <2>3 DEF Index
      <3>2. ci <= Len(chunks) /\ ip = At(ci + 1) - Extent(damage.chunk)
        <4>1. CASE ci = damage.chunk
          <5>1. ip = At(ci)
            BY <1>1, <4>1 DEF Progress, InStep
          <5>2. ci \in 1 .. Len(chunks) /\ ci \in 1 .. Len(chunks) + 1
            BY <1>1, <2>1, <4>1
          <5>21. At(ci + 1) = At(ci) + Extent(ci) /\ At(ci) \in Nat
            BY <5>2, Tiling
          <5>3. QED
            BY <1>1, <2>1, <4>1, <5>1, <5>2, <5>21
        <4>2. CASE ci > damage.chunk
          BY <1>1, <1>5, <2>1, <4>2 DEF Progress, InStep
        <4>3. QED
          BY <1>1, <2>1, <2>3, <4>1, <4>2
      <3>3. ci # Len(chunks)
        BY <1>1, <1>2, <2>1, <3>2
      <3>4. QED
        BY <1>1, <1>4, <1>5, <3>1, <3>2, <3>3
    <2>4. QED
      BY <1>1, <2>1, <2>2, <2>3
  <1>6. CASE damage.kind = "repeated"
    <2>1. damage.chunk \in 1 .. Len(chunks) /\ Recorded = n
      BY <1>4, <1>6 DEF Recorded
    <2>2. CASE ci <= damage.chunk
      BY <1>1, <1>4, <1>6, <2>1, <2>2 DEF Index
    <2>3. CASE ci > damage.chunk
      <3>1. Index = ci - 1
        BY <1>6, <2>3 DEF Index
      <3>2. ci <= Len(chunks) + 1 /\ Len(out) = From(ci - 1) + chunks[damage.chunk].raw
        BY <1>1, <1>6, <2>1, <2>3 DEF Progress, InStep
      <3>3. ci - 1 \in 1 .. Len(chunks)
        BY <1>1, <2>1, <2>3, <3>2
      <3>4. QED
        BY <1>1, <1>4, <1>6, <3>1, <3>3
    <2>4. QED
      BY <1>1, <2>1, <2>2, <2>3
  <1>7. QED
    BY <1>3, <1>5, <1>6

\* What follows it in the frame, and in the input.
LEMMA NextPlace ==
    ASSUME FrameAssumption, TypeOK, Layout, Wrote, NEW j \in 1 .. Len(chunks)
    PROVE  /\ At(j) \in Nat /\ From(j) \in Nat
           /\ chunks[j].raw \in Nat \ {0} /\ chunks[j].comp \in Nat
           /\ Extent(j) \in Nat \ {0} /\ Extent(j) = ChunkHeader + chunks[j].comp
           /\ From(j) = chunks[j].from
           /\ At(j + 1) = At(j) + Extent(j) /\ At(j + 1) \in Nat
           /\ From(j + 1) = From(j) + chunks[j].raw /\ From(j + 1) \in Nat
  <1>1. j \in 1 .. Len(chunks) + 1 /\ j + 1 \in 1 .. Len(chunks) + 1
    BY Tiling
  <1>2. QED
    BY <1>1, Tiling

LEMMA TakenStep ==
    ASSUME FrameAssumption, TypeOK, Layout, DamageOK, Wrote, Progress,
           Len(out) < Recorded, Accepted,
           out' = out \o [j \in 1 .. RawField |-> Chunk.from + j],
           ip' = Payload + Chunk.comp, ci' = ci + 1,
           UNCHANGED <<input, op, pos, frame, dcap>>
    PROVE  Progress' /\ out' \in Seq(Nat) /\ ip' \in Nat /\ ci' \in Nat
  <1>1. /\ Index \in 1 .. Len(chunks) /\ RawField = chunks[Index].raw
        /\ Chunk = chunks[Index]
        /\ damage.kind \in {"reserved", "rawsize"} => ci < damage.chunk
    BY Taken DEF Chunk
  <1>2. /\ Len(chunks) \in Nat /\ n \in Nat /\ op \in Nat /\ ChunkHeader \in Nat \ {0}
        /\ ci \in Nat \ {0} /\ ip \in Nat /\ damage.chunk \in Nat /\ dcap \in Int
        /\ out \in Seq(Nat) /\ Len(out) \in Nat
    BY Tiling DEF TypeOK, FrameAssumption, Progress
  <1>3. PICK L \in Nat, k \in 1 .. Len(chunks), c \in Nat \ {0}, d \in Nat :
            L = Len(chunks) /\ k = Index /\ c = ci /\ d = damage.chunk
    BY <1>1, <1>2
  <1>4. PICK r \in Nat \ {0}, f \in Nat, e \in Nat \ {0} :
            /\ r = chunks[k].raw /\ f = From(k) /\ f = chunks[k].from /\ e = Extent(k)
            /\ e = ChunkHeader + chunks[k].comp
            /\ At(k + 1) = At(k) + e /\ At(k) \in Nat
            /\ From(k + 1) = f + r
    BY <1>3, NextPlace
  <1> DEFINE more == [j \in 1 .. r |-> f + j]
  <1>5. more \in Seq(Nat) /\ Len(more) = r
    OBVIOUS
  <1>6. out' = out \o more
    BY <1>1, <1>3, <1>4
  <1> HIDE DEF more
  <1>7. out' \in Seq(Nat) /\ Len(out') = Len(out) + r
    <2>1. out \o more \in Seq(Nat) /\ Len(out \o more) = Len(out) + Len(more)
      BY <1>2, <1>5, ConcatProperties
    <2>2. QED
      BY <2>1, <1>5, <1>6
  <1>8. ip' = ip + e /\ ip' \in Nat /\ ci' = c + 1
    <2>1. PICK z \in Nat : z = chunks[k].comp
      BY <1>3, NextPlace
    <2>2. ip' = (ip + ChunkHeader) + z /\ e = ChunkHeader + z
      BY <1>1, <1>3, <1>4, <2>1 DEF Payload
    <2>3. ip' = ip + e /\ ip' \in Nat
      <3>1. ip \in Nat /\ ChunkHeader \in Nat /\ z \in Nat
        BY <1>2, <2>1
      <3>2. QED
        BY <2>2, <3>1
    <2>4. QED
      BY <2>3, <1>3
  <1>9. Len(out') <= dcap /\ damage.kind # "form" /\ Recorded <= dcap
    BY <1>1, <1>3, <1>4, <1>7 DEF Accepted, Fits, Progress
  <1>10. /\ UNCHANGED <<n, op, pos, chunks, damage, dcap>> /\ Recorded' = Recorded
         /\ Len(chunks') = L /\ (damage.chunk)' = d
         /\ \A j : At(j)' = At(j) /\ From(j)' = From(j) /\ Extent(j)' = Extent(j)
    BY <1>3 DEF At, From, Extent, Recorded, input, frame
  <1>11. CASE c < d \/ damage.kind \notin {"lost", "repeated"}
    <2>1. InStep /\ k = c
      BY <1>3, <1>11 DEF InStep, Index
    <2>2. /\ ip = At(c) /\ out = [j \in 1 .. f |-> j]
      BY <1>3, <1>4, <2>1 DEF Progress
    <2>3. ip' = At(c + 1) /\ c + 1 <= L + 1 /\ From(c + 1) = f + r
      BY <1>3, <1>4, <1>8, <2>1, <2>2
    <2>4. out' = [j \in 1 .. f + r |-> j]
      BY <1>6, <2>2, Extend DEF more
    <2>5. /\ damage.kind \in {"reserved", "rawsize"} => c + 1 <= d
          /\ damage.kind \in {"lost", "repeated"} => c + 1 <= d
      BY <1>1, <1>3, <1>11
    <2>6. At(ci)' = At(c + 1) /\ From(ci)' = From(c + 1)
      BY <1>8, <1>10 DEF At, From
    <2>7. InStep'
      BY <2>5, <1>8, <1>10 DEF InStep
    <2>8. out' = [j \in 1 .. From(ci)' |-> j]
      BY <2>3, <2>4, <2>6
    <2>9. c + 1 > 0
      OBVIOUS
    <2>10. Progress'
      BY <1>8, <1>9, <1>10, <2>3, <2>5, <2>6, <2>7, <2>8, <2>9 DEF Progress
    <2>11. QED
      BY <1>7, <1>8, <2>10
  <1>12. CASE damage.kind = "lost" /\ c >= d
    <2>1. k = c + 1 /\ d \in 1 .. L
      BY <1>3, <1>12 DEF Index, DamageOK
    <2>2. PICK x \in Nat, y \in Nat : x = chunks[d].raw /\ y = Extent(d)
      BY <1>3, <2>1, NextPlace
    <2>3. /\ Len(out) = From(c + 1) - x
          /\ ip = At(c + 1) - y
      <3>1. CASE c = d
        <4>1. ip = At(c) /\ out = [j \in 1 .. From(c) |-> j]
          BY <1>3, <3>1 DEF Progress, InStep
        <4>2. /\ From(c + 1) = From(c) + x /\ At(c + 1) = At(c) + y
              /\ From(c) \in Nat /\ At(c) \in Nat
          BY <1>3, <2>1, <2>2, <3>1, NextPlace
        <4>3. Len(out) = From(c)
          BY <4>1, <4>2
        <4>4. QED
          BY <4>1, <4>2, <4>3
      <3>2. CASE c > d
        BY <1>3, <1>12, <2>2, <3>2 DEF Progress, InStep
      <3>3. QED
        BY <1>12, <3>1, <3>2
    <2>4. /\ c + 1 <= L /\ (c + 1) + 1 \in Nat
          /\ Len(out') = From((c + 1) + 1) - x
          /\ ip' = At((c + 1) + 1) - y
      <3>1. From((c + 1) + 1) = f + r /\ From(c + 1) = f
        BY <1>4, <2>1
      <3>2. At((c + 1) + 1) = At(c + 1) + e /\ At(c + 1) \in Nat
        BY <1>4, <2>1
      <3>3. Len(out') = (f - x) + r /\ ip' = (At(c + 1) - y) + e
        BY <1>7, <1>8, <2>3, <3>1
      <3>4. QED
        <4>1. c + 1 <= L /\ (c + 1) + 1 \in Nat
          BY <1>3, <2>1
        <4>2. (f - x) + r = (f + r) - x
          OBVIOUS
        <4>3. ASSUME NEW a \in Nat PROVE (a - y) + e = (a + e) - y
          OBVIOUS
        <4>4. QED
          BY <3>1, <3>2, <3>3, <4>1, <4>2, <4>3
    <2>5. ~ InStep'
      BY <1>8, <1>10, <1>12 DEF InStep
    <2>6. From(ci + 1)' = From((c + 1) + 1) /\ At(ci + 1)' = At((c + 1) + 1)
      BY <1>8, <1>10 DEF At, From
    <2>7. (Extent(damage.chunk))' = y /\ (chunks[damage.chunk].raw)' = x
      BY <1>10, <2>2 DEF Extent
    <2>8. c + 1 > 0
      OBVIOUS
    <2>9. Progress'
      BY <1>8, <1>9, <1>10, <1>12, <2>4, <2>5, <2>6, <2>7, <2>8 DEF Progress
    <2>10. QED
      BY <1>7, <1>8, <2>9
  <1>13. CASE damage.kind = "repeated" /\ c >= d
    <2>1. d \in 1 .. L
      BY <1>3, <1>13 DEF DamageOK
    <2>2. PICK x \in Nat, y \in Nat : x = chunks[d].raw /\ y = Extent(d)
      BY <1>3, <2>1, NextPlace
    <2>3. /\ c <= L
          /\ Len(out') = From(c) + x
          /\ ip' = At(c) + y
      <3>1. CASE c = d
        <4>1. ip = At(c) /\ out = [j \in 1 .. From(c) |-> j] /\ k = c
          BY <1>3, <1>13, <3>1 DEF Progress, InStep, Index
        <4>2. Len(out) = f /\ f = From(c) /\ r = x /\ e = y
          <5>1. r = x /\ e = y /\ f = From(c)
            BY <1>4, <2>2, <3>1, <4>1
          <5>2. out = [j \in 1 .. f |-> j]
            BY <4>1, <5>1
          <5>3. Len(out) = f
            BY <5>2
          <5>4. QED
            BY <5>1, <5>3
        <4>3. QED
          <5>1. c <= L
            BY <2>1, <3>1
          <5>2. Len(out') = From(c) + x
            BY <1>7, <4>2
          <5>3. ip' = At(c) + y
            BY <1>8, <4>1, <4>2
          <5>4. QED
            BY <5>1, <5>2, <5>3
      <3>2. CASE c > d
        <4>1. /\ Len(out) = From(c - 1) + x
              /\ ip = At(c - 1) + y /\ k = c - 1
          <5>1. ~ InStep
            BY <1>3, <1>13, <3>2 DEF InStep
          <5>2. k = c - 1
            BY <1>3, <1>13, <3>2 DEF Index
          <5>3. /\ Len(out) = From(ci - 1) + chunks[damage.chunk].raw
                /\ ip = At(ci - 1) + Extent(damage.chunk)
            BY <1>13, <5>1 DEF Progress
          <5>4. QED
            BY <5>2, <5>3, <1>3, <2>2
        <4>2. k + 1 = c /\ From(c - 1) = f /\ From(c) = f + r /\ At(c) = At(k) + e
              /\ At(c - 1) = At(k)
          <5>1. k + 1 = c
            BY <1>3, <4>1
          <5>2. From(k + 1) = From(c) /\ At(k + 1) = At(c) /\ From(c - 1) = From(k)
                /\ At(c - 1) = At(k)
            BY <5>1, <4>1
          <5>3. QED
            BY <1>4, <5>1, <5>2
        <4>3. c # L + 1
          <5> SUFFICES ASSUME c = L + 1 PROVE FALSE
            OBVIOUS
          <5>1. f + r = n /\ k = L
            BY <1>3, <4>2, Tiling
          <5>2. x >= r
            <6>1. CASE d = L
              BY <1>4, <2>2, <5>1, <6>1
            <6>2. CASE d < L
              <7>1. x = size
                BY <1>3, <2>1, <2>2, <6>2, Tiling
              <7>2. r <= size
                BY <1>3, <1>4, Tiling
              <7>3. QED
                BY <7>1, <7>2
            <6>3. QED
              BY <2>1, <6>1, <6>2
          <5>3. Recorded = n
            BY <1>13 DEF Recorded
          <5>4. Len(out) < n /\ Len(out) = f + x
            BY <4>1, <4>2, <5>3
          <5>5. QED
            BY <5>1, <5>2, <5>4
        <4>4. Len(out') = (f + x) + r /\ ip' = (At(k) + y) + e
          BY <1>7, <1>8, <4>1, <4>2
        <4>5. QED
          <5>1. k \in 1 .. L
            BY <1>3
          <5>2. QED
            <6>1. c <= L
              BY <1>3, <4>2, <4>3, <5>1
            <6>2. (f + x) + r = (f + r) + x
              OBVIOUS
            <6>3. ASSUME NEW a \in Nat PROVE (a + y) + e = (a + e) + y
              OBVIOUS
            <6>4. At(k) \in Nat
              BY <1>4
            <6>5. QED
              BY <4>2, <4>4, <6>1, <6>2, <6>3, <6>4
      <3>3. QED
        <4>1. c = d \/ c > d
          BY <1>13
        <4>2. QED
          BY <3>1, <3>2, <4>1
    <2>4. ~ InStep'
      BY <1>8, <1>10, <1>13 DEF InStep
    <2>5. ci' - 1 = c
      BY <1>8
    <2>6. From(ci - 1)' = From(c) /\ At(ci - 1)' = At(c)
      BY <1>10, <2>5 DEF At, From
    <2>7. (Extent(damage.chunk))' = y /\ (chunks[damage.chunk].raw)' = x
      BY <1>10, <2>2 DEF Extent
    <2>8. c + 1 > 0 /\ c + 1 <= L + 1
      BY <2>3
    <2>9. Progress'
      BY <1>8, <1>9, <1>10, <1>13, <2>3, <2>4, <2>6, <2>7, <2>8 DEF Progress
    <2>10. QED
      BY <1>7, <1>8, <2>9
  <1>14. QED
    BY <1>11, <1>12, <1>13
\* Every chunk of a frame that arrives whole is accepted if there is room.
LEMMA WholeAccepted ==
    ASSUME FrameAssumption, TypeOK, Layout, Wrote, Progress,
           Len(out) < Recorded, damage = Whole, n <= dcap
    PROVE  Accepted
  <1>1. damage.kind = "none" /\ damage.chunk = 0
    BY DEF Whole
  <1>2. Arrived = op /\ Recorded = n /\ Index = ci /\ ~ Reserved /\ RawField = Chunk.raw
    BY <1>1 DEF Arrived, Recorded, Index, Reserved, RawField
  <1>3. /\ ci <= Len(chunks) + 1 /\ ip = At(ci) /\ out = [j \in 1 .. From(ci) |-> j]
        /\ ci \in Nat \ {0}
    BY <1>1 DEF Progress, InStep, TypeOK
  <1>4. /\ Len(chunks) \in Nat /\ n \in Nat /\ op \in Nat
        /\ From(Len(chunks) + 1) = n
        /\ From(ci) \in Nat
    <2>1. Len(chunks) \in Nat
      BY Tiling
    <2>2. ci \in 1 .. Len(chunks) + 1
      BY <1>3, <2>1
    <2>3. QED
      BY <2>2, Tiling
  <1>5. Len(out) = From(ci)
    BY <1>3, <1>4
  <1>6. ci \in 1 .. Len(chunks)
    BY <1>2, <1>3, <1>4, <1>5
  <1>7. PICK k \in 1 .. Len(chunks) : k = ci
    BY <1>6
  <1>8. /\ Chunk = chunks[k]
        /\ chunks[k].comp \in Nat \ {0}
        /\ chunks[k].raw \in Nat \ {0} /\ chunks[k].raw <= size
        /\ chunks[k].isRaw => chunks[k].comp = chunks[k].raw
        /\ Extent(k) = ChunkHeader + chunks[k].comp
        /\ At(k + 1) = At(k) + Extent(k) /\ At(k + 1) <= op
        /\ From(k + 1) = From(k) + chunks[k].raw /\ From(k + 1) <= n
        /\ At(k) \in Nat
    BY <1>2, <1>7, Tiling, NextPlace DEF Chunk
  <1>9. PICK z \in Nat \ {0}, r \in Nat \ {0} : z = chunks[k].comp /\ r = chunks[k].raw
    BY <1>8
  <1>10. ChunkHeader \in Nat /\ size <= MaxChunk /\ size \in Nat /\ MaxChunk \in Nat
         /\ dcap \in Int
    BY DEF TypeOK, FrameAssumption
  <1>11. Payload + Chunk.comp <= Arrived /\ Payload <= Arrived
    <2>1. ip + (ChunkHeader + z) <= op /\ ip \in Nat
      BY <1>3, <1>7, <1>8, <1>9
    <2>2. QED
      <3>1. Payload = ip + ChunkHeader /\ Chunk.comp = z /\ Arrived = op
        BY <1>2, <1>8, <1>9 DEF Payload
      <3>2. (ip + ChunkHeader) + z <= op /\ ip + ChunkHeader <= op
        <4>1. op \in Nat /\ ChunkHeader \in Nat /\ z \in Nat /\ ip \in Nat
          BY <1>4, <1>9, <1>10, <2>1
        <4>2. QED
          BY <2>1, <4>1
      <3>3. QED
        BY <3>1, <3>2
  <1>12. Fits
    <2>1. From(ci) + r <= n
      BY <1>7, <1>8, <1>9
    <2>2. QED
      BY <2>1, <1>2, <1>4, <1>5, <1>8, <1>9, <1>10 DEF Fits
  <1>13. Decoded
    BY <1>2, <1>8 DEF Decoded
  <1>14. RawField \in 1 .. MaxChunk /\ Chunk.comp # 0
    <2>1. RawField = r /\ Chunk.comp = z /\ r <= size
      BY <1>2, <1>8, <1>9
    <2>2. QED
      BY <2>1, <1>9, <1>10
  <1>15. QED
    BY <1>2, <1>11, <1>12, <1>13, <1>14 DEF Accepted

LEMMA DecChunkFrame ==
    ASSUME FrameAssumption, FrameInv, DecChunk PROVE FrameInv'
  <1>1. /\ TypeOK /\ Layout /\ DamageOK /\ pc = "decode" /\ Wrote /\ Progress
        /\ Len(out) < Recorded /\ UNCHANGED <<input, op, pos, frame, dcap>>
    BY DEF FrameInv, DecChunk, Wrote
  <1>2. /\ pc' \in {"decode", "rejected"}
        /\ pc' = "decode" => Progress'
        /\ pc' = "rejected" /\ damage = Whole => dcap < n
        /\ out' \in Seq(Nat) /\ ip' \in Nat /\ ci' \in Nat
    <2>1. CASE Accepted
      <3>1. /\ out' = out \o [j \in 1 .. RawField |-> Chunk.from + j]
            /\ ip' = Payload + Chunk.comp /\ ci' = ci + 1 /\ pc' = "decode"
        BY <1>1, <2>1 DEF DecChunk
      <3>2. Progress' /\ out' \in Seq(Nat) /\ ip' \in Nat /\ ci' \in Nat
        BY <1>1, <2>1, <3>1, TakenStep
      <3>3. QED
        BY <3>1, <3>2
    <2>2. CASE ~ Accepted
      <3>1. pc' = "rejected" /\ UNCHANGED <<out, ip, ci>>
        BY <2>2 DEF DecChunk
      <3>2. damage = Whole => ~ (n <= dcap)
        BY <1>1, <2>2, WholeAccepted
      <3>3. n \in Int /\ dcap \in Int
        BY <1>1 DEF TypeOK, FrameAssumption
      <3>4. QED
        BY <1>1, <3>1, <3>2, <3>3 DEF TypeOK
    <2>3. QED
      BY <2>1, <2>2
  <1>3. TypeOK'
    BY <1>1, <1>2 DEF TypeOK, input, frame
  <1>4. Layout' /\ DamageOK'
    BY <1>1, <1>2 DEF Layout, DamageOK, Began, Wrote, At, From, input, frame
  <1>5. FailsOnlyForRoom'
    BY <1>1, <1>2 DEF FailsOnlyForRoom, input, frame
  <1>6. QED
    BY <1>2, <1>3, <1>4, <1>5 DEF FrameInv, Lossless, DamageRejected, RecordedSizeIsExact

\* Where the decoder stops with every byte read it has read the whole frame.
LEMMA Finished ==
    ASSUME FrameAssumption, TypeOK, Layout, DamageOK, Wrote, Progress,
           Len(out) >= Recorded, ip = Arrived
    PROVE  damage.kind \in {"none", "original"} /\ out = Source
  <1>1. /\ Len(chunks) \in Nat /\ n \in Nat /\ op \in Nat
        /\ At(Len(chunks) + 1) = op /\ From(Len(chunks) + 1) = n
        /\ ci \in Nat \ {0} /\ damage.chunk \in Nat /\ damage.to \in Nat
    BY Tiling DEF TypeOK, Progress
  <1>2. ASSUME ci <= Len(chunks), InStep
        PROVE  ip < op /\ Len(out) < n /\ ip \in Nat
    <2>1. PICK k \in 1 .. Len(chunks) : k = ci
      BY <1>1, <1>2
    <2>2. /\ At(k) \in Nat /\ Extent(k) \in Nat \ {0} /\ At(k) + Extent(k) <= op
          /\ From(k) \in Nat /\ chunks[k].raw \in Nat \ {0}
          /\ From(k) + chunks[k].raw <= n
      BY Tiling, NextPlace
    <2>3. ip = At(k) /\ out = [j \in 1 .. From(k) |-> j]
      BY <1>2, <2>1 DEF Progress
    <2>4. Len(out) = From(k)
      BY <2>2, <2>3
    <2>5. QED
      BY <1>1, <2>2, <2>3, <2>4
  <1>3. ASSUME InStep, ci > Len(chunks)
        PROVE  ip = op /\ out = Source
    <2>1. ci = Len(chunks) + 1
      BY <1>1, <1>3 DEF Progress
    <2>2. ip = At(ci) /\ out = [j \in 1 .. From(ci) |-> j]
      BY <1>3 DEF Progress
    <2>3. QED
      BY <1>1, <2>1, <2>2 DEF Source
  <1>4. CASE damage.kind \in {"cut", "trail", "none"}
    <2>1. Recorded = n /\ InStep
      BY <1>4 DEF Recorded, InStep
    <2>2. ci > Len(chunks)
      BY <1>1, <1>2, <2>1
    <2>3. ip = op /\ out = Source
      BY <1>3, <2>1, <2>2
    <2>4. CASE damage.kind = "cut"
      BY <1>1, <2>3, <2>4 DEF Arrived, DamageOK
    <2>5. CASE damage.kind = "trail"
      BY <1>1, <2>3, <2>5 DEF Arrived, DamageOK
    <2>6. QED
      BY <1>4, <2>3, <2>4, <2>5
  <1>5. CASE damage.kind = "original"
    <2>1. InStep /\ Arrived = op
      BY <1>5 DEF Arrived, InStep
    <2>2. ci > Len(chunks)
      BY <1>1, <1>2, <2>1
    <2>3. QED
      BY <1>3, <1>5, <2>1, <2>2
  <1>6. CASE damage.kind \in {"reserved", "rawsize"}
    <2>1. Recorded = n /\ InStep /\ ci <= Len(chunks)
      BY <1>1, <1>6 DEF Recorded, InStep, Progress, DamageOK
    <2>2. QED
      BY <1>1, <1>2, <2>1
  <1>7. CASE damage.kind \in {"lost", "repeated"}
    <2>1. Recorded = n /\ damage.chunk \in 1 .. Len(chunks)
      BY <1>7 DEF Recorded, DamageOK
    <2>2. PICK d \in 1 .. Len(chunks), x \in Nat \ {0}, y \in Nat \ {0}, c \in Nat \ {0} :
              d = damage.chunk /\ x = chunks[d].raw /\ y = Extent(d) /\ c = ci
      BY <1>1, <2>1, NextPlace
    <2>3. Len(out) \in Nat
      BY DEF TypeOK
    <2>4. CASE InStep
      <3>1. c <= Len(chunks)
        BY <1>1, <1>7, <2>2, <2>4 DEF InStep
      <3>2. Len(out) < n
        BY <1>2, <2>2, <2>4, <3>1
      <3>3. QED
        BY <1>1, <2>1, <2>3, <3>2
    <2>5. CASE damage.kind = "lost" /\ ~ InStep
      <3>1. c <= Len(chunks) /\ Len(out) = From(c + 1) - x
        BY <2>2, <2>5 DEF Progress
      <3>2. From(c + 1) <= n /\ From(c + 1) \in Nat
        <4>1. PICK k \in 1 .. Len(chunks) : k = c
          BY <1>1, <2>2, <3>1
        <4>2. From(k + 1) <= n /\ From(k + 1) \in Nat
          BY Tiling, NextPlace
        <4>3. QED
          BY <4>1, <4>2
      <3>3. QED
        BY <1>1, <2>1, <3>1, <3>2
    <2>6. CASE damage.kind = "repeated" /\ ~ InStep
      <3>1. /\ c <= Len(chunks) + 1 /\ c > d
            /\ ip = At(c - 1) + y /\ Arrived = op + y
        BY <1>1, <2>2, <2>6 DEF Progress, InStep, Arrived
      <3>2. PICK k \in 1 .. Len(chunks) : k = c - 1
        BY <1>1, <3>1
      <3>3. At(k) \in Nat /\ Extent(k) \in Nat \ {0} /\ At(k) + Extent(k) <= op
        BY Tiling, NextPlace
      <3>4. At(c - 1) = At(k)
        BY <3>2
      <3>5. QED
        <4>1. At(k) + y = op + y
          BY <3>1, <3>4
        <4>2. At(k) = op
          BY <1>1, <2>2, <3>3, <4>1
        <4>3. QED
          BY <1>1, <3>3, <4>2
    <2>7. QED
      BY <1>7, <2>4, <2>5, <2>6
  <1>8. damage.kind # "form" /\ damage.kind \in {"none"} \cup AllDamages
    BY DEF Progress, TypeOK, FrameAssumption
  <1>9. QED
    BY <1>4, <1>5, <1>6, <1>7, <1>8 DEF AllDamages

LEMMA DecReturnFrame ==
    ASSUME FrameAssumption, FrameInv, DecReturn PROVE FrameInv'
  <1>1. /\ TypeOK /\ Layout /\ DamageOK /\ pc = "decode" /\ Wrote /\ Progress
        /\ Len(out) >= Recorded /\ UNCHANGED <<input, op, pos, frame, decoder>>
        /\ pc' = End
    BY DEF FrameInv, DecReturn, Wrote
  <1>2. /\ n \in Nat /\ dcap \in Int /\ Len(out) \in Nat /\ Recorded \in Nat
        /\ Recorded <= dcap /\ Len(out) <= dcap
    BY <1>1 DEF TypeOK, Progress, Recorded, FrameAssumption
  <1>3. pc' \in {"rejected", "decoded"}
    BY <1>1 DEF End
  <1>4. TypeOK'
    BY <1>1, <1>3 DEF TypeOK, input, frame, decoder
  <1>5. Layout' /\ DamageOK'
    BY <1>1, <1>3 DEF Layout, DamageOK, Began, Wrote, At, From, input, frame, decoder
  <1>6. pc' = "decoded" => damage.kind \in {"none", "original"} /\ out = Source
    BY <1>1, Finished DEF End
  <1>7. pc' = "rejected" => damage # Whole
    <2> SUFFICES ASSUME ip # Arrived, damage = Whole PROVE FALSE
      BY <1>1 DEF End
    <2>1. damage.kind = "none" /\ Recorded = n /\ Arrived = op /\ InStep
      BY DEF Whole, Recorded, Arrived, InStep
    <2>2. /\ Len(chunks) \in Nat /\ ci \in Nat \ {0} /\ ci <= Len(chunks) + 1
          /\ At(Len(chunks) + 1) = op /\ ip = At(ci) /\ out = [j \in 1 .. From(ci) |-> j]
      BY <1>1, <2>1, Tiling DEF Progress, TypeOK
    <2>3. ci # Len(chunks) + 1
      BY <2>1, <2>2
    <2>4. PICK k \in 1 .. Len(chunks) : k = ci
      BY <2>2, <2>3
    <2>5. From(k) \in Nat /\ chunks[k].raw \in Nat \ {0} /\ From(k) + chunks[k].raw <= n
      BY <1>1, Tiling, NextPlace
    <2>6. Len(out) = From(k)
      BY <2>2, <2>4, <2>5
    <2>7. QED
      BY <1>1, <1>2, <2>1, <2>5, <2>6
  <1>8. Lossless' /\ DamageRejected' /\ FailsOnlyForRoom'
    BY <1>1, <1>6, <1>7 DEF Lossless, DamageRejected, FailsOnlyForRoom, Source, Whole,
       input, frame, decoder
  <1>9. RecordedSizeIsExact'
    <2> SUFFICES ASSUME pc' = "decoded", dcap' = GetOriginalSize'
                 PROVE  damage' = Whole /\ Len(out') = dcap'
      BY DEF RecordedSizeIsExact, Whole
    <2>1. GetOriginalSize' = GetOriginalSize /\ dcap' = dcap /\ out' = out /\ damage' = damage
      BY <1>1 DEF GetOriginalSize, ValidHeader, Arrived, Extent, Recorded, input, frame, decoder
    <2>2. dcap = Recorded
      <3>1. GetOriginalSize \in {-1, Recorded}
        BY Zenon DEF GetOriginalSize
      <3>2. QED
        BY <1>2, <2>1, <3>1
    <2>3. Len(out) = n
      BY <1>2, <1>6 DEF Source
    <2>4. damage.kind = "none"
      <3>1. damage.kind = "original" => damage.to # n /\ Recorded = damage.to
        BY <1>1 DEF DamageOK, Recorded
      <3>2. QED
        BY <1>1, <1>2, <1>6, <2>2, <2>3, <3>1
    <2>5. QED
      BY <1>1, <2>1, <2>2, <2>3, <2>4 DEF DamageOK, Recorded
  <1>10. QED
    BY <1>3, <1>4, <1>5, <1>8, <1>9 DEF FrameInv
-----------------------------------------------------------------------------
(***************************************************************************)
(* The invariant.                                                          *)
(***************************************************************************)
LEMMA StutterFrame == FrameInv /\ UNCHANGED vars => FrameInv'
  <1> SUFFICES ASSUME FrameInv, UNCHANGED vars PROVE FrameInv'
    OBVIOUS
  <1>1. UNCHANGED <<n, size, store, cap, op, pos, chunks, damage, dcap, ip, ci, out, pc>>
    BY DEF vars, input, frame, decoder
  <1>2. TypeOK' /\ Layout' /\ DamageOK'
    BY <1>1 DEF FrameInv, TypeOK, Layout, DamageOK, Began, Wrote, At, From
  <1>3. (pc = "decode" => Progress)'
    BY <1>1 DEF FrameInv, Progress, InStep, Recorded, At, From, Extent
  <1>4. Lossless' /\ FailsOnlyForRoom' /\ DamageRejected'
    BY <1>1 DEF FrameInv, Lossless, FailsOnlyForRoom, DamageRejected, Source, Whole
  <1>5. RecordedSizeIsExact'
    BY <1>1 DEF FrameInv, RecordedSizeIsExact, GetOriginalSize, ValidHeader, Arrived,
       Extent, Recorded, Whole
  <1>6. QED
    BY <1>2, <1>3, <1>4, <1>5 DEF FrameInv

LEMMA NextFrame == FrameAssumption /\ FrameInv /\ [Next]_vars => FrameInv'
  <1> SUFFICES ASSUME FrameAssumption, FrameInv, [Next]_vars PROVE FrameInv'
    OBVIOUS
  <1>1. CASE EncBegin
    BY <1>1, EncBeginFrame
  <1>2. CASE EncChunk
    BY <1>2, EncChunkFrame
  <1>3. CASE EncReturn
    BY <1>3, EncReturnFrame
  <1>4. CASE Damage
    BY <1>4, DamageFrame
  <1>5. ASSUME NEW c \in Capacities, DecBegin(c) PROVE FrameInv'
    BY <1>5, DecBeginFrame
  <1>6. CASE DecChunk
    BY <1>6, DecChunkFrame
  <1>7. CASE DecReturn
    BY <1>7, DecReturnFrame
  <1>8. CASE UNCHANGED vars
    BY <1>8, StutterFrame
  <1>9. QED
    BY <1>1, <1>2, <1>3, <1>4, <1>5, <1>6, <1>7, <1>8 DEF Next

LEMMA FrameInvariant == Spec => []FrameInv
  <1>1. Init => FrameInv
    BY InitFrame, FrameAssumption
  <1>2. FrameInv /\ [Next]_vars => FrameInv'
    BY NextFrame, FrameAssumption
  <1>3. QED
    BY <1>1, <1>2, PTL DEF Spec

\* Every variable of the frame's two functions keeps its type.
THEOREM FrameTypes == Spec => []TypeOK
  <1>1. FrameInv => TypeOK
    BY DEF FrameInv
  <1>2. QED
    BY <1>1, FrameInvariant, PTL

\* elh_frame_decompress gives the input back or fails, for whatever input, also
\* after one of the modelled damages.
THEOREM FrameLossless == Spec => []Lossless
  <1>1. FrameInv => Lossless
    BY DEF FrameInv
  <1>2. QED
    BY <1>1, FrameInvariant, PTL

\* A frame that arrives whole is refused only if the buffer is smaller than the
\* input.
THEOREM FrameAccepted == Spec => []FailsOnlyForRoom
  <1>1. FrameInv => FailsOnlyForRoom
    BY DEF FrameInv
  <1>2. QED
    BY <1>1, FrameInvariant, PTL

\* Cut frames, trailing bytes, lost and repeated chunks, and a changed form,
\* reserved byte or raw size are refused; a changed original size is not.
THEOREM FrameDamageRejected == Spec => []DamageRejected
  <1>1. FrameInv => DamageRejected
    BY DEF FrameInv
  <1>2. QED
    BY <1>1, FrameInvariant, PTL

\* With a buffer of the recorded size, a changed original size is refused too.
THEOREM FrameRecordedSize == Spec => []RecordedSizeIsExact
  <1>1. FrameInv => RecordedSizeIsExact
    BY DEF FrameInv
  <1>2. QED
    BY <1>1, FrameInvariant, PTL
-----------------------------------------------------------------------------
(***************************************************************************)
(* Room.  While the bound fits an int, the chunks written never cost more  *)
(* than the bound grants for as many full chunks.                          *)
(***************************************************************************)
RoomInv ==
    /\ FrameInv
    /\ \E c \in ChunkSizes : size = NormChunkSize(c)
    /\ pc = "chunk" => cap >= FrameBound(n, size)
    /\ Began => op <= Header + Len(chunks) * Cost(size)
    /\ chunks # <<>> => (Len(chunks) - 1) * size < n
    /\ pos < n => pos = Len(chunks) * size
    /\ pc # "failed"

LEMMA Times ==
    ASSUME NEW a \in Nat, NEW b \in Nat, NEW k \in Nat, a <= b
    PROVE  /\ a * k \in Nat /\ b * k \in Nat /\ a * k <= b * k
           /\ (a + 1) * k = a * k + k
  OBVIOUS

\* More than l full chunks make at least l + 1 chunks.
LEMMA CeilAbove ==
    ASSUME NEW l \in Nat, NEW c \in Nat \ {0}, NEW s \in Nat, l * c < s
    PROVE  l + 1 <= Ceil(s, c) /\ Ceil(s, c) \in Nat
  <1> DEFINE x == s + c - 1
             q == x \div c
  <1>1. x \in Nat /\ q \in Nat /\ x < (q + 1) * c
    OBVIOUS
  <1>2. l * c \in Nat /\ (l + 1) * c = l * c + c
    BY Times
  <1>3. (l + 1) * c <= x
    BY <1>2
  <1> HIDE DEF x, q
  <1>4. ~ (q + 1 <= l + 1)
    <2> SUFFICES ASSUME q + 1 <= l + 1 PROVE FALSE
      OBVIOUS
    <2>1. (q + 1) * c \in Nat /\ (l + 1) * c \in Nat /\ (q + 1) * c <= (l + 1) * c
      BY <1>1, Times
    <2>2. QED
      BY <1>1, <1>3, <2>1
  <1>5. QED
    BY <1>1, <1>4 DEF Ceil, q, x

\* What the bound comes to.
LEMMA FrameBoundValue ==
    ASSUME FrameAssumption, NoOverflow, NEW s \in SrcSizes, NEW c \in ChunkSizes,
           NEW m, m = NormChunkSize(c)
    PROVE  /\ s = 0 => FrameBound(s, m) = Header
           /\ s # 0 => FrameBound(s, m) = Header + Ceil(s, m) * Cost(m)
  <1>1. m \in Nat \ {0} /\ m \in 1 .. MaxChunk
    BY NormSize DEF FrameAssumption
  <1>2. /\ s \in Nat /\ IntMod \in Nat \ {0} /\ IntMod % 2 = 0 /\ Header \in Nat
        /\ Cost(m) \in Nat
    BY <1>1 DEF FrameAssumption, Cost
  <1>3. ASSUME NEW x \in Nat, x < IntMod \div 2 PROVE ToInt(x) = x
    <2> DEFINE h == IntMod \div 2
    <2>1. h \in Nat /\ x + h \in Nat /\ x + h < IntMod /\ h >= 0
      BY <1>2, <1>3
    <2> HIDE DEF h
    <2>2. (x + h) % IntMod = x + h
      BY <2>1, <1>2
    <2>3. QED
      BY <2>1, <2>2, <1>2 DEF ToInt, h
  <1>4. /\ s + m - 1 \in Nat /\ s + m - 1 < IntMod \div 2
        /\ Header + Ceil(s, m) * Cost(m) < IntMod \div 2
    BY <1>1, <1>2 DEF NoOverflow
  <1>5. Ceil(s, m) \in Nat /\ CDiv(ToInt(s + m - 1), m) = Ceil(s, m)
    <2>1. ToInt(s + m - 1) = s + m - 1
      BY <1>3, <1>4
    <2>2. CDiv(s + m - 1, m) = Ceil(s, m)
      BY <1>4 DEF CDiv, Ceil
    <2>3. Ceil(s, m) \in Nat
      BY <1>1, <1>4 DEF Ceil
    <2>4. QED
      BY <2>1, <2>2, <2>3
  <1> DEFINE a == Ceil(s, m)
             b == Cost(m)
  <1>6. a * b \in Nat
    <2>1. a \in Nat /\ b \in Nat
      BY <1>2, <1>5
    <2> HIDE DEF a, b
    <2>2. QED
      BY <2>1, Times
  <1>7. ToInt(Header + a * b) = Header + a * b
    <2>1. Header + a * b \in Nat
      BY <1>2, <1>6
    <2>2. QED
      BY <1>3, <1>4, <2>1
  <1>8. QED
    BY <1>5, <1>7 DEF FrameBound, Cost

\* The bound grants what the chunks written and one more may cost.
LEMMA Granted ==
    ASSUME FrameAssumption, NoOverflow, RoomInv, Began
    PROVE  /\ op <= FrameBound(n, size) /\ FrameBound(n, size) \in Int
           /\ pos < n => op + Cost(size) <= FrameBound(n, size)
  <1>1. /\ n \in SrcSizes /\ n \in Nat /\ size \in Nat \ {0} /\ op \in Nat /\ pos \in Nat
        /\ Len(chunks) \in Nat /\ Header \in Nat /\ Cost(size) \in Nat
        /\ chunks = <<>> <=> Len(chunks) = 0
    <2>1. TypeOK
      BY DEF RoomInv, FrameInv
    <2>2. n \in SrcSizes /\ n \in Nat /\ Header \in Nat /\ op \in Nat /\ pos \in Nat
      BY <2>1 DEF TypeOK, FrameAssumption
    <2>3. size \in Nat \ {0} /\ Cost(size) \in Nat
      BY <2>1 DEF TypeOK, FrameAssumption, Cost
    <2>4. Len(chunks) \in Nat /\ (chunks = <<>> <=> Len(chunks) = 0)
      BY <2>1, EmptySeq DEF TypeOK
    <2>5. QED
      BY <2>2, <2>3, <2>4
  <1>2. PICK l \in Nat, k \in Nat, b \in Int :
            l = Len(chunks) /\ k = Cost(size) /\ b = FrameBound(n, size)
    <2>1. FrameBound(n, size) \in Int
      BY <1>1, FrameBoundInt DEF RoomInv, FrameInv, TypeOK
    <2>2. QED
      BY <1>1, <2>1
  <1>3. /\ n = 0 => b = Header
        /\ n # 0 => b = Header + Ceil(n, size) * k
    BY <1>1, <1>2, FrameBoundValue DEF RoomInv
  <1>4. op <= Header + l * k
    BY <1>2 DEF RoomInv
  <1>5. CASE pos < n
    <2>1. l * size < n /\ n # 0
      BY <1>1, <1>2, <1>5 DEF RoomInv
    <2>2. l + 1 <= Ceil(n, size) /\ Ceil(n, size) \in Nat
      BY <1>1, <2>1, CeilAbove
    <2>3. /\ (l + 1) * k <= Ceil(n, size) * k /\ (l + 1) * k = l * k + k
          /\ l * k \in Nat /\ Ceil(n, size) * k \in Nat
      BY <2>2, Times
    <2>4. QED
      <3>1. PICK x \in Nat, y \in Nat : x = l * k /\ y = Ceil(n, size) * k
        BY <2>3
      <3>2. x + k <= y /\ b = Header + y /\ op <= Header + x
        BY <1>3, <1>4, <2>1, <2>3, <3>1
      <3>3. op + k <= b /\ op <= b
        BY <1>1, <3>2
      <3>4. QED
        BY <1>2, <3>3
  <1>6. CASE ~ (pos < n) /\ l = 0
    <2>1. op <= Header
      BY <1>1, <1>4, <1>6
    <2>2. Header <= b
      <3>1. n # 0 => Ceil(n, size) \in Nat
        BY <1>1 DEF Ceil
      <3>2. n # 0 => Ceil(n, size) * k \in Nat
        BY <3>1, Times
      <3>3. QED
        BY <1>1, <1>3, <3>2
    <2>3. QED
      BY <1>1, <1>2, <1>6, <2>1, <2>2
  <1>7. CASE ~ (pos < n) /\ l # 0
    <2>1. (l - 1) * size < n /\ l - 1 \in Nat
      BY <1>1, <1>2, <1>7 DEF RoomInv
    <2>2. n # 0
      <3>1. (l - 1) * size \in Nat
        BY <1>1, <2>1, Times
      <3>2. QED
        BY <1>1, <2>1, <3>1
    <2>3. l <= Ceil(n, size) /\ Ceil(n, size) \in Nat
      <3>1. (l - 1) + 1 <= Ceil(n, size) /\ Ceil(n, size) \in Nat
        BY <1>1, <2>1, CeilAbove
      <3>2. QED
        BY <3>1
    <2>4. l * k <= Ceil(n, size) * k /\ l * k \in Nat /\ Ceil(n, size) * k \in Nat
      BY <2>3, Times
    <2>5. QED
      BY <1>1, <1>2, <1>3, <1>4, <1>7, <2>2, <2>4
  <1>8. QED
    BY <1>5, <1>6, <1>7
LEMMA InitRoom == FrameAssumption /\ Init => RoomInv
  <1> SUFFICES ASSUME FrameAssumption, Init PROVE RoomInv
    OBVIOUS
  <1>1. FrameInv
    BY InitFrame
  <1>2. Len(<<>>) = 0 /\ size \in Nat
    BY <1>1 DEF FrameInv, TypeOK, FrameAssumption
  <1>3. QED
    BY <1>1, <1>2 DEF Init, RoomInv, Began

\* The room for the chunk at hand.
LEMMA ChunkRoom ==
    ASSUME FrameAssumption, NoOverflow, RoomInv, pc = "chunk", pos < n
    PROVE  PayloadCap >= BlockBound(size) /\ BlockBound(size) >= BlockBound(RawSize)
           /\ BlockBound(RawSize) > RawSize
  <1>1. Began /\ FrameInv /\ TypeOK
    BY DEF RoomInv, FrameInv, Began
  <1>2. RawSize \in 1 .. size /\ size \in 1 .. MaxChunk /\ MaxChunk \in Nat /\ size \in Nat
    BY <1>1, RawSizeValue DEF TypeOK, FrameAssumption
  <1>3. /\ BlockBound(size) \in Nat /\ BlockBound(RawSize) <= BlockBound(size)
        /\ BlockBound(RawSize) \in Nat /\ BlockBound(RawSize) > RawSize
    BY <1>2 DEF FrameAssumption
  <1>4. op + (ChunkHeader + BlockBound(size)) <= cap
    <2>1. op + Cost(size) <= FrameBound(n, size) /\ FrameBound(n, size) \in Int
          /\ FrameBound(n, size) <= cap
      BY <1>1, Granted DEF RoomInv
    <2>2. op \in Int /\ Cost(size) \in Int /\ cap \in Int
      BY <1>1, <1>3 DEF TypeOK, FrameAssumption, Cost
    <2>3. QED
      BY <2>1, <2>2 DEF Cost
  <1>5. op \in Int /\ cap \in Int /\ ChunkHeader \in Int
    BY <1>1 DEF TypeOK, FrameAssumption
  <1>6. QED
    BY <1>3, <1>4, <1>5 DEF PayloadCap

LEMMA EncChunkRoom ==
    ASSUME FrameAssumption, NoOverflow, RoomInv, EncChunk, FrameInv' PROVE RoomInv'
  <1>1. /\ TypeOK /\ pc = "chunk" /\ pos < n /\ Began
        /\ UNCHANGED <<input, damage, decoder>>
    BY DEF RoomInv, FrameInv, EncChunk, Began
  <1>2. /\ n \in Nat /\ pos \in Nat /\ op \in Nat /\ size \in Nat \ {0} /\ cap \in Int
        /\ RawSize \in 1 .. size /\ RawSize <= n - pos
        /\ RawSize < n - pos => RawSize = size
        /\ ChunkHeader \in Nat /\ Len(chunks) \in Nat
        /\ BlockBound(size) \in Nat /\ BlockBound(RawSize) \in Nat
    <2>1. RawSize \in 1 .. size /\ RawSize <= n - pos /\ (RawSize < n - pos => RawSize = size)
      BY <1>1, RawSizeValue
    <2>2. size \in 1 .. MaxChunk /\ MaxChunk \in Nat
      BY <1>1 DEF TypeOK, FrameAssumption
    <2>3. BlockBound(size) \in Nat /\ BlockBound(RawSize) \in Nat
      BY <2>1, <2>2 DEF FrameAssumption
    <2>4. QED
      BY <1>1, <2>1, <2>2, <2>3 DEF TypeOK, FrameAssumption
  <1>3. /\ PayloadCap >= BlockBound(size) /\ BlockBound(size) >= BlockBound(RawSize)
        /\ BlockBound(RawSize) > RawSize
    BY <1>1, ChunkRoom
  <1>4. ~ (PayloadCap < 0) /\ ~ (PayloadCap < RawSize) /\ ~ (PayloadCap < BlockBound(RawSize))
    BY <1>2, <1>3, <1>1 DEF PayloadCap, TypeOK
  <1>5. PICK comp \in Outcomes :
            /\ chunks' = Append(chunks, Stored(StoredRaw(comp), comp))
            /\ op' = op + ChunkHeader + Stored(StoredRaw(comp), comp).comp
            /\ pos' = pos + RawSize
            /\ pc' = pc
    BY <1>4 DEF EncChunk
  <1>6. PICK z \in Nat : z = Stored(StoredRaw(comp), comp).comp /\ z <= BlockBound(size)
    <2>1. StoredRaw(comp) \/ comp \in 1 .. BlockBound(RawSize)
      BY <1>2, <1>4 DEF Outcomes, StoredRaw
    <2>2. Stored(StoredRaw(comp), comp).comp = IF StoredRaw(comp) THEN RawSize ELSE comp
      BY DEF Stored
    <2>3. QED
      BY <1>2, <1>3, <2>1, <2>2
  <1>7. PICK l \in Nat, k \in Nat, r \in Nat \ {0} :
            l = Len(chunks) /\ k = Cost(size) /\ r = RawSize
    BY <1>2 DEF Cost
  <1>8. Len(chunks') = l + 1 /\ chunks' # <<>>
    <2>1. chunks \in Seq(ChunkType)
      BY <1>1 DEF TypeOK
    <2>2. QED
      BY <1>5, <1>7, <2>1
  <1>9. op <= Header + l * k /\ pos = l * size /\ Header \in Nat
    BY <1>1, <1>7 DEF RoomInv, FrameAssumption
  <1>10. UNCHANGED <<n, size, cap>> /\ pc' = "chunk"
    BY <1>1, <1>5 DEF input
  <1>11. op' <= Header + (l + 1) * k
    <2>1. (l + 1) * k = l * k + k /\ l * k \in Nat
      BY Times
    <2>2. PICK x \in Nat : x = l * k
      BY <2>1
    <2>3. op' = (op + ChunkHeader) + z /\ k = ChunkHeader + BlockBound(size) /\ op <= Header + x
      BY <1>5, <1>6, <1>7, <1>9, <2>2 DEF Cost
    <2>4. op' <= Header + (x + k)
      <3>1. (op + ChunkHeader) + z <= (Header + x) + (ChunkHeader + BlockBound(size))
        <4>1. z <= BlockBound(size) /\ z \in Nat /\ BlockBound(size) \in Nat
          BY <1>2, <1>6
        <4>2. op <= Header + x /\ op \in Nat /\ Header \in Nat /\ x \in Nat /\ ChunkHeader \in Nat
          BY <1>2, <1>9, <2>2, <2>3
        <4>3. QED
          BY <4>1, <4>2
      <3>2. (Header + x) + k = Header + (x + k)
        BY <1>7, <1>9, <2>2
      <3>3. QED
        BY <2>3, <3>1, <3>2
    <2>5. QED
      BY <2>1, <2>2, <2>4
  <1>12. pos' < n => pos' = (l + 1) * size
    <2>1. (l + 1) * size = l * size + size /\ l * size \in Nat
      BY <1>2, Times
    <2>2. QED
      BY <1>2, <1>5, <1>9, <2>1
  <1>13. ((l + 1) - 1) * size < n
    <2>1. (l + 1) - 1 = l
      OBVIOUS
    <2>2. QED
      BY <1>1, <1>9, <2>1
  <1>14. /\ \E c \in ChunkSizes : size' = NormChunkSize(c)
         /\ cap' >= FrameBound(n', size')
    BY <1>1, <1>10 DEF RoomInv
  <1>15. Cost(size)' = k /\ (pc = "chunk")'
    BY <1>7, <1>10 DEF Cost
  <1>16. QED
    BY <1>8, <1>10, <1>11, <1>12, <1>13, <1>14, <1>15 DEF RoomInv

LEMMA NextRoom ==
    FrameAssumption /\ NoOverflow /\ RoomInv /\ [Next]_vars => RoomInv'
  <1> SUFFICES ASSUME FrameAssumption, NoOverflow, RoomInv, [Next]_vars PROVE RoomInv'
    OBVIOUS
  <1>1. FrameInv /\ FrameInv'
    BY NextFrame DEF RoomInv
  <1>2. CASE EncBegin
    <2>1. /\ UNCHANGED <<n, size, cap, pos, chunks>> /\ pc = "start"
          /\ \/ pc' = "refused"
             \/ pc' = "chunk" /\ op' = Header /\ ~ (cap < FrameBound(n, size))
      BY <1>2 DEF EncBegin, input, frame
    <2>2. chunks = <<>> /\ Header \in Nat
      BY <1>1, <2>1 DEF FrameInv, Layout, Began, FrameAssumption
    <2>3. cap \in Int /\ FrameBound(n, size) \in Int /\ Cost(size) \in Nat
      <3>1. n \in Nat /\ size \in 1 .. MaxChunk /\ cap \in Int
        BY <1>1 DEF FrameInv, TypeOK, FrameAssumption
      <3>2. Cost(size) \in Nat
        BY <3>1 DEF Cost, FrameAssumption
      <3>3. QED
        BY <3>1, <3>2, FrameBoundInt
    <2>4. Len(<<>>) = 0 /\ 0 * Cost(size) = 0
      BY <2>3
    <2>5. UNCHANGED <<FrameBound(n, size), Cost(size)>>
      BY <2>1 DEF Cost
    <2>6. pc' = "chunk" => cap >= FrameBound(n, size) /\ op' <= Header + Len(chunks) * Cost(size)
      BY <2>1, <2>2, <2>3, <2>4
    <2>7. QED
      BY <1>1, <2>1, <2>5, <2>6 DEF RoomInv, Began
  <1>3. CASE EncChunk
    BY <1>1, <1>3, EncChunkRoom
  <1>4. ASSUME UNCHANGED <<n, size, cap, op, pos, chunks>>,
               pc' = pc \/ pc' \in {"frame", "decode", "rejected", "decoded"},
               pc \notin {"start", "refused"} \/ pc' = pc
        PROVE  RoomInv'
    <2>1. UNCHANGED <<FrameBound(n, size), Cost(size)>>
      BY <1>4 DEF Cost
    <2>2. Began' = Began /\ (pc' = "chunk" => pc = "chunk") /\ pc' # "failed"
      BY <1>4 DEF Began, RoomInv
    <2>3. QED
      BY <1>1, <1>4, <2>1, <2>2 DEF RoomInv
  <1>5. CASE EncReturn
    BY <1>4, <1>5 DEF EncReturn, input, frame
  <1>6. CASE Damage
    BY <1>4, <1>6 DEF Damage, input
  <1>7. ASSUME NEW c \in Capacities, DecBegin(c) PROVE RoomInv'
    BY <1>4, <1>7 DEF DecBegin, input, frame
  <1>8. CASE DecChunk
    <2>1. pc = "decode" /\ pc' \in {"decode", "rejected"}
      BY <1>8 DEF DecChunk
    <2>2. QED
      BY <1>4, <1>8, <2>1 DEF DecChunk, input, frame
  <1>9. CASE DecReturn
    <2>1. pc = "decode" /\ pc' \in {"decoded", "rejected"}
      BY <1>9 DEF DecReturn, End
    <2>2. QED
      BY <1>4, <1>9, <2>1 DEF DecReturn, input, frame
  <1>10. CASE UNCHANGED vars
    BY <1>4, <1>10 DEF vars, input, frame
  <1>11. QED
    BY <1>2, <1>3, <1>5, <1>6, <1>7, <1>8, <1>9, <1>10 DEF Next

LEMMA RoomInvariant == NoOverflow => (Spec => []RoomInv)
  <1> SUFFICES ASSUME NoOverflow PROVE Spec => []RoomInv
    OBVIOUS
  <1>1. Init => RoomInv
    BY InitRoom, FrameAssumption
  <1>2. RoomInv /\ [Next]_vars => RoomInv'
    BY NextRoom, FrameAssumption
  <1>3. QED
    BY <1>1, <1>2, PTL DEF Spec

\* While the bound fits an int, elh_frame_compress never fails once it has
\* accepted its buffer, and every chunk has the room its block asks for.
THEOREM FrameRoomToTheEnd == NoOverflow => (Spec => []RoomToTheEnd)
  <1> SUFFICES ASSUME NoOverflow PROVE Spec => []RoomToTheEnd
    OBVIOUS
  <1>1. RoomInv => RoomToTheEnd
    <2> SUFFICES ASSUME RoomInv PROVE RoomToTheEnd
      OBVIOUS
    <2>1. ASSUME pc = "chunk", pos < n PROVE PayloadCap >= BlockBound(RawSize)
      <3>1. /\ PayloadCap >= BlockBound(size) /\ BlockBound(size) >= BlockBound(RawSize)
        BY <2>1, ChunkRoom, FrameAssumption
      <3>2. op \in Int /\ cap \in Int /\ ChunkHeader \in Int
        BY FrameAssumption DEF RoomInv, FrameInv, TypeOK, FrameAssumption
      <3>3. RawSize \in 1 .. MaxChunk /\ size \in 1 .. MaxChunk
        <4>1. TypeOK
          BY DEF RoomInv, FrameInv
        <4>2. RawSize \in 1 .. size
          BY <2>1, <4>1, RawSizeValue, FrameAssumption
        <4>3. size \in 1 .. MaxChunk /\ MaxChunk \in Nat
          BY <4>1, FrameAssumption DEF TypeOK, FrameAssumption
        <4>4. QED
          BY <4>2, <4>3
      <3>4. BlockBound(RawSize) \in Int /\ BlockBound(size) \in Int /\ PayloadCap \in Int
        BY <3>2, <3>3, FrameAssumption DEF FrameAssumption, PayloadCap
      <3>5. QED
        BY <3>1, <3>4
    <2>2. QED
      BY <2>1 DEF RoomToTheEnd, RoomInv
  <1>2. QED
    BY <1>1, RoomInvariant, PTL

\* What elh_frame_compress writes fits elh_frame_compress_bound.
THEOREM FrameWithinBound == NoOverflow => (Spec => []WithinBound)
  <1> SUFFICES ASSUME NoOverflow PROVE Spec => []WithinBound
    OBVIOUS
  <1>1. RoomInv => WithinBound
    BY Granted, FrameAssumption DEF WithinBound, Began
  <1>2. QED
    BY <1>1, RoomInvariant, PTL
-----------------------------------------------------------------------------
(***************************************************************************)
(* The contract with the callers.                                          *)
(***************************************************************************)
LEMMA SourceSize ==
    ASSUME FrameAssumption, FrameInv
    PROVE  /\ n \in SrcSizes /\ n \in Nat /\ Source \in Seq(Nat) /\ Len(Source) = n
           /\ Source = [j \in 1 .. n |-> j] /\ dcap \in Int
  <1>1. n \in SrcSizes /\ n \in Nat /\ dcap \in Int
    BY DEF FrameInv, TypeOK, FrameAssumption
  <1>2. QED
    BY <1>1 DEF Source

LEMMA ContractInit ==
    ASSUME FrameAssumption, Init
    PROVE  Contract!Init
  <1>1. Source \in {[j \in 1 .. m |-> j] : m \in SrcSizes}
    BY DEF Init, Source
  <1>2. pc = "start" /\ damage = Whole
    BY DEF Init
  <1>3. (cap >= FrameBound(n, size)) \in BOOLEAN
    OBVIOUS
  <1>4. QED
    BY <1>1, <1>2, <1>3 DEF Contract!Init

\* The first call returns: a frame was made just when the buffer was enough.
LEMMA ContractCompress ==
    ASSUME FrameAssumption, FrameInv, FrameInv', RoomInv, RoomInv',
           EncBegin \/ EncChunk \/ EncReturn
    PROVE  [Contract!Next]_(Contract!vars)
  <1>1. /\ pc \in {"start", "chunk"} /\ pc' \in {"refused", "failed", "chunk", "frame"}
        /\ UNCHANGED <<n, size, cap, damage, dcap, out>>
    BY DEF EncBegin, EncChunk, EncReturn, input, frame, decoder
  <1>2. /\ Source' = Source /\ UNCHANGED (cap >= FrameBound(n, size))
        /\ UNCHANGED (damage # Whole)
    BY <1>1 DEF Source, Whole
  <1>3. CASE pc' = "chunk"
    BY <1>1, <1>2, <1>3 DEF Contract!vars
  <1>4. CASE pc' = "refused"
    <2>1. ~ (cap >= FrameBound(n, size))
      <3>1. cap < FrameBound(n, size)
        BY <1>4 DEF EncBegin, EncChunk, EncReturn
      <3>2. cap \in Int /\ FrameBound(n, size) \in Int
        BY FrameBoundInt DEF FrameInv, TypeOK, FrameAssumption
      <3>3. QED
        BY <3>1, <3>2
    <2>2. Contract!Compress
      BY <1>1, <1>2, <1>4, <2>1 DEF Contract!Compress
    <2>3. QED
      BY <2>2 DEF Contract!Next
  <1>5. CASE pc' = "failed"
    BY <1>5 DEF RoomInv
  <1>6. CASE pc' = "frame"
    <2>1. cap >= FrameBound(n, size)
      <3>1. pc = "chunk"
        BY <1>6 DEF EncBegin, EncChunk, EncReturn
      <3>2. QED
        BY <3>1 DEF RoomInv
    <2>2. Contract!Compress
      BY <1>1, <1>2, <1>6, <2>1 DEF Contract!Compress
    <2>3. QED
      BY <2>2 DEF Contract!Next
  <1>7. QED
    BY <1>1, <1>3, <1>4, <1>5, <1>6

LEMMA ContractDamage ==
    ASSUME FrameAssumption, Damage
    PROVE  Contract!Damage
  <1>1. /\ pc = "frame" /\ pc' = "frame" /\ damage = Whole
        /\ UNCHANGED <<n, size, cap, dcap, out>>
        /\ damage'.kind \in Damages
    BY DEF Damage, Hurt, input, decoder
  <1>2. damage' # Whole
    BY <1>1 DEF Whole, FrameAssumption, AllDamages
  <1>3. Source' = Source /\ UNCHANGED (cap >= FrameBound(n, size)) /\ Whole' = Whole
    BY <1>1 DEF Source, Whole
  <1>4. QED
    BY <1>1, <1>2, <1>3 DEF Contract!Damage

\* The second call goes on, or returns.
LEMMA ContractDecompress ==
    ASSUME FrameAssumption, FrameInv, FrameInv',
           (\E c \in Capacities : DecBegin(c)) \/ DecChunk \/ DecReturn
    PROVE  [Contract!Next]_(Contract!vars)
  <1>1. /\ pc \in {"frame", "decode"} /\ pc' \in {"decode", "rejected", "decoded"}
        /\ UNCHANGED <<n, size, cap, damage>>
    BY DEF DecBegin, DecChunk, DecReturn, End, input, frame
  <1>2. /\ Source' = Source /\ UNCHANGED (cap >= FrameBound(n, size))
        /\ UNCHANGED (damage # Whole)
    BY <1>1 DEF Source, Whole
  <1>3. n \in Nat /\ Len(Source) = n /\ dcap' \in Int
    BY SourceSize DEF FrameInv, TypeOK
  <1>4. CASE pc' = "decode"
    BY <1>1, <1>2, <1>4 DEF Contract!vars
  <1>5. CASE pc' = "rejected"
    <2>1. damage # Whole \/ dcap' < n
      BY <1>1, <1>5 DEF FrameInv, FailsOnlyForRoom, Whole
    <2>2. Contract!Reject
      BY <1>1, <1>2, <1>3, <1>5, <2>1 DEF Contract!Reject
    <2>3. QED
      BY <2>2 DEF Contract!Next
  <1>6. CASE pc' = "decoded"
    <2>1. out' = Source
      BY <1>2, <1>6 DEF FrameInv, Lossless
    <2>2. dcap' >= n
      <3>1. pc = "decode" /\ UNCHANGED <<out, dcap>>
        BY <1>6 DEF DecBegin, DecChunk, DecReturn, decoder
      <3>2. Len(out) <= dcap
        BY <3>1 DEF FrameInv, Progress
      <3>3. QED
        BY <1>3, <2>1, <3>1, <3>2
    <2>3. Contract!Accept
      BY <1>1, <1>2, <1>3, <1>6, <2>1, <2>2 DEF Contract!Accept
    <2>4. QED
      BY <2>3 DEF Contract!Next
  <1>7. QED
    BY <1>1, <1>4, <1>5, <1>6

LEMMA ContractStep ==
    FrameAssumption /\ RoomInv /\ RoomInv' /\ [Next]_vars => [Contract!Next]_(Contract!vars)
  <1> SUFFICES ASSUME FrameAssumption, RoomInv, RoomInv', [Next]_vars
               PROVE  [Contract!Next]_(Contract!vars)
    OBVIOUS
  <1>1. FrameInv /\ FrameInv'
    BY DEF RoomInv
  <1>2. CASE UNCHANGED vars
    BY <1>2 DEF vars, input, frame, decoder, Contract!vars, Source, Whole
  <1>3. CASE Damage
    BY <1>3, ContractDamage DEF Contract!Next
  <1>4. QED
    BY <1>1, <1>2, <1>3, ContractCompress, ContractDecompress DEF Next

\* The frame functions keep the contract of their callers while the bound fits
\* an int: elh_frame.h, and the checks of elh_cli.c:91-149.
THEOREM FrameContract == NoOverflow => (Spec => ContractSpec)
  <1> SUFFICES ASSUME NoOverflow PROVE Spec => ContractSpec
    OBVIOUS
  <1>1. Init => Contract!Init
    BY ContractInit, FrameAssumption
  <1>2. RoomInv /\ RoomInv' /\ [Next]_vars => [Contract!Next]_(Contract!vars)
    BY ContractStep, FrameAssumption
  <1>3. QED
    BY <1>1, <1>2, RoomInvariant, PTL DEF Spec, ContractSpec, Contract!Spec

-----------------------------------------------------------------------------
(***************************************************************************)
(* No loop runs for ever: a chunk takes from the input at least one byte,  *)
(* and one that is accepted gives at least one byte of the output, which   *)
(* stays in its buffer.                                                    *)
(***************************************************************************)
CallLeft ==
    CASE pc = "chunk" -> n - pos + 1
      [] pc = "decode" -> dcap - Len(out) + 1
      [] OTHER -> 0

\* Every step of elh_frame_compress or elh_frame_decompress brings its return
\* nearer, also on a damaged frame (elh_frame.c:103-133, 155-184).
CallProgress ==
    [][CallLeft' \in Nat /\ (pc \in {"chunk", "decode"} => CallLeft' < CallLeft)]_vars

LeftNat ==
    /\ pc = "chunk" => CallLeft = n - pos + 1 /\ n - pos \in Nat
    /\ pc = "decode" => CallLeft = dcap - Len(out) + 1 /\ dcap - Len(out) \in Nat
    /\ pc \notin {"chunk", "decode"} => CallLeft = 0

LEMMA LeftType == FrameAssumption /\ FrameInv => LeftNat
  <1> SUFFICES ASSUME FrameAssumption, FrameInv PROVE LeftNat
    OBVIOUS
  <1>1. n \in Nat /\ pos \in 0 .. n /\ dcap \in Int /\ Len(out) \in Nat
    BY DEF FrameInv, TypeOK, FrameAssumption
  <1>2. pc = "decode" => Len(out) <= dcap
    BY DEF FrameInv, Progress
  <1>3. QED
    BY <1>1, <1>2 DEF LeftNat, CallLeft

LEMMA LeftFalls ==
    ASSUME FrameAssumption, FrameInv, FrameInv', LeftNat, LeftNat', Next,
           pc \in {"chunk", "decode"}
    PROVE  CallLeft' < CallLeft
  <1>1. CASE pc' \notin {"chunk", "decode"}
    BY <1>1 DEF LeftNat
  <1>2. CASE pc = "chunk" /\ pc' = "chunk"
    <2>1. EncChunk
      BY <1>2 DEF Next, EncBegin, EncReturn, Damage, DecBegin, DecChunk, DecReturn
    <2>2. pos < n /\ pos' = pos + RawSize /\ n' = n
      BY <1>2, <2>1 DEF EncChunk, input
    <2>3. RawSize \in 1 .. size /\ size \in Nat /\ pos \in Nat /\ n \in Nat
      <3>1. TypeOK
        BY DEF FrameInv
      <3>2. RawSize \in 1 .. size
        BY <2>2, <3>1, RawSizeValue
      <3>3. size \in Nat /\ pos \in Nat /\ n \in Nat
        BY <3>1 DEF TypeOK, FrameAssumption
      <3>4. QED
        BY <3>2, <3>3
    <2>4. CallLeft = n - pos + 1 /\ CallLeft' = n - (pos + RawSize) + 1
      BY <1>2, <2>2 DEF LeftNat
    <2>5. QED
      BY <2>3, <2>4
  <1>3. CASE pc = "decode" /\ pc' = "decode"
    <2>1. DecChunk
      BY <1>3 DEF Next, EncBegin, EncChunk, EncReturn, Damage, DecBegin, DecReturn, End
    <2>2. Accepted /\ out' = out \o [j \in 1 .. RawField |-> Chunk.from + j] /\ dcap' = dcap
      BY <1>3, <2>1 DEF DecChunk
    <2>3. RawField \in Nat /\ RawField > 0
      BY <2>2 DEF Accepted, FrameAssumption
    <2>4. Len(out') = Len(out) + RawField
      <3> DEFINE s == [j \in 1 .. RawField |-> Chunk.from + j]
                 S == Nat \cup {s[j] : j \in 1 .. RawField}
      <3>1. s \in Seq(S) /\ Len(s) = RawField
        BY <2>3
      <3>2. out' = out \o s
        BY <2>2
      <3>3. out \in Seq(Nat)
        BY DEF FrameInv, TypeOK
      <3>4. Nat \subseteq S
        OBVIOUS
      <3> HIDE DEF s, S
      <3>5. out \in Seq(S)
        BY <3>3, <3>4
      <3>6. QED
        BY <3>1, <3>2, <3>5, ConcatProperties
    <2>5. dcap \in Int /\ Len(out) \in Nat
      BY DEF FrameInv, TypeOK
    <2>6. CallLeft = dcap - Len(out) + 1 /\ CallLeft' = dcap - (Len(out) + RawField) + 1
      BY <1>3, <2>2, <2>4 DEF LeftNat
    <2>7. QED
      BY <2>3, <2>5, <2>6
  <1>4. CASE pc # pc' /\ pc' \in {"chunk", "decode"}
    BY <1>4 DEF Next, EncBegin, EncChunk, EncReturn, Damage, DecBegin, DecChunk, DecReturn, End
  <1>5. QED
    BY <1>1, <1>2, <1>3, <1>4

THEOREM FrameProgress == Spec => CallProgress
  <1>1. FrameInv => LeftNat
    BY LeftType, FrameAssumption
  <1>2. FrameInv /\ FrameInv' /\ LeftNat /\ LeftNat' /\ [Next]_vars
          => [CallLeft' \in Nat /\ (pc \in {"chunk", "decode"} => CallLeft' < CallLeft)]_vars
    <2>1. LeftNat' => CallLeft' \in Nat
      BY DEF LeftNat
    <2>2. QED
      BY <2>1, LeftFalls, FrameAssumption
  <1>3. QED
    BY <1>1, <1>2, FrameInvariant, PTL DEF Spec, CallProgress
=============================================================================
