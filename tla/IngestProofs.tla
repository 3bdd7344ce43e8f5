---------------------------- MODULE IngestProofs -----------------------------
(***************************************************************************)
(* What IngestStore guarantees whatever fails and crashes, for any batches *)
(* and any number of threads.  ReplayIsWhole and NeverMissing rest on what *)
(* the writer keeps true of the files; that in turn rests on how far the   *)
(* line of the running store has been written.  ListingIsNewest rests on   *)
(* the order in which the file lists the batches.                          *)
(***************************************************************************)
EXTENDS IngestStore, SequenceTheorems, FiniteSetTheorems,
        WellFoundedInduction, NaturalsInduction, TLAPS

Answers == {"free", "read", "load", "200", "400", "404", "500"}
Kinds == {"list", "metadata", "compressed", "decompress"}
Content == {"none", "part", "whole"}

\* The types the arguments below use; what a listing shows is left open.
StoreTypes ==
    /\ files \in [Batches -> Content]
    /\ meta \in Seq(Pieces)
    /\ acked \in Seq(Batches)
    /\ store \in [pc : {"idle", "frame", "meta"}, batch : Batches \cup {None},
                  rest : Seq(Pieces)]
    /\ store.pc # "idle" => store.batch \in Batches

\* The file f ends with the line of b up to its last pieces, rest.
EndsWith(f, rest, b) ==
    \E w \in 0 .. 3 :
       /\ Len(rest) = 3 - w
       /\ w <= Len(f)
       /\ \A j \in 1 .. w : f[Len(f) - w + j] = Line(b)[j]
       /\ \A j \in 1 .. Len(rest) : rest[j] = Line(b)[w + j]

\* What the running store has still to write of its line follows what the
\* file ends with.
LineInv ==
    store.pc = "meta" => /\ files[store.batch] = "whole"
                         /\ EndsWith(meta, store.rest, store.batch)

RequestType(q) ==
    q \in [pc : Answers, kind : Kinds, arg : Batches \cup {None} \cup Nat,
           known : Nat, got : {q.got}, frame : Content]

\* A request beside the frame files f and the acknowledged batches a: it
\* knows of no batch that is not acknowledged, it looks for the frame of a
\* batch that has one, and its answer is right.
RequestInv(q, f, a) ==
    /\ RequestType(q)
    /\ q.known <= Len(a)
    /\ q.pc = "load" => q.arg \in Batches /\ f[q.arg] = "whole"
    /\ q.pc # "400"
    /\ q.pc = "200" /\ q.kind \in {"compressed", "decompress"} => q.frame = "whole"
    /\ q.pc = "404" => \A i \in 1 .. q.known : a[i] # q.arg

ReaderInv ==
    /\ reader = [r \in Readers |-> reader[r]]
    /\ \A r \in Readers : RequestInv(reader[r], files, acked)

WriterInv == StoreTypes /\ LineInv /\ FrameBeforeMetadata /\ AckedRecorded

StoreInv == WriterInv /\ ReaderInv

-----------------------------------------------------------------------------
LEMMA LineFacts ==
    ASSUME NEW b \in Batches
    PROVE  /\ Line(b) \in Seq(Pieces) /\ Len(Line(b)) = 3
           /\ \A j \in 1 .. 3 : Line(b)[j] \in Pieces /\ Line(b)[j].batch = b
           /\ Line(b)[1] = [batch |-> b, part |-> "open"]
BY DEF Line, Pieces, Parts

LEMMA WholeLine ==
    ASSUME NEW b \in Batches, NEW f \in Seq(Pieces)
    PROVE  EndsWith(f, Line(b), b)
<1>1. Len(Line(b)) = 3
    BY LineFacts
<1>2. Len(f) \in Nat
    OBVIOUS
<1> QED
    BY <1>1, <1>2 DEF EndsWith

\* Writing n more pieces of the line: the file keeps its pieces, gains some
\* of b's and ends with more of b's line.
LEMMA MorePieces ==
    ASSUME NEW b \in Batches, NEW f \in Seq(Pieces), NEW rest \in Seq(Pieces),
           EndsWith(f, rest, b), NEW n \in 1 .. Len(rest)
    PROVE  LET g == f \o SubSeq(rest, 1, n)
               left == SubSeq(rest, n + 1, Len(rest))
           IN /\ g \in Seq(Pieces) /\ Len(g) = Len(f) + n
              /\ left \in Seq(Pieces)
              /\ \A i \in 1 .. Len(f) : g[i] = f[i]
              /\ \A i \in Len(f) + 1 .. Len(g) : g[i].batch = b
              /\ EndsWith(g, left, b)
<1> DEFINE g == f \o SubSeq(rest, 1, n)
           left == SubSeq(rest, n + 1, Len(rest))
           m == Len(f)
           l == Len(rest)
<1>1. PICK w \in 0 .. 3 :
        /\ l = 3 - w
        /\ w <= m
        /\ \A j \in 1 .. w : f[m - w + j] = Line(b)[j]
        /\ \A j \in 1 .. l : rest[j] = Line(b)[w + j]
    BY DEF EndsWith
<1>2. m \in Nat /\ l \in Nat /\ n \in 1 .. l /\ w \in 0 .. 3 /\ w <= m /\ l = 3 - w
    BY <1>1
<1>3. /\ SubSeq(rest, 1, n) \in Seq(Pieces) /\ Len(SubSeq(rest, 1, n)) = n
      /\ \A j \in 1 .. n : SubSeq(rest, 1, n)[j] = rest[j]
    BY <1>2
<1>4. /\ left \in Seq(Pieces) /\ Len(left) = l - n
      /\ \A j \in 1 .. l - n : left[j] = rest[n + j]
  <2>1. /\ left \in Seq(Pieces) /\ Len(left) = l - n
        /\ \A j \in 1 .. l - n : left[j] = rest[(n + 1) + j - 1]
    BY <1>2
  <2>2. \A j \in 1 .. l - n : (n + 1) + j - 1 = n + j
    BY <1>2
  <2> QED
    BY <2>1, <2>2
<1>5. /\ g \in Seq(Pieces) /\ Len(g) = m + n
      /\ \A i \in 1 .. m : g[i] = f[i]
      /\ \A j \in 1 .. n : g[m + j] = rest[j]
    BY <1>2, <1>3
<1> HIDE DEF g, left, m, l
<1>6. ASSUME NEW i \in m + 1 .. m + n PROVE g[i].batch = b
  <2>1. i - m \in 1 .. n /\ i - m \in 1 .. l /\ w + (i - m) \in 1 .. 3 /\ m + (i - m) = i
    BY <1>2
  <2>2. g[i] = Line(b)[w + (i - m)]
    BY <1>1, <1>5, <2>1
  <2> QED
    BY <2>1, <2>2, LineFacts
<1>7. ASSUME NEW j \in 1 .. w + n PROVE g[m - w + j] = Line(b)[j]
  <2>1. CASE j <= w
    <3>1. j \in 1 .. w /\ m - w + j \in 1 .. m
        BY <1>2, <2>1
    <3> QED
        BY <1>1, <1>5, <3>1
  <2>2. CASE j > w
    <3> DEFINE k == j - w
    <3>1. k \in 1 .. n /\ k \in 1 .. l /\ m - w + j = m + k /\ w + k = j
        BY <1>2, <2>2
    <3> HIDE DEF k
    <3>2. g[m + k] = rest[k] /\ rest[k] = Line(b)[w + k]
        BY <1>1, <1>5, <3>1
    <3> QED
        BY <3>1, <3>2
  <2>3. j <= w \/ j > w
    BY <1>2
  <2> QED
    BY <2>1, <2>2, <2>3
<1>8. ASSUME NEW j \in 1 .. l - n PROVE left[j] = Line(b)[w + n + j]
  <2>1. n + j \in 1 .. l /\ w + (n + j) = w + n + j
    BY <1>2
  <2> QED
    BY <1>1, <1>4, <2>1
<1>9. EndsWith(g, left, b)
  <2>1. w + n \in 0 .. 3 /\ Len(left) = 3 - (w + n) /\ w + n <= Len(g)
    BY <1>2, <1>4, <1>5
  <2>2. ASSUME NEW j \in 1 .. w + n PROVE g[Len(g) - (w + n) + j] = Line(b)[j]
    <3>1. Len(g) - (w + n) + j = m - w + j
        BY <1>2, <1>5
    <3> QED
        BY <1>7, <3>1
  <2>3. ASSUME NEW j \in 1 .. Len(left) PROVE left[j] = Line(b)[(w + n) + j]
    BY <1>4, <1>8
  <2> QED
    BY <2>1, <2>2, <2>3 DEF EndsWith
<1> QED
    BY <1>4, <1>5, <1>6, <1>9 DEF g, left, m, l

LEMMA InitInv == Init => StoreInv
<1> SUFFICES ASSUME Init PROVE StoreInv
    OBVIOUS
<1>1. StoreTypes /\ LineInv
    BY DEF Init, StoreTypes, LineInv, Idle, Content
<1>2. FrameBeforeMetadata /\ AckedRecorded
    BY DEF Init, FrameBeforeMetadata, AckedRecorded
<1>3. ReaderInv
  <2>1. RequestInv(Free, files, acked)
    BY DEF Free, RequestInv, RequestType, Answers, Kinds, Content, Init
  <2> QED
    BY <2>1 DEF Init, ReaderInv
<1> QED
    BY <1>1, <1>2, <1>3 DEF StoreInv, WriterInv

-----------------------------------------------------------------------------
(***************************************************************************)
(* Requests beside a store: frames stay whole, acknowledgements stay.      *)
(***************************************************************************)
LEMMA ReaderKept ==
    ASSUME StoreInv, reader' = reader,
           \A b \in Batches : files[b] = "whole" => files'[b] = "whole",
           Len(acked') >= Len(acked), Len(acked') \in Nat,
           \A a \in 1 .. Len(acked) : acked'[a] = acked[a]
    PROVE  ReaderInv'
<1>1. Len(acked) \in Nat
    BY DEF StoreInv, WriterInv, StoreTypes
<1>2. ASSUME NEW r \in Readers 
      PROVE  RequestInv(reader[r], files', acked')
  <2>1. RequestInv(reader[r], files, acked)
    BY DEF StoreInv, ReaderInv
  <2>2. RequestType(reader[r]) /\ reader[r].known \in Nat
    BY <2>1 DEF RequestInv, RequestType
  <2>3. reader[r].pc = "404" => \A a \in 1 .. reader[r].known : acked'[a] # reader[r].arg
    BY <1>1, <2>1, <2>2 DEF RequestInv
  <2> QED
    BY <1>1, <2>1, <2>2, <2>3 DEF RequestInv
<1> QED
    BY <1>2 DEF StoreInv, ReaderInv

LEMMA BeginStoreInv ==
    ASSUME StoreInv, NEW b \in Batches, BeginStore(b)
    PROVE  StoreInv'
<1> USE DEF StoreInv, WriterInv, StoreTypes
<1>1. StoreTypes'
    BY DEF BeginStore, Content
<1>2. LineInv'
    BY DEF BeginStore, LineInv
<1>3. \A c \in Batches : files[c] = "whole" => files'[c] = "whole"
    BY DEF BeginStore
<1>4. FrameBeforeMetadata'
    BY <1>3 DEF BeginStore, FrameBeforeMetadata, Pieces
<1>5. AckedRecorded'
    BY DEF BeginStore, AckedRecorded
<1>6. ReaderInv'
    BY <1>3, ReaderKept DEF BeginStore
<1> QED
    BY <1>1, <1>2, <1>4, <1>5, <1>6

LEMMA WriteFrameInv ==
    ASSUME StoreInv, WriteFrame
    PROVE  StoreInv'
<1> USE DEF StoreInv, WriterInv, StoreTypes
<1> DEFINE b == store.batch
<1>0. b \in Batches
    BY DEF WriteFrame
<1>1. StoreTypes' /\ store' = [pc |-> "meta", batch |-> b, rest |-> Line(b)]
    BY <1>0, LineFacts DEF WriteFrame, Content
<1>2. LineInv'
  <2>1. files'[b] = "whole" /\ meta' = meta
    BY <1>0 DEF WriteFrame
  <2> QED
    BY <1>0, <1>1, <2>1, WholeLine DEF LineInv
<1>3. \A c \in Batches : files[c] = "whole" => files'[c] = "whole"
    BY <1>0 DEF WriteFrame
<1>4. FrameBeforeMetadata'
    BY <1>3 DEF WriteFrame, FrameBeforeMetadata, Pieces
<1>5. AckedRecorded'
    BY DEF WriteFrame, AckedRecorded
<1>6. ReaderInv'
    BY <1>3, ReaderKept DEF WriteFrame
<1> QED
    BY <1>1, <1>2, <1>4, <1>5, <1>6

\* What a piece of a line that becomes visible does to the file.
LEMMA WriteLineFacts ==
    ASSUME StoreInv, NEW n \in 1 .. 3, WriteLine(n)
    PROVE  LET b == store.batch
           IN /\ b \in Batches /\ meta \in Seq(Pieces) /\ store.rest \in Seq(Pieces)
              /\ n \in 1 .. Len(store.rest) /\ files[b] = "whole"
              /\ EndsWith(meta, store.rest, b)
              /\ store' = [pc |-> "meta", batch |-> b, rest |-> store'.rest]
              /\ UNCHANGED <<files, reader, acked, faults>>
              /\ meta' \in Seq(Pieces) /\ Len(meta') = Len(meta) + n
              /\ store'.rest \in Seq(Pieces) /\ Len(store'.rest) = Len(store.rest) - n
              /\ \A i \in 1 .. Len(meta) : meta'[i] = meta[i]
              /\ \A i \in Len(meta) + 1 .. Len(meta') : meta'[i].batch = b
              /\ EndsWith(meta', store'.rest, b)
<1> DEFINE b == store.batch
<1>1. /\ b \in Batches /\ meta \in Seq(Pieces) /\ store.rest \in Seq(Pieces)
      /\ n \in 1 .. Len(store.rest) /\ files[b] = "whole"
      /\ EndsWith(meta, store.rest, b)
    BY DEF WriteLine, StoreInv, WriterInv, StoreTypes, LineInv
<1>2. /\ meta' = meta \o SubSeq(store.rest, 1, n)
      /\ store' = [pc |-> "meta", batch |-> b,
                   rest |-> SubSeq(store.rest, n + 1, Len(store.rest))]
      /\ UNCHANGED <<files, reader, acked, faults>>
    BY DEF WriteLine, StoreInv, WriterInv, StoreTypes
<1>3. /\ meta' \in Seq(Pieces) /\ Len(meta') = Len(meta) + n
      /\ store'.rest \in Seq(Pieces)
      /\ \A i \in 1 .. Len(meta) : meta'[i] = meta[i]
      /\ \A i \in Len(meta) + 1 .. Len(meta') : meta'[i].batch = b
      /\ EndsWith(meta', store'.rest, b)
  <2> DEFINE g == meta \o SubSeq(store.rest, 1, n)
             left == SubSeq(store.rest, n + 1, Len(store.rest))
  <2>1. /\ g \in Seq(Pieces) /\ Len(g) = Len(meta) + n
        /\ left \in Seq(Pieces)
        /\ \A i \in 1 .. Len(meta) : g[i] = meta[i]
        /\ \A i \in Len(meta) + 1 .. Len(g) : g[i].batch = b
        /\ EndsWith(g, left, b)
    BY <1>1, MorePieces, Zenon
  <2>2. meta' = g /\ store'.rest = left
    BY <1>2
  <2> HIDE DEF g, left, b
  <2> QED
    BY <2>1, <2>2
<1>4. Len(store'.rest) = Len(store.rest) - n
    BY <1>1, <1>2
<1> HIDE DEF b
<1>5. store' = [pc |-> "meta", batch |-> b, rest |-> store'.rest]
    BY <1>2
<1> QED
    BY <1>1, <1>2, <1>3, <1>4, <1>5 DEF b

LEMMA WriteLineInv ==
    ASSUME StoreInv, NEW n \in 1 .. 3, WriteLine(n)
    PROVE  StoreInv'
<1> DEFINE b == store.batch
<1>1. /\ b \in Batches /\ meta \in Seq(Pieces) /\ store.rest \in Seq(Pieces)
      /\ n \in 1 .. Len(store.rest) /\ files[b] = "whole"
      /\ EndsWith(meta, store.rest, b)
    BY WriteLineFacts
<1>2. /\ store' = [pc |-> "meta", batch |-> b, rest |-> store'.rest]
      /\ UNCHANGED <<files, reader, acked>>
    BY WriteLineFacts
<1>3. /\ meta' \in Seq(Pieces) /\ Len(meta') = Len(meta) + n
      /\ store'.rest \in Seq(Pieces)
      /\ \A i \in 1 .. Len(meta) : meta'[i] = meta[i]
      /\ \A i \in Len(meta) + 1 .. Len(meta') : meta'[i].batch = b
      /\ EndsWith(meta', store'.rest, b)
    BY WriteLineFacts
<1>4. StoreTypes'
    BY <1>1, <1>2, <1>3 DEF StoreInv, WriterInv, StoreTypes
<1>5. LineInv'
    BY <1>1, <1>2, <1>3 DEF LineInv
<1>6. FrameBeforeMetadata'
  <2>1. ASSUME NEW i \in 1 .. Len(meta') PROVE files[meta'[i].batch] = "whole"
    <3>1. CASE i \in 1 .. Len(meta)
        BY <1>1, <1>3, <3>1 DEF StoreInv, WriterInv, FrameBeforeMetadata
    <3>2. CASE i \in Len(meta) + 1 .. Len(meta')
        BY <1>1, <1>3, <3>2
    <3> QED
        BY <1>1, <1>3, <3>1, <3>2
  <2>2. DOMAIN meta' = 1 .. Len(meta') /\ files' = files
    BY <1>2, <1>3
  <2> QED
    BY <2>1, <2>2 DEF FrameBeforeMetadata
<1>7. AckedRecorded'
  <2> SUFFICES ASSUME NEW a \in DOMAIN acked
               PROVE  \E i \in 0 .. Len(meta') - 3 :
                        \A j \in 1 .. 3 : meta'[i + j] = Line(acked[a])[j]
    BY <1>2 DEF AckedRecorded
  <2>1. PICK i \in 0 .. Len(meta) - 3 : \A j \in 1 .. 3 : meta[i + j] = Line(acked[a])[j]
    BY DEF StoreInv, WriterInv, AckedRecorded
  <2>2. i \in 0 .. Len(meta') - 3 /\ \A j \in 1 .. 3 : i + j \in 1 .. Len(meta)
    BY <1>1, <1>3, <2>1
  <2> QED
    BY <1>3, <2>1, <2>2
<1>8. ReaderInv'
    BY <1>2, ReaderKept DEF StoreInv, WriterInv, StoreTypes
<1> QED
    BY <1>4, <1>5, <1>6, <1>7, <1>8 DEF StoreInv, WriterInv

LEMMA ReplyInv ==
    ASSUME StoreInv, Reply
    PROVE  StoreInv'
<1> DEFINE b == store.batch
           m == Len(meta)
<1>1. /\ b \in Batches /\ m \in Nat /\ m >= 3
      /\ \A j \in 1 .. 3 : meta[m - 3 + j] = Line(b)[j]
    BY DEF Reply, StoreInv, WriterInv, StoreTypes, LineInv, EndsWith
<1>2. /\ acked \in Seq(Batches)
      /\ acked' \in Seq(Batches) /\ Len(acked') = Len(acked) + 1
      /\ \A a \in 1 .. Len(acked) : acked'[a] = acked[a]
      /\ acked'[Len(acked) + 1] = b
    BY <1>1 DEF Reply, StoreInv, WriterInv, StoreTypes
<1>3. StoreTypes' /\ LineInv'
    BY <1>2 DEF Reply, Idle, LineInv, StoreInv, WriterInv, StoreTypes
<1>4. FrameBeforeMetadata'
    BY DEF Reply, FrameBeforeMetadata, StoreInv, WriterInv
<1>5. AckedRecorded'
  <2>1. ASSUME NEW a \in 1 .. Len(acked) + 1
        PROVE  \E i \in 0 .. m - 3 :
                 \A j \in 1 .. 3 : meta[i + j] = Line(acked'[a])[j]
    <3>1. CASE a \in 1 .. Len(acked)
        BY <1>2, <3>1 DEF StoreInv, WriterInv, AckedRecorded
    <3>2. CASE a = Len(acked) + 1
      <4>1. m - 3 \in 0 .. m - 3
        BY <1>1
      <4> QED
        BY <1>1, <1>2, <3>2, <4>1
    <3> QED
        BY <1>2, <3>1, <3>2
  <2>2. DOMAIN acked' = 1 .. Len(acked) + 1 /\ meta' = meta
    BY <1>2 DEF Reply
  <2> QED
    BY <2>1, <2>2 DEF AckedRecorded
<1>6. ReaderInv'
    BY <1>2, ReaderKept DEF Reply
<1> QED
    BY <1>3, <1>4, <1>5, <1>6 DEF StoreInv, WriterInv

LEMMA FailStoreInv ==
    ASSUME StoreInv, FailStore
    PROVE  StoreInv'
<1> USE DEF StoreInv, WriterInv, StoreTypes
<1>1. WriterInv'
    BY DEF FailStore, Idle, LineInv, FrameBeforeMetadata, AckedRecorded
<1>2. ReaderInv'
    BY ReaderKept DEF FailStore
<1> QED
    BY <1>1, <1>2

LEMMA CrashInv ==
    ASSUME StoreInv, Crash
    PROVE  StoreInv'
<1>1. WriterInv'
    BY DEF Crash, Idle, LineInv, FrameBeforeMetadata, AckedRecorded,
           StoreInv, WriterInv, StoreTypes
<1>2. RequestInv(Free, files', acked')
  <2>1. Len(acked') \in Nat
    BY <1>1 DEF WriterInv, StoreTypes
  <2> QED
    BY <2>1 DEF Free, RequestInv, RequestType, Answers, Kinds, Content
<1>3. ReaderInv'
    BY <1>2 DEF Crash, ReaderInv
<1> QED
    BY <1>1, <1>3 DEF StoreInv

-----------------------------------------------------------------------------
(***************************************************************************)
(* The steps of a request, each of which replaces one request by another.  *)
(***************************************************************************)
LEMMA RequestReplaced ==
    ASSUME StoreInv, NEW r \in Readers, UNCHANGED <<files, meta, store, acked>>
    PROVE  \A q : /\ RequestInv(q, files, acked)
                  /\ reader' = [reader EXCEPT ![r] = q]
                  => StoreInv'
<1> SUFFICES ASSUME NEW q, RequestInv(q, files, acked),
                    reader' = [reader EXCEPT ![r] = q]
             PROVE  StoreInv'
    OBVIOUS
<1>1. WriterInv'
    BY DEF StoreInv, WriterInv, StoreTypes, LineInv, FrameBeforeMetadata, AckedRecorded
<1>2. ASSUME NEW p \in Readers PROVE RequestInv(reader'[p], files', acked')
    BY DEF StoreInv, ReaderInv
<1>3. reader' = [p \in Readers |-> reader'[p]]
    BY DEF StoreInv, ReaderInv
<1> QED
    BY <1>1, <1>2, <1>3 DEF StoreInv, ReaderInv

LEMMA BeginReadInv ==
    ASSUME StoreInv, NEW r \in Readers, NEW q \in Requests, BeginRead(r, q[1], q[2])
    PROVE  StoreInv'
<1> DEFINE new == [Free EXCEPT !.pc = "read", !.kind = q[1], !.arg = q[2],
                               !.known = Len(acked)]
<1>1. q[1] \in Kinds /\ q[2] \in Batches \cup Nat
    BY LimitsAssumption DEF Requests, Kinds
<1>2. Len(acked) \in Nat
    BY DEF StoreInv, WriterInv, StoreTypes
<1>3. RequestInv(new, files, acked)
  <2> DEFINE Known == [pc : Answers, kind : Kinds, arg : Batches \cup {None} \cup Nat,
                       known : Nat, got : {<<>>}, frame : Content]
  <2>1. Free \in Known
    BY DEF Free, Answers, Kinds, Content
  <2>2. new \in Known /\ new.pc = "read" /\ new.known = Len(acked)
    <3>1. "read" \in Answers
        BY DEF Answers
    <3> QED
        BY <1>1, <1>2, <2>1, <3>1
  <2> HIDE DEF new
  <2>3. RequestType(new)
    BY <2>2 DEF RequestType
  <2> QED
    BY <1>2, <2>2, <2>3 DEF RequestInv
<1>4. /\ reader' = [reader EXCEPT ![r] = new]
      /\ UNCHANGED <<files, meta, store, acked>>
    BY DEF BeginRead
<1> HIDE DEF new
<1> QED
    BY <1>3, <1>4, RequestReplaced

\* find_metadata returns what was acknowledged, and only batches that have
\* their frame.
LEMMA FoundFacts ==
    ASSUME StoreInv, NEW b
    PROVE  /\ Found(meta, b) => b \in Batches /\ files[b] = "whole"
           /\ ~Found(meta, b) => \A i \in 1 .. Len(acked) : acked[i] # b
<1>0. meta \in Seq(Pieces) /\ acked \in Seq(Batches)
    BY DEF StoreInv, WriterInv, StoreTypes
<1>1. ASSUME Found(meta, b) PROVE b \in Batches /\ files[b] = "whole"
  <2>1. PICK i \in DOMAIN meta : meta[i] = Line(b)[1]
    BY <1>1 DEF Found
  <2>2. meta[i].batch = b
    BY <2>1 DEF Line
  <2>3. meta[i].batch \in Batches
    <3>1. meta[i] \in Pieces
        BY <1>0, <2>1
    <3> QED
        BY <3>1 DEF Pieces
  <2> QED
    BY <2>2, <2>3 DEF StoreInv, WriterInv, FrameBeforeMetadata
<1>2. ASSUME NEW i \in 1 .. Len(acked), acked[i] = b PROVE Found(meta, b)
  <2>1. PICK k \in 0 .. Len(meta) - 3 : \A j \in 1 .. 3 : meta[k + j] = Line(b)[j]
    <3>1. AckedRecorded /\ i \in DOMAIN acked
        BY <1>0 DEF StoreInv, WriterInv
    <3> QED
        BY <1>2, <3>1 DEF AckedRecorded
  <2>2. k + 1 \in DOMAIN meta /\ meta[k + 1] = Line(b)[1]
    BY <1>0, <2>1
  <2> QED
    BY <2>2 DEF Found
<1> QED
    BY <1>1, <1>2

LEMMA ReadMetaInv ==
    ASSUME StoreInv, NEW r \in Readers, ReadMeta(r)
    PROVE  StoreInv'
<1> DEFINE q == reader[r]
<1>1. RequestInv(q, files, acked) /\ q.pc = "read" /\ Len(acked) \in Nat
    BY DEF StoreInv, ReaderInv, ReadMeta, WriterInv, StoreTypes
<1>2. UNCHANGED <<files, meta, store, acked>>
    BY DEF ReadMeta
<1>3. \/ reader' = [reader EXCEPT ![r] = [q EXCEPT !.pc = "500"]]
      \/ /\ q.kind = "list"
         /\ reader' = [reader EXCEPT ![r] =
              [q EXCEPT !.pc = "200", !.got = LastEntries(Entries(meta), q.arg)]]
      \/ /\ ~Found(meta, q.arg)
         /\ reader' = [reader EXCEPT ![r] = [q EXCEPT !.pc = "404"]]
      \/ /\ q.kind = "metadata"
         /\ reader' = [reader EXCEPT ![r] = [q EXCEPT !.pc = "200"]]
      \/ /\ Found(meta, q.arg)
         /\ reader' = [reader EXCEPT ![r] = [q EXCEPT !.pc = "load"]]
    BY DEF ReadMeta
<1> HIDE DEF q
<1>4. CASE reader' = [reader EXCEPT ![r] = [q EXCEPT !.pc = "500"]]
  <2>1. RequestInv([q EXCEPT !.pc = "500"], files, acked)
    BY <1>1 DEF RequestInv, RequestType, Answers
  <2> QED
    BY <1>2, <1>4, <2>1, RequestReplaced
<1>5. CASE /\ q.kind = "list"
           /\ reader' = [reader EXCEPT ![r] =
                [q EXCEPT !.pc = "200", !.got = LastEntries(Entries(meta), q.arg)]]
  <2> DEFINE shown == LastEntries(Entries(meta), q.arg)
  <2> HIDE DEF shown
  <2>1. RequestInv([q EXCEPT !.pc = "200", !.got = shown], files, acked)
    BY <1>1, <1>5 DEF RequestInv, RequestType, Answers
  <2>2. reader' = [reader EXCEPT ![r] = [q EXCEPT !.pc = "200", !.got = shown]]
    BY <1>5 DEF shown
  <2> QED
    BY <1>2, <2>1, <2>2, RequestReplaced
<1>6. CASE /\ ~Found(meta, q.arg)
           /\ reader' = [reader EXCEPT ![r] = [q EXCEPT !.pc = "404"]]
  <2>1. \A i \in 1 .. q.known : acked[i] # q.arg
    BY <1>1, <1>6, FoundFacts DEF RequestInv, RequestType
  <2>2. RequestInv([q EXCEPT !.pc = "404"], files, acked)
    BY <1>1, <2>1 DEF RequestInv, RequestType, Answers
  <2> QED
    BY <1>2, <1>6, <2>2, RequestReplaced
<1>7. CASE /\ q.kind = "metadata"
           /\ reader' = [reader EXCEPT ![r] = [q EXCEPT !.pc = "200"]]
  <2>1. RequestInv([q EXCEPT !.pc = "200"], files, acked)
    BY <1>1, <1>7 DEF RequestInv, RequestType, Answers
  <2> QED
    BY <1>2, <1>7, <2>1, RequestReplaced
<1>8. CASE /\ Found(meta, q.arg)
           /\ reader' = [reader EXCEPT ![r] = [q EXCEPT !.pc = "load"]]
  <2>1. q.arg \in Batches /\ files[q.arg] = "whole"
    BY <1>8, FoundFacts
  <2>2. RequestInv([q EXCEPT !.pc = "load"], files, acked)
    BY <1>1, <2>1 DEF RequestInv, RequestType, Answers
  <2> QED
    BY <1>2, <1>8, <2>2, RequestReplaced
<1> QED
    BY <1>3, <1>4, <1>5, <1>6, <1>7, <1>8

LEMMA LoadFrameInv ==
    ASSUME StoreInv, NEW r \in Readers, LoadFrame(r)
    PROVE  StoreInv'
<1> DEFINE q == reader[r]
           new == [q EXCEPT !.frame = "whole", !.pc = "200"]
<1>1. RequestInv(q, files, acked) /\ q.pc = "load"
    BY DEF StoreInv, ReaderInv, LoadFrame
<1>2. files[q.arg] = "whole"
    BY <1>1 DEF RequestInv
<1>3. reader' = [reader EXCEPT ![r] = new] /\ UNCHANGED <<files, meta, store, acked>>
    BY <1>2 DEF LoadFrame
<1>4. RequestInv(new, files, acked)
    BY <1>1 DEF RequestInv, RequestType, Answers, Content
<1> HIDE DEF new
<1> QED
    BY <1>3, <1>4, RequestReplaced

LEMMA AnswerInv ==
    ASSUME StoreInv, NEW r \in Readers, Answer(r)
    PROVE  StoreInv'
<1>1. Len(acked) \in Nat
    BY DEF StoreInv, WriterInv, StoreTypes
<1>2. RequestInv(Free, files, acked)
    BY <1>1 DEF RequestInv, RequestType, Free, Answers, Kinds, Content
<1> QED
    BY <1>2, RequestReplaced DEF Answer

-----------------------------------------------------------------------------
LEMMA StoreInvStep == StoreInv /\ [Next]_vars => StoreInv'
<1> SUFFICES ASSUME StoreInv, [Next]_vars PROVE StoreInv'
    OBVIOUS
<1>1. CASE \E b \in Batches : BeginStore(b)
    BY <1>1, BeginStoreInv
<1>2. CASE WriteFrame
    BY <1>2, WriteFrameInv
<1>3. CASE \E n \in 1 .. 3 : WriteLine(n)
    BY <1>3, WriteLineInv
<1>4. CASE Reply
    BY <1>4, ReplyInv
<1>5. CASE FailStore
    BY <1>5, FailStoreInv
<1>6. CASE Crash
    BY <1>6, CrashInv
<1>7. CASE \E r \in Readers : \E q \in Requests : BeginRead(r, q[1], q[2])
    BY <1>7, BeginReadInv
<1>8. CASE \E r \in Readers : ReadMeta(r)
    BY <1>8, ReadMetaInv
<1>9. CASE \E r \in Readers : LoadFrame(r)
    BY <1>9, LoadFrameInv
<1>10. CASE \E r \in Readers : Answer(r)
    BY <1>10, AnswerInv
<1>11. CASE UNCHANGED vars
    BY <1>11 DEF vars, StoreInv, WriterInv, StoreTypes, LineInv,
                 FrameBeforeMetadata, AckedRecorded, ReaderInv
<1> QED
    BY <1>1, <1>2, <1>3, <1>4, <1>5, <1>6, <1>7, <1>8, <1>9, <1>10, <1>11 DEF Next

LEMMA StoreInvAlways == Spec => []StoreInv
BY InitInv, StoreInvStep, PTL DEF Spec

\* A batch of which anything stands in metadata.jsonl has its whole frame on
\* disk, whatever failed or crashed before (app.py:354-378).
THEOREM FrameBeforeMetadataCorrect == Spec => []FrameBeforeMetadata
<1>1. StoreInv => FrameBeforeMetadata
    BY DEF StoreInv, WriterInv
<1> QED
    BY <1>1, StoreInvAlways, PTL

\* The line of every acknowledged batch stays in the file in one piece, behind
\* whatever torn lines the failures left (app.py:292-296, 378-379).
THEOREM AckedRecordedCorrect == Spec => []AckedRecorded
<1>1. StoreInv => AckedRecorded
    BY DEF StoreInv, WriterInv
<1> QED
    BY <1>1, StoreInvAlways, PTL

\* No thread is refused a frame that is listed, and none is given a part of
\* one (app.py:670-709).
THEOREM ReplayIsWholeCorrect == Spec => []ReplayIsWhole
<1>1. StoreInv => ReplayIsWhole
    BY DEF StoreInv, ReaderInv, RequestInv, ReplayIsWhole
<1> QED
    BY <1>1, StoreInvAlways, PTL

\* No thread answers 404 for a batch whose metadata was returned before the
\* request came in (find_metadata, app.py:314-318).
THEOREM NeverMissingCorrect == Spec => []NeverMissing
<1>1. StoreInv => NeverMissing
    BY DEF StoreInv, ReaderInv, RequestInv, NeverMissing
<1> QED
    BY <1>1, StoreInvAlways, PTL

-----------------------------------------------------------------------------
(***************************************************************************)
(* The abstract record of batches.  A batch is recorded with the newline   *)
(* of its line; until then no line of it stands in the file.               *)
(***************************************************************************)
NewLine(b) == [batch |-> b, part |-> "newline"]

RecordInv ==
    /\ store.pc = "frame" => files[store.batch] = "part"
    /\ store.pc = "meta" /\ store.rest # <<>> => store.batch \notin Recorded

LogInv == StoreInv /\ RecordInv

\* The file does not have a line of a batch whose frame is not whole.
LEMMA RecordedIsWhole ==
    ASSUME StoreInv, NEW b \in Recorded
    PROVE  files[b] = "whole"
<1>1. PICK i \in DOMAIN meta : meta[i] = NewLine(b)
    BY DEF Recorded, NewLine
<1> QED
    BY <1>1 DEF StoreInv, WriterInv, FrameBeforeMetadata, NewLine

\* The last piece of a line records its batch, those before it nothing.
LEMMA RecordedGrows ==
    ASSUME StoreInv, NEW n \in 1 .. 3, WriteLine(n)
    PROVE  /\ store'.rest = <<>> => Recorded' = Recorded \cup {store.batch}
           /\ store'.rest # <<>> => Recorded' = Recorded
<1> DEFINE b == store.batch
           m == Len(meta)
           l == Len(store.rest)
           k == Len(store'.rest)
<1>1. /\ b \in Batches /\ meta \in Seq(Pieces) /\ store.rest \in Seq(Pieces)
      /\ n \in 1 .. l /\ EndsWith(meta, store.rest, b)
    BY WriteLineFacts
<1>2. /\ meta' \in Seq(Pieces) /\ Len(meta') = m + n
      /\ store'.rest \in Seq(Pieces) /\ k = l - n
      /\ \A i \in 1 .. m : meta'[i] = meta[i]
      /\ \A i \in m + 1 .. m + n : meta'[i].batch = b
      /\ EndsWith(meta', store'.rest, b)
    BY WriteLineFacts
<1>3. m \in Nat /\ l \in 0 .. 3
    BY <1>1 DEF EndsWith
<1>4. /\ k <= 3 /\ 3 - k <= m + n
      /\ \A j \in 1 .. 3 - k : meta'[m + n - (3 - k) + j] = Line(b)[j]
  <2>1. PICK w \in 0 .. 3 : /\ k = 3 - w
                            /\ w <= Len(meta')
                            /\ \A j \in 1 .. w : meta'[Len(meta') - w + j] = Line(b)[j]
    BY <1>2 DEF EndsWith
  <2>2. w = 3 - k /\ Len(meta') = m + n /\ k <= 3
    <3>1. Len(meta') = m + n
        BY <1>2
    <3>2. w \in 0 .. 3 /\ k = 3 - w
        BY <2>1
    <3> HIDE DEF m, k
    <3> QED
        BY <3>1, <3>2
  <2>3. 3 - k <= m + n
    BY <2>1, <2>2
  <2>4. \A j \in 1 .. 3 - k : meta'[m + n - (3 - k) + j] = Line(b)[j]
    BY <2>1, <2>2
  <2> QED
    BY <2>2, <2>3, <2>4
<1>5. DOMAIN meta = 1 .. m /\ DOMAIN meta' = 1 .. m + n
    BY <1>1, <1>2
<1>6. store'.rest = <<>> <=> k = 0
    BY <1>2
<1> HIDE DEF m, l, k, b
<1>7. Recorded \subseteq Recorded'
  <2> SUFFICES ASSUME NEW c \in Recorded PROVE c \in Recorded'
    OBVIOUS
  <2>1. PICK i \in 1 .. m : meta[i] = NewLine(c)
    BY <1>5 DEF Recorded, NewLine
  <2>2. i \in 1 .. m + n /\ meta'[i] = NewLine(c)
    BY <1>2, <1>3, <2>1
  <2> QED
    BY <1>5, <2>2 DEF Recorded, NewLine
<1>8. ASSUME NEW c \in Recorded', c \notin Recorded PROVE c = b /\ k = 0
  <2>1. PICK i \in 1 .. m + n : meta'[i] = NewLine(c)
    BY <1>5 DEF Recorded, NewLine
  <2>2. i \notin 1 .. m
    <3> SUFFICES ASSUME i \in 1 .. m PROVE FALSE
        OBVIOUS
    <3>1. meta[i] = NewLine(c)
        BY <1>2, <2>1
    <3> QED
        BY <1>5, <1>8, <3>1 DEF Recorded, NewLine
  <2>3. i \in m + 1 .. m + n
    BY <1>1, <1>3, <2>2
  <2>4. c = b
    BY <1>2, <2>1, <2>3 DEF NewLine
  <2> DEFINE j == i - (m + n - (3 - k))
  <2>5. j \in 1 .. 3 - k /\ m + n - (3 - k) + j = i /\ (j = 3 => k = 0) /\ j \in 1 .. 3
    BY <1>1, <1>2, <1>3, <1>4, <2>3
  <2> HIDE DEF j
  <2>6. meta'[i] = Line(b)[j]
    BY <1>4, <2>5
  <2>7. j # 1 /\ j # 2
    BY <2>1, <2>6 DEF Line, NewLine
  <2> QED
    BY <2>4, <2>5, <2>7
<1>9. ASSUME k = 0 PROVE b \in Recorded'
  <2>1. 3 \in 1 .. 3 - k /\ m + n - (3 - k) + 3 = m + n /\ m + n \in 1 .. m + n
    BY <1>1, <1>3, <1>9
  <2>2. meta'[m + n] = NewLine(b)
    BY <1>4, <2>1 DEF Line, NewLine
  <2> QED
    BY <1>1, <1>5, <2>1, <2>2 DEF Recorded, NewLine
<1> QED
    BY <1>6, <1>7, <1>8, <1>9 DEF b

LEMMA InitLogInv == Init => LogInv
BY InitInv DEF LogInv, RecordInv, Init, Idle

LEMMA RecordInvStep == LogInv /\ [Next]_vars => RecordInv'
<1> SUFFICES ASSUME LogInv, [Next]_vars PROVE RecordInv'
    OBVIOUS
<1> USE DEF LogInv
<1>0. StoreTypes
    BY DEF StoreInv, WriterInv
<1>1. ASSUME NEW b \in Batches, BeginStore(b) PROVE RecordInv'
    BY <1>0, <1>1 DEF BeginStore, RecordInv, StoreTypes
<1>2. ASSUME WriteFrame PROVE RecordInv'
  <2>1. store.batch \notin Recorded
    BY <1>2, RecordedIsWhole DEF WriteFrame, RecordInv
  <2>2. store'.pc = "meta" /\ store'.batch = store.batch /\ meta' = meta
    BY <1>0, <1>2 DEF WriteFrame, StoreTypes
  <2> QED
    BY <2>1, <2>2 DEF RecordInv, Recorded
<1>3. ASSUME NEW n \in 1 .. 3, WriteLine(n) PROVE RecordInv'
  <2>1. store' = [pc |-> "meta", batch |-> store.batch, rest |-> store'.rest]
    BY <1>3, WriteLineFacts
  <2>2. store'.pc = "meta" /\ store'.batch = store.batch
    BY <2>1
  <2>3. store.pc = "meta" /\ store.rest # <<>>
    BY <1>3 DEF WriteLine
  <2> QED
    BY <1>3, <2>2, <2>3, RecordedGrows DEF RecordInv
<1>4. ASSUME store' = Idle PROVE RecordInv'
    BY <1>4 DEF Idle, RecordInv
<1>5. ASSUME UNCHANGED <<files, meta, store>> PROVE RecordInv'
    BY <1>5 DEF RecordInv, Recorded
<1> QED
    BY <1>1, <1>2, <1>3, <1>4, <1>5
       DEF Next, vars, Reply, FailStore, Crash, BeginRead, ReadMeta, LoadFrame, Answer

LEMMA LogInvAlways == Spec => []LogInv
<1>1. LogInv /\ [Next]_vars => LogInv'
    BY StoreInvStep, RecordInvStep DEF LogInv
<1> QED
    BY <1>1, InitLogInv, PTL DEF Spec

\* Every step of the store is a step of the abstract record or none.
LEMMA AbstractStep == LogInv /\ [Next]_vars => [Log!Next]_(Log!vars)
<1> SUFFICES ASSUME LogInv, [Next]_vars PROVE [Log!Next]_(Log!vars)
    OBVIOUS
<1> USE DEF LogInv
<1>0. StoreTypes
    BY DEF StoreInv, WriterInv
<1>1. ASSUME Recorded' = Recorded, Pending' = Pending, acked' = acked, faults' = faults
      PROVE  UNCHANGED Log!vars
    BY <1>1 DEF Log!vars
<1>2. ASSUME meta' = meta PROVE Recorded' = Recorded
    BY <1>2 DEF Recorded
<1>3. ASSUME NEW b \in Batches, BeginStore(b) PROVE UNCHANGED Log!vars
    BY <1>1, <1>2, <1>3 DEF BeginStore, Pending, Idle
<1>4. ASSUME WriteFrame PROVE UNCHANGED Log!vars
  <2>1. store.batch \in Batches
    BY <1>0, <1>4 DEF WriteFrame, StoreTypes
  <2>2. store'.rest # <<>>
    <3>1. store'.rest = Line(store.batch)
        BY <1>0, <1>4 DEF WriteFrame, StoreTypes
    <3>2. Line(store.batch) # <<>>
        BY DEF Line
    <3> QED
        BY <3>1, <3>2
  <2> QED
    BY <1>1, <1>2, <1>4, <2>2 DEF WriteFrame, Pending
<1>5. ASSUME NEW n \in 1 .. 3, WriteLine(n) PROVE [Log!Next]_(Log!vars)
  <2>1. /\ store.batch \in Batches
        /\ store' = [pc |-> "meta", batch |-> store.batch, rest |-> store'.rest]
        /\ UNCHANGED <<acked, faults>>
    BY <1>5, WriteLineFacts
  <2>2. store'.pc = "meta" /\ store'.batch = store.batch
    BY <2>1
  <2>3. store.pc = "meta" /\ store.rest # <<>>
    BY <1>5 DEF WriteLine
  <2>4. Pending = None /\ store.batch \notin Recorded
    BY <2>3 DEF Pending, RecordInv
  <2>5. CASE store'.rest = <<>>
    <3>1. Pending' = store.batch /\ Recorded' = Recorded \cup {store.batch}
        BY <1>5, <2>2, <2>5, RecordedGrows DEF Pending
    <3>2. Log!Record(store.batch)
        BY <2>1, <2>4, <3>1 DEF Log!Record
    <3> QED
        BY <2>1, <3>2 DEF Log!Next
  <2>6. CASE store'.rest # <<>>
    <3>1. Pending' = None /\ Recorded' = Recorded
        BY <1>5, <2>2, <2>6, RecordedGrows DEF Pending
    <3> QED
        BY <1>1, <2>1, <2>4, <3>1
  <2> QED
    BY <2>5, <2>6
<1>6. ASSUME Reply PROVE Log!Next
  <2>1. Pending = store.batch /\ store.batch \in Batches /\ Pending' = None
    BY <1>0, <1>6 DEF Reply, Pending, StoreTypes, Idle
  <2>2. Pending # None
    BY <2>1, NoneAssumption
  <2>3. Log!Acknowledge
    BY <1>2, <1>6, <2>1, <2>2 DEF Reply, Log!Acknowledge
  <2> QED
    BY <2>3 DEF Log!Next
<1>7. ASSUME FailStore \/ Crash PROVE Log!Next
  <2>1. Log!Fault
    BY <1>2, <1>7 DEF FailStore, Crash, Idle, Pending, Log!Fault
  <2> QED
    BY <2>1 DEF Log!Next
<1>8. ASSUME UNCHANGED <<meta, store, acked, faults>> PROVE UNCHANGED Log!vars
    BY <1>1, <1>2, <1>8 DEF Pending
<1> QED
    BY <1>3, <1>4, <1>5, <1>6, <1>7, <1>8
       DEF Next, vars, BeginRead, ReadMeta, LoadFrame, Answer

LEMMA AbstractInit == Init => Log!Init
BY DEF Init, Log!Init, Recorded, Pending, Idle

\* The store of files implements the abstract record of batches
\* (store_ingest_batch, app.py:321-379).
THEOREM AbstractStoreImplemented == Spec => AbstractStore
BY AbstractInit, AbstractStep, LogInvAlways, PTL DEF Spec, AbstractStore, Log!Spec

-----------------------------------------------------------------------------
(***************************************************************************)
(* How many batches are recorded without their client knowing follows from *)
(* the steps of the abstract record alone.                                 *)
(***************************************************************************)
Unacked == Recorded \ (Acked \cup {Pending})

CountInv ==
    /\ faults \in Nat /\ acked \in Seq(Batches)
    /\ IsFiniteSet(Unacked) /\ Cardinality(Unacked) \in Nat
    /\ Cardinality(Unacked) <= faults

LEMMA OneMore ==
    ASSUME NEW S, IsFiniteSet(S), NEW x
    PROVE  /\ IsFiniteSet(S \cup {x}) /\ Cardinality(S \cup {x}) \in Nat
           /\ Cardinality(S \cup {x}) <= Cardinality(S) + 1
<1>1. /\ IsFiniteSet(S \cup {x})
      /\ Cardinality(S \cup {x}) = IF x \in S THEN Cardinality(S) ELSE Cardinality(S) + 1
    BY FS_AddElement
<1>2. Cardinality(S) \in Nat
    BY FS_CardinalityType
<1> QED
    BY <1>1, <1>2

LEMMA UnackedShrinks ==
    ASSUME CountInv, Unacked' \subseteq Unacked, faults' = faults, acked' \in Seq(Batches)
    PROVE  CountInv'
<1>1. /\ IsFiniteSet(Unacked') /\ Cardinality(Unacked') <= Cardinality(Unacked)
      /\ Cardinality(Unacked') \in Nat
    BY FS_Subset, FS_CardinalityType DEF CountInv
<1> QED
    BY <1>1 DEF CountInv

LEMMA UnackedGrows ==
    ASSUME CountInv, NEW b, Unacked' \subseteq Unacked \cup {b}, faults' = faults + 1,
           acked' \in Seq(Batches)
    PROVE  CountInv'
<1>1. /\ IsFiniteSet(Unacked \cup {b})
      /\ Cardinality(Unacked \cup {b}) <= Cardinality(Unacked) + 1
      /\ Cardinality(Unacked \cup {b}) \in Nat
    BY OneMore DEF CountInv
<1>2. /\ IsFiniteSet(Unacked') /\ Cardinality(Unacked') <= Cardinality(Unacked \cup {b})
      /\ Cardinality(Unacked') \in Nat
    BY <1>1, FS_Subset, FS_CardinalityType
<1> QED
    BY <1>1, <1>2 DEF CountInv

LEMMA CountInvStep ==
    CountInv /\ (acked \in Seq(Batches))' /\ [Log!Next]_(Log!vars) => CountInv'
<1> SUFFICES ASSUME CountInv, acked' \in Seq(Batches), [Log!Next]_(Log!vars)
             PROVE  CountInv'
    OBVIOUS
<1>1. ASSUME NEW b \in Batches, Log!Record(b) PROVE CountInv'
  <2>1. Recorded' = Recorded \cup {b} /\ Pending = None /\ Pending' = b /\ acked' = acked
        /\ faults' = faults
    BY <1>1 DEF Log!Record
  <2>2. Acked' = Acked
    BY <2>1 DEF Acked
  <2>3. None \notin Recorded
    BY NoneAssumption DEF Recorded
  <2>4. Unacked' \subseteq Unacked
    BY <2>1, <2>2, <2>3 DEF Unacked
  <2> QED
    BY <2>1, <2>4, UnackedShrinks
<1>2. ASSUME Log!Acknowledge PROVE CountInv'
  <2>1. Recorded' = Recorded /\ acked' = Append(acked, Pending) /\ faults' = faults
    BY <1>2 DEF Log!Acknowledge
  <2>2. Acked \cup {Pending} \subseteq Acked'
    <3>1. Len(acked) \in Nat /\ DOMAIN acked = 1 .. Len(acked)
        BY DEF CountInv
    <3>2. /\ DOMAIN acked' = 1 .. Len(acked) + 1
          /\ acked'[Len(acked) + 1] = Pending
          /\ \A i \in 1 .. Len(acked) : acked'[i] = acked[i]
        BY <2>1 DEF CountInv
    <3> QED
        BY <3>1, <3>2 DEF Acked
  <2>3. Unacked' \subseteq Unacked
    BY <2>1, <2>2 DEF Unacked
  <2> QED
    BY <2>1, <2>3, UnackedShrinks
<1>3. ASSUME Log!Fault PROVE CountInv'
  <2>1. Recorded' = Recorded /\ acked' = acked /\ faults' = faults + 1
    BY <1>3 DEF Log!Fault
  <2>2. Acked' = Acked
    BY <2>1 DEF Acked
  <2>3. Unacked' \subseteq Unacked \cup {Pending}
    BY <2>1, <2>2 DEF Unacked
  <2> QED
    BY <2>1, <2>3, UnackedGrows
<1>4. ASSUME UNCHANGED Log!vars PROVE CountInv'
  <2>1. Recorded' = Recorded /\ Pending' = Pending /\ acked' = acked /\ faults' = faults
    BY <1>4 DEF Log!vars
  <2>2. Unacked' = Unacked
    BY <2>1 DEF Unacked, Acked
  <2> QED
    BY <2>1, <2>2, UnackedShrinks
<1> QED
    BY <1>1, <1>2, <1>3, <1>4 DEF Log!Next

LEMMA InitCount == Init => CountInv
<1> SUFFICES ASSUME Init PROVE CountInv
    OBVIOUS
<1>1. Unacked = {} /\ faults = 0 /\ acked \in Seq(Batches)
    BY DEF Init, Unacked, Recorded
<1> QED
    BY <1>1, FS_EmptySet DEF CountInv

\* At most one batch for each fault is recorded without an acknowledgement:
\* only those can a client's retry store twice (app.py:354-379).
THEOREM UnackedForFailureCorrect == Spec => []UnackedForFailure
<1>1. CountInv /\ LogInv /\ LogInv' /\ [Next]_vars => CountInv'
  <2>1. LogInv' => acked' \in Seq(Batches)
    BY DEF LogInv, StoreInv, WriterInv, StoreTypes
  <2> QED
    BY <2>1, CountInvStep, AbstractStep
<1>2. CountInv => UnackedForFailure
    BY DEF CountInv, UnackedForFailure, Unacked
<1> QED
    BY <1>1, <1>2, InitCount, LogInvAlways, PTL DEF Spec

-----------------------------------------------------------------------------
(***************************************************************************)
(* Without a fault the file is made of whole lines, the last of them as    *)
(* far as the running store has come.                                      *)
(***************************************************************************)
WholeLines(f) ==
    \A l \in Nat : \A j \in 1 .. 3 :
        3 * l + j <= Len(f) => f[3 * l + j] = Line(f[3 * l + 1].batch)[j]

Unwritten == IF store.pc = "meta" THEN Len(store.rest) ELSE 0

LinesInv ==
    /\ faults \in Nat
    /\ faults = 0 => /\ WholeLines(meta)
                     /\ \E k \in Nat : Len(meta) + Unwritten = 3 * k

LEMMA PlaceInLine ==
    ASSUME NEW e \in Nat, e > 0
    PROVE  \E l \in Nat, j \in 1 .. 3 : e = 3 * l + j
<1> DEFINE l == (e - 1) \div 3
           j == ((e - 1) % 3) + 1
<1>1. l \in Nat /\ j \in 1 .. 3 /\ e = 3 * l + j
    OBVIOUS
<1> QED
    BY <1>1

\* A file of whole lines can be read.
LEMMA WholeLinesRead ==
    ASSUME NEW f \in Seq(Pieces), WholeLines(f), NEW k \in Nat, Len(f) = 3 * k
    PROVE  Readable(f)
<1> SUFFICES ASSUME NEW e \in LineEnds(f) PROVE Parses(f, e)
    BY DEF Readable
<1>1. Len(f) \in Nat /\ e \in 1 .. Len(f) /\ (f[e].part = "newline" \/ e = Len(f))
  <2>1. Len(f) \in Nat /\ DOMAIN f = 1 .. Len(f)
    OBVIOUS
  <2>2. CASE e \in DOMAIN f /\ f[e].part = "newline"
    BY <2>1, <2>2
  <2>3. CASE e = Len(f) /\ e # 0
    BY <2>1, <2>3
  <2> QED
    BY <2>2, <2>3 DEF LineEnds
<1>2. PICK l \in Nat, j \in 1 .. 3 : e = 3 * l + j
  <2>1. e \in Nat /\ e > 0
    BY <1>1
  <2> QED
    BY <2>1, PlaceInLine
<1>3. \A i \in 1 .. 3 : 3 * l + i <= Len(f)
    BY <1>1, <1>2
<1> DEFINE b == f[3 * l + 1].batch
<1>4. /\ b \in Batches
      /\ f[3 * l + 1] = [batch |-> b, part |-> "open"]
      /\ f[3 * l + 2] = [batch |-> b, part |-> "close"]
      /\ f[3 * l + 3] = [batch |-> b, part |-> "newline"]
  <2>1. \A i \in 1 .. 3 : f[3 * l + i] = Line(b)[i]
    BY <1>3 DEF WholeLines
  <2>2. 3 * l + 1 \in 1 .. Len(f) /\ f[3 * l + 1] \in Pieces
    BY <1>1, <1>3
  <2> QED
    BY <2>1, <2>2 DEF Line, Pieces
<1>5. e = 3 * l + 3
  <2>1. CASE j = 1
    <3>1. f[e].part # "newline" /\ e # Len(f)
        BY <1>1, <1>2, <1>4, <2>1
    <3> QED
        BY <1>1, <3>1
  <2>2. CASE j = 2
    <3>1. f[e].part # "newline" /\ e # Len(f)
        BY <1>1, <1>2, <1>4, <2>2
    <3> QED
        BY <1>1, <3>1
  <2> QED
    BY <1>2, <2>1, <2>2
<1> DEFINE P(s) == /\ s = 1 \/ f[s - 1].part = "newline"
                   /\ \A i \in s .. (e - 1) : f[i].part # "newline"
           s == 3 * l + 1
<1>6. s \in 1 .. e /\ P(s)
  <2>1. l = 0 \/ f[3 * l].part = "newline"
    <3>1. ASSUME l # 0 PROVE f[3 * l].part = "newline"
      <4> DEFINE m == l - 1
      <4>1. m \in Nat /\ 3 * m + 3 = 3 * l /\ 3 * m + 1 <= Len(f) /\ 3 * m + 3 <= Len(f)
        BY <1>3, <3>1
      <4>2. f[3 * m + 3] = Line(f[3 * m + 1].batch)[3]
        BY <4>1 DEF WholeLines
      <4> QED
        BY <4>1, <4>2 DEF Line
    <3> QED
        BY <3>1
  <2>2. ASSUME NEW i \in s .. (e - 1) PROVE f[i].part # "newline"
    <3>1. i = 3 * l + 1 \/ i = 3 * l + 2
        BY <1>5
    <3> QED
        BY <1>4, <3>1
  <2>3. s - 1 = 3 * l
    OBVIOUS
  <2> QED
    BY <1>5, <2>1, <2>2, <2>3
<1>7. ASSUME NEW t \in 1 .. e, P(t) PROVE t = s
  <2>1. CASE t > s
    <3>1. t - 1 = 3 * l + 1 \/ t - 1 = 3 * l + 2
        BY <1>5, <2>1
    <3>2. f[t - 1].part # "newline" /\ t # 1
        BY <1>4, <3>1
    <3> QED
        BY <1>7, <3>2
  <2>2. CASE t < s
    <3>1. 3 * l \in t .. (e - 1) /\ l # 0
        BY <1>5, <2>2
    <3>2. s - 1 = 3 * l /\ s # 1
        BY <3>1
    <3>3. f[3 * l].part = "newline"
        BY <1>6, <3>2
    <3> QED
        BY <1>7, <3>1, <3>3
  <2> QED
    BY <2>1, <2>2
<1>8. LineStart(f, e) = s
  <2>1. LineStart(f, e) = CHOOSE t \in 1 .. e : P(t)
    BY DEF LineStart
  <2> HIDE DEF P, s
  <2> QED
    BY <1>6, <1>7, <2>1
<1>9. e > s /\ s + 1 = 3 * l + 2 /\ e = s + 2 /\ e = 3 * l + 3
    BY <1>5
<1> QED
    BY <1>4, <1>8, <1>9 DEF Parses

\* The pieces a store writes are the next ones of its line.
LEMMA WriteLineWhole ==
    ASSUME StoreInv, NEW n \in 1 .. 3, WriteLine(n), WholeLines(meta),
           NEW k \in Nat, Len(meta) + Len(store.rest) = 3 * k
    PROVE  WholeLines(meta') /\ Len(meta') + Len(store'.rest) = 3 * k
<1> DEFINE b == store.batch
<1>1. /\ b \in Batches /\ meta \in Seq(Pieces) /\ store.rest \in Seq(Pieces)
      /\ n \in 1 .. Len(store.rest)
    BY WriteLineFacts
<1>2. /\ meta' \in Seq(Pieces) /\ Len(meta') = Len(meta) + n
      /\ store'.rest \in Seq(Pieces) /\ Len(store'.rest) = Len(store.rest) - n
      /\ \A i \in 1 .. Len(meta) : meta'[i] = meta[i]
      /\ EndsWith(meta', store'.rest, b)
    BY WriteLineFacts
<1>3. PICK w \in 0 .. 3 :
        /\ Len(store'.rest) = 3 - w
        /\ \A j \in 1 .. w : meta'[Len(meta') - w + j] = Line(b)[j]
    BY <1>2 DEF EndsWith
<1>4. PICK m \in Nat, r \in Nat : m = Len(meta) /\ r = Len(store.rest)
    BY <1>1
<1>5. Len(meta') = m + n /\ m + r = 3 * k /\ r - n = 3 - w /\ n \in 1 .. r
  <2>1. Len(meta') = m + n
    BY <1>2, <1>4
  <2>2. r - n = 3 - w
    BY <1>2, <1>3, <1>4
  <2> QED
    BY <1>1, <1>4, <2>1, <2>2
<1>6. Len(meta') + Len(store'.rest) = 3 * k
  <2>1. Len(store'.rest) = 3 - w
    BY <1>3
  <2> QED
    BY <1>5, <2>1
<1>7. r <= 3
  <2>1. EndsWith(meta, store.rest, b)
    BY WriteLineFacts
  <2>2. PICK v \in 0 .. 3 : Len(store.rest) = 3 - v
    BY <2>1 DEF EndsWith
  <2> QED
    BY <1>4, <2>2
<1>8. ASSUME NEW l \in Nat, NEW j \in 1 .. 3, 3 * l + j <= m + n
      PROVE  meta'[3 * l + j] = Line(meta'[3 * l + 1].batch)[j]
  <2>1. CASE 3 * l + j <= m
    <3>1. 3 * l + 1 \in 1 .. m /\ 3 * l + j \in 1 .. m
        BY <2>1
    <3>2. meta'[3 * l + 1] = meta[3 * l + 1] /\ meta'[3 * l + j] = meta[3 * l + j]
        BY <1>2, <1>4, <3>1
    <3>3. meta[3 * l + j] = Line(meta[3 * l + 1].batch)[j]
        BY <1>4, <2>1 DEF WholeLines
    <3> QED
        BY <3>2, <3>3
  <2>2. CASE 3 * l + j > m
    <3>1. m + n - w = 3 * l /\ j \in 1 .. w /\ 1 \in 1 .. w
        BY <1>5, <1>7, <1>8, <2>2
    <3>2. \A i \in 1 .. w : meta'[3 * l + i] = Line(b)[i]
        BY <1>3, <1>5, <3>1
    <3>3. meta'[3 * l + j] = Line(b)[j] /\ meta'[3 * l + 1] = Line(b)[1]
        BY <3>1, <3>2
    <3>4. Line(b)[1].batch = b
      <4> HIDE DEF b
      <4> QED
        BY DEF Line
    <3> QED
        BY <3>3, <3>4
  <2> QED
    BY <2>1, <2>2, <1>4, <1>8
<1>9. WholeLines(meta')
    BY <1>5, <1>8 DEF WholeLines
<1> QED
    BY <1>6, <1>9

LEMMA LinesInvStep ==
    LinesInv /\ StoreInv /\ StoreInv' /\ [Next]_vars => LinesInv'
<1>0. faults \in Nat /\ [Next]_vars => faults' \in Nat
  <2> SUFFICES ASSUME faults \in Nat, [Next]_vars PROVE faults' \in Nat
    OBVIOUS
  <2>1. faults' = faults \/ faults' = faults + 1
    <3>1. CASE \E b \in Batches : BeginStore(b)
        BY <3>1 DEF BeginStore
    <3>2. CASE WriteFrame \/ (\E n \in 1 .. 3 : WriteLine(n)) \/ Reply
        BY <3>2 DEF WriteFrame, WriteLine, Reply
    <3>3. CASE FailStore \/ Crash
        BY <3>3 DEF FailStore, Crash
    <3>4. CASE \E r \in Readers : \/ \E q \in Requests : BeginRead(r, q[1], q[2])
                                 \/ ReadMeta(r) \/ LoadFrame(r) \/ Answer(r)
        BY <3>4 DEF BeginRead, ReadMeta, LoadFrame, Answer
    <3>5. CASE UNCHANGED vars
        BY <3>5 DEF vars
    <3> QED
        BY <3>1, <3>2, <3>3, <3>4, <3>5 DEF Next
  <2> QED
    BY <2>1
<1> SUFFICES ASSUME LinesInv, StoreInv, StoreInv', [Next]_vars, faults' = 0
             PROVE  WholeLines(meta') /\ \E k \in Nat : Len(meta') + Unwritten' = 3 * k
    BY <1>0 DEF LinesInv
<1>1. CASE UNCHANGED <<meta, faults>> /\ Unwritten' = Unwritten
    BY <1>1 DEF LinesInv
<1>2. CASE \E b \in Batches : BeginStore(b)
  <2>1. UNCHANGED <<meta, faults>> /\ Unwritten' = Unwritten
    BY <1>2 DEF BeginStore, Unwritten, Idle
  <2> QED
    BY <1>1, <2>1
<1>3. CASE WriteFrame
  <2>1. meta' = meta /\ faults' = faults /\ store.pc = "frame" /\ store.batch \in Batches
    BY <1>3 DEF WriteFrame, StoreInv, WriterInv, StoreTypes
  <2>2. store'.pc = "meta" /\ store'.rest = Line(store.batch)
    BY <1>3 DEF WriteFrame, StoreInv, WriterInv, StoreTypes
  <2>3. Unwritten = 0 /\ Unwritten' = 3
    BY <2>1, <2>2, LineFacts DEF Unwritten
  <2>4. PICK k \in Nat : Len(meta) + 0 = 3 * k
    BY <2>1, <2>3 DEF LinesInv
  <2>5. k + 1 \in Nat /\ Len(meta') + Unwritten' = 3 * (k + 1)
    <3>1. Len(meta) \in Nat
        BY DEF StoreInv, WriterInv, StoreTypes
    <3> QED
        BY <2>1, <2>3, <2>4, <3>1
  <2> QED
    BY <2>1, <2>5 DEF LinesInv
<1>4. CASE \E n \in 1 .. 3 : WriteLine(n)
  <2>1. PICK n \in 1 .. 3 : WriteLine(n)
    BY <1>4
  <2>2. store.pc = "meta" /\ store'.pc = "meta" /\ faults' = faults
    BY <2>1 DEF WriteLine, StoreInv, WriterInv, StoreTypes
  <2>3. WholeLines(meta) /\ \E k \in Nat : Len(meta) + Len(store.rest) = 3 * k
    BY <2>2 DEF LinesInv, Unwritten
  <2>4. PICK k \in Nat : Len(meta) + Len(store.rest) = 3 * k
    BY <2>3
  <2>5. WholeLines(meta') /\ Len(meta') + Len(store'.rest) = 3 * k
    BY <2>1, <2>3, <2>4, WriteLineWhole
  <2> QED
    BY <2>2, <2>5 DEF Unwritten
<1>5. CASE Reply
  <2>1. UNCHANGED <<meta, faults>> /\ Unwritten' = Unwritten
    BY <1>5 DEF Reply, Unwritten, Idle
  <2> QED
    BY <1>1, <2>1
<1>6. CASE FailStore \/ Crash
  <2>1. faults \in Nat /\ faults' = faults + 1
    BY <1>6 DEF FailStore, Crash, LinesInv
  <2> QED
    BY <2>1
<1>7. CASE \E r \in Readers : \/ \E q \in Requests : BeginRead(r, q[1], q[2])
                             \/ ReadMeta(r) \/ LoadFrame(r) \/ Answer(r)
  <2>1. UNCHANGED <<meta, faults, store>>
    BY <1>7 DEF BeginRead, ReadMeta, LoadFrame, Answer
  <2> QED
    BY <1>1, <2>1 DEF Unwritten
<1>8. CASE UNCHANGED vars
  <2>1. UNCHANGED <<meta, faults, store>>
    BY <1>8 DEF vars
  <2> QED
    BY <1>1, <2>1 DEF Unwritten
<1> QED
    BY <1>2, <1>3, <1>4, <1>5, <1>6, <1>7, <1>8 DEF Next

\* As long as nothing has failed the lines of the stores do not run together,
\* and every one of them can be read back between two stores (app.py:292-296).
THEOREM ReadableWithoutFaultsCorrect == Spec => []ReadableWithoutFaults
<1>1. Init => LinesInv
  <2> SUFFICES ASSUME Init PROVE LinesInv
    OBVIOUS
  <2>1. Len(meta) = 0 /\ Unwritten = 0 /\ faults = 0
    BY DEF Init, Unwritten, Idle
  <2> QED
    BY <2>1 DEF LinesInv, WholeLines
<1>2. LinesInv /\ StoreInv /\ StoreInv' /\ [Next]_vars => LinesInv'
    BY LinesInvStep
<1>3. LinesInv /\ StoreInv => ReadableWithoutFaults
  <2> SUFFICES ASSUME LinesInv, StoreInv, faults = 0, store = Idle PROVE Readable(meta)
    BY DEF ReadableWithoutFaults
  <2>1. Unwritten = 0 /\ meta \in Seq(Pieces) /\ Len(meta) \in Nat
    BY DEF Unwritten, Idle, StoreInv, WriterInv, StoreTypes
  <2>2. PICK k \in Nat : Len(meta) = 3 * k
    BY <2>1 DEF LinesInv
  <2> QED
    BY <2>1, <2>2, WholeLinesRead DEF LinesInv
<1> QED
    BY <1>1, <1>2, <1>3, StoreInvAlways, PTL DEF Spec

-----------------------------------------------------------------------------
(***************************************************************************)
(* What Entries collects, by induction over the pieces of the file.        *)
(***************************************************************************)
\* Induction over the natural numbers: a set of them has a least element.
LEMMA Least ==
    ASSUME NEW S \in SUBSET Nat, S # {}
    PROVE  \E m \in S : \A k \in S : m <= k
<1> DEFINE R == OpToRel(<, Nat)
<1>1. IsWellFoundedOn(R, Nat)
    BY NatLessThanWellFounded
<1>2. PICK m \in S : \A k \in S : <<k, m>> \notin R
    BY <1>1, WFMin
<1>3. \A k \in S : ~ (k < m)
    BY <1>2 DEF OpToRel
<1> QED
    BY <1>3

\* What read_metadata has collected after n pieces of f, given what it had
\* after fewer.
Collected(f, u, n) ==
    IF n = 0 THEN <<>>
    ELSE IF f[n].part = "open" THEN Append(u[n - 1], f[n].batch)
    ELSE u[n - 1]

UpTo(f, m, u) == u = [n \in 0 .. m |-> Collected(f, u, n)]

LEMMA UpToExists ==
    ASSUME NEW f, NEW m \in Nat
    PROVE  \E u : UpTo(f, m, u)
<1> DEFINE S == {k \in Nat : ~ \E u : UpTo(f, k, u)}
<1> SUFFICES ASSUME S # {} PROVE FALSE
    OBVIOUS
<1>1. PICK k \in S : \A i \in S : k <= i
  <2>1. S \in SUBSET Nat
    OBVIOUS
  <2> HIDE DEF S
  <2> QED
    BY <2>1, Least
<1>2. CASE k = 0
  <2> DEFINE u == [n \in 0 .. 0 |-> <<>>]
  <2>1. UpTo(f, 0, u)
    BY DEF UpTo, Collected
  <2> QED
    BY <1>2, <2>1
<1>3. CASE k # 0
  <2>1. k - 1 \in Nat /\ k - 1 \notin S
    BY <1>1, <1>3
  <2>2. PICK u : UpTo(f, k - 1, u)
    BY <2>1
  <2> DEFINE v == [n \in 0 .. k |-> IF n = k THEN Collected(f, u, k) ELSE u[n]]
  <2>3. ASSUME NEW n \in 0 .. k PROVE v[n] = Collected(f, v, n)
    <3>1. CASE n = k
      <4>1. k - 1 \in 0 .. k /\ k - 1 # k
        BY <2>1
      <4>2. v[k - 1] = u[k - 1]
        BY <4>1
      <4>3. v[n] = Collected(f, u, k)
        BY <3>1
      <4> HIDE DEF v
      <4> QED
        BY <1>3, <3>1, <4>2, <4>3 DEF Collected
    <3>2. CASE n # k
      <4>1. n \in 0 .. k - 1
        BY <3>2
      <4>2. v[n] = u[n] /\ u[n] = Collected(f, u, n)
        BY <2>2, <3>2, <4>1 DEF UpTo
      <4>3. n # 0 => v[n - 1] = u[n - 1]
        BY <4>1
      <4> HIDE DEF v
      <4> QED
        BY <4>2, <4>3 DEF Collected
    <3> QED
        BY <3>1, <3>2
  <2>4. v = [n \in 0 .. k |-> v[n]]
    OBVIOUS
  <2> HIDE DEF v
  <2>5. UpTo(f, k, v)
    BY <2>3, <2>4 DEF UpTo
  <2> QED
    BY <2>5
<1> QED
    BY <1>2, <1>3

LEMMA UpToAt ==
    ASSUME NEW f, NEW m \in Nat, NEW u, UpTo(f, m, u), NEW n \in 0 .. m
    PROVE  u[n] = Collected(f, u, n)
<1> DEFINE C(i) == Collected(f, u, i)
<1>1. u = [i \in 0 .. m |-> C(i)]
    BY DEF UpTo
<1> HIDE DEF C
<1>2. u[n] = C(n)
    BY <1>1
<1> QED
    BY <1>2 DEF C

\* The same pieces collect the same entries.
LEMMA UpToUnique ==
    ASSUME NEW f, NEW g, NEW m \in Nat, NEW k \in Nat, NEW u, NEW v,
           UpTo(f, m, u), UpTo(g, k, v),
           NEW n \in Nat, n <= m, n <= k, \A i \in 1 .. n : f[i] = g[i]
    PROVE  u[n] = v[n]
<1> DEFINE S == {i \in Nat : i <= n /\ u[i] # v[i]}
<1> SUFFICES ASSUME S # {} PROVE FALSE
    OBVIOUS
<1>1. PICK i \in S : \A j \in S : i <= j
  <2>1. S \in SUBSET Nat
    OBVIOUS
  <2> HIDE DEF S
  <2> QED
    BY <2>1, Least
<1>2. u[i] = Collected(f, u, i) /\ v[i] = Collected(g, v, i)
  <2>1. i \in 0 .. m /\ i \in 0 .. k
    OBVIOUS
  <2> QED
    BY <2>1, UpToAt
<1>3. i # 0 => u[i - 1] = v[i - 1] /\ f[i] = g[i]
  <2> SUFFICES ASSUME i # 0 PROVE u[i - 1] = v[i - 1] /\ f[i] = g[i]
    OBVIOUS
  <2>1. i - 1 \in Nat /\ i - 1 <= n /\ ~ (i <= i - 1) /\ i \in 1 .. n
    OBVIOUS
  <2> QED
    BY <1>1, <2>1
<1> QED
    BY <1>2, <1>3 DEF Collected

LEMMA UpToType ==
    ASSUME NEW f \in Seq(Pieces), NEW m \in Nat, m <= Len(f), NEW u, UpTo(f, m, u),
           NEW n \in 0 .. m
    PROVE  u[n] \in Seq(Batches)
<1> DEFINE S == {i \in Nat : i <= m /\ u[i] \notin Seq(Batches)}
<1> SUFFICES ASSUME S # {} PROVE FALSE
    OBVIOUS
<1>1. PICK i \in S : \A j \in S : i <= j
  <2>1. S \in SUBSET Nat
    OBVIOUS
  <2> HIDE DEF S
  <2> QED
    BY <2>1, Least
<1>2. u[i] = Collected(f, u, i)
    BY UpToAt
<1>3. i # 0 => u[i - 1] \in Seq(Batches) /\ f[i].batch \in Batches
  <2> SUFFICES ASSUME i # 0 PROVE u[i - 1] \in Seq(Batches) /\ f[i].batch \in Batches
    OBVIOUS
  <2>1. i - 1 \in Nat /\ i - 1 <= m /\ ~ (i <= i - 1) /\ i \in 1 .. Len(f)
    OBVIOUS
  <2>2. f[i] \in Pieces
    BY <2>1
  <2> QED
    BY <1>1, <2>1, <2>2 DEF Pieces
<1>4. u[i] \notin Seq(Batches)
    OBVIOUS
<1> QED
    BY <1>2, <1>3, <1>4 DEF Collected

LEMMA EntriesUpTo ==
    ASSUME NEW f \in Seq(Pieces)
    PROVE  \E u : UpTo(f, Len(f), u) /\ Entries(f) = u[Len(f)]
<1> DEFINE u == CHOOSE w : w = [n \in 0 .. Len(f) |-> 
                   IF n = 0 THEN <<>>
                   ELSE IF f[n].part = "open" THEN Append(w[n - 1], f[n].batch)
                   ELSE w[n - 1]]
           v == CHOOSE w : UpTo(f, Len(f), w)
<1>1. Entries(f) = u[Len(f)]
    BY DEF Entries
<1>2. u = v
    BY DEF UpTo, Collected
<1>3. UpTo(f, Len(f), v)
    BY UpToExists
<1> HIDE DEF u, v
<1> QED
    BY <1>1, <1>2, <1>3

\* The entries of the empty file and of a file with one more piece.
LEMMA EntriesFacts ==
    /\ Entries(<<>>) = <<>>
    /\ \A f \in Seq(Pieces) : Entries(f) \in Seq(Batches)
    /\ \A f \in Seq(Pieces), p \in Pieces :
         Entries(Append(f, p)) = IF p.part = "open" THEN Append(Entries(f), p.batch)
                                 ELSE Entries(f)
<1>1. Entries(<<>>) = <<>>
  <2>1. PICK u : UpTo(<<>>, 0, u) /\ Entries(<<>>) = u[0]
    <3>1. <<>> \in Seq(Pieces) /\ Len(<<>>) = 0
        OBVIOUS
    <3>2. \A f \in Seq(Pieces) : \E u : UpTo(f, Len(f), u) /\ Entries(f) = u[Len(f)]
        BY EntriesUpTo
    <3>3. \E u : UpTo(<<>>, Len(<<>>), u) /\ Entries(<<>>) = u[Len(<<>>)]
        BY <3>1, <3>2, Zenon
    <3> QED
        BY <3>1, <3>3
  <2>2. 0 \in 0 .. 0
    OBVIOUS
  <2> QED
    BY <2>1, <2>2, UpToAt DEF Collected
<1>2. ASSUME NEW f \in Seq(Pieces) PROVE Entries(f) \in Seq(Batches)
  <2>1. PICK u : UpTo(f, Len(f), u) /\ Entries(f) = u[Len(f)]
    BY EntriesUpTo
  <2> QED
    BY <2>1, UpToType
<1>3. ASSUME NEW f \in Seq(Pieces), NEW p \in Pieces
      PROVE  Entries(Append(f, p)) = IF p.part = "open" THEN Append(Entries(f), p.batch)
                                     ELSE Entries(f)
  <2> DEFINE g == Append(f, p)
             m == Len(f)
  <2>1. /\ g \in Seq(Pieces) /\ Len(g) = m + 1 /\ m \in Nat
        /\ \A i \in 1 .. m : g[i] = f[i]
        /\ g[m + 1] = p
    OBVIOUS
  <2>2. PICK u : UpTo(f, m, u) /\ Entries(f) = u[m]
    BY EntriesUpTo
  <2>3. PICK v : UpTo(g, m + 1, v) /\ Entries(g) = v[m + 1]
    BY <2>1, EntriesUpTo
  <2> HIDE DEF g, m
  <2>4. u[m] = v[m]
    BY <2>1, <2>2, <2>3, UpToUnique
  <2>5. v[m + 1] = Collected(g, v, m + 1)
    BY <2>1, <2>3, UpToAt
  <2>6. m + 1 # 0 /\ m + 1 - 1 = m
    BY <2>1
  <2> QED
    BY <2>1, <2>2, <2>3, <2>4, <2>5, <2>6 DEF Collected, g
<1> QED
    BY <1>1, <1>2, <1>3

-----------------------------------------------------------------------------
(***************************************************************************)
(* The order of the listing.  The file lists every batch once, the         *)
(* acknowledged ones in the order of their acknowledgement, and the batch  *)
(* of a line that is being written last.                                   *)
(***************************************************************************)
Listed(E, f, a) ==
    /\ E \in Seq(Batches)
    /\ \A i \in 1 .. Len(E) : f[E[i]] = "whole"
    /\ \A i, j \in 1 .. Len(E) : E[i] = E[j] => i = j
    /\ \A c \in 1 .. Len(a) : \E i \in 1 .. Len(E) : E[i] = a[c]
    /\ \A c, d \in 1 .. Len(a) : \A i, j \in 1 .. Len(E) :
         E[i] = a[c] /\ E[j] = a[d] /\ i < j => c < d

\* The running store's batch b, of whose line rest is still to be written.
ListedLast(E, a, b, rest) ==
    /\ \A c \in 1 .. Len(a) : a[c] # b
    /\ Len(rest) = 3 => \A i \in 1 .. Len(E) : E[i] # b
    /\ Len(rest) < 3 => Len(E) > 0 /\ E[Len(E)] = b

OrderInv ==
    /\ Listed(Entries(meta), files, acked)
    /\ store.pc = "meta" =>
         ListedLast(Entries(meta), acked, store.batch, store.rest)

\* What a thread shows of the listing, whatever is acknowledged later.
ShownInv(q, a) ==
    /\ q.got \in Seq(Batches)
    /\ q.kind = "list" /\ q.pc # "free" => q.arg \in Limits /\ q.pc # "load"
    /\ q.pc = "200" /\ q.kind = "list" =>
         \A c \in 1 .. q.known :
            \/ \E i \in 1 .. Len(q.got) : q.got[i] = a[c]
            \/ /\ Len(q.got) = q.arg
               /\ \A d \in 1 .. Len(a) : \A i \in 1 .. Len(q.got) :
                    q.got[i] = a[d] => d > c

ShownAll == \A r \in Readers : ShownInv(reader[r], acked)

ListingInv == LogInv /\ OrderInv /\ ShownAll

LEMMA EntriesAppend ==
    ASSUME NEW f \in Seq(Pieces), NEW p \in Pieces
    PROVE  /\ Append(f, p) \in Seq(Pieces)
           /\ p.part = "open" => Entries(Append(f, p)) = Append(Entries(f), p.batch)
           /\ p.part # "open" => Entries(Append(f, p)) = Entries(f)
<1>1. Append(f, p) \in Seq(Pieces)
    OBVIOUS
<1>2. Entries(Append(f, p)) = IF p.part = "open" THEN Append(Entries(f), p.batch)
                              ELSE Entries(f)
    BY EntriesFacts
<1> QED
    BY <1>1, <1>2

\* Further pieces of b's line list b when they are its first, and change
\* nothing otherwise.
LEMMA EntriesGrow ==
    ASSUME NEW b \in Batches, NEW f \in Seq(Pieces), NEW rest \in Seq(Pieces),
           EndsWith(f, rest, b), NEW n \in 1 .. Len(rest)
    PROVE  Entries(f \o SubSeq(rest, 1, n)) =
             IF Len(rest) = 3 THEN Append(Entries(f), b) ELSE Entries(f)
<1>1. PICK w \in 0 .. 3 : /\ Len(rest) = 3 - w
                          /\ \A j \in 1 .. Len(rest) : rest[j] = Line(b)[w + j]
    BY DEF EndsWith
<1> DEFINE g == Append(f, rest[1])
           h == Append(g, rest[2])
<1>2. /\ rest[1] \in Pieces
      /\ rest[1].batch = b
      /\ rest[1].part = "open" <=> Len(rest) = 3
  <2>1. 1 \in 1 .. Len(rest) /\ w \in 0 .. 2
    BY <1>1
  <2>2. rest[1] = Line(b)[w + 1] /\ rest[1] \in Pieces
    BY <1>1, <2>1
  <2>3. w = 0 \/ w = 1 \/ w = 2
    BY <2>1
  <2> QED
    BY <1>1, <2>2, <2>3 DEF Line
<1>3. n >= 2 => /\ rest[2] \in Pieces
                /\ rest[2].part # "open"
  <2> SUFFICES ASSUME n >= 2 PROVE rest[2] \in Pieces /\ rest[2].part # "open"
    OBVIOUS
  <2>1. 2 \in 1 .. Len(rest) /\ w \in 0 .. 1
    BY <1>1
  <2>2. rest[2] = Line(b)[w + 2] /\ rest[2] \in Pieces
    BY <1>1, <2>1
  <2>3. w = 0 \/ w = 1
    BY <2>1
  <2> QED
    BY <2>2, <2>3 DEF Line
<1>4. n >= 3 => /\ rest[3] \in Pieces
                /\ rest[3].part # "open"
                /\ n = 3
  <2> SUFFICES ASSUME n >= 3 PROVE rest[3] \in Pieces /\ rest[3].part # "open" /\ n = 3
    OBVIOUS
  <2>1. 3 \in 1 .. Len(rest) /\ w + 3 = 3 /\ n = 3
    BY <1>1
  <2>2. rest[3] = Line(b)[w + 3] /\ rest[3] \in Pieces
    BY <1>1, <2>1
  <2> QED
    BY <2>1, <2>2 DEF Line
<1>5. g \in Seq(Pieces) /\ Entries(g) = IF Len(rest) = 3 THEN Append(Entries(f), b)
                                        ELSE Entries(f)
    BY <1>2, EntriesAppend
<1>6. n >= 2 => h \in Seq(Pieces) /\ Entries(h) = Entries(g)
  <2> HIDE DEF g
  <2> QED
    BY <1>3, <1>5, EntriesAppend
<1>7. n >= 3 => Entries(Append(h, rest[3])) = Entries(h)
  <2> HIDE DEF h
  <2> QED
    BY <1>4, <1>6, EntriesAppend
<1>8. /\ n = 1 => f \o SubSeq(rest, 1, n) = g
      /\ n = 2 => f \o SubSeq(rest, 1, n) = h
      /\ n = 3 => f \o SubSeq(rest, 1, n) = Append(h, rest[3])
  <2> DEFINE T(k) == f \o SubSeq(rest, 1, k)
  <2>1. ASSUME NEW k \in Nat, k < Len(rest) PROVE T(k + 1) = Append(T(k), rest[k + 1])
    OBVIOUS
  <2>2. T(0) = f
    OBVIOUS
  <2>3. 0 < Len(rest) /\ (n >= 2 => 1 < Len(rest)) /\ (n >= 3 => 2 < Len(rest))
    OBVIOUS
  <2> HIDE DEF T
  <2>4. T(0 + 1) = Append(T(0), rest[0 + 1])
    BY <2>1, <2>3
  <2>5. n >= 2 => T(1 + 1) = Append(T(1), rest[1 + 1])
    BY <2>1, <2>3
  <2>6. n >= 3 => T(2 + 1) = Append(T(2), rest[2 + 1])
    BY <2>1, <2>3
  <2>7. T(1) = g
    BY <2>2, <2>4
  <2>8. n >= 2 => T(2) = h
    BY <2>5, <2>7
  <2> HIDE DEF g, h
  <2>9. n >= 3 => T(3) = Append(h, rest[3])
    BY <2>6, <2>8
  <2>10. T(n) = f \o SubSeq(rest, 1, n)
    BY DEF T
  <2> QED
    BY <2>7, <2>8, <2>9, <2>10
<1>9. n = 1 \/ n = 2 \/ n = 3
  <2>1. Len(rest) <= 3
    BY <1>1
  <2> QED
    BY <2>1
<1> DEFINE whole == f \o SubSeq(rest, 1, n)
<1>10. (n = 1 => whole = g) /\ (n = 2 => whole = h) /\ (n = 3 => whole = Append(h, rest[3]))
    BY <1>8
<1> HIDE DEF g, h, whole
<1>11. n >= 1 /\ (n = 2 => n >= 2) /\ (n = 3 => n >= 2 /\ n >= 3)
    OBVIOUS
<1>12. Entries(whole) = Entries(g)
  <2>1. CASE n = 1
    <3>1. whole = g
        BY <1>10, <2>1
    <3> QED
        BY <3>1
  <2>2. CASE n = 2
    <3>1. whole = h /\ Entries(h) = Entries(g)
        BY <1>6, <1>10, <1>11, <2>2
    <3> QED
        BY <3>1
  <2>3. CASE n = 3
    <3>1. whole = Append(h, rest[3]) /\ Entries(h) = Entries(g)
        BY <1>6, <1>10, <1>11, <2>3
    <3>2. Entries(Append(h, rest[3])) = Entries(h)
        BY <1>7, <1>11, <2>3
    <3> QED
        BY <3>1, <3>2
  <2> QED
    BY <1>9, <2>1, <2>2, <2>3
<1> QED
    BY <1>5, <1>12 DEF whole

\* A batch that is new to the listing and to the acknowledged ones may be
\* listed last.
LEMMA ListedMore ==
    ASSUME NEW E, NEW f, NEW a, Listed(E, f, a), NEW b \in Batches, f[b] = "whole",
           \A i \in 1 .. Len(E) : E[i] # b, \A c \in 1 .. Len(a) : a[c] # b
    PROVE  Listed(Append(E, b), f, a)
<1> DEFINE F == Append(E, b)
           m == Len(E)
<1>1. /\ E \in Seq(Batches) /\ F \in Seq(Batches) /\ m \in Nat /\ Len(F) = m + 1
      /\ \A i \in 1 .. m : F[i] = E[i]
      /\ F[m + 1] = b
    BY DEF Listed
<1> HIDE DEF F, m
<1>2. ASSUME NEW i \in 1 .. m + 1 PROVE i \in 1 .. m \/ i = m + 1
    BY <1>1
<1>3. \A i \in 1 .. m + 1 : f[F[i]] = "whole"
    BY <1>1, <1>2 DEF Listed, m
<1>4. ASSUME NEW i \in 1 .. m + 1, NEW j \in 1 .. m + 1, F[i] = F[j] PROVE i = j
  <2>1. CASE i \in 1 .. m /\ j \in 1 .. m
    BY <1>1, <1>4, <2>1 DEF Listed, m
  <2>2. CASE i = m + 1 \/ j = m + 1
    BY <1>1, <1>2, <1>4, <2>2 DEF m
  <2> QED
    BY <1>2, <2>1, <2>2
<1>5. ASSUME NEW c \in 1 .. Len(a) PROVE \E i \in 1 .. m + 1 : F[i] = a[c]
  <2>1. PICK i \in 1 .. m : E[i] = a[c]
    BY DEF Listed, m
  <2>2. i \in 1 .. m + 1 /\ F[i] = a[c]
    BY <1>1, <2>1
  <2> QED
    BY <2>2
<1>6. ASSUME NEW c \in 1 .. Len(a), NEW d \in 1 .. Len(a),
             NEW i \in 1 .. m + 1, NEW j \in 1 .. m + 1,
             F[i] = a[c], F[j] = a[d], i < j
      PROVE  c < d
  <2>1. i \in 1 .. m /\ j \in 1 .. m
    BY <1>1, <1>2, <1>6
  <2>2. E[i] = a[c] /\ E[j] = a[d]
    BY <1>1, <1>6, <2>1
  <2> QED
    BY <1>6, <2>1, <2>2 DEF Listed, m
<1> QED
    BY <1>1, <1>3, <1>4, <1>5, <1>6 DEF Listed, F

\* What a store whose line is written a piece further leaves of that.
LEMMA ListedWritten ==
    ASSUME NEW E, NEW f, NEW a, Listed(E, f, a), NEW b \in Batches, f[b] = "whole",
           NEW rest \in Seq(Pieces), NEW left \in Seq(Pieces),
           Len(rest) <= 3, Len(left) < Len(rest), ListedLast(E, a, b, rest)
    PROVE  LET F == IF Len(rest) = 3 THEN Append(E, b) ELSE E
           IN  Listed(F, f, a) /\ ListedLast(F, a, b, left)
<1> DEFINE F == IF Len(rest) = 3 THEN Append(E, b) ELSE E
<1>1. Len(rest) \in Nat /\ Len(left) \in Nat /\ Len(left) < 3
    OBVIOUS
<1>2. Listed(F, f, a) /\ Len(F) > 0 /\ F[Len(F)] = b
  <2>1. CASE Len(rest) = 3
    <3>1. Listed(Append(E, b), f, a)
        BY <2>1, ListedMore DEF ListedLast
    <3>2. Len(Append(E, b)) > 0 /\ Append(E, b)[Len(Append(E, b))] = b
        BY DEF Listed
    <3>3. F = Append(E, b)
        BY <2>1
    <3> QED
        BY <3>1, <3>2, <3>3
  <2>2. CASE Len(rest) # 3
    <3> DEFINE k == Len(rest)
    <3>1. k \in Nat /\ k <= 3 /\ k # 3
        BY <1>1, <2>2
    <3> HIDE DEF k
    <3>2. k < 3
        BY <3>1
    <3>3. Len(rest) < 3 /\ F = E
        BY <2>2, <3>2 DEF k
    <3> HIDE DEF F
    <3> QED
        BY <3>3 DEF ListedLast
  <2> QED
    BY <2>1, <2>2
<1>3. \A c \in 1 .. Len(a) : a[c] # b
    BY DEF ListedLast
<1> HIDE DEF F
<1>4. ListedLast(F, a, b, left)
    BY <1>1, <1>2, <1>3 DEF ListedLast
<1> QED
    BY <1>2, <1>4 DEF F

LEMMA ListedFirst ==
    ASSUME NEW E, NEW a, NEW b \in Batches,
           \A i \in 1 .. Len(E) : E[i] # b, \A c \in 1 .. Len(a) : a[c] # b
    PROVE  ListedLast(E, a, b, Line(b))
<1>1. Len(Line(b)) = 3
    BY LineFacts
<1> QED
    BY <1>1 DEF ListedLast

\* The batch listed last may be acknowledged next.
LEMMA ListedAcked ==
    ASSUME NEW E, NEW f, NEW a \in Seq(Batches), Listed(E, f, a), Len(E) > 0,
           \A c \in 1 .. Len(a) : a[c] # E[Len(E)]
    PROVE  Listed(E, f, Append(a, E[Len(E)]))
<1> DEFINE b == E[Len(E)]
           g == Append(a, b)
           m == Len(a)
           k == Len(E)
<1>1. /\ E \in Seq(Batches) /\ k \in Nat /\ k > 0 /\ b \in Batches
      /\ g \in Seq(Batches) /\ m \in Nat /\ Len(g) = m + 1
      /\ \A c \in 1 .. m : g[c] = a[c] /\ g[c] # b
      /\ g[m + 1] = b /\ E[k] = b
  <2>1. E \in Seq(Batches) /\ k \in Nat /\ k > 0 /\ k \in 1 .. k
    BY DEF Listed
  <2>2. b \in Batches
    BY <2>1
  <2> HIDE DEF b
  <2>3. /\ g \in Seq(Batches) /\ m \in Nat /\ Len(g) = m + 1
        /\ \A c \in 1 .. m : g[c] = a[c]
        /\ g[m + 1] = b
    BY <2>2
  <2> QED
    BY <2>1, <2>2, <2>3 DEF b
<1> HIDE DEF b, g, m, k
<1>2. ASSUME NEW c \in 1 .. m + 1 PROVE c \in 1 .. m \/ c = m + 1
    BY <1>1
<1>3. ASSUME NEW c \in 1 .. m + 1 PROVE \E i \in 1 .. k : E[i] = g[c]
  <2>1. CASE c \in 1 .. m
    BY <1>1, <2>1 DEF Listed, m, k
  <2>2. CASE c = m + 1
    <3>1. k \in 1 .. k
        BY <1>1
    <3> QED
        BY <1>1, <2>2, <3>1
  <2> QED
    BY <1>2, <2>1, <2>2
<1>4. ASSUME NEW c \in 1 .. m + 1, NEW d \in 1 .. m + 1,
             NEW i \in 1 .. k, NEW j \in 1 .. k,
             E[i] = g[c], E[j] = g[d], i < j
      PROVE  c < d
  <2>1. k \in 1 .. k
    BY <1>1
  <2>2. i # k
    BY <1>4
  <2>3. c \in 1 .. m
    <3> SUFFICES ASSUME c = m + 1 PROVE FALSE
        BY <1>2
    <3>1. E[i] = E[k]
        BY <1>1, <1>4
    <3> QED
        BY <2>1, <2>2, <3>1 DEF Listed, k
  <2>4. CASE d \in 1 .. m
    <3>1. E[i] = a[c] /\ E[j] = a[d]
        BY <1>1, <1>4, <2>3, <2>4
    <3> QED
        BY <1>4, <2>3, <2>4, <3>1 DEF Listed, k, m
  <2>5. CASE d = m + 1
    BY <1>1, <2>3, <2>5
  <2> QED
    BY <1>2, <2>4, <2>5
<1>5. Listed(E, f, g)
    BY <1>1, <1>3, <1>4 DEF Listed, k
<1> QED
    BY <1>5 DEF g, b

LEMMA OrderInvStep == LogInv /\ OrderInv /\ [Next]_vars => OrderInv'
<1> SUFFICES ASSUME LogInv, OrderInv, [Next]_vars PROVE OrderInv'
    OBVIOUS
<1> DEFINE E == Entries(meta)
<1>0. /\ StoreTypes /\ StoreInv
      /\ Listed(E, files, acked)
      /\ store.pc = "meta" => ListedLast(E, acked, store.batch, store.rest)
    BY DEF LogInv, StoreInv, WriterInv, OrderInv
<1>a. UNCHANGED meta => UNCHANGED E
    OBVIOUS
<1> HIDE DEF E
<1>1. ASSUME UNCHANGED <<meta, acked>>,
             \A b \in Batches : files[b] = "whole" => files'[b] = "whole"
      PROVE  Listed(E, files', acked')
  <2>1. \A i \in 1 .. Len(E) : E[i] \in Batches
    BY <1>0 DEF Listed
  <2> QED
    BY <1>0, <1>1, <2>1 DEF Listed
<1>2. ASSUME NEW b \in Batches, BeginStore(b) PROVE OrderInv'
  <2>1. \A c \in Batches : files[c] = "whole" => files'[c] = "whole"
    BY <1>0, <1>2 DEF BeginStore, StoreTypes
  <2>2. UNCHANGED <<meta, acked>> /\ store'.pc # "meta"
    BY <1>2 DEF BeginStore
  <2>3. Listed(E', files', acked')
    BY <1>1, <1>a, <2>1, <2>2
  <2> QED
    BY <2>2, <2>3 DEF OrderInv, E
<1>3. ASSUME WriteFrame PROVE OrderInv'
  <2> DEFINE b == store.batch
  <2>1. b \in Batches /\ files[b] = "part"
    BY <1>0, <1>3 DEF WriteFrame, StoreTypes, LogInv, RecordInv
  <2>2. \A c \in Batches : files[c] = "whole" => files'[c] = "whole"
    BY <1>0, <1>3 DEF WriteFrame, StoreTypes
  <2>3. UNCHANGED <<meta, acked>> /\ store' = [pc |-> "meta", batch |-> b, rest |-> Line(b)]
    BY <1>0, <1>3 DEF WriteFrame, StoreTypes
  <2> HIDE DEF b
  <2>4. Listed(E', files', acked')
    BY <1>1, <1>a, <2>2, <2>3
  <2>5. \A i \in 1 .. Len(E) : E[i] # b
    BY <1>0, <2>1 DEF Listed
  <2>6. \A c \in 1 .. Len(acked) : acked[c] # b
    BY <1>0, <2>5 DEF Listed
  <2>7. ListedLast(E', acked', b, Line(b))
    <3>1. ListedLast(E, acked, b, Line(b))
        BY <2>1, <2>5, <2>6, ListedFirst
    <3> QED
        BY <1>a, <2>3, <3>1
  <2> QED
    BY <2>3, <2>4, <2>7 DEF OrderInv, E
<1>4. ASSUME NEW n \in 1 .. 3, WriteLine(n) PROVE OrderInv'
  <2> DEFINE b == store.batch
  <2>1. /\ b \in Batches /\ meta \in Seq(Pieces) /\ store.rest \in Seq(Pieces)
        /\ n \in 1 .. Len(store.rest) /\ files[b] = "whole"
        /\ EndsWith(meta, store.rest, b)
    BY <1>0, <1>4, WriteLineFacts
  <2>2. /\ store' = [pc |-> "meta", batch |-> b, rest |-> store'.rest]
        /\ UNCHANGED <<files, acked>>
        /\ Len(store'.rest) = Len(store.rest) - n
    BY <1>0, <1>4, WriteLineFacts
  <2>3. meta' = meta \o SubSeq(store.rest, 1, n) /\ store.pc = "meta"
    BY <1>4 DEF WriteLine
  <2>4. E' = IF Len(store.rest) = 3 THEN Append(E, b) ELSE E
    <3>1. Entries(meta \o SubSeq(store.rest, 1, n)) =
            IF Len(store.rest) = 3 THEN Append(Entries(meta), b) ELSE Entries(meta)
        BY <2>1, EntriesGrow
    <3>2. Entries(meta') = Entries(meta \o SubSeq(store.rest, 1, n))
        BY <2>3
    <3> QED
        BY <3>1, <3>2 DEF E
  <2>5. Len(store.rest) <= 3 /\ Len(store'.rest) < 3 /\ Len(store.rest) \in Nat
    BY <2>1, <2>2 DEF EndsWith
  <2>6. ListedLast(E, acked, b, store.rest)
    BY <1>0, <2>3
  <2>7. Listed(E', files, acked) /\ ListedLast(E', acked, b, store'.rest)
    <3> DEFINE F == IF Len(store.rest) = 3 THEN Append(E, b) ELSE E
    <3>1. store'.rest \in Seq(Pieces) /\ Len(store'.rest) < Len(store.rest)
        BY <1>0, <1>4, <2>1, <2>2, WriteLineFacts
    <3>2. Listed(F, files, acked) /\ ListedLast(F, acked, b, store'.rest)
        BY <1>0, <2>1, <2>5, <2>6, <3>1, ListedWritten
    <3> QED
        BY <2>4, <3>2
  <2> HIDE DEF b
  <2>9. store'.batch = b /\ files' = files /\ acked' = acked
    BY <2>2
  <2> QED
    BY <2>7, <2>9 DEF OrderInv, E
<1>5. ASSUME Reply PROVE OrderInv'
  <2>1. /\ store.pc = "meta" /\ Len(store.rest) = 0 /\ store'.pc # "meta"
        /\ UNCHANGED <<files, meta>> /\ acked' = Append(acked, store.batch)
        /\ acked \in Seq(Batches)
    BY <1>0, <1>5 DEF Reply, Idle, StoreTypes
  <2>2. Len(E) > 0 /\ E[Len(E)] = store.batch /\ \A c \in 1 .. Len(acked) : acked[c] # E[Len(E)]
    BY <1>0, <2>1 DEF ListedLast
  <2>3. Listed(E, files, Append(acked, E[Len(E)]))
    BY <1>0, <2>1, <2>2, ListedAcked
  <2>4. Listed(E', files', acked')
    BY <1>a, <2>1, <2>2, <2>3
  <2> QED
    BY <2>1, <2>4 DEF OrderInv, E
<1>6. ASSUME store' = Idle, UNCHANGED <<files, meta, acked>> PROVE OrderInv'
  <2>1. store'.pc # "meta"
    BY <1>6 DEF Idle
  <2> QED
    BY <1>0, <1>6, <2>1 DEF OrderInv, E
<1>7. ASSUME UNCHANGED <<files, meta, acked, store>> PROVE OrderInv'
    BY <1>0, <1>7 DEF OrderInv, E
<1> QED
    BY <1>2, <1>3, <1>4, <1>5, <1>6, <1>7
       DEF Next, vars, FailStore, Crash, BeginRead, ReadMeta, LoadFrame, Answer

\* The last entries of the listing are what a thread may show of it.
LEMMA LastEntriesShown ==
    ASSUME NEW E, NEW f, NEW a \in Seq(Batches), Listed(E, f, a), NEW limit \in Nat \ {0}
    PROVE  LET got == LastEntries(E, limit)
           IN /\ got \in Seq(Batches)
              /\ \A c \in 1 .. Len(a) :
                    \/ \E i \in 1 .. Len(got) : got[i] = a[c]
                    \/ /\ Len(got) = limit
                       /\ \A d \in 1 .. Len(a) : \A i \in 1 .. Len(got) :
                            got[i] = a[d] => d > c
<1> DEFINE got == LastEntries(E, limit)
           m == Len(E)
<1>1. E \in Seq(Batches) /\ m \in Nat
    BY DEF Listed
<1>2. CASE ~ (limit < m)
  <2>1. got = E
    BY <1>2 DEF LastEntries
  <2> HIDE DEF got
  <2> QED
    BY <1>1, <2>1 DEF Listed, got
<1>3. CASE limit < m
  <2>1. got = SubSeq(E, m - limit + 1, m)
    BY <1>3 DEF LastEntries
  <2>2. /\ got \in Seq(Batches) /\ Len(got) = limit
        /\ \A i \in 1 .. limit : got[i] = E[m - limit + i]
    <3> DEFINE lo == m - limit + 1
    <3>1. lo \in 1 .. m /\ lo \in Nat /\ m - lo + 1 = limit
        BY <1>1, <1>3
    <3>2. /\ SubSeq(E, lo, m) \in Seq(Batches)
          /\ Len(SubSeq(E, lo, m)) = m - lo + 1
          /\ \A i \in 1 .. m - lo + 1 : SubSeq(E, lo, m)[i] = E[lo + i - 1]
        BY <1>1, <3>1
    <3>3. \A i \in 1 .. limit : lo + i - 1 = m - limit + i
        BY <1>1
    <3> QED
        BY <2>1, <3>1, <3>2, <3>3
  <2> HIDE DEF got, m
  <2>3. ASSUME NEW c \in 1 .. Len(a)
        PROVE  \/ \E i \in 1 .. Len(got) : got[i] = a[c]
               \/ \A d \in 1 .. Len(a) : \A i \in 1 .. Len(got) : got[i] = a[d] => d > c
    <3>1. PICK k \in 1 .. m : E[k] = a[c]
        BY DEF Listed, m
    <3>2. CASE k > m - limit
      <4> DEFINE i == k - (m - limit)
      <4>1. i \in 1 .. limit /\ m - limit + i = k
        BY <1>1, <1>3, <3>2
      <4> HIDE DEF i
      <4>2. got[i] = a[c]
        BY <2>2, <3>1, <4>1
      <4> QED
        BY <2>2, <4>1, <4>2
    <3>3. CASE k <= m - limit
      <4>1. ASSUME NEW d \in 1 .. Len(a), NEW i \in 1 .. limit, got[i] = a[d]
            PROVE  d > c
        <5> DEFINE j == m - limit + i
        <5>1. j \in 1 .. m /\ k < j
            BY <1>1, <1>3, <3>3
        <5>2. E[j] = a[d]
            BY <2>2, <4>1
        <5> HIDE DEF j
        <5>3. c < d
            BY <3>1, <5>1, <5>2 DEF Listed, m
        <5> QED
            BY <5>3
      <4> QED
        BY <2>2, <4>1
    <3> QED
        BY <1>1, <3>2, <3>3
  <2> QED
    BY <2>2, <2>3 DEF got
<1> QED
    BY <1>1, <1>2, <1>3

\* A request that stays while batches are acknowledged.
LEMMA ShownKept ==
    ASSUME LogInv, ShownAll, NEW r \in Readers, Len(acked') \in Nat,
           Len(acked') >= Len(acked), \A c \in 1 .. Len(acked) : acked'[c] = acked[c]
    PROVE  ShownInv(reader[r], acked')
<1> DEFINE q == reader[r]
<1>1. ShownInv(q, acked) /\ q.known \in Nat /\ q.known <= Len(acked) /\ Len(acked) \in Nat
  <2>1. RequestInv(q, files, acked) /\ StoreTypes
    BY DEF LogInv, StoreInv, WriterInv, ReaderInv
  <2> QED
    BY <2>1 DEF ShownAll, RequestInv, RequestType, StoreTypes
<1> HIDE DEF q
<1>2. ASSUME q.pc = "200", q.kind = "list", NEW c \in 1 .. q.known
      PROVE  \/ \E i \in 1 .. Len(q.got) : q.got[i] = acked'[c]
             \/ /\ Len(q.got) = q.arg
                /\ \A d \in 1 .. Len(acked') : \A i \in 1 .. Len(q.got) :
                     q.got[i] = acked'[d] => d > c
  <2>1. c \in 1 .. Len(acked) /\ acked'[c] = acked[c]
    BY <1>1
  <2>2. CASE \E i \in 1 .. Len(q.got) : q.got[i] = acked[c]
    BY <2>1, <2>2
  <2>3. CASE /\ Len(q.got) = q.arg
             /\ \A d \in 1 .. Len(acked) : \A i \in 1 .. Len(q.got) :
                  q.got[i] = acked[d] => d > c
    <3>1. ASSUME NEW d \in 1 .. Len(acked'), NEW i \in 1 .. Len(q.got), q.got[i] = acked'[d]
          PROVE  d > c
      <4>1. CASE d \in 1 .. Len(acked)
        BY <2>3, <3>1, <4>1
      <4>2. CASE d > Len(acked)
        BY <1>1, <2>1, <4>2
      <4> QED
        BY <1>1, <4>1, <4>2
    <3> QED
        BY <2>3, <3>1
  <2> QED
    BY <1>1, <1>2, <2>2, <2>3 DEF ShownInv
<1> QED
    BY <1>1, <1>2 DEF ShownInv, q

LEMMA ShownReplaced ==
    ASSUME ShownAll, NEW r \in Readers, acked' = acked, ReaderInv
    PROVE  \A q : ShownInv(q, acked) /\ reader' = [reader EXCEPT ![r] = q] => ShownAll'
<1> SUFFICES ASSUME NEW q, ShownInv(q, acked), reader' = [reader EXCEPT ![r] = q]
             PROVE  ShownAll'
    OBVIOUS
<1>1. ASSUME NEW p \in Readers PROVE ShownInv(reader'[p], acked')
  <2>1. reader'[p] = IF p = r THEN q ELSE reader[p]
    BY DEF ReaderInv
  <2> QED
    BY <2>1 DEF ShownAll
<1> QED
    BY <1>1 DEF ShownAll

LEMMA FreeShown == \A a : ShownInv(Free, a)
<1> SUFFICES ASSUME NEW a PROVE ShownInv(Free, a)
    OBVIOUS
<1>1. Free.got = <<>> /\ Free.pc = "free" /\ Free.kind = "list" /\ Free.arg = None
    BY DEF Free
<1> QED
    BY <1>1 DEF ShownInv

LEMMA ShownStep == ListingInv /\ LogInv' /\ [Next]_vars => ShownAll'
<1> SUFFICES ASSUME ListingInv, LogInv', [Next]_vars PROVE ShownAll'
    OBVIOUS
<1>0. /\ LogInv /\ ShownAll /\ StoreTypes /\ ReaderInv
      /\ acked \in Seq(Batches) /\ acked' \in Seq(Batches)
      /\ \A r \in Readers : RequestInv(reader[r], files, acked)
    BY DEF ListingInv, LogInv, StoreInv, WriterInv, ReaderInv, StoreTypes
<1>1. ASSUME UNCHANGED reader, Len(acked') >= Len(acked),
             \A c \in 1 .. Len(acked) : acked'[c] = acked[c]
      PROVE  ShownAll'
  <2>1. ASSUME NEW r \in Readers PROVE ShownInv(reader[r], acked')
    BY <1>0, <1>1, ShownKept
  <2> QED
    BY <1>1, <2>1 DEF ShownAll
<1>2. ASSUME UNCHANGED <<reader, acked>> PROVE ShownAll'
  <2>1. Len(acked') >= Len(acked)
    BY <1>0, <1>2
  <2> QED
    BY <1>1, <1>2, <2>1
<1>3. ASSUME Reply PROVE ShownAll'
  <2>1. acked' = Append(acked, store.batch) /\ UNCHANGED reader
    BY <1>3 DEF Reply
  <2>2. Len(acked') >= Len(acked) /\ \A c \in 1 .. Len(acked) : acked'[c] = acked[c]
    BY <1>0, <2>1
  <2> QED
    BY <1>1, <2>1, <2>2
<1>4. ASSUME Crash PROVE ShownAll'
    BY <1>4, FreeShown DEF Crash, ShownAll
<1>5. ASSUME NEW r \in Readers, NEW k \in Requests, BeginRead(r, k[1], k[2])
      PROVE  ShownAll'
  <2> DEFINE q == [Free EXCEPT !.pc = "read", !.kind = k[1], !.arg = k[2],
                               !.known = Len(acked)]
  <2>1. k[1] = "list" => k[2] \in Limits
    BY DEF Requests
  <2>2. q.got = <<>> /\ q.kind = k[1] /\ q.arg = k[2] /\ q.pc = "read"
    BY DEF Free
  <2>3. reader' = [reader EXCEPT ![r] = q] /\ acked' = acked
    BY <1>5 DEF BeginRead
  <2> HIDE DEF q
  <2>4. ShownInv(q, acked)
    BY <2>1, <2>2 DEF ShownInv
  <2> QED
    BY <1>0, <2>3, <2>4, ShownReplaced
<1>6. ASSUME NEW r \in Readers, ReadMeta(r) PROVE ShownAll'
  <2> DEFINE q == reader[r]
             got == LastEntries(Entries(meta), q.arg)
  <2>1. ShownInv(q, acked) /\ q.pc = "read" /\ RequestInv(q, files, acked) /\ acked' = acked
    BY <1>0, <1>6 DEF ReadMeta, ShownAll
  <2>2. \/ \E pc \in {"500", "404"} : reader' = [reader EXCEPT ![r] = [q EXCEPT !.pc = pc]]
        \/ /\ q.kind # "list"
           /\ reader' = [reader EXCEPT ![r] = [q EXCEPT !.pc = "load"]]
        \/ /\ q.kind = "list"
           /\ reader' = [reader EXCEPT ![r] = [q EXCEPT !.pc = "200", !.got = got]]
        \/ /\ q.kind = "metadata"
           /\ reader' = [reader EXCEPT ![r] = [q EXCEPT !.pc = "200"]]
    BY <1>6 DEF ReadMeta
  <2>3. q \in [pc : Answers, kind : Kinds, arg : Batches \cup {None} \cup Nat,
               known : Nat, got : {q.got}, frame : Content]
    BY <2>1 DEF RequestInv, RequestType
  <2>4. q.kind = "list" =>
          /\ got \in Seq(Batches)
          /\ \A c \in 1 .. Len(acked) :
                \/ \E i \in 1 .. Len(got) : got[i] = acked[c]
                \/ /\ Len(got) = q.arg
                   /\ \A d \in 1 .. Len(acked) : \A i \in 1 .. Len(got) :
                        got[i] = acked[d] => d > c
    <3> SUFFICES ASSUME q.kind = "list"
                 PROVE  /\ got \in Seq(Batches)
                        /\ \A c \in 1 .. Len(acked) :
                              \/ \E i \in 1 .. Len(got) : got[i] = acked[c]
                              \/ /\ Len(got) = q.arg
                                 /\ \A d \in 1 .. Len(acked) : \A i \in 1 .. Len(got) :
                                      got[i] = acked[d] => d > c
        OBVIOUS
    <3>1. q.arg \in Nat \ {0}
        BY <2>1, LimitsAssumption DEF ShownInv
    <3>2. Listed(Entries(meta), files, acked)
        BY DEF ListingInv, OrderInv
    <3> HIDE DEF q
    <3> QED
        BY <1>0, <3>1, <3>2, LastEntriesShown
  <2> HIDE DEF q, got
  <2>5. ASSUME NEW pc \in {"500", "404"} PROVE ShownInv([q EXCEPT !.pc = pc], acked)
    BY <2>1, <2>3 DEF ShownInv
  <2>6. CASE \E pc \in {"500", "404"} : reader' = [reader EXCEPT ![r] = [q EXCEPT !.pc = pc]]
    BY <1>0, <2>1, <2>5, <2>6, ShownReplaced
  <2>7. CASE /\ q.kind = "list"
             /\ reader' = [reader EXCEPT ![r] = [q EXCEPT !.pc = "200", !.got = got]]
    <3> DEFINE p == [q EXCEPT !.pc = "200", !.got = got]
    <3>1. p.got = got /\ p.kind = q.kind /\ p.arg = q.arg /\ p.known = q.known
        BY <2>3
    <3>2. q.known <= Len(acked) /\ q.known \in Nat /\ Len(acked) \in Nat
        BY <1>0, <2>1, <2>3 DEF RequestInv
    <3> HIDE DEF p
    <3>3. ShownInv(p, acked)
      <4>1. \A c \in 1 .. q.known : c \in 1 .. Len(acked)
        BY <3>2
      <4>2. q.arg \in Limits
        BY <2>1, <2>7 DEF ShownInv
      <4>3. p.pc = "200" /\ p.got \in Seq(Batches) /\ p.arg \in Limits
        BY <2>3, <2>4, <2>7, <3>1, <4>2 DEF p
      <4>4. \A c \in 1 .. q.known :
              \/ \E i \in 1 .. Len(got) : got[i] = acked[c]
              \/ /\ Len(got) = q.arg
                 /\ \A d \in 1 .. Len(acked) : \A i \in 1 .. Len(got) :
                      got[i] = acked[d] => d > c
        BY <2>4, <2>7, <4>1, Zenon
      <4> QED
        BY <3>1, <4>3, <4>4 DEF ShownInv
    <3>4. reader' = [reader EXCEPT ![r] = p]
        BY <2>7 DEF p
    <3> QED
        BY <1>0, <2>1, <3>3, <3>4, ShownReplaced
  <2>8. CASE /\ q.kind = "metadata"
             /\ reader' = [reader EXCEPT ![r] = [q EXCEPT !.pc = "200"]]
    <3>1. ShownInv([q EXCEPT !.pc = "200"], acked)
        BY <2>1, <2>3, <2>8 DEF ShownInv
    <3> QED
        BY <1>0, <2>1, <2>8, <3>1, ShownReplaced
  <2>9. CASE /\ q.kind # "list"
             /\ reader' = [reader EXCEPT ![r] = [q EXCEPT !.pc = "load"]]
    <3>1. ShownInv([q EXCEPT !.pc = "load"], acked)
        BY <2>1, <2>3, <2>9 DEF ShownInv
    <3> QED
        BY <1>0, <2>1, <2>9, <3>1, ShownReplaced
  <2> QED
    BY <2>2, <2>6, <2>7, <2>8, <2>9
<1>7. ASSUME NEW r \in Readers, LoadFrame(r) PROVE ShownAll'
  <2> DEFINE q == reader[r]
             p == [q EXCEPT !.frame = files[q.arg],
                            !.pc = IF files[q.arg] = "none" THEN "404"
                                   ELSE IF q.kind = "decompress" /\ files[q.arg] # "whole"
                                        THEN "400"
                                   ELSE "200"]
  <2>1. /\ ShownInv(q, acked) /\ q.pc = "load" /\ RequestInv(q, files, acked)
        /\ acked' = acked /\ reader' = [reader EXCEPT ![r] = p]
    BY <1>0, <1>7 DEF LoadFrame, ShownAll
  <2>2. q \in [pc : Answers, kind : Kinds, arg : Batches \cup {None} \cup Nat,
               known : Nat, got : {q.got}, frame : Content]
    BY <2>1 DEF RequestInv, RequestType
  <2>3. p.got = q.got /\ p.kind = q.kind /\ p.arg = q.arg
    BY <2>2
  <2>4. q.kind # "list"
    BY <2>1 DEF ShownInv
  <2> HIDE DEF p, q
  <2>5. ShownInv(p, acked)
    BY <2>1, <2>3, <2>4 DEF ShownInv
  <2> QED
    BY <1>0, <2>1, <2>5, ShownReplaced
<1>8. ASSUME NEW r \in Readers, Answer(r) PROVE ShownAll'
    BY <1>0, <1>8, FreeShown, ShownReplaced DEF Answer
<1> QED
    BY <1>2, <1>3, <1>4, <1>5, <1>6, <1>7, <1>8
       DEF Next, vars, BeginStore, WriteFrame, WriteLine, FailStore

LEMMA InitListing == Init => ListingInv
<1> SUFFICES ASSUME Init PROVE ListingInv
    OBVIOUS
<1>1. Entries(meta) = <<>> /\ acked = <<>> /\ store.pc # "meta"
    BY EntriesFacts DEF Init, Idle
<1>2. Listed(<<>>, files, <<>>)
    BY DEF Listed
<1>3. OrderInv
    BY <1>1, <1>2 DEF OrderInv
<1>4. ShownAll
    BY FreeShown DEF Init, ShownAll
<1> QED
    BY <1>3, <1>4, InitLogInv DEF ListingInv

LEMMA ListingInvAlways == Spec => []ListingInv
<1>1. ListingInv /\ LogInv' /\ [Next]_vars => ListingInv'
    BY OrderInvStep, ShownStep DEF ListingInv
<1> QED
    BY <1>1, InitListing, LogInvAlways, PTL DEF Spec

\* A listing that is answered shows the newest batches, whatever was stored,
\* acknowledged or lost while the thread was busy (app.py:309-311).
THEOREM ListingIsNewestCorrect == Spec => []ListingIsNewest
<1>1. ListingInv => ListingIsNewest
  <2> SUFFICES ASSUME ListingInv, NEW r \in Readers,
                      reader[r].pc = "200", reader[r].kind = "list",
                      NEW c \in 1 .. reader[r].known
               PROVE  LET q == reader[r]
                          shown == {q.got[i] : i \in DOMAIN q.got}
                      IN  acked[c] \in shown \/
                            /\ Len(q.got) = q.arg
                            /\ \A d \in 1 .. Len(acked) : acked[d] \in shown => d > c
    BY DEF ListingIsNewest
  <2>1. ShownInv(reader[r], acked)
    BY DEF ListingInv, ShownAll
  <2>2. DOMAIN reader[r].got = 1 .. Len(reader[r].got)
    BY <2>1 DEF ShownInv
  <2> QED
    BY <2>1, <2>2 DEF ShownInv
<1> QED
    BY <1>1, ListingInvAlways, PTL

\* The variables of the store keep their types.
THEOREM TypeCorrect == Spec => []TypeOK
<1>1. ListingInv /\ LogInv => (faults \in 0 .. MaxFaults => TypeOK)
  <2> SUFFICES ASSUME ListingInv, LogInv, faults \in 0 .. MaxFaults PROVE TypeOK
    OBVIOUS
  <2>1. ASSUME NEW r \in Readers
        PROVE  reader[r] \in
                 [pc : Answers, kind : Kinds, arg : Batches \cup {None} \cup Nat,
                  known : Nat, got : Seq(Batches), frame : Content]
    <3>1. RequestType(reader[r]) /\ ShownInv(reader[r], acked)
        BY DEF LogInv, StoreInv, ReaderInv, RequestInv, ListingInv, ShownAll
    <3>2. reader[r].got \in Seq(Batches)
        BY <3>1 DEF ShownInv
    <3> QED
        BY <3>1, <3>2 DEF RequestType
  <2>2. reader = [r \in Readers |-> reader[r]] /\ StoreTypes
    BY DEF LogInv, StoreInv, WriterInv, ReaderInv
  <2> QED
    BY <2>1, <2>2 DEF TypeOK, StoreTypes, Answers, Kinds, Content
<1>2. Init => faults \in 0 .. MaxFaults
    BY MaxFaultsAssumption DEF Init
<1>3. faults \in 0 .. MaxFaults /\ [Next]_vars => (faults \in 0 .. MaxFaults)'
  <2> SUFFICES ASSUME faults \in 0 .. MaxFaults, [Next]_vars
               PROVE  faults' \in 0 .. MaxFaults
    OBVIOUS
  <2>1. faults' = faults \/ (faults < MaxFaults /\ faults' = faults + 1)
    BY DEF Next, vars, BeginStore, WriteFrame, WriteLine, Reply, FailStore, Crash,
           BeginRead, ReadMeta, LoadFrame, Answer
  <2> QED
    BY <2>1, MaxFaultsAssumption
<1> QED
    BY <1>1, <1>2, <1>3, ListingInvAlways, LogInvAlways, PTL DEF Spec
=============================================================================
