--------------------------- MODULE FileToolProofs ----------------------------
(***************************************************************************)
(* What a success of the command line tool means, and what a failure       *)
(* leaves behind, for any number of invocations and files, any input and   *)
(* any interleaving.                                                       *)
(*                                                                         *)
(* The argument: the file that an invocation has opened last for writing   *)
(* holds what it has written so far of its result, as long as no other has *)
(* the same file open; and a frame records how many chunks follow, so that *)
(* no beginning of it but the whole is one.                                *)
(* What undisturbed invocations read or write therefore never begins with  *)
(* a frame of anything that was not compressed.                            *)
(***************************************************************************)
EXTENDS FileTool, SequenceTheorems, WellFoundedInduction, NaturalsInduction, TLAPS

\* An invocation that may still write.
Writing(p, f) == pc[p] = "write" /\ Output(p) = f

\* File f holds what p has written so far.
Holds(f, p) ==
    /\ file[f] \in Seq(Piece) /\ Len(file[f]) = wrote[p]
    /\ \A i \in 1 .. wrote[p] : file[f][i] = result[p][i]

Ready(p) == Accepted(p) /\ Len(buf[p]) = size[p] /\ result[p] = Converted(p)

OwnerInv(f, p) ==
    /\ pc[p] \in {"write", "success", "failure"}
    /\ Output(p) = f /\ Ready(p)
    /\ result[p] \in Seq(Piece) /\ wrote[p] <= Len(result[p])
    /\ pc[p] = "success" => wrote[p] = Len(result[p])
    /\ p \notin mixed => Holds(f, p) /\ \A q \in Procs \ {p} : ~ Writing(q, f)

ProcInv(p) ==
    /\ pc[p] \in {"main", "open", "read", "create"} => wrote[p] = 0
    /\ pc[p] \in {"main", "open"} => buf[p] = <<>>
    /\ pc[p] \in {"create", "write"} => Ready(p)
    /\ pc[p] = "read" => file[Input(p)] \in Seq(Piece)
    /\ pc[p] = "write" => file[Output(p)] \in Seq(Piece)

ToolInv ==
    /\ TypeOK
    /\ DOMAIN call = Procs
    /\ \A p \in Procs : ProcInv(p)
    /\ \A f \in Paths : \A p \in Procs : owner[f] = p => OwnerInv(f, p)

-----------------------------------------------------------------------------
(***************************************************************************)
(* Frames.                                                                 *)
(***************************************************************************)
LEMMA WrapFacts ==
    ASSUME NEW x \in Piece
    PROVE  Wrap(x) \in Piece /\ Unwrap(Wrap(x)) = x
<1>1. PICK w \in Nat, k \in {"data", "head", "hole"}, v \in Nat :
        x = [wraps |-> w, kind |-> k, value |-> v]
  BY DEF Piece
<1>2. Wrap(x) = [wraps |-> w + 1, kind |-> k, value |-> v]
  BY <1>1 DEF Wrap
<1>3. Unwrap(Wrap(x)) = [wraps |-> (w + 1) - 1, kind |-> k, value |-> v]
  BY <1>2 DEF Unwrap
<1>4. w + 1 \in Nat /\ (w + 1) - 1 = w
  OBVIOUS
<1>5. [wraps |-> w + 1, kind |-> k, value |-> v] \in Piece
  BY <1>4 DEF Piece
<1> QED
  BY <1>1, <1>2, <1>3, <1>4, <1>5

LEMMA UnwrapType ==
    ASSUME NEW x \in Piece, x.wraps > 0
    PROVE  Unwrap(x) \in Piece
<1>1. PICK w \in Nat, k \in {"data", "head", "hole"}, v \in Nat :
        x = [wraps |-> w, kind |-> k, value |-> v]
  BY DEF Piece
<1>2. Unwrap(x) = [wraps |-> w - 1, kind |-> k, value |-> v] /\ w - 1 \in Nat
  BY <1>1 DEF Unwrap
<1> QED
  BY <1>2 DEF Piece

LEMMA EncodeFacts ==
    ASSUME NEW f \in Seq(Piece)
    PROVE  /\ Encode(f) \in Seq(Piece) /\ Len(Encode(f)) = Len(f) + 1
           /\ Encode(f)[1] = FrameHead(Len(f))
           /\ \A i \in 1 .. Len(f) : Encode(f)[i + 1] = Wrap(f[i])
<1> DEFINE chunk == [i \in 1 .. Len(f) |-> Wrap(f[i])]
           head == <<FrameHead(Len(f))>>
<1>1. \A i \in 1 .. Len(f) : Wrap(f[i]) \in Piece
  <2> SUFFICES ASSUME NEW i \in 1 .. Len(f) PROVE Wrap(f[i]) \in Piece
    OBVIOUS
  <2>1. f[i] \in Piece
    OBVIOUS
  <2> QED
    BY <2>1, WrapFacts
<1>2. chunk \in Seq(Piece) /\ Len(chunk) = Len(f) /\ Len(f) \in Nat
  BY <1>1
<1>3. head \in Seq(Piece) /\ Len(head) = 1 /\ head[1] = FrameHead(Len(f))
  BY <1>2 DEF FrameHead, Piece
<1>4. Encode(f) = head \o chunk
  BY DEF Encode
<1>5. \A i \in 1 .. Len(f) : chunk[i] = Wrap(f[i])
  OBVIOUS
<1> HIDE DEF chunk, head
<1>6. /\ head \o chunk \in Seq(Piece) /\ Len(head \o chunk) = 1 + Len(f)
      /\ (head \o chunk)[1] = head[1]
      /\ \A i \in 1 .. Len(f) : (head \o chunk)[i + 1] = chunk[i]
  <2> DEFINE e == head \o chunk
  <2>1. /\ e \in Seq(Piece) /\ Len(e) = Len(head) + Len(chunk)
        /\ \A i \in 1 .. Len(head) + Len(chunk) :
              e[i] = IF i <= Len(head) THEN head[i] ELSE chunk[i - Len(head)]
    BY <1>2, <1>3, ConcatProperties
  <2>2. /\ e \in Seq(Piece) /\ Len(e) = 1 + Len(f)
        /\ \A i \in 1 .. 1 + Len(f) : e[i] = IF i <= 1 THEN head[i] ELSE chunk[i - 1]
    BY <1>2, <1>3, <2>1
  <2> HIDE DEF e
  <2>3. e[1] = head[1]
    BY <1>2, <2>2
  <2>4. ASSUME NEW i \in 1 .. Len(f) PROVE e[i + 1] = chunk[i]
    <3>1. i + 1 \in 1 .. 1 + Len(f) /\ ~ (i + 1 <= 1) /\ (i + 1) - 1 = i
      BY <1>2
    <3> QED
      BY <2>2, <3>1
  <2> QED
    BY <2>2, <2>3, <2>4 DEF e
<1>7. 1 + Len(f) = Len(f) + 1
  BY <1>2
<1> QED
  BY <1>3, <1>4, <1>5, <1>6, <1>7

LEMMA DecodeType ==
    ASSUME NEW f \in Seq(Piece), IsFrame(f)
    PROVE  Decode(f) \in Seq(Piece)
<1>1. Len(f) \in Nat /\ Len(f) > 0
  BY DEF IsFrame
<1>2. \A i \in 1 .. Len(f) - 1 : Unwrap(f[i + 1]) \in Piece
  <2> SUFFICES ASSUME NEW i \in 1 .. Len(f) - 1 PROVE Unwrap(f[i + 1]) \in Piece
    OBVIOUS
  <2>1. i + 1 \in 2 .. Len(f) /\ i + 1 \in 1 .. Len(f)
    BY <1>1
  <2>2. f[i + 1] \in Piece /\ f[i + 1].wraps > 0
    BY <2>1 DEF IsFrame
  <2> QED
    BY <2>2, UnwrapType
<1> QED
  BY <1>1, <1>2 DEF Decode

\* Of the beginnings of a frame only the whole is one.
LEMMA BeginningIsNoFrame ==
    ASSUME NEW b \in Seq(Piece), NEW g \in Seq(Piece), IsFrame(g),
           Len(g) <= Len(Encode(b)), \A i \in 1 .. Len(g) : g[i] = Encode(b)[i]
    PROVE  Decode(g) = b
<1>1. Len(b) \in Nat /\ Len(g) \in Nat /\ Len(g) > 0
  BY DEF IsFrame
<1>2. Len(g) = Len(b) + 1
  <2>1. g[1] = FrameHead(Len(g) - 1) /\ g[1] = FrameHead(Len(b))
    <3>1. 1 \in 1 .. Len(g) /\ g[1] = Encode(b)[1]
      BY <1>1
    <3>2. Encode(b)[1] = FrameHead(Len(b))
      BY EncodeFacts
    <3> QED
      BY <3>1, <3>2 DEF IsFrame
  <2>2. FrameHead(Len(g) - 1).value = Len(g) - 1 /\ FrameHead(Len(b)).value = Len(b)
    BY DEF FrameHead
  <2> QED
    BY <1>1, <2>1, <2>2
<1>3. \A i \in 1 .. Len(b) : Unwrap(g[i + 1]) = b[i]
  <2> SUFFICES ASSUME NEW i \in 1 .. Len(b) PROVE Unwrap(g[i + 1]) = b[i]
    OBVIOUS
  <2>1. i + 1 \in 1 .. Len(g) /\ b[i] \in Piece
    BY <1>1, <1>2
  <2>2. g[i + 1] = Wrap(b[i])
    BY <2>1, EncodeFacts
  <2>3. Unwrap(Wrap(b[i])) = b[i]
    BY <2>1, WrapFacts
  <2> QED
    BY <2>2, <2>3
<1>4. Decode(g) = [i \in 1 .. Len(b) |-> b[i]]
  BY <1>1, <1>2, <1>3 DEF Decode
<1> QED
  BY <1>4

-----------------------------------------------------------------------------
(***************************************************************************)
(* The loop over the arguments, by induction over their number.            *)
(***************************************************************************)
LEMMA Least ==
    ASSUME NEW S \in SUBSET Nat, S # {}
    PROVE  \E m \in S : \A k \in S : m <= k
<1> DEFINE R == OpToRel(<, Nat)
<1>1. IsWellFoundedOn(R, Nat)
  BY NatLessThanWellFounded
<1>2. PICK m \in S : \A k \in S : <<k, m>> \notin R
  BY <1>1, WFMin
<1>3. \A k \in S : ~ (k < m)
  BY <1>2 DEF OpToRel
<1> QED
  BY <1>3

\* What main has parsed after n of the words a, given what it had before.
After(a, u, n) == IF n = 0 THEN Unparsed ELSE ParseArg(u[n - 1], a[n])

UpTo(a, m, u) == u = [n \in 0 .. m |-> After(a, u, n)]

LEMMA UpToExists ==
    ASSUME NEW a, NEW m \in Nat
    PROVE  \E u : UpTo(a, m, u)
<1> DEFINE S == {k \in Nat : ~ \E u : UpTo(a, k, u)}
<1> SUFFICES ASSUME S # {} PROVE FALSE
  OBVIOUS
<1>1. PICK k \in S : \A i \in S : k <= i
  <2>1. S \in SUBSET Nat
    OBVIOUS
  <2> HIDE DEF S
  <2> QED
    BY <2>1, Least
<1>2. CASE k = 0
  <2> DEFINE u == [n \in 0 .. 0 |-> Unparsed]
  <2>1. UpTo(a, 0, u)
    BY DEF UpTo, After
  <2> QED
    BY <1>2, <2>1
<1>3. CASE k # 0
  <2>1. k - 1 \in Nat /\ k - 1 \notin S
    BY <1>1, <1>3
  <2>2. PICK u : UpTo(a, k - 1, u)
    BY <2>1
  <2> DEFINE v == [n \in 0 .. k |-> IF n = k THEN After(a, u, k) ELSE u[n]]
  <2>3. ASSUME NEW n \in 0 .. k PROVE v[n] = After(a, v, n)
    <3>1. CASE n = k
      <4>1. k - 1 \in 0 .. k /\ k - 1 # k
        BY <2>1
      <4>2. v[k - 1] = u[k - 1]
        BY <4>1
      <4>3. v[n] = After(a, u, k)
        BY <3>1
      <4> HIDE DEF v
      <4> QED
        BY <1>3, <3>1, <4>2, <4>3 DEF After
    <3>2. CASE n # k
      <4>1. n \in 0 .. k - 1
        BY <3>2
      <4>2. v[n] = u[n] /\ u[n] = After(a, u, n)
        BY <2>2, <3>2, <4>1 DEF UpTo
      <4>3. n # 0 => v[n - 1] = u[n - 1]
        BY <4>1
      <4> HIDE DEF v
      <4> QED
        BY <4>2, <4>3 DEF After
    <3> QED
      BY <3>1, <3>2
  <2>4. v = [n \in 0 .. k |-> v[n]]
    OBVIOUS
  <2> HIDE DEF v
  <2>5. UpTo(a, k, v)
    BY <2>3, <2>4 DEF UpTo
  <2> QED
    BY <2>5
<1> QED
  BY <1>2, <1>3

\* What main may have parsed between two words.
Partial == [mode : Modes \cup {Nil}, input : Paths \cup {Nil}, output : Paths \cup {Nil},
            option : BOOLEAN, exit : {"none", "success", "failure"}]

LEMMA ParseArgType ==
    ASSUME NEW s \in Partial, NEW w \in Words
    PROVE  ParseArg(s, w) \in Partial
<1>1. PICK m \in Modes \cup {Nil}, i \in Paths \cup {Nil}, o \in Paths \cup {Nil},
           t \in BOOLEAN, x \in {"none", "success", "failure"} :
        s = [mode |-> m, input |-> i, output |-> o, option |-> t, exit |-> x]
  BY DEF Partial
<1>2. CASE x # "none"
  BY <1>1, <1>2 DEF ParseArg
<1>3. CASE x = "none" /\ t
  <2>1. ParseArg(s, w) = OptionValue(s, w)
    BY <1>1, <1>3 DEF ParseArg
  <2>2. [s EXCEPT !.option = FALSE] \in Partial
    BY DEF Partial
  <2>3. [s EXCEPT !.exit = "failure"] \in Partial
    BY DEF Partial
  <2> QED
    BY <2>1, <2>2, <2>3 DEF OptionValue
<1>4. CASE x = "none" /\ ~ t
  <2>1. ParseArg(s, w) = Arg(s, w)
    BY <1>1, <1>4 DEF ParseArg
  <2>2. CASE w = "-h"
    <3>1. Arg(s, w) = [mode |-> m, input |-> i, output |-> o, option |-> t, exit |-> "success"]
      BY <1>1, <2>2 DEF Arg, Modes, Options
    <3> QED
      BY <2>1, <3>1 DEF Partial
  <2>3. CASE w # "-h" /\ w \in Modes
    <3>1. Arg(s, w) = [mode |-> w, input |-> i, output |-> o, option |-> t, exit |-> x]
      BY <1>1, <2>3 DEF Arg, Modes, Options
    <3> QED
      BY <2>1, <2>3, <3>1 DEF Partial
  <2>4. CASE w # "-h" /\ w \notin Modes /\ w \in Options
    <3>1. Arg(s, w) = [s EXCEPT !.option = TRUE]
      BY <2>4 DEF Arg, Modes, Options
    <3>2. [s EXCEPT !.option = TRUE] \in Partial
      BY DEF Partial
    <3> QED
      BY <2>1, <3>1, <3>2
  <2>5. CASE w # "-h" /\ w \notin Modes /\ w \notin Options /\ w = "--no-raw"
    BY <2>1, <2>5 DEF Arg, Modes, Options
  <2>6. CASE w # "-h" /\ w \notin Modes /\ w \notin Options /\ w # "--no-raw"
    <3>1. w \in Paths /\ Arg(s, w) = FileArg(s, w)
      BY <2>6 DEF Words, Arg
    <3>2. CASE i = Nil
      <4>1. FileArg(s, w) = [mode |-> m, input |-> w, output |-> o, option |-> t, exit |-> x]
        BY <1>1, <3>2 DEF FileArg
      <4> QED
        BY <2>1, <3>1, <4>1 DEF Partial
    <3>3. CASE i # Nil /\ o = Nil
      <4>1. FileArg(s, w) = [mode |-> m, input |-> i, output |-> w, option |-> t, exit |-> x]
        BY <1>1, <3>3 DEF FileArg
      <4> QED
        BY <2>1, <3>1, <4>1 DEF Partial
    <3>4. CASE i # Nil /\ o # Nil
      <4>1. FileArg(s, w) = [mode |-> m, input |-> i, output |-> o, option |-> t, exit |-> "failure"]
        BY <1>1, <3>4 DEF FileArg
      <4> QED
        BY <2>1, <3>1, <4>1 DEF Partial
    <3> QED
      BY <3>2, <3>3, <3>4
  <2> QED
    BY <2>2, <2>3, <2>4, <2>5, <2>6
<1> QED
  BY <1>2, <1>3, <1>4

LEMMA ParsedType ==
    ASSUME NEW a \in Seq(Words)
    PROVE  Parsed(a) \in Partial
<1> DEFINE m == Len(a)
           u == CHOOSE v : UpTo(a, m, v)
           S == {i \in Nat : i <= m /\ u[i] \notin Partial}
<1>1. Parsed(a) = u[m] /\ m \in Nat
  <2>1. Parsed(a) = (CHOOSE v : v = [n \in 0 .. m |->
                        IF n = 0 THEN Unparsed ELSE ParseArg(v[n - 1], a[n])])[m]
    BY DEF Parsed
  <2> QED
    BY <2>1 DEF UpTo, After
<1>2. UpTo(a, m, u)
  BY <1>1, UpToExists
<1> HIDE DEF u, m
<1>3. ASSUME NEW n \in 0 .. m PROVE u[n] = After(a, u, n)
  <2> DEFINE A(i) == After(a, u, i)
  <2>1. u = [i \in 0 .. m |-> A(i)]
    BY <1>2 DEF UpTo
  <2> HIDE DEF A
  <2>2. u[n] = A(n)
    BY <2>1
  <2> QED
    BY <2>2 DEF A
<1>4. S = {}
  <2> SUFFICES ASSUME S # {} PROVE FALSE
    OBVIOUS
  <2>1. PICK i \in S : \A j \in S : i <= j
    <3>1. S \in SUBSET Nat
      OBVIOUS
    <3> HIDE DEF S
    <3> QED
      BY <3>1, Least
  <2>2. i \in 0 .. m /\ u[i] \notin Partial /\ u[i] = After(a, u, i)
    BY <1>1, <1>3
  <2>3. CASE i = 0
    <3>1. Unparsed \in Partial
      BY DEF Unparsed, Partial
    <3> QED
      BY <2>2, <2>3, <3>1 DEF After
  <2>4. CASE i # 0
    <3>1. i - 1 \in Nat /\ i - 1 <= m /\ ~ (i <= i - 1) /\ i \in 1 .. m
      BY <1>1, <2>2, <2>4
    <3>2. u[i - 1] \in Partial
      BY <2>1, <3>1
    <3>3. a[i] \in Words
      BY <3>1 DEF m
    <3>4. ParseArg(u[i - 1], a[i]) \in Partial
      BY <3>2, <3>3, ParseArgType
    <3> QED
      BY <2>2, <2>4, <3>4 DEF After
  <2> QED
    BY <2>3, <2>4
<1>5. m \notin S
  BY <1>4
<1> QED
  BY <1>1, <1>5

LEMMA ParseFacts ==
    ASSUME NEW c \in Calls, NEW p \in Procs
    PROVE  /\ Parse(c[p]).exit \in {"run", "success", "failure"}
           /\ Parse(c[p]).exit = "run" =>
                /\ Parse(c[p]).mode \in Modes
                /\ Parse(c[p]).input \in Paths
                /\ Parse(c[p]).output \in Paths
<1>1. PICK m \in Modes \cup {Nil}, i \in Paths \cup {Nil}, o \in Paths \cup {Nil},
           t \in BOOLEAN, x \in {"none", "success", "failure"} :
        Parsed(c[p]) = [mode |-> m, input |-> i, output |-> o, option |-> t, exit |-> x]
  <2>1. c[p] \in Seq(Words)
    BY CallsAssumption
  <2> QED
    BY <2>1, ParsedType DEF Partial
<1> DEFINE s == Parsed(c[p])
<1>2. CASE x # "none"
  <2>1. Parse(c[p]) = s
    BY <1>1, <1>2 DEF Parse
  <2> QED
    BY <1>1, <1>2, <2>1
<1>3. CASE x = "none" /\ Complete(s)
  <2>1. Parse(c[p]) = [s EXCEPT !.exit = "run"]
    BY <1>1, <1>3 DEF Parse
  <2>2. Parse(c[p]) = [mode |-> m, input |-> i, output |-> o, option |-> t, exit |-> "run"]
    BY <1>1, <2>1
  <2>3. m # Nil /\ i # Nil /\ o # Nil
    BY <1>1, <1>3 DEF Complete
  <2> QED
    BY <2>2, <2>3
<1>4. CASE x = "none" /\ ~ Complete(s)
  <2>1. Parse(c[p]) = [s EXCEPT !.exit = "failure"]
    BY <1>1, <1>4 DEF Parse
  <2>2. Parse(c[p]) = [mode |-> m, input |-> i, output |-> o, option |-> t, exit |-> "failure"]
    BY <1>1, <2>1
  <2> QED
    BY <2>2
<1> QED
  BY <1>2, <1>3, <1>4

-----------------------------------------------------------------------------
(***************************************************************************)
(* The type of every variable is kept.                                     *)
(***************************************************************************)
LEMMA PutType ==
    ASSUME NEW f \in Seq(Piece), NEW i \in Nat \ {0}, NEW x \in Piece
    PROVE  /\ Put(f, i, x) \in Seq(Piece)
           /\ i = Len(f) + 1 => Put(f, i, x) = Append(f, x)
<1>0. Len(f) \in Nat
  OBVIOUS
<1>1. CASE i <= Len(f)
  <2>1. Put(f, i, x) = [f EXCEPT ![i] = x] /\ i # Len(f) + 1
    BY <1>0, <1>1 DEF Put
  <2>2. i \in 1 .. Len(f)
    BY <1>0, <1>1
  <2>3. [f EXCEPT ![i] = x] \in Seq(Piece)
    BY <2>2, ExceptSeq
  <2> QED
    BY <2>1, <2>3
<1>2. CASE i > Len(f)
  <2> DEFINE gap == [j \in 1 .. i - Len(f) - 1 |-> Hole]
  <2>1. Put(f, i, x) = f \o gap \o <<x>>
    BY <1>0, <1>2 DEF Put
  <2>2. Hole \in Piece /\ i - Len(f) - 1 \in Nat
    BY <1>0, <1>2 DEF Hole, Piece
  <2>3. gap \in Seq(Piece)
    BY <2>2
  <2>4. i = Len(f) + 1 => gap = <<>>
    BY <1>0
  <2> HIDE DEF gap
  <2>5. Put(f, i, x) \in Seq(Piece)
    <3>1. f \o gap \in Seq(Piece)
      BY <2>3
    <3> QED
      BY <2>1, <3>1
  <2>6. ASSUME i = Len(f) + 1 PROVE Put(f, i, x) = Append(f, x)
    BY <2>1, <2>4, <2>6
  <2> QED
    BY <2>5, <2>6
<1> QED
  BY <1>0, <1>1, <1>2

-----------------------------------------------------------------------------
(***************************************************************************)
(* A step of one invocation leaves the others where they are.              *)
(***************************************************************************)
Same(q) ==
    /\ pc'[q] = pc[q] /\ call'[q] = call[q] /\ size'[q] = size[q]
    /\ buf'[q] = buf[q] /\ result'[q] = result[q] /\ wrote'[q] = wrote[q]

LEMMA OthersSame ==
    ASSUME ToolInv, NEW p \in Procs, Step(p) \/ Fail(p), NEW q \in Procs \ {p}
    PROVE  Same(q)
<1>1. /\ DOMAIN pc = Procs /\ DOMAIN call = Procs /\ DOMAIN size = Procs
      /\ DOMAIN buf = Procs /\ DOMAIN result = Procs /\ DOMAIN wrote = Procs
  BY DEF ToolInv, TypeOK
<1>2. CASE Main(p)
  BY <1>1, <1>2 DEF Main, Goto, Same
<1>3. CASE Open(p)
  BY <1>1, <1>3 DEF Open, Goto, Same
<1>4. CASE Read(p)
  BY <1>1, <1>4 DEF Read, Goto, Same
<1>5. CASE Convert(p)
  BY <1>1, <1>5 DEF Convert, Goto, Same
<1>6. CASE Create(p)
  BY <1>1, <1>6 DEF Create, Goto, Same
<1>7. CASE Write(p)
  BY <1>1, <1>7 DEF Write, Goto, Same
<1>8. CASE Close(p)
  BY <1>1, <1>8 DEF Close, Goto, Same, history
<1>9. CASE Fail(p)
  BY <1>1, <1>9 DEF Fail, Goto, Same, history
<1> QED
  BY <1>2, <1>3, <1>4, <1>5, <1>6, <1>7, <1>8, <1>9 DEF Step

LEMMA ReadySame ==
    ASSUME NEW q \in Procs, call'[q] = call[q], size'[q] = size[q], buf'[q] = buf[q]
    PROVE  /\ Accepted(q)' = Accepted(q) /\ Converted(q)' = Converted(q)
           /\ result'[q] = result[q] => Ready(q)' = Ready(q)
           /\ \A f : (pc'[q] = pc[q]) => Writing(q, f)' = Writing(q, f)
  BY DEF Accepted, Converted, Mode, Output, Ready, Writing

\* What a file holds of an invocation that does not move.
LEMMA OwnerSame ==
    ASSUME NEW f \in Paths, NEW q \in Procs, Same(q), OwnerInv(f, q), mixed \subseteq mixed',
           q \notin mixed' => /\ file'[f] = file[f]
                              /\ \A r \in Procs \ {q} : ~ Writing(r, f)'
    PROVE  OwnerInv(f, q)'
<1>1. Output(q)' = Output(q) /\ Ready(q)' = Ready(q)
  BY ReadySame DEF Same, Output
<1>2. ASSUME q \notin mixed' PROVE Holds(f, q)'
  BY <1>2 DEF OwnerInv, Holds, Same
<1> QED
  BY <1>1, <1>2 DEF OwnerInv, Same

LEMMA ProcSame ==
    ASSUME NEW q \in Procs, Same(q), ProcInv(q),
           \A f : file[f] \in Seq(Piece) => file'[f] \in Seq(Piece)
    PROVE  ProcInv(q)'
<1>1. Output(q)' = Output(q) /\ Input(q)' = Input(q) /\ Ready(q)' = Ready(q)
  BY ReadySame DEF Same, Output, Input
<1> QED
  BY <1>1 DEF ProcInv, Same

\* The result of a conversion.
LEMMA ConvertedType ==
    ASSUME TypeOK, NEW p \in Procs, pc[p] \in {"read", "create", "write"}, Accepted(p)
    PROVE  Converted(p) \in Seq(Piece) /\ Len(Converted(p)) \in Nat
<1>1. buf[p] \in Seq(Piece) /\ Mode(p) \in {"-c", "-d"}
  BY DEF TypeOK, Modes
<1>2. CASE Mode(p) = "-c"
  <2>1. Encode(buf[p]) \in Seq(Piece)
    BY <1>1, EncodeFacts
  <2> QED
    BY <1>2, <2>1 DEF Converted
<1>3. CASE Mode(p) = "-d"
  <2>1. Decode(buf[p]) \in Seq(Piece)
    BY <1>1, <1>3, DecodeType DEF Accepted
  <2> QED
    BY <1>3, <2>1 DEF Converted
<1> QED
  BY <1>1, <1>2, <1>3

-----------------------------------------------------------------------------
(***************************************************************************)
(* The steps that open and write no file.                                  *)
(***************************************************************************)
\* What is to be shown of the invocation that moves.
LEMMA QuietStep ==
    ASSUME ToolInv, NEW p \in Procs, Step(p) \/ Fail(p), UNCHANGED <<file, owner, mixed>>,
           pc'[p] = "write" => pc[p] = "write",
           TypeOK', DOMAIN call' = Procs, ProcInv(p)',
           \A f \in Paths : owner[f] = p => OwnerInv(f, p)'
    PROVE  ToolInv'
<1>1. ASSUME NEW q \in Procs PROVE ProcInv(q)'
  <2>1. CASE q # p
    <3>1. Same(q) /\ ProcInv(q)
      BY <2>1, OthersSame DEF ToolInv
    <3> QED
      BY <3>1, ProcSame
  <2> QED
    BY <2>1
<1>2. ASSUME NEW f \in Paths, NEW q \in Procs, owner[f] = q PROVE OwnerInv(f, q)'
  <2>1. CASE q # p
    <3>1. Same(q) /\ OwnerInv(f, q)
      BY <1>2, <2>1, OthersSame DEF ToolInv
    <3>2. ASSUME q \notin mixed, NEW r \in Procs \ {q} PROVE ~ Writing(r, f)'
      <4>1. ~ Writing(r, f)
        BY <3>1, <3>2 DEF OwnerInv
      <4>2. CASE r # p
        <5>1. Same(r)
          BY <4>2, OthersSame
        <5> QED
          BY <4>1, <5>1 DEF Same, Writing, Output
      <4>3. CASE r = p
        <5>1. pc'[p] = "write" => Output(p)' = Output(p)
          BY DEF Step, Fail, Main, Open, Read, Convert, Create, Write, Close, Output, Goto,
                 ToolInv, TypeOK
        <5> QED
          BY <4>1, <4>3, <5>1 DEF Writing
      <4> QED
        BY <4>2, <4>3
    <3> QED
      BY <3>1, <3>2, OwnerSame
  <2> QED
    BY <1>2, <2>1
<1> QED
  BY <1>1, <1>2 DEF ToolInv

\* An invocation that has not opened its output owns no file.
LEMMA NotYetOwner ==
    ASSUME ToolInv, NEW p \in Procs, pc[p] \in {"main", "open", "read", "create"},
           NEW f \in Paths
    PROVE  owner[f] # p
  BY DEF ToolInv, OwnerInv

LEMMA MainInv ==
    ASSUME ToolInv, NEW p \in Procs, Main(p) PROVE ToolInv'
<1>1. /\ args \in Calls /\ DOMAIN call = Procs /\ pc[p] = "main" /\ wrote[p] = 0
      /\ buf[p] = <<>> /\ DOMAIN pc = Procs
  BY DEF ToolInv, TypeOK, ProcInv, Main
<1>2. /\ call' = [call EXCEPT ![p] = Parse(args[p])] /\ call'[p] = Parse(args[p])
      /\ pc' = [pc EXCEPT ![p] = IF call'[p].exit = "run" THEN "open" ELSE call'[p].exit]
      /\ UNCHANGED <<args, size, buf, result, wrote, file, owner, mixed, disturbed>>
  BY <1>1 DEF Main, Goto, history
<1>3. /\ pc'[p] \in {"open", "success", "failure"}
      /\ pc'[p] = "open" =>
           Mode(p)' \in Modes /\ Input(p)' \in Paths /\ Output(p)' \in Paths
  <2>1. pc'[p] = IF call'[p].exit = "run" THEN "open" ELSE call'[p].exit
    BY <1>1, <1>2
  <2> QED
    BY <1>1, <1>2, <2>1, ParseFacts DEF Mode, Input, Output
<1>4. TypeOK'
  <2>1. pc' \in [Procs -> {"main", "open", "read", "create", "write", "success", "failure"}]
    BY <1>2, <1>3 DEF ToolInv, TypeOK
  <2>2. ASSUME NEW q \in Procs
        PROVE  /\ call'[q] \in {Unparsed, Parse(args[q])}
               /\ pc'[q] \in {"open", "read", "create", "write"} =>
                    Mode(q)' \in Modes /\ Input(q)' \in Paths /\ Output(q)' \in Paths
    <3>1. CASE q # p
      <4>1. Same(q)
        BY <3>1, OthersSame DEF Step
      <4> QED
        BY <4>1 DEF Same, Mode, Input, Output, ToolInv, TypeOK
    <3>2. CASE q = p
      BY <1>2, <1>3, <3>2
    <3> QED
      BY <3>1, <3>2
  <2> QED
    BY <1>2, <2>1, <2>2 DEF ToolInv, TypeOK
<1>5. ProcInv(p)'
  BY <1>1, <1>2, <1>3 DEF ProcInv
<1>6. \A f \in Paths : owner[f] # p
  BY <1>1, NotYetOwner
<1> QED
  BY <1>1, <1>2, <1>3, <1>4, <1>5, <1>6, QuietStep DEF Step

\* Where an invocation goes, as long as it keeps what it has parsed.
LEMMA PlaceType ==
    ASSUME ToolInv, NEW p \in Procs, NEW l, Goto(p, l), call' = call,
           l \in {"read", "create", "write", "success", "failure"},
           l \in {"read", "create", "write"} => pc[p] \in {"open", "read", "create", "write"}
    PROVE  /\ pc'[p] = l
           /\ pc' \in [Procs -> {"main", "open", "read", "create", "write", "success",
                                 "failure"}]
           /\ \A q \in Procs : pc'[q] \in {"open", "read", "create", "write"} =>
                Mode(q)' \in Modes /\ Input(q)' \in Paths /\ Output(q)' \in Paths
<1>1. pc \in [Procs -> {"main", "open", "read", "create", "write", "success", "failure"}]
  BY DEF ToolInv, TypeOK
<1>2. pc'[p] = l /\ \A q \in Procs \ {p} : pc'[q] = pc[q]
  BY <1>1 DEF Goto
<1>3. pc' \in [Procs -> {"main", "open", "read", "create", "write", "success", "failure"}]
  BY <1>1 DEF Goto
<1>4. ASSUME NEW q \in Procs, pc'[q] \in {"open", "read", "create", "write"}
      PROVE  Mode(q)' \in Modes /\ Input(q)' \in Paths /\ Output(q)' \in Paths
  <2>1. pc[q] \in {"open", "read", "create", "write"}
    BY <1>2, <1>4
  <2> QED
    BY <2>1 DEF Mode, Input, Output, ToolInv, TypeOK
<1> QED
  BY <1>2, <1>3, <1>4

LEMMA OpenInv ==
    ASSUME ToolInv, NEW p \in Procs, Open(p) PROVE ToolInv'
<1>1. /\ pc[p] = "open" /\ wrote[p] = 0 /\ buf[p] = <<>> /\ Input(p) \in Paths /\ DOMAIN call = Procs
  BY DEF ToolInv, TypeOK, ProcInv, Open
<1>2. UNCHANGED <<args, call, buf, result, wrote, file, owner, mixed>>
  BY DEF Open
<1>3. PICK l \in {"read", "failure"} : Goto(p, l) /\ (l = "read" => file[Input(p)] # Nil)
  BY DEF Open
<1>4. /\ pc'[p] = l
      /\ pc' \in [Procs -> {"main", "open", "read", "create", "write", "success", "failure"}]
      /\ \A q \in Procs : pc'[q] \in {"open", "read", "create", "write"} =>
           Mode(q)' \in Modes /\ Input(q)' \in Paths /\ Output(q)' \in Paths
  BY <1>1, <1>2, <1>3, PlaceType
<1>5. size' \in [Procs -> Nat] /\ \A q \in Procs : Len(buf[q]) <= size'[q]
  <2>1. size \in [Procs -> Nat] /\ \A q \in Procs : Len(buf[q]) <= size[q]
    BY DEF ToolInv, TypeOK
  <2>2. CASE file[Input(p)] = Nil
    BY <2>1, <2>2 DEF Open
  <2>3. CASE file[Input(p)] # Nil
    <3>1. PICK z \in Nat : z = Len(file[Input(p)])
      BY <1>1, <2>3 DEF ToolInv, TypeOK
    <3>2. size' = [size EXCEPT ![p] = z]
      BY <2>3, <3>1 DEF Open
    <3> QED
      BY <1>1, <2>1, <3>1, <3>2
  <2> QED
    BY <2>2, <2>3
<1>6. disturbed' \subseteq Procs
  BY DEF Open, ToolInv, TypeOK
<1>7. TypeOK'
  BY <1>2, <1>4, <1>5, <1>6 DEF ToolInv, TypeOK
<1>8. ProcInv(p)'
  <2>1. l = "read" => file[Input(p)] \in Seq(Piece)
    BY <1>1, <1>3 DEF ToolInv, TypeOK
  <2> QED
    BY <1>1, <1>2, <1>4, <2>1 DEF ProcInv, Input
<1>9. \A f \in Paths : owner[f] # p
  BY <1>1, NotYetOwner
<1> QED
  BY <1>1, <1>2, <1>4, <1>7, <1>8, <1>9, QuietStep DEF Step

LEMMA ReadInv ==
    ASSUME ToolInv, NEW p \in Procs, Read(p) PROVE ToolInv'
<1>1. /\ pc[p] = "read" /\ wrote[p] = 0 /\ DOMAIN call = Procs
      /\ file[Input(p)] \in Seq(Piece) /\ buf \in [Procs -> Seq(Piece)] /\ size[p] \in Nat
      /\ Len(buf[p]) < size[p] /\ \A q \in Procs : Len(buf[q]) <= size[q]
  BY DEF ToolInv, TypeOK, ProcInv, Read, Unread
<1>2. UNCHANGED <<args, call, size, result, wrote, file, owner, mixed, disturbed>>
  BY DEF Read, history
<1>3. PICK i \in Nat : i = Len(buf[p]) + 1
  BY <1>1
<1>4. CASE i <= Len(file[Input(p)])
  <2>1. PICK x \in Piece : x = file[Input(p)][i]
    BY <1>1, <1>3, <1>4
  <2>2. buf' = [buf EXCEPT ![p] = Append(buf[p], x)] /\ pc' = pc
    BY <1>3, <1>4, <2>1 DEF Read
  <2>3. Append(buf[p], x) \in Seq(Piece) /\ Len(Append(buf[p], x)) = i
    BY <1>1, <1>3
  <2>4. buf' \in [Procs -> Seq(Piece)] /\ \A q \in Procs : Len(buf'[q]) <= size[q]
    BY <1>1, <1>3, <2>2, <2>3
  <2>5. TypeOK'
    BY <1>2, <2>2, <2>4 DEF ToolInv, TypeOK, Mode, Input, Output
  <2>6. ProcInv(p)'
    BY <1>1, <1>2, <2>2 DEF ProcInv, Input
  <2>7. \A f \in Paths : owner[f] # p
    BY <1>1, NotYetOwner
  <2> QED
    BY <1>1, <1>2, <2>2, <2>5, <2>6, <2>7, QuietStep DEF Step
<1>5. CASE ~ (i <= Len(file[Input(p)]))
  <2>1. Goto(p, "failure") /\ buf' = buf
    BY <1>3, <1>5 DEF Read
  <2>2. /\ pc'[p] = "failure"
        /\ pc' \in [Procs -> {"main", "open", "read", "create", "write", "success", "failure"}]
        /\ \A q \in Procs : pc'[q] \in {"open", "read", "create", "write"} =>
             Mode(q)' \in Modes /\ Input(q)' \in Paths /\ Output(q)' \in Paths
    BY <1>2, <2>1, PlaceType
  <2>3. TypeOK'
    BY <1>2, <2>1, <2>2 DEF ToolInv, TypeOK
  <2>4. ProcInv(p)'
    BY <2>2 DEF ProcInv
  <2>5. \A f \in Paths : owner[f] # p
    BY <1>1, NotYetOwner
  <2> QED
    BY <1>1, <1>2, <2>2, <2>3, <2>4, <2>5, QuietStep DEF Step
<1> QED
  BY <1>4, <1>5

LEMMA ConvertInv ==
    ASSUME ToolInv, NEW p \in Procs, Convert(p) PROVE ToolInv'
<1>1. /\ pc[p] = "read" /\ wrote[p] = 0 /\ DOMAIN call = Procs
      /\ result \in [Procs -> {Nil} \cup Seq(Piece)]
      /\ Len(buf[p]) = size[p]
  <2>1. pc[p] = "read" /\ ~ (Len(buf[p]) < size[p])
    BY DEF Convert, Unread
  <2>2. Len(buf[p]) <= size[p] /\ size[p] \in Nat /\ Len(buf[p]) \in Nat
    BY DEF ToolInv, TypeOK
  <2> QED
    BY <2>1, <2>2 DEF ToolInv, TypeOK, ProcInv
<1>2. UNCHANGED <<args, call, size, buf, wrote, file, owner, mixed, disturbed>>
  BY DEF Convert, history
<1>3. PICK l \in {"create", "failure"} :
        /\ Goto(p, l)
        /\ l = "create" => Accepted(p) /\ result' = [result EXCEPT ![p] = Converted(p)]
        /\ l = "failure" => result' = result
  BY DEF Convert
<1>4. /\ pc'[p] = l
      /\ pc' \in [Procs -> {"main", "open", "read", "create", "write", "success", "failure"}]
      /\ \A q \in Procs : pc'[q] \in {"open", "read", "create", "write"} =>
           Mode(q)' \in Modes /\ Input(q)' \in Paths /\ Output(q)' \in Paths
  BY <1>1, <1>2, <1>3, PlaceType
<1>5. result' \in [Procs -> {Nil} \cup Seq(Piece)]
  <2>1. CASE l = "create"
    <3>1. Converted(p) \in Seq(Piece)
      BY <1>1, <1>3, <2>1, ConvertedType DEF ToolInv
    <3> QED
      BY <1>1, <1>3, <2>1, <3>1
  <2> QED
    BY <1>1, <1>3, <2>1
<1>6. TypeOK'
  BY <1>2, <1>4, <1>5 DEF ToolInv, TypeOK
<1>7. ProcInv(p)'
  <2>1. l = "create" => Ready(p)'
    <3>1. Accepted(p)' = Accepted(p) /\ Converted(p)' = Converted(p)
      BY <1>2 DEF Accepted, Converted, Mode
    <3> QED
      BY <1>1, <1>2, <1>3, <3>1 DEF Ready
  <2> QED
    BY <1>1, <1>2, <1>4, <2>1 DEF ProcInv
<1>8. \A f \in Paths : owner[f] # p
  BY <1>1, NotYetOwner
<1> QED
  BY <1>1, <1>2, <1>4, <1>6, <1>7, <1>8, QuietStep DEF Step

LEMMA FailInv ==
    ASSUME ToolInv, NEW p \in Procs, Fail(p) PROVE ToolInv'
<1>1. DOMAIN call = Procs /\ UNCHANGED <<args, call, wrote, file, owner, mixed, disturbed>>
  BY DEF Fail, history, ToolInv
<1>2. /\ pc'[p] = "failure"
      /\ pc' \in [Procs -> {"main", "open", "read", "create", "write", "success", "failure"}]
      /\ \A q \in Procs : pc'[q] \in {"open", "read", "create", "write"} =>
           Mode(q)' \in Modes /\ Input(q)' \in Paths /\ Output(q)' \in Paths
  <2>1. Goto(p, "failure")
    BY DEF Fail
  <2> QED
    BY <1>1, <2>1, PlaceType
<1>3. /\ size' \in [Procs -> Nat] /\ buf' \in [Procs -> Seq(Piece)]
      /\ result' \in [Procs -> {Nil} \cup Seq(Piece)]
      /\ \A q \in Procs : Len(buf'[q]) <= size'[q]
  <2>1. /\ size \in [Procs -> Nat] /\ buf \in [Procs -> Seq(Piece)]
        /\ result \in [Procs -> {Nil} \cup Seq(Piece)]
        /\ \A q \in Procs : Len(buf[q]) <= size[q]
    BY DEF ToolInv, TypeOK
  <2>2. CASE pc[p] = "write"
    BY <2>1, <2>2 DEF Fail
  <2>3. CASE pc[p] # "write"
    <3>1. /\ size' = [size EXCEPT ![p] = 0] /\ buf' = [buf EXCEPT ![p] = <<>>]
          /\ result' = [result EXCEPT ![p] = Nil]
      BY <2>3 DEF Fail
    <3>2. <<>> \in Seq(Piece) /\ Len(<<>>) = 0
      OBVIOUS
    <3> QED
      BY <2>1, <3>1, <3>2
  <2> QED
    BY <2>2, <2>3
<1>4. TypeOK'
  BY <1>1, <1>2, <1>3 DEF ToolInv, TypeOK
<1>5. ProcInv(p)'
  BY <1>2 DEF ProcInv
<1>6. ASSUME NEW f \in Paths, owner[f] = p PROVE OwnerInv(f, p)'
  <2>1. OwnerInv(f, p)
    BY <1>6 DEF ToolInv
  <2>2. pc[p] = "write"
    BY <2>1 DEF Fail, OwnerInv
  <2>3. size' = size /\ buf' = buf /\ result' = result
    BY <2>2 DEF Fail
  <2>4. Output(p)' = Output(p) /\ Ready(p)' = Ready(p) /\ Holds(f, p)' = Holds(f, p)
    BY <1>1, <2>3 DEF Output, Ready, Accepted, Converted, Mode, Holds
  <2>5. ASSUME p \notin mixed, NEW q \in Procs \ {p} PROVE ~ Writing(q, f)'
    <3>1. ~ Writing(q, f) /\ Same(q)
      BY <2>1, <2>5, OthersSame DEF OwnerInv
    <3> QED
      BY <3>1 DEF Writing, Same, Output
  <2> QED
    BY <1>1, <1>2, <2>1, <2>3, <2>4, <2>5 DEF OwnerInv
<1> QED
  BY <1>1, <1>2, <1>4, <1>5, <1>6, QuietStep

LEMMA CloseInv ==
    ASSUME ToolInv, NEW p \in Procs, Close(p) PROVE ToolInv'
<1>1. /\ DOMAIN call = Procs /\ pc[p] = "write" /\ wrote[p] = Len(result[p])
      /\ UNCHANGED <<args, call, size, buf, result, wrote, file, owner, mixed, disturbed>>
  BY DEF Close, Written, history, ToolInv
<1>2. /\ pc'[p] = "success"
      /\ pc' \in [Procs -> {"main", "open", "read", "create", "write", "success", "failure"}]
      /\ \A q \in Procs : pc'[q] \in {"open", "read", "create", "write"} =>
           Mode(q)' \in Modes /\ Input(q)' \in Paths /\ Output(q)' \in Paths
  <2>1. Goto(p, "success")
    BY DEF Close
  <2> QED
    BY <1>1, <2>1, PlaceType
<1>3. TypeOK'
  BY <1>1, <1>2 DEF ToolInv, TypeOK
<1>4. ProcInv(p)'
  BY <1>2 DEF ProcInv
<1>5. ASSUME NEW f \in Paths, owner[f] = p PROVE OwnerInv(f, p)'
  <2>1. OwnerInv(f, p)
    BY <1>5 DEF ToolInv
  <2>2. Output(p)' = Output(p) /\ Ready(p)' = Ready(p) /\ Holds(f, p)' = Holds(f, p)
    BY <1>1 DEF Output, Ready, Accepted, Converted, Mode, Holds
  <2>3. ASSUME p \notin mixed, NEW q \in Procs \ {p} PROVE ~ Writing(q, f)'
    <3>1. ~ Writing(q, f) /\ Same(q)
      BY <2>1, <2>3, OthersSame DEF OwnerInv, Step
    <3> QED
      BY <3>1 DEF Writing, Same, Output
  <2> QED
    BY <1>1, <1>2, <2>1, <2>2, <2>3 DEF OwnerInv
<1> QED
  BY <1>1, <1>2, <1>3, <1>4, <1>5, QuietStep DEF Step

-----------------------------------------------------------------------------
(***************************************************************************)
(* The steps that open and write a file.                                   *)
(***************************************************************************)
LEMMA CreateInv ==
    ASSUME ToolInv, NEW p \in Procs, Create(p) PROVE ToolInv'
<1>0. PICK f \in Paths : f = Output(p)
  BY DEF ToolInv, TypeOK, Create
<1> DEFINE others == {q \in Procs : pc[q] = "write" /\ Output(q) = f}
<1>1. /\ pc[p] = "create" /\ wrote[p] = 0 /\ Ready(p) /\ DOMAIN call = Procs
      /\ file \in [Paths -> {Nil} \cup Seq(Piece)] /\ owner \in [Paths -> Procs \cup {Nil}]
      /\ mixed \subseteq Procs /\ p # Nil
  BY NilAssumption DEF ToolInv, TypeOK, ProcInv, Create
<1>2. /\ UNCHANGED <<args, call, size, buf, result, wrote>>
      /\ file' = [file EXCEPT ![f] = <<>>] /\ owner' = [owner EXCEPT ![f] = p]
      /\ mixed' = IF others = {} THEN mixed ELSE mixed \cup others \cup {p}
      /\ disturbed' = disturbed \cup {q \in Procs : pc[q] = "read" /\ Input(q) = f}
  BY <1>0 DEF Create
<1>3. /\ pc'[p] = "write"
      /\ pc' \in [Procs -> {"main", "open", "read", "create", "write", "success", "failure"}]
      /\ \A q \in Procs : pc'[q] \in {"open", "read", "create", "write"} =>
           Mode(q)' \in Modes /\ Input(q)' \in Paths /\ Output(q)' \in Paths
  <2>1. Goto(p, "write")
    BY DEF Create
  <2> QED
    BY <1>1, <1>2, <2>1, PlaceType
<1>4. /\ file' \in [Paths -> {Nil} \cup Seq(Piece)] /\ file'[f] = <<>>
      /\ file'[f] \in Seq(Piece) /\ \A g \in Paths \ {f} : file'[g] = file[g]
      /\ owner' \in [Paths -> Procs \cup {Nil}] /\ owner'[f] = p
      /\ \A g \in Paths \ {f} : owner'[g] = owner[g]
  <2>1. <<>> \in Seq(Piece)
    OBVIOUS
  <2> QED
    BY <1>1, <1>2, <2>1
<1>5. mixed' \subseteq Procs /\ disturbed' \subseteq Procs /\ mixed \subseteq mixed'
  BY <1>1, <1>2 DEF ToolInv, TypeOK
<1>6. TypeOK'
  BY <1>2, <1>3, <1>4, <1>5 DEF ToolInv, TypeOK
<1>7. ASSUME NEW q \in Procs PROVE Output(q)' = Output(q) /\ Input(q)' = Input(q)
  BY <1>2 DEF Output, Input
<1>8. ASSUME NEW q \in Procs PROVE ProcInv(q)'
  <2>1. \A g \in Paths : file[g] \in Seq(Piece) => file'[g] \in Seq(Piece)
    BY <1>4
  <2>2. CASE q = p
    <3>1. Ready(p)'
      BY <1>1, <1>2, ReadySame DEF Ready
    <3> QED
      BY <1>0, <1>3, <1>4, <1>7, <2>2, <3>1 DEF ProcInv
  <2>3. CASE q # p
    <3>1. Same(q) /\ ProcInv(q)
      BY <2>3, OthersSame DEF Step, ToolInv
    <3>2. Ready(q)' = Ready(q)
      BY <3>1, ReadySame DEF Same
    <3>3. /\ pc[q] = "read" => Input(q) \in Paths
          /\ pc[q] = "write" => Output(q) \in Paths
      BY DEF ToolInv, TypeOK
    <3> QED
      BY <1>7, <2>1, <3>1, <3>2, <3>3 DEF ProcInv, Same
  <2> QED
    BY <2>2, <2>3
<1>9. ASSUME NEW q \in Procs \ {p}, NEW g \in Paths
      PROVE  Writing(q, g)' = Writing(q, g)
  <2>1. Same(q)
    BY OthersSame DEF Step
  <2> QED
    BY <2>1, ReadySame DEF Same
<1>10. OwnerInv(f, p)'
  <2>1. Ready(p)' /\ wrote'[p] = 0 /\ (result[p])' = Converted(p)
    BY <1>1, <1>2, ReadySame DEF Ready
  <2>2. Converted(p) \in Seq(Piece) /\ Len(Converted(p)) \in Nat
    BY <1>1, ConvertedType DEF ToolInv, Ready
  <2>3. Holds(f, p)'
    <3>1. file'[f] \in Seq(Piece) /\ Len(file'[f]) = 0
      BY <1>4
    <3> QED
      BY <2>1, <3>1 DEF Holds
  <2>4. ASSUME p \notin mixed', NEW q \in Procs \ {p} PROVE ~ Writing(q, f)'
    <3>1. others = {}
      BY <1>2, <2>4
    <3>2. ~ Writing(q, f)
      BY <3>1 DEF Writing
    <3> QED
      BY <1>1, <1>9, <3>2
  <2> QED
    BY <1>0, <1>3, <1>7, <2>1, <2>2, <2>3, <2>4 DEF OwnerInv
<1>11. ASSUME NEW g \in Paths, NEW q \in Procs, owner'[g] = q PROVE OwnerInv(g, q)'
  <2>1. CASE g = f
    <3>1. q = p
      BY <1>4, <1>11, <2>1
    <3> QED
      BY <1>10, <2>1, <3>1
  <2>2. CASE g # f
    <3>1. owner[g] = q /\ file'[g] = file[g]
      BY <1>4, <1>11, <2>2
    <3>2. q # p
      BY <1>1, <3>1, NotYetOwner
    <3>3. Same(q) /\ OwnerInv(g, q)
      BY <3>1, <3>2, OthersSame DEF Step, ToolInv
    <3>4. ASSUME q \notin mixed', NEW r \in Procs \ {q} PROVE ~ Writing(r, g)'
      <4>1. ~ Writing(r, g)
        BY <1>5, <3>3, <3>4 DEF OwnerInv
      <4>2. CASE r = p
        BY <1>0, <1>7, <2>2, <4>2 DEF Writing
      <4> QED
        BY <1>9, <4>1, <4>2
    <3> QED
      BY <1>5, <3>1, <3>3, <3>4, OwnerSame
  <2> QED
    BY <2>1, <2>2
<1> QED
  BY <1>1, <1>2, <1>6, <1>8, <1>11 DEF ToolInv

LEMMA WriteInv ==
    ASSUME ToolInv, NEW p \in Procs, Write(p) PROVE ToolInv'
<1>1. /\ pc[p] = "write" /\ Output(p) \in Paths /\ Ready(p) /\ DOMAIN call = Procs
      /\ file \in [Paths -> {Nil} \cup Seq(Piece)] /\ file[Output(p)] \in Seq(Piece)
      /\ wrote \in [Procs -> Nat] /\ wrote[p] < Len(result[p])
  BY DEF ToolInv, TypeOK, ProcInv, Write
<1>2. result[p] \in Seq(Piece) /\ Len(result[p]) \in Nat
  BY <1>1, ConvertedType DEF ToolInv, Ready
<1>3. PICK f \in Paths, w \in Nat, x \in Piece :
        f = Output(p) /\ w = wrote[p] /\ x = result[p][w + 1]
  BY <1>1, <1>2
<1>4. PICK s \in Seq(Piece) : s = file[f]
  BY <1>1, <1>3
<1>5. /\ UNCHANGED <<args, call, pc, size, buf, result, owner, mixed, disturbed>>
      /\ file' = [file EXCEPT ![f] = Put(s, w + 1, x)] /\ wrote' = [wrote EXCEPT ![p] = w + 1]
  <2>1. /\ UNCHANGED <<args, call, pc, size, buf, result, owner, mixed, disturbed>>
        /\ file' = [file EXCEPT ![Output(p)] =
                       Put(file[Output(p)], wrote[p] + 1, result[p][wrote[p] + 1])]
        /\ wrote' = [wrote EXCEPT ![p] = wrote[p] + 1]
    BY DEF Write, history
  <2> QED
    BY <1>3, <1>4, <2>1
<1>6. Put(s, w + 1, x) \in Seq(Piece) /\ (w = Len(s) => Put(s, w + 1, x) = Append(s, x))
  <2>1. w + 1 \in Nat \ {0} /\ (w = Len(s) => w + 1 = Len(s) + 1)
    OBVIOUS
  <2> QED
    BY <2>1, PutType
<1>7. /\ file' \in [Paths -> {Nil} \cup Seq(Piece)] /\ file'[f] = Put(s, w + 1, x)
      /\ \A g \in Paths \ {f} : file'[g] = file[g]
      /\ wrote' \in [Procs -> Nat] /\ wrote'[p] = w + 1
  BY <1>1, <1>3, <1>5, <1>6
<1>8. TypeOK'
  BY <1>5, <1>7 DEF ToolInv, TypeOK, Mode, Input, Output
<1>9. ASSUME NEW q \in Procs
      PROVE  /\ Output(q)' = Output(q) /\ Input(q)' = Input(q)
             /\ Ready(q)' = Ready(q) /\ \A g \in Paths : Writing(q, g)' = Writing(q, g)
  BY <1>5 DEF Output, Input, Ready, Accepted, Converted, Mode, Writing
<1>10. ASSUME NEW q \in Procs PROVE ProcInv(q)'
  <2>1. \A g \in Paths : file[g] \in Seq(Piece) => file'[g] \in Seq(Piece)
    BY <1>6, <1>7
  <2>2. /\ ProcInv(q) /\ (pc[q] = "read" => Input(q) \in Paths)
        /\ (pc[q] = "write" => Output(q) \in Paths)
    BY DEF ToolInv, TypeOK
  <2>3. q # p => wrote'[q] = wrote[q]
    BY <1>1, <1>5
  <2> QED
    BY <1>1, <1>5, <1>9, <2>1, <2>2, <2>3 DEF ProcInv
<1>11. ASSUME NEW g \in Paths, NEW q \in Procs, owner[g] = q PROVE OwnerInv(g, q)'
  <2>0. OwnerInv(g, q)
    BY <1>11 DEF ToolInv
  <2>1. CASE q = p
    <3>1. g = f
      BY <1>3, <2>0, <2>1 DEF OwnerInv
    <3>2. ASSUME p \notin mixed PROVE Holds(f, p)'
      <4>1. Len(s) = w /\ \A i \in 1 .. w : s[i] = result[p][i]
        BY <1>3, <1>4, <2>0, <2>1, <3>1, <3>2 DEF OwnerInv, Holds
      <4>2. file'[f] = Append(s, x)
        BY <1>6, <1>7, <4>1
      <4>3. Append(s, x) \in Seq(Piece) /\ Len(Append(s, x)) = w + 1
        BY <4>1
      <4>4. ASSUME NEW i \in 1 .. w + 1 PROVE Append(s, x)[i] = result[p][i]
        BY <1>3, <4>1
      <4> QED
        BY <1>5, <1>7, <4>2, <4>3, <4>4 DEF Holds
    <3>3. w + 1 <= Len(result[p])
      BY <1>1, <1>2, <1>3
    <3> QED
      BY <1>1, <1>5, <1>7, <1>9, <2>0, <2>1, <3>1, <3>2, <3>3 DEF OwnerInv
  <2>2. CASE q # p
    <3>1. Same(q)
      BY <2>2, OthersSame DEF Step
    <3>2. ASSUME q \notin mixed PROVE file'[g] = file[g]
      <4>1. ~ Writing(p, g)
        BY <2>0, <2>2, <3>2 DEF OwnerInv
      <4> QED
        BY <1>1, <1>3, <1>7, <4>1 DEF Writing
    <3>3. ASSUME q \notin mixed, NEW r \in Procs \ {q} PROVE ~ Writing(r, g)'
      BY <1>9, <2>0, <3>3 DEF OwnerInv
    <3> QED
      BY <1>5, <2>0, <3>1, <3>2, <3>3, OwnerSame
  <2> QED
    BY <2>1, <2>2
<1> QED
  BY <1>1, <1>5, <1>8, <1>10, <1>11 DEF ToolInv

-----------------------------------------------------------------------------
(***************************************************************************)
(* The theorems.                                                           *)
(***************************************************************************)
LEMMA InitInv == Init => ToolInv
<1> SUFFICES ASSUME Init PROVE ToolInv
  OBVIOUS
<1>1. /\ pc = [p \in Procs |-> "main"] /\ buf = [p \in Procs |-> <<>>]
      /\ wrote = [p \in Procs |-> 0] /\ call = [p \in Procs |-> Unparsed]
      /\ owner = [f \in Paths |-> Nil]
  BY DEF Init
<1>2. TypeOK
  <2>1. file \in [Paths -> {Nil} \cup Seq(Piece)]
    BY InitialAssumption DEF Init
  <2> QED
    BY <1>1, <2>1 DEF Init, TypeOK
<1>3. \A p \in Procs : ProcInv(p)
  BY <1>1 DEF ProcInv
<1>4. \A f \in Paths : owner[f] \notin Procs
  BY <1>1, NilAssumption
<1> QED
  BY <1>1, <1>2, <1>3, <1>4 DEF ToolInv

LEMMA StepInv == ToolInv /\ [Next]_vars => ToolInv'
<1> SUFFICES ASSUME ToolInv, [Next]_vars PROVE ToolInv'
  OBVIOUS
<1>1. CASE UNCHANGED vars
  BY <1>1 DEF vars, history, ToolInv, TypeOK, ProcInv, OwnerInv, Holds, Writing, Ready, Accepted,
              Converted, Mode, Input, Output
<1>2. ASSUME NEW p \in Procs, Step(p) \/ Fail(p) PROVE ToolInv'
  BY <1>2, MainInv, OpenInv, ReadInv, ConvertInv, CreateInv, WriteInv, CloseInv, FailInv DEF Step
<1> QED
  BY <1>1, <1>2 DEF Next

LEMMA ToolInvAlways == Spec => []ToolInv
  BY InitInv, StepInv, PTL DEF Spec

\* Every variable of the tool keeps its type, whatever the invocations do to
\* one another's files (elh_cli.c:43-162).
THEOREM TypeCorrect == Spec => []TypeOK
<1>1. ToolInv => TypeOK
  BY DEF ToolInv
<1> QED
  BY <1>1, ToolInvAlways, PTL

\* Exit status 0 means the file holds the converted input, until another opens
\* it (write_file, elh_cli.c:67-76).
THEOREM SuccessIsWrittenCorrect == Spec => []SuccessIsWritten
<1>1. ToolInv => SuccessIsWritten
  <2> SUFFICES ASSUME ToolInv, NEW f \in Paths, NEW p, p = owner[f], p # Nil, p \notin mixed,
                      pc[p] = "success"
               PROVE  file[f] = Converted(p)
    BY DEF SuccessIsWritten
  <2>1. p \in Procs /\ OwnerInv(f, p)
    BY DEF ToolInv, TypeOK
  <2>2. /\ file[f] \in Seq(Piece) /\ Len(file[f]) = Len(result[p])
        /\ \A i \in 1 .. Len(result[p]) : file[f][i] = result[p][i]
        /\ result[p] = Converted(p)
    BY <2>1 DEF OwnerInv, Holds, Ready
  <2>3. result[p] \in Seq(Piece)
    BY <2>1 DEF OwnerInv
  <2> QED
    BY <2>2, <2>3
<1> QED
  BY <1>1, ToolInvAlways, PTL

\* What a failed or killed compression has left in its output is no frame,
\* unless it is the whole one (write_file, elh_cli.c:67-76, read back by
\* decompress_file, :134-149).
THEOREM TornIsNoFrameCorrect == Spec => []TornIsNoFrame
<1>1. ToolInv => TornIsNoFrame
  <2> SUFFICES ASSUME ToolInv, NEW f \in Paths, NEW p, p = owner[f], p # Nil, p \notin mixed,
                      Mode(p) = "-c", IsFrame(file[f])
               PROVE  Decode(file[f]) = buf[p]
    BY DEF TornIsNoFrame
  <2>1. p \in Procs /\ OwnerInv(f, p) /\ buf[p] \in Seq(Piece)
    BY DEF ToolInv, TypeOK
  <2>2. /\ file[f] \in Seq(Piece) /\ Len(file[f]) = wrote[p] /\ wrote[p] <= Len(result[p])
        /\ \A i \in 1 .. wrote[p] : file[f][i] = result[p][i]
        /\ result[p] = Encode(buf[p])
    BY <2>1 DEF OwnerInv, Holds, Ready, Converted
  <2> QED
    BY <2>1, <2>2, BeginningIsNoFrame
<1> QED
  BY <1>1, ToolInvAlways, PTL

\* Only an invocation that has converted its whole input changes a file, and
\* no other than its output (elh_cli.c:86-110, 129-153).
THEOREM ChangedByResultCorrect == Spec => ChangedByResult
<1>1. ToolInv /\ [Next]_vars =>
        [\A f \in Paths : file'[f] # file[f] =>
            \E p \in Procs : /\ pc[p] \in {"create", "write"} /\ Output(p) = f
                             /\ (Mode(p) = "-d" => IsFrame(buf[p]))
                             /\ Len(buf[p]) = size[p]
                             /\ result[p] = Converted(p)]_vars
  <2> SUFFICES ASSUME ToolInv, [Next]_vars, NEW f \in Paths, file'[f] # file[f]
               PROVE  \E p \in Procs : /\ pc[p] \in {"create", "write"} /\ Output(p) = f
                                       /\ (Mode(p) = "-d" => IsFrame(buf[p]))
                                       /\ Len(buf[p]) = size[p]
                                       /\ result[p] = Converted(p)
    OBVIOUS
  <2>1. PICK p \in Procs : Step(p) \/ Fail(p)
    BY DEF Next, vars
  <2>2. Create(p) \/ Write(p)
    BY <2>1 DEF Step, Main, Open, Read, Convert, Close, Fail, history
  <2>3. pc[p] \in {"create", "write"} /\ Ready(p) /\ DOMAIN file = Paths
    BY <2>2 DEF Create, Write, ToolInv, ProcInv, TypeOK
  <2>4. Output(p) = f
    BY <2>2, <2>3 DEF Create, Write
  <2> QED
    BY <2>3, <2>4 DEF Ready, Accepted
<1> QED
  BY <1>1, ToolInvAlways, PTL DEF Spec, ChangedByResult

-----------------------------------------------------------------------------
(***************************************************************************)
(* What a decompression gives.  Nothing an undisturbed invocation reads or *)
(* writes begins with a frame of anything that was not packed: the initial *)
(* files by assumption, the output of a compression because no beginning   *)
(* of a frame is one, the output of a decompression because it was packed, *)
(* hence read by an undisturbed compression before.                        *)
(***************************************************************************)
Trusted == Procs \ disturbed

\* The data that undisturbed compressions have begun to write, and Data.
Packing(q) ==
    /\ q \in Trusted /\ Mode(q) = "-c" /\ result[q] # Nil
    /\ pc[q] \in {"write", "success", "failure"}

Packed == Data \cup {buf[q] : q \in {r \in Procs : Packing(r)}}

Begins(g, f) == Len(g) <= Len(f) /\ \A i \in 1 .. Len(g) : g[i] = f[i]

Within(f, D) ==
    \A g \in Seq(Piece) : Begins(g, f) /\ IsFrame(g) => Decode(g) \in D

\* A file that no two have written and no disturbed one.
Clean(f) == file[f] # Nil /\ owner[f] \notin mixed \cup disturbed

\* What is known of an undisturbed invocation.
Sound(p) ==
    /\ Within(buf[p], Packed)
    /\ pc[p] = "read" => Clean(Input(p)) /\ Begins(buf[p], file[Input(p)])
    /\ Mode(p) = "-d" /\ result[p] # Nil => result[p] \in Packed

SoundInv ==
    /\ \A p \in Trusted : Sound(p)
    /\ \A f \in Paths : Clean(f) => Within(file[f], Packed)
    /\ \A p \in Procs : pc[p] = "write" => owner[Output(p)] \in Procs

\* Nothing is converted before the input is open.
EarlyInv == \A p \in Procs : pc[p] \in {"main", "open"} => result[p] = Nil

LEMMA EarlyStep == ToolInv /\ EarlyInv /\ [Next]_vars => EarlyInv'
<1> SUFFICES ASSUME ToolInv, EarlyInv, [Next]_vars PROVE EarlyInv'
  OBVIOUS
<1>1. CASE UNCHANGED vars
  BY <1>1 DEF vars, EarlyInv
<1>2. ASSUME NEW p \in Procs, Step(p) \/ Fail(p) PROVE EarlyInv'
  <2> SUFFICES ASSUME NEW q \in Procs, pc'[q] \in {"main", "open"} PROVE result'[q] = Nil
    BY DEF EarlyInv
  <2>1. CASE q # p
    <3>1. Same(q)
      BY <1>2, <2>1, OthersSame
    <3> QED
      BY <3>1 DEF Same, EarlyInv
  <2>2. CASE q = p
    <3>1. DOMAIN pc = Procs
      BY DEF ToolInv, TypeOK
    <3>2. Main(p)
      BY <1>2, <2>2, <3>1
         DEF Step, Open, Read, Convert, Create, Write, Close, Fail, Goto
    <3> QED
      BY <2>2, <3>2 DEF Main, EarlyInv
  <2> QED
    BY <2>1, <2>2
<1> QED
  BY <1>1, <1>2 DEF Next

LEMMA EarlyInvAlways == Spec => []EarlyInv
<1>1. Init => EarlyInv
  BY DEF Init, EarlyInv
<1> QED
  BY <1>1, EarlyStep, ToolInvAlways, PTL DEF Spec

LEMMA FramesWithinIs ==
    ASSUME NEW f \in Seq(Piece), NEW D, FramesWithin(f, D)
    PROVE  Within(f, D)
<1> SUFFICES ASSUME NEW g \in Seq(Piece), Begins(g, f), IsFrame(g)
             PROVE  Decode(g) \in D
  BY DEF Within
<1>1. Len(g) \in 1 .. Len(f)
  BY DEF Begins, IsFrame
<1>2. SubSeq(f, 1, Len(g)) = g
  BY <1>1 DEF Begins
<1> QED
  BY <1>1, <1>2 DEF FramesWithin

LEMMA WithinBegins ==
    ASSUME NEW f \in Seq(Piece), NEW h \in Seq(Piece), Begins(h, f), NEW D, NEW E,
           D \subseteq E, Within(f, D)
    PROVE  Within(h, E)
<1> SUFFICES ASSUME NEW g \in Seq(Piece), Begins(g, h), IsFrame(g)
             PROVE  Decode(g) \in E
  BY DEF Within
<1>1. Begins(g, f)
  <2>1. PICK a \in Nat, b \in Nat, c \in Nat : a = Len(g) /\ b = Len(h) /\ c = Len(f)
    OBVIOUS
  <2>2. \A i \in 1 .. a : i \in 1 .. b
    BY <2>1 DEF Begins
  <2> QED
    BY <2>1, <2>2 DEF Begins
<1> QED
  BY <1>1 DEF Within

LEMMA BeginsItself ==
    ASSUME NEW f \in Seq(Piece)
    PROVE  Begins(f, f) /\ Begins(<<>>, f)
BY DEF Begins

LEMMA WithinEmpty == \A D : Within(<<>>, D)
<1> SUFFICES ASSUME NEW g \in Seq(Piece), Begins(g, <<>>), IsFrame(g)
             PROVE  FALSE
  BY DEF Within
<1>1. Len(g) = 0
  BY DEF Begins
<1> QED
  BY <1>1 DEF IsFrame

LEMMA WithinEncode ==
    ASSUME NEW b \in Seq(Piece), NEW D, b \in D
    PROVE  Within(Encode(b), D)
<1> SUFFICES ASSUME NEW g \in Seq(Piece), Begins(g, Encode(b)), IsFrame(g)
             PROVE  Decode(g) \in D
  BY DEF Within
<1>1. Decode(g) = b
  BY BeginningIsNoFrame DEF Begins
<1> QED
  BY <1>1

\* What was packed is itself within what was packed.
LEMMA PackedWithin ==
    ASSUME ToolInv, SoundInv, NEW s \in Packed
    PROVE  s \in Seq(Piece) /\ Within(s, Packed)
<1>1. CASE s \in Data
  <2>1. s \in Seq(Piece) /\ Within(s, Data) /\ Begins(s, s)
    BY <1>1, DataAssumption, FramesWithinIs, BeginsItself
  <2>2. Data \subseteq Packed
    BY DEF Packed
  <2> QED
    BY <2>1, <2>2, WithinBegins
<1>2. CASE s \notin Data
  <2>1. PICK q \in Procs : Packing(q) /\ s = buf[q]
    BY <1>2 DEF Packed
  <2> QED
    BY <2>1 DEF SoundInv, Sound, Packing, ToolInv, TypeOK
<1> QED
  BY <1>1, <1>2

\* Who becomes disturbed by a step had not yet converted anything.
LEMMA DisturbedFacts ==
    ASSUME ToolInv, NEW p \in Procs, Step(p) \/ Fail(p)
    PROVE  /\ disturbed \subseteq disturbed'
           /\ disturbed' \subseteq
                disturbed \cup {q \in Procs : pc[q] \in {"open", "read"}}
           /\ ~ Open(p) /\ ~ Create(p) => disturbed' = disturbed
           /\ ~ Create(p) => disturbed' \subseteq disturbed \cup {p}
           /\ Trusted' \subseteq Trusted
<1>1. CASE Open(p)
  <2>1. pc[p] = "open" /\ (disturbed' = disturbed \/ disturbed' = disturbed \cup {p})
    BY <1>1 DEF Open
  <2>2. ~ Create(p)
    BY <2>1 DEF Create
  <2> QED
    BY <1>1, <2>1, <2>2 DEF Trusted
<1>2. CASE Create(p)
  <2>1. disturbed' = disturbed \cup {q \in Procs : pc[q] = "read" /\ Input(q) = Output(p)}
    BY <1>2 DEF Create
  <2> QED
    BY <1>2, <2>1 DEF Trusted
<1>3. CASE ~ Open(p) /\ ~ Create(p)
  <2>1. disturbed' = disturbed
    BY <1>3 DEF Step, Fail, Main, Read, Convert, Write, Close, history
  <2> QED
    BY <2>1 DEF Trusted
<1> QED
  BY <1>1, <1>2, <1>3

\* What is packed stays packed.
LEMMA PackedGrows ==
    ASSUME ToolInv, NEW p \in Procs, Step(p) \/ Fail(p)
    PROVE  Packed \subseteq Packed'
<1>1. ASSUME NEW q \in Procs, Packing(q)
      PROVE  Packing(q)' /\ buf'[q] = buf[q]
  <2>1. q \in Trusted'
    <3>1. q \notin disturbed'
      BY <1>1, DisturbedFacts DEF Packing, Trusted
    <3> QED
      BY <3>1 DEF Trusted
  <2>2. CASE q # p
    <3>1. Same(q)
      BY <2>2, OthersSame
    <3> QED
      BY <1>1, <2>1, <3>1 DEF Same, Packing, Mode
  <2>3. CASE q = p
    <3>1. Write(p) \/ Close(p) \/ Fail(p)
      BY <1>1, <2>3 DEF Packing, Step, Main, Open, Read, Convert, Create
    <3>2. UNCHANGED <<call, buf, result>> /\ pc[p] = "write"
      BY <1>1, <2>3, <3>1 DEF Packing, Write, Close, Fail
    <3>3. pc'[p] \in {"write", "success", "failure"}
      <4>1. DOMAIN pc = Procs
        BY DEF ToolInv, TypeOK
      <4> QED
        BY <3>1, <3>2, <4>1 DEF Write, Close, Fail, Goto
    <3> QED
      BY <1>1, <2>1, <2>3, <3>2, <3>3 DEF Packing, Mode
  <2> QED
    BY <2>2, <2>3
<1> SUFFICES ASSUME NEW s \in Packed PROVE s \in Packed'
  OBVIOUS
<1>2. CASE s \in Data
  BY <1>2 DEF Packed
<1>3. CASE s \notin Data
  <2>1. PICK q \in Procs : Packing(q) /\ s = buf[q]
    BY <1>3 DEF Packed
  <2>2. Packing(q)' /\ s = buf'[q]
    BY <1>1, <2>1
  <2> QED
    BY <2>2 DEF Packed
<1> QED
  BY <1>2, <1>3

\* An invocation that does not move, over a file that is not written or grows.
LEMMA SoundSame ==
    ASSUME ToolInv, SoundInv, NEW q \in Trusted', Same(q), q \in Trusted,
           Packed \subseteq Packed',
           pc[q] = "read" => /\ Clean(Input(q))'
                             /\ Begins(buf[q], file[Input(q)])
                                  => Begins(buf[q], file'[Input(q)])
    PROVE  Sound(q)'
<1>1. Sound(q) /\ buf[q] \in Seq(Piece)
  BY DEF SoundInv, Trusted, ToolInv, TypeOK
<1>2. Mode(q)' = Mode(q) /\ Input(q)' = Input(q)
  BY DEF Same, Mode, Input
<1>3. Within(buf[q], Packed')
  <2>1. Begins(buf[q], buf[q]) /\ Within(buf[q], Packed)
    BY <1>1, BeginsItself DEF Sound
  <2> DEFINE E == Packed'
  <2>2. Packed \subseteq E
    OBVIOUS
  <2> HIDE DEF E
  <2>3. Within(buf[q], E)
    BY <1>1, <2>1, <2>2, WithinBegins
  <2> QED
    BY <2>3 DEF E
<1>4. Within(buf'[q], Packed')
  BY <1>3 DEF Same
<1>5. pc'[q] = "read" => Clean(Input(q)') /\ Clean(Input(q))' /\ Begins(buf'[q], file'[Input(q)'])
  BY <1>1, <1>2 DEF Same, Sound
<1> QED
  BY <1>1, <1>2, <1>4, <1>5 DEF Sound, Same, Clean

\* The steps that open and write no file: what is to be shown of the
\* invocation that moves.
LEMMA QuietSound ==
    ASSUME ToolInv, SoundInv, NEW p \in Procs, Step(p) \/ Fail(p), ~ Create(p),
           UNCHANGED <<file, owner, mixed>>,
           pc'[p] = "write" => pc[p] = "write" /\ call'[p] = call[p],
           p \in Trusted' => Sound(p)'
    PROVE  SoundInv'
<1>0. Packed \subseteq Packed' /\ Trusted' \subseteq Trusted
  BY PackedGrows, DisturbedFacts
<1>1. ASSUME NEW f, Clean(f)' PROVE Clean(f)
  BY <1>1, DisturbedFacts DEF Clean
<1>2. ASSUME NEW f \in Paths, Clean(f), owner[f] # p PROVE Clean(f)'
  BY <1>2, DisturbedFacts DEF Clean
<1>3. ASSUME NEW f \in Paths, Clean(f), ~ Open(p) PROVE Clean(f)'
  BY <1>3, DisturbedFacts DEF Clean
<1>4. ASSUME NEW q \in Trusted' PROVE Sound(q)'
  <2>1. CASE q # p
    <3>1. Same(q) /\ q \in Trusted
      BY <1>0, <2>1, OthersSame DEF Trusted
    <3>2. ASSUME pc[q] = "read" PROVE Clean(Input(q))'
      <4>1. Input(q) \in Paths /\ Input(q)' = Input(q) /\ Clean(Input(q))
        BY <3>1, <3>2 DEF ToolInv, TypeOK, Same, Input, SoundInv, Sound, Trusted
      <4>2. CASE Open(p)
        <5>1. owner[Input(q)] # p
          BY <4>1, <4>2, NotYetOwner DEF Open
        <5> QED
          BY <1>2, <4>1, <5>1
      <4> QED
        BY <1>3, <4>1, <4>2
    <3> QED
      BY <1>0, <3>1, <3>2, SoundSame
  <2> QED
    BY <2>1
<1>5. ASSUME NEW f \in Paths, Clean(f)' PROVE Within(file'[f], Packed')
  <2>1. Clean(f) /\ Within(file[f], Packed) /\ file[f] \in Seq(Piece)
    BY <1>1, <1>5 DEF SoundInv, Clean, ToolInv, TypeOK
  <2>2. Within(file[f], Packed')
    <3> DEFINE E == Packed'
    <3>1. Packed \subseteq E /\ Begins(file[f], file[f])
      BY <1>0, <2>1, BeginsItself
    <3> HIDE DEF E
    <3>2. Within(file[f], E)
      BY <2>1, <3>1, WithinBegins
    <3> QED
      BY <3>2 DEF E
  <2> QED
    BY <2>2
<1>6. ASSUME NEW q \in Procs, pc'[q] = "write" PROVE owner[Output(q)'] \in Procs
  <2>1. pc[q] = "write" /\ Output(q)' = Output(q)
    <3>1. CASE q # p
      <4>1. Same(q)
        BY <3>1, OthersSame
      <4> QED
        BY <1>6, <4>1 DEF Same, Output
    <3>2. CASE q = p
      BY <1>6, <3>2 DEF Output
    <3> QED
      BY <3>1, <3>2
  <2> QED
    BY <2>1 DEF SoundInv
<1> QED
  BY <1>4, <1>5, <1>6 DEF SoundInv

\* An invocation whose buffer, result and arguments stay, and that does not
\* read on.
LEMMA SoundKept ==
    ASSUME ToolInv, SoundInv, NEW p \in Procs, Step(p) \/ Fail(p), p \in Trusted',
           buf'[p] = buf[p], result'[p] = result[p], call'[p] = call[p], pc'[p] # "read"
    PROVE  Sound(p)'
<1>1. Packed \subseteq Packed' /\ p \in Trusted
  BY PackedGrows, DisturbedFacts
<1>2. Sound(p) /\ buf[p] \in Seq(Piece) /\ Begins(buf[p], buf[p])
  BY <1>1, BeginsItself DEF SoundInv, ToolInv, TypeOK
<1>3. Within(buf[p], Packed')
  <2> DEFINE E == Packed'
  <2>1. Packed \subseteq E
    BY <1>1
  <2> HIDE DEF E
  <2>2. Within(buf[p], E)
    BY <1>2, <2>1, WithinBegins DEF Sound
  <2> QED
    BY <2>2 DEF E
<1> QED
  BY <1>1, <1>2, <1>3 DEF Sound, Mode

LEMMA MainSound ==
    ASSUME ToolInv, EarlyInv, SoundInv, NEW p \in Procs, Main(p) PROVE SoundInv'
<1>1. /\ pc[p] = "main" /\ buf[p] = <<>> /\ result[p] = Nil /\ ~ Create(p)
      /\ UNCHANGED <<buf, result, file, owner, mixed>>
  BY DEF Main, Create, history, ToolInv, ProcInv, EarlyInv
<1>2. pc'[p] \in {"open", "success", "failure"}
  <2>1. DOMAIN pc = Procs /\ DOMAIN call = Procs /\ args \in Calls
    BY DEF ToolInv, TypeOK
  <2>2. call'[p] = Parse(args[p])
    BY <2>1 DEF Main
  <2>3. pc'[p] = IF call'[p].exit = "run" THEN "open" ELSE call'[p].exit
    BY <2>1 DEF Main, Goto
  <2> QED
    BY <2>1, <2>2, <2>3, ParseFacts
<1>3. Sound(p)'
  <2>1. Within(<<>>, Packed')
    BY WithinEmpty
  <2> QED
    BY <1>1, <1>2, <2>1 DEF Sound
<1> QED
  BY <1>1, <1>2, <1>3, QuietSound DEF Step

LEMMA OpenSound ==
    ASSUME ToolInv, EarlyInv, SoundInv, NEW p \in Procs, Open(p) PROVE SoundInv'
<1>1. /\ pc[p] = "open" /\ buf[p] = <<>> /\ result[p] = Nil /\ ~ Create(p)
      /\ UNCHANGED <<call, buf, result, file, owner, mixed>> /\ Input(p) \in Paths
      /\ DOMAIN pc = Procs
  BY DEF Open, Create, ToolInv, TypeOK, ProcInv, EarlyInv
<1>2. pc'[p] \in {"read", "failure"}
  BY <1>1 DEF Open, Goto
<1>3. ASSUME p \in Trusted' PROVE Sound(p)'
  <2>1. Within(<<>>, Packed')
    BY WithinEmpty
  <2>2. ASSUME pc'[p] = "read"
        PROVE  Clean(Input(p))' /\ Begins(<<>>, file[Input(p)])
    <3>1. file[Input(p)] # Nil /\ owner[Input(p)] \notin mixed \cup disturbed
      BY <1>1, <1>3, <2>2 DEF Open, Goto, Trusted
    <3>2. owner[Input(p)] \notin disturbed'
      <4>1. owner[Input(p)] # p
        BY <1>1, NotYetOwner
      <4>2. disturbed' \subseteq disturbed \cup {p}
        BY <1>1, DisturbedFacts DEF Step
      <4> QED
        BY <3>1, <4>1, <4>2
    <3>3. file[Input(p)] \in Seq(Piece) /\ Input(p)' = Input(p)
      BY <1>1, <3>1 DEF ToolInv, TypeOK, Input
    <3>4. Begins(<<>>, file[Input(p)])
      BY <3>3, BeginsItself
    <3> QED
      BY <1>1, <3>1, <3>2, <3>3, <3>4 DEF Clean
  <2>3. Input(p)' = Input(p)
    BY <1>1 DEF Input
  <2> QED
    BY <1>1, <2>1, <2>2, <2>3 DEF Sound
<1> QED
  BY <1>1, <1>2, <1>3, QuietSound DEF Step

LEMMA ReadSound ==
    ASSUME ToolInv, SoundInv, NEW p \in Procs, Read(p) PROVE SoundInv'
<1>1. /\ pc[p] = "read" /\ ~ Create(p) /\ buf \in [Procs -> Seq(Piece)]
      /\ UNCHANGED <<call, result, file, owner, mixed, disturbed>>
      /\ DOMAIN pc = Procs /\ Input(p)' = Input(p) /\ Mode(p)' = Mode(p)
  BY DEF Read, Create, history, ToolInv, TypeOK, Input, Mode
<1>2. Packed \subseteq Packed' /\ Trusted' = Trusted
  BY <1>1, PackedGrows DEF Step, Trusted
<1>3. PICK i \in Nat : i = Len(buf[p]) + 1
  BY <1>1
<1>4. CASE i <= Len(file[Input(p)])
  <2>1. buf' = [buf EXCEPT ![p] = Append(buf[p], file[Input(p)][i])] /\ pc' = pc
    BY <1>3, <1>4 DEF Read
  <2>2. ASSUME p \in Trusted PROVE Sound(p)'
    <3>1. PICK s \in Seq(Piece), f \in Seq(Piece) : s = buf[p] /\ f = file[Input(p)]
      BY <1>1 DEF ToolInv, ProcInv
    <3>2. Sound(p) /\ Begins(s, f) /\ Clean(Input(p)) /\ Within(f, Packed)
      <4>1. Input(p) \in Paths
        BY <1>1 DEF ToolInv, TypeOK
      <4> QED
        BY <1>1, <2>2, <3>1, <4>1 DEF SoundInv, Sound
    <3>3. i \in 1 .. Len(f) /\ f[i] \in Piece /\ i = Len(s) + 1
      BY <1>3, <1>4, <3>1
    <3>4. Append(s, f[i]) \in Seq(Piece) /\ Begins(Append(s, f[i]), f)
      <4>1. /\ Append(s, f[i]) \in Seq(Piece) /\ Len(Append(s, f[i])) = i
            /\ \A j \in 1 .. i : Append(s, f[i])[j] = IF j = i THEN f[i] ELSE s[j]
        BY <3>3
      <4>2. \A j \in 1 .. i : Append(s, f[i])[j] = f[j]
        <5>1. \A j \in 1 .. i : j = i \/ j \in 1 .. Len(s)
          BY <3>3
        <5> QED
          BY <3>2, <4>1, <5>1 DEF Begins
      <4> QED
        BY <3>3, <4>1, <4>2 DEF Begins
    <3>5. Within(Append(s, f[i]), Packed')
      <4> DEFINE E == Packed'
      <4>1. Packed \subseteq E
        BY <1>2
      <4> HIDE DEF E
      <4>2. Within(Append(s, f[i]), E)
        BY <3>2, <3>4, <4>1, WithinBegins
      <4> QED
        BY <4>2 DEF E
    <3>6. buf'[p] = Append(s, f[i]) /\ pc'[p] = "read"
      BY <1>1, <2>1, <3>1
    <3>7. Clean(Input(p))'
      BY <1>1, <3>2 DEF Clean
    <3>8. Mode(p)' = "-d" /\ result'[p] # Nil => result'[p] \in Packed'
      BY <1>1, <1>2, <3>2 DEF Sound
    <3> QED
      BY <1>1, <3>1, <3>4, <3>5, <3>6, <3>7, <3>8 DEF Sound
  <2> QED
    BY <1>1, <1>2, <2>1, <2>2, QuietSound DEF Step
<1>5. CASE ~ (i <= Len(file[Input(p)]))
  <2>1. pc'[p] = "failure" /\ buf' = buf
    BY <1>1, <1>3, <1>5 DEF Read, Goto
  <2>2. ASSUME p \in Trusted' PROVE Sound(p)'
    BY <1>1, <2>1, <2>2, SoundKept DEF Step
  <2> QED
    BY <1>1, <2>1, <2>2, QuietSound DEF Step
<1> QED
  BY <1>4, <1>5

LEMMA ConvertSound ==
    ASSUME ToolInv, SoundInv, NEW p \in Procs, Convert(p) PROVE SoundInv'
<1>1. /\ pc[p] = "read" /\ ~ Create(p) /\ DOMAIN pc = Procs /\ DOMAIN result = Procs
      /\ UNCHANGED <<call, buf, file, owner, mixed, disturbed>>
      /\ Mode(p)' = Mode(p) /\ Mode(p) \in {"-c", "-d"} /\ buf[p] \in Seq(Piece)
  BY DEF Convert, Create, history, ToolInv, TypeOK, Mode, Modes
<1>2. Packed \subseteq Packed' /\ Trusted' = Trusted
  BY <1>1, PackedGrows DEF Step, Trusted
<1>3. CASE Accepted(p)
  <2>1. pc'[p] = "create" /\ result'[p] = Converted(p)
    BY <1>1, <1>3 DEF Convert, Goto
  <2>2. ASSUME p \in Trusted PROVE Sound(p)'
    <3>1. Within(buf[p], Packed) /\ Begins(buf[p], buf[p])
      BY <1>1, <2>2, BeginsItself DEF SoundInv, Sound
    <3>2. Within(buf[p], Packed')
      <4> DEFINE E == Packed'
      <4>1. Packed \subseteq E
        BY <1>2
      <4> HIDE DEF E
      <4>2. Within(buf[p], E)
        BY <1>1, <3>1, <4>1, WithinBegins
      <4> QED
        BY <4>2 DEF E
    <3>3. ASSUME Mode(p) = "-d" PROVE result'[p] \in Packed'
      <4>1. Decode(buf[p]) \in Packed
        BY <1>1, <1>3, <3>1, <3>3 DEF Within, Accepted
      <4> QED
        BY <1>2, <2>1, <3>3, <4>1 DEF Converted
    <3> QED
      BY <1>1, <2>1, <3>2, <3>3 DEF Sound
  <2> QED
    BY <1>1, <1>2, <2>1, <2>2, QuietSound DEF Step
<1>4. CASE ~ Accepted(p)
  <2>1. pc'[p] = "failure" /\ result' = result
    BY <1>1, <1>4 DEF Convert, Goto
  <2>2. ASSUME p \in Trusted' PROVE Sound(p)'
    BY <1>1, <2>1, <2>2, SoundKept DEF Step
  <2> QED
    BY <1>1, <2>1, <2>2, QuietSound DEF Step
<1> QED
  BY <1>3, <1>4

LEMMA CloseSound ==
    ASSUME ToolInv, SoundInv, NEW p \in Procs, Close(p) PROVE SoundInv'
<1>1. /\ pc[p] = "write" /\ ~ Create(p) /\ DOMAIN pc = Procs
      /\ UNCHANGED <<call, buf, result, file, owner, mixed>> /\ pc'[p] = "success"
  BY DEF Close, Create, history, ToolInv, TypeOK, Goto
<1>2. ASSUME p \in Trusted' PROVE Sound(p)'
  BY <1>1, <1>2, SoundKept DEF Step
<1> QED
  BY <1>1, <1>2, QuietSound DEF Step

LEMMA FailSound ==
    ASSUME ToolInv, SoundInv, NEW p \in Procs, Fail(p) PROVE SoundInv'
<1>1. /\ DOMAIN pc = Procs /\ DOMAIN buf = Procs /\ DOMAIN result = Procs
      /\ UNCHANGED <<call, file, owner, mixed, disturbed>> /\ pc'[p] = "failure"
  BY DEF Fail, history, ToolInv, TypeOK, Goto
<1>2. ~ Create(p)
  BY <1>1 DEF Create, Goto
<1>3. ASSUME p \in Trusted' PROVE Sound(p)'
  <2>1. CASE pc[p] = "write"
    <3>1. buf' = buf /\ result' = result
      BY <2>1 DEF Fail
    <3> QED
      BY <1>1, <1>3, <3>1, SoundKept
  <2>2. CASE pc[p] # "write"
    <3>1. buf'[p] = <<>> /\ result'[p] = Nil
      BY <1>1, <2>2 DEF Fail
    <3>2. Within(<<>>, Packed')
      BY WithinEmpty
    <3> QED
      BY <1>1, <3>1, <3>2 DEF Sound
  <2> QED
    BY <2>1, <2>2
<1> QED
  BY <1>1, <1>2, <1>3, QuietSound

LEMMA CreateSound ==
    ASSUME ToolInv, SoundInv, NEW p \in Procs, Create(p) PROVE SoundInv'
<1>0. PICK f \in Paths : f = Output(p)
  BY DEF ToolInv, TypeOK, Create
<1> DEFINE others == {q \in Procs : pc[q] = "write" /\ Output(q) = f}
<1>1. /\ pc[p] = "create" /\ DOMAIN pc = Procs /\ DOMAIN file = Paths /\ DOMAIN owner = Paths
  BY DEF ToolInv, TypeOK, Create
<1>2. /\ UNCHANGED <<call, buf, result>> /\ pc'[p] = "write"
      /\ file'[f] = <<>> /\ \A g \in Paths \ {f} : file'[g] = file[g] /\ owner'[g] = owner[g]
      /\ owner'[f] = p
      /\ mixed \subseteq mixed' /\ mixed' \subseteq mixed \cup others \cup {p}
      /\ disturbed' = disturbed \cup {q \in Procs : pc[q] = "read" /\ Input(q) = f}
  BY <1>0, <1>1 DEF Create, Goto
<1>3. Packed \subseteq Packed' /\ Trusted' \subseteq Trusted
  BY PackedGrows, DisturbedFacts DEF Step
<1>4. ASSUME NEW g \in Paths \ {f}, Clean(g)' PROVE Clean(g)
  BY <1>2, <1>4 DEF Clean
<1>5. ASSUME NEW g \in Paths \ {f}, Clean(g) PROVE Clean(g)'
  <2>1. owner[g] # p
    BY <1>1, NotYetOwner
  <2>2. owner[g] \notin others
    BY DEF ToolInv, OwnerInv
  <2>3. owner[g] \notin {q \in Procs : pc[q] = "read" /\ Input(q) = f}
    BY NotYetOwner
  <2> QED
    BY <1>2, <1>5, <2>1, <2>2, <2>3 DEF Clean
<1>6. ASSUME NEW q \in Trusted' PROVE Sound(q)'
  <2>1. CASE q # p
    <3>1. Same(q) /\ q \in Trusted
      BY <1>3, <2>1, OthersSame DEF Trusted, Step
    <3>2. ASSUME pc[q] = "read"
          PROVE  Clean(Input(q))' /\ file'[Input(q)] = file[Input(q)]
      <4>1. Input(q) \in Paths /\ Input(q)' = Input(q) /\ Clean(Input(q))
        BY <3>1, <3>2 DEF ToolInv, TypeOK, Same, Input, SoundInv, Sound, Trusted
      <4>2. Input(q) # f
        BY <1>2, <1>6, <3>2 DEF Trusted
      <4> QED
        BY <1>2, <1>5, <4>1, <4>2
    <3> QED
      BY <1>3, <3>1, <3>2, SoundSame
  <2>2. CASE q = p
    BY <1>2, <1>6, <2>2, SoundKept DEF Step
  <2> QED
    BY <2>1, <2>2
<1>7. ASSUME NEW g \in Paths, Clean(g)' PROVE Within(file'[g], Packed')
  <2>1. CASE g = f
    BY <1>2, <2>1, WithinEmpty
  <2>2. CASE g # f
    <3>1. Clean(g) /\ Within(file[g], Packed) /\ file[g] \in Seq(Piece)
      BY <1>4, <1>7, <2>2 DEF SoundInv, Clean, ToolInv, TypeOK
    <3>2. Within(file[g], Packed')
      <4> DEFINE E == Packed'
      <4>1. Packed \subseteq E /\ Begins(file[g], file[g])
        BY <1>3, <3>1, BeginsItself
      <4> HIDE DEF E
      <4>2. Within(file[g], E)
        BY <3>1, <4>1, WithinBegins
      <4> QED
        BY <4>2 DEF E
    <3> QED
      BY <1>2, <2>2, <3>2
  <2> QED
    BY <2>1, <2>2
<1>8. ASSUME NEW q \in Procs, pc'[q] = "write" PROVE owner'[Output(q)'] \in Procs
  <2>0. Output(q)' = Output(q)
    BY <1>2 DEF Output
  <2>1. CASE Output(q) = f
    BY <1>2, <2>0, <2>1
  <2>2. CASE Output(q) # f
    <3>1. q # p
      BY <1>0, <2>2
    <3>2. Same(q) /\ pc[q] = "write"
      BY <1>8, <3>1, OthersSame DEF Step, Same
    <3>3. Output(q) \in Paths /\ owner[Output(q)] \in Procs
      BY <3>2 DEF ToolInv, TypeOK, SoundInv
    <3> QED
      BY <1>2, <2>0, <2>2, <3>3
  <2> QED
    BY <2>1, <2>2
<1> QED
  BY <1>6, <1>7, <1>8 DEF SoundInv

LEMMA WriteSound ==
    ASSUME ToolInv, ToolInv', SoundInv, NEW p \in Procs, Write(p) PROVE SoundInv'
<1>0. PICK f \in Paths : f = Output(p)
  BY DEF ToolInv, TypeOK, Write
<1>1. /\ pc[p] = "write" /\ DOMAIN file = Paths
      /\ UNCHANGED <<call, pc, buf, result, owner, mixed, disturbed>>
      /\ \A g \in Paths \ {f} : file'[g] = file[g]
  BY <1>0 DEF Write, history, ToolInv, TypeOK
<1>2. Packed \subseteq Packed' /\ Trusted' = Trusted
  BY <1>1, PackedGrows DEF Step, Trusted
<1>3. ASSUME NEW g \in Paths, file[g] # Nil PROVE file'[g] # Nil
  <2>1. CASE g = f
    <3>1. file'[f] \in Seq(Piece)
      BY <1>0, <1>1 DEF ToolInv, ProcInv, Output
    <3> QED
      BY <2>1, <3>1, NoResultAssumption
  <2> QED
    BY <1>1, <1>3, <2>1
<1>4. ASSUME NEW g \in Paths, Clean(g) PROVE Clean(g)'
  BY <1>1, <1>3, <1>4 DEF Clean
<1>5. ASSUME owner[f] \notin mixed \cup disturbed
      PROVE  /\ owner[f] = p /\ Clean(f) /\ Begins(file[f], file'[f])
             /\ file'[f] \in Seq(Piece) /\ result[p] \in Seq(Piece)
             /\ Begins(file'[f], result[p]) /\ Ready(p) /\ p \in Trusted
  <2>1. owner[f] \in Procs
    BY <1>0, <1>1 DEF SoundInv
  <2>2. OwnerInv(f, owner[f]) /\ OwnerInv(f, owner[f])'
    BY <1>1, <2>1 DEF ToolInv
  <2>3. owner[f] = p
    BY <1>0, <1>1, <1>5, <2>1, <2>2 DEF OwnerInv, Writing
  <2>4. Holds(f, p) /\ Holds(f, p)' /\ result[p] \in Seq(Piece) /\ Ready(p)
    BY <1>1, <1>5, <2>2, <2>3 DEF OwnerInv
  <2>5. wrote[p] \in Nat /\ wrote'[p] = wrote[p] + 1 /\ wrote[p] < Len(result[p])
    BY DEF Write, ToolInv, TypeOK
  <2>6. /\ file[f] \in Seq(Piece) /\ Len(file[f]) = wrote[p]
        /\ \A i \in 1 .. wrote[p] : file[f][i] = result[p][i]
    BY <2>4 DEF Holds
  <2>7. /\ file'[f] \in Seq(Piece) /\ Len(file'[f]) = wrote[p] + 1
        /\ \A i \in 1 .. wrote[p] + 1 : file'[f][i] = result[p][i]
    <3>1. /\ file'[f] \in Seq(Piece) /\ Len(file'[f]) = wrote'[p]
          /\ \A i \in 1 .. wrote'[p] : file'[f][i] = result'[p][i]
      BY <2>4 DEF Holds
    <3> QED
      BY <1>1, <2>5, <3>1
  <2>8. Begins(file'[f], result[p])
    <3>1. Len(result[p]) \in Nat
      BY <2>4
    <3> QED
      BY <2>5, <2>7, <3>1 DEF Begins
  <2>9. Begins(file[f], file'[f])
    <3>1. \A i \in 1 .. wrote[p] : i \in 1 .. wrote[p] + 1
      BY <2>5
    <3> QED
      BY <2>5, <2>6, <2>7, <3>1 DEF Begins
  <2>10. Clean(f)
    BY <1>5, <2>6, NoResultAssumption DEF Clean
  <2> QED
    BY <1>5, <2>3, <2>4, <2>7, <2>8, <2>9, <2>10 DEF Trusted
<1>6. ASSUME NEW q \in Trusted' PROVE Sound(q)'
  <2>1. CASE q # p
    <3>1. Same(q) /\ q \in Trusted
      BY <1>2, <1>6, <2>1, OthersSame DEF Trusted, Step
    <3>2. ASSUME pc[q] = "read"
          PROVE  /\ Clean(Input(q))'
                 /\ Begins(buf[q], file[Input(q)]) => Begins(buf[q], file'[Input(q)])
      <4>1. Input(q) \in Paths /\ Input(q)' = Input(q) /\ Clean(Input(q))
        BY <3>1, <3>2 DEF ToolInv, TypeOK, Same, Input, SoundInv, Sound, Trusted
      <4>2. Clean(Input(q))'
        BY <1>4, <4>1
      <4>3. CASE Input(q) = f
        <5>1. Begins(file[f], file'[f]) /\ file[f] \in Seq(Piece) /\ file'[f] \in Seq(Piece)
          BY <1>5, <4>1, <4>3 DEF Clean, ToolInv, TypeOK
        <5>2. buf[q] \in Seq(Piece)
          BY <3>1 DEF Trusted, ToolInv, TypeOK
        <5>3. PICK a \in Nat, b \in Nat, c \in Nat :
                a = Len(buf[q]) /\ b = Len(file[f]) /\ c = Len(file'[f])
          BY <5>1, <5>2
        <5>4. ASSUME Begins(buf[q], file[f]) PROVE Begins(buf[q], file'[f])
          <6>1. a <= b /\ b <= c /\ \A i \in 1 .. a : i \in 1 .. b
            BY <5>1, <5>3, <5>4 DEF Begins
          <6> QED
            BY <5>1, <5>3, <5>4, <6>1 DEF Begins
        <5> QED
          BY <4>2, <4>3, <5>4
      <4>4. CASE Input(q) # f
        BY <1>1, <4>1, <4>2, <4>4
      <4> QED
        BY <4>3, <4>4
    <3> QED
      BY <1>2, <3>1, <3>2, SoundSame
  <2>2. CASE q = p
    BY <1>1, <1>6, <2>2, SoundKept DEF Step
  <2> QED
    BY <2>1, <2>2
<1>7. ASSUME NEW g \in Paths, Clean(g)' PROVE Within(file'[g], Packed')
  <2>1. CASE g = f
    <3>1. /\ file'[f] \in Seq(Piece) /\ result[p] \in Seq(Piece)
          /\ Begins(file'[f], result[p]) /\ Ready(p) /\ p \in Trusted
      BY <1>1, <1>5, <1>7, <2>1 DEF Clean
    <3>2. Within(result[p], Packed)
      <4>1. Mode(p) \in {"-c", "-d"} /\ buf[p] \in Seq(Piece) /\ result[p] # Nil
        BY <1>1, <3>1, NoResultAssumption DEF ToolInv, TypeOK, Modes
      <4>2. CASE Mode(p) = "-c"
        <5>1. Packing(p)
          BY <1>1, <3>1, <4>1, <4>2 DEF Packing
        <5>2. buf[p] \in Packed
          BY <5>1 DEF Packed
        <5>3. result[p] = Encode(buf[p])
          BY <3>1, <4>2 DEF Ready, Converted
        <5> QED
          BY <4>1, <5>2, <5>3, WithinEncode
      <4>3. CASE Mode(p) = "-d"
        <5>1. result[p] \in Packed
          BY <3>1, <4>1, <4>3 DEF SoundInv, Sound
        <5> QED
          BY <5>1, PackedWithin
      <4> QED
        BY <4>1, <4>2, <4>3
    <3>3. Within(file'[f], Packed')
      <4> DEFINE E == Packed'
      <4>1. Packed \subseteq E
        BY <1>2
      <4> HIDE DEF E
      <4>2. Within(file'[f], E)
        BY <3>1, <3>2, <4>1, WithinBegins
      <4> QED
        BY <4>2 DEF E
    <3> QED
      BY <2>1, <3>3
  <2>2. CASE g # f
    <3>1. Clean(g) /\ file'[g] = file[g]
      BY <1>1, <1>7, <2>2 DEF Clean
    <3>2. Within(file[g], Packed) /\ file[g] \in Seq(Piece)
      BY <3>1 DEF SoundInv, Clean, ToolInv, TypeOK
    <3>3. Within(file[g], Packed')
      <4> DEFINE E == Packed'
      <4>1. Packed \subseteq E /\ Begins(file[g], file[g])
        BY <1>2, <3>2, BeginsItself
      <4> HIDE DEF E
      <4>2. Within(file[g], E)
        BY <3>2, <4>1, WithinBegins
      <4> QED
        BY <4>2 DEF E
    <3> QED
      BY <3>1, <3>3
  <2> QED
    BY <2>1, <2>2
<1>8. ASSUME NEW q \in Procs, pc'[q] = "write" PROVE owner'[Output(q)'] \in Procs
  BY <1>1, <1>8 DEF SoundInv, Output
<1> QED
  BY <1>6, <1>7, <1>8 DEF SoundInv

-----------------------------------------------------------------------------
LEMMA InitSound == Init => SoundInv
<1> SUFFICES ASSUME Init PROVE SoundInv
  OBVIOUS
<1>1. /\ pc = [p \in Procs |-> "main"] /\ buf = [p \in Procs |-> <<>>]
      /\ result = [p \in Procs |-> Nil]
      /\ owner = [f \in Paths |-> Nil] /\ file \in Initial
  BY DEF Init
<1>2. ASSUME NEW p \in Procs PROVE Sound(p)
  BY <1>1, WithinEmpty DEF Sound
<1>3. ASSUME NEW f \in Paths, Clean(f) PROVE Within(file[f], Packed)
  <2>1. file[f] # Nil /\ file[f] \in Seq(Piece) /\ FramesWithin(file[f], Data)
    BY <1>1, <1>3, InitialAssumption, DataAssumption DEF Clean
  <2>2. Within(file[f], Data) /\ Begins(file[f], file[f])
    BY <2>1, FramesWithinIs, BeginsItself
  <2>3. Data \subseteq Packed
    BY DEF Packed
  <2> QED
    BY <2>1, <2>2, <2>3, WithinBegins
<1> QED
  BY <1>1, <1>2, <1>3 DEF SoundInv, Trusted

LEMMA SoundStep == ToolInv /\ ToolInv' /\ EarlyInv /\ SoundInv /\ [Next]_vars => SoundInv'
<1> SUFFICES ASSUME ToolInv, ToolInv', EarlyInv, SoundInv, [Next]_vars PROVE SoundInv'
  OBVIOUS
<1>1. CASE UNCHANGED vars
  <2>1. Packed' = Packed
    BY <1>1 DEF vars, history, Packed, Packing, Trusted, Mode
  <2>2. \A p : Sound(p)' = Sound(p)
    BY <1>1, <2>1 DEF vars, history, Sound, Clean, Mode, Input
  <2> QED
    BY <1>1, <2>1, <2>2 DEF vars, history, SoundInv, Trusted, Clean, Output
<1>2. ASSUME NEW p \in Procs, Step(p) \/ Fail(p) PROVE SoundInv'
  BY <1>2, MainSound, OpenSound, ReadSound, ConvertSound, CreateSound, WriteSound, CloseSound,
     FailSound DEF Step
<1> QED
  BY <1>1, <1>2 DEF Next

LEMMA SoundInvAlways == Spec => []SoundInv
  BY InitSound, SoundStep, ToolInvAlways, EarlyInvAlways, PTL DEF Spec

\* A decompression whose input was not mixed or truncated under it, nor came
\* from one that was, gives data that was compressed, from a file as it is read
\* while it is written, or as a failure left it (elh_cli.c:112-149).
THEOREM DecodeFaithfulCorrect == Spec => []DecodeFaithful
<1>1. ToolInv /\ SoundInv => DecodeFaithful
  <2> SUFFICES ASSUME ToolInv, SoundInv, NEW p \in Procs, Mode(p) = "-d", result[p] # Nil,
                      p \notin disturbed
               PROVE  result[p] \in Compressed
    BY DEF DecodeFaithful
  <2>1. result[p] \in Packed
    BY DEF SoundInv, Sound, Trusted
  <2>2. Packed \subseteq Compressed
    BY DEF Packed, Packing, Compressed
  <2> QED
    BY <2>1, <2>2
<1> QED
  BY <1>1, ToolInvAlways, SoundInvAlways, PTL
=============================================================================
