------------------------------ MODULE FileTool -------------------------------
(***************************************************************************)
(* The command line tool src/src/elh_cli.c: several invocations of it over *)
(* the same files, each of which parses its arguments, reads a whole file, *)
(* converts it, and writes a whole file.  Any call to the system may fail, *)
(* an invocation may be killed between any two of them, and the            *)
(* invocations are interleaved at each piece read or written.              *)
(*                                                                         *)
(* A file is a sequence of pieces: data, the header of a frame, a chunk of *)
(* a frame around a piece, or a hole left by a writer whose file was       *)
(* truncated by another.  What the frame functions do to them is what      *)
(* ElhFrame shows: only a whole frame is accepted, and it gives the input. *)
(***************************************************************************)
EXTENDS Naturals, Sequences

CONSTANTS
    Procs,      \* invocations of the tool
    Calls,      \* the argument lists they may be called with: functions on Procs
    Paths,      \* the words that name a file
    Numbers,    \* the words strtol reads to their end
    Initial,    \* what the files may hold at first: functions on Paths
    Data,       \* what the frames in them hold
    Nil         \* no file, no word, no result

ASSUME NilAssumption == Nil \notin Paths \cup Procs

VARIABLES
    args,       \* argv of each invocation
    call,       \* what it has parsed of it: the locals of main
    pc,         \* where it is; "success" is exit status 0, "failure" any other end
    size,       \* what ftell said of the input
    buf,        \* the pieces read
    result,     \* what is to be written
    wrote,      \* the pieces written
    file,       \* the files
    owner,      \* history: the invocation that opened a file for writing last
    mixed,      \* history: invocations that had one output open at a time
    disturbed   \* history: invocations whose input was mixed, or truncated under them,
                \* or written by one of these

history == <<owner, mixed, disturbed>>
vars == <<args, call, pc, size, buf, result, wrote, file, history>>

-----------------------------------------------------------------------------
(***************************************************************************)
(* main: the arguments.  The last mode given counts; an option takes the   *)
(* next word, which must be an integer; -h ends the call with status 0 and *)
(* a third word, or a missing one, with 1.                                 *)
(***************************************************************************)
Options == {"-k", "--overflow", "--accel", "--chunk"}

Modes == {"-c", "-d"}

\* Any other word is the name of a file, a number too.
Words == Modes \cup Options \cup {"-h", "--no-raw"} \cup Paths

ASSUME CallsAssumption == Calls \subseteq [Procs -> Seq(Words)]

Unparsed ==
    [mode |-> Nil, input |-> Nil, output |-> Nil, option |-> FALSE, exit |-> "none"]

\* A word that is no option: the input, then the output, then one too many.
FileArg(s, w) ==
    CASE s.input = Nil -> [s EXCEPT !.input = w]
      [] s.input # Nil /\ s.output = Nil -> [s EXCEPT !.output = w]
      [] OTHER -> [s EXCEPT !.exit = "failure"]

OptionValue(s, w) ==
    IF w \in Numbers THEN [s EXCEPT !.option = FALSE] ELSE [s EXCEPT !.exit = "failure"]

Arg(s, w) ==
    CASE w = "-h" -> [s EXCEPT !.exit = "success"]
      [] w \in Modes -> [s EXCEPT !.mode = w]
      [] w \in Options -> [s EXCEPT !.option = TRUE]
      [] w = "--no-raw" -> s
      [] OTHER -> FileArg(s, w)

ParseArg(s, w) ==
    IF s.exit # "none" THEN s ELSE IF s.option THEN OptionValue(s, w) ELSE Arg(s, w)

\* FAULTY: an output that is not given is not missed.
FaultyComplete(s) == ~ s.option /\ s.mode # Nil /\ s.input # Nil

Complete(s) == ~ s.option /\ s.mode # Nil /\ s.input # Nil /\ s.output # Nil

\* The loop over argv.
Parsed(a) ==
    LET upTo[n \in 0 .. Len(a)] ==
            IF n = 0 THEN Unparsed ELSE ParseArg(upTo[n - 1], a[n])
    IN  upTo[Len(a)]

Parse(a) ==
    LET s == Parsed(a)
    IN  CASE s.exit # "none" -> s
          [] s.exit = "none" /\ Complete(s) -> [s EXCEPT !.exit = "run"]
          [] OTHER -> [s EXCEPT !.exit = "failure"]

Mode(p) == call[p].mode
Input(p) == call[p].input
Output(p) == call[p].output

-----------------------------------------------------------------------------
(***************************************************************************)
(* Files and frames.                                                       *)
(***************************************************************************)
Piece == [wraps : Nat, kind : {"data", "head", "hole"}, value : Nat]

ASSUME NoResultAssumption == Nil \notin Seq(Piece)

Hole == [wraps |-> 0, kind |-> "hole", value |-> 0]
FrameHead(n) == [wraps |-> 0, kind |-> "head", value |-> n]
Wrap(x) == [x EXCEPT !.wraps = @ + 1]
Unwrap(x) == [x EXCEPT !.wraps = @ - 1]

\* elh_frame_compress, with a chunk for each piece.
Encode(f) == <<FrameHead(Len(f))>> \o [i \in 1 .. Len(f) |-> Wrap(f[i])]

\* FAULTY: a frame may end before its last chunk.
FaultyIsFrame(f) ==
    /\ f # <<>> /\ f[1].wraps = 0 /\ f[1].kind = "head"
    /\ \A i \in 2 .. Len(f) : f[i].wraps > 0

\* What elh_frame_get_original_size and elh_frame_decompress accept.
IsFrame(f) ==
    /\ f # <<>> /\ f[1] = FrameHead(Len(f) - 1)
    /\ \A i \in 2 .. Len(f) : f[i].wraps > 0

ASSUME InitialAssumption == Initial \subseteq [Paths -> {Nil} \cup Seq(Piece)]

Decode(f) == [i \in 1 .. Len(f) - 1 |-> Unwrap(f[i + 1])]

\* A file of which no beginning is a frame of anything but a member of D.
FramesWithin(f, D) ==
    \A n \in 1 .. Len(f) : IsFrame(SubSeq(f, 1, n)) => Decode(SubSeq(f, 1, n)) \in D

ASSUME DataAssumption ==
    /\ Data \subseteq Seq(Piece) /\ \A d \in Data : FramesWithin(d, Data)
    /\ \A i \in Initial : \A f \in Paths : i[f] # Nil => FramesWithin(i[f], Data)

\* Piece i of a file that may have become shorter than its writer thinks.
Put(f, i, x) ==
    IF i <= Len(f) THEN [f EXCEPT ![i] = x]
    ELSE f \o [j \in 1 .. i - Len(f) - 1 |-> Hole] \o <<x>>

Init ==
    /\ args \in Calls
    /\ call = [p \in Procs |-> Unparsed]
    /\ pc = [p \in Procs |-> "main"]
    /\ size = [p \in Procs |-> 0]
    /\ buf = [p \in Procs |-> <<>>]
    /\ result = [p \in Procs |-> Nil]
    /\ wrote = [p \in Procs |-> 0]
    /\ file \in Initial
    /\ owner = [f \in Paths |-> Nil]
    /\ mixed = {} /\ disturbed = {}

-----------------------------------------------------------------------------
(***************************************************************************)
(* An invocation.                                                          *)
(***************************************************************************)
Goto(p, l) == pc' = [pc EXCEPT ![p] = l]

Main(p) ==
    /\ pc[p] = "main"
    /\ call' = [call EXCEPT ![p] = Parse(args[p])]
    /\ Goto(p, IF call'[p].exit = "run" THEN "open" ELSE call'[p].exit)
    /\ UNCHANGED <<args, size, buf, result, wrote, file, history>>

\* read_file: fopen, and the size.
Open(p) ==
    /\ pc[p] = "open"
    /\ IF file[Input(p)] = Nil
       THEN Goto(p, "failure") /\ UNCHANGED <<size, disturbed>>
       ELSE /\ Goto(p, "read")
            /\ size' = [size EXCEPT ![p] = Len(file[Input(p)])]
            /\ disturbed' = IF owner[Input(p)] \in mixed \cup disturbed
                            THEN disturbed \cup {p} ELSE disturbed
    /\ UNCHANGED <<args, call, buf, result, wrote, file, owner, mixed>>

Unread(p) == Len(buf[p]) < size[p]

\* fread: the file may have been truncated since.
Read(p) ==
    /\ pc[p] = "read" /\ Unread(p)
    /\ LET f == file[Input(p)]
           i == Len(buf[p]) + 1
       IN  IF i <= Len(f)
           THEN buf' = [buf EXCEPT ![p] = Append(@, f[i])] /\ UNCHANGED pc
           ELSE Goto(p, "failure") /\ UNCHANGED buf
    /\ UNCHANGED <<args, call, size, result, wrote, file, history>>

\* FAULTY: a refused frame still has its output written.
FaultyAccepted(p) == TRUE

Accepted(p) == Mode(p) = "-d" => IsFrame(buf[p])

Converted(p) == IF Mode(p) = "-c" THEN Encode(buf[p]) ELSE Decode(buf[p])

Convert(p) ==
    /\ pc[p] = "read" /\ ~ Unread(p)
    /\ IF Accepted(p)
       THEN /\ Goto(p, "create")
            /\ result' = [result EXCEPT ![p] = Converted(p)]
       ELSE Goto(p, "failure") /\ UNCHANGED result
    /\ UNCHANGED <<args, call, size, buf, wrote, file, history>>

\* write_file: fopen truncates the output, whoever else reads or writes it.
Create(p) ==
    /\ pc[p] = "create"
    /\ Goto(p, "write")
    /\ file' = [file EXCEPT ![Output(p)] = <<>>]
    /\ owner' = [owner EXCEPT ![Output(p)] = p]
    /\ LET others == {q \in Procs : pc[q] = "write" /\ Output(q) = Output(p)}
       IN  mixed' = IF others = {} THEN mixed ELSE mixed \cup others \cup {p}
    /\ disturbed' = disturbed \cup {q \in Procs : pc[q] = "read" /\ Input(q) = Output(p)}
    /\ UNCHANGED <<args, call, size, buf, result, wrote>>

Write(p) ==
    /\ pc[p] = "write" /\ wrote[p] < Len(result[p])
    /\ file' = [file EXCEPT ![Output(p)] = Put(@, wrote[p] + 1, result[p][wrote[p] + 1])]
    /\ wrote' = [wrote EXCEPT ![p] = @ + 1]
    /\ UNCHANGED <<args, call, pc, size, buf, result, history>>

\* FAULTY: how much fwrite wrote is not looked at.
FaultyWritten(p) == TRUE

Written(p) == wrote[p] = Len(result[p])

Close(p) ==
    /\ pc[p] = "write" /\ Written(p)
    /\ Goto(p, "success")
    /\ UNCHANGED <<args, call, size, buf, result, wrote, file, history>>

\* A call to the system fails: fopen, fseek, ftell, malloc, fread, fwrite or
\* fclose; the size of the file or of the bound is no int; or the invocation
\* is killed.  Its buffers are gone; those of one that has begun to write are
\* kept for the properties.
Fail(p) ==
    /\ pc[p] \in {"main", "open", "read", "create", "write"}
    /\ Goto(p, "failure")
    /\ IF pc[p] = "write" THEN UNCHANGED <<size, buf, result>>
       ELSE /\ size' = [size EXCEPT ![p] = 0]
            /\ buf' = [buf EXCEPT ![p] = <<>>]
            /\ result' = [result EXCEPT ![p] = Nil]
    /\ UNCHANGED <<args, call, wrote, file, history>>

Step(p) == Main(p) \/ Open(p) \/ Read(p) \/ Convert(p) \/ Create(p) \/ Write(p) \/ Close(p)

Next == \E p \in Procs : Step(p) \/ Fail(p)

Spec == Init /\ [][Next]_vars

-----------------------------------------------------------------------------
(***************************************************************************)
(* Properties.                                                             *)
(***************************************************************************)
TypeOK ==
    /\ args \in Calls
    /\ \A p \in Procs : call[p] \in {Unparsed, Parse(args[p])}
    /\ pc \in [Procs -> {"main", "open", "read", "create", "write", "success", "failure"}]
    /\ \A p \in Procs : pc[p] \in {"open", "read", "create", "write"} =>
        Mode(p) \in Modes /\ Input(p) \in Paths /\ Output(p) \in Paths
    /\ size \in [Procs -> Nat] /\ wrote \in [Procs -> Nat]
    /\ buf \in [Procs -> Seq(Piece)] /\ \A p \in Procs : Len(buf[p]) <= size[p]
    /\ result \in [Procs -> {Nil} \cup Seq(Piece)]
    /\ file \in [Paths -> {Nil} \cup Seq(Piece)]
    /\ owner \in [Paths -> Procs \cup {Nil}]
    /\ mixed \subseteq Procs /\ disturbed \subseteq Procs

\* An invocation that ends with status 0 has written its result, also over its
\* own input, and it stays until the file is opened for writing again, unless
\* two had it open at a time: the file holds what its input is converted to.
SuccessIsWritten ==
    \A f \in Paths : LET p == owner[f] IN
        p # Nil /\ p \notin mixed /\ pc[p] = "success" => file[f] = Converted(p)

\* A file changes only under an invocation that has converted its whole input
\* and for which it is the output: one that fails before leaves every file as
\* it was.
ChangedByResult ==
    [][\A f \in Paths : file'[f] # file[f] =>
        \E p \in Procs : /\ pc[p] \in {"create", "write"} /\ Output(p) = f
                         /\ (Mode(p) = "-d" => IsFrame(buf[p]))
                         /\ Len(buf[p]) = size[p]
                         /\ result[p] = Converted(p)]_vars

\* The data that went into frames: those of the initial files, and what
\* compressions have read.
Compressed == Data \cup {buf[q] : q \in {r \in Procs : Mode(r) = "-c" /\ result[r] # Nil}}

\* A decompression gives data that was compressed or fails, also when it reads
\* a file that is still being written or was left behind half written; only
\* two writers at once, or a truncation under a reader, can give it, or one that
\* reads what came of that, anything else.
DecodeFaithful ==
    \A p \in Procs : Mode(p) = "-d" /\ result[p] # Nil /\ p \notin disturbed
        => result[p] \in Compressed

\* What a failed or killed compression leaves behind is no frame, unless it is
\* the whole one.
TornIsNoFrame ==
    \A f \in Paths : LET p == owner[f] IN
        p # Nil /\ p \notin mixed /\ Mode(p) = "-c" /\ IsFrame(file[f])
            => Decode(file[f]) = buf[p]
=============================================================================
