----------------------------- MODULE MCFileTool ------------------------------
(***************************************************************************)
(* Constants of the run of FileTool: two files, the second of which may be *)
(* absent or a frame, a third, named like a number, that is absent, and    *)
(* command lines that compress, decompress, convert in place, or are       *)
(* refused.                                                                *)
(***************************************************************************)
EXTENDS FileTool, TLC

MCData == {<<>>, <<[wraps |-> 0, kind |-> "data", value |-> 1],
                   [wraps |-> 0, kind |-> "data", value |-> 2]>>}

MCInitial == {[f \in Paths |-> CASE f = "a" -> d [] f = "b" -> b [] OTHER -> Nil] :
                 d \in MCData \ {<<>>}, b \in {Nil, Encode(<<>>)}}

MCConversions ==
    {<<"-c", "a", "b">>, <<"b", "-d", "a">>, <<"-k", "4", "a", "-c", "a">>}

MCInPlace == <<"-d", "-c", "b", "-d", "--no-raw", "b">>

MCRefused ==
    {<<"-h", "-k">>, <<"-c", "a">>, <<"-c", "a", "b", "b">>, <<"a", "b">>, <<"-c", "-k">>,
     <<"-c", "--chunk", "a", "b">>}

MCCalls ==
    [Procs -> MCConversions] \cup [Procs -> MCRefused]
        \cup {c \in [Procs -> MCConversions \cup {MCInPlace, <<"-c", "a">>}] :
                \E p \in Procs : c[p] = <<"-c", "a">>}

MCSymmetry == Permutations(Procs)
=============================================================================
