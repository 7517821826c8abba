-------------------------- MODULE MCCompileCommand --------------------------
(***************************************************************************)
(* Texts of Demo.tala: a short program and a longer one, whose document    *)
(* sticks out where the other's is written over it, and one with more      *)
(* parameters than a document can count.                                   *)
(***************************************************************************)
EXTENDS CompilePipeline

Number == Const(<<"fixed", 1>>, IntT)
Short == CoreModule(<<CoreFunction(1, <<>>, IntT, <<Give(Number)>>)>>)
Longer == CoreModule(<<CoreFunction(1, <<Param(11, StrT)>>, StrT, <<Give(Var(11, StrT))>>)>>)
Unencodable ==
    CoreModule(<<CoreFunction(1, [i \in 1..MaximumCount + 1 |-> Param(10 + i, IntT)], IntT,
                              <<Give(Number)>>)>>)
MCSources == <<Short, Longer, Unencodable>>
MCTexts == <<"Main", "main.tala">>

Ask(input, output, source, optimize, foreign) ==
    [input |-> input, output |-> output, source |-> source, optimize |-> optimize, foreign |-> foreign]
MCRequests ==
    {Ask("tala", "xpp", s, FALSE, FALSE) : s \in DOMAIN MCSources}
    \union {Ask("tala", "object", 2, FALSE, f) : f \in BOOLEAN}
    \union {Ask("tala", "executable", 1, TRUE, FALSE), Ask("xpp", "xmm", 1, TRUE, FALSE),
            Ask("xmm", "metadata", 1, FALSE, FALSE), Ask("object", "executable", 1, FALSE, FALSE),
            Ask("object", "metadata", 1, FALSE, FALSE)}
=============================================================================
