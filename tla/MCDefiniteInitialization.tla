---------------------- MODULE MCDefiniteInitialization ----------------------
(* Instances of DefiniteInitialization: every function of a few blocks. *)
EXTENDS DefiniteInitialization, SequencesExt

CONSTANTS x, u   \* a declared and an undeclared variable

Ids == 1..4
Accesses_ == [reads : SUBSET Storage, write : Storage \union {None}]

Read(s) == [reads |-> {s}, write |-> None]
Write(s) == [reads |-> {}, write |-> s]
Update(s) == [reads |-> {s}, write |-> s]

(* Facts about different variables never interact: one that is declared,  *)
(* and one that is not, are enough.                                        *)
Bodies == {<<>>, <<Write(x)>>, <<Update(x)>>, <<Update(u), Read(x)>>}

FunctionOf(f, a) ==
    [entry |-> 1,
     blocks |-> [i \in DOMAIN f |-> [id |-> i, successors |-> f[i], accesses |-> a[i]]]]

(* Every function of three blocks. *)
Ascending == {q \in SeqOf(1..3, 2) : Len(q) = 2 => q[1] < q[2]}
Small == {FunctionOf(f, a) : f \in [1..3 -> Ascending], a \in [1..3 -> Bodies]}

(* Storage is never uninitialized again, so one pass in reverse postorder  *)
(* settles every loop with one entry, and the loops of three blocks whose  *)
(* two entries both follow the function's.  Of the blocks 2, 3 and 4 two   *)
(* can form a loop that a longer and a shorter path enter, where a block   *)
(* has to be evaluated again.                                              *)
Jumps == {<<2>>, <<3>>, <<4>>, <<3, 4>>}
Irreducible ==
    {FunctionOf(f, a) : f \in {g \in [1..4 -> Jumps \union {<<2, 3>>}] :
                                  /\ g[1] = <<2, 3>>
                                  /\ \A i \in 2..4 : g[i] # <<2, 3>>},
                        a \in [1..4 -> {<<>>, <<Write(x)>>}]}

Functions_ == Small \union Irreducible
=============================================================================
