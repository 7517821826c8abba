----------------------------- MODULE MCLiveness -----------------------------
(* Instances of Liveness: every function of a few blocks. *)
EXTENDS Liveness, SequencesExt

CONSTANTS Blocks_, x, y

Ids == 1..Blocks_
Accesses_ == [reads : SUBSET Storage, write : Storage \union {None}, removable : BOOLEAN]

Copy(s, t) == [reads |-> {s}, write |-> t, removable |-> TRUE]
Constant(t) == [reads |-> {}, write |-> t, removable |-> TRUE]
Call(s, t) == [reads |-> {s}, write |-> t, removable |-> FALSE]
Use(s) == [reads |-> {s}, write |-> None, removable |-> FALSE]

Bodies == {<<>>, <<Use(x)>>, <<Copy(x, y)>>, <<Copy(y, x)>>,
           <<Constant(x), Call(y, x)>>}

Ascending == {q \in SeqOf(Ids, 2) : Len(q) = 2 => q[1] < q[2]}
Functions_ ==
    {[entry |-> 1,
      blocks |-> [i \in Ids |-> [id |-> i, successors |-> f[i], accesses |-> a[i]]]] :
        f \in [Ids -> Ascending], a \in [Ids -> Bodies]}
=============================================================================
