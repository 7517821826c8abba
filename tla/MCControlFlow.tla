---------------------------- MODULE MCControlFlow ----------------------------
(* Instances of ControlFlow and Dominance: every function of a few blocks. *)
EXTENDS Dominance

(* No access is looked at here. *)
NoAccess == {}

Ids == 1..4

Function(blocks) == [entry |-> 1, blocks |-> blocks]
BlockRecord(i, s) == [id |-> i, successors |-> s, accesses |-> <<>>]

(* Two records with any identities: blocks are duplicated, and the entry   *)
(* and targets are missing.                                                *)
Malformed ==
    {Function(s) : s \in SeqOf([id : 1..3, successors : SeqOf(1..3, 2), accesses : {<<>>}], 2)}

(* Three blocks with successors in any order, repeated or missing. *)
AnyOrder ==
    {Function(<<BlockRecord(1, s), BlockRecord(2, t), BlockRecord(3, u)>>) : s, t, u \in SeqOf(Ids, 2)}

(* Every graph of four blocks. *)
Targets == {s \in SeqOf(Ids, 2) : Len(s) = 2 => s[1] < s[2]}
Graphs4 ==
    {Function(<<BlockRecord(1, s), BlockRecord(2, t), BlockRecord(3, u), BlockRecord(4, v)>>) :
        s, t, u, v \in Targets}

MCPrograms == Malformed \union AnyOrder \union Graphs4
=============================================================================
