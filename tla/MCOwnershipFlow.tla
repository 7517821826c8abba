-------------------------- MODULE MCOwnershipFlow --------------------------
(* Instances of OwnershipFlow: every function of a few blocks. *)
EXTENDS OwnershipFlow, SequencesExt

CONSTANTS Blocks_, h

Ids == 1..Blocks_
Kinds == {"strong", "weak"}
Actions_ == [kind : {"Observe", "Consume", "Define", "Forget"}, handle : Handle \union {NoHandle}, expected : Kinds]
InitialKinds == {[g \in Handle \union {NoHandle} |-> IF g = h THEN {"strong"} ELSE {}],
                 [g \in Handle \union {NoHandle} |-> IF g = h THEN Kinds ELSE {"weak"}]}

Do(k, e) == <<[kind |-> k, handle |-> h, expected |-> e]>>
Unnamed_ == <<[kind |-> "Consume", handle |-> NoHandle, expected |-> "strong"]>>
Bodies == {Unnamed_, Do("Observe", "strong"), Do("Consume", "strong"), Do("Define", "strong"),
           Do("Define", "weak"), Do("Forget", "strong")}

Ascending == {q \in SeqOf(Ids, 2) : Len(q) = 2 => q[1] < q[2]}

(* Either the entry or the last block may jump to the entry. *)
Targets ==
    {f \in [Ids -> Ascending] : \E back \in {1, Blocks_} : \A i \in Ids \ {back} : 1 \notin ToSet(f[i])}
Functions_ ==
    {[entry |-> 1,
      blocks |-> [i \in Ids |-> [id |-> i, successors |-> f[i], accesses |-> a[i]]]] :
        f \in Targets, a \in [Ids -> Bodies]}
=============================================================================
