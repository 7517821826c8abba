--------------------------- MODULE SessionContract ---------------------------
(***************************************************************************)
(* What a user of `tali` is promised of a session: `taliPrevious` is the   *)
(* result of the last evaluation that succeeded, `:history` lists the      *)
(* latest of those in order, nothing else changes either, and a reset that *)
(* is announced clears both at once.                                       *)
(***************************************************************************)
EXTENDS Naturals, Sequences

CONSTANTS Expressions, Results, NoResult, MaximumEntries

VARIABLES binding, listed

Init == binding = NoResult /\ listed = <<>>

\* The last n elements of a sequence.
Latest(s, n) == IF Len(s) <= n THEN s ELSE SubSeq(s, Len(s) - n + 1, Len(s))

Succeed(e, r) ==
    /\ binding' = r
    /\ listed' = Latest(Append(listed, e), MaximumEntries)

Forget == binding' = NoResult /\ listed' = <<>>

Next == (\E e \in Expressions, r \in Results \cup {NoResult} : Succeed(e, r)) \/ Forget

Spec == Init /\ [][Next]_<<binding, listed>>
=============================================================================
