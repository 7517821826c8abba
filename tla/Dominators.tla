------------------------------ MODULE Dominators -----------------------------
(***************************************************************************)
(* Dominators and post-dominators (Talac/Analysis/Dominance.cpp): what the *)
(* control-flow analysis is asked for after it has numbered a graph.  Both *)
(* are computed one block at a time, as the loop of ComputeDominatingSets  *)
(* does, in sweeps over the numbering until one changes nothing.           *)
(***************************************************************************)
EXTENDS ControlFlow

VARIABLES
    dominators,      \* the dominating sets, of each reachable block
    postDominators,  \* the same of the reversed graph, from the exits
    at,              \* the position in the visiting order
    changed          \* whether this sweep changed a set

domVars == <<dominators, postDominators, at, changed>>

Nodes == discovered

-----------------------------------------------------------------------------
(* ComputeDominatingSets.                                                  *)

FindExits == {b \in Nodes : Successors(b) = {}}

\* The blocks a walk along `next` from some blocks visits when it stays in `within`.  As
\* many rounds as there are blocks are enough: a round that finds none is the last.
Closure(S, next, within) ==
    LET visited[n \in 0..Cardinality(within)] ==
          IF n = 0 THEN S
          ELSE LET before == visited[n - 1]
               IN  before \cup ((UNION {next[b] : b \in before}) \cap within)
    IN  visited[Cardinality(within)]

Onward == [b \in Nodes |-> Successors(b)]
Backward == [b \in Nodes |-> Predecessors(b)]

EveryReachableBlockCanReachAnExit ==
    FindExits # {} /\ Closure(FindExits, Backward, Nodes) = Nodes

Everything(roots) == [b \in Nodes |-> IF b \in roots THEN {b} ELSE Nodes]

\* IntersectInputs: what all inputs of a block agree on, and the block.
Dominating(sets, inputs, b) ==
    {b} \cup {d \in Nodes : inputs # {} /\ \A i \in inputs : d \in sets[i]}

DomInit ==
    /\ CFInit
    /\ dominators = <<>> /\ postDominators = <<>>
    /\ at = 0 /\ changed = FALSE

BeginDominance ==
    /\ phase = "analysed" /\ Nodes # {}
    /\ phase' = "dominators"
    /\ dominators' = Everything({program.entry})
    /\ at' = 1 /\ changed' = FALSE
    /\ UNCHANGED <<program, issues, graphVars, walkVars, postDominators>>

VisitForward ==
    /\ phase = "dominators" /\ at <= Len(ReversePostorder)
    /\ LET b == ReversePostorder[at]
           next == IF b = program.entry THEN dominators[b]
                   ELSE Dominating(dominators, Predecessors(b), b)
       IN  /\ dominators' = [dominators EXCEPT ![b] = next]
           /\ changed' = (changed \/ next # dominators[b])
    /\ at' = at + 1
    /\ UNCHANGED <<program, phase, issues, graphVars, walkVars, postDominators>>

VisitBackward ==
    /\ phase = "postDominators" /\ at <= Len(postorder)
    /\ LET b == postorder[at]
           next == IF b \in FindExits THEN postDominators[b]
                   ELSE Dominating(postDominators, Successors(b), b)
       IN  /\ postDominators' = [postDominators EXCEPT ![b] = next]
           /\ changed' = (changed \/ next # postDominators[b])
    /\ at' = at + 1
    /\ UNCHANGED <<program, phase, issues, graphVars, walkVars, dominators>>

\* A mutant: the flag of the last sweep is kept.
SweepForever ==
    /\ phase \in {"dominators", "postDominators"} /\ at > Len(postorder)
    /\ changed
    /\ at' = 1
    /\ UNCHANGED <<program, phase, issues, graphVars, walkVars, dominators, postDominators, changed>>

SweepAgain ==
    /\ phase \in {"dominators", "postDominators"} /\ at > Len(postorder)
    /\ changed
    /\ at' = 1 /\ changed' = FALSE
    /\ UNCHANGED <<program, phase, issues, graphVars, walkVars, dominators, postDominators>>

\* A mutant: post-dominance is computed whenever there is an exit at all.
EndDominatorsUnchecked ==
    /\ phase = "dominators" /\ at > Len(postorder) /\ ~changed
    /\ IF FindExits # {}
       THEN /\ phase' = "postDominators"
            /\ postDominators' = Everything(FindExits)
       ELSE phase' = "structured" /\ UNCHANGED postDominators
    /\ at' = 1
    /\ UNCHANGED <<program, issues, graphVars, walkVars, dominators, changed>>

\* A closed loop that cannot return would leave the initial sets as a proof.
EndDominators ==
    /\ phase = "dominators" /\ at > Len(postorder) /\ ~changed
    /\ IF EveryReachableBlockCanReachAnExit
       THEN /\ phase' = "postDominators"
            /\ postDominators' = Everything(FindExits)
       ELSE phase' = "structured" /\ UNCHANGED postDominators
    /\ at' = 1
    /\ UNCHANGED <<program, issues, graphVars, walkVars, dominators, changed>>

EndPostDominators ==
    /\ phase = "postDominators" /\ at > Len(postorder) /\ ~changed
    /\ phase' = "structured"
    /\ UNCHANGED <<program, issues, graphVars, walkVars, domVars>>

DomNext ==
    \/ CFNext /\ UNCHANGED domVars
    \/ BeginDominance \/ VisitForward \/ VisitBackward \/ SweepAgain
    \/ EndDominators \/ EndPostDominators

domAll == <<cfVars, domVars>>
DomSpec == DomInit /\ [][DomNext]_domAll
DomFairSpec == DomSpec /\ WF_domAll(DomNext)

-----------------------------------------------------------------------------
(* Results and properties.                                                 *)

hasPostDominance == phase = "structured" /\ postDominators # <<>>

\* What a walk from a block reaches when it may not enter another one.
Avoiding(from, without) == Closure({from} \ {without}, Onward, Nodes \ {without})

CanReturn(b) == Closure({b}, Onward, Nodes) \cap FindExits # {}

(* A block dominates another exactly when no path from the entry reaches   *)
(* the other without it; it post-dominates another exactly when no path    *)
(* from there returns without it, and no such claim is made about a        *)
(* function in which some reachable block cannot return at all.            *)
PathDominators(b) == {d \in Nodes : b \notin Avoiding(program.entry, d)}
PathPostDominators(b) == {d \in Nodes : Avoiding(b, d) \cap FindExits = {}}
DominatorsExact ==
    phase = "structured" =>
      /\ \A b \in Nodes : dominators[b] = PathDominators(b)
      /\ hasPostDominance <=> \A b \in Nodes : CanReturn(b)
      /\ hasPostDominance => \A b \in Nodes : postDominators[b] = PathPostDominators(b)

(* The sweeps end: the sets only shrink, so no bound on them is needed.     *)
DomTerminates == <>[](phase \in {"analysed", "structured"})
=============================================================================
