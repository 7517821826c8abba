------------------------------ MODULE Dominance ------------------------------
(***************************************************************************)
(* What the compiler reads off the dominating sets                         *)
(* (Talac/Analysis/Dominance.cpp, ControlDependence.cpp): immediate        *)
(* dominators, frontiers, natural loops, irreducible regions and           *)
(* edge-sensitive control dependence, as functions of a finished sweep.    *)
(***************************************************************************)
EXTENDS Dominators, SequencesExt

-----------------------------------------------------------------------------
(* What BuildBlockFacts hands out.                                         *)

NoBlock == -1    \* std::nullopt

\* A mutant: the comparison of the depths is turned round.
FarthestParent(sets, roots, b) ==
    LET strict == sets[b] \ {b}
        highest == {d \in strict : \A e \in strict : Cardinality(sets[d]) <= Cardinality(sets[e])}
    IN  IF b \in roots \/ strict = {} THEN NoBlock ELSE Min(highest)

\* ImmediateParents: the strict dominator with the largest set of its own;
\* of equally large ones, the smallest block.
ImmediateParent(sets, roots, b) ==
    LET strict == sets[b] \ {b}
        deepest == {d \in strict : \A e \in strict : Cardinality(sets[e]) <= Cardinality(sets[d])}
    IN  IF b \in roots \/ strict = {} THEN NoBlock ELSE Min(deepest)

\* The chain of parents from a block up to, and without, a block to stop at.
Chain(parent, from, stop) ==
    Closure({from} \ {stop}, [b \in Nodes |-> {parent[b]}], Nodes \ {stop})

\* ComputeFrontiers.
Frontiers(parent, inputs) ==
    [b \in Nodes |-> {join \in Nodes : Cardinality(inputs[join]) >= 2 /\
        \E p \in inputs[join] : b \in Chain(parent, p, parent[join])}]

ImmediateDominator == [b \in Nodes |-> ImmediateParent(dominators, {program.entry}, b)]
ImmediatePostDominator == [b \in Nodes |-> ImmediateParent(postDominators, FindExits, b)]

\* A mutant: the walk from the latch does not stop at the header.
NaturalLoopMembersPastHeader(header, latch) == {header} \cup Closure({latch}, Backward, Nodes)

\* FindNaturalLoops: one loop for each edge to a dominator of its source.
NaturalLoopMembers(header, latch) ==
    {header} \cup Closure({latch}, [Backward EXCEPT ![header] = {}], Nodes)

NaturalLoops ==
    LET back == {e \in Nodes \X Nodes : e[2] \in Successors(e[1]) /\ e[2] \in dominators[e[1]]}
    IN  {[header |-> e[2], latch |-> e[1], members |-> NaturalLoopMembers(e[2], e[1])] : e \in back}

LoopExits(loop) == (UNION {Successors(m) : m \in loop.members}) \ loop.members
LoopDepth(b) == Cardinality({loop \in NaturalLoops : b \in loop.members})

\* FinishOrder: a depth-first search from every block in turn, one turn of its loops.
SearchStep(s) ==
    LET rest == Nodes \ s.visited
        top == s.stack[Len(s.stack)]
        unvisited == {i \in DOMAIN edges[top] : edges[top][i] \in rest}
        Enter(b) == [s EXCEPT !.stack = Append(@, b), !.visited = @ \cup {b}]
    IN  IF s.stack = <<>> THEN IF rest = {} THEN s ELSE Enter(Min(rest))
        ELSE IF unvisited # {} THEN Enter(edges[top][Min(unvisited)])
        ELSE [s EXCEPT !.stack = Front(@), !.finished = Append(@, top)]

\* Every block enters the stack once and leaves it once.
Search ==
    LET search[n \in 0..2 * Cardinality(Nodes)] ==
          IF n = 0 THEN [stack |-> <<>>, visited |-> {}, finished |-> <<>>]
          ELSE SearchStep(search[n - 1])
    IN  search[2 * Cardinality(Nodes)]
FinishOrder == Search.finished

\* StronglyConnectedComponents: backwards from the blocks finished last.
AddComponent(components, start) ==
    LET visited == UNION components
    IN  IF start \in visited THEN components
        ELSE components \cup {Closure({start}, Backward, Nodes \ visited)}

StronglyConnectedComponents ==
    LET order == FinishOrder
        components[n \in 0..Len(order)] ==
          IF n = 0 THEN {} ELSE AddComponent(components[n - 1], order[Len(order) + 1 - n])
    IN  components[Len(order)]

IsCyclicComponent(C) == Cardinality(C) > 1 \/ \E b \in C : b \in Successors(b)
HasDominatingHeader(C) == \E h \in C : \A m \in C : h \in dominators[m]
RegionEntries(C) == {m \in C : Predecessors(m) \ C # {}}

FindIrreducibleRegions ==
    {[members |-> C, entries |-> RegionEntries(C)] :
        C \in {D \in StronglyConnectedComponents :
                  IsCyclicComponent(D) /\ ~HasDominatingHeader(D)}}

\* An edge of a branch, and a block that depends on it.
Dependence == [controller : Nodes, successor : Nodes, dependent : Nodes]

\* A mutant: the chain stops at the branch instead of at its post-dominator.
ControlDependenceToBranch ==
    IF ~hasPostDominance THEN {}
    ELSE {e \in Dependence :
            /\ Cardinality(Successors(e.controller)) >= 2
            /\ e.successor \in Successors(e.controller) \ postDominators[e.controller]
            /\ e.dependent \in Chain(ImmediatePostDominator, e.successor, e.controller)}

\* BuildEdges of ControlDependence.cpp.
ControlDependence ==
    IF ~hasPostDominance THEN {}
    ELSE {e \in Dependence :
            /\ Cardinality(Successors(e.controller)) >= 2
            /\ e.successor \in Successors(e.controller) \ postDominators[e.controller]
            /\ e.dependent \in Chain(ImmediatePostDominator, e.successor,
                                      ImmediatePostDominator[e.controller])}

-----------------------------------------------------------------------------
(* Properties.                                                             *)

(* The immediate dominator is the nearest: every other strict one          *)
(* dominates it.  The frontier is where dominance ends; joins of one input *)
(* are skipped, so it leaves out an entry with one back edge.              *)
DominatorTreeExact ==
    phase = "structured" =>
      /\ \A b \in Nodes \ {program.entry} :
            LET i == ImmediateDominator[b]
            IN  /\ i \in dominators[b] \ {b}
                /\ \A d \in dominators[b] \ {b} : d \in dominators[i]
      /\ LET frontier == Frontiers(ImmediateDominator, Backward)
         IN  \A b \in Nodes : frontier[b] =
                {j \in Nodes : /\ j # program.entry \/ Cardinality(Predecessors(j)) >= 2
                               /\ \E p \in Predecessors(j) : b \in dominators[p]
                               /\ j = b \/ b \notin dominators[j]}

(* A natural loop is entered through its header only and contains what     *)
(* reaches its latch without passing the header; and every cycle is inside *)
(* a strongly connected region that has a natural loop or is reported as   *)
(* irreducible, never both unless an inner loop is natural.                *)
LoopsExact ==
    phase = "structured" =>
      /\ \A loop \in NaturalLoops :
           /\ \A m \in loop.members : loop.header \in dominators[m]
           /\ \A m \in loop.members \ {loop.header} : Predecessors(m) \subseteq loop.members
           /\ loop.members = {loop.header} \cup {m \in Nodes : loop.latch \in Avoiding(m, loop.header)}
      /\ \A b \in Nodes : (\E a \in Successors(b) : b \in Closure({a}, Onward, Nodes)) =>
           \/ \E loop \in NaturalLoops : loop.header \in Closure({b}, Onward, Nodes)
                                          /\ b \in Closure({loop.header}, Onward, Nodes)
           \/ \E region \in FindIrreducibleRegions : b \in region.members
      /\ \A region \in FindIrreducibleRegions : Cardinality(region.entries) >= 2

(* Control dependence is exact for every edge but a block's edge to        *)
(* itself: a block depends on a branch edge when it is certain to run      *)
(* once the edge is taken, and not certain before.                         *)
ControlDependenceExact ==
    hasPostDominance =>
      ControlDependence = {e \in Dependence :
          /\ e.successor \in Successors(e.controller) \ {e.controller}
          /\ Avoiding(e.successor, e.dependent) \cap FindExits = {}
          /\ \/ e.dependent = e.controller
             \/ Avoiding(e.controller, e.dependent) \cap FindExits # {}}
=============================================================================
