--------------------------- MODULE DominanceProofs ---------------------------
(***************************************************************************)
(* The sweeps compute dominance as paths define it, and what is read off   *)
(* the sets is exact, for every function.                                  *)
(*                                                                         *)
(* The invariant DomInv says of either pass that no set ever loses a block *)
(* that dominates (the sets are above the path definition), and that the   *)
(* blocks visited since a set last changed satisfy their equation.  So a   *)
(* sweep that changed nothing leaves a solution, and a solution is never   *)
(* above the path definition: the blocks a path avoids are not in it.      *)
(*                                                                         *)
(* Everything else follows from five facts that hold of both directions    *)
(* (DominanceSets) and from what the depth-first search leaves behind      *)
(* (FinishFacts): the dominators of a block are a chain with its parents   *)
(* as links, and the components are the classes of blocks on one cycle.    *)
(***************************************************************************)
EXTENDS Dominance, ControlFlowProofs

(* Where the passes are. *)
Forward == phase \in {"dominators", "postDominators", "structured"}
Backwards == phase = "postDominators" \/ (phase = "structured" /\ postDominators # <<>>)

ForwardSolved(b) ==
    b = program.entry \/ dominators[b] = Dominating(dominators, Predecessors(b), b)
BackwardSolved(b) ==
    b \in FindExits \/ postDominators[b] = Dominating(postDominators, Successors(b), b)

(* The registers, and that the code only computes what it may. *)
DomTypes ==
    /\ phase \in {"edges", "traverse", "analysed", "dominators", "postDominators", "structured"}
    /\ at \in Nat /\ changed \in BOOLEAN
    /\ phase \in {"dominators", "postDominators"} => at # 0
    /\ ~Backwards => postDominators = <<>>
    /\ Forward => Nodes # {} /\ dominators \in [Nodes -> SUBSET Nodes]
    /\ Backwards => postDominators \in [Nodes -> SUBSET Nodes]
    /\ phase \in {"postDominators", "structured"} =>
         (Backwards <=> EveryReachableBlockCanReachAnExit)

(* The sets are never below the path definition. *)
DomAbove ==
    /\ Forward => /\ dominators[program.entry] = {program.entry}
                  /\ \A b \in Nodes : PathDominators(b) \subseteq dominators[b]
    /\ Backwards => /\ \A b \in FindExits : postDominators[b] = {b}
                    /\ \A b \in Nodes : PathPostDominators(b) \subseteq postDominators[b]

(* What a sweep without a change has visited is solved; so is all of it at the end. *)
DomSolved ==
    /\ phase = "dominators" /\ ~changed =>
         \A i \in DOMAIN ReversePostorder : i < at => ForwardSolved(ReversePostorder[i])
    /\ phase \in {"postDominators", "structured"} => \A b \in Nodes : ForwardSolved(b)
    /\ phase = "postDominators" /\ ~changed =>
         \A i \in DOMAIN postorder : i < at => BackwardSolved(postorder[i])
    /\ phase = "structured" /\ Backwards => \A b \in Nodes : BackwardSolved(b)

DomInv == CFInv /\ DomTypes /\ DomAbove /\ DomSolved

-----------------------------------------------------------------------------
(* Walks. *)

\* A walk visits the least set that holds its start and that no step inside leaves.
LEMMA ClosureLeast ==
    ASSUME NEW W, IsFiniteSet(W), NEW S \in SUBSET W, NEW next
    PROVE  /\ S \subseteq Closure(S, next, W) /\ Closure(S, next, W) \subseteq W
           /\ \A b \in Closure(S, next, W) : next[b] \cap W \subseteq Closure(S, next, W)
           /\ \A T \in SUBSET W : (S \subseteq T /\ \A b \in T : next[b] \cap W \subseteq T) =>
                Closure(S, next, W) \subseteq T
<1> DEFINE N == Cardinality(W)
           Grow(X) == X \cup ((UNION {next[b] : b \in X}) \cap W)
           F == LET visited[n \in 0..N] ==
                      IF n = 0 THEN S
                      ELSE LET before == visited[n - 1]
                           IN  before \cup ((UNION {next[b] : b \in before}) \cap W)
                IN  visited
           IsFold(f, n) == f = [i \in 0..n |-> IF i = 0 THEN S ELSE Grow(f[i - 1])]
           M == {m \in Nat : \E f : IsFold(f, m)}
           G == [X \in SUBSET W |-> Grow(X)]
<1>1. N \in Nat
  BY FS_CardinalityType
<1>2. Closure(S, next, W) = F[N]
  BY DEF Closure
<1>3. 0 \in M
  <2> DEFINE f == [i \in 0..0 |-> S]
  <2>1. IsFold(f, 0)
    OBVIOUS
  <2> HIDE DEF f
  <2> QED BY <2>1
<1>4. ASSUME NEW m \in Nat, m \in M PROVE m + 1 \in M
  <2>1. PICK g : IsFold(g, m)
    BY <1>4
  <2> HIDE DEF Grow
  <2> DEFINE f == [i \in 0..m + 1 |-> IF i = m + 1 THEN Grow(g[m]) ELSE g[i]]
  <2>2. \A i \in 0..m + 1 : f[i] = IF i = 0 THEN S ELSE Grow(f[i - 1])
    BY <2>1
  <2>3. IsFold(f, m + 1)
    BY <2>2
  <2> HIDE DEF f
  <2> QED BY <2>3
<1>5. IsFold(F, N)
  <2>1. Nat \subseteq M
    <3> HIDE DEF M
    <3> QED BY <1>3, <1>4, NatClosure
  <2>2. PICK f : IsFold(f, N)
    BY <1>1, <2>1
  <2> HIDE DEF N
  <2> QED BY <2>2
<1>6. G \in [SUBSET W -> SUBSET W] /\ \A X \in SUBSET W : G[X] = Grow(X) /\ X \subseteq G[X]
  <2>1. \A X \in SUBSET W : Grow(X) \in SUBSET W /\ X \subseteq Grow(X)
    OBVIOUS
  <2> HIDE DEF Grow
  <2> QED BY <2>1
<1> HIDE DEF F, M, G
<1>7. F[0] = S /\ \A i \in 1..N : F[i] = Grow(F[i - 1])
  <2> HIDE DEF Grow, N
  <2> QED BY <1>1, <1>5
<1>8. /\ F[N] \in SUBSET W /\ S \subseteq F[N] /\ G[F[N]] = F[N]
      /\ \A T \in SUBSET W : (S \subseteq T /\ \A X \in SUBSET T : G[X] \subseteq T) => F[N] \subseteq T
  <2>1. \A i \in 1..N : F[i - 1] \in SUBSET W => F[i] = G[F[i - 1]]
    <3> HIDE DEF Grow
    <3> QED BY <1>6, <1>7
  <2>2. F[0] = S /\ F[0] \in SUBSET W /\ \A X \in SUBSET W : X \subseteq G[X]
    <3> HIDE DEF Grow
    <3> QED BY <1>6, <1>7
  <2>3. G \in [SUBSET W -> SUBSET W]
    BY <1>6
  <2>4. /\ F[N] \in SUBSET W /\ F[0] \subseteq F[N] /\ G[F[N]] = F[N]
        /\ \A T \in SUBSET W : (F[0] \subseteq T /\ \A X \in SUBSET T : G[X] \subseteq T) =>
             F[N] \subseteq T
    BY <2>1, <2>2, <2>3, Saturation, ZenonT(60)
  <2> QED BY <2>2, <2>4
<1>9. ASSUME NEW b \in F[N] PROVE next[b] \cap W \subseteq F[N]
  <2>1. Grow(F[N]) = F[N]
    BY <1>6, <1>8
  <2>2. next[b] \cap W \subseteq Grow(F[N])
    OBVIOUS
  <2> QED BY <2>1, <2>2
<1>10. ASSUME NEW T \in SUBSET W, S \subseteq T, \A b \in T : next[b] \cap W \subseteq T
       PROVE  F[N] \subseteq T
  <2>1. \A X \in SUBSET T : G[X] \subseteq T
    <3> SUFFICES ASSUME NEW X \in SUBSET T PROVE Grow(X) \subseteq T
      <4> HIDE DEF Grow
      <4> QED BY <1>6
    <3> QED BY <1>10
  <2> QED BY <1>8, <1>10, <2>1
<1> QED BY <1>2, <1>8, <1>9, <1>10

\* What the passes need of a finished walk of the function.
LEMMA NodesFacts ==
    ASSUME CFInv, phase \notin {"edges", "traverse"}
    PROVE  /\ IsFiniteSet(Nodes) /\ Nodes = Left
           /\ \A b \in Nodes : Successors(b) \subseteq Nodes /\ Predecessors(b) \subseteq Nodes
           /\ \A b \in Nodes : Onward[b] = Successors(b) /\ Backward[b] = Predecessors(b)
           /\ Nodes # {} => program.entry \in Nodes
           /\ \A b \in Nodes \ {program.entry} : Predecessors(b) # {}
           /\ \A a, b \in Nodes : b \in Successors(a) <=> a \in Predecessors(b)
           /\ postorder \in Seq(Nodes)
<1>1. /\ discovered = Left /\ postorder \in Seq(Catalog)
      /\ \A a \in discovered : Successors(a) \subseteq discovered
  BY DiscoveredClosed DEF CFInv, CFTypeOK
<1>2. /\ Len(postorder) \in Nat /\ DOMAIN postorder = 1..Len(postorder)
      /\ IsFiniteSet(1..Len(postorder))
  BY <1>1, FS_Interval
<1>3. postorder \in [1..Len(postorder) -> discovered]
  BY <1>1, <1>2 DEF Left
<1>4. IsFiniteSet(discovered)
  <2>1. \A b \in discovered : \E i \in 1..Len(postorder) : postorder[i] = b
    BY <1>1, <1>2 DEF Left
  <2>2. postorder \in Surjection(1..Len(postorder), discovered)
    BY <1>3, <2>1 DEF Surjection
  <2> QED BY <1>2, <2>2, FS_Surjection
<1>5. postorder \in Seq(discovered)
  BY <1>2, <1>3
<1>6. \A b \in discovered \ {program.entry} : \E a \in discovered : b \in Successors(a)
  BY DEF CFInv
<1>7. discovered # {} => program.entry \in discovered
  BY EntryDiscovered
<1> QED BY <1>1, <1>4, <1>5, <1>6, <1>7 DEF Nodes, Onward, Backward, Predecessors

\* What a walk around a block reaches.
LEMMA AvoidingLeast ==
    ASSUME CFInv, phase \notin {"edges", "traverse"}, NEW from \in Nodes, NEW without
    PROVE  /\ Avoiding(from, without) \subseteq Nodes \ {without}
           /\ from # without => from \in Avoiding(from, without)
           /\ \A a \in Avoiding(from, without) :
                Successors(a) \ {without} \subseteq Avoiding(from, without)
           /\ \A T \in SUBSET (Nodes \ {without}) :
                ({from} \ {without} \subseteq T
                   /\ \A a \in T : Successors(a) \ {without} \subseteq T) =>
                Avoiding(from, without) \subseteq T
<1> DEFINE W == Nodes \ {without}
           S == {from} \ {without}
           A == Closure(S, Onward, W)
<1>1. IsFiniteSet(W) /\ S \in SUBSET W
  BY NodesFacts, FS_Subset
<1>2. /\ S \subseteq A /\ A \subseteq W /\ \A b \in A : Onward[b] \cap W \subseteq A
      /\ \A T \in SUBSET W : (S \subseteq T /\ \A b \in T : Onward[b] \cap W \subseteq T) =>
           A \subseteq T
  <2> HIDE DEF W, S
  <2> QED BY <1>1, ClosureLeast, ZenonT(60)
<1>3. \A b \in W : Onward[b] \cap W = Successors(b) \ {without}
  BY NodesFacts
<1>4. A = Avoiding(from, without)
  BY DEF Avoiding
<1> HIDE DEF A
<1>5. \A a \in A : Successors(a) \ {without} \subseteq A
  <2> HIDE DEF W, S
  <2> QED BY <1>2, <1>3
<1>6. ASSUME NEW T \in SUBSET W, S \subseteq T, \A a \in T : Successors(a) \ {without} \subseteq T
      PROVE  A \subseteq T
  <2>1. \A b \in T : Onward[b] \cap W \subseteq T
    <3> HIDE DEF W, S
    <3> QED BY <1>3, <1>6
  <2> HIDE DEF W, S
  <2> QED BY <1>2, <1>6, <2>1
<1> QED BY <1>2, <1>4, <1>5, <1>6

\* The exits are returned from; a block whose successor returns, does.
LEMMA ReturnFacts ==
    ASSUME CFInv, phase \notin {"edges", "traverse"}
    PROVE  /\ \A e \in FindExits : CanReturn(e)
           /\ \A a \in Nodes : \A b \in Successors(a) : CanReturn(b) => CanReturn(a)
           /\ \A b \in Nodes : \A T \in SUBSET Nodes :
                b \in T /\ T \cap FindExits = {} /\ (\A a \in T : Successors(a) \subseteq T) =>
                ~CanReturn(b)
<1> DEFINE R(b) == Closure({b}, Onward, Nodes)
<1>1. ASSUME NEW b \in Nodes
      PROVE  /\ b \in R(b) /\ R(b) \subseteq Nodes
             /\ \A a \in R(b) : Successors(a) \subseteq R(b)
             /\ \A T \in SUBSET Nodes :
                  b \in T /\ (\A a \in T : Successors(a) \subseteq T) => R(b) \subseteq T
  <2>1. IsFiniteSet(Nodes) /\ {b} \in SUBSET Nodes
    BY NodesFacts
  <2>2. /\ {b} \subseteq R(b) /\ R(b) \subseteq Nodes
        /\ \A a \in R(b) : Onward[a] \cap Nodes \subseteq R(b)
        /\ \A T \in SUBSET Nodes :
             ({b} \subseteq T /\ \A a \in T : Onward[a] \cap Nodes \subseteq T) => R(b) \subseteq T
    BY <2>1, ClosureLeast, ZenonT(60)
  <2>3. \A a \in Nodes : Onward[a] \cap Nodes = Successors(a)
    BY NodesFacts
  <2> HIDE DEF R
  <2> QED BY <2>2, <2>3
<1>2. \A b : CanReturn(b) <=> R(b) \cap FindExits # {}
  BY DEF CanReturn
<1>3. FindExits \subseteq Nodes
  BY DEF FindExits
<1> HIDE DEF R
<1>4. ASSUME NEW a \in Nodes, NEW b \in Successors(a) PROVE R(b) \subseteq R(a)
  <2>1. b \in Nodes /\ b \in R(a)
    BY <1>1, <1>4, NodesFacts
  <2> QED BY <1>1, <2>1
<1>5. \A a \in Nodes : \A b \in Successors(a) : CanReturn(b) => CanReturn(a)
  BY <1>2, <1>4
<1> QED BY <1>1, <1>2, <1>3, <1>5

\* The code's test, a walk backwards from all exits, is what it is meant to be.
LEMMA ExitTestExact ==
    ASSUME CFInv, phase \notin {"edges", "traverse"}, Nodes # {}
    PROVE  EveryReachableBlockCanReachAnExit <=> \A b \in Nodes : CanReturn(b)
<1> DEFINE B == Closure(FindExits, Backward, Nodes)
<1>1. IsFiniteSet(Nodes) /\ FindExits \in SUBSET Nodes
  BY NodesFacts DEF FindExits
<1>2. /\ FindExits \subseteq B /\ B \subseteq Nodes
      /\ \A b \in B : Backward[b] \cap Nodes \subseteq B
      /\ \A T \in SUBSET Nodes :
           (FindExits \subseteq T /\ \A b \in T : Backward[b] \cap Nodes \subseteq T) => B \subseteq T
  BY <1>1, ClosureLeast, ZenonT(60)
<1>3. \A b \in Nodes : Backward[b] \cap Nodes = Predecessors(b)
  BY NodesFacts
<1>4. EveryReachableBlockCanReachAnExit <=> FindExits # {} /\ B = Nodes
  BY DEF EveryReachableBlockCanReachAnExit
<1> HIDE DEF B
<1>5. ASSUME B = Nodes PROVE \A b \in Nodes : CanReturn(b)
  <2> DEFINE T == {b \in Nodes : CanReturn(b)}
  <2>1. FindExits \subseteq T
    BY <1>1, ReturnFacts
  <2>2. \A b \in T : Backward[b] \cap Nodes \subseteq T
    <3> SUFFICES ASSUME NEW b \in Nodes, CanReturn(b), NEW a \in Predecessors(b)
                 PROVE  a \in Nodes /\ CanReturn(a)
      BY <1>3
    <3>1. a \in Nodes /\ b \in Successors(a)
      BY NodesFacts
    <3> QED BY <3>1, ReturnFacts
  <2> HIDE DEF T
  <2>3. T \in SUBSET Nodes
    BY DEF T
  <2>4. B \subseteq T
    BY <1>2, <2>1, <2>2, <2>3
  <2> QED BY <1>5, <2>4 DEF T
<1>6. ASSUME \A b \in Nodes : CanReturn(b) PROVE FindExits # {} /\ B = Nodes
  <2> DEFINE T == Nodes \ B
  <2>1. T \cap FindExits = {}
    BY <1>2
  <2>2. ASSUME NEW a \in T, NEW b \in Successors(a) PROVE b \in T
    <3>1. a \in Nodes /\ b \in Nodes /\ a \in Predecessors(b)
      BY <2>2, NodesFacts
    <3>2. CASE b \in B
      <4>1. a \in B
        BY <1>2, <1>3, <3>1, <3>2
      <4> QED BY <2>2, <4>1
    <3> QED BY <3>1, <3>2
  <2> HIDE DEF T
  <2>3. T \in SUBSET Nodes
    BY DEF T
  <2>4. \A b \in T : ~CanReturn(b)
    BY <2>1, <2>2, <2>3, ReturnFacts
  <2>5. B = Nodes
    BY <1>2, <1>6, <2>3, <2>4 DEF T
  <2>6. CASE FindExits = {}
    <3>1. \A b \in Nodes : ~CanReturn(b)
      BY <2>6, ReturnFacts, NodesFacts
    <3> QED BY <1>6, <3>1
  <2> QED BY <2>5, <2>6
<1> QED BY <1>4, <1>5, <1>6, ReturnFacts

-----------------------------------------------------------------------------
(* The path definition and the equations. *)

\* The entry is dominated by itself only; a block that dominates another dominates what
\* leads to it.
LEMMA PathForward ==
    ASSUME CFInv, phase \notin {"edges", "traverse"}, Nodes # {}
    PROVE  /\ PathDominators(program.entry) = {program.entry}
           /\ \A b \in Nodes : PathDominators(b) \subseteq Nodes
           /\ \A b \in Nodes : \A p \in Predecessors(b) :
                PathDominators(b) \ {b} \subseteq PathDominators(p)
<1> DEFINE e == program.entry
<1>1. e \in Nodes
  BY NodesFacts
<1>2. \A d : /\ Avoiding(e, d) \subseteq Nodes \ {d}
             /\ e # d => e \in Avoiding(e, d)
             /\ \A a \in Avoiding(e, d) : Successors(a) \ {d} \subseteq Avoiding(e, d)
  BY <1>1, AvoidingLeast
<1>3. PathDominators(e) = {e}
  BY <1>1, <1>2 DEF PathDominators
<1>4. ASSUME NEW b \in Nodes, NEW p \in Predecessors(b), NEW d \in PathDominators(b) \ {b}
      PROVE  d \in PathDominators(p)
  <2>1. p \in Nodes /\ b \in Successors(p) /\ d \in Nodes /\ b \notin Avoiding(e, d)
    BY <1>4, NodesFacts DEF PathDominators
  <2>2. p \notin Avoiding(e, d)
    BY <1>2, <1>4, <2>1
  <2> QED BY <2>1, <2>2 DEF PathDominators
<1> QED BY <1>3, <1>4 DEF PathDominators

\* The same of the paths to the exits.
LEMMA PathBackward ==
    ASSUME CFInv, phase \notin {"edges", "traverse"}
    PROVE  /\ \A e \in FindExits : PathPostDominators(e) = {e}
           /\ \A b \in Nodes : PathPostDominators(b) \subseteq Nodes
           /\ \A b \in Nodes : \A c \in Successors(b) :
                PathPostDominators(b) \ {b} \subseteq PathPostDominators(c)
<1>1. \A b \in Nodes : \A d : /\ Avoiding(b, d) \subseteq Nodes \ {d}
                              /\ b # d => b \in Avoiding(b, d)
                              /\ \A a \in Avoiding(b, d) : Successors(a) \ {d} \subseteq Avoiding(b, d)
  BY AvoidingLeast
<1>2. ASSUME NEW e \in FindExits PROVE PathPostDominators(e) = {e}
  <2>1. e \in Nodes /\ Successors(e) = {}
    BY DEF FindExits
  <2>2. Avoiding(e, e) \subseteq {}
    <3>1. {} \in SUBSET (Nodes \ {e}) /\ {e} \ {e} \subseteq {}
      OBVIOUS
    <3> QED BY <2>1, <3>1, AvoidingLeast
  <2>3. \A d \in Nodes : d # e => e \in Avoiding(e, d)
    BY <1>1, <2>1
  <2> QED BY <2>1, <2>2, <2>3 DEF PathPostDominators
<1>3. ASSUME NEW b \in Nodes, NEW c \in Successors(b), NEW d \in PathPostDominators(b) \ {b}
      PROVE  d \in PathPostDominators(c)
  <2>1. c \in Nodes /\ d \in Nodes /\ Avoiding(b, d) \cap FindExits = {} /\ b \in Avoiding(b, d)
    BY <1>1, <1>3, NodesFacts DEF PathPostDominators
  <2>2. {c} \ {d} \subseteq Avoiding(b, d)
    BY <1>1, <1>3, <2>1
  <2>3. Avoiding(c, d) \subseteq Avoiding(b, d)
    <3>1. /\ Avoiding(b, d) \in SUBSET (Nodes \ {d})
          /\ \A a \in Avoiding(b, d) : Successors(a) \ {d} \subseteq Avoiding(b, d)
      BY <1>1
    <3> QED BY <2>1, <2>2, <3>1, AvoidingLeast
  <2> QED BY <2>1, <2>3 DEF PathPostDominators
<1> QED BY <1>2, <1>3 DEF PathPostDominators

\* What the path definition grants a block, its equation grants from sets above it.
LEMMA DominatingAbove ==
    ASSUME CFInv, phase \notin {"edges", "traverse"}, Nodes # {}, NEW b \in Nodes, NEW sets
    PROVE  /\ (/\ b # program.entry
               /\ \A p \in Predecessors(b) : PathDominators(p) \subseteq sets[p]) =>
                PathDominators(b) \subseteq Dominating(sets, Predecessors(b), b)
           /\ (/\ b \notin FindExits
               /\ \A c \in Successors(b) : PathPostDominators(c) \subseteq sets[c]) =>
                PathPostDominators(b) \subseteq Dominating(sets, Successors(b), b)
<1>1. ASSUME b # program.entry, \A p \in Predecessors(b) : PathDominators(p) \subseteq sets[p]
      PROVE  PathDominators(b) \subseteq Dominating(sets, Predecessors(b), b)
  <2>1. Predecessors(b) # {}
    BY <1>1, NodesFacts
  <2>2. /\ PathDominators(b) \subseteq Nodes
        /\ \A p \in Predecessors(b) : PathDominators(b) \ {b} \subseteq PathDominators(p)
    BY PathForward
  <2>3. \A d \in PathDominators(b) \ {b} : d \in Nodes /\ \A p \in Predecessors(b) : d \in sets[p]
    BY <1>1, <2>2
  <2>4. \A d \in PathDominators(b) \ {b} : d \in Dominating(sets, Predecessors(b), b)
    BY <2>1, <2>3 DEF Dominating
  <2>5. b \in Dominating(sets, Predecessors(b), b)
    BY DEF Dominating
  <2> QED BY <2>4, <2>5
<1>2. ASSUME b \notin FindExits, \A c \in Successors(b) : PathPostDominators(c) \subseteq sets[c]
      PROVE  PathPostDominators(b) \subseteq Dominating(sets, Successors(b), b)
  <2>1. Successors(b) # {}
    BY <1>2 DEF FindExits
  <2>2. /\ PathPostDominators(b) \subseteq Nodes
        /\ \A c \in Successors(b) : PathPostDominators(b) \ {b} \subseteq PathPostDominators(c)
    BY PathBackward
  <2>3. \A d \in PathPostDominators(b) \ {b} : d \in Nodes /\ \A c \in Successors(b) : d \in sets[c]
    BY <1>2, <2>2
  <2>4. \A d \in PathPostDominators(b) \ {b} : d \in Dominating(sets, Successors(b), b)
    BY <2>1, <2>3 DEF Dominating
  <2>5. b \in Dominating(sets, Successors(b), b)
    BY DEF Dominating
  <2> QED BY <2>4, <2>5
<1> QED BY <1>1, <1>2

\* A solution is never above the path definition: the blocks whose set lacks d hold what a
\* walk around d visits.
LEMMA ForwardSolution ==
    ASSUME CFInv, phase \notin {"edges", "traverse"}, Nodes # {},
           NEW sets \in [Nodes -> SUBSET Nodes], sets[program.entry] = {program.entry},
           \A b \in Nodes \ {program.entry} : sets[b] = Dominating(sets, Predecessors(b), b)
    PROVE  \A b \in Nodes : sets[b] \subseteq PathDominators(b)
<1> SUFFICES ASSUME NEW b \in Nodes, NEW d \in sets[b]
             PROVE  d \in Nodes /\ b \notin Avoiding(program.entry, d)
  BY DEF PathDominators
<1>1. program.entry \in Nodes /\ d \in Nodes
  BY NodesFacts
<1> DEFINE T == {x \in Nodes \ {d} : d \notin sets[x]}
<1>2. {program.entry} \ {d} \subseteq T
  BY <1>1
<1>3. ASSUME NEW a \in T, NEW c \in Successors(a) \ {d} PROVE c \in T
  <2>1. c \in Nodes /\ a \in Predecessors(c)
    BY NodesFacts
  <2>2. CASE c = program.entry
    BY <2>1, <2>2
  <2>3. CASE c # program.entry
    <3>1. sets[c] = Dominating(sets, Predecessors(c), c)
      BY <2>1, <2>3
    <3> QED BY <2>1, <3>1 DEF Dominating
  <2> QED BY <2>2, <2>3
<1>4. T \in SUBSET (Nodes \ {d}) /\ b \notin T
  OBVIOUS
<1> HIDE DEF T
<1>5. Avoiding(program.entry, d) \subseteq T
  BY <1>1, <1>2, <1>3, <1>4, AvoidingLeast
<1> QED BY <1>1, <1>4, <1>5

\* The same of the backward pass: a walk around d from a block whose set has d stays among
\* such blocks, and no exit but d is one.
LEMMA BackwardSolution ==
    ASSUME CFInv, phase \notin {"edges", "traverse"}, Nodes # {},
           NEW sets \in [Nodes -> SUBSET Nodes], \A e \in FindExits : sets[e] = {e},
           \A b \in Nodes \ FindExits : sets[b] = Dominating(sets, Successors(b), b)
    PROVE  \A b \in Nodes : sets[b] \subseteq PathPostDominators(b)
<1> SUFFICES ASSUME NEW b \in Nodes, NEW d \in sets[b]
             PROVE  d \in Nodes /\ Avoiding(b, d) \cap FindExits = {}
  BY DEF PathPostDominators
<1>1. d \in Nodes
  OBVIOUS
<1> DEFINE T == {x \in Nodes \ {d} : d \in sets[x]}
<1>2. {b} \ {d} \subseteq T
  OBVIOUS
<1>3. ASSUME NEW a \in T, NEW c \in Successors(a) \ {d} PROVE c \in T
  <2>1. c \in Nodes /\ a \in Nodes /\ a \notin FindExits
    BY NodesFacts DEF FindExits
  <2>2. sets[a] = Dominating(sets, Successors(a), a)
    BY <2>1
  <2> QED BY <2>1, <2>2 DEF Dominating
<1>4. T \in SUBSET (Nodes \ {d}) /\ T \cap FindExits = {}
  OBVIOUS
<1> HIDE DEF T
<1>5. Avoiding(b, d) \subseteq T
  BY <1>2, <1>3, <1>4, AvoidingLeast
<1> QED BY <1>1, <1>4, <1>5

-----------------------------------------------------------------------------
(* The steps. *)

\* The graph, its order and the paths in it do not change during the sweeps.
LEMMA DomStatic ==
    ASSUME UNCHANGED <<program, graphVars, walkVars>>
    PROVE  /\ program' = program /\ Nodes' = Nodes /\ FindExits' = FindExits
           /\ postorder' = postorder /\ ReversePostorder' = ReversePostorder
           /\ \A b : Successors(b)' = Successors(b) /\ Predecessors(b)' = Predecessors(b)
           /\ \A b : PathDominators(b)' = PathDominators(b)
           /\ \A b : PathPostDominators(b)' = PathPostDominators(b)
           /\ EveryReachableBlockCanReachAnExit' = EveryReachableBlockCanReachAnExit
           /\ \A X, inputs, b : Dominating(X, inputs, b)' = Dominating(X, inputs, b)
<1>1. /\ program' = program /\ discovered' = discovered
      /\ \A b : Successors(b)' = Successors(b) /\ Predecessors(b)' = Predecessors(b)
  BY GraphStatic
<1>2. postorder' = postorder /\ ReversePostorder' = ReversePostorder
  BY DEF walkVars, ReversePostorder
<1>3. Nodes' = Nodes /\ FindExits' = FindExits /\ Onward' = Onward /\ Backward' = Backward
  BY <1>1 DEF Nodes, FindExits, Onward, Backward
<1>4. \A from, without : Avoiding(from, without)' = Avoiding(from, without)
  BY <1>3 DEF Avoiding, Closure
<1>5. EveryReachableBlockCanReachAnExit' = EveryReachableBlockCanReachAnExit
  BY <1>3 DEF EveryReachableBlockCanReachAnExit, Closure
<1>6. \A b : /\ PathDominators(b)' = PathDominators(b)
             /\ PathPostDominators(b)' = PathPostDominators(b)
  BY <1>1, <1>3, <1>4 DEF PathDominators, PathPostDominators
<1>7. \A X, inputs, b : Dominating(X, inputs, b)' = Dominating(X, inputs, b)
  BY <1>3 DEF Dominating
<1> QED BY <1>1, <1>2, <1>3, <1>5, <1>6, <1>7

\* A step of the sweeps keeps the invariant of the walk.
LEMMA DomWalk ==
    ASSUME DomInv,
           BeginDominance \/ VisitForward \/ VisitBackward \/ SweepAgain
             \/ EndDominators \/ EndPostDominators
    PROVE  /\ CFInv' /\ CFInv /\ UNCHANGED <<program, graphVars, walkVars>>
           /\ phase \in {"analysed", "dominators", "postDominators"}
<1>1. /\ CFInv /\ UNCHANGED <<program, graphVars, walkVars>>
      /\ phase \in {"analysed", "dominators", "postDominators"}
      /\ phase' \in {"dominators", "postDominators", "structured"}
  BY DEF DomInv, BeginDominance, VisitForward, VisitBackward, SweepAgain, EndDominators,
         EndPostDominators
<1>2. stack = <<>> /\ phase # "edges" /\ phase' # "edges"
  BY <1>1 DEF CFInv
<1> QED BY <1>1, <1>2, PhaseStep

\* Everywhere but at the roots the passes start from all blocks.
LEMMA EverythingFacts ==
    ASSUME NEW roots
    PROVE  /\ Everything(roots) \in [Nodes -> SUBSET Nodes]
           /\ \A b \in Nodes : Everything(roots)[b] = IF b \in roots THEN {b} ELSE Nodes
BY DEF Everything

\* The order visits every block.
LEMMA OrderFacts ==
    ASSUME CFInv, phase \notin {"edges", "traverse"}
    PROVE  /\ Len(postorder) \in Nat /\ DOMAIN postorder = 1..Len(postorder)
           /\ DOMAIN ReversePostorder = 1..Len(postorder)
           /\ Len(ReversePostorder) = Len(postorder)
           /\ \A i \in 1..Len(postorder) : postorder[i] \in Nodes /\ ReversePostorder[i] \in Nodes
           /\ \A b \in Nodes : /\ \E i \in 1..Len(postorder) : postorder[i] = b
                               /\ \E i \in 1..Len(postorder) : ReversePostorder[i] = b
<1> DEFINE n == Len(postorder)
<1>1. postorder \in Seq(Nodes) /\ Nodes = Left
  BY NodesFacts
<1>2. n \in Nat /\ DOMAIN postorder = 1..n
  BY <1>1
<1>3. \A i \in 1..n : postorder[i] \in Nodes
  BY <1>1
<1>4. \A b \in Nodes : \E i \in 1..n : postorder[i] = b
  BY <1>1, <1>2 DEF Left
<1>5. /\ DOMAIN ReversePostorder = 1..n
      /\ \A i \in 1..n : ReversePostorder[i] = postorder[n + 1 - i]
  BY DEF ReversePostorder
<1> HIDE DEF n
<1>6. \A i \in 1..n : n + 1 - i \in 1..n /\ n + 1 - (n + 1 - i) = i
  BY <1>2
<1>7. \A i \in 1..n : ReversePostorder[i] \in Nodes
  BY <1>3, <1>5, <1>6
<1>8. \A b \in Nodes : \E i \in 1..n : ReversePostorder[i] = b
  BY <1>4, <1>5, <1>6
<1>9. Len(ReversePostorder) = n
  <2>1. ReversePostorder \in Seq(Nodes)
    <3>1. ReversePostorder \in [1..n -> Nodes]
      BY <1>5, <1>7 DEF ReversePostorder, n
    <3> QED BY <1>2, <3>1
  <2> QED BY <1>2, <1>5, <2>1
<1> QED BY <1>2, <1>3, <1>4, <1>5, <1>7, <1>8, <1>9 DEF n

\* The dominators are swept from the sets of all blocks.
LEMMA BeginDominanceStep ==
    ASSUME DomInv, BeginDominance
    PROVE  DomInv'
<1>1. CFInv' /\ CFInv /\ phase = "analysed" /\ UNCHANGED <<program, graphVars, walkVars>>
  BY DomWalk DEF BeginDominance
<1>2. /\ Nodes # {} /\ phase' = "dominators" /\ at' = 1 /\ changed' = FALSE
      /\ dominators' = Everything({program.entry}) /\ postDominators' = postDominators
      /\ postDominators = <<>>
  BY <1>1 DEF BeginDominance, DomInv, DomTypes, Backwards
<1>3. /\ program.entry \in Nodes
      /\ PathDominators(program.entry) = {program.entry}
      /\ \A b \in Nodes : PathDominators(b) \subseteq Nodes
  BY <1>1, <1>2, NodesFacts, PathForward
<1>4. /\ dominators' \in [Nodes -> SUBSET Nodes] /\ dominators'[program.entry] = {program.entry}
      /\ \A b \in Nodes : PathDominators(b) \subseteq dominators'[b]
  <2>1. /\ dominators' \in [Nodes -> SUBSET Nodes]
        /\ \A b \in Nodes : dominators'[b] = IF b \in {program.entry} THEN {b} ELSE Nodes
    BY <1>2, EverythingFacts
  <2> QED BY <1>3, <2>1
<1>5. /\ program' = program /\ Nodes' = Nodes
      /\ \A b : PathDominators(b)' = PathDominators(b)
      /\ DOMAIN ReversePostorder' = 1..Len(postorder)
  BY <1>1, DomStatic, OrderFacts
<1>6. DomTypes'
  <2>1. at' \in Nat /\ at' # 0 /\ changed' \in BOOLEAN /\ ~Backwards' /\ postDominators' = <<>>
    <3>1. at' \in Nat /\ at' # 0
      BY <1>2
    <3>2. changed' \in BOOLEAN
      BY <1>2, Zenon
    <3>3. phase' # "postDominators" /\ phase' # "structured" /\ postDominators' = <<>>
      BY <1>2
    <3> QED BY <3>1, <3>2, <3>3 DEF Backwards
  <2>2. Nodes' # {} /\ dominators' \in [Nodes' -> SUBSET Nodes']
    BY <1>2, <1>4, <1>5
  <2> QED BY <1>2, <2>1, <2>2 DEF DomTypes
<1>7. DomAbove'
  BY <1>2, <1>4, <1>5 DEF DomAbove, Backwards
<1>8. DomSolved'
  BY <1>2, <1>5 DEF DomSolved, Backwards
<1> QED BY <1>1, <1>6, <1>7, <1>8 DEF DomInv

\* One block of a forward sweep.
LEMMA VisitForwardStep ==
    ASSUME DomInv, VisitForward
    PROVE  DomInv'
<1>1. /\ CFInv' /\ CFInv /\ phase = "dominators" /\ UNCHANGED <<program, graphVars, walkVars>>
      /\ at \in Nat /\ at <= Len(ReversePostorder) /\ at' = at + 1
      /\ phase' = phase /\ postDominators' = postDominators /\ changed \in BOOLEAN
  BY DomWalk DEF VisitForward, DomInv, DomTypes
<1>2. /\ Nodes # {} /\ dominators \in [Nodes -> SUBSET Nodes] /\ postDominators = <<>>
      /\ dominators[program.entry] = {program.entry}
      /\ \A b \in Nodes : PathDominators(b) \subseteq dominators[b]
  BY <1>1 DEF DomInv, DomTypes, DomAbove, Forward, Backwards
<1>3. PICK b : b = ReversePostorder[at]
  OBVIOUS
<1>4. PICK N : N = IF b = program.entry THEN dominators[b]
                   ELSE Dominating(dominators, Predecessors(b), b)
  OBVIOUS
<1>5. /\ dominators' = [dominators EXCEPT ![b] = N]
      /\ changed' = (changed \/ N # dominators[b])
  BY <1>3, <1>4 DEF VisitForward

<1>6. b \in Nodes /\ program.entry \in Nodes /\ N \in SUBSET Nodes /\ PathDominators(b) \subseteq N
  <2>1. at \in 1..Len(postorder)
    BY <1>1, OrderFacts DEF DomInv, DomTypes
  <2>2. b \in Nodes /\ program.entry \in Nodes
    BY <1>1, <1>2, <1>3, <2>1, OrderFacts, NodesFacts
  <2>3. CASE b = program.entry
    BY <1>2, <1>4, <2>2, <2>3
  <2>4. CASE b # program.entry
    <3>1. N = Dominating(dominators, Predecessors(b), b)
      BY <1>4, <2>4
    <3>2. \A p \in Predecessors(b) : PathDominators(p) \subseteq dominators[p]
      BY <1>1, <1>2, <2>2, NodesFacts
    <3>3. PathDominators(b) \subseteq N
      BY <1>1, <1>2, <2>2, <2>4, <3>1, <3>2, DominatingAbove
    <3> QED BY <2>2, <3>1, <3>3 DEF Dominating
  <2> QED BY <2>3, <2>4
<1>7. /\ dominators' \in [Nodes -> SUBSET Nodes] /\ dominators'[program.entry] = {program.entry}
      /\ \A c \in Nodes : PathDominators(c) \subseteq dominators'[c]
  BY <1>2, <1>4, <1>5, <1>6
<1>8. /\ program' = program /\ Nodes' = Nodes /\ ReversePostorder' = ReversePostorder
      /\ \A c : PathDominators(c)' = PathDominators(c)
      /\ \A c : Predecessors(c)' = Predecessors(c)
      /\ \A X, inputs, c : Dominating(X, inputs, c)' = Dominating(X, inputs, c)
  BY <1>1, DomStatic
<1>9. DomTypes'
  BY <1>1, <1>2, <1>5, <1>7, <1>8 DEF DomTypes, Forward, Backwards
<1>10. DomAbove'
  BY <1>1, <1>7, <1>8 DEF DomAbove, Backwards
<1>11. DomSolved'
  <2>1. SUFFICES ASSUME ~changed', NEW i \in DOMAIN ReversePostorder, i < at + 1
                 PROVE  ForwardSolved(ReversePostorder[i])'
    BY <1>1, <1>8 DEF DomSolved, Backwards
  <2>2. ~changed /\ N = dominators[b] /\ dominators' = dominators
    BY <1>2, <1>5, <1>6, <2>1
  <2>3. ForwardSolved(ReversePostorder[i])
    <3>1. CASE i < at
      BY <1>1, <2>1, <2>2, <3>1 DEF DomInv, DomSolved
    <3>2. CASE i = at
      BY <1>3, <1>4, <2>2, <3>2 DEF ForwardSolved
    <3>3. i \in Nat
      BY <1>1, <2>1, OrderFacts
    <3> QED BY <1>1, <2>1, <3>1, <3>2, <3>3
  <2>4. Dominating(dominators, Predecessors(ReversePostorder[i]), ReversePostorder[i])'
          = Dominating(dominators, Predecessors(ReversePostorder[i]), ReversePostorder[i])
    BY <1>8, <2>2 DEF Dominating
  <2> QED BY <1>8, <2>2, <2>3, <2>4 DEF ForwardSolved
<1> QED BY <1>1, <1>9, <1>10, <1>11 DEF DomInv

\* One block of a backward sweep.
LEMMA VisitBackwardStep ==
    ASSUME DomInv, VisitBackward
    PROVE  DomInv'
<1>1. /\ CFInv' /\ CFInv /\ phase = "postDominators" /\ UNCHANGED <<program, graphVars, walkVars>>
      /\ at \in Nat /\ at <= Len(postorder) /\ at' = at + 1
      /\ phase' = phase /\ dominators' = dominators /\ changed \in BOOLEAN
  BY DomWalk DEF VisitBackward, DomInv, DomTypes
<1>2. /\ Nodes # {} /\ postDominators \in [Nodes -> SUBSET Nodes]
      /\ \A e \in FindExits : postDominators[e] = {e}
      /\ \A b \in Nodes : PathPostDominators(b) \subseteq postDominators[b]
  BY <1>1 DEF DomInv, DomTypes, DomAbove, Forward, Backwards
<1>3. PICK b : b = postorder[at]
  OBVIOUS
<1>4. PICK N : N = IF b \in FindExits THEN postDominators[b]
                   ELSE Dominating(postDominators, Successors(b), b)
  OBVIOUS
<1>5. /\ postDominators' = [postDominators EXCEPT ![b] = N]
      /\ changed' = (changed \/ N # postDominators[b])
  BY <1>3, <1>4 DEF VisitBackward
<1>6. b \in Nodes /\ FindExits \subseteq Nodes /\ N \in SUBSET Nodes /\ PathPostDominators(b) \subseteq N
  <2>1. at \in 1..Len(postorder)
    BY <1>1, OrderFacts DEF DomInv, DomTypes
  <2>2. b \in Nodes /\ FindExits \subseteq Nodes
    BY <1>1, <1>3, <2>1, OrderFacts DEF FindExits
  <2>3. CASE b \in FindExits
    BY <1>2, <1>4, <2>2, <2>3
  <2>4. CASE b \notin FindExits
    <3>1. N = Dominating(postDominators, Successors(b), b)
      BY <1>4, <2>4
    <3>2. \A c \in Successors(b) : PathPostDominators(c) \subseteq postDominators[c]
      BY <1>1, <1>2, <2>2, NodesFacts
    <3>3. PathPostDominators(b) \subseteq N
      BY <1>1, <1>2, <2>2, <2>4, <3>1, <3>2, DominatingAbove
    <3> QED BY <2>2, <3>1, <3>3 DEF Dominating
  <2> QED BY <2>3, <2>4
<1>7. /\ postDominators' \in [Nodes -> SUBSET Nodes]
      /\ \A e \in FindExits : postDominators'[e] = {e}
      /\ \A c \in Nodes : PathPostDominators(c) \subseteq postDominators'[c]
  BY <1>2, <1>4, <1>5, <1>6
<1>8. /\ program' = program /\ Nodes' = Nodes /\ postorder' = postorder /\ FindExits' = FindExits
      /\ \A c : PathDominators(c)' = PathDominators(c)
      /\ \A c : PathPostDominators(c)' = PathPostDominators(c)
      /\ \A c : Predecessors(c)' = Predecessors(c) /\ Successors(c)' = Successors(c)
      /\ \A X, inputs, c : Dominating(X, inputs, c)' = Dominating(X, inputs, c)
      /\ EveryReachableBlockCanReachAnExit' = EveryReachableBlockCanReachAnExit
  BY <1>1, DomStatic
<1>9. DomTypes'
  BY <1>1, <1>2, <1>5, <1>7, <1>8 DEF DomInv, DomTypes, Forward, Backwards
<1>10. DomAbove'
  BY <1>1, <1>7, <1>8 DEF DomInv, DomAbove, Forward
<1>11. \A c \in Nodes : ForwardSolved(c)'
  <2>1. \A c \in Nodes : ForwardSolved(c)
    BY <1>1 DEF DomInv, DomSolved
  <2>2. \A c : Dominating(dominators, Predecessors(c), c)'
                 = Dominating(dominators, Predecessors(c), c)
    BY <1>1, <1>8 DEF Dominating
  <2> QED BY <1>1, <1>8, <2>1, <2>2 DEF ForwardSolved
<1>12. DomSolved'
  <2>1. SUFFICES ASSUME ~changed', NEW i \in DOMAIN postorder, i < at + 1
                 PROVE  BackwardSolved(postorder[i])'
    BY <1>1, <1>8, <1>11 DEF DomSolved, Backwards
  <2>2. ~changed /\ N = postDominators[b] /\ postDominators' = postDominators
    BY <1>2, <1>5, <1>6, <2>1
  <2>3. BackwardSolved(postorder[i])
    <3>1. CASE i < at
      BY <1>1, <2>1, <2>2, <3>1 DEF DomInv, DomSolved
    <3>2. CASE i = at
      BY <1>3, <1>4, <2>2, <3>2 DEF BackwardSolved
    <3>3. i \in Nat
      BY <1>1, <2>1, OrderFacts
    <3> QED BY <1>1, <2>1, <3>1, <3>2, <3>3
  <2>4. Dominating(postDominators, Successors(postorder[i]), postorder[i])'
          = Dominating(postDominators, Successors(postorder[i]), postorder[i])
    BY <1>8, <2>2 DEF Dominating
  <2> QED BY <1>8, <2>2, <2>3, <2>4 DEF BackwardSolved
<1> QED BY <1>1, <1>9, <1>10, <1>12 DEF DomInv

\* A sweep that changed a set is followed by another.
LEMMA SweepAgainStep ==
    ASSUME DomInv, SweepAgain
    PROVE  DomInv'
<1>1. /\ CFInv' /\ CFInv /\ UNCHANGED <<program, graphVars, walkVars>>
      /\ phase \in {"dominators", "postDominators"} /\ phase' = phase
      /\ dominators' = dominators /\ postDominators' = postDominators
      /\ at' = 1
  BY DomWalk DEF SweepAgain
<1>2. /\ program' = program /\ Nodes' = Nodes /\ FindExits' = FindExits
      /\ ReversePostorder' = ReversePostorder /\ postorder' = postorder
      /\ \A c : PathDominators(c)' = PathDominators(c)
      /\ \A c : PathPostDominators(c)' = PathPostDominators(c)
      /\ \A c : Predecessors(c)' = Predecessors(c)
      /\ EveryReachableBlockCanReachAnExit' = EveryReachableBlockCanReachAnExit
      /\ \A X, inputs, c : Dominating(X, inputs, c)' = Dominating(X, inputs, c)
      /\ DOMAIN ReversePostorder = 1..Len(postorder) /\ DOMAIN postorder = 1..Len(postorder)
  BY <1>1, DomStatic, OrderFacts
<1>3. at' \in Nat /\ at' # 0 /\ \A i \in 1..Len(postorder) : ~(i < at')
  BY <1>1
<1>4. changed' \in BOOLEAN
  BY Zenon DEF SweepAgain
<1>5. Backwards' <=> Backwards
  BY <1>1 DEF Backwards
<1>6. DomTypes'
  BY <1>1, <1>2, <1>3, <1>4, <1>5 DEF DomInv, DomTypes, Forward
<1>7. DomAbove'
  BY <1>1, <1>2, <1>5 DEF DomInv, DomAbove, Forward
<1>8. DomSolved'
  <2>1. ASSUME phase = "postDominators" PROVE \A c \in Nodes : ForwardSolved(c)'
    <3>1. \A c \in Nodes : ForwardSolved(c)
      BY <2>1 DEF DomInv, DomSolved
    <3>2. \A c : Dominating(dominators, Predecessors(c), c)'
                   = Dominating(dominators, Predecessors(c), c)
      BY <1>1, <1>2 DEF Dominating
    <3> QED BY <1>1, <1>2, <3>1, <3>2 DEF ForwardSolved
  <2> QED BY <1>1, <1>2, <1>3, <2>1 DEF DomSolved
<1> QED BY <1>1, <1>6, <1>7, <1>8 DEF DomInv

\* The dominators are solved.  The other pass is begun if every block can return.
LEMMA EndDominatorsStep ==
    ASSUME DomInv, EndDominators
    PROVE  DomInv'
<1>1. /\ CFInv' /\ CFInv /\ UNCHANGED <<program, graphVars, walkVars>>
      /\ phase = "dominators" /\ at > Len(postorder) /\ ~changed
      /\ dominators' = dominators /\ at' = 1 /\ changed' = changed
      /\ changed \in BOOLEAN
  BY DomWalk DEF EndDominators, DomInv, DomTypes
<1>2. /\ program' = program /\ Nodes' = Nodes /\ FindExits' = FindExits
      /\ postorder' = postorder
      /\ \A c : PathDominators(c)' = PathDominators(c)
      /\ \A c : PathPostDominators(c)' = PathPostDominators(c)
      /\ \A c : Predecessors(c)' = Predecessors(c)
      /\ EveryReachableBlockCanReachAnExit' = EveryReachableBlockCanReachAnExit
      /\ \A X, inputs, c : Dominating(X, inputs, c)' = Dominating(X, inputs, c)
  BY <1>1, DomStatic
<1>3. /\ postDominators = <<>> /\ Nodes # {}
      /\ dominators \in [Nodes -> SUBSET Nodes]
      /\ dominators[program.entry] = {program.entry}
      /\ \A b \in Nodes : PathDominators(b) \subseteq dominators[b]
  BY <1>1 DEF DomInv, DomTypes, DomAbove, Forward, Backwards
<1>4. \A c \in Nodes : ForwardSolved(c)'
  <2>1. \A i \in 1..Len(postorder) : ForwardSolved(ReversePostorder[i])
    <3>1. /\ DOMAIN ReversePostorder = 1..Len(postorder) /\ Len(postorder) \in Nat
          /\ \A i \in DOMAIN ReversePostorder : i < at => ForwardSolved(ReversePostorder[i])
          /\ at \in Nat
      BY <1>1, OrderFacts DEF DomInv, DomSolved, DomTypes
    <3> QED BY <1>1, <3>1
  <2>2. \A c \in Nodes : ForwardSolved(c)
    BY <1>1, <2>1, OrderFacts
  <2>3. \A c : Dominating(dominators, Predecessors(c), c)'
                 = Dominating(dominators, Predecessors(c), c)
    BY <1>1, <1>2 DEF Dominating
  <2> QED BY <1>1, <1>2, <2>2, <2>3 DEF ForwardSolved
<1>5. at' \in Nat /\ at' # 0 /\ \A i \in 1..Len(postorder) : ~(i < at')
  BY <1>1
<1>6. CASE EveryReachableBlockCanReachAnExit
  <2>1. phase' = "postDominators" /\ postDominators' = Everything(FindExits)
    BY <1>6 DEF EndDominators
  <2>2. /\ FindExits \subseteq Nodes /\ \A e \in FindExits : PathPostDominators(e) = {e}
        /\ \A b \in Nodes : PathPostDominators(b) \subseteq Nodes
    BY <1>1, PathBackward DEF FindExits
  <2>3. /\ postDominators' \in [Nodes -> SUBSET Nodes]
        /\ \A b \in Nodes : postDominators'[b] = IF b \in FindExits THEN {b} ELSE Nodes
    BY <2>1, EverythingFacts
  <2>4. /\ \A e \in FindExits : postDominators'[e] = {e}
        /\ \A b \in Nodes : PathPostDominators(b) \subseteq postDominators'[b]
    BY <2>2, <2>3
  <2>5. Backwards'
    BY <2>1 DEF Backwards
  <2>6. DomTypes'
    BY <1>1, <1>2, <1>3, <1>5, <1>6, <2>1, <2>3, <2>5 DEF DomTypes
  <2>7. DomAbove'
    BY <1>1, <1>2, <1>3, <2>4 DEF DomAbove
  <2>8. DomSolved'
    <3>1. DOMAIN postorder = 1..Len(postorder)
      BY <1>1, OrderFacts
    <3> QED BY <1>2, <1>4, <1>5, <2>1, <3>1 DEF DomSolved
  <2> QED BY <1>1, <2>6, <2>7, <2>8 DEF DomInv
<1>7. CASE ~EveryReachableBlockCanReachAnExit
  <2>1. phase' = "structured" /\ postDominators' = <<>>
    BY <1>3, <1>7 DEF EndDominators
  <2>2. ~Backwards'
    BY <2>1 DEF Backwards
  <2>3. DomTypes'
    BY <1>1, <1>2, <1>3, <1>5, <1>7, <2>1, <2>2 DEF DomTypes
  <2>4. DomAbove'
    BY <1>1, <1>2, <1>3, <2>2 DEF DomAbove
  <2>5. DomSolved'
    BY <1>2, <1>4, <2>1, <2>2 DEF DomSolved
  <2> QED BY <1>1, <2>3, <2>4, <2>5 DEF DomInv
<1> QED BY <1>6, <1>7

\* The post-dominators are solved.
LEMMA EndPostDominatorsStep ==
    ASSUME DomInv, EndPostDominators
    PROVE  DomInv'
<1>1. /\ CFInv' /\ CFInv /\ UNCHANGED <<program, graphVars, walkVars>>
      /\ phase = "postDominators" /\ phase' = "structured" /\ at > Len(postorder) /\ ~changed
      /\ dominators' = dominators /\ postDominators' = postDominators
      /\ at' = at /\ changed' = changed
  BY DomWalk DEF EndPostDominators, domVars
<1>2. /\ program' = program /\ Nodes' = Nodes /\ FindExits' = FindExits
      /\ postorder' = postorder
      /\ \A c : PathDominators(c)' = PathDominators(c)
      /\ \A c : PathPostDominators(c)' = PathPostDominators(c)
      /\ \A c : Predecessors(c)' = Predecessors(c) /\ Successors(c)' = Successors(c)
      /\ EveryReachableBlockCanReachAnExit' = EveryReachableBlockCanReachAnExit
      /\ \A X, inputs, c : Dominating(X, inputs, c)' = Dominating(X, inputs, c)
  BY <1>1, DomStatic
<1>3. Backwards /\ Backwards'
  <2>1. Backwards
    BY <1>1 DEF Backwards
  <2>2. Nodes # {} /\ postDominators \in [Nodes -> SUBSET Nodes]
    BY <1>1, <2>1 DEF DomInv, DomTypes, Forward
  <2>3. postDominators # <<>>
    BY <2>2
  <2> QED BY <1>1, <2>1, <2>3 DEF Backwards
<1>4. \A c \in Nodes : ForwardSolved(c)' /\ BackwardSolved(c)'
  <2>1. \A i \in 1..Len(postorder) : BackwardSolved(postorder[i])
    <3>1. /\ DOMAIN postorder = 1..Len(postorder) /\ Len(postorder) \in Nat
          /\ \A i \in DOMAIN postorder : i < at => BackwardSolved(postorder[i])
          /\ at \in Nat
      BY <1>1, OrderFacts DEF DomInv, DomSolved, DomTypes
    <3> QED BY <1>1, <3>1
  <2>2. \A c \in Nodes : ForwardSolved(c) /\ BackwardSolved(c)
    BY <1>1, <2>1, OrderFacts DEF DomInv, DomSolved
  <2>3. \A c : /\ Dominating(dominators, Predecessors(c), c)'
                    = Dominating(dominators, Predecessors(c), c)
               /\ Dominating(postDominators, Successors(c), c)'
                    = Dominating(postDominators, Successors(c), c)
    BY <1>1, <1>2 DEF Dominating
  <2> QED BY <1>1, <1>2, <2>2, <2>3 DEF ForwardSolved, BackwardSolved
<1>5. DomTypes'
  BY <1>1, <1>2, <1>3 DEF DomInv, DomTypes, Forward
<1>6. DomAbove'
  BY <1>1, <1>2, <1>3 DEF DomInv, DomAbove, Forward
<1>7. DomSolved'
  BY <1>1, <1>2, <1>4 DEF DomSolved
<1> QED BY <1>1, <1>5, <1>6, <1>7 DEF DomInv

\* The walk comes before all this.
LEMMA WalkDomStep ==
    ASSUME DomInv, CFNext, UNCHANGED domVars
    PROVE  DomInv'
<1>1. CFInv /\ CFInv'
  BY CFNextInv DEF DomInv
<1>2. phase \in {"edges", "traverse"} /\ phase' \in {"edges", "traverse", "analysed"}
  BY DEF CFNext, ReadTarget, NextRecord, ReadsRecord, BeginTraverse, Follow, Leave, EndTraverse
<1>3. at' = at /\ changed' = changed /\ postDominators' = postDominators
  BY DEF domVars
<1>4. ~Forward' /\ ~Backwards' /\ ~Backwards
  BY <1>2 DEF Forward, Backwards
<1>5. DomTypes'
  BY <1>2, <1>3, <1>4 DEF DomInv, DomTypes
<1>6. DomAbove' /\ DomSolved'
  BY <1>2, <1>4 DEF DomAbove, DomSolved
<1> QED BY <1>1, <1>5, <1>6 DEF DomInv

\* A step that changes nothing.
LEMMA DomStutter ==
    ASSUME DomInv, UNCHANGED domAll
    PROVE  DomInv'
<1>1. /\ UNCHANGED cfVars /\ UNCHANGED <<program, graphVars, walkVars>> /\ phase' = phase
      /\ dominators' = dominators /\ postDominators' = postDominators
      /\ at' = at /\ changed' = changed
  BY DEF domAll, cfVars, domVars
<1>2. CFInv'
  BY <1>1, CFStutterInv DEF DomInv
<1>3. /\ program' = program /\ Nodes' = Nodes /\ FindExits' = FindExits
      /\ postorder' = postorder /\ ReversePostorder' = ReversePostorder
      /\ \A c : PathDominators(c)' = PathDominators(c)
      /\ \A c : PathPostDominators(c)' = PathPostDominators(c)
      /\ \A c : Predecessors(c)' = Predecessors(c) /\ Successors(c)' = Successors(c)
      /\ EveryReachableBlockCanReachAnExit' = EveryReachableBlockCanReachAnExit
      /\ \A X, inputs, c : Dominating(X, inputs, c)' = Dominating(X, inputs, c)
  BY <1>1, DomStatic
<1>4. \A c : (ForwardSolved(c)' <=> ForwardSolved(c)) /\ (BackwardSolved(c)' <=> BackwardSolved(c))
  <2>1. \A c : /\ Dominating(dominators, Predecessors(c), c)'
                    = Dominating(dominators, Predecessors(c), c)
               /\ Dominating(postDominators, Successors(c), c)'
                    = Dominating(postDominators, Successors(c), c)
    BY <1>1, <1>3 DEF Dominating
  <2> QED BY <1>1, <1>3, <2>1 DEF ForwardSolved, BackwardSolved
<1>5. (Forward' <=> Forward) /\ (Backwards' <=> Backwards)
  BY <1>1 DEF Forward, Backwards
<1>6. DomTypes'
  BY <1>1, <1>3, <1>5 DEF DomInv, DomTypes
<1>7. DomAbove'
  BY <1>1, <1>3, <1>5 DEF DomInv, DomAbove
<1>8. DomSolved'
  <2>1. /\ \A i : ForwardSolved(ReversePostorder[i])' <=> ForwardSolved(ReversePostorder[i])
        /\ \A i : BackwardSolved(postorder[i])' <=> BackwardSolved(postorder[i])
    <3>1. \A i : Dominating(dominators, Predecessors(ReversePostorder[i]), ReversePostorder[i])'
                   = Dominating(dominators, Predecessors(ReversePostorder[i]), ReversePostorder[i])
      BY <1>1, <1>3 DEF Dominating
    <3>2. \A i : Dominating(postDominators, Successors(postorder[i]), postorder[i])'
                   = Dominating(postDominators, Successors(postorder[i]), postorder[i])
      BY <1>1, <1>3 DEF Dominating
    <3> QED BY <1>1, <1>3, <3>1, <3>2 DEF ForwardSolved, BackwardSolved
  <2> QED BY <1>1, <1>3, <1>4, <1>5, <2>1 DEF DomInv, DomSolved
<1> QED BY <1>2, <1>6, <1>7, <1>8 DEF DomInv

\* The inductive invariant, for every function.
THEOREM DomInvariance == DomSpec => []DomInv
<1>1. DomInit => DomInv
  <2> SUFFICES ASSUME DomInit PROVE DomInv
    OBVIOUS
  <2>1. CFInv /\ phase = "edges" /\ at = 0 /\ changed = FALSE /\ postDominators = <<>>
    BY CFInitInv DEF DomInit, CFInit
  <2>2. at \in Nat /\ ~Forward /\ ~Backwards
    BY <2>1 DEF Forward, Backwards
  <2>3. changed \in BOOLEAN
    BY <2>1, Zenon
  <2> QED BY <2>1, <2>2, <2>3 DEF DomInv, DomTypes, DomAbove, DomSolved
<1>2. DomInv /\ [DomNext]_domAll => DomInv'
  BY WalkDomStep, BeginDominanceStep, VisitForwardStep, VisitBackwardStep, SweepAgainStep,
     EndDominatorsStep, EndPostDominatorsStep, DomStutter
     DEF DomNext
<1> QED BY <1>1, <1>2, PTL DEF DomSpec

\* Dominance and post-dominance are what paths say, in every function, and post-dominance
\* is claimed exactly when every block can return: a sweep that changes nothing leaves a
\* solution of the equations, and the only solution above the path definition is it.
THEOREM DominatorsExactHolds == DomSpec => []DominatorsExact
<1>1. DomInv => DominatorsExact
  <2> SUFFICES ASSUME DomInv, phase = "structured"
               PROVE  /\ \A b \in Nodes : dominators[b] = PathDominators(b)
                      /\ hasPostDominance <=> \A b \in Nodes : CanReturn(b)
                      /\ hasPostDominance =>
                           \A b \in Nodes : postDominators[b] = PathPostDominators(b)
    BY DEF DominatorsExact
  <2>1. /\ CFInv /\ Nodes # {} /\ dominators \in [Nodes -> SUBSET Nodes]
        /\ dominators[program.entry] = {program.entry}
        /\ \A b \in Nodes : PathDominators(b) \subseteq dominators[b] /\ ForwardSolved(b)
        /\ Backwards <=> EveryReachableBlockCanReachAnExit
    BY DEF DomInv, DomTypes, DomAbove, DomSolved, Forward
  <2>2. hasPostDominance <=> Backwards
    BY DEF hasPostDominance, Backwards
  <2>3. \A b \in Nodes : dominators[b] \subseteq PathDominators(b)
    <3>1. \A b \in Nodes \ {program.entry} :
            dominators[b] = Dominating(dominators, Predecessors(b), b)
      BY <2>1 DEF ForwardSolved
    <3> QED BY <2>1, <3>1, ForwardSolution
  <2>4. ASSUME Backwards PROVE \A b \in Nodes : postDominators[b] = PathPostDominators(b)
    <3>1. /\ postDominators \in [Nodes -> SUBSET Nodes]
          /\ \A e \in FindExits : postDominators[e] = {e}
          /\ \A b \in Nodes : PathPostDominators(b) \subseteq postDominators[b] /\ BackwardSolved(b)
      BY <2>4 DEF DomInv, DomTypes, DomAbove, DomSolved
    <3>2. \A b \in Nodes \ FindExits :
            postDominators[b] = Dominating(postDominators, Successors(b), b)
      BY <3>1 DEF BackwardSolved
    <3>3. \A b \in Nodes : postDominators[b] \subseteq PathPostDominators(b)
      BY <2>1, <3>1, <3>2, BackwardSolution
    <3> QED BY <3>1, <3>3
  <2>5. hasPostDominance <=> \A b \in Nodes : CanReturn(b)
    BY <2>1, <2>2, ExitTestExact
  <2>6. ASSUME NEW b \in Nodes PROVE dominators[b] = PathDominators(b)
    <3>1. dominators[b] \subseteq PathDominators(b) /\ PathDominators(b) \subseteq dominators[b]
      BY <2>1, <2>3
    <3> QED BY <3>1
  <2> QED BY <2>2, <2>4, <2>5, <2>6
<1> QED BY <1>1, DomInvariance, PTL

-----------------------------------------------------------------------------
(* The order of dominance, in either direction.                            *)

\* What makes sets of blocks dominance from some roots along some edges: a block that
\* dominates another dominates what leads to it; a set that is entered through one of its
\* blocks only is dominated by it; and every block is led to.
DominanceSets(sets, roots, inputs) ==
    /\ sets \in [Nodes -> SUBSET Nodes]
    /\ \A b \in Nodes : b \in sets[b] /\ inputs[b] \subseteq Nodes
    /\ \A b \in Nodes : \A d \in sets[b] \ {b} :
         b \notin roots /\ \A p \in inputs[b] : d \in sets[p]
    /\ \A d \in Nodes : \A U \in SUBSET Nodes :
         (\A b \in U \ {d} : b \notin roots /\ inputs[b] \subseteq U) => \A b \in U : d \in sets[b]
    /\ \A U \in SUBSET Nodes : (\A b \in U : b \notin roots /\ inputs[b] \subseteq U) => U = {}

\* Dominance is an order ...
LEMMA DominanceTransitive ==
    ASSUME NEW sets, NEW roots, NEW inputs, DominanceSets(sets, roots, inputs)
    PROVE  \A b \in Nodes : \A c \in sets[b] : sets[c] \subseteq sets[b]
<1> SUFFICES ASSUME NEW b \in Nodes, NEW c \in sets[b], NEW d \in sets[c]
             PROVE  d \in sets[b]
  OBVIOUS
<1>1. c \in Nodes /\ d \in Nodes
  BY DEF DominanceSets
<1> DEFINE U == {x \in Nodes : c \in sets[x] \/ d \in sets[x]}
<1>2. ASSUME NEW x \in U \ {d} PROVE x \notin roots /\ inputs[x] \subseteq U
  <2>1. x \in Nodes /\ inputs[x] \subseteq Nodes
    BY DEF DominanceSets
  <2>2. CASE d \in sets[x]
    BY <1>2, <2>1, <2>2 DEF DominanceSets
  <2>3. CASE c \in sets[x] /\ x # c
    BY <1>2, <2>1, <2>3 DEF DominanceSets
  <2> QED BY <1>2, <2>2, <2>3
<1>3. b \in U /\ U \in SUBSET Nodes
  OBVIOUS
<1> HIDE DEF U
<1> QED BY <1>1, <1>2, <1>3 DEF DominanceSets

\* ... in which no two blocks dominate each other ...
LEMMA DominanceAntisymmetric ==
    ASSUME NEW sets, NEW roots, NEW inputs, DominanceSets(sets, roots, inputs)
    PROVE  \A b \in Nodes : \A c \in sets[b] : b \in sets[c] => b = c
<1> SUFFICES ASSUME NEW b \in Nodes, NEW c \in sets[b], b \in sets[c], b # c
             PROVE  FALSE
  OBVIOUS
<1>1. c \in Nodes
  BY DEF DominanceSets
<1> DEFINE U == {x \in Nodes : c \in sets[x]}
<1>2. \A x \in Nodes : b \in sets[x] <=> c \in sets[x]
  BY <1>1, DominanceTransitive DEF DominanceSets
<1>3. ASSUME NEW x \in U PROVE x \notin roots /\ inputs[x] \subseteq U
  <2>1. x \in Nodes /\ inputs[x] \subseteq Nodes /\ c \in sets[x] /\ b \in sets[x]
    BY <1>2, <1>3 DEF DominanceSets
  <2>2. CASE x # c
    BY <2>1, <2>2 DEF DominanceSets
  <2>3. CASE x # b
    <3>1. x \notin roots /\ \A p \in inputs[x] : b \in sets[p]
      BY <2>1, <2>3 DEF DominanceSets
    <3> QED BY <1>2, <2>1, <3>1
  <2> QED BY <2>2, <2>3
<1>4. b \in U /\ U \in SUBSET Nodes
  OBVIOUS
<1> HIDE DEF U
<1> QED BY <1>3, <1>4 DEF DominanceSets

\* ... and the dominators of one block are a chain.
LEMMA DominanceLinear ==
    ASSUME NEW sets, NEW roots, NEW inputs, DominanceSets(sets, roots, inputs)
    PROVE  \A b \in Nodes : \A c, d \in sets[b] : c \in sets[d] \/ d \in sets[c]
<1> SUFFICES ASSUME NEW b \in Nodes, NEW c \in sets[b], NEW d \in sets[b],
                    c \notin sets[d], d \notin sets[c]
             PROVE  FALSE
  OBVIOUS
<1> DEFINE U == {x \in Nodes : c \in sets[x] /\ d \in sets[x]}
<1>1. ASSUME NEW x \in U PROVE x \notin roots /\ inputs[x] \subseteq U
  <2>1. x \in Nodes /\ inputs[x] \subseteq Nodes /\ x # c /\ x # d
    BY <1>1 DEF DominanceSets
  <2> QED BY <1>1, <2>1 DEF DominanceSets
<1>2. b \in U /\ U \in SUBSET Nodes
  OBVIOUS
<1> HIDE DEF U
<1> QED BY <1>1, <1>2 DEF DominanceSets

\* Of some blocks one has the fewest of something.
LEMMA Fewest ==
    ASSUME NEW S, S # {}, NEW f, \A x \in S : f[x] \in Nat
    PROVE  \E x \in S : \A y \in S : f[x] <= f[y]
<1>1. {f[x] : x \in S} \subseteq Nat /\ {f[x] : x \in S} # {}
  OBVIOUS
<1>2. PICK n \in {f[x] : x \in S} : \A m \in {f[x] : x \in S} : n <= m
  BY <1>1, NatLeast
<1> QED BY <1>2

\* A block that strictly dominates another has fewer dominators.
LEMMA DominanceDepth ==
    ASSUME NEW sets, NEW roots, NEW inputs, DominanceSets(sets, roots, inputs), IsFiniteSet(Nodes)
    PROVE  /\ \A b \in Nodes : Cardinality(sets[b]) \in Nat /\ Cardinality(sets[b]) <= Cardinality(Nodes)
           /\ \A b \in Nodes : \A c \in sets[b] \ {b} : Cardinality(sets[c]) < Cardinality(sets[b])
<1>1. ASSUME NEW b \in Nodes
      PROVE  /\ IsFiniteSet(sets[b]) /\ Cardinality(sets[b]) \in Nat
             /\ Cardinality(sets[b]) <= Cardinality(Nodes)
  <2>1. sets[b] \in SUBSET Nodes
    BY DEF DominanceSets
  <2> QED BY <2>1, FS_Subset, FS_CardinalityType
<1>2. ASSUME NEW b \in Nodes, NEW c \in sets[b] \ {b}
      PROVE  Cardinality(sets[c]) < Cardinality(sets[b])
  <2>1. c \in Nodes /\ b \in sets[b]
    BY DEF DominanceSets
  <2>2. sets[c] \in SUBSET sets[b]
    BY DominanceTransitive
  <2>3. b \notin sets[c]
    BY <1>2, DominanceAntisymmetric
  <2>4. Cardinality(sets[c]) <= Cardinality(sets[b]) /\ Cardinality(sets[c]) # Cardinality(sets[b])
    BY <1>1, <2>1, <2>2, <2>3, FS_Subset
  <2> QED BY <1>1, <2>1, <2>4
<1> QED BY <1>1, <1>2

\* A parent is the nearest strict dominator: it is dominated by all the others.
LEMMA ParentNearest ==
    ASSUME NEW sets, NEW roots, NEW inputs, DominanceSets(sets, roots, inputs), IsFiniteSet(Nodes),
           Nodes \subseteq Nat, NEW b \in Nodes
    PROVE  LET parent == ImmediateParent(sets, roots, b)
           IN  \/ parent = NoBlock /\ sets[b] = {b}
               \/ /\ parent \in sets[b] \ {b}
                  /\ sets[b] = sets[parent] \cup {b} /\ b \notin sets[parent]
<1> DEFINE strict == sets[b] \ {b}
           deepest == {d \in strict : \A e \in strict : Cardinality(sets[e]) <= Cardinality(sets[d])}
           N == Cardinality(Nodes)
           left == [d \in strict |-> N - Cardinality(sets[d])]
<1>1. sets[b] \subseteq Nodes /\ b \in sets[b] /\ (b \in roots => strict = {})
  BY DEF DominanceSets
<1>2. CASE b \in roots \/ strict = {}
  BY <1>1, <1>2 DEF ImmediateParent
<1>3. CASE b \notin roots /\ strict # {}
  <2>1. N \in Nat /\ \A d \in strict : Cardinality(sets[d]) \in Nat /\ Cardinality(sets[d]) <= N
    BY <1>1, DominanceDepth, FS_CardinalityType
  <2>2. PICK i \in strict : \A e \in strict : left[i] <= left[e]
    <3>1. \A d \in strict : left[d] \in Nat
      <4> HIDE DEF strict, N
      <4> QED BY <2>1
    <3> HIDE DEF strict, left
    <3> QED BY <1>3, <3>1, Fewest
  <2>3. \A e \in strict : Cardinality(sets[e]) <= Cardinality(sets[i])
    <3> HIDE DEF strict, N
    <3> QED BY <2>1, <2>2
  <2>4. \A e \in strict : e \in sets[i]
    <3> SUFFICES ASSUME NEW e \in strict, e \notin sets[i]
                 PROVE  FALSE
      OBVIOUS
    <3>1. i \in sets[e] /\ e \in Nodes /\ i # e
      BY <1>1, DominanceLinear DEF DominanceSets
    <3>2. Cardinality(sets[i]) < Cardinality(sets[e])
      BY <3>1, DominanceDepth
    <3> QED BY <1>1, <2>1, <2>3, <3>2
  <2>5. deepest = {i}
    <3> SUFFICES ASSUME NEW d \in deepest, d # i PROVE FALSE
      BY <2>3
    <3>1. d \in sets[i] \ {i} /\ i \in Nodes
      BY <1>1, <2>4
    <3>2. Cardinality(sets[d]) < Cardinality(sets[i]) /\ Cardinality(sets[i]) <= Cardinality(sets[d])
      BY <3>1, DominanceDepth
    <3> QED BY <1>1, <2>1, <3>2
  <2>6. Min(deepest) = i
    <3>1. i \in Nat
      BY <1>1
    <3> HIDE DEF deepest
    <3> QED BY <2>5, <3>1 DEF Min
  <2>7. ImmediateParent(sets, roots, b) = i
    BY <1>3, <2>6 DEF ImmediateParent
  <2>8. i \in Nodes /\ sets[i] \subseteq sets[b] /\ b \notin sets[i]
    BY <1>1, DominanceTransitive, DominanceAntisymmetric
  <2>9. sets[b] = sets[i] \cup {b}
    BY <1>1, <2>4, <2>8
  <2> QED BY <2>7, <2>8, <2>9
<1> QED BY <1>2, <1>3

\* The parents of all blocks of a direction.
Parents(parent, sets) ==
    \A b \in Nodes : \/ parent[b] = NoBlock /\ sets[b] = {b}
                     \/ /\ parent[b] \in sets[b] \ {b}
                        /\ sets[b] = sets[parent[b]] \cup {b} /\ b \notin sets[parent[b]]

\* The chain from a block up to another has the dominators of the one that do not
\* dominate the other, if that one is met on the way, and otherwise all of them.
LEMMA ChainExact ==
    ASSUME NEW sets, NEW roots, NEW inputs, DominanceSets(sets, roots, inputs), IsFiniteSet(Nodes),
           Nodes \subseteq Nat, NEW parent, Parents(parent, sets),
           NEW p \in Nodes, NEW stop
    PROVE  Chain(parent, p, stop) = IF stop \in sets[p] THEN sets[p] \ sets[stop] ELSE sets[p]
<1> DEFINE W == Nodes \ {stop}
           S == {p} \ {stop}
           up == [b \in Nodes |-> {parent[b]}]
           C == Closure(S, up, W)
           T == IF stop \in sets[p] THEN sets[p] \ sets[stop] ELSE sets[p]
<1>1. sets[p] \subseteq Nodes /\ p \in sets[p] /\ NoBlock \notin Nodes
  BY DEF DominanceSets, NoBlock
<1>2. IsFiniteSet(W) /\ S \in SUBSET W
  BY FS_Subset
<1>3. /\ S \subseteq C /\ C \subseteq W /\ \A b \in C : up[b] \cap W \subseteq C
      /\ \A X \in SUBSET W : (S \subseteq X /\ \A b \in X : up[b] \cap W \subseteq X) => C \subseteq X
  <2> HIDE DEF W, S, up
  <2> QED BY <1>2, ClosureLeast, ZenonT(60)
<1>4. C = Chain(parent, p, stop)
  BY DEF Chain
<1> HIDE DEF C
<1>5. \A b \in Nodes : up[b] = {parent[b]}
  OBVIOUS
<1> HIDE DEF up
<1>6. stop \in sets[p] => stop \in Nodes /\ stop \in sets[stop] /\ sets[stop] \subseteq sets[p]
  BY <1>1, DominanceTransitive DEF DominanceSets
<1>7. T \in SUBSET W
  BY <1>1, <1>6
<1>8. S \subseteq T
  <2> SUFFICES ASSUME p # stop, stop \in sets[p], p \in sets[stop] PROVE FALSE
    BY <1>1
  <2> QED BY DominanceAntisymmetric
<1>9. ASSUME NEW b \in T PROVE up[b] \cap W \subseteq T
  <2>1. b \in Nodes /\ b \in sets[p] /\ sets[b] \subseteq sets[p]
    BY <1>1, <1>9, DominanceTransitive
  <2> SUFFICES ASSUME parent[b] \in W PROVE parent[b] \in T
    BY <1>5, <2>1
  <2>2. /\ parent[b] \in sets[b] \ {b} /\ parent[b] \in sets[p] /\ parent[b] \in Nodes
        /\ sets[b] = sets[parent[b]] \cup {b}
    BY <1>1, <2>1 DEF Parents
  <2>3. CASE stop \in sets[p]
    <3> SUFFICES ASSUME parent[b] \in sets[stop] PROVE FALSE
      BY <2>2, <2>3
    <3>1. b \notin sets[stop] /\ stop \in Nodes /\ stop # b
      BY <1>6, <1>9, <2>3
    <3>2. stop \in sets[b]
      BY <2>1, <2>3, <3>1, DominanceLinear
    <3>3. stop \in sets[parent[b]]
      BY <2>2, <3>1, <3>2
    <3>4. parent[b] = stop
      BY <2>2, <3>1, <3>3, DominanceAntisymmetric
    <3> QED BY <3>4
  <2> QED BY <2>2, <2>3
<1>10. C \subseteq T
  <2> HIDE DEF W, S, T
  <2> QED BY <1>3, <1>7, <1>8, <1>9
<1>11. ASSUME NEW x \in T PROVE x \in C
  <2> DEFINE D == {y \in C : x \in sets[y]}
             depth == [y \in D |-> Cardinality(sets[y])]
  <2>1. x \in sets[p] /\ x \in Nodes /\ (stop \in sets[p] => x \notin sets[stop])
    BY <1>1, <1>11
  <2>2. p # stop
    BY <1>1, <2>1
  <2>3. D # {} /\ C \subseteq Nodes /\ C \subseteq sets[p]
    BY <1>3, <1>10, <2>1, <2>2
  <2>4. \A y \in D : depth[y] \in Nat /\ depth[y] = Cardinality(sets[y])
    BY <2>3, DominanceDepth
  <2>5. PICK y \in D : \A z \in D : depth[y] <= depth[z]
    <3> HIDE DEF D, depth
    <3> QED BY <2>3, <2>4, Fewest
  <2> SUFFICES ASSUME y # x PROVE FALSE
    OBVIOUS
  <2>6. y \in C /\ y \in Nodes /\ x \in sets[y]
    BY <2>3
  <2>7. /\ parent[y] \in sets[y] \ {y} /\ parent[y] \in Nodes
        /\ x \in sets[parent[y]]
    BY <2>6 DEF Parents, DominanceSets
  <2>8. parent[y] # stop
    BY <2>1, <2>3, <2>6, <2>7, DominanceTransitive
  <2>9. parent[y] \in D
    BY <1>3, <1>5, <2>6, <2>7, <2>8
  <2>10. Cardinality(sets[parent[y]]) < Cardinality(sets[y])
    BY <2>6, <2>7, DominanceDepth
  <2>11. depth[y] <= depth[parent[y]] /\ depth[y] \in Nat /\ depth[parent[y]] \in Nat
    BY <2>4, <2>5, <2>9
  <2> HIDE DEF depth
  <2> QED BY <2>4, <2>9, <2>10, <2>11
<1> QED BY <1>4, <1>10, <1>11

\* Dominance has the entry as its root, from which every block is reached.
LEMMA ForwardDominance ==
    ASSUME CFInv, phase \notin {"edges", "traverse"}, Nodes # {},
           dominators \in [Nodes -> SUBSET Nodes],
           \A b \in Nodes : dominators[b] = PathDominators(b)
    PROVE  DominanceSets(dominators, {program.entry}, Backward)
<1> DEFINE e == program.entry
           A(d) == Avoiding(e, d)
<1>1. e \in Nodes /\ \A b \in Nodes : Backward[b] = Predecessors(b) /\ Predecessors(b) \subseteq Nodes
  BY NodesFacts
<1>2. \A d : /\ A(d) \subseteq Nodes \ {d}
             /\ e # d => e \in A(d)
             /\ \A a \in A(d) : Successors(a) \ {d} \subseteq A(d)
             /\ \A T \in SUBSET (Nodes \ {d}) :
                  ({e} \ {d} \subseteq T /\ \A a \in T : Successors(a) \ {d} \subseteq T) => A(d) \subseteq T
  BY <1>1, AvoidingLeast
<1>3. \A b \in Nodes : dominators[b] = {d \in Nodes : b \notin A(d)}
  BY DEF PathDominators
<1>4. \A a, b \in Nodes : b \in Successors(a) <=> a \in Predecessors(b)
  BY NodesFacts
<1>5. \A b \in Nodes : Successors(b) \subseteq Nodes
  BY NodesFacts
<1> HIDE DEF A
<1>6. ASSUME NEW b \in Nodes PROVE b \in dominators[b] /\ Backward[b] \subseteq Nodes
  BY <1>1, <1>2, <1>3
<1>7. ASSUME NEW b \in Nodes, NEW d \in dominators[b] \ {b}
      PROVE  b \notin {e} /\ \A p \in Backward[b] : d \in dominators[p]
  <2>1. b \notin A(d) /\ d \in Nodes /\ b # e
    BY <1>2, <1>3, <1>7
  <2>2. ASSUME NEW p \in Backward[b], p \in A(d) PROVE FALSE
    <3>1. p \in Nodes /\ b \in Successors(p)
      BY <1>1, <1>4, <2>2
    <3> QED BY <1>2, <1>7, <2>1, <2>2, <3>1
  <2> QED BY <1>1, <1>3, <2>1, <2>2
<1>8. ASSUME NEW d \in Nodes, NEW U \in SUBSET Nodes,
             \A b \in U \ {d} : b \notin {e} /\ Backward[b] \subseteq U
      PROVE  \A b \in U : d \in dominators[b]
  <2> DEFINE T == Nodes \ (U \cup {d})
  <2>1. T \in SUBSET (Nodes \ {d}) /\ {e} \ {d} \subseteq T
    BY <1>1, <1>8
  <2>2. \A a \in T : Successors(a) \ {d} \subseteq T
    <3> SUFFICES ASSUME NEW a \in T, NEW b \in Successors(a) \ {d} PROVE b \in T
      OBVIOUS
    <3>1. b \in Nodes /\ a \in Nodes /\ a \in Backward[b]
      BY <1>1, <1>4, <1>5
    <3> QED BY <1>8, <3>1
  <2>3. A(d) \subseteq T
    <3> HIDE DEF T
    <3> QED BY <1>2, <2>1, <2>2
  <2> QED BY <1>3, <2>3
<1>9. ASSUME NEW U \in SUBSET Nodes, \A b \in U : b \notin {e} /\ Backward[b] \subseteq U
      PROVE  U = {}
  <2>1. ASSUME NEW b \in U PROVE FALSE
    <3> DEFINE S == Nodes \ U
    <3>1. \A a \in S : Successors(a) \subseteq S
      <4> SUFFICES ASSUME NEW a \in S, NEW c \in Successors(a), c \in U PROVE FALSE
        BY <1>5
      <4>1. a \in Backward[c]
        BY <1>1, <1>4
      <4> QED BY <1>9, <4>1
    <3>2. ClosedFromEntry(S)
      BY <1>1, <1>9, <3>1 DEF ClosedFromEntry
    <3>3. S \in SUBSET Catalog
      BY DEF CFInv, CFTypeOK, Nodes
    <3>4. Nodes \subseteq S
      <4> HIDE DEF S
      <4> QED BY <3>2, <3>3 DEF CFInv, Nodes
    <3> QED BY <2>1, <3>4
  <2> QED BY <2>1
<1> QED BY <1>6, <1>7, <1>8, <1>9 DEF DominanceSets

\* Post-dominance has the exits as its roots: every block reaches one.
LEMMA BackwardDominance ==
    ASSUME CFInv, phase \notin {"edges", "traverse"}, \A b \in Nodes : CanReturn(b),
           postDominators \in [Nodes -> SUBSET Nodes],
           \A b \in Nodes : postDominators[b] = PathPostDominators(b)
    PROVE  DominanceSets(postDominators, FindExits, Onward)
<1>1. \A b \in Nodes : Onward[b] = Successors(b) /\ Successors(b) \subseteq Nodes
  BY NodesFacts
<1>2. ASSUME NEW b \in Nodes PROVE b \in postDominators[b]
  <2>1. Avoiding(b, b) \subseteq {}
    <3>1. {} \in SUBSET (Nodes \ {b}) /\ {b} \ {b} \subseteq {}
      OBVIOUS
    <3> QED BY <3>1, AvoidingLeast
  <2> QED BY <2>1 DEF PathPostDominators
<1>3. ASSUME NEW b \in Nodes, NEW d \in postDominators[b] \ {b}
      PROVE  b \notin FindExits /\ \A c \in Onward[b] : d \in postDominators[c]
  BY <1>1, <1>3, PathBackward
<1>4. ASSUME NEW d \in Nodes, NEW U \in SUBSET Nodes,
             \A b \in U \ {d} : b \notin FindExits /\ Onward[b] \subseteq U
      PROVE  \A b \in U : d \in postDominators[b]
  <2> SUFFICES ASSUME NEW b \in U PROVE Avoiding(b, d) \cap FindExits = {}
    BY DEF PathPostDominators
  <2> DEFINE T == U \ {d}
  <2>1. T \in SUBSET (Nodes \ {d}) /\ {b} \ {d} \subseteq T /\ T \cap FindExits = {}
    BY <1>4
  <2>2. \A a \in T : Successors(a) \ {d} \subseteq T
    BY <1>1, <1>4
  <2>3. Avoiding(b, d) \subseteq T
    <3> HIDE DEF T
    <3> QED BY <2>1, <2>2, AvoidingLeast
  <2> QED BY <2>1, <2>3
<1>5. ASSUME NEW U \in SUBSET Nodes, \A b \in U : b \notin FindExits /\ Onward[b] \subseteq U
      PROVE  U = {}
  <2>1. U \cap FindExits = {} /\ \A a \in U : Successors(a) \subseteq U
    BY <1>1, <1>5
  <2>2. \A b \in U : ~CanReturn(b)
    BY <2>1, ReturnFacts
  <2> QED BY <2>2
<1> QED BY <1>1, <1>2, <1>3, <1>4, <1>5 DEF DominanceSets

\* What the finished passes leave, in the terms of this section.
LEMMA StructuredFacts ==
    ASSUME DomInv, DominatorsExact, phase = "structured"
    PROVE  /\ IsFiniteSet(Nodes) /\ Nodes \subseteq Nat /\ program.entry \in Nodes
           /\ CFInv /\ phase \notin {"edges", "traverse"}
           /\ DominanceSets(dominators, {program.entry}, Backward)
           /\ Parents(ImmediateDominator, dominators)
           /\ hasPostDominance =>
                /\ DominanceSets(postDominators, FindExits, Onward)
                /\ Parents(ImmediatePostDominator, postDominators)
                /\ \A b \in Nodes : postDominators[b] = PathPostDominators(b)
<1>1. /\ CFInv /\ Nodes # {} /\ dominators \in [Nodes -> SUBSET Nodes]
      /\ \A b \in Nodes : dominators[b] = PathDominators(b)
      /\ hasPostDominance => postDominators \in [Nodes -> SUBSET Nodes]
      /\ hasPostDominance => \A b \in Nodes : postDominators[b] = PathPostDominators(b)
      /\ hasPostDominance => \A b \in Nodes : CanReturn(b)
  BY DEF DomInv, DomTypes, Forward, Backwards, DominatorsExact, hasPostDominance
<1>2. IsFiniteSet(Nodes) /\ program.entry \in Nodes
  BY <1>1, NodesFacts
<1>3. Nodes \subseteq Nat
  <2>1. Nodes \subseteq Catalog /\ Catalog \subseteq Block
    BY <1>1, InputFacts DEF CFInv, CFTypeOK, Nodes
  <2> QED BY <2>1, ProgramsAssumption
<1>4. DominanceSets(dominators, {program.entry}, Backward)
  BY <1>1, ForwardDominance
<1>5. Parents(ImmediateDominator, dominators)
  <2>1. \A b \in Nodes : ImmediateDominator[b] = ImmediateParent(dominators, {program.entry}, b)
    BY DEF ImmediateDominator
  <2> QED BY <1>2, <1>3, <1>4, <2>1, ParentNearest DEF Parents
<1>6. ASSUME hasPostDominance
      PROVE  DominanceSets(postDominators, FindExits, Onward)
  BY <1>1, <1>6, BackwardDominance
<1>7. ASSUME hasPostDominance
      PROVE  Parents(ImmediatePostDominator, postDominators)
  <2>1. \A b \in Nodes : ImmediatePostDominator[b] = ImmediateParent(postDominators, FindExits, b)
    BY DEF ImmediatePostDominator
  <2>2. \A b \in Nodes :
          LET parent == ImmediateParent(postDominators, FindExits, b)
          IN  \/ parent = NoBlock /\ postDominators[b] = {b}
              \/ /\ parent \in postDominators[b] \ {b}
                 /\ postDominators[b] = postDominators[parent] \cup {b}
                 /\ b \notin postDominators[parent]
    BY <1>2, <1>3, <1>6, <1>7, ParentNearest
  <2> QED BY <2>1, <2>2 DEF Parents
<1> QED BY <1>1, <1>2, <1>3, <1>4, <1>5, <1>6, <1>7

-----------------------------------------------------------------------------
(* The tree and the frontiers. *)

\* The code counts the inputs and the successors it compares with two.
LEMMA TwoMembers ==
    ASSUME NEW S, IsFiniteSet(S)
    PROVE  Cardinality(S) >= 2 <=> \E x, y \in S : x # y
<1>1. Cardinality(S) \in Nat
  BY FS_CardinalityType
<1>2. ASSUME NEW x \in S, NEW y \in S, x # y PROVE Cardinality(S) >= 2
  <2>1. /\ Cardinality({x}) = 1 /\ IsFiniteSet({x})
    BY FS_Singleton
  <2>2. {x} \in SUBSET S /\ {x} # S
    BY <1>2
  <2>3. Cardinality({x}) <= Cardinality(S) /\ Cardinality({x}) # Cardinality(S)
    BY <2>2, FS_Subset
  <2> QED BY <1>1, <2>1, <2>3
<1>3. ASSUME Cardinality(S) >= 2 PROVE \E x, y \in S : x # y
  <2>1. S # {}
    BY <1>1, <1>3, FS_EmptySet
  <2>2. PICK x \in S : TRUE
    BY <2>1
  <2>3. S # {x}
    BY <1>3, FS_Singleton
  <2> QED BY <2>2, <2>3
<1> QED BY <1>2, <1>3

\* A block with a single input is dominated by it.
LEMMA SingleInput ==
    ASSUME NEW sets, NEW roots, NEW inputs, DominanceSets(sets, roots, inputs),
           NEW j \in Nodes, j \notin roots, NEW p \in Nodes, inputs[j] = {p}
    PROVE  p \in sets[j] /\ p # j
<1>1. p # j
  <2> SUFFICES ASSUME p = j PROVE FALSE
    OBVIOUS
  <2> DEFINE U == {j}
  <2>1. U \in SUBSET Nodes /\ (\A b \in U : b \notin roots /\ inputs[b] \subseteq U) /\ U # {}
    OBVIOUS
  <2> HIDE DEF U
  <2> QED BY <2>1 DEF DominanceSets
<1>2. p \in sets[j]
  <2> DEFINE U == {j, p}
  <2>1. U \in SUBSET Nodes /\ (\A b \in U \ {p} : b \notin roots /\ inputs[b] \subseteq U) /\ j \in U
    BY <1>1
  <2> HIDE DEF U
  <2> QED BY <2>1 DEF DominanceSets
<1> QED BY <1>1, <1>2

\* Immediate dominators are nearest, and the code's walk up from the inputs of a join
\* finds the blocks at which dominance ends.
LEMMA TreeAndFrontier ==
    ASSUME DomInv, DominatorsExact
    PROVE  DominatorTreeExact
<1> SUFFICES ASSUME phase = "structured"
             PROVE  DominatorTreeExact
  BY DEF DominatorTreeExact
<1> DEFINE e == program.entry
           D == dominators
           I == ImmediateDominator
<1>1. /\ IsFiniteSet(Nodes) /\ Nodes \subseteq Nat /\ e \in Nodes
      /\ DominanceSets(D, {e}, Backward) /\ Parents(I, D)
      /\ CFInv /\ phase \notin {"edges", "traverse"}
  BY StructuredFacts
<1>2. \A b \in Nodes : Backward[b] = Predecessors(b) /\ Predecessors(b) \subseteq Nodes
  BY <1>1, NodesFacts
<1>3. \A b \in Nodes : e \in D[b] /\ b \in D[b] /\ D[b] \subseteq Nodes
  <2>1. \A b \in Nodes \ {e} : b \notin {e} /\ Backward[b] \subseteq Nodes
    BY <1>2
  <2> QED BY <1>1, <2>1 DEF DominanceSets
<1>4. D[e] = {e} /\ I[e] = NoBlock
  BY <1>1, <1>3 DEF DominanceSets, Parents
<1>5. ASSUME NEW b \in Nodes \ {e}
      PROVE  I[b] \in D[b] \ {b} /\ D[b] = D[I[b]] \cup {b} /\ b \notin D[I[b]]
  <2>1. e \in D[b] /\ e # b
    BY <1>3
  <2> QED BY <1>1, <2>1 DEF Parents
<1>6. \A p \in Nodes : \A s :
        Chain(I, p, s) = IF s \in D[p] THEN D[p] \ D[s] ELSE D[p]
  BY <1>1, ChainExact
<1>7. ASSUME NEW b \in Nodes, NEW j \in Nodes
      PROVE  (/\ Cardinality(Backward[j]) >= 2
              /\ \E p \in Backward[j] : b \in Chain(I, p, I[j]))
             <=> (/\ j # e \/ Cardinality(Predecessors(j)) >= 2
                  /\ \E p \in Predecessors(j) : b \in D[p]
                  /\ j = b \/ b \notin D[j])
  <2>1. CASE j = e
    <3>1. NoBlock \notin Nodes
      BY <1>1 DEF NoBlock
    <3>2. \A p \in Predecessors(j) : Chain(I, p, I[j]) = D[p]
      BY <1>2, <1>3, <1>4, <1>6, <2>1, <3>1
    <3> QED BY <1>2, <1>4, <2>1, <3>2
  <2>2. CASE j # e
    <3>1. /\ I[j] \in D[j] \ {j} /\ D[j] = D[I[j]] \cup {j} /\ j \notin D[I[j]]
          /\ \A p \in Predecessors(j) : I[j] \in D[p]
      <4>1. I[j] \in D[j] \ {j} /\ D[j] = D[I[j]] \cup {j} /\ j \notin D[I[j]]
        BY <1>5, <2>2
      <4>2. \A d \in D[j] \ {j} : \A p \in Backward[j] : d \in D[p]
        BY <1>1 DEF DominanceSets
      <4> QED BY <1>2, <4>1, <4>2
    <3>2. \A p \in Predecessors(j) : Chain(I, p, I[j]) = D[p] \ D[I[j]]
      BY <1>2, <1>6, <3>1
    <3>3. ASSUME NEW p \in Predecessors(j), Cardinality(Predecessors(j)) < 2
          PROVE  D[p] \subseteq D[I[j]]
      <4>1. IsFiniteSet(Predecessors(j)) /\ p \in Nodes
        BY <1>1, <1>2, FS_Subset
      <4>2. Predecessors(j) = {p}
        <5>1. Cardinality(Predecessors(j)) \in Nat
          BY <4>1, FS_CardinalityType
        <5> QED BY <3>3, <4>1, <5>1, TwoMembers
      <4>3. p \in D[j] /\ p # j
        BY <1>1, <1>2, <2>2, <4>1, <4>2, SingleInput
      <4>4. D[p] \subseteq D[j] /\ j \notin D[p]
        BY <1>1, <4>1, <4>3, DominanceTransitive, DominanceAntisymmetric
      <4> QED BY <3>1, <4>4
    <3>4. Cardinality(Predecessors(j)) \in Nat
      BY <1>1, <1>2, FS_Subset, FS_CardinalityType
    <3>5. \A p \in Predecessors(j) :
            b \in Chain(I, p, I[j]) <=> b \in D[p] /\ (j = b \/ b \notin D[j])
      BY <3>1, <3>2
    <3>6. \A p \in Predecessors(j) :
            b \in Chain(I, p, I[j]) => Cardinality(Predecessors(j)) >= 2
      BY <3>2, <3>3, <3>4
    <3> QED BY <1>2, <2>2, <3>5, <3>6
  <2> QED BY <2>1, <2>2
<1>8. \A b \in Nodes \ {e} : /\ I[b] \in D[b] \ {b}
                             /\ \A d \in D[b] \ {b} : d \in D[I[b]]
  BY <1>5
<1>9. \A b \in Nodes : Frontiers(I, Backward)[b] =
        {j \in Nodes : /\ j # e \/ Cardinality(Predecessors(j)) >= 2
                       /\ \E p \in Predecessors(j) : b \in D[p]
                       /\ j = b \/ b \notin D[j]}
  BY <1>7 DEF Frontiers
<1> QED BY <1>8, <1>9 DEF DominatorTreeExact

\* The immediate dominator is the nearest and the frontier is where dominance ends, in
\* every function: the walk up from an input of a join stops at the join's own parent.
THEOREM DominatorTreeExactHolds == DomSpec => []DominatorTreeExact
BY TreeAndFrontier, DomInvariance, DominatorsExactHolds, PTL

-----------------------------------------------------------------------------
(* Control dependence. *)

\* The chain from an edge up to the post-dominator of its branch has what the edge makes
\* certain, and only edges to what the branch does not have to reach are asked.
LEMMA ControlDependenceSteps ==
    ASSUME DomInv, DominatorsExact
    PROVE  ControlDependenceExact
<1> SUFFICES ASSUME hasPostDominance
             PROVE  ControlDependenceExact
  BY DEF ControlDependenceExact
<1> DEFINE P == postDominators
           I == ImmediatePostDominator
<1>1. /\ IsFiniteSet(Nodes) /\ Nodes \subseteq Nat
      /\ DominanceSets(P, FindExits, Onward) /\ Parents(I, P)
      /\ CFInv /\ phase \notin {"edges", "traverse"}
      /\ \A b \in Nodes : P[b] = PathPostDominators(b)
  BY StructuredFacts DEF hasPostDominance
<1>2. \A b \in Nodes : Onward[b] = Successors(b) /\ Successors(b) \subseteq Nodes
  BY <1>1, NodesFacts
<1>3. NoBlock \notin Nodes
  BY <1>1 DEF NoBlock
<1>4. \A b \in Nodes : b \in P[b] /\ P[b] \subseteq Nodes
  BY <1>1 DEF DominanceSets
<1>5. \A b, d \in Nodes : Avoiding(b, d) \cap FindExits = {} <=> d \in P[b]
  BY <1>1 DEF PathPostDominators
<1>6. \A p \in Nodes : \A s :
        Chain(I, p, s) = IF s \in P[p] THEN P[p] \ P[s] ELSE P[p]
  BY <1>1, ChainExact
<1>7. ASSUME NEW c \in Nodes, NEW s \in Successors(c), NEW d \in Nodes
      PROVE  d \in Chain(I, s, I[c]) <=> d \in P[s] /\ (d = c \/ d \notin P[c])
  <2>1. s \in Nodes
    BY <1>2
  <2>2. CASE I[c] = NoBlock /\ P[c] = {c}
    BY <1>3, <1>4, <1>6, <2>1, <2>2
  <2>3. CASE I[c] \in P[c] \ {c} /\ P[c] = P[I[c]] \cup {c} /\ c \notin P[I[c]]
    <3>1. I[c] \in P[s]
      <4>1. \A x \in P[c] \ {c} : \A y \in Onward[c] : x \in P[y]
        BY <1>1 DEF DominanceSets
      <4> QED BY <1>2, <2>3, <4>1
    <3>2. Chain(I, s, I[c]) = P[s] \ P[I[c]]
      BY <1>6, <2>1, <3>1
    <3> QED BY <2>3, <3>2
  <2> QED BY <1>1, <2>2, <2>3 DEF Parents
<1>8. ASSUME NEW c \in Nodes, NEW s \in Successors(c), NEW d \in P[s], d = c \/ d \notin P[c],
             s # c
      PROVE  Cardinality(Successors(c)) >= 2 /\ s \notin P[c]
  <2>1. s \in Nodes /\ c \notin FindExits
    BY <1>2 DEF FindExits
  <2>2. s \notin P[c]
    <3> SUFFICES ASSUME s \in P[c] PROVE FALSE
      OBVIOUS
    <3>1. P[s] \subseteq P[c]
      BY <1>1, DominanceTransitive
    <3>2. c \in P[s]
      BY <1>8, <3>1
    <3> QED BY <1>1, <1>8, <3>2, DominanceAntisymmetric
  <2>3. Cardinality(Successors(c)) >= 2
    <3>1. IsFiniteSet(Successors(c))
      BY <1>1, <1>2, FS_Subset
    <3>2. Successors(c) # {s}
      <4> SUFFICES ASSUME Onward[c] = {s} PROVE FALSE
        BY <1>2
      <4>1. s \in P[c]
        BY <1>1, <2>1, SingleInput
      <4> QED BY <2>2, <4>1
    <3> QED BY <3>1, <3>2, TwoMembers
  <2> QED BY <2>2, <2>3
<1>9. ASSUME NEW c \in Nodes, NEW s \in Nodes, NEW d \in Nodes
      PROVE  (/\ Cardinality(Successors(c)) >= 2
              /\ s \in Successors(c) \ P[c]
              /\ d \in Chain(I, s, I[c]))
             <=> (/\ s \in Successors(c) \ {c}
                  /\ Avoiding(s, d) \cap FindExits = {}
                  /\ d = c \/ Avoiding(c, d) \cap FindExits # {})
  <2> SUFFICES ASSUME s \in Successors(c)
               PROVE  (/\ Cardinality(Successors(c)) >= 2 /\ s \notin P[c]
                       /\ d \in P[s] /\ (d = c \/ d \notin P[c]))
                      <=> (s # c /\ d \in P[s] /\ (d = c \/ d \notin P[c]))
    BY <1>5, <1>7
  <2> QED BY <1>4, <1>8
<1>10. \A x \in Dependence : x.controller \in Nodes /\ x.successor \in Nodes /\ x.dependent \in Nodes
  BY DEF Dependence
<1>11. ASSUME NEW x \in Dependence
       PROVE  (/\ Cardinality(Successors(x.controller)) >= 2
               /\ x.successor \in Successors(x.controller) \ P[x.controller]
               /\ x.dependent \in Chain(I, x.successor, I[x.controller]))
              <=> (/\ x.successor \in Successors(x.controller) \ {x.controller}
                   /\ Avoiding(x.successor, x.dependent) \cap FindExits = {}
                   /\ \/ x.dependent = x.controller
                      \/ Avoiding(x.controller, x.dependent) \cap FindExits # {})
  BY <1>9, <1>10
<1> HIDE DEF P, I
<1>12. ControlDependence =
         {x \in Dependence :
            /\ Cardinality(Successors(x.controller)) >= 2
            /\ x.successor \in Successors(x.controller) \ P[x.controller]
            /\ x.dependent \in Chain(I, x.successor, I[x.controller])}
  BY DEF ControlDependence, P, I
<1> QED BY <1>11, <1>12 DEF ControlDependenceExact

\* A block depends on an edge of a branch exactly when taking it makes the block certain,
\* in every function in which every block returns.
THEOREM ControlDependenceExactHolds == DomSpec => []ControlDependenceExact
BY ControlDependenceSteps, DomInvariance, DominatorsExactHolds, PTL

-----------------------------------------------------------------------------
(* Natural loops. *)

\* The walk back from a latch stays where the header dominates, takes every way in, and
\* meets what reaches the latch without the header.
LEMMA NaturalLoop ==
    ASSUME CFInv, phase \notin {"edges", "traverse"}, NEW sets, NEW roots,
           DominanceSets(sets, roots, Backward),
           NEW h \in Nodes, NEW l \in Nodes, h \in sets[l]
    PROVE  LET M == NaturalLoopMembers(h, l)
           IN  /\ h \in M /\ l \in M /\ M \subseteq Nodes
               /\ \A m \in M : h \in sets[m]
               /\ \A m \in M \ {h} : Predecessors(m) \subseteq M
               /\ M = {h} \cup {m \in Nodes : l \in Avoiding(m, h)}
<1> DEFINE B == [Backward EXCEPT ![h] = {}]
           C == Closure({l}, B, Nodes)
           M == {h} \cup C
           A(m) == Avoiding(m, h)
<1>1. /\ IsFiniteSet(Nodes)
      /\ \A b \in Nodes : Backward[b] = Predecessors(b) /\ Predecessors(b) \subseteq Nodes
      /\ \A a, b \in Nodes : b \in Successors(a) <=> a \in Predecessors(b)
      /\ \A b \in Nodes : Successors(b) \subseteq Nodes
  BY NodesFacts
<1>2. /\ {l} \subseteq C /\ C \subseteq Nodes /\ \A b \in C : B[b] \cap Nodes \subseteq C
      /\ \A T \in SUBSET Nodes :
           ({l} \subseteq T /\ \A b \in T : B[b] \cap Nodes \subseteq T) => C \subseteq T
  <2>1. {l} \in SUBSET Nodes
    OBVIOUS
  <2> HIDE DEF B
  <2> QED BY <1>1, <2>1, ClosureLeast, ZenonT(60)
<1>3. \A b \in Nodes : B[b] = IF b = h THEN {} ELSE Predecessors(b)
  BY <1>1 DEF Backward
<1>4. M = NaturalLoopMembers(h, l)
  BY DEF NaturalLoopMembers
<1> HIDE DEF B, C
<1>5. \A m \in Nodes :
        /\ A(m) \subseteq Nodes \ {h} /\ (m # h => m \in A(m))
        /\ \A a \in A(m) : Successors(a) \ {h} \subseteq A(m)
        /\ \A T \in SUBSET (Nodes \ {h}) :
             ({m} \ {h} \subseteq T /\ \A a \in T : Successors(a) \ {h} \subseteq T) => A(m) \subseteq T
  BY <1>1, AvoidingLeast
<1> HIDE DEF A
<1>6. \A m \in M : h \in sets[m]
  <2> DEFINE T == {m \in Nodes : h \in sets[m]}
  <2>1. ASSUME NEW b \in T PROVE B[b] \cap Nodes \subseteq T
    <3>1. CASE b = h
      BY <1>3, <3>1
    <3>2. CASE b # h
      <4>1. \A p \in Backward[b] : h \in sets[p]
        BY <3>2 DEF DominanceSets
      <4> QED BY <1>1, <1>3, <3>2, <4>1
    <3> QED BY <3>1, <3>2
  <2>2. T \in SUBSET Nodes /\ {l} \subseteq T
    OBVIOUS
  <2>3. C \subseteq T
    <3> HIDE DEF T
    <3> QED BY <1>2, <2>1, <2>2
  <2>4. h \in sets[h]
    BY DEF DominanceSets
  <2> QED BY <2>3, <2>4
<1>7. \A m \in M \ {h} : Predecessors(m) \subseteq M
  BY <1>1, <1>2, <1>3
<1>8. h \in M /\ l \in M /\ M \subseteq Nodes
  BY <1>2
<1>9. M \subseteq {h} \cup {m \in Nodes : l \in A(m)}
  <2> DEFINE T == {h} \cup {m \in Nodes : l \in A(m)}
  <2>1. T \in SUBSET Nodes /\ {l} \subseteq T
    BY <1>5
  <2>2. ASSUME NEW b \in T, NEW p \in B[b] \cap Nodes PROVE p \in T
    <3>1. b # h /\ b \in Nodes /\ l \in A(b) /\ p \in Nodes /\ b \in Successors(p)
      BY <1>1, <1>3, <2>2
    <3>2. CASE p # h
      <4>1. b \in A(p)
        BY <1>5, <3>1, <3>2
      <4>2. A(b) \subseteq A(p)
        BY <1>5, <3>1, <4>1
      <4> QED BY <3>1, <4>2
    <3> QED BY <3>2
  <2> HIDE DEF T
  <2>3. C \subseteq T
    BY <1>2, <2>1, <2>2
  <2> QED BY <2>3 DEF T
<1>10. ASSUME NEW m \in Nodes, l \in A(m), m \notin M PROVE FALSE
  <2> DEFINE T == Nodes \ M
  <2>1. T \in SUBSET (Nodes \ {h}) /\ {m} \ {h} \subseteq T /\ l \notin T
    BY <1>8, <1>10
  <2>2. ASSUME NEW a \in T, NEW c \in Successors(a) \ {h} PROVE c \in T
    <3>1. a \in Nodes /\ c \in Nodes /\ a \in Predecessors(c)
      BY <1>1, <2>2
    <3> QED BY <1>7, <2>2, <3>1
  <2> HIDE DEF T
  <2>3. A(m) \subseteq T
    BY <1>5, <2>1, <2>2
  <2> QED BY <1>10, <2>1, <2>3
<1>11. M = {h} \cup {m \in Nodes : l \in A(m)}
  BY <1>8, <1>9, <1>10
<1> HIDE DEF M
<1> QED BY <1>4, <1>6, <1>7, <1>8, <1>11 DEF A

-----------------------------------------------------------------------------
(* The depth-first search. *)

Reach(b) == Closure({b}, Onward, Nodes)

\* What a walk from a block reaches is closed, and the least such set.
LEMMA ReachFacts ==
    ASSUME CFInv, phase \notin {"edges", "traverse"}
    PROVE  /\ \A b \in Nodes :
                /\ b \in Reach(b) /\ Reach(b) \subseteq Nodes
                /\ \A a \in Reach(b) : Successors(a) \subseteq Reach(b)
                /\ \A T \in SUBSET Nodes :
                     b \in T /\ (\A a \in T : Successors(a) \subseteq T) => Reach(b) \subseteq T
                /\ \A a \in Reach(b) : Reach(a) \subseteq Reach(b)
           /\ \A b \in Nodes : \A a \in Successors(b) : a \in Reach(b)
<1>1. ASSUME NEW b \in Nodes
      PROVE  /\ b \in Reach(b) /\ Reach(b) \subseteq Nodes
             /\ \A a \in Reach(b) : Successors(a) \subseteq Reach(b)
             /\ \A T \in SUBSET Nodes :
                  b \in T /\ (\A a \in T : Successors(a) \subseteq T) => Reach(b) \subseteq T
  <2> DEFINE R == Closure({b}, Onward, Nodes)
  <2>1. IsFiniteSet(Nodes) /\ {b} \in SUBSET Nodes
    BY NodesFacts
  <2>2. /\ {b} \subseteq R /\ R \subseteq Nodes
        /\ \A a \in R : Onward[a] \cap Nodes \subseteq R
        /\ \A T \in SUBSET Nodes :
             ({b} \subseteq T /\ \A a \in T : Onward[a] \cap Nodes \subseteq T) => R \subseteq T
    BY <2>1, ClosureLeast, ZenonT(60)
  <2>3. \A a \in Nodes : Onward[a] \cap Nodes = Successors(a)
    BY NodesFacts
  <2>4. R = Reach(b)
    BY DEF Reach
  <2> HIDE DEF R
  <2> QED BY <2>2, <2>3, <2>4
<1>2. \A b \in Nodes : \A a \in Reach(b) : Reach(a) \subseteq Reach(b)
  BY <1>1
<1> QED BY <1>1, <1>2

\* What was finished last is reached from a block that is open or that finished after it;
\* what was finished before that has no edge to it.
SplitOpen(frames, done, k, l) ==
    /\ \A i \in l..Len(done) : done[i] \in Reach(frames[k])
    /\ \A i \in 1..l - 1 : \A c \in Successors(done[i]) :
         (\A m \in l..Len(done) : c # done[m]) /\ (\A m \in k..Len(frames) : c # frames[m])
SplitDone(done, j, l) ==
    /\ \A i \in l..j : done[i] \in Reach(done[j])
    /\ \A i \in 1..l - 1 : \A c \in Successors(done[i]) : \A m \in l..j : c # done[m]

SearchTypes(frames, seen, done) ==
    /\ frames \in Seq(Nodes) /\ done \in Seq(Nodes)
    /\ seen = {frames[i] : i \in 1..Len(frames)} \cup {done[i] : i \in 1..Len(done)}
    /\ Cardinality(seen) = Len(frames) + Len(done)

SearchInv(frames, seen, done) ==
    /\ SearchTypes(frames, seen, done)
    /\ \A i, j \in 1..Len(frames) : i <= j => frames[j] \in Reach(frames[i])
    /\ \A i \in 1..Len(done) : Successors(done[i]) \subseteq seen
    /\ \A k \in 1..Len(frames) : \E l \in 1..Len(done) + 1 : SplitOpen(frames, done, k, l)
    /\ \A j \in 1..Len(done) : \E l \in 1..j : SplitDone(done, j, l)

\* A block is entered.
LEMMA SearchEnter ==
    ASSUME CFInv, phase \notin {"edges", "traverse"},
           NEW frames, NEW seen, NEW done, SearchInv(frames, seen, done),
           NEW b \in Nodes \ seen, \A k \in 1..Len(frames) : b \in Reach(frames[k])
    PROVE  SearchInv(Append(frames, b), seen \cup {b}, done)
<1> DEFINE g == Append(frames, b)
           n == Len(frames)
           d == Len(done)
<1>1. /\ frames \in Seq(Nodes) /\ done \in Seq(Nodes) /\ n \in Nat /\ d \in Nat
      /\ seen = {frames[i] : i \in 1..n} \cup {done[i] : i \in 1..d}
      /\ Cardinality(seen) = n + d
  BY DEF SearchInv, SearchTypes
<1>2. /\ g \in Seq(Nodes) /\ Len(g) = n + 1 /\ g[n + 1] = b
      /\ \A i \in 1..n : g[i] = frames[i]
  BY <1>1
<1>3. b \in Reach(b)
  BY ReachFacts
<1> HIDE DEF g, n, d
<1>4. SearchTypes(g, seen \cup {b}, done)
  <2>1. {g[i] : i \in 1..n + 1} = {frames[i] : i \in 1..n} \cup {b}
    <3>1. 1..n + 1 = 1..n \cup {n + 1}
      BY <1>1
    <3>2. \A x : (\E i \in 1..n : x = g[i]) <=> (\E i \in 1..n : x = frames[i])
      BY <1>2
    <3> QED BY <1>2, <3>1, <3>2
  <2>2. IsFiniteSet(seen)
    <3>1. seen \in SUBSET Nodes
      BY <1>1 DEF n, d
    <3> QED BY <3>1, NodesFacts, FS_Subset
  <2>3. Cardinality(seen \cup {b}) = Cardinality(seen) + 1
    BY <2>2, FS_AddElement
  <2>4. seen \cup {b} = {g[i] : i \in 1..n + 1} \cup {done[i] : i \in 1..d}
    BY <1>1, <2>1
  <2> QED BY <1>1, <1>2, <2>3, <2>4 DEF SearchTypes, n, d
<1>5. ASSUME NEW i \in 1..Len(g), NEW j \in 1..Len(g), i <= j PROVE g[j] \in Reach(g[i])
  <2>1. CASE j \in 1..n
    <3>1. i \in 1..n
      BY <1>1, <1>5, <2>1
    <3> QED BY <1>2, <1>5, <2>1, <3>1 DEF SearchInv, n
  <2>2. CASE j = n + 1 /\ i \in 1..n
    BY <1>2, <2>2 DEF n
  <2>3. CASE j = n + 1 /\ i = n + 1
    BY <1>2, <1>3, <2>3
  <2> QED BY <1>1, <1>2, <1>5, <2>1, <2>2, <2>3
<1>6. \A i \in 1..Len(done) : b \notin Successors(done[i])
  BY DEF SearchInv
<1>7. ASSUME NEW k \in 1..Len(g) PROVE \E l \in 1..d + 1 : SplitOpen(g, done, k, l)
  <2>1. CASE k = n + 1
    <3>1. d + 1 \in 1..d + 1 /\ \A i \in d + 1..d : FALSE
      BY <1>1
    <3>2. \A i \in 1..d + 1 - 1 : i \in 1..d
      BY <1>1
    <3>3. \A m \in k..Len(g) : g[m] = b
      BY <1>1, <1>2, <2>1
    <3>4. SplitOpen(g, done, k, d + 1)
      BY <1>6, <3>1, <3>2, <3>3 DEF SplitOpen, d
    <3> QED BY <3>1, <3>4
  <2>2. CASE k \in 1..n
    <3>1. PICK l \in 1..d + 1 : SplitOpen(frames, done, k, l)
      BY <2>2 DEF SearchInv, n, d
    <3>2. ASSUME NEW i \in 1..l - 1, NEW c \in Successors(done[i]), NEW m \in k..Len(g)
          PROVE  c # g[m]
      <4>1. i \in 1..d
        BY <1>1, <3>2
      <4>2. CASE m = n + 1
        BY <1>2, <1>6, <3>2, <4>1, <4>2 DEF d
      <4>3. CASE m \in k..n
        <5>1. m \in 1..n
          BY <1>1, <2>2, <4>3
        <5> QED BY <1>2, <3>1, <3>2, <4>3, <5>1 DEF SplitOpen, n
      <4> QED BY <1>1, <1>2, <3>2, <4>2, <4>3
    <3>3. SplitOpen(g, done, k, l)
      BY <1>2, <2>2, <3>1, <3>2 DEF SplitOpen
    <3> QED BY <3>1, <3>3
  <2> QED BY <1>1, <1>2, <1>7, <2>1, <2>2
<1> QED BY <1>4, <1>5, <1>7 DEF SearchInv, g, d

\* The innermost open block is left, its edges all seen.
LEMMA SearchLeave ==
    ASSUME CFInv, phase \notin {"edges", "traverse"},
           NEW frames, NEW seen, NEW done, SearchInv(frames, seen, done),
           frames # <<>>, Successors(frames[Len(frames)]) \subseteq seen
    PROVE  SearchInv(Front(frames), seen, Append(done, frames[Len(frames)]))
<1> DEFINE n == Len(frames)
           d == Len(done)
           top == frames[n]
           f == Front(frames)
           e == Append(done, top)
<1>1. /\ frames \in Seq(Nodes) /\ done \in Seq(Nodes) /\ n \in Nat \ {0} /\ d \in Nat
      /\ seen = {frames[i] : i \in 1..n} \cup {done[i] : i \in 1..d}
      /\ Cardinality(seen) = n + d
  BY DEF SearchInv, SearchTypes
<1>2. top \in Nodes
  BY <1>1
<1>3. /\ f \in Seq(Nodes) /\ Len(f) = n - 1 /\ \A i \in 1..n - 1 : f[i] = frames[i]
  <2>1. f = SubSeq(frames, 1, n - 1)
    BY DEF Front
  <2> HIDE DEF f
  <2>2. f = [i \in 1..n - 1 |-> frames[i]]
    BY <1>1, <2>1
  <2>3. \A i \in 1..n - 1 : frames[i] \in Nodes
    BY <1>1
  <2> QED BY <1>1, <2>2, <2>3
<1>4. /\ e \in Seq(Nodes) /\ Len(e) = d + 1 /\ e[d + 1] = top
      /\ \A i \in 1..d : e[i] = done[i]
  BY <1>1, <1>2
<1>5. /\ 1..n = 1..n - 1 \cup {n} /\ 1..d + 1 = 1..d \cup {d + 1}
      /\ n \notin 1..n - 1 /\ d + 1 \notin 1..d /\ n - 1 \in Nat
  BY <1>1
<1>6. /\ \A i, j \in 1..n : i <= j => frames[j] \in Reach(frames[i])
      /\ \A i \in 1..d : Successors(done[i]) \subseteq seen
      /\ \A k \in 1..n : \E l \in 1..d + 1 : SplitOpen(frames, done, k, l)
      /\ \A j \in 1..d : \E l \in 1..j : SplitDone(done, j, l)
      /\ Successors(top) \subseteq seen
  BY DEF SearchInv
<1> HIDE DEF n, d, f, e, top
<1>7. SearchTypes(f, seen, e)
  <2>1. \A x : (\E i \in 1..n - 1 : x = f[i]) <=> (\E i \in 1..n - 1 : x = frames[i])
    BY <1>3
  <2>2. \A x : (\E i \in 1..d : x = e[i]) <=> (\E i \in 1..d : x = done[i])
    BY <1>4
  <2>3. seen = {f[i] : i \in 1..n - 1} \cup {e[i] : i \in 1..d + 1}
    <3>1. \A x : (\E i \in 1..n : x = frames[i]) <=> x = top \/ \E i \in 1..n - 1 : x = frames[i]
      BY <1>5 DEF top
    <3>2. \A x : (\E i \in 1..d + 1 : x = e[i]) <=> x = top \/ \E i \in 1..d : x = e[i]
      BY <1>4, <1>5
    <3>3. \A x : x \in seen <=> (\E i \in 1..n : x = frames[i]) \/ (\E i \in 1..d : x = done[i])
      BY <1>1
    <3>4. ASSUME NEW x
          PROVE  x \in seen <=> (\E i \in 1..n - 1 : x = f[i]) \/ (\E i \in 1..d + 1 : x = e[i])
      <4> DEFINE open == \E i \in 1..n - 1 : x = frames[i]
                 left == \E i \in 1..d : x = done[i]
      <4>1. x \in seen <=> (x = top \/ open) \/ left
        BY <3>1, <3>3
      <4>2. (\E i \in 1..n - 1 : x = f[i]) <=> open
        BY <2>1
      <4>3. (\E i \in 1..d + 1 : x = e[i]) <=> x = top \/ left
        BY <2>2, <3>2
      <4> HIDE DEF open, left
      <4> QED BY <4>1, <4>2, <4>3
    <3> QED BY <3>4
  <2>4. n + d = (n - 1) + (d + 1)
    BY <1>1
  <2> QED BY <1>1, <1>3, <1>4, <2>3, <2>4 DEF SearchTypes
<1>8. \A i, j \in 1..Len(f) : i <= j => f[j] \in Reach(f[i])
  BY <1>3, <1>5, <1>6
<1>9. ASSUME NEW i \in 1..Len(e) PROVE Successors(e[i]) \subseteq seen
  <2>1. i \in 1..d \/ i = d + 1
    BY <1>4, <1>5
  <2>2. CASE i \in 1..d
    BY <1>4, <1>6, <2>2
  <2>3. CASE i = d + 1
    BY <1>4, <1>6, <2>3
  <2> QED BY <2>1, <2>2, <2>3
<1>10. ASSUME NEW k \in 1..n, NEW l \in 1..d + 1, SplitOpen(frames, done, k, l)
       PROVE  /\ \A i \in l..d + 1 : e[i] \in Reach(frames[k])
              /\ \A i \in 1..l - 1 : \A c \in Successors(e[i]) :
                   (\A m \in l..d + 1 : c # e[m]) /\ (\A m \in k..n - 1 : c # f[m])
  <2>1. /\ l..d + 1 = l..d \cup {d + 1} /\ l..d \subseteq 1..d /\ 1..l - 1 \subseteq 1..d
        /\ k..n - 1 \subseteq 1..n - 1 /\ k..n - 1 \subseteq k..n /\ n \in k..n /\ n \in 1..n
    BY <1>1
  <2>2. top \in Reach(frames[k])
    BY <1>1, <1>6, <2>1 DEF top
  <2>3. \A i \in l..d + 1 : e[i] \in Reach(frames[k])
    BY <1>4, <1>10, <2>1, <2>2 DEF SplitOpen, d
  <2>4. ASSUME NEW i \in 1..l - 1, NEW c \in Successors(e[i])
        PROVE  (\A m \in l..d + 1 : c # e[m]) /\ (\A m \in k..n - 1 : c # f[m])
    <3>1. e[i] = done[i]
      BY <1>4, <2>1
    <3>2. (\A m \in l..d : c # done[m]) /\ (\A m \in k..n : c # frames[m])
      BY <1>10, <2>4, <3>1 DEF SplitOpen, d, n
    <3> QED BY <1>3, <1>4, <2>1, <3>2 DEF top
  <2> QED BY <2>3, <2>4
<1>11. ASSUME NEW k \in 1..Len(f) PROVE \E l \in 1..Len(e) + 1 : SplitOpen(f, e, k, l)
  <2>1. k \in 1..n - 1 /\ k \in 1..n
    BY <1>3, <1>5
  <2>2. PICK l \in 1..d + 1 : SplitOpen(frames, done, k, l)
    BY <1>6, <2>1
  <2>3. f[k] = frames[k]
    BY <1>3, <2>1
  <2>4. SplitOpen(f, e, k, l)
    <3>1. /\ \A i \in l..d + 1 : e[i] \in Reach(frames[k])
          /\ \A i \in 1..l - 1 : \A c \in Successors(e[i]) :
               (\A m \in l..d + 1 : c # e[m]) /\ (\A m \in k..n - 1 : c # f[m])
      BY <1>10, <2>1, <2>2
    <3> QED BY <1>3, <1>4, <2>3, <3>1 DEF SplitOpen
  <2>5. l \in 1..Len(e) + 1
    BY <1>1, <1>4
  <2> QED BY <2>4, <2>5
<1>12. ASSUME NEW j \in 1..Len(e) PROVE \E l \in 1..j : SplitDone(e, j, l)
  <2>1. CASE j \in 1..d
    <3>1. PICK l \in 1..j : SplitDone(done, j, l)
      BY <1>6, <2>1
    <3>2. l..j \subseteq 1..d /\ 1..l - 1 \subseteq 1..d /\ j \in 1..d
      BY <1>1, <2>1
    <3>3. SplitDone(e, j, l)
      BY <1>4, <3>1, <3>2 DEF SplitDone
    <3> QED BY <3>3
  <2>2. CASE j = d + 1
    <3>1. PICK l \in 1..d + 1 : SplitOpen(frames, done, n, l)
      BY <1>5, <1>6
    <3>2. /\ \A i \in l..d + 1 : e[i] \in Reach(frames[n])
          /\ \A i \in 1..l - 1 : \A c \in Successors(e[i]) : \A m \in l..d + 1 : c # e[m]
      BY <1>5, <1>10, <3>1
    <3>3. e[j] = frames[n]
      BY <1>4, <2>2 DEF top
    <3>4. SplitDone(e, j, l)
      BY <2>2, <3>2, <3>3 DEF SplitDone
    <3> QED BY <2>2, <3>1, <3>4
  <2> QED BY <1>4, <1>5, <2>1, <2>2
<1> QED BY <1>7, <1>8, <1>9, <1>11, <1>12 DEF SearchInv, n, d, f, e, top

\* The search takes the smallest of some blocks or positions: it is one of them.
LEMMA MinMember ==
    ASSUME NEW S \in SUBSET Nat, S # {}
    PROVE  Min(S) \in S
<1>1. \E x \in S : \A y \in S : x =< y
  BY NatLeast
<1> QED BY <1>1 DEF Min

\* The search after some turns: each enters a block or leaves one, until all are left.
SearchAt(s, n) ==
    /\ s \in [stack : Seq(Nodes), visited : SUBSET Nodes, finished : Seq(Nodes)]
    /\ SearchInv(s.stack, s.visited, s.finished)
    /\ \/ n = Len(s.stack) + 2 * Len(s.finished)
       \/ s.stack = <<>> /\ s.visited = Nodes

\* A turn of the search keeps its invariant and counts.
LEMMA SearchTurn ==
    ASSUME CFInv, phase \notin {"edges", "traverse"}, Nodes \subseteq Nat,
           NEW s, NEW n \in Nat, SearchAt(s, n)
    PROVE  SearchAt(SearchStep(s), n + 1)
<1> DEFINE rest == Nodes \ s.visited
           top == s.stack[Len(s.stack)]
           unvisited == {i \in DOMAIN edges[top] : edges[top][i] \in rest}
           Enter(b) == [s EXCEPT !.stack = Append(@, b), !.visited = @ \cup {b}]
           Leaving == [s EXCEPT !.stack = Front(@), !.finished = Append(@, top)]
<1>1. /\ s \in [stack : Seq(Nodes), visited : SUBSET Nodes, finished : Seq(Nodes)]
      /\ SearchInv(s.stack, s.visited, s.finished)
      /\ n = Len(s.stack) + 2 * Len(s.finished) \/ (s.stack = <<>> /\ s.visited = Nodes)
      /\ Len(s.stack) \in Nat /\ Len(s.finished) \in Nat
  BY DEF SearchAt
<1>2. SearchStep(s) = IF s.stack = <<>> THEN IF rest = {} THEN s ELSE Enter(Min(rest))
                      ELSE IF unvisited # {} THEN Enter(edges[top][Min(unvisited)])
                      ELSE Leaving
  BY DEF SearchStep
<1> HIDE DEF rest
<1>3. ASSUME NEW b \in rest, \A k \in 1..Len(s.stack) : b \in Reach(s.stack[k])
      PROVE  SearchAt(Enter(b), n + 1)
  <2>1. b \in Nodes \ s.visited
    BY DEF rest
  <2>2. SearchInv(Append(s.stack, b), s.visited \cup {b}, s.finished)
    BY <1>1, <1>3, <2>1, SearchEnter
  <2>3. /\ Enter(b).stack = Append(s.stack, b) /\ Enter(b).visited = s.visited \cup {b}
        /\ Enter(b).finished = s.finished
        /\ Enter(b) \in [stack : Seq(Nodes), visited : SUBSET Nodes, finished : Seq(Nodes)]
    <3> DEFINE g == Append(s.stack, b)
               v == s.visited \cup {b}
    <3>1. g \in Seq(Nodes) /\ v \in SUBSET Nodes
      BY <1>1, <2>1
    <3>2. Enter(b) = [s EXCEPT !.stack = g, !.visited = v]
      OBVIOUS
    <3> HIDE DEF g, v, Enter
    <3>3. /\ Enter(b).stack = g /\ Enter(b).visited = v /\ Enter(b).finished = s.finished
          /\ Enter(b) \in [stack : Seq(Nodes), visited : SUBSET Nodes, finished : Seq(Nodes)]
      BY <1>1, <3>1, <3>2
    <3> QED BY <3>3 DEF g, v
  <2>4. n + 1 = Len(Append(s.stack, b)) + 2 * Len(s.finished)
    <3>1. n = Len(s.stack) + 2 * Len(s.finished)
      <4>1. s.visited # Nodes
        BY <2>1
      <4> QED BY <4>1, Zenon DEF SearchAt
    <3>2. Len(Append(s.stack, b)) = Len(s.stack) + 1
      BY <1>1
    <3> QED BY <1>1, <3>1, <3>2
  <2> HIDE DEF Enter
  <2> QED BY <2>2, <2>3, <2>4 DEF SearchAt
<1>4. CASE s.stack = <<>> /\ rest = {}
  <2>1. SearchStep(s) = s
    BY <1>2, <1>4
  <2>2. s.visited = Nodes
    BY <1>1, <1>4 DEF rest
  <2> QED BY <1>1, <1>4, <2>1, <2>2 DEF SearchAt
<1>5. CASE s.stack = <<>> /\ rest # {}
  <2>1. SearchStep(s) = Enter(Min(rest))
    BY <1>2, <1>5
  <2>2. Min(rest) \in rest
    BY <1>5, MinMember DEF rest
  <2>3. \A k \in 1..Len(s.stack) : Min(rest) \in Reach(s.stack[k])
    BY <1>5
  <2> HIDE DEF Enter
  <2> QED BY <1>3, <2>1, <2>2, <2>3
<1>6. ASSUME s.stack # <<>>
      PROVE  /\ Len(s.stack) \in 1..Len(s.stack) /\ top \in Nodes
             /\ edges[top] \in Seq(Nodes)
             /\ \A c \in Successors(top) : \A k \in 1..Len(s.stack) : c \in Reach(s.stack[k])
             /\ DOMAIN edges[top] \subseteq Nat
             /\ \A i \in DOMAIN edges[top] : edges[top][i] \in Successors(top)
  <2>1. Len(s.stack) \in 1..Len(s.stack) /\ top \in Nodes
    BY <1>1, <1>6
  <2>2. edges[top] \in Seq(Catalog)
    <3>1. top \in Block
      BY <2>1, InputFacts DEF CFInv, CFTypeOK, Nodes
    <3> QED BY <3>1 DEF CFInv, CFTypeOK
  <2>3. /\ DOMAIN edges[top] \subseteq Nat
        /\ \A i \in DOMAIN edges[top] : edges[top][i] \in Successors(top)
    BY <2>2 DEF Successors
  <2>4. edges[top] \in Seq(Nodes)
    <3>1. DOMAIN edges[top] = 1..Len(edges[top]) /\ Len(edges[top]) \in Nat
      BY <2>2
    <3>2. \A i \in DOMAIN edges[top] : edges[top][i] \in Nodes
      BY <2>1, <2>3, NodesFacts
    <3> QED BY <2>2, <3>1, <3>2
  <2>5. ASSUME NEW c \in Successors(top), NEW k \in 1..Len(s.stack)
        PROVE  c \in Reach(s.stack[k])
    <3>1. k <= Len(s.stack) /\ s.stack[k] \in Nodes
      BY <1>1
    <3>2. top \in Reach(s.stack[k])
      BY <1>1, <2>1, <3>1 DEF SearchInv
    <3> QED BY <2>5, <3>1, <3>2, ReachFacts
  <2> QED BY <2>1, <2>3, <2>4, <2>5
<1>7. CASE s.stack # <<>> /\ unvisited # {}
  <2> DEFINE i == Min(unvisited)
  <2>1. SearchStep(s) = Enter(edges[top][i])
    BY <1>2, <1>7
  <2>2. i \in DOMAIN edges[top] /\ edges[top][i] \in rest
    <3>1. unvisited \in SUBSET Nat
      BY <1>6, <1>7
    <3>2. Min(unvisited) \in unvisited
      BY <1>7, <3>1, MinMember
    <3> QED BY <3>2
  <2>3. \A k \in 1..Len(s.stack) : edges[top][i] \in Reach(s.stack[k])
    BY <1>6, <1>7, <2>2
  <2> HIDE DEF Enter, i, top
  <2> QED BY <1>3, <2>1, <2>2, <2>3
<1>8. CASE s.stack # <<>> /\ unvisited = {}
  <2>1. SearchStep(s) = Leaving
    BY <1>2, <1>8
  <2>2. Successors(top) \subseteq s.visited
    <3>1. \A i \in DOMAIN edges[top] : edges[top][i] \in Nodes /\ edges[top][i] \notin rest
      BY <1>6, <1>8
    <3> QED BY <3>1 DEF Successors, rest
  <2>3. SearchInv(Front(s.stack), s.visited, Append(s.finished, top))
    BY <1>1, <1>8, <2>2, SearchLeave
  <2>4. /\ Leaving.stack = Front(s.stack) /\ Leaving.visited = s.visited
        /\ Leaving.finished = Append(s.finished, top)
    BY <1>1
  <2>5. Front(s.stack) \in Seq(Nodes) /\ Append(s.finished, top) \in Seq(Nodes)
    BY <2>3 DEF SearchInv, SearchTypes
  <2>6. Leaving \in [stack : Seq(Nodes), visited : SUBSET Nodes, finished : Seq(Nodes)]
    BY <1>1, <2>5
  <2>7. n + 1 = Len(Front(s.stack)) + 2 * Len(Append(s.finished, top))
    <3>1. Len(Append(s.finished, top)) = Len(s.finished) + 1
      BY <1>1, <1>6, <1>8
    <3>2. Len(Front(s.stack)) = Len(s.stack) - 1
      <4>1. s.stack \in Seq(Nodes) /\ Len(s.stack) \in Nat \ {0}
        BY <1>1, <1>8
      <4>2. Front(s.stack) = [i \in 1..Len(s.stack) - 1 |-> s.stack[i]]
        BY <4>1 DEF Front
      <4> QED BY <4>1, <4>2
    <3>3. n = Len(s.stack) + 2 * Len(s.finished)
      BY <1>1, <1>8
    <3> QED BY <1>1, <3>1, <3>2, <3>3
  <2> HIDE DEF Leaving, top
  <2> QED BY <2>1, <2>3, <2>4, <2>6, <2>7 DEF SearchAt
<1> QED BY <1>4, <1>5, <1>7, <1>8

\* The search ends with every block left, in an order that is split as above everywhere.
LEMMA FinishFacts ==
    ASSUME CFInv, phase \notin {"edges", "traverse"}, Nodes \subseteq Nat
    PROVE  /\ FinishOrder \in Seq(Nodes)
           /\ \A b \in Nodes : \E i \in 1..Len(FinishOrder) : FinishOrder[i] = b
           /\ \A j \in 1..Len(FinishOrder) : \E l \in 1..j : SplitDone(FinishOrder, j, l)
<1> DEFINE C == Cardinality(Nodes)
           N == 2 * C
           S == [stack |-> <<>>, visited |-> {}, finished |-> <<>>]
           F == LET search[n \in 0..N] == IF n = 0 THEN S ELSE SearchStep(search[n - 1])
                IN  search
           IsFold(f, n) == f = [i \in 0..n |-> IF i = 0 THEN S ELSE SearchStep(f[i - 1])]
           M == {m \in Nat : \E f : IsFold(f, m)}
<1>1. C \in Nat /\ N \in Nat /\ IsFiniteSet(Nodes)
  BY NodesFacts, FS_CardinalityType
<1>2. Search = F[N]
  BY DEF Search
<1> HIDE DEF S
<1>3. 0 \in M
  <2> DEFINE f == [i \in 0..0 |-> S]
  <2>1. IsFold(f, 0)
    OBVIOUS
  <2> HIDE DEF f
  <2> QED BY <2>1
<1>4. ASSUME NEW m \in Nat, m \in M PROVE m + 1 \in M
  <2>1. PICK g : IsFold(g, m)
    BY <1>4
  <2> DEFINE f == [i \in 0..m + 1 |-> IF i = m + 1 THEN SearchStep(g[m]) ELSE g[i]]
  <2>2. \A i \in 0..m + 1 : f[i] = IF i = 0 THEN S ELSE SearchStep(f[i - 1])
    BY <2>1
  <2>3. IsFold(f, m + 1)
    BY <2>2
  <2> HIDE DEF f
  <2> QED BY <2>3
<1>5. IsFold(F, N)
  <2>1. Nat \subseteq M
    <3> HIDE DEF M
    <3> QED BY <1>3, <1>4, NatClosure
  <2>2. PICK f : IsFold(f, N)
    BY <1>1, <2>1
  <2> HIDE DEF N
  <2> QED BY <2>2
<1> HIDE DEF F, M
<1>6. F[0] = S /\ \A i \in 1..N : F[i] = SearchStep(F[i - 1])
  <2> HIDE DEF N
  <2> QED BY <1>1, <1>5
<1>7. SearchAt(S, 0)
  <2>1. /\ S \in [stack : Seq(Nodes), visited : SUBSET Nodes, finished : Seq(Nodes)]
        /\ S.stack = <<>> /\ S.visited = {} /\ S.finished = <<>>
    BY DEF S
  <2>2. Len(<<>>) = 0 /\ 1..0 = {} /\ <<>> \in Seq(Nodes) /\ Cardinality({}) = 0
    BY FS_EmptySet
  <2>3. SearchTypes(<<>>, {}, <<>>)
    BY <2>2 DEF SearchTypes
  <2>4. SearchInv(<<>>, {}, <<>>)
    BY <2>2, <2>3 DEF SearchInv
  <2> QED BY <2>1, <2>2, <2>4 DEF SearchAt
<1>8. SearchAt(F[N], N)
  <2> DEFINE K == {n \in Nat : n <= N => SearchAt(F[n], n)}
  <2>1. 0 \in K
    BY <1>6, <1>7
  <2>2. ASSUME NEW n \in Nat, n \in K PROVE n + 1 \in K
    <3> SUFFICES ASSUME n + 1 <= N PROVE SearchAt(F[n + 1], n + 1)
      OBVIOUS
    <3> HIDE DEF N
    <3>1. SearchAt(F[n], n)
      BY <1>1, <2>2
    <3>2. F[n + 1] = SearchStep(F[n])
      <4>1. n + 1 \in 1..N /\ (n + 1) - 1 = n
        BY <1>1
      <4>2. F[n + 1] = SearchStep(F[(n + 1) - 1])
        BY <1>6, <4>1
      <4> QED BY <4>1, <4>2
    <3> QED BY <3>1, <3>2, SearchTurn
  <2>3. Nat \subseteq K
    <3> HIDE DEF K
    <3> QED BY <2>1, <2>2, NatClosure
  <2> HIDE DEF N
  <2> QED BY <1>1, <2>3
<1> DEFINE s == F[N]
<1> HIDE DEF s
<1>9. /\ SearchInv(s.stack, s.visited, s.finished)
      /\ N = Len(s.stack) + 2 * Len(s.finished) \/ (s.stack = <<>> /\ s.visited = Nodes)
      /\ s.stack \in Seq(Nodes) /\ s.finished \in Seq(Nodes) /\ s.visited \in SUBSET Nodes
  BY <1>8 DEF SearchAt, s
<1>10. s.stack = <<>> /\ s.visited = Nodes
  <2> SUFFICES ASSUME N = Len(s.stack) + 2 * Len(s.finished)
               PROVE  s.stack = <<>> /\ s.visited = Nodes
    BY <1>9
  <2>1. /\ Cardinality(s.visited) = Len(s.stack) + Len(s.finished)
        /\ Cardinality(s.visited) <= C
        /\ Cardinality(s.visited) = C => s.visited = Nodes
    <3>1. Cardinality(s.visited) = Len(s.stack) + Len(s.finished)
      BY <1>9 DEF SearchInv, SearchTypes
    <3> QED BY <1>1, <1>9, <3>1, FS_Subset
  <2>2. Len(s.stack) \in Nat /\ Len(s.finished) \in Nat
    BY <1>9
  <2>3. Len(s.stack) = 0 /\ Cardinality(s.visited) = C
    <3> DEFINE x == Len(s.stack)
               y == Len(s.finished)
    <3>1. x \in Nat /\ y \in Nat /\ 2 * C = x + 2 * y /\ x + y <= C
      BY <2>1, <2>2
    <3> HIDE DEF x, y, C
    <3>2. x = 0 /\ y = C
      BY <1>1, <3>1
    <3> QED BY <1>1, <2>1, <3>2 DEF x, y
  <2> QED BY <1>9, <2>1, <2>3
<1>11. FinishOrder = s.finished
  BY <1>2 DEF FinishOrder, s
<1>12. Nodes = {s.finished[i] : i \in 1..Len(s.finished)}
  <2>1. s.visited = {s.stack[i] : i \in 1..Len(s.stack)}
                      \cup {s.finished[i] : i \in 1..Len(s.finished)}
    BY <1>9 DEF SearchInv, SearchTypes
  <2>2. 1..Len(s.stack) = {}
    BY <1>10
  <2> QED BY <1>10, <2>1, <2>2
<1>13. \A j \in 1..Len(s.finished) : \E l \in 1..j : SplitDone(s.finished, j, l)
  BY <1>9 DEF SearchInv
<1> QED BY <1>9, <1>11, <1>12, <1>13

-----------------------------------------------------------------------------
(* Strongly connected components. *)

\* The blocks that reach a block and that it reaches.
Mutual(v) == {x \in Nodes : v \in Reach(x) /\ x \in Reach(v)}

\* A walk backwards in what is left, if nothing left leads to what is not, finds what
\* reaches its start.
LEMMA BackwardClosure ==
    ASSUME CFInv, phase \notin {"edges", "traverse"},
           NEW V \in SUBSET Nodes, \A b \in V : Predecessors(b) \subseteq V, NEW v \in Nodes \ V
    PROVE  LET C == Closure({v}, Backward, Nodes \ V)
           IN  /\ C = {x \in Nodes \ V : v \in Reach(x)}
               /\ \A b \in C : Predecessors(b) \subseteq V \cup C
<1> DEFINE W == Nodes \ V
           C == Closure({v}, Backward, W)
<1>1. /\ IsFiniteSet(Nodes)
      /\ \A b \in Nodes : Backward[b] = Predecessors(b) /\ Predecessors(b) \subseteq Nodes
      /\ \A a, b \in Nodes : b \in Successors(a) <=> a \in Predecessors(b)
      /\ \A b \in Nodes : Successors(b) \subseteq Nodes
  BY NodesFacts
<1>2. /\ v \in C /\ C \subseteq W /\ \A b \in C : Predecessors(b) \cap W \subseteq C
      /\ \A T \in SUBSET W :
           (v \in T /\ \A b \in T : Predecessors(b) \cap W \subseteq T) => C \subseteq T
  <2>1. {v} \in SUBSET W /\ IsFiniteSet(W)
    BY <1>1, FS_Subset
  <2>2. /\ {v} \subseteq C /\ C \subseteq W /\ \A b \in C : Backward[b] \cap W \subseteq C
        /\ \A T \in SUBSET W :
             ({v} \subseteq T /\ \A b \in T : Backward[b] \cap W \subseteq T) => C \subseteq T
    <3> HIDE DEF W
    <3> QED BY <2>1, ClosureLeast, ZenonT(60)
  <2>3. \A b \in W : Backward[b] = Predecessors(b)
    BY <1>1
  <2> HIDE DEF W, C
  <2> QED BY <2>2, <2>3
<1> HIDE DEF C
<1>3. C \subseteq {x \in W : v \in Reach(x)}
  <2> DEFINE T == {x \in W : v \in Reach(x)}
  <2>1. T \in SUBSET W /\ v \in T
    BY ReachFacts
  <2>2. ASSUME NEW b \in T, NEW p \in Predecessors(b) \cap W PROVE p \in T
    <3>1. b \in Nodes /\ p \in Nodes /\ b \in Successors(p) /\ v \in Reach(b)
      BY <1>1, <2>2
    <3>2. b \in Reach(p)
      BY <3>1, ReachFacts
    <3>3. Reach(b) \subseteq Reach(p)
      BY <3>1, <3>2, ReachFacts
    <3> QED BY <2>2, <3>1, <3>3
  <2> HIDE DEF T
  <2>3. C \subseteq T
    BY <1>2, <2>1, <2>2
  <2> QED BY <2>3 DEF T
<1>4. ASSUME NEW x \in W, v \in Reach(x), x \notin C PROVE FALSE
  <2> DEFINE T == W \ C
  <2>1. T \in SUBSET Nodes /\ x \in T /\ v \notin T
    BY <1>2, <1>4
  <2>2. ASSUME NEW a \in T, NEW c \in Successors(a) PROVE c \in T
    <3>1. a \in Nodes /\ c \in Nodes /\ a \in Predecessors(c) /\ a \in W
      BY <1>1, <2>2
    <3> QED BY <1>2, <2>2, <3>1
  <2> HIDE DEF T
  <2>3. Reach(x) \subseteq T
    BY <2>1, <2>2, ReachFacts
  <2> QED BY <1>4, <2>1, <2>3
<1>5. \A b \in C : Predecessors(b) \subseteq V \cup C
  BY <1>1, <1>2
<1> HIDE DEF W
<1>6. C = {x \in W : v \in Reach(x)}
  BY <1>3, <1>4
<1> QED BY <1>5, <1>6 DEF W, C

\* The components found in some turns, from the last finished backwards.
ComponentsAt(found, n) ==
    /\ UNION found \subseteq Nodes
    /\ \A b \in UNION found : Predecessors(b) \subseteq UNION found
    /\ \A k \in 1..Len(FinishOrder) : k > Len(FinishOrder) - n => FinishOrder[k] \in UNION found
    /\ \A C \in found : \E v \in Nodes : C = Mutual(v)

\* A turn adds the blocks on a cycle with the last one left that is in no component yet.
\* It reaches nothing that was left before it and has no edge to it.
LEMMA ComponentTurn ==
    ASSUME CFInv, phase \notin {"edges", "traverse"}, Nodes \subseteq Nat,
           NEW found, NEW n \in Nat, n < Len(FinishOrder), ComponentsAt(found, n)
    PROVE  ComponentsAt(AddComponent(found, FinishOrder[Len(FinishOrder) - n]), n + 1)
<1> DEFINE order == FinishOrder
           j == Len(order) - n
           v == order[j]
           V == UNION found
           C == Closure({v}, Backward, Nodes \ V)
<1>1. /\ order \in Seq(Nodes) /\ Len(order) \in Nat
      /\ \A b \in Nodes : \E i \in 1..Len(order) : order[i] = b
      /\ \A i \in 1..Len(order) : \E l \in 1..i : SplitDone(order, i, l)
  BY FinishFacts
<1>2. j \in 1..Len(order) /\ j \in Nat /\ j + n = Len(order)
  BY <1>1
<1>3. v \in Nodes
  BY <1>1, <1>2
<1>4. /\ V \in SUBSET Nodes /\ \A b \in V : Predecessors(b) \subseteq V
      /\ \A k \in 1..Len(order) : k > j => order[k] \in V
      /\ \A D \in found : \E u \in Nodes : D = Mutual(u)
  BY DEF ComponentsAt
<1> HIDE DEF order, j, v, V, C
<1>5. CASE v \in V
  <2>1. AddComponent(found, v) = found
    BY <1>5 DEF AddComponent, V
  <2>2. \A k \in 1..Len(order) : k > Len(order) - (n + 1) => order[k] \in V
    <3> SUFFICES ASSUME NEW k \in 1..Len(order), k > Len(order) - (n + 1) PROVE order[k] \in V
      OBVIOUS
    <3>1. k > j \/ k = j
      BY <1>1, <1>2
    <3> QED BY <1>4, <1>5, <3>1 DEF v
  <2> QED BY <1>4, <2>1, <2>2 DEF ComponentsAt, order, j, v, V
<1>6. CASE v \notin V
  <2>1. AddComponent(found, v) = found \cup {C}
    BY <1>6 DEF AddComponent, V, C
  <2>2. C = {x \in Nodes \ V : v \in Reach(x)} /\ \A b \in C : Predecessors(b) \subseteq V \cup C
    BY <1>3, <1>4, <1>6, BackwardClosure DEF C
  <2>3. \A x \in V : \A y \in Nodes : x \in Reach(y) => y \in V
    <3> SUFFICES ASSUME NEW x \in V, NEW y \in Nodes \ V, x \in Reach(y) PROVE FALSE
      OBVIOUS
    <3> DEFINE T == Nodes \ V
    <3>1. ASSUME NEW a \in T, NEW c \in Successors(a) PROVE c \in T
      <4>1. a \in Nodes /\ c \in Nodes /\ a \in Predecessors(c)
        BY <3>1, NodesFacts
      <4> QED BY <1>4, <3>1, <4>1
    <3>2. T \in SUBSET Nodes /\ y \in T /\ x \notin T
      OBVIOUS
    <3> HIDE DEF T
    <3>3. Reach(y) \subseteq T
      BY <3>1, <3>2, ReachFacts
    <3> QED BY <3>2, <3>3
  <2>4. \A x \in C : x \in Reach(v)
    <3> SUFFICES ASSUME NEW x \in C, x \notin Reach(v) PROVE FALSE
      OBVIOUS
    <3>1. x \in Nodes /\ x \notin V /\ v \in Reach(x)
      BY <2>2
    <3>2. PICK l \in 1..j : SplitDone(order, j, l)
      BY <1>1, <1>2
    <3>3. l \in Nat /\ l >= 1 /\ l <= j
      BY <1>2
    <3> DEFINE T == {y \in Nodes \ V : \A m \in l..j : order[m] # y}
    <3>4. \A y \in Nodes \ V : \E i \in 1..j : order[i] = y
      <4> SUFFICES ASSUME NEW y \in Nodes \ V PROVE \E i \in 1..j : order[i] = y
        OBVIOUS
      <4>1. PICK i \in 1..Len(order) : order[i] = y
        BY <1>1
      <4>2. ~(i > j)
        BY <1>4, <4>1
      <4>3. i \in 1..j
        BY <1>1, <1>2, <4>2
      <4> QED BY <4>1, <4>3
    <3>5. T \in SUBSET Nodes /\ v \notin T
      <4>1. j \in l..j
        BY <1>2, <3>3
      <4> QED BY <4>1 DEF v
    <3>6. x \in T
      <4>1. \A m \in l..j : order[m] \in Reach(v)
        BY <3>2 DEF SplitDone, v
      <4> QED BY <3>1, <4>1
    <3>7. ASSUME NEW a \in T, NEW c \in Successors(a) PROVE c \in T
      <4>1. a \in Nodes /\ c \in Nodes /\ a \in Predecessors(c) /\ a \notin V
        BY <3>7, NodesFacts
      <4>2. c \notin V
        BY <1>4, <4>1
      <4>3. PICK i \in 1..j : order[i] = a
        BY <3>4, <4>1
      <4>4. i \in 1..l - 1
        <5>1. i \notin l..j
          BY <3>7, <4>3
        <5> QED BY <1>2, <3>3, <5>1
      <4>5. \A m \in l..j : c # order[m]
        BY <3>2, <3>7, <4>3, <4>4 DEF SplitDone
      <4> QED BY <4>1, <4>2, <4>5
    <3> HIDE DEF T
    <3>8. Reach(x) \subseteq T
      BY <3>1, <3>5, <3>6, <3>7, ReachFacts
    <3> QED BY <3>1, <3>5, <3>8
  <2>5. C = Mutual(v)
    <3>1. ASSUME NEW x \in Nodes, v \in Reach(x), x \in Reach(v) PROVE x \in C
      <4>1. x \notin V
        BY <1>3, <1>6, <2>3, <3>1
      <4> QED BY <2>2, <3>1, <4>1
    <3> QED BY <2>2, <2>4, <3>1 DEF Mutual
  <2>6. v \in C
    BY <1>3, <1>6, <2>2, ReachFacts
  <2>7. UNION (found \cup {C}) = V \cup C
    BY DEF V
  <2>8. \A k \in 1..Len(order) : k > Len(order) - (n + 1) => order[k] \in V \cup C
    <3> SUFFICES ASSUME NEW k \in 1..Len(order), k > Len(order) - (n + 1)
                 PROVE  order[k] \in V \cup C
      OBVIOUS
    <3>1. k > j \/ k = j
      BY <1>1, <1>2
    <3> QED BY <1>4, <2>6, <3>1 DEF v
  <2>9. V \cup C \subseteq Nodes /\ \A b \in V \cup C : Predecessors(b) \subseteq V \cup C
    BY <1>4, <2>2
  <2>10. \A D \in found \cup {C} : \E u \in Nodes : D = Mutual(u)
    BY <1>3, <1>4, <2>5
  <2> QED BY <2>1, <2>7, <2>8, <2>9, <2>10 DEF ComponentsAt, order, j, v
<1> QED BY <1>5, <1>6 DEF order, j, v

\* The code's components are the classes of blocks that reach each other.
LEMMA ComponentsExact ==
    ASSUME CFInv, phase \notin {"edges", "traverse"}, Nodes \subseteq Nat
    PROVE  StronglyConnectedComponents = {Mutual(v) : v \in Nodes}
<1> DEFINE order == FinishOrder
           N == Len(order)
           Turn(X, i) == AddComponent(X, order[N + 1 - i])
           F == LET components[n \in 0..N] ==
                      IF n = 0 THEN {} ELSE AddComponent(components[n - 1], order[N + 1 - n])
                IN  components
           IsFold(f, n) ==
             f = [i \in 0..n |-> IF i = 0 THEN {} ELSE Turn(f[i - 1], i)]
           M == {m \in Nat : \E f : IsFold(f, m)}
<1>1. /\ order \in Seq(Nodes) /\ N \in Nat
      /\ \A b \in Nodes : \E i \in 1..N : order[i] = b
  BY FinishFacts
<1>2. StronglyConnectedComponents = F[N]
  BY DEF StronglyConnectedComponents
<1> HIDE DEF order, N, Turn
<1>3. 0 \in M
  <2> DEFINE f == [i \in 0..0 |-> {}]
  <2>1. IsFold(f, 0)
    OBVIOUS
  <2> HIDE DEF f
  <2> QED BY <2>1
<1>4. ASSUME NEW m \in Nat, m \in M PROVE m + 1 \in M
  <2>1. PICK g : IsFold(g, m)
    BY <1>4
  <2> DEFINE f == [i \in 0..m + 1 |->
                     IF i = m + 1 THEN Turn(g[m], m + 1) ELSE g[i]]
  <2>2. \A i \in 0..m + 1 : f[i] = IF i = 0 THEN {} ELSE Turn(f[i - 1], i)
    BY <2>1
  <2>3. IsFold(f, m + 1)
    BY <2>2
  <2> HIDE DEF f
  <2> QED BY <2>3
<1>5. IsFold(F, N)
  <2>1. Nat \subseteq M
    <3> HIDE DEF M
    <3> QED BY <1>3, <1>4, NatClosure
  <2>2. PICK f : IsFold(f, N)
    BY <1>1, <2>1
  <2>3. F = CHOOSE components : IsFold(components, N)
    BY DEF Turn
  <2> HIDE DEF F, IsFold
  <2> QED BY <2>2, <2>3, Zenon
<1> HIDE DEF F, M
<1>6. F[0] = {} /\ \A i \in 1..N : F[i] = AddComponent(F[i - 1], order[N + 1 - i])
  <2>1. 0 \in 0..N /\ \A i \in 1..N : i \in 0..N /\ i # 0
    BY <1>1
  <2>2. \A i \in 0..N : F[i] = IF i = 0 THEN {} ELSE Turn(F[i - 1], i)
    BY <1>5
  <2>3. F[0] = {} /\ \A i \in 1..N : F[i] = Turn(F[i - 1], i)
    BY <2>1, <2>2
  <2> QED BY <2>3 DEF Turn
<1>7. ComponentsAt({}, 0)
  <2>1. \A k \in 1..N : ~(k > N - 0)
    BY <1>1
  <2> QED BY <2>1 DEF ComponentsAt, order, N
<1>8. ComponentsAt(F[N], N)
  <2> DEFINE K == {n \in Nat : n <= N => ComponentsAt(F[n], n)}
  <2>1. 0 \in K
    BY <1>6, <1>7
  <2>2. ASSUME NEW n \in Nat, n \in K PROVE n + 1 \in K
    <3> SUFFICES ASSUME n + 1 <= N PROVE ComponentsAt(F[n + 1], n + 1)
      OBVIOUS
    <3>1. ComponentsAt(F[n], n) /\ n < N
      BY <1>1, <2>2
    <3>2. n + 1 \in 1..N /\ (n + 1) - 1 = n /\ N + 1 - (n + 1) = N - n
      BY <1>1
    <3>3. F[n + 1] = AddComponent(F[n], order[N - n])
      BY <1>6, <3>2
    <3> QED BY <3>1, <3>3, ComponentTurn DEF order, N
  <2>3. Nat \subseteq K
    <3> HIDE DEF K
    <3> QED BY <2>1, <2>2, NatClosure
  <2> QED BY <1>1, <2>3
<1> DEFINE found == F[N]
<1> HIDE DEF found
<1>9. \A C \in found : \E v \in Nodes : C = Mutual(v)
  BY <1>8 DEF ComponentsAt, found
<1>10. Nodes \subseteq UNION found
  <2>1. \A k \in 1..N : k > N - N => order[k] \in UNION found
    BY <1>8 DEF ComponentsAt, found, order, N
  <2>2. \A k \in 1..N : k > N - N
    BY <1>1
  <2> QED BY <1>1, <2>1, <2>2
<1>11. ASSUME NEW v \in Nodes PROVE Mutual(v) \in found
  <2>1. PICK C \in found : v \in C
    BY <1>10
  <2>2. PICK u \in Nodes : C = Mutual(u)
    BY <1>9
  <2>3. v \in Reach(u) /\ u \in Reach(v)
    BY <2>1, <2>2 DEF Mutual
  <2>4. Reach(v) = Reach(u) /\ \A x \in Nodes : v \in Reach(x) <=> u \in Reach(x)
    BY <2>3, ReachFacts
  <2>5. Mutual(v) = Mutual(u)
    BY <2>4 DEF Mutual
  <2> QED BY <2>2, <2>5
<1> QED BY <1>2, <1>9, <1>11 DEF found

\* A walk to another block comes to it over an edge.
LEMMA LastEdge ==
    ASSUME CFInv, phase \notin {"edges", "traverse"},
           NEW x \in Nodes, NEW h \in Reach(x), x # h
    PROVE  \E l \in Reach(x) : h \in Successors(l)
<1> SUFFICES ASSUME \A l \in Reach(x) : h \notin Successors(l)
             PROVE  FALSE
  OBVIOUS
<1> DEFINE T == Reach(x) \ {h}
<1>1. T \in SUBSET Nodes /\ x \in T /\ \A a \in T : Successors(a) \subseteq T
  BY ReachFacts
<1>2. h \notin T
  OBVIOUS
<1> HIDE DEF T
<1>3. Reach(x) \subseteq T
  BY <1>1, ReachFacts
<1> QED BY <1>2, <1>3

-----------------------------------------------------------------------------
(* Loops and regions. *)

\* What the code reports of cycles.
LEMMA LoopSteps ==
    ASSUME DomInv, DominatorsExact
    PROVE  LoopsExact
<1> SUFFICES ASSUME phase = "structured"
             PROVE  LoopsExact
  BY DEF LoopsExact
<1> DEFINE e == program.entry
           D == dominators
<1>1. /\ IsFiniteSet(Nodes) /\ Nodes \subseteq Nat /\ e \in Nodes
      /\ DominanceSets(D, {e}, Backward)
      /\ CFInv /\ phase \notin {"edges", "traverse"}
  BY StructuredFacts
<1>2. /\ \A b \in Nodes : Backward[b] = Predecessors(b) /\ Predecessors(b) \subseteq Nodes
      /\ \A b \in Nodes : Successors(b) \subseteq Nodes
  BY <1>1, NodesFacts
<1>3. \A b \in Nodes : e \in D[b]
  <2>1. \A b \in Nodes \ {e} : b \notin {e} /\ Backward[b] \subseteq Nodes
    BY <1>2
  <2> QED BY <1>1, <2>1 DEF DominanceSets
<1>4. StronglyConnectedComponents = {Mutual(v) : v \in Nodes}
  BY <1>1, ComponentsExact
<1>5. \A v \in Nodes : v \in Mutual(v) /\ Mutual(v) \subseteq Nodes
  BY <1>1, ReachFacts DEF Mutual
<1>6. ASSUME NEW loop \in NaturalLoops
      PROVE  /\ \A m \in loop.members : loop.header \in D[m]
             /\ \A m \in loop.members \ {loop.header} : Predecessors(m) \subseteq loop.members
             /\ loop.members =
                  {loop.header} \cup {m \in Nodes : loop.latch \in Avoiding(m, loop.header)}
  <2>1. PICK x \in Nodes \X Nodes :
          /\ x[2] \in D[x[1]]
          /\ loop = [header |-> x[2], latch |-> x[1], members |-> NaturalLoopMembers(x[2], x[1])]
    BY DEF NaturalLoops
  <2> DEFINE h == x[2]
             l == x[1]
  <2>2. /\ h \in Nodes /\ l \in Nodes /\ h \in D[l]
        /\ loop.header = h /\ loop.latch = l /\ loop.members = NaturalLoopMembers(h, l)
    BY <2>1
  <2> HIDE DEF h, l
  <2>3. LET M == NaturalLoopMembers(h, l)
        IN  /\ \A m \in M : h \in D[m]
            /\ \A m \in M \ {h} : Predecessors(m) \subseteq M
            /\ M = {h} \cup {m \in Nodes : l \in Avoiding(m, h)}
    BY <1>1, <2>2, NaturalLoop
  <2> QED BY <2>2, <2>3
<1>7. ASSUME NEW b \in Nodes, NEW a \in Successors(b), b \in Reach(a)
      PROVE  \/ \E loop \in NaturalLoops : loop.header \in Reach(b) /\ b \in Reach(loop.header)
             \/ \E region \in FindIrreducibleRegions : b \in region.members
  <2> DEFINE C == Mutual(b)
  <2>1. a \in Nodes /\ a \in Reach(b) /\ a \in C /\ b \in C /\ C \subseteq Nodes
    BY <1>1, <1>2, <1>5, <1>7, ReachFacts DEF Mutual
  <2>2. C \in StronglyConnectedComponents
    BY <1>4
  <2>3. IsCyclicComponent(C)
    <3>1. CASE a = b
      BY <2>1, <3>1 DEF IsCyclicComponent
    <3>2. CASE a # b
      <4>1. IsFiniteSet(C) /\ Cardinality(C) \in Nat
        BY <1>1, <2>1, FS_Subset, FS_CardinalityType
      <4>2. Cardinality(C) >= 2
        BY <2>1, <3>2, <4>1, TwoMembers
      <4> QED BY <4>1, <4>2 DEF IsCyclicComponent
    <3> QED BY <3>1, <3>2
  <2>4. CASE ~HasDominatingHeader(C)
    <3>1. [members |-> C, entries |-> RegionEntries(C)] \in FindIrreducibleRegions
      BY <2>2, <2>3, <2>4 DEF FindIrreducibleRegions
    <3> QED BY <2>1, <3>1
  <2>5. CASE HasDominatingHeader(C)
    <3>1. PICK h \in C : \A m \in C : h \in D[m]
      BY <2>5 DEF HasDominatingHeader
    <3>2. h \in Nodes /\ h \in Reach(b) /\ b \in Reach(h)
      BY <3>1 DEF Mutual
    <3>3. PICK l \in Reach(b) : h \in Successors(l)
      <4>1. CASE h # b
        BY <1>1, <3>2, <4>1, LastEdge
      <4>2. CASE h = b /\ a = b
        BY <1>1, <1>7, <3>2, <4>2
      <4>3. CASE h = b /\ a # b
        <5>1. \E l \in Reach(a) : h \in Successors(l)
          BY <1>1, <1>7, <2>1, <4>3, LastEdge
        <5>2. Reach(a) \subseteq Reach(b)
          BY <1>1, <2>1, ReachFacts
        <5> QED BY <5>1, <5>2
      <4> QED BY <4>1, <4>2, <4>3
    <3>4. l \in Nodes /\ h \in Reach(l)
      BY <1>1, <3>3, ReachFacts
    <3>5. b \in Reach(l)
      <4>1. Reach(h) \subseteq Reach(l)
        BY <1>1, <3>4, ReachFacts
      <4> QED BY <3>2, <4>1
    <3>6. h \in D[l]
      BY <3>1, <3>3, <3>4, <3>5 DEF Mutual
    <3> DEFINE loop == [header |-> h, latch |-> l, members |-> NaturalLoopMembers(h, l)]
    <3>7. loop \in NaturalLoops
      <4> DEFINE x == <<l, h>>
      <4>1. x \in Nodes \X Nodes /\ x[1] = l /\ x[2] = h
        BY <3>2, <3>4
      <4> HIDE DEF x
      <4>2. x \in {y \in Nodes \X Nodes : y[2] \in Successors(y[1]) /\ y[2] \in dominators[y[1]]}
        BY <3>3, <3>6, <4>1
      <4>3. loop = [header |-> x[2], latch |-> x[1], members |-> NaturalLoopMembers(x[2], x[1])]
        BY <4>1
      <4> HIDE DEF loop
      <4> QED BY <4>2, <4>3 DEF NaturalLoops
    <3>8. loop.header = h
      OBVIOUS
    <3> HIDE DEF loop
    <3> QED BY <3>2, <3>7, <3>8
  <2> QED BY <2>4, <2>5
<1>8. ASSUME NEW region \in FindIrreducibleRegions
      PROVE  Cardinality(region.entries) >= 2
  <2>1. PICK C \in StronglyConnectedComponents :
          ~HasDominatingHeader(C) /\ region = [members |-> C, entries |-> RegionEntries(C)]
    BY DEF FindIrreducibleRegions
  <2>2. C \in SUBSET Nodes /\ C # {}
    BY <1>4, <1>5
  <2>3. e \notin C
    BY <1>3, <2>1, <2>2 DEF HasDominatingHeader
  <2> DEFINE E == RegionEntries(C)
  <2>4. E \in SUBSET Nodes /\ E \subseteq C /\ \A b \in C \ E : Backward[b] \subseteq C
    BY <1>2, <2>2 DEF RegionEntries
  <2> HIDE DEF E
  <2>5. E # {}
    <3> SUFFICES ASSUME E = {} PROVE FALSE
      OBVIOUS
    <3>1. \A b \in C : b \notin {e} /\ Backward[b] \subseteq C
      BY <2>3, <2>4
    <3> QED BY <1>1, <2>2, <3>1 DEF DominanceSets
  <2>6. \A m \in E : E # {m}
    <3> SUFFICES ASSUME NEW m \in E, E = {m} PROVE FALSE
      OBVIOUS
    <3>1. \A b \in C \ {m} : b \notin {e} /\ Backward[b] \subseteq C
      BY <2>3, <2>4
    <3>2. \A b \in C : m \in D[b]
      BY <1>1, <2>2, <2>4, <3>1 DEF DominanceSets
    <3> QED BY <2>1, <2>4, <3>2 DEF HasDominatingHeader
  <2>7. IsFiniteSet(E)
    BY <1>1, <2>4, FS_Subset
  <2>8. \E x, y \in E : x # y
    BY <2>5, <2>6
  <2> QED BY <2>1, <2>7, <2>8, TwoMembers DEF E
<1> HIDE DEF e, D
<1>9. \A b \in Nodes : (\E a \in Successors(b) : b \in Closure({a}, Onward, Nodes)) =>
        \/ \E loop \in NaturalLoops : loop.header \in Closure({b}, Onward, Nodes)
                                       /\ b \in Closure({loop.header}, Onward, Nodes)
        \/ \E region \in FindIrreducibleRegions : b \in region.members
  BY <1>7 DEF Reach
<1> QED BY <1>6, <1>8, <1>9 DEF LoopsExact, D

\* Loops are what they should be, and every cycle is in one or in a reported region, in
\* every function: the order in which the search leaves the blocks makes each walk back
\* from the last one left find exactly the blocks that are on a cycle with it.
THEOREM LoopsExactHolds == DomSpec => []LoopsExact
BY LoopSteps, DomInvariance, DominatorsExactHolds, PTL
=============================================================================
