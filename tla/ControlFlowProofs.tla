------------------------- MODULE ControlFlowProofs -------------------------
(***************************************************************************)
(* Traverse discovers the reachable blocks, for every function; and what   *)
(* the proofs of all the dataflow analyses need of the walk's result, of   *)
(* the worklist and of the natural numbers.                                *)
(***************************************************************************)
EXTENDS Worklist, FiniteSetTheorems, WellFoundedInduction, TLAPS

USE ProgramsAssumption

\* A set of natural numbers that is not empty has a least member.
LEMMA NatLeast ==
    ASSUME NEW T, T \subseteq Nat, T # {}
    PROVE  \E x \in T : \A y \in T : x <= y
<1>1. \E x \in T : \A y \in T : ~(<<y, x>> \in OpToRel(<, Nat))
  BY WFMin, NatLessThanWellFounded
<1>2. PICK x \in T : \A y \in T : ~(y < x)
  BY <1>1 DEF OpToRel
<1>3. \A y \in T : x <= y
  BY <1>2
<1> QED BY <1>3

\* Induction, stated with a set in the place of a predicate.
LEMMA NatClosure ==
    ASSUME NEW S, 0 \in S, \A n \in Nat : n \in S => n + 1 \in S
    PROVE  Nat \subseteq S
<1> SUFFICES ASSUME Nat \ S # {}
             PROVE  FALSE
  OBVIOUS
<1>1. PICK m \in Nat \ S : \A y \in Nat \ S : m <= y
  BY NatLeast
<1>2. m # 0 /\ m - 1 \in Nat /\ m - 1 \notin Nat \ S
  BY <1>1
<1> QED BY <1>1, <1>2

\* A set that grows inside a finite one, step after step, has stopped growing after as many
\* steps as that one has members; and it is in every set that a step does not leave.
LEMMA Saturation ==
    ASSUME NEW U, IsFiniteSet(U), NEW G \in [SUBSET U -> SUBSET U],
           \A X \in SUBSET U : X \subseteq G[X],
           NEW F, F[0] \in SUBSET U,
           \A i \in 1..Cardinality(U) : F[i - 1] \in SUBSET U => F[i] = G[F[i - 1]]
    PROVE  /\ Cardinality(U) \in Nat
           /\ F[Cardinality(U)] \in SUBSET U /\ F[0] \subseteq F[Cardinality(U)]
           /\ G[F[Cardinality(U)]] = F[Cardinality(U)]
           /\ \A T \in SUBSET U : (F[0] \subseteq T /\ \A X \in SUBSET T : G[X] \subseteq T) =>
                F[Cardinality(U)] \subseteq T
<1>1. PICK N : N = Cardinality(U)
  OBVIOUS
<1>2. N \in Nat
  BY <1>1, FS_CardinalityType
<1>3. \A m \in Nat : m + 1 <= N => m <= N /\ m + 1 \in 1..N /\ (m + 1) - 1 = m
  BY <1>2
<1>4. ASSUME NEW T \in SUBSET U, F[0] \subseteq T, \A X \in SUBSET T : G[X] \subseteq T
      PROVE  \A i \in 0..N : F[i] \subseteq T
  <2> DEFINE R == {i \in Nat : i <= N => F[i] \subseteq T}
  <2>1. 0 \in R
    BY <1>4
  <2>2. ASSUME NEW m \in Nat, m \in R PROVE m + 1 \in R
    <3> SUFFICES ASSUME m + 1 <= N PROVE F[m + 1] \subseteq T
      OBVIOUS
    <3>1. m <= N /\ m + 1 \in 1..N /\ (m + 1) - 1 = m
      BY <1>3
    <3>2. F[m] \subseteq T /\ F[m] \in SUBSET U
      BY <2>2, <3>1
    <3>3. F[m + 1] = G[F[m]]
      BY <1>1, <3>1, <3>2
    <3> QED BY <1>4, <3>2, <3>3
  <2> HIDE DEF R
  <2>3. Nat \subseteq R
    BY <2>1, <2>2, NatClosure
  <2> QED BY <1>2, <2>3 DEF R
<1>5. \A i \in 0..N : F[i] \in SUBSET U
  BY <1>4
<1>6. \A i \in 0..N : IsFiniteSet(F[i]) /\ Cardinality(F[i]) \in Nat
  BY <1>5, FS_Subset, FS_CardinalityType
<1>7. \A m \in Nat : m + 1 <= N =>
        m \in 0..N /\ m + 1 \in 0..N /\ F[m + 1] = G[F[m]] /\ F[m] \subseteq F[m + 1]
  <2> SUFFICES ASSUME NEW m \in Nat, m + 1 <= N
               PROVE  m \in 0..N /\ m + 1 \in 0..N /\ F[m + 1] = G[F[m]] /\ F[m] \subseteq F[m + 1]
    OBVIOUS
  <2>1. m \in 0..N /\ m + 1 \in 0..N /\ m + 1 \in 1..N /\ (m + 1) - 1 = m
    BY <1>2
  <2>2. F[m] \in SUBSET U /\ F[m + 1] = G[F[m]]
    BY <1>1, <1>5, <2>1
  <2> QED BY <2>1, <2>2
<1> DEFINE Done(i) == G[F[i]] = F[i]
           Q == {i \in Nat : i <= N => F[0] \subseteq F[i] /\ (Done(i) \/ Cardinality(F[i]) >= i)}
<1>8. 0 \in Q
  BY <1>2, <1>6
<1>9. ASSUME NEW m \in Nat, m \in Q PROVE m + 1 \in Q
  <2> SUFFICES ASSUME m + 1 <= N
               PROVE  F[0] \subseteq F[m + 1] /\ (Done(m + 1) \/ Cardinality(F[m + 1]) >= m + 1)
    OBVIOUS
  <2>1. m <= N /\ m \in 0..N /\ m + 1 \in 0..N /\ F[m + 1] = G[F[m]] /\ F[m] \subseteq F[m + 1]
    BY <1>3, <1>7
  <2>2. CASE Done(m)
    BY <1>9, <2>1, <2>2
  <2>3. CASE ~Done(m)
    <3>1. Cardinality(F[m]) >= m
      BY <1>9, <2>1, <2>3
    <3>2. /\ IsFiniteSet(F[m + 1])
          /\ Cardinality(F[m]) \in Nat /\ Cardinality(F[m + 1]) \in Nat
      BY <1>6, <2>1
    <3>3. /\ Cardinality(F[m]) <= Cardinality(F[m + 1])
          /\ Cardinality(F[m + 1]) # Cardinality(F[m])
      BY <2>1, <2>3, <3>2, FS_Subset
    <3> QED BY <1>9, <2>1, <3>1, <3>2, <3>3
  <2> QED BY <2>2, <2>3
<1>10. N \in Q
  <2> HIDE DEF Q
  <2> QED BY <1>2, <1>8, <1>9, NatClosure
<1>11. Done(N)
  <2>1. CASE Cardinality(F[N]) >= N
    <3>1. F[N] \in SUBSET U /\ Cardinality(F[N]) \in Nat
      BY <1>2, <1>5, <1>6
    <3>2. Cardinality(F[N]) <= Cardinality(U) /\ (Cardinality(U) = Cardinality(F[N]) => U = F[N])
      BY <3>1, FS_Subset
    <3>3. F[N] = U
      BY <1>1, <1>2, <2>1, <3>1, <3>2
    <3>4. U \in SUBSET U /\ U \subseteq G[U] /\ G[U] \in SUBSET U
      OBVIOUS
    <3> QED BY <3>3, <3>4
  <2> QED BY <1>10, <2>1
<1>12. N \in 0..N
  BY <1>2
<1> QED BY <1>1, <1>2, <1>4, <1>5, <1>10, <1>11, <1>12

\* What the type invariant says of the input and of the walk's sequences.
LEMMA InputFacts ==
    ASSUME program \in Program
    PROVE  /\ program.entry \in Block
           /\ program.blocks \in
                Seq([id : Block, successors : Seq(Block), accesses : Seq(Access)])
           /\ Records = 1..Len(program.blocks)
           /\ Len(program.blocks) \in Nat
           /\ \A r \in Records : /\ program.blocks[r].id \in Catalog
                                 /\ program.blocks[r].id \in Block
                                 /\ program.blocks[r].successors \in Seq(Block)
                                 /\ program.blocks[r].accesses \in Seq(Access)
           /\ Catalog \subseteq Block
<1>1. /\ program.entry \in Block
      /\ program.blocks \in
           Seq([id : Block, successors : Seq(Block), accesses : Seq(Access)])
  BY DEF Program
<1>2. /\ Records = 1..Len(program.blocks) /\ Len(program.blocks) \in Nat
  BY <1>1 DEF Records
<1>3. \A r \in Records : program.blocks[r] \in
           [id : Block, successors : Seq(Block), accesses : Seq(Access)]
  <2> DEFINE R == [id : Block, successors : Seq(Block), accesses : Seq(Access)]
             q == program.blocks
  <2>1. q \in Seq(R)
    BY <1>1
  <2> HIDE DEF R
  <2>2. \A r \in 1..Len(q) : q[r] \in R
    BY <2>1
  <2> QED BY <2>2, <1>2 DEF R
<1>4. \A r \in Records : program.blocks[r].id \in Catalog
  BY DEF Catalog
<1>5. Catalog \subseteq Block
  BY <1>3 DEF Catalog
<1> QED BY <1>1, <1>2, <1>3, <1>4, <1>5

\* A cataloged block has a first record, so what it does is a sequence.
LEMMA AccessesType ==
    ASSUME program \in Program, NEW b \in Catalog
    PROVE  program.blocks[RecordOf(b)].accesses \in Seq(Access)
<1> DEFINE T == {r \in Records : program.blocks[r].id = b}
<1>1. T # {} /\ T \subseteq Nat
  BY InputFacts DEF Catalog
<1>2. PICK r \in T : \A q \in T : r <= q
  BY <1>1, NatLeast
<1>3. program.blocks[r].id = b /\ IsFirst(r) /\ r \in Records
  BY <1>2, InputFacts DEF IsFirst
<1>4. RecordOf(b) \in Records
  BY <1>3 DEF RecordOf
<1> QED BY <1>4, InputFacts

\* The initial state satisfies the invariant.
LEMMA CFInitInv ==
    ASSUME CFInit
    PROVE  CFInv
<1>1. program \in Program
  BY DEF CFInit
<1>2. CFTypeOK
  BY <1>1, InputFacts DEF CFInit, CFTypeOK
<1>3. OnStack = {} /\ Left = {}
  BY DEF CFInit, OnStack, Left
<1> QED BY <1>2, <1>3 DEF CFInit, CFInv

\* Reading the successors of a record.
LEMMA EdgeStep ==
    ASSUME CFInv, ReadTarget \/ NextRecord
    PROVE  CFInv'
<1>1. /\ CFTypeOK /\ phase = "edges"
      /\ discovered = {} /\ stack = <<>> /\ postorder = <<>>
      /\ \A b \in Block : nextSuccessor[b] = 0
  BY DEF CFInv, ReadTarget, NextRecord, ReadsRecord
<1>2. /\ program' = program /\ phase' = phase /\ discovered' = discovered
      /\ stack' = stack /\ postorder' = postorder /\ preorder' = preorder
      /\ nextSuccessor' = nextSuccessor
  BY DEF ReadTarget, NextRecord, walkVars
<1>3. program \in Program
  BY <1>1 DEF CFTypeOK
<1>4. Catalog' = Catalog /\ Records' = Records
  BY <1>2 DEF Catalog, Records
<1>5. record' \in 1..Len(program.blocks) + 1 /\ position' \in Nat \ {0}
  <2>1. /\ record \in 1..Len(program.blocks) + 1 /\ position \in Nat \ {0}
        /\ Len(program.blocks) \in Nat
        /\ record \in 1..Len(program.blocks)
    BY <1>1, <1>3, InputFacts DEF CFTypeOK, ReadTarget, NextRecord, ReadsRecord
  <2>2. \/ record' = record /\ position' = position + 1
        \/ record' = record + 1 /\ position' = 1
    BY DEF ReadTarget, NextRecord
  <2> QED BY <2>1, <2>2
<1>6. edges' \in [Block -> Seq(Catalog)]
  <2>1. CASE NextRecord
    BY <2>1, <1>1 DEF NextRecord, CFTypeOK
  <2>2. CASE ReadTarget
    <3>1. Current.id \in Block
      BY <2>2, <1>3, InputFacts DEF ReadTarget, ReadsRecord, Current
    <3>2. CASE edges' = edges
      BY <3>2, <1>1 DEF CFTypeOK
    <3>3. CASE edges' # edges
      <4> DEFINE t == Current.successors[position]
      <4>1. t \in Catalog /\ edges' = [edges EXCEPT ![Current.id] = Append(@, t)]
        BY <2>2, <3>3 DEF ReadTarget
      <4>2. edges[Current.id] \in Seq(Catalog)
        BY <1>1, <3>1 DEF CFTypeOK
      <4>3. Append(edges[Current.id], t) \in Seq(Catalog)
        BY <4>1, <4>2
      <4> HIDE DEF t
      <4> QED BY <4>1, <4>3, <3>1, <1>1 DEF CFTypeOK
    <3> QED BY <3>2, <3>3
  <2> QED BY <2>1, <2>2
<1>7. CFTypeOK'
  <2>1. \A b \in Block : nextSuccessor'[b] <= Len(edges'[b])
    BY <1>1, <1>2, <1>6
  <2> QED BY <1>1, <1>2, <1>4, <1>5, <1>6, <2>1 DEF CFTypeOK
<1>8. OnStack' = {} /\ Left' = {}
  BY <1>1, <1>2 DEF OnStack, Left
<1> QED BY <1>1, <1>2, <1>7, <1>8 DEF CFInv

\* Pushing the entry.
LEMMA BeginStep ==
    ASSUME CFInv, BeginTraverse
    PROVE  CFInv'
<1>1. /\ CFTypeOK /\ phase = "edges"
      /\ discovered = {} /\ stack = <<>> /\ postorder = <<>>
      /\ \A b \in Block : nextSuccessor[b] = 0
  BY DEF CFInv, BeginTraverse
<1>2. /\ program' = program /\ phase' = "traverse" /\ edges' = edges
      /\ record' = record /\ position' = position
      /\ postorder' = postorder /\ nextSuccessor' = nextSuccessor
  BY DEF BeginTraverse, graphVars
<1>3. /\ Catalog' = Catalog /\ Records' = Records
      /\ \A b : Successors(b)' = Successors(b)
  BY <1>2 DEF Catalog, Records, Successors
<1>4. Left' = {}
  BY <1>1, <1>2 DEF Left
<1>5. CASE program.entry \in Catalog
  <2>1. /\ discovered' = {program.entry} /\ stack' = <<program.entry>>
        /\ preorder' = <<program.entry>>
    BY <1>5 DEF BeginTraverse
  <2>2. OnStack' = {program.entry}
    BY <2>1 DEF OnStack
  <2>3. CFTypeOK'
    BY <1>1, <1>2, <1>3, <1>5, <2>1 DEF CFTypeOK
  <2>4. \A S : ClosedFromEntry(S)' => discovered' \subseteq S
    BY <1>2, <1>3, <1>5, <2>1 DEF ClosedFromEntry
  <2> QED BY <1>1, <1>2, <1>3, <1>4, <2>1, <2>2, <2>3, <2>4 DEF CFInv
<1>6. CASE program.entry \notin Catalog
  <2>1. discovered' = {} /\ stack' = <<>> /\ preorder' = preorder
    BY <1>1, <1>6 DEF BeginTraverse
  <2>2. OnStack' = {}
    BY <2>1 DEF OnStack
  <2>3. CFTypeOK'
    BY <1>1, <1>2, <1>3, <2>1 DEF CFTypeOK
  <2> QED BY <1>1, <1>2, <1>3, <1>4, <1>6, <2>1, <2>2, <2>3 DEF CFInv
<1> QED BY <1>5, <1>6

\* Following one edge of the block on top of the stack.
LEMMA FollowStep ==
    ASSUME CFInv, Follow
    PROVE  CFInv'
<1> DEFINE t == edges[Top][nextSuccessor[Top] + 1]
<1>a. /\ CFTypeOK /\ phase = "traverse" /\ discovered = OnStack \union Left
      /\ OnStack \intersect Left = {}
      /\ \A b \in Left : nextSuccessor[b] = Len(edges[b])
      /\ \A b \in Block : \A i \in 1..nextSuccessor[b] : edges[b][i] \in discovered
  BY DEF CFInv, Follow
<1>b. /\ program.entry \in Catalog => program.entry \in discovered
      /\ \A i, j \in DOMAIN stack : stack[i] = stack[j] => i = j
      /\ \A i, j \in DOMAIN postorder : postorder[i] = postorder[j] => i = j
      /\ \A b \in discovered \ {program.entry} : \E a \in discovered : b \in Successors(a)
      /\ \A S \in SUBSET Catalog : ClosedFromEntry(S) => discovered \subseteq S
  BY <1>a DEF CFInv
<1>0. /\ program \in Program /\ Catalog \subseteq Block /\ program.entry \in Block
      /\ edges \in [Block -> Seq(Catalog)] /\ nextSuccessor \in [Block -> Nat]
      /\ stack \in Seq(Catalog) /\ stack # <<>>
  BY <1>a, InputFacts DEF CFTypeOK, Follow
<1>1. Top \in OnStack /\ Top \in Catalog /\ Top \in discovered /\ Len(stack) \in Nat \ {0}
  BY <1>0, <1>a DEF Top, OnStack
<1>2. edges[Top] \in Seq(Catalog) /\ nextSuccessor[Top] \in Nat
  BY <1>0, <1>1
<1>3. nextSuccessor[Top] + 1 \in 1..Len(edges[Top])
  BY <1>2 DEF Follow
<1>4. t \in Catalog /\ t \in Successors(Top)
  BY <1>2, <1>3 DEF Successors
<1>5. /\ program' = program /\ phase' = phase /\ edges' = edges
      /\ record' = record /\ position' = position
      /\ postorder' = postorder
      /\ nextSuccessor' = [nextSuccessor EXCEPT ![Top] = nextSuccessor[Top] + 1]
  BY DEF Follow, graphVars
<1>6. /\ Catalog' = Catalog /\ Records' = Records /\ Left' = Left
      /\ \A b : Successors(b)' = Successors(b)
  BY <1>5 DEF Catalog, Records, Successors, Left
<1>7. /\ discovered' = discovered \union {t}
      /\ \/ t \in discovered /\ stack' = stack /\ preorder' = preorder
         \/ t \notin discovered /\ stack' = Append(stack, t) /\ preorder' = Append(preorder, t)
  BY DEF Follow
<1> HIDE DEF t
<1>8. \/ t \in discovered /\ OnStack' = OnStack
      \/ t \notin discovered /\ OnStack' = OnStack \union {t}
  <2>1. CASE t \in discovered /\ stack' = stack
    BY <2>1 DEF OnStack
  <2>2. CASE t \notin discovered /\ stack' = Append(stack, t)
    <3>1. /\ DOMAIN stack' = 1..Len(stack) + 1 /\ DOMAIN stack = 1..Len(stack)
          /\ stack'[Len(stack) + 1] = t
          /\ \A i \in DOMAIN stack : stack'[i] = stack[i]
      BY <2>2, <1>0, <1>1, <1>4
    <3>2. OnStack' = {stack'[i] : i \in DOMAIN stack'}
      BY DEF OnStack
    <3>3. OnStack' = OnStack \union {t}
      BY <3>1, <3>2, <1>1 DEF OnStack
    <3> QED BY <2>2, <3>3
  <2> QED BY <2>1, <2>2, <1>7
<1>9. \A i, j \in DOMAIN stack' : stack'[i] = stack'[j] => i = j
  <2>1. CASE stack' = stack
    BY <2>1, <1>b
  <2>2. CASE t \notin discovered /\ stack' = Append(stack, t)
    <3>1. /\ DOMAIN stack' = 1..Len(stack) + 1 /\ DOMAIN stack = 1..Len(stack)
          /\ stack'[Len(stack) + 1] = t
          /\ \A i \in DOMAIN stack : stack'[i] = stack[i]
      BY <2>2, <1>0, <1>1, <1>4
    <3>2. \A i \in DOMAIN stack : stack[i] # t
      BY <2>2, <1>a DEF OnStack
    <3> QED BY <3>1, <3>2, <1>1, <1>b
  <2> QED BY <2>1, <2>2, <1>7
<1>10. discovered' = OnStack' \union Left' /\ OnStack' \intersect Left' = {}
  BY <1>6, <1>7, <1>8, <1>a
<1>11. \A b \in Block : nextSuccessor'[b] = IF b = Top THEN nextSuccessor[b] + 1
                                                        ELSE nextSuccessor[b]
  BY <1>0, <1>1, <1>5
<1>12. \A b \in Left' : nextSuccessor'[b] = Len(edges'[b])
  <2>1. Left \subseteq Block
    BY <1>0, <1>a DEF CFTypeOK, Left
  <2> QED BY <2>1, <1>a, <1>1, <1>5, <1>6, <1>11
<1>13. \A b \in Block : \A i \in 1..nextSuccessor'[b] : edges'[b][i] \in discovered'
  <2> TAKE b \in Block
  <2> TAKE i \in 1..nextSuccessor'[b]
  <2>1. CASE b = Top /\ i = nextSuccessor[Top] + 1
    BY <2>1, <1>5, <1>7 DEF t
  <2>2. CASE ~(b = Top /\ i = nextSuccessor[Top] + 1)
    <3>1. i \in 1..nextSuccessor[b]
      BY <2>2, <1>0, <1>2, <1>11
    <3> QED BY <3>1, <1>a, <1>5, <1>7
  <2> QED BY <2>1, <2>2
<1>14. \A b \in discovered' \ {program'.entry} : \E a \in discovered' : b \in Successors(a)'
  BY <1>b, <1>1, <1>4, <1>5, <1>6, <1>7
<1>15. \A S \in SUBSET Catalog' : ClosedFromEntry(S)' => discovered' \subseteq S
  <2> SUFFICES ASSUME NEW S \in SUBSET Catalog, ClosedFromEntry(S)'
               PROVE  discovered' \subseteq S
    BY <1>6
  <2>1. ClosedFromEntry(S)
    BY <1>5, <1>6 DEF ClosedFromEntry
  <2>2. discovered \subseteq S
    BY <2>1, <1>b
  <2> QED BY <2>1, <2>2, <1>1, <1>4, <1>7 DEF ClosedFromEntry
<1>16. CFTypeOK'
  <2>1. preorder' \in Seq(Catalog) /\ stack' \in Seq(Catalog)
    <3>1. preorder \in Seq(Catalog) /\ stack \in Seq(Catalog) /\ t \in Catalog
      BY <1>a, <1>4 DEF CFTypeOK
    <3>2. Append(preorder, t) \in Seq(Catalog) /\ Append(stack, t) \in Seq(Catalog)
      BY <3>1
    <3> QED BY <3>1, <3>2, <1>7
  <2>2. nextSuccessor' \in [Block -> Nat]
    <3>1. nextSuccessor[Top] + 1 \in Nat
      BY <1>2
    <3> QED BY <3>1, <1>0, <1>1, <1>5
  <2>3. \A b \in Block : nextSuccessor'[b] <= Len(edges'[b])
    BY <1>a, <1>2, <1>3, <1>5, <1>11 DEF CFTypeOK
  <2> QED BY <2>1, <2>2, <2>3, <1>a, <1>4, <1>5, <1>6, <1>7 DEF CFTypeOK
<1> QED BY <1>a, <1>b, <1>5, <1>6, <1>7, <1>9, <1>10, <1>12, <1>13, <1>14, <1>15, <1>16 DEF CFInv

\* Leaving the block on top of the stack.
LEMMA LeaveStep ==
    ASSUME CFInv, Leave
    PROVE  CFInv'
<1>a. /\ CFTypeOK /\ phase = "traverse" /\ discovered = OnStack \union Left
      /\ OnStack \intersect Left = {}
      /\ \A b \in Left : nextSuccessor[b] = Len(edges[b])
      /\ \A i, j \in DOMAIN stack : stack[i] = stack[j] => i = j
      /\ \A i, j \in DOMAIN postorder : postorder[i] = postorder[j] => i = j
  BY DEF CFInv, Leave
<1>0. /\ program \in Program /\ Catalog \subseteq Block
      /\ edges \in [Block -> Seq(Catalog)] /\ nextSuccessor \in [Block -> Nat]
      /\ stack \in Seq(Catalog) /\ stack # <<>> /\ postorder \in Seq(Catalog)
  BY <1>a, InputFacts DEF CFTypeOK, Leave
<1>1. /\ Len(stack) \in Nat \ {0} /\ DOMAIN stack = 1..Len(stack) /\ Top = stack[Len(stack)]
      /\ Top \in Catalog /\ Top \in OnStack
  BY <1>0 DEF Top, OnStack
<1>2. nextSuccessor[Top] = Len(edges[Top])
  <2>1. edges[Top] \in Seq(Catalog) /\ nextSuccessor[Top] \in Nat
    BY <1>0, <1>1
  <2> QED BY <2>1, <1>a, <1>0, <1>1 DEF CFTypeOK, Leave
<1>3. /\ program' = program /\ phase' = phase /\ edges' = edges
      /\ record' = record /\ position' = position
      /\ discovered' = discovered /\ preorder' = preorder
      /\ nextSuccessor' = nextSuccessor
      /\ postorder' = Append(postorder, Top)
      /\ stack' = SubSeq(stack, 1, Len(stack) - 1)
  BY DEF Leave, graphVars, PopStack
<1>4. /\ Catalog' = Catalog /\ Records' = Records
      /\ \A b : Successors(b)' = Successors(b)
      /\ \A S : ClosedFromEntry(S)' <=> ClosedFromEntry(S)
  BY <1>3 DEF Catalog, Records, Successors, ClosedFromEntry
<1>5. /\ stack' \in Seq(Catalog) /\ DOMAIN stack' = 1..Len(stack) - 1
      /\ \A i \in 1..Len(stack) - 1 : stack'[i] = stack[i]
  BY <1>0, <1>1, <1>3
<1>6. /\ postorder' \in Seq(Catalog) /\ DOMAIN postorder' = 1..Len(postorder) + 1
      /\ postorder'[Len(postorder) + 1] = Top
      /\ DOMAIN postorder = 1..Len(postorder) /\ Len(postorder) \in Nat
      /\ \A i \in DOMAIN postorder : postorder'[i] = postorder[i]
  BY <1>0, <1>1, <1>3
<1>7. OnStack' = OnStack \ {Top}
  BY <1>1, <1>5, <1>a DEF OnStack
<1>8. Left' = Left \union {Top}
  BY <1>6 DEF Left
<1>9. \A i, j \in DOMAIN stack' : stack'[i] = stack'[j] => i = j
  BY <1>1, <1>5, <1>a
<1>10. \A i, j \in DOMAIN postorder' : postorder'[i] = postorder'[j] => i = j
  <2>1. \A i \in DOMAIN postorder : postorder[i] # Top
    BY <1>1, <1>a DEF Left
  <2> QED BY <2>1, <1>6, <1>a
<1>11. discovered' = OnStack' \union Left' /\ OnStack' \intersect Left' = {}
  BY <1>1, <1>3, <1>7, <1>8, <1>a
<1>12. CFTypeOK'
  BY <1>a, <1>3, <1>4, <1>5, <1>6 DEF CFTypeOK
<1>13. \A b \in Left' : nextSuccessor'[b] = Len(edges'[b])
  BY <1>2, <1>3, <1>8, <1>a
<1>14. phase' # "edges" /\ phase' = "traverse"
  BY <1>3, <1>a
<1>15. /\ (program.entry \in Catalog => program.entry \in discovered)'
       /\ (\A b \in Block : \A i \in 1..nextSuccessor[b] : edges[b][i] \in discovered)'
       /\ (\A b \in discovered \ {program.entry} : \E a \in discovered : b \in Successors(a))'
       /\ (\A S \in SUBSET Catalog : ClosedFromEntry(S) => discovered \subseteq S)'
  BY <1>a, <1>3, <1>4 DEF CFInv
<1> QED BY <1>9, <1>10, <1>11, <1>12, <1>13, <1>14, <1>15 DEF CFInv

\* A step that changes nothing but a phase after the walk keeps the invariant.
LEMMA PhaseStep ==
    ASSUME CFInv,
           UNCHANGED <<program, graphVars, walkVars>>,
           stack = <<>>, phase # "edges", phase' # "edges"
    PROVE  CFInv'
<1>1. /\ program' = program /\ edges' = edges /\ record' = record /\ position' = position
      /\ discovered' = discovered /\ preorder' = preorder /\ postorder' = postorder
      /\ stack' = stack /\ nextSuccessor' = nextSuccessor
  BY DEF graphVars, walkVars
<1>2. /\ Catalog' = Catalog /\ Records' = Records /\ OnStack' = OnStack /\ Left' = Left
      /\ \A b : Successors(b)' = Successors(b)
      /\ \A S : ClosedFromEntry(S)' <=> ClosedFromEntry(S)
  BY <1>1 DEF Catalog, Records, Successors, ClosedFromEntry, OnStack, Left
<1>3. CFTypeOK'
  BY <1>1, <1>2 DEF CFTypeOK, CFInv
<1> QED BY <1>1, <1>2, <1>3 DEF CFInv

\* Every step of the control-flow pass keeps the invariant.
LEMMA CFNextInv ==
    ASSUME CFInv, CFNext
    PROVE  CFInv'
<1>1. CASE ReadTarget \/ NextRecord
  BY <1>1, EdgeStep
<1>2. CASE BeginTraverse
  BY <1>2, BeginStep
<1>3. CASE Follow
  BY <1>3, FollowStep
<1>4. CASE Leave
  BY <1>4, LeaveStep
<1>5. CASE EndTraverse
  BY <1>5, PhaseStep DEF EndTraverse
<1> QED BY <1>1, <1>2, <1>3, <1>4, <1>5 DEF CFNext

\* So does a step that changes none of its variables.
LEMMA CFStutterInv ==
    ASSUME CFInv, UNCHANGED cfVars
    PROVE  CFInv'
<1>1. /\ program' = program /\ phase' = phase
      /\ edges' = edges /\ record' = record /\ position' = position
      /\ discovered' = discovered /\ preorder' = preorder /\ postorder' = postorder
      /\ stack' = stack /\ nextSuccessor' = nextSuccessor
  BY DEF cfVars, graphVars, walkVars
<1>2. /\ Catalog' = Catalog /\ Records' = Records /\ OnStack' = OnStack /\ Left' = Left
      /\ \A b : Successors(b)' = Successors(b)
      /\ \A S : ClosedFromEntry(S)' <=> ClosedFromEntry(S)
  BY <1>1 DEF Catalog, Records, Successors, ClosedFromEntry, OnStack, Left
<1>3. CFTypeOK'
  BY <1>1, <1>2 DEF CFTypeOK, CFInv
<1> QED BY <1>1, <1>2, <1>3 DEF CFInv

\* The discovered set is closed once the walk is over.
LEMMA DiscoveredClosed ==
    ASSUME CFInv, phase \notin {"edges", "traverse"}
    PROVE  /\ \A a \in discovered : Successors(a) \subseteq discovered
           /\ discovered = Left /\ discovered \subseteq Catalog /\ Catalog \subseteq Block
           /\ program.entry \in Catalog => program.entry \in discovered
<1>1. /\ CFTypeOK /\ stack = <<>> /\ discovered = OnStack \union Left
      /\ \A b \in Left : nextSuccessor[b] = Len(edges[b])
      /\ \A b \in Block : \A i \in 1..nextSuccessor[b] : edges[b][i] \in discovered
      /\ program.entry \in Catalog => program.entry \in discovered
  BY DEF CFInv
<1>2. discovered = Left
  BY <1>1 DEF OnStack
<1>3. discovered \subseteq Catalog /\ Catalog \subseteq Block /\ edges \in [Block -> Seq(Catalog)]
  BY <1>1, InputFacts DEF CFTypeOK
<1>4. \A a \in discovered : Successors(a) \subseteq discovered
  BY <1>1, <1>2, <1>3 DEF Successors
<1> QED BY <1>1, <1>2, <1>3, <1>4

\* The entry of a function that has one is discovered; of one that has none, nothing.
LEMMA EntryDiscovered ==
    ASSUME CFInv, phase \notin {"edges", "traverse"}, discovered # {}
    PROVE  program.entry \in discovered
<1>1. CASE program.entry \in Catalog
  BY <1>1, DiscoveredClosed
<1>2. CASE program.entry \notin Catalog
  <2>1. ClosedFromEntry({})
    BY <1>2 DEF ClosedFromEntry
  <2>2. discovered \subseteq {}
    BY <2>1 DEF CFInv
  <2> QED BY <2>2
<1> QED BY <1>1, <1>2

\* The walk's result and the function do not change after the walk.
LEMMA GraphStatic ==
    ASSUME UNCHANGED <<program, graphVars, walkVars>>
    PROVE  /\ program' = program /\ discovered' = discovered /\ Catalog' = Catalog
           /\ \A b : Successors(b)' = Successors(b)
           /\ \A b : Predecessors(b)' = Predecessors(b)
           /\ \A b : program'.blocks[RecordOf(b)'].accesses = program.blocks[RecordOf(b)].accesses
<1>1. program' = program /\ discovered' = discovered /\ edges' = edges
  BY DEF graphVars, walkVars
<1>2. /\ Catalog' = Catalog /\ Records' = Records
      /\ \A b : Successors(b)' = Successors(b)
  BY <1>1 DEF Catalog, Records, Successors
<1>3. \A b : Predecessors(b)' = Predecessors(b)
  BY <1>1, <1>2 DEF Predecessors
<1>4. \A b : RecordOf(b)' = RecordOf(b)
  BY <1>1, <1>2 DEF RecordOf, IsFirst
<1> QED BY <1>1, <1>2, <1>3, <1>4

\* The constructor of the worklist queues every reachable block once, in either order.
LEMMA StartQueue ==
    ASSUME CFInv, phase = "analysed", NEW order, order \in {ForwardOrder, BackwardOrder},
           StartWorklist(order)
    PROVE  /\ scheduled' = discovered /\ affected' = {}
           /\ QueueMatchesSet' /\ pending' \in Seq(Block)
<1> DEFINE n == Len(postorder)
<1>0. CFTypeOK
  BY DEF CFInv
<1>1. discovered = Left /\ Catalog \subseteq Block
  BY DiscoveredClosed
<1>2. /\ postorder \in Seq(Block)
      /\ \A i, j \in DOMAIN postorder : postorder[i] = postorder[j] => i = j
  <2>1. postorder \in Seq(Block)
    BY <1>0, InputFacts DEF CFTypeOK
  <2> QED BY <2>1 DEF CFInv
<1>3. n \in Nat /\ DOMAIN postorder = 1..n
  BY <1>2
<1>4. pending' = order /\ scheduled' = {order[i] : i \in DOMAIN order} /\ affected' = {}
  BY DEF StartWorklist
<1>5. CASE order = BackwardOrder
  <2>1. order = postorder
    BY <1>5 DEF BackwardOrder
  <2>2. scheduled' = discovered
    BY <1>1, <1>4, <2>1 DEF Left
  <2>3. QueueMatchesSet'
    BY <1>2, <1>4, <2>1 DEF QueueMatchesSet
  <2> QED BY <1>2, <1>4, <2>1, <2>2, <2>3
<1>6. CASE order = ForwardOrder
  <2>1. order = [i \in 1..n |-> postorder[n + 1 - i]]
    BY <1>6 DEF ForwardOrder, ReversePostorder
  <2> HIDE DEF n
  <2>2. DOMAIN order = 1..n /\ \A i \in 1..n : order[i] = postorder[n + 1 - i] /\ n + 1 - i \in 1..n
    BY <1>3, <2>1
  <2>3. scheduled' = discovered
    <3>1. \A b \in scheduled' : b \in discovered
      BY <1>1, <1>3, <1>4, <2>2 DEF Left
    <3>2. ASSUME NEW b \in discovered PROVE b \in scheduled'
      <4>1. PICK i \in 1..n : b = postorder[i]
        BY <1>1, <1>3 DEF Left
      <4>2. n + 1 - i \in 1..n /\ n + 1 - (n + 1 - i) = i
        BY <1>3
      <4>3. order[n + 1 - i] = postorder[i]
        BY <2>2, <4>2
      <4> QED BY <1>4, <2>2, <4>1, <4>2, <4>3
    <3> QED BY <3>1, <3>2
  <2>4. \A i, j \in 1..n : order[i] = order[j] => i = j
    <3> SUFFICES ASSUME NEW i \in 1..n, NEW j \in 1..n, order[i] = order[j]
                 PROVE  i = j
      OBVIOUS
    <3>1. n + 1 - i \in DOMAIN postorder /\ n + 1 - j \in DOMAIN postorder
      BY <1>3, <2>2
    <3>2. postorder[n + 1 - i] = postorder[n + 1 - j]
      BY <2>2
    <3>3. n + 1 - i = n + 1 - j
      BY <1>2, <3>1, <3>2
    <3> QED BY <1>3, <3>3
  <2>5. QueueMatchesSet'
    BY <1>4, <2>2, <2>4 DEF QueueMatchesSet
  <2>6. order \in Seq(Block)
    <3>1. \A i \in 1..n : postorder[n + 1 - i] \in Block
      BY <1>2, <1>3, <2>2
    <3>2. order \in [1..n -> Block]
      BY <2>1, <3>1
    <3> QED BY <1>3, <3>2
  <2> QED BY <1>4, <2>3, <2>5, <2>6
<1> QED BY <1>5, <1>6

\* Next takes a waiting block; the set and the queue still agree.
LEMMA TakeQueue ==
    ASSUME QueueMatchesSet, pending \in Seq(Block), TakeNext
    PROVE  /\ Head(pending) \in scheduled /\ scheduled' = scheduled \ {Head(pending)}
           /\ QueueMatchesSet' /\ pending' \in Seq(Block)
<1> DEFINE b == Head(pending)
<1>1. /\ pending # <<>> /\ pending' = Tail(pending) /\ scheduled' = scheduled \ {b}
  BY DEF TakeNext
<1>2. /\ Len(pending) \in Nat \ {0} /\ DOMAIN pending = 1..Len(pending)
      /\ b = pending[1] /\ b \in scheduled
  BY <1>1 DEF QueueMatchesSet
<1>3. /\ pending' \in Seq(Block) /\ DOMAIN pending' = 1..Len(pending) - 1
      /\ \A i \in 1..Len(pending) - 1 : pending'[i] = pending[i + 1]
  BY <1>1, <1>2
<1> HIDE DEF b
<1>4. ASSUME NEW i \in DOMAIN pending', NEW j \in DOMAIN pending', pending'[i] = pending'[j]
      PROVE  i = j
  <2>1. i + 1 \in DOMAIN pending /\ j + 1 \in DOMAIN pending
    BY <1>2, <1>3
  <2>2. i + 1 = j + 1
    BY <2>1, <1>3, <1>4 DEF QueueMatchesSet
  <2> QED BY <2>2, <1>2, <1>3
<1>5. scheduled' = {pending'[i] : i \in DOMAIN pending'}
  <2>1. ASSUME NEW i \in DOMAIN pending' PROVE pending'[i] \in scheduled'
    <3>1. i + 1 \in DOMAIN pending /\ pending'[i] = pending[i + 1] /\ i + 1 # 1 /\ 1 \in DOMAIN pending
      BY <1>2, <1>3
    <3>2. pending[i + 1] \in scheduled /\ pending[i + 1] # pending[1]
      BY <3>1 DEF QueueMatchesSet
    <3> QED BY <1>1, <1>2, <3>1, <3>2
  <2>2. ASSUME NEW c \in scheduled' PROVE \E i \in DOMAIN pending' : c = pending'[i]
    <3>1. PICK k \in DOMAIN pending : c = pending[k]
      BY <1>1 DEF QueueMatchesSet
    <3>2. k # 1
      BY <1>1, <1>2, <3>1
    <3>3. k - 1 \in DOMAIN pending' /\ (k - 1) + 1 = k
      BY <1>2, <1>3, <3>2
    <3> QED BY <1>3, <3>1, <3>3
  <2> QED BY <2>1, <2>2
<1> QED BY <1>1, <1>2, <1>3, <1>4, <1>5 DEF QueueMatchesSet, b

\* Scheduling an affected neighbour forgets no block.
LEMMA ScheduleQueue ==
    ASSUME QueueMatchesSet, pending \in Seq(Block), ScheduleAffected,
           scheduled \subseteq discovered, affected \subseteq discovered, discovered \subseteq Block
    PROVE  /\ scheduled' \union affected' = scheduled \union affected
           /\ scheduled' \subseteq discovered /\ affected' \subseteq discovered
           /\ QueueMatchesSet' /\ pending' \in Seq(Block)
<1>1. PICK b \in affected : Schedule(b) /\ affected' = affected \ {b}
  BY DEF ScheduleAffected
<1>2. b \in discovered /\ b \in Block
  BY <1>1
<1>3. CASE b \in scheduled
  <2>1. scheduled' = scheduled /\ pending' = pending
    BY <1>1, <1>3 DEF Schedule
  <2> QED BY <1>1, <1>3, <2>1 DEF QueueMatchesSet
<1>4. CASE b \notin scheduled
  <2>1. scheduled' = scheduled \union {b} /\ pending' = Append(pending, b)
    BY <1>1, <1>2, <1>4 DEF Schedule
  <2>2. /\ DOMAIN pending' = 1..Len(pending) + 1 /\ DOMAIN pending = 1..Len(pending)
        /\ Len(pending) \in Nat /\ pending'[Len(pending) + 1] = b
        /\ \A i \in DOMAIN pending : pending'[i] = pending[i]
    BY <1>2, <2>1
  <2>3. \A i \in DOMAIN pending : pending[i] # b
    BY <1>4 DEF QueueMatchesSet
  <2>4. \A i, j \in DOMAIN pending' : pending'[i] = pending'[j] => i = j
    BY <2>2, <2>3 DEF QueueMatchesSet
  <2>5. {pending'[i] : i \in DOMAIN pending'} = {pending[i] : i \in DOMAIN pending} \union {b}
    BY <2>2
  <2>6. scheduled' = {pending'[i] : i \in DOMAIN pending'}
    BY <2>1, <2>5 DEF QueueMatchesSet
  <2>7. pending' \in Seq(Block)
    BY <1>2, <2>1
  <2> QED BY <1>1, <1>2, <2>1, <2>4, <2>6, <2>7 DEF QueueMatchesSet
<1> QED BY <1>3, <1>4

\* The invariant holds throughout the pass.
THEOREM CFInvariance == CFSpec => []CFInv
<1>1. CFInit => CFInv
  BY CFInitInv
<1>2. CFInv /\ [CFNext]_cfVars => CFInv'
  BY CFNextInv, CFStutterInv
<1> QED BY <1>1, <1>2, PTL DEF CFSpec

\* Traverse discovers exactly the reachable blocks of any function: its result is
\* closed under edges, and it never leaves a closed set that holds the entry.
THEOREM ReachableExactHolds == CFSpec => []ReachableExact
<1>1. CFInv => ReachableExact
  <2> SUFFICES ASSUME CFInv, phase = "analysed"
               PROVE  discovered = Reachable
    BY DEF ReachableExact
  <2>1. ClosedFromEntry(discovered) /\ discovered \subseteq Catalog
    BY DiscoveredClosed DEF ClosedFromEntry
  <2>2. \A S \in SUBSET Catalog : ClosedFromEntry(S) => discovered \subseteq S
    BY DEF CFInv
  <2> QED BY <2>1, <2>2 DEF Reachable
<1> QED BY <1>1, CFInvariance, PTL
-----------------------------------------------------------------------------
(* The order of the walk. *)

\* A path leads from a block to another: every set that holds the first and that no edge
\* leaves holds the second.
Reaches(b, c) ==
    \A S \in SUBSET Catalog : (b \in S /\ \A a \in S : Successors(a) \subseteq S) => c \in S

\* A block on the stack reaches those above it; and an edge of a block that was left goes
\* to one that was left no later, or closes a cycle.
StackIsPath == \A i, j \in DOMAIN stack : i <= j => Reaches(stack[i], stack[j])
EdgesGoBack ==
    \A i \in DOMAIN postorder : \A b \in Successors(postorder[i]) :
      (\E j \in 1..i : postorder[j] = b) \/ Reaches(b, postorder[i])
WalkInv == CFInv /\ StackIsPath /\ EdgesGoBack

\* Before the walk there is no order.
LEMMA EmptyWalk ==
    ASSUME stack = <<>>, postorder = <<>>
    PROVE  StackIsPath /\ EdgesGoBack
BY DEF StackIsPath, EdgesGoBack

\* What a block reaches depends on the edges alone.
LEMMA ReachesSame ==
    ASSUME Catalog' = Catalog, \A b : Successors(b)' = Successors(b)
    PROVE  \A b, c : Reaches(b, c)' <=> Reaches(b, c)
BY DEF Reaches

\* Following an edge makes the path longer, or changes neither sequence.
LEMMA FollowOrder ==
    ASSUME WalkInv, Follow
    PROVE  StackIsPath' /\ EdgesGoBack'
<1> DEFINE t == edges[Top][nextSuccessor[Top] + 1]
           n == Len(stack)
<1>1. /\ edges \in [Block -> Seq(Catalog)] /\ nextSuccessor \in [Block -> Nat]
      /\ stack \in Seq(Catalog) /\ stack # <<>> /\ Catalog \subseteq Block
  BY InputFacts DEF WalkInv, CFInv, CFTypeOK, Follow
<1>2. n \in Nat \ {0} /\ DOMAIN stack = 1..n /\ Top = stack[n] /\ Top \in Catalog
  BY <1>1 DEF Top
<1>3. t \in Catalog /\ t \in Successors(Top)
  <2>1. edges[Top] \in Seq(Catalog) /\ nextSuccessor[Top] \in Nat
    BY <1>1, <1>2
  <2>2. nextSuccessor[Top] + 1 \in 1..Len(edges[Top])
    BY <2>1 DEF Follow
  <2> QED BY <2>1, <2>2 DEF Successors
<1>4. /\ program' = program /\ edges' = edges /\ postorder' = postorder
      /\ stack' = stack \/ stack' = Append(stack, t)
  BY DEF Follow, graphVars
<1> HIDE DEF t, n
<1>5. /\ Catalog' = Catalog /\ \A b : Successors(b)' = Successors(b)
      /\ \A b, c : Reaches(b, c)' <=> Reaches(b, c)
  <2>1. Catalog' = Catalog /\ \A b : Successors(b)' = Successors(b)
    BY <1>4 DEF Catalog, Records, Successors
  <2> QED BY <2>1, ReachesSame
<1>6. EdgesGoBack'
  BY <1>4, <1>5 DEF WalkInv, EdgesGoBack
<1>7. CASE stack' = stack
  BY <1>5, <1>6, <1>7 DEF WalkInv, StackIsPath
<1>8. CASE stack' = Append(stack, t)
  <2>1. /\ DOMAIN stack' = 1..n + 1 /\ stack'[n + 1] = t
        /\ \A i \in 1..n : stack'[i] = stack[i]
    BY <1>1, <1>2, <1>3, <1>8 DEF n
  <2>2. Reaches(t, t)
    BY DEF Reaches
  <2>3. \A i \in 1..n : Reaches(stack[i], t)
    <3>1. \A i \in 1..n : Reaches(stack[i], Top)
      BY <1>2 DEF WalkInv, StackIsPath
    <3> QED BY <3>1, <1>3 DEF Reaches
  <2>4. \A i, j \in 1..n : i <= j => Reaches(stack[i], stack[j])
    BY <1>2 DEF WalkInv, StackIsPath
  <2>5. ASSUME NEW i \in 1..n + 1, NEW j \in 1..n + 1, i <= j
        PROVE  Reaches(stack'[i], stack'[j])
    <3>1. CASE j \in 1..n
      <4>1. i \in 1..n
        BY <1>2, <2>5, <3>1
      <4> QED BY <2>1, <2>4, <2>5, <3>1, <4>1
    <3>2. CASE j = n + 1 /\ i \in 1..n
      BY <2>1, <2>3, <3>2
    <3>3. CASE j = n + 1 /\ i = n + 1
      BY <2>1, <2>2, <3>3
    <3> QED BY <1>2, <3>1, <3>2, <3>3
  <2>6. StackIsPath'
    BY <1>5, <2>1, <2>5 DEF StackIsPath
  <2> QED BY <1>6, <2>6
<1> QED BY <1>4, <1>7, <1>8

\* The successors of the block that is left were left before it, or are still on the stack
\* below it, and those reach it.
LEMMA LeaveOrder ==
    ASSUME WalkInv, Leave
    PROVE  StackIsPath' /\ EdgesGoBack'
<1> DEFINE n == Len(stack)
           m == Len(postorder)
<1>1. /\ edges \in [Block -> Seq(Catalog)] /\ nextSuccessor \in [Block -> Nat]
      /\ stack \in Seq(Catalog) /\ stack # <<>> /\ postorder \in Seq(Catalog)
      /\ Catalog \subseteq Block /\ discovered = OnStack \union Left
      /\ \A b \in Block : \A i \in 1..nextSuccessor[b] : edges[b][i] \in discovered
  BY InputFacts DEF WalkInv, CFInv, CFTypeOK, Leave
<1>2. n \in Nat \ {0} /\ DOMAIN stack = 1..n /\ Top = stack[n] /\ Top \in Catalog
  BY <1>1 DEF Top
<1>3. /\ program' = program /\ edges' = edges
      /\ postorder' = Append(postorder, Top) /\ stack' = SubSeq(stack, 1, n - 1)
  BY DEF Leave, graphVars, PopStack
<1>4. /\ DOMAIN stack' = 1..n - 1 /\ \A i \in 1..n - 1 : stack'[i] = stack[i]
  BY <1>1, <1>2, <1>3
<1>5. /\ m \in Nat /\ DOMAIN postorder = 1..m /\ DOMAIN postorder' = 1..m + 1
      /\ postorder'[m + 1] = Top /\ \A i \in 1..m : postorder'[i] = postorder[i]
  BY <1>1, <1>2, <1>3
<1> HIDE DEF n, m
<1>6. /\ \A b : Successors(b)' = Successors(b)
      /\ \A b, c : Reaches(b, c)' <=> Reaches(b, c)
  <2>1. Catalog' = Catalog /\ \A b : Successors(b)' = Successors(b)
    BY <1>3 DEF Catalog, Records, Successors
  <2> QED BY <2>1, ReachesSame
<1>7. StackIsPath'
  BY <1>2, <1>4, <1>6 DEF WalkInv, StackIsPath
<1>8. ASSUME NEW b \in Successors(Top)
      PROVE  (\E j \in 1..m : postorder[j] = b) \/ Reaches(b, Top)
  <2>1. b \in discovered
    <3>1. edges[Top] \in Seq(Catalog) /\ nextSuccessor[Top] \in Nat
      BY <1>1, <1>2
    <3>2. PICK i \in 1..Len(edges[Top]) : b = edges[Top][i]
      BY <1>8, <3>1 DEF Successors
    <3>3. i \in 1..nextSuccessor[Top]
      BY <3>1, <3>2 DEF Leave
    <3> QED BY <1>1, <1>2, <3>2, <3>3
  <2>2. CASE b \in Left
    BY <1>5, <2>2 DEF Left
  <2>3. CASE b \in OnStack
    <3>1. PICK i \in 1..n : b = stack[i]
      BY <1>2, <2>3 DEF OnStack
    <3> QED BY <1>2, <3>1 DEF WalkInv, StackIsPath
  <2> QED BY <1>1, <2>1, <2>2, <2>3
<1>9. ASSUME NEW i \in 1..m + 1, NEW b \in Successors(postorder'[i])
      PROVE  (\E j \in 1..i : postorder'[j] = b) \/ Reaches(b, postorder'[i])
  <2>1. CASE i \in 1..m
    <3>1. (\E j \in 1..i : postorder[j] = b) \/ Reaches(b, postorder[i])
      BY <1>5, <1>9, <2>1 DEF WalkInv, EdgesGoBack
    <3>2. 1..i \subseteq 1..m
      BY <1>5, <2>1
    <3> QED BY <1>5, <2>1, <3>1, <3>2
  <2>2. CASE i = m + 1
    <3>1. (\E j \in 1..m : postorder[j] = b) \/ Reaches(b, Top)
      BY <1>5, <1>8, <1>9, <2>2
    <3>2. 1..m \subseteq 1..i
      BY <1>5, <2>2
    <3> QED BY <1>5, <2>2, <3>1, <3>2
  <2> QED BY <1>5, <2>1, <2>2
<1>10. EdgesGoBack'
  BY <1>5, <1>6, <1>9 DEF EdgesGoBack
<1> QED BY <1>7, <1>10

\* The order is kept by every step of the pass, and by stuttering.
LEMMA WalkStep ==
    ASSUME WalkInv, [CFNext]_cfVars
    PROVE  WalkInv'
<1>1. CFInv'
  BY CFNextInv, CFStutterInv DEF WalkInv
<1>2. ASSUME UNCHANGED <<program, edges, stack, postorder>>
      PROVE  StackIsPath' /\ EdgesGoBack'
  <2>1. Catalog' = Catalog /\ \A b : Successors(b)' = Successors(b)
    BY <1>2 DEF Catalog, Records, Successors
  <2>2. \A b, c : Reaches(b, c)' <=> Reaches(b, c)
    BY <2>1, ReachesSame
  <2> QED BY <1>2, <2>1, <2>2 DEF WalkInv, StackIsPath, EdgesGoBack
<1>3. CASE ReadTarget \/ NextRecord
  <2>1. stack' = <<>> /\ postorder' = <<>>
    BY <1>3 DEF WalkInv, CFInv, ReadTarget, NextRecord, ReadsRecord, walkVars
  <2>2. StackIsPath' /\ EdgesGoBack'
    BY <2>1 DEF StackIsPath, EdgesGoBack
  <2> QED BY <1>1, <2>2 DEF WalkInv
<1>4. CASE BeginTraverse
  <2>1. postorder' = <<>> /\ (stack' = <<>> \/ stack' = <<program.entry>>)
    BY <1>4 DEF WalkInv, CFInv, BeginTraverse
  <2>2. \A i, j \in DOMAIN stack' : stack'[i] = stack'[j]
    BY <2>1
  <2>3. StackIsPath' /\ EdgesGoBack'
    BY <2>1, <2>2 DEF StackIsPath, EdgesGoBack, Reaches
  <2> QED BY <1>1, <2>3 DEF WalkInv
<1>5. CASE Follow
  BY <1>1, <1>5, FollowOrder DEF WalkInv
<1>6. CASE Leave
  BY <1>1, <1>6, LeaveOrder DEF WalkInv
<1>7. CASE EndTraverse
  BY <1>1, <1>2, <1>7 DEF EndTraverse, graphVars, walkVars, WalkInv
<1>8. CASE UNCHANGED cfVars
  BY <1>1, <1>2, <1>8 DEF cfVars, graphVars, walkVars, WalkInv
<1> QED BY <1>3, <1>4, <1>5, <1>6, <1>7, <1>8 DEF CFNext

\* Where a block is in the reversed sequence.
LEMMA ReversedIndex ==
    ASSUME CFInv, NEW p \in DOMAIN postorder
    PROVE  Index(ReversePostorder, postorder[p]) = Len(postorder) + 1 - p
<1> DEFINE n == Len(postorder)
           s == ReversePostorder
<1>1. /\ postorder \in Seq(Catalog)
      /\ \A i, j \in DOMAIN postorder : postorder[i] = postorder[j] => i = j
  BY DEF CFInv, CFTypeOK
<1>2. n \in Nat /\ DOMAIN postorder = 1..n /\ p \in 1..n
  BY <1>1
<1>3. DOMAIN s = 1..n /\ \A i \in 1..n : s[i] = postorder[n + 1 - i]
  BY DEF ReversePostorder
<1> HIDE DEF n, s
<1>4. n + 1 - p \in 1..n /\ n + 1 - (n + 1 - p) = p
  BY <1>2
<1>5. s[n + 1 - p] = postorder[p]
  BY <1>3, <1>4
<1>6. \A i \in 1..n : s[i] = postorder[p] => i = n + 1 - p
  <2> SUFFICES ASSUME NEW i \in 1..n, s[i] = postorder[p]
               PROVE  i = n + 1 - p
    OBVIOUS
  <2>1. n + 1 - i \in 1..n /\ postorder[n + 1 - i] = postorder[p]
    BY <1>2, <1>3
  <2>2. n + 1 - i = p
    BY <1>1, <1>2, <2>1
  <2> QED BY <1>2, <2>2
<1>7. Index(s, postorder[p]) = n + 1 - p
  BY <1>3, <1>4, <1>5, <1>6 DEF Index
<1> QED BY <1>7 DEF n, s

\* An edge that goes backwards in the order of a forward analysis closes a cycle: its
\* target was on the stack, below its source, when the source was left.
THEOREM RetreatingEdgesAreCyclicHolds == CFSpec => []RetreatingEdgesAreCyclic
<1>1. CFInit => WalkInv
  BY CFInitInv, EmptyWalk DEF CFInit, WalkInv
<1>2. WalkInv /\ [CFNext]_cfVars => WalkInv'
  BY WalkStep
<1>3. WalkInv => RetreatingEdgesAreCyclic
  <2> SUFFICES ASSUME WalkInv, phase = "analysed", NEW a \in discovered, NEW b \in Successors(a),
                      Index(ReversePostorder, b) <= Index(ReversePostorder, a)
               PROVE  a \in CanReach(b)
    BY DEF RetreatingEdgesAreCyclic
  <2>1. CFInv /\ postorder \in Seq(Catalog)
    BY DEF WalkInv, CFInv, CFTypeOK
  <2>2. b \in discovered /\ discovered = Left /\ discovered \subseteq Catalog
    BY <2>1, DiscoveredClosed
  <2>3. PICK p \in DOMAIN postorder : a = postorder[p]
    BY <2>2 DEF Left
  <2>4. PICK q \in DOMAIN postorder : b = postorder[q]
    BY <2>2 DEF Left
  <2>5. Len(postorder) \in Nat /\ p \in Nat /\ q \in Nat /\ p <= q
    <3>1. /\ Len(postorder) \in Nat /\ DOMAIN postorder = 1..Len(postorder)
          /\ Len(postorder) + 1 - q <= Len(postorder) + 1 - p
      BY <2>1, <2>3, <2>4, ReversedIndex
    <3> QED BY <3>1, <2>3, <2>4
  <2>6. CASE Reaches(b, a)
    BY <2>2, <2>6 DEF CanReach, Reaches
  <2>7. CASE \E j \in 1..p : postorder[j] = b
    <3>1. PICK j \in 1..p : postorder[j] = b
      BY <2>7
    <3>2. j \in DOMAIN postorder /\ j = q
      BY <2>1, <2>3, <2>4, <3>1 DEF CFInv
    <3>3. p = q
      BY <2>5, <3>1, <3>2
    <3> QED BY <2>3, <2>4, <3>3 DEF CanReach
  <2> QED BY <2>3, <2>6, <2>7 DEF WalkInv, EdgesGoBack
<1> QED BY <1>1, <1>2, <1>3, PTL DEF CFSpec
=============================================================================
