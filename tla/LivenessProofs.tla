--------------------------- MODULE LivenessProofs ---------------------------
(***************************************************************************)
(* The worklist computes the least liveness facts, for every function, and *)
(* what is removed on their strength is never missed by what remains.      *)
(*                                                                         *)
(* The invariant LVInv says of the facts that a block that is not waiting  *)
(* satisfies its equations (LVSettled), that no fact exceeds any solution  *)
(* (LVSolution, which needs that Transfer is monotone), and that the facts *)
(* are a solution when the worklist is empty (LVSolved); and of the two    *)
(* runs that they differ in no storage that is live (LVRunning).           *)
(***************************************************************************)
EXTENDS Liveness, ControlFlowProofs

(* A settled block satisfies its equations.                                *)
LVSettled ==
    phase = "solve" =>
      \A b \in discovered \ (scheduled \union affected) :
        /\ outgoing[b] = ExitFacts(b)
        /\ incoming[b] = Transfer(b, outgoing[b])

(* The facts stay below every solution.                                    *)
LVSolution ==
    phase \in {"solve", "run"} =>
      \A X \in [discovered -> SUBSET Storage] :
        Solves(X) => \A b \in discovered : incoming[b] \subseteq X[b]

(* The analysis is done.                                                   *)
LVSolved ==
    phase = "run" =>
      /\ \A b \in discovered : /\ outgoing[b] = ExitFacts(b)
                              /\ incoming[b] = Transfer(b, outgoing[b])
      /\ retained = UNION {RetainedIn(b) : b \in Catalog}

(* The two runs agree on what is live.                                     *)
LVRunning ==
    (phase = "run" /\ at \in discovered) =>
      /\ next <= Len(Accesses(at)) + 1
      /\ differs \intersect LiveBefore(at, outgoing[at])[next] = {}

LVInv ==
    /\ CFInv
    /\ LVTypeOK
    /\ phase # "run" => at = program.entry /\ next = 1 /\ differs = {}
    /\ phase \in {"solve", "run"} \/ (scheduled = {} /\ affected = {})
    /\ phase \in {"solve", "run"} \/ incoming = [b \in Block |-> {}]
    /\ phase = "solve" => QueueMatchesSet /\ pending \in Seq(Block)
    /\ LVSettled
    /\ LVSolution
    /\ LVSolved
    /\ LVRunning
-----------------------------------------------------------------------------
\* The accesses of a cataloged block are a sequence of accesses.
LEMMA LVAccesses ==
    ASSUME program \in Program, NEW b \in Catalog
    PROVE  /\ Len(Accesses(b)) \in Nat /\ DOMAIN Accesses(b) = 1..Len(Accesses(b))
           /\ \A i \in 1..Len(Accesses(b)) : Accesses(b)[i] \in Access
<1>1. Accesses(b) \in Seq(Access)
  BY AccessesType DEF Accesses
<1> QED BY <1>1

\* Live storage is computed from the end of a block to its start.
LEMMA LiveUnfolds ==
    ASSUME NEW b, Len(Accesses(b)) \in Nat, NEW live
    PROVE  /\ LiveBefore(b, live)[Len(Accesses(b)) + 1] = live
           /\ \A i \in 1..Len(Accesses(b)) :
                LiveBefore(b, live)[i] = Apply(Accesses(b)[i], LiveBefore(b, live)[i + 1])
<1> DEFINE n == Len(Accesses(b))
           IsFold(f, k) ==
             f = [i \in k..n + 1 |-> IF i = n + 1 THEN live ELSE Apply(Accesses(b)[i], f[i + 1])]
           S == {m \in Nat : m <= n => \E f : IsFold(f, n + 1 - m)}
<1>1. 0 \in S
  <2> DEFINE f == [i \in n + 1..n + 1 |-> live]
  <2>1. IsFold(f, n + 1 - 0)
    OBVIOUS
  <2> HIDE DEF f
  <2> QED BY <2>1
<1>2. ASSUME NEW m \in Nat, m \in S PROVE m + 1 \in S
  <2> SUFFICES ASSUME m + 1 <= n PROVE \E f : IsFold(f, n + 1 - (m + 1))
    OBVIOUS
  <2>1. PICK g : IsFold(g, n + 1 - m)
    BY <1>2
  <2>2. PICK k \in Int : k = n + 1 - m /\ n + 1 - (m + 1) = k - 1 /\ k <= n + 1
    OBVIOUS
  <2> HIDE DEF n
  <2> DEFINE f == [i \in k - 1..n + 1 |-> IF i = k - 1 THEN Apply(Accesses(b)[i], g[k]) ELSE g[i]]
  <2>3. \A i \in k - 1..n + 1 : f[i] = IF i = n + 1 THEN live ELSE Apply(Accesses(b)[i], f[i + 1])
    <3>1. g = [i \in k..n + 1 |-> IF i = n + 1 THEN live ELSE Apply(Accesses(b)[i], g[i + 1])]
      BY <2>1, <2>2
    <3>2. n \in Nat
      BY DEF n
    <3> QED BY <2>2, <3>1, <3>2
  <2>4. IsFold(f, k - 1)
    BY <2>3
  <2> HIDE DEF f
  <2> QED BY <2>2, <2>4
<1> HIDE DEF S
<1>3. n \in S
  BY <1>1, <1>2, NatClosure
<1>4. PICK f : IsFold(f, 1)
  <2>1. n + 1 - n = 1 /\ n <= n
    OBVIOUS
  <2> QED BY <1>3, <2>1 DEF S
<1>5. IsFold(LiveBefore(b, live), 1)
  BY <1>4 DEF LiveBefore
<1> QED BY <1>5

\* More live storage after an access means no less before it.
LEMMA ApplyMonotone ==
    ASSUME NEW a \in Access, NEW L \in SUBSET Storage, NEW M \in SUBSET Storage, L \subseteq M
    PROVE  Apply(a, L) \in SUBSET Storage /\ Apply(a, L) \subseteq Apply(a, M)
<1>1. a.reads \subseteq Storage
  BY LivenessAccessAssumption
<1> QED BY <1>1 DEF Apply, IsDead

\* The same of a whole block.
LEMMA TransferMonotone ==
    ASSUME program \in Program, NEW b \in Catalog,
           NEW L \in SUBSET Storage, NEW M \in SUBSET Storage, L \subseteq M
    PROVE  /\ \A i \in 1..Len(Accesses(b)) + 1 : LiveBefore(b, L)[i] \in SUBSET Storage
           /\ Transfer(b, L) \in SUBSET Storage
           /\ Transfer(b, L) \subseteq Transfer(b, M)
<1> DEFINE n == Len(Accesses(b))
           P(i) == /\ LiveBefore(b, L)[i] \in SUBSET Storage
                   /\ LiveBefore(b, M)[i] \in SUBSET Storage
                   /\ LiveBefore(b, L)[i] \subseteq LiveBefore(b, M)[i]
           S == {m \in Nat : m <= n => P(n + 1 - m)}
<1>1. n \in Nat /\ \A i \in 1..n : Accesses(b)[i] \in Access
  BY LVAccesses
<1>2. \A X : /\ LiveBefore(b, X)[n + 1] = X
             /\ \A i \in 1..n :
                  LiveBefore(b, X)[i] = Apply(Accesses(b)[i], LiveBefore(b, X)[i + 1])
  BY <1>1, LiveUnfolds
<1> HIDE DEF n
<1>3. 0 \in S
  <2>1. P(n + 1)
    BY <1>2
  <2>2. n + 1 - 0 = n + 1
    BY <1>1
  <2> HIDE DEF P
  <2> QED BY <2>1, <2>2
<1>4. ASSUME NEW m \in Nat, m \in S PROVE m + 1 \in S
  <2> SUFFICES ASSUME m + 1 <= n PROVE P(n + 1 - (m + 1))
    OBVIOUS
  <2>1. PICK k \in 1..n : k = n + 1 - (m + 1) /\ k + 1 = n + 1 - m
    BY <1>1
  <2>2. P(k + 1)
    <3>1. m <= n
      BY <1>1
    <3> HIDE DEF P
    <3> QED BY <1>4, <2>1, <3>1
  <2>3. /\ LiveBefore(b, L)[k] = Apply(Accesses(b)[k], LiveBefore(b, L)[k + 1])
        /\ LiveBefore(b, M)[k] = Apply(Accesses(b)[k], LiveBefore(b, M)[k + 1])
        /\ Accesses(b)[k] \in Access
    BY <1>1, <1>2
  <2>4. P(k)
    BY <2>2, <2>3, ApplyMonotone
  <2> HIDE DEF P
  <2> QED BY <2>1, <2>4
<1>5. \A i \in 1..n + 1 : P(i)
  <2>1. Nat \subseteq S
    <3> HIDE DEF S
    <3> QED BY <1>3, <1>4, NatClosure
  <2> TAKE i \in 1..n + 1
  <2>2. PICK m \in Nat : m = n + 1 - i /\ m <= n /\ n + 1 - m = i
    BY <1>1
  <2>3. P(n + 1 - m)
    BY <2>1, <2>2
  <2> HIDE DEF P
  <2> QED BY <2>2, <2>3
<1>6. 1 \in 1..n + 1
  BY <1>1
<1> QED BY <1>5, <1>6 DEF Transfer, n
-----------------------------------------------------------------------------
\* What the invariant speaks of does not change once the function is walked.
LEMMA LVStatic ==
    ASSUME UNCHANGED <<program, graphVars, walkVars>>
    PROVE  /\ \A b : Accesses(b)' = Accesses(b)
           /\ \A b, X : LiveBefore(b, X)' = LiveBefore(b, X) /\ Transfer(b, X)' = Transfer(b, X)
           /\ \A X : Solves(X)' <=> Solves(X)
<1>1. \A b : Accesses(b)' = Accesses(b)
  BY GraphStatic DEF Accesses
<1>2. \A b, X : LiveBefore(b, X)' = LiveBefore(b, X)
  BY <1>1 DEF LiveBefore
<1>3. \A b, X : Transfer(b, X)' = Transfer(b, X)
  BY <1>2 DEF Transfer
<1>4. ASSUME NEW X PROVE Solves(X)' <=> Solves(X)
  <2>1. discovered' = discovered /\ \A b : Successors(b)' = Successors(b)
    BY GraphStatic
  <2>2. \A b : (UNION {X[c] : c \in Successors(b)})' = UNION {X[c] : c \in Successors(b)}
    BY <2>1
  <2>3. \A b : Transfer(b, UNION {X[c] : c \in Successors(b)})'
               = Transfer(b, UNION {X[c] : c \in Successors(b)})
    <3> TAKE b
    <3>1. PICK Y : Y = UNION {X[c] : c \in Successors(b)}
      OBVIOUS
    <3>2. Transfer(b, Y)' = Transfer(b, Y)
      BY <1>3
    <3>3. Y' = Y
      OBVIOUS
    <3>4. LiveBefore(b, UNION {X[c] : c \in Successors(b)})'
          = LiveBefore(b, UNION {X[c] : c \in Successors(b)})
      <4>1. Accesses(b)' = Accesses(b)
        BY <1>1
      <4> QED BY <2>2, <4>1 DEF LiveBefore
    <3> QED BY <3>4 DEF Transfer
  <2> QED BY <2>1, <2>3 DEF Solves
<1> QED BY <1>1, <1>2, <1>3, <1>4

\* The facts on exit from a block depend on its successors only, those on entry on those
\* on exit.
LEMMA ExitSame ==
    ASSUME UNCHANGED <<program, graphVars, walkVars>>, NEW b,
           \A c \in Successors(b) : incoming'[c] = incoming[c]
    PROVE  ExitFacts(b)' = ExitFacts(b)
<1>1. Successors(b)' = Successors(b)
  BY GraphStatic
<1>2. {incoming'[c] : c \in Successors(b)} = {incoming[c] : c \in Successors(b)}
  OBVIOUS
<1> QED BY <1>1, <1>2 DEF ExitFacts

LEMMA EntrySame ==
    ASSUME UNCHANGED <<program, graphVars, walkVars>>, NEW b
    PROVE  /\ LiveBefore(b, outgoing[b])' = LiveBefore(b, outgoing'[b])
           /\ Transfer(b, outgoing[b])' = Transfer(b, outgoing'[b])
<1>1. Accesses(b)' = Accesses(b)
  BY LVStatic
<1>2. LiveBefore(b, outgoing[b])' = LiveBefore(b, outgoing'[b])
  BY <1>1 DEF LiveBefore
<1> QED BY <1>2 DEF Transfer

LEMMA RetainedSame ==
    ASSUME UNCHANGED <<program, graphVars, walkVars>>, outgoing' = outgoing
    PROVE  /\ \A b : RetainedIn(b)' = RetainedIn(b)
           /\ Catalog' = Catalog
<1>1. discovered' = discovered /\ Catalog' = Catalog /\ \A b : Accesses(b)' = Accesses(b)
  BY GraphStatic, LVStatic
<1>2. \A b : LiveBefore(b, outgoing[b])' = LiveBefore(b, outgoing[b])
  BY EntrySame
<1>3. ASSUME NEW b PROVE RetainedIn(b)' = RetainedIn(b)
  <2>1. LiveBefore(b, outgoing[b])' = LiveBefore(b, outgoing[b]) /\ Accesses(b)' = Accesses(b)
    BY <1>1, <1>2
  <2> QED BY <1>1, <2>1 DEF RetainedIn, IsDead
<1> QED BY <1>1, <1>3

\* The facts on exit from a block are storage.
LEMMA ExitType ==
    ASSUME incoming \in [Block -> SUBSET Storage], NEW b, Successors(b) \subseteq Block
    PROVE  ExitFacts(b) \in SUBSET Storage
BY DEF ExitFacts
-----------------------------------------------------------------------------
\* The invariant holds at the start.
LEMMA LVInitInv ==
    ASSUME LVInit
    PROVE  LVInv
<1>1. CFInit /\ program \in Program
  BY ProgramsAssumption DEF LVInit, CFInit
<1>2. CFInv /\ program.entry \in Block
  BY <1>1, CFInitInv, InputFacts
<1>3. phase = "edges" /\ scheduled = {} /\ affected = {}
  BY DEF LVInit, CFInit, WorklistInit
<1>4. LVTypeOK
  BY <1>2, <1>3 DEF LVInit, LVTypeOK
<1> QED BY <1>2, <1>3, <1>4 DEF LVInit, LVInv, LVSettled, LVSolution, LVSolved, LVRunning

\* The control-flow pass.
LEMMA LVControlFlowStep ==
    ASSUME LVInv, AnalyzeControlFlow
    PROVE  LVInv'
<1>1. /\ CFInv /\ LVTypeOK /\ CFNext
      /\ phase # "run" => at = program.entry /\ next = 1 /\ differs = {}
      /\ phase \in {"solve", "run"} \/ (scheduled = {} /\ affected = {})
      /\ phase \in {"solve", "run"} \/ incoming = [b \in Block |-> {}]
  BY DEF LVInv, AnalyzeControlFlow
<1>2. CFInv'
  BY <1>1, CFNextInv
<1>3. /\ phase \in {"edges", "traverse"} /\ phase' \in {"edges", "traverse", "analysed"}
      /\ program' = program
  BY <1>1 DEF CFNext, ReadTarget, NextRecord, ReadsRecord, BeginTraverse, Follow, Leave,
              EndTraverse
<1>4. /\ scheduled' = {} /\ affected' = {} /\ incoming' = incoming /\ outgoing' = outgoing
      /\ at' = at /\ next' = next /\ differs' = differs
  BY <1>1, <1>3 DEF AnalyzeControlFlow, worklistVars, factVars, runVars
<1>5. LVTypeOK'
  BY <1>1, <1>3, <1>4 DEF LVTypeOK
<1>6. phase' \notin {"solve", "run"}
  BY <1>3
<1> QED BY <1>1, <1>2, <1>3, <1>4, <1>5, <1>6
        DEF LVInv, LVSettled, LVSolution, LVSolved, LVRunning

\* The worklist starts with every reachable block, and nothing is live.
LEMMA LVStartStep ==
    ASSUME LVInv, StartFixedPoint
    PROVE  LVInv'
<1>1. /\ CFInv /\ LVTypeOK /\ phase = "analysed" /\ phase' = "solve"
      /\ at = program.entry /\ next = 1 /\ differs = {}
      /\ incoming = [b \in Block |-> {}]
  BY DEF LVInv, StartFixedPoint
<1>2. /\ UNCHANGED <<program, graphVars, walkVars>>
      /\ incoming' = incoming /\ outgoing' = outgoing
      /\ at' = at /\ next' = next /\ differs' = differs
  BY DEF StartFixedPoint, factVars, runVars
<1>3. CFInv'
  BY <1>1, <1>2, PhaseStep DEF CFInv
<1>4. /\ scheduled' = discovered /\ affected' = {} /\ QueueMatchesSet' /\ pending' \in Seq(Block)
  BY <1>1, StartQueue DEF StartFixedPoint
<1>5. LVTypeOK'
  BY <1>1, <1>2, <1>4, GraphStatic DEF LVTypeOK
<1>6. LVSettled'
  BY <1>2, <1>4, GraphStatic DEF LVSettled
<1>7. LVSolution'
  <2>1. discovered \subseteq Block /\ discovered' = discovered
    BY <1>1, <1>2, DiscoveredClosed, GraphStatic
  <2>2. \A b \in discovered : incoming'[b] = {}
    BY <1>1, <1>2, <2>1
  <2> QED BY <2>1, <2>2 DEF LVSolution
<1> QED BY <1>1, <1>2, <1>3, <1>4, <1>5, <1>6, <1>7, GraphStatic
        DEF LVInv, LVSolved, LVRunning

\* Evaluating the block in front of the queue.
LEMMA LVEvaluateStep ==
    ASSUME LVInv, Evaluate
    PROVE  LVInv'
<1> DEFINE b == Head(pending)
           Out == ExitFacts(b)
           In == Transfer(b, Out)
<1>1. /\ CFInv /\ LVTypeOK /\ phase = "solve" /\ QueueMatchesSet /\ pending \in Seq(Block)
      /\ affected = {} /\ at = program.entry /\ next = 1 /\ differs = {}
      /\ LVSettled /\ LVSolution
  BY DEF LVInv, Evaluate, TakeNext
<1>2. UNCHANGED cfVars /\ UNCHANGED <<program, graphVars, walkVars>> /\ phase' = phase
      /\ at' = at /\ next' = next /\ differs' = differs
  BY DEF Evaluate, cfVars, runVars
<1>3. CFInv'
  BY <1>1, <1>2, CFStutterInv
<1>4. /\ b \in scheduled /\ scheduled' = scheduled \ {b}
      /\ QueueMatchesSet' /\ pending' \in Seq(Block)
  BY <1>1, TakeQueue DEF Evaluate
<1>5. /\ discovered \subseteq Block /\ \A a \in discovered : Successors(a) \subseteq discovered
      /\ b \in discovered /\ b \in Block /\ b \in Catalog /\ program \in Program
  BY <1>1, <1>4, DiscoveredClosed DEF LVTypeOK, CFInv, CFTypeOK
<1>6. Out \in SUBSET Storage /\ In \in SUBSET Storage
  <2>1. Out \in SUBSET Storage
    BY <1>1, <1>5, ExitType DEF LVTypeOK
  <2> HIDE DEF Out
  <2>2. Transfer(b, Out) \in SUBSET Storage
    BY <1>5, <2>1, TransferMonotone
  <2> QED BY <2>1, <2>2
<1>7. /\ incoming' = [incoming EXCEPT ![b] = In]
      /\ outgoing' = [outgoing EXCEPT ![b] = Out]
      /\ \/ affected' = Predecessors(b)
         \/ affected' = {} /\ incoming' = incoming /\ outgoing' = outgoing
  BY <1>1, <1>5 DEF Evaluate, NotifyChanged, Unchanged, LVTypeOK
<1> HIDE DEF In, Out, b
<1>8. /\ \A c \in Block : incoming'[c] = IF c = b THEN In ELSE incoming[c]
      /\ \A c \in Block : outgoing'[c] = IF c = b THEN Out ELSE outgoing[c]
  BY <1>1, <1>5, <1>7 DEF LVTypeOK
<1>9. LVTypeOK'
  <2>1. Predecessors(b) \subseteq discovered
    BY DEF Predecessors
  <2> QED BY <1>1, <1>2, <1>4, <1>5, <1>6, <1>7, <2>1, GraphStatic DEF LVTypeOK
<1>10. LVSettled'
  <2> SUFFICES ASSUME NEW c \in discovered, c \notin scheduled', c \notin affected'
               PROVE  /\ outgoing'[c] = ExitFacts(c)'
                      /\ incoming'[c] = Transfer(c, outgoing[c])'
    BY <1>2, GraphStatic DEF LVSettled
  <2>1. ExitFacts(c)' = ExitFacts(c)
    <3>1. CASE incoming' = incoming
      BY <1>2, <3>1, ExitSame
    <3>2. CASE affected' = Predecessors(b)
      <4>1. b \notin Successors(c)
        BY <3>2 DEF Predecessors
      <4>2. \A a \in Successors(c) : incoming'[a] = incoming[a]
        BY <1>5, <1>8, <4>1
      <4> QED BY <1>2, <4>2, ExitSame
    <3> QED BY <1>7, <3>1, <3>2
  <2>2. Transfer(c, outgoing[c])' = Transfer(c, outgoing'[c])
    BY <1>2, EntrySame
  <2>3. CASE c = b
    BY <1>5, <1>8, <2>1, <2>2, <2>3 DEF In, Out
  <2>4. CASE c # b
    <3>1. outgoing[c] = ExitFacts(c) /\ incoming[c] = Transfer(c, outgoing[c])
      BY <1>1, <1>4, <2>4 DEF LVSettled
    <3> QED BY <1>5, <1>8, <2>1, <2>2, <2>4, <3>1
  <2> QED BY <2>3, <2>4
<1>11. LVSolution'
  <2> SUFFICES ASSUME NEW X \in [discovered -> SUBSET Storage], Solves(X), NEW c \in discovered
               PROVE  incoming'[c] \subseteq X[c]
    BY <1>2, GraphStatic, LVStatic DEF LVSolution
  <2>1. \A a \in discovered : incoming[a] \subseteq X[a]
    BY <1>1 DEF LVSolution
  <2>2. c \in Block
    BY <1>5
  <2>3. CASE c # b
    BY <1>8, <2>1, <2>2, <2>3
  <2>4. In \subseteq X[b]
    <3> DEFINE M == UNION {X[a] : a \in Successors(b)}
    <3>1. M \in SUBSET Storage /\ Out \subseteq M
      BY <1>5, <2>1 DEF Out, ExitFacts
    <3>2. Transfer(b, M) \subseteq X[b]
      BY <1>5 DEF Solves
    <3> HIDE DEF M
    <3>3. Transfer(b, Out) \subseteq Transfer(b, M)
      BY <1>5, <1>6, <3>1, TransferMonotone
    <3> QED BY <3>2, <3>3 DEF In
  <2>5. CASE c = b
    BY <1>8, <2>2, <2>4, <2>5
  <2> QED BY <2>3, <2>5
<1> QED BY <1>1, <1>2, <1>3, <1>4, <1>9, <1>10, <1>11 DEF LVInv, LVSolved, LVRunning

\* Scheduling one neighbour of a block that changed.
LEMMA LVPropagateStep ==
    ASSUME LVInv, Propagate
    PROVE  LVInv'
<1>1. /\ CFInv /\ LVTypeOK /\ phase = "solve" /\ QueueMatchesSet /\ pending \in Seq(Block)
      /\ at = program.entry /\ next = 1 /\ differs = {} /\ LVSettled /\ LVSolution
  BY DEF LVInv, Propagate
<1>2. UNCHANGED cfVars /\ UNCHANGED <<program, graphVars, walkVars>> /\ phase' = phase
      /\ at' = at /\ next' = next /\ differs' = differs
      /\ incoming' = incoming /\ outgoing' = outgoing
  BY DEF Propagate, cfVars, factVars, runVars
<1>3. CFInv'
  BY <1>1, <1>2, CFStutterInv
<1>4. /\ scheduled' \union affected' = scheduled \union affected
      /\ scheduled' \subseteq discovered /\ affected' \subseteq discovered
      /\ QueueMatchesSet' /\ pending' \in Seq(Block)
  BY <1>1, DiscoveredClosed, ScheduleQueue DEF LVTypeOK, Propagate
<1>5. LVTypeOK'
  BY <1>1, <1>2, <1>4, GraphStatic DEF LVTypeOK
<1>6. LVSettled'
  <2>1. \A c : ExitFacts(c)' = ExitFacts(c) /\ Transfer(c, outgoing[c])' = Transfer(c, outgoing[c])
    BY <1>2, ExitSame, EntrySame
  <2> QED BY <1>1, <1>2, <1>4, <2>1, GraphStatic DEF LVSettled
<1>7. LVSolution'
  BY <1>1, <1>2, GraphStatic, LVStatic DEF LVSolution
<1> QED BY <1>1, <1>2, <1>3, <1>4, <1>5, <1>6, <1>7 DEF LVInv, LVSolved, LVRunning

\* With the worklist empty the facts are a solution; the runs begin, alike.
LEMMA LVBuildStep ==
    ASSUME LVInv, BuildFacts
    PROVE  LVInv'
<1>1. /\ CFInv /\ LVTypeOK /\ phase = "solve" /\ phase' = "run" /\ QueueMatchesSet
      /\ pending = <<>> /\ affected = {} /\ at = program.entry /\ next = 1 /\ differs = {}
      /\ LVSettled /\ LVSolution
  BY DEF LVInv, BuildFacts, Exhausted
<1>2. /\ UNCHANGED <<program, graphVars, walkVars>>
      /\ incoming' = incoming /\ outgoing' = outgoing
      /\ scheduled' = scheduled /\ affected' = affected
      /\ at' = at /\ next' = next /\ differs' = differs
      /\ retained' = UNION {RetainedIn(b) : b \in Catalog}
  BY DEF BuildFacts, worklistVars, runVars
<1>3. CFInv'
  BY <1>1, <1>2, PhaseStep DEF CFInv
<1>4. scheduled = {}
  BY <1>1 DEF QueueMatchesSet
<1>5. \A b \in discovered : outgoing[b] = ExitFacts(b) /\ incoming[b] = Transfer(b, outgoing[b])
  BY <1>1, <1>4 DEF LVSettled
<1>6. /\ \A b : ExitFacts(b)' = ExitFacts(b) /\ Transfer(b, outgoing[b])' = Transfer(b, outgoing[b])
      /\ \A b : RetainedIn(b)' = RetainedIn(b)
      /\ Catalog' = Catalog
  BY <1>2, ExitSame, EntrySame, RetainedSame
<1>7. LVSolved'
  BY <1>2, <1>5, <1>6, GraphStatic DEF LVSolved
<1>8. LVTypeOK'
  BY <1>1, <1>2, GraphStatic DEF LVTypeOK
<1>9. LVSolution'
  BY <1>1, <1>2, GraphStatic, LVStatic DEF LVSolution
<1>10. LVRunning'
  <2> SUFFICES ASSUME at \in discovered PROVE next <= Len(Accesses(at)) + 1
    BY <1>1, <1>2, GraphStatic, LVStatic DEF LVRunning
  <2>1. Len(Accesses(at)) \in Nat
    BY <1>1, LVAccesses DEF CFInv, CFTypeOK
  <2> QED BY <1>1, <2>1
<1> QED BY <1>1, <1>2, <1>3, <1>7, <1>8, <1>9, <1>10 DEF LVInv, LVSettled

\* What a step of the runs leaves alone.
LEMMA LVRunFacts ==
    ASSUME LVInv, RunAccess \/ RunBranch
    PROVE  /\ CFInv /\ LVTypeOK /\ LVSolved /\ LVSolution /\ LVRunning
           /\ phase = "run" /\ at \in discovered /\ at \in Catalog /\ at \in Block
           /\ next \in Nat \ {0} /\ program \in Program
           /\ UNCHANGED cfVars /\ UNCHANGED <<program, graphVars, walkVars>> /\ phase' = phase
           /\ incoming' = incoming /\ outgoing' = outgoing /\ retained' = retained
           /\ scheduled' = scheduled /\ affected' = affected
           /\ CFInv' /\ LVSolved' /\ LVSolution'
<1>1. /\ CFInv /\ LVTypeOK /\ LVSolved /\ LVSolution /\ LVRunning
      /\ phase = "run" /\ at \in discovered /\ at \in Catalog /\ at \in Block
      /\ next \in Nat \ {0} /\ program \in Program
  BY DEF LVInv, LVTypeOK, CFInv, CFTypeOK, RunAccess, RunBranch
<1>2. /\ UNCHANGED cfVars /\ UNCHANGED <<program, graphVars, walkVars>> /\ phase' = phase
      /\ incoming' = incoming /\ outgoing' = outgoing /\ retained' = retained
      /\ scheduled' = scheduled /\ affected' = affected
  BY DEF RunAccess, RunBranch, cfVars, factVars, worklistVars
<1>3. CFInv'
  BY <1>1, <1>2, CFStutterInv
<1>4. /\ \A b : ExitFacts(b)' = ExitFacts(b) /\ Transfer(b, outgoing[b])' = Transfer(b, outgoing[b])
      /\ \A b : RetainedIn(b)' = RetainedIn(b)
      /\ Catalog' = Catalog
  BY <1>2, ExitSame, EntrySame, RetainedSame
<1>5. LVSolved'
  BY <1>1, <1>2, <1>4, GraphStatic DEF LVSolved
<1>6. LVSolution'
  BY <1>1, <1>2, GraphStatic, LVStatic DEF LVSolution
<1> QED BY <1>1, <1>2, <1>3, <1>5, <1>6

\* An access.  What is removed was dead, so it makes the runs differ where nothing is
\* live; what is retained reads live storage only, in which the runs agree.
LEMMA LVAccessStep ==
    ASSUME LVInv, RunAccess
    PROVE  LVInv'
<1> DEFINE B == LiveBefore(at, outgoing[at])[next]
           L == LiveBefore(at, outgoing[at])[next + 1]
           a == Accesses(at)[next]
<1>1. /\ CFInv /\ LVTypeOK /\ LVSolved /\ LVSolution /\ LVRunning
      /\ phase = "run" /\ at \in discovered /\ at \in Catalog /\ at \in Block
      /\ next \in Nat \ {0} /\ program \in Program
      /\ UNCHANGED cfVars /\ UNCHANGED <<program, graphVars, walkVars>> /\ phase' = phase
      /\ incoming' = incoming /\ outgoing' = outgoing /\ retained' = retained
      /\ scheduled' = scheduled /\ affected' = affected
      /\ CFInv' /\ LVSolved' /\ LVSolution'
  BY LVRunFacts
<1>2. /\ next <= Len(Accesses(at)) /\ next' = next + 1 /\ at' = at
      /\ differs' = IF <<at, next>> \in retained THEN AfterBoth(a) ELSE differs \union {a.write}
  BY DEF RunAccess
<1>3. /\ next \in 1..Len(Accesses(at)) /\ a \in Access /\ Len(Accesses(at)) \in Nat
      /\ DOMAIN Accesses(at) = 1..Len(Accesses(at))
  BY <1>1, <1>2, LVAccesses
<1>4. B = Apply(a, L)
  BY <1>3, LiveUnfolds
<1>5. differs \intersect B = {} /\ differs \subseteq Storage
  BY <1>1 DEF LVRunning, LVTypeOK
<1>6. <<at, next>> \in retained <=> ~IsDead(a, L)
  <2>1. retained = UNION {RetainedIn(b) : b \in Catalog}
    BY <1>1 DEF LVSolved
  <2>2. \A b : <<at, next>> \in RetainedIn(b) => b = at
    BY DEF RetainedIn
  <2>3. <<at, next>> \in retained <=> <<at, next>> \in RetainedIn(at)
    BY <1>1, <2>1, <2>2
  <2>4. <<at, next>> \in RetainedIn(at) <=> ~IsDead(a, L)
    BY <1>1, <1>3 DEF RetainedIn
  <2> QED BY <2>3, <2>4
<1> HIDE DEF B, L, a
<1>7. differs' \intersect L = {} /\ differs' \subseteq Storage
  <2>1. CASE IsDead(a, L)
    <3>1. B = L /\ a.write \in Storage \ L
      BY <1>4, <2>1 DEF Apply, IsDead
    <3> QED BY <1>2, <1>5, <1>6, <2>1, <3>1
  <2>2. CASE ~IsDead(a, L)
    <3>1. B = (L \ {a.write}) \union a.reads
      BY <1>4, <2>2 DEF Apply
    <3>2. a.reads \intersect differs = {}
      BY <1>5, <3>1
    <3>3. differs' = differs \ {a.write}
      BY <1>2, <1>6, <2>2, <3>2 DEF AfterBoth
    <3> QED BY <1>5, <3>1, <3>3
  <2> QED BY <2>1, <2>2
<1>8. LVRunning'
  <2>1. /\ Accesses(at)' = Accesses(at)
        /\ LiveBefore(at, outgoing[at])' = LiveBefore(at, outgoing[at])
    <3>1. PICK b : b = at
      OBVIOUS
    <3>2. Accesses(b)' = Accesses(b) /\ LiveBefore(b, outgoing[b])' = LiveBefore(b, outgoing[b])
      BY <1>1, LVStatic, EntrySame
    <3> QED BY <1>1, <1>2, <3>1, <3>2 DEF LiveBefore, Accesses
  <2> QED BY <1>2, <1>3, <1>7, <2>1 DEF LVRunning, L
<1>9. LVTypeOK'
  BY <1>1, <1>2, <1>7, GraphStatic DEF LVTypeOK
<1> QED BY <1>1, <1>8, <1>9 DEF LVInv, LVSettled

\* A branch.  What is live at the successor is live on the way out.
LEMMA LVBranchStep ==
    ASSUME LVInv, RunBranch
    PROVE  LVInv'
<1>1. /\ CFInv /\ LVTypeOK /\ LVSolved /\ LVSolution /\ LVRunning
      /\ phase = "run" /\ at \in discovered /\ at \in Catalog /\ at \in Block
      /\ next \in Nat \ {0} /\ program \in Program
      /\ UNCHANGED cfVars /\ UNCHANGED <<program, graphVars, walkVars>> /\ phase' = phase
      /\ incoming' = incoming /\ outgoing' = outgoing /\ retained' = retained
      /\ scheduled' = scheduled /\ affected' = affected
      /\ CFInv' /\ LVSolved' /\ LVSolution'
  BY LVRunFacts
<1>2. PICK c \in Successors(at) : at' = c
  BY DEF RunBranch
<1>3. next > Len(Accesses(at)) /\ next' = 1 /\ differs' = differs
  BY DEF RunBranch
<1>4. c \in discovered /\ c \in Catalog /\ c \in Block
  BY <1>1, <1>2, DiscoveredClosed DEF CFInv, CFTypeOK
<1>5. Len(Accesses(at)) \in Nat /\ Len(Accesses(c)) \in Nat
  BY <1>1, <1>4, LVAccesses
<1>6. next = Len(Accesses(at)) + 1
  BY <1>1, <1>3, <1>5 DEF LVRunning
<1>7. differs \intersect outgoing[at] = {}
  BY <1>1, <1>5, <1>6, LiveUnfolds DEF LVRunning
<1>8. outgoing[at] = ExitFacts(at) /\ incoming[c] = LiveBefore(c, outgoing[c])[1]
  BY <1>1, <1>4 DEF LVSolved, Transfer
<1>9. incoming[c] \subseteq outgoing[at]
  BY <1>2, <1>8 DEF ExitFacts
<1>10. LVRunning'
  <2>1. LiveBefore(c, outgoing[c])' = LiveBefore(c, outgoing[c]) /\ Accesses(c)' = Accesses(c)
    BY <1>1, LVStatic, EntrySame
  <2>2. 1 <= Len(Accesses(c)) + 1 /\ differs' \intersect LiveBefore(c, outgoing[c])[1] = {}
    BY <1>3, <1>5, <1>7, <1>8, <1>9
  <2> QED BY <1>2, <1>3, <2>1, <2>2 DEF LVRunning
<1>11. LVTypeOK'
  BY <1>1, <1>2, <1>3, <1>4, GraphStatic DEF LVTypeOK
<1> QED BY <1>1, <1>10, <1>11 DEF LVInv, LVSettled

\* A stuttering step.
LEMMA LVStutter ==
    ASSUME LVInv, UNCHANGED lvVars
    PROVE  LVInv'
<1>1. /\ UNCHANGED cfVars /\ UNCHANGED <<program, graphVars, walkVars>> /\ phase' = phase
      /\ incoming' = incoming /\ outgoing' = outgoing /\ retained' = retained
      /\ scheduled' = scheduled /\ affected' = affected /\ pending' = pending
      /\ at' = at /\ next' = next /\ differs' = differs
  BY DEF lvVars, cfVars, factVars, worklistVars, runVars
<1>2. CFInv'
  BY <1>1, CFStutterInv DEF LVInv
<1>3. /\ \A b : ExitFacts(b)' = ExitFacts(b) /\ Transfer(b, outgoing[b])' = Transfer(b, outgoing[b])
      /\ \A b : LiveBefore(b, outgoing[b])' = LiveBefore(b, outgoing[b])
      /\ \A b : RetainedIn(b)' = RetainedIn(b)
      /\ Catalog' = Catalog
  BY <1>1, ExitSame, EntrySame, RetainedSame
<1>4. LVTypeOK'
  BY <1>1, GraphStatic DEF LVTypeOK, LVInv
<1>5. LVSettled' /\ LVSolved'
  BY <1>1, <1>3, GraphStatic DEF LVSettled, LVSolved, LVInv
<1>6. LVSolution'
  BY <1>1, GraphStatic, LVStatic DEF LVSolution, LVInv
<1>7. QueueMatchesSet' = QueueMatchesSet
  BY <1>1 DEF QueueMatchesSet
<1>8. LVRunning'
  BY <1>1, <1>3, GraphStatic, LVStatic DEF LVRunning, LVInv
<1> QED BY <1>1, <1>2, <1>4, <1>5, <1>6, <1>7, <1>8, GraphStatic DEF LVInv

\* The inductive invariant, for every function and every storage.
THEOREM LVInvariance == LVSpec => []LVInv
<1>1. LVInit => LVInv
  BY LVInitInv
<1>2. LVInv /\ [LVNext]_lvVars => LVInv'
  BY LVControlFlowStep, LVStartStep, LVEvaluateStep, LVPropagateStep, LVBuildStep, LVAccessStep,
     LVBranchStep, LVStutter
     DEF LVNext
<1> QED BY <1>1, <1>2, PTL DEF LVSpec

\* The facts are the least solution: they start empty and a step of the worklist replaces
\* a fact by what a monotone function makes of facts that are below every solution.
THEOREM LeastFactsHolds == LVSpec => []LeastFacts
<1>1. LVInv => LeastFacts
  BY DEF LVInv, LVSolution, LeastFacts
<1> QED BY <1>1, LVInvariance, PTL

\* Removing what is dead is never noticed: what an access that stays reads is live, and
\* the run of the optimized function agrees with the other on everything live.
THEOREM RemovalInvisibleHolds == LVSpec => []RemovalInvisible
<1>1. LVInv => RemovalInvisible
  <2> SUFFICES ASSUME LVInv, phase = "run", at \in discovered, next <= Len(Accesses(at)),
                      <<at, next>> \in retained
               PROVE  Accesses(at)[next].reads \intersect differs = {}
    BY DEF RemovalInvisible
  <2> DEFINE L == LiveBefore(at, outgoing[at])[next + 1]
             a == Accesses(at)[next]
  <2>1. /\ at \in Catalog /\ program \in Program /\ next \in Nat \ {0}
        /\ retained = UNION {RetainedIn(b) : b \in Catalog}
        /\ differs \intersect LiveBefore(at, outgoing[at])[next] = {}
    BY DEF LVInv, CFInv, CFTypeOK, LVTypeOK, LVSolved, LVRunning
  <2>2. /\ next \in 1..Len(Accesses(at)) /\ Len(Accesses(at)) \in Nat
        /\ DOMAIN Accesses(at) = 1..Len(Accesses(at))
    BY <2>1, LVAccesses
  <2>3. LiveBefore(at, outgoing[at])[next] = Apply(a, L)
    BY <2>2, LiveUnfolds
  <2>4. <<at, next>> \in RetainedIn(at)
    <3>1. \A b : <<at, next>> \in RetainedIn(b) => b = at
      BY DEF RetainedIn
    <3> QED BY <2>1, <3>1
  <2>5. ~IsDead(a, L)
    BY <2>1, <2>2, <2>4 DEF RetainedIn
  <2> HIDE DEF L, a
  <2>6. a.reads \subseteq Apply(a, L)
    BY <2>5 DEF Apply
  <2>7. a.reads \intersect differs = {}
    BY <2>1, <2>3, <2>6
  <2> QED BY <2>7 DEF a
<1> QED BY <1>1, LVInvariance, PTL

=============================================================================
