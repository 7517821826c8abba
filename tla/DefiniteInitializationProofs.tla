-------------------- MODULE DefiniteInitializationProofs --------------------
(***************************************************************************)
(* The worklist computes the meaning of definite initialization, for every *)
(* function, and no run reads what the report did not name.                *)
(***************************************************************************)
EXTENDS DefiniteInitialization, ControlFlowProofs

USE DeclaredAssumption

\* What the analyses see of the function does not change once it is walked.
LEMMA Static ==
    ASSUME UNCHANGED <<program, graphVars, walkVars>>
    PROVE  /\ program' = program /\ discovered' = discovered /\ Catalog' = Catalog
           /\ \A b : Successors(b)' = Successors(b)
           /\ \A b : Predecessors(b)' = Predecessors(b)
           /\ \A b : Accesses(b)' = Accesses(b)
           /\ \A b : Writes(b)' = Writes(b)
           /\ \A s, S : Unwritten(s, S)' <=> Unwritten(s, S)
<1>1. \A b : Accesses(b)' = Accesses(b)
  BY GraphStatic DEF Accesses
<1>2. \A b : Writes(b)' = Writes(b)
  BY <1>1 DEF Writes
<1>3. \A s, S : Unwritten(s, S)' <=> Unwritten(s, S)
  BY GraphStatic, <1>2 DEF Unwritten, InitialStorage
<1> QED BY GraphStatic, <1>1, <1>2, <1>3

\* Facts are sets of declared storage.
LEMMA FactTypes ==
    ASSUME outgoing \in [Block -> SUBSET Declared], NEW b
    PROVE  /\ InitialStorage \subseteq Declared
           /\ IncomingFacts(b) \subseteq Declared
           /\ \A X \in SUBSET Declared : TransferWrites(b, X) \subseteq Declared
<1>1. InitialStorage \subseteq Declared
  BY DEF InitialStorage
<1>2. IncomingFacts(b) \subseteq Declared
  BY <1>1 DEF IncomingFacts
<1>3. Writes(b) \subseteq Declared
  BY DEF Writes
<1> QED BY <1>1, <1>2, <1>3 DEF TransferWrites

\* The incoming facts of a block depend on its predecessors only.
LEMMA IncomingSame ==
    ASSUME UNCHANGED <<program, graphVars, walkVars>>, NEW c,
           \A a \in Predecessors(c) : outgoing'[a] = outgoing[a]
    PROVE  IncomingFacts(c)' = IncomingFacts(c)
<1>1. program' = program /\ Predecessors(c)' = Predecessors(c)
  BY Static
<1> QED BY <1>1 DEF IncomingFacts, InitialStorage

\* The initial state.
LEMMA DIInitInv ==
    ASSUME DIInit
    PROVE  DIInv
<1>0. CFInit /\ program \in Program
  BY ProgramsAssumption DEF DIInit, CFInit
<1>1. CFInv /\ program \in Program /\ program.entry \in Block
  BY <1>0, CFInitInv, InputFacts
<1>2. phase = "edges" /\ scheduled = {} /\ affected = {}
  BY DEF DIInit, CFInit, WorklistInit
<1>3. DITypeOK
  BY <1>1, <1>2 DEF DIInit, DITypeOK
<1> QED BY <1>1, <1>2, <1>3 DEF DIInit, DIInv, SettledBlocks, SolutionInv, RunInv

\* The control-flow pass.
LEMMA ControlFlowStep ==
    ASSUME DIInv, AnalyzeControlFlow
    PROVE  DIInv'
<1>1. /\ CFInv /\ DITypeOK /\ CFNext
      /\ phase # "run" => at = program.entry /\ next = 1
      /\ phase \in {"solve", "run"} \/ (scheduled = {} /\ affected = {})
  BY DEF DIInv, AnalyzeControlFlow
<1>2. CFInv'
  BY <1>1, CFNextInv
<1>3. /\ phase \in {"edges", "traverse"} /\ phase' \in {"edges", "traverse", "analysed"}
      /\ program' = program
  BY <1>1 DEF CFNext, ReadTarget, NextRecord, ReadsRecord, BeginTraverse, Follow, Leave,
              EndTraverse
<1>4. /\ scheduled' = {} /\ affected' = {} /\ incoming' = incoming /\ outgoing' = outgoing
      /\ at' = at /\ next' = next /\ written' = written
  BY <1>1, <1>3 DEF AnalyzeControlFlow, worklistVars, factVars, runVars
<1>5. DITypeOK'
  BY <1>1, <1>3, <1>4 DEF DITypeOK
<1>6. phase' \notin {"solve", "run"}
  BY <1>3
<1> QED BY <1>1, <1>2, <1>3, <1>4, <1>5, <1>6
        DEF DIInv, SettledBlocks, SolutionInv, RunInv

\* The worklist starts with every reachable block, and the facts at top.
LEMMA StartStep ==
    ASSUME DIInv, StartFixedPoint
    PROVE  DIInv'
<1>1. CFInv /\ DITypeOK /\ phase = "analysed" /\ phase' = "solve" /\ CFTypeOK
  BY DEF DIInv, StartFixedPoint, CFInv
<1>2. /\ program' = program /\ UNCHANGED <<program, graphVars, walkVars>>
      /\ at' = at /\ next' = next /\ written' = written
      /\ at = program.entry /\ next = 1
  BY <1>1 DEF StartFixedPoint, DIInv, runVars
<1>3. stack = <<>> /\ discovered = Left /\ discovered \subseteq Block
  BY <1>1, DiscoveredClosed DEF CFInv
<1>4. CFInv'
  BY <1>1, <1>2, <1>3, PhaseStep
<1>5. /\ scheduled' = discovered /\ affected' = {}
      /\ QueueMatchesSet' /\ pending' \in Seq(Block)
  BY <1>1, StartQueue DEF StartFixedPoint
<1>6. /\ InitialStorage \subseteq Declared
      /\ \A b : Writes(b) \subseteq Declared
      /\ \A b \in Block : b \notin discovered => incoming'[b] = {} /\ outgoing'[b] = {}
      /\ \A b \in discovered : b # program.entry =>
           incoming'[b] = Declared /\ outgoing'[b] = Declared \union Writes(b)
      /\ program.entry \in discovered =>
           /\ incoming'[program.entry] = InitialStorage
           /\ outgoing'[program.entry] = InitialStorage \union Writes(program.entry)
  <2>1. InitialStorage \subseteq Declared /\ \A b : Writes(b) \subseteq Declared
    BY DEF InitialStorage, Writes
  <2>2. \A b \in Block : incoming'[b] = IF b \notin discovered THEN {}
                  ELSE IF b = program.entry THEN InitialStorage ELSE Declared
    BY DEF StartFixedPoint
  <2>3. \A b \in Block : outgoing'[b] = IF b \notin discovered THEN {}
                  ELSE (IF b = program.entry THEN InitialStorage ELSE Declared) \union Writes(b)
    BY DEF StartFixedPoint, TransferWrites
  <2> QED BY <2>1, <2>2, <2>3, <1>3
<1>7. incoming' \in [Block -> SUBSET Declared] /\ outgoing' \in [Block -> SUBSET Declared]
  <2>1. \A b \in Block : incoming'[b] \subseteq Declared /\ outgoing'[b] \subseteq Declared
    <3> TAKE b \in Block
    <3>1. CASE b \notin discovered
      BY <3>1, <1>6
    <3>2. CASE b \in discovered /\ b = program.entry
      BY <3>2, <1>6
    <3>3. CASE b \in discovered /\ b # program.entry
      BY <3>3, <1>6
    <3> QED BY <3>1, <3>2, <3>3
  <2>2. /\ incoming' = [b \in Block |-> incoming'[b]]
        /\ outgoing' = [b \in Block |-> outgoing'[b]]
    BY DEF StartFixedPoint
  <2> QED BY <2>1, <2>2
<1>8. DITypeOK'
  BY <1>1, <1>2, <1>5, <1>7, Static DEF DITypeOK
<1>9. SolutionInv'
  <2> SUFFICES ASSUME NEW s \in Declared, NEW S \in SUBSET discovered, Unwritten(s, S),
                      NEW b \in discovered
               PROVE  /\ s \notin incoming'[b] => b \in S
                      /\ s \notin outgoing'[b] => b \in S /\ s \notin Writes(b)
    BY <1>2, Static DEF SolutionInv
  <2>1. CASE b = program.entry
    BY <2>1, <1>6 DEF Unwritten
  <2>2. CASE b # program.entry
    BY <2>2, <1>6
  <2> QED BY <2>1, <2>2
<1>10. SettledBlocks'
  BY <1>2, <1>5, Static DEF SettledBlocks
<1> QED BY <1>1, <1>2, <1>4, <1>5, <1>8, <1>9, <1>10 DEF DIInv, RunInv

\* Evaluating the block in front of the queue.
LEMMA EvaluateStep ==
    ASSUME DIInv, Evaluate
    PROVE  DIInv'
<1> DEFINE b == Head(pending)
           In == IncomingFacts(b)
           Out == TransferWrites(b, In)
<1>1. /\ CFInv /\ DITypeOK /\ phase = "solve" /\ QueueMatchesSet /\ pending \in Seq(Block)
      /\ affected = {} /\ pending # <<>> /\ at = program.entry /\ next = 1
  BY DEF DIInv, Evaluate, TakeNext
<1>2. UNCHANGED cfVars /\ UNCHANGED <<program, graphVars, walkVars>> /\ phase' = phase
      /\ at' = at /\ next' = next /\ written' = written
  BY DEF Evaluate, cfVars, runVars
<1>3. CFInv'
  BY <1>1, <1>2, CFStutterInv
<1>4. /\ b \in scheduled /\ scheduled' = scheduled \ {b}
      /\ QueueMatchesSet' /\ pending' \in Seq(Block)
  BY <1>1, TakeQueue DEF Evaluate
<1>5. b \in discovered /\ b \in Block
  BY <1>1, <1>4, DiscoveredClosed DEF DITypeOK
<1>6. /\ In \subseteq Declared /\ Out \subseteq Declared
  BY <1>1, FactTypes DEF DITypeOK
<1>7. /\ incoming' = [incoming EXCEPT ![b] = In]
      /\ outgoing' = [outgoing EXCEPT ![b] = Out]
      /\ \/ affected' = Successors(b)
         \/ affected' = {} /\ incoming' = incoming /\ outgoing' = outgoing
  BY <1>1, <1>5 DEF Evaluate, NotifyChanged, Unchanged, DITypeOK
<1> HIDE DEF In, Out, b
<1>8. /\ \A c \in Block : incoming'[c] = IF c = b THEN In ELSE incoming[c]
      /\ \A c \in Block : outgoing'[c] = IF c = b THEN Out ELSE outgoing[c]
  BY <1>1, <1>5, <1>7 DEF DITypeOK
<1>9. discovered \subseteq Block /\ \A a \in discovered : Successors(a) \subseteq discovered
  BY <1>1, DiscoveredClosed
<1>10. DITypeOK'
  BY <1>1, <1>2, <1>4, <1>5, <1>6, <1>7, <1>9, Static DEF DITypeOK
<1>11. SettledBlocks'
  <2> SUFFICES ASSUME NEW c \in discovered, c \notin scheduled', c \notin affected'
               PROVE  /\ incoming'[c] = IncomingFacts(c)'
                      /\ outgoing'[c] = TransferWrites(c, incoming[c])'
    BY <1>2, Static DEF SettledBlocks
  <2>1. IncomingFacts(c)' = IncomingFacts(c)
    <3>1. CASE outgoing' = outgoing
      BY <3>1, <1>2, IncomingSame
    <3>2. CASE affected' = Successors(b)
      <4>1. b \notin Predecessors(c)
        BY <3>2 DEF Predecessors
      <4>2. \A a \in Predecessors(c) : outgoing'[a] = outgoing[a]
        BY <4>1, <1>8, <1>9 DEF Predecessors
      <4> QED BY <4>2, <1>2, IncomingSame
    <3> QED BY <3>1, <3>2, <1>7
  <2>2. TransferWrites(c, incoming[c])' = TransferWrites(c, incoming'[c])
    BY <1>2, Static DEF TransferWrites
  <2>3. c \in Block
    BY <1>9
  <2>4. CASE c = b
    BY <2>1, <2>2, <2>3, <2>4, <1>8 DEF In, Out
  <2>5. CASE c # b
    <3>1. incoming[c] = IncomingFacts(c) /\ outgoing[c] = TransferWrites(c, incoming[c])
      BY <2>5, <1>1, <1>4 DEF DIInv, SettledBlocks
    <3> QED BY <3>1, <2>1, <2>2, <2>3, <2>5, <1>8
  <2> QED BY <2>4, <2>5
<1>12. SolutionInv'
  <2> SUFFICES ASSUME NEW s \in Declared, NEW S \in SUBSET discovered, Unwritten(s, S),
                      NEW c \in discovered
               PROVE  /\ s \notin incoming'[c] => c \in S
                      /\ s \notin outgoing'[c] => c \in S /\ s \notin Writes(c)
    BY <1>2, Static DEF SolutionInv
  <2>1. \A a \in discovered : /\ s \notin incoming[a] => a \in S
                              /\ s \notin outgoing[a] => a \in S /\ s \notin Writes(a)
    BY <1>1 DEF DIInv, SolutionInv
  <2>2. c \in Block
    BY <1>9
  <2>3. CASE c # b
    BY <2>1, <2>2, <2>3, <1>8
  <2>4. CASE c = b
    <3>1. s \notin In => b \in S
      <4>1. CASE b = program.entry
        BY <4>1 DEF In, IncomingFacts, Unwritten
      <4>2. CASE b # program.entry
        <5>1. Predecessors(b) # {}
          BY <4>2, <1>1, <1>5 DEF CFInv, Predecessors
        <5>2. s \notin In => \E a \in Predecessors(b) : s \notin outgoing[a]
          BY <4>2, <5>1 DEF In, IncomingFacts
        <5>3. \A a \in Predecessors(b) : a \in discovered /\ b \in Successors(a)
          BY DEF Predecessors
        <5> QED BY <5>2, <5>3, <4>2, <2>1 DEF Unwritten
      <4> QED BY <4>1, <4>2
    <3>2. s \notin Out => s \notin In /\ s \notin Writes(b)
      BY DEF Out, TransferWrites
    <3> QED BY <3>1, <3>2, <2>2, <2>4, <1>8
  <2> QED BY <2>3, <2>4
<1> QED BY <1>1, <1>2, <1>3, <1>4, <1>10, <1>11, <1>12 DEF DIInv, RunInv

\* Scheduling one neighbour of a block that changed.
LEMMA PropagateStep ==
    ASSUME DIInv, Propagate
    PROVE  DIInv'
<1>1. /\ CFInv /\ DITypeOK /\ phase = "solve" /\ QueueMatchesSet /\ pending \in Seq(Block)
      /\ at = program.entry /\ next = 1
  BY DEF DIInv, Propagate
<1>2. UNCHANGED cfVars /\ UNCHANGED <<program, graphVars, walkVars>> /\ phase' = phase
      /\ at' = at /\ next' = next /\ written' = written
      /\ incoming' = incoming /\ outgoing' = outgoing
  BY DEF Propagate, cfVars, factVars, runVars
<1>3. CFInv'
  BY <1>1, <1>2, CFStutterInv
<1>4. /\ scheduled' \union affected' = scheduled \union affected
      /\ scheduled' \subseteq discovered /\ affected' \subseteq discovered
      /\ QueueMatchesSet' /\ pending' \in Seq(Block)
  BY <1>1, DiscoveredClosed, ScheduleQueue DEF DITypeOK, Propagate
<1>5. DITypeOK'
  BY <1>1, <1>2, <1>4, Static DEF DITypeOK
<1>6. \A c : IncomingFacts(c)' = IncomingFacts(c)
  BY <1>2, IncomingSame
<1>7. SettledBlocks'
  <2>1. \A c, X : TransferWrites(c, X)' = TransferWrites(c, X)
    BY <1>2, Static DEF TransferWrites
  <2>2. \A c : TransferWrites(c, incoming[c])' = TransferWrites(c, incoming[c])
    BY <1>2, Static DEF TransferWrites
  <2> QED BY <2>2, <1>1, <1>2, <1>4, <1>6, Static DEF DIInv, SettledBlocks
<1>8. SolutionInv'
  BY <1>2, Static DEF DIInv, SolutionInv
<1> QED BY <1>1, <1>2, <1>3, <1>4, <1>5, <1>7, <1>8 DEF DIInv, RunInv

\* With the worklist empty the equations hold everywhere; the run begins.
LEMMA ValidateStep ==
    ASSUME DIInv, ValidateAccesses
    PROVE  DIInv'
<1>1. /\ CFInv /\ DITypeOK /\ phase = "solve" /\ phase' = "run" /\ QueueMatchesSet
      /\ pending = <<>> /\ affected = {} /\ at = program.entry /\ next = 1
  BY DEF DIInv, ValidateAccesses, Exhausted
<1>2. /\ UNCHANGED <<program, graphVars, walkVars>>
      /\ incoming' = incoming /\ outgoing' = outgoing /\ scheduled' = scheduled
      /\ affected' = affected /\ at' = at /\ next' = next /\ written' = InitialStorage
      /\ reports' = UNION {ReportsOf(b) : b \in discovered}
  BY DEF ValidateAccesses, worklistVars
<1>3. CFInv'
  BY <1>1, <1>2, PhaseStep DEF CFInv
<1>4. scheduled = {}
  BY <1>1 DEF QueueMatchesSet
<1>5. \A b \in discovered : /\ incoming[b] = IncomingFacts(b)
                            /\ outgoing[b] = TransferWrites(b, incoming[b])
  BY <1>1, <1>4 DEF DIInv, SettledBlocks
<1>6. /\ \A b : IncomingFacts(b)' = IncomingFacts(b)
      /\ \A b : TransferWrites(b, incoming[b])' = TransferWrites(b, incoming[b])
      /\ InitialStorage' = InitialStorage
  BY <1>2, IncomingSame, Static DEF TransferWrites, InitialStorage
<1>7. \A b, i : InitializedBefore(b, i)' = InitializedBefore(b, i)
  BY <1>2, Static DEF InitializedBefore
<1>8. \A b : ReportsOf(b)' = ReportsOf(b)
  BY <1>2, <1>7, Static DEF ReportsOf
<1>9. at \in discovered => InitializedBefore(at, next) \subseteq InitialStorage
  <2>1. InitializedBefore(at, 1) = incoming[at]
    BY DEF InitializedBefore
  <2>2. at \in discovered => incoming[at] = InitialStorage
    BY <1>1, <1>5 DEF IncomingFacts
  <2> QED BY <2>1, <2>2, <1>1
<1>10. RunInv'
  BY <1>2, <1>5, <1>6, <1>7, <1>8, <1>9, Static DEF RunInv
<1>11. DITypeOK'
  BY <1>1, <1>2, Static DEF DITypeOK, InitialStorage
<1>12. SolutionInv'
  BY <1>1, <1>2, Static DEF DIInv, SolutionInv
<1> QED BY <1>1, <1>3, <1>10, <1>11, <1>12 DEF DIInv, SettledBlocks

\* An execution keeps having written what the facts promise.
LEMMA RunStep ==
    ASSUME DIInv, RunAccess \/ RunBranch
    PROVE  DIInv'
<1>1. CFInv /\ DITypeOK /\ phase = "run" /\ at \in discovered /\ RunInv
  BY DEF DIInv, RunAccess, RunBranch
<1>2. /\ UNCHANGED cfVars /\ UNCHANGED <<program, graphVars, walkVars>> /\ phase' = phase
      /\ incoming' = incoming /\ outgoing' = outgoing /\ reports' = reports
      /\ scheduled' = scheduled /\ affected' = affected
  BY DEF RunAccess, RunBranch, cfVars, factVars, worklistVars
<1>3. CFInv'
  BY <1>1, <1>2, CFStutterInv
<1>4. /\ \A b : IncomingFacts(b)' = IncomingFacts(b)
      /\ \A b : TransferWrites(b, incoming[b])' = TransferWrites(b, incoming[b])
      /\ InitialStorage' = InitialStorage
  BY <1>2, IncomingSame, Static DEF TransferWrites, InitialStorage
<1>5. \A b, i : InitializedBefore(b, i)' = InitializedBefore(b, i)
  BY <1>2, Static DEF InitializedBefore
<1>6. \A b : ReportsOf(b)' = ReportsOf(b)
  BY <1>2, <1>5, Static DEF ReportsOf
<1>7. /\ \A b \in discovered : /\ incoming[b] = IncomingFacts(b)
                               /\ outgoing[b] = TransferWrites(b, incoming[b])
      /\ reports = UNION {ReportsOf(b) : b \in discovered}
      /\ InitialStorage \subseteq written
      /\ InitializedBefore(at, next) \subseteq written
  BY <1>1 DEF RunInv
<1>8. /\ discovered \subseteq Catalog /\ discovered \subseteq Block
      /\ Successors(at) \subseteq discovered /\ program \in Program
  BY <1>1, DiscoveredClosed DEF CFInv, CFTypeOK
<1>9. Accesses(at) \in Seq(Access)
  BY <1>1, <1>8, AccessesType DEF Accesses
<1>10. at' \in discovered /\ next' \in Nat \ {0} /\ written' \subseteq Declared
       /\ written \subseteq written'
  BY <1>1, <1>8 DEF RunAccess, RunBranch, DITypeOK
<1>11. InitializedBefore(at', next') \subseteq written'
  <2>1. CASE RunAccess
    <3>1. at' = at /\ next' = next + 1 /\ next \in Nat \ {0}
          /\ written' = written \union ({Accesses(at)[next].write} \intersect Declared)
      BY <2>1, <1>1 DEF RunAccess, DITypeOK
    <3>2. 1..(next + 1) - 1 = (1..next - 1) \union {next}
      BY <3>1
    <3>3. InitializedBefore(at, next + 1) \subseteq
            InitializedBefore(at, next) \union ({Accesses(at)[next].write} \intersect Declared)
      BY <3>2 DEF InitializedBefore
    <3> QED BY <3>1, <3>3, <1>7
  <2>2. CASE RunBranch
    <3>1. PICK b \in Successors(at) : at' = b
      BY <2>2 DEF RunBranch
    <3>2. next' = 1 /\ written' = written /\ next > Len(Accesses(at)) /\ next \in Nat
      BY <2>2, <1>1 DEF RunBranch, DITypeOK
    <3>3. InitializedBefore(b, 1) = incoming[b]
      BY DEF InitializedBefore
    <3>4. DOMAIN Accesses(at) \subseteq 1..next - 1
      BY <3>2, <1>9
    <3>5. outgoing[at] \subseteq written
      <4>1. Writes(at) \subseteq InitializedBefore(at, next)
        BY <3>4 DEF Writes, InitializedBefore
      <4>2. incoming[at] \subseteq InitializedBefore(at, next)
        BY DEF InitializedBefore
      <4> QED BY <4>1, <4>2, <1>1, <1>7 DEF TransferWrites
    <3>6. incoming[b] \subseteq written
      <4>1. at \in Predecessors(b) /\ b \in discovered
        BY <3>1, <1>1, <1>8 DEF Predecessors
      <4>2. incoming[b] = IncomingFacts(b)
        BY <4>1, <1>7
      <4>3. IncomingFacts(b) \subseteq InitialStorage \union outgoing[at]
        BY <4>1 DEF IncomingFacts
      <4> QED BY <4>2, <4>3, <3>5, <1>7
    <3> QED BY <3>1, <3>2, <3>3, <3>6
  <2> QED BY <2>1, <2>2
<1>12. InitializedBefore(at, next)' = InitializedBefore(at', next')
  BY <1>2, Static DEF InitializedBefore
<1>13. RunInv'
  BY <1>2, <1>4, <1>6, <1>7, <1>10, <1>11, <1>12, Static DEF RunInv
<1>14. DITypeOK'
  BY <1>1, <1>2, <1>8, <1>10, Static DEF DITypeOK
<1>15. SolutionInv'
  BY <1>2, Static DEF DIInv, SolutionInv
<1> QED BY <1>1, <1>2, <1>3, <1>13, <1>14, <1>15 DEF DIInv, SettledBlocks

\* A stuttering step.
LEMMA DIStutter ==
    ASSUME DIInv, UNCHANGED diVars
    PROVE  DIInv'
<1>1. /\ UNCHANGED cfVars /\ UNCHANGED <<program, graphVars, walkVars>> /\ phase' = phase
      /\ incoming' = incoming /\ outgoing' = outgoing /\ reports' = reports
      /\ scheduled' = scheduled /\ affected' = affected /\ pending' = pending
      /\ at' = at /\ next' = next /\ written' = written
  BY DEF diVars, cfVars, factVars, worklistVars, runVars
<1>2. CFInv'
  BY <1>1, CFStutterInv DEF DIInv
<1>3. /\ \A b : IncomingFacts(b)' = IncomingFacts(b)
      /\ \A b : TransferWrites(b, incoming[b])' = TransferWrites(b, incoming[b])
      /\ InitialStorage' = InitialStorage
  BY <1>1, IncomingSame, Static DEF TransferWrites, InitialStorage
<1>4. \A b, i : InitializedBefore(b, i)' = InitializedBefore(b, i)
  BY <1>1, Static DEF InitializedBefore
<1>5. /\ \A b : ReportsOf(b)' = ReportsOf(b)
      /\ InitializedBefore(at, next)' = InitializedBefore(at, next)
  BY <1>1, <1>4, Static DEF ReportsOf, InitializedBefore
<1>6. RunInv'
  BY <1>1, <1>3, <1>5, Static DEF RunInv, DIInv
<1>7. DITypeOK'
  BY <1>1, Static DEF DITypeOK, DIInv
<1>8. SolutionInv'
  BY <1>1, Static DEF DIInv, SolutionInv
<1>9. SettledBlocks' /\ QueueMatchesSet' = QueueMatchesSet
  BY <1>1, <1>3, Static DEF DIInv, SettledBlocks, QueueMatchesSet
<1> QED BY <1>1, <1>2, <1>6, <1>7, <1>8, <1>9 DEF DIInv

\* The inductive invariant, for every function and every storage.
THEOREM DIInvariance == DISpec => []DIInv
<1>1. DIInit => DIInv
  BY DIInitInv
<1>2. DIInv /\ [DINext]_diVars => DIInv'
  BY ControlFlowStep, StartStep, EvaluateStep, PropagateStep, ValidateStep, RunStep, DIStutter
     DEF DINext
<1> QED BY <1>1, <1>2, PTL DEF DISpec

\* The worklist never drops a change.
THEOREM SettledBlocksHolds == DISpec => []SettledBlocks
<1>1. DIInv => SettledBlocks
  BY DEF DIInv
<1> QED BY <1>1, DIInvariance, PTL

\* A fact holds on entry to a block exactly when no path avoids the write.  One half
\* is the invariant SolutionInv; for the other, the blocks without the fact are
\* themselves a set that holds what Unwritten asks for.
THEOREM FactsExactHolds == DISpec => []FactsExact
<1>1. DIInv => FactsExact
  <2> SUFFICES ASSUME DIInv, phase = "run", NEW b \in discovered, NEW s \in Declared
               PROVE  s \in incoming[b] <=> ~ReachesUnwritten(b, s)
    BY DEF FactsExact
  <2> DEFINE U == {c \in discovered : s \notin incoming[c]}
  <2>1. /\ CFInv /\ \A a \in discovered : Successors(a) \subseteq discovered
        /\ program.entry \in Catalog => program.entry \in discovered
    BY DiscoveredClosed DEF DIInv
  <2>2. \A c \in discovered : /\ incoming[c] = IncomingFacts(c)
                              /\ outgoing[c] = TransferWrites(c, incoming[c])
    BY DEF DIInv, RunInv
  <2>3. program.entry \in discovered
    BY EntryDiscovered DEF DIInv
  <2>4. Unwritten(s, U)
    <3>1. s \notin InitialStorage => program.entry \in U
      BY <2>2, <2>3 DEF IncomingFacts
    <3>2. ASSUME NEW a \in U, s \notin Writes(a),
                 NEW c \in Successors(a), c # program.entry
          PROVE  c \in U
      <4>1. a \in Predecessors(c) /\ c \in discovered
        BY <3>2, <2>1 DEF Predecessors
      <4>2. s \notin outgoing[a]
        BY <3>2, <2>2 DEF TransferWrites
      <4>3. s \notin IncomingFacts(c)
        BY <4>1, <4>2, <3>2 DEF IncomingFacts
      <4> QED BY <4>1, <4>3, <2>2
    <3> QED BY <3>1, <3>2 DEF Unwritten
  <2>5. s \in incoming[b] => ~ReachesUnwritten(b, s)
    BY <2>4 DEF ReachesUnwritten
  <2>6. s \notin incoming[b] => ReachesUnwritten(b, s)
    BY DEF ReachesUnwritten, DIInv, SolutionInv
  <2> QED BY <2>5, <2>6
<1> QED BY <1>1, DIInvariance, PTL

\* No run of any function reads unwritten storage without a report of that read.
THEOREM UninitializedReadsReportedHolds == DISpec => []UninitializedReadsReported
<1>1. DIInv => UninitializedReadsReported
  <2> SUFFICES ASSUME DIInv, phase = "run", at \in discovered, next <= Len(Accesses(at)),
                      NEW s \in Accesses(at)[next].reads \ written
               PROVE  \E r \in reports : r.block = at /\ r.access = next /\ r.storage = s
    BY DEF UninitializedReadsReported
  <2>1. /\ InitializedBefore(at, next) \subseteq written
        /\ reports = UNION {ReportsOf(b) : b \in discovered}
        /\ next \in Nat \ {0}
    BY DEF DIInv, RunInv, DITypeOK
  <2>2. next \in DOMAIN Accesses(at)
    <3>1. Accesses(at) \in Seq(Access)
      BY AccessesType, DiscoveredClosed DEF Accesses, DIInv, CFInv, CFTypeOK
    <3> QED BY <3>1, <2>1
  <2> DEFINE r == [kind |-> IF s \in Declared THEN "ReadBeforeInitialization"
                                              ELSE "UnknownReadStorage",
                   block |-> at, access |-> next, storage |-> s]
  <2>3. s \in Accesses(at)[next].reads \ InitializedBefore(at, next)
    BY <2>1
  <2>4. r \in ReportsOf(at)
    BY <2>2, <2>3 DEF ReportsOf
  <2>5. r \in reports
    BY <2>1, <2>4
  <2> QED BY <2>5
<1> QED BY <1>1, DIInvariance, PTL
=============================================================================
