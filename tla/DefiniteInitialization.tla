----------------------- MODULE DefiniteInitialization -----------------------
(***************************************************************************)
(* Definite initialization (Talac/Analysis/DefiniteInitialization.cpp),    *)
(* the must analysis that both compiler stages use to reject a read of     *)
(* storage that some path leaves unwritten.                                *)
(*                                                                         *)
(* Analyze is modelled from its control-flow pass to its report.  When it  *)
(* is done the analysed function runs, on any path: an execution starts in *)
(* the entry block with the initially initialized storage and follows      *)
(* edges, so that what the report promises can be compared with what runs  *)
(* do.                                                                     *)
(*                                                                         *)
(* Bit positions (StorageCatalog, DenseBitSet) are left out: a DenseBitSet *)
(* is the set of declared storage whose bits are set.                      *)
(***************************************************************************)
EXTENDS Worklist

CONSTANTS
    Storage,                \* identities an access can name
    Declared,               \* Function::storage
    InitiallyInitialized,   \* Function::initiallyInitialized
    None                    \* an access without a write

ASSUME DeclaredAssumption == Declared \subseteq Storage /\ None \notin Storage

ASSUME AccessAssumption == Access = [reads : SUBSET Storage, write : Storage \union {None}]

VARIABLES
    incoming, outgoing,     \* FixedPoint
    reports,                \* Result::issues of ValidateAccesses
    at, next, written       \* an execution: block, next access, storage written

factVars == <<incoming, outgoing, reports>>
runVars == <<at, next, written>>
diVars == <<cfVars, worklistVars, factVars, runVars>>

Accesses(b) == program.blocks[RecordOf(b)].accesses

DIInit ==
    /\ CFInit
    /\ WorklistInit
    /\ incoming = [b \in Block |-> {}]
    /\ outgoing = [b \in Block |-> {}]
    /\ reports = {}
    /\ at = program.entry /\ next = 1 /\ written = {}

AnalyzeControlFlow == CFNext /\ UNCHANGED <<worklistVars, factVars, runVars>>
-----------------------------------------------------------------------------
InitialStorage == InitiallyInitialized \intersect Declared

Writes(b) == {Accesses(b)[i].write : i \in DOMAIN Accesses(b)} \intersect Declared

TransferWrites(b, initialized) == initialized \union Writes(b)

(* A planted bug: a back edge to the entry counts as a call. *)
IncomingFactsAtEntry(b) ==
    IF Predecessors(b) = {} THEN {}
    ELSE {s \in Declared : \A a \in Predecessors(b) : s \in outgoing[a]}

IncomingFacts(b) ==
    IF b = program.entry THEN InitialStorage
    ELSE IF Predecessors(b) = {} THEN {}
    ELSE {s \in Declared : \A a \in Predecessors(b) : s \in outgoing[a]}

(* ComputeFixedPoint: every reachable block starts at top, the entry at    *)
(* the initial storage.                                                    *)
StartFixedPoint ==
    /\ phase = "analysed"
    /\ phase' = "solve"
    /\ incoming' = [b \in Block |->
           IF b \notin discovered THEN {}
           ELSE IF b = program.entry THEN InitialStorage ELSE Declared]
    /\ outgoing' = [b \in Block |->
           IF b \notin discovered THEN {}
           ELSE TransferWrites(b, IF b = program.entry THEN InitialStorage ELSE Declared)]
    /\ StartWorklist(ForwardOrder)
    /\ UNCHANGED <<program, issues, graphVars, walkVars, reports, runVars>>

(* A planted bug: the neighbours are notified whether or not anything changed. *)
EvaluateAlwaysNotifies ==
    /\ phase = "solve"
    /\ TakeNext
    /\ incoming' = [incoming EXCEPT ![Head(pending)] = IncomingFacts(Head(pending))]
    /\ outgoing' = [outgoing EXCEPT
           ![Head(pending)] = TransferWrites(Head(pending), IncomingFacts(Head(pending)))]
    /\ NotifyChanged(Successors(Head(pending)))
    /\ UNCHANGED <<cfVars, reports, runVars>>

Evaluate ==
    /\ phase = "solve"
    /\ TakeNext
    /\ LET b == Head(pending)
           nextIncoming == IncomingFacts(b)
           nextOutgoing == TransferWrites(b, nextIncoming)
       IN  IF incoming[b] = nextIncoming /\ outgoing[b] = nextOutgoing
             THEN Unchanged /\ UNCHANGED <<incoming, outgoing>>
             ELSE /\ incoming' = [incoming EXCEPT ![b] = nextIncoming]
                  /\ outgoing' = [outgoing EXCEPT ![b] = nextOutgoing]
                  /\ NotifyChanged(Successors(b))
    /\ UNCHANGED <<cfVars, reports, runVars>>

Propagate ==
    /\ phase = "solve"
    /\ ScheduleAffected
    /\ UNCHANGED <<cfVars, factVars, runVars>>
-----------------------------------------------------------------------------
(* A planted bug: the write of the access itself is counted. *)
InitializedAfter(b, i) ==
    incoming[b] \union ({Accesses(b)[j].write : j \in 1..i} \intersect Declared)

(* ValidateAccesses: the storage initialized just before access i of a     *)
(* block, and the reads found wanting.  Reads come before the write of the *)
(* same access.                                                            *)
InitializedBefore(b, i) ==
    incoming[b] \union ({Accesses(b)[j].write : j \in 1..i - 1} \intersect Declared)

ReportsOf(b) ==
    (UNION {{[kind |-> IF s \in Declared THEN "ReadBeforeInitialization"
                                        ELSE "UnknownReadStorage",
             block |-> b, access |-> i, storage |-> s] :
               s \in Accesses(b)[i].reads \ InitializedBefore(b, i)} :
           i \in DOMAIN Accesses(b)})
    \union
    {[kind |-> "UnknownWriteStorage", block |-> b, access |-> i,
      storage |-> Accesses(b)[i].write] :
         i \in {j \in DOMAIN Accesses(b) : Accesses(b)[j].write \in Storage \ Declared}}

ValidateAccesses ==
    /\ phase = "solve"
    /\ Exhausted
    /\ phase' = "run"
    /\ reports' = UNION {ReportsOf(b) : b \in discovered}
    /\ written' = InitialStorage
    /\ UNCHANGED <<program, issues, graphVars, walkVars, worklistVars,
                   incoming, outgoing, at, next>>
-----------------------------------------------------------------------------
(* The analysed function runs. *)

RunAccess ==
    /\ phase = "run" /\ at \in discovered
    /\ next <= Len(Accesses(at))
    /\ next' = next + 1
    /\ written' = written \union ({Accesses(at)[next].write} \intersect Declared)
    /\ UNCHANGED <<cfVars, worklistVars, factVars, at>>

RunBranch ==
    /\ phase = "run" /\ at \in discovered
    /\ next > Len(Accesses(at))
    /\ \E b \in Successors(at) : at' = b
    /\ next' = 1
    /\ UNCHANGED <<cfVars, worklistVars, factVars, written>>

DINext ==
    \/ AnalyzeControlFlow
    \/ StartFixedPoint \/ Evaluate \/ Propagate \/ ValidateAccesses
    \/ RunAccess \/ RunBranch

DISpec == DIInit /\ [][DINext]_diVars

(* The analysis is one thread that runs to its end. *)
DIFairSpec ==
    /\ DISpec
    /\ WF_diVars(AnalyzeControlFlow \/ StartFixedPoint \/ Evaluate \/ Propagate
                 \/ ValidateAccesses)
-----------------------------------------------------------------------------
(* Properties. *)

(* Facts speak of declared storage and of reachable blocks only.           *)
DITypeOK ==
    /\ incoming \in [Block -> SUBSET Declared]
    /\ outgoing \in [Block -> SUBSET Declared]
    /\ scheduled \subseteq discovered
    /\ affected \subseteq discovered
    /\ phase \in {"edges", "traverse", "analysed", "solve", "run"}
    /\ at \in Block /\ next \in Nat \ {0}
    /\ written \subseteq Declared

(* A block that is not waiting to be evaluated, and whose neighbours have  *)
(* all been told, satisfies its equations: the worklist never drops a      *)
(* change.  With nothing left to do this is the fixed point.               *)
SettledBlocks ==
    phase = "solve" =>
      \A b \in discovered \ (scheduled \union affected) :
        /\ incoming[b] = IncomingFacts(b)
        /\ outgoing[b] = TransferWrites(b, incoming[b])

(* The blocks some path reaches with s unwritten: those in every set that  *)
(* holds the entry, if s starts uninitialized, and every successor of a    *)
(* member that does not write s.                                           *)
Unwritten(s, S) ==
    /\ s \notin InitialStorage => program.entry \in S
    /\ \A a \in S : s \notin Writes(a) => Successors(a) \ {program.entry} \subseteq S
ReachesUnwritten(b, s) ==
    \A S \in SUBSET discovered : Unwritten(s, S) => b \in S

(* The bits are the meaning, not only an approximation of it: storage is   *)
(* initialized on entry to a block exactly when no path from the function  *)
(* entry reaches the block without writing it.  Nothing is rejected that   *)
(* a path analysis would accept, and nothing accepted that it would not.   *)
FactsExact ==
    phase = "run" =>
      \A b \in discovered : \A s \in Declared :
        s \in incoming[b] <=> ~ReachesUnwritten(b, s)

(* What makes the two provable: the equations hold once the worklist is    *)
(* empty, a bit is cleared only for a block that some path reaches with    *)
(* the storage unwritten, and a run has written what the facts say.        *)
SolutionInv ==
    phase \in {"solve", "run"} =>
      \A s \in Declared : \A S \in SUBSET discovered : Unwritten(s, S) =>
        \A b \in discovered : /\ s \notin incoming[b] => b \in S
                              /\ s \notin outgoing[b] => b \in S /\ s \notin Writes(b)
RunInv ==
    phase = "run" =>
      /\ \A b \in discovered : /\ incoming[b] = IncomingFacts(b)
                              /\ outgoing[b] = TransferWrites(b, incoming[b])
      /\ reports = UNION {ReportsOf(b) : b \in discovered}
      /\ InitialStorage \subseteq written
      /\ at \in discovered => InitializedBefore(at, next) \subseteq written
DIInv ==
    /\ CFInv
    /\ DITypeOK
    /\ phase # "run" => at = program.entry /\ next = 1
    /\ phase \in {"solve", "run"} \/ (scheduled = {} /\ affected = {})
    /\ phase = "solve" => QueueMatchesSet
    /\ phase = "solve" => pending \in Seq(Block)
    /\ SettledBlocks
    /\ SolutionInv
    /\ RunInv

(* A run that reads storage nobody has written was reported, at that very  *)
(* access.                                                                 *)
UninitializedReadsReported ==
    (phase = "run" /\ at \in discovered /\ next <= Len(Accesses(at))) =>
      \A s \in Accesses(at)[next].reads \ written :
        \E r \in reports : r.block = at /\ r.access = next /\ r.storage = s

(* The fixed point is reached, on cyclic functions too.                    *)
DITerminates == <>(phase = "run")
=============================================================================
