------------------------------ MODULE Liveness ------------------------------
(***************************************************************************)
(* Liveness (Talac/Analysis/Liveness.cpp): the backward analysis that      *)
(* tells the optimizers which removable instructions nobody needs.  A      *)
(* removable access whose result is dead counts as absent already while    *)
(* the facts are computed, so that what it reads is not kept alive by it.  *)
(*                                                                         *)
(* When Analyze is done, the function and the function without the         *)
(* accesses that were not retained run side by side on the same path, and  *)
(* the model remembers which storage holds different values in the two.    *)
(* An access that is retained and reads such storage has been changed by   *)
(* the optimization.                                                       *)
(***************************************************************************)
EXTENDS Worklist

CONSTANTS Storage, None

ASSUME LivenessAccessAssumption ==
    Access = [reads : SUBSET Storage, write : Storage \union {None}, removable : BOOLEAN]

VARIABLES
    incoming, outgoing,     \* live storage on entry to and exit from each block
    retained,               \* AccessFacts::retained, as the pairs <<block, access>>
    at, next, differs       \* the two runs: block, next access, differing storage

factVars == <<incoming, outgoing, retained>>
runVars == <<at, next, differs>>
lvVars == <<cfVars, worklistVars, factVars, runVars>>

Accesses(b) == program.blocks[RecordOf(b)].accesses

LVInit ==
    /\ CFInit
    /\ WorklistInit
    /\ incoming = [b \in Block |-> {}]
    /\ outgoing = [b \in Block |-> {}]
    /\ retained = {}
    /\ at = program.entry /\ next = 1 /\ differs = {}

AnalyzeControlFlow == CFNext /\ UNCHANGED <<worklistVars, factVars, runVars>>
-----------------------------------------------------------------------------
(* A removable dead definition is semantically absent. *)
IsDead(access, live) == access.removable /\ access.write \in Storage \ live

Apply(access, live) ==
    IF IsDead(access, live) THEN live ELSE (live \ {access.write}) \union access.reads

(* Live storage before access i of a block; i = n + 1 is the block's end.  *)
LiveBefore(b, live) ==
    LET n == Len(Accesses(b))
        before[i \in 1..n + 1] == IF i = n + 1 THEN live ELSE Apply(Accesses(b)[i], before[i + 1])
    IN  before

Transfer(b, live) == LiveBefore(b, live)[1]

(* A planted bug: only storage that is live on every way out. *)
ExitFactsOfEveryPath(b) ==
    {s \in Storage : Successors(b) # {} /\ \A c \in Successors(b) : s \in incoming[c]}

ExitFacts(b) == UNION {incoming[c] : c \in Successors(b)}

(* A planted bug: every block starts at top, as a must analysis does. *)
StartFixedPointAtTop ==
    /\ phase = "analysed"
    /\ phase' = "solve"
    /\ incoming' = [b \in Block |-> IF b \in discovered THEN Storage ELSE {}]
    /\ outgoing' = [b \in Block |-> IF b \in discovered THEN Storage ELSE {}]
    /\ StartWorklist(BackwardOrder)
    /\ UNCHANGED <<program, issues, graphVars, walkVars, retained, runVars>>

StartFixedPoint ==
    /\ phase = "analysed"
    /\ phase' = "solve"
    /\ StartWorklist(BackwardOrder)
    /\ UNCHANGED <<program, issues, graphVars, walkVars, factVars, runVars>>

(* A planted bug: the block is told of its own change. *)
EvaluateNotifiesItself ==
    /\ phase = "solve"
    /\ TakeNext
    /\ NotifyChanged({Head(pending)})
    /\ incoming' = [incoming EXCEPT ![Head(pending)] = Transfer(Head(pending), ExitFacts(Head(pending)))]
    /\ outgoing' = [outgoing EXCEPT ![Head(pending)] = ExitFacts(Head(pending))]
    /\ UNCHANGED <<cfVars, retained, runVars>>

Evaluate ==
    /\ phase = "solve"
    /\ TakeNext
    /\ LET b == Head(pending)
           nextOutgoing == ExitFacts(b)
           nextIncoming == Transfer(b, nextOutgoing)
       IN  IF incoming[b] = nextIncoming /\ outgoing[b] = nextOutgoing
             THEN Unchanged /\ UNCHANGED <<incoming, outgoing>>
             ELSE /\ incoming' = [incoming EXCEPT ![b] = nextIncoming]
                  /\ outgoing' = [outgoing EXCEPT ![b] = nextOutgoing]
                  /\ NotifyChanged(Predecessors(b))
    /\ UNCHANGED <<cfVars, retained, runVars>>

Propagate ==
    /\ phase = "solve"
    /\ ScheduleAffected
    /\ UNCHANGED <<cfVars, factVars, runVars>>
-----------------------------------------------------------------------------
(* BuildFacts: an access is retained unless it is removable and dead where *)
(* it stands; nothing is removed from an unreachable block.                *)
RetainedIn(b) ==
    IF b \notin discovered THEN {<<b, i>> : i \in DOMAIN Accesses(b)}
    ELSE {<<b, i>> : i \in {j \in DOMAIN Accesses(b) :
              ~IsDead(Accesses(b)[j], LiveBefore(b, outgoing[b])[j + 1])}}

BuildFacts ==
    /\ phase = "solve"
    /\ Exhausted
    /\ phase' = "run"
    /\ retained' = UNION {RetainedIn(b) : b \in Catalog}
    /\ UNCHANGED <<program, issues, graphVars, walkVars, worklistVars,
                   incoming, outgoing, runVars>>
-----------------------------------------------------------------------------
(* The two functions run. *)

(* Storage that differs after an access that both functions execute. *)
AfterBoth(access) ==
    IF access.reads \intersect differs = {}
      THEN differs \ {access.write}
      ELSE differs \union ({access.write} \intersect Storage)

RunAccess ==
    /\ phase = "run" /\ at \in discovered
    /\ next <= Len(Accesses(at))
    /\ next' = next + 1
    /\ differs' = IF <<at, next>> \in retained THEN AfterBoth(Accesses(at)[next])
                                               ELSE differs \union {Accesses(at)[next].write}
    /\ UNCHANGED <<cfVars, worklistVars, factVars, at>>

RunBranch ==
    /\ phase = "run" /\ at \in discovered
    /\ next > Len(Accesses(at))
    /\ \E b \in Successors(at) : at' = b
    /\ next' = 1
    /\ UNCHANGED <<cfVars, worklistVars, factVars, differs>>

LVNext ==
    \/ AnalyzeControlFlow
    \/ StartFixedPoint \/ Evaluate \/ Propagate \/ BuildFacts
    \/ RunAccess \/ RunBranch

LVSpec == LVInit /\ [][LVNext]_lvVars

(* The analysis is one thread that runs to its end. *)
LVFairSpec ==
    /\ LVSpec
    /\ WF_lvVars(AnalyzeControlFlow \/ StartFixedPoint \/ Evaluate \/ Propagate \/ BuildFacts)
-----------------------------------------------------------------------------
(* Properties. *)

(* Facts speak of storage the function names; only whole accesses differ.  *)
LVTypeOK ==
    /\ phase \in {"edges", "traverse", "analysed", "solve", "run"}
    /\ incoming \in [Block -> SUBSET Storage]
    /\ outgoing \in [Block -> SUBSET Storage]
    /\ scheduled \subseteq discovered /\ affected \subseteq discovered
    /\ at \in Block /\ next \in Nat \ {0}
    /\ differs \subseteq Storage

(* The facts are the least solution: no storage is called live that a      *)
(* smaller consistent answer would leave dead.  This is why the maps start *)
(* empty, and it is what lets a chain of dead definitions, around a loop   *)
(* too, disappear at once.                                                 *)
Solves(X) ==
    \A b \in discovered :
      Transfer(b, UNION {X[c] : c \in Successors(b)}) \subseteq X[b]
LeastFacts ==
    (phase = "run" /\ at = program.entry /\ next = 1) =>
      \A X \in [discovered -> SUBSET Storage] :
        Solves(X) => \A b \in discovered : incoming[b] \subseteq X[b]

(* Removing what was not retained changes nothing that remains: no access  *)
(* that is kept, the branches included, ever reads storage whose value the *)
(* removal changed.                                                        *)
RemovalInvisible ==
    (phase = "run" /\ at \in discovered /\ next <= Len(Accesses(at))) =>
      (<<at, next>> \in retained => Accesses(at)[next].reads \intersect differs = {})

(* The fixed point is reached, on cyclic functions too.                    *)
LVTerminates == <>(phase = "run")
=============================================================================
