--------------------------- MODULE OwnershipFlow ---------------------------
(***************************************************************************)
(* Ownership flow (Talac/Analysis/OwnershipFlow.cpp): which states an AARC *)
(* handle may be in at each point, so that the Xpp and Xmm verifiers can   *)
(* reject a use of a released handle or of one of the wrong kind.          *)
(*                                                                         *)
(* A fact about a handle is a set of states.  The empty set, the bottom    *)
(* the maps start from, is not the same as "absent".  When Analyze is done *)
(* the function runs, on any path, and holds is the state each handle is   *)
(* really in; reentered remembers the handles a jump to the entry brought  *)
(* there in a state that no caller would.                                  *)
(***************************************************************************)
EXTENDS Worklist

CONSTANTS
    Handle,
    NoHandle,           \* identity 0, which names no handle
    HandleKind,         \* Strong, Weak, Unowned
    InitialHandles      \* what Function::initialHandles may be: kinds of each handle

ASSUME HandleAssumption ==
    /\ {"absent", "consumed"} \intersect HandleKind = {}
    /\ NoHandle \notin Handle
    /\ InitialHandles \subseteq [Handle \union {NoHandle} -> SUBSET HandleKind]

ASSUME KindAssumption == IsFiniteSet(HandleKind)

ASSUME ActionAssumption ==
    Access = [kind : {"Observe", "Consume", "Define", "Forget"},
              handle : Handle \union {NoHandle}, expected : HandleKind]

VARIABLES
    initial,                \* kinds of the handles live at entry; an input
    incoming, outgoing,
    reports,
    at, next, holds,
    reentered               \* history: handles whose state the entry facts leave out

inputVars == <<initial>>
factVars == <<incoming, outgoing, reports>>
runVars == <<at, next, holds, reentered>>
ofVars == <<cfVars, worklistVars, inputVars, factVars, runVars>>

State == HandleKind \union {"absent", "consumed"}
Actions(b) == program.blocks[RecordOf(b)].accesses
Bottom == [h \in Handle |-> {}]
Absent == [h \in Handle |-> {"absent"}]

OFInit ==
    /\ CFInit
    /\ WorklistInit
    /\ initial \in InitialHandles
    /\ incoming = [b \in Block |-> Bottom]
    /\ outgoing = [b \in Block |-> Bottom]
    /\ reports = {}
    /\ at = program.entry /\ next = 1 /\ holds = [h \in Handle |-> "absent"]
    /\ reentered = {}

AnalyzeControlFlow ==
    CFNext /\ UNCHANGED <<worklistVars, inputVars, factVars, runVars>>
-----------------------------------------------------------------------------
InitialState == [h \in Handle |-> IF initial[h] = {} THEN {"absent"} ELSE initial[h]]

Apply(action, states) ==
    IF action.handle = NoHandle THEN states
    ELSE CASE action.kind = "Observe" -> states
           [] action.kind = "Consume" ->
                IF action.expected \in states[action.handle]
                  THEN [states EXCEPT ![action.handle] = (@ \ {action.expected}) \union {"consumed"}]
                  ELSE states
           [] action.kind = "Define" -> [states EXCEPT ![action.handle] = {action.expected}]
           [] action.kind = "Forget" -> [states EXCEPT ![action.handle] = {"absent"}]

(* The states after the first i actions of a block. *)
After(b, states) ==
    LET after[i \in 0..Len(Actions(b))] ==
          IF i = 0 THEN states ELSE Apply(Actions(b)[i], after[i - 1])
    IN  after

Transfer(b, states) == After(b, states)[Len(Actions(b))]

(* A planted bug: the first predecessor speaks for all. *)
JoinFirstPredecessor(b) ==
    IF b = program.entry THEN InitialState
    ELSE IF Predecessors(b) = {} THEN Absent
    ELSE outgoing[CHOOSE a \in Predecessors(b) : \A c \in Predecessors(b) : a <= c]

JoinPredecessors(b) ==
    IF b = program.entry THEN InitialState
    ELSE IF Predecessors(b) = {} THEN Absent
    ELSE [h \in Handle |-> UNION {outgoing[a][h] : a \in Predecessors(b)}]

(* A planted bug: the maps start at absent instead of bottom. *)
StartAtAbsent ==
    /\ phase = "analysed"
    /\ phase' = "solve"
    /\ StartWorklist(ForwardOrder)
    /\ incoming' = [b \in Block |-> Absent]
    /\ outgoing' = [b \in Block |-> Absent]
    /\ UNCHANGED <<program, issues, graphVars, walkVars, inputVars, reports, runVars>>

StartFixedPoint ==
    /\ phase = "analysed"
    /\ phase' = "solve"
    /\ StartWorklist(ForwardOrder)
    /\ UNCHANGED <<program, issues, graphVars, walkVars, inputVars, factVars, runVars>>

Evaluate ==
    /\ phase = "solve"
    /\ TakeNext
    /\ LET b == Head(pending)
           nextIncoming == JoinPredecessors(b)
           nextOutgoing == Transfer(b, nextIncoming)
       IN  IF incoming[b] = nextIncoming /\ outgoing[b] = nextOutgoing
             THEN Unchanged /\ UNCHANGED <<incoming, outgoing>>
             ELSE /\ incoming' = [incoming EXCEPT ![b] = nextIncoming]
                  /\ outgoing' = [outgoing EXCEPT ![b] = nextOutgoing]
                  /\ NotifyChanged(Successors(b))
    /\ UNCHANGED <<cfVars, inputVars, reports, runVars>>

Propagate ==
    /\ phase = "solve"
    /\ ScheduleAffected
    /\ UNCHANGED <<cfVars, inputVars, factVars, runVars>>
-----------------------------------------------------------------------------
(* InitialState: identity 0 names no handle, and no handle has two kinds. *)
InitialReports ==
    {[kind |-> "InvalidInitialHandle", block |-> program.entry, action |-> 0] :
        k \in initial[NoHandle]}
    \union
    {[kind |-> "ConflictingInitialKind", block |-> program.entry, action |-> 0] :
        h \in {g \in Handle : \E j, k \in initial[g] : j # k}}

(* ValidateRequirement: what is wrong with a use, given the states that    *)
(* may reach it; {} when nothing is.  A use of a handle that is absent     *)
(* only is left to definite initialization.                                *)
Requirement(expected, actual) ==
    LET others == (actual \intersect HandleKind) \ {expected} IN
    IF expected \in actual
      THEN IF actual # {expected} THEN {"PathStateMismatch"} ELSE {}
      ELSE IF "consumed" \in actual THEN {"UseAfterConsume"}
      ELSE IF others # {} THEN {"HandleKindMismatch"} ELSE {}

Unnamed(b) == {i \in DOMAIN Actions(b) : Actions(b)[i].handle = NoHandle}
Uses(b) == {i \in DOMAIN Actions(b) : Actions(b)[i].kind \in {"Observe", "Consume"}} \ Unnamed(b)

ReportsOf(b) ==
    {[kind |-> "InvalidActionHandle", block |-> b, action |-> i] : i \in Unnamed(b)}
    \union
    UNION {{[kind |-> k, block |-> b, action |-> i] :
              k \in Requirement(Actions(b)[i].expected,
                                After(b, incoming[b])[i - 1][Actions(b)[i].handle])} :
           i \in Uses(b)}

ValidateActions ==
    /\ phase = "solve"
    /\ Exhausted
    /\ phase' = "run"
    /\ reports' = InitialReports \union UNION {ReportsOf(b) : b \in discovered}
    /\ \E f \in [Handle -> State] : (\A h \in Handle : f[h] \in InitialState[h]) /\ holds' = f
    /\ UNCHANGED <<program, issues, graphVars, walkVars, worklistVars, inputVars,
                   incoming, outgoing, at, next, reentered>>
-----------------------------------------------------------------------------
(* The function runs: a release consumes a token of its kind. *)

Effect(action, h, state) ==
    IF h # action.handle THEN state
    ELSE CASE action.kind = "Observe" -> state
           [] action.kind = "Consume" -> IF state = action.expected THEN "consumed" ELSE state
           [] action.kind = "Define" -> action.expected
           [] action.kind = "Forget" -> "absent"

RunAction ==
    /\ phase = "run" /\ at \in discovered
    /\ next <= Len(Actions(at))
    /\ next' = next + 1
    /\ LET action == Actions(at)[next] IN
         /\ holds' = [h \in Handle |-> Effect(action, h, holds[h])]
         /\ reentered' = IF action.kind \in {"Define", "Forget"} THEN reentered \ {action.handle}
                         ELSE reentered
    /\ UNCHANGED <<cfVars, worklistVars, inputVars, factVars, at>>

RunBranch ==
    /\ phase = "run" /\ at \in discovered
    /\ next > Len(Actions(at))
    /\ \E b \in Successors(at) :
         /\ at' = b
         /\ reentered' = IF b = program.entry
                         THEN {h \in Handle : holds[h] \notin InitialState[h]} ELSE reentered
    /\ next' = 1
    /\ UNCHANGED <<cfVars, worklistVars, inputVars, factVars, holds>>

OFNext ==
    \/ AnalyzeControlFlow
    \/ StartFixedPoint \/ Evaluate \/ Propagate \/ ValidateActions
    \/ RunAction \/ RunBranch

OFSpec == OFInit /\ [][OFNext]_ofVars
-----------------------------------------------------------------------------
(* Properties. *)

(* Every fact is a set of states and every handle is in one.               *)
OFTypeOK ==
    /\ phase \in {"edges", "traverse", "analysed", "solve", "run"}
    /\ incoming \in [Block -> [Handle -> SUBSET State]]
    /\ outgoing \in [Block -> [Handle -> SUBSET State]]
    /\ scheduled \subseteq discovered /\ affected \subseteq discovered
    /\ holds \in [Handle -> State]
    /\ reentered \subseteq Handle

(* The state a handle may have, path by path: the states that n steps from *)
(* the entry can leave it in, n growing to the number of block and state   *)
(* pairs.                                                                  *)
EntryStates(h) == {<<program.entry, s>> : s \in InitialState[h]}
Along(b, h, s) ==
    LET run[i \in 0..Len(Actions(b))] ==
          IF i = 0 THEN s ELSE Effect(Actions(b)[i], h, run[i - 1])
    IN  run
EndState(b, h, s) == Along(b, h, s)[Len(Actions(b))]
Onward(h, p) ==
    {<<c, EndState(p[1], h, p[2])>> : c \in Successors(p[1]) \ {program.entry}}
PathStates(h) ==
    LET reach[n \in 0..Cardinality(discovered \X State)] ==
          IF n = 0 THEN EntryStates(h)
          ELSE LET before == reach[n - 1]
               IN  before \union (UNION {Onward(h, p) : p \in before})
    IN  reach[Cardinality(discovered \X State)]

(* The facts are exactly the path states: nothing is called possible that  *)
(* no path produces, and no path is forgotten, whatever order the blocks   *)
(* were evaluated in.                                                      *)
OwnershipFactsExact ==
    (phase = "solve" /\ Exhausted /\ program.entry \in Catalog) =>
      \A h \in Handle : \A b \in discovered :
        incoming[b][h] = {s \in State : <<b, s>> \in PathStates(h)}

(* A use of a consumed handle or of one of the wrong kind.                 *)
Misuse ==
    /\ phase = "run" /\ at \in discovered /\ next \in Uses(at)
    /\ LET action == Actions(at)[next] IN holds[action.handle] \notin {action.expected, "absent"}
Reported == \E r \in reports : r.block = at /\ r.action = next

(* The promise of OWNERSHIP-FLOW.md, made for every function: what is not  *)
(* reported uses no released handle and none of the wrong kind.            *)
MisusesReported == Misuse => Reported

(* What JoinPredecessors keeps of it, whatever jumps to the entry: only a  *)
(* handle that a jump took back there in a state no caller hands over, and *)
(* that nothing has defined since, can be misused without a report.        *)
MisusesReportedUnlessReentered ==
    Misuse => Reported \/ Actions(at)[next].handle \in reentered

=============================================================================
