------------------------- MODULE InteractiveSession -------------------------
(***************************************************************************)
(* `tali`: the read loop of Main.cpp and Interactive::Session, over the    *)
(* frontend bridge and the JIT session.  An expression is compiled as a    *)
(* cell of its own, added to the JIT, and run once.  A process may instead *)
(* be another user of the bridge (talac, a fuzzer), which makes requests.  *)
(***************************************************************************)
EXTENDS FrontendBridge, JitSession, FiniteSets

CONSTANTS
    Expressions,     \* the expressions a user enters
    MaximumEntries,  \* History::kMaximumEntries (256)
    MaxCells         \* bound: the cells between two resets

ASSUME SessionConstants == MaximumEntries \in Nat \ {0} /\ MaxCells \in Nat \ {0}

VARIABLES
    program,   \* "tali" or "other"
    stage,     \* where the session is in handling its input line
    request,   \* the input in hand: expression, whether to run it, its size
    cell,      \* the compiled cell: its number, result type and bitcode
    nextCell,  \* Session::nextCell_
    previous,  \* Session::previous_
    history,   \* Session::history_
    leftover   \* the cells still defined in the JIT when numbering last restarted

sessionVars == <<program, stage, request, cell, nextCell, previous, history, leftover>>
vars == <<bridgeVars, jitVars, sessionVars>>

NoValue == "no_value"
NoRequest == [expression |-> NoValue, execute |-> FALSE, size |-> "small"]
NoCell == [number |-> 0, type |-> "unit", bitcode |-> "sound"]

-----------------------------------------------------------------------------
(* Value.cpp and Source.cpp.                                               *)

\* SourceBinding: whether a value gets a declaration of `taliPrevious`.
SourceBinding(value) == value \notin {"monostate", "surrogate"}

\* ... which the frontend can read back: "inf" and "nan" are no literals.
Readable(value) == value # "nonfinite"

\* BuildCellSource fails only for a previous value without a declaration.
BuildCellSource(value) == value = NoValue \/ SourceBinding(value)

\* An expression near 1 MiB is "large": its cell is above the frontend's limit.
Sizes == {"empty", "small", "large", "oversized"}

-----------------------------------------------------------------------------
\* The answer is printed and the next line is read.  (Lines that do not reach
\* the session change nothing: blank or too long ones, and commands that only
\* print, :help, :history, an unknown one or :type without an expression.)
Answered ==
    /\ stage' = "prompt"
    /\ request' = NoRequest
    /\ cell' = NoCell

UnchangedSession == UNCHANGED <<program, nextCell, previous, history, leftover>>

\* Evaluate or TypeOf up to the call of CompileSource.
Submit(e, execute, size) ==
    /\ program = "tali" /\ stage = "prompt"
    /\ execute => nextCell < MaxCells
    /\ IF size \in {"empty", "oversized"} \/ ~BuildCellSource(previous)
       THEN Answered
       ELSE /\ stage' = "frontend"
            /\ request' = [expression |-> e, execute |-> execute, size |-> size]
            /\ UNCHANGED cell
    /\ UnchangedSession
    /\ UNCHANGED <<bridgeVars, jitVars>>

\* GetFrontend constructs the SharedFrontend on first use.
FirstUse ==
    /\ pc[Driver] = "idle"
    /\ stage = "frontend"
    /\ Goto(Driver, "load")
    /\ UNCHANGED <<runtimeVars, library, requestVars, jitVars, sessionVars>>

\* A cell that names a value it cannot read back yields no Core.
CompileSource ==
    /\ program = "tali" /\ stage = "frontend"
    /\ \/ Refuse("CompileSource", request.size = "small")
       \/ Enter("CompileSource", request.size = "small",
                {p \in Plans("CompileSource") : previous = NoValue \/ Readable(previous) \/ p.status # 0})
    /\ UNCHANGED <<jitVars, sessionVars>>

Frontend ==
    /\ DriverStep
    /\ UNCHANGED <<jitVars, sessionVars>>

Starting ==
    /\ \E t \in Starters : StarterStep(t)
    /\ UNCHANGED <<jitVars, sessionVars>>

\* No Core, or a pipeline that rejects it or emits no Evaluate for this cell.
CompileFails ==
    /\ program = "tali" /\ stage = "frontend" /\ pc[Driver] = "returned"
    /\ Released
    /\ Answered
    /\ UnchangedSession
    /\ UNCHANGED <<runtimeVars, library, jitVars>>

\* A mutant: the cell keeps its number until it has run.
CompileKeepingNumber(type, bitcode) ==
    /\ program = "tali" /\ stage = "frontend" /\ pc[Driver] = "returned"
    /\ result.status = 0 /\ result.kind = "Core"
    /\ Released
    /\ IF ~request.execute
       THEN Answered
       ELSE /\ cell' = [number |-> nextCell, type |-> type, bitcode |-> bitcode]
            /\ stage' = "insert"
            /\ UNCHANGED request
    /\ UnchangedSession
    /\ UNCHANGED <<runtimeVars, library, jitVars>>

CompileSucceeds(type, bitcode) ==
    /\ program = "tali" /\ stage = "frontend" /\ pc[Driver] = "returned"
    /\ result.status = 0 /\ result.kind = "Core"
    /\ Released
    /\ IF ~request.execute
       THEN Answered /\ nextCell' = nextCell
       ELSE /\ nextCell' = nextCell + 1
            /\ cell' = [number |-> nextCell, type |-> type, bitcode |-> bitcode]
            /\ stage' = "insert"
            /\ UNCHANGED request
    /\ UNCHANGED <<program, previous, history, leftover>>
    /\ UNCHANGED <<runtimeVars, library, jitVars>>

Insert ==
    /\ stage = "insert"
    /\ \/ /\ AddModule(cell.bitcode, cell.number, cell.type)
          /\ stage' = "invoke"
          /\ UNCHANGED <<request, cell>>
       \/ /\ \/ AddModuleRejects(cell.bitcode, cell.number, cell.type)
             \/ AddModuleFails(cell.bitcode, cell.number, cell.type)
          /\ Answered
    /\ UnchangedSession
    /\ UNCHANGED bridgeVars

\* InvokeScalar fails, also when the lookup does.
InvokeFails ==
    /\ stage = "invoke"
    /\ Answered
    /\ UnchangedSession
    /\ UNCHANGED <<bridgeVars, jitVars>>

\* History::Append.
AppendHistory(e) ==
    LET kept == IF Len(history) = MaximumEntries THEN Tail(history) ELSE history
    IN  history' = Append(kept, e)

Invoke ==
    /\ stage = "invoke"
    /\ InvokeIssue(cell.number, cell.type) = "none"
    /\ \E value \in Values(cell.type) :
          /\ previous' = IF SourceBinding(value) THEN value ELSE NoValue
          /\ AppendHistory(request.expression)
          /\ Answered
    /\ UNCHANGED <<program, nextCell, leftover, bridgeVars, jitVars>>

\* A mutant: the session forgets its values before it asks the JIT.
ResetForgettingFirst(kept) ==
    /\ program = "tali" /\ stage = "prompt"
    /\ kept \in 0 .. Len(modules)
    /\ RemoveModules(kept)
    /\ previous' = NoValue
    /\ IF kept = 0
       THEN nextCell' = 0 /\ history' = <<>> /\ leftover' = dylib'
       ELSE UNCHANGED <<nextCell, history, leftover>>
    /\ Answered
    /\ UNCHANGED <<program, bridgeVars>>

\* Session::Reset: the JIT first, and the rest only if the JIT was emptied.
Reset(kept) ==
    /\ program = "tali" /\ stage = "prompt"
    /\ kept \in 0 .. Len(modules)
    /\ RemoveModules(kept)
    /\ IF kept = 0
       THEN nextCell' = 0 /\ previous' = NoValue /\ history' = <<>> /\ leftover' = dylib'
       ELSE UNCHANGED <<nextCell, previous, history, leftover>>
    /\ Answered
    /\ UNCHANGED <<program, bridgeVars>>

\* Requests of a process that is not `tali`, to any library.
OtherRequest(entry, wellFormed) ==
    /\ program = "other" /\ stage = "frontend"
    /\ \/ Refuse(entry, wellFormed)
       \/ Enter(entry, wellFormed, Plans(entry) \cup {Unruly})
       \/ \E syntaxStage \in 0 .. 2 : FuzzSyntax(syntaxStage)
    /\ UNCHANGED <<jitVars, sessionVars>>

OtherReturns ==
    /\ program = "other" /\ pc[Driver] = "returned"
    /\ Released
    /\ stage' = "prompt"
    /\ UNCHANGED <<program, request, cell, nextCell, previous, history, leftover>>
    /\ UNCHANGED <<runtimeVars, library, jitVars>>

OtherContinues ==
    /\ program = "other" /\ stage = "prompt"
    /\ stage' = "frontend"
    /\ UNCHANGED <<program, request, cell, nextCell, previous, history, leftover>>
    /\ UNCHANGED <<bridgeVars, jitVars>>

\* The compiler thread has returned and was joined: statics are destroyed.
Exit ==
    /\ stage = "prompt"
    /\ stage' = "exited"
    /\ Goto(Driver, IF library = "ready" THEN "destroy" ELSE "gone")
    /\ UNCHANGED <<program, request, cell, nextCell, previous, history, leftover>>
    /\ UNCHANGED <<runtimeVars, library, requestVars, jitVars>>

-----------------------------------------------------------------------------
SessionInit ==
    /\ BridgeInit
    /\ JitInit
    /\ program \in {"tali", "other"}
    /\ stage = "prompt"
    /\ request = NoRequest
    /\ cell = NoCell
    /\ nextCell = 0
    /\ previous = NoValue
    /\ history = <<>>
    /\ leftover = {}

\* What the session does by itself once it has an input.
Handle ==
    \/ FirstUse \/ CompileSource \/ Frontend
    \/ CompileFails
    \/ \E type \in Types, bitcode \in Bitcodes : CompileSucceeds(type, bitcode)
    \/ Insert \/ InvokeFails \/ Invoke
    \/ \E entry \in Entries, wellFormed \in BOOLEAN : OtherRequest(entry, wellFormed)
    \/ OtherReturns

Input ==
    \/ \E e \in Expressions, execute \in BOOLEAN, size \in Sizes : Submit(e, execute, size)
    \/ \E kept \in 0 .. MaxCells : Reset(kept)
    \/ OtherContinues
    \/ Exit

SessionNext == Handle \/ Input \/ Starting

\* A thread that can run does, and the code of a cell returns.
SessionSpec ==
    /\ SessionInit
    /\ [][SessionNext]_vars
    /\ WF_vars(Handle)
    /\ \A t \in Starters : WF_vars(StarterStep(t) /\ UNCHANGED <<jitVars, sessionVars>>)

-----------------------------------------------------------------------------
\* The number of the cell in hand, or the one the next cell takes.
Fresh == IF stage = "insert" THEN cell.number ELSE nextCell

(* The number the next cell takes is free: no loaded module, registered    *)
(* entry or defined symbol carries it or a later one, whichever earlier    *)
(* cells failed at whichever step, half added ones included, and however   *)
(* far a reset came.  The only exception is a symbol that LLVM still had   *)
(* when a reset succeeded and the numbers began anew.                      *)
CellSymbolsFresh ==
    /\ \A c \in ToSet(modules) : c < Fresh
    /\ \A c \in dylib : c >= Fresh => c \in leftover

(* Every input line is answered: no state of the frontend, the JIT or the  *)
(* other starters of the runtime leaves the prompt waiting, and every      *)
(* caller of tala_frontend_initialize returns.                             *)
EveryCallReturns ==
    /\ stage = "frontend" ~> stage \in {"prompt", "exited"}
    /\ stage \in {"insert", "invoke"} ~> stage = "prompt"
    /\ \A t \in Starters : <>(pc[t] \in {"told_ready", "told_failed"})
    /\ stage = "exited" ~> pc[Driver] = "gone"

(* The session keeps the promise of SessionContract, through every failure *)
(* of the frontend, the pipeline, the JIT or the reset.                    *)
Contract == INSTANCE SessionContract WITH
    Results <- UNION {Values(t) : t \in Types}, NoResult <- NoValue,
    binding <- previous, listed <- history
KeepsContract == Contract!Spec
=============================================================================
