--------------------------- MODULE FrontendBridge ---------------------------
(***************************************************************************)
(* The in-process bridge to the Haskell frontend: the atomic state machine *)
(* that starts the GHC runtime at most once per process, the SharedFrontend *)
(* that loads the library and checks its ABI on first use, and one request *)
(* at a time whose outputs CaptureOutput accepts or refuses as they come.  *)
(*                                                                         *)
(* Driver is the compiler thread, the only one that makes requests.  Other *)
(* threads of the process may ask for the runtime to be started: the C ABI *)
(* lets them, and makes them wait.                                         *)
(*                                                                         *)
(* The library beside the executable is asked for its ABI version only.    *)
(* So the one that answers may be the repository's FFI.hs, with a plan of  *)
(* what it emits, or an unruly one: one that calls back with anything in   *)
(* any order, as long as it ends a call after an output was refused.       *)
(***************************************************************************)
EXTENDS Naturals, Sequences

CONSTANTS
    Driver,    \* the thread that owns the SharedFrontend
    Starters   \* the other callers of tala_frontend_initialize

ASSUME BridgeConstants == Driver \notin Starters

VARIABLES
    runtimeState, \* 0 uninitialized, 1 initializing, 2 ready, 3 shutting down, 4 stopped
    rts,          \* what hs_init and hs_exit have done: "down", "up" or "exited"
    pc,           \* where each thread is
    library,      \* the SharedFrontend: "none", "mapped", "ready" or "failed"
    captured,     \* the CapturedOutput of the request
    plan,         \* what FFI.hs has still to emit, and its status, or Unruly
    emitted,      \* the kinds the frontend has emitted for the request, in order
    called,       \* the entry that has returned, until its result is dropped
    result        \* the Result of the last request

bridgeVars == <<runtimeState, rts, pc, library, captured, plan, emitted, called, result>>
runtimeVars == <<runtimeState, rts>>
requestVars == <<captured, plan, emitted, called, result>>

Threads == {Driver} \cup Starters

-----------------------------------------------------------------------------
(* tala_frontend_initialize and tala_frontend_shutdown.                    *)

Goto(t, place) == pc' = [pc EXCEPT ![t] = place]

\* A mutant: "ready" is published before hs_init has returned.
CompareRuntimeStateEarly(t) ==
    /\ pc[t] = "initialize"
    /\ IF runtimeState = 0
       THEN runtimeState' = 2 /\ Goto(t, "hs_init")
       ELSE runtimeState' = runtimeState /\ Goto(t, "spin")
    /\ UNCHANGED <<rts, library, requestVars>>

\* A SharedFrontend, or another host, calls tala_frontend_initialize.
CompareRuntimeState(t) ==
    /\ pc[t] = "initialize"
    /\ IF runtimeState = 0
       THEN runtimeState' = 1 /\ Goto(t, "hs_init")
       ELSE runtimeState' = runtimeState /\ Goto(t, "spin")
    /\ UNCHANGED <<rts, library, requestVars>>

HsInit(t) ==
    /\ pc[t] = "hs_init"
    /\ rts' = "up"
    /\ Goto(t, "publish")
    /\ UNCHANGED <<runtimeState, library, requestVars>>

StoreReady(t) ==
    /\ pc[t] = "publish"
    /\ runtimeState' = 2
    /\ Goto(t, "started")
    /\ UNCHANGED <<rts, library, requestVars>>

\* A mutant: waits for "ready" instead of for the end of "initializing".
SpinUntilReady(t) ==
    /\ pc[t] = "spin"
    /\ runtimeState = 2
    /\ Goto(t, "started")
    /\ UNCHANGED <<runtimeVars, library, requestVars>>

Spin(t) ==
    /\ pc[t] = "spin"
    /\ runtimeState # 1
    /\ Goto(t, "started")
    /\ UNCHANGED <<runtimeVars, library, requestVars>>

\* Another host is told whether the runtime is ready, and is done.
StarterReturns(t) ==
    /\ t \in Starters
    /\ pc[t] = "started"
    /\ Goto(t, IF runtimeState = 2 THEN "told_ready" ELSE "told_failed")
    /\ UNCHANGED <<runtimeVars, library, requestVars>>

\* The driver's shutdown: its ABI check failed, or the process is exiting.
BeginShutdown ==
    /\ pc[Driver] \in {"refuse", "destroy"}
    /\ IF runtimeState = 2
       THEN /\ runtimeState' = 3
            /\ Goto(Driver, IF pc[Driver] = "refuse" THEN "hs_exit_refused" ELSE "hs_exit")
       ELSE /\ runtimeState' = runtimeState
            /\ Goto(Driver, IF pc[Driver] = "refuse" THEN "close" ELSE "gone")
    /\ UNCHANGED <<rts, library, requestVars>>

HsExit ==
    /\ pc[Driver] \in {"hs_exit_refused", "hs_exit"}
    /\ rts' = "exited"
    /\ Goto(Driver, IF pc[Driver] = "hs_exit_refused" THEN "stopped_refused" ELSE "stopped")
    /\ UNCHANGED <<runtimeState, library, requestVars>>

StoreStopped ==
    /\ pc[Driver] \in {"stopped_refused", "stopped"}
    /\ runtimeState' = 4
    /\ Goto(Driver, IF pc[Driver] = "stopped_refused" THEN "close" ELSE "gone")
    /\ UNCHANGED <<rts, library, requestVars>>

-----------------------------------------------------------------------------
(* SharedFrontend.                                                         *)

\* The executable's directory is unknown, the library does not load, or it
\* lacks a symbol.
LoadFails ==
    /\ pc[Driver] = "load"
    /\ library' = "failed"
    /\ Goto(Driver, "constructed")
    /\ UNCHANGED <<runtimeVars, requestVars>>

Load ==
    /\ pc[Driver] = "load"
    /\ library' = "mapped"
    /\ Goto(Driver, "initialize")
    /\ UNCHANGED <<runtimeVars, requestVars>>

\* initialize_() has returned; abiVersion_ is already a Haskell call.
Initialized ==
    /\ pc[Driver] = "started"
    /\ Goto(Driver, IF runtimeState = 2 THEN "abi_version" ELSE "close")
    /\ UNCHANGED <<runtimeVars, library, requestVars>>

CheckAbiVersion(compatible) ==
    /\ pc[Driver] = "abi_version"
    /\ library' = IF compatible THEN "ready" ELSE library
    /\ Goto(Driver, IF compatible THEN "constructed" ELSE "refuse")
    /\ UNCHANGED <<runtimeVars, requestVars>>

Close ==
    /\ pc[Driver] = "close"
    /\ library' = "failed"
    /\ Goto(Driver, "constructed")
    /\ UNCHANGED <<runtimeVars, requestVars>>

-----------------------------------------------------------------------------
(* One request.  A payload is its kind; whether it is within its limit is  *)
(* chosen as it is emitted.                                                *)

Payloads == {"Core", "SourceList", "Diagnostic", "ErrorText"}
OutputKinds == Payloads \cup {"CorePrep", "Warning", "Unknown"}
Entries == {"Execute", "CompileSource", "FuzzCompile", "FuzzCompileStages"}

NoCapture == [kind |-> "none", error |-> FALSE, acceptCorePrep |-> FALSE,
              corePrep |-> FALSE, warnings |-> FALSE]

NoPlan == [emit |-> <<>>, status |-> 0]
Unruly == [emit |-> <<>>, status |-> 5]

Answer(status, kind, error) ==
    [status |-> status, kind |-> kind, error |-> error, warnings |-> FALSE, corePrep |-> FALSE]

NoAnswer == Answer(0, "none", FALSE)

\* What an entry of FFI.hs may emit, and return when all of it is accepted.
Plans(entry) ==
    {[emit |-> <<"ErrorText">>, status |-> s] : s \in {1, 2, 3}} \cup
    CASE entry = "Execute" ->
            {[emit |-> w \o <<k>>, status |-> 0] :
                w \in {<<>>, <<"Warning">>}, k \in {"Core", "SourceList"}}
      [] entry = "CompileSource" -> {[emit |-> <<"Core">>, status |-> 0]}
      [] OTHER -> {[emit |-> <<"Core", "CorePrep">>, status |-> 0]}

\* A mutant: warnings are accepted after the payload as well.
CaptureOutputLate(c, kind, fits) ==
    LET refused == CASE kind = "Warning" -> c.warnings
                     [] kind = "CorePrep" -> ~c.acceptCorePrep \/ c.kind # "Core" \/ c.corePrep
                     [] OTHER -> c.kind # "none"
        kept == CASE kind = "Warning" -> [c EXCEPT !.warnings = TRUE]
                  [] kind = "CorePrep" -> [c EXCEPT !.corePrep = TRUE]
                  [] OTHER -> [c EXCEPT !.kind = kind]
    IN  IF kind = "Unknown" THEN c ELSE IF refused \/ ~fits THEN [c EXCEPT !.error = TRUE] ELSE kept

\* CaptureOutput: the capture after one output.  An output that is refused
\* sets its error, but for one of no known kind, which leaves no trace.
CaptureOutput(c, kind, fits) ==
    LET refused == CASE kind = "Warning" -> c.kind # "none" \/ c.warnings
                     [] kind = "CorePrep" -> ~c.acceptCorePrep \/ c.kind # "Core" \/ c.corePrep
                     [] OTHER -> c.kind # "none"
        kept == CASE kind = "Warning" -> [c EXCEPT !.warnings = TRUE]
                  [] kind = "CorePrep" -> [c EXCEPT !.corePrep = TRUE]
                  [] OTHER -> [c EXCEPT !.kind = kind]
    IN  IF kind = "Unknown" THEN c ELSE IF refused \/ ~fits THEN [c EXCEPT !.error = TRUE] ELSE kept

MakeResult(status, c) ==
    LET kind == IF c.kind = "none" THEN "ErrorText" ELSE c.kind
    IN  [Answer(IF status \in 0 .. 4 THEN status ELSE 3, kind,
                c.error \/ status \notin 0 .. 4 \/ kind = "ErrorText") EXCEPT !.warnings = c.warnings]

\* FuzzCompileStages wants both artifacts of a compilation that succeeded.
MakeStages(status, c) ==
    LET r == MakeResult(status, c)
    IN  IF r.status # 0 \/ r.kind # "Core" THEN r
        ELSE IF c.corePrep THEN [r EXCEPT !.corePrep = TRUE]
        ELSE [r EXCEPT !.status = 3, !.error = TRUE]

\* A request that does not reach the frontend: the library is not ready, the
\* arguments are malformed or the source is above 1 MiB.
Refuse(entry, wellFormed) ==
    /\ pc[Driver] \in {"constructed", "ready"}
    /\ \/ /\ library # "ready"
          /\ result' = Answer(3, "ErrorText", TRUE)
       \/ /\ library = "ready" /\ ~wellFormed
          /\ entry \in {"Execute", "CompileSource"}
          /\ result' = Answer(2, "ErrorText", TRUE)
    /\ Goto(Driver, "returned")
    /\ UNCHANGED <<runtimeVars, library, captured, plan, emitted, called>>

\* The frontend is entered, and decides what it will deliver.
Enter(entry, wellFormed, answers) ==
    /\ pc[Driver] \in {"constructed", "ready"}
    /\ library = "ready"
    /\ wellFormed \/ entry \notin {"Execute", "CompileSource"}
    /\ plan' \in answers
    /\ captured' = [NoCapture EXCEPT !.acceptCorePrep = entry \in {"FuzzCompile", "FuzzCompileStages"}]
    /\ emitted' = <<>>
    /\ called' = "none"
    /\ result' = NoAnswer
    /\ Goto(Driver, entry)
    /\ UNCHANGED <<runtimeVars, library>>

Return(entry, status, c) ==
    /\ captured' = c
    /\ plan' = NoPlan
    /\ called' = entry
    /\ result' = IF entry = "FuzzCompileStages" THEN MakeStages(status, c) ELSE MakeResult(status, c)
    /\ Goto(Driver, "returned")

\* The caller has read the result, and drops it.
Released ==
    /\ captured' = NoCapture
    /\ emitted' = <<>>
    /\ called' = "none"
    /\ result' = NoAnswer
    /\ plan' = plan
    /\ Goto(Driver, "ready")

\* The next output of the plan goes through the callback; a refusal ends it.
Emit(fits) ==
    LET entry == pc[Driver] IN
    /\ entry \in Entries
    /\ plan.emit # <<>>
    /\ LET kind == Head(plan.emit)
           c == CaptureOutput(captured, kind, fits)
           next == [plan EXCEPT !.emit = Tail(@)]
       IN  /\ emitted' = Append(emitted, kind)
           /\ IF c.error
              THEN \E s \in {4} \cup (IF kind = "ErrorText" THEN {plan.status} ELSE {}) :
                      Return(entry, s, c)
              ELSE IF next.emit = <<>> THEN Return(entry, plan.status, c)
              ELSE captured' = c /\ plan' = next /\ UNCHANGED <<pc, called, result>>
    /\ UNCHANGED <<runtimeVars, library>>

\* A Haskell exception: withCaughtFailure reports it whatever was delivered.
Throw(fits) ==
    LET entry == pc[Driver] IN
    /\ entry \in Entries
    /\ plan.emit # <<>>
    /\ emitted' = Append(emitted, "ErrorText")
    /\ Return(entry, 3, CaptureOutput(captured, "ErrorText", fits))
    /\ UNCHANGED <<runtimeVars, library>>

\* Another library calls back with an output of its choice; refused, it has to
\* end the call with a status that is no success.
EmitAnything(kind, fits) ==
    LET c == CaptureOutput(captured, kind, fits) IN
    /\ pc[Driver] \in Entries
    /\ plan = Unruly
    /\ emitted' = Append(emitted, kind)
    /\ IF c.error \/ kind = "Unknown"
       THEN \E status \in 1 .. 5 : Return(pc[Driver], status, c)
       ELSE captured' = c /\ UNCHANGED <<pc, plan, called, result>>
    /\ UNCHANGED <<runtimeVars, library>>

\* ... and ends the call when it likes, 5 being any status the ABI has not.
ReturnAnything(status) ==
    /\ pc[Driver] \in Entries
    /\ plan = Unruly
    /\ Return(pc[Driver], status, captured)
    /\ UNCHANGED <<runtimeVars, library, emitted>>

\* FuzzSyntax has no output: it runs the lexer or the parser, or neither.
FuzzSyntax(stage) ==
    /\ pc[Driver] \in {"constructed", "ready"}
    /\ IF library = "ready" /\ stage <= 1
       THEN Goto(Driver, "FuzzSyntax") /\ result' = NoAnswer
       ELSE Goto(Driver, "returned") /\ result' = Answer(2, "none", TRUE)
    /\ UNCHANGED <<runtimeVars, library, captured, plan, emitted, called>>

FuzzSyntaxReturns(status) ==
    /\ pc[Driver] = "FuzzSyntax"
    /\ result' = Answer(status, "none", status > 1)
    /\ Goto(Driver, "returned")
    /\ UNCHANGED <<runtimeVars, library, captured, plan, emitted, called>>

-----------------------------------------------------------------------------
BridgeInit ==
    /\ runtimeState = 0
    /\ rts = "down"
    /\ pc = [t \in Threads |-> IF t = Driver THEN "idle" ELSE "initialize"]
    /\ library = "none"
    /\ captured = NoCapture
    /\ plan = NoPlan
    /\ emitted = <<>>
    /\ called = "none"
    /\ result = NoAnswer

\* The steps a thread takes without being asked.
StarterStep(t) ==
    CompareRuntimeState(t) \/ HsInit(t) \/ StoreReady(t) \/ Spin(t) \/ StarterReturns(t)

DriverStep ==
    \/ LoadFails \/ Load
    \/ CompareRuntimeState(Driver) \/ HsInit(Driver) \/ StoreReady(Driver) \/ Spin(Driver)
    \/ Initialized \/ Close
    \/ \E compatible \in BOOLEAN : CheckAbiVersion(compatible)
    \/ BeginShutdown \/ HsExit \/ StoreStopped
    \/ \E fits \in BOOLEAN : Emit(fits) \/ Throw(fits)
    \/ \E kind \in OutputKinds, fits \in BOOLEAN : EmitAnything(kind, fits)
    \/ \E status \in 0 .. 5 : ReturnAnything(status)
    \/ \E status \in {0, 3} : FuzzSyntaxReturns(status)

-----------------------------------------------------------------------------
(* Haskell code (the ABI check and every request) runs only between        *)
(* hs_init and hs_exit, and each of those is called at most once, however  *)
(* the callers of tala_frontend_initialize interleave.                     *)
HaskellOnlyWhileUp ==
    /\ pc[Driver] \in Entries \cup {"FuzzSyntax", "abi_version"} => rts = "up"
    /\ \A t \in Threads : pc[t] = "hs_init" => rts = "down"
    /\ pc[Driver] \in {"hs_exit_refused", "hs_exit"} => rts = "up"

(* The lowerings that may follow a payload: the two-stage call has to have *)
(* one, FuzzCompile may drop one, and no other call is to see any.         *)
Lowerings(entry, kind) ==
    CASE kind = "Core" /\ entry = "FuzzCompileStages" -> {<<"CorePrep">>}
      [] kind = "Core" /\ entry = "FuzzCompile" -> {<<>>, <<"CorePrep">>}
      [] OTHER -> {<<>>}

(* Whatever library answers, a success with a payload was called back with *)
(* exactly that: the warnings the result carries, before it; one payload,  *)
(* the one of the result; the lowering, after it, when both stages were    *)
(* asked for, and then the result carries it; and nothing was refused.     *)
SuccessIsWhole ==
    (pc[Driver] = "returned" /\ result.status = 0 /\ result.kind \in Payloads \ {"ErrorText"}) =>
        /\ ~result.error
        /\ \E lowering \in Lowerings(called, result.kind) :
              emitted = (IF result.warnings THEN <<"Warning">> ELSE <<>>) \o <<result.kind>> \o lowering
        /\ result.corePrep <=> (called = "FuzzCompileStages" /\ result.kind = "Core")
=============================================================================
