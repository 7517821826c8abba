------------------------- MODULE InteractiveProofs -------------------------
(***************************************************************************)
(* What holds of the frontend bridge, the JIT session and the interactive  *)
(* session together, for any number of threads that start the runtime, of  *)
(* cells and of history entries.                                           *)
(***************************************************************************)
EXTENDS InteractiveSession, TLAPS, SequenceTheorems

USE BridgeConstants, SessionConstants

-----------------------------------------------------------------------------
(* The inductive invariant, in parts that name what they speak of.         *)

Inside == {"hs_init", "publish"}
Mapped == {"initialize", "spin", "started", "abi_version", "refuse", "hs_exit_refused",
           "stopped_refused", "close"} \cup Inside
Closing == {"hs_exit", "stopped", "hs_exit_refused", "stopped_refused"}
Leaving == {"destroy", "hs_exit", "stopped", "gone"}
Quiet == {"idle", "ready"}
StarterPlaces == {"initialize", "spin", "started", "told_ready", "told_failed"} \cup Inside
DriverPlaces == {"load", "constructed", "returned", "FuzzSyntax"} \cup Quiet \cup Mapped \cup Leaving \cup Entries

PlacesOK ==
    /\ pc \in [Threads -> DriverPlaces \cup StarterPlaces]
    /\ pc[Driver] \in DriverPlaces
    /\ \A t \in Starters : pc[t] \in StarterPlaces

(* One thread at most is between winning the exchange of runtimeState and  *)
(* publishing "ready", and the state says so; only the driver ends it.     *)
RuntimeInv ==
    /\ runtimeState \in 0 .. 4
    /\ \A t, u \in Threads : pc[t] \in Inside /\ pc[u] \in Inside => t = u
    /\ \A t \in Threads : pc[t] \in Inside => runtimeState = 1
    /\ pc[Driver] \in Closing => runtimeState = 3
    /\ \A t \in Threads : /\ pc[t] = "hs_init" => rts = "down"
                          /\ pc[t] = "publish" => rts = "up"
    /\ runtimeState = 0 => rts = "down"
    /\ runtimeState = 2 => rts = "up"
    /\ pc[Driver] \in {"hs_exit", "hs_exit_refused"} => rts = "up"

(* A loaded library that answered the ABI check goes with a runtime that is *)
(* ready, until the driver leaves.                                         *)
LibraryInv ==
    /\ pc[Driver] \in {"idle", "load"} => library = "none"
    /\ pc[Driver] \in Mapped => library = "mapped"
    /\ pc[Driver] \in Entries \cup {"FuzzSyntax"} => library = "ready"
    /\ library = "ready" /\ pc[Driver] \notin Leaving => runtimeState = 2
    /\ pc[Driver] \in {"abi_version", "refuse", "destroy"} => runtimeState = 2

Captures == [kind : {"none"} \cup Payloads, error : BOOLEAN, acceptCorePrep : BOOLEAN,
             corePrep : BOOLEAN, warnings : BOOLEAN]

\* The only outputs that leave a capture without an error.
Delivered(c) ==
    LET warning == IF c.warnings THEN <<"Warning">> ELSE <<>>
    IN  IF c.kind = "none" THEN warning
        ELSE IF c.corePrep THEN Append(Append(warning, c.kind), "CorePrep")
        ELSE Append(warning, c.kind)

Captured(entry, c, outputs) ==
    /\ c \in Captures /\ ~c.error
    /\ c.acceptCorePrep <=> entry \in {"FuzzCompile", "FuzzCompileStages"}
    /\ c.corePrep => c.kind = "Core" /\ c.acceptCorePrep
    /\ outputs = Delivered(c)

KnownKinds == OutputKinds \ {"Unknown"}

\* A plan that ends well has no error text; no output of its own has Unruly.
Planned ==
    /\ plan \in [emit : Seq(KnownKinds), status : 0 .. 5]
    /\ plan.status = 0 => plan.emit \in Seq(KnownKinds \ {"ErrorText"})

(* What has been captured is what the library has called back with, in the *)
(* only order that is not refused.                                         *)
RequestInv ==
    pc[Driver] \in Entries => Captured(pc[Driver], captured, emitted) /\ Planned

(* The session waits for the driver only while its input is at the         *)
(* frontend.                                                               *)
StageInv ==
    /\ program \in {"tali", "other"}
    /\ stage \in {"prompt", "frontend", "insert", "invoke", "exited"}
    /\ stage \in {"prompt", "insert", "invoke"} => pc[Driver] \in Quiet
    /\ stage = "exited" => pc[Driver] \in Leaving
    /\ (stage = "frontend" /\ program = "tali") \/ stage \in {"insert", "invoke"}
         => request.expression \in Expressions
    /\ stage \in {"insert", "invoke"} => cell.type \in Types

(* The modules, their entries and the symbols LLVM has.                    *)
JitInv ==
    /\ modules \in Seq(Nat)
    /\ entries \subseteq [symbol : Nat, type : Types]
    /\ dylib \subseteq Nat
    /\ TablesAgree

CellInv ==
    /\ nextCell \in Nat /\ cell.number \in Nat
    /\ stage = "insert" => nextCell = cell.number + 1
    /\ CellSymbolsFresh

HistoryInv == history \in Seq(Expressions) /\ Len(history) <= MaximumEntries

ThreadInv == PlacesOK /\ RuntimeInv /\ LibraryInv
BridgeInv == ThreadInv /\ RequestInv /\ SuccessIsWhole
SessionInv == StageInv /\ JitInv /\ CellInv /\ HistoryInv
SInv == BridgeInv /\ SessionInv

-----------------------------------------------------------------------------
(* The runtime and the library: one lemma per step of a thread.            *)

\* A thread that goes somewhere leaves the others where they are.
LEMMA GotoFacts ==
    ASSUME PlacesOK, NEW t \in Threads, NEW place, Goto(t, place)
    PROVE  /\ pc'[t] = place
           /\ \A u \in Threads : u # t => pc'[u] = pc[u]
           /\ DOMAIN pc' = Threads
BY DEF PlacesOK, Goto

LEMMA PlacesStep ==
    ASSUME PlacesOK, NEW t \in Threads, NEW place, Goto(t, place),
           place \in IF t = Driver THEN DriverPlaces ELSE StarterPlaces
    PROVE  PlacesOK'
<1>1. pc' \in [Threads -> DriverPlaces \cup StarterPlaces]
  BY DEF PlacesOK, Goto
<1>2. pc'[Driver] \in DriverPlaces
  BY GotoFacts DEF PlacesOK, Threads
<1>3. ASSUME NEW u \in Starters PROVE pc'[u] \in StarterPlaces
  BY GotoFacts DEF PlacesOK, Threads
<1> QED
  BY <1>1, <1>2, <1>3 DEF PlacesOK

\* The exchange is won by one thread, which alone starts the runtime.
LEMMA CompareRuntimeStateStep ==
    ASSUME ThreadInv, NEW t \in Threads, CompareRuntimeState(t)
    PROVE  ThreadInv'
<1>0. Driver \in Threads /\ pc[t] = "initialize"
  BY DEF Threads, CompareRuntimeState
<1>1. CASE runtimeState = 0
  <2>1. Goto(t, "hs_init") /\ runtimeState' = 1 /\ rts' = rts /\ library' = library
    BY <1>1 DEF CompareRuntimeState, requestVars
  <2>2. PlacesOK'
    BY <2>1, PlacesStep DEF ThreadInv, DriverPlaces, StarterPlaces, Mapped, Inside
  <2>a. pc'[t] = "hs_init" /\ \A u \in Threads : u # t => pc'[u] = pc[u]
    BY <2>1, GotoFacts DEF ThreadInv
  <2>b. RuntimeInv BY DEF ThreadInv
  <2>c. rts = "down" /\ \A u \in Threads : pc[u] \notin Inside
    BY <2>b, <1>1 DEF RuntimeInv
  <2>3. RuntimeInv'
    <3>1. \A u, v \in Threads : pc'[u] \in Inside /\ pc'[v] \in Inside => u = v
      BY <2>a, <2>c
    <3>2. pc[Driver] \notin Closing
      BY <2>b, <1>1 DEF RuntimeInv
    <3>3. pc'[Driver] \notin Closing
      BY <2>a, <1>0, <3>2 DEF Closing
    <3>4. \A u \in Threads : (pc'[u] = "hs_init" => rts = "down") /\ pc'[u] # "publish"
      BY <2>a, <2>c DEF Inside
    <3> QED BY <3>1, <3>3, <3>4, <2>1 DEF RuntimeInv, Closing
  <2>4. LibraryInv'
    BY <2>1, <1>1, <2>a, <1>0 DEF ThreadInv, LibraryInv, Mapped, Inside, Leaving, Entries
  <2> QED BY <2>2, <2>3, <2>4 DEF ThreadInv
<1>2. CASE runtimeState # 0
  <2>1. Goto(t, "spin") /\ runtimeState' = runtimeState /\ rts' = rts /\ library' = library
    BY <1>2 DEF CompareRuntimeState, requestVars
  <2>2. PlacesOK'
    BY <2>1, PlacesStep DEF ThreadInv, DriverPlaces, StarterPlaces, Mapped, Inside
  <2>a. pc'[t] = "spin" /\ \A u \in Threads : u # t => pc'[u] = pc[u]
    BY <2>1, GotoFacts DEF ThreadInv
  <2>3. RuntimeInv'
    BY <2>1, <2>a, <1>0 DEF ThreadInv, RuntimeInv, Inside, Closing
  <2>4. LibraryInv'
    BY <2>1, <1>2, <2>a, <1>0 DEF ThreadInv, LibraryInv, Mapped, Inside, Leaving, Entries
  <2> QED BY <2>2, <2>3, <2>4 DEF ThreadInv
<1> QED BY <1>1, <1>2

\* hs_init has not been called before, and nobody else is at it.
LEMMA HsInitStep ==
    ASSUME ThreadInv, NEW t \in Threads, HsInit(t)
    PROVE  ThreadInv'
<1>0. Driver \in Threads /\ pc[t] = "hs_init"
  BY DEF Threads, HsInit
<1>1. Goto(t, "publish") /\ runtimeState' = runtimeState /\ rts' = "up" /\ library' = library
  BY DEF HsInit, requestVars
<1>2. PlacesOK'
  BY <1>1, PlacesStep DEF ThreadInv, DriverPlaces, StarterPlaces, Mapped, Inside
<1>3. pc'[t] = "publish" /\ \A u \in Threads : u # t => pc'[u] = pc[u]
  BY <1>1, GotoFacts DEF ThreadInv
<1>4. runtimeState = 1 /\ \A u \in Threads : pc[u] \in Inside => u = t
  BY <1>0 DEF ThreadInv, RuntimeInv, Inside
<1>5. RuntimeInv'
  BY <1>0, <1>1, <1>3, <1>4 DEF ThreadInv, RuntimeInv, Inside, Closing
<1>6. LibraryInv'
  BY <1>0, <1>1, <1>3 DEF ThreadInv, LibraryInv, Mapped, Inside, Leaving, Entries
<1> QED BY <1>2, <1>5, <1>6 DEF ThreadInv

LEMMA StoreReadyStep ==
    ASSUME ThreadInv, NEW t \in Threads, StoreReady(t)
    PROVE  ThreadInv'
<1>0. Driver \in Threads /\ pc[t] = "publish"
  BY DEF Threads, StoreReady
<1>1. Goto(t, "started") /\ runtimeState' = 2 /\ rts' = rts /\ library' = library
  BY DEF StoreReady, requestVars
<1>2. PlacesOK'
  BY <1>1, PlacesStep DEF ThreadInv, DriverPlaces, StarterPlaces, Mapped, Inside
<1>3. pc'[t] = "started" /\ \A u \in Threads : u # t => pc'[u] = pc[u]
  BY <1>1, GotoFacts DEF ThreadInv
<1>4. runtimeState = 1 /\ rts = "up" /\ \A u \in Threads : pc[u] \in Inside => u = t
  BY <1>0 DEF ThreadInv, RuntimeInv, Inside
<1>5. \A u \in Threads : pc'[u] \notin Inside
  BY <1>3, <1>4 DEF Inside
<1>6. pc[Driver] \notin Closing
  BY <1>4 DEF ThreadInv, RuntimeInv
<1>7. RuntimeInv'
  BY <1>0, <1>1, <1>3, <1>4, <1>5, <1>6 DEF RuntimeInv, Inside, Closing
<1>8. LibraryInv'
  BY <1>0, <1>1, <1>3 DEF ThreadInv, LibraryInv, Mapped, Inside, Leaving, Entries
<1> QED BY <1>2, <1>7, <1>8 DEF ThreadInv

LEMMA SpinStep ==
    ASSUME ThreadInv, NEW t \in Threads, Spin(t)
    PROVE  ThreadInv'
<1>0. Driver \in Threads /\ pc[t] = "spin"
  BY DEF Threads, Spin
<1>1. Goto(t, "started") /\ runtimeState' = runtimeState /\ rts' = rts /\ library' = library
  BY DEF Spin, requestVars, runtimeVars
<1>2. PlacesOK'
  BY <1>1, PlacesStep DEF ThreadInv, DriverPlaces, StarterPlaces, Mapped, Inside
<1>3. pc'[t] = "started" /\ \A u \in Threads : u # t => pc'[u] = pc[u]
  BY <1>1, GotoFacts DEF ThreadInv
<1>5. RuntimeInv'
  BY <1>0, <1>1, <1>3 DEF ThreadInv, RuntimeInv, Inside, Closing
<1>6. LibraryInv'
  BY <1>0, <1>1, <1>3 DEF ThreadInv, LibraryInv, Mapped, Inside, Leaving, Entries
<1> QED BY <1>2, <1>5, <1>6 DEF ThreadInv

LEMMA StarterReturnsStep ==
    ASSUME ThreadInv, NEW t \in Starters, StarterReturns(t)
    PROVE  ThreadInv'
<1>0. Driver \in Threads /\ t \in Threads /\ t # Driver
  BY DEF Threads
<1>1. PICK place \in {"told_ready", "told_failed"} : Goto(t, place)
  BY DEF StarterReturns
<1>2. runtimeState' = runtimeState /\ rts' = rts /\ library' = library
  BY DEF StarterReturns, requestVars, runtimeVars
<1>3. PlacesOK'
  BY <1>0, <1>1, PlacesStep DEF ThreadInv, StarterPlaces, Inside
<1>4. pc'[t] = place /\ \A u \in Threads : u # t => pc'[u] = pc[u]
  BY <1>0, <1>1, GotoFacts DEF ThreadInv
<1>5. RuntimeInv'
  BY <1>0, <1>1, <1>2, <1>4 DEF ThreadInv, RuntimeInv, Inside
<1>6. LibraryInv'
  BY <1>0, <1>2, <1>4 DEF ThreadInv, LibraryInv
<1> QED BY <1>3, <1>5, <1>6 DEF ThreadInv

\* A step that moves the driver where nothing is being started or shut down.
LEMMA DriverMoves ==
    ASSUME ThreadInv, NEW place \in DriverPlaces \ (Inside \cup Closing), Goto(Driver, place),
           runtimeState' = runtimeState, rts' = rts
    PROVE  /\ PlacesOK' /\ RuntimeInv'
           /\ pc'[Driver] = place
<1>0. Driver \in Threads
  BY DEF Threads
<1>1. PlacesOK'
  BY <1>0, PlacesStep DEF ThreadInv
<1>2. pc'[Driver] = place /\ \A u \in Threads : u # Driver => pc'[u] = pc[u]
  BY <1>0, GotoFacts DEF ThreadInv
<1>3. RuntimeInv'
  BY <1>0, <1>2 DEF ThreadInv, RuntimeInv, Inside, Closing
<1> QED BY <1>1, <1>2, <1>3

\* The shutdown begins in "ready", or the driver is done with the runtime.
LEMMA BeginShutdownStep ==
    ASSUME ThreadInv, BeginShutdown
    PROVE  ThreadInv'
<1>0. Driver \in Threads /\ pc[Driver] \in {"refuse", "destroy"} /\ rts' = rts /\ library' = library
  BY DEF Threads, BeginShutdown, requestVars
<1>1. runtimeState = 2 /\ rts = "up"
  BY <1>0 DEF ThreadInv, LibraryInv, RuntimeInv
<1>2. PICK place \in {"hs_exit_refused", "hs_exit"} :
        /\ Goto(Driver, place) /\ runtimeState' = 3
        /\ pc[Driver] = "refuse" <=> place = "hs_exit_refused"
  BY <1>0, <1>1 DEF BeginShutdown
<1>3. PlacesOK'
  BY <1>0, <1>2, PlacesStep DEF ThreadInv, DriverPlaces, Mapped, Leaving
<1>4. pc'[Driver] = place /\ \A u \in Threads : u # Driver => pc'[u] = pc[u]
  BY <1>0, <1>2, GotoFacts DEF ThreadInv
<1>5. \A u \in Threads : pc'[u] \notin Inside
  BY <1>1, <1>2, <1>4 DEF ThreadInv, RuntimeInv, Inside
<1>6. RuntimeInv'
  BY <1>0, <1>1, <1>2, <1>4, <1>5 DEF RuntimeInv, Inside, Closing
<1>7. LibraryInv'
  BY <1>0, <1>2, <1>4 DEF ThreadInv, LibraryInv, Mapped, Inside, Leaving, Entries
<1> QED BY <1>3, <1>6, <1>7 DEF ThreadInv

LEMMA HsExitStep ==
    ASSUME ThreadInv, HsExit
    PROVE  ThreadInv'
<1>0. /\ Driver \in Threads /\ pc[Driver] \in {"hs_exit_refused", "hs_exit"}
      /\ rts' = "exited" /\ runtimeState' = runtimeState /\ library' = library
  BY DEF Threads, HsExit, requestVars
<1>1. runtimeState = 3
  BY <1>0 DEF ThreadInv, RuntimeInv, Closing
<1>2. PICK place \in {"stopped_refused", "stopped"} :
        Goto(Driver, place) /\ (pc[Driver] = "hs_exit_refused" <=> place = "stopped_refused")
  BY <1>0 DEF HsExit
<1>3. PlacesOK'
  BY <1>0, <1>2, PlacesStep DEF ThreadInv, DriverPlaces, Mapped, Leaving
<1>4. pc'[Driver] = place /\ \A u \in Threads : u # Driver => pc'[u] = pc[u]
  BY <1>0, <1>2, GotoFacts DEF ThreadInv
<1>5. \A u \in Threads : pc'[u] \notin Inside
  BY <1>1, <1>2, <1>4 DEF ThreadInv, RuntimeInv, Inside
<1>6. RuntimeInv'
  BY <1>0, <1>1, <1>2, <1>4, <1>5 DEF RuntimeInv, Inside, Closing
<1>7. LibraryInv'
  BY <1>0, <1>1, <1>2, <1>4 DEF ThreadInv, LibraryInv, Mapped, Inside, Leaving, Entries
<1> QED BY <1>3, <1>6, <1>7 DEF ThreadInv

LEMMA StoreStoppedStep ==
    ASSUME ThreadInv, StoreStopped
    PROVE  ThreadInv'
<1>0. /\ Driver \in Threads /\ pc[Driver] \in {"stopped_refused", "stopped"}
      /\ rts' = rts /\ runtimeState' = 4 /\ library' = library
  BY DEF Threads, StoreStopped, requestVars
<1>1. runtimeState = 3
  BY <1>0 DEF ThreadInv, RuntimeInv, Closing
<1>2. PICK place \in {"close", "gone"} :
        Goto(Driver, place) /\ (pc[Driver] = "stopped_refused" <=> place = "close")
  BY <1>0 DEF StoreStopped
<1>3. PlacesOK'
  BY <1>0, <1>2, PlacesStep DEF ThreadInv, DriverPlaces, Mapped, Leaving
<1>4. pc'[Driver] = place /\ \A u \in Threads : u # Driver => pc'[u] = pc[u]
  BY <1>0, <1>2, GotoFacts DEF ThreadInv
<1>5. \A u \in Threads : pc'[u] \notin Inside
  BY <1>1, <1>2, <1>4 DEF ThreadInv, RuntimeInv, Inside
<1>6. RuntimeInv'
  BY <1>0, <1>1, <1>2, <1>4, <1>5 DEF RuntimeInv, Inside, Closing
<1>7. LibraryInv'
  BY <1>0, <1>1, <1>2, <1>4 DEF ThreadInv, LibraryInv, Mapped, Inside, Leaving, Entries
<1> QED BY <1>3, <1>6, <1>7 DEF ThreadInv

\* The steps of SharedFrontend that load the library, check it or close it.
LEMMA LibraryStep ==
    ASSUME ThreadInv,
           \/ LoadFails \/ Load \/ Initialized \/ Close
           \/ \E compatible \in BOOLEAN : CheckAbiVersion(compatible)
    PROVE  ThreadInv'
<1> USE DEF DriverPlaces, Quiet, Mapped, Inside, Closing, Leaving, Entries
<1>1. CASE LoadFails \/ Close
  <2>1. /\ Goto(Driver, "constructed") /\ library' = "failed"
        /\ runtimeState' = runtimeState /\ rts' = rts
    BY <1>1 DEF LoadFails, Close, runtimeVars
  <2>2. PlacesOK' /\ RuntimeInv' /\ pc'[Driver] = "constructed"
    BY <2>1, DriverMoves
  <2> QED BY <2>1, <2>2 DEF ThreadInv, LibraryInv
<1>2. CASE Load
  <2>1. Goto(Driver, "initialize") /\ library' = "mapped" /\ runtimeState' = runtimeState /\ rts' = rts
    BY <1>2 DEF Load, runtimeVars
  <2>2. PlacesOK' /\ RuntimeInv' /\ pc'[Driver] = "initialize"
    BY <2>1, DriverMoves
  <2> QED BY <2>1, <2>2 DEF ThreadInv, LibraryInv
<1>3. CASE Initialized
  <2>1. PICK place \in {"abi_version", "close"} :
          Goto(Driver, place) /\ (place = "abi_version" => runtimeState = 2)
    BY <1>3 DEF Initialized
  <2>2. pc[Driver] = "started" /\ library' = library /\ runtimeState' = runtimeState /\ rts' = rts
    BY <1>3 DEF Initialized, runtimeVars
  <2>3. PlacesOK' /\ RuntimeInv' /\ pc'[Driver] = place
    BY <2>1, <2>2, DriverMoves
  <2> QED BY <2>1, <2>2, <2>3 DEF ThreadInv, LibraryInv
<1>4. ASSUME NEW compatible \in BOOLEAN, CheckAbiVersion(compatible) PROVE ThreadInv'
  <2>1. PICK place \in {"constructed", "refuse"} :
          /\ Goto(Driver, place)
          /\ library' = IF place = "constructed" THEN "ready" ELSE library
    BY <1>4 DEF CheckAbiVersion
  <2>2. pc[Driver] = "abi_version" /\ runtimeState' = runtimeState /\ rts' = rts
    BY <1>4 DEF CheckAbiVersion, runtimeVars
  <2>3. PlacesOK' /\ RuntimeInv' /\ pc'[Driver] = place
    BY <2>1, <2>2, DriverMoves
  <2>4. runtimeState = 2 /\ library = "mapped"
    BY <2>2 DEF ThreadInv, LibraryInv
  <2> QED BY <2>1, <2>2, <2>3, <2>4 DEF ThreadInv, LibraryInv
<1> QED BY <1>1, <1>2, <1>3, <1>4

\* The driver goes from one place where it waits or is served to another.
Serving == {"constructed", "ready", "returned", "FuzzSyntax"} \cup Entries

LEMMA ServingStep ==
    ASSUME ThreadInv, NEW place \in Serving, Goto(Driver, place), pc[Driver] \in Serving,
           place \in Entries \cup {"FuzzSyntax"} => library = "ready",
           runtimeState' = runtimeState, rts' = rts, library' = library
    PROVE  ThreadInv' /\ pc'[Driver] = place
<1> USE DEF DriverPlaces, Quiet, Mapped, Inside, Closing, Leaving, Entries, Serving
<1>1. PlacesOK' /\ RuntimeInv' /\ pc'[Driver] = place
  BY DriverMoves
<1>2. LibraryInv'
  BY <1>1 DEF ThreadInv, LibraryInv
<1> QED BY <1>1, <1>2 DEF ThreadInv

-----------------------------------------------------------------------------
(* Requests.                                                               *)

LEMMA ShortSequences ==
    ASSUME NEW S, NEW a \in S, NEW b \in S
    PROVE  <<>> \in Seq(S) /\ <<a>> \in Seq(S) /\ <<a, b>> \in Seq(S)
OBVIOUS

LEMMA DeliveredOutputs ==
    ASSUME NEW c \in Captures, NEW warning, warning = IF c.warnings THEN <<"Warning">> ELSE <<>>,
           c.kind # "none"
    PROVE  Delivered(c) = warning \o <<c.kind>> \o (IF c.corePrep THEN <<"CorePrep">> ELSE <<>>)
<1> DEFINE K == {"Warning", "CorePrep"} \cup Payloads
<1>0. c.kind \in K /\ "CorePrep" \in K /\ "Warning" \in K
  BY DEF Captures
<1>a. <<>> \in Seq(K) /\ <<"Warning">> \in Seq(K)
  BY <1>0, ShortSequences
<1> HIDE DEF K
<1>1. warning \in Seq(K)
  BY <1>a
<1>2. Append(warning, c.kind) \in Seq(K) /\ Append(warning, c.kind) = warning \o <<c.kind>>
  BY <1>0, <1>1, AppendProperties, AppendIsConcat
<1>3. Append(Append(warning, c.kind), "CorePrep") = Append(warning, c.kind) \o <<"CorePrep">>
  BY <1>0, <1>2, AppendIsConcat
<1>4. Append(warning, c.kind) \o <<>> = Append(warning, c.kind)
  BY <1>2, ConcatEmptySeq
<1> QED BY <1>2, <1>3, <1>4 DEF Delivered

\* What the capture of a call and its status say of the outputs, once the
\* call has returned.
LEMMA ReturnStep ==
    ASSUME ThreadInv, pc[Driver] \in Entries, NEW status, NEW c \in Captures,
           Return(pc[Driver], status, c), UNCHANGED <<runtimeVars, library>>,
           status = 0 => Captured(pc[Driver], c, emitted')
    PROVE  BridgeInv'
<1> DEFINE entry == pc[Driver]
<1>1. /\ Goto(Driver, "returned") /\ captured' = c /\ called' = entry
      /\ runtimeState' = runtimeState /\ rts' = rts /\ library' = library
      /\ result' = IF entry = "FuzzCompileStages" THEN MakeStages(status, c) ELSE MakeResult(status, c)
  BY DEF Return, runtimeVars
<1>2. ThreadInv' /\ pc'[Driver] = "returned"
  BY <1>1, ServingStep DEF Serving, Entries
<1>3. RequestInv'
  BY <1>2 DEF RequestInv, Entries
<1>4. ASSUME result'.status = 0, result'.kind \in Payloads \ {"ErrorText"}
      PROVE  /\ ~result'.error
             /\ \E lowering \in Lowerings(entry, result'.kind) :
                   emitted' = (IF result'.warnings THEN <<"Warning">> ELSE <<>>) \o <<result'.kind>> \o lowering
             /\ result'.corePrep <=> (entry = "FuzzCompileStages" /\ result'.kind = "Core")
  <2> DEFINE r == MakeResult(status, c)
  <2> DEFINE stages == entry = "FuzzCompileStages" /\ c.kind = "Core"
  <2>1. /\ r.status = IF status \in 0 .. 4 THEN status ELSE 3
        /\ r.kind = IF c.kind = "none" THEN "ErrorText" ELSE c.kind
        /\ r.error <=> (c.error \/ status \notin 0 .. 4 \/ r.kind = "ErrorText")
        /\ r.warnings = c.warnings /\ r.corePrep = FALSE
    BY DEF MakeResult, Answer
  <2>2. r \in [status : Nat, kind : Payloads, error : BOOLEAN, warnings : BOOLEAN, corePrep : BOOLEAN]
    <3> DEFINE n == IF status \in 0 .. 4 THEN status ELSE 3
    <3> DEFINE k == IF c.kind = "none" THEN "ErrorText" ELSE c.kind
    <3> DEFINE e == c.error \/ status \notin 0 .. 4 \/ k = "ErrorText"
    <3>1. r = [Answer(n, k, e) EXCEPT !.warnings = c.warnings]
      BY DEF MakeResult
    <3>2. n \in Nat /\ k \in Payloads /\ c.warnings \in BOOLEAN
      BY DEF Captures, Payloads
    <3>3. e \in BOOLEAN
      OBVIOUS
    <3> HIDE DEF r, n, k, e
    <3> QED BY <3>1, <3>2, <3>3 DEF Answer
  <2> HIDE DEF r
  <2>3. result' = IF entry = "FuzzCompileStages" THEN MakeStages(status, c) ELSE r
    BY <1>1 DEF r
  <2>4. MakeStages(status, c) = IF r.status # 0 \/ r.kind # "Core" THEN r
                               ELSE IF c.corePrep THEN [r EXCEPT !.corePrep = TRUE]
                               ELSE [r EXCEPT !.status = 3, !.error = TRUE]
    BY DEF MakeStages, r
  <2>5. /\ result'.status = r.status /\ result'.kind = r.kind /\ result'.error = r.error
        /\ result'.warnings = r.warnings
        /\ result'.corePrep <=> stages
        /\ stages => c.corePrep
    <3>1. CASE entry # "FuzzCompileStages" \/ r.status # 0 \/ r.kind # "Core"
      <4>1. result' = r
        BY <2>3, <2>4, <3>1
      <4>2. ~stages
        BY <1>4, <2>1, <3>1, <4>1
      <4> QED BY <2>1, <4>1, <4>2
    <3>2. CASE entry = "FuzzCompileStages" /\ r.status = 0 /\ r.kind = "Core" /\ c.corePrep
      <4>1. result' = [r EXCEPT !.corePrep = TRUE]
        BY <2>3, <2>4, <3>2
      <4>2. stages
        BY <2>1, <3>2
      <4> QED BY <2>2, <3>2, <4>1, <4>2
    <3>3. CASE entry = "FuzzCompileStages" /\ r.status = 0 /\ r.kind = "Core" /\ ~c.corePrep
      <4>1. result' = [r EXCEPT !.status = 3, !.error = TRUE]
        BY <2>3, <2>4, <3>3
      <4> QED BY <1>4, <2>2, <4>1
    <3> QED BY <3>1, <3>2, <3>3
  <2>6. status = 0 /\ c.kind = result'.kind /\ c.kind # "none" /\ c.kind # "ErrorText"
    BY <1>4, <2>1, <2>5
  <2>7. Captured(entry, c, emitted')
    BY <2>6
  <2>8. ~result'.error
    <3>1. 0 \in 0 .. 4 /\ r.kind # "ErrorText"
      BY <2>1, <2>6
    <3>2. ~c.error /\ status \in 0 .. 4
      BY <2>6, <2>7, <3>1 DEF Captured
    <3> QED BY <2>1, <2>5, <3>1, <3>2
  <2> DEFINE warning == IF result'.warnings THEN <<"Warning">> ELSE <<>>
  <2> DEFINE lowering == IF c.corePrep THEN <<"CorePrep">> ELSE <<>>
  <2>9. emitted' = warning \o <<result'.kind>> \o lowering
    BY <2>1, <2>5, <2>6, <2>7, DeliveredOutputs DEF Captured
  <2>10. lowering \in Lowerings(entry, result'.kind)
    <3>1. /\ c.corePrep => result'.kind = "Core" /\ entry \in {"FuzzCompile", "FuzzCompileStages"}
          /\ result'.kind = "Core" /\ entry = "FuzzCompileStages" => c.corePrep
      BY <2>5, <2>6, <2>7 DEF Captured
    <3>2. CASE c.corePrep
      BY <3>1, <3>2 DEF Lowerings
    <3>3. CASE ~c.corePrep
      BY <3>1, <3>3 DEF Lowerings
    <3> QED BY <3>2, <3>3
  <2> QED BY <2>5, <2>6, <2>8, <2>9, <2>10
<1>5. SuccessIsWhole'
  BY <1>1, <1>2, <1>4 DEF SuccessIsWhole
<1> QED BY <1>2, <1>3, <1>5 DEF BridgeInv

LEMMA PlansAre ==
    ASSUME NEW entry \in Entries, plan' \in Plans(entry) \cup {Unruly}
    PROVE  Planned'
<1>1. "Core" \in KnownKinds \ {"ErrorText"} /\ "SourceList" \in KnownKinds \ {"ErrorText"}
      /\ "Warning" \in KnownKinds \ {"ErrorText"} /\ "CorePrep" \in KnownKinds \ {"ErrorText"}
      /\ "ErrorText" \in KnownKinds
  BY DEF KnownKinds, OutputKinds, Payloads
<1> DEFINE Good == Seq(KnownKinds \ {"ErrorText"})
<1>2. Good \subseteq Seq(KnownKinds)
  OBVIOUS
<1>3. \/ \E n \in 1 .. 5, e \in Seq(KnownKinds) : plan' = [emit |-> e, status |-> n]
      \/ \E e \in Good : plan' = [emit |-> e, status |-> 0]
  <2>1. CASE plan' = Unruly
    <3>1. <<>> \in Seq(KnownKinds) /\ 5 \in 1 .. 5
      OBVIOUS
    <3> QED BY <2>1, <3>1 DEF Unruly
  <2>2. CASE plan' \in {[emit |-> <<"ErrorText">>, status |-> n] : n \in {1, 2, 3}}
    <3>1. <<"ErrorText">> \in Seq(KnownKinds) /\ {1, 2, 3} \subseteq 1 .. 5
      BY <1>1
    <3> QED BY <2>2, <3>1
  <2>3. CASE plan' \in {[emit |-> w \o <<k>>, status |-> 0] :
                        w \in {<<>>, <<"Warning">>}, k \in {"Core", "SourceList"}}
    <3>1. PICK w \in {<<>>, <<"Warning">>}, k \in {"Core", "SourceList"} :
            plan' = [emit |-> w \o <<k>>, status |-> 0]
      BY <2>3
    <3>2. <<>> \in Good /\ <<"Warning">> \in Good /\ <<k>> \in Good
      BY <1>1, ShortSequences
    <3>4. w \in Good
      BY <3>2
    <3>3. w \o <<k>> \in Good
      BY <3>2, <3>4
    <3> QED BY <3>1, <3>3
  <2>4. CASE plan' = [emit |-> <<"Core">>, status |-> 0] \/ plan' = [emit |-> <<"Core", "CorePrep">>, status |-> 0]
    <3>2. <<"Core">> \in Good /\ <<"Core", "CorePrep">> \in Good
      BY <1>1, ShortSequences
    <3> QED BY <2>4, <3>2
  <2> HIDE DEF Good
  <2> QED BY <2>1, <2>2, <2>3, <2>4 DEF Plans, Entries
<1>4. CASE \E n \in 1 .. 5, e \in Seq(KnownKinds) : plan' = [emit |-> e, status |-> n]
  BY <1>4 DEF Planned
<1>5. CASE \E e \in Good : plan' = [emit |-> e, status |-> 0]
  BY <1>2, <1>5 DEF Planned
<1> QED BY <1>3, <1>4, <1>5

LEMMA EnterStep ==
    ASSUME ThreadInv, NEW entry \in Entries, NEW wellFormed,
           Enter(entry, wellFormed, Plans(entry) \cup {Unruly})
    PROVE  BridgeInv'
<1>1. /\ Goto(Driver, entry) /\ library = "ready" /\ pc[Driver] \in Serving
      /\ runtimeState' = runtimeState /\ rts' = rts /\ library' = library
      /\ captured' = [NoCapture EXCEPT !.acceptCorePrep = entry \in {"FuzzCompile", "FuzzCompileStages"}]
      /\ emitted' = <<>> /\ plan' \in Plans(entry) \cup {Unruly}
  BY DEF Enter, runtimeVars, Serving
<1>2. ThreadInv' /\ pc'[Driver] = entry
  BY <1>1, ServingStep DEF Serving
<1>3. Planned'
  BY <1>1, PlansAre
<1>4. Captured(entry, captured', emitted')
  <2> DEFINE accept == entry \in {"FuzzCompile", "FuzzCompileStages"}
  <2>1. captured' = [kind |-> "none", error |-> FALSE, acceptCorePrep |-> accept,
                     corePrep |-> FALSE, warnings |-> FALSE]
    BY <1>1 DEF NoCapture
  <2>2. accept \in BOOLEAN
    OBVIOUS
  <2> HIDE DEF accept
  <2>3. captured' \in Captures /\ ~captured'.error /\ captured'.acceptCorePrep = accept
        /\ ~captured'.corePrep /\ ~captured'.warnings /\ captured'.kind = "none"
    BY <2>1, <2>2 DEF Captures
  <2> QED BY <1>1, <2>3 DEF Captured, Delivered, accept
<1>5. RequestInv'
  BY <1>2, <1>3, <1>4 DEF RequestInv
<1>6. SuccessIsWhole'
  BY <1>2 DEF SuccessIsWhole, Entries
<1> QED BY <1>2, <1>5, <1>6 DEF BridgeInv

\* A request that does not reach the frontend never reports success with a
\* payload, nor does one of a syntax stage.
LEMMA RefuseStep ==
    ASSUME ThreadInv,
           \/ \E entry, wellFormed : Refuse(entry, wellFormed)
           \/ \E syntaxStage : FuzzSyntax(syntaxStage)
           \/ \E status : FuzzSyntaxReturns(status)
    PROVE  BridgeInv' /\ pc[Driver] \in {"constructed", "ready", "FuzzSyntax"}
<1>1. PICK place \in {"returned", "FuzzSyntax"} :
        /\ Goto(Driver, place) /\ pc[Driver] \in {"constructed", "ready", "FuzzSyntax"}
        /\ place = "FuzzSyntax" => library = "ready"
        /\ place = "returned" => result'.status # 0 \/ result'.kind = "none"
        /\ runtimeState' = runtimeState /\ rts' = rts /\ library' = library
  <2>1. CASE \E entry, wellFormed : Refuse(entry, wellFormed)
    BY <2>1 DEF Refuse, runtimeVars, Answer
  <2>2. CASE \E syntaxStage : FuzzSyntax(syntaxStage)
    BY <2>2 DEF FuzzSyntax, runtimeVars, Answer
  <2>3. CASE \E status : FuzzSyntaxReturns(status)
    BY <2>3 DEF FuzzSyntaxReturns, runtimeVars, Answer
  <2> QED BY <2>1, <2>2, <2>3
<1>2. ThreadInv' /\ pc'[Driver] = place
  BY <1>1, ServingStep DEF Serving, Entries
<1>3. RequestInv' /\ SuccessIsWhole'
  BY <1>1, <1>2 DEF RequestInv, SuccessIsWhole, Entries, Payloads
<1> QED BY <1>1, <1>2, <1>3 DEF BridgeInv

LEMMA ReleasedStep ==
    ASSUME ThreadInv, Released, pc[Driver] \in Serving, UNCHANGED <<runtimeVars, library>>
    PROVE  BridgeInv' /\ pc'[Driver] = "ready"
<1>1. ThreadInv' /\ pc'[Driver] = "ready"
  BY ServingStep DEF Serving, Released, runtimeVars, Entries
<1>2. RequestInv' /\ SuccessIsWhole'
  BY <1>1 DEF RequestInv, SuccessIsWhole, Entries
<1> QED BY <1>1, <1>2 DEF BridgeInv

\* An output that is not refused is the next of what the capture stands for.
LEMMA CaptureOutputKeeps ==
    ASSUME NEW entry, NEW c, NEW outputs, Captured(entry, c, outputs),
           NEW kind \in KnownKinds, NEW fits
    PROVE  /\ CaptureOutput(c, kind, fits) \in Captures
           /\ ~CaptureOutput(c, kind, fits).error
                => Captured(entry, CaptureOutput(c, kind, fits), Append(outputs, kind))
<1> DEFINE d == CaptureOutput(c, kind, fits)
<1>1. c \in Captures /\ ~c.error /\ kind # "Unknown" /\ outputs = Delivered(c)
  BY DEF Captured, KnownKinds
<1>2. [c EXCEPT !.error = TRUE] \in Captures /\ [c EXCEPT !.error = TRUE].error
  BY <1>1 DEF Captures
<1>3. CASE kind = "Warning"
  <2>1. d = [c EXCEPT !.error = TRUE] \/ (c.kind = "none" /\ ~c.warnings /\ d = [c EXCEPT !.warnings = TRUE])
    BY <1>3 DEF CaptureOutput
  <2>2. CASE c.kind = "none" /\ ~c.warnings /\ d = [c EXCEPT !.warnings = TRUE]
    <3>1. /\ d \in Captures /\ ~d.error /\ d.warnings /\ d.kind = "none"
          /\ d.acceptCorePrep = c.acceptCorePrep /\ d.corePrep = c.corePrep
      BY <1>1, <2>2 DEF Captures
    <3>2. Append(outputs, kind) = <<"Warning">>
      BY <1>1, <1>3, <2>2 DEF Delivered
    <3>3. Delivered(d) = <<"Warning">>
      BY <3>1 DEF Delivered
    <3> HIDE DEF d
    <3>4. Captured(entry, d, Append(outputs, kind))
      BY <3>1, <3>2, <3>3, <2>2 DEF Captured
    <3> QED BY <3>1, <3>4 DEF d
  <2> QED BY <1>2, <2>1, <2>2
<1>4. CASE kind = "CorePrep"
  <2>1. \/ d = [c EXCEPT !.error = TRUE]
        \/ c.acceptCorePrep /\ c.kind = "Core" /\ ~c.corePrep /\ d = [c EXCEPT !.corePrep = TRUE]
    BY <1>4 DEF CaptureOutput
  <2>2. CASE c.acceptCorePrep /\ c.kind = "Core" /\ ~c.corePrep /\ d = [c EXCEPT !.corePrep = TRUE]
    <3>1. /\ d \in Captures /\ ~d.error /\ d.warnings = c.warnings /\ d.kind = "Core"
          /\ d.acceptCorePrep = c.acceptCorePrep /\ d.corePrep
      BY <1>1, <2>2 DEF Captures
    <3> HIDE DEF d
    <3>2. Append(outputs, kind) = Delivered(d)
      BY <1>1, <1>4, <2>2, <3>1 DEF Delivered
    <3>3. Captured(entry, d, Append(outputs, kind))
      BY <3>1, <3>2, <2>2 DEF Captured
    <3> QED BY <3>1, <3>3 DEF d
  <2> QED BY <1>2, <2>1, <2>2
<1>5. CASE kind \in Payloads
  <2>0. kind # "none" /\ kind # "Warning" /\ kind # "CorePrep"
    BY <1>5 DEF Payloads
  <2>1. d = [c EXCEPT !.error = TRUE] \/ (c.kind = "none" /\ d = [c EXCEPT !.kind = kind])
    BY <1>1, <2>0 DEF CaptureOutput
  <2>2. CASE c.kind = "none" /\ d = [c EXCEPT !.kind = kind]
    <3>1. /\ d \in Captures /\ ~d.error /\ d.warnings = c.warnings /\ d.kind = kind
          /\ d.acceptCorePrep = c.acceptCorePrep /\ d.corePrep = c.corePrep
      BY <1>1, <1>5, <2>2 DEF Captures
    <3>2. ~c.corePrep
      BY <2>2 DEF Captured
    <3> HIDE DEF d
    <3>3. Append(outputs, kind) = Delivered(d)
      BY <1>1, <2>0, <2>2, <3>1, <3>2 DEF Delivered
    <3>4. Captured(entry, d, Append(outputs, kind))
      BY <3>1, <3>2, <3>3 DEF Captured
    <3> QED BY <3>1, <3>4 DEF d
  <2> QED BY <1>2, <2>1, <2>2
<1> QED BY <1>3, <1>4, <1>5 DEF KnownKinds, OutputKinds

\* An exception is reported with status 3, whatever was delivered before it.
LEMMA ThrowStep ==
    ASSUME ThreadInv, RequestInv, NEW fits, Throw(fits)
    PROVE  BridgeInv'
<1>1. Captured(pc[Driver], captured, emitted) /\ "ErrorText" \in KnownKinds
  BY DEF Throw, RequestInv, KnownKinds, OutputKinds, Payloads
<1>2. CaptureOutput(captured, "ErrorText", fits) \in Captures
  BY <1>1, CaptureOutputKeeps
<1> QED BY <1>2, ReturnStep DEF Throw

\* A call that goes on keeps what holds of the threads.
LEMMA CallGoesOn ==
    ASSUME ThreadInv, pc[Driver] \in Entries, pc' = pc, UNCHANGED <<runtimeVars, library>>,
           Captured(pc[Driver], captured', emitted'), Planned'
    PROVE  BridgeInv'
<1>1. Goto(Driver, pc[Driver]) /\ runtimeState' = runtimeState /\ rts' = rts /\ library' = library
  BY DEF Goto, ThreadInv, PlacesOK, Threads, runtimeVars
<1>2. library = "ready"
  BY DEF ThreadInv, LibraryInv
<1>3. ThreadInv'
  BY <1>1, <1>2, ServingStep DEF Serving
<1>4. RequestInv' /\ SuccessIsWhole'
  BY DEF RequestInv, SuccessIsWhole, Entries
<1> QED BY <1>3, <1>4 DEF BridgeInv

\* The next output of the plan goes on with it, or is the last of the request.
LEMMA EmitStep ==
    ASSUME ThreadInv, RequestInv, NEW fits, Emit(fits)
    PROVE  BridgeInv'
<1> DEFINE entry == pc[Driver]
<1> DEFINE kind == Head(plan.emit)
<1> DEFINE c == CaptureOutput(captured, kind, fits)
<1> DEFINE rest == Tail(plan.emit)
<1>1. /\ entry \in Entries /\ UNCHANGED <<runtimeVars, library>> /\ plan.emit # <<>>
      /\ emitted' = Append(emitted, kind)
  BY DEF Emit
<1>2. Captured(entry, captured, emitted) /\ Planned
  BY <1>1 DEF RequestInv
<1>3. \/ c.error /\ \E s \in {4} \cup (IF kind = "ErrorText" THEN {plan.status} ELSE {}) : Return(entry, s, c)
      \/ ~c.error /\ rest = <<>> /\ Return(entry, plan.status, c)
      \/ ~c.error /\ captured' = c /\ plan' = [plan EXCEPT !.emit = rest] /\ pc' = pc
  BY DEF Emit
<1>4. /\ kind \in KnownKinds /\ rest \in Seq(KnownKinds)
      /\ plan.status = 0 => kind # "ErrorText" /\ rest \in Seq(KnownKinds \ {"ErrorText"})
  BY <1>1, <1>2 DEF Planned
<1>5. c \in Captures /\ (~c.error => Captured(entry, c, emitted'))
  BY <1>1, <1>2, <1>4, CaptureOutputKeeps
<1> HIDE DEF c, kind, rest
<1>6. CASE c.error /\ \E s \in {4} \cup (IF kind = "ErrorText" THEN {plan.status} ELSE {}) : Return(entry, s, c)
  <2>1. PICK s : Return(entry, s, c) /\ s # 0
    BY <1>4, <1>6
  <2> QED BY <1>1, <1>5, <2>1, ReturnStep
<1>7. CASE ~c.error /\ rest = <<>> /\ Return(entry, plan.status, c)
  BY <1>1, <1>5, <1>7, ReturnStep
<1>8. CASE ~c.error /\ captured' = c /\ plan' = [plan EXCEPT !.emit = rest] /\ pc' = pc
  <2>1. plan'.emit = rest /\ plan'.status = plan.status
        /\ plan' \in [emit : Seq(KnownKinds), status : 0 .. 5]
    BY <1>2, <1>4, <1>8 DEF Planned
  <2>2. Planned'
    BY <1>4, <2>1 DEF Planned
  <2> QED BY <1>1, <1>5, <1>8, <2>2, CallGoesOn
<1> QED BY <1>3, <1>6, <1>7, <1>8

\* Whatever another library calls back with, it goes on or has been refused.
LEMMA EmitAnythingStep ==
    ASSUME ThreadInv, RequestInv, NEW kind \in OutputKinds, NEW fits, EmitAnything(kind, fits)
    PROVE  BridgeInv'
<1> DEFINE entry == pc[Driver]
<1> DEFINE c == CaptureOutput(captured, kind, fits)
<1>1. /\ entry \in Entries /\ UNCHANGED <<runtimeVars, library>> /\ emitted' = Append(emitted, kind)
      /\ \/ (c.error \/ kind = "Unknown") /\ \E s \in 1 .. 5 : Return(entry, s, c)
         \/ ~c.error /\ kind # "Unknown" /\ captured' = c /\ plan' = plan /\ pc' = pc
  BY DEF EmitAnything
<1>2. Captured(entry, captured, emitted) /\ Planned
  BY <1>1 DEF RequestInv
<1>3. c \in Captures
  <2>1. CASE kind = "Unknown"
    <3>1. c = captured
      BY <2>1 DEF CaptureOutput
    <3> QED BY <1>2, <3>1 DEF Captured
  <2>2. CASE kind \in KnownKinds
    BY <1>2, <2>2, CaptureOutputKeeps
  <2> QED BY <2>1, <2>2 DEF KnownKinds
<1>4. ~c.error /\ kind # "Unknown" => Captured(entry, c, emitted')
  BY <1>1, <1>2, CaptureOutputKeeps DEF KnownKinds
<1> HIDE DEF c
<1>5. CASE \E s \in 1 .. 5 : Return(entry, s, c)
  <2>1. PICK s \in 1 .. 5 : Return(entry, s, c)
    BY <1>5
  <2> QED BY <1>1, <1>3, <2>1, ReturnStep
<1>6. CASE ~c.error /\ kind # "Unknown" /\ captured' = c /\ plan' = plan /\ pc' = pc
  <2>1. Planned'
    BY <1>2, <1>6 DEF Planned
  <2> QED BY <1>1, <1>4, <1>6, <2>1, CallGoesOn
<1> QED BY <1>1, <1>5, <1>6

\* ... and the status it ends the call with does not make up for an output.
LEMMA ReturnAnythingStep ==
    ASSUME ThreadInv, RequestInv, NEW status, ReturnAnything(status)
    PROVE  BridgeInv'
<1>1. /\ pc[Driver] \in Entries /\ UNCHANGED <<runtimeVars, library>> /\ emitted' = emitted
      /\ Return(pc[Driver], status, captured)
  BY DEF ReturnAnything
<1>2. Captured(pc[Driver], captured, emitted')
  BY <1>1 DEF RequestInv
<1>3. captured \in Captures
  BY <1>2 DEF Captured
<1> QED BY <1>1, <1>2, <1>3, ReturnStep

-----------------------------------------------------------------------------
(* All the steps of the bridge.                                            *)

LEMMA NoRequestServed ==
    ASSUME ThreadInv', pc'[Driver] \notin Entries \cup {"returned"}
    PROVE  BridgeInv'
BY DEF BridgeInv, RequestInv, SuccessIsWhole

LEMMA StarterKeepsBridge ==
    ASSUME BridgeInv, NEW t \in Starters, StarterStep(t)
    PROVE  BridgeInv' /\ pc'[Driver] = pc[Driver]
<1>0. t \in Threads /\ Driver \in Threads /\ t # Driver /\ ThreadInv
  BY DEF Threads, BridgeInv
<1>1. ThreadInv'
  BY <1>0, CompareRuntimeStateStep, HsInitStep, StoreReadyStep, SpinStep, StarterReturnsStep DEF StarterStep
<1>2. \E place : Goto(t, place)
  BY DEF StarterStep, CompareRuntimeState, HsInit, StoreReady, Spin, StarterReturns
<1>3. pc'[Driver] = pc[Driver]
  BY <1>0, <1>2, GotoFacts DEF ThreadInv
<1>4. UNCHANGED requestVars
  BY DEF StarterStep, CompareRuntimeState, HsInit, StoreReady, Spin, StarterReturns
<1>5. RequestInv' /\ SuccessIsWhole'
  BY <1>3, <1>4 DEF BridgeInv, RequestInv, Planned, SuccessIsWhole, requestVars
<1> QED BY <1>1, <1>3, <1>5 DEF BridgeInv

\* No step of the driver starts where it waits for the session, and once it
\* is leaving it goes on to the end.
LEMMA DriverKeepsBridge ==
    ASSUME BridgeInv, DriverStep
    PROVE  /\ BridgeInv'
           /\ pc[Driver] \notin Quiet \cup {"returned"}
           /\ pc[Driver] \in Leaving => pc'[Driver] \in Leaving
<1>0. ThreadInv /\ RequestInv /\ Driver \in Threads /\ \A place : Goto(Driver, place) => pc'[Driver] = place
  BY GotoFacts DEF BridgeInv, Threads, ThreadInv
<1>1. CASE CompareRuntimeState(Driver) \/ HsInit(Driver) \/ StoreReady(Driver) \/ Spin(Driver)
  <2>1. ThreadInv'
    BY <1>0, <1>1, CompareRuntimeStateStep, HsInitStep, StoreReadyStep, SpinStep
  <2>2. /\ pc'[Driver] \in {"hs_init", "spin", "publish", "started"}
        /\ pc[Driver] \in {"initialize", "hs_init", "publish", "spin"}
    BY <1>0, <1>1 DEF CompareRuntimeState, HsInit, StoreReady, Spin
  <2> QED BY <2>1, <2>2, NoRequestServed DEF Entries, Quiet, Leaving
<1>2. CASE BeginShutdown \/ HsExit \/ StoreStopped
  <2>1. ThreadInv'
    BY <1>0, <1>2, BeginShutdownStep, HsExitStep, StoreStoppedStep
  <2>2. /\ pc'[Driver] \in {"hs_exit_refused", "hs_exit", "close", "gone", "stopped_refused", "stopped"}
        /\ pc[Driver] \in {"refuse", "destroy", "hs_exit_refused", "hs_exit", "stopped_refused", "stopped"}
        /\ pc[Driver] \in {"destroy", "hs_exit", "stopped"} => pc'[Driver] \in {"hs_exit", "stopped", "gone"}
    BY <1>0, <1>2 DEF BeginShutdown, HsExit, StoreStopped
  <2> QED BY <2>1, <2>2, NoRequestServed DEF Entries, Quiet, Leaving
<1>3. CASE \/ LoadFails \/ Load \/ Initialized \/ Close
           \/ \E compatible \in BOOLEAN : CheckAbiVersion(compatible)
  <2>1. ThreadInv'
    BY <1>0, <1>3, LibraryStep
  <2>2. /\ pc'[Driver] \in {"constructed", "initialize", "abi_version", "close", "refuse"}
        /\ pc[Driver] \in {"load", "started", "abi_version", "close"}
    BY <1>0, <1>3 DEF LoadFails, Load, Initialized, Close, CheckAbiVersion
  <2> QED BY <2>1, <2>2, NoRequestServed DEF Entries, Quiet, Leaving
<1>4. CASE \/ \E fits \in BOOLEAN : Emit(fits) \/ Throw(fits)
           \/ \E kind \in OutputKinds, fits \in BOOLEAN : EmitAnything(kind, fits)
           \/ \E status \in 0 .. 5 : ReturnAnything(status)
  <2>1. BridgeInv' /\ pc[Driver] \in Entries
    BY <1>0, <1>4, EmitStep, ThrowStep, EmitAnythingStep, ReturnAnythingStep
       DEF Emit, Throw, EmitAnything, ReturnAnything
  <2> QED BY <2>1 DEF Entries, Quiet, Leaving
<1>5. CASE \E status \in {0, 3} : FuzzSyntaxReturns(status)
  <2>1. BridgeInv' /\ pc[Driver] = "FuzzSyntax"
    BY <1>0, <1>5, RefuseStep DEF FuzzSyntaxReturns
  <2> QED BY <2>1 DEF Quiet, Leaving
<1> QED BY <1>1, <1>2, <1>3, <1>4, <1>5 DEF DriverStep

\* GetFrontend starts to load the library, or the process exits.
LEMMA FirstUseStep ==
    ASSUME BridgeInv, pc[Driver] = "idle", Goto(Driver, "load"), UNCHANGED <<runtimeVars, library, requestVars>>
    PROVE  BridgeInv' /\ pc'[Driver] = "load"
<1> USE DEF DriverPlaces, Quiet, Mapped, Inside, Closing, Leaving, Entries
<1>1. runtimeState' = runtimeState /\ rts' = rts /\ library' = library /\ ThreadInv
  BY DEF BridgeInv, runtimeVars
<1>2. PlacesOK' /\ RuntimeInv' /\ pc'[Driver] = "load"
  BY <1>1, DriverMoves
<1>3. LibraryInv'
  BY <1>1, <1>2 DEF ThreadInv, LibraryInv
<1> QED BY <1>2, <1>3, NoRequestServed DEF ThreadInv

LEMMA ExitStep ==
    ASSUME BridgeInv, pc[Driver] \in Quiet,
           Goto(Driver, IF library = "ready" THEN "destroy" ELSE "gone"), UNCHANGED <<runtimeVars, library, requestVars>>
    PROVE  BridgeInv' /\ pc'[Driver] \in Leaving
<1> DEFINE place == IF library = "ready" THEN "destroy" ELSE "gone"
<1> USE DEF DriverPlaces, Quiet, Mapped, Inside, Closing, Leaving, Entries
<1>1. runtimeState' = runtimeState /\ rts' = rts /\ library' = library /\ ThreadInv
  BY DEF BridgeInv, runtimeVars
<1>2. place \in DriverPlaces \ (Inside \cup Closing) /\ Goto(Driver, place) /\ (place = "destroy" => library = "ready")
  OBVIOUS
<1>3. place \in {"destroy", "gone"}
  OBVIOUS
<1> HIDE DEF place
<1>4. PlacesOK' /\ RuntimeInv' /\ pc'[Driver] = place
  BY <1>1, <1>2, DriverMoves
<1>5. LibraryInv'
  BY <1>1, <1>2, <1>3, <1>4 DEF ThreadInv, LibraryInv
<1> QED BY <1>3, <1>4, <1>5, NoRequestServed DEF ThreadInv

LEMMA BridgeInitially ==
    ASSUME BridgeInit
    PROVE  BridgeInv /\ pc[Driver] = "idle"
<1> USE DEF BridgeInit
<1>1. pc[Driver] = "idle" /\ \A t \in Starters : pc[t] = "initialize"
  BY DEF Threads
<1>2. PlacesOK
  BY <1>1 DEF PlacesOK, Threads, DriverPlaces, StarterPlaces, Quiet
<1>a. \A t \in Threads : pc[t] \in {"idle", "initialize"}
  BY DEF Threads
<1>3. RuntimeInv
  <2>1. \A t \in Threads : pc[t] \notin Inside /\ pc[t] # "hs_init" /\ pc[t] # "publish"
    BY <1>a DEF Inside
  <2>2. pc[Driver] \notin Closing \cup {"hs_exit", "hs_exit_refused"}
    BY <1>1 DEF Closing
  <2>3. runtimeState = 0 /\ rts = "down"
    OBVIOUS
  <2> QED BY <2>1, <2>2, <2>3 DEF RuntimeInv
<1>4. LibraryInv
  BY <1>1 DEF LibraryInv, Mapped, Inside, Entries, Leaving
<1>5. RequestInv /\ SuccessIsWhole
  BY <1>1 DEF RequestInv, SuccessIsWhole, Entries
<1> QED BY <1>1, <1>2, <1>3, <1>4, <1>5 DEF BridgeInv, ThreadInv


-----------------------------------------------------------------------------
(* The tables of the JIT session.                                          *)

LEMMA ToSetFacts ==
    ASSUME NEW s \in Seq(Nat)
    PROVE  /\ ToSet(s) \subseteq Nat
           /\ \A x \in Nat : ToSet(Append(s, x)) = ToSet(s) \cup {x}
           /\ \A x \in Nat \ ToSet(s) : IsInjective(s) => IsInjective(Append(s, x))
<1>1. DOMAIN s = 1 .. Len(s) /\ Len(s) \in Nat /\ ToSet(s) \subseteq Nat
  BY LenProperties, ElementOfSeq DEF ToSet
<1>2. ASSUME NEW x \in Nat
      PROVE  /\ DOMAIN Append(s, x) = 1 .. Len(s) + 1
             /\ \A i \in 1 .. Len(s) : Append(s, x)[i] = s[i]
             /\ Append(s, x)[Len(s) + 1] = x
  BY AppendProperties, LenProperties
<1>3. ASSUME NEW x \in Nat PROVE ToSet(Append(s, x)) = ToSet(s) \cup {x}
  BY <1>1, <1>2 DEF ToSet
<1>4. ASSUME NEW x \in Nat \ ToSet(s), IsInjective(s) PROVE IsInjective(Append(s, x))
  <2>1. \A i \in 1 .. Len(s) : s[i] # x
    BY <1>1, <1>4 DEF ToSet
  <2> QED BY <1>1, <1>2, <1>4, <2>1 DEF IsInjective
<1> QED BY <1>1, <1>3, <1>4

LEMMA PrefixFacts ==
    ASSUME NEW s \in Seq(Nat), NEW n \in 0 .. Len(s)
    PROVE  /\ SubSeq(s, 1, n) \in Seq(Nat)
           /\ ToSet(SubSeq(s, 1, n)) \subseteq ToSet(s)
           /\ IsInjective(s) => IsInjective(SubSeq(s, 1, n))
           /\ n = 0 => SubSeq(s, 1, n) = <<>>
<1> DEFINE p == SubSeq(s, 1, n)
<1>1. DOMAIN s = 1 .. Len(s) /\ Len(s) \in Nat
  BY LenProperties
<1>2. p \in Seq(Nat) /\ Len(p) = n /\ \A i \in 1 .. n : p[i] = s[i]
  BY <1>1, SubSeqProperties
<1>3. DOMAIN p = 1 .. n
  BY <1>2, LenProperties
<1>4. n = 0 => p = <<>>
  BY SubSeqEmpty
<1> HIDE DEF p
<1>5. ToSet(p) \subseteq ToSet(s)
  BY <1>1, <1>2, <1>3 DEF ToSet
<1>6. IsInjective(s) => IsInjective(p)
  BY <1>1, <1>2, <1>3 DEF IsInjective
<1> QED BY <1>2, <1>4, <1>5, <1>6 DEF p

\* A module is added, or LLVM refuses it and may keep its symbol.
LEMMA AddModuleStep ==
    ASSUME JitInv, NEW bitcode, NEW symbol \in Nat, NEW type \in Types,
           symbol \notin ToSet(modules), AddModule(bitcode, symbol, type)
    PROVE  /\ JitInv'
           /\ ToSet(modules') = ToSet(modules) \cup {symbol}
           /\ dylib' = dylib \cup {symbol}
<1>1. /\ modules' = Append(modules, symbol) /\ entries' = entries \cup {[symbol |-> symbol, type |-> type]}
      /\ dylib' = dylib \cup {symbol}
  BY DEF AddModule
<1>2. modules \in Seq(Nat) /\ TablesAgree
  BY DEF JitInv
<1>3. /\ modules' \in Seq(Nat) /\ ToSet(modules') = ToSet(modules) \cup {symbol}
      /\ IsInjective(modules')
  BY <1>1, <1>2, ToSetFacts, AppendProperties DEF TablesAgree
<1>4. {e.symbol : e \in entries'} = ToSet(modules')
  <2>1. {e.symbol : e \in entries} = ToSet(modules)
    BY <1>2 DEF TablesAgree
  <2>2. [symbol |-> symbol, type |-> type].symbol = symbol
    OBVIOUS
  <2> QED BY <1>1, <1>3, <2>1, <2>2
<1>5. \A d, e \in entries' : d.symbol = e.symbol => d = e
  BY <1>1, <1>2 DEF TablesAgree
<1>6. entries' \subseteq [symbol : Nat, type : Types] /\ dylib' \subseteq Nat
  BY <1>1 DEF JitInv
<1> QED BY <1>1, <1>3, <1>4, <1>5, <1>6 DEF JitInv, TablesAgree

LEMMA AddModuleFailsStep ==
    ASSUME JitInv, NEW bitcode, NEW symbol \in Nat, NEW type,
           AddModuleRejects(bitcode, symbol, type) \/ AddModuleFails(bitcode, symbol, type)
    PROVE  /\ JitInv'
           /\ modules' = modules
           /\ dylib' \subseteq dylib \cup {symbol}
<1>1. /\ modules' = modules /\ entries' = entries
      /\ dylib' \subseteq dylib \cup {symbol}
  BY DEF AddModuleRejects, AddModuleFails, jitVars
<1> QED BY <1>1 DEF JitInv, TablesAgree

\* Modules are removed from the newest on; the symbols of the one LLVM would
\* not remove may be gone.
LEMMA RemoveModulesStep ==
    ASSUME JitInv, NEW kept \in 0 .. Len(modules), RemoveModules(kept)
    PROVE  /\ JitInv'
           /\ ToSet(modules') \subseteq ToSet(modules)
           /\ dylib' \subseteq dylib
           /\ kept = 0 => modules' = <<>>
<1> DEFINE stay == SubSeq(modules, 1, kept)
<1> DEFINE gone == ToSet(modules) \ ToSet(stay)
<1>1. /\ modules' = stay /\ entries' = {e \in entries : e.symbol \notin gone}
      /\ dylib' \subseteq dylib \ gone
  BY DEF RemoveModules
<1>2. modules \in Seq(Nat) /\ TablesAgree
  BY DEF JitInv
<1>3. /\ stay \in Seq(Nat) /\ ToSet(stay) \subseteq ToSet(modules) /\ IsInjective(stay)
      /\ kept = 0 => stay = <<>>
  BY <1>2, PrefixFacts DEF TablesAgree
<1> HIDE DEF stay
<1>4. {e.symbol : e \in entries'} = ToSet(stay)
  BY <1>1, <1>2, <1>3 DEF TablesAgree
<1>5. TablesAgree'
  BY <1>1, <1>2, <1>3, <1>4 DEF TablesAgree
<1>6. JitInv'
  BY <1>1, <1>3, <1>5 DEF JitInv
<1> QED BY <1>1, <1>3, <1>6


-----------------------------------------------------------------------------
(* The steps of the session.                                               *)

LEMMA SessionInvUnchanged ==
    ASSUME SInv, UNCHANGED <<jitVars, program, request, cell, nextCell, history, leftover>>
    PROVE  /\ JitInv' /\ HistoryInv'
           /\ (stage' = "insert" <=> stage = "insert") => CellInv'
<1>1. JitInv'
  BY DEF SInv, SessionInv, JitInv, TablesAgree, jitVars
<1>2. HistoryInv'
  BY DEF SInv, SessionInv, HistoryInv
<1>3. (stage' = "insert" <=> stage = "insert") => CellInv'
  BY DEF SInv, SessionInv, CellInv, CellSymbolsFresh, Fresh, jitVars
<1> QED BY <1>1, <1>2, <1>3

\* The next cell's number when no cell is being inserted.
LEMMA CellInvAtRest ==
    ASSUME SInv, stage # "insert", UNCHANGED <<jitVars, nextCell, leftover>>, cell'.number \in Nat, stage' # "insert"
    PROVE  CellInv'
BY DEF SInv, SessionInv, CellInv, CellSymbolsFresh, Fresh, jitVars

LEMMA FrontendStep ==
    ASSUME SInv, Frontend \/ Starting \/ FirstUse
    PROVE  SInv'
<1>1. UNCHANGED <<jitVars, sessionVars>> /\ BridgeInv /\ StageInv
  BY DEF Frontend, Starting, FirstUse, SInv, SessionInv
<1>2. CASE Starting
  <2>1. BridgeInv' /\ pc'[Driver] = pc[Driver]
    BY <1>1, <1>2, StarterKeepsBridge DEF Starting
  <2>2. StageInv'
    BY <1>1, <2>1 DEF StageInv, sessionVars
  <2> QED BY <1>1, <2>1, <2>2, SessionInvUnchanged DEF SInv, SessionInv, sessionVars
<1>3. CASE Frontend
  <2>1. /\ BridgeInv' /\ pc[Driver] \notin Quiet
        /\ pc[Driver] \in Leaving => pc'[Driver] \in Leaving
    BY <1>1, <1>3, DriverKeepsBridge DEF Frontend
  <2>2. StageInv'
    BY <1>1, <2>1 DEF StageInv, sessionVars
  <2> QED BY <1>1, <2>1, <2>2, SessionInvUnchanged DEF SInv, SessionInv, sessionVars
<1>4. CASE FirstUse
  <2>1. BridgeInv' /\ pc'[Driver] = "load" /\ stage = "frontend"
    BY <1>1, <1>4, FirstUseStep DEF FirstUse
  <2>2. StageInv'
    BY <1>1, <2>1 DEF StageInv, sessionVars
  <2> QED BY <1>1, <2>1, <2>2, SessionInvUnchanged DEF SInv, SessionInv, sessionVars
<1> QED BY <1>2, <1>3, <1>4

\* A request of the session, or of another user of the bridge.
LEMMA RequestStep ==
    ASSUME SInv, CompileSource \/ \E entry \in Entries, wellFormed \in BOOLEAN : OtherRequest(entry, wellFormed)
    PROVE  SInv'
<1>1. UNCHANGED <<jitVars, sessionVars>> /\ ThreadInv /\ StageInv /\ stage = "frontend"
  BY DEF CompileSource, OtherRequest, SInv, SessionInv, BridgeInv
<1>2. \/ \E entry, wellFormed : Refuse(entry, wellFormed)
      \/ \E syntaxStage : FuzzSyntax(syntaxStage)
      \/ \E entry \in Entries : \E wellFormed : Enter(entry, wellFormed, Plans(entry) \cup {Unruly})
  <2>1. CASE CompileSource
    <3> DEFINE answers == {p \in Plans("CompileSource") :
                              previous = NoValue \/ Readable(previous) \/ p.status # 0}
    <3>1. \/ Refuse("CompileSource", request.size = "small")
          \/ Enter("CompileSource", request.size = "small", answers)
      BY <2>1 DEF CompileSource
    <3>2. answers \subseteq Plans("CompileSource") \cup {Unruly}
      OBVIOUS
    <3> HIDE DEF answers
    <3>3. Enter("CompileSource", request.size = "small", answers) =>
              Enter("CompileSource", request.size = "small", Plans("CompileSource") \cup {Unruly})
      BY <3>2 DEF Enter
    <3>4. "CompileSource" \in Entries
      BY DEF Entries
    <3> QED BY <3>1, <3>3, <3>4
  <2>2. CASE \E entry \in Entries, wellFormed \in BOOLEAN : OtherRequest(entry, wellFormed)
    BY <2>2 DEF OtherRequest
  <2> QED BY <2>1, <2>2
<1>3. BridgeInv'
  BY <1>1, <1>2, RefuseStep, EnterStep
<1>4. StageInv'
  BY <1>1 DEF StageInv, sessionVars
<1> QED BY <1>1, <1>3, <1>4, SessionInvUnchanged DEF SInv, SessionInv, sessionVars

\* The session, or the other user, takes the answer and drops the request.
LEMMA AnswerStep ==
    ASSUME SInv, CompileFails \/ OtherReturns
    PROVE  SInv'
<1>1. /\ UNCHANGED <<runtimeVars, library, jitVars, program, nextCell, history, leftover>>
      /\ Released /\ pc[Driver] = "returned" /\ stage = "frontend" /\ stage' = "prompt"
      /\ cell' = NoCell \/ cell' = cell
  <2>1. CASE CompileFails
    BY <2>1 DEF CompileFails, Answered, UnchangedSession
  <2>2. CASE OtherReturns
    <3>1. /\ program' = program /\ nextCell' = nextCell /\ history' = history
          /\ leftover' = leftover /\ cell' = cell
      BY <2>2 DEF OtherReturns
    <3>2. Released /\ UNCHANGED <<runtimeVars, library, jitVars>>
      BY <2>2 DEF OtherReturns
    <3>3. pc[Driver] = "returned" /\ stage' = "prompt"
      BY <2>2 DEF OtherReturns
    <3>4. stage = "frontend"
      BY <3>3 DEF SInv, SessionInv, StageInv, Quiet, Leaving
    <3> QED BY <3>1, <3>2, <3>3, <3>4
  <2> QED BY <2>1, <2>2
<1>2. BridgeInv' /\ pc'[Driver] = "ready"
  BY <1>1, ReleasedStep DEF SInv, BridgeInv, Serving
<1>3. StageInv'
  BY <1>1, <1>2 DEF SInv, SessionInv, StageInv, Quiet
<1>4. CellInv'
  <2>1. cell'.number \in Nat
    BY <1>1 DEF NoCell, SInv, SessionInv, CellInv
  <2> QED BY <1>1, <2>1, CellInvAtRest
<1>5. JitInv' /\ HistoryInv'
  BY <1>1 DEF SInv, SessionInv, JitInv, TablesAgree, jitVars, HistoryInv
<1> QED BY <1>2, <1>3, <1>4, <1>5 DEF SInv, SessionInv

LEMMA CompileSucceedsStep ==
    ASSUME SInv, NEW type \in Types, NEW bitcode, CompileSucceeds(type, bitcode)
    PROVE  SInv'
<1>1. /\ UNCHANGED <<runtimeVars, library, jitVars, program, history, leftover>>
      /\ Released /\ pc[Driver] = "returned" /\ stage = "frontend" /\ program = "tali"
  BY DEF CompileSucceeds
<1>2. BridgeInv' /\ pc'[Driver] = "ready"
  BY <1>1, ReleasedStep DEF SInv, BridgeInv, Serving
<1>3. JitInv' /\ HistoryInv'
  BY <1>1 DEF SInv, SessionInv, JitInv, TablesAgree, jitVars, HistoryInv
<1>4. CASE ~request.execute
  <2>1. stage' = "prompt" /\ nextCell' = nextCell /\ cell' = NoCell
    BY <1>4 DEF CompileSucceeds, Answered
  <2>2. CellInv'
    BY <1>1, <2>1, CellInvAtRest DEF NoCell
  <2>3. StageInv'
    BY <1>1, <1>2, <2>1 DEF SInv, SessionInv, StageInv, Quiet
  <2> QED BY <1>2, <1>3, <2>2, <2>3 DEF SInv, SessionInv
<1>5. CASE request.execute
  <2>1. /\ stage' = "insert" /\ nextCell' = nextCell + 1 /\ request' = request
        /\ cell' = [number |-> nextCell, type |-> type, bitcode |-> bitcode]
    BY <1>5 DEF CompileSucceeds
  <2>2. cell'.number = nextCell /\ cell'.type = type
    BY <2>1
  <2>3. CellInv'
    BY <1>1, <2>1, <2>2 DEF SInv, SessionInv, CellInv, CellSymbolsFresh, Fresh, jitVars
  <2>4. StageInv'
    BY <1>1, <1>2, <2>1, <2>2 DEF SInv, SessionInv, StageInv, Quiet
  <2> QED BY <1>2, <1>3, <2>3, <2>4 DEF SInv, SessionInv
<1> QED BY <1>4, <1>5


\* A cell is added and run, or the session says why not; nothing of the
\* bridge moves meanwhile.
LEMMA BridgeUnchanged ==
    ASSUME SInv, UNCHANGED bridgeVars
    PROVE  BridgeInv' /\ pc' = pc
<1>1. /\ runtimeState' = runtimeState /\ rts' = rts /\ pc' = pc /\ library' = library
      /\ captured' = captured /\ plan' = plan /\ emitted' = emitted
      /\ called' = called /\ result' = result
  BY DEF bridgeVars
<1>2. PlacesOK' /\ LibraryInv' /\ RuntimeInv'
  BY <1>1 DEF SInv, BridgeInv, ThreadInv, PlacesOK, LibraryInv, RuntimeInv
<1>3. RequestInv' /\ SuccessIsWhole'
  BY <1>1 DEF SInv, BridgeInv, RequestInv, Planned, SuccessIsWhole
<1> QED BY <1>1, <1>2, <1>3 DEF BridgeInv, ThreadInv

LEMMA InsertStep ==
    ASSUME SInv, Insert
    PROVE  SInv'
<1>1. UNCHANGED <<program, nextCell, history, leftover>> /\ UNCHANGED bridgeVars /\ stage = "insert"
  BY DEF Insert, UnchangedSession
<1>2. BridgeInv' /\ pc' = pc
  BY <1>1, BridgeUnchanged
<1>3. /\ JitInv /\ ToSet(modules) \subseteq Nat /\ dylib \subseteq Nat /\ cell.number \in Nat /\ cell.type \in Types /\ cell.number \notin ToSet(modules)
      /\ nextCell = cell.number + 1 /\ CellInv /\ StageInv
  <2>1. JitInv /\ CellInv /\ StageInv
    BY DEF SInv, SessionInv
  <2>2. ToSet(modules) \subseteq Nat /\ dylib \subseteq Nat
    BY <2>1, ToSetFacts DEF JitInv
  <2>3. cell.number \in Nat /\ cell.type \in Types /\ nextCell = cell.number + 1
    BY <1>1, <2>1 DEF CellInv, StageInv
  <2>4. cell.number \notin ToSet(modules)
    BY <1>1, <2>1, <2>3 DEF CellInv, CellSymbolsFresh, Fresh
  <2> QED BY <2>1, <2>2, <2>3, <2>4
<1>4. HistoryInv'
  BY <1>1 DEF SInv, SessionInv, HistoryInv
<1>5. CASE AddModule(cell.bitcode, cell.number, cell.type) /\ stage' = "invoke" /\ UNCHANGED <<request, cell>>
  <2>1. /\ JitInv' /\ ToSet(modules') = ToSet(modules) \cup {cell.number}
        /\ dylib' = dylib \cup {cell.number}
    BY <1>3, <1>5, AddModuleStep
  <2>2. CellInv'
    <3>1. /\ \A m \in ToSet(modules) : m < cell.number
          /\ \A m \in dylib : m >= cell.number => m \in leftover
      BY <1>1, <1>3 DEF CellInv, CellSymbolsFresh, Fresh
    <3>2. \A m \in ToSet(modules') : m < nextCell
      BY <1>3, <2>1, <3>1
    <3>3. \A m \in dylib' : m >= nextCell => m \in leftover
      BY <1>3, <2>1, <3>1
    <3>4. stage' # "insert" /\ nextCell' = nextCell /\ cell' = cell
      BY <1>1, <1>5
    <3> QED BY <1>1, <1>3, <3>2, <3>3, <3>4 DEF CellInv, CellSymbolsFresh, Fresh
  <2>3. StageInv'
    BY <1>1, <1>2, <1>3, <1>5 DEF StageInv
  <2> QED BY <1>2, <1>4, <2>1, <2>2, <2>3 DEF SInv, SessionInv
<1>6. CASE /\ \/ AddModuleRejects(cell.bitcode, cell.number, cell.type)
              \/ AddModuleFails(cell.bitcode, cell.number, cell.type)
           /\ Answered
  <2>1. /\ JitInv' /\ modules' = modules
        /\ dylib' \subseteq dylib \cup {cell.number}
    BY <1>3, <1>6, AddModuleFailsStep
  <2>2. stage' = "prompt" /\ cell' = NoCell
    BY <1>6 DEF Answered
  <2>3. CellInv'
    <3>1. /\ \A m \in ToSet(modules) : m < cell.number
          /\ \A m \in dylib : m >= cell.number => m \in leftover
      BY <1>1, <1>3 DEF CellInv, CellSymbolsFresh, Fresh
    <3>2. \A m \in ToSet(modules') : m < nextCell
      BY <1>3, <2>1, <3>1
    <3>3. \A m \in dylib' : m >= nextCell => m \in leftover
      BY <1>3, <2>1, <3>1
    <3>4. stage' # "insert" /\ nextCell' = nextCell /\ cell'.number \in Nat
      BY <1>1, <2>2 DEF NoCell
    <3> QED BY <1>1, <1>3, <3>2, <3>3, <3>4 DEF CellInv, CellSymbolsFresh, Fresh
  <2>4. StageInv'
    BY <1>1, <1>2, <1>3, <2>2 DEF StageInv
  <2> QED BY <1>2, <1>4, <2>1, <2>3, <2>4 DEF SInv, SessionInv
<1> QED BY <1>5, <1>6 DEF Insert

LEMMA KeptHistory ==
    ASSUME HistoryInv, NEW e \in Expressions
    PROVE  LET kept == IF Len(history) = MaximumEntries THEN Tail(history) ELSE history
           IN  /\ Append(kept, e) \in Seq(Expressions)
               /\ Len(Append(kept, e)) \in 1 .. MaximumEntries
<1>1. history \in Seq(Expressions) /\ Len(history) \in 0 .. MaximumEntries /\ MaximumEntries \in Nat \ {0}
  BY LenProperties DEF HistoryInv
<1>2. Len(history) = MaximumEntries =>
        Tail(history) \in Seq(Expressions) /\ Len(Tail(history)) = MaximumEntries - 1
  BY <1>1
<1>3. CASE Len(history) = MaximumEntries
  BY <1>1, <1>2, <1>3, AppendProperties
<1>4. CASE Len(history) # MaximumEntries
  BY <1>1, <1>4, AppendProperties
<1> QED BY <1>3, <1>4

LEMMA InvokeStep ==
    ASSUME SInv, Invoke \/ InvokeFails
    PROVE  SInv'
<1>1. /\ UNCHANGED <<program, nextCell, leftover, bridgeVars, jitVars>> /\ stage = "invoke"
      /\ stage' = "prompt" /\ cell' = NoCell
  <2>1. CASE Invoke
    BY <2>1 DEF Invoke, Answered
  <2>2. CASE InvokeFails
    BY <2>2 DEF InvokeFails, Answered, UnchangedSession
  <2> QED BY <2>1, <2>2
<1>2. BridgeInv' /\ pc' = pc
  BY <1>1, BridgeUnchanged
<1>3. CellInv'
  BY <1>1, CellInvAtRest DEF NoCell
<1>4. JitInv' /\ StageInv'
  BY <1>1, <1>2 DEF SInv, SessionInv, JitInv, TablesAgree, jitVars, StageInv
<1>5. HistoryInv'
  <2>1. CASE Invoke
    <3>1. request.expression \in Expressions /\ HistoryInv
      BY <1>1 DEF SInv, SessionInv, StageInv
    <3>2. AppendHistory(request.expression)
      BY <2>1 DEF Invoke
    <3> QED BY <3>1, <3>2, KeptHistory DEF AppendHistory, HistoryInv
  <2>2. CASE InvokeFails
    BY <2>2 DEF InvokeFails, UnchangedSession, SInv, SessionInv, HistoryInv
  <2> QED BY <2>1, <2>2
<1> QED BY <1>2, <1>3, <1>4, <1>5 DEF SInv, SessionInv


LEMMA SubmitStep ==
    ASSUME SInv, NEW e \in Expressions, NEW execute \in BOOLEAN, NEW size \in Sizes,
           Submit(e, execute, size)
    PROVE  SInv'
<1>1. /\ UNCHANGED <<program, nextCell, history, leftover, jitVars>> /\ UNCHANGED bridgeVars
      /\ program = "tali" /\ stage = "prompt"
  BY DEF Submit, UnchangedSession
<1>2. BridgeInv' /\ pc' = pc
  BY <1>1, BridgeUnchanged
<1>3. \/ stage' = "prompt" /\ cell' = NoCell
      \/ /\ stage' = "frontend" /\ cell' = cell
         /\ request' = [expression |-> e, execute |-> execute, size |-> size]
  BY DEF Submit, Answered
<1>4. CellInv'
  <2>1. cell'.number \in Nat /\ stage' # "insert"
    BY <1>3 DEF NoCell, SInv, SessionInv, CellInv
  <2> QED BY <1>1, <2>1, CellInvAtRest
<1>5. JitInv' /\ HistoryInv'
  BY <1>1 DEF SInv, SessionInv, JitInv, TablesAgree, jitVars, HistoryInv
<1>6. StageInv'
  BY <1>1, <1>2, <1>3 DEF SInv, SessionInv, StageInv
<1> QED BY <1>2, <1>4, <1>5, <1>6 DEF SInv, SessionInv

\* A reset that empties the JIT gives the numbers back; one that does not
\* gives none back.
LEMMA ResetStep ==
    ASSUME SInv, NEW kept, Reset(kept)
    PROVE  SInv'
<1>1. /\ kept \in 0 .. Len(modules) /\ RemoveModules(kept) /\ UNCHANGED <<program>> /\ UNCHANGED bridgeVars
      /\ stage = "prompt" /\ stage' = "prompt" /\ cell' = NoCell
  BY DEF Reset, Answered
<1>2. BridgeInv' /\ pc' = pc
  BY <1>1, BridgeUnchanged
<1>3. JitInv /\ CellInv /\ StageInv /\ HistoryInv
  BY DEF SInv, SessionInv
<1>4. /\ JitInv' /\ ToSet(modules') \subseteq ToSet(modules)
      /\ dylib' \subseteq dylib
      /\ kept = 0 => modules' = <<>>
  BY <1>1, <1>3, RemoveModulesStep
<1>5. StageInv'
  BY <1>1, <1>2, <1>3 DEF StageInv
<1>6. CASE kept = 0
  <2>1. nextCell' = 0 /\ history' = <<>> /\ leftover' = dylib'
    BY <1>6 DEF Reset
  <2>2. ToSet(modules') = {}
    BY <1>4, <1>6 DEF ToSet
  <2>4. CellInv'
    BY <1>1, <2>1, <2>2 DEF CellInv, CellSymbolsFresh, Fresh, NoCell
  <2>5. HistoryInv'
    BY <2>1 DEF HistoryInv
  <2> QED BY <1>2, <1>4, <1>5, <2>4, <2>5 DEF SInv, SessionInv
<1>7. CASE kept # 0
  <2>1. nextCell' = nextCell /\ history' = history /\ leftover' = leftover
    BY <1>7 DEF Reset
  <2>2. CellInv'
    BY <1>1, <1>3, <1>4, <2>1 DEF CellInv, CellSymbolsFresh, Fresh, NoCell
  <2>3. HistoryInv'
    BY <1>3, <2>1 DEF HistoryInv
  <2> QED BY <1>2, <1>4, <1>5, <2>2, <2>3 DEF SInv, SessionInv
<1> QED BY <1>6, <1>7

LEMMA OtherContinuesStep ==
    ASSUME SInv, OtherContinues
    PROVE  SInv'
<1>1. /\ UNCHANGED <<jitVars, program, request, cell, nextCell, history, leftover>> /\ UNCHANGED bridgeVars
      /\ program = "other" /\ stage = "prompt" /\ stage' = "frontend"
  BY DEF OtherContinues
<1>2. BridgeInv' /\ pc' = pc
  BY <1>1, BridgeUnchanged
<1>3. StageInv'
  BY <1>1, <1>2 DEF SInv, SessionInv, StageInv
<1> QED BY <1>1, <1>2, <1>3, SessionInvUnchanged DEF SInv, SessionInv

LEMMA ProcessExits ==
    ASSUME SInv, Exit
    PROVE  SInv'
<1>1. /\ UNCHANGED <<jitVars, program, request, cell, nextCell, history, leftover>>
      /\ UNCHANGED <<runtimeVars, library, requestVars>>
      /\ stage = "prompt" /\ stage' = "exited"
      /\ Goto(Driver, IF library = "ready" THEN "destroy" ELSE "gone")
  BY DEF Exit
<1>2. BridgeInv /\ pc[Driver] \in Quiet
  BY <1>1 DEF SInv, SessionInv, StageInv
<1>3. BridgeInv' /\ pc'[Driver] \in Leaving
  BY <1>1, <1>2, ExitStep
<1>4. StageInv'
  BY <1>1, <1>3 DEF SInv, SessionInv, StageInv
<1> QED BY <1>1, <1>3, <1>4, SessionInvUnchanged DEF SInv, SessionInv


LEMMA SessionInitially == SessionInit => SInv
<1> SUFFICES ASSUME SessionInit PROVE SInv
  OBVIOUS
<1>1. BridgeInv /\ pc[Driver] = "idle"
  BY BridgeInitially DEF SessionInit
<1>2. StageInv
  BY <1>1 DEF SessionInit, StageInv, Quiet
<1>3. modules = <<>> /\ entries = {} /\ dylib = {}
  BY DEF SessionInit, JitInit
<1>4. modules \in Seq(Nat) /\ ToSet(modules) = {} /\ IsInjective(modules)
  BY <1>3 DEF ToSet, IsInjective
<1>5. JitInv
  BY <1>3, <1>4 DEF JitInv, TablesAgree
<1>6. CellInv
  BY <1>3, <1>4 DEF SessionInit, CellInv, CellSymbolsFresh, Fresh, NoCell
<1>7. HistoryInv
  BY DEF SessionInit, HistoryInv
<1> QED BY <1>1, <1>2, <1>5, <1>6, <1>7 DEF SInv, SessionInv

LEMMA SessionStep == SInv /\ [SessionNext]_vars => SInv'
<1> SUFFICES ASSUME SInv, [SessionNext]_vars PROVE SInv'
  OBVIOUS
<1>1. CASE Handle
  BY <1>1, FrontendStep, RequestStep, AnswerStep, CompileSucceedsStep, InsertStep, InvokeStep DEF Handle
<1>2. CASE Input
  BY <1>2, SubmitStep, ResetStep, OtherContinuesStep, ProcessExits DEF Input
<1>3. CASE Starting
  BY <1>3, FrontendStep
<1>4. CASE UNCHANGED vars
  <2>1. UNCHANGED bridgeVars /\ UNCHANGED jitVars /\ UNCHANGED sessionVars
    BY <1>4 DEF vars
  <2>2. BridgeInv' /\ pc' = pc
    BY <2>1, BridgeUnchanged
  <2>3. StageInv'
    BY <2>1, <2>2 DEF SInv, SessionInv, StageInv, sessionVars
  <2> QED BY <2>1, <2>2, <2>3, SessionInvUnchanged DEF SInv, SessionInv, sessionVars
<1> QED BY <1>1, <1>2, <1>3, <1>4 DEF SessionNext

-----------------------------------------------------------------------------
(* What holds in every state of a process.                                 *)

(* The invariant of the session, through every interleaving of the threads *)
(* that start the runtime and every failure of the frontend, the JIT or a  *)
(* reset.                                                                  *)
THEOREM SessionInvariance == SessionSpec => []SInv
BY SessionInitially, SessionStep, PTL DEF SessionSpec

(* hs_init and hs_exit are called at most once, and Haskell code runs only *)
(* between them, for any number of callers of tala_frontend_initialize.    *)
THEOREM HaskellOnlyWhileUpHolds == SessionSpec => []HaskellOnlyWhileUp
<1>1. SInv => HaskellOnlyWhileUp
  <2> SUFFICES ASSUME SInv PROVE HaskellOnlyWhileUp
    OBVIOUS
  <2>1. ThreadInv
    BY DEF SInv, BridgeInv
  <2>2. pc[Driver] \in Entries \cup {"FuzzSyntax", "abi_version"} => rts = "up"
    BY <2>1 DEF ThreadInv, RuntimeInv, LibraryInv, Entries, Leaving
  <2>3. \A t \in Threads : pc[t] = "hs_init" => rts = "down"
    BY <2>1 DEF ThreadInv, RuntimeInv
  <2>4. pc[Driver] \in {"hs_exit_refused", "hs_exit"} => rts = "up"
    BY <2>1 DEF ThreadInv, RuntimeInv
  <2> QED BY <2>2, <2>3, <2>4 DEF HaskellOnlyWhileUp
<1> QED BY <1>1, SessionInvariance, PTL

(* A request reported as successful with a payload was called back with    *)
(* its warnings, its one payload and, for the two-stage call, the          *)
(* lowering, in this order and nothing else, whatever the library does.    *)
THEOREM SuccessIsWholeHolds == SessionSpec => []SuccessIsWhole
<1>1. SInv => SuccessIsWhole
  BY DEF SInv, BridgeInv
<1> QED BY <1>1, SessionInvariance, PTL

(* A symbol is registered exactly while its module is loaded, and once.    *)
THEOREM TablesAgreeHolds == SessionSpec => []TablesAgree
<1>1. SInv => TablesAgree
  BY DEF SInv, SessionInv, JitInv
<1> QED BY <1>1, SessionInvariance, PTL

(* The number of the next cell is free, whichever earlier cells failed and *)
(* however far a reset came.                                               *)
THEOREM CellSymbolsFreshHolds == SessionSpec => []CellSymbolsFresh
<1>1. SInv => CellSymbolsFresh
  BY DEF SInv, SessionInv, CellInv
<1> QED BY <1>1, SessionInvariance, PTL


-----------------------------------------------------------------------------
(* The session implements its contract.                                    *)

LEMMA LatestOfHistory ==
    ASSUME HistoryInv, NEW e \in Expressions
    PROVE  Contract!Latest(Append(history, e), MaximumEntries)
             = Append(IF Len(history) = MaximumEntries THEN Tail(history) ELSE history, e)
<1> DEFINE h == Append(history, e)
<1>1. history \in Seq(Expressions) /\ Len(history) \in 0 .. MaximumEntries /\ MaximumEntries \in Nat \ {0}
  BY LenProperties DEF HistoryInv
<1>2. h \in Seq(Expressions) /\ Len(h) = Len(history) + 1 /\ h # <<>>
  BY <1>1, AppendProperties
<1>3. CASE Len(history) = MaximumEntries
  <2>1. history # <<>>
    BY <1>1, <1>3
  <2>2. Tail(h) = Append(Tail(history), e)
    BY <1>1, <2>1, HeadTailAppend
  <2>3. Tail(h) = SubSeq(h, 2, Len(h))
    BY <1>2, TailIsSubSeq
  <2> HIDE DEF h
  <2>4. ~(Len(h) <= MaximumEntries) /\ Len(h) - MaximumEntries + 1 = 2
    BY <1>1, <1>2, <1>3
  <2>5. Contract!Latest(h, MaximumEntries) = SubSeq(h, 2, Len(h))
    BY <2>4 DEF Contract!Latest
  <2> QED BY <1>3, <2>2, <2>3, <2>5 DEF h
<1>4. CASE Len(history) # MaximumEntries
  <2>1. Len(h) <= MaximumEntries
    BY <1>1, <1>2, <1>4
  <2> QED BY <1>4, <2>1 DEF Contract!Latest
<1> QED BY <1>3, <1>4

\* A cell that ran is the contract's success; a reset that emptied the JIT
\* its Forget; every other step keeps the binding and the history.
LEMMA SessionStepRefines == SInv /\ [SessionNext]_vars => [Contract!Next]_<<previous, history>>
<1> SUFFICES ASSUME SInv, [SessionNext]_vars PROVE [Contract!Next]_<<previous, history>>
  OBVIOUS
<1>1. CASE Invoke
  <2>1. request.expression \in Expressions /\ cell.type \in Types /\ HistoryInv
    BY <1>1 DEF Invoke, SInv, SessionInv, StageInv
  <2>2. PICK value \in Values(cell.type) :
          /\ previous' = IF SourceBinding(value) THEN value ELSE NoValue
          /\ AppendHistory(request.expression)
    BY <1>1 DEF Invoke
  <2>3. previous' \in (UNION {Values(t) : t \in Types}) \cup {NoValue}
    BY <2>1, <2>2
  <2>4. history' = Contract!Latest(Append(history, request.expression), MaximumEntries)
    BY <2>1, <2>2, LatestOfHistory DEF AppendHistory
  <2> QED BY <2>1, <2>3, <2>4 DEF Contract!Next, Contract!Succeed
<1>2. ASSUME NEW kept, Reset(kept) PROVE [Contract!Next]_<<previous, history>>
  <2>1. kept = 0 => previous' = NoValue /\ history' = <<>>
    BY <1>2 DEF Reset
  <2>2. kept # 0 => UNCHANGED <<previous, history>>
    BY <1>2 DEF Reset
  <2> QED BY <2>1, <2>2 DEF Contract!Next, Contract!Forget
<1>3. CASE FirstUse \/ CompileSource \/ Frontend \/ Starting
  BY <1>3 DEF FirstUse, CompileSource, Frontend, Starting, sessionVars
<1>4. CASE CompileFails \/ OtherReturns \/ Insert \/ InvokeFails \/ OtherContinues \/ Exit
  BY <1>4 DEF CompileFails, OtherReturns, Insert, InvokeFails, OtherContinues, Exit, UnchangedSession
<1>5. CASE \E type \in Types, bitcode \in Bitcodes : CompileSucceeds(type, bitcode)
  BY <1>5 DEF CompileSucceeds
<1>6. CASE \E entry \in Entries, wellFormed \in BOOLEAN : OtherRequest(entry, wellFormed)
  BY <1>6 DEF OtherRequest, sessionVars
<1>7. CASE \E e \in Expressions, execute \in BOOLEAN, size \in Sizes : Submit(e, execute, size)
  BY <1>7 DEF Submit, UnchangedSession
<1>8. CASE UNCHANGED vars
  BY <1>8 DEF vars, sessionVars
<1> QED BY <1>1, <1>2, <1>3, <1>4, <1>5, <1>6, <1>7, <1>8 DEF SessionNext, Handle, Input

(* The session keeps the promise of SessionContract: taliPrevious is the   *)
(* last success's result, the history lists the latest successes, and only *)
(* a reset that emptied the JIT clears both.                               *)
THEOREM KeepsContractHolds == SessionSpec => KeepsContract
<1>1. SessionInit => Contract!Init
  BY DEF SessionInit, Contract!Init
<1> QED BY <1>1, SessionStepRefines, SessionInvariance, PTL DEF SessionSpec, KeepsContract, Contract!Spec

=============================================================================
