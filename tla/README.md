# A TLA+ verification project for the Tala compiler

The repository holds the Tala compiler `talac` (a Haskell frontend, and a C++
middle end, LLVM backend, runtime and driver), an interactive session, the build
tool Tazel and the tools around them. This project models the parts whose
correctness depends on something a unit test hardly reaches: the interleaving of
threads in the reference-counting runtime and around the start of the Haskell
runtime, the fixed points of the analyses over every control-flow graph, the
composition of verifiers, lowerings, optimizers and ownership placement over
whole programs, an interactive session over a JIT that may refuse anything, and
the files that builds publish, read back and leave behind. TLC checks the models on small instances; TLAPS proves the
central properties for every value of the constants.

`PROJECT.json` maps every definition to the source lines it models, and lists
components, runs, mutants, hazards, findings and theorems.

## 1. Inventory

### The compiler, from source to output

    Haskell frontend --Core bytes--> CorePrep -> Xpp -> Xmm -> LLVM -> object files -> linker
     (through a C ABI)               |  verifiers and optimizers use |            \-> ORC JIT -> REPL
                                     |  Talac/Analysis              |  calls AARC at run time

| component | state | operations | interacts with | what is hard | what makes it correct |
|---|---|---|---|---|---|
| AARC runtime (`Talac/Runtime/AARC`) | two counts, a state and a payload pointer per object; `liveAllocations` | allocate, retain, release, make/copy/lock/release weak and unowned | every generated function, on any thread | lock-free races on the last reference; counts at their maximum | no use after free, one destruction, no leak, no lost reference |
| closures, memoization (`GeneratorObjects.cpp`) | captures in an object's payload | capture, invoke, destroy | AARC | releases inside a destructor; unsynchronized memo flag | captures live as long as the closure |
| control-flow analysis (`Analysis/ControlFlow.cpp`) | catalogue of blocks, edges, walk stack, numbering | validate, walk, publish facts | all analyses | malformed graphs; irreducible loops; explicit stack | exactly the reachable blocks, in a usable order |
| worklist (`Analysis/Worklist.cpp`) | queue and scheduled set | next, notify | the three dataflow analyses | a change of a block already queued | no change lost, no block queued twice |
| definite initialization | facts before and after each block | fixed point, validation | Xpp and Xmm verifiers | loops, entry back edges, unreachable predecessors | facts are the meet over paths; no uninitialized read goes unreported |
| liveness | live storage per block and access | backward fixed point, dead-code decisions | Xpp optimizer, ownership placement | chains of dead definitions around loops | least solution; removal cannot be observed |
| ownership flow | sets of handle states per block | fixed point, validation | ownership verifiers | one path right, another wrong | facts are the union over paths; no misuse goes unreported |
| project artifacts (`Driver/ProjectArtifacts.cpp`) | output directory, staging directory, backups | plan, lower, stage, inspect, replace, roll back, clean up | `CorePipeline.cpp`, the file system, other builds | a failing call, a failing rollback, a kill, a second build | all or nothing; no original lost |
| frontend bridge (`FrontendRuntime.cpp`, `Cli/Commands/Frontend.cpp`) | runtime state 0..4, loaded library, captured output | initialize, shut down, load, request, capture | GHC runtime, CLI, REPL, other threads | start and shutdown races, spinning, refused output | one start, no call outside the runtime's life, success only with everything delivered |
| JIT session (`JitSession.cpp`) | loaded modules, registered symbols | add, execute, reset | LLVM ORC | a failure half way through an addition or a reset | tables agree with what LLVM holds |
| interactive session (`src/Interactive`) | cell number, previous value, history | evaluate, reset, meta commands | frontend bridge, JIT | any refusal between two steps of a cell | an input is applied wholly or not at all |
| Core and its verifier (`Core/Verifier.cpp`) | a module | verify | frontend, CorePrep | scopes, loops, closures | accepts only what later stages can treat |
| CorePrep (`Core/CorePrep`) | cursor of blocks, pending closures | prepare, verify | Core, Xpp | order of effects; loop targets; lifted closures | the same effects in the same order |
| Xpp and Xmm (`Codegen/Xpp`, `Codegen/Xmm`) | functions of blocks | lower, verify, optimize | analyses | verifiers and optimizers that must agree | what a stage makes, the next accepts |
| ownership placement (`OwnershipPlacement.cpp`) | fresh symbols and blocks | retain and release | liveness | edges; parameters; values read and written at once | each reference released once, on every path |
| wire formats (`Xpp/Wire.cpp`, `Xmm/Wire.cpp`, `WireSupport.cpp`) | reader position and failure | encode, decode | files | truncation, counts | reads back what was written, and nothing else |
| LLVM backend (`Backend/LLVM`) | generated code | arithmetic, calls, closures, objects | AARC, text runtime | partial arithmetic, captures, destructors | does what Core means |
| compile commands (`Cli/Commands`, `Driver/CorePipeline.cpp`, `Linker`) | output files, a temporary object | check, compile, link | pipeline, file system, linker driver | failures, kills, commands that overlap | no stale or partial output taken for a new one |
| dominance, control dependence, bit sets | dominating sets | sweep, read off trees, loops, dependence | optimizers, tools | irreducible graphs; exits that are not there | equal to the path definition |
| text runtime, diagnostics | texts | convert, order | generated code | formatting | structural |
| Haskell frontend and optimizer, Tazel, ecosystem tools, helpers | their own | pure passes, build steps | process boundaries | Tazel's lock file and plugin processes | structural |

### What can go wrong

`hazards` in `PROJECT.json` lists each one at its line. The main groups are:
lost updates and last-reference races in AARC; numeric saturation of its
counts; lost or duplicated worklist notifications and fixed points that do not
end; malformed graphs read from the wire; a removed definition that a later path
needed; effects reordered or dropped by a lowering or an optimizer; a reference
released twice or never; a stage that refuses what the stage before it made;
start and shutdown races of the Haskell runtime; a cell that fails half way;
partial failure, kill and overlap of commands and output transactions. The three
hazards without a property carry a note saying why.

## 2. Plan

Done: 1 to 11. The order put memory safety of every generated program first,
then the analyses that decide what the compiler accepts and removes, then what
it leaves on disk, then the pipeline as a whole.

1. `AarcContract`, `Aarc`, `AarcProofs`: the runtime and its contract.
2. `ControlFlow`, `ControlFlowProofs`: the walk all analyses start from.
3. `Worklist`, composed into `DefiniteInitialization` (with proofs),
   `Liveness` and `OwnershipFlow`.
4. `ProjectArtifacts`: the output transaction.
5. Theorems: AARC's invariants; exact reachability; definite initialization.
6. `FrontendBridge` and `JitSession`, composed into `InteractiveSession`, which
   refines `SessionContract`.
7. `Core`, `CorePrep`, `Xpp`, `OwnershipPlacement`, `Xmm` and `Machine`, composed
   into `MiddleEnd` and held to `CoreSemantics`.
8. `Dominators` and `Dominance`: the sweeps, and the loops and control dependence
   that are read off their result.
9. `Wire`, `CompileCommand` and `CompilePipeline`: files between commands, and
   links.
10. Theorems: AARC at rest and its contract; the order of the walk and the
    dominance sweeps; liveness; ownership flow; the output transaction; the
    interactive session and its contract.
11. Theorems: what is read off the dominating sets (trees, frontiers, loops,
    irreducible regions, control dependence), and what a compile command leaves on
    the disk, with the pipeline as a parameter of `CompileCommand`.
12. Next, models: Tazel's lock file and plugin processes; the language server's
    request loop; Core's file format; declared types and lists in the middle end.

## 3. Modules

### AARC: `Aarc`, `AarcContract`

`strong`, `weak`, `state`, `object` are the words of `ObjectHeader`; `storage`
is the allocation and `live` is `liveAllocations`. A place that can hold a
reference (a variable, a capture slot) is an element of `Refs`, with the kind it
holds, its object and its owner. A thread inside a runtime call has a program
counter, its header, and the count it last read; `frames` are the destructors it
is running, since releasing a capture inside a destructor can start another.

Each action is one access to one atomic word together with the local
computation after it: `TryRetainExchange` is one compare-exchange, which may
fail and reload; `SubStrong` one `fetch_sub`. `Unowned` and `Weak` handles run
the same code and are one kind, "control". The memory model is sequentially
consistent: every ordering between words that matters goes through an
acquire/release pair of the code.

`AarcContract` is what the ABI promises, without counts: objects are absent,
alive, being destroyed, destroyed and reclaimed, in that order, and a step of
the program acquires or drops one reference, a strong one only to an object that
is alive. `ImplementsContract` states that the lock-free code implements it.

### Control flow: `ControlFlow`

The function (`program`) is an input chosen in the initial state from the set
`Programs`. `ReadTarget` and `NextRecord` are the loops of `ValidSuccessors`
(missing targets are issues, repeated ones are dropped, a repeated block record
is skipped); `BeginTraverse`, `Follow`, `Leave`, `EndTraverse` are the walk with
its explicit stack. `Predecessors`, `FactSuccessors` and `ReversePostorder` are
the published facts. `CFInv` is the inductive invariant of the walk.

### Dominance: `Dominators`, `Dominance`

`Dominators` starts from a finished walk. `at` is the position of the sweep in
the visiting order and `changed` whether the sweep changed a set, so one step is
one turn of the inner loop of `ComputeDominatingSets`, for dominators and then
for post-dominators, which the code declines to compute when some block reaches
no exit. `DominatorsExact` compares the sets with paths that avoid a block,
`PathDominators` and `PathPostDominators`. `Dominance` has what the code reads
off the sets (immediate dominators, frontiers, natural loops, irreducible
regions, control dependence) as operators, each compared with a definition over
paths. The two recursions of `StronglyConnectedComponents` are functions of the
number of turns taken: `SearchStep` is one turn of the loop over the explicit
stack that numbers the blocks as they are left, `AddComponent` one round of the
loop over the blocks in the opposite order. A chain of immediate dominators is a
closure under the parent.

### Worklist: `Worklist`

`pending` is the queue and `scheduled` the set beside it. `TakeNext`,
`NotifyChanged` and `ScheduleAffected` are parts of the actions of the analysis
that uses the list; scheduling the affected blocks one by one is the loop of
`NotifyChanged`.

### The three analyses

Each extends `ControlFlow` and `Worklist` and runs in phases: the graph, the
fixed point (`Evaluate` takes a block and recomputes its facts, `Propagate`
schedules the blocks that depend on it), the reports, and then, in the same
behaviour, the analysed function itself: `RunAccess` and `RunBranch` execute it
along any path. So soundness is stated between what the analysis said and what
a run does, not between two definitions of the same equations.

* `DefiniteInitialization`: `FactsExact` compares the result with paths;
  `UninitializedReadsReported` with runs.
* `Liveness`: the run executes the function and the one without its dead
  definitions side by side; `differs` is the storage where they disagree.
  `RemovalInvisible`: nothing the kept code reads is in it. `LeastFacts`: the
  facts are the smallest set that satisfies the equations, so nothing is kept
  alive by a loop alone.
* `OwnershipFlow`: a fact is the set of states a handle may be in.
  `OwnershipFactsExact` compares it with the states paths lead to.
  `MisusesReported` is what `OWNERSHIP-FLOW.md:107` promises of every function, a
  statement about runs; the code keeps it for functions nothing jumps back to the
  entry of. `reentered` records the handles that a jump took back to the entry in
  a state no caller hands over, until they are defined or forgotten again, and
  `MisusesReportedUnlessReentered` says that those are the only exception.

Bit sets and dense indices appear as sets, symbol tables as the functions they
implement. Statistics are left out. Storage named twice in a catalogue is named
once here.

### Output transaction: `ProjectArtifacts`

A build is one `talac` process. `directory` is the output directory, `reserved`,
`new` and `old` the staging directories and the files in them. The actions
follow `CommitArtifactFiles` in order, one file-system call a step; each has a
branch in which the call fails. `RemoveInstalled`, `RestoreBackup`,
`SkipReplacement` and `EndRollBack` are `RollBack` and `AbortReplacement`;
`RemoveStaging` is the destructor, which ignores errors and so may leave any
part of the tree. `Crash` kills a build's process anywhere (the code syncs
nothing, so a loss of power is not modelled). Contents are told apart by who
wrote them. Names have a case-folded form (`Fold`) and the entry the volume
takes them for (`Entry`), which differ for Unicode names. Builds may overlap:
nothing in the code prevents it. `before`, `latest`, `alone` and `found` record
history for the properties and guard nothing; what a transaction promises about
the whole directory is stated of builds that ran alone.

### Interactive: `FrontendBridge`, `JitSession`, `InteractiveSession`, `SessionContract`

`FrontendBridge` has one step for each access to the atomic `runtimeState` by any
thread that starts or stops the Haskell runtime, the loading and ABI check of the
library, and a request whose outputs `CaptureOutput` takes or refuses one by
one. Only the ABI version of the library beside the executable is checked, so it
may be the repository's `FFI.hs`, a `plan` of what it will still emit, chosen
freely, an exception included; or an `Unruly` one, which may call
back with every kind of output in every order (`EmitAnything`) and end the call
with any status (`ReturnAnything`), but after a refused output not with success,
which is what `Frontend.h:19` asks. `tali` is taken to meet the former, the
requests of other programs (`OtherRequest`, every entry of the bridge) either. `called` and `emitted` record the call for
`SuccessIsWhole`. `FuzzSyntax` has no output and is a call of its own.
`JitSession` is `AddModule`, execution and `Reset`, with a failing branch
wherever LLVM's result is tested; `dylib` is what LLVM itself holds, which may be
more than the tables say. `InteractiveSession` extends both with `Session` and
the read loop: an input line runs through stages, and `Handle` is one step of it.
`leftover` records the symbols LLVM still had when the numbers began anew.
`SessionContract` says what a user is promised, and `KeepsContract` that the
session implements it.

### Middle end: `Core`, `CorePrep`, `Xpp`, `OwnershipPlacement`, `Xmm`, `Machine`, `CoreSemantics`, `MiddleEnd`

`Ir` has what the forms share: types, literals, instructions and terminators,
the runtime catalogue, and the results of the three dataflow analyses as the
stages ask for them (their own modules model the algorithms). `Core` is the
syntax and Core's verifier. `CorePrep` is `Prepare`, over a cursor as in the
code, and the two verifiers of its result. `Xpp` lowers, verifies (definite
initialization and ownership flow included) and optimizes until nothing changes;
`OwnershipPlacement` is the placer pass by pass; `Xmm` gives registers, verifies
and optimizes. Operators return records of what a C++ function changes (a cursor
and an atom, a function and the next fresh symbol), and are written so that each
intermediate result is passed on once.

`Machine` executes Xmm as the generated code does: frames, a heap of objects
with both counts, thunks that upgrade captures, destructors that release them,
arithmetic on bit patterns with its checks. Using a dead object ends a run as
"dangling". `CoreSemantics` evaluates the same Core program as a tree over
mathematical integers and values, with no blocks, references or bits.
`MiddleEnd` is the pipeline: one action per stage, optimizer or not, and
compilation resumed from an Xpp or Xmm file. Its invariants say that the machine
does what `CoreSemantics` says (`SameBehaviour`), that a program that returns has
given back all references (`ReferencesBalanced`), and that no verifier refuses
what an earlier stage made (`OwnOutputAccepted`).

### Compile commands: `Wire`, `CompileCommand`, `CompilePipeline`

`Wire` writes a module as numbers, one per field, and reads numbers back with a
reader that knows nothing else and whose first failure sticks; the two forms
share it. `CompileCommand` is `talac` run on one source, whose text is edited
between commands, in one directory: arguments, the pipeline, encoding, opening,
writing and, for executables, the temporary object, the checks of the link
request, the removal of the old executable, the linker and the look at its
result. What the pipeline gives for the source or for a file, and what a module
is encoded as, are parameters (`SourceResult`, `FileResult`, `Document`);
`CompilePipeline` composes the operators of the middle end in the order of
`Driver/Pipeline.cpp`, and the run takes them for these parameters. Each file-system call is one step that may
fail, a full disk leaves a prefix of a document over the old contents, and a
command may be killed anywhere. `encoded` and `accepted` record what was written
and read for the properties; `previous` and `solitary` are history too.

## 4. Runs

Every passing run explores its whole state space. `CHECK_DEADLOCK FALSE` is
given where the system stops: a program drops its last reference, an analysed
function returns, builds end, a session quits. `middle_end` ends in a stutter
of its own and is checked for deadlock.

| run | instance | shows |
|---|---|---|
| `aarc_threads` | 3 threads, 2 objects, 4 places, counts that saturate at 3; symmetric | the safety properties of AARC, at the maximal count too, and the refinement of its contract |
| `aarc_liveness` | 2 threads, 2 objects, 3 places, counts up to 4; no symmetry | nothing leaks; objects are destroyed and reclaimed |
| `control_flow` | every function of 2 records, malformed ones included, every one of 3 blocks with targets in any order, repeated or missing, and every graph of 4 blocks, with up to 2 targets | reachability, numbering, dominators, loops, control dependence, termination |
| `definite_initialization` | every function of 3 blocks, functions of 4 with irreducible loops; a declared variable and an undeclared one | exact facts, reported reads, termination |
| `liveness` | every function of 3 blocks with bodies that use, copy, overwrite and call | least facts, invisible removal, termination |
| `ownership_flow` | every function of 3 blocks with the targets of each in ascending order, jumps back to the entry from itself and from the last block included | exact facts; reported misuses, but for handles taken back to the entry |
| `ownership_flow_reentry` | functions of 2 blocks | violation, see Findings |
| `outputs` | 2 builds, in turn or at once, with batches of one or two files whose names fold or collide, and perhaps a staging directory left by an earlier build, symmetric; or 3 compile commands, 2 at a time, one fault, 3 sources, 10 kinds of request | builds: recovery from any failure or kill, private staging; commands: what is read back was written, no stale executable, nothing left over |
| `artifacts_rollback_race` | 2 builds at once | violation, see Findings |
| `interactive` | a driver thread and another caller; 2 expressions, 2 cells between resets, a history of 2, results of 4 kinds; or every request of another program, to any library | one start of the runtime and no call outside its life; a success delivered whole and in order; cells, JIT and history agree after any failure; every input is answered |
| `middle_end` | about 1400 programs, every choice of optimizers and of files between stages | behaviour kept, references balanced, own output accepted |
| `middle_end_self_assignment` | one program | violation, see Findings |

Bounds. Four places are enough for two threads to hold, upgrade, capture and
release the same object while a third releases it; `MaxCount` stands for
2^64 - 1: in `aarc_threads` the places can reach it, in `aarc_liveness` not.
Three blocks with two successors contain a loop, nested loops, a loop through
the entry, an irreducible loop with two entries, a join of two paths, and an
unreachable block that leads to a reachable one. In a forward must analysis none
of these makes the worklist evaluate a block a second time with another result,
so `definite_initialization` adds functions of four blocks with a loop that a
longer and a shorter path enter at different blocks. Dominance sees all
graphs of four blocks: irreducible loops beside joins, and loops that share
blocks. Facts about different variables
do not interact in definite initialization, so one declared variable is enough
there, and one that is not declared; liveness needs two, to chain copies.
Ownership flow has one handle and two kinds. A batch of two files has a first, a
last and a rename that fails between them. The 128 staging names are bounded by
`MaxAttempts` = 2, which a left-over directory and one running build use up.

In `interactive`, `MaxCells` = 2 bounds the cells between two resets, enough for
a cell to fail after one that succeeded and before another; `MaximumEntries` = 2
stands for 256 and is passed by the third success. The outputs of a call need no
bound: `CaptureOutput` accepts three at most, and a refusal ends the call.

`middle_end` runs on five families of programs: every pair of 25 statements and
every triple of 6 of them, over two texts, a number and a callable (assignments
from each other and through calls, closures with strong, weak and unowned
captures, a remembered callable, the three loops with break and continue, early
return); conditions of depth two whose parts write when they are evaluated;
every arithmetic and comparison over every pair of operands; partial arithmetic
whose result nobody uses; and programs that Core's verifier must refuse. `Width`
= 3 stands for 64 bits: every operand pair is there, the least value and the
zero divisor included. `MaxSteps` = 600 instructions is more than any of them
executes. Closures of these programs form no cycles, and a text assigned to
itself as its last use is left to the run of the finding.

An entry of the driver compiles one file or builds a project, never both:
`MCOutputs` composes `ProjectArtifacts` and `CompileCommand` as a choice made at
the start, and `outputs` explores both sides. Of the commands,
`Invocations` = 3, `AtOnce` = 2 and `Faults` = 1: a command
that fails or is killed, one that overlaps it, and one that finds what they left.
`MaximumCount` = 8 stands for the 65535 and more of the formats; one source
exceeds it. The documents of the two others differ in length, which is what lets
one stick out behind the other: a write that has no need to grow does not fail.

Fairness. A thread inside the runtime, or inside a destructor, keeps running
(`Fairness` in `Aarc`): the operating system schedules it, and a
compare-exchange that fails does so because another succeeded or retries. The
program owes nothing: it may keep a reference for ever. The analyses are loops
of one thread (weak fairness of the analysis steps, none of the analysed
function's). In `interactive` the session keeps handling the line it was given
and every starter keeps running; nobody has to type a line, and the frontend and
LLVM, which are external, are assumed to return.

The inductive invariants of the next section are in the proof modules and are
proved rather than run.

Each property has a mutant of a mapped definition, named after what it breaks,
that TLC must find to violate the property.

## 5. Proofs

Every theorem holds for all values of the constants that satisfy the `ASSUME`s of
the module it is about; TLC evaluates these on the instances it runs.

**AARC** (`AarcProofs`). For any sets of threads, objects and places and any
maximal count of at least 2, `IndInv` is inductive, and from it follow `TypeOK`,
`NoUseAfterFree`, `StrongKeepsAlive`, `CountsCoverOwners` and
`LiveAllocationsExact`. None of these is inductive alone: a count is right only
together with what each thread inside a call is about to do. `IndInv` adds, for
every thread, which reference or entry it is spending (`CallInv`), that at most
one thread destroys and at most one frees an object (`ExclusiveInv`), and for
every object the relation between its counts, its state and the references and
threads that account for them (`ObjectInv`). There is one lemma per effect on
the counts; `NextInv` assigns the actions to them. Assumed: finite sets of
places and objects, and that a thread is not an object.

`IndInv` bounds the counts from below. `NothingLeaksAtRest` needs the other
side: `ExactCounts`, the strong count equal to the number of strong references,
which holds only where counts cannot saturate (fewer places than `MaxCount`, the
condition the property itself states). `DestroyedOnce` is an action property: a
change of state is the start or the end of one destruction. For
`ImplementsContract` every action is shown to be a step of the contract
(`AllocateRefines`, `UpgradeRefines`, `ObserveRefines`, `DropRefines`, ...) or a
stutter, under the mapping of `Aarc` from counts and states to lives.

**Control flow** (`ControlFlowProofs`). `ReachableExact` holds for every
function, malformed or not. `CFInv` says that the stack holds discovered blocks,
each frame's earlier successors are discovered, and every block that is
discovered and not on the stack has all its successors discovered; when the
stack is empty the discovered blocks are closed under edges, and each was
reached along one. For `RetreatingEdgesAreCyclic` `WalkInv` adds that every block
on the stack reaches those above it, so that an edge of a block being left goes
to a block that was left before or to one that leads back to it. The module also
has the facts about graphs, queues and closures the others rest on.

**Dominance** (`DominanceProofs`). `DominatorsExact`, for every function.
`DomInv` says that a set never loses a block that dominates by paths
(`DomAbove`), and that the part of the order a sweep has visited without a change
is solved, so that a sweep that ends without one has solved all of it
(`DomSolved`). A solution is in turn not above the definition by paths: a block
that is in the set of `b` without dominating it would be in the set of every
block of a path that avoids it, the entry's included. Post-dominators are the same
backwards, from any exit, and only where every block can return
(`ExitTestExact`), as in the code. Nothing is assumed of the visiting order
except that it has every reachable block: the order makes the sweeps few, not
right.

From exact sets to what is read off them: `DominanceSets` says what dominators
and post-dominators have in common (a block that dominates another dominates
what leads to it; a set entered through one of its blocks only is dominated by
it; every block is led to). That they are an order, linear above each block, and
everything up to the chain of parents, is proved from it once, for both
directions: `ParentNearest`, `ChainExact`, and with them the frontiers and
`ControlDependenceExact`. `DominatorTreeExact` and the natural loops of
`LoopsExact` follow (`NaturalLoop`: the blocks that reach the latch backwards
without the header are those between them on some path). The irreducible regions
need the strongly connected components. `SearchInv` is the invariant of the
depth-first search: each block is unseen, on the stack or finished, blocks on the
stack reach those above them, and before every finished block there is a split:
what follows it the block reaches, and what precedes it has no edge into that
(`SplitOpen`, `SplitDone`). `FinishFacts` is what remains of it at the end, and
`ComponentTurn` is one round over the reversed order: it takes exactly the blocks
that reach its root and are reached by it (`ComponentsExact`).

**Definite initialization** (`DefiniteInitializationProofs`). No change is lost
(`SettledBlocks`), the result is the meet over all paths (`FactsExact`) and every
read a run makes of unwritten storage was reported. `DIInv` combines the queue's
bookkeeping, the settled blocks, an upper bound (facts never fall below what all
paths agree on) and the relation between a run and the facts at the block it is
in.

**Liveness** (`LivenessProofs`). `LVInv` has the same shape, with the bound from
the other side: no fact exceeds any solution of the equations, because `Transfer`
is monotone although it asks, in the middle of a block, whether a definition is
dead. `LVRunning` says that the function and the one without its dead
definitions agree, before every access, on all that is live there; from it
`RemovalInvisible` follows. `LeastFacts` compares with every solution.

**Ownership flow** (`OwnershipFlowProofs`). `OFInv` bounds the facts by every set
of blocks and states that paths do not leave; the facts are such a set
themselves once the queue is empty, hence `OwnershipFactsExact`, for all
functions. So is `MisusesReportedUnlessReentered`: `OFRunning` says that before
every action the state of each handle is in the facts or the handle is in
`reentered`. A jump to the entry is where a handle joins it: the code gives the
entry its initial state whatever jumps back to it. Without the exception the
statement is false (`ownership_flow_reentry`); where nothing jumps to the entry
nothing is ever in `reentered`, and it is the document's.

**Output transaction** (`OutputProofs`). `PAInv` is inductive for any
number of builds at once, any batches, and any way the volume identifies names
that agrees with ASCII folding on ASCII names. It has three parts. `LocalInv` is
what one build knows of its own records: the names of its batch go to different
entries, and files are replaced in order and rolled back against it. `SharedInv`
is about the staging directories: each has at most one owner, a build that uses
it or that left a backup in it. These hold whatever other builds do, and give
`BackupsKept` and `StagingReleased`. `DirectoryInv` is about builds that ran
alone: every record says what its entry holds and where the original is, which
gives `FailureRestores`, `CommittedWhole` and `OriginalsRecoverable`. The
finding `artifacts_rollback_race` is why these three cannot be had of builds that
overlap.

**Compile commands** (`OutputProofs`). `ExecutableOfThisBuild` and
`LeavesOnlyItsOutput`, for any number of commands, any requests, and whatever the
pipeline answers: nothing is assumed of its three parameters. `CommandInv` speaks
of the latest command when nothing else ran as it started: nothing else has run
since (`StartedInOrder` carries this to the next one), it has changed no file
before it opens its output or removes the executable (`WhatIsChanged`), and from
the check of the link request on, the object it is going to link is the one it
made or was given (`WhatIsLinked`). `OneMoves` is what all steps but the first
have in common; there is one lemma per action.

**Interactive** (`InteractiveProofs`). `SInv` is inductive for any number of
threads that start the runtime, of cells between resets and of history entries.
One thread at most is between winning the exchange of `runtimeState` and
publishing the result (`RuntimeInv`), a library that passed the check of its
version goes with a ready runtime until the driver leaves (`LibraryInv`), what is
captured is what the library has called back with, in the only order that is not
refused (`RequestInv`, with `Delivered`), the tables agree (`JitInv`), and the
number of the next cell is above every number in use but for those of `leftover`
(`CellInv`). Of the library `RequestInv` assumes nothing but that it ends a call
after a refusal: `CaptureOutputKeeps` is about every kind of output, and
`ReturnStep` about every status. From these come
`HaskellOnlyWhileUp`, `SuccessIsWhole`, `TablesAgree`, `CellSymbolsFresh` and the
refinement `KeepsContract`, again action by action.

**Closures.** What "reaches" means in `Dominators`, `Dominance` and ownership flow is a
recursive function over rounds that TLC can evaluate. `Saturation` (in
`ControlFlowProofs`) says that as many rounds as there are elements reach the
least closed set: it is proved with the well-ordering of the naturals and the
cardinality of finite sets, an induction over a set of numbers, which needs no
theorem with an operator parameter. `NatClosure` and `NatLeast` are its two
halves. Everything else about paths is then an argument about least closed sets.

Left to TLC:

* every liveness property (`EveryObjectEnds`, termination of the analyses, answers of
  the session): the prover has no rules for fairness or `ENABLED`;
* the three invariants of `MiddleEnd`, and `AcceptsWhatWasWritten`, which depends on
  what the readers of `Wire` accept: recursive operators over syntax, which the
  prover does not handle. The latter is also not to be had for all sources: the
  formats have no checksum, so where two commands write one file and the disk is
  full, documents that differ in two numbers could mix into a third.

## 6. Findings

* `middle_end_self_assignment`: `OwnershipPlacement.cpp:468` says that a value is
  released after the instruction that uses it last. When that instruction copies
  a text onto itself (`s = s` as the last thing that happens to `s`), placement
  drops the copy together with the release that belonged after it, and the
  reference is never given back. The Xpp optimizer removes such copies before
  ownership is placed, so only a compilation without it is affected.
* `ownership_flow_reentry`: `OWNERSHIP-FLOW.md:109` promises of every successful
  check that "no reachable explicit release consumes the same handle twice".
  `JoinPredecessors` gives the entry block its initial state and reads none of its
  predecessors, so where the entry consumes a parameter and a back edge enters it
  again, the second release is not reported. Line 73 of the same document states
  that rule ("Entry facts do not include facts from an entry backedge"), for what
  a later iteration creates. No verifier of Xpp or Xmm refuses a jump to the entry;
  LLVM's `verifyModule` does, later.
* `artifacts_rollback_race`: a comment says that rollback never erases unrelated
  output. It holds while builds of one directory take turns; nothing enforces
  that they do.

Remarks that no run is about:

* AARC: a release that finds a strong count at its maximum is not counted, so
  such an object leaks.
* Interactive: a comment (`Session.cpp:166`) says that advancing the number before
  the insertion prevents collisions with residual symbols. Between two full resets
  it does (`CellSymbolsFresh`). But when LLVM refuses a module and then also its
  removal, `AddModule` drops that error and keeps no record; a later `:reset` has
  nothing to remove, succeeds and restarts the numbers, and the next cell is refused
  for the symbol LLVM still has. `leftover` is the exception the property makes.
* Analyses: `ControlFlow.hpp:64` documents the published successors as being in
  declared order, while `BuildFacts` sorts them (the walk itself uses the declared
  order). `NaturalLoop::exits` is documented as source blocks, while `LoopExits`
  (`Dominance.cpp:253`) stores targets. A loop's depth counts once per back edge.
* Middle end: Core's verifier accepts some modules that later stages refuse
  (one symbol bound in two branches, closures that name an outer local they do
  not capture, type variables, a module without functions), and CorePrep's accepts
  `&&` over numbers, which Xmm's refuses; `OwnOutputAccepted` is checked on
  programs that have none of these. `Prepare.cpp:29` says the loop targets are "innermost
  first", while the code keeps the innermost last. A weak or unowned capture
  becomes null once the last use of the captured value has passed. Rounded
  division of floating-point numbers converts to an integer without looking for
  infinities. A verified Xpp file need not balance its references: placement ran
  before it was written, and the verifier checks handles, not balance.
* Interactive: a result that is infinite or not a number is printed as `inf` or
  `nan`, which becomes part of the next cell's text, so every later cell is
  refused until `:reset`. An expression just below 1 MiB is accepted by the session
  although its cell exceeds the frontend's limit.
* Commands: `WriteBytes`, `WriteCore` and `WriteMetadata` leave the last flush to
  the destructor of the stream, so a document that only fails there is reported as
  written (`Backend/LLVM/Artifact.cpp:47` flushes for this reason); a truncated
  document is refused when it is read. A rejected `--emit=metadata` leaves an older
  file although `CLI.md:111` says a rejected program leaves none.
  `ARTIFACT-WIRE.md:516` speaks of rewriting an artifact at its stage, which
  `Compile` refuses. Of two commands linking one executable at once, one may
  report success for the other's file; `ExecutableOfThisBuild` is stated of
  commands that run alone.
* Staging directories of killed builds are not removed, so after 128 of them
  builds of that directory fail.

## 7. Not modelled

Weak memory beyond the argument above; payloads and type metadata; the
memoization thunk on two threads; floating point, declared types, lists and
templates in the middle end; widths of the fields of a file, UTF-8 and limits
other than the one on collections; Core's own file format; a document larger
than a stream's buffer; a linker that outlives the command that started it;
Windows import libraries; the spelling rules of portable names; messages and
exact diagnostics; command-line options; everything listed `not_modelled` in
`PROJECT.json`, with the reason there. LLVM, ORC, the GHC runtime, the Haskell
frontend, the linker driver and the file system are external and may answer
anything their interface allows.
