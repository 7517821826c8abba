----------------------------- MODULE MiddleEnd ------------------------------
(***************************************************************************)
(* From Core to running code (Talac/Driver/Pipeline.cpp): each stage       *)
(* verifies what it is given and hands the next one a new form, optimized  *)
(* or not.  Compilation may stop after Xpp or Xmm and resume from the file *)
(* written there, with other options.  What is compiled is then executed.  *)
(*                                                                         *)
(* The writer and the reader of the files are left to the module Wire.     *)
(***************************************************************************)
EXTENDS CorePrep, OwnershipPlacement, Machine

CONSTANTS
    Programs,       \* a set of Core modules
    MaxSteps        \* bound: instructions a program may execute

Semantics == INSTANCE CoreSemantics
Main == 1

ASSUME ProgramsAssumption ==
    /\ MaxSteps \in Nat
    /\ \A p \in Programs : Main \in {f.sym : f \in Range(p.functions)}

VARIABLES
    program,    \* the program that is compiled
    stage,      \* what code holds: a form, verified or not, or how it ended
    code,       \* the module in its current form
    machine     \* the machine once the program has run
vars == <<program, stage, code, machine>>

NoMachine == [status |-> "idle", frames |-> <<>>, heap |-> <<>>, trace |-> <<>>]

Init ==
    /\ program \in Programs
    /\ stage = "core" /\ code = program /\ machine = NoMachine

(* A form that has issues goes nowhere. *)
VerifyAt(from, ok, to) ==
    /\ stage = from
    /\ IF ok THEN stage' = to /\ UNCHANGED code
       ELSE stage' = "rejected " \o from /\ code' = <<>>
    /\ UNCHANGED <<program, machine>>
Becomes(from, to, new) ==
    /\ stage = from /\ stage' = to /\ code' = new
    /\ UNCHANGED <<program, machine>>

VerifyCore == VerifyAt("core", CoreVerified(code), "verified core")
PrepareCore == Becomes("verified core", "coreprep", Prepare(code))
VerifyCorePrep == VerifyAt("coreprep", CorePrepVerified(code), "verified coreprep")

(* Lower, optimize if asked, and place ownership on the form that is kept. *)
LowerPlacedXpp(optimize) ==
    Becomes("verified coreprep", "xpp",
            PlaceOwnership(IF optimize THEN XppOptimize(LowerToXpp(code)) ELSE LowerToXpp(code)))
VerifyXpp == VerifyAt("xpp", XppVerified(code), "verified xpp")

(* ConsumeXpp: the file already carries its retains and releases. *)
OptimizeXppFile == Becomes("verified xpp", "xpp", XppOptimize(code))

LowerXmm(optimize) ==
    Becomes("verified xpp", "xmm", IF optimize THEN XmmOptimize(LowerToXmm(code)) ELSE LowerToXmm(code))
VerifyXmm == VerifyAt("xmm", XmmVerified(code), "verified xmm")
OptimizeXmmFile == Becomes("verified xmm", "xmm", XmmOptimize(code))

Execute ==
    /\ stage = "verified xmm" /\ stage' = "ran"
    /\ machine' = RunMachine(code, Boot(code, Main), MaxSteps)
    /\ code' = <<>> /\ UNCHANGED program

Finished == stage = "ran" \/ code = <<>>
Done == Finished /\ UNCHANGED vars

Next ==
    \/ VerifyCore \/ PrepareCore \/ VerifyCorePrep
    \/ \E optimize \in BOOLEAN : LowerPlacedXpp(optimize) \/ LowerXmm(optimize)
    \/ VerifyXpp \/ OptimizeXppFile \/ VerifyXmm \/ OptimizeXmmFile
    \/ Execute \/ Done

Spec == Init /\ [][Next]_vars
-----------------------------------------------------------------------------
Meanings == [p \in Programs |-> Semantics!Meaning(p, Main, MaxSteps)]

(* What runs does what the Core program means, whatever was optimized and  *)
(* wherever the compilation was split: the same texts in the same order,   *)
(* and it returns or traps as the program does.  No object is used after   *)
(* its last reference is gone, for that run would end as dangling.         *)
SameBehaviour ==
    stage = "ran" => [trace |-> machine.trace, status |-> machine.status] = Meanings[program]

(* When the program returns, every reference and every handle that was     *)
(* taken has been given back: nothing leaks.  (The closures of the         *)
(* programs form no cycles.)                                               *)
ReferencesBalanced ==
    machine.status = "returned" =>
      \A k \in DOMAIN machine.heap : machine.heap[k].strong = 0 /\ machine.heap[k].handles = 0

(* What a stage makes of a verified module passes the verifier after it:   *)
(* no program is rejected by a later stage that Core's verifier accepted.  *)
OwnOutputAccepted ==
    stage \notin {"rejected coreprep", "rejected xpp", "rejected xmm"}
=============================================================================
