----------------------------- MODULE MCOutputs -----------------------------
(***************************************************************************)
(* What the driver (Driver/CorePipeline.cpp) leaves in the file system: an *)
(* entry of it compiles one file or builds a project, never both.          *)
(***************************************************************************)
EXTENDS MCProjectArtifacts, MCCompileCommand

VARIABLE command    \* which entry of the driver is called: "compile" or "build"

OutputsInit ==
    /\ command \in {"compile", "build"}
    /\ Init
    /\ PAInit
    /\ command = "compile" => found = {} /\ \A e \in Entries : directory[e] = Absent

CompileNext == command = "compile" /\ Next /\ UNCHANGED <<paVars, command>>
BuildNext == command = "build" /\ PANext /\ UNCHANGED <<vars, command>>

OutputsSpec == OutputsInit /\ [][CompileNext \/ BuildNext]_<<vars, paVars, command>>
=============================================================================
