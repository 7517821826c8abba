----------------------------- MODULE JitSession -----------------------------
(***************************************************************************)
(* Backend::LLVM::JitSession: an ORC LLJIT to which verified bitcode       *)
(* modules are added under an entry symbol, invoked once and removed       *)
(* together.  A symbol stands for the cell it names, and a module for the  *)
(* cell whose symbols it defines.  The LLVM calls may fail wherever their  *)
(* result is tested.                                                       *)
(***************************************************************************)
EXTENDS Naturals, Sequences, SequencesExt

CONSTANT Types  \* the result types of the cells, some of
                \* "unit", "bool", "char", "integer", "floating", "wide", "object"

VARIABLES
    initializationError, \* why there is no LLJIT, or "none"
    modules,             \* Impl::modules: the loaded modules, oldest first
    entries,             \* Impl::entries: the registered symbols, with their types
    dylib                \* the cells with symbols defined in the main JITDylib

jitVars == <<initializationError, modules, entries, dylib>>

-----------------------------------------------------------------------------
\* The values the host can receive of a type.
Values(type) == CASE type = "unit" -> {"monostate"}
                  [] type = "bool" -> {"bool"}
                  [] type = "char" -> {"scalar", "surrogate"}
                  [] type = "integer" -> {"integer"}
                  [] type = "floating" -> {"finite", "nonfinite"}
                  [] OTHER -> {}

\* What may be wrong with the bitcode handed in.
Bitcodes == {"empty", "oversized", "malformed", "mismatched_entry", "unverifiable", "sound"}

IsSupportedInvocationType(type) == type \notin {"wide", "object"}

\* Impl(): the LLJIT and the generator of the process's symbols.
JitInit ==
    /\ initializationError \in {"none", "TAL4001", "TAL4002", "TAL4003"}
    /\ modules = <<>>
    /\ entries = {}
    /\ dylib = {}

Registered(symbol) == \E e \in entries : e.symbol = symbol

\* The checks of AddModule before LLVM is given the module.
AddModuleIssue(bitcode, symbol, type) ==
    CASE initializationError # "none" -> initializationError
      [] bitcode = "empty" -> "TAL4006"
      [] bitcode = "oversized" -> "TAL4007"
      [] Registered(symbol) -> "TAL4021"
      [] ~IsSupportedInvocationType(type) -> "TAL4010"
      [] bitcode = "malformed" -> "TAL4011"
      [] bitcode = "mismatched_entry" -> "TAL4022"
      [] bitcode = "unverifiable" -> "TAL4012"
      [] OTHER -> "none"

\* AddModule rejects the module without telling LLVM.
AddModuleRejects(bitcode, symbol, type) ==
    /\ AddModuleIssue(bitcode, symbol, type) # "none"
    /\ UNCHANGED jitVars

\* addIRModule refuses: it always does when a symbol is already defined.  The
\* tracker is removed again, and an error of that is dropped.
AddModuleFails(bitcode, symbol, type) ==
    /\ AddModuleIssue(bitcode, symbol, type) = "none"
    /\ dylib' \in {dylib, dylib \cup {symbol}}
    /\ UNCHANGED <<initializationError, modules, entries>>

AddModule(bitcode, symbol, type) ==
    /\ AddModuleIssue(bitcode, symbol, type) = "none"
    /\ symbol \notin dylib
    /\ dylib' = dylib \cup {symbol}
    /\ modules' = Append(modules, symbol)
    /\ entries' = entries \cup {[symbol |-> symbol, type |-> type]}
    /\ UNCHANGED initializationError

\* A mutant: the registered entries outlive their modules.
RemoveModulesOnly(kept) ==
    LET stay == SubSeq(modules, 1, kept)
    IN  /\ modules' = stay
        /\ dylib' = dylib \ (ToSet(modules) \ ToSet(stay))
        /\ UNCHANGED <<initializationError, entries>>

\* Reset removes modules from the newest on, until LLVM refuses one: then
\* that one and the older ones stay, and its symbols may be gone or not.
RemoveModules(kept) ==
    LET stay == SubSeq(modules, 1, kept)
        gone == ToSet(modules) \ ToSet(stay)
    IN  /\ modules' = stay
        /\ entries' = {e \in entries : e.symbol \notin gone}
        /\ \E failed \in SUBSET (IF kept = 0 THEN {} ELSE {Last(stay)}) :
              dylib' = dylib \ (gone \cup failed)
        /\ UNCHANGED initializationError

\* InvokeScalar's answer before the machine code runs.
InvokeIssue(symbol, type) ==
    CASE initializationError # "none" -> initializationError
      [] ~Registered(symbol) -> "TAL4017"
      [] [symbol |-> symbol, type |-> type] \notin entries -> "TAL4023"
      [] ~IsSupportedInvocationType(type) -> "TAL4010"
      [] OTHER -> "none"

-----------------------------------------------------------------------------
(* The two tables of a session agree: a symbol is registered exactly while *)
(* its module is loaded, once, whatever LLVM refused to add or to remove.  *)
TablesAgree ==
    /\ {e.symbol : e \in entries} = ToSet(modules)
    /\ IsInjective(modules)
    /\ \A d, e \in entries : d.symbol = e.symbol => d = e
=============================================================================
