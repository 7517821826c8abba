-------------------------------- MODULE Ir ---------------------------------
(***************************************************************************)
(* What CorePrep, Xpp and Xmm share: types, literals, operands, and the    *)
(* instructions and blocks of a function, with the questions every stage   *)
(* asks of them (Talac/Core/Ownership, Callable, Scalar.cpp and            *)
(* Core/RuntimeCall.hpp), and the analyses of Talac/Analysis as functions. *)
(*                                                                         *)
(* The analyses are state machines with proofs of their own in the modules *)
(* ControlFlow, Liveness, DefiniteInitialization and OwnershipFlow.  Here  *)
(* they are the solutions those modules show them to compute.              *)
(*                                                                         *)
(* A type is a tuple that starts with its kind.  A stage keeps one shape   *)
(* of record: an operand is [kind, type, sym, lit], an instruction         *)
(* [effect, op, dest, type, args, fn, modes], a terminator                 *)
(* [kind, value, t, f], a block [id, code, term], a function               *)
(* [sym, params, result, entry, blocks, source], a module                  *)
(* [name, functions, sources].  Identity 0 names no symbol.                *)
(***************************************************************************)
EXTENDS Integers, Sequences, FiniteSets, SequencesExt

UnitT == <<"unit">>
BoolT == <<"bool">>
IntT == <<"int">>           \* Int64, for every signed integer
UIntT == <<"uint">>         \* UInt64, for every unsigned integer
FloatT == <<"float">>
StrT == <<"str">>
NamedT == <<"named">>
VarT == <<"var">>           \* a type variable
FnT(params, result) == <<"fn", params, result>>

Kind(type) == type[1]
IsNumeric(type) == Kind(type) \in {"int", "uint", "float"}
IsInteger(type) == Kind(type) \in {"int", "uint"}

(* ClassifyType without a catalog of declarations, and the conservative    *)
(* reading of a named type that the verifiers and the placement share.     *)
StorageClass(type) ==
    IF Kind(type) \in {"str", "fn"} THEN "AarcReference"
    ELSE IF Kind(type) \in {"named", "var"} THEN "Unresolved" ELSE "TrivialValue"
UsesAarc(type) == StorageClass(type) = "AarcReference"
IsAarc(type) == UsesAarc(type) \/ Kind(type) = "named"

(* The integers of the model have Width bits. *)
Width == 3
IntegerFits(n, type) ==
    CASE Kind(type) = "int" -> n \in -(2 ^ (Width - 1)) .. 2 ^ (Width - 1) - 1
      [] Kind(type) = "uint" -> n \in 0 .. 2 ^ Width - 1
      [] OTHER -> FALSE

(* validate_literal: a payload of the type, in its range.  Core carries    *)
(* integers of fixed width, later stages a sign and a magnitude.           *)
LiteralMatches(lit, type) ==
    CASE lit[1] = "none" -> Kind(type) \in {"unit", "named", "str", "fn"}
      [] lit[1] = "bool" -> Kind(type) = "bool"
      [] lit[1] \in {"fixed", "int"} -> IntegerFits(lit[2], type)
      [] lit[1] = "float" -> Kind(type) = "float"
      [] lit[1] = "str" -> Kind(type) = "str"

(* ValidateClosure: the contract between captures, the lifted function and *)
(* the type of the closure.                                                *)
ClosureContract(captures, params, result, callable) ==
    IF Kind(callable) # "fn" THEN "ResultIsNotCallable"
    ELSE IF Len(params) < Len(captures) THEN "TargetHasTooFewParameters"
    ELSE IF SubSeq(params, 1, Len(captures)) # captures THEN "CaptureTypeMismatch"
    ELSE LET public == SubSeq(params, Len(captures) + 1, Len(params)) IN
      IF Len(public) # Len(callable[2]) THEN "PublicParameterCountMismatch"
      ELSE IF public # callable[2] THEN "PublicParameterTypeMismatch"
      ELSE IF result # callable[3] THEN "ResultTypeMismatch" ELSE "None"

(* The catalog of runtime functions: TextConcat, ConsoleWrite, TextEquals  *)
(* stand for the rows that give a text, nothing and a truth value.         *)
RuntimeCatalog ==
    [TextConcat |-> [params |-> <<"str", "str">>, result |-> StrT],
     ConsoleWrite |-> [params |-> <<"str">>, result |-> UnitT],
     TextEquals |-> [params |-> <<"str", "str">>, result |-> BoolT]]
RuntimeFunctions == <<"TextConcat", "ConsoleWrite", "TextEquals">>

(* IdentityOf and Check: the first operand is an integer literal that      *)
(* names a row, the others have the kinds of its parameters.               *)
RuntimeDefect(args, result) ==
    IF ~ (/\ args # <<>> /\ args[1].kind \in {"literal", "immediate"}
          /\ args[1].type = IntT /\ args[1].lit[1] \in {"fixed", "int"}
          /\ args[1].lit[2] \in DOMAIN RuntimeFunctions) THEN "Identity"
    ELSE LET row == RuntimeCatalog[RuntimeFunctions[args[1].lit[2]]]
             kinds == [i \in 1..Len(args) - 1 |-> Kind(args[i + 1].type)]
         IN  IF Len(kinds) # Len(row.params) THEN "Arity"
             ELSE IF kinds # row.params THEN "Argument"
             ELSE IF result # row.result THEN "Result" ELSE "None"

(* Memoize: one callable without parameters whose result is Bool or        *)
(* numeric.                                                                *)
Remembers(args) ==
    /\ Len(args) = 1 /\ Kind(args[1].type) = "fn" /\ args[1].type[2] = <<>>
    /\ (Kind(args[1].type[3]) = "bool" \/ IsNumeric(args[1].type[3]))

(* Rounded division of floating-point numbers gives an integer. *)
RoundedResult(type) == IF Kind(type) = "float" THEN IntT ELSE type

IsNormalizedSourcePath(path) == path # "../up.tala"
SourcesOk(module) ==
    /\ IsInjective(module.sources)
    /\ \A s \in Range(module.sources) : IsNormalizedSourcePath(s)
    /\ \A f \in Range(module.functions) :
         /\ IsNormalizedSourcePath(f.source)
         /\ module.sources # <<>> => f.source \in Range(module.sources)
-----------------------------------------------------------------------------
Symbol(sym, type) == [kind |-> "symbol", type |-> type, sym |-> sym, lit |-> <<"none">>]
Literal(lit, type) == [kind |-> "literal", type |-> type, sym |-> 0, lit |-> lit]
NoOperand == Literal(<<"none">>, UnitT)

Instr(effect, op, dest, type, args) ==
    [effect |-> effect, op |-> op, dest |-> dest, type |-> type, args |-> args,
     fn |-> 0, modes |-> <<>>]
Return(value) == [kind |-> "Return", value |-> value, t |-> 0, f |-> 0]
Jump(target) == [kind |-> "Jump", value |-> NoOperand, t |-> target, f |-> 0]
Branch(value, t, f) == [kind |-> "Branch", value |-> value, t |-> t, f |-> f]
Unreachable == [kind |-> "Unreachable", value |-> NoOperand, t |-> 0, f |-> 0]

(* The targets of a terminator, true then false. *)
Successors(term) ==
    CASE term.kind = "Branch" -> <<term.t, term.f>>
      [] term.kind = "Jump" -> <<term.t>>
      [] OTHER -> <<>>

OwnershipOps == {"RetainStrong", "ReleaseStrong", "MakeWeak", "LockWeak", "ReleaseWeak",
                 "MakeUnowned", "LoadUnowned", "ReleaseUnowned"}
ReleaseOps == {"ReleaseStrong", "ReleaseWeak", "ReleaseUnowned"}

RECURSIVE Ascending(_)
Ascending(numbers) ==
    IF numbers = {} THEN <<>> ELSE <<Min(numbers)>> \o Ascending(numbers \ {Min(numbers)})
-----------------------------------------------------------------------------
(* The analyses.  What they are given is [entry, blocks], each block       *)
(* [id, succ, acc]; an access is [reads, write, removable], a read or      *)
(* write of ownership is [kind, sym, handle].                              *)

Ids(m) == {m.blocks[i].id : i \in DOMAIN m.blocks}
BlockOf(m, id) == m.blocks[CHOOSE i \in DOMAIN m.blocks : m.blocks[i].id = id]
GraphValid(m) ==
    /\ Cardinality(Ids(m)) = Len(m.blocks)
    /\ m.entry \in Ids(m)
    /\ \A i \in DOMAIN m.blocks : Range(m.blocks[i].succ) \subseteq Ids(m)

RECURSIVE Visit(_, _, _)
Visit(m, id, walk) ==
    IF id \in walk.seen THEN walk
    ELSE LET inside == FoldLeft(LAMBDA w, s : Visit(m, s, w),
                                [walk EXCEPT !.seen = @ \union {id}], BlockOf(m, id).succ)
         IN  [inside EXCEPT !.post = Append(@, id)]
ReversePostorder(m) == Reverse(Visit(m, m.entry, [seen |-> {}, post |-> <<>>]).post)
Reached(m) == Range(ReversePostorder(m))

(* Liveness: a removable write of something dead counts as absent. *)
LiveThrough(access, live) ==
    IF access.removable /\ access.write # 0 /\ access.write \notin live THEN live
    ELSE (live \ {access.write}) \union access.reads
LiveBefore(acc, out) == FoldRight(LiveThrough, acc, out)
LiveOut(m, entry, id) == UNION {entry[s] : s \in Range(BlockOf(m, id).succ)}

RECURSIVE SolveLiveness(_, _)
SolveLiveness(m, entry) ==
    LET next == [id \in DOMAIN entry |-> LiveBefore(BlockOf(m, id).acc, LiveOut(m, entry, id))]
    IN  IF next = entry THEN entry ELSE SolveLiveness(m, next)
LiveOnEntry(m) == SolveLiveness(m, [id \in Reached(m) |-> {}])

(* What is live after access i of a block. *)
LiveAfter(acc, i, out) == LiveBefore(SubSeq(acc, i + 1, Len(acc)), out)

(* Definite initialization, by what may still be uninitialized. *)
UninitThrough(acc, uninit) == FoldLeft(LAMBDA u, a : u \ {a.write}, uninit, acc)

RECURSIVE SolveUninit(_, _, _)
SolveUninit(m, start, entry) ==
    LET next == [id \in DOMAIN entry |->
                   (IF id = m.entry THEN start ELSE {}) \union
                   UNION {UninitThrough(BlockOf(m, p).acc, entry[p]) :
                            p \in {q \in DOMAIN entry : id \in Range(BlockOf(m, q).succ)}}]
    IN  IF next = entry THEN entry ELSE SolveUninit(m, start, next)

(* Whether some reachable access reads what some path left uninitialized. *)
ReadsUninitialized(m, declared, initialized) ==
    LET entry == SolveUninit(m, declared \ initialized, [id \in Reached(m) |-> {}]) IN
    \E id \in Reached(m) :
      LET acc == BlockOf(m, id).acc IN
      \E i \in DOMAIN acc :
        acc[i].reads \intersect UninitThrough(SubSeq(acc, 1, i - 1), entry[id]) # {}

(* Ownership flow: the states a handle may be in.  The facts of the entry  *)
(* block are the initial ones, whatever jumps back to it.                  *)
OwnershipThrough(action, states) ==
    CASE action.kind = "Observe" -> states
      [] action.kind = "Consume" ->
           IF action.handle \in states[action.sym]
             THEN [states EXCEPT ![action.sym] = (@ \ {action.handle}) \union {"consumed"}]
             ELSE states
      [] action.kind = "Define" -> [states EXCEPT ![action.sym] = {action.handle}]
      [] action.kind = "Forget" -> [states EXCEPT ![action.sym] = {"absent"}]
OwnershipAfter(acc, states) == FoldLeft(LAMBDA s, a : OwnershipThrough(a, s), states, acc)

RECURSIVE SolveOwnership(_, _, _)
SolveOwnership(m, start, entry) ==
    LET next == [id \in DOMAIN entry |->
                   IF id = m.entry THEN start
                   ELSE LET from == {OwnershipAfter(BlockOf(m, q).acc, entry[q]) :
                                       q \in {p \in DOMAIN entry : id \in Range(BlockOf(m, p).succ)}}
                        IN  [h \in DOMAIN start |-> UNION {s[h] : s \in from}]]
    IN  IF next = entry THEN entry ELSE SolveOwnership(m, start, next)

(* ValidateRequirement over every reachable action: a handle that may be   *)
(* used has exactly the expected kind, or is absent only.                  *)
OwnershipMisused(m, start) ==
    LET entry == SolveOwnership(m, start, [id \in Reached(m) |-> [h \in DOMAIN start |-> {}]]) IN
    \E id \in Reached(m) :
      LET acc == BlockOf(m, id).acc IN
      \E i \in DOMAIN acc :
        /\ acc[i].kind \in {"Observe", "Consume"}
        /\ OwnershipAfter(SubSeq(acc, 1, i - 1), entry[id])[acc[i].sym]
             \notin {{acc[i].handle}, {"absent"}, {}}
=============================================================================
