-------------------------------- MODULE Xpp --------------------------------
(***************************************************************************)
(* Xpp, the typed code with explicit ownership (Talac/Codegen/Xpp):        *)
(* lowering from CorePrep, the verifier, and the optimizer, which also     *)
(* serves Xmm (Talac/Codegen/Xmm/Optimize.cpp is the same algorithm over   *)
(* registers).                                                             *)
(***************************************************************************)
EXTENDS Ir

TypesOf(operands) == [i \in DOMAIN operands |-> operands[i].type]
ParameterTypes(function) == [i \in DOMAIN function.params |-> function.params[i].type]
FunctionType(function) == FnT(ParameterTypes(function), function.result)

FunctionSymbols(module) == {module.functions[i].sym : i \in DOMAIN module.functions}
FunctionNamed(module, sym) ==
    module.functions[CHOOSE i \in DOMAIN module.functions : module.functions[i].sym = sym]

WrittenBy(i) == IF i.effect = "discard" THEN 0 ELSE i.dest
InstructionsOf(function) ==
    FlattenSeq([i \in DOMAIN function.blocks |-> function.blocks[i].code])
BlockIds(function) == {function.blocks[i].id : i \in DOMAIN function.blocks}
-----------------------------------------------------------------------------
(* Lower.  CorePrep names the effects Bind, Assign and Evaluate, and keeps *)
(* captures apart from operands; the operations keep their meaning.        *)
LowerEffect == [Bind |-> "define", Assign |-> "store", Evaluate |-> "discard"]
LowerOperation(operation) ==
    LET renamed == [LessThan |-> "CompareLess", LessEqual |-> "CompareLessEqual",
                    GreaterThan |-> "CompareGreater", GreaterEqual |-> "CompareGreaterEqual",
                    Equal |-> "CompareEqual", NotEqual |-> "CompareNotEqual"]
    IN  IF operation \in DOMAIN renamed THEN renamed[operation] ELSE operation

LowerInstruction(instruction) ==
    LET closure == instruction.op = "MakeClosure" IN
    [effect |-> LowerEffect[instruction.effect],
     op |-> LowerOperation(instruction.op),
     dest |-> instruction.dest,
     type |-> instruction.type,
     args |-> instruction.args \o
              IF closure THEN [i \in DOMAIN instruction.captures |-> instruction.captures[i].value]
              ELSE <<>>,
     fn |-> IF closure THEN instruction.fn ELSE 0,
     modes |-> IF closure THEN [i \in DOMAIN instruction.captures |-> instruction.captures[i].mode]
               ELSE <<>>]

LowerToXpp(module) ==
    [module EXCEPT !.functions = [i \in DOMAIN @ |->
      [@[i] EXCEPT !.blocks = [j \in DOMAIN @ |->
        [@[j] EXCEPT !.code = [k \in DOMAIN @ |-> LowerInstruction(@[k])]]]]]]
-----------------------------------------------------------------------------
(* Verifier. *)

(* Parameters first, then every Define; the first declaration counts. *)
Declared(function) ==
    Range([i \in DOMAIN function.params |-> function.params[i].sym]) \union
    {i.dest : i \in {k \in Range(InstructionsOf(function)) : k.effect = "define"}}
StorageType(function, sym) ==
    IF \E i \in DOMAIN function.params : function.params[i].sym = sym
      THEN function.params[CHOOSE i \in DOMAIN function.params : function.params[i].sym = sym].type
      ELSE LET code == InstructionsOf(function)
               defs == {i \in DOMAIN code : code[i].effect = "define" /\ code[i].dest = sym}
           IN  code[CHOOSE i \in defs : \A j \in defs : i <= j].type

DeclarationsOk(function) ==
    LET code == InstructionsOf(function)
        names == [i \in DOMAIN function.params |-> function.params[i].sym] \o
                 [i \in DOMAIN SelectSeq(code, LAMBDA k : k.effect = "define") |->
                    SelectSeq(code, LAMBDA k : k.effect = "define")[i].dest]
    IN  0 \notin Range(names) /\ IsInjective(names)

OperandOk(operand, function, module) ==
    IF operand.kind = "literal" THEN LiteralMatches(operand.lit, operand.type)
    ELSE /\ operand.sym # 0
         /\ IF Kind(operand.type) = "fn" /\ operand.sym \in FunctionSymbols(module)
              THEN operand.type = FunctionType(FunctionNamed(module, operand.sym))
              ELSE /\ operand.sym \in Declared(function)
                   /\ operand.type = StorageType(function, operand.sym)

CallOk(i) ==
    /\ i.args # <<>> /\ i.args[1].kind = "symbol" /\ Kind(i.args[1].type) = "fn"
    /\ i.args[1].type = FnT(TypesOf(Tail(i.args)), i.type)

ClosureOk(i, module) ==
    /\ i.fn # 0 /\ i.fn \in FunctionSymbols(module)
    /\ Kind(i.type) = "fn"
    /\ Len(i.modes) = Len(i.args)
    /\ LET target == FunctionNamed(module, i.fn) IN
         ClosureContract(TypesOf(i.args), ParameterTypes(target), target.result, i.type) = "None"
    /\ \A k \in DOMAIN i.args : i.modes[k] # "Strong" => IsAarc(i.args[k].type)

OwnershipOk(i) ==
    /\ Len(i.args) = 1 /\ IsAarc(i.args[1].type)
    /\ IF i.op \in ReleaseOps THEN i.effect = "discard" /\ i.type = UnitT
       ELSE i.effect # "discard" /\ i.type = i.args[1].type

TypeTestOk(i) ==
    /\ i.type = BoolT /\ Len(i.args) = 2
    /\ Kind(i.args[1].type) \in {"named", "str", "fn"} /\ i.args[2].type = UIntT

RoundedDivisionOk(i) ==
    /\ Len(i.args) = 2 /\ IsNumeric(i.args[1].type) /\ i.args[1].type = i.args[2].type
    /\ i.type = RoundedResult(i.args[1].type)

ExpectedArity(op) ==
    IF op \in {"Copy", "Negate", "LogicalNot", "BitwiseNot"} THEN 1 ELSE 2

OperationOk(i, module) ==
    CASE i.op = "Call" -> CallOk(i)
      [] i.op = "MakeClosure" -> ClosureOk(i, module)
      [] i.op \in OwnershipOps -> OwnershipOk(i)
      [] i.op = "TypeIs" -> TypeTestOk(i)
      [] i.op = "RuntimeCall" -> RuntimeDefect(i.args, i.type) = "None"
      [] i.op = "Memoize" -> Remembers(i.args) /\ i.type = i.args[1].type
      [] i.op = "FloorDivide" -> RoundedDivisionOk(i)
      [] OTHER -> Len(i.args) = ExpectedArity(i.op)

DestinationOk(i, function) ==
    IF i.effect = "discard" THEN i.dest = 0
    ELSE /\ i.dest # 0 /\ i.dest \in Declared(function)
         /\ StorageType(function, i.dest) = i.type

TerminatorOk(term, function, module) ==
    CASE term.kind = "Return" ->
           OperandOk(term.value, function, module) /\ term.value.type = function.result
      [] term.kind = "Branch" ->
           /\ OperandOk(term.value, function, module) /\ term.value.type = BoolT
           /\ {term.t, term.f} \subseteq BlockIds(function)
      [] term.kind = "Jump" -> term.t \in BlockIds(function)
      [] term.kind = "Unreachable" -> TRUE

(* DataflowFunction: reads of declared storage, never of a function. *)
StorageReads(operands, function, module) ==
    {o.sym : o \in {p \in operands : /\ p.kind = "symbol" /\ p.sym \in Declared(function)
                                     /\ p.sym \notin FunctionSymbols(module)}}
TerminatorOperands(term) == IF term.kind \in {"Return", "Branch"} THEN {term.value} ELSE {}
XppDataflow(function, module) ==
    [entry |-> function.entry, blocks |-> [b \in DOMAIN function.blocks |->
      LET block == function.blocks[b] IN
      [id |-> block.id, succ |-> Successors(block.term),
       acc |-> [k \in DOMAIN block.code |->
                  [reads |-> StorageReads(Range(block.code[k].args), function, module),
                   write |-> WrittenBy(block.code[k])]]
               \o <<[reads |-> StorageReads(TerminatorOperands(block.term), function, module),
                     write |-> 0]>>]]]

InitializationOk(function, module) ==
    LET flow == XppDataflow(function, module) IN
    GraphValid(flow) =>
      ~ ReadsUninitialized(flow, Declared(function),
                           Range([i \in DOMAIN function.params |-> function.params[i].sym]))

(* OwnershipVerifier: what an instruction does to the handles it names. *)
InputKind(op) ==
    IF op \in {"LockWeak", "ReleaseWeak"} THEN "Weak"
    ELSE IF op \in {"LoadUnowned", "ReleaseUnowned"} THEN "Unowned" ELSE "Strong"
ResultKind(op) ==
    IF op = "MakeWeak" THEN "Weak" ELSE IF op = "MakeUnowned" THEN "Unowned" ELSE "Strong"

IsHandle(operand, symbols) ==
    operand.kind \in {"symbol", "register"} /\ operand.sym \notin symbols /\ IsAarc(operand.type)
OwnershipActions(i, symbols) ==
    LET handles == SelectSeq(i.args, LAMBDA o : IsHandle(o, symbols)) IN
    [k \in DOMAIN handles |-> [kind |-> IF i.op \in ReleaseOps THEN "Consume" ELSE "Observe",
                               sym |-> handles[k].sym, handle |-> InputKind(i.op)]]
    \o IF i.effect = "discard" \/ i.dest = 0 THEN <<>>
       ELSE <<[kind |-> IF IsAarc(i.type) THEN "Define" ELSE "Forget",
               sym |-> i.dest, handle |-> ResultKind(i.op)]>>
ReturnActions(term, symbols) ==
    IF term.kind = "Return" /\ IsHandle(term.value, symbols)
      THEN <<[kind |-> "Observe", sym |-> term.value.sym, handle |-> "Strong"]>> ELSE <<>>

OwnershipFlowOf(function, symbols) ==
    [entry |-> function.entry, blocks |-> [b \in DOMAIN function.blocks |->
      LET block == function.blocks[b] IN
      [id |-> block.id, succ |-> Successors(block.term),
       acc |-> FlattenSeq([k \in DOMAIN block.code |-> OwnershipActions(block.code[k], symbols)])
               \o ReturnActions(block.term, symbols)]]]

HandlesOf(flow) ==
    UNION {{a.sym : a \in Range(flow.blocks[b].acc)} : b \in DOMAIN flow.blocks}
OwnershipVerified(function, symbols) ==
    LET flow == OwnershipFlowOf(function, symbols)
        owned == {p.sym : p \in {q \in Range(function.params) : IsAarc(q.type)}}
    IN  GraphValid(flow) =>
          ~ OwnershipMisused(flow, [h \in HandlesOf(flow) |->
                                      IF h \in owned THEN {"Strong"} ELSE {"absent"}])

BlocksOk(function) ==
    Cardinality(BlockIds(function)) = Len(function.blocks) /\ function.entry \in BlockIds(function)

XppFunctionOk(function, module) ==
    /\ BlocksOk(function)
    /\ DeclarationsOk(function)
    /\ \A b \in Range(function.blocks) :
         /\ \A i \in Range(b.code) :
              /\ OperationOk(i, module) /\ DestinationOk(i, function)
              /\ \A o \in Range(i.args) : OperandOk(o, function, module)
         /\ TerminatorOk(b.term, function, module)
    /\ InitializationOk(function, module)
    /\ OwnershipVerified(function, FunctionSymbols(module))

(* Verify: no issue. *)
XppVerified(module) ==
    /\ module.name # <<>> /\ SourcesOk(module)
    /\ module.functions # <<>>
    /\ 0 \notin FunctionSymbols(module)
    /\ Cardinality(FunctionSymbols(module)) = Len(module.functions)
    /\ \A f \in Range(module.functions) : XppFunctionOk(f, module)
-----------------------------------------------------------------------------
(* Optimizer. *)

IsSelfCopy(i) ==
    /\ i.op \in {"Copy", "Move"} /\ i.effect # "discard" /\ Len(i.args) = 1
    /\ i.args[1].kind \in {"symbol", "register"} /\ i.args[1].sym = i.dest

StoredSymbols(function) ==
    {i.dest : i \in {k \in Range(InstructionsOf(function)) : k.effect = "store"}}

(* A Define owns the declaration, so it stays when a Store needs it. *)
XppRemovable(i, function) ==
    i.effect = "define" /\ i.op = "Copy" /\ i.dest \notin StoredSymbols(function)

SymbolReads(operands, symbols) ==
    {o.sym : o \in {p \in operands : p.kind \in {"symbol", "register"} /\ p.sym \notin symbols}}
LivenessFunction(function, symbols, removable) ==
    [entry |-> function.entry, blocks |-> [b \in DOMAIN function.blocks |->
      LET block == function.blocks[b] IN
      [id |-> block.id, succ |-> Successors(block.term),
       acc |-> [k \in DOMAIN block.code |->
                  [reads |-> SymbolReads(Range(block.code[k].args), symbols),
                   write |-> WrittenBy(block.code[k]), removable |-> block.code[k] \in removable]]
               \o <<[reads |-> SymbolReads(TerminatorOperands(block.term), symbols),
                     write |-> 0, removable |-> FALSE]>>]]]

(* What is dropped: removable writes of something dead where they stand. *)
RemoveDeadCopies(function, symbols, removable) ==
    LET model == LivenessFunction(function, symbols, removable) IN
    IF ~ GraphValid(model) THEN function
    ELSE LET entry == LiveOnEntry(model)
             Kept(b) ==
               LET code == function.blocks[b].code
                   after(k) == LiveAfter(model.blocks[b].acc, k, LiveOut(model, entry, model.blocks[b].id))
                   kept == SelectSeq([k \in DOMAIN code |-> k],
                                     LAMBDA k : code[k] \in removable => code[k].dest \in after(k))
               IN  [k \in DOMAIN kept |-> code[kept[k]]]
         IN  [function EXCEPT !.blocks = [b \in DOMAIN @ |->
               IF @[b].id \in DOMAIN entry THEN [@[b] EXCEPT !.code = Kept(b)] ELSE @[b]]]

IsTrampoline(function, id) ==
    \E b \in Range(function.blocks) :
      b.id = id /\ b.code = <<>> /\ b.term.kind = "Jump" /\ b.term.t # id

(* The end of a chain of trampolines; the first block of a cycle of them   *)
(* stands for itself.  The cache of the code never changes an answer.      *)
RECURSIVE ResolveTrampoline(_, _, _)
ResolveTrampoline(function, id, path) ==
    IF id \in path \/ ~ IsTrampoline(function, id) THEN id
    ELSE ResolveTrampoline(function, BlockOf(function, id).term.t, path \union {id})

ThreadTerminator(function, term) ==
    LET t == ResolveTrampoline(function, term.t, {})
        f == ResolveTrampoline(function, term.f, {})
    IN  CASE term.kind = "Jump" -> [term EXCEPT !.t = t]
          [] term.kind = "Branch" ->
               IF t = f THEN [term EXCEPT !.kind = "Jump", !.t = t, !.f = 0]
               ELSE [term EXCEPT !.t = t, !.f = f]
          [] OTHER -> term
ThreadTrampolines(function) ==
    [function EXCEPT !.blocks = [b \in DOMAIN @ |->
      [@[b] EXCEPT !.term = ThreadTerminator(function, @)]]]

GraphOf(function) ==
    [entry |-> function.entry,
     blocks |-> [b \in DOMAIN function.blocks |->
                   [id |-> function.blocks[b].id, succ |-> Successors(function.blocks[b].term)]]]
RetainReachableReversePostorder(function) ==
    LET graph == GraphOf(function) IN
    IF ~ GraphValid(graph) THEN function
    ELSE LET order == ReversePostorder(graph) IN
         [function EXCEPT !.blocks = [k \in DOMAIN order |-> BlockOf(function, order[k])]]

EraseSelfCopies(function) ==
    [function EXCEPT !.blocks = [b \in DOMAIN @ |->
      [@[b] EXCEPT !.code = SelectSeq(@, LAMBDA i : ~ IsSelfCopy(i))]]]

XppRemovables(function) == {i \in Range(InstructionsOf(function)) : XppRemovable(i, function)}

RECURSIVE OptimizeUntilStable(_, _)
OptimizeUntilStable(function, symbols) ==
    LET ordered == RetainReachableReversePostorder(function)
        next == ThreadTrampolines(RemoveDeadCopies(ordered, symbols, XppRemovables(ordered)))
    IN  IF next = function THEN function ELSE OptimizeUntilStable(next, symbols)

XppOptimize(module) ==
    [module EXCEPT !.functions = [i \in DOMAIN @ |->
      OptimizeUntilStable(EraseSelfCopies(@[i]), FunctionSymbols(module))]]
=============================================================================
