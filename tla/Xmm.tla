-------------------------------- MODULE Xmm --------------------------------
(***************************************************************************)
(* Xmm, the code over virtual registers (Talac/Codegen/Xmm): lowering from *)
(* Xpp, the verifier and the optimizer.  A value is a register, a function *)
(* or an immediate; an instruction has a "result" or is a "discard".       *)
(***************************************************************************)
EXTENDS Xpp

(* One register for a symbol throughout the function: parameters first,    *)
(* then what is written, in the order of symbols; a symbol that is only    *)
(* read gets the next free register.                                       *)
RegisterMapFor(function) ==
    LET params == [i \in DOMAIN function.params |-> function.params[i].sym]
        written == {WrittenBy(i) : i \in {k \in Range(InstructionsOf(function)) : k.effect # "discard"}}
        operands == UNION ({Range(i.args) : i \in Range(InstructionsOf(function))}
                           \union {{b.term.value} : b \in Range(function.blocks)})
        read == {o.sym : o \in {p \in operands : p.kind = "symbol"}}
        order == params \o Ascending(written \ Range(params))
                        \o Ascending(read \ (written \union Range(params)))
    IN  [s \in Range(order) |-> CHOOSE i \in DOMAIN order : order[i] = s /\ \A j \in 1..i - 1 : order[j] # s]

LowerOpcode(op) ==
    LET renamed == [Copy |-> "Move", LogicalAnd |-> "AndBool", LogicalOr |-> "OrBool",
                    LogicalNot |-> "NotBool"]
    IN  IF op \in DOMAIN renamed THEN renamed[op] ELSE op

(* Only a name of a method is a function; a callable in storage is a       *)
(* register.                                                               *)
LowerValue(o, map, methods) ==
    IF o.kind = "literal" THEN [o EXCEPT !.kind = "immediate"]
    ELSE IF Kind(o.type) = "fn" /\ o.sym \in methods THEN [o EXCEPT !.kind = "function"]
    ELSE [o EXCEPT !.kind = "register", !.sym = map[@]]

LowerXmmInstruction(i, map, methods) ==
    [effect |-> IF i.effect = "discard" THEN "discard" ELSE "result",
     op |-> LowerOpcode(i.op),
     dest |-> IF i.effect = "discard" THEN 0 ELSE map[i.dest],
     type |-> i.type,
     args |-> [k \in DOMAIN i.args |-> LowerValue(i.args[k], map, methods)],
     fn |-> i.fn, modes |-> i.modes]

LowerFunctionToXmm(function, methods) ==
    LET map == RegisterMapFor(function) IN
    [function EXCEPT
       !.params = [k \in DOMAIN @ |-> [@[k] EXCEPT !.sym = map[@]]],
       !.blocks = [b \in DOMAIN @ |->
         [@[b] EXCEPT !.code = [k \in DOMAIN @ |-> LowerXmmInstruction(@[k], map, methods)],
                      !.term.value = LowerValue(@, map, methods)]]]
LowerToXmm(module) ==
    [module EXCEPT !.functions = [i \in DOMAIN @ |->
       LowerFunctionToXmm(@[i], FunctionSymbols(module))]]
-----------------------------------------------------------------------------
(* Verifier. *)

RECURSIVE SupportedType(_)
SupportedType(type) ==
    CASE Kind(type) = "var" -> FALSE
      [] Kind(type) = "fn" -> SupportedType(type[3]) /\ \A p \in Range(type[2]) : SupportedType(p)
      [] OTHER -> TRUE

(* The type of a register: of the parameter, else of its first write. *)
Registers(function) ==
    {p.sym : p \in Range(function.params)} \union
    {i.dest : i \in {k \in Range(InstructionsOf(function)) : k.effect = "result" /\ k.dest # 0}}
RegisterType(function, reg) ==
    LET params == {i \in DOMAIN function.params : function.params[i].sym = reg}
        code == InstructionsOf(function)
        writes == {i \in DOMAIN code : code[i].effect = "result" /\ code[i].dest = reg}
    IN  IF params # {} THEN function.params[CHOOSE i \in params : \A j \in params : i <= j].type
        ELSE code[CHOOSE i \in writes : \A j \in writes : i <= j].type

RegistersOk(function) ==
    /\ \A i \in DOMAIN function.params :
         /\ function.params[i].sym # 0 /\ SupportedType(function.params[i].type)
         /\ \A j \in DOMAIN function.params : function.params[i].sym = function.params[j].sym => i = j
    /\ \A i \in Range(InstructionsOf(function)) :
         i.effect = "result" /\ i.dest # 0 => RegisterType(function, i.dest) = i.type

ValueOk(v, function, module) ==
    /\ SupportedType(v.type)
    /\ CASE v.kind = "register" -> v.sym \in Registers(function) /\ RegisterType(function, v.sym) = v.type
         [] v.kind = "function" -> v.sym \in FunctionSymbols(module) /\ Kind(v.type) = "fn"
         [] v.kind = "immediate" -> LiteralMatches(v.lit, v.type)

XmmCallOk(i) ==
    /\ i.args # <<>> /\ i.args[1].kind \in {"function", "register"} /\ Kind(i.args[1].type) = "fn"
    /\ i.args[1].type = FnT(TypesOf(Tail(i.args)), i.type)

(* ExpectedOperandCount and the shape of the remaining operations. *)
XmmUnary == {"LoadImmediate", "Move", "Negate", "NotBool", "BitwiseNot"}
Comparisons == {"CompareLess", "CompareLessEqual", "CompareGreater", "CompareGreaterEqual",
                "CompareEqual", "CompareNotEqual"}
IntegerOps == {"ShiftLeft", "ShiftRight", "BitwiseAnd", "BitwiseXor", "BitwiseOr", "BitwiseNot"}
SameTypes(i) == \A v \in Range(i.args) : v.type = i.type
OperandsAgree(i) ==
    CASE i.op \in {"Move", "LoadImmediate"} -> SameTypes(i)
      [] i.op \in {"AndBool", "OrBool", "NotBool"} -> i.type = BoolT /\ SameTypes(i)
      [] i.op \in Comparisons -> i.type = BoolT /\ i.args[1].type = i.args[2].type
      [] i.op \in IntegerOps -> IsInteger(i.type) /\ SameTypes(i)
      [] OTHER -> IsNumeric(i.type) /\ SameTypes(i)

XmmOperationOk(i, module) ==
    CASE i.op = "Call" -> XmmCallOk(i)
      [] i.op = "MakeClosure" -> ClosureOk(i, module)
      [] i.op \in OwnershipOps -> OwnershipOk(i)
      [] i.op = "TypeIs" -> TypeTestOk(i)
      [] i.op = "RuntimeCall" -> RuntimeDefect(i.args, i.type) = "None"
      [] i.op = "Memoize" -> Remembers(i.args) /\ i.type = i.args[1].type
      [] i.op = "FloorDivide" -> RoundedDivisionOk(i)
      [] OTHER -> Len(i.args) = (IF i.op \in XmmUnary THEN 1 ELSE 2) /\ OperandsAgree(i)

ResultOk(i, function) ==
    IF i.effect = "result" THEN i.dest # 0 /\ i.dest \in Registers(function)
    ELSE i.type = UnitT \/ i.op \in {"Call", "RuntimeCall", "MakeClosure"}

XmmTerminatorOk(term, function, module) ==
    CASE term.kind = "Return" -> ValueOk(term.value, function, module) /\ term.value.type = function.result
      [] term.kind = "Branch" ->
           /\ ValueOk(term.value, function, module) /\ term.value.type = BoolT
           /\ {term.t, term.f} \subseteq BlockIds(function)
      [] term.kind = "Jump" -> term.t \in BlockIds(function)
      [] term.kind = "Unreachable" -> TRUE

RegisterReads(values, function) ==
    {v.sym : v \in {w \in values : w.kind = "register" /\ w.sym \in Registers(function)}}
XmmDataflow(function) ==
    [entry |-> function.entry, blocks |-> [b \in DOMAIN function.blocks |->
      LET block == function.blocks[b] IN
      [id |-> block.id, succ |-> Successors(block.term),
       acc |-> [k \in DOMAIN block.code |->
                  [reads |-> RegisterReads(Range(block.code[k].args), function),
                   write |-> WrittenBy(block.code[k])]]
               \o <<[reads |-> RegisterReads(TerminatorOperands(block.term), function), write |-> 0]>>]]]
XmmInitializationOk(function) ==
    LET flow == XmmDataflow(function) IN
    GraphValid(flow) =>
      ~ ReadsUninitialized(flow, Registers(function), {p.sym : p \in Range(function.params)})

XmmFunctionOk(function, module) ==
    /\ SupportedType(function.result)
    /\ RegistersOk(function)
    /\ BlocksOk(function)
    /\ \A b \in Range(function.blocks) :
         /\ \A i \in Range(b.code) :
              /\ SupportedType(i.type)
              /\ \A v \in Range(i.args) : ValueOk(v, function, module)
              /\ XmmOperationOk(i, module) /\ ResultOk(i, function)
         /\ XmmTerminatorOk(b.term, function, module)
    /\ XmmInitializationOk(function)
    /\ OwnershipVerified(function, {})

(* Verify: no issue. *)
XmmVerified(module) ==
    /\ module.name # <<>> /\ SourcesOk(module)
    /\ module.functions # <<>>
    /\ 0 \notin FunctionSymbols(module)
    /\ Cardinality(FunctionSymbols(module)) = Len(module.functions)
    /\ \A f \in Range(module.functions) : XmmFunctionOk(f, module)
-----------------------------------------------------------------------------
(* Optimizer. *)

(* Copies and immediates only: the rest may trap, allocate or own. *)
XmmRemovables(function) ==
    {i \in Range(InstructionsOf(function)) : i.effect = "result" /\ i.op \in {"LoadImmediate", "Move"}}

(* The steps of Xpp's optimizer, over registers. *)
RemoveDeadMaterializations(function) == RemoveDeadCopies(function, {}, XmmRemovables(function))
ThreadRegisterTrampolines(function) == ThreadTrampolines(function)
RetainReachableRegisterBlocks(function) == RetainReachableReversePostorder(function)

RECURSIVE XmmOptimizeUntilStable(_)
XmmOptimizeUntilStable(function) ==
    LET ordered == RetainReachableRegisterBlocks(function)
        next == ThreadRegisterTrampolines(RemoveDeadMaterializations(ordered))
    IN  IF next = function THEN function ELSE XmmOptimizeUntilStable(next)

XmmOptimize(module) ==
    [module EXCEPT !.functions = [i \in DOMAIN @ |-> XmmOptimizeUntilStable(EraseSelfCopies(@[i]))]]
=============================================================================
