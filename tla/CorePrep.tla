------------------------------ MODULE CorePrep ------------------------------
(***************************************************************************)
(* CorePrep: Core as blocks of instructions over atoms.  Prepare           *)
(* (Talac/Core/CorePrep/Prepare.cpp) makes the control flow of statements, *)
(* of && and || and of conditional expressions explicit, names every       *)
(* intermediate value and lifts closures to functions; the verifier is     *)
(* Talac/Core/CorePrep/Verifier.cpp and Verifier/Semantics.cpp.            *)
(*                                                                         *)
(* An instruction here has captures and mut beside the fields of Ir; its   *)
(* effect is Bind, Assign or Evaluate.  The code walks long chains in      *)
(* loops to spare the stack, in the order of the recursion written here.   *)
(***************************************************************************)
EXTENDS Core

(* The cursor: the open block, the closed ones, the next symbol and block, *)
(* the closures to lift, and the targets <<break, continue>> of the loops  *)
(* around, innermost last.                                                 *)
NewCursor(next) ==
    [block |-> 0, code |-> <<>>, closed |-> <<>>, open |-> TRUE, next |-> next, nextBlock |-> 1,
     pending |-> <<>>, loops |-> <<>>]
Emit(c, instruction) == [c EXCEPT !.code = Append(@, instruction)]
Close(c, term) ==
    [c EXCEPT !.closed = Append(@, [id |-> c.block, code |-> c.code, term |-> term]),
              !.code = <<>>, !.open = FALSE]
Open(c, id) == [c EXCEPT !.block = id, !.code = <<>>, !.open = TRUE]
JumpTo(c, id) == Close(c, Jump(id))
JumpIfOpen(c, id) == IF c.open THEN JumpTo(c, id) ELSE c
TakeBlocks(c, n) == [c EXCEPT !.nextBlock = @ + n]
TakeSymbol(c) == [c EXCEPT !.next = @ + 1]

Operation(op, args) == [op |-> op, args |-> args, fn |-> 0, captures |-> <<>>]
EmitOperation(effect, dest, type, mut, r) ==
    Emit(r.c, [effect |-> effect, op |-> r.o.op, dest |-> dest, type |-> type, args |-> r.o.args,
               fn |-> r.o.fn, captures |-> r.o.captures, mut |-> mut])

(* Results pair a cursor c with an atom a or an operation o. *)
CopyOperation(r) == [c |-> r.c, o |-> Operation("Copy", <<r.a>>)]
AssignAtom(dest, type, r) == EmitOperation("Assign", dest, type, FALSE, CopyOperation(r))

(* Fixed-width payloads become sign and magnitude, as the wire reader has  *)
(* them.                                                                   *)
LowerLiteral(e) ==
    Literal(IF e.lit[1] = "fixed" THEN <<"int", e.lit[2]>> ELSE e.lit, e.type)
ZeroForBooleanContext(type) ==
    Literal(IF Kind(type) = "float" THEN <<"float", "0">> ELSE <<"int", 0>>, type)

(* Bind the result of an operation to a fresh temporary. *)
BindTemporary(r, type) ==
    [c |-> EmitOperation("Bind", r.c.next, type, FALSE, [r EXCEPT !.c = TakeSymbol(@)]),
     a |-> Symbol(r.c.next, type)]
Booleanize(r) ==
    IF r.a.type = BoolT THEN r
    ELSE BindTemporary([c |-> r.c, o |-> Operation("NotEqual", <<r.a, ZeroForBooleanContext(r.a.type)>>)], BoolT)

IsShortCircuit(e) == e.kind = "prim" /\ e.op \in {"LogicalAnd", "LogicalOr"} /\ Len(e.args) = 2
IsConditional(e) == e.kind = "conditional" /\ Len(e.args) = 3

RECURSIVE Atomize(_, _), AtomizeOperation(_, _), AtomizeAll(_, _)

(* Expressions in order: [c, as]. *)
AddAtom(as, r) == [c |-> r.c, as |-> Append(as, r.a)]
AtomizeAll(c, expressions) ==
    FoldLeft(LAMBDA r, e : AddAtom(r.as, Atomize(r.c, e)), [c |-> c, as |-> <<>>], expressions)

(* A slot is bound before its arms, which assign it and jump to the join:  *)
(* [c, slot, join].                                                        *)
BindSlot(c, type, initial) ==
    EmitOperation("Bind", c.next, type, TRUE, CopyOperation([c |-> TakeSymbol(c), a |-> initial]))
EndArm(split, type, value) == JumpTo(AssignAtom(split.slot, type, value), split.join)
EndSlot(split, type, value) ==
    [c |-> Open(EndArm(split, type, value), split.join), a |-> Symbol(split.slot, type)]

(* && and ||: the slot holds the value that decides, and the right operand *)
(* runs in a block of its own.                                             *)
SplitShortCircuit(isOr, test) ==
    LET right == test.c.nextBlock
        bound == BindSlot(test.c, BoolT, Literal(<<"bool", isOr>>, BoolT))
        split == Close(TakeBlocks(bound, 2),
                       IF isOr THEN Branch(test.a, right + 1, right) ELSE Branch(test.a, right, right + 1))
    IN  [c |-> Open(split, right), slot |-> test.c.next, join |-> right + 1]
RightOperand(e, split) == EndSlot(split, BoolT, Booleanize(Atomize(split.c, e.args[2])))
FinishShortCircuit(e, left) == RightOperand(e, SplitShortCircuit(e.op = "LogicalOr", Booleanize(left)))

(* A conditional: three blocks, for its arms and the join. *)
SplitConditional(type, test) ==
    LET t == test.c.nextBlock
        neutral == IF type = BoolT THEN Literal(<<"bool", FALSE>>, BoolT) ELSE ZeroForBooleanContext(type)
        split == Close(TakeBlocks(BindSlot(test.c, type, neutral), 3), Branch(test.a, t, t + 1))
    IN  [c |-> Open(split, t), slot |-> test.c.next, join |-> t + 2]
TrueArm(e, split) ==
    [split EXCEPT !.c = Open(EndArm(split, e.type, Atomize(@, e.args[2])), split.join - 1)]
FalseArm(e, split) == EndSlot(split, e.type, Atomize(split.c, e.args[3]))
AtomizeConditional(c, e) ==
    FalseArm(e, TrueArm(e, SplitConditional(e.type, Booleanize(Atomize(c, e.args[1])))))

(* The operands of a primitive whose first operand is evaluated. *)
Booleans(all) ==
    FoldLeft(LAMBDA r, atom : AddAtom(r.as, Booleanize([c |-> r.c, a |-> atom])),
             [c |-> all.c, as |-> <<>>], all.as)
Combine(op, all) == [c |-> all.c, o |-> Operation(op, all.as)]
Precede(atom, rest) == [rest EXCEPT !.as = <<atom>> \o @]
Operands(op, all) == IF op \in Logical THEN Booleans(all) ELSE all
PrimitiveOperation(e, first) ==
    Combine(e.op, Operands(e.op, Precede(first.a, AtomizeAll(first.c, Tail(e.args)))))

(* The closure is named before its captures are evaluated, and its body    *)
(* waits as a function of captures and parameters.                         *)
LiftedClosure(sym, e) ==
    [sym |-> sym, result |-> e.result, body |-> e.body,
     params |-> [i \in DOMAIN e.captures |-> Param(e.captures[i].sym, e.captures[i].type)] \o e.params]
MakeClosure(sym, e, values) ==
    [c |-> [values.c EXCEPT !.pending = Append(@, LiftedClosure(sym, e))],
     o |-> [Operation("MakeClosure", <<>>) EXCEPT
              !.fn = sym,
              !.captures = [i \in DOMAIN e.captures |-> [e.captures[i] EXCEPT !.value = values.as[i]]]]]
ClosureOperation(c, e) ==
    MakeClosure(c.next, e, AtomizeAll(TakeSymbol(c), [i \in DOMAIN e.captures |-> e.captures[i].value]))

AtomizeOperation(c, e) ==
    CASE e.kind \in {"let", "variable", "literal"} \/ IsShortCircuit(e) \/ IsConditional(e) ->
           CopyOperation(Atomize(c, e))
      [] e.kind = "apply" -> Combine("Call", AtomizeAll(c, e.args))
      [] e.kind = "closure" -> ClosureOperation(c, e)
      [] OTHER -> IF e.args = <<>> THEN [c |-> c, o |-> Operation(e.op, <<>>)]
                  ELSE PrimitiveOperation(e, Atomize(c, e.args[1]))

BindLet(c, e) == EmitOperation("Bind", e.sym, e.result, FALSE, AtomizeOperation(c, e.args[1]))

(* A primitive from the atom of its first operand. *)
CompleteFirstOperand(e, first) ==
    IF IsShortCircuit(e) THEN FinishShortCircuit(e, first)
    ELSE BindTemporary(PrimitiveOperation(e, first), e.type)

(* Evaluate into the open block; the atom holds the value. *)
Atomize(c, e) ==
    CASE e.kind = "variable" -> [c |-> c, a |-> Symbol(e.sym, e.type)]
      [] e.kind = "literal" -> [c |-> c, a |-> LowerLiteral(e)]
      [] e.kind = "let" -> Atomize(BindLet(c, e), e.args[2])
      [] e.kind = "conditional" -> AtomizeConditional(c, e)
      [] e.kind = "prim" /\ e.args # <<>> -> CompleteFirstOperand(e, Atomize(c, e.args[1]))
      [] OTHER -> BindTemporary(AtomizeOperation(c, e), e.type)
-----------------------------------------------------------------------------
RECURSIVE PrepareStatements(_, _)

(* break and continue reach the given targets while the region is built; a *)
(* region still open at its end falls through.                             *)
PrepareLoopRegion(c, start, break, continue, fallthrough, statements) ==
    LET inside == Open([c EXCEPT !.loops = Append(@, <<break, continue>>)], start)
        done == JumpIfOpen(PrepareStatements(inside, statements), fallthrough)
    IN  [done EXCEPT !.loops = c.loops]

BranchOn(test, t, f) == Close(test.c, Branch(test.a, t, f))
BranchOnCondition(c, e, t, f) == BranchOn(Booleanize(Atomize(c, e)), t, f)

PrepareBranchRegion(c, start, join, statements) ==
    JumpIfOpen(PrepareStatements(Open(c, start), statements), join)

(* An if: the condition, then three blocks for its branches and join. *)
SplitChain(test) ==
    LET t == test.c.nextBlock IN BranchOn([test EXCEPT !.c = TakeBlocks(@, 3)], t, t + 1)
PrepareBranches(c, t, s) ==
    Open(PrepareBranchRegion(PrepareBranchRegion(c, t, t + 2, s.t), t + 1, t + 2, s.f), t + 2)
PrepareChain(test, s) == PrepareBranches(SplitChain(test), test.c.nextBlock, s)
PrepareConditionalChain(c, s) == PrepareChain(Booleanize(Atomize(c, s.value)), s)

PrepareBinding(c, s) == EmitOperation("Bind", s.sym, s.type, s.mut, AtomizeOperation(c, s.value))
PrepareAssignment(c, s) == AssignAtom(s.sym, s.value.type, Atomize(c, s.value))

(* Only a call is an instruction whose result is dropped. *)
PrepareEvaluation(c, s) ==
    IF s.value.kind # "apply" THEN Atomize(c, s.value).c
    ELSE EmitOperation("Evaluate", 0, s.value.type, FALSE, AtomizeOperation(c, s.value))

ReturnValue(value) == Close(value.c, Return(value.a))
PrepareReturn(c, s) == ReturnValue(Atomize(c, s.value))

(* A planted bug: the outermost loop is the one that is left. *)
PrepareTransferOutermost(c, s) ==
    IF c.loops = <<>> THEN Close(c, Unreachable)
    ELSE JumpTo(c, Head(c.loops)[IF s.kind = "Break" THEN 1 ELSE 2])

(* The targets are those of the innermost loop. *)
PrepareTransfer(c, s) ==
    IF c.loops = <<>> THEN Close(c, Unreachable)
    ELSE JumpTo(c, Last(c.loops)[IF s.kind = "Break" THEN 1 ELSE 2])

PrepareWhile(c, s) ==
    LET header == c.nextBlock
        body == header + 1
        exit == header + 2
        tested == BranchOnCondition(Open(JumpTo(TakeBlocks(c, 3), header), header), s.value, body, exit)
    IN  Open(PrepareLoopRegion(tested, body, exit, header, header, s.body), exit)
PrepareDoWhile(c, s) ==
    LET body == c.nextBlock
        test == body + 1
        exit == body + 2
        run == PrepareLoopRegion(JumpTo(TakeBlocks(c, 3), body), body, exit, test, test, s.body)
    IN  Open(BranchOnCondition(Open(run, test), s.value, body, exit), exit)

(* continue enters the update region, which returns to the condition. *)
PrepareFor(c, s) ==
    LET header == c.nextBlock
        body == header + 1
        update == header + 2
        exit == header + 3
        tested == BranchOnCondition(Open(JumpTo(TakeBlocks(c, 4), header), header), s.value, body, exit)
        run == PrepareLoopRegion(tested, body, exit, update, update, s.body)
    IN  Open(PrepareLoopRegion(run, update, exit, update, header, s.update), exit)

PrepareStatement(c, s) ==
    CASE s.kind = "Bind" -> PrepareBinding(c, s)
      [] s.kind = "Assign" -> PrepareAssignment(c, s)
      [] s.kind = "Evaluate" -> PrepareEvaluation(c, s)
      [] s.kind = "Return" -> PrepareReturn(c, s)
      [] s.kind \in {"Break", "Continue"} -> PrepareTransfer(c, s)
      [] s.kind = "While" -> PrepareWhile(c, s)
      [] s.kind = "DoWhile" -> PrepareDoWhile(c, s)
      [] s.kind = "For" -> PrepareFor(c, s)
      [] s.kind = "If" -> PrepareConditionalChain(c, s)

(* What follows a return, break or continue is not lowered. *)
PrepareStatements(c, statements) ==
    IF statements = <<>> THEN c
    ELSE PrepareStatements(PrepareStatement(c, Head(statements)),
                           IF Head(statements).kind \in {"Return", "Break", "Continue"} THEN <<>>
                           ELSE Tail(statements))

FallOffEnd(c, function) ==
    IF ~ c.open THEN c
    ELSE Close(c, IF function.result = UnitT THEN Return(NoOperand) ELSE Unreachable)
PreparedFunction(function, done) ==
    [f |-> [sym |-> function.sym, params |-> function.params, result |-> function.result,
            entry |-> 0, blocks |-> done.closed, source |-> function.source],
     pending |-> done.pending, next |-> done.next]
PrepareFunction(function, next) ==
    PreparedFunction(function, FallOffEnd(PrepareStatements(NewCursor(next), function.body), function))

RECURSIVE ExpressionSymbols(_), StatementSymbols(_)
ExpressionSymbols(e) ==
    {e.sym} \union UNION {ExpressionSymbols(a) : a \in Range(e.args)}
    \union UNION {{c.sym} \union ExpressionSymbols(c.value) : c \in Range(e.captures)}
    \union {p.sym : p \in Range(e.params)} \union StatementSymbols(e.body)
StatementSymbols(statements) ==
    UNION {{s.sym} \union ExpressionSymbols(s.value)
             \union StatementSymbols(s.t \o s.f \o s.body \o s.update) : s \in Range(statements)}
HighestFunctionSymbol(function) ==
    Max({function.sym} \union {p.sym : p \in Range(function.params)} \union StatementSymbols(function.body))

(* The queue: lifted bodies follow the functions of the module and take    *)
(* the source of the function they stand in.                               *)
LiftedBodies(prepared, function) ==
    [i \in DOMAIN prepared.pending |-> [source |-> function.source] @@ prepared.pending[i]]
RECURSIVE PrepareQueue(_, _, _), PrepareRest(_, _, _)
PrepareQueue(queue, done, next) ==
    IF queue = <<>> THEN done ELSE PrepareRest(queue, done, PrepareFunction(Head(queue), next))
PrepareRest(queue, done, prepared) ==
    PrepareQueue(Tail(queue) \o LiftedBodies(prepared, Head(queue)), Append(done, prepared.f), prepared.next)

Prepare(module) ==
    LET first == Max({1} \union {HighestFunctionSymbol(f) + 1 : f \in Range(module.functions)}) IN
    [module EXCEPT !.functions = PrepareQueue(@, <<>>, first)]
-----------------------------------------------------------------------------
(* Verifier. *)
PreparedCode(function) == FlattenSeq([i \in DOMAIN function.blocks |-> function.blocks[i].code])

(* The parameters some closure fills may be assigned. *)
CapturedParameters(module, sym) ==
    UNION {{c.sym : c \in Range(i.captures)} :
             i \in {k \in UNION {Range(PreparedCode(f)) : f \in Range(module.functions)} :
                      k.op = "MakeClosure" /\ k.fn = sym}}

(* What a function may name: functions first, then parameters, then the    *)
(* first binding of a symbol.                                              *)
DefinitionsOf(function, module) ==
    LET code == PreparedCode(function)
        params == FoldLeft(LAMBDA d, p : Define(d, p.sym, p.type, p.sym \in CapturedParameters(module, function.sym)),
                           <<>>, function.params)
        binds == FoldRight(LAMBDA i, d : IF i.effect = "Bind" THEN Define(d, i.dest, i.type, i.mut) ELSE d,
                           code, <<>>)
    IN  FunctionDefinitions(module) @@ params @@ binds

AtomOk(atom, defs) ==
    /\ ~ ContainsInvalidType(atom.type)
    /\ IF atom.kind = "symbol"
         THEN atom.sym # 0 /\ atom.sym \in DOMAIN defs /\ defs[atom.sym].type = atom.type
         ELSE LiteralMatches(atom.lit, atom.type)

PreparedClosureOk(i, module, defs) ==
    /\ i.fn # 0
    /\ \E f \in Range(module.functions) :
         /\ f.sym = i.fn
         /\ ClosureContract([k \in DOMAIN i.captures |-> i.captures[k].type],
                            [k \in DOMAIN f.params |-> f.params[k].type], f.result, i.type) = "None"
    /\ \A c \in Range(i.captures) :
         /\ c.sym # 0 /\ ~ ContainsInvalidType(c.type)
         /\ AtomOk(c.value, defs) /\ c.value.type = c.type
         /\ c.mode # "Strong" => IsAarc(c.type)

OperandsFit(i) ==
    LET first == i.args[1].type
        pair == Len(i.args) = 2 /\ first = i.args[2].type
    IN  CASE i.op = "Copy" -> Len(i.args) = 1
          [] i.op = "TypeIs" -> /\ Len(i.args) = 2 /\ Kind(first) \in {"named", "str", "fn"}
                                /\ i.args[2].type = UIntT
          [] i.op = "Call" -> /\ i.args # <<>> /\ Kind(first) = "fn"
                              /\ first[2] = [k \in 1..Len(i.args) - 1 |-> i.args[k + 1].type]
          [] i.op = "Negate" -> Len(i.args) = 1 /\ Kind(first) \in {"int", "float"}
          [] i.op = "LogicalNot" -> Len(i.args) = 1 /\ AcceptsBooleanContext(first)
          [] i.op = "BitwiseNot" -> Len(i.args) = 1 /\ IsInteger(first)
          [] i.op = "RuntimeCall" -> RuntimeDefect(i.args, i.type) = "None"
          [] i.op = "Memoize" -> Remembers(i.args)
          [] i.op \in Bitwise -> pair /\ IsInteger(first)
          [] i.op \in Logical -> pair /\ AcceptsBooleanContext(first)
          [] i.op \in Equality -> pair
          [] OTHER -> pair /\ IsNumeric(first)

(* The type a binding takes from its operation. *)
OperationType(i) ==
    CASE i.op = "Call" -> i.args[1].type[3]
      [] i.op \in Logical \union Ordering \union Equality \union {"TypeIs"} -> BoolT
      [] i.op = "FloorDivide" -> RoundedResult(i.args[1].type)
      [] i.op = "RuntimeCall" -> i.type
      [] OTHER -> i.args[1].type

PreparedInstructionOk(i, module, defs) ==
    /\ i.effect # "Evaluate" => i.dest # 0
    /\ i.effect = "Bind" => ~ ContainsInvalidType(i.type)
    /\ i.effect = "Assign" =>
         /\ i.dest \in DOMAIN defs /\ defs[i.dest].mut
         /\ Len(i.args) = 1 => defs[i.dest].type = i.args[1].type
    /\ \A a \in Range(i.args) : AtomOk(a, defs)
    /\ IF i.op = "MakeClosure" THEN PreparedClosureOk(i, module, defs)
       ELSE OperandsFit(i) /\ (i.effect = "Bind" => OperationType(i) = i.type)

PreparedTerminatorOk(term, function, defs) ==
    LET ids == {b.id : b \in Range(function.blocks)} IN
    CASE term.kind = "Return" -> AtomOk(term.value, defs) /\ term.value.type = function.result
      [] term.kind = "Branch" ->
           AtomOk(term.value, defs) /\ Kind(term.value.type) = "bool" /\ {term.t, term.f} \subseteq ids
      [] term.kind = "Jump" -> term.t \in ids
      [] term.kind = "Unreachable" -> TRUE

PreparedFunctionOk(function, module) ==
    LET defs == DefinitionsOf(function, module)
        binds == SelectSeq(PreparedCode(function), LAMBDA i : i.effect = "Bind")
        names == [i \in DOMAIN function.params |-> function.params[i].sym] \o
                 [i \in DOMAIN binds |-> binds[i].dest]
    IN  /\ ~ ContainsInvalidType(function.result)
        /\ IsInjective([i \in DOMAIN function.blocks |-> function.blocks[i].id])
        /\ \E b \in Range(function.blocks) : b.id = function.entry
        /\ IsInjective(names)
        /\ \A p \in Range(function.params) : p.sym # 0 /\ ~ ContainsInvalidType(p.type)
        /\ \A b \in Range(function.blocks) :
             /\ \A i \in Range(b.code) : PreparedInstructionOk(i, module, defs)
             /\ PreparedTerminatorOk(b.term, function, defs)

(* verify: no issue. *)
CorePrepVerified(module) ==
    /\ SourcesOk(module)
    /\ \A f \in Range(module.functions) : f.sym # 0
    /\ IsInjective([i \in DOMAIN module.functions |-> module.functions[i].sym])
    /\ \A f \in Range(module.functions) : PreparedFunctionOk(f, module)
=============================================================================
