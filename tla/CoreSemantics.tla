--------------------------- MODULE CoreSemantics ----------------------------
(***************************************************************************)
(* What a Core program means, as a reference to hold the compiler to: the  *)
(* program is evaluated as a tree, with mathematical integers wrapped to   *)
(* their type, texts as sequences and callables as closures over values.   *)
(* Nothing here is taken from a lowering: there are no blocks, no slots,   *)
(* no references and no bit patterns.                                      *)
(*                                                                         *)
(* What is observed is the sequence of texts written to the console and    *)
(* how the program ended: returned, trapped (a value that cannot be        *)
(* computed), or out of fuel, which counts calls and turns of loops.       *)
(***************************************************************************)
EXTENDS Core

Bits == 0 .. Width - 1
InType(n, type) ==
    LET low == n % 2 ^ Width IN
    IF Kind(type) = "int" /\ low >= 2 ^ (Width - 1) THEN low - 2 ^ Width ELSE low
BitsOf(n) == {i \in Bits : ((n % 2 ^ Width) \div 2 ^ i) % 2 = 1}
Sum(bits) == FoldSet(LAMBDA i, n : n + 2 ^ i, 0, bits)
Size(n) == IF n < 0 THEN -n ELSE n
WithSign(size, a, b) == IF (a < 0) = (b < 0) THEN size ELSE -size

(* The integer nearest to a / b, an exact half away from zero. *)
Nearest(a, b) == WithSign((2 * Size(a) + Size(b)) \div (2 * Size(b)), a, b)
TowardsZero(a, b) == WithSign(Size(a) \div Size(b), a, b)
PowerOf(a, k) == IF k = 0 THEN 1 ELSE a ^ k

Uncomputable(op, a, b) ==
    \/ op \in {"Divide", "FloorDivide", "Remainder"} /\ b = 0
    \/ op \in {"ShiftLeft", "ShiftRight"} /\ b \notin Bits

Compute(op, a, b, type) ==
    CASE op = "Add" -> InType(a + b, type)
      [] op = "Subtract" -> InType(a - b, type)
      [] op = "Multiply" -> InType(a * b, type)
      [] op = "Divide" -> InType(TowardsZero(a, b), type)
      [] op = "FloorDivide" -> InType(Nearest(a, b), type)
      [] op = "Remainder" -> InType(a - b * TowardsZero(a, b), type)
      [] op = "Power" -> InType(PowerOf(a, b % 2 ^ Width), type)
      [] op = "ShiftLeft" -> InType(a * 2 ^ b, type)
      [] op = "ShiftRight" -> InType(a \div 2 ^ b, type)
      [] op = "BitwiseAnd" -> InType(Sum(BitsOf(a) \intersect BitsOf(b)), type)
      [] op = "BitwiseOr" -> InType(Sum(BitsOf(a) \union BitsOf(b)), type)
      [] op = "BitwiseXor" ->
           InType(Sum((BitsOf(a) \union BitsOf(b)) \ (BitsOf(a) \intersect BitsOf(b))), type)

Compares(op, a, b) ==
    CASE op = "LessThan" -> a < b [] op = "LessEqual" -> a <= b
      [] op = "GreaterThan" -> a > b [] op = "GreaterEqual" -> a >= b
-----------------------------------------------------------------------------
(* Values: <<"int", n>>, <<"bool", b>>, <<"str", text>>, <<"unit">>,       *)
(* <<"fn", symbol>>, <<"closure", environment, expression>>, <<"memo", k>>.*)
Truth(v) == IF v[1] = "bool" THEN v[2] ELSE v[2] # 0
Truly(b) == <<"bool", b>>
Nothing == <<"unit">>

Begin(fuel) == [trace |-> <<>>, memos |-> <<>>, fuel |-> fuel, status |-> "running"]
Stop(st, status) == [st EXCEPT !.status = status]
Burn(st) == IF st.fuel = 0 THEN Stop(st, "timeout") ELSE [st EXCEPT !.fuel = @ - 1]
Goes(st) == st.status = "running"

(* Evaluation gives [st, v]; execution gives [st, env, flow, v]. *)
RECURSIVE Eval(_, _, _, _), Exec(_, _, _, _), Turn(_, _, _, _), Call(_, _, _, _)

Returns(st, v) == [st |-> st, v |-> v]
AddValue(vs, r) == [st |-> r.st, vs |-> Append(vs, r.v)]
EvalAll(fs, es, env, st) ==
    FoldLeft(LAMBDA r, e : AddValue(r.vs, Eval(fs, e, env, r.st)), [st |-> st, vs |-> <<>>], es)

Bound(params, args) ==
    [s \in {p.sym : p \in Range(params)} |-> args[CHOOSE i \in DOMAIN params : params[i].sym = s]]
Result(done) == Returns(done.st, done.v)
Body(fs, params, body, args, outer, st) == Result(Exec(fs, body, Bound(params, args) @@ outer, Burn(st)))

Remember(k, made) == [made EXCEPT !.st.memos[k].known = TRUE, !.st.memos[k].v = made.v]
Call(fs, callee, args, st) ==
    CASE callee[1] = "fn" ->
           LET f == CHOOSE g \in Range(fs) : g.sym = callee[2] IN Body(fs, f.params, f.body, args, <<>>, st)
      [] callee[1] = "closure" -> Body(fs, callee[3].params, callee[3].body, args, callee[2], st)
      [] callee[1] = "memo" ->
           LET memo == st.memos[callee[2]] IN
           IF memo.known THEN Returns(st, memo.v) ELSE Remember(callee[2], Call(fs, memo.held, <<>>, st))

EvalRuntime(e, vs, st) ==
    LET name == RuntimeFunctions[e.args[1].lit[2]] IN
    CASE name = "ConsoleWrite" -> [st |-> [st EXCEPT !.trace = Append(@, vs[2][2])], v |-> Nothing]
      [] name = "TextConcat" -> [st |-> st, v |-> <<"str", vs[2][2] \o vs[3][2]>>]
      [] name = "TextEquals" -> [st |-> st, v |-> Truly(vs[2] = vs[3])]

EvalPrimitive(e, vs, st) ==
    LET a == vs[1]
        b == vs[2]
    IN  CASE e.op = "RuntimeCall" -> EvalRuntime(e, vs, st)
          [] e.op = "Memoize" ->
               [st |-> [st EXCEPT !.memos = Append(@, [known |-> FALSE, v |-> Nothing, held |-> a])],
                v |-> <<"memo", Len(st.memos) + 1>>]
          [] e.op = "LogicalNot" -> Returns(st, Truly(~ Truth(a)))
          [] e.op = "Negate" -> Returns(st, <<"int", InType(-a[2], e.type)>>)
          [] e.op = "BitwiseNot" -> Returns(st, <<"int", InType(Sum(Bits \ BitsOf(a[2])), e.type)>>)
          [] e.op = "Equal" -> Returns(st, Truly(a = b))
          [] e.op = "NotEqual" -> Returns(st, Truly(a # b))
          [] e.op \in Ordering -> Returns(st, Truly(Compares(e.op, a[2], b[2])))
          [] OTHER -> IF Uncomputable(e.op, a[2], b[2]) THEN Returns(Stop(st, "trapped"), Nothing)
                      ELSE Returns(st, <<"int", Compute(e.op, a[2], b[2], e.type)>>)

AsTruth(r) == IF Goes(r.st) THEN Returns(r.st, Truly(Truth(r.v))) ELSE r
RightLogical(fs, e, env, left) ==
    IF ~ Goes(left.st) \/ Truth(left.v) = (e.op = "LogicalOr")
      THEN Returns(left.st, Truly(e.op = "LogicalOr"))
      ELSE AsTruth(Eval(fs, e.args[2], env, left.st))

InBody(fs, e, env, value) == Eval(fs, e.args[2], (e.sym :> value.v) @@ env, value.st)
Arm(fs, e, env, test) ==
    IF ~ Goes(test.st) THEN test ELSE Eval(fs, e.args[IF Truth(test.v) THEN 2 ELSE 3], env, test.st)
Captured(e, all) == Returns(all.st, <<"closure", Bound(e.captures, all.vs), e>>)
CallWith(fs, all) ==
    IF Goes(all.st) THEN Call(fs, Head(all.vs), Tail(all.vs), all.st) ELSE Returns(all.st, Nothing)
Operate(e, all) == IF Goes(all.st) THEN EvalPrimitive(e, all.vs, all.st) ELSE Returns(all.st, Nothing)

Eval(fs, e, env, st) ==
    IF ~ Goes(st) THEN Returns(st, Nothing)
    ELSE
      CASE e.kind = "variable" -> Returns(st, IF e.sym \in DOMAIN env THEN env[e.sym] ELSE <<"fn", e.sym>>)
        [] e.kind = "literal" ->
             Returns(st, CASE e.lit[1] = "fixed" -> <<"int", e.lit[2]>>
                           [] e.lit[1] = "none" -> Nothing [] OTHER -> e.lit)
        [] e.kind = "closure" ->
             Captured(e, EvalAll(fs, [i \in DOMAIN e.captures |-> e.captures[i].value], env, st))
        [] e.kind = "let" -> InBody(fs, e, env, Eval(fs, e.args[1], env, st))
        [] e.kind = "conditional" -> Arm(fs, e, env, Eval(fs, e.args[1], env, st))
        [] e.kind = "apply" -> CallWith(fs, EvalAll(fs, e.args, env, st))
        [] e.kind = "prim" /\ e.op \in {"LogicalAnd", "LogicalOr"} ->
             RightLogical(fs, e, env, Eval(fs, e.args[1], env, st))
        [] OTHER -> Operate(e, EvalAll(fs, e.args, env, st))
-----------------------------------------------------------------------------
Ends(st, env, flow, v) == [st |-> st, env |-> env, flow |-> flow, v |-> v]

(* One test of a loop and, if it holds, one turn and the rest. *)
Update(fs, s, body) ==
    IF body.flow \in {"next", "continue"} THEN Exec(fs, s.update, body.env, body.st) ELSE body
AfterTurn(fs, s, last) ==
    IF last.flow = "return" THEN last
    ELSE IF ~ Goes(last.st) \/ last.flow = "break" THEN [last EXCEPT !.flow = "next"]
    ELSE Turn(fs, s, last.env, last.st)
Tested(fs, s, env, test) ==
    IF ~ Goes(test.st) \/ ~ Truth(test.v) THEN Ends(test.st, env, "next", Nothing)
    ELSE AfterTurn(fs, s, Update(fs, s, Exec(fs, s.body, env, test.st)))
Turn(fs, s, env, st) == Tested(fs, s, env, Eval(fs, s.value, env, Burn(st)))
FirstTurn(fs, s, env, st) == AfterTurn(fs, s, Exec(fs, s.body, env, Burn(st)))

WithValue(fs, s, env, value) ==
    CASE s.kind \in {"Bind", "Assign"} -> Ends(value.st, (s.sym :> value.v) @@ env, "next", Nothing)
      [] s.kind = "Evaluate" \/ ~ Goes(value.st) -> Ends(value.st, env, "next", Nothing)
      [] s.kind = "Return" -> Ends(value.st, env, "return", value.v)
      [] s.kind = "If" -> Exec(fs, IF Truth(value.v) THEN s.t ELSE s.f, env, value.st)
ExecOne(fs, s, env, st) ==
    CASE s.kind = "Break" -> Ends(st, env, "break", Nothing)
      [] s.kind = "Continue" -> Ends(st, env, "continue", Nothing)
      [] s.kind \in {"While", "For"} -> Turn(fs, s, env, st)
      [] s.kind = "DoWhile" -> FirstTurn(fs, s, env, st)
      [] OTHER -> WithValue(fs, s, env, Eval(fs, s.value, env, st))

ExecRest(fs, statements, one) ==
    IF one.flow # "next" THEN one ELSE Exec(fs, statements, one.env, one.st)
Exec(fs, statements, env, st) ==
    IF statements = <<>> \/ ~ Goes(st) THEN Ends(st, env, "next", Nothing)
    ELSE ExecRest(fs, Tail(statements), ExecOne(fs, Head(statements), env, st))

(* What the console shows and how the program ends. *)
Observed(st) == [trace |-> st.trace, status |-> IF Goes(st) THEN "returned" ELSE st.status]
Meaning(module, main, fuel) == Observed(Call(module.functions, <<"fn", main>>, <<>>, Begin(fuel)).st)
=============================================================================
