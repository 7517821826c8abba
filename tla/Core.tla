-------------------------------- MODULE Core --------------------------------
(***************************************************************************)
(* Core, the typed tree the frontend hands over, and its verifier          *)
(* (Talac/Core/Verifier.cpp).  An expression is a record                   *)
(* [kind, type, sym, lit, op, args, captures, params, body, result]: a     *)
(* call keeps its callee as its first argument, a let its value and body   *)
(* as its two arguments and the type of its symbol as its result.  A       *)
(* statement is [kind, sym, type, mut, value, t, f, body, update].         *)
(* Symbols are compared by identity; spellings are left out.               *)
(***************************************************************************)
EXTENDS Ir, TLC

Expr(kind, type) ==
    [kind |-> kind, type |-> type, sym |-> 0, lit |-> <<"none">>, op |-> "none", args |-> <<>>,
     captures |-> <<>>, params |-> <<>>, body |-> <<>>, result |-> UnitT]
Var(sym, type) == [Expr("variable", type) EXCEPT !.sym = sym]
Const(lit, type) == [Expr("literal", type) EXCEPT !.lit = lit]
Apply(callee, args, type) == [Expr("apply", type) EXCEPT !.args = <<callee>> \o args]
Prim(op, args, type) == [Expr("prim", type) EXCEPT !.op = op, !.args = args]
Let(sym, value, body) ==
    [Expr("let", body.type) EXCEPT !.sym = sym, !.result = value.type, !.args = <<value, body>>]
Conditional(test, t, f) == [Expr("conditional", t.type) EXCEPT !.args = <<test, t, f>>]
Closure(captures, params, body, result) ==
    [Expr("closure", FnT([i \in DOMAIN params |-> params[i].type], result)) EXCEPT
       !.captures = captures, !.params = params, !.body = body, !.result = result]
Capture(mode, sym, value) == [mode |-> mode, sym |-> sym, type |-> value.type, value |-> value]

Stmt(kind, value) ==
    [kind |-> kind, sym |-> 0, type |-> UnitT, mut |-> FALSE, value |-> value,
     t |-> <<>>, f |-> <<>>, body |-> <<>>, update |-> <<>>]
NoValue == Const(<<"none">>, UnitT)
Bind(sym, mut, value) == [Stmt("Bind", value) EXCEPT !.sym = sym, !.type = value.type, !.mut = mut]
Assign(sym, value) == [Stmt("Assign", value) EXCEPT !.sym = sym]
Evaluate(value) == Stmt("Evaluate", value)
Give(value) == Stmt("Return", value)
If(test, t, f) == [Stmt("If", test) EXCEPT !.t = t, !.f = f]
While(test, body) == [Stmt("While", test) EXCEPT !.body = body]
DoWhile(body, test) == [Stmt("DoWhile", test) EXCEPT !.body = body]
For(test, update, body) == [Stmt("For", test) EXCEPT !.body = body, !.update = update]
Break == Stmt("Break", NoValue)
Continue == Stmt("Continue", NoValue)

Param(sym, type) == [sym |-> sym, type |-> type]
CoreFunction(sym, params, result, body) ==
    [sym |-> sym, params |-> params, result |-> result, body |-> body, source |-> "main.tala"]
CoreModule(functions) ==
    [name |-> <<"Main">>, functions |-> functions, sources |-> <<"main.tala">>]

Loops == {"While", "DoWhile", "For"}
Logical == {"LogicalAnd", "LogicalOr", "LogicalNot"}
Ordering == {"LessThan", "LessEqual", "GreaterThan", "GreaterEqual"}
Equality == {"Equal", "NotEqual"}
Bitwise == {"ShiftLeft", "ShiftRight", "BitwiseAnd", "BitwiseXor", "BitwiseOr", "BitwiseNot"}
UnaryPrimitives == {"Negate", "LogicalNot", "BitwiseNot", "Memoize"}
AcceptsBooleanContext(type) == Kind(type) = "bool" \/ IsNumeric(type)
-----------------------------------------------------------------------------
(* An unresolved component anywhere in a type. *)
RECURSIVE ContainsInvalidType(_)
ContainsInvalidType(type) ==
    \/ Kind(type) = "error"
    \/ /\ Kind(type) = "fn"
       /\ ContainsInvalidType(type[3]) \/ \E p \in Range(type[2]) : ContainsInvalidType(p)

(* The breaks that leave a loop are those in its own statements; one in a  *)
(* nested loop leaves that loop.                                           *)
RECURSIVE BreaksOut(_)
BreaksOut(statements) ==
    \E s \in Range(statements) :
      s.kind = "Break" \/ (s.kind = "If" /\ (BreaksOut(s.t) \/ BreaksOut(s.f)))
CannotBeLeft(s) ==
    /\ s.kind \in Loops
    /\ s.value.kind = "literal" /\ s.value.lit = <<"bool", TRUE>>
    /\ ~ BreaksOut(s.body) /\ ~ BreaksOut(s.update)

(* Control never falls off the end of the statements. *)
RECURSIVE AlwaysReturns(_)
AlwaysReturns(statements) ==
    \E s \in Range(statements) :
      \/ s.kind = "Return" \/ CannotBeLeft(s)
      \/ s.kind = "If" /\ s.f # <<>> /\ AlwaysReturns(s.t) /\ AlwaysReturns(s.f)
-----------------------------------------------------------------------------
(* The environment: symbol -> [type, mut].  The functions of the module    *)
(* are found after the locals, and cannot be bound or assigned.            *)
Define(env, sym, type, mut) == (sym :> [type |-> type, mut |-> mut]) @@ env
SignatureOf(function) ==
    FnT([i \in DOMAIN function.params |-> function.params[i].type], function.result)
FunctionDefinitions(module) ==
    [s \in {f.sym : f \in Range(module.functions)} |->
       [type |-> SignatureOf(CHOOSE f \in Range(module.functions) : f.sym = s), mut |-> FALSE]]

PrimitiveOk(e) ==
    LET first == e.args[1].type
        memoize == e.op = "Memoize"
        typeTest == e.op = "TypeIs"
    IN  IF e.op = "RuntimeCall" THEN RuntimeDefect(e.args, e.type) = "None"
        ELSE
          /\ Len(e.args) = IF e.op \in UnaryPrimitives THEN 1 ELSE 2
          /\ e.op \notin Logical /\ ~ typeTest => \A a \in Range(e.args) : a.type = first
          /\ IF memoize THEN Remembers(e.args)
             ELSE IF typeTest
               THEN Kind(first) \in {"named", "str", "fn"} /\ e.args[2].type = UIntT
             ELSE IF e.op \in Logical
               THEN \A a \in Range(e.args) : AcceptsBooleanContext(a.type)
             ELSE IF e.op \in Bitwise THEN IsInteger(first)
             ELSE e.op \in Equality \/ IsNumeric(first)
          /\ e.op = "Negate" => Kind(first) \in {"int", "float"}
          /\ e.type = IF e.op \in Logical \union Ordering \union Equality \/ typeTest THEN BoolT
                      ELSE IF e.op = "FloorDivide" THEN RoundedResult(first) ELSE first

CallOfOk(e) ==
    LET callee == e.args[1].type IN
    /\ Kind(callee) = "fn"
    /\ callee[2] = [i \in 1..Len(e.args) - 1 |-> e.args[i + 1].type]
    /\ callee[3] = e.type

ConditionalOk(e) ==
    /\ AcceptsBooleanContext(e.args[1].type)
    /\ e.args[2].type = e.type /\ e.args[3].type = e.type
    /\ AcceptsBooleanContext(e.type)        \* the slot owns nothing

(* Statements give [ok, env]: what they define is seen by those after. *)
RECURSIVE VerifyExpression(_, _), VerifyStatements(_, _, _, _), VerifyStatement(_, _, _, _)

CaptureOk(c, env) ==
    /\ c.sym # 0 /\ ~ ContainsInvalidType(c.type)
    /\ c.mode # "Strong" => UsesAarc(c.type) \/ Kind(c.type) = "named"
    /\ VerifyExpression(c.value, env) /\ c.value.type = c.type

(* The closure sees its captures, which it may assign, its parameters, and *)
(* whatever surrounds it.                                                  *)
VerifyClosure(e, env) ==
    LET locals == [i \in DOMAIN e.captures |-> e.captures[i].sym] \o
                  [i \in DOMAIN e.params |-> e.params[i].sym]
        captured == FoldLeft(LAMBDA n, c : Define(n, c.sym, c.type, TRUE), env, e.captures)
        inside == FoldLeft(LAMBDA n, p : Define(n, p.sym, p.type, FALSE), captured, e.params)
    IN  /\ ~ ContainsInvalidType(e.result)
        /\ \A c \in Range(e.captures) : CaptureOk(c, env)
        /\ \A p \in Range(e.params) : p.sym # 0 /\ ~ ContainsInvalidType(p.type)
        /\ IsInjective(locals)
        /\ e.type = FnT([i \in DOMAIN e.params |-> e.params[i].type], e.result)
        /\ VerifyStatements(e.body, inside, e.result, "OutsideLoop").ok
        /\ e.result # UnitT => AlwaysReturns(e.body)

VerifyLet(e, env) ==
    /\ e.sym # 0 /\ ~ ContainsInvalidType(e.result)
    /\ VerifyExpression(e.args[1], env) /\ e.args[1].type = e.result
    /\ VerifyExpression(e.args[2], Define(env, e.sym, e.result, FALSE))
    /\ e.args[2].type = e.type

VerifyExpression(e, env) ==
    /\ ~ ContainsInvalidType(e.type)
    /\ CASE e.kind = "variable" -> e.sym # 0 /\ e.sym \in DOMAIN env /\ env[e.sym].type = e.type
         [] e.kind = "literal" -> LiteralMatches(e.lit, e.type)
         [] e.kind = "closure" -> VerifyClosure(e, env)
         [] e.kind = "let" -> VerifyLet(e, env)
         [] OTHER ->
              /\ \A a \in Range(e.args) : VerifyExpression(a, env)
              /\ CASE e.kind = "apply" -> CallOfOk(e)
                   [] e.kind = "prim" -> PrimitiveOk(e)
                   [] e.kind = "conditional" -> ConditionalOk(e)

VerifyBinding(s, env) ==
    /\ s.sym # 0 /\ ~ ContainsInvalidType(s.type)
    /\ VerifyExpression(s.value, env) /\ s.value.type = s.type
    /\ s.sym \notin DOMAIN env

VerifyAssignment(s, env) ==
    /\ s.sym # 0 /\ VerifyExpression(s.value, env)
    /\ s.sym \in DOMAIN env /\ env[s.sym].mut /\ env[s.sym].type = s.value.type

(* Each link of a chain of else-ifs is read in the environment of the if. *)
VerifyConditionalChain(s, env, result, scope) ==
    /\ VerifyExpression(s.value, env) /\ AcceptsBooleanContext(s.value.type)
    /\ VerifyStatements(s.t, env, result, scope).ok
    /\ VerifyStatements(s.f, env, result, scope).ok

VerifyLoop(s, env, result) ==
    /\ VerifyExpression(s.value, env) /\ AcceptsBooleanContext(s.value.type)
    /\ VerifyStatements(s.body, env, result, "InLoopBody").ok
    /\ VerifyStatements(s.update, env, result, "InForUpdate").ok

VerifyStatement(s, env, result, scope) ==
    CASE s.kind = "Bind" -> VerifyBinding(s, env)
      [] s.kind = "Assign" -> VerifyAssignment(s, env)
      [] s.kind = "Evaluate" -> VerifyExpression(s.value, env)
      [] s.kind = "Return" -> VerifyExpression(s.value, env) /\ s.value.type = result
      [] s.kind = "If" -> VerifyConditionalChain(s, env, result, scope)
      [] s.kind \in Loops -> VerifyLoop(s, env, result)
      [] s.kind = "Break" -> scope # "OutsideLoop"
      [] s.kind = "Continue" -> scope = "InLoopBody"

VerifyStatements(statements, env, result, scope) ==
    FoldLeft(LAMBDA seen, s :
               [ok |-> seen.ok /\ VerifyStatement(s, seen.env, result, scope),
                env |-> IF s.kind = "Bind" THEN Define(seen.env, s.sym, s.type, s.mut) ELSE seen.env],
             [ok |-> TRUE, env |-> env], statements)

CoreFunctionOk(function, functions) ==
    LET env == FoldLeft(LAMBDA n, p : Define(n, p.sym, p.type, FALSE), functions, function.params) IN
    /\ function.sym # 0 /\ ~ ContainsInvalidType(function.result)
    /\ IsInjective([i \in DOMAIN function.params |-> function.params[i].sym])
    /\ \A p \in Range(function.params) : p.sym # 0 /\ ~ ContainsInvalidType(p.type)
    /\ VerifyStatements(function.body, env, function.result, "OutsideLoop").ok
    /\ function.result # UnitT => AlwaysReturns(function.body)

(* Verify: no issue. *)
CoreVerified(module) ==
    /\ module.name # <<>> /\ SourcesOk(module)
    /\ Cardinality({f.sym : f \in Range(module.functions)}) = Len(module.functions)
    /\ \A f \in Range(module.functions) : CoreFunctionOk(f, FunctionDefinitions(module))
=============================================================================
