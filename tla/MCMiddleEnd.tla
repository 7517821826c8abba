---------------------------- MODULE MCMiddleEnd -----------------------------
(***************************************************************************)
(* The programs the middle end is checked on.  Five families: sequences of *)
(* statements about texts, callables and loops; conditions whose parts     *)
(* have effects; arithmetic over every pair of operands, and arithmetic    *)
(* whose result nobody uses; and programs Core's verifier rejects.         *)
(***************************************************************************)
EXTENDS MiddleEnd

CONSTANTS Pairs, Triples        \* pools of statements, by number

Text(x) == Const(<<"str", <<x>>>>, StrT)
IntOf(n) == Const(<<"fixed", n>>, IntT)
Truthful(b) == Const(<<"bool", b>>, BoolT)
Runtime(k, args, type) == Prim("RuntimeCall", <<IntOf(k)>> \o args, type)
Concat(a, b) == Runtime(1, <<a, b>>, StrT)
Thunk == FnT(<<>>, StrT)

(* The functions every program has: say writes its text, same returns it,  *)
(* yes writes and is true, no writes and is false, twice calls a callable  *)
(* two times.                                                              *)
Say(e) == Evaluate(Apply(Var(2, FnT(<<StrT>>, UnitT)), <<e>>, UnitT))
SameFn == Var(3, FnT(<<StrT>>, StrT))
Same(e) == Apply(SameFn, <<e>>, StrT)
Yes == Apply(Var(4, FnT(<<>>, BoolT)), <<>>, BoolT)
No == Apply(Var(5, FnT(<<>>, BoolT)), <<>>, BoolT)
Twice(e) == Evaluate(Apply(Var(6, FnT(<<Thunk>>, UnitT)), <<e>>, UnitT))
Helpers ==
    <<CoreFunction(2, <<Param(21, StrT)>>, UnitT, <<Evaluate(Runtime(2, <<Var(21, StrT)>>, UnitT))>>),
      CoreFunction(3, <<Param(31, StrT)>>, StrT, <<Give(Var(31, StrT))>>),
      CoreFunction(4, <<>>, BoolT, <<Say(Text("+")), Give(Truthful(TRUE))>>),
      CoreFunction(5, <<>>, BoolT, <<Say(Text("-")), Give(Truthful(FALSE))>>),
      CoreFunction(6, <<Param(61, Thunk)>>, UnitT,
        <<Say(Apply(Var(61, Thunk), <<>>, StrT)), Say(Apply(Var(61, Thunk), <<>>, StrT))>>)>>
MainOf(body) == CoreModule(<<CoreFunction(Main, <<>>, UnitT, body)>> \o Helpers)
-----------------------------------------------------------------------------
(* Two texts, a number and a callable, all assignable. *)
S == Var(11, StrT)
T == Var(12, StrT)
N == Var(13, IntT)
C == Var(14, Thunk)
Minus1(e) == Prim("Subtract", <<e, IntOf(1)>>, IntT)
Appending(mode, sym, e, x) ==
    Closure(<<Capture(mode, sym, e)>>, <<>>,
            <<Assign(sym, Concat(Var(sym, StrT), Text(x))), Give(Var(sym, StrT))>>, StrT)
Prologue ==
    <<Bind(11, TRUE, Text("a")), Bind(12, TRUE, Text("b")), Bind(13, TRUE, IntOf(2)),
      Bind(14, TRUE, Appending("Strong", 15, S, "0"))>>

(* Statement j at place k: what it binds is new at every place.  What is   *)
(* captured weakly is used later, so the callable finds it; the assignment *)
(* of a text to itself is not its last use.                                *)
Statement(j, k) ==
    LET x == 100 * k + 1
        y == x + 1
    IN
    CASE j = 1 -> Assign(11, Text("c"))
      [] j = 2 -> Assign(11, T)
      [] j = 3 -> Assign(12, S)
      [] j = 4 -> If(Yes, <<Assign(11, S), Say(S)>>, <<>>)
      [] j = 5 -> Assign(11, Same(S))
      [] j = 6 -> Say(S)
      [] j = 7 -> Evaluate(Same(T))
      [] j = 8 -> Assign(14, Appending("Strong", x, S, "d"))
      [] j = 9 -> Say(Apply(C, <<>>, StrT))
      [] j = 10 -> Twice(C)
      [] j = 11 -> Assign(12, Concat(T, S))
      [] j = 12 -> Evaluate(Appending("Strong", x, S, "e"))
      [] j = 13 -> If(N, <<Assign(11, T)>>, <<Say(S)>>)
      [] j = 14 -> While(N, <<Assign(13, Minus1(N)), If(Yes, <<Assign(11, Concat(S, T)), Continue>>, <<>>), Say(S)>>)
      [] j = 15 -> For(Prim("LessThan", <<IntOf(0), N>>, BoolT), <<Assign(13, Minus1(N))>>,
                       <<If(Prim("Equal", <<N, IntOf(1)>>, BoolT), <<Continue>>, <<>>), Assign(12, Same(S))>>)
      [] j = 16 -> DoWhile(<<While(Yes, <<If(No, <<Continue>>, <<Assign(11, T), Break>>)>>),
                             Assign(13, Minus1(N)), Say(T)>>, Prim("GreaterThan", <<N, IntOf(0)>>, BoolT))
      [] j = 17 -> Say(Let(x, Concat(S, Text("f")), Concat(Var(x, StrT), Var(x, StrT))))
      [] j = 18 -> Say(Apply(Let(x, SameFn, Var(x, FnT(<<StrT>>, StrT))), <<T>>, StrT))
      [] j = 19 -> Assign(13, Let(x, Prim("Memoize", <<Closure(<<>>, <<>>, <<If(Yes, <<>>, <<>>), Give(IntOf(3))>>, IntT)>>,
                                          FnT(<<>>, IntT)),
                                  Prim("Subtract", <<Apply(Var(x, FnT(<<>>, IntT)), <<>>, IntT),
                                                     Apply(Var(x, FnT(<<>>, IntT)), <<>>, IntT)>>, IntT)))
      [] j = 20 -> If(Prim("LogicalAnd", <<N, Yes>>, BoolT), <<Say(T), Give(NoValue)>>, <<>>)
      [] j = 21 -> Assign(14, Closure(<<Capture("Strong", x, C)>>, <<>>,
                                      <<Give(Concat(Apply(Var(x, Thunk), <<>>, StrT), Text("g")))>>, StrT))
      [] j = 22 -> If(Runtime(3, <<S, T>>, BoolT), <<Say(Text("="))>>, <<Bind(x, FALSE, S), Say(Var(x, StrT))>>)
      [] j = 23 -> If(No, <<>>, <<Twice(Appending("Weak", x, T, "h")), Say(T)>>)
      [] j = 24 -> If(Yes, <<Twice(Appending("Unowned", x, T, "i")), Say(T)>>, <<>>)
      [] j = 25 -> Assign(11, Apply(Closure(<<Capture("Strong", x, S)>>, <<Param(y, StrT)>>,
                                            <<If(Yes, <<Give(Var(y, StrT))>>, <<Give(Var(x, StrT))>>)>>, StrT),
                                    <<T>>, StrT))

Sequences(j) == MainOf(Prologue \o [k \in DOMAIN j |-> Statement(j[k], k)] \o <<Say(T)>>)
StatementPrograms ==
    {Sequences(j) : j \in Pairs \X Pairs} \union {Sequences(j) : j \in Triples \X Triples \X Triples}
-----------------------------------------------------------------------------
Leaves == {Yes, No, Truthful(TRUE), IntOf(0)}
Effects == {Yes, No}
Simple ==
    {Prim(op, <<a, b>>, BoolT) : op \in {"LogicalAnd", "LogicalOr"}, a \in Leaves, b \in Leaves}
    \union {Prim("LogicalNot", <<a>>, BoolT) : a \in Leaves}
Nested ==
    {Prim(op, <<a, b>>, BoolT) : op \in {"LogicalAnd", "LogicalOr"},
        a \in {Prim("LogicalNot", <<e>>, BoolT) : e \in Effects}
              \union {Conditional(x, y, z) : x \in Effects, y \in Effects, z \in {Truthful(TRUE)}},
        b \in {Prim(p, <<x, y>>, BoolT) : p \in {"LogicalAnd", "LogicalOr"}, x \in Effects, y \in Effects}}
    \union {Conditional(x, y, z) : x \in Simple, y \in Effects, z \in Effects}
ConditionPrograms ==
    {MainOf(<<If(e, <<Say(Text("y"))>>, <<Say(Text("n"))>>)>>) : e \in Simple \union Nested}
-----------------------------------------------------------------------------
(* left op every right operand from first on; the result is written as     *)
(* that many texts, counted down by wrapping.                              *)
Number(n, type) == Const(<<"fixed", n>>, type)
Counting(value, type) ==
    <<Bind(72, TRUE, value),
      While(Prim("NotEqual", <<Var(72, type), Number(0, type)>>, BoolT),
            <<Evaluate(Runtime(2, <<Text("|")>>, UnitT)),
              Assign(72, Prim("Subtract", <<Var(72, type), Number(1, type)>>, type))>>)>>
AllRights(first, type, body) ==
    CoreModule(<<CoreFunction(Main, <<>>, UnitT,
      <<Bind(71, TRUE, Number(first, type)),
        DoWhile(body \o <<Evaluate(Runtime(2, <<Text(";")>>, UnitT)),
                          Assign(71, Prim("Add", <<Var(71, type), Number(1, type)>>, type))>>,
                Prim("NotEqual", <<Var(71, type), Number(first, type)>>, BoolT))>>)>>)

Values(type) == IF type = IntT THEN -(2 ^ (Width - 1)) .. 2 ^ (Width - 1) - 1 ELSE 0 .. 2 ^ Width - 1
Arithmetics == {"Add", "Subtract", "Multiply", "Divide", "FloorDivide", "Remainder", "Power"}
FirstRight(op) == IF op \in {"Divide", "FloorDivide", "Remainder"} THEN 1 ELSE 0
ArithmeticPrograms ==
    UNION {
      {AllRights(FirstRight(op), type,
                 Counting(Prim(op, <<Number(a, type), Var(71, type)>>, type), type)) :
         op \in Arithmetics \union (Bitwise \ {"BitwiseNot"}), a \in Values(type)}
      \union
      {AllRights(0, type, <<If(Prim(op, <<Number(a, type), Var(71, type)>>, BoolT),
                               <<Evaluate(Runtime(2, <<Text("|")>>, UnitT))>>, <<>>)>>) :
         op \in Ordering \union Equality, a \in Values(type)}
      : type \in {IntT, UIntT}}
    \union {AllRights(0, type, Counting(Prim("BitwiseNot", <<Var(71, type)>>, type), type)) : type \in {IntT, UIntT}}
    \union {AllRights(0, IntT, Counting(Prim("Negate", <<Var(71, IntT)>>, IntT), IntT))}

(* What has no value stops the program, though nobody asks for the value. *)
Partial == {"Divide", "FloorDivide", "Remainder", "ShiftLeft", "ShiftRight"}
DroppedPrograms ==
    {AllRights(1, type, <<Bind(73, FALSE, Prim(op, <<Number(a, type), Var(71, type)>>, type))>>) :
       op \in Partial, type \in {IntT, UIntT}, a \in {1, 3}}
-----------------------------------------------------------------------------
RejectedPrograms ==
    {MainOf(<<Break>>), MainOf(<<Assign(11, Text("a"))>>), MainOf(<<Give(IntOf(1))>>),
     MainOf(<<Bind(11, FALSE, Text("a")), Assign(11, Text("b"))>>),
     MainOf(<<While(IntOf(1), <<>>), For(IntOf(1), <<Continue>>, <<>>)>>)}

MCPrograms ==
    StatementPrograms \union ConditionPrograms \union ArithmeticPrograms
      \union DroppedPrograms \union RejectedPrograms

(* The last use of a text is an assignment to itself. *)
SelfAssignments == {MainOf(<<Bind(11, TRUE, Text("a")), Say(S), Assign(11, S)>>)}
=============================================================================
