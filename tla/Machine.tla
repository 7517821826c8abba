------------------------------ MODULE Machine -------------------------------
(***************************************************************************)
(* What the code generated from Xmm does when it runs (Talac/Backend/LLVM):*)
(* every instruction as the generator lowers it, closures with their       *)
(* thunks and destructors, callables that remember their result, integer   *)
(* arithmetic on bit patterns with its checks, and the references the      *)
(* ownership runtime counts.  LLVM itself is taken at its word.            *)
(*                                                                         *)
(* A machine is [status, frames, heap, trace].  An object of the heap is   *)
(* [kind, strong, handles, text, fn, caps, known, value, held]; a value is *)
(* <<"bits", n>>, <<"bool", b>>, <<"ref", k>>, <<"weak", k>>,              *)
(* <<"unowned", k>>, <<"null">> or <<"unit">>.  An object that is used     *)
(* after it is gone ends the run with status "dangling".                   *)
(***************************************************************************)
EXTENDS Xmm, TLC, Bitwise

Null == <<"null">>
UnitValue == <<"unit">>
Modulus == 2 ^ Width
Sign(bits) == IF bits >= 2 ^ (Width - 1) THEN bits - Modulus ELSE bits

(* Two's complement: the bit pattern of an integer that may not fit. *)
Pattern(n) == n % Modulus
Magnitude(bits) == IF Sign(bits) < 0 THEN Pattern(-bits) ELSE bits
AbsOf(n) == IF n < 0 THEN -n ELSE n

(* sdiv and srem truncate towards zero, whatever \div does. *)
Truncated(a, b) == IF (a < 0) = (b < 0) THEN AbsOf(a) \div AbsOf(b) ELSE -(AbsOf(a) \div AbsOf(b))
Quotient(a, b, signed) ==
    IF signed THEN Pattern(Truncated(Sign(a), Sign(b))) ELSE a \div b
Rest(a, b, signed) ==
    IF signed THEN Pattern(Sign(a) - Sign(b) * Truncated(Sign(a), Sign(b))) ELSE a % b

(* Rounded division: to the nearest, an exact half away from zero, in the  *)
(* width of the operands.                                                  *)
RoundedDiv(a, b, signed) ==
    LET rest == IF signed THEN Magnitude(Rest(a, b, TRUE)) ELSE Rest(a, b, FALSE)
        size == IF signed THEN Magnitude(b) ELSE b
        away == IF signed /\ Sign(a ^^ b) < 0 THEN -1 ELSE 1
    IN  IF rest >= size \div 2 + (size % 2) THEN Pattern(Quotient(a, b, signed) + away)
        ELSE Quotient(a, b, signed)

(* The loop of squarings. *)
RECURSIVE PowerLoop(_, _, _)
PowerLoop(result, factor, remaining) ==
    IF remaining = 0 THEN result
    ELSE PowerLoop(IF remaining % 2 = 1 THEN Pattern(result * factor) ELSE result,
                   Pattern(factor * factor), remaining \div 2)

(* ComputabilityCheck: the operations with no value stop the program. *)
Computable(op, a, b) ==
    /\ op \in {"Divide", "FloorDivide", "Remainder"} => b # 0
    /\ op \in {"ShiftLeft", "ShiftRight"} => b < Width

(* MIN / -1 is carried out with one. *)
ComputableDivisor(a, b, signed) ==
    IF signed /\ a = 2 ^ (Width - 1) /\ b = Modulus - 1 THEN 1 ELSE b

Arithmetic(op, a, b, signed) ==
    LET divisor == ComputableDivisor(a, b, signed)
        Compare(x, y) == CASE op = "CompareLess" -> x < y [] op = "CompareLessEqual" -> x <= y
                           [] op = "CompareGreater" -> x > y [] op = "CompareGreaterEqual" -> x >= y
    IN  CASE op = "Add" -> <<"bits", Pattern(a + b)>>
          [] op = "Subtract" -> <<"bits", Pattern(a - b)>>
          [] op = "Multiply" -> <<"bits", Pattern(a * b)>>
          [] op = "Divide" -> <<"bits", Quotient(a, divisor, signed)>>
          [] op = "FloorDivide" -> <<"bits", RoundedDiv(a, divisor, signed)>>
          [] op = "Remainder" -> <<"bits", Rest(a, divisor, signed)>>
          [] op = "Power" -> <<"bits", PowerLoop(1, a, b)>>
          [] op = "ShiftLeft" -> <<"bits", Pattern(a * 2 ^ b)>>
          [] op = "ShiftRight" -> <<"bits", IF signed THEN Pattern(Sign(a) \div 2 ^ b) ELSE a \div 2 ^ b>>
          [] op = "BitwiseAnd" -> <<"bits", a & b>>
          [] op = "BitwiseXor" -> <<"bits", a ^^ b>>
          [] op = "BitwiseOr" -> <<"bits", a | b>>
          [] OTHER -> <<"bool", IF signed THEN Compare(Sign(a), Sign(b)) ELSE Compare(a, b)>>
-----------------------------------------------------------------------------
(* The ownership runtime as the generated code calls it (the module Aarc   *)
(* has its threads).  Null is nothing to any of them.                      *)
Object(kind) ==
    [kind |-> kind, strong |-> 1, handles |-> 0, text |-> <<>>, fn |-> 0, caps |-> <<>>,
     known |-> FALSE, value |-> UnitValue, held |-> Null]
Allocate(m, object) == [m EXCEPT !.heap = Append(@, object)]
Newest(m) == <<"ref", Len(m.heap)>>
Alive(m, v) == v[1] = "ref" /\ m.heap[v[2]].strong > 0
Dangling(m) == [m EXCEPT !.status = "dangling"]
Trapped(m) == [m EXCEPT !.status = "trapped"]
Running(m) == m.status = "running"

Retain(m, v) ==
    IF v[1] # "ref" THEN m
    ELSE IF Alive(m, v) THEN [m EXCEPT !.heap[v[2]].strong = @ + 1] ELSE Dangling(m)

(* The references an object owns, released when it is destroyed: the       *)
(* destructor of a closure or of a callable that remembers.                *)
OwnedBy(object) == IF object.kind = "memo" THEN <<object.held>> ELSE object.caps

(* Release every value in turn, and what dies with it. *)
RECURSIVE ReleaseAll(_, _)
ReleaseAll(m, values) ==
    IF values = <<>> THEN m
    ELSE LET v == Head(values)
             rest == Tail(values)
         IN  IF v[1] \in {"weak", "unowned"} THEN ReleaseAll([m EXCEPT !.heap[v[2]].handles = @ - 1], rest)
             ELSE IF v[1] # "ref" THEN ReleaseAll(m, rest)
             ELSE IF ~ Alive(m, v) THEN Dangling(m)
             ELSE LET down == [m EXCEPT !.heap[v[2]].strong = @ - 1] IN
                  ReleaseAll(down, IF down.heap[v[2]].strong = 0
                                     THEN OwnedBy(down.heap[v[2]]) \o rest ELSE rest)

MakeHandle(m, v, kind) ==
    IF v[1] # "ref" THEN [m |-> m, v |-> Null]
    ELSE [m |-> IF Alive(m, v) THEN [m EXCEPT !.heap[v[2]].handles = @ + 1] ELSE Dangling(m),
          v |-> <<kind, v[2]>>]

(* LockWeak and LoadUnowned give null when the object is gone. *)
Upgrade(m, v) ==
    IF v[1] \in {"weak", "unowned"} /\ m.heap[v[2]].strong > 0
      THEN [m |-> [m EXCEPT !.heap[v[2]].strong = @ + 1], v |-> <<"ref", v[2]>>]
      ELSE [m |-> m, v |-> Null]
-----------------------------------------------------------------------------
Top(m) == Last(m.frames)
BlockCode(module, frame) ==
    LET function == FunctionNamed(module, frame.fn) IN
    function.blocks[CHOOSE i \in DOMAIN function.blocks : function.blocks[i].id = frame.block]

(* LoadValue and Immediate: a text literal is a new object the load owns. *)
LoadValue(m, operand) ==
    CASE operand.kind = "register" -> [m |-> m, v |-> Top(m).regs[operand.sym]]
      [] operand.kind = "function" -> [m |-> m, v |-> <<"function", operand.sym>>]
      [] operand.kind = "immediate" ->
           CASE operand.lit[1] \in {"int", "fixed"} -> [m |-> m, v |-> <<"bits", Pattern(operand.lit[2])>>]
             [] operand.lit[1] = "bool" -> [m |-> m, v |-> operand.lit]
             [] operand.lit[1] = "str" ->
                  LET made == Allocate(m, [Object("text") EXCEPT !.text = operand.lit[2]]) IN
                  [m |-> made, v |-> Newest(made)]
             [] OTHER -> [m |-> m, v |-> IF operand.type = UnitT THEN UnitValue ELSE Null]
LoadAll(m, operands) ==
    FoldLeft(LAMBDA r, o : LET one == LoadValue(r.m, o) IN [m |-> one.m, vs |-> Append(r.vs, one.v)],
             [m |-> m, vs |-> <<>>], operands)

Advance(m) == [m EXCEPT !.frames[Len(m.frames)].pc = @ + 1]
Store(m, reg, v) ==
    IF reg = 0 THEN m ELSE [m EXCEPT !.frames[Len(m.frames)].regs = (reg :> v) @@ @]

Frame(function, args, dest, temporaries, memos) ==
    [fn |-> function.sym, block |-> function.entry, pc |-> 1,
     regs |-> [r \in {p.sym : p \in Range(function.params)} |->
                 args[CHOOSE i \in DOMAIN function.params : function.params[i].sym = r]],
     dest |-> dest, temporaries |-> temporaries, memos |-> memos]
Enter(module, m, fn, args, dest, temporaries, memos) ==
    [m EXCEPT !.frames = Append(@, Frame(FunctionNamed(module, fn), args, dest, temporaries, memos))]

(* A planted bug: the thunk leaves its upgraded captures behind. *)
UpgradeCapturesKeeping(m, caps) ==
    FoldLeft(LAMBDA r, v :
               IF v[1] \in {"weak", "unowned"}
                 THEN LET up == Upgrade(r.m, v) IN
                      [m |-> up.m, vs |-> Append(r.vs, up.v), temporaries |-> <<>>]
                 ELSE [r EXCEPT !.vs = Append(@, v)],
             [m |-> m, vs |-> <<>>, temporaries |-> <<>>], caps)

(* The thunk: strong captures are borrowed, weak and unowned ones are      *)
(* upgraded for the call.                                                  *)
UpgradeCaptures(m, caps) ==
    FoldLeft(LAMBDA r, v :
               IF v[1] \in {"weak", "unowned"}
                 THEN LET up == Upgrade(r.m, v) IN
                      [m |-> up.m, vs |-> Append(r.vs, up.v), temporaries |-> Append(r.temporaries, up.v)]
                 ELSE [r EXCEPT !.vs = Append(@, v)],
             [m |-> m, vs |-> <<>>, temporaries |-> <<>>], caps)

Remembered(object) == object.known

(* A call through an object: memos are the callables waiting for the       *)
(* result.                                                                 *)
RECURSIVE Invoke(_, _, _, _, _, _)
Invoke(module, m, callee, args, dest, memos) ==
    IF ~ Alive(m, callee) THEN Dangling(m)
    ELSE LET object == m.heap[callee[2]] IN
      IF object.kind = "memo"
        THEN IF Remembered(object)
               THEN Store([m EXCEPT !.heap = [k \in DOMAIN @ |->
                             IF k \in memos THEN [@[k] EXCEPT !.known = TRUE, !.value = object.value]
                             ELSE @[k]]], dest, object.value)
               ELSE Invoke(module, m, object.held, args, dest, memos \union {callee[2]})
        ELSE LET up == UpgradeCaptures(m, object.caps) IN
             IF ~ Running(up.m) THEN up.m
             ELSE Enter(module, up.m, object.fn, up.vs \o args, dest, up.temporaries, memos)

(* Arguments are loaded first; a direct call needs no object. *)
ExecuteCall(module, m, i) ==
    LET args == LoadAll(m, Tail(i.args))
        dest == IF i.effect = "result" THEN i.dest ELSE 0
    IN  IF i.args[1].kind = "function"
          THEN Enter(module, Advance(args.m), i.args[1].sym, args.vs, dest, <<>>, {})
          ELSE Invoke(module, Advance(args.m), LoadValue(args.m, i.args[1]).v, args.vs, dest, {})

(* Take the result of a construction, or release what nobody takes. *)
TakeOrRelease(m, i, v) ==
    Advance(IF i.effect = "result" THEN Store(m, i.dest, v) ELSE ReleaseAll(m, <<v>>))

(* Strong captures of objects are retained, the others become handles. *)
CaptureInto(r, mode, operand) ==
    LET loaded == LoadValue(r.m, operand) IN
    CASE mode = "Strong" -> [m |-> Retain(loaded.m, loaded.v), caps |-> Append(r.caps, loaded.v)]
      [] OTHER -> LET made == MakeHandle(loaded.m, loaded.v, IF mode = "Weak" THEN "weak" ELSE "unowned")
                  IN  [m |-> made.m, caps |-> Append(r.caps, made.v)]
ExecuteClosure(m, i) ==
    LET all == FoldLeft(LAMBDA r, k : CaptureInto(r, i.modes[k], i.args[k]),
                        [m |-> m, caps |-> <<>>], [k \in DOMAIN i.args |-> k])
        made == Allocate(all.m, [Object("closure") EXCEPT !.fn = i.fn, !.caps = all.caps])
    IN  TakeOrRelease(made, i, Newest(made))

ExecuteMemoize(m, i) ==
    LET held == LoadValue(m, i.args[1])
        made == Allocate(Retain(held.m, held.v), [Object("memo") EXCEPT !.held = held.v])
    IN  TakeOrRelease(made, i, Newest(made))

(* The runtime borrows its arguments and gives a text it does not keep. *)
ExecuteRuntimeCall(m, i) ==
    LET args == LoadAll(m, Tail(i.args))
        name == RuntimeFunctions[i.args[1].lit[2]]
        Text(k) == IF args.vs[k] = Null THEN <<>> ELSE args.m.heap[args.vs[k][2]].text
        made == Allocate(args.m, [Object("text") EXCEPT !.text = Text(1) \o Text(2)])
    IN  IF \E v \in Range(args.vs) : v # Null /\ ~ Alive(args.m, v) THEN Dangling(m)
        ELSE CASE name = "ConsoleWrite" -> Advance([args.m EXCEPT !.trace = Append(@, Text(1))])
               [] name = "TextEquals" ->
                    Advance(Store(args.m, IF i.effect = "result" THEN i.dest ELSE 0,
                                  <<"bool", Text(1) = Text(2)>>))
               [] name = "TextConcat" -> TakeOrRelease(made, i, Newest(made))

ExecuteOwnership(m, i) ==
    LET one == LoadValue(m, i.args[1])
        result == CASE i.op = "RetainStrong" -> [m |-> Retain(one.m, one.v), v |-> one.v]
                    [] i.op = "MakeWeak" -> MakeHandle(one.m, one.v, "weak")
                    [] i.op = "MakeUnowned" -> MakeHandle(one.m, one.v, "unowned")
                    [] i.op \in {"LockWeak", "LoadUnowned"} -> Upgrade(one.m, one.v)
                    [] i.op \in ReleaseOps -> [m |-> ReleaseAll(one.m, <<one.v>>), v |-> UnitValue]
    IN  Advance(IF i.op \in ReleaseOps THEN result.m ELSE Store(result.m, i.dest, result.v))

ExecuteOperation(m, i) ==
    LET all == LoadAll(m, i.args)
        v == all.vs[1]
        w == all.vs[2]
        signed == Kind(i.args[1].type) = "int"
        Unary == CASE i.op \in {"LoadImmediate", "Move"} -> v
                   [] i.op = "NotBool" -> <<"bool", ~ v[2]>>
                   [] i.op = "Negate" -> <<"bits", Pattern(-v[2])>>
                   [] i.op = "BitwiseNot" -> <<"bits", Modulus - 1 - v[2]>>
        Binary == CASE i.op = "CompareEqual" -> <<"bool", v = w>>
                    [] i.op = "CompareNotEqual" -> <<"bool", v # w>>
                    [] i.op = "AndBool" -> <<"bool", v[2] /\ w[2]>>
                    [] i.op = "OrBool" -> <<"bool", v[2] \/ w[2]>>
                    [] OTHER -> Arithmetic(i.op, v[2], w[2], signed)
    IN  IF Len(i.args) = 2 /\ ~ Computable(i.op, v[2], w[2]) THEN Trapped(all.m)
        ELSE Advance(Store(all.m, IF i.effect = "result" THEN i.dest ELSE 0,
                           IF Len(i.args) = 1 THEN Unary ELSE Binary))

ExecuteInstruction(module, m, i) ==
    CASE i.op = "RuntimeCall" -> ExecuteRuntimeCall(m, i)
      [] i.op = "Call" -> ExecuteCall(module, m, i)
      [] i.op = "MakeClosure" -> ExecuteClosure(m, i)
      [] i.op = "Memoize" -> ExecuteMemoize(m, i)
      [] i.op \in OwnershipOps -> ExecuteOwnership(m, i)
      [] OTHER -> ExecuteOperation(m, i)

(* Return to the caller: the thunk drops what it upgraded, the callables   *)
(* that wait for the result keep it.                                       *)
ReturnFrom(m, value) ==
    LET frame == Top(m)
        popped == ReleaseAll([m EXCEPT !.frames = Front(@)], frame.temporaries)
        kept == [popped EXCEPT !.heap = [k \in DOMAIN @ |->
                   IF k \in frame.memos THEN [@[k] EXCEPT !.known = TRUE, !.value = value] ELSE @[k]]]
    IN  IF kept.frames = <<>> THEN [kept EXCEPT !.status = IF @ = "running" THEN "returned" ELSE @]
        ELSE Store(kept, frame.dest, value)

GoTo(m, id) == [m EXCEPT !.frames[Len(m.frames)].block = id, !.frames[Len(m.frames)].pc = 1]
ExecuteTerminator(m, term) ==
    CASE term.kind = "Return" -> LET one == LoadValue(m, term.value) IN ReturnFrom(one.m, one.v)
      [] term.kind = "Jump" -> GoTo(m, term.t)
      [] term.kind = "Branch" -> GoTo(m, IF LoadValue(m, term.value).v[2] THEN term.t ELSE term.f)
      [] term.kind = "Unreachable" -> [m EXCEPT !.status = "undefined"]

(* CreateExecutableEntry: Main has no parameters and no result. *)
Boot(module, main) ==
    [status |-> "running", heap |-> <<>>, trace |-> <<>>,
     frames |-> <<Frame(FunctionNamed(module, main), <<>>, 0, <<>>, {})>>]

StepMachine(module, m) ==
    LET block == BlockCode(module, Top(m)) IN
    IF Top(m).pc <= Len(block.code) THEN ExecuteInstruction(module, m, block.code[Top(m).pc])
    ELSE ExecuteTerminator(m, block.term)

(* At most the given number of steps. *)
RECURSIVE RunMachine(_, _, _)
RunMachine(module, m, steps) ==
    IF ~ Running(m) THEN m
    ELSE IF steps = 0 THEN [m EXCEPT !.status = "timeout"]
    ELSE RunMachine(module, StepMachine(module, m), steps - 1)
=============================================================================
