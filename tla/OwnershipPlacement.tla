------------------------- MODULE OwnershipPlacement -------------------------
(***************************************************************************)
(* PlaceOwnership (Talac/Codegen/Xpp/OwnershipPlacement.cpp): the retains  *)
(* and releases of a module are written from the liveness of its owned     *)
(* symbols.  A parameter is borrowed; every other reference is owned and   *)
(* is released once, after its last use or on the edge on which it dies.   *)
(* next is the counter of fresh symbols, which all functions share.        *)
(***************************************************************************)
EXTENDS Xpp

Release(sym, type) == Instr("discard", "ReleaseStrong", 0, UnitT, <<Symbol(sym, type)>>)
DefineFrom(op, dest, source, type) == Instr("define", op, dest, type, <<Symbol(source, type)>>)
MethodClosure(effect, dest, method, type) ==
    [Instr(effect, "MakeClosure", dest, type, <<>>) EXCEPT !.fn = method]

NextBlock(function) ==
    FoldLeft(LAMBDA n, b : IF b.id + 1 > n THEN b.id + 1 ELSE n, 0, function.blocks)

(* One more than every symbol the module mentions. *)
FirstFreeSymbol(module) ==
    LET Mentioned(f) ==
          {f.sym} \union {p.sym : p \in Range(f.params)}
          \union UNION {{i.dest, i.fn} \union {o.sym : o \in Range(i.args)} :
                          i \in Range(InstructionsOf(f))}
          \union {b.term.value.sym : b \in Range(f.blocks)}
        all == {0} \union UNION {Mentioned(f) : f \in Range(module.functions)}
    IN  1 + Max(all)

IsSymbol(operand) == operand.kind = "symbol"
IsMethod(operand, methods) == IsSymbol(operand) /\ operand.sym \in methods
Owned(sym, type, methods, borrowed) == IsAarc(type) /\ sym \notin methods \union borrowed
-----------------------------------------------------------------------------
Rename(sym, locals) == IF sym \in DOMAIN locals THEN locals[sym] ELSE sym
RenameOperand(o, locals) == IF IsSymbol(o) THEN [o EXCEPT !.sym = Rename(@, locals)] ELSE o

(* An assigned parameter is copied into a local with a reference of its    *)
(* own, in an entry block that runs once.                                  *)
OwnAssignedParameters(function, next) ==
    LET taken == SelectSeq(function.params,
                           LAMBDA p : IsAarc(p.type) /\ p.sym \in StoredSymbols(function))
        locals == [s \in {p.sym : p \in Range(taken)} |->
                     next - 1 + (CHOOSE i \in DOMAIN taken : taken[i].sym = s)]
        entry == [id |-> NextBlock(function),
                  code |-> [i \in DOMAIN taken |->
                    DefineFrom("RetainStrong", next + i - 1, taken[i].sym, taken[i].type)],
                  term |-> Jump(function.entry)]
        Renamed(b) ==
          [b EXCEPT !.code = [k \in DOMAIN @ |->
                       [@[k] EXCEPT !.dest = IF b.code[k].effect = "discard" THEN @ ELSE Rename(@, locals),
                                    !.args = [j \in DOMAIN @ |-> RenameOperand(@[j], locals)]]],
                    !.term.value = RenameOperand(@, locals)]
    IN  IF taken = <<>> THEN [f |-> function, next |-> next]
        ELSE [f |-> [function EXCEPT !.entry = entry.id,
                                     !.blocks = <<entry>> \o [b \in DOMAIN @ |-> Renamed(@[b])]],
              next |-> next + Len(taken)]
-----------------------------------------------------------------------------
(* A pass rewrites the instructions and the terminator of every block in   *)
(* turn; each rewriting returns [code, next].                              *)
AddCode(code, new) == [code |-> code \o new.code, next |-> new.next]
RewriteCode(code, next, R(_, _)) ==
    FoldLeft(LAMBDA done, i : AddCode(done.code, R(i, done.next)), [code |-> <<>>, next |-> next], code)
AddBlock(f, new) == [f |-> [f EXCEPT !.blocks = Append(@, new.block)], next |-> new.next]
RewriteBlocks(function, next, R(_, _)) ==
    FoldLeft(LAMBDA d, b : AddBlock(d.f, R(b, d.next)),
             [f |-> [function EXCEPT !.blocks = <<>>], next |-> next], function.blocks)

(* The new code of a block; when its returned value needs an object first, *)
(* last makes it.                                                          *)
KeepReturn(block, done) == [block |-> [block EXCEPT !.code = done.code], next |-> done.next]
ReturnFresh(block, done, last) ==
    [block |-> [block EXCEPT !.code = Append(done.code, last), !.term.value.sym = done.next],
     next |-> done.next + 1]

(* Objects created at a use, string literals and then methods, get a       *)
(* symbol first; the callee of a direct call stays a method.               *)
MaterializeInstruction(i, next, methods) ==
    LET binds == i.op = "Copy" /\ i.effect # "discard" /\ Len(i.args) = 1
        positions == [k \in DOMAIN i.args |-> k]
        literals == SelectSeq(positions, LAMBDA k :
                      ~ binds /\ i.args[k].kind = "literal" /\ IsAarc(i.args[k].type))
        callees == SelectSeq(positions, LAMBDA k :
                      IsMethod(i.args[k], methods) /\ (i.op = "Call" => k > 1))
        made == literals \o callees
        Created(n) ==
          LET o == i.args[made[n]] IN
          IF n <= Len(literals) THEN Instr("define", "Copy", next + n - 1, o.type, <<o>>)
          ELSE MethodClosure("define", next + n - 1, o.sym, o.type)
        uses == [k \in DOMAIN i.args |->
                   IF k \notin Range(made) THEN i.args[k]
                   ELSE Symbol(next - 1 + (CHOOSE n \in DOMAIN made : made[n] = k), i.args[k].type)]
    IN  IF binds /\ IsMethod(i.args[1], methods)
          THEN [code |-> <<MethodClosure(i.effect, i.dest, i.args[1].sym, i.type)>>, next |-> next]
          ELSE [code |-> [n \in DOMAIN made |-> Created(n)] \o <<[i EXCEPT !.args = uses]>>,
                next |-> next + Len(made)]

MaterializeReturn(block, done, methods) ==
    LET value == block.term.value IN
    IF block.term.kind = "Return" /\ IsMethod(value, methods)
      THEN ReturnFresh(block, done, MethodClosure("define", done.next, value.sym, value.type))
      ELSE KeepReturn(block, done)
MaterializeBlock(block, next, methods) ==
    MaterializeReturn(block,
                      RewriteCode(block.code, next, LAMBDA i, n : MaterializeInstruction(i, n, methods)),
                      methods)
MaterializeMethodValues(function, next, methods) ==
    RewriteBlocks(function, next, LAMBDA b, n : MaterializeBlock(b, n, methods))
-----------------------------------------------------------------------------
(* A discarded owned result gets a symbol, an instruction that reads what  *)
(* it writes reads a copy, a borrowed value that is returned is retained.  *)
NormalizeInstruction(instruction, first, methods, borrowed) ==
    LET discarded == /\ instruction.effect = "discard"
                     /\ instruction.op \in {"Call", "RuntimeCall"} /\ IsAarc(instruction.type)
        i == IF discarded THEN [instruction EXCEPT !.effect = "define", !.dest = first] ELSE instruction
        next == IF discarded THEN first + 1 ELSE first
        ReadsOwn(o) == IsSymbol(o) /\ o.sym = i.dest
        rewrites == /\ i.effect # "discard" /\ Owned(i.dest, i.type, methods, borrowed)
                    /\ ~ IsSelfCopy(i) /\ \E o \in Range(i.args) : ReadsOwn(o)
    IN  IF rewrites
          THEN [code |-> <<DefineFrom("Copy", next, i.dest, i.type),
                           [i EXCEPT !.args = [k \in DOMAIN @ |->
                              IF ReadsOwn(@[k]) THEN [@[k] EXCEPT !.sym = next] ELSE @[k]]]>>,
                next |-> next + 1]
          ELSE [code |-> <<i>>, next |-> next]

NormalizeReturn(block, done, borrowed) ==
    LET value == block.term.value IN
    IF block.term.kind = "Return" /\ IsSymbol(value) /\ IsAarc(value.type) /\ value.sym \in borrowed
      THEN ReturnFresh(block, done, DefineFrom("RetainStrong", done.next, value.sym, value.type))
      ELSE KeepReturn(block, done)
NormalizeBlock(block, next, methods, borrowed) ==
    NormalizeReturn(block,
                    RewriteCode(block.code, next,
                                LAMBDA i, n : NormalizeInstruction(i, n, methods, borrowed)),
                    borrowed)
Normalize(function, next, methods, borrowed) ==
    RewriteBlocks(function, next, LAMBDA b, n : NormalizeBlock(b, n, methods, borrowed))
-----------------------------------------------------------------------------
(* The liveness problem of the owned symbols alone. *)
OwnedReads(operands, methods, borrowed) ==
    {o.sym : o \in {p \in operands : IsSymbol(p) /\ Owned(p.sym, p.type, methods, borrowed)}}
OwnedWrite(i, methods, borrowed) ==
    IF i.effect # "discard" /\ Owned(i.dest, i.type, methods, borrowed) THEN i.dest ELSE 0
LivenessModel(function, methods, borrowed) ==
    [entry |-> function.entry, blocks |-> [b \in DOMAIN function.blocks |->
      LET block == function.blocks[b] IN
      [id |-> block.id, succ |-> Successors(block.term),
       acc |-> [k \in DOMAIN block.code |->
                  [reads |-> OwnedReads(Range(block.code[k].args), methods, borrowed),
                   write |-> OwnedWrite(block.code[k], methods, borrowed), removable |-> FALSE]]
               \o <<[reads |-> IF block.term.kind = "Return"
                                 THEN OwnedReads({block.term.value}, methods, borrowed) ELSE {},
                     write |-> 0, removable |-> FALSE]>>]]]

TypeOfOwned(function, sym) ==
    LET seen == {o \in UNION {Range(i.args) : i \in Range(InstructionsOf(function))} :
                   IsSymbol(o) /\ o.sym = sym}
        made == {i \in Range(InstructionsOf(function)) : WrittenBy(i) = sym}
    IN  IF seen # {} THEN (CHOOSE o \in seen : TRUE).type ELSE (CHOOSE i \in made : TRUE).type
ReleaseOf(function, sym) == Release(sym, TypeOfOwned(function, sym))
ReleasesOf(function, syms) ==
    LET order == Ascending(syms) IN [k \in DOMAIN order |-> ReleaseOf(function, order[k])]

(* A copy of a borrowed or still needed value retains; another copy takes  *)
(* over the reference of its source.                                       *)
TakesReference(i, after, methods, borrowed) ==
    /\ i.op = "Copy" /\ i.effect # "discard" /\ Len(i.args) = 1 /\ IsSymbol(i.args[1]) /\ IsAarc(i.type)
    /\ i.args[1].sym \notin borrowed \union after

CopiesReference(i) ==
    i.op = "Copy" /\ i.effect # "discard" /\ Len(i.args) = 1 /\ IsSymbol(i.args[1]) /\ IsAarc(i.type)

PlaceInstruction(function, i, after, methods, borrowed) ==
    LET moves == TakesReference(i, after, methods, borrowed)
        written == OwnedWrite(i, methods, borrowed)
        dying == SelectSeq([k \in DOMAIN i.args |-> i.args[k].sym], LAMBDA s :
                   /\ s \in OwnedReads(Range(i.args), methods, borrowed) \ after
                   /\ ~ (moves /\ s = i.args[1].sym))
        distinct == FoldLeft(LAMBDA d, s : IF s \in Range(d) THEN d ELSE Append(d, s), <<>>, dying)
    IN  IF IsSelfCopy(i) /\ IsAarc(i.type) THEN <<>>
        ELSE <<IF CopiesReference(i) /\ ~ moves THEN [i EXCEPT !.op = "RetainStrong"] ELSE i>>
             \o [k \in DOMAIN distinct |-> ReleaseOf(function, distinct[k])]
             \o IF written # 0 /\ written \notin after THEN <<ReleaseOf(function, written)>> ELSE <<>>

PlaceInBlock(function, block, acc, out, methods, borrowed) ==
    [block EXCEPT !.code = FlattenSeq([k \in DOMAIN @ |->
       PlaceInstruction(function, @[k], LiveAfter(acc, k, out), methods, borrowed)])]

(* Edges into a block from reachable ones; the entry has one more. *)
IncomingEdges(function, model, id) ==
    (IF id = function.entry THEN 1 ELSE 0) +
    FoldLeft(LAMBDA n, b : IF b.id \in Reached(model)
                             THEN n + Len(SelectSeq(b.succ, LAMBDA s : s = id)) ELSE n, 0, model.blocks)

(* A planted bug: what dies on an edge is released at the head of the      *)
(* target, whoever else jumps there.                                       *)
ReleasesAtTargetAlways(function, model, target) == TRUE

ReleasesAtTarget(function, model, target) == IncomingEdges(function, model, target) = 1

(* The edges of a block in turn: what dies on an edge is released at the   *)
(* head of the target when that is its only way in, else in a new block.   *)
PlaceEdge(function, model, entry, out, placed, field) ==
    LET target == placed.block.term[field]
        dying == out \ entry[target]
        releases == ReleasesOf(function, dying)
        id == placed.nextBlock
    IN  IF dying = {} THEN placed
        ELSE IF ReleasesAtTarget(function, model, target)
          THEN [placed EXCEPT !.prefixes = (target :> releases) @@ @]
          ELSE [placed EXCEPT !.block.term[field] = id, !.nextBlock = @ + 1,
                  !.added = Append(@, [id |-> id, code |-> releases, term |-> Jump(target)])]

TargetFields(term) ==
    CASE term.kind = "Branch" -> <<"t", "f">> [] term.kind = "Jump" -> <<"t">> [] OTHER -> <<>>
KeepPlaced(blocks, placed) ==
    [blocks |-> Append(blocks, placed.block), prefixes |-> placed.prefixes,
     added |-> placed.added, nextBlock |-> placed.nextBlock]
PlaceEdges(function, model, entry, out, placed) ==
    FoldLeft(LAMBDA p, field : PlaceEdge(function, model, entry, out, p, field),
             placed, TargetFields(placed.block.term))
PlaceReached(function, model, entry, state, b, out, methods, borrowed) ==
    KeepPlaced(state.blocks,
      PlaceEdges(function, model, entry, out,
        [block |-> PlaceInBlock(function, function.blocks[b], model.blocks[b].acc, out, methods, borrowed),
         prefixes |-> state.prefixes, added |-> state.added, nextBlock |-> state.nextBlock]))
PlaceBlock(function, model, entry, state, b, methods, borrowed) ==
    LET id == function.blocks[b].id IN
    IF id \notin DOMAIN entry THEN [state EXCEPT !.blocks = Append(@, function.blocks[b])]
    ELSE PlaceReached(function, model, entry, state, b, LiveOut(model, entry, id), methods, borrowed)

WithEdges(function, done) ==
    LET Prefixed(block) ==
          IF block.id \in DOMAIN done.prefixes
            THEN [block EXCEPT !.code = done.prefixes[block.id] \o @] ELSE block
    IN  [function EXCEPT !.blocks = [b \in DOMAIN done.blocks |-> Prefixed(done.blocks[b])] \o done.added]
PlaceWith(function, model, entry, methods, borrowed) ==
    WithEdges(function,
      FoldLeft(LAMBDA state, b : PlaceBlock(function, model, entry, state, b, methods, borrowed),
               [blocks |-> <<>>, prefixes |-> <<>>, added |-> <<>>, nextBlock |-> NextBlock(function)],
               [b \in DOMAIN function.blocks |-> b]))
PlaceValid(function, model, methods, borrowed) ==
    IF GraphValid(model) THEN PlaceWith(function, model, LiveOnEntry(model), methods, borrowed)
    ELSE function
Place(function, methods, borrowed) ==
    PlaceValid(function, LivenessModel(function, methods, borrowed), methods, borrowed)

(* The three rewrites; each gives [f, next], the function and the first    *)
(* symbol it left free.                                                    *)
PlaceAfter(normal, methods, borrowed) ==
    [f |-> Place(normal.f, methods, borrowed), next |-> normal.next]
NormalizeAfter(made, methods, borrowed) == Normalize(made.f, made.next, methods, borrowed)
MaterializeAfter(owned, methods) == MaterializeMethodValues(owned.f, owned.next, methods)
PlaceFunction(function, next, methods) ==
    LET borrowed == {p.sym : p \in {q \in Range(function.params) : IsAarc(q.type)}} IN
    PlaceAfter(NormalizeAfter(MaterializeAfter(OwnAssignedParameters(function, next), methods),
                              methods, borrowed),
               methods, borrowed)

AddFunction(done, new) == [functions |-> Append(done.functions, new.f), next |-> new.next]
PlaceOwnership(module) ==
    [module EXCEPT !.functions =
       FoldLeft(LAMBDA d, f : AddFunction(d, PlaceFunction(f, d.next, FunctionSymbols(module))),
                [functions |-> <<>>, next |-> FirstFreeSymbol(module)], @).functions]
=============================================================================
