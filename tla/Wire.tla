-------------------------------- MODULE Wire --------------------------------
(***************************************************************************)
(* The files of Xpp and Xmm (Talac/Codegen/Xpp/Wire.cpp, Xmm/Wire.cpp and  *)
(* Artifact/WireSupport.cpp).  A document is a sequence of numbers, one    *)
(* for each field the writer appends: a file cut inside a field ends       *)
(* before it, for the reader.  A text is its number in Texts.               *)
(*                                                                         *)
(* The reader knows nothing but the numbers.  Its state is                 *)
(* [doc, at, ok]: the first failure sticks, and what is read after it      *)
(* counts for nothing.                                                     *)
(***************************************************************************)
EXTENDS Xmm

CONSTANTS
    Texts,          \* the names, paths and pieces of text there are
    MaximumCount    \* bound: the largest collection (65535 and more)

NumberOf(x, catalog) == (CHOOSE i \in DOMAIN catalog : catalog[i] = x) - 1

TypeTags == <<"unit", "bool", "int", "uint", "float", "str", "fn", "named", "var">>
LiteralTags == <<"none", "bool", "int", "float", "str">>
TerminatorTags == <<"Return", "Branch", "Jump", "Unreachable">>
CaptureTags == <<"Strong", "Weak", "Unowned">>
OperandTags == <<"symbol", "literal">>
ValueTags == <<"register", "immediate", "function">>
EffectTags == <<"define", "store", "discard">>
SharedOpcodes ==
    <<"Call", "Add", "Subtract", "Multiply", "Divide", "FloorDivide", "Remainder",
      "CompareLess", "CompareLessEqual", "CompareGreater", "CompareGreaterEqual",
      "CompareEqual", "CompareNotEqual">>
OwnershipOpcodes ==
    <<"MakeClosure", "RetainStrong", "ReleaseStrong", "MakeWeak", "LockWeak", "ReleaseWeak",
      "MakeUnowned", "LoadUnowned", "ReleaseUnowned", "Power", "ShiftLeft", "ShiftRight",
      "BitwiseAnd", "BitwiseXor", "BitwiseOr", "BitwiseNot", "TypeIs", "Memoize", "RuntimeCall">>
XppOpcodes == <<"Copy">> \o SharedOpcodes \o <<"LogicalAnd", "LogicalOr", "Negate", "LogicalNot">>
                \o OwnershipOpcodes
XmmOpcodes == <<"LoadImmediate", "Move">> \o SharedOpcodes
                \o <<"AndBool", "OrBool", "Negate", "NotBool">> \o OwnershipOpcodes
XppMagic == 84
XmmMagic == 85
CurrentVersion == 1
-----------------------------------------------------------------------------
(* The writer. *)
WriteTag(x, catalog) == <<NumberOf(x, catalog)>>
WriteBoolean(b) == <<IF b THEN 1 ELSE 0>>
WriteText(text) == <<NumberOf(text, Texts)>>
WriteMany(Write(_), values) ==
    <<Len(values)>> \o FlattenSeq([i \in DOMAIN values |-> Write(values[i])])
WriteName(name) == WriteMany(WriteText, name)

(* The components of a callable: its parameters, then its result.  The     *)
(* names of declared types and of type variables are left out.             *)
RECURSIVE WriteType(_)
WriteType(type) ==
    WriteTag(Kind(type), TypeTags) \o
    IF Kind(type) = "fn"
      THEN LET components == Append(type[2], type[3]) IN
           <<Len(components)>> \o FlattenSeq([i \in DOMAIN components |-> WriteType(components[i])])
      ELSE <<>>

WriteLiteral(lit) ==
    WriteTag(IF lit[1] = "fixed" THEN "int" ELSE lit[1], LiteralTags) \o
    CASE lit[1] = "none" -> <<>>
      [] lit[1] = "bool" -> WriteBoolean(lit[2])
      [] lit[1] \in {"int", "fixed"} ->
           WriteBoolean(lit[2] < 0) \o <<IF lit[2] < 0 THEN -lit[2] ELSE lit[2]>>
      [] lit[1] = "float" -> WriteText(lit[2])
      [] lit[1] = "str" -> WriteName(lit[2])

WriteOperand(o) ==
    WriteTag(o.kind, OperandTags) \o WriteType(o.type) \o
    IF o.kind = "symbol" THEN <<o.sym>> ELSE WriteLiteral(o.lit)
WriteValue(v) ==
    WriteTag(v.kind, ValueTags) \o WriteType(v.type) \o
    IF v.kind = "immediate" THEN WriteLiteral(v.lit) ELSE <<v.sym>>

WriteCaptureMode(mode) == WriteTag(mode, CaptureTags)
WriteXppInstruction(i) ==
    WriteTag(i.effect, EffectTags) \o WriteTag(i.op, XppOpcodes) \o <<i.dest>> \o WriteType(i.type)
    \o WriteMany(WriteOperand, i.args) \o <<i.fn>> \o WriteMany(WriteCaptureMode, i.modes)
WriteXmmInstruction(i) ==
    WriteTag(i.op, XmmOpcodes) \o <<i.dest>> \o WriteType(i.type) \o WriteBoolean(i.effect = "result")
    \o WriteMany(WriteValue, i.args) \o <<i.fn>> \o WriteMany(WriteCaptureMode, i.modes)

WriteBlock(b, WriteInstruction(_), Write(_)) ==
    <<b.id>> \o WriteMany(WriteInstruction, b.code)
    \o WriteTag(b.term.kind, TerminatorTags) \o Write(b.term.value) \o <<b.term.t, b.term.f>>
WriteXppBlock(b) == WriteBlock(b, WriteXppInstruction, WriteOperand)
WriteXmmBlock(b) == WriteBlock(b, WriteXmmInstruction, WriteValue)

WriteParameter(p) == <<p.sym>> \o WriteType(p.type)
WriteXppFunction(f) ==
    <<f.sym>> \o WriteText(f.source) \o WriteMany(WriteParameter, f.params)
    \o WriteType(f.result) \o <<f.entry>> \o WriteMany(WriteXppBlock, f.blocks)
WriteXmmFunction(f) ==
    <<f.sym>> \o WriteText(f.source)
    \o WriteMany(LAMBDA p : <<p.sym>>, f.params) \o WriteMany(LAMBDA p : WriteType(p.type), f.params)
    \o WriteType(f.result) \o <<f.entry>> \o WriteMany(WriteXmmBlock, f.blocks)

WriteDocument(magic, module, WriteFunction(_)) ==
    <<magic, CurrentVersion, 0>> \o WriteName(module.name) \o WriteMany(WriteText, module.sources)
    \o WriteMany(WriteFunction, module.functions)

(* Count: a collection that is too large fails the writer. *)
CountsOk(module) ==
    \A f \in Range(module.functions) :
      /\ Len(f.params) <= MaximumCount /\ Len(f.blocks) <= MaximumCount
      /\ \A b \in Range(f.blocks) :
           Len(b.code) <= MaximumCount /\ \A i \in Range(b.code) : Len(i.args) <= MaximumCount

NoDocument == <<>>
XppEncode(module) ==
    IF XppVerified(module) /\ CountsOk(module) THEN WriteDocument(XppMagic, module, WriteXppFunction)
    ELSE NoDocument
XmmEncode(module) ==
    IF XmmVerified(module) /\ CountsOk(module) THEN WriteDocument(XmmMagic, module, WriteXmmFunction)
    ELSE NoDocument
-----------------------------------------------------------------------------
(* The reader.  What a Read gives is [v, r]: a value and the reader after. *)
Got(v, r) == [v |-> v, r |-> r]
Fail(r) == [r EXCEPT !.ok = FALSE]
Require(ok, got) == IF ok THEN got ELSE [got EXCEPT !.r = Fail(@)]

\* Mutant: a field that is missing reads as zero, and nobody notices.
ReadByteOrZero(r) ==
    IF r.ok /\ r.at <= Len(r.doc) THEN Got(r.doc[r.at], [r EXCEPT !.at = @ + 1]) ELSE Got(0, r)

(* Byte, and the integers made of bytes: TruncatedInput at the end. *)
ReadByte(r) ==
    IF r.ok /\ r.at <= Len(r.doc) THEN Got(r.doc[r.at], [r EXCEPT !.at = @ + 1]) ELSE Got(0, Fail(r))

TagOf(tag, catalog) ==
    IF tag.v + 1 \in DOMAIN catalog THEN Got(catalog[tag.v + 1], tag.r) ELSE Got(catalog[1], Fail(tag.r))
ReadTag(r, catalog) == TagOf(ReadByte(r), catalog)
BooleanOf(b) == Require(b.v <= 1, Got(b.v = 1, b.r))
ReadBoolean(r) == BooleanOf(ReadByte(r))
ReadText(r) == ReadTag(r, Texts)
CountOf(n, maximum) == IF n.r.ok /\ n.v <= maximum THEN n ELSE Got(0, Fail(n.r))
ReadCount(r, maximum) == CountOf(ReadByte(r), maximum)

(* One more value after those of got; Read starts with a first one. *)
AddTo(values, one) == Got(Append(values, one.v), one.r)
Then(got, Read(_)) == AddTo(got.v, Read(got.r))
Start(r) == Got(<<>>, r)

(* n values one after the other, until one of them fails. *)
ReadMany(n, Read(_)) ==
    FoldLeft(LAMBDA got, i : IF ~ got.r.ok THEN got ELSE Then(got, Read), Start(n.r), [i \in 1..n.v |-> i])
ReadSequence(r, Read(_)) == ReadMany(ReadCount(r, MaximumCount), Read)
ReadName(r) == ReadSequence(r, ReadText)

FunctionTypeOf(parts) ==
    IF parts.v = <<>> THEN Got(UnitT, Fail(parts.r)) ELSE Got(FnT(Front(parts.v), Last(parts.v)), parts.r)
RECURSIVE ReadType(_)
TypeOf(kind) ==
    IF kind.v # "fn" THEN Got(<<kind.v>>, kind.r)
    ELSE FunctionTypeOf(ReadMany(ReadCount(kind.r, MaximumCount + 1), LAMBDA s : ReadType(s)))
ReadType(r) == TypeOf(ReadTag(r, TypeTags))

(* integer_is_canonical: zero has no sign. *)
IntegerOf(got) ==
    LET negative == got.v[1]
        magnitude == got.v[2]
    IN  Require(negative => magnitude # 0, Got(<<"int", IF negative THEN -magnitude ELSE magnitude>>, got.r))
LiteralOf(kind, got) == Got(<<kind, got.v>>, got.r)
PayloadOf(tag) ==
    CASE tag.v = "none" -> Got(<<"none">>, tag.r)
      [] tag.v = "bool" -> LiteralOf(tag.v, ReadBoolean(tag.r))
      [] tag.v = "int" -> IntegerOf(Then(Then(Start(tag.r), ReadBoolean), ReadByte))
      [] tag.v = "float" -> LiteralOf(tag.v, ReadText(tag.r))
      [] tag.v = "str" -> LiteralOf(tag.v, ReadName(tag.r))
Matching(lit, type) == IF lit.r.ok THEN Require(LiteralMatches(lit.v, type), lit) ELSE lit
ReadLiteral(r, type) == Matching(PayloadOf(ReadTag(r, LiteralTags)), type)

(* An operand or a value: its kind and its type, then what they announce.  *)
SymbolOf(kind, type, sym) == Got([Symbol(sym.v, type) EXCEPT !.kind = kind], sym.r)
ImmediateOf(kind, type, lit) == Got([Literal(lit.v, type) EXCEPT !.kind = kind], lit.r)
OperandOf(head) ==
    IF head.v[1] \in {"literal", "immediate"}
      THEN ImmediateOf(head.v[1], head.v[2], ReadLiteral(head.r, head.v[2]))
      ELSE SymbolOf(head.v[1], head.v[2], ReadByte(head.r))
ReadTyped(r, tags) == OperandOf(Then(Then(Start(r), LAMBDA s : ReadTag(s, tags)), ReadType))
ReadOperand(r) == ReadTyped(r, OperandTags)
ReadValue(r) == ReadTyped(r, ValueTags)

(* What both forms have at the end of an instruction: type, arguments,     *)
(* function, modes; in between, only a register instruction says whether   *)
(* it has a result.                                                        *)
ReadCaptureMode(r) == ReadTag(r, CaptureTags)
ReadModes(r) == ReadSequence(r, ReadCaptureMode)
XppInstructionOf(got) ==
    LET v == got.v IN
    Got([Instr(v[1], v[2], v[3], v[4], v[5]) EXCEPT !.fn = v[6], !.modes = v[7]], got.r)
ReadXppInstruction(r) ==
    XppInstructionOf(Then(Then(Then(Then(Then(Then(Then(Start(r),
        LAMBDA s : ReadTag(s, EffectTags)), LAMBDA s : ReadTag(s, XppOpcodes)), ReadByte), ReadType),
        LAMBDA s : ReadSequence(s, ReadOperand)), ReadByte), ReadModes))
XmmInstructionOf(got) ==
    LET v == got.v IN
    Got([Instr(IF v[4] THEN "result" ELSE "discard", v[1], v[2], v[3], v[5])
           EXCEPT !.fn = v[6], !.modes = v[7]], got.r)
ReadXmmInstruction(r) ==
    XmmInstructionOf(Then(Then(Then(Then(Then(Then(Then(Start(r),
        LAMBDA s : ReadTag(s, XmmOpcodes)), ReadByte), ReadType), ReadBoolean),
        LAMBDA s : ReadSequence(s, ReadValue)), ReadByte), ReadModes))

TerminatorOf(got) ==
    Got([kind |-> got.v[1], value |-> got.v[2], t |-> got.v[3], f |-> got.v[4]], got.r)
ReadTerminator(r, Read(_)) ==
    TerminatorOf(Then(Then(Then(Then(Start(r), LAMBDA s : ReadTag(s, TerminatorTags)), Read), ReadByte),
                      ReadByte))
BlockRead(got) == Got([id |-> got.v[1], code |-> got.v[2], term |-> got.v[3]], got.r)
ReadBlock(r, ReadInstruction(_), Read(_)) ==
    BlockRead(Then(Then(Then(Start(r), ReadByte), LAMBDA s : ReadSequence(s, ReadInstruction)),
                   LAMBDA s : ReadTerminator(s, Read)))
ReadXppBlock(r) == ReadBlock(r, ReadXppInstruction, ReadOperand)
ReadXmmBlock(r) == ReadBlock(r, ReadXmmInstruction, ReadValue)

(* Symbol: an identity is positive. *)
Positive(id) == Require(id.v # 0, id)
ReadSymbol(r) == Positive(ReadByte(r))
ParameterOf(got) == Got([sym |-> got.v[1], type |-> got.v[2]], got.r)
ReadParameter(r) == ParameterOf(Then(Then(Start(r), ReadSymbol), ReadType))

(* A function: symbol, source, parameters, result, entry, blocks. *)
FunctionOf(got) ==
    LET v == got.v IN
    Got([sym |-> v[1], source |-> v[2], params |-> v[3], result |-> v[4], entry |-> v[5], blocks |-> v[6]], got.r)
ReadFunction(r, ReadParameters(_), ReadABlock(_)) ==
    FunctionOf(Then(Then(Then(Then(Then(Then(Start(r), ReadSymbol), ReadText), ReadParameters), ReadType),
                         ReadByte), LAMBDA s : ReadSequence(s, ReadABlock)))
ReadXppFunction(r) == ReadFunction(r, LAMBDA s : ReadSequence(s, ReadParameter), ReadXppBlock)

(* As many types as registers is for the verifier to see, which the shape  *)
(* of the record cannot show.                                              *)
RegistersOf(got) ==
    LET regs == got.v[1]
        types == got.v[2]
    IN  IF Len(types) # Len(regs) THEN Got(<<>>, Fail(got.r))
        ELSE Got([i \in DOMAIN regs |-> [sym |-> regs[i], type |-> types[i]]], got.r)
ReadRegisters(r) ==
    RegistersOf(Then(Then(Start(r), LAMBDA s : ReadSequence(s, ReadByte)), LAMBDA s : ReadSequence(s, ReadType)))
ReadXmmFunction(r) == ReadFunction(r, ReadRegisters, ReadXmmBlock)

HeaderOf(got, magic) == Require(got.v = <<magic, CurrentVersion, 0>>, got)
ReadHeader(doc, magic) ==
    HeaderOf(Then(Then(Then(Start([doc |-> doc, at |-> 1, ok |-> TRUE]), ReadByte), ReadByte), ReadByte), magic)
DocumentOf(got) ==
    Require(got.r.at = Len(got.r.doc) + 1,
            Got([name |-> got.v[1], sources |-> got.v[2], functions |-> got.v[3]], got.r))
ReadDocument(doc, magic, ReadAFunction(_)) ==
    DocumentOf(Then(Then(Then(Start(ReadHeader(doc, magic).r), ReadName),
                         LAMBDA s : ReadSequence(s, ReadText)), LAMBDA s : ReadSequence(s, ReadAFunction)))

(* Decode: a module, when the whole document is one. *)
XppDecode(doc) == ReadDocument(doc, XppMagic, ReadXppFunction)
XmmDecode(doc) == ReadDocument(doc, XmmMagic, ReadXmmFunction)
=============================================================================
