-------------------------- MODULE CompilePipeline --------------------------
(***************************************************************************)
(* The pipeline of a compile command (Driver/Pipeline.cpp) over the stages *)
(* of the middle end, from Core, from an xpp or from an xmm document.  Its *)
(* result is [ok, module], the module of the last stage the output asks    *)
(* for.                                                                    *)
(***************************************************************************)
EXTENDS CompileCommand, CorePrep, OwnershipPlacement, Wire

CONSTANT Sources    \* the texts of Demo.tala, as Core modules, by number

ASSUME SourcesConstant == \A q \in Requests : q.source \in DOMAIN Sources

Failed == [ok |-> FALSE, module |-> <<>>]
Succeeded(module) == [ok |-> TRUE, module |-> module]

ContinueFromXmm(xmm) == IF XmmVerified(xmm) THEN Succeeded(xmm) ELSE Failed
ContinueFromXpp(xpp, q) ==
    IF ~ XppVerified(xpp) THEN Failed
    ELSE IF q.output = "xpp" THEN Succeeded(xpp)
    ELSE ContinueFromXmm(IF q.optimize THEN XmmOptimize(LowerToXmm(xpp)) ELSE LowerToXmm(xpp))

ContinueFromLowered(xpp, q) == ContinueFromXpp(PlaceOwnership(IF q.optimize THEN XppOptimize(xpp) ELSE xpp), q)
ContinueFromCorePrep(prepared, q) ==
    IF CorePrepVerified(prepared) THEN ContinueFromLowered(LowerToXpp(prepared), q) ELSE Failed
ConsumeCore(core, q) == IF CoreVerified(core) THEN ContinueFromCorePrep(Prepare(core), q) ELSE Failed
ConsumeXpp(decoded, q) ==
    IF ~ decoded.r.ok \/ ~ XppVerified(decoded.v) THEN Failed
    ELSE ContinueFromXpp(IF q.optimize THEN XppOptimize(decoded.v) ELSE decoded.v, q)
ConsumeXmm(decoded, q) ==
    IF ~ decoded.r.ok \/ q.output = "xpp" \/ ~ XmmVerified(decoded.v) THEN Failed
    ELSE ContinueFromXmm(IF q.optimize THEN XmmOptimize(decoded.v) ELSE decoded.v)

Consume(data, q) ==
    IF q.input = "xpp" THEN ConsumeXpp(XppDecode(data), q) ELSE ConsumeXmm(XmmDecode(data), q)

\* What a command makes of the sources does not depend on the state.
FromSources == [q \in {r \in Requests : r.input = "tala"} |-> ConsumeCore(Sources[q.source], q)]
FromSource(q) == FromSources[q]

(* Encode verifies the module once more, and may find one of its           *)
(* collections too large.                                                  *)
Encode(module, q) == IF q.output = "xpp" THEN XppEncode(module) ELSE XmmEncode(module)
=============================================================================
