------------------------- MODULE MCProjectArtifacts -------------------------
(* Small instances of ProjectArtifacts. *)
EXTENDS ProjectArtifacts, TLC

(* Two ASCII names that differ in case only, and two Unicode names that    *)
(* the volume takes for one entry.  Of two builds that write "a", one may  *)
(* write "u1" as well, so what they replace agrees in part or in whole.    *)
MCNames == {"a", "A", "u1", "u2"}
MCFold == [n \in MCNames |-> IF n = "A" THEN "a" ELSE n]
MCEntry == [n \in MCNames |-> CASE n = "A" -> "a" [] n = "u2" -> "u1" [] OTHER -> n]
MCNonAscii == {"u1", "u2"}
MCBatches == {<<>>, <<"a">>, <<"a", "A">>, <<"a", "u1">>, <<"u1", "u2">>}

(* Perhaps an earlier build was killed. *)
MCLeftovers == {{}, {0}}

MCSymmetry == Permutations(Builds)

(* Two builds of the same sources. *)
MCPlainNames == {"a", "u1"}
MCSameBatch == {<<"a", "u1">>}
=============================================================================
