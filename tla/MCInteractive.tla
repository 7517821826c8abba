--------------------------- MODULE MCInteractive ---------------------------
(* A small instance of InteractiveSession. *)
EXTENDS InteractiveSession
=============================================================================
