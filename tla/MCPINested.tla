----------------------------- MODULE MCPINested -----------------------------
(* Three levels; CONO PI, words with one function bit. *)
EXTENDS PINested

MCConoPI == {f \in PIFunctions : Cardinality(f.bits) = 1 /\ Cardinality(f.levels) = 1}
=============================================================================
