-------------------------------- MODULE MCPI --------------------------------
(* Three levels, so that handlers nest three deep, and the CONO PI, words  *)
(* with at most three function and level bits.                             *)
EXTENDS PI

MCConoPI == {f \in PIFunctions : Cardinality(f.bits) + Cardinality(f.levels) <= 3}
=============================================================================
