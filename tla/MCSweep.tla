------------------------------ MODULE MCSweep ------------------------------
(* Three conditions and one level; every CONO APR, word; the sweep takes   *)
(* the ten cycles it takes in the code.                                    *)
EXTENDS Sweep

MCConoAPR == APRFunctions
=============================================================================
