------------------------------- MODULE MCStack -------------------------------
(* Half words of three bits: a stack of two words and its limit, between a  *)
(* word below it and a word above, filled from AC 0 and memory word 2.      *)
EXTENDS Stack

MCAmounts == {-2, -1, 1, 2}
MCInitStore == [a \in 0 .. 7 |-> CASE a = 0 -> 13 [] a = 2 -> 22 [] OTHER -> 0]
============================================================================
