--------------------------- MODULE MCInstructions ---------------------------
(* Four-bit words: two ACs and two words of memory. AC 0 and the word at 2   *)
(* take every value, their neighbours one pair of values or another.        *)
EXTENDS InstructionLaws

MCFields == {<<0, 2>>, <<1, 2>>, <<0, 1>>, <<0, 3>>}
MCShiftCounts == {-9, -5, -4, -2, -1, 0, 1, 3, 6}
MCInitStores ==
    {[x \in 0 .. 3 |-> <<a, p[1], m, p[2]>>[x + 1]] :
        a \in Word, m \in Word, p \in {<<3, 12>>, <<13, 7>>}}
MCInitFlags == {{}, {"usr"}}
============================================================================
