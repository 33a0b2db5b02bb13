------------------------------- MODULE MCLoops -------------------------------
(* Words of six bits: i, two bits of x, three of y; four ACs, four words of   *)
(* memory. References of every shape in memory; every transfer and every     *)
(* count, direct and through an index.                                       *)
EXTENDS Loops

I(o, a, i, x, y) == [op |-> o, ac |-> a, i |-> i, x |-> x, y |-> y]
Store(ac, pointer, m) ==
    [a \in Addr |-> CASE a = ac -> pointer [] a = 1 /\ ac # 1 -> 62 [] a \in 4 .. 7 -> m[a - 3]
                      [] OTHER -> 10 + a]

\* 36, 38 and 39: @4, @6, @7; 47: @7(1); 5: 5.
References == {<<p, q, r, s>> : p \in {5, 36, 38}, q \in {39, 36}, r \in {5, 47}, s \in {36, 5}}
Chains ==
    {<<I(o, 2, 1, x, y), Store(2, 60, m)>> :
        o \in {"BLT", "AOBJN"}, x \in {0, 1}, y \in {3, 4, 5, 6}, m \in References}
Transfers ==
    {<<I("BLT", ac, 0, 0, y), Store(ac, p, <<21, 42, 11, 25>>)>> :
        ac \in {0, 3}, y \in Addr, p \in Word}
Counts ==
    {<<I(o, 3, 0, x, 4), Store(3, p, <<21, 42, 11, 25>>)>> :
        o \in {"AOBJN", "AOBJP"}, x \in {0, 3}, p \in Word}

MCInitCases == Chains \union Transfers \union Counts
============================================================================
