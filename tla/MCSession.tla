------------------------------ MODULE MCSession ------------------------------
(* Three addresses: the words at 1 and 2 read or write one of the others. Three *)
(* slots of history, which pchist may be asked for one more of, and a          *)
(* breakpoint of each kind to set.                                             *)
EXTENDS Session

MCWord == {0, 1, 2}
MCProgram ==
    [a \in MCWord |-> CASE a = 0 -> [op |-> 5, get |-> {}, put |-> {}]
                        [] a = 1 -> [op |-> 6, get |-> {2}, put |-> {}]
                        [] a = 2 -> [op |-> 5, get |-> {}, put |-> {0}]]
L(c, k, n) == [cmd |-> c, kind |-> k, n |-> n]
MCLines ==
    {L("step", "", 1), L("step", "", 2), L("step", "", 0), L("continue", "", 0), L("pc", "", 1),
     L("show", "", 0), L("quit", "", 0), L("set", "bp", 1), L("remove", "bp", 1), L("clear", "bp", 0),
     L("set", "obp", 6), L("set", "gbp", 2), L("set", "pbp", 0)}
MCInitBPs == {[k \in Kinds |-> {}], [k \in Kinds |-> {0}]}
============================================================================
