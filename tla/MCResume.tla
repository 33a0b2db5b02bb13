------------------------------ MODULE MCResume ------------------------------
(***************************************************************************)
(* A main program at 0-3, which turns the interrupt system and the pager   *)
(* on, requests interrupts, starts sweeps, traps, skips, overflows a stack *)
(* by PUSHJ, executes remotely, calls the monitor by LUUO and enters user  *)
(* mode; a trap handler, a LUUO handler and an interrupt handler.          *)
(***************************************************************************)
EXTENDS Resume

OnPI == [bits |-> {"turnPIOn", "levelsTurnOn"}, levels |-> {1}]
MCConoPI == {OnPI}

EnableAPR == [bits |-> {"enable"}, select |-> {SweepDone}, level |-> 1]
IdleAPR == [bits |-> {"disable", "clear"}, select |-> {SweepDone}, level |-> 0]
MCConoAPR == {EnableAPR, IdleAPR}

MCLinks == {"user", "luuo", "trap", "pi"}
MCInitLinks == [w \in MCLinks |->
                  IF w = "user" THEN [pc |-> 1, flags |-> {"usr"}] ELSE [pc |-> 0, flags |-> {}]]

MCMain == 0 .. 3
MCRemote == {4, 5}
MCLUUOHandler == {6}
MCTrapHandler == {12}
MCPIHandler == {10, 11}

N == [op |-> "normal"]
CallOf(link, a) == [op |-> "call", link |-> link, to |-> a]
PushOf(link, a, full) == [op |-> "pushj", link |-> link, to |-> a, full |-> full]

MCCode ==
    [a \in Addr |->
        CASE a = 0 -> {[op |-> "conoPI", word |-> OnPI],
                       [op |-> "jrstf", link |-> "user", indirect |-> FALSE]}
          [] a = 1 -> {[op |-> "conoAPR", word |-> EnableAPR], [op |-> "xct", to |-> 4],
                       [op |-> "skip"],
                       [op |-> "conoPAG", enable |-> TRUE]}
          [] a = 2 -> {[op |-> "luuo"], [op |-> "cca", result |-> "iNormal"],
                       [op |-> "trap", flag |-> "tr1"], PushOf("user", 0, TRUE)}
          [] a = 3 -> {[op |-> "jump", to |-> 0]}
          [] a = 4 -> {[op |-> "setTrap", flag |-> "tr2"]}
          [] a = 5 -> {PushOf("luuo", 6, FALSE)}
          [] a = 6 -> {[op |-> "jrstf", link |-> "luuo", indirect |-> TRUE]}
          [] a = 7 -> {CallOf("trap", 12), PushOf("trap", 12, FALSE)}
          [] a = 8 -> {N, CallOf("pi", 10)}
          [] a = 9 -> {CallOf("pi", 10)}
          [] a = 10 -> {[op |-> "conoAPR", word |-> IdleAPR]}
          [] a = 11 -> {[op |-> "jen", link |-> "pi", indirect |-> FALSE]}
          [] a = 12 -> {[op |-> "jrstf", link |-> "trap", indirect |-> TRUE]}]


ASSUME Code = MCCode => Disciplined

\* The same program with an instruction that skips in the interrupt vector.
SkipCode == [MCCode EXCEPT ![8] = {[op |-> "skip"]}]

=============================================================================
