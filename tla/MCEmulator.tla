----------------------------- MODULE MCEmulator -----------------------------
(***************************************************************************)
(* A program without discipline: every kind of instruction may be found at *)
(* every address, the vectors included, and the debugger may be entered at *)
(* any time.                                                               *)
(***************************************************************************)
EXTENDS Emulator

OnPI == [bits |-> {"turnPIOn", "levelsTurnOn"}, levels |-> {1}]
RequestPI == [bits |-> {"initiatePR"}, levels |-> {1}]
ClearAllPI == [bits |-> {"clearPI"}, levels |-> {}]
HangPI == [bits |-> {"initiatePR"}, levels |-> {}]
MCConoPI == {OnPI, RequestPI, ClearAllPI, HangPI}

EnableAPR == [bits |-> {"enable"}, select |-> {SweepDone}, level |-> 1]
ResetAPR == [bits |-> {"clearIO"}, select |-> {}, level |-> 0]
MCConoAPR == {EnableAPR, ResetAPR}

MCLinks == {"link"}
MCInitLinks == [w \in MCLinks |-> [pc |-> 0, flags |-> {"usr"}]]

MCInstructions ==
    {[op |-> o] : o \in {"normal", "skip", "halt", "muuo", "luuo"}}
    \cup {[op |-> "jump", to |-> 0], [op |-> "xct", to |-> 1]}
    \cup {[op |-> o, to |-> 1, link |-> "link"] : o \in {"call", "jsa"}}
    \cup {[op |-> "pushj", to |-> 1, link |-> "link", full |-> FALSE]}
    \cup {[op |-> o, link |-> "link", indirect |-> b] : o \in {"jrstf", "jen"}, b \in BOOLEAN}
    \cup {[op |-> o, flag |-> "tr1"] : o \in {"trap", "setTrap"}}
    \cup {[op |-> "conoPI", word |-> f] : f \in MCConoPI}
    \cup {[op |-> "conoAPR", word |-> f] : f \in MCConoAPR}
    \cup {[op |-> "conoPAG", enable |-> b] : b \in BOOLEAN}
    \cup {[op |-> "cca", result |-> r] : r \in {"iNormal", "iSkip", "iNoSuchDevice"}}

MCCode == [a \in Addr |-> MCInstructions]
=============================================================================
