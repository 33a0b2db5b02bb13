------------------------------ MODULE KeyStream ------------------------------
(***************************************************************************)
(* What the console promises the program that reads it: characters arrive  *)
(* in the order they were typed, seven bits of each, none twice. Those the *)
(* emulator has read are never lost; those it has not are lost only when   *)
(* the terminal changes its mode. The interrupt key takes its turn and is  *)
(* not given to the program.                                               *)
(***************************************************************************)
EXTENDS Naturals, Sequences

CONSTANTS
    Char,         \* what is typed
    InterruptKey  \* the one that is a signal

VARIABLES
    unread,  \* typed and still with the terminal
    ours,    \* read by the emulator and not yet given to the program
    answer,  \* the last answer to the program, 0 for no character
    raw      \* the mode of the terminal

Init ==
    /\ unread = <<>>
    /\ ours = <<>>
    /\ answer = 0
    /\ raw = FALSE

Type(c) == unread' = Append(unread, c) /\ UNCHANGED <<ours, answer, raw>>

Receive ==
    /\ unread # <<>>
    /\ unread' = Tail(unread)
    /\ ours' = IF Head(unread) = InterruptKey THEN ours ELSE Append(ours, Head(unread))
    /\ UNCHANGED <<answer, raw>>

Give ==
    /\ ours # <<>>
    /\ answer' = Head(ours) % 128
    /\ ours' = Tail(ours)
    /\ UNCHANGED <<unread, raw>>

GiveNone == answer' = 0 /\ UNCHANGED <<unread, ours, raw>>

SwitchMode ==
    /\ raw' = ~raw
    /\ unread' = <<>>
    /\ UNCHANGED <<ours, answer>>

Next == (\E c \in Char : Type(c)) \/ Receive \/ Give \/ GiveNone \/ SwitchMode

Spec == Init /\ [][Next]_<<unread, ours, answer, raw>>

=============================================================================
