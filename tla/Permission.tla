----------------------------- MODULE Permission -----------------------------
(***************************************************************************)
(* What stepping and continuing promise: an instruction is executed only   *)
(* by permission, which the user grants at the prompt for the number of    *)
(* instructions the line says, or for ever, and which anything may         *)
(* withdraw, down to the instruction already fetched.                      *)
(***************************************************************************)
EXTENDS Integers

CONSTANT Forever

VARIABLES
    order,      \* what the last line permits: a number above 0, Forever, or 0 for nothing
    permit,     \* how many instructions may be executed, or Forever
    prompting   \* the user is asked

vars == <<order, permit, prompting>>

Init == order = 0 /\ permit = 0 /\ ~prompting

Less(p) == IF p = Forever THEN Forever ELSE p - 1

\* A line is typed, or the last one repeated, and it is obeyed to the letter.
Grant ==
    /\ prompting /\ permit = 0
    /\ order' \in (Nat \ {0}) \union {Forever}
    /\ permit' = order'
    /\ ~prompting'

\* A line that permits nothing leaves the user at the prompt or has the processor
\* fetch again.
Talk == prompting /\ order' = 0 /\ UNCHANGED <<permit, prompting>>
Refetch == prompting /\ ~prompting' /\ order' = 0 /\ UNCHANGED permit

Ask == ~prompting /\ permit = 0 /\ prompting' /\ UNCHANGED <<order, permit>>

Execute ==
    /\ ~prompting /\ permit # 0
    /\ permit' \in {Less(permit), 0}
    /\ UNCHANGED <<order, prompting>>

Withdraw ==
    /\ ~prompting /\ permit # 0
    /\ permit' \in {0, 1}
    /\ UNCHANGED <<order, prompting>>

\* Withdrawn and asked at once: the processor finds a breakpoint at what it fetched.
Break == ~prompting /\ permit' = 0 /\ prompting' /\ UNCHANGED order

Next == Grant \/ Talk \/ Refetch \/ Ask \/ Execute \/ Withdraw \/ Break

Spec == Init /\ [][Next]_vars
============================================================================
