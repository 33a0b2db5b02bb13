--------------------------- MODULE PriorityArbiter ---------------------------
(***************************************************************************)
(* What the priority interrupt system promises the programs it interrupts: *)
(* a level is granted only while it is the most urgent level wanted and    *)
(* more urgent than every level in service, and a level leaves service     *)
(* only when the whole service ends.                                       *)
(***************************************************************************)
EXTENDS Naturals

CONSTANT Level

VARIABLES
    wanted,     \* levels with an enabled, pending request
    inService   \* levels whose handlers have been entered and not dismissed

Init == wanted = {} /\ inService = {}

\* The machine enters the handler of level l.
Grant(l) ==
    /\ l \in wanted
    /\ \A m \in wanted : l <= m
    /\ \A m \in inService : l < m
    /\ inService' = inService \cup {l}
    /\ UNCHANGED wanted

\* Requests come, go, are enabled and disabled without entering a handler.
Change ==
    /\ wanted' \in SUBSET Level
    /\ UNCHANGED inService

\* Service ends: dismissal, CONO PI with clearPI, or an I/O reset.
Release ==
    /\ wanted' \in SUBSET Level
    /\ inService' = {}

Next == Change \/ Release \/ \E l \in Level : Grant(l)

Spec == Init /\ [][Next]_<<wanted, inService>>

=============================================================================
