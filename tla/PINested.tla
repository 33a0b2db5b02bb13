------------------------------ MODULE PINested ------------------------------
(***************************************************************************)
(* Module PI with a history variable: the handlers that have been entered  *)
(* and have not returned, in the order they were entered. A handler        *)
(* returns with JEN, which calls dismissInterrupt; the handler it returns  *)
(* from is the one entered last.                                           *)
(***************************************************************************)
EXTENDS PI, Sequences

CONSTANT MaxDepth  \* bound on the handlers nested in a run

VARIABLE service  \* levels of the handlers running, the latest last

nestedVars == <<piVars, service>>

NestedInit == PIInit /\ service = <<>>

Enter(l) ==
    /\ Len(service) < MaxDepth
    /\ Accept(l)
    /\ service' = Append(service, l)

Return ==
    /\ service # <<>>
    /\ Dismiss
    /\ service' = SubSeq(service, 1, Len(service) - 1)

\* Everything a program or a device can do short of a reset.
Request ==
    /\ \/ \E f \in ConoPI : "clearPI" \notin f.bits /\ PutConditions(f)
       \/ \E d \in Devices \ {PIDev}, l \in AssignedLevel : OtherDevice(d, l)
    /\ UNCHANGED service

NestedNext ==
    /\ ~hung
    /\ Return \/ Request \/ \E l \in Level : Enter(l)

NestedSpec == NestedInit /\ [][NestedNext]_nestedVars

\* pi.cpp:14-16: "only higher priority levels can interrupt lower priority
\* levels. An interrupt at a given level cannot be interrupted by a same or
\* lower priority level interrupt." Every handler running is more urgent
\* than the one it interrupted.
OnlyMoreUrgentInterrupts ==
    \A i, j \in DOMAIN service : i < j => service[j] < service[i]

=============================================================================
