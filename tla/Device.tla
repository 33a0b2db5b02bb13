------------------------------- MODULE Device -------------------------------
(***************************************************************************)
(* The part of struct Device (src/device.hpp, device.cpp) that every       *)
(* I/O device shares and the priority interrupt system reads: the level a  *)
(* device is assigned and whether it has an interrupt pending.             *)
(*                                                                         *)
(* Only two devices of the KM10 ever call requestInterrupt(): the PI       *)
(* device, for programmed requests, and the APR, for its own conditions.   *)
(* The set is a parameter all the same: the arbitration does not depend on *)
(* how many there are.                                                     *)
(***************************************************************************)
EXTENDS Naturals

CONSTANTS
    NumLevels,  \* priority levels; 7 in the KL10, level 1 is the highest
    Devices,    \* the devices that can request an interrupt
    PIDev,      \* the PI device itself
    APRDev      \* the arithmetic processor

ASSUME NumLevelsAssumption == NumLevels \in Nat \ {0}
ASSUME DevicesAssumption == {PIDev, APRDev} \subseteq Devices /\ PIDev # APRDev

VARIABLES
    intLevel,   \* Device::intLevel, 0 when no level is assigned
    intPending  \* Device::intPending

lines == <<intLevel, intPending>>

Level == 1 .. NumLevels
AssignedLevel == 0 .. NumLevels

LinesTypeOK ==
    /\ intLevel \in [Devices -> AssignedLevel]
    /\ intPending \in [Devices -> BOOLEAN]

LinesInit ==
    /\ intLevel = [d \in Devices |-> 0]
    /\ intPending = [d \in Devices |-> FALSE]

\* Device::clearAll reaches Device::clearIO of every device that has lines.
ClearLines ==
    /\ intLevel' = [d \in Devices |-> 0]
    /\ intPending' = [d \in Devices |-> FALSE]

\* Device::clearIO of one device.
ClearLine(d) ==
    /\ intLevel' = [intLevel EXCEPT ![d] = 0]
    /\ intPending' = [intPending EXCEPT ![d] = FALSE]

\* l is the most urgent level of S: the numerically lowest.
IsHighest(l, S) == l \in S /\ \A m \in S : l <= m

=============================================================================
