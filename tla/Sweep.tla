------------------------------- MODULE Sweep -------------------------------
(***************************************************************************)
(* The arithmetic processor's conditions and the cache sweep timer:        *)
(* src/apr.cpp and cca.cpp. The two devices are one module because         *)
(* each writes the other's state: a sweep is started by a CCA operation    *)
(* and reported, when its count runs out, by an APR condition that may     *)
(* interrupt; CONO APR, with the clear-I/O bit resets both.                *)
(***************************************************************************)
EXTENDS Device, FiniteSets

CONSTANTS
    APRFlag,     \* bit positions of the eight APR conditions, sweepDone the lowest
    SweepTicks,  \* instruction cycles a sweep takes; 10 in cca.cpp
    ConoAPR      \* the CONO APR, words the program may issue

SweepDone == 0

APRBit == {"disable", "enable", "clear", "set", "clearIO"}
APRFunctions == [bits : SUBSET APRBit, select : SUBSET APRFlag, level : AssignedLevel]

ASSUME APRFlagAssumption == APRFlag \subseteq Nat /\ SweepDone \in APRFlag
ASSUME SweepTicksAssumption == SweepTicks \in Nat \ {0}
ASSUME ConoAPRAssumption == ConoAPR \subseteq APRFunctions

VARIABLES
    aprLevel,       \* APRState::intLevel
    intRequest,     \* APRState::intRequest
    active,         \* APRState::active, a set of conditions
    enabled,        \* APRState::enabled
    sweepBusy,      \* APRState::sweepBusy
    sweepCountDown  \* CCADevice::sweepCountDown

aprState == <<aprLevel, intRequest, active, enabled>>
sweepState == <<aprState, sweepBusy, sweepCountDown>>
sweepVars == <<lines, sweepState>>

SweepTypeOK ==
    /\ LinesTypeOK
    /\ aprLevel \in AssignedLevel
    /\ intRequest \in BOOLEAN
    /\ active \in SUBSET APRFlag
    /\ enabled \in SUBSET APRFlag
    /\ sweepBusy \in BOOLEAN
    /\ sweepCountDown \in 0 .. SweepTicks

SweepStateInit ==
    /\ aprLevel = 0
    /\ intRequest = FALSE
    /\ active = {}
    /\ enabled = {}
    /\ sweepBusy = FALSE
    /\ sweepCountDown = 0

-----------------------------------------------------------------------------
(* The sweep timer *)

StartSweepForgetsBusy ==
    /\ sweepCountDown' = SweepTicks
    /\ UNCHANGED <<lines, aprState, sweepBusy>>

\* Any of the seven CCA operations; one that comes while a sweep is running
\* starts the count again.
StartSweep ==
    /\ sweepCountDown' = SweepTicks
    /\ sweepBusy' = TRUE
    /\ UNCHANGED <<lines, aprState>>

RequestAPR ==
    /\ intRequest' = TRUE
    /\ intPending' = [intPending EXCEPT ![APRDev] = TRUE]

EndSweepAlwaysRequests ==
    /\ sweepBusy' = FALSE
    /\ active' = active \cup {SweepDone}
    /\ RequestAPR
    /\ UNCHANGED <<intLevel, aprLevel, enabled>>

EndSweep ==
    /\ sweepBusy' = FALSE
    /\ active' = active \cup {SweepDone}
    /\ IF aprLevel # 0 /\ SweepDone \in enabled
       THEN RequestAPR
       ELSE UNCHANGED <<intRequest, intPending>>
    /\ UNCHANGED <<intLevel, aprLevel, enabled>>

\* handleSweep, at the top of every pass of the instruction loop, while a
\* sweep is counting.
HandleSweep ==
    /\ sweepCountDown > 0
    /\ sweepCountDown' = sweepCountDown - 1
    /\ IF sweepCountDown = 1 THEN EndSweep ELSE UNCHANGED <<lines, aprState, sweepBusy>>

-----------------------------------------------------------------------------
(* CONO APR, *)

\* The bit fields compared as the unsigned numbers they are: S is greater
\* than T if the highest bit in which they differ belongs to S.
NumGreater(S, T) == \E b \in S \ T : \A c \in T \ S : c < b

SelectIf(f, bit) == IF bit \in f.bits THEN f.select ELSE {}

EnabledAfter(f) == (enabled \ SelectIf(f, "disable")) \cup SelectIf(f, "enable")

\* The comparison is with the conditions active before this word clears or
\* sets any.
NewlySet(f) ==
    /\ {"enable", "set"} \subseteq f.bits
    /\ NumGreater(EnabledAfter(f) \cap f.select, active)

PutAPRConditionsLineOnly(f) ==
    /\ intLevel' = [intLevel EXCEPT ![APRDev] = f.level]
    /\ enabled' = EnabledAfter(f)
    /\ active' = (active \ SelectIf(f, "clear")) \cup SelectIf(f, "set")
    /\ IF NewlySet(f) THEN RequestAPR ELSE UNCHANGED <<intRequest, intPending>>
    /\ UNCHANGED <<aprLevel, sweepBusy, sweepCountDown>>

\* A word without the clear-I/O bit.
PutAPRConditions(f) ==
    /\ aprLevel' = f.level
    /\ intLevel' = [intLevel EXCEPT ![APRDev] = f.level]
    /\ enabled' = EnabledAfter(f)
    /\ active' = (active \ SelectIf(f, "clear")) \cup SelectIf(f, "set")
    /\ IF NewlySet(f) THEN RequestAPR ELSE UNCHANGED <<intRequest, intPending>>
    /\ UNCHANGED <<sweepBusy, sweepCountDown>>

ResetSweepCCAFirst ==
    /\ aprLevel' = 0
    /\ intRequest' = FALSE
    /\ enabled' = {}
    /\ active' = {}
    /\ sweepBusy' = FALSE
    /\ sweepCountDown' = 0

\* A word with the clear-I/O bit ends in Device::clearAll, which undoes all
\* the word did before. It visits the APR before the CCA, whose clearIO ends
\* a running sweep: the APR, already cleared, reports it done and has no
\* level to interrupt at.
ResetSweep ==
    /\ aprLevel' = 0
    /\ intRequest' = FALSE
    /\ enabled' = {}
    /\ active' = IF sweepCountDown > 0 THEN {SweepDone} ELSE {}
    /\ sweepBusy' = FALSE
    /\ sweepCountDown' = 0

ResetByAPR(f) == "clearIO" \in f.bits /\ ClearLines /\ ResetSweep

SetByAPR(f) == "clearIO" \notin f.bits /\ PutAPRConditions(f)

-----------------------------------------------------------------------------
SweepInit == LinesInit /\ SweepStateInit

\* Another device's lines change, the PI's for example.
OtherLines ==
    /\ intLevel' \in [Devices -> AssignedLevel]
    /\ intPending' \in [Devices -> BOOLEAN]
    /\ intLevel'[APRDev] = intLevel[APRDev]
    /\ intPending'[APRDev] = intPending[APRDev]
    /\ UNCHANGED sweepState

SweepNext ==
    \/ OtherLines
    \/ StartSweep
    \/ HandleSweep
    \/ \E f \in ConoAPR : ResetByAPR(f)
    \/ \E f \in ConoAPR : SetByAPR(f)

SweepSpec == SweepInit /\ [][SweepNext]_sweepVars

-----------------------------------------------------------------------------
(* Properties *)

\* The busy bit a program polls in the APR is on exactly while the counter
\* in the CCA runs, whatever restarts, conditions and resets come between.
BusyWhileCounting == sweepBusy <=> sweepCountDown > 0

\* CONI APR, shows the program the request and the level the PI acts on.
APRMirrorsLine == intRequest = intPending[APRDev] /\ aprLevel = intLevel[APRDev]

\* The APR begins to request an interrupt only when some condition is both
\* enabled and active.
RequestHasCause ==
    [][(~intPending[APRDev] /\ intPending'[APRDev]) => enabled' \cap active' # {}]_sweepVars

\* However a sweep ends, by its count or by an I/O reset in its midst, the
\* program finds it reported.
SweepEndIsReported ==
    [][(sweepCountDown > 0 /\ sweepCountDown' = 0) => SweepDone \in active']_sweepVars

=============================================================================
