--------------------------------- MODULE PI ---------------------------------
(***************************************************************************)
(* The KL10 priority interrupt system: src/pi.cpp and pi.hpp, with the     *)
(* request lines of module Device.                                         *)
(*                                                                         *)
(* The emulator calls setUpInterruptCycleIfPending at the top of every     *)
(* instruction (Accept); CONO PI, writes the conditions; JEN and XJEN      *)
(* dismiss; CONO APR, with the clear-I/O bit resets every device. The      *)
(* three "write even parity" bits are stored and read back only, and are   *)
(* left out.                                                               *)
(***************************************************************************)
EXTENDS Device, FiniteSets

CONSTANT ConoPI  \* the CONO PI, words the program may issue

VARIABLES
    piOn,          \* PIState::piOn
    levelsOn,      \* PIState::levelsOn, a set of levels
    held,          \* PIState::held
    prLevels,      \* PIState::prLevels, levels requested by program
    currentLevel,  \* PIState::currentLevel
    inInterrupt,   \* KM10::inInterrupt, fetching from a vector
    hung           \* the scan for the requested level never returns

piState == <<piOn, levelsOn, held, prLevels, currentLevel>>
piVars == <<lines, piState, inInterrupt, hung>>

\* PIState::noLevel: less urgent than any level.
NoLevel == NumLevels + 1

PIBit == {"turnPIOn", "turnPIOff", "levelsTurnOff", "levelsTurnOn",
          "initiatePR", "clearPI", "dropPR"}
PIFunctions == [bits : SUBSET PIBit, levels : SUBSET Level]

ASSUME ConoPIAssumption == ConoPI \subseteq PIFunctions

PITypeOK ==
    /\ LinesTypeOK
    /\ piOn \in BOOLEAN
    /\ levelsOn \in SUBSET Level
    /\ held \in SUBSET Level
    /\ prLevels \in SUBSET Level
    /\ currentLevel \in 1 .. NoLevel
    /\ inInterrupt \in BOOLEAN
    /\ hung \in BOOLEAN

PIInit ==
    /\ LinesInit
    /\ piOn = FALSE
    /\ levelsOn = {}
    /\ held = {}
    /\ prLevels = {}
    /\ currentLevel = NoLevel
    /\ inInterrupt = FALSE
    /\ hung = FALSE

-----------------------------------------------------------------------------
(* setUpInterruptCycleIfPending *)

\* The levels the scan of the device list finds a candidate for: level 0 has
\* no bit in levelsOn. Devices that tie at a level enter the same vector, so
\* which of them the scan meets first makes no difference.
Wanted ==
    IF piOn THEN {intLevel[d] : d \in {e \in Devices : intPending[e]}} \cap levelsOn
            ELSE {}

AcceptFirstFound(l) ==
    /\ l \in Wanted
    /\ l < currentLevel
    /\ held' = held \cup {l}
    /\ currentLevel' = l
    /\ inInterrupt' = TRUE
    /\ UNCHANGED <<lines, piOn, levelsOn, prLevels, hung>>

AcceptUnnested(l) ==
    /\ IsHighest(l, Wanted)
    /\ currentLevel = NoLevel
    /\ held' = held \cup {l}
    /\ currentLevel' = l
    /\ inInterrupt' = TRUE
    /\ UNCHANGED <<lines, piOn, levelsOn, prLevels, hung>>

\* Enter the vector of level l. The request stays pending: nothing but the
\* device's own conditions, or a reset, takes it away.
Accept(l) ==
    /\ IsHighest(l, Wanted)
    /\ l < currentLevel
    /\ held' = held \cup {l}
    /\ currentLevel' = l
    /\ inInterrupt' = TRUE
    /\ UNCHANGED <<lines, piOn, levelsOn, prLevels, hung>>

-----------------------------------------------------------------------------
(* dismissInterrupt, clearIO *)

EndServiceKeepsHeld ==
    /\ currentLevel' = NoLevel
    /\ UNCHANGED held

\* held and currentLevel are cleared together, however many levels are held.
EndService ==
    /\ held' = {}
    /\ currentLevel' = NoLevel

\* dismissInterrupt, called by JEN and XJEN.
Dismiss ==
    /\ EndService
    /\ inInterrupt' = FALSE
    /\ UNCHANGED <<lines, piOn, levelsOn, prLevels, hung>>

\* What PIDevice::clearIO does beyond Device::clearIO. It leaves
\* KM10::inInterrupt alone.
ClearServiceAndPR ==
    /\ EndService
    /\ prLevels' = {}
    /\ UNCHANGED <<piOn, levelsOn, inInterrupt>>

\* Device::clearAll, by CONO APR,.
ResetIO ==
    /\ ClearLines
    /\ ClearServiceAndPR
    /\ UNCHANGED hung

-----------------------------------------------------------------------------
(* putConditions *)

ClearPI ==
    /\ ClearLine(PIDev)
    /\ EndService
    /\ piOn' = FALSE
    /\ levelsOn' = {}
    /\ prLevels' = {}
    /\ inInterrupt' = FALSE
    /\ UNCHANGED hung

\* The levels of f when f has the bit, none otherwise.
LevelsIf(f, bit) == IF bit \in f.bits THEN f.levels ELSE {}

\* A level that is turned off and on by the same word ends up on; piOn
\* that is, ends up off.
Switch(f) ==
    /\ piOn' = (("turnPIOff" \notin f.bits) /\ (piOn \/ "turnPIOn" \in f.bits))
    /\ levelsOn' = (levelsOn \ LevelsIf(f, "levelsTurnOff"))
                       \cup LevelsIf(f, "levelsTurnOn")

PRsAfterDrop(f) == prLevels \ LevelsIf(f, "dropPR")

\* Only one level is remembered for all the programmed requests, and a
\* request less urgent than the level in service does not become it.
InitiatePR(f) ==
    /\ prLevels' = PRsAfterDrop(f) \cup f.levels
    /\ \E l \in Level :
        /\ IsHighest(l, f.levels)
        /\ intLevel' = IF PRsAfterDrop(f) \cap f.levels = {} /\ l < currentLevel
                       THEN [intLevel EXCEPT ![PIDev] = l]
                       ELSE intLevel
    /\ intPending' = [intPending EXCEPT ![PIDev] = TRUE]

NoInitiatePRKeepsPending(f) ==
    /\ prLevels' = PRsAfterDrop(f)
    /\ UNCHANGED <<intLevel, intPending>>

\* Every CONO PI, that does not initiate a request withdraws the pending one.
NoInitiatePR(f) ==
    /\ prLevels' = PRsAfterDrop(f)
    /\ intPending' = [intPending EXCEPT ![PIDev] = FALSE]
    /\ UNCHANGED intLevel

\* The scan for the highest level of a request that names no level shifts
\* its mask to zero and never stops.
ScanHangs(f) == "initiatePR" \in f.bits /\ f.levels = {}

PutConditions(f) ==
    \/ "clearPI" \in f.bits /\ ClearPI
    \/ /\ "clearPI" \notin f.bits
       /\ ~ScanHangs(f)
       /\ Switch(f)
       /\ IF "initiatePR" \in f.bits THEN InitiatePR(f) ELSE NoInitiatePR(f)
       /\ UNCHANGED <<held, currentLevel, inInterrupt, hung>>
    \/ /\ "clearPI" \notin f.bits
       /\ ScanHangs(f)
       /\ Switch(f)
       /\ prLevels' = PRsAfterDrop(f)
       /\ hung' = TRUE
       /\ UNCHANGED <<lines, held, currentLevel, inInterrupt>>

-----------------------------------------------------------------------------
(* The rest of the machine, as the PI sees it *)

\* Another device is assigned a level, requests an interrupt, or both. None
\* withdraws a request except in an I/O reset.
OtherDevice(d, l) ==
    /\ intLevel' = [intLevel EXCEPT ![d] = l]
    /\ intPending' \in {intPending, [intPending EXCEPT ![d] = TRUE]}
    /\ UNCHANGED <<piState, inInterrupt, hung>>

\* The processor enters a trap vector, or leaves a vector.
FetchElsewhere ==
    /\ inInterrupt' \in BOOLEAN
    /\ UNCHANGED <<lines, piState, hung>>

AcceptAny == ~hung /\ \E l \in Level : Accept(l)

PINext ==
    \/ AcceptAny
    \/ ~hung /\ Dismiss
    \/ ~hung /\ ResetIO
    \/ ~hung /\ \E f \in ConoPI : PutConditions(f)
    \/ ~hung /\ \E d \in Devices \ {PIDev}, l \in AssignedLevel : OtherDevice(d, l)
    \/ ~hung /\ FetchElsewhere

PISpec == PIInit /\ [][PINext]_piVars

\* The loop of KM10::emulate looks for an interrupt before every instruction.
PIFairSpec == PISpec /\ WF_piVars(AcceptAny)

-----------------------------------------------------------------------------
(* Properties *)

\* currentLevel, by which arbitration decides, is always the most urgent
\* level of held, which CONI PI, shows the program; NoLevel when none is.
\* The two are written in six places of pi.cpp and never together.
ServiceAgrees ==
    IF held = {} THEN currentLevel = NoLevel
                 ELSE IsHighest(currentLevel, held)

\* The PI device has a request pending only while the program has asked for
\* one it has not dropped: dropping, turning off or resetting in any order
\* leaves no request behind that nobody made.
PendingPRWasRequested == intPending[PIDev] => prLevels # {}

\* Arbitration implements the abstract one: in any sequence of requests,
\* conditions and dismissals, a handler is entered only for the most urgent
\* wanted level and only above every level in service.
Arbiter == INSTANCE PriorityArbiter WITH wanted <- Wanted, inService <- held
ArbiterSpec == Arbiter!Spec

\* A level that is wanted does not wait for ever behind less urgent
\* handlers: it is entered, or one at least as urgent is, or it is no longer
\* wanted.
NoIdleRequest ==
    \A l \in Level : (l \in Wanted) ~> (currentLevel <= l \/ l \notin Wanted \/ hung)

=============================================================================
