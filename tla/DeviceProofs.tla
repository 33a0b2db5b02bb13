---------------------------- MODULE DeviceProofs ----------------------------
(***************************************************************************)
(* Proofs about the devices the instruction loop works with. Module Sweep, *)
(* for any number of conditions, any length of sweep and any CONO APR,     *)
(* words; module PI, for every number of levels, every set of devices and  *)
(* every set of CONO PI, words.                                            *)
(***************************************************************************)
EXTENDS PI, Sweep, TLAPS

(* The cache sweep and the APR *)

\* What CONI APR, shows and what the two devices hold agree. Neither part
\* needs the other to be kept, and both need only the types.
SweepAgrees == SweepTypeOK /\ BusyWhileCounting /\ APRMirrorsLine

\* The initial state is one in which the two devices agree.
LEMMA InitAgrees == SweepInit => SweepAgrees
<1> SUFFICES ASSUME SweepInit PROVE SweepAgrees
  OBVIOUS
<1>0. LinesTypeOK /\ 0 \in AssignedLevel
  BY NumLevelsAssumption DEF SweepInit, LinesInit, LinesTypeOK, AssignedLevel
<1>1. SweepTypeOK
  <2>1. intRequest \in BOOLEAN /\ sweepBusy \in BOOLEAN
    BY DEF SweepInit, SweepStateInit
  <2>2. sweepCountDown \in 0 .. SweepTicks
    BY SweepTicksAssumption DEF SweepInit, SweepStateInit
  <2> QED
    BY <1>0, <2>1, <2>2 DEF SweepInit, SweepStateInit, SweepTypeOK
<1>2. sweepBusy = FALSE /\ ~(sweepCountDown > 0)
  BY DEF SweepInit, SweepStateInit
<1>3. APRMirrorsLine
  BY DevicesAssumption DEF SweepInit, LinesInit, SweepStateInit, APRMirrorsLine
<1> QED
  BY <1>1, <1>2, <1>3 DEF SweepAgrees, BusyWhileCounting

\* Starting a sweep, whether or not one is running, keeps the agreement.
LEMMA StartSweepAgrees == ASSUME SweepAgrees, StartSweep PROVE SweepAgrees'
  BY SweepTicksAssumption
     DEF StartSweep, SweepAgrees, SweepTypeOK, LinesTypeOK, lines, aprState,
         BusyWhileCounting, APRMirrorsLine

\* A tick keeps it, the tick that ends the sweep included.
LEMMA HandleSweepAgrees == ASSUME SweepAgrees, HandleSweep PROVE SweepAgrees'
<1>1. sweepCountDown \in 1 .. SweepTicks /\ sweepCountDown' = sweepCountDown - 1
  BY SweepTicksAssumption DEF HandleSweep, SweepAgrees, SweepTypeOK
<1>2. sweepCountDown' \in 0 .. SweepTicks
  BY <1>1, SweepTicksAssumption
<1>3. CASE sweepCountDown = 1
  <2>1. EndSweep /\ sweepCountDown' = 0
    BY <1>1, <1>3 DEF HandleSweep
  <2>2. sweepBusy' = FALSE /\ UNCHANGED <<intLevel, aprLevel, enabled>>
    BY <2>1 DEF EndSweep
  <2>3. active' \in SUBSET APRFlag
    BY <2>1, APRFlagAssumption DEF EndSweep, SweepAgrees, SweepTypeOK
  <2>4. ~(sweepCountDown' > 0)
    BY <2>1
  <2>5. CASE aprLevel # 0 /\ SweepDone \in enabled
    <3>1. intRequest' = TRUE /\ intPending' = [intPending EXCEPT ![APRDev] = TRUE]
      BY <2>1, <2>5 DEF EndSweep, RequestAPR
    <3>2. intPending' \in [Devices -> BOOLEAN] /\ intPending'[APRDev] = TRUE
      BY <3>1, DevicesAssumption DEF SweepAgrees, SweepTypeOK, LinesTypeOK
    <3>3. SweepTypeOK'
      BY <1>2, <2>2, <2>3, <3>1, <3>2 DEF SweepAgrees, SweepTypeOK, LinesTypeOK
    <3>4. APRMirrorsLine'
      BY <2>2, <3>1, <3>2 DEF SweepAgrees, APRMirrorsLine
    <3> QED
      BY <2>2, <2>4, <3>3, <3>4 DEF SweepAgrees, BusyWhileCounting
  <2>6. CASE ~(aprLevel # 0 /\ SweepDone \in enabled)
    <3>1. UNCHANGED <<intRequest, intPending>>
      BY <2>1, <2>6 DEF EndSweep
    <3>2. SweepTypeOK'
      BY <1>2, <2>2, <2>3, <3>1 DEF SweepAgrees, SweepTypeOK, LinesTypeOK
    <3>3. APRMirrorsLine'
      BY <2>2, <3>1 DEF SweepAgrees, APRMirrorsLine
    <3> QED
      BY <2>2, <2>4, <3>2, <3>3 DEF SweepAgrees, BusyWhileCounting
  <2> QED
    BY <2>5, <2>6
<1>4. CASE sweepCountDown # 1
  <2>1. UNCHANGED <<lines, aprState, sweepBusy>>
    BY <1>4 DEF HandleSweep
  <2>2. sweepCountDown' > 0
    BY <1>1, <1>4, SweepTicksAssumption
  <2> QED
    BY <1>1, <1>2, <2>1, <2>2
       DEF SweepAgrees, SweepTypeOK, LinesTypeOK, lines, aprState, BusyWhileCounting, APRMirrorsLine
<1> QED
  BY <1>3, <1>4

\* An I/O reset keeps it, in the midst of a sweep included.
LEMMA ResetAgrees ==
  ASSUME SweepAgrees, NEW f \in ConoAPR, ResetByAPR(f)
  PROVE  SweepAgrees'
<1>0. LinesTypeOK' /\ 0 \in AssignedLevel
  BY NumLevelsAssumption DEF ResetByAPR, ClearLines, LinesTypeOK, AssignedLevel
<1>1. SweepTypeOK'
  <2>1. intRequest' \in BOOLEAN /\ sweepBusy' \in BOOLEAN
    BY DEF ResetByAPR, ResetSweep
  <2>2. sweepCountDown' \in 0 .. SweepTicks
    BY SweepTicksAssumption DEF ResetByAPR, ResetSweep
  <2>3. active' \in SUBSET APRFlag
    BY APRFlagAssumption DEF ResetByAPR, ResetSweep
  <2> QED
    BY <1>0, <2>1, <2>2, <2>3 DEF ResetByAPR, ResetSweep, SweepTypeOK
<1>2. sweepBusy' = FALSE /\ ~(sweepCountDown' > 0)
  BY DEF ResetByAPR, ResetSweep
<1>3. APRMirrorsLine'
  BY DevicesAssumption DEF ResetByAPR, ResetSweep, ClearLines, APRMirrorsLine
<1> QED
  BY <1>1, <1>2, <1>3 DEF SweepAgrees, BusyWhileCounting

\* A CONO APR, without the clear-I/O bit keeps it.
LEMMA SetAgrees ==
  ASSUME SweepAgrees, NEW f \in ConoAPR, SetByAPR(f)
  PROVE  SweepAgrees'
<1>1. f \in APRFunctions /\ f.level \in AssignedLevel /\ f.select \in SUBSET APRFlag
  BY ConoAPRAssumption DEF APRFunctions
<1>2. PutAPRConditions(f)
  BY DEF SetByAPR
<1>3. enabled' \in SUBSET APRFlag /\ active' \in SUBSET APRFlag
  BY <1>1, <1>2 DEF PutAPRConditions, EnabledAfter, SelectIf, SweepAgrees, SweepTypeOK
<1>4. aprLevel' = f.level /\ intLevel' = [intLevel EXCEPT ![APRDev] = f.level]
  BY <1>2 DEF PutAPRConditions
<1>5. UNCHANGED <<sweepBusy, sweepCountDown>>
  BY <1>2 DEF PutAPRConditions
<1>6. intLevel' \in [Devices -> AssignedLevel] /\ intLevel'[APRDev] = aprLevel'
  BY <1>1, <1>4, DevicesAssumption DEF SweepAgrees, SweepTypeOK, LinesTypeOK
<1>7. /\ intPending' \in [Devices -> BOOLEAN] /\ intRequest' \in BOOLEAN
      /\ intRequest' = intPending'[APRDev]
  BY <1>2, DevicesAssumption
     DEF PutAPRConditions, RequestAPR, SweepAgrees, SweepTypeOK, LinesTypeOK, APRMirrorsLine
<1> QED
  BY <1>1, <1>3, <1>4, <1>5, <1>6, <1>7
     DEF SweepAgrees, SweepTypeOK, LinesTypeOK, BusyWhileCounting, APRMirrorsLine

\* Another device's request changes neither line of the APR.
LEMMA OtherLinesAgrees == ASSUME SweepAgrees, OtherLines PROVE SweepAgrees'
  BY DEF OtherLines, sweepState, aprState, SweepAgrees, SweepTypeOK, LinesTypeOK,
         BusyWhileCounting, APRMirrorsLine

\* Every step and every stutter keeps the agreement.
LEMMA SweepStepAgrees == SweepAgrees /\ [SweepNext]_sweepVars => SweepAgrees'
<1> SUFFICES ASSUME SweepAgrees, [SweepNext]_sweepVars PROVE SweepAgrees'
  OBVIOUS
<1>1. CASE OtherLines
  BY <1>1, OtherLinesAgrees
<1>2. CASE StartSweep
  BY <1>2, StartSweepAgrees
<1>3. CASE HandleSweep
  BY <1>3, HandleSweepAgrees
<1>4. ASSUME NEW f \in ConoAPR, ResetByAPR(f) PROVE SweepAgrees'
  BY <1>4, ResetAgrees
<1>5. ASSUME NEW f \in ConoAPR, SetByAPR(f) PROVE SweepAgrees'
  BY <1>5, SetAgrees
<1>6. CASE UNCHANGED sweepVars
  BY <1>6 DEF sweepVars, sweepState, lines, aprState, SweepAgrees, SweepTypeOK,
              LinesTypeOK, BusyWhileCounting, APRMirrorsLine
<1> QED
  BY <1>1, <1>2, <1>3, <1>4, <1>5, <1>6 DEF SweepNext

LEMMA AgreementInvariant == SweepSpec => []SweepAgrees
  BY InitAgrees, SweepStepAgrees, PTL DEF SweepSpec

\* The busy bit of the APR is on exactly while the CCA counts, for every
\* length of sweep and every sequence of restarts, conditions and resets.
THEOREM SweepBusyWhileCounting == SweepSpec => []BusyWhileCounting
<1>1. SweepAgrees => BusyWhileCounting
  BY DEF SweepAgrees
<1> QED
  BY AgreementInvariant, <1>1, PTL

\* What CONI APR, shows of the level and the request is what the priority
\* interrupt system acts on.
THEOREM SweepAPRMirrorsLine == SweepSpec => []APRMirrorsLine
<1>1. SweepAgrees => APRMirrorsLine
  BY DEF SweepAgrees
<1> QED
  BY AgreementInvariant, <1>1, PTL

\* However a sweep ends, by its count or by an I/O reset in its midst, the
\* program finds it reported: the order in which clearAll visits the APR and
\* the CCA does not lose it.
THEOREM SweepEndReported == SweepSpec => SweepEndIsReported
<1>1. SweepAgrees /\ [SweepNext]_sweepVars
        => [(sweepCountDown > 0 /\ sweepCountDown' = 0) => SweepDone \in active']_sweepVars
  <2> SUFFICES ASSUME SweepAgrees, [SweepNext]_sweepVars,
                      sweepCountDown > 0, sweepCountDown' = 0
               PROVE  SweepDone \in active'
    OBVIOUS
  <2>1. CASE HandleSweep
    <3>1. sweepCountDown = 1
      BY <2>1, SweepTicksAssumption DEF HandleSweep, SweepAgrees, SweepTypeOK
    <3> QED
      BY <2>1, <3>1 DEF HandleSweep, EndSweep
  <2>2. ASSUME NEW f \in ConoAPR, ResetByAPR(f) PROVE SweepDone \in active'
    BY <2>2 DEF ResetByAPR, ResetSweep
  <2>3. CASE StartSweep
    BY <2>3, SweepTicksAssumption DEF StartSweep
  <2>4. ASSUME OtherLines \/ (\E f \in ConoAPR : SetByAPR(f)) \/ UNCHANGED sweepVars
        PROVE  FALSE
    BY <2>4 DEF OtherLines, SetByAPR, PutAPRConditions, sweepVars, sweepState
  <2> QED
    BY <2>1, <2>2, <2>3, <2>4 DEF SweepNext
<1> QED
  BY AgreementInvariant, <1>1, PTL DEF SweepSpec, SweepEndIsReported

\* The APR does not begin to request without a condition that is enabled and
\* active: a sweep that ends is one itself, and the comparison of CONO APR,
\* finds a bit of the word that the word enables and sets.
THEOREM SweepRequestHasCause == SweepSpec => RequestHasCause
<1> DEFINE Begins == ~intPending[APRDev] /\ intPending'[APRDev]
<1>1. SweepAgrees /\ [SweepNext]_sweepVars
        => [Begins => enabled' \cap active' # {}]_sweepVars
  <2> SUFFICES ASSUME SweepAgrees, [SweepNext]_sweepVars, Begins
               PROVE  enabled' \cap active' # {}
    OBVIOUS
  <2>1. CASE HandleSweep
    <3>1. EndSweep
      BY <2>1 DEF HandleSweep, lines
    <3>2. SweepDone \in enabled /\ UNCHANGED enabled
      BY <3>1 DEF EndSweep
    <3> QED
      BY <3>1, <3>2 DEF EndSweep
  <2>2. ASSUME NEW f \in ConoAPR, SetByAPR(f) PROVE enabled' \cap active' # {}
    <3>1. PutAPRConditions(f) /\ NewlySet(f)
      BY <2>2 DEF SetByAPR, PutAPRConditions
    <3>2. PICK b \in EnabledAfter(f) \cap f.select : TRUE
      BY <3>1 DEF NewlySet, NumGreater
    <3>3. b \in enabled' /\ b \in active'
      BY <3>1, <3>2 DEF NewlySet, PutAPRConditions, SelectIf
    <3> QED
      BY <3>3
  <2>3. ASSUME NEW f \in ConoAPR, ResetByAPR(f) PROVE FALSE
    BY <2>3, DevicesAssumption DEF ResetByAPR, ClearLines
  <2>4. ASSUME OtherLines \/ StartSweep \/ UNCHANGED sweepVars PROVE FALSE
    BY <2>4 DEF OtherLines, StartSweep, sweepVars, lines
  <2> QED
    BY <2>1, <2>2, <2>3, <2>4 DEF SweepNext
<1> QED
  BY AgreementInvariant, <1>1, PTL DEF SweepSpec, RequestHasCause

-----------------------------------------------------------------------------
(* The priority interrupt system *)

USE NumLevelsAssumption, DevicesAssumption

\* Emptying the service record leaves currentLevel and held in agreement.
LEMMA EndServiceAgrees ==
    ASSUME EndService
    PROVE  ServiceAgrees' /\ held' \in SUBSET Level /\ currentLevel' \in 1 .. NoLevel
BY DEF EndService, ServiceAgrees, NoLevel

\* Entering a handler keeps currentLevel the most urgent level held.
LEMMA AcceptAgrees ==
    ASSUME PITypeOK, ServiceAgrees, NEW l \in Level, Accept(l)
    PROVE  ServiceAgrees' /\ held' \in SUBSET Level /\ currentLevel' \in 1 .. NoLevel
<1>1. held' = held \cup {l} /\ currentLevel' = l /\ l < currentLevel
  BY DEF Accept
<1>2. \A m \in held : l <= m
  <2>1. CASE held = {}
    BY <2>1
  <2>2. CASE held # {}
    <3>1. \A m \in held : currentLevel <= m
      BY <2>2 DEF ServiceAgrees, IsHighest
    <3> QED BY <1>1, <3>1 DEF PITypeOK, Level, NoLevel
  <2> QED BY <2>1, <2>2
<1>3. IsHighest(l, held \cup {l})
  BY <1>2 DEF IsHighest, Level
<1> QED BY <1>1, <1>3 DEF ServiceAgrees, PITypeOK, Level, NoLevel

\* A CONO PI, that is not a clear leaves the service record alone, and keeps
\* every other part of the state well typed.
LEMMA PutConditionsTyped ==
    ASSUME PITypeOK, NEW f \in ConoPI, PutConditions(f), "clearPI" \notin f.bits
    PROVE  PITypeOK' /\ UNCHANGED <<held, currentLevel>>
<1>1. f \in PIFunctions
  BY ConoPIAssumption
<1>2. Switch(f) /\ UNCHANGED <<held, currentLevel, inInterrupt>>
  BY DEF PutConditions
<1>3. piOn' \in BOOLEAN /\ levelsOn' \in SUBSET Level
  BY <1>1, <1>2 DEF Switch, LevelsIf, PITypeOK, PIFunctions
<1>4. PRsAfterDrop(f) \in SUBSET Level
  BY DEF PRsAfterDrop, PITypeOK
<1>5. CASE ScanHangs(f)
  BY <1>2, <1>3, <1>4, <1>5 DEF PutConditions, PITypeOK, LinesTypeOK, lines
<1>6. CASE ~ScanHangs(f)
  <2>1. CASE "initiatePR" \in f.bits
    <3>1. InitiatePR(f) /\ UNCHANGED hung
      BY <1>6, <2>1 DEF PutConditions
    <3>2. prLevels' \in SUBSET Level
      BY <1>1, <1>4, <3>1 DEF InitiatePR, PIFunctions
    <3>3. intLevel' \in [Devices -> AssignedLevel]
      BY <3>1 DEF InitiatePR, PITypeOK, LinesTypeOK, AssignedLevel, Level
    <3>4. intPending' \in [Devices -> BOOLEAN]
      BY <3>1 DEF InitiatePR, PITypeOK, LinesTypeOK
    <3> QED BY <1>2, <1>3, <3>1, <3>2, <3>3, <3>4 DEF PITypeOK, LinesTypeOK
  <2>2. CASE "initiatePR" \notin f.bits
    <3>1. NoInitiatePR(f) /\ UNCHANGED hung
      BY <1>6, <2>2 DEF PutConditions
    <3> QED BY <1>2, <1>3, <1>4, <3>1 DEF NoInitiatePR, PITypeOK, LinesTypeOK
  <2> QED BY <2>1, <2>2
<1> QED BY <1>2, <1>5, <1>6

-----------------------------------------------------------------------------

\* The conjunction of the three invariants; it is inductive.
PIInv == PITypeOK /\ ServiceAgrees /\ PendingPRWasRequested

LEMMA PIInitInv == PIInit => PIInv
<1> SUFFICES ASSUME PIInit PROVE PIInv
  OBVIOUS
<1>1. LinesTypeOK /\ intPending[PIDev] = FALSE
  BY DEF PIInit, LinesInit, LinesTypeOK, AssignedLevel
<1>2. currentLevel \in 1 .. NoLevel
  BY DEF PIInit, NoLevel
<1> QED
  BY <1>1, <1>2 DEF PIInit, PIInv, PITypeOK, ServiceAgrees, PendingPRWasRequested

LEMMA PIStepInv == PIInv /\ [PINext]_piVars => PIInv'
<1> SUFFICES ASSUME PIInv, [PINext]_piVars PROVE PIInv'
  OBVIOUS
<1> USE DEF PIInv
<1>1. ASSUME NEW l \in Level, Accept(l) PROVE PIInv'
  <2>1. ServiceAgrees' /\ held' \in SUBSET Level /\ currentLevel' \in 1 .. NoLevel
    BY <1>1, AcceptAgrees
  <2>2. PITypeOK' /\ PendingPRWasRequested'
    BY <1>1, <2>1 DEF Accept, PITypeOK, LinesTypeOK, lines, PendingPRWasRequested
  <2> QED BY <2>1, <2>2
<1>2. CASE Dismiss
  <2>1. ServiceAgrees' /\ held' \in SUBSET Level /\ currentLevel' \in 1 .. NoLevel
    BY <1>2, EndServiceAgrees DEF Dismiss
  <2>2. PITypeOK' /\ PendingPRWasRequested'
    BY <1>2, <2>1 DEF Dismiss, PITypeOK, LinesTypeOK, lines, PendingPRWasRequested
  <2> QED BY <2>1, <2>2
<1>3. CASE ResetIO
  <2>1. ServiceAgrees' /\ held' \in SUBSET Level /\ currentLevel' \in 1 .. NoLevel
    BY <1>3, EndServiceAgrees DEF ResetIO, ClearServiceAndPR
  <2>2. PITypeOK' /\ PendingPRWasRequested'
    BY <1>3, <2>1 DEF ResetIO, ClearServiceAndPR, ClearLines, PITypeOK,
                      LinesTypeOK, AssignedLevel, PendingPRWasRequested
  <2> QED BY <2>1, <2>2
<1>4. ASSUME NEW f \in ConoPI, PutConditions(f) PROVE PIInv'
  <2>1. CASE "clearPI" \in f.bits
    <3>1. ClearPI
      BY <1>4, <2>1 DEF PutConditions
    <3>2. ServiceAgrees' /\ held' \in SUBSET Level /\ currentLevel' \in 1 .. NoLevel
      BY <3>1, EndServiceAgrees DEF ClearPI
    <3>3. LinesTypeOK' /\ intPending'[PIDev] = FALSE
      BY <3>1 DEF ClearPI, ClearLine, PITypeOK, LinesTypeOK, AssignedLevel
    <3>4. PITypeOK' /\ PendingPRWasRequested'
      BY <3>1, <3>2, <3>3 DEF ClearPI, PITypeOK, PendingPRWasRequested
    <3> QED BY <3>2, <3>4
  <2>2. CASE "clearPI" \notin f.bits
    <3>1. PITypeOK' /\ UNCHANGED <<held, currentLevel>>
      BY <1>4, <2>2, PutConditionsTyped
    <3>2. ServiceAgrees'
      BY <3>1 DEF ServiceAgrees, NoLevel
    <3>3. CASE ScanHangs(f)
      <4>1. f.levels = {} /\ prLevels' = PRsAfterDrop(f) /\ UNCHANGED intPending
        BY <1>4, <2>2, <3>3 DEF PutConditions, ScanHangs, lines
      <4>2. PRsAfterDrop(f) = prLevels
        BY <4>1 DEF PRsAfterDrop, LevelsIf
      <4> QED BY <3>1, <3>2, <4>1, <4>2 DEF PendingPRWasRequested
    <3>4. CASE ~ScanHangs(f) /\ "initiatePR" \in f.bits
      <4>1. InitiatePR(f) /\ f.levels # {}
        BY <1>4, <2>2, <3>4 DEF PutConditions, ScanHangs
      <4> QED BY <3>1, <3>2, <4>1 DEF InitiatePR, PendingPRWasRequested
    <3>5. CASE ~ScanHangs(f) /\ "initiatePR" \notin f.bits
      <4>1. NoInitiatePR(f)
        BY <1>4, <2>2, <3>5 DEF PutConditions
      <4> QED BY <3>1, <3>2, <4>1 DEF NoInitiatePR, PendingPRWasRequested,
                                      PITypeOK, LinesTypeOK
    <3> QED BY <3>3, <3>4, <3>5
  <2> QED BY <2>1, <2>2
<1>5. ASSUME NEW d \in Devices \ {PIDev}, NEW l \in AssignedLevel, OtherDevice(d, l)
      PROVE  PIInv'
  BY <1>5 DEF OtherDevice, piState, PITypeOK, LinesTypeOK, ServiceAgrees, NoLevel,
              PendingPRWasRequested
<1>6. CASE FetchElsewhere
  BY <1>6 DEF FetchElsewhere, lines, piState, PITypeOK, LinesTypeOK, ServiceAgrees,
              NoLevel, PendingPRWasRequested
<1>7. CASE UNCHANGED piVars
  BY <1>7 DEF piVars, lines, piState, PITypeOK, LinesTypeOK, ServiceAgrees,
              NoLevel, PendingPRWasRequested
<1> QED BY <1>1, <1>2, <1>3, <1>4, <1>5, <1>6, <1>7 DEF PINext, AcceptAny

LEMMA PIInvariant == PISpec => []PIInv
<1>1. PIInit => PIInv
  BY PIInitInv
<1>2. PIInv /\ [PINext]_piVars => PIInv'
  BY PIStepInv
<1> QED BY <1>1, <1>2, PTL DEF PISpec

\* Every variable of the PI keeps its type: in particular currentLevel never
\* becomes 0, the level that would block every interrupt.
THEOREM PITypeCorrect == PISpec => []PITypeOK
BY PIInvariant, PTL DEF PIInv

\* What arbitration compares against agrees with what CONI PI, shows.
THEOREM PIServiceAgrees == PISpec => []ServiceAgrees
BY PIInvariant, PTL DEF PIInv

\* A pending programmed request is one the program made and has not dropped.
THEOREM PIPendingPRWasRequested == PISpec => []PendingPRWasRequested
BY PIInvariant, PTL DEF PIInv

-----------------------------------------------------------------------------
(* The refinement of PriorityArbiter *)

LEMMA PIInitArbiter == PIInit => Arbiter!Init
BY DEF PIInit, LinesInit, Arbiter!Init, Wanted

\* A step that keeps the service record is a change of requests, and one
\* that ends the service is a release, whatever it does to the requests.
LEMMA RequestsOrRelease ==
    ASSUME PITypeOK', held' = held \/ held' = {}
    PROVE  Arbiter!Next
<1>1. Wanted' \in SUBSET Level
  BY DEF PITypeOK, Wanted
<1> QED BY <1>1 DEF Arbiter!Next, Arbiter!Change, Arbiter!Release

\* Entering a handler is a grant: the level is above all those in service
\* because it is above the most urgent of them.
LEMMA AcceptGrants ==
    ASSUME PIInv, NEW l \in Level, Accept(l)
    PROVE  Arbiter!Next
<1>1. l \in Wanted /\ \A m \in Wanted : l <= m
  BY DEF Accept, IsHighest
<1>2. \A m \in held : l < m
  <2>1. CASE held = {}
    BY <2>1
  <2>2. CASE held # {}
    <3>1. l < currentLevel /\ \A m \in held : currentLevel <= m
      BY <2>2 DEF Accept, PIInv, ServiceAgrees, IsHighest
    <3> QED BY <3>1 DEF PIInv, PITypeOK, Level, NoLevel
  <2> QED BY <2>1, <2>2
<1>3. UNCHANGED <<intLevel, intPending, piOn, levelsOn>>
  BY DEF Accept, lines
<1>4. Wanted' = Wanted
  BY <1>3 DEF Wanted
<1>5. Arbiter!Grant(l)
  BY <1>1, <1>2, <1>4 DEF Accept, Arbiter!Grant
<1> QED BY <1>5 DEF Arbiter!Next

LEMMA PIStepArbiter ==
    PIInv /\ PIInv' /\ [PINext]_piVars => [Arbiter!Next]_<<Wanted, held>>
<1> SUFFICES ASSUME PIInv, PIInv', [PINext]_piVars
             PROVE  Arbiter!Next \/ UNCHANGED <<Wanted, held>>
  OBVIOUS
<1> USE DEF PIInv
<1>1. ASSUME NEW l \in Level, Accept(l) PROVE Arbiter!Next
  BY <1>1, AcceptGrants
<1>2. CASE Dismiss
  BY <1>2, RequestsOrRelease DEF Dismiss, EndService
<1>3. CASE ResetIO
  BY <1>3, RequestsOrRelease DEF ResetIO, ClearServiceAndPR, EndService
<1>4. ASSUME NEW f \in ConoPI, PutConditions(f) PROVE Arbiter!Next
  <2>1. held' = held \/ held' = {}
    BY <1>4 DEF PutConditions, ClearPI, EndService
  <2> QED BY <2>1, RequestsOrRelease
<1>5. ASSUME NEW d \in Devices \ {PIDev}, NEW l \in AssignedLevel, OtherDevice(d, l)
      PROVE  Arbiter!Next
  BY <1>5, RequestsOrRelease DEF OtherDevice, piState
<1>6. CASE FetchElsewhere
  BY <1>6, RequestsOrRelease DEF FetchElsewhere, piState
<1>7. CASE UNCHANGED piVars
  BY <1>7 DEF piVars, lines, piState, Wanted
<1> QED BY <1>1, <1>2, <1>3, <1>4, <1>5, <1>6, <1>7 DEF PINext, AcceptAny

\* Arbitration implements the abstract one, for any number of levels,
\* devices and condition words.
THEOREM PIImplementsArbiter == PISpec => ArbiterSpec
<1>1. PIInit => Arbiter!Init
  BY PIInitArbiter
<1>2. PIInv /\ PIInv' /\ [PINext]_piVars => [Arbiter!Next]_<<Wanted, held>>
  BY PIStepArbiter
<1> QED BY <1>1, <1>2, PIInvariant, PTL DEF PISpec, ArbiterSpec, Arbiter!Spec

=============================================================================
