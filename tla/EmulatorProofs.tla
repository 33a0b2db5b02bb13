--------------------------- MODULE EmulatorProofs ---------------------------
(***************************************************************************)
(* Proofs about module Emulator, for every program, address space, number  *)
(* of levels, length of sweep and set of condition words; and, at the end, *)
(* about module Resume, for every disciplined program.                     *)
(***************************************************************************)
EXTENDS Resume, DeviceProofs

(* Addresses and instructions *)

LEMMA PlusInAddr == ASSUME NEW a \in Addr, NEW n \in Nat PROVE Plus(a, n) \in Addr
<1>1. AddrSpace \in Nat \ {0} /\ a + n \in Nat
  BY VectorsAssumption DEF Addr
<1>2. (a + n) % AddrSpace \in 0 .. AddrSpace - 1
  BY <1>1
<1> QED
  BY <1>2 DEF Plus, Addr

\* Every instruction moves the PC and the fetch within the address space.
LEMMA FinishTyped ==
    ASSUME pc \in Addr, fetchPC \in Addr, inInterrupt \in BOOLEAN, NEW res, Finish(res)
    PROVE  pc' \in Addr /\ fetchPC' \in Addr /\ inInterrupt' \in BOOLEAN
<1>1. \A n \in {1, 2} : Plus(pc, n) \in Addr /\ Plus(fetchPC, n) \in Addr
  BY PlusInAddr
<1> QED
  BY <1>1 DEF Finish, Normal, Skip, Advance

\* The operands of an instruction are of their kinds.
LEMMA OperandsTyped ==
    ASSUME LoopTypeOK, NEW i \in Code[fetchPC]
    PROVE  /\ i.op = "conoPI" => i.word \in ConoPI
           /\ i.op = "conoAPR" => i.word \in ConoAPR
           /\ i.op \in {"jump", "call", "pushj", "jsa", "xct"} => i.to \in Addr
           /\ i.op \in {"call", "pushj", "jsa", "jrstf", "jen"} => i.link \in LinkWords
           /\ i.op = "pushj" => i.full \in BOOLEAN
           /\ i.op \in {"trap", "setTrap"} => i.flag \in TrapFlag
           /\ i.op = "conoPAG" => i.enable \in BOOLEAN
           /\ i.op = "cca" => i.result \in {"iNormal", "iSkip", "iNoSuchDevice"}
BY CodeAssumption DEF LoopTypeOK

LEMMA ReturnPCInAddr == ASSUME pc \in Addr PROVE ReturnPC \in Addr
BY PlusInAddr DEF ReturnPC

LEMMA StepTyped ==
    ASSUME LoopTypeOK, Step
    PROVE  running' \in BOOLEAN /\ nSteps' \in Nat
BY DEF LoopTypeOK, Step

\* A link written by a call is a link.
LEMMA LinkWritten ==
    ASSUME LoopTypeOK, NEW w \in LinkWords, NEW a \in Addr, NEW fs \in SUBSET ProgFlag,
           links' = [links EXCEPT ![w] = [pc |-> a, flags |-> fs]]
    PROVE  links' \in [LinkWords -> Link]
<1>1. [pc |-> a, flags |-> fs] \in Link
  BY DEF Link
<1> QED
  BY <1>1 DEF LoopTypeOK

-----------------------------------------------------------------------------
(* Types *)

\* What an instruction leaves in the loop's own state, whichever it is.
LEMMA ExecuteTyped ==
    ASSUME LoopTypeOK, inInterrupt \in BOOLEAN, NEW i \in Code[fetchPC], Execute(i)
    PROVE  LoopTypeOK' /\ inInterrupt' \in BOOLEAN
<1> USE DEF LoopTypeOK, Executing, IResult, ProgFlag, TrapFlag
<1>1. CASE ExecNormal(i) \/ ExecSkip(i) \/ ExecJump(i)
  <2>1. running' \in BOOLEAN /\ nSteps' \in Nat
    BY <1>1, StepTyped DEF ExecNormal, ExecSkip, ExecJump
  <2>2. pc' \in Addr /\ fetchPC' \in Addr /\ inInterrupt' \in BOOLEAN
    <3>1. CASE ExecNormal(i)
      BY <3>1, FinishTyped DEF ExecNormal, Finish
    <3>2. CASE ExecSkip(i)
      BY <3>2, FinishTyped DEF ExecSkip, Finish
    <3>3. CASE ExecJump(i)
      BY <3>3, OperandsTyped DEF ExecJump, JumpTo
    <3> QED BY <1>1, <3>1, <3>2, <3>3
  <2> QED
    BY <1>1, <2>1, <2>2 DEF ExecNormal, ExecSkip, ExecJump, modeState
<1>2. CASE ExecCall(i) \/ ExecPUSHJ(i) \/ ExecJSA(i)
  <2>0. i.to \in Addr /\ i.link \in LinkWords
    BY <1>2, OperandsTyped DEF ExecCall, ExecPUSHJ, ExecJSA
  <2>1. running' \in BOOLEAN /\ nSteps' \in Nat
    BY <1>2, StepTyped DEF ExecCall, ExecPUSHJ, ExecJSA
  <2>2. pc' \in Addr /\ fetchPC' \in Addr /\ inInterrupt' \in BOOLEAN
    BY <1>2, <2>0 DEF ExecCall, ExecPUSHJ, ExecJSA, JumpTo
  <2>3. links' \in [LinkWords -> Link]
    <3>1. links' = links \/ \E fs \in SUBSET ProgFlag :
                links' = [links EXCEPT ![i.link] = [pc |-> ReturnPC, flags |-> fs]]
      BY <1>2 DEF ExecCall, ExecPUSHJ, ExecJSA
    <3> QED
      BY <3>1, <2>0, ReturnPCInAddr, LinkWritten
  <2>4. flags' \in SUBSET ProgFlag /\ result' = "iJump" /\ phase' = "tick" /\ UNCHANGED pager
    BY <1>2 DEF ExecCall, ExecPUSHJ, ExecJSA
  <2> QED
    BY <2>1, <2>2, <2>3, <2>4
<1>3. CASE ExecJRSTF(i) \/ ExecJEN(i)
  <2>0. i.link \in LinkWords
    BY <1>3, OperandsTyped DEF ExecJRSTF, ExecJEN
  <2>1. running' \in BOOLEAN /\ nSteps' \in Nat
    BY <1>3, StepTyped DEF ExecJRSTF, ExecJEN
  <2>2. links[i.link].pc \in Addr /\ links[i.link].flags \in SUBSET ProgFlag
    BY <2>0 DEF Link
  <2> QED
    BY <1>3, <2>1, <2>2
       DEF ExecJRSTF, ExecJEN, ReturnThrough, JumpTo, RestoreFlags, LinkFlags
<1>4. CASE ExecXCT(i) \/ ExecHALT(i) \/ ExecLUUO(i)
  <2>1. running' \in BOOLEAN /\ nSteps' \in Nat
    <3>1. CASE ExecXCT(i) \/ ExecLUUO(i)
      BY <3>1, StepTyped DEF ExecXCT, ExecLUUO
    <3>2. CASE ExecHALT(i)
      <4>1. nSteps' = IF nSteps > 0 THEN nSteps - 1 ELSE 0
        BY <3>2 DEF ExecHALT
      <4>2. nSteps \in Nat
        OBVIOUS
      <4>3. nSteps' \in Nat
        BY ONLY <4>1, <4>2
      <4>4. running' = FALSE
        BY <3>2 DEF ExecHALT
      <4> QED BY <4>3, <4>4
    <3> QED BY <1>4, <3>1, <3>2
  <2>2. pc' \in Addr /\ fetchPC' \in Addr
    BY <1>4, OperandsTyped, PlusInAddr, VectorsAssumption
       DEF ExecXCT, ExecHALT, ExecLUUO, Advance
  <2> QED
    BY <1>4, <2>1, <2>2 DEF ExecXCT, ExecHALT, ExecLUUO, modeState
<1>5. CASE ExecTrap(i)
  <2>0. i.flag \in TrapFlag
    BY <1>5, OperandsTyped DEF ExecTrap
  <2>1. running' \in BOOLEAN /\ nSteps' \in Nat
    BY <1>5, StepTyped DEF ExecTrap
  <2>2. pc' \in Addr /\ fetchPC' \in Addr /\ inInterrupt' \in BOOLEAN
    BY <1>5, FinishTyped DEF ExecTrap
  <2> QED
    BY <1>5, <2>0, <2>1, <2>2 DEF ExecTrap
<1>6. CASE ExecMUUO(i)
  <2>1. running' \in BOOLEAN /\ nSteps' \in Nat
    BY <1>6, StepTyped DEF ExecMUUO
  <2>2. links' \in [LinkWords -> Link]
    BY <1>6, LinkWritten, PlusInAddr, CodeAssumption DEF ExecMUUO
  <2> QED
    BY <1>6, <2>1, <2>2, VectorsAssumption DEF ExecMUUO
<1>7. CASE ExecConoPI(i)
  <2>1. running' \in BOOLEAN /\ nSteps' \in Nat
    BY <1>7, StepTyped DEF ExecConoPI
  <2>2. pc' \in Addr /\ fetchPC' \in Addr
    BY <1>7, PlusInAddr DEF ExecConoPI, Advance, pcState
  <2>3. inInterrupt' \in BOOLEAN
    BY <1>7 DEF ExecConoPI, PutConditions, ClearPI
  <2> QED
    BY <1>7, <2>1, <2>2, <2>3 DEF ExecConoPI, modeState
<1>8. CASE ExecConoAPR(i) \/ ExecResetIO(i) \/ ExecConoPAG(i) \/ ExecCCA(i)
  <2>1. running' \in BOOLEAN /\ nSteps' \in Nat
    BY <1>8, StepTyped DEF ExecConoAPR, ExecResetIO, ExecConoPAG, ExecCCA
  <2>2. pc' \in Addr /\ fetchPC' \in Addr /\ inInterrupt' \in BOOLEAN
    BY <1>8, FinishTyped DEF ExecConoAPR, ExecResetIO, ExecConoPAG, ExecCCA
  <2>3. result' \in IResult /\ pager' \in BOOLEAN
    BY <1>8, OperandsTyped
       DEF ExecConoAPR, ExecResetIO, ExecConoPAG, ExecCCA, modeState
  <2> QED
    BY <1>8, <2>1, <2>2, <2>3
       DEF ExecConoAPR, ExecResetIO, ExecConoPAG, ExecCCA, modeState
<1> QED
  BY <1>1, <1>2, <1>3, <1>4, <1>5, <1>6, <1>7, <1>8 DEF Execute

\* Every step of the loop keeps its types.
LEMMA LoopStepTyped ==
    ASSUME LoopTypeOK, inInterrupt \in BOOLEAN, [EmuNext]_emuVars
    PROVE  LoopTypeOK'
<1> USE DEF LoopTypeOK
<1>1. CASE Tick
  BY <1>1 DEF Tick, pcState, modeState, runState, IResult
<1>2. CASE FetchTrap \/ FetchVector \/ FetchNext
  <2>1. fetchPC' \in Addr
    BY <1>2, VectorsAssumption DEF FetchTrap, FetchVector, FetchNext
  <2> QED
    BY <1>2, <2>1 DEF FetchTrap, FetchVector, FetchNext, Fetched, modeState, runState
<1>3. ASSUME NEW i \in Code[fetchPC], Execute(i) PROVE LoopTypeOK'
  BY <1>3, ExecuteTyped
<1>4. CASE Debug
  <2>1. CASE DebugStep
    <3>1. nSteps' \in Nat
      BY <2>1, VectorsAssumption DEF DebugStep
    <3> QED
      BY <2>1, <3>1 DEF DebugStep, pcState, modeState
  <2>2. CASE DebugSetPC \/ DebugDisplay
    BY <2>2 DEF DebugSetPC, DebugDisplay, RestartFetch, modeState, runState
  <2>3. CASE DebugExit
    BY <2>3 DEF DebugExit, pcState, modeState
  <2> QED BY <1>4, <2>1, <2>2, <2>3 DEF Debug
<1>5. CASE Stop
  BY <1>5 DEF Stop, pcState, modeState
<1>6. CASE UNCHANGED emuVars
  BY <1>6 DEF emuVars, pcState, modeState, runState
<1> QED
  BY <1>1, <1>2, <1>3, <1>4, <1>5, <1>6 DEF EmuNext, CPUStep, Ended

LEMMA LoopInitTyped == EmuInit => LoopTypeOK
<1> SUFFICES ASSUME EmuInit PROVE LoopTypeOK
  OBVIOUS
<1>1. 0 \in Addr
  BY VectorsAssumption DEF Addr
<1>2. pc \in Addr /\ fetchPC \in Addr /\ links \in [LinkWords -> Link]
  BY <1>1, CodeAssumption DEF EmuInit
<1>3. phase = "tick" /\ result \in IResult /\ nSteps \in Nat
  BY DEF EmuInit, IResult
<1>4. flags \in SUBSET ProgFlag /\ pager \in BOOLEAN /\ running \in BOOLEAN
  BY DEF EmuInit
<1> QED
  BY <1>2, <1>3, <1>4 DEF LoopTypeOK

-----------------------------------------------------------------------------
(* The loop performs the operations of the interrupt system *)

\* An instruction that touches no device leaves or enters a vector at most.
LEMMA DevicesUntouched ==
    ASSUME ~hung, inInterrupt' \in BOOLEAN, UNCHANGED <<lines, piState, hung>>
    PROVE  PINext
BY DEF PINext, FetchElsewhere

\* What the APR does to its own line is what any device may do.
LEMMA APRLine ==
    ASSUME PITypeOK, ~hung, UNCHANGED <<piState, inInterrupt, hung>>,
           NEW l \in AssignedLevel, intLevel' = [intLevel EXCEPT ![APRDev] = l],
           intPending' \in {intPending, [intPending EXCEPT ![APRDev] = TRUE]}
    PROVE  PINext
<1>1. APRDev \in Devices \ {PIDev}
  BY DevicesAssumption
<1>2. OtherDevice(APRDev, l)
  BY DEF OtherDevice
<1> QED
  BY <1>1, <1>2 DEF PINext

\* The level of the APR as it is.
LEMMA APRLevel ==
    ASSUME PITypeOK
    PROVE  /\ intLevel[APRDev] \in AssignedLevel
           /\ intLevel = [intLevel EXCEPT ![APRDev] = intLevel[APRDev]]
BY DevicesAssumption DEF PITypeOK, LinesTypeOK

\* Each instruction is an operation of the PI, a change of the APR's line, or
\* neither.
LEMMA ExecuteIsPI ==
    ASSUME LoopTypeOK, PITypeOK, ~hung, NEW i \in Code[fetchPC], Execute(i)
    PROVE  PINext
<1> inInterrupt' \in BOOLEAN
  BY ExecuteTyped DEF PITypeOK
<1>1. CASE \/ ExecNormal(i) \/ ExecSkip(i) \/ ExecJump(i) \/ ExecCall(i) \/ ExecPUSHJ(i)
           \/ ExecJSA(i)
           \/ ExecJRSTF(i) \/ ExecXCT(i) \/ ExecHALT(i) \/ ExecTrap(i) \/ ExecMUUO(i)
           \/ ExecLUUO(i) \/ ExecConoPAG(i)
  <2>1. UNCHANGED deviceVars
    BY <1>1 DEF ExecNormal, ExecSkip, ExecJump, ExecCall, ExecPUSHJ, ExecJSA, ExecJRSTF, ExecXCT,
                ExecHALT, ExecTrap, ExecMUUO, ExecLUUO, ExecConoPAG
  <2> QED
    BY <2>1, DevicesUntouched DEF deviceVars
<1>2. CASE ExecJEN(i)
  BY <1>2 DEF ExecJEN, PINext
<1>3. CASE ExecConoPI(i)
  <2>1. i.word \in ConoPI /\ PutConditions(i.word)
    BY <1>3, OperandsTyped DEF ExecConoPI, Executing
  <2> QED
    BY <2>1 DEF PINext
<1>4. CASE ExecConoAPR(i)
  <2>1. i.word \in ConoAPR /\ PutAPRConditions(i.word) /\ UNCHANGED <<piState, hung>>
    BY <1>4, OperandsTyped DEF ExecConoAPR, Executing, SetByAPR
  <2>2. i.word.level \in AssignedLevel
    BY <2>1, ConoAPRAssumption DEF APRFunctions
  <2>3. /\ intLevel' = [intLevel EXCEPT ![APRDev] = i.word.level]
        /\ intPending' \in {intPending, [intPending EXCEPT ![APRDev] = TRUE]}
    BY <2>1 DEF PutAPRConditions, RequestAPR
  <2>4. UNCHANGED inInterrupt
    BY <1>4 DEF ExecConoAPR, Executing, Finish, Normal
  <2> QED
    BY <2>1, <2>2, <2>3, <2>4, APRLine
<1>5. CASE ExecResetIO(i)
  BY <1>5 DEF ExecResetIO, ResetByAPR, ResetIO, PINext
<1>6. CASE ExecCCA(i)
  BY <1>6, DevicesUntouched DEF ExecCCA, StartSweep
<1> QED
  BY <1>1, <1>2, <1>3, <1>4, <1>5, <1>6 DEF Execute

LEMMA StepIsPI ==
    ASSUME LoopTypeOK, PITypeOK, [EmuNext]_emuVars
    PROVE  [PINext]_piVars
<1>1. CASE CPUStep /\ Tick
  <2>1. ~hung /\ UNCHANGED <<piState, inInterrupt, hung>>
    BY <1>1 DEF CPUStep, Tick
  <2>2. CASE HandleSweep
    <3>1. /\ UNCHANGED intLevel
          /\ intPending' \in {intPending, [intPending EXCEPT ![APRDev] = TRUE]}
      BY <2>2 DEF HandleSweep, EndSweep, RequestAPR, lines
    <3> QED
      BY <2>1, <3>1, APRLevel, APRLine
  <2>3. CASE UNCHANGED lines
    BY <2>1, <2>3 DEF piVars
  <2> QED
    BY <1>1, <2>2, <2>3 DEF Tick
<1>2. CASE CPUStep /\ FetchTrap
  BY <1>2, DevicesUntouched DEF CPUStep, FetchTrap
<1>3. CASE CPUStep /\ FetchVector
  BY <1>3 DEF CPUStep, FetchVector, PINext, AcceptAny
<1>4. CASE FetchNext
  BY <1>4 DEF FetchNext, piVars
<1>5. ASSUME CPUStep, NEW i \in Code[fetchPC], Execute(i) PROVE PINext
  BY <1>5, ExecuteIsPI DEF CPUStep
<1>6. CASE Debug \/ Stop \/ UNCHANGED emuVars
  BY <1>6 DEF Debug, DebugStep, DebugSetPC, DebugDisplay, DebugExit, RestartFetch, Stop,
              deviceVars, piVars, emuVars
<1> QED
  BY <1>1, <1>2, <1>3, <1>4, <1>5, <1>6 DEF EmuNext, CPUStep, Ended

-----------------------------------------------------------------------------
(* The loop performs the operations of the APR and the CCA *)

\* A CONO PI, reaches no line but the PI's own.
LEMMA ConoPISparesAPR ==
    ASSUME PITypeOK, NEW f \in ConoPI, PutConditions(f)
    PROVE  intLevel'[APRDev] = intLevel[APRDev] /\ intPending'[APRDev] = intPending[APRDev]
<1> APRDev \in Devices /\ APRDev # PIDev
  BY DevicesAssumption
<1>1. CASE ClearPI
  BY <1>1 DEF ClearPI, ClearLine, PITypeOK, LinesTypeOK
<1>2. CASE InitiatePR(f)
  BY <1>2 DEF InitiatePR, PITypeOK, LinesTypeOK
<1>3. CASE NoInitiatePR(f)
  BY <1>3 DEF NoInitiatePR, PITypeOK, LinesTypeOK
<1>4. CASE UNCHANGED lines
  BY <1>4 DEF lines
<1> QED
  BY <1>1, <1>2, <1>3, <1>4 DEF PutConditions

LEMMA ExecuteIsSweep ==
    ASSUME LoopTypeOK, PITypeOK, PITypeOK', NEW i \in Code[fetchPC], Execute(i)
    PROVE  [SweepNext]_sweepVars
<1>1. CASE \/ ExecNormal(i) \/ ExecSkip(i) \/ ExecJump(i) \/ ExecCall(i) \/ ExecPUSHJ(i)
           \/ ExecJSA(i)
           \/ ExecJRSTF(i) \/ ExecXCT(i) \/ ExecHALT(i) \/ ExecTrap(i) \/ ExecMUUO(i)
           \/ ExecLUUO(i) \/ ExecConoPAG(i)
  <2>1. UNCHANGED deviceVars
    BY <1>1 DEF ExecNormal, ExecSkip, ExecJump, ExecCall, ExecPUSHJ, ExecJSA, ExecJRSTF, ExecXCT,
                ExecHALT, ExecTrap, ExecMUUO, ExecLUUO, ExecConoPAG
  <2> QED
    BY <2>1 DEF deviceVars, sweepVars
<1>2. CASE ExecJEN(i)
  BY <1>2 DEF ExecJEN, Dismiss, sweepVars
<1>3. CASE ExecConoPI(i)
  <2>1. i.word \in ConoPI /\ PutConditions(i.word) /\ UNCHANGED sweepState
    BY <1>3, OperandsTyped DEF ExecConoPI, Executing
  <2>2. OtherLines
    BY <2>1, ConoPISparesAPR DEF OtherLines, PITypeOK, LinesTypeOK
  <2> QED
    BY <2>2 DEF SweepNext
<1>4. CASE ExecConoAPR(i)
  BY <1>4, OperandsTyped DEF ExecConoAPR, Executing, SweepNext
<1>5. CASE ExecResetIO(i)
  BY <1>5, OperandsTyped DEF ExecResetIO, Executing, SweepNext
<1>6. CASE ExecCCA(i)
  BY <1>6 DEF ExecCCA, SweepNext
<1> QED
  BY <1>1, <1>2, <1>3, <1>4, <1>5, <1>6 DEF Execute

LEMMA StepIsSweep ==
    ASSUME LoopTypeOK, PITypeOK, PITypeOK', [EmuNext]_emuVars
    PROVE  [SweepNext]_sweepVars
<1>1. CASE Tick
  BY <1>1 DEF Tick, SweepNext, sweepVars
<1>2. CASE FetchTrap \/ FetchVector \/ FetchNext
  BY <1>2 DEF FetchTrap, FetchVector, FetchNext, Accept, Fetched, sweepVars
<1>3. ASSUME NEW i \in Code[fetchPC], Execute(i) PROVE [SweepNext]_sweepVars
  BY <1>3, ExecuteIsSweep
<1>4. CASE Debug \/ Stop \/ UNCHANGED emuVars
  BY <1>4 DEF Debug, DebugStep, DebugSetPC, DebugDisplay, DebugExit, RestartFetch, Stop,
              deviceVars, sweepVars, emuVars, piVars
<1> QED
  BY <1>1, <1>2, <1>3, <1>4 DEF EmuNext, CPUStep, Ended

-----------------------------------------------------------------------------
(* The theorems *)

\* The types of the loop and what the devices keep of themselves, together:
\* an instruction is one of theirs only if its operands are of their kinds,
\* and it is found where the fetch is in the address space.
EmuInv == LoopTypeOK /\ PIInv /\ SweepAgrees

LEMMA EmuStepInv == EmuInv /\ [EmuNext]_emuVars => EmuInv'
<1> SUFFICES ASSUME EmuInv, [EmuNext]_emuVars PROVE EmuInv'
  OBVIOUS
<1>1. LoopTypeOK'
  BY LoopStepTyped DEF EmuInv, PIInv, PITypeOK
<1>2. PIInv'
  BY StepIsPI, PIStepInv DEF EmuInv, PIInv
<1>3. SweepAgrees'
  BY <1>2, StepIsSweep, SweepStepAgrees DEF EmuInv, PIInv
<1> QED
  BY <1>1, <1>2, <1>3 DEF EmuInv

LEMMA EmuInvariant == EmuSpec => []EmuInv
<1>1. EmuInit => EmuInv
  BY LoopInitTyped, PIInitInv, InitAgrees DEF EmuInit, EmuInv, PIInit, SweepInit
<1> QED
  BY <1>1, EmuStepInv, PTL DEF EmuSpec

\* The loop's variables keep their types: the PC and the fetch never leave the
\* address space, whatever vectors, links and debugger commands move them.
THEOREM LoopTypes == EmuSpec => []LoopTypeOK
<1>1. EmuInv => LoopTypeOK
  BY DEF EmuInv
<1> QED
  BY EmuInvariant, <1>1, PTL

\* The loop uses the interrupt system as it expects to be used: every step of
\* the machine is one operation of module PI, or none.
THEOREM EmulatorImplementsPI == EmuSpec => PISpec
<1>1. EmuInit => PIInit
  BY DEF EmuInit
<1>2. EmuInv /\ [EmuNext]_emuVars => [PINext]_piVars
  BY StepIsPI DEF EmuInv, PIInv
<1> QED
  BY EmuInvariant, <1>1, <1>2, PTL DEF EmuSpec, PISpec

\* And the APR and the CCA: every step of the machine is one operation of
\* module Sweep, or a change of another device's lines, or none.
THEOREM EmulatorImplementsSweep == EmuSpec => SweepSpec
<1>1. EmuInit => SweepInit
  BY DEF EmuInit, PIInit, SweepInit
<1>2. EmuInv /\ EmuInv' /\ [EmuNext]_emuVars => [SweepNext]_sweepVars
  BY StepIsSweep DEF EmuInv, PIInv
<1> QED
  BY EmuInvariant, <1>1, <1>2, PTL DEF EmuSpec, SweepSpec

\* What is proved of the interrupt system and of the sweep alone holds in the
\* machine, among other things that arbitration is that of PriorityArbiter.
THEOREM EmulatorArbitrates == EmuSpec => ArbiterSpec /\ []BusyWhileCounting /\ RequestHasCause
BY EmulatorImplementsPI, EmulatorImplementsSweep, PIImplementsArbiter,
   SweepBusyWhileCounting, SweepRequestHasCause

-----------------------------------------------------------------------------
(* Where the loop fetches *)

\* An instruction that ends outside a vector, and is not executed further on,
\* leaves the fetch at the PC: of those the handlers answer, only the normal
\* one consults inInterrupt, and it leaves it as it is.
LEMMA ExecuteTracks ==
    ASSUME NEW i \in Code[fetchPC], Execute(i), ~inInterrupt', ~hung',
           result' \notin {"iXCT", "iLUUO"}
    PROVE  pc' = fetchPC'
<1>1. ASSUME NEW res, Finish(res) PROVE pc' = fetchPC'
  BY <1>1 DEF Finish, Normal, Skip, Advance
<1>2. CASE ExecNormal(i) \/ ExecSkip(i)
  BY <1>2 DEF ExecNormal, ExecSkip, Normal, Skip, Advance
<1>3. CASE ExecJump(i) \/ ExecCall(i) \/ ExecPUSHJ(i) \/ ExecJSA(i) \/ ExecJRSTF(i) \/ ExecJEN(i)
  BY <1>3 DEF ExecJump, ExecCall, ExecPUSHJ, ExecJSA, ExecJRSTF, ExecJEN, ReturnThrough, JumpTo
<1>4. CASE ExecXCT(i) \/ ExecLUUO(i) \/ ExecHALT(i) \/ ExecMUUO(i)
  BY <1>4 DEF ExecXCT, ExecLUUO, ExecHALT, ExecMUUO, Executing, Advance
<1>5. CASE ExecConoPI(i)
  BY <1>5 DEF ExecConoPI, Advance
<1>6. CASE ExecTrap(i) \/ ExecConoAPR(i) \/ ExecResetIO(i) \/ ExecConoPAG(i) \/ ExecCCA(i)
  BY <1>1, <1>6 DEF ExecTrap, ExecConoAPR, ExecResetIO, ExecConoPAG, ExecCCA
<1> QED
  BY <1>2, <1>3, <1>4, <1>5, <1>6 DEF Execute

\* Outside a vector, unless an XCT or a LUUO has sent the fetch elsewhere for
\* one instruction, the loop fetches where the PC points: for any program, and
\* through every trap, interrupt, skip in a vector and debugger command.
THEOREM PCAndFetchAgree == EmuSpec => []PCTracksFetch
<1>1. EmuInit => PCTracksFetch
  BY DEF EmuInit, PCTracksFetch
<1>2. PCTracksFetch /\ [EmuNext]_emuVars => PCTracksFetch'
  <2> SUFFICES ASSUME PCTracksFetch, [EmuNext]_emuVars, phase' = "tick", ~hung',
                      ~inInterrupt', result' \notin {"iXCT", "iLUUO"}
               PROVE  pc' = fetchPC'
    BY DEF PCTracksFetch
  <2>1. ASSUME Tick \/ FetchTrap \/ FetchVector \/ FetchNext PROVE FALSE
    BY <2>1 DEF Tick, FetchTrap, FetchVector, FetchNext, Fetched
  <2>2. ASSUME NEW i \in Code[fetchPC], Execute(i) PROVE pc' = fetchPC'
    BY <2>2, ExecuteTracks
  <2>3. CASE Debug
    BY <2>3 DEF Debug, DebugStep, DebugSetPC, DebugDisplay, DebugExit, RestartFetch
  <2>4. CASE Stop \/ UNCHANGED emuVars
    BY <2>4 DEF Stop, emuVars, piVars, deviceVars, pcState, PCTracksFetch
  <2> QED
    BY <2>1, <2>2, <2>3, <2>4 DEF EmuNext, CPUStep, Ended
<1> QED
  BY <1>1, <1>2, PTL DEF EmuSpec

\* User mode ends by a MUUO or by a call that leaves a vector; no flags that a
\* program restores, and no call of its own, end it.
THEOREM UserModeKept == EmuSpec => UserModeIsKept
<1> DEFINE Leaves == "usr" \in flags /\ "usr" \notin flags'
<1>1. [EmuNext]_emuVars
        => [Leaves => result' = "iMUUO" \/ (inInterrupt /\ ~inInterrupt')]_emuVars
  <2> SUFFICES ASSUME [EmuNext]_emuVars, Leaves
               PROVE  result' = "iMUUO" \/ (inInterrupt /\ ~inInterrupt')
    OBVIOUS
  <2>1. ASSUME NEW i \in Code[fetchPC], Execute(i)
        PROVE  result' = "iMUUO" \/ (inInterrupt /\ ~inInterrupt')
    <3>1. CASE ExecCall(i) \/ ExecPUSHJ(i) \/ ExecJSA(i)
      BY <3>1 DEF ExecCall, ExecPUSHJ, ExecJSA, JumpTo, TrapFlag
    <3>2. CASE ExecMUUO(i)
      BY <3>2 DEF ExecMUUO, Executing
    <3>3. ASSUME ExecJRSTF(i) \/ ExecJEN(i) \/ ExecTrap(i) PROVE FALSE
      BY <3>3 DEF ExecJRSTF, ExecJEN, ExecTrap, ReturnThrough, RestoreFlags
    <3>4. CASE \/ ExecNormal(i) \/ ExecSkip(i) \/ ExecJump(i) \/ ExecXCT(i) \/ ExecHALT(i)
               \/ ExecLUUO(i) \/ ExecConoPI(i) \/ ExecConoAPR(i) \/ ExecResetIO(i)
               \/ ExecConoPAG(i) \/ ExecCCA(i)
      BY <3>4 DEF ExecNormal, ExecSkip, ExecJump, ExecXCT, ExecHALT, ExecLUUO, ExecConoPI,
                  ExecConoAPR, ExecResetIO, ExecConoPAG, ExecCCA, modeState
    <3> QED
      BY <2>1, <3>1, <3>2, <3>3, <3>4 DEF Execute
  <2>2. ASSUME Tick \/ FetchTrap \/ FetchVector \/ FetchNext \/ Debug \/ Stop
               \/ UNCHANGED emuVars
        PROVE  FALSE
    BY <2>2 DEF Tick, FetchTrap, FetchVector, FetchNext, Fetched, Debug, DebugStep,
                DebugSetPC, DebugDisplay, DebugExit, RestartFetch, Stop, modeState, emuVars
  <2> QED
    BY <2>1, <2>2 DEF EmuNext, CPUStep, Ended
<1> QED
  BY <1>1, PTL DEF EmuSpec, UserModeIsKept

-----------------------------------------------------------------------------
(* A disciplined program, interrupted *)

\* The machine that runs the program is the emulator.
LEMMA ResumeStep == [ResumeNext]_ResumeVars => [EmuNext]_emuVars
BY DEF ResumeNext, EmuNext, CPUStep, Debug, ResumeVars

LEMMA ResumeIsEmulator == ResumeSpec => EmuSpec
<1>1. ResumeInit => EmuInit
  BY DEF ResumeInit
<1> QED
  BY <1>1, ResumeStep, PTL DEF ResumeSpec, EmuSpec

\* Where control may be: in the main program, or in a handler whose link leads
\* back to a place of less urgency.
AtLUUO(a) == a \in Main \/ (a \in LUUOHandler /\ links[LUUOLink].pc \in Main)
AtTrap(a) == AtLUUO(a) \/ (a \in TrapHandler /\ AtLUUO(links[TrapLink].pc))
AtPI(a) == AtTrap(a) \/ (a \in PIHandler /\ AtTrap(links[PILink].pc))

\* And where the main program goes on when the handlers have returned.
AfterLUUO(a) == IF a \in LUUOHandler THEN links[LUUOLink].pc ELSE a
AfterTrap(a) == AfterLUUO(IF a \in TrapHandler THEN links[TrapLink].pc ELSE a)
AfterPI(a) == AfterTrap(IF a \in PIHandler THEN links[PILink].pc ELSE a)

LinksKept == \A w \in LinkWords \ HandlerLinks : links[w].pc \in Main

OneLevelOn == levelsOn \subseteq {PILevel} /\ held \subseteq {PILevel}

Nested == AtPI(pc) /\ expected = AfterPI(pc)

\* The fetch is in a vector, at the PC, or where an XCT or LUUO at the PC has
\* sent it.
InTrapVector == fetchPC \in TrapVectors /\ phase \in {"debug", "exec"} /\ AtLUUO(pc)
InPIVector == fetchPC \in PIVectors /\ AtTrap(pc)
IsRemote ==
    /\ fetchPC \in Remote
    /\ pc \in Main /\ Plus(pc, 1) \in Main
    /\ fetchPC # LUUOVec => Plus(pc, 2) \in Main

Fetches ==
    IF inInterrupt THEN InTrapVector \/ InPIVector ELSE fetchPC = pc \/ IsRemote

Serving == held # {} <=> (pc \in PIHandler \/ fetchPC \in PIVectors)

\* No trap is taken in a trap handler, in an interrupt handler or between the
\* words of a vector.
Untrapped ==
    /\ pc \in TrapHandler \cup PIHandler => flags \cap TrapFlag = {}
    /\ (pc \in PIHandler /\ links[PILink].pc \in TrapHandler)
          => links[PILink].flags \cap TrapFlag = {}
    /\ fetchPC \in PIVectors => ~TrapPending

\* What the interrupt was accepted with is where it is to be found.
Saved ==
    /\ fetchPC \in PIVectors => before = [pc |-> pc, flags |-> flags]
    /\ pc \in PIHandler => links[PILink] = before /\ flags \cap {"usr", "pub"} = {}

ResumeInv ==
    /\ LinksKept
    /\ OneLevelOn
    /\ ~hung => Nested /\ Fetches /\ Serving /\ Untrapped /\ Saved

LEMMA PlusZero == ASSUME NEW a \in Addr PROVE Plus(a, 0) = a
BY VectorsAssumption DEF Plus, Addr

\* The parts of the program are apart.
LEMMA Apart ==
    ASSUME Disciplined
    PROVE  /\ \A a \in Main : a \in Addr /\ a \notin Remote \cup LUUOHandler \cup TrapHandler
                                \cup PIHandler \cup TrapVectors \cup PIVectors
           /\ \A a \in Remote : a \in Addr /\ a \notin LUUOHandler \cup TrapHandler
                                \cup PIHandler \cup TrapVectors \cup PIVectors
           /\ \A a \in LUUOHandler : a \in Addr /\ a \notin TrapHandler \cup PIHandler
                                \cup TrapVectors \cup PIVectors
           /\ \A a \in TrapHandler : a \in Addr /\ a \notin PIHandler \cup TrapVectors \cup PIVectors
           /\ \A a \in PIHandler : a \in Addr /\ a \notin TrapVectors \cup PIVectors
           /\ \A a \in TrapVectors : a \in Addr /\ a \notin PIVectors
<1>1. DOMAIN Places = 1 .. 7
  BY DEF Places
<1>2. /\ Places[1] = Main /\ Places[2] = Remote /\ Places[3] = LUUOHandler
      /\ Places[4] = TrapHandler /\ Places[5] = PIHandler /\ Places[6] = TrapVectors
      /\ Places[7] = PIVectors
  BY DEF Places
<1>3. \A m \in 1 .. 7 : Places[m] \subseteq Addr
  BY <1>1 DEF Disciplined
<1>4. \A m, n \in 1 .. 7 : m # n => Places[m] \cap Places[n] = {}
  BY <1>1 DEF Disciplined
<1>5. \A m \in 1 .. 7 : \A n \in m + 1 .. 7 : \A a \in Places[m] : a \notin Places[n]
  BY <1>4
<1>6. /\ {2, 3, 4, 5, 6, 7} \subseteq 1 + 1 .. 7 /\ {3, 4, 5, 6, 7} \subseteq 2 + 1 .. 7
      /\ {4, 5, 6, 7} \subseteq 3 + 1 .. 7 /\ {5, 6, 7} \subseteq 4 + 1 .. 7
      /\ {6, 7} \subseteq 5 + 1 .. 7 /\ 7 \in 6 + 1 .. 7 /\ {1, 2, 3, 4, 5, 6} \subseteq 1 .. 7
  OBVIOUS
<1> QED
  BY <1>2, <1>3, <1>5, <1>6

\* The opcode says which handler is executed.
LEMMA ByOpcode ==
    ASSUME NEW i \in Code[fetchPC], Execute(i)
    PROVE  /\ i.op = "normal" => ExecNormal(i)
           /\ i.op = "skip" => ExecSkip(i)
           /\ i.op = "jump" => ExecJump(i)
           /\ i.op = "call" => ExecCall(i)
           /\ i.op = "pushj" => ExecPUSHJ(i)
           /\ i.op = "jsa" => ExecJSA(i)
           /\ i.op = "jrstf" => ExecJRSTF(i)
           /\ i.op = "jen" => ExecJEN(i)
           /\ i.op = "xct" => ExecXCT(i)
           /\ i.op = "halt" => ExecHALT(i)
           /\ i.op \in {"trap", "setTrap"} => ExecTrap(i)
           /\ i.op = "muuo" => ExecMUUO(i)
           /\ i.op = "luuo" => ExecLUUO(i)
           /\ i.op = "conoPI" => ExecConoPI(i)
           /\ i.op = "conoAPR" => ExecConoAPR(i) \/ ExecResetIO(i)
           /\ i.op = "conoPAG" => ExecConoPAG(i)
           /\ i.op = "cca" => ExecCCA(i)
BY DEF Execute, Executing, ExecNormal, ExecSkip, ExecJump, ExecCall, ExecPUSHJ, ExecJSA, ExecJRSTF,
       ExecJEN, ExecXCT, ExecHALT, ExecTrap, ExecMUUO, ExecLUUO, ExecConoPI, ExecConoAPR,
       ExecResetIO, ExecConoPAG, ExecCCA

LEMMA ExecutedOnce ==
    ASSUME NEW i \in Code[fetchPC], Execute(i)
    PROVE  phase = "exec" /\ ~hung /\ phase' = "tick"
BY DEF Execute, Executing, ExecNormal, ExecSkip, ExecJump, ExecCall, ExecPUSHJ, ExecJSA, ExecJRSTF,
       ExecJEN, ExecXCT, ExecHALT, ExecTrap, ExecMUUO, ExecLUUO, ExecConoPI, ExecConoAPR,
       ExecResetIO, ExecConoPAG, ExecCCA

\* The instructions that neither call nor return nor execute another.
PlainOp == {"normal", "skip", "jump", "halt", "conoPI", "conoAPR", "conoPAG", "cca",
            "trap", "setTrap"}

\* Outside a vector they leave PC and fetch together, where the opcode says.
LEMMA PlainMoves ==
    ASSUME LoopTypeOK, ~inInterrupt, NEW i \in Code[fetchPC], Execute(i), i.op \in PlainOp, ~hung'
    PROVE  /\ ~inInterrupt'
           /\ fetchPC' = pc'
           /\ i.op = "jump" => pc' = i.to
           /\ i.op = "halt" => pc' = pc
           /\ (i.op \notin {"jump", "halt"} /\ result' = "iSkip")
                 => pc' = Plus(pc, 2) /\ MaySkip(i)
           /\ (i.op \notin {"jump", "halt"} /\ result' # "iSkip") => pc' = Plus(pc, 1)
<1> USE ByOpcode
<1>1. CASE i.op \in {"normal", "skip", "jump"}
  <2>1. CASE i.op = "normal"
    BY <2>1 DEF ExecNormal, Executing, Normal, Advance
  <2>2. CASE i.op = "skip"
    <3>1. Skip /\ result' = "iSkip"
      BY <2>2 DEF ExecSkip, Executing
    <3>2. pc' = Plus(pc, 2) /\ fetchPC' = Plus(pc, 2) /\ inInterrupt' = FALSE
      BY <3>1 DEF Skip, Advance
    <3> QED
      BY <2>2, <3>1, <3>2 DEF MaySkip
  <2>3. CASE i.op = "jump"
    <3>1. JumpTo(i.to)
      BY <2>3 DEF ExecJump
    <3>2. pc' = i.to /\ fetchPC' = i.to /\ inInterrupt' = FALSE
      BY <3>1 DEF JumpTo
    <3> QED
      BY <2>3, <3>2
  <2> QED
    BY <1>1, <2>1, <2>2, <2>3
<1>2. CASE i.op = "halt"
  BY <1>2, PlusZero DEF ExecHALT, Advance, LoopTypeOK
<1>3. CASE i.op \in {"trap", "setTrap"}
  BY <1>3 DEF ExecTrap, Executing, Finish, Normal, Advance
<1>4. CASE i.op = "conoPI"
  BY <1>4 DEF ExecConoPI, Executing, PutConditions, ClearPI, Advance
<1>5. CASE i.op = "conoAPR"
  <2>1. Finish("iNormal") /\ result' = "iNormal"
    BY <1>5 DEF ExecConoAPR, ExecResetIO, Executing
  <2>2. Normal
    BY <2>1 DEF Finish
  <2> QED
    BY <1>5, <2>1, <2>2 DEF Normal, Advance
<1>6. CASE i.op = "conoPAG"
  BY <1>6 DEF ExecConoPAG, Executing, Finish, Advance
<1>7. CASE i.op = "cca"
  <2>1. i.result \in {"iNormal", "iSkip", "iNoSuchDevice"} /\ result' = i.result
    BY <1>7, OperandsTyped DEF ExecCCA, Executing
  <2> QED
    BY <1>7, <2>1 DEF ExecCCA, Finish, Normal, Skip, Advance, MaySkip
<1> QED
  BY <1>1, <1>2, <1>3, <1>4, <1>5, <1>6, <1>7 DEF PlainOp

\* They write no link, and only the two that trap touch the flags.
LEMMA PlainKeeps ==
    ASSUME NEW i \in Code[fetchPC], Execute(i), i.op \in PlainOp
    PROVE  UNCHANGED links /\ (i.op \notin {"trap", "setTrap"} => UNCHANGED flags)
<1> USE ByOpcode
<1>1. CASE i.op \in {"normal", "skip", "jump", "halt"}
  BY <1>1 DEF ExecNormal, ExecSkip, ExecJump, ExecHALT, modeState
<1>2. CASE i.op \in {"trap", "setTrap", "conoPI", "conoAPR", "conoPAG", "cca"}
  BY <1>2 DEF ExecTrap, ExecConoPI, ExecConoAPR, ExecResetIO, ExecConoPAG, ExecCCA, modeState
<1> QED
  BY <1>1, <1>2 DEF PlainOp

\* Only a CONO PI, turns levels on, and only the one level; the service ends by
\* JEN, by the CONO PI, that clears, and by a reset.
LEMMA ExecuteLevels ==
    ASSUME Disciplined, LoopTypeOK, OneLevelOn, NEW i \in Code[fetchPC], Execute(i)
    PROVE  /\ OneLevelOn'
           /\ held' \in {held, {}}
           /\ (KeepsService(i) /\ i.op # "jen") => held' = held
<1>1. CASE \/ ExecNormal(i) \/ ExecSkip(i) \/ ExecJump(i) \/ ExecCall(i) \/ ExecPUSHJ(i)
           \/ ExecJSA(i)
           \/ ExecJRSTF(i) \/ ExecXCT(i) \/ ExecHALT(i) \/ ExecTrap(i) \/ ExecMUUO(i)
           \/ ExecLUUO(i) \/ ExecConoPAG(i) \/ ExecConoAPR(i) \/ ExecCCA(i)
  <2>1. UNCHANGED piState
    BY <1>1 DEF ExecNormal, ExecSkip, ExecJump, ExecCall, ExecPUSHJ, ExecJSA, ExecJRSTF, ExecXCT,
                ExecHALT, ExecTrap, ExecMUUO, ExecLUUO, ExecConoPAG, ExecConoAPR, ExecCCA,
                deviceVars
  <2> QED
    BY <2>1 DEF piState, OneLevelOn
<1>2. CASE ExecJEN(i)
  BY <1>2 DEF ExecJEN, Executing, Dismiss, EndService, OneLevelOn
<1>3. CASE ExecResetIO(i)
  BY <1>3 DEF ExecResetIO, Executing, ResetByAPR, ClearServiceAndPR, EndService, OneLevelOn,
              KeepsService
<1>4. CASE ExecConoPI(i)
  <2>1. i.op = "conoPI" /\ i.word \in ConoPI /\ PutConditions(i.word)
    BY <1>4, OperandsTyped DEF ExecConoPI, Executing
  <2>2. CASE ClearPI /\ "clearPI" \in i.word.bits
    BY <2>1, <2>2 DEF ClearPI, EndService, OneLevelOn, KeepsService
  <2>3. CASE Switch(i.word) /\ UNCHANGED held
    <3>1. LevelsIf(i.word, "levelsTurnOn") \subseteq {PILevel}
      BY <2>1 DEF Disciplined, OneLevel
    <3> QED
      BY <2>3, <3>1 DEF Switch, OneLevelOn
  <2> QED
    BY <2>1, <2>2, <2>3 DEF PutConditions
<1> QED
  BY <1>1, <1>2, <1>3, <1>4 DEF Execute

\* A step that leaves alone what the invariant speaks of keeps it.
LEMMA Undisturbed ==
    ASSUME ResumeInv, UNCHANGED <<pc, fetchPC, inInterrupt, modeState, levelsOn, held, hung, history>>,
           phase' \in {"debug", "exec"} \/ phase \notin {"debug", "exec"} \/ phase' = phase
    PROVE  ResumeInv'
<1>1. UNCHANGED <<pc, fetchPC, inInterrupt, flags, pager, links, levelsOn, held, hung, expected, before>>
  BY DEF modeState, history
<1>2. LinksKept' /\ OneLevelOn'
  BY <1>1 DEF ResumeInv, LinksKept, OneLevelOn
<1>3. ASSUME ~hung PROVE Nested' /\ Fetches'
  <2>1. Nested /\ Fetches
    BY <1>3 DEF ResumeInv
  <2> QED
    BY <1>1, <2>1 DEF Nested, AtPI, AtTrap, AtLUUO, AfterPI, AfterTrap, AfterLUUO,
                      Fetches, InTrapVector, InPIVector, IsRemote
<1>4. ASSUME ~hung PROVE Serving' /\ Untrapped' /\ Saved'
  <2>1. Serving /\ Untrapped /\ Saved
    BY <1>4 DEF ResumeInv
  <2> QED
    BY <1>1, <2>1 DEF Serving, Untrapped, TrapPending, Saved
<1> QED
  BY <1>1, <1>2, <1>3, <1>4 DEF ResumeInv

\* A hung machine stays as it is, so little is asked of it.
LEMMA Hangs == ASSUME LinksKept', OneLevelOn', hung' PROVE ResumeInv'
BY DEF ResumeInv

\* In the main program there is nothing to return from.
LEMMA InMain ==
    ASSUME Disciplined, LinksKept', OneLevelOn', held' = {}, pc' \in Main, expected' = pc',
           ~inInterrupt', fetchPC' = pc' \/ IsRemote'
    PROVE  ResumeInv'
<1>1. pc' \notin LUUOHandler \cup TrapHandler \cup PIHandler \cup PIVectors
  BY Apart
<1>2. fetchPC' \notin PIVectors
  BY <1>1, Apart DEF IsRemote
<1>3. Nested'
  BY <1>1 DEF Nested, AtPI, AtTrap, AtLUUO, AfterPI, AfterTrap, AfterLUUO
<1>4. Fetches' /\ Serving' /\ Untrapped' /\ Saved'
  BY <1>1, <1>2 DEF Fetches, Serving, Untrapped, Saved
<1> QED
  BY <1>3, <1>4 DEF ResumeInv

\* The links of the main program lead into it, whichever it writes.
LEMMA MainLinkWritten ==
    ASSUME LoopTypeOK, LinksKept, NEW w \in LinkWords, NEW a \in Main, NEW fs,
           links' = [links EXCEPT ![w] = [pc |-> a, flags |-> fs]]
    PROVE  LinksKept'
BY DEF LoopTypeOK, LinksKept

\* A call by a handler's link leaves those of the main program.
LEMMA HandlerLinkWritten ==
    ASSUME LoopTypeOK, LinksKept, NEW w \in HandlerLinks, NEW new,
           links' = [links EXCEPT ![w] = new]
    PROVE  LinksKept'
BY DEF LoopTypeOK, LinksKept

\* What is known when an instruction of the main program is executed.
LEMMA MainFetched ==
    ASSUME Disciplined, ResumeInv, ~hung, NEW i \in Code[fetchPC],
           fetchPC \in Main \cup (Remote \ {LUUOVec})
    PROVE  /\ ~inInterrupt /\ pc \in Main /\ expected = pc /\ held = {}
           /\ MainCode(i)
           /\ i.op \notin {"jump", "jrstf", "halt"} => Plus(pc, 1) \in Main
           /\ MaySkip(i) => Plus(pc, 2) \in Main
<1>1. fetchPC \notin LUUOHandler \cup TrapHandler \cup PIHandler \cup TrapVectors \cup PIVectors
  BY Apart
<1>2. ~inInterrupt /\ (fetchPC = pc \/ IsRemote)
  BY <1>1 DEF ResumeInv, Fetches, InTrapVector, InPIVector
<1>3. AtPI(pc) /\ expected = AfterPI(pc)
  BY DEF ResumeInv, Nested
<1>4. pc \in Main
  BY <1>1, <1>2, <1>3 DEF IsRemote, AtPI, AtTrap, AtLUUO, Nested
<1>5. pc \notin LUUOHandler \cup TrapHandler \cup PIHandler
  BY <1>4, Apart
<1>6. expected = pc /\ held = {}
  BY <1>1, <1>3, <1>5 DEF AfterPI, AfterTrap, AfterLUUO, ResumeInv, Serving
<1>7. CASE fetchPC \in Main
  <2>1. fetchPC = pc
    BY <1>2, <1>7, Apart DEF IsRemote
  <2> QED
    BY <1>2, <1>4, <1>6, <2>1 DEF Disciplined, MainIsDisciplined
<1>8. CASE fetchPC \in Remote \ {LUUOVec}
  <2>1. IsRemote
    BY <1>2, <1>4, <1>8, Apart
  <2> QED
    BY <1>2, <1>4, <1>6, <1>8, <2>1 DEF Disciplined, MainIsDisciplined, IsRemote
<1> QED
  BY <1>7, <1>8

LEMMA OpIsOne == ASSUME LoopTypeOK, NEW i \in Code[fetchPC] PROVE i.op \in Op
BY CodeAssumption DEF LoopTypeOK

\* An instruction of the main program, at the PC or executed in its place,
\* leaves control in the main program, at the next instruction.
LEMMA MainExecutes ==
    ASSUME Disciplined, LoopTypeOK, ResumeInv, NEW i \in Code[fetchPC], Execute(i),
           ExecHistory(i), fetchPC \in Main \cup (Remote \ {LUUOVec})
    PROVE  ResumeInv'
<1>1. ~hung
  BY ExecutedOnce
<1>2. /\ ~inInterrupt /\ pc \in Main /\ expected = pc /\ held = {}
      /\ MainCode(i)
      /\ i.op \notin {"jump", "jrstf", "halt"} => Plus(pc, 1) \in Main
      /\ MaySkip(i) => Plus(pc, 2) \in Main
  BY <1>1, MainFetched
<1>3. LinksKept /\ OneLevelOn' /\ held' = {}
  BY <1>2, ExecuteLevels DEF ResumeInv
<1>4. /\ i.op \in {"xct", "luuo", "halt"} => expected' = pc
      /\ i.op \in {"jump", "jrstf", "jsa", "muuo", "call", "pushj"} => expected' = pc'
      /\ i.op \in PlainOp \ {"jump", "halt"}
            => expected' = Plus(pc, IF result' = "iSkip" THEN 2 ELSE 1)
  <2>1. fetchPC # LUUOVec /\ fetchPC \in Main \cup Remote
    BY Apart DEF Disciplined, MainIsDisciplined
  <2>2. expected' = IF i.op \in {"xct", "luuo", "halt"} THEN pc
                    ELSE IF i.op \in {"jump", "jrstf", "jsa", "muuo", "call", "pushj"} THEN pc'
                    ELSE Plus(pc, IF result' = "iSkip" THEN 2 ELSE 1)
    BY <1>2, <2>1 DEF ExecHistory, Completes, MovesThePC
  <2> QED
    BY <2>2 DEF PlainOp
<1>5. CASE i.op \in PlainOp
  <2>1. LinksKept'
    BY <1>3, <1>5, PlainKeeps DEF LinksKept
  <2>2. CASE hung'
    BY <1>3, <2>1, <2>2, Hangs
  <2>3. CASE ~hung'
    <3>1. /\ ~inInterrupt'
          /\ fetchPC' = pc'
          /\ i.op = "jump" => pc' = i.to
          /\ i.op = "halt" => pc' = pc
          /\ (i.op \notin {"jump", "halt"} /\ result' = "iSkip")
                => pc' = Plus(pc, 2) /\ MaySkip(i)
          /\ (i.op \notin {"jump", "halt"} /\ result' # "iSkip") => pc' = Plus(pc, 1)
      BY <1>2, <1>5, <2>3, PlainMoves
    <3>2. pc' \in Main /\ expected' = pc'
      <4>1. CASE i.op \in {"jump", "halt"}
        BY <1>2, <1>4, <3>1, <4>1 DEF MainCode
      <4>2. CASE i.op \notin {"jump", "halt"} /\ result' = "iSkip"
        BY <1>2, <1>4, <1>5, <3>1, <4>2
      <4>3. CASE i.op \notin {"jump", "halt"} /\ result' # "iSkip"
        BY <1>2, <1>4, <1>5, <3>1, <4>3 DEF PlainOp
      <4> QED BY <4>1, <4>2, <4>3
    <3> QED
      BY <1>3, <2>1, <3>1, <3>2, InMain
  <2> QED BY <2>2, <2>3
<1>6. CASE i.op \in {"call", "pushj", "jsa"}
  <2>1. /\ pc' = i.to /\ fetchPC' = i.to /\ inInterrupt' = FALSE
        /\ UNCHANGED links \/ \E fs : links' = [links EXCEPT ![i.link] = [pc |-> ReturnPC, flags |-> fs]]
    BY <1>6, ByOpcode DEF ExecCall, ExecPUSHJ, ExecJSA, JumpTo
  <2>2. i.to \in Main /\ i.link \in LinkWords /\ ReturnPC \in Main
    BY <1>2, <1>6, OperandsTyped DEF MainCode, ReturnPC
  <2>3. LinksKept'
    BY <1>3, <2>1, <2>2, MainLinkWritten DEF LinksKept
  <2> QED
    BY <1>3, <1>4, <1>6, <2>1, <2>2, <2>3, InMain
<1>7. CASE i.op = "jrstf"
  <2>0. ReturnThrough(i) /\ UNCHANGED links
    BY <1>7, ByOpcode DEF ExecJRSTF
  <2>1. /\ pc' = links[i.link].pc /\ fetchPC' = pc' /\ inInterrupt' = FALSE
        /\ UNCHANGED links
    BY <2>0 DEF ReturnThrough, JumpTo
  <2>2. i.link \in LinkWords \ HandlerLinks
    BY <1>2, <1>7, OperandsTyped DEF MainCode
  <2>3. pc' \in Main /\ LinksKept'
    BY <1>3, <2>1, <2>2 DEF LinksKept
  <2> QED
    BY <1>3, <1>4, <1>7, <2>1, <2>3, InMain
<1>8. CASE i.op = "muuo"
  <2>1. /\ pc' = MUUOPC /\ fetchPC' = pc' /\ UNCHANGED inInterrupt
        /\ links' = [links EXCEPT ![MUUOLink] = [pc |-> Plus(pc, 1), flags |-> flags]]
    BY <1>8, ByOpcode DEF ExecMUUO
  <2>2. pc' \in Main /\ Plus(pc, 1) \in Main /\ MUUOLink \in LinkWords
    BY <1>2, <1>8, <2>1, CodeAssumption DEF MainCode
  <2>3. LinksKept'
    BY <1>3, <2>1, <2>2, MainLinkWritten
  <2> QED
    BY <1>2, <1>3, <1>4, <1>8, <2>1, <2>2, <2>3, InMain
<1>9. CASE i.op = "xct"
  <2>1. /\ fetchPC' = i.to /\ UNCHANGED <<pc, inInterrupt, links>>
    BY <1>9, ByOpcode DEF ExecXCT, modeState
  <2>2. IsRemote' /\ LinksKept'
    BY <1>2, <1>3, <1>9, <2>1 DEF MainCode, MaySkip, IsRemote, LinksKept
  <2> QED
    BY <1>2, <1>3, <1>4, <1>9, <2>1, <2>2, InMain
<1>10. CASE i.op = "luuo"
  <2>1. /\ fetchPC' = LUUOVec /\ UNCHANGED <<pc, inInterrupt, links>>
    BY <1>10, ByOpcode DEF ExecLUUO, modeState
  <2>2. IsRemote' /\ LinksKept'
    BY <1>2, <1>3, <1>10, <2>1 DEF Disciplined, MainIsDisciplined, IsRemote, LinksKept
  <2> QED
    BY <1>2, <1>3, <1>4, <1>10, <2>1, <2>2, InMain
<1> QED
  BY <1>2, <1>5, <1>6, <1>7, <1>8, <1>9, <1>10, OpIsOne DEF MainCode, PlainOp, Op

-----------------------------------------------------------------------------
(* Handlers and vectors *)

\* Control is in the LUUO handler, which returns to the main program.
LEMMA InLUUO ==
    ASSUME Disciplined, LinksKept', OneLevelOn', held' = {}, pc' \in LUUOHandler,
           fetchPC' = pc', ~inInterrupt', links'[LUUOLink].pc \in Main,
           expected' = links'[LUUOLink].pc
    PROVE  ResumeInv'
<1>1. pc' \notin Main \cup TrapHandler \cup PIHandler \cup PIVectors
  BY Apart
<1>2. Nested'
  BY <1>1 DEF Nested, AtPI, AtTrap, AtLUUO, AfterPI, AfterTrap, AfterLUUO
<1>3. Fetches' /\ Serving' /\ Untrapped' /\ Saved'
  BY <1>1 DEF Fetches, Serving, Untrapped, Saved
<1> QED
  BY <1>2, <1>3 DEF ResumeInv

\* Control is in the trap handler, which returns to the main program or to the
\* LUUO handler.
LEMMA InTrap ==
    ASSUME Disciplined, LinksKept', OneLevelOn', held' = {}, pc' \in TrapHandler,
           fetchPC' = pc', ~inInterrupt', AtLUUO(links[TrapLink].pc)',
           expected' = AfterLUUO(links[TrapLink].pc)', flags' \cap TrapFlag = {}
    PROVE  ResumeInv'
<1>1. pc' \notin Main \cup LUUOHandler \cup PIHandler \cup PIVectors
  BY Apart
<1>2. Nested'
  BY <1>1 DEF Nested, AtPI, AtTrap, AfterPI, AfterTrap
<1>3. Fetches' /\ Serving' /\ Untrapped' /\ Saved'
  BY <1>1 DEF Fetches, Serving, Untrapped, Saved
<1> QED
  BY <1>2, <1>3 DEF ResumeInv

\* Control is in the interrupt handler, which returns to any other place.
LEMMA InPI ==
    ASSUME Disciplined, LinksKept', OneLevelOn', held' # {}, pc' \in PIHandler,
           fetchPC' = pc', ~inInterrupt', AtTrap(links[PILink].pc)',
           expected' = AfterTrap(links[PILink].pc)',
           flags' \cap TrapFlag = {}, flags' \cap {"usr", "pub"} = {},
           links'[PILink].pc \in TrapHandler => links'[PILink].flags \cap TrapFlag = {},
           links'[PILink] = before'
    PROVE  ResumeInv'
<1>1. pc' \notin Main \cup LUUOHandler \cup TrapHandler \cup PIVectors
  BY Apart
<1>2. Nested'
  BY <1>1 DEF Nested, AtPI, AfterPI
<1>3. Fetches' /\ Serving'
  BY <1>1 DEF Fetches, Serving
<1>4. Untrapped' /\ Saved'
  BY <1>1 DEF Untrapped, Saved
<1> QED
  BY <1>2, <1>3, <1>4 DEF ResumeInv

\* A handler that does not return stays within itself.
LEMMA HandlerStays ==
    ASSUME LoopTypeOK, NEW S, NEW ops, NEW link, HandlerCode(S, ops, link), pc \in S,
           fetchPC = pc, ~inInterrupt, NEW i \in Code[fetchPC], Execute(i),
           i.op \in PlainOp, ~hung'
    PROVE  pc' \in S /\ fetchPC' = pc' /\ ~inInterrupt'
<1>1. /\ i.op = "jump" => i.to \in S
      /\ i.op \notin {"jump", "halt", "jrstf", "jen"} => Plus(pc, 1) \in S
      /\ MaySkip(i) => Plus(pc, 2) \in S
  BY DEF HandlerCode
<1>2. /\ ~inInterrupt' /\ fetchPC' = pc'
      /\ i.op = "jump" => pc' = i.to
      /\ i.op = "halt" => pc' = pc
      /\ (i.op \notin {"jump", "halt"} /\ result' = "iSkip")
            => pc' = Plus(pc, 2) /\ MaySkip(i)
      /\ (i.op \notin {"jump", "halt"} /\ result' # "iSkip") => pc' = Plus(pc, 1)
  BY PlainMoves
<1> QED
  BY <1>1, <1>2 DEF PlainOp

\* A handler's instruction does not count as one of the main program.
LEMMA HandlerHistory ==
    ASSUME NEW i, ExecHistory(i), fetchPC \notin Main \cup Remote
    PROVE  expected' = expected /\ (i.op # "jen" => before' = before)
BY DEF ExecHistory, Completes

LEMMA LUUOHandlerExecutes ==
    ASSUME Disciplined, LoopTypeOK, ResumeInv, NEW i \in Code[fetchPC], Execute(i),
           ExecHistory(i), fetchPC \in LUUOHandler
    PROVE  ResumeInv'
<1>1. fetchPC \notin Main \cup Remote \cup TrapHandler \cup PIHandler \cup TrapVectors \cup PIVectors
  BY Apart
<1>2. ~inInterrupt /\ fetchPC = pc /\ ~hung
  BY <1>1, ExecutedOnce DEF ResumeInv, Fetches, InTrapVector, InPIVector, IsRemote
<1>3. links[LUUOLink].pc \in Main /\ expected = links[LUUOLink].pc /\ held = {}
  BY <1>1, <1>2 DEF ResumeInv, Nested, AtPI, AtTrap, AtLUUO, AfterPI, AfterTrap, AfterLUUO,
                    Serving
<1>4. HandlerCode(LUUOHandler, {"trap", "setTrap", "jrstf"}, LUUOLink)
  BY DEF Disciplined, HandlersAreDisciplined
<1>5. i.op \in PlainOp \/ (i.op = "jrstf" /\ i.link = LUUOLink)
  BY <1>4 DEF HandlerCode, PlainOp
<1>6. LinksKept /\ OneLevelOn' /\ held' = {} /\ expected' = expected
  BY <1>1, <1>3, ExecuteLevels, HandlerHistory DEF ResumeInv
<1>7. UNCHANGED links
  BY <1>5, PlainKeeps, ByOpcode DEF ExecJRSTF
<1>8. LinksKept'
  BY <1>6, <1>7 DEF LinksKept
<1>9. CASE i.op \in PlainOp /\ ~hung'
  <2>1. pc' \in LUUOHandler /\ fetchPC' = pc' /\ ~inInterrupt'
    BY <1>2, <1>4, <1>9, HandlerStays
  <2> QED
    BY <1>3, <1>6, <1>7, <1>8, <2>1, InLUUO
<1>10. CASE i.op = "jrstf" /\ i.link = LUUOLink
  <2>1. ReturnThrough(i)
    BY <1>10, ByOpcode DEF ExecJRSTF
  <2>2. pc' = links[LUUOLink].pc /\ fetchPC' = pc' /\ ~inInterrupt'
    BY <1>10, <2>1 DEF ReturnThrough, JumpTo
  <2> QED
    BY <1>3, <1>6, <1>8, <2>2, InMain
<1> QED
  BY <1>5, <1>6, <1>8, <1>9, <1>10, Hangs

LEMMA TrapHandlerExecutes ==
    ASSUME Disciplined, LoopTypeOK, ResumeInv, NEW i \in Code[fetchPC], Execute(i),
           ExecHistory(i), fetchPC \in TrapHandler
    PROVE  ResumeInv'
<1>1. fetchPC \notin Main \cup Remote \cup LUUOHandler \cup PIHandler \cup TrapVectors \cup PIVectors
  BY Apart
<1>2. ~inInterrupt /\ fetchPC = pc /\ ~hung
  BY <1>1, ExecutedOnce DEF ResumeInv, Fetches, InTrapVector, InPIVector, IsRemote
<1> DEFINE back == links[TrapLink].pc
<1>3. AtLUUO(back) /\ expected = AfterLUUO(back) /\ held = {} /\ flags \cap TrapFlag = {}
  BY <1>1, <1>2 DEF ResumeInv, Nested, AtPI, AtTrap, AtLUUO, AfterPI, AfterTrap, Serving,
                    Untrapped
<1>4. HandlerCode(TrapHandler, {"jrstf"}, TrapLink)
  BY DEF Disciplined, HandlersAreDisciplined
<1>5. i.op \in PlainOp \ {"trap", "setTrap"} \/ (i.op = "jrstf" /\ i.link = TrapLink)
  BY <1>4 DEF HandlerCode, PlainOp
<1>6. LinksKept /\ OneLevelOn' /\ held' = {} /\ expected' = expected
  BY <1>1, <1>3, ExecuteLevels, HandlerHistory DEF ResumeInv
<1>7. UNCHANGED links
  BY <1>5, PlainKeeps, ByOpcode DEF ExecJRSTF
<1>8. LinksKept'
  BY <1>6, <1>7 DEF LinksKept
<1>9. CASE i.op \in PlainOp /\ ~hung'
  <2>1. pc' \in TrapHandler /\ fetchPC' = pc' /\ ~inInterrupt'
    BY <1>2, <1>4, <1>9, HandlerStays
  <2>2. flags' = flags
    BY <1>5, <1>9, PlainKeeps DEF PlainOp
  <2>3. AtLUUO(links[TrapLink].pc)' /\ expected' = AfterLUUO(links[TrapLink].pc)'
    BY <1>3, <1>6, <1>7 DEF AtLUUO, AfterLUUO
  <2> QED
    BY <1>3, <1>6, <1>8, <2>1, <2>2, <2>3, InTrap
<1>10. CASE i.op = "jrstf" /\ i.link = TrapLink
  <2>1. ReturnThrough(i)
    BY <1>10, ByOpcode DEF ExecJRSTF
  <2>2. pc' = back /\ fetchPC' = pc' /\ ~inInterrupt'
    BY <1>10, <2>1 DEF ReturnThrough, JumpTo
  <2>3. CASE back \in Main
    <3>1. expected' = pc'
      BY <1>3, <1>6, <2>2, <2>3, Apart DEF AfterLUUO
    <3> QED
      BY <1>6, <1>8, <2>2, <2>3, <3>1, InMain
  <2>4. CASE back \in LUUOHandler /\ links[LUUOLink].pc \in Main
    <3>1. expected' = links'[LUUOLink].pc
      BY <1>3, <1>6, <1>7, <2>4 DEF AfterLUUO
    <3> QED
      BY <1>6, <1>7, <1>8, <2>2, <2>4, <3>1, InLUUO
  <2> QED
    BY <1>3, <2>3, <2>4 DEF AtLUUO
<1> QED
  BY <1>5, <1>6, <1>8, <1>9, <1>10, Hangs

LEMMA PIHandlerExecutes ==
    ASSUME Disciplined, LoopTypeOK, ResumeInv, NEW i \in Code[fetchPC], Execute(i),
           ExecHistory(i), fetchPC \in PIHandler
    PROVE  /\ ResumeInv'
           /\ held' = held \/ (pc' = before.pc /\ flags' = before.flags)
<1>1. fetchPC \notin Main \cup Remote \cup LUUOHandler \cup TrapHandler \cup TrapVectors \cup PIVectors
  BY Apart
<1>2. ~inInterrupt /\ fetchPC = pc /\ ~hung
  BY <1>1, ExecutedOnce DEF ResumeInv, Fetches, InTrapVector, InPIVector, IsRemote
<1> DEFINE back == links[PILink].pc
<1>3. /\ AtTrap(back) /\ expected = AfterTrap(back) /\ held # {}
      /\ flags \cap TrapFlag = {} /\ flags \cap {"usr", "pub"} = {}
      /\ back \in TrapHandler => links[PILink].flags \cap TrapFlag = {}
      /\ links[PILink] = before
  BY <1>1, <1>2 DEF ResumeInv, Nested, AtPI, AtTrap, AtLUUO, AfterPI, Serving, Untrapped, Saved
<1>4. /\ HandlerCode(PIHandler, {"jen"}, PILink)
      /\ KeepsService(i) /\ (i.op = "jen" => ~i.indirect)
  BY DEF Disciplined, HandlersAreDisciplined
<1>5. i.op \in PlainOp \ {"trap", "setTrap"} \/ (i.op = "jen" /\ i.link = PILink)
  BY <1>4 DEF HandlerCode, PlainOp
<1>6. LinksKept /\ OneLevelOn' /\ (i.op # "jen" => held' = held /\ before' = before)
      /\ expected' = expected
  BY <1>1, <1>4, ExecuteLevels, HandlerHistory DEF ResumeInv
<1>7. UNCHANGED links
  BY <1>5, PlainKeeps, ByOpcode DEF ExecJEN
<1>8. LinksKept'
  BY <1>6, <1>7 DEF LinksKept
<1>9. CASE i.op \in PlainOp /\ ~hung'
  <2>1. pc' \in PIHandler /\ fetchPC' = pc' /\ ~inInterrupt'
    BY <1>2, <1>4, <1>9, HandlerStays
  <2>2. flags' = flags /\ i.op # "jen"
    BY <1>5, <1>9, PlainKeeps DEF PlainOp
  <2>3. AtTrap(links[PILink].pc)' /\ expected' = AfterTrap(links[PILink].pc)'
    BY <1>3, <1>6, <1>7 DEF AtTrap, AtLUUO, AfterTrap, AfterLUUO
  <2> QED
    BY <1>3, <1>6, <1>7, <1>8, <2>1, <2>2, <2>3, InPI
<1>10. CASE i.op = "jen" /\ i.link = PILink
  <2>1. ReturnThrough(i) /\ held' = {}
    BY <1>10, ByOpcode DEF ExecJEN, Dismiss, EndService
  <2>2. pc' = back /\ fetchPC' = pc' /\ ~inInterrupt'
    BY <1>10, <2>1 DEF ReturnThrough, JumpTo
  <2>3. flags' = links[PILink].flags
    BY <1>3, <1>4, <1>10, <2>1 DEF ReturnThrough, RestoreFlags, LinkFlags
  <2>4. CASE back \in Main
    <3>1. expected' = pc'
      BY <1>3, <1>6, <2>2, <2>4, Apart DEF AfterTrap, AfterLUUO
    <3> QED
      BY <1>3, <1>6, <1>8, <2>1, <2>2, <2>3, <2>4, <3>1, InMain
  <2>5. CASE back \in LUUOHandler /\ links[LUUOLink].pc \in Main
    <3>1. expected' = links'[LUUOLink].pc
      BY <1>3, <1>6, <1>7, <2>5, Apart DEF AfterTrap, AfterLUUO
    <3> QED
      BY <1>3, <1>6, <1>7, <1>8, <2>1, <2>2, <2>3, <2>5, <3>1, InLUUO
  <2>6. CASE back \in TrapHandler /\ AtLUUO(links[TrapLink].pc)
    <3>1. AtLUUO(links[TrapLink].pc)' /\ expected' = AfterLUUO(links[TrapLink].pc)'
      BY <1>3, <1>6, <1>7, <2>6 DEF AtLUUO, AfterTrap, AfterLUUO
    <3> QED
      BY <1>3, <1>6, <1>8, <2>1, <2>2, <2>3, <2>6, <3>1, InTrap
  <2> QED
    BY <1>3, <2>2, <2>3, <2>4, <2>5, <2>6 DEF AtTrap, AtLUUO
<1> QED
  BY <1>5, <1>6, <1>8, <1>9, <1>10, Hangs DEF PlainOp

\* What a call leaves behind, in a vector or not.
LEMMA CallLeaves ==
    ASSUME NEW i \in Code[fetchPC], Execute(i), NEW S, NEW w, Calls(i, S, w),
           LoopTypeOK, w \in LinkWords
    PROVE  /\ pc' = i.to /\ pc' \in S /\ fetchPC' = pc' /\ ~inInterrupt' /\ i.op = "call"
           /\ result' = "iJump"
           /\ links' = [links EXCEPT ![w] = [pc |-> ReturnPC, flags |-> flags]]
           /\ links'[w] = [pc |-> ReturnPC, flags |-> flags]
           /\ \A v \in LinkWords \ {w} : links'[v] = links[v]
           /\ flags' \cap TrapFlag = {}
           /\ inInterrupt => flags' \cap {"usr", "pub"} = {}
<1>1. ExecCall(i) /\ i.to \in S /\ i.link = w
  BY ByOpcode DEF Calls
<1>2. links' = [links EXCEPT ![w] = [pc |-> ReturnPC, flags |-> flags]]
  BY <1>1 DEF ExecCall
<1>3. flags' = flags \ (TrapFlag \cup IF inInterrupt THEN {"usr", "pub"} ELSE {})
  BY <1>1 DEF ExecCall
<1>4. pc' = i.to /\ fetchPC' = i.to /\ inInterrupt' = FALSE
  BY <1>1 DEF ExecCall, JumpTo
<1>5. result' = "iJump" /\ i.op = "call"
  BY <1>1 DEF ExecCall, Executing
<1> QED
  BY <1>1, <1>2, <1>3, <1>4, <1>5 DEF LoopTypeOK

\* What a call or a PUSHJ leaves behind: the return address, with some flags or
\* other, and no trap flag set.
LEMMA EntryLeaves ==
    ASSUME NEW i \in Code[fetchPC], Execute(i), NEW S, NEW w, Enters(i, S, w),
           LoopTypeOK, w \in LinkWords
    PROVE  /\ pc' = i.to /\ pc' \in S /\ fetchPC' = pc' /\ ~inInterrupt'
           /\ i.op \in {"call", "pushj"} /\ result' = "iJump"
           /\ \E fs : links' = [links EXCEPT ![w] = [pc |-> ReturnPC, flags |-> fs]]
           /\ links'[w].pc = ReturnPC
           /\ \A v \in LinkWords \ {w} : links'[v] = links[v]
           /\ flags' \cap TrapFlag = {}
<1>1. CASE Calls(i, S, w)
  BY <1>1, CallLeaves
<1>2. CASE i.op = "pushj" /\ ~i.full /\ i.to \in S /\ i.link = w
  <2>1. ExecPUSHJ(i)
    BY <1>2, ByOpcode
  <2>2. links' = [links EXCEPT ![w] = [pc |-> ReturnPC, flags |-> flags \ TrapFlag]]
    BY <1>2, <2>1 DEF ExecPUSHJ
  <2>3. flags' = flags \ (TrapFlag \cup IF inInterrupt THEN {"usr", "pub"} ELSE {})
    BY <1>2, <2>1 DEF ExecPUSHJ
  <2>4. pc' = i.to /\ fetchPC' = i.to /\ inInterrupt' = FALSE /\ result' = "iJump"
    BY <2>1 DEF ExecPUSHJ, JumpTo, Executing
  <2> QED
    BY <1>2, <2>2, <2>3, <2>4 DEF LoopTypeOK
<1> QED
  BY <1>1, <1>2 DEF Enters

\* The call at LUUOVec completes the LUUO: its handler returns past it.
LEMMA LUUOVecExecutes ==
    ASSUME Disciplined, LoopTypeOK, ResumeInv, NEW i \in Code[fetchPC], Execute(i),
           ExecHistory(i), fetchPC = LUUOVec
    PROVE  ResumeInv'
<1>1. /\ fetchPC \in Remote
      /\ fetchPC \notin Main \cup LUUOHandler \cup TrapHandler \cup PIHandler \cup TrapVectors \cup PIVectors
  BY Apart DEF Disciplined, MainIsDisciplined
<1>2. ~inInterrupt /\ IsRemote /\ ~hung
  BY <1>1, ExecutedOnce
     DEF ResumeInv, Fetches, InTrapVector, InPIVector, Nested, AtPI, AtTrap, AtLUUO
<1>3. pc \notin LUUOHandler \cup TrapHandler \cup PIHandler
  BY <1>2, Apart DEF IsRemote
<1>4. Plus(pc, 1) \in Main /\ expected = pc /\ held = {}
  BY <1>1, <1>2, <1>3 DEF ResumeInv, Nested, AfterPI, AfterTrap, AfterLUUO, Serving, IsRemote
<1>5. Enters(i, LUUOHandler, LUUOLink) /\ LUUOLink \in LinkWords /\ LUUOLink \in HandlerLinks
  BY DEF Disciplined, HandlersAreDisciplined, HandlerLinks
<1>6. /\ pc' \in LUUOHandler /\ fetchPC' = pc' /\ ~inInterrupt' /\ i.op \in {"call", "pushj"}
      /\ result' = "iJump"
      /\ \E fs : links' = [links EXCEPT ![LUUOLink] = [pc |-> ReturnPC, flags |-> fs]]
      /\ links'[LUUOLink].pc = ReturnPC
  BY <1>5, EntryLeaves
<1>7. ReturnPC = Plus(pc, 1)
  BY <1>2 DEF ReturnPC
<1>8. expected' = Plus(pc, 1)
  BY <1>1, <1>4, <1>6 DEF ExecHistory, Completes, MovesThePC
<1>9. LinksKept' /\ OneLevelOn' /\ held' = {}
  BY <1>4, <1>5, <1>6, HandlerLinkWritten, ExecuteLevels DEF ResumeInv
<1> QED
  BY <1>4, <1>6, <1>7, <1>8, <1>9, InLUUO

\* The call in a trap vector returns to the PC, where nothing was executed.
LEMMA TrapVectorExecutes ==
    ASSUME Disciplined, LoopTypeOK, ResumeInv, NEW i \in Code[fetchPC], Execute(i),
           ExecHistory(i), fetchPC \in TrapVectors
    PROVE  ResumeInv'
<1>1. fetchPC \notin Main \cup Remote \cup LUUOHandler \cup TrapHandler \cup PIHandler \cup PIVectors
  BY Apart
<1>2. inInterrupt /\ AtLUUO(pc) /\ ~hung
  BY <1>1, ExecutedOnce
     DEF ResumeInv, Fetches, InTrapVector, InPIVector, Nested, AtPI, AtTrap, AtLUUO, IsRemote
<1>3. pc \notin TrapHandler \cup PIHandler
  BY <1>2, Apart DEF AtLUUO
<1>4. expected = AfterLUUO(pc) /\ held = {}
  BY <1>1, <1>2, <1>3 DEF ResumeInv, Nested, AfterPI, AfterTrap, Serving
<1>5. /\ Enters(i, TrapHandler, TrapLink) /\ TrapLink \in LinkWords /\ TrapLink \in HandlerLinks
      /\ LUUOLink \in LinkWords \ {TrapLink}
  BY DEF Disciplined, HandlersAreDisciplined, HandlerLinks
<1>6. /\ pc' \in TrapHandler /\ fetchPC' = pc' /\ ~inInterrupt' /\ i.op \in {"call", "pushj"}
      /\ \E fs : links' = [links EXCEPT ![TrapLink] = [pc |-> ReturnPC, flags |-> fs]]
      /\ links'[TrapLink].pc = ReturnPC
      /\ links'[LUUOLink] = links[LUUOLink]
      /\ flags' \cap TrapFlag = {}
  BY <1>5, EntryLeaves
<1>7. ReturnPC = pc
  BY <1>2, PlusZero DEF ReturnPC, LoopTypeOK
<1>8. expected' = expected
  BY <1>1, HandlerHistory
<1>9. LinksKept' /\ OneLevelOn' /\ held' = {}
  BY <1>4, <1>5, <1>6, HandlerLinkWritten, ExecuteLevels DEF ResumeInv
<1>10. AtLUUO(links[TrapLink].pc)' /\ expected' = AfterLUUO(links[TrapLink].pc)'
  BY <1>2, <1>4, <1>6, <1>7, <1>8 DEF AtLUUO, AfterLUUO
<1> QED
  BY <1>6, <1>9, <1>10, InTrap

\* In an interrupt vector: on to its second word, or a call that returns to
\* the PC and saves the flags the interrupt was accepted with.
LEMMA PIVectorExecutes ==
    ASSUME Disciplined, LoopTypeOK, ResumeInv, NEW i \in Code[fetchPC], Execute(i),
           ExecHistory(i), fetchPC \in PIVectors
    PROVE  ResumeInv' /\ held' = held
<1>1. fetchPC \notin Main \cup Remote \cup LUUOHandler \cup TrapHandler \cup PIHandler \cup TrapVectors
  BY Apart
<1>2. inInterrupt /\ AtTrap(pc) /\ ~hung
  BY <1>1, ExecutedOnce
     DEF ResumeInv, Fetches, InTrapVector, InPIVector, Nested, AtPI, AtTrap, AtLUUO, IsRemote
<1>3. pc \notin PIHandler
  BY <1>2, Apart DEF AtTrap, AtLUUO
<1>4. /\ expected = AfterTrap(pc) /\ held # {} /\ before = [pc |-> pc, flags |-> flags]
      /\ ~TrapPending /\ (pc \in TrapHandler => flags \cap TrapFlag = {})
  BY <1>1, <1>2, <1>3 DEF ResumeInv, Nested, AfterPI, Serving, Saved, Untrapped
<1>5. Calls(i, PIHandler, PILink) \/ (fetchPC = PIVector /\ InVector(i))
  BY DEF Disciplined, HandlersAreDisciplined, PIVectors
<1>6. i.op \in {"call", "normal", "conoAPR", "cca"} /\ KeepsService(i)
  BY <1>5 DEF Calls, InVector, KeepsService
<1>7. OneLevelOn' /\ held' = held /\ expected' = expected /\ before' = before
  BY <1>1, <1>6, ExecuteLevels, HandlerHistory DEF ResumeInv
<1>8. CASE Calls(i, PIHandler, PILink)
  <2>1. /\ PILink \in LinkWords /\ PILink \in HandlerLinks
        /\ LUUOLink \in LinkWords \ {PILink} /\ TrapLink \in LinkWords \ {PILink}
    BY DEF Disciplined, HandlerLinks
  <2>2. /\ pc' \in PIHandler /\ fetchPC' = pc' /\ ~inInterrupt'
        /\ links' = [links EXCEPT ![PILink] = [pc |-> ReturnPC, flags |-> flags]]
        /\ links'[PILink] = [pc |-> ReturnPC, flags |-> flags]
        /\ links'[LUUOLink] = links[LUUOLink] /\ links'[TrapLink] = links[TrapLink]
        /\ flags' \cap TrapFlag = {} /\ flags' \cap {"usr", "pub"} = {}
    BY <1>2, <1>8, <2>1, CallLeaves
  <2>3. ReturnPC = pc
    BY <1>2, PlusZero DEF ReturnPC, LoopTypeOK
  <2>4. LinksKept'
    BY <2>1, <2>2, HandlerLinkWritten DEF ResumeInv
  <2>5. AtTrap(links[PILink].pc)' /\ expected' = AfterTrap(links[PILink].pc)'
    BY <1>2, <1>4, <1>7, <2>2, <2>3 DEF AtTrap, AtLUUO, AfterTrap, AfterLUUO
  <2>6. /\ links'[PILink] = before'
        /\ links'[PILink].pc \in TrapHandler => links'[PILink].flags \cap TrapFlag = {}
    BY <1>4, <1>7, <2>2, <2>3
  <2> QED
    BY <1>4, <1>6, <1>7, <2>2, <2>4, <2>5, <2>6, InPI
<1>9. CASE fetchPC = PIVector /\ InVector(i)
  <2>1. Normal /\ UNCHANGED <<modeState, hung>>
    <3>1. CASE i.op = "normal"
      BY <3>1, ByOpcode DEF ExecNormal, deviceVars
    <3>2. CASE i.op = "conoAPR"
      <4>1. ExecConoAPR(i)
        BY <1>9, <3>2, ByOpcode DEF InVector, KeepsService, ExecResetIO, ResetByAPR
      <4> QED
        BY <4>1 DEF ExecConoAPR, Finish
    <3>3. CASE i.op = "cca"
      <4>1. ExecCCA(i) /\ i.result = "iNormal"
        BY <1>9, <3>3, ByOpcode DEF InVector
      <4> QED
        BY <4>1 DEF ExecCCA, Finish
    <3> QED
      BY <1>9, <3>1, <3>2, <3>3 DEF InVector
  <2>2. fetchPC' = Plus(PIVector, 1) /\ UNCHANGED <<pc, inInterrupt, links, flags, pager, hung>>
    BY <1>2, <1>9, <2>1 DEF Normal, modeState
  <2>3. fetchPC' \in PIVectors
    BY <2>2 DEF PIVectors
  <2>4. LinksKept'
    BY <2>2 DEF ResumeInv, LinksKept
  <2>5. Nested' /\ AtTrap(pc)'
    BY <1>2, <1>7, <2>2 DEF ResumeInv, Nested, AtPI, AtTrap, AtLUUO, AfterPI, AfterTrap, AfterLUUO
  <2>6. Fetches'
    BY <1>2, <2>2, <2>3, <2>5 DEF Fetches, InPIVector
  <2>7. Serving' /\ Untrapped' /\ Saved'
    BY <1>3, <1>4, <1>7, <2>2, <2>3 DEF Serving, Untrapped, TrapPending, Saved
  <2> QED
    BY <1>6, <1>7, <2>4, <2>5, <2>6, <2>7 DEF ResumeInv
<1> QED
  BY <1>5, <1>8, <1>9

\* One of the lemmas above speaks of whatever is executed.
LEMMA FetchedSomewhere ==
    ASSUME ResumeInv, ~hung
    PROVE  \/ fetchPC \in Main \cup (Remote \ {LUUOVec}) \/ fetchPC = LUUOVec
           \/ fetchPC \in LUUOHandler \/ fetchPC \in TrapHandler \/ fetchPC \in PIHandler
           \/ fetchPC \in TrapVectors \/ fetchPC \in PIVectors
BY DEF ResumeInv, Nested, Fetches, InTrapVector, InPIVector, IsRemote, AtPI, AtTrap, AtLUUO

LEMMA ExecuteKeeps ==
    ASSUME Disciplined, LoopTypeOK, ResumeInv, NEW i \in Code[fetchPC], Execute(i), ExecHistory(i)
    PROVE  ResumeInv'
BY ExecutedOnce, FetchedSomewhere, MainExecutes, LUUOVecExecutes, LUUOHandlerExecutes,
   TrapHandlerExecutes, PIHandlerExecutes, TrapVectorExecutes, PIVectorExecutes

-----------------------------------------------------------------------------
(* Traps and interrupts taken *)

\* Between two instructions the loop is in no trap vector.
LEMMA BetweenInstructions ==
    ASSUME ResumeInv, ~hung, phase = "fetch", fetchPC \notin PIVectors
    PROVE  ~inInterrupt /\ AtPI(pc)
BY DEF ResumeInv, Nested, Fetches, InTrapVector, InPIVector

\* A trap is taken in the main program or in the LUUO handler: elsewhere no
\* trap flag is up.
LEMMA TrapTaken ==
    ASSUME Disciplined, LoopTypeOK, ResumeInv, ~hung, FetchTrap, UNCHANGED history
    PROVE  ResumeInv'
<1>1. /\ phase = "fetch" /\ TrapPending /\ flags \cap TrapFlag # {}
      /\ fetchPC' \in TrapVectors /\ inInterrupt' /\ phase' \in {"debug", "exec"}
      /\ UNCHANGED <<pc, flags, links, levelsOn, held, hung, expected, before>>
  BY DEF FetchTrap, Fetched, TrapPending, TrapVectors, modeState, piState, history
<1>2. AtLUUO(pc) /\ pc \notin PIHandler /\ fetchPC \notin PIVectors
  BY <1>1, BetweenInstructions DEF ResumeInv, Untrapped, AtPI, AtTrap
<1>3. pc \notin TrapHandler /\ held = {} /\ fetchPC' \notin PIVectors
  BY <1>1, <1>2, Apart DEF ResumeInv, Untrapped, Serving
<1>4. AtLUUO(pc)' /\ Nested'
  BY <1>1, <1>2, <1>3 DEF ResumeInv, AtLUUO, Nested, AtPI, AtTrap, AfterPI, AfterTrap, AfterLUUO
<1>5. Fetches'
  BY <1>1, <1>4 DEF Fetches, InTrapVector
<1>6. Serving' /\ Untrapped' /\ Saved'
  BY <1>1, <1>2, <1>3 DEF Serving, Untrapped, Saved
<1>7. LinksKept' /\ OneLevelOn'
  BY <1>1 DEF ResumeInv, LinksKept, OneLevelOn
<1> QED
  BY <1>4, <1>5, <1>6, <1>7 DEF ResumeInv

\* The one level is accepted when it is not in service, so never within its
\* own handler or vector.
LEMMA AcceptsTheOne ==
    ASSUME Disciplined, PIInv, OneLevelOn, NEW l \in Level, Accept(l)
    PROVE  l = PILevel /\ held = {} /\ held' = {PILevel}
<1>1. l \in Wanted /\ l < currentLevel /\ held' = held \cup {l}
  BY DEF Accept, IsHighest
<1>2. l = PILevel
  BY <1>1 DEF Wanted, OneLevelOn
<1>3. held = {}
  <2> SUFFICES ASSUME held # {} PROVE FALSE
    OBVIOUS
  <2>1. IsHighest(currentLevel, held) /\ held \subseteq {PILevel}
    BY DEF PIInv, ServiceAgrees, OneLevelOn
  <2>2. currentLevel = PILevel /\ PILevel \in Nat
    BY <2>1, <1>2, NumLevelsAssumption DEF IsHighest, Level
  <2> QED
    BY <1>1, <1>2, <2>2
<1> QED
  BY <1>1, <1>2, <1>3

LEMMA InterruptTaken ==
    ASSUME Disciplined, LoopTypeOK, PIInv, ResumeInv, ~hung, FetchVector,
           before' = [pc |-> pc, flags |-> flags], UNCHANGED expected
    PROVE  ResumeInv'
<1>1. PICK l \in Level : Accept(l) /\ fetchPC' = VectorBase + 2 * l
  BY DEF FetchVector
<1>2. l = PILevel /\ held = {} /\ held' = {PILevel}
  BY <1>1, AcceptsTheOne DEF ResumeInv
<1>3. /\ phase = "fetch" /\ ~TrapPending /\ inInterrupt' /\ fetchPC' \in PIVectors
      /\ UNCHANGED <<pc, flags, pager, links, levelsOn, hung>>
  BY <1>1, <1>2 DEF FetchVector, Fetched, Accept, PIVectors, PIVector, modeState
<1>4. pc \notin PIHandler /\ AtTrap(pc) /\ (pc \in TrapHandler => flags \cap TrapFlag = {})
  BY <1>2 DEF ResumeInv, Nested, Serving, Untrapped, AtPI
<1>5. AtTrap(pc)' /\ Nested'
  BY <1>3, <1>4 DEF ResumeInv, AtLUUO, Nested, AtPI, AtTrap, AfterPI, AfterTrap, AfterLUUO
<1>6. Fetches'
  BY <1>3, <1>5 DEF Fetches, InPIVector
<1>7. Serving' /\ Untrapped' /\ Saved'
  BY <1>2, <1>3, <1>4 DEF Serving, Untrapped, TrapPending, Saved
<1>8. LinksKept' /\ OneLevelOn'
  BY <1>2, <1>3 DEF ResumeInv, LinksKept, OneLevelOn
<1> QED
  BY <1>5, <1>6, <1>7, <1>8 DEF ResumeInv

LEMMA ResumeInitInv == ASSUME Disciplined, ResumeInit PROVE ResumeInv
<1>1. /\ pc = 0 /\ fetchPC = 0 /\ flags = {} /\ links = InitLinks /\ expected = 0
      /\ ~inInterrupt /\ held = {} /\ levelsOn = {}
  BY DEF ResumeInit, EmuInit, PIInit
<1>2. 0 \in Main /\ LinksKept
  BY <1>1 DEF Disciplined, MainIsDisciplined, LinksKept
<1>3. 0 \notin LUUOHandler \cup TrapHandler \cup PIHandler \cup PIVectors
  BY <1>2, Apart
<1>4. Nested /\ Fetches /\ Serving /\ Untrapped /\ Saved
  BY <1>1, <1>2, <1>3 DEF Nested, AtPI, AtTrap, AtLUUO, AfterPI, AfterTrap, AfterLUUO, Fetches,
                          Serving, Untrapped, Saved
<1> QED
  BY <1>1, <1>2, <1>4 DEF ResumeInv, OneLevelOn

LEMMA ResumeStepInv ==
    ASSUME Disciplined, LoopTypeOK, PIInv, ResumeInv, [ResumeNext]_ResumeVars
    PROVE  ResumeInv'
<1>1. ASSUME NEW i \in Code[fetchPC], Execute(i), ExecHistory(i) PROVE ResumeInv'
  BY <1>1, ExecuteKeeps
<1>2. CASE ~hung /\ FetchVector /\ before' = [pc |-> pc, flags |-> flags] /\ UNCHANGED expected
  BY <1>2, InterruptTaken
<1>3. CASE ~hung /\ FetchTrap /\ UNCHANGED history
  BY <1>3, TrapTaken
<1>4. CASE Tick /\ UNCHANGED history
  <2>1. phase = "tick" /\ UNCHANGED <<pc, fetchPC, inInterrupt, modeState, levelsOn, held, hung, history>>
    BY <1>4 DEF Tick, piState, pcState
  <2> QED
    BY <2>1, Undisturbed
<1>5. CASE FetchNext /\ UNCHANGED history
  <2>1. phase = "fetch" /\ UNCHANGED <<pc, fetchPC, inInterrupt, modeState, levelsOn, held, hung, history>>
    BY <1>5 DEF FetchNext, Fetched, piState
  <2> QED
    BY <2>1, Undisturbed
<1>6. CASE DebugStep /\ UNCHANGED history
  <2>1. phase' = "exec" /\ UNCHANGED <<pc, fetchPC, inInterrupt, modeState, levelsOn, held, hung, history>>
    BY <1>6 DEF DebugStep, deviceVars, piState, pcState
  <2> QED
    BY <2>1, Undisturbed
<1>7. CASE (Stop \/ UNCHANGED emuVars) /\ UNCHANGED history
  <2>1. phase' = phase /\ UNCHANGED <<pc, fetchPC, inInterrupt, modeState, levelsOn, held, hung, history>>
    BY <1>7 DEF Stop, deviceVars, emuVars, piVars, piState, pcState
  <2> QED
    BY <2>1, Undisturbed
<1> QED
  BY <1>1, <1>2, <1>3, <1>4, <1>5, <1>6, <1>7 DEF ResumeNext, ResumeVars

\* The machine hangs while it executes a CONO PI, and never fetches again.
HungAtTick == hung => phase = "tick"

LEMMA HangsInExecution == EmuSpec => []HungAtTick
<1>1. EmuInit => HungAtTick
  BY DEF EmuInit, PIInit, HungAtTick
<1>2. HungAtTick /\ [EmuNext]_emuVars => HungAtTick'
  <2> SUFFICES ASSUME HungAtTick, [EmuNext]_emuVars PROVE HungAtTick'
    OBVIOUS
  <2>1. ASSUME NEW i \in Code[fetchPC], Execute(i) PROVE HungAtTick'
    BY <2>1, ExecutedOnce DEF HungAtTick
  <2>2. CASE ~hung /\ (Tick \/ FetchTrap \/ FetchVector \/ FetchNext)
    BY <2>2 DEF Tick, FetchTrap, FetchVector, Accept, FetchNext, HungAtTick
  <2>3. CASE Debug \/ Stop \/ UNCHANGED emuVars
    BY <2>3 DEF Debug, DebugStep, DebugSetPC, DebugDisplay, DebugExit, RestartFetch, Stop,
                deviceVars, emuVars, piVars, HungAtTick
  <2> QED
    BY <2>1, <2>2, <2>3 DEF EmuNext, CPUStep, Ended
<1> QED
  BY <1>1, <1>2, PTL DEF EmuSpec

LEMMA ResumeInvariant == ASSUME Disciplined PROVE ResumeSpec => [](EmuInv /\ ResumeInv)
<1>1. ResumeInit => ResumeInv
  BY ResumeInitInv
<1>2. EmuInv /\ ResumeInv /\ [ResumeNext]_ResumeVars => ResumeInv'
  BY ResumeStepInv DEF EmuInv
<1> QED
  BY <1>1, <1>2, ResumeIsEmulator, EmuInvariant, PTL DEF ResumeSpec

\* Whatever interrupts a disciplined program, in whatever order, the
\* instruction that is about to be executed in it is the next one: none is
\* lost, repeated or taken out of turn.
THEOREM NothingIsLost == ASSUME Disciplined PROVE ResumeSpec => []NoInstructionLost
<1>1. EmuInv /\ ResumeInv /\ HungAtTick => NoInstructionLost
  <2> SUFFICES ASSUME ResumeInv, ~hung, fetchPC \in Main PROVE fetchPC = expected
    BY DEF NoInstructionLost, HungAtTick
  <2>1. fetchPC = pc \/ IsRemote
    BY Apart DEF ResumeInv, Fetches, InTrapVector, InPIVector
  <2>2. fetchPC = pc /\ pc \in Main /\ expected = AfterPI(pc)
    BY <2>1, Apart DEF IsRemote, ResumeInv, Nested
  <2> QED
    BY <2>2, Apart DEF AfterPI, AfterTrap, AfterLUUO
<1> QED
  BY <1>1, ResumeInvariant, ResumeIsEmulator, HangsInExecution, PTL

\* A service ends only in the handler, by the instruction that returns from it.
LEMMA ServiceEnds ==
    ASSUME Disciplined, LoopTypeOK, ResumeInv, [ResumeNext]_ResumeVars, held # {}, held' = {}
    PROVE  pc' = before.pc /\ flags' = before.flags
<1>1. ASSUME NEW i \in Code[fetchPC], Execute(i), ExecHistory(i)
      PROVE  pc' = before.pc /\ flags' = before.flags
  <2>1. ~hung /\ (pc \in PIHandler \/ fetchPC \in PIVectors)
    BY <1>1, ExecutedOnce DEF ResumeInv, Serving
  <2>2. CASE fetchPC \in PIVectors
    BY <1>1, <2>2, PIVectorExecutes
  <2>3. CASE pc \in PIHandler /\ fetchPC \notin PIVectors
    <3>1. pc \notin Main \cup LUUOHandler
      BY <2>3, Apart
    <3>2. fetchPC = pc
      BY <2>1, <2>3, <3>1 DEF ResumeInv, Fetches, InTrapVector, InPIVector, IsRemote, AtLUUO
    <3> QED
      BY <1>1, <2>3, <3>2, PIHandlerExecutes
  <2> QED
    BY <2>1, <2>2, <2>3
<1>2. ASSUME FetchVector PROVE FALSE
  BY <1>2 DEF FetchVector, Accept
<1>3. ASSUME FetchTrap \/ Tick \/ FetchNext \/ DebugStep \/ Stop \/ UNCHANGED ResumeVars
      PROVE  FALSE
  BY <1>3 DEF FetchTrap, Tick, FetchNext, DebugStep, Stop, deviceVars, ResumeVars, emuVars,
              piVars, piState
<1> QED
  BY <1>1, <1>2, <1>3 DEF ResumeNext

\* The interrupt that ends gives the program back the PC and the flags it was
\* accepted with, whatever happened in its vector and handler.
THEOREM ReturnsAsInterrupted == ASSUME Disciplined PROVE ResumeSpec => InterruptIsTransparent
<1>1. EmuInv /\ ResumeInv /\ [ResumeNext]_ResumeVars
        => [(result' = "iJump" /\ held # {} /\ held' = {})
               => pc' = before.pc /\ flags' = before.flags]_ResumeVars
  BY ServiceEnds DEF EmuInv
<1> QED
  BY <1>1, ResumeInvariant, PTL DEF ResumeSpec, InterruptIsTransparent

=============================================================================
