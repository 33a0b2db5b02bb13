------------------------------ MODULE Emulator ------------------------------
(***************************************************************************)
(* The instruction loop KM10::emulate (src/km10.cpp), composed with        *)
(* the priority interrupt system (module PI) and the APR and CCA devices   *)
(* (module Sweep), whose operations it performs.                           *)
(*                                                                         *)
(* One pass of the loop is a tick of the sweep timer, the choice of what   *)
(* to fetch (a trap vector, an interrupt vector, or the instruction at     *)
(* fetchPC), perhaps a stop in the debugger, and the execution of the      *)
(* instruction. An instruction is abstracted to what it does to the PC,    *)
(* the flags, the devices and the word in which a call leaves its return   *)
(* address (a link).                                                       *)
(***************************************************************************)
EXTENDS PI, Sweep

CONSTANTS
    AddrSpace,   \* number of addresses
    Code,        \* the instructions that may be found at each address
    LinkWords,   \* the words that hold return addresses
    VectorBase,  \* the vector of level l is at VectorBase + 2*l
    Trap1Vec,    \* the trap-1 instruction, 421 in the EPT
    Trap2Vec,    \* the stack overflow instruction, 422 in the EPT
    LUUOVec,     \* 041
    MUUOPC,      \* the PC in the UPT's word for the mode of the MUUO
    MUUOLink,    \* the word of the UPT in which a MUUO leaves its PC
    InitLinks,   \* what the program was loaded with in those words
    MaxSteps     \* the largest count given to the step command

Addr == 0 .. AddrSpace - 1
ProgFlag == {"usr", "pub", "tr1", "tr2"}
TrapFlag == {"tr1", "tr2"}
Link == [pc : Addr, flags : SUBSET ProgFlag]

Op == {"normal", "skip", "jump", "call", "pushj", "jsa", "jrstf", "jen", "xct", "halt",
       "trap", "setTrap", "muuo", "luuo", "conoPI", "conoAPR", "conoPAG", "cca"}

ASSUME CodeAssumption ==
    /\ \A a \in Addr : \A i \in Code[a] :
        /\ i.op \in Op
        /\ i.op = "conoPI" => i.word \in ConoPI
        /\ i.op = "conoAPR" => i.word \in ConoAPR
        /\ i.op \in {"jump", "call", "pushj", "jsa", "xct"} => i.to \in Addr
        /\ i.op \in {"call", "pushj", "jsa", "jrstf", "jen"} => i.link \in LinkWords
        /\ i.op = "pushj" => i.full \in BOOLEAN
        /\ i.op \in {"trap", "setTrap"} => i.flag \in TrapFlag
        /\ i.op = "conoPAG" => i.enable \in BOOLEAN
        /\ i.op = "cca" => i.result \in {"iNormal", "iSkip", "iNoSuchDevice"}
        /\ i.op \in {"jrstf", "jen"} => i.indirect \in BOOLEAN
    /\ MUUOLink \in LinkWords
    /\ InitLinks \in [LinkWords -> Link]

\* Every vector is a word of the address space.
ASSUME VectorsAssumption ==
    /\ AddrSpace \in Nat \ {0}
    /\ \A l \in Level : VectorBase + 2 * l \in Addr
    /\ {Trap1Vec, Trap2Vec, LUUOVec, MUUOPC} \subseteq Addr
    /\ MaxSteps \in Nat

VARIABLES
    phase,     \* where the loop is
    pc,        \* KM10::pc
    fetchPC,   \* KM10::fetchPC
    flags,     \* KM10::flags, those of ProgFlag that are set
    pager,     \* PAGDevice's enablePager
    links,     \* the words in which calls leave their return addresses
    running,   \* KM10::running
    nSteps,    \* KM10::nSteps
    result     \* the IResult of the instruction just executed

pcState == <<pc, fetchPC>>
modeState == <<flags, pager, links>>
runState == <<running, nSteps>>
emuVars == <<piVars, sweepState, phase, pcState, modeState, runState, result>>
deviceVars == <<lines, piState, sweepState, hung>>

IResult == {"none", "iNormal", "iSkip", "iJump", "iXCT", "iHALT", "iTrap", "iMUUO",
            "iLUUO", "iNoSuchDevice"}

LoopTypeOK ==
    /\ phase \in {"tick", "fetch", "debug", "exec", "exited"}
    /\ pc \in Addr
    /\ fetchPC \in Addr
    /\ flags \in SUBSET ProgFlag
    /\ pager \in BOOLEAN
    /\ links \in [LinkWords -> Link]
    /\ running \in BOOLEAN
    /\ nSteps \in Nat
    /\ result \in IResult

EmuInit ==
    /\ PIInit
    /\ SweepStateInit
    /\ phase = "tick"
    /\ pc = 0
    /\ fetchPC = 0
    /\ flags = {}
    /\ pager = FALSE
    /\ links = InitLinks
    /\ running = FALSE  \* main enters the debugger first
    /\ nSteps = 0
    /\ result = "none"

Plus(a, n) == (a + n) % AddrSpace

-----------------------------------------------------------------------------
(* Up to the fetch *)

TickNeverReports ==
    /\ phase = "tick"
    /\ phase' = "fetch"
    /\ sweepCountDown' = IF sweepCountDown > 0 THEN sweepCountDown - 1 ELSE 0
    /\ result' = "none"
    /\ UNCHANGED <<lines, aprState, sweepBusy>>
    /\ UNCHANGED <<piState, inInterrupt, hung, pcState, modeState, runState>>

Tick ==
    /\ phase = "tick"
    /\ phase' = "fetch"
    /\ \/ HandleSweep
       \/ sweepCountDown = 0 /\ UNCHANGED <<lines, sweepState>>
    /\ result' = "none"
    /\ UNCHANGED <<piState, inInterrupt, hung, pcState, modeState, runState>>

TrapPending == pager /\ flags \cap TrapFlag # {}

AcceptPossible == \E l \in Level : IsHighest(l, Wanted) /\ l < currentLevel

\* The debugger is entered between the fetch and the execution.
Fetched ==
    /\ phase = "fetch"
    /\ phase' = IF running THEN "exec" ELSE "debug"
    /\ UNCHANGED <<pc, modeState, runState, result, sweepState>>

FetchTrap ==
    /\ TrapPending
    /\ Fetched
    /\ fetchPC' = IF "tr1" \in flags THEN Trap1Vec ELSE Trap2Vec
    /\ inInterrupt' = TRUE
    /\ UNCHANGED <<lines, piState, hung>>

FetchVector ==
    /\ ~TrapPending
    /\ Fetched
    /\ \E l \in Level : Accept(l) /\ fetchPC' = VectorBase + 2 * l

FetchNextRegardless ==
    /\ ~TrapPending
    /\ Fetched
    /\ UNCHANGED <<fetchPC, lines, piState, inInterrupt, hung>>

FetchNext ==
    /\ ~TrapPending
    /\ ~AcceptPossible
    /\ Fetched
    /\ UNCHANGED <<fetchPC, lines, piState, inInterrupt, hung>>

-----------------------------------------------------------------------------
(* Execution: the switch on IResult *)

Advance(n) == pc' = Plus(pc, n) /\ fetchPC' = Plus(pc, n)

NormalAdvancesPC ==
    /\ UNCHANGED inInterrupt
    /\ IF inInterrupt THEN pc' = Plus(pc, 1) /\ fetchPC' = Plus(fetchPC, 1)
                      ELSE Advance(1)

\* In a vector the next word of the vector comes next and the PC stays with
\* the interrupted program.
Normal ==
    /\ UNCHANGED inInterrupt
    /\ IF inInterrupt THEN UNCHANGED pc /\ fetchPC' = Plus(fetchPC, 1)
                      ELSE Advance(1)

SkipWithinVector ==
    /\ inInterrupt' = FALSE
    /\ IF inInterrupt THEN pc' = Plus(pc, 1) /\ fetchPC' = Plus(fetchPC, 1) ELSE Advance(2)

\* A skip ends a vector; the PC then moves by one, not two.
Skip ==
    /\ inInterrupt' = FALSE
    /\ Advance(IF inInterrupt THEN 1 ELSE 2)

JumpTo(a) ==
    /\ pc' = a
    /\ fetchPC' = a
    /\ inInterrupt' = FALSE

Finish(res) ==
    \/ res = "iNormal" /\ Normal
    \/ res = "iSkip" /\ Skip
    \/ res \in {"iTrap", "iNoSuchDevice"} /\ Advance(1) /\ UNCHANGED inInterrupt

\* The step count is taken before the instruction is executed; the last step
\* stops the machine.
Step ==
    /\ nSteps' = IF nSteps > 0 THEN nSteps - 1 ELSE 0
    /\ running' = (running /\ nSteps # 1)

Executing(i, op, res) ==
    /\ phase = "exec"
    /\ ~hung
    /\ i \in Code[fetchPC]
    /\ i.op = op
    /\ phase' = "tick"
    /\ result' = res

-----------------------------------------------------------------------------
(* Instructions that return, jump, skip and call *)

ExecNormal(i) ==
    /\ Executing(i, "normal", "iNormal")
    /\ Step
    /\ Normal
    /\ UNCHANGED <<deviceVars, modeState>>

ExecSkip(i) ==
    /\ Executing(i, "skip", "iSkip")
    /\ Step
    /\ Skip
    /\ UNCHANGED <<deviceVars, modeState>>

ExecJump(i) ==
    /\ Executing(i, "jump", "iJump")
    /\ Step
    /\ JumpTo(i.to)
    /\ UNCHANGED <<deviceVars, modeState>>

ReturnPCAlwaysNext == Plus(pc, 1)

\* In a vector the PC is that of the instruction that did not execute.
ReturnPC == Plus(pc, IF inInterrupt THEN 0 ELSE 1)

CallKeepsTrapFlags(i) ==
    /\ Executing(i, "call", "iJump")
    /\ Step
    /\ links' = [links EXCEPT ![i.link] = [pc |-> ReturnPC, flags |-> flags]]
    /\ flags' = flags \ (IF inInterrupt THEN {"usr", "pub"} ELSE {})
    /\ JumpTo(i.to)
    /\ UNCHANGED <<deviceVars, pager>>

\* JSR leaves its link at the word before its target, JSP in an AC. Both save
\* the flags, the trap flags among them, and then clear those.
ExecCall(i) ==
    /\ Executing(i, "call", "iJump")
    /\ Step
    /\ links' = [links EXCEPT ![i.link] = [pc |-> ReturnPC, flags |-> flags]]
    /\ flags' = flags \ (TrapFlag \cup IF inInterrupt THEN {"usr", "pub"} ELSE {})
    /\ JumpTo(i.to)
    /\ UNCHANGED <<deviceVars, pager>>

\* PUSHJ clears the trap flags before it makes its link. On a full stack it
\* writes none and traps.
ExecPUSHJ(i) ==
    /\ Executing(i, "pushj", "iJump")
    /\ Step
    /\ links' = IF i.full THEN links
                ELSE [links EXCEPT ![i.link] = [pc |-> ReturnPC, flags |-> flags \ TrapFlag]]
    /\ flags' = (flags \ (TrapFlag \cup IF inInterrupt THEN {"usr", "pub"} ELSE {}))
                   \cup IF i.full THEN {"tr2"} ELSE {}
    /\ JumpTo(i.to)
    /\ UNCHANGED <<deviceVars, pager>>

\* JSA saves no flags and leaves the trap flags and public mode as they are.
ExecJSA(i) ==
    /\ Executing(i, "jsa", "iJump")
    /\ Step
    /\ links' = [links EXCEPT ![i.link] = [pc |-> ReturnPC, flags |-> {}]]
    /\ flags' = flags \ (IF inInterrupt THEN {"usr"} ELSE {})
    /\ JumpTo(i.to)
    /\ UNCHANGED <<deviceVars, pager>>

RestoreFlagsUnguarded(new) == flags' = new

\* restoreFlags: user mode and public mode are not left this way.
RestoreFlags(new) == flags' = new \cup (flags \cap {"usr", "pub"})

\* The flags come from the left half of the effective address, which is that
\* of the link only if the link was reached by indexing: indirection carries
\* over the eighteen bits of the address alone.
LinkFlags(i) == IF i.indirect THEN {} ELSE links[i.link].flags

ReturnThrough(i) ==
    /\ JumpTo(links[i.link].pc)
    /\ RestoreFlags(LinkFlags(i))

ExecJRSTF(i) ==
    /\ Executing(i, "jrstf", "iJump")
    /\ Step
    /\ ReturnThrough(i)
    /\ UNCHANGED <<deviceVars, pager, links>>

ExecJEN(i) ==
    /\ Executing(i, "jen", "iJump")
    /\ Step
    /\ Dismiss
    /\ ReturnThrough(i)
    /\ UNCHANGED <<sweepState, pager, links>>

\* The PC stays at the first XCT of a chain. A trap or an interrupt is taken
\* between an XCT and its target like anywhere else.
ExecXCT(i) ==
    /\ Executing(i, "xct", "iXCT")
    /\ Step
    /\ fetchPC' = i.to
    /\ UNCHANGED <<deviceVars, modeState, inInterrupt, pc>>

ExecHALT(i) ==
    /\ Executing(i, "halt", "iHALT")
    /\ nSteps' = IF nSteps > 0 THEN nSteps - 1 ELSE 0
    /\ running' = FALSE
    /\ Advance(0)
    /\ UNCHANGED <<deviceVars, modeState, inInterrupt>>

-----------------------------------------------------------------------------
(* Traps and unimplemented user operations *)

\* Stack adjustment and arithmetic overflow in user mode return iTrap; the
\* other instructions that set a trap flag return iNormal.
ExecTrap(i) ==
    \/ /\ Executing(i, "trap", "iTrap")
       /\ Step
       /\ flags' = flags \cup {i.flag}
       /\ Finish("iTrap")
       /\ UNCHANGED <<deviceVars, pager, links>>
    \/ /\ Executing(i, "setTrap", "iNormal")
       /\ Step
       /\ flags' = flags \cup {i.flag}
       /\ Finish("iNormal")
       /\ UNCHANGED <<deviceVars, pager, links>>

\* The MUUO's own return address goes to the user process table; the machine
\* enters kernel mode at the new PC.
ExecMUUO(i) ==
    /\ Executing(i, "muuo", "iMUUO")
    /\ Step
    /\ links' = [links EXCEPT ![MUUOLink] = [pc |-> Plus(pc, 1), flags |-> flags]]
    /\ flags' = {}
    /\ pc' = MUUOPC
    /\ fetchPC' = MUUOPC
    /\ UNCHANGED <<deviceVars, pager, inInterrupt>>

\* In section 0 the instruction at 41 is executed with the PC still at the
\* LUUO.
ExecLUUO(i) ==
    /\ Executing(i, "luuo", "iLUUO")
    /\ Step
    /\ fetchPC' = LUUOVec
    /\ UNCHANGED <<deviceVars, modeState, inInterrupt, pc>>

-----------------------------------------------------------------------------
(* I/O instructions *)

\* Device::doCONO answers iNoSuchDevice for every device that does not
\* override it. A request for no level at all never comes back.
ExecConoPI(i) ==
    /\ Executing(i, "conoPI", "iNoSuchDevice")
    /\ Step
    /\ PutConditions(i.word)
    /\ IF hung' THEN UNCHANGED pcState ELSE Advance(1)
    /\ UNCHANGED <<sweepState, modeState>>

ExecConoAPR(i) ==
    /\ Executing(i, "conoAPR", "iNormal")
    /\ Step
    /\ SetByAPR(i.word)
    /\ Finish("iNormal")
    /\ UNCHANGED <<piState, hung, modeState>>

ResetIOForgetsPI(i) ==
    /\ Executing(i, "conoAPR", "iNormal")
    /\ Step
    /\ ResetByAPR(i.word)
    /\ pager' = FALSE
    /\ Finish("iNormal")
    /\ UNCHANGED <<piState, hung, flags, links>>

\* The pager is one of the devices the reset clears.
ExecResetIO(i) ==
    /\ Executing(i, "conoAPR", "iNormal")
    /\ Step
    /\ ResetByAPR(i.word)
    /\ ClearServiceAndPR
    /\ pager' = FALSE
    /\ Finish("iNormal")
    /\ UNCHANGED <<hung, flags, links>>

ExecConoPAG(i) ==
    /\ Executing(i, "conoPAG", "iNoSuchDevice")
    /\ Step
    /\ pager' = i.enable
    /\ Finish("iNoSuchDevice")
    /\ UNCHANGED <<deviceVars, flags, links>>

\* Each of the seven CCA operations starts a sweep and then does what the
\* base device does, so it may answer in three ways.
ExecCCA(i) ==
    /\ Executing(i, "cca", i.result)
    /\ Step
    /\ StartSweep
    /\ Finish(i.result)
    /\ UNCHANGED <<piState, hung, modeState>>

Execute(i) ==
    \/ ExecNormal(i) \/ ExecSkip(i) \/ ExecJump(i) \/ ExecCall(i) \/ ExecPUSHJ(i) \/ ExecJSA(i)
    \/ ExecJRSTF(i) \/ ExecJEN(i) \/ ExecXCT(i) \/ ExecHALT(i)
    \/ ExecTrap(i) \/ ExecMUUO(i) \/ ExecLUUO(i)
    \/ ExecConoPI(i) \/ ExecConoAPR(i) \/ ExecResetIO(i) \/ ExecConoPAG(i) \/ ExecCCA(i)

-----------------------------------------------------------------------------
(* The debugger's answers, and the interrupt key *)

DebugStep ==
    /\ phase = "debug"
    /\ phase' = "exec"
    /\ nSteps' \in 0 .. MaxSteps
    /\ running' = TRUE
    /\ UNCHANGED <<deviceVars, inInterrupt, pcState, modeState, result>>

\* pcChanged: the loop starts another pass at pc, and whatever had been
\* fetched is forgotten.
RestartFetch ==
    /\ phase = "debug"
    /\ phase' = "tick"
    /\ fetchPC' = pc'
    /\ UNCHANGED <<deviceVars, inInterrupt, modeState, runState, result>>

DebugSetPC == pc' \in Addr /\ RestartFetch

\* The pc and switch commands answer pcChanged when they only display.
DebugDisplay == UNCHANGED pc /\ RestartFetch

DebugExit ==
    /\ phase = "debug"
    /\ phase' = "exited"
    /\ running' = FALSE
    /\ UNCHANGED <<deviceVars, inInterrupt, pcState, modeState, nSteps, result>>

\* SIGINT, or a breakpoint, clears running at any point of the loop.
Stop ==
    /\ phase \in {"tick", "fetch", "exec"}
    /\ running
    /\ running' = FALSE
    /\ UNCHANGED <<deviceVars, inInterrupt, phase, pcState, modeState, nSteps, result>>

-----------------------------------------------------------------------------
CPUStep ==
    /\ ~hung
    /\ Tick \/ FetchTrap \/ FetchVector \/ FetchNext \/ \E i \in Code[fetchPC] : Execute(i)

Debug == DebugStep \/ DebugSetPC \/ DebugDisplay \/ DebugExit

\* The emulator is left by quit or restart, or hangs in a CONO PI,.
Ended ==
    /\ phase = "exited" \/ hung
    /\ UNCHANGED emuVars

EmuNext == CPUStep \/ Debug \/ Stop \/ Ended

EmuSpec == EmuInit /\ [][EmuNext]_emuVars

\* The loop is a thread of its own and runs whenever it can.
EmuFairSpec == EmuSpec /\ WF_emuVars(CPUStep)

-----------------------------------------------------------------------------
(* Properties *)

\* Outside a vector, and unless an XCT or a LUUO has sent the fetch elsewhere
\* for one instruction, the loop fetches where the PC points. It is kept by
\* every path through the switch, among them those that leave a vector.
PCTracksFetch ==
    (/\ phase = "tick" /\ ~hung
     /\ ~inInterrupt
     /\ result \notin {"iXCT", "iLUUO"}) => pc = fetchPC

\* User mode is left only by a MUUO or by a call from a vector: no flags a
\* program restores and no call of its own takes it out.
UserModeIsKept ==
    [][("usr" \in flags /\ "usr" \notin flags') =>
        (result' = "iMUUO" \/ (inInterrupt /\ ~inInterrupt'))]_emuVars

\* A trap taken from vectors that hold a call (a PUSHJ on a stack with room) is
\* taken once: the flag that caused it is gone before the machine fetches on.
TrapIsCleared ==
    TrapPending ~> (~TrapPending \/ ~running)

\* A wanted level is entered by the running machine, whatever traps, sweeps
\* and vectors occupy it, or stops being wanted.
WantedIsEntered ==
    \A l \in Level :
        (l \in Wanted) ~> (currentLevel <= l \/ l \notin Wanted \/ ~running \/ hung)

=============================================================================
