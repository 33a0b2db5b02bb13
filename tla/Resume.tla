------------------------------- MODULE Resume -------------------------------
(***************************************************************************)
(* Module Emulator running a disciplined program, with history variables   *)
(* that say how the program would have run had nothing interrupted it. The *)
(* vectors hold calls, the handlers return through the links the calls     *)
(* left, and the debugger is used only to stop, step and continue.         *)
(***************************************************************************)
EXTENDS Emulator

CONSTANTS
    Main,         \* the addresses of the main program
    Remote,       \* the addresses of what it executes by XCT and LUUO
    LUUOHandler,  \* the addresses of the handlers
    TrapHandler,
    PIHandler,
    LUUOLink,     \* the words in which their calls leave the return address
    TrapLink,
    PILink,
    PILevel       \* the one level that is ever turned on

VARIABLES
    expected,  \* the address of the main program's next instruction
    before     \* PC and flags when the last interrupt was accepted

history == <<expected, before>>

NoInterrupt == [pc |-> 0, flags |-> {}]

ResumeInit ==
    /\ EmuInit
    /\ expected = 0
    /\ before = NoInterrupt

\* An instruction of the main program is complete when it, or what it
\* executes in its place, has been; a HALT is never complete.
Completes(i) == fetchPC \in Main \cup Remote /\ i.op \notin {"xct", "luuo", "halt"}

MovesThePC(i) ==
    \/ i.op \in {"jump", "jrstf", "jsa", "muuo"}
    \/ i.op \in {"call", "pushj"} /\ fetchPC # LUUOVec

ExecHistory(i) ==
    /\ expected' = IF ~Completes(i) THEN expected
                   ELSE IF MovesThePC(i) THEN pc'
                   ELSE Plus(expected, IF result' = "iSkip" THEN 2 ELSE 1)
    /\ before' = IF i.op = "jen" THEN NoInterrupt ELSE before

ResumeNext ==
    \/ ~hung /\ \E i \in Code[fetchPC] : Execute(i) /\ ExecHistory(i)
    \/ ~hung /\ FetchVector /\ before' = [pc |-> pc, flags |-> flags] /\ UNCHANGED expected
    \/ ~hung /\ (FetchTrap \/ Tick \/ FetchNext) /\ UNCHANGED history
    \/ (DebugStep \/ Stop) /\ UNCHANGED history

ResumeVars == <<emuVars, history>>

ResumeSpec == ResumeInit /\ [][ResumeNext]_ResumeVars

ResumeFairSpec == ResumeSpec /\ WF_ResumeVars(CPUStep /\ ResumeNext)

-----------------------------------------------------------------------------
(* The discipline of the program *)

TrapVectors == {Trap1Vec, Trap2Vec}
PIVector == VectorBase + 2 * PILevel
PIVectors == {PIVector, Plus(PIVector, 1)}
HandlerLinks == {LUUOLink, TrapLink, PILink}

Places == <<Main, Remote, LUUOHandler, TrapHandler, PIHandler, TrapVectors, PIVectors>>

MaySkip(i) == i.op \in {"skip", "xct"} \/ (i.op = "cca" /\ i.result = "iSkip")

Calls(i, handler, link) == i.op = "call" /\ i.to \in handler /\ i.link = link

\* A PUSHJ leaves a PC to return to if there is room for it, but never the trap
\* flags, and so an interrupt, which must give them back, is entered by a call.
Enters(i, handler, link) ==
    \/ Calls(i, handler, link)
    \/ i.op = "pushj" /\ ~i.full /\ i.to \in handler /\ i.link = link

\* The main program, which may be a monitor and its users, goes where it likes
\* and calls what it likes, but leaves the handlers and their links alone.
MainCode(i) ==
    /\ i.op # "jen"
    /\ i.op \in {"jump", "call", "pushj", "jsa"} => i.to \in Main
    /\ i.op \in {"call", "pushj", "jsa", "jrstf"} => i.link \notin HandlerLinks
    /\ i.op = "xct" => i.to \in Remote \ {LUUOVec}
    /\ i.op = "muuo" => MUUOPC \in Main /\ MUUOLink \notin HandlerLinks

MainIsDisciplined ==
    /\ 0 \in Main
    /\ \A w \in LinkWords \ HandlerLinks : InitLinks[w].pc \in Main
    /\ \A a \in Main : \A i \in Code[a] :
        /\ MainCode(i)
        /\ i.op \notin {"jump", "jrstf", "halt"} => Plus(a, 1) \in Main
        /\ MaySkip(i) => Plus(a, 2) \in Main
    /\ LUUOVec \in Remote
    /\ \A a \in Remote \ {LUUOVec} : \A i \in Code[a] : MainCode(i)

\* A handler stays within itself until it returns through its own link, and
\* makes no calls.
HandlerCode(handler, ops, link) ==
    \A a \in handler : \A i \in Code[a] :
        /\ i.op \in {"normal", "skip", "jump", "halt", "conoPI", "conoAPR", "conoPAG", "cca"} \cup ops
        /\ i.op = "jump" => i.to \in handler
        /\ i.op \notin {"jump", "halt", "jrstf", "jen"} => Plus(a, 1) \in handler
        /\ MaySkip(i) => Plus(a, 2) \in handler
        /\ i.op \in {"jrstf", "jen"} => i.link = link

\* Within a vector or its handler nothing but JEN ends the service.
KeepsService(i) ==
    /\ i.op = "conoPI" => "clearPI" \notin i.word.bits
    /\ i.op = "conoAPR" => "clearIO" \notin i.word.bits

\* What may precede the call in a vector.
InVector(i) ==
    /\ i.op \in {"normal", "conoAPR", "cca"}
    /\ i.op = "cca" => i.result = "iNormal"
    /\ KeepsService(i)

HandlersAreDisciplined ==
    /\ \A i \in Code[LUUOVec] : Enters(i, LUUOHandler, LUUOLink)
    /\ \A v \in TrapVectors : \A i \in Code[v] : Enters(i, TrapHandler, TrapLink)
    /\ \A i \in Code[PIVector] : Calls(i, PIHandler, PILink) \/ InVector(i)
    /\ \A i \in Code[Plus(PIVector, 1)] : Calls(i, PIHandler, PILink)
    /\ HandlerCode(LUUOHandler, {"trap", "setTrap", "jrstf"}, LUUOLink)
    /\ HandlerCode(TrapHandler, {"jrstf"}, TrapLink)
    /\ HandlerCode(PIHandler, {"jen"}, PILink)
    /\ \A a \in PIHandler : \A i \in Code[a] :
        KeepsService(i) /\ (i.op = "jen" => ~i.indirect)

\* Only one level is used: a handler nested in another would, when dismissed,
\* release the other as well.
OneLevel == PILevel \in Level /\ \A f \in ConoPI : LevelsIf(f, "levelsTurnOn") \subseteq {PILevel}

Disciplined ==
    /\ \A m \in DOMAIN Places : Places[m] \subseteq Addr
    /\ \A m, n \in DOMAIN Places : m # n => Places[m] \cap Places[n] = {}
    /\ HandlerLinks \subseteq LinkWords
    /\ LUUOLink # TrapLink /\ LUUOLink # PILink /\ TrapLink # PILink
    /\ MainIsDisciplined
    /\ HandlersAreDisciplined
    /\ OneLevel

-----------------------------------------------------------------------------
(* Properties *)

\* Interrupts, traps, sweeps, XCT chains and LUUOs, in any order, neither
\* lose, repeat nor reorder an instruction of the main program: whenever one
\* is about to be executed it is the one that comes next.
NoInstructionLost ==
    (phase = "exec" /\ fetchPC \in Main) => fetchPC = expected

\* km10.hpp:26-27: "When handling an interrupt, PC points to the instruction
\* that didn't execute". If the interrupt vector saved them by a JSR or a JSP, JEN
\* gives the interrupted program back the PC and the flags, trap flags and user
\* mode among them, that it was interrupted with.
InterruptIsTransparent ==
    [][(result' = "iJump" /\ held # {} /\ held' = {})
            => pc' = before.pc /\ flags' = before.flags]_ResumeVars

=============================================================================
