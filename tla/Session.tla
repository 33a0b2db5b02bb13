------------------------------- MODULE Session -------------------------------
(***************************************************************************)
(* A session with the debugger (Debugger::debug, src/debugger.cpp): the    *)
(* commands that step, continue, move the PC and keep breakpoints, and     *)
(* the passes of the instruction loop (src/km10.cpp) that obey them. The   *)
(* history of PCs is that of module PcRing. There are no interrupts and no *)
(* traps here, so pc and fetchPC agree whenever the debugger prompts.      *)
(*                                                                         *)
(* A behaviour is one machine. The breakpoints are kept in main, so a      *)
(* machine started again begins with those of the one before.              *)
(***************************************************************************)
EXTENDS PcRing, Integers

CONSTANTS
    Program,  \* Program[a]: the instruction at a, [op, get, put]
    Ops,      \* opcodes
    Lines,    \* the commands typed: [cmd, kind, n]
    InitBPs   \* the breakpoints left by an earlier machine

Addr == Word
Kinds == {"bp", "obp", "gbp", "pbp"}
Commands == {"step", "continue", "set", "remove", "clear", "pc", "show", "quit"}

\* The line an empty first line repeats.
Help == [cmd |-> "show", kind |-> "", n |-> 0]

ASSUME SessionAssumption ==
    /\ Addr \subseteq Nat
    /\ Program \in [Addr -> [op : Ops, get : SUBSET Addr, put : SUBSET Addr]]
    /\ Lines \subseteq [cmd : Commands, kind : Kinds \union {""}, n : Int]
    /\ \A l \in Lines : l.cmd = "pc" => l.n \in Addr
    /\ InitBPs \subseteq [Kinds -> SUBSET Int]

VARIABLES
    fetchPC,   \* KM10::fetchPC
    running,   \* KM10::running
    nSteps,    \* KM10::nSteps
    bps,       \* executeBPs, opBPs, addressGBPs and addressPBPs, by command
    prevLine,  \* Debugger::prevLine
    phase,     \* "pass", "prompt", "execute" or "ended"
    due        \* history: the user has been owed a prompt since the last one

machine == <<fetchPC, running, nSteps, bps, prevLine, phase, due>>
vars == <<machine, ringVars>>

----------------------------------------------------------------------------
\* A pass up to the debugger: the breakpoints on the address, on the word fetched
\* and on its opcode.

Breaks ==
    \/ fetchPC \in bps["bp"]
    \/ fetchPC \in bps["gbp"]
    \/ Program[fetchPC].op \in bps["obp"]

FetchPass ==
    /\ phase = "pass"
    /\ add(fetchPC)
    /\ running' = (running /\ ~Breaks)
    /\ due' = (due \/ Breaks)
    /\ phase' = IF running' THEN "execute" ELSE "prompt"
    /\ UNCHANGED <<fetchPC, nSteps, bps, prevLine>>

\* The count of steps, then the instruction and the memory it reads and writes.
Touches ==
    \/ Program[fetchPC].get \intersect bps["gbp"] # {}
    \/ Program[fetchPC].put \intersect bps["pbp"] # {}

lastStepLate == nSteps = 0

lastStepForgotten == FALSE

lastStep == nSteps = 1

ExecutePass ==
    /\ phase = "execute"
    /\ nSteps' = IF nSteps > 0 THEN nSteps - 1 ELSE nSteps
    /\ running' = (running /\ ~lastStep /\ ~Touches)
    /\ due' = (due \/ Touches)
    /\ fetchPC' \in Addr
    /\ phase' = "pass"
    /\ UNCHANGED <<bps, prevLine, ringVars>>

\* The handler of SIGINT.
Stop ==
    /\ running
    /\ running' = FALSE
    /\ due' = TRUE
    /\ UNCHANGED <<fetchPC, nSteps, bps, prevLine, phase, ringVars>>

----------------------------------------------------------------------------
\* Commands. What one leaves alone is said by the last argument.

Resume(n) ==
    /\ nSteps' = n
    /\ running' = TRUE
    /\ due' = FALSE
    /\ phase' = "execute"
    /\ UNCHANGED <<fetchPC, bps>>

\* A number with a sign is read as a large positive one, which is inserted: no
\* address or opcode is as large. The model writes it with its sign.
handleBPCommand(l) ==
    /\ bps' = [bps EXCEPT ![l.kind] =
                CASE l.cmd = "set" -> @ \union {l.n}
                  [] l.cmd = "remove" -> @ \union {-l.n}
                  [] l.cmd = "clear" -> {}]
    /\ UNCHANGED <<fetchPC, running, nSteps, phase, due>>

SetPCRuns(a) ==
    /\ fetchPC' = a
    /\ phase' = "pass"
    /\ running' = TRUE
    /\ UNCHANGED <<nSteps, bps, due>>

\* pc with an address; the loop then fetches again.
SetPC(a) ==
    /\ fetchPC' = a
    /\ phase' = "pass"
    /\ UNCHANGED <<running, nSteps, bps, due>>

\* pchist, ac, mem, stats, help and others that only display.
Show == UNCHANGED <<fetchPC, running, nSteps, bps, phase, due>>

\* quit and restart: the machine is left.
Quit ==
    /\ phase' = "ended"
    /\ running' = FALSE
    /\ UNCHANGED <<fetchPC, nSteps, bps, due>>

Obey(l) ==
    \/ l.cmd = "step" /\ Resume(l.n)
    \/ l.cmd = "continue" /\ Resume(0)
    \/ l.cmd \in {"set", "remove", "clear"} /\ handleBPCommand(l)
    \/ l.cmd = "pc" /\ SetPC(l.n)
    \/ l.cmd = "show" /\ Show
    \/ l.cmd = "quit" /\ Quit

\* An empty line repeats the one before.
Prompt ==
    /\ phase = "prompt"
    /\ \/ \E l \in Lines : Obey(l) /\ prevLine' = l
       \/ Obey(prevLine) /\ UNCHANGED prevLine
    /\ UNCHANGED ringVars

Init ==
    /\ RingInit
    /\ fetchPC \in Addr
    /\ running = FALSE
    /\ nSteps = 0
    /\ bps \in InitBPs
    /\ prevLine = Help
    /\ phase = "pass"
    /\ due = FALSE

Next == FetchPass \/ ExecutePass \/ Stop \/ Prompt

Spec == Init /\ [][Next]_vars /\ WF_vars(FetchPass \/ ExecutePass)

----------------------------------------------------------------------------
\* The state is of its type.
SessionTypeOK ==
    /\ RingTypeOK
    /\ fetchPC \in Addr
    /\ running \in BOOLEAN /\ due \in BOOLEAN
    /\ nSteps \in Int
    /\ bps \in [Kinds -> SUBSET Int]
    /\ prevLine \in Lines \union {Help}
    /\ phase \in {"pass", "prompt", "execute", "ended"}

\* What a line permits, by the code: a step with a number that is not above 0 runs as
\* continue does (km10.cpp:733-738).
Forever == -1

asked(l) ==
    CASE l.cmd = "step" /\ l.n > 0 -> l.n
      [] l.cmd = "step" /\ l.n <= 0 -> Forever
      [] l.cmd = "continue" -> Forever
      [] OTHER -> 0

permitted ==
    LET granted == IF nSteps <= 0 THEN Forever ELSE nSteps
    IN  CASE phase \in {"prompt", "ended"} \/ (phase = "pass" /\ ~running) -> 0
          [] phase = "execute" /\ ~running -> 1
          [] OTHER -> granted

Abstract == INSTANCE Permission
    WITH order <- asked(prevLine), permit <- permitted,
         prompting <- (phase \in {"prompt", "ended"})

\* debugger.cpp:462, km10.cpp:733-738: stepping and continuing implement the abstract
\* module Permission. Whatever breakpoints, keys and commands come between, step N
\* with N above 0, typed or repeated by an empty line, executes N instructions at most
\* before the next prompt; only continue, and step with another number, may execute
\* any number.
PermissionSpec == Abstract!Spec

\* debugger.cpp:439-447: after an interrupt key, an access to a watched address, or a
\* fetch of a watched instruction, the processor goes no further than the
\* instruction in hand before it prompts.
BreaksArePrompted ==
    [][(phase = "pass" /\ phase' = "execute") => ~due']_vars

\* debugger.cpp:460, 985-999: with a count up to the size of the history, or any while
\* it is not full, pchist shows an end part of the log, in the order of fetching; at
\* the prompt its last entry is the instruction the prompt shows, which is the one
\* executed next. With a greater count of a full history it shows every entry once,
\* but as two runs of which the newer may come first.
ExceedsHistory(n) == full /\ n > pcHistorySize

InTwoRuns(shown, log) ==
    \E k \in 0 .. Len(log) : shown = SubSeq(log, k + 1, Len(log)) \o SubSeq(log, 1, k)

PromptShowsNext ==
    \A n \in 1 .. MaxCount :
        IF ExceedsHistory(n)
        THEN InTwoRuns(mostRecent(n), mostRecent(pcHistorySize))
        ELSE /\ mostRecent(n) = LastOf(mostRecent(pcHistorySize), n)
             /\ phase \in {"prompt", "execute"} => LastOf(mostRecent(n), 1) = <<fetchPC>>

\* A machine that has been stopped, and a number of steps, always lead to a prompt,
\* whatever program of instructions that end it runs. A BLT or an indirection that
\* never ends (module Loops) is a pass that never ends, and no key interrupts it.
EndsInPrompt ==
    (~running \/ nSteps > 0) ~> (phase \in {"prompt", "ended"})
============================================================================
