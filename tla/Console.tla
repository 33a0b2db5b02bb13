------------------------------ MODULE Console ------------------------------
(***************************************************************************)
(* The console of the DTE20: src/dte20.cpp with the queue of               *)
(* tsqueue.hpp, and the places of km10.cpp and debugger.cpp that connect   *)
(* and disconnect it. Two threads share the terminal: while the machine    *)
(* runs, the console I/O thread reads it in raw mode and queues what it    *)
(* reads for the program; while the debugger prompts, the main thread      *)
(* reads it in its normal mode. A control-\ is the interrupt key.          *)
(*                                                                         *)
(* Characters written, and the commands that only print, are left out. A   *)
(* command line the debugger reads is not part of tty.                     *)
(***************************************************************************)
EXTENDS Naturals, Sequences, SequencesExt

CONSTANTS
    Char,        \* the codes that are typed, in 0 .. 255
    InterruptKey, \* 0x1C
    MaxPending   \* characters typed and not yet given to the program, in a run

ASSUME CharAssumption == Char \subseteq 0 .. 255 /\ InterruptKey \in Char /\ MaxPending \in Nat

VARIABLES
    tty,        \* what the terminal holds unread
    raw,        \* DTE20::isRaw, which is the terminal's mode
    io,         \* where the console I/O thread is
    sawBye,     \* its last poll found the pipe readable
    hand,       \* the character it has read
    q,          \* DTE20::ctyQ
    bye,        \* "bye" has been written to the pipe
    main,       \* where the main thread is
    connected,  \* DTE20::isConnected
    action,     \* what debug() is to return
    running,    \* KM10::running
    handler,    \* what a SIGINT does
    answer      \* DTEto10Arg after the last input command

ioState == <<io, sawBye, hand, bye>>
mainState == <<main, connected, action>>
machine == <<running, handler, answer>>
consoleVars == <<tty, raw, ioState, q, mainState, machine>>

ConsoleTypeOK ==
    /\ tty \in Seq(Char)
    /\ raw \in BOOLEAN
    /\ io \in {"none", "poll", "read", "signal", "enqueue", "locked", "check", "done"}
    /\ sawBye \in BOOLEAN
    /\ hand \in Char
    /\ q \in Seq(Char \ {InterruptKey})
    /\ bye \in BOOLEAN
    /\ main \in {"setRaw", "spawn", "loop", "exec", "dequeue", "bye", "join",
                 "setNormal", "debug", "gone", "killed"}
    /\ connected \in BOOLEAN
    /\ action \in {"run", "pcChanged", "quit", "restart"}
    /\ running \in BOOLEAN
    /\ handler \in {"default", "stale", "current"}
    /\ answer \in 0 .. 127

ConsoleInit ==
    /\ tty = <<>>
    /\ raw = FALSE
    /\ io = "none"
    /\ sawBye = FALSE
    /\ hand \in Char
    /\ q = <<>>
    /\ bye = FALSE
    /\ main = "setRaw"
    /\ connected = FALSE
    /\ action = "pcChanged"
    /\ running = FALSE
    /\ handler = "default"
    /\ answer = 0

Alive == main \notin {"gone", "killed"}

\* SIGINT before the first debug() has installed the handler ends the
\* process; after a restart the handler writes to the machine that is gone,
\* until debug() points it to the new one.
Interrupted ==
    /\ main' = IF handler = "default" THEN "killed" ELSE main
    /\ running' = (running /\ handler # "current")
    /\ UNCHANGED <<connected, action, handler, answer>>

-----------------------------------------------------------------------------
(* The user *)

Type(c) ==
    /\ Alive
    /\ raw \/ c # InterruptKey
    /\ Len(tty) + Len(q) < MaxPending
    /\ tty' = Append(tty, c)
    /\ UNCHANGED <<raw, ioState, q, mainState, machine>>

\* In its normal mode the terminal itself makes a SIGINT of control-C, and of
\* a control-\ a SIGQUIT, which nobody handles.
SignalKey ==
    /\ Alive
    /\ ~raw
    /\ \/ Interrupted
       \/ main' = "killed" /\ UNCHANGED <<connected, action, machine>>
    /\ UNCHANGED <<tty, raw, ioState, q>>

-----------------------------------------------------------------------------
(* consoleIOLoop *)

IOStep(from, to) == Alive /\ io = from /\ io' = to

PollTerminalFirst ==
    /\ tty # <<>> \/ bye
    /\ IOStep("poll", IF tty # <<>> THEN "read" ELSE "check")
    /\ sawBye' = (bye /\ tty = <<>>)
    /\ UNCHANGED <<tty, raw, hand, bye, q, mainState, machine>>

\* Both descriptors are looked at once; the pipe is acted on after the
\* terminal, by what this poll saw.
Poll ==
    /\ tty # <<>> \/ bye
    /\ IOStep("poll", IF tty # <<>> THEN "read" ELSE "check")
    /\ sawBye' = bye
    /\ UNCHANGED <<tty, raw, hand, bye, q, mainState, machine>>

Read ==
    /\ tty # <<>>
    /\ IOStep("read", IF Head(tty) = InterruptKey THEN "signal" ELSE "enqueue")
    /\ hand' = Head(tty)
    /\ tty' = Tail(tty)
    /\ UNCHANGED <<raw, sawBye, bye, q, mainState, machine>>

KillSIGINT ==
    /\ IOStep("signal", "check")
    /\ Interrupted
    /\ UNCHANGED <<tty, raw, sawBye, hand, bye, q>>

\* TSQueue::enqueue: the push is not atomic for a reader without the lock.
EnqueueLock ==
    /\ IOStep("enqueue", "locked")
    /\ UNCHANGED <<tty, raw, sawBye, hand, bye, q, mainState, machine>>

EnqueueInFront ==
    /\ IOStep("locked", "check")
    /\ q' = <<hand>> \o q
    /\ UNCHANGED <<tty, raw, sawBye, hand, bye, mainState, machine>>

EnqueuePush ==
    /\ IOStep("locked", "check")
    /\ q' = Append(q, hand)
    /\ UNCHANGED <<tty, raw, sawBye, hand, bye, mainState, machine>>

CheckPipe ==
    /\ IOStep("check", IF sawBye THEN "done" ELSE "poll")
    /\ UNCHANGED <<tty, raw, sawBye, hand, bye, q, mainState, machine>>

IOThread == Poll \/ Read \/ KillSIGINT \/ EnqueueLock \/ EnqueuePush \/ CheckPipe

-----------------------------------------------------------------------------
(* connect and disconnect, by the main thread *)

MainStep(from, to) == main = from /\ main' = to

\* TCSAFLUSH: what the terminal holds unread is discarded.
SetRaw ==
    /\ MainStep("setRaw", "spawn")
    /\ raw' = TRUE
    /\ tty' = <<>>
    /\ UNCHANGED <<ioState, q, connected, action, machine>>

\* A step or continue executes the instruction already fetched; quit and
\* restart return from emulate() and the destructor disconnects again.
Spawn ==
    /\ MainStep("spawn", CASE action = "run" -> "exec"
                           [] action = "pcChanged" -> "loop"
                           [] OTHER -> "bye")
    /\ io' = "poll"
    /\ sawBye' = FALSE
    /\ bye' = FALSE
    /\ connected' = TRUE
    /\ UNCHANGED <<tty, raw, hand, q, action, machine>>

SayByeWithoutJoin ==
    /\ connected
    /\ MainStep("bye", "setNormal")
    /\ bye' = TRUE
    /\ UNCHANGED <<tty, raw, io, sawBye, hand, q, connected, action, machine>>

SayBye ==
    /\ connected
    /\ MainStep("bye", "join")
    /\ bye' = TRUE
    /\ UNCHANGED <<tty, raw, io, sawBye, hand, q, connected, action, machine>>

Join ==
    /\ io = "done"
    /\ MainStep("join", "setNormal")
    /\ io' = "none"
    /\ UNCHANGED <<tty, raw, sawBye, hand, bye, q, connected, action, machine>>

EnterDebuggerAimsOnce ==
    /\ main' = "debug"
    /\ handler' = IF handler = "default" THEN "current" ELSE handler
    /\ UNCHANGED <<running, action>>

\* debug() aims the signal handler at this machine, every time it is entered.
EnterDebugger ==
    /\ main' = "debug"
    /\ handler' = "current"
    /\ UNCHANGED <<running, action>>

\* main() makes a new machine. The queue and the terminal's state are static
\* and stay.
Reboot ==
    /\ main' = "setRaw"
    /\ handler' = "stale"
    /\ running' = FALSE
    /\ action' = "pcChanged"

SetNormal ==
    /\ main = "setNormal"
    /\ connected' = FALSE
    /\ raw' = FALSE
    /\ tty' = <<>>
    /\ CASE action = "quit" -> main' = "gone" /\ UNCHANGED <<handler, running, action>>
         [] action = "restart" -> Reboot
         [] OTHER -> EnterDebugger
    /\ UNCHANGED <<ioState, q, answer>>

\* The debugger reads a command that ends it, and connects.
Command(a) ==
    /\ MainStep("debug", "setRaw")
    /\ action' = a
    /\ running' = (a = "run" \/ (a = "pcChanged" /\ running))
    /\ UNCHANGED <<tty, raw, ioState, q, connected, handler, answer>>

-----------------------------------------------------------------------------
(* The instruction loop *)

\* What debug() returned last is spent.
LoopPass ==
    /\ MainStep("loop", IF running THEN "exec" ELSE "bye")
    /\ action' = "pcChanged"
    /\ UNCHANGED <<tty, raw, ioState, q, connected, machine>>

IsEmptyUnsure == BOOLEAN

\* TSQueue::isEmpty takes no lock: of a push in progress it sees either side.
IsEmpty == IF io = "locked" /\ q = <<>> THEN BOOLEAN ELSE {q = <<>>}

CtyInput ==
    /\ \E empty \in IsEmpty :
        IF empty THEN MainStep("exec", "loop") /\ answer' = 0
                 ELSE MainStep("exec", "dequeue") /\ UNCHANGED answer
    /\ UNCHANGED <<tty, raw, ioState, q, connected, action, running, handler>>

\* The mutex excludes a push; an empty queue would be waited for.
Dequeue ==
    /\ io # "locked"
    /\ q # <<>>
    /\ MainStep("dequeue", "loop")
    /\ answer' = Head(q) % 128
    /\ q' = Tail(q)
    /\ UNCHANGED <<tty, raw, ioState, connected, action, running, handler>>

\* Any other instruction; a HALT, a diagnostic's notice of an error, a
\* breakpoint and the last of a count of steps stop the machine.
OtherInstruction ==
    /\ MainStep("exec", "loop")
    /\ running' \in {running, FALSE}
    /\ UNCHANGED <<tty, raw, ioState, q, connected, action, handler, answer>>

-----------------------------------------------------------------------------
MainThread ==
    \/ SetRaw \/ Spawn \/ SayBye \/ Join \/ SetNormal
    \/ LoopPass \/ CtyInput \/ Dequeue \/ OtherInstruction

User == (\E c \in Char : Type(c)) \/ SignalKey
            \/ \E a \in {"run", "pcChanged", "quit", "restart"} : Command(a)

Ended == ~Alive /\ UNCHANGED consoleVars

ConsoleNext == IOThread \/ MainThread \/ User \/ Ended

ConsoleSpec == ConsoleInit /\ [][ConsoleNext]_consoleVars

\* Two threads of the host, each of which runs when it can. Nothing is
\* assumed of the user.
ConsoleFairSpec ==
    ConsoleSpec /\ WF_consoleVars(IOThread) /\ WF_consoleVars(MainThread)

-----------------------------------------------------------------------------
(* Properties *)

\* One thread reads the terminal at a time: the debugger prompts only when
\* the I/O thread has been joined and the terminal is back in its normal
\* mode, a thread is started only over one that was joined, and the read that
\* follows a poll finds what the poll saw.
OneReader ==
    /\ main = "debug" => io = "none" /\ ~raw
    /\ main = "spawn" => io = "none" /\ raw
    /\ io = "read" => tty # <<>>

\* The unlocked test before the locked dequeue never lets the main thread
\* into a wait for a character: it is the only consumer.
DequeueNeverWaits == (main = "dequeue" /\ io # "locked") => q # <<>>

\* The console implements the stream of keys: through both threads, the
\* unlocked test, every stop of the machine and every restart, what has been
\* read is given in order, once, and only a mode change loses a character.
Keys == INSTANCE KeyStream
           WITH unread <- tty,
                ours <- q \o (IF io \in {"enqueue", "locked"} THEN <<hand>> ELSE <<>>)
KeysSpec == Keys!Spec

\* disconnect() comes back, however much is being typed: the I/O thread finds
\* the message among the keys.
JoinReturns == main = "join" ~> main # "join"

\* The interrupt key, typed while the machine runs, gets the user to the
\* debugger, after restarts as well; or the process ends.
InterruptKeyWorks == (raw /\ Contains(tty, InterruptKey)) ~> (main = "debug" \/ ~Alive)

=============================================================================
