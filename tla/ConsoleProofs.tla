---------------------------- MODULE ConsoleProofs ----------------------------
(***************************************************************************)
(* Proofs about module Console, for any set of characters and any number   *)
(* of them typed ahead.                                                    *)
(***************************************************************************)
EXTENDS Console, SequenceTheorems, TLAPS

\* The inductive invariant: the terminal is raw from connect to disconnect, and while
\* it is not, or is being changed, there is no I/O thread.
Connecting == {"setRaw", "spawn", "setNormal", "debug"}
Raw == {"spawn", "loop", "exec", "dequeue", "bye", "join", "setNormal"}

ConsoleInv ==
    /\ ConsoleTypeOK
    /\ main \in Connecting => io = "none"
    /\ main \in Raw => raw
    /\ main \in {"setRaw", "debug"} => ~raw
    /\ io = "read" => tty # <<>>
    /\ io \in {"enqueue", "locked"} => hand # InterruptKey
    /\ DequeueNeverWaits

USE DEF ConsoleInv, ConsoleTypeOK, Connecting, Raw, DequeueNeverWaits,
        ioState, mainState, machine, Alive

\* The user may type at any time, and signal in the normal mode.
LEMMA UserKeeps == ASSUME ConsoleInv, User PROVE ConsoleInv'
<1>1. CASE \E c \in Char : Type(c)
  <2>1. PICK c \in Char : Type(c)
    BY <1>1
  <2>2. tty' \in Seq(Char) /\ tty' # <<>>
    BY <2>1, AppendProperties, EmptySeq DEF Type
  <2> QED
    BY <2>1, <2>2 DEF Type
<1>2. CASE SignalKey
  <2>1. /\ UNCHANGED <<tty, raw, io, sawBye, hand, bye, q, connected, action, handler, answer>>
        /\ main' \in {main, "killed"}
    BY <1>2 DEF SignalKey, Interrupted
  <2>2. running' \in BOOLEAN
    BY <1>2 DEF SignalKey, Interrupted
  <2> QED
    BY <2>1, <2>2
<1>3. CASE \E a \in {"run", "pcChanged", "quit", "restart"} : Command(a)
  BY <1>3 DEF Command, MainStep
<1> QED
  BY <1>1, <1>2, <1>3 DEF User

\* The I/O thread reads only what its poll saw, and its push ends what an unlocked test
\* may have seen of it.
LEMMA IOThreadKeeps == ASSUME ConsoleInv, IOThread PROVE ConsoleInv'
<1>1. CASE Poll
  BY <1>1 DEF Poll, IOStep
<1>2. CASE Read
  <2>1. tty' \in Seq(Char) /\ hand' \in Char
    BY <1>2, HeadTailProperties DEF Read, IOStep
  <2> QED
    BY <1>2, <2>1 DEF Read, IOStep
<1>3. CASE KillSIGINT
  BY <1>3 DEF KillSIGINT, Interrupted, IOStep
<1>4. CASE EnqueueLock
  BY <1>4 DEF EnqueueLock, IOStep
<1>5. CASE EnqueuePush
  <2>1. q' \in Seq(Char \ {InterruptKey}) /\ q' # <<>>
    BY <1>5, AppendProperties, EmptySeq DEF EnqueuePush, IOStep
  <2> QED
    BY <1>5, <2>1 DEF EnqueuePush, IOStep
<1>6. CASE CheckPipe
  BY <1>6 DEF CheckPipe, IOStep
<1> QED
  BY <1>1, <1>2, <1>3, <1>4, <1>5, <1>6 DEF IOThread

\* The main thread joins the I/O thread before it changes the terminal's mode.
LEMMA MainThreadKeeps == ASSUME ConsoleInv, MainThread PROVE ConsoleInv'
<1>1. CASE SetRaw
  BY <1>1, EmptySeq DEF SetRaw, MainStep
<1>2. CASE Spawn
  BY <1>2 DEF Spawn, MainStep
<1>3. CASE SayBye
  BY <1>3 DEF SayBye, MainStep
<1>4. CASE Join
  BY <1>4 DEF Join, MainStep
<1>5. CASE SetNormal
  BY <1>5, EmptySeq DEF SetNormal, Reboot, EnterDebugger
<1>6. CASE LoopPass
  BY <1>6 DEF LoopPass, MainStep
<1>7. CASE CtyInput
  <2>1. /\ UNCHANGED <<tty, raw, io, sawBye, hand, bye, q, connected, action, running, handler>>
        /\ main = "exec" /\ main' \in {"loop", "dequeue"}
        /\ answer' \in {0, answer}
    BY <1>7 DEF CtyInput, MainStep
  <2>2. (main' = "dequeue" /\ io' # "locked") => q' # <<>>
    BY <1>7 DEF CtyInput, MainStep, IsEmpty
  <2> QED
    BY <2>1, <2>2
<1>8. CASE Dequeue
  <2>1. PICK h \in Char : answer' = h % 128 /\ q' \in Seq(Char \ {InterruptKey})
    <3> DEFINE Key == Char \ {InterruptKey}
    <3>1. q \in Seq(Key) /\ q # <<>>
      BY <1>8 DEF Dequeue
    <3>2. Head(q) \in Key /\ Tail(q) \in Seq(Key)
      <4> HIDE DEF Key
      <4> QED
        BY <3>1, HeadTailProperties
    <3> QED
      BY <1>8, <3>2 DEF Dequeue
  <2>2. answer' \in 0 .. 127
    <3>1. h \in 0 .. 255
      BY CharAssumption
    <3> QED
      BY <2>1, <3>1
  <2> QED
    BY <1>8, <2>1, <2>2 DEF Dequeue, MainStep
<1>9. CASE OtherInstruction
  <2>1. running' \in BOOLEAN
    BY <1>9 DEF OtherInstruction
  <2> QED
    BY <1>9, <2>1 DEF OtherInstruction, MainStep
<1> QED
  BY <1>1, <1>2, <1>3, <1>4, <1>5, <1>6, <1>7, <1>8, <1>9 DEF MainThread

\* ConsoleInv holds in every state of the two threads.
THEOREM ConsoleInvariant == ConsoleSpec => []ConsoleInv
<1>1. ConsoleInit => ConsoleInv
  <2> SUFFICES ASSUME ConsoleInit PROVE ConsoleInv
    OBVIOUS
  <2>1. tty \in Seq(Char) /\ q \in Seq(Char \ {InterruptKey})
    BY DEF ConsoleInit
  <2>2. raw = FALSE /\ sawBye = FALSE /\ bye = FALSE /\ connected = FALSE /\ running = FALSE
    BY DEF ConsoleInit
  <2>3. /\ raw \in BOOLEAN /\ sawBye \in BOOLEAN /\ bye \in BOOLEAN
        /\ connected \in BOOLEAN /\ running \in BOOLEAN
    BY <2>2
  <2>4. ConsoleTypeOK
    BY <2>1, <2>3 DEF ConsoleInit
  <2> QED
    BY <2>2, <2>4 DEF ConsoleInit
<1>2. ConsoleInv /\ [ConsoleNext]_consoleVars => ConsoleInv'
  <2>1. ConsoleInv /\ UNCHANGED consoleVars => ConsoleInv'
    BY DEF consoleVars
  <2> QED
    BY <2>1, UserKeeps, IOThreadKeeps, MainThreadKeeps DEF ConsoleNext, Ended
<1> QED
  BY <1>1, <1>2, PTL DEF ConsoleSpec

\* The state of the console is of its type.
THEOREM ConsoleTypes == ConsoleSpec => []ConsoleTypeOK
<1>1. ConsoleInv => ConsoleTypeOK
  OBVIOUS
<1> QED
  BY <1>1, ConsoleInvariant, PTL

\* dte20.cpp: the terminal has one reader at a time, and a read finds what the poll saw.
THEOREM TerminalHasOneReader == ConsoleSpec => []OneReader
<1>1. ConsoleInv => OneReader
  BY DEF OneReader
<1> QED
  BY <1>1, ConsoleInvariant, PTL

\* tsqueue.hpp: the unlocked test before the locked dequeue is good enough for the one
\* consumer there is.
THEOREM NoWaitForKeys == ConsoleSpec => []DequeueNeverWaits
<1>1. ConsoleInv => DequeueNeverWaits
  OBVIOUS
<1> QED
  BY <1>1, ConsoleInvariant, PTL

-----------------------------------------------------------------------------
(* The stream of keys *)

\* What the emulator has read and the program has not.
ours == q \o (IF io \in {"enqueue", "locked"} THEN <<hand>> ELSE <<>>)

\* A key in the I/O thread's hand is the last of them.
LEMMA OursTyped ==
    ASSUME ConsoleInv
    PROVE  /\ q \in Seq(Char) /\ hand \in Char
           /\ io \in {"enqueue", "locked"} => ours = Append(q, hand)
           /\ io \notin {"enqueue", "locked"} => ours = q
<1>1. q \in Seq(Char) /\ hand \in Char
  <2>1. Seq(Char \ {InterruptKey}) \subseteq Seq(Char)
    OBVIOUS
  <2> QED
    BY <2>1
<1> QED
  BY <1>1 DEF ours

\* What the main thread takes off the front does not depend on the hand.
LEMMA OursTaken ==
    ASSUME ConsoleInv, q # <<>>, UNCHANGED <<io, hand>>, q' = Tail(q)
    PROVE  ours # <<>> /\ Head(ours) = Head(q) /\ ours' = Tail(ours)
<1>1. q \in Seq(Char) /\ hand \in Char
  BY OursTyped
<1>2. CASE io \in {"enqueue", "locked"}
  BY <1>1, <1>2 DEF ours
<1>3. CASE io \notin {"enqueue", "locked"}
  BY <1>1, <1>3 DEF ours
<1> QED
  BY <1>2, <1>3

LEMMA UserTypes ==
    ASSUME ConsoleInv, User
    PROVE  Keys!Next \/ UNCHANGED <<tty, ours, answer, raw>>
<1>1. CASE \E c \in Char : Type(c)
  <2>1. PICK c \in Char : Type(c)
    BY <1>1
  <2>2. Keys!Type(c)
    BY <2>1 DEF Type, Keys!Type, ours
  <2> QED
    BY <2>2 DEF Keys!Next
<1>2. CASE SignalKey \/ \E a \in {"run", "pcChanged", "quit", "restart"} : Command(a)
  BY <1>2 DEF SignalKey, Interrupted, Command, MainStep, ours
<1> QED
  BY <1>1, <1>2 DEF User

LEMMA IOThreadReceives ==
    ASSUME ConsoleInv, IOThread
    PROVE  Keys!Next \/ UNCHANGED <<tty, ours, answer, raw>>
<1>1. CASE Read
  <2>1. /\ io = "read" /\ tty # <<>> /\ hand' = Head(tty) /\ tty' = Tail(tty)
        /\ io' = IF Head(tty) = InterruptKey THEN "signal" ELSE "enqueue"
        /\ UNCHANGED <<raw, q, answer>>
    BY <1>1 DEF Read, IOStep
  <2>2. ours = q /\ q \in Seq(Char) /\ Head(tty) \in Char
    BY <2>1, OursTyped
  <2>3. ours' = IF Head(tty) = InterruptKey THEN ours ELSE Append(ours, Head(tty))
    <3>1. CASE Head(tty) = InterruptKey
      BY <2>1, <2>2, <3>1 DEF ours
    <3>2. CASE Head(tty) # InterruptKey
      BY <2>1, <2>2, <3>2 DEF ours
    <3> QED
      BY <3>1, <3>2
  <2>4. Keys!Receive
    BY <2>1, <2>3 DEF Keys!Receive, ours
  <2> QED
    BY <2>4 DEF Keys!Next
<1>2. CASE EnqueuePush
  <2>1. /\ io = "locked" /\ io' = "check" /\ q' = Append(q, hand)
        /\ UNCHANGED <<tty, raw, answer>>
    BY <1>2 DEF EnqueuePush, IOStep
  <2>2. ours = Append(q, hand) /\ q \in Seq(Char) /\ hand \in Char
    BY <2>1, OursTyped
  <2>3. ours' = Append(q, hand)
    BY <2>1, <2>2 DEF ours
  <2> QED
    BY <2>1, <2>2, <2>3
<1>3. CASE Poll \/ KillSIGINT \/ EnqueueLock \/ CheckPipe
  BY <1>3 DEF Poll, KillSIGINT, Interrupted, EnqueueLock, CheckPipe, IOStep, ours
<1> QED
  BY <1>1, <1>2, <1>3 DEF IOThread

LEMMA MainThreadGives ==
    ASSUME ConsoleInv, MainThread
    PROVE  Keys!Next \/ UNCHANGED <<tty, ours, answer, raw>>
<1>1. CASE SetRaw \/ SetNormal
  <2>1. raw' = ~raw /\ tty' = <<>> /\ UNCHANGED <<q, io, hand, answer>>
    BY <1>1 DEF SetRaw, SetNormal, MainStep, Reboot, EnterDebugger
  <2>2. Keys!SwitchMode
    BY <2>1 DEF Keys!SwitchMode, ours
  <2> QED
    BY <2>2 DEF Keys!Next
<1>2. CASE Spawn \/ Join
  <2>1. /\ io \notin {"enqueue", "locked"} /\ io' \notin {"enqueue", "locked"}
        /\ UNCHANGED <<tty, raw, q, answer>>
    BY <1>2 DEF Spawn, Join, MainStep
  <2> QED
    BY <2>1 DEF ours
<1>3. CASE Dequeue
  <2>1. /\ q # <<>> /\ q' = Tail(q) /\ answer' = Head(q) % 128
        /\ UNCHANGED <<tty, raw, io, hand>>
    BY <1>3 DEF Dequeue
  <2>2. Keys!Give
    BY <2>1, OursTaken DEF Keys!Give, ours
  <2> QED
    BY <2>2 DEF Keys!Next
<1>4. CASE CtyInput
  <2>1. UNCHANGED <<tty, raw, q, io, hand>> /\ (answer' = 0 \/ answer' = answer)
    BY <1>4 DEF CtyInput
  <2> QED
    BY <2>1 DEF Keys!Next, Keys!GiveNone, ours
<1>5. CASE SayBye \/ LoopPass \/ OtherInstruction
  BY <1>5 DEF SayBye, LoopPass, OtherInstruction, MainStep, ours
<1> QED
  BY <1>1, <1>2, <1>3, <1>4, <1>5 DEF MainThread

\* dte20.cpp: through both threads, every stop of the machine and every restart, what has
\* been read is given in order, once, and only a change of mode loses a key.
THEOREM KeysInOrder == ConsoleSpec => KeysSpec
<1>1. ConsoleInit => Keys!Init
  BY DEF ConsoleInit, Keys!Init
<1>2. ConsoleInv /\ [ConsoleNext]_consoleVars
        => Keys!Next \/ UNCHANGED <<tty, ours, answer, raw>>
  <2>1. UNCHANGED consoleVars => UNCHANGED <<tty, ours, answer, raw>>
    BY DEF consoleVars, ours
  <2> QED
    BY <2>1, UserTypes, IOThreadReceives, MainThreadGives DEF ConsoleNext, Ended
<1> QED
  BY <1>1, <1>2, ConsoleInvariant, PTL DEF ConsoleSpec, KeysSpec, Keys!Spec, ours
============================================================================
