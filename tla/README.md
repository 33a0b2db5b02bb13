# KM10 in TLA+

A verification development of the KM10, an emulator of the DEC KL10 processor
(`src/src/*.cpp`; file names below are relative to `src/src`). It models two kinds
of behaviour. Where correctness depends on the order of events: the priority
interrupt system, the arithmetic processor's conditions and the cache sweep, the
instruction loop that joins them with traps, calls and the debugger, the console's
two threads, the debugger's session and its history of PCs. Where it depends on
what instructions compute: the moves, arithmetic, tests, compares, shifts and
double words on words of a constant width, the stack instructions, indirection,
block transfer and counted loops. TLC checks every module on small instances; TLAPS
proves what matters most about them for every value of the constants.

## The system

The emulator is one C++ program with two threads. The main thread runs
`KM10::emulate()`, one instruction after another, and, when the machine stops,
the debugger, whose prompt it is. A console I/O thread lives from each
`DTE20::connect()` to the next `disconnect()`.

| Component | State | Operations | Meets |
|---|---|---|---|
| Devices (`device.*`) | assigned level, request pending | `requestInterrupt`, `clearIO`, `clearAll`, I/O dispatch | PI reads the lines; APR and PI request |
| PI (`pi.*`) | on, levels on, held, requested by program, current level | `setUpInterruptCycleIfPending`, `dismissInterrupt`, `putConditions`, `clearIO` | called by the loop at every fetch, by JEN, by CONO PI, and by `clearAll`; writes `KM10::inInterrupt` |
| APR (`apr.*`) | level, request, active and enabled conditions, sweep busy | `putConditions`, `startSweep`, `endSweep`, `clearIO` | called by CCA; its clear-I/O bit resets every device |
| CCA (`cca.*`) | sweep counter | seven operations that start a sweep, `handleSweep`, `clearIO` | ticked by the loop; reports to APR |
| PAG (`pag.*`) | enable bit, process context | CONO, DATAO | the loop takes traps only when enabled; selects AC blocks |
| Loop (`km10.cpp`) | `pc`, `fetchPC`, `inInterrupt`, flags, `running`, `nSteps` | fetch, effective address, debug, execute, the switch on `IResult` | everything |
| Instructions (`i-*.cpp`) | ACs, memory, flags | one method per operation, answering an `IResult` | the loop |
| DTE20 (`dte20.*`, `tsqueue.hpp`) | terminal mode, thread, pipe, queue | `connect`, `disconnect`, `consoleIOLoop`, `doCONO` | both threads; the SIGINT handler of the debugger |
| Debugger (`debugger.*`) | PC history, breakpoints, last line, symbols | commands; answers `step`, `run`, `pcChanged`, `quit`, `restart` | the loop, the console |
| Words (`word.*`) | none | fields, signs, halves, double words, conversions | instructions |
| Byte pointers (`bytepointer.*`) | none | fields, stepping | byte instructions |
| Timers, meters, logger | stored values | read and write | none |

What is hard here:

* interrupts, traps, XCT chains and LUUOs may meet between any two instructions,
  and what an instruction saves as its return address depends on a flag
  (`inInterrupt`) that several places set and reset;
* the level in service is recorded twice, and programmed requests share one line;
* the APR and the CCA write each other's state, and a reset visits them in the
  order of a map;
* two threads share a terminal that changes its mode under them, a queue that one
  reads without its lock, and a signal whose handler is installed late;
* breakpoints of four kinds, a count of steps, the interrupt key and commands that
  move the PC start and stop the same loop, and the prompt is for an instruction
  fetched before it;
* more than three hundred handlers are written out by hand and installed by number, and
  compute carries and overflows at the ends of the range in several ways;
* an AC is a memory word too: operands, results and pairs may overlap;
* two loops of the processor, indirection and block transfer, run within one
  instruction, where no interrupt key is looked at.

What makes each part correct: the interrupt system enters handlers in order of
urgency and releases what it entered; its records agree; a sweep ends and is
reported; an interrupted program resumes as if nothing had happened; a trap is
taken once; user mode is not left but by the doors provided; one thread reads the
terminal at a time, no key is lost but at a change of mode, and no thread waits
for ever; a step executes no more than it was asked to and a break is never executed past;
the history shows the most recent PCs in order; an instruction computes what the
digits of its opcode and integer arithmetic say, and writes no word it does not
name; a stack keeps within its limit; a transfer copies, and ends.

## Modules

| Module | Models | Correspondence |
|---|---|---|
| `Device` | `struct Device` | `intLevel`, `intPending` as functions of the device |
| `PI` | `pi.cpp`, `pi.hpp` | one variable per field of `PIState`, masks as sets of levels; `Accept` is `setUpInterruptCycleIfPending`, `Dismiss` `dismissInterrupt`, `PutConditions` the method of that name, `ResetIO` the PI's part of `clearAll` |
| `PriorityArbiter` | abstract: what arbitration promises | `wanted`, `inService` |
| `PINested` | `PI` with the handlers not yet returned as history | `Enter` and `Return` |
| `Sweep` | `apr.cpp`, `cca.cpp` | one variable per field of `APRState` used, conditions as bit positions |
| `Emulator` | `emulate()`, with `PI` and `Sweep` | `phase` is the place in a pass of the loop; an instruction is one `Exec` action; `Code[a]` is the set of instructions that may be found at `a` |
| `Resume` | `Emulator` with history, running a disciplined program | the main program's next instruction, and its PC and flags when interrupted; `Disciplined` is what the program's handlers keep to |
| `Console` | `dte20.cpp`, `tsqueue.hpp`, the handler of SIGINT, `main()`'s restart | one place variable per thread; the queue as a sequence, its push in two steps because `isEmpty` reads it without the lock |
| `KeyStream` | abstract: keys in order, lost only by a change of mode | the interrupt key takes its turn and is not given to the program |
| `PcRing` | `Debugger::RingBuffer`, `pchist` | slots as a function, index modulo the size |
| `RecentLog` | abstract: the most recent additions | |
| `Session` | `debug()` and the loop it steps | `FetchPass` is a pass up to the debugger, `ExecutePass` the rest of it, `Prompt` one line read and obeyed; the four sets of breakpoints as a function of the command that keeps them |
| `Permission` | abstract: what stepping and continuing promise | what the last line asks for, and how many instructions may still be executed |
| `Words` | `W36`, `W72`, the arithmetic helpers of `i-intbin.cpp`, `i-move.cpp`, `i-aoxsox.cpp`, `i-dword.cpp`, the flags of `km10.cpp` | one operator per helper, answering value and flags turned on |
| `Logic` | Boolean functions, tests, half words, shifts | a word as the set of its bits where bits matter |
| `Instructions` | 308 opcodes of eight `Install` functions | the opcode sets are what each `Install...Group` installs; one `Do...` action per family of handlers, `acGet`, `memGet`, `acPut` and the other accessors by name |
| `InstructionLaws` | what the instructions owe the program | no handler is used: opcode digits and integer arithmetic only |
| `Stack` | PUSH, POP, PUSHJ, POPJ, ADJSP | one action each; the pointer in an AC, its halves counted apart |
| `BoundedStack` | abstract: a last-in first-out stack that traps when full | |
| `Loops` | `getEA`, BLT, AOBJP, AOBJN | one action per round of a loop, the interrupt key between any two |
| `DeviceProofs` (of `PI`, `Sweep`), `EmulatorProofs` (of `Emulator`, `Resume`), `ConsoleProofs`, `SessionProofs`, `StackProofs`, `LoopsProofs`, `InstructionProofs`, with the lemmas of `WordProofs` | theorems | |

`Emulator` extends `PI` and `Sweep` and performs their operations as parts of its
own steps; that it uses them as they expect is checked, and proved, by taking `PISpec`
and `SweepSpec` as properties of it. `Session` extends `PcRing` and adds to it at every
fetch. Abstract specifications implemented: `PriorityArbiter` by `PI`, `KeyStream`
by `Console`, `RecentLog` and `Permission` by `Session`, `BoundedStack` by `Stack`.

An operator whose name says what goes wrong (`AcceptFirstFound`,
`SayByeWithoutJoin`, `pushAtLimit`, ...) stands next to the definition it is a faulty
form of. It is used by no specification; replacing the definition by it must break
the property it is listed with in `PROJECT.json`.

### Abstractions

* A condition word is the set of its bits and the set or level it names. In `PI`
  devices that tie at a level are not told apart: they share the level's vector.
* In `Emulator` and `Resume` an instruction is what it does to the PC, the flags `usr`,
  `pub`, `tr1`, `tr2`, the devices and the link of a call. JSR and JSP are one
  instruction, `call`; PUSHJ is another, since it clears the trap flags before it saves
  the flags, and on a full stack saves nothing and traps. LUUO is that of section 0. An
  MUUO's new PC is one address whatever the mode.
* The program of `Resume` is given by the addresses of its parts and is `Disciplined`:
  the interrupt vector calls by JSR or JSP, which save the trap flags, and the other
  vectors by those or by PUSHJ on a stack with room; a handler stays within itself,
  makes no calls and returns through the link its call left; main program and handlers
  share no link; one level is ever turned on, and nothing but JEN ends its service. What
  the main program does, and when interrupts, sweeps and traps fall, is not restricted.
  `MCResume` has TLC check that the program it runs is one of these, and `resume_skip`
  runs one that is not.
* `hung` is the state in which a programmed request for no level never returns.
* In `Console` the keys typed while the debugger prompts are a `Command`; `tty` is
  what the terminal holds besides. Signals are handled when they are raised.
* `Session` has no interrupts and no traps (`Emulator` has them, with the
  debugger's answers), so `pc` and `fetchPC` agree at every prompt, and after an
  instruction any address may come next. A line is its command and a number.
* Words have a constant width; 36 bits are `SignBit = 2^35`, `HalfSize = 2^18`. The
  conversions through 64-bit integers are done by value, with the width kept where
  the code's result depends on it (`HostHigh`).
* A behaviour of `Instructions` is one instruction executed on any contents of the
  ACs and of memory, with any operands that `getEA` may have left; the PC is in
  section 0. Two groups of handlers that differ in nothing but their opcode and
  operands are one action; which handler an opcode has is in the model.
* A behaviour of `Loops` is one instruction, with a program that comes back to it
  if it jumps.
* `Stack` leaves out the flags that PUSHJ puts in the left half of the return word,
  and follows a program until it leaves its stack: until it pops an empty one,
  pushes on a full one again in spite of the trap, or moves the pointer beyond.

## Runs

| Run | Instance | Shows |
|---|---|---|
| `pi` | 3 levels, 2 devices, CONO PI, words with at most 3 bits and levels | `ServiceAgrees`, `PendingPRWasRequested`, the arbiter is implemented, `NoIdleRequest` |
| `sweep` | 3 conditions, one level, sweep of 10, every CONO APR, word | `BusyWhileCounting`, `APRMirrorsLine`, `RequestHasCause`, `SweepEndIsReported` |
| `emulator` | 3 addresses, any of 27 instructions at every one, one level, sweep of 2 | `PCTracksFetch`, `UserModeIsKept`, `PISpec`, `SweepSpec` |
| `resume` | a program of 13 addresses with interrupts, sweeps, XCT, LUUO, traps, the pager and user mode | `NoInstructionLost`, `WantedIsEntered`, `InterruptIsTransparent`, `TrapIsCleared` |
| `console` | 3 keys, one of them the interrupt key, at most 3 on their way | `OneReader`, `DequeueNeverWaits`, `KeysSpec`, `JoinReturns`, `InterruptKeyWorks` |
| `session` | 3 addresses, 3 slots of history and counts up to 4 of it, a line of every kind, a breakpoint of every kind | `PromptShowsNext`, `LogSpec`, `PermissionSpec`, `BreaksArePrompted`, `EndsInPrompt` |
| `instructions` | 4-bit words, 2 ACs, 2 words of memory, every opcode, overlapping operands | `BitsByOpcode`, `HalvesAreNumbers`, `ConditionsByOpcode`, `CarriesAreTrue`, `SumsAreExact`, `DivisionAccounts`, `ShiftsMoveBits`, `WordsAreKept` |
| `stack` | 6-bit words, a stack of two words and its limit | `LimitKept`, `ImplementsBoundedStack` |
| `loops` | 6-bit words, 4 ACs, 4 words of memory | `BLTCopies`, `AOBJNCounts`, `EAIsEndOfChain`, `LoopsEnd` |
| `pi_nested`, `resume_skip`, `instructions_mul` | as `pi`, `resume`, `instructions` | three statements of the code's comments that do not hold (below) |

Type invariants are proved rather than run (see Proofs).

Bounds. Three levels give an inner, an outer and a middle handler, and so every
order of two nested requests and a third; three bits of a CONO PI, word are every
pair of functions with a level, and every function with two. Three conditions are
enough for one to be more, one to be less significant than another. In `emulator`
the instructions at the three addresses are arbitrary, so vectors, handlers and main
programs of every kind overlap; the two-cycle sweep ends within a vector, within a
handler and between; the debugger stops and continues it anywhere, and counts of steps
are left to `resume` and `session`. `resume` has a sweep of three cycles, long enough to end in any
instruction after the one that starts it, and one level, since with two the
dismissal of a nested handler (below) already loses the outer handler's return.
Three keys on their way put one in the terminal, one in the thread's hand and one in
the queue at once. Three slots and three PCs distinguish the rotations of the
history, and a count of four exceeds it; `step`, which is `step 1`, `step 2`, `step 0`,
continuing, and breakpoints on each address that is fetched, read and written make a
count meet a break, a key and a moved PC.
Four-bit words have two-bit halves and every pattern of sign, carry and overflow; AC
0 and the memory word at 2 take every value while their neighbours take two pairs,
and the operand fields make the AC and the memory operand different words, one word,
and two pairs that overlap by one; shift counts from -9 to 6 pass zero, the width and
twice the width. In `stack`, two words and the limit are every place a push or a pop
can meet, and ADJSP moves over one word or two, from any of them. In `loops` there
are all 64 contents of the AC for every transfer and every count, with source and
destination that overlap either way and reach the ends of memory, and chains of
references that end at once, later, through an index, or never.

`MaxPending`, `MaxDepth`, `MaxSteps` and `MaxCount` are the only bounds on counters.
Deadlock is not looked for where a behaviour really ends: in `pi`, `pi_nested` the
machine may hang in a CONO PI,; a session ends with `quit`, an instruction and a loop
with their result, a program's stack when it is left.

Fairness. The loop and the console thread are threads of the host and run whenever they
can: `WF` of `CPUStep` in `Resume`, of `MainThread` and of `IOThread` in `Console`, of a
pass (`FetchPass \/ ExecutePass`) in `Session`, which assumes that the instruction ends,
as `LoopsEnd` says of all but two kinds, of `Processor` in `Loops`, and of the entry the
loop tries at every fetch (`AcceptAny`) in `PI`. Nothing else is assumed of the user, of
the program, of the interrupt key or of the debugger's commands. The liveness properties
are `NoIdleRequest`, `WantedIsEntered`, `TrapIsCleared`, `JoinReturns`,
`InterruptKeyWorks`, `EndsInPrompt` and `LoopsEnd`.

### Where the code and its documents differ

Three runs check a statement of the code's own comments and find it violated;
`PROJECT.json` quotes each under "findings".

| Run | Statement | What happens |
|---|---|---|
| `pi_nested` | `pi.cpp:14-16`: no interruption at the same or a lower level | dismissing a nested handler releases all levels held, so the outer handler can be interrupted by itself |
| `resume_skip` | `pi.hpp:36-39`: after a skip the interrupted program continues | it continues one instruction late |
| `instructions_mul` | `word.hpp:248`, `254`: a double word is made of, and read back as, a 70-bit magnitude | MUL's two words are exchanged |

Others were met while modelling. The modules have what the code does, without a run
of its own.

* Interrupts and loop: a programmed request for a level less urgent than the one in
  service is not recorded at its level (`pi.cpp:200` against `pi.hpp:109-113`); a skip
  in a vector does not release the level (`km10.cpp:774`); a newly enabled and set
  condition does not pend if another active one has a higher weight (`apr.cpp:75`
  against `apr.cpp:72-73`); when a trap is taken the PC is past its culprit
  (`km10.cpp:791` against `km10.hpp:28-29`); PUSHJ in a vector, which "we can support"
  (`i-jump.cpp:141-142`), clears the trap flags before it saves them (`i-jump.cpp:146`,
  `147`), so the interrupted program does not get them back; a CONO to the PI or the
  pager in a vector moves the PC and leaves the loop in the vector (`km10.cpp:813`),
  which loses an instruction of the interrupted program; a command that moves the PC,
  while an instruction fetched from a vector waits, abandons the vector
  (`km10.cpp:720`).
* Console and debugger: keys typed before a restart reach the machine after it
  (`dte20.hpp:105` against `debugger.cpp:461`); an interrupt key before the first
  prompt leaves the terminal raw (`dte20.cpp:41-45`); `-A` removes no breakpoint but
  adds one, for a number no address has (`debugger.cpp:99` against `439-447`); a line
  of blanks alone has no first word, and reading it is undefined (`debugger.cpp:165`;
  an empty line repeats the one before, at first "help", `debugger.cpp:35`); `step 0`,
  and `step` with a negative number, run for ever as `continue` does (`km10.cpp:736`
  against `debugger.cpp:462`, "Step N (octal) instructions"); `pchist` with more than the
  size of a full history starts at slot 0 instead of at the oldest (`debugger.cpp:991`
  against `debugger.cpp:460`, "in FIFO order"), which `PromptShowsNext` states as its
  exception.
* Arithmetic: ADD and SUB note an overflow, trap 1 and carry 1 for every negative
  sum; IMUL keeps the high half of the product; DIV drops the sign of its divisor and
  gives the dividend's to both results; IDIV that cannot divide overwrites the next
  AC; ASH goes right for positive counts (ASHC goes left), and ASH by 0 of a negative
  word notes an overflow; SO of the most negative word sets carry 1 and not carry 0;
  DMOVN and DMOVNM exchange the words and negate neither; JFFO does not jump when bit
  0 is set, since it jumps on the count.
* Loops and stack: BLT up to the last address never ends, since every address is at
  most that, and an indirection that comes back to itself never does; in neither is
  the interrupt key looked at. They are the two exceptions of `LoopsEnd`.

## Proofs

Every safety property that a passing run checks, every action property and every
refinement is a theorem. No proof assumes more than the named `ASSUME`s of the
modules, but for three theorems that say so in their statement: `CarriesTrue`,
`NothingIsLost` and `ReturnsAsInterrupted`. Each is the standard argument:
an inductive invariant stronger than the property, one lemma per action, a last step
by PTL.

`DeviceProofs`, of `PISpec`, for any number of levels, devices and set of CONO PI, words:

* `PITypeCorrect`, `PIServiceAgrees`, `PIPendingPRWasRequested`. The inductive
  invariant `PIInv` is their conjunction: `ServiceAgrees` needs the types for the
  order of levels, and a drop or a request keeps `PendingPRWasRequested` only
  because the levels are sets of levels. Entry keeps the current level the least of
  held because it is below the old one; every release empties both.
* `PIImplementsArbiter`: under that invariant each step is a grant, a release, a
  change of what is wanted, or a stutter of `PriorityArbiter`. A grant needs
  `ServiceAgrees`: the code compares with `currentLevel`, the abstract arbiter
  with every level held.

and of `SweepSpec`, for any set of conditions, length of sweep and CONO APR, words:
`SweepBusyWhileCounting`, `SweepAPRMirrorsLine` and the action properties
`SweepEndReported` and `SweepRequestHasCause`, from `SweepAgrees` (types,
`BusyWhileCounting`, `APRMirrorsLine`). The types are needed because a count that ends
must have been 1.

`EmulatorProofs`, of `EmuSpec`, for any code at any addresses:

* `LoopTypes`, `EmulatorImplementsPI`, `EmulatorImplementsSweep`. They need each other: a
  step of the loop is one of `PI`'s, or of `Sweep`'s, only if the operand it fetched is
  of the right kind, hence if the fetch is in the address space; and the types of the
  lines come from `PI` and `Sweep`. So one invariant, `EmuInv`, has the types of the loop,
  `PIInv` and `SweepAgrees`, and the lemmas `StepIsPI` and `StepIsSweep` carry the
  latter two over from `DeviceProofs` without proving them again. `EmulatorArbitrates`
  puts the refinements end to end.
* `PCAndFetchAgree`, which is inductive as it stands, and `UserModeKept`, by the
  instruction's result.

and of `ResumeSpec`, assuming `Disciplined`: `NothingIsLost` and `ReturnsAsInterrupted`.
That the next instruction is the expected one says nothing inside a handler, and so
`ResumeInv` follows the links: between instructions the PC is in one of four places, and
in a handler the place it was called from is read from the handler's link (`AtPI`,
`AtTrap`, `AtLUUO`, one inside the other), down to the main program, where `expected`
is. The invariant adds which level is held where (`Serving`), that no trap waits in a
trap handler (`Untrapped`), that one level at most is on, and that the link of the
interrupt handler is what `before` recorded (`Saved`), which takes a JSR or a JSP in the
vector. Each of these is lost if a handler breaks the discipline; `resume_skip` is an
example.

`ConsoleProofs`, of `ConsoleSpec`, for any characters and any number typed ahead:
`ConsoleTypes`, `TerminalHasOneReader`, `NoWaitForKeys`. `ConsoleInv` adds where the
I/O thread may be while the main thread connects, disconnects or prompts, in which of
its places the terminal is raw, and that a key in the thread's hand is never the
interrupt key: without these the three properties are not inductive. `KeysInOrder`
shows that `KeyStream` is implemented: what the emulator has of the keys is the queue,
with the key in the thread's hand behind it, and only the steps of `consoleIOLoop` that
take a key from the terminal, and that of the main thread that takes one from the
queue, change it.

`SessionProofs`, of `Session`'s `Spec`, for a history of any size, any program, lines
and breakpoints:

* `SessionTypes`; `NoBreakIsMissed`: who is owed a prompt is not running, so a fetch
  cannot lead to an execution.
* `HistoryShowsNext`: a count that does not exceed a full history shows an end part of
  the log, and at a prompt that ends with the next instruction; one that does exceed it
  shows the log in two runs, exchanged unless the index has just wrapped (lemma
  `CountExceeds`). `SessionInv` adds that the newest slot holds `fetchPC` at a prompt and
  before an execution.
* `SessionLogs`: the ring implements `RecentLog`. The lemma `LogIsHeld` says which slot
  holds the i-th entry, by cases on whether the ring is full and the index has wrapped.
* `SessionPermits`: stepping and continuing implement `Permission`, where a grant is for
  exactly the number the line typed, or repeated, asks for, and for any number only
  after `continue` and a `step` whose number is not above 0. What is permitted is read
  from `phase`, `running` and `nSteps`, and `SessionInv` adds that who is at the prompt,
  or is owed one, is not running.

`StackProofs`, of `Stack`'s `Spec`, for words of any width and a stack of any size at
any place: `StackTypes`, `LimitIsKept`, `StackIsBounded`. `StackInv` says that the
pointer is that of `depth` words: its halves keep their distance, `lhu = 0` exactly at
the limit, and so `push` skips the write exactly there. `PointerMoves` and
`PointerCounts` do the arithmetic modulo the half word once for all five instructions.

`LoopsProofs`, of `Loops`' `Spec`, for words of any width: `LoopsTypes`;
`CountedLoops` from `CountInv` (count and index have moved equally far);
`Transfers` from `BLTInv` (so many words are copied, each from where `BLTCopies` says,
the rest undisturbed), where the overlapping case reduces `k % (dst - src)` to that of
an earlier word; `EffectiveAddresses` from `OnChain` (the reference at hand is on the chain
that starts at the operands). The chain has as many links as there are addresses: one
that has not ended by then has come to some address twice, since that many links cannot
all be at different ones (`ChainTurnsBack`, by counting), and goes round for ever.

`WordProofs`: quotients and remainders, halves, powers of two and bits. The prover has
no induction; the one used here, `Inductive`, is proved from finite sets: if n is not in
S, then k -> k + 1 takes the numbers of S below n one by one into themselves without 0,
a smaller set, which the pigeonhole principle forbids. A power of two is counted as the
subsets of a finite set (`PowerDoubles`), and from there come the sum of exponents and
the bits of a number put together from two (`BitsOfSum`), moved (`BitsMovedUp`,
`BitsMovedDown`) and rotated (`BitsRotated`).

`InstructionProofs`, of `Instructions`' `Spec`, for words of any width, ACs and operands:
all eight laws. A behaviour is one step, so the invariant `Ready` is that before the step
the store holds words and the flags are among `InitFlags`; the work is in the words:
`OneStep` and `Selected` find the handler an opcode has, and each law is proved by
families of handlers.

* `ConditionsHold`, `SumsExact`, `WordsKept`, `HalvesNumbers`; `CarriesTrue`, which assumes
  `FlagsClear`, that the instruction begins with its arithmetic flags off, as the run
  does: the helpers turn flags on and never off.
* `DivisionsAccount`: a quotient is bounded by its dividend and so keeps its sign when
  truncated to a word (`QuotientRange`, `ExtOfTrunc`); a division that is not done says
  so by its flag.
* `BitsNamed`: `SixteenTables` says which sixteen functions there are, `BooleanIsTable`
  that each name computes the truth table of its number; the bits of a word are those of
  its halves (`BitsOfHalves`), so the tests of a half are tests of the word under a
  mask in that half.
* `ShiftsMove`: a rotation in either direction is one upward (`RotatedOnes`), a double
  word one number of twice the length (`DoubleOnes`), and an arithmetic shift to the
  right keeps the sign and the range, because rounding down takes no number further
  from zero and no negative one to zero (`QuotientShrinks`).

What is only model-checked: the liveness properties, `NoIdleRequest`, `WantedIsEntered`,
`TrapIsCleared`, `JoinReturns`, `InterruptKeyWorks`, `EndsInPrompt` and `LoopsEnd` (the
prover does not do fairness or `ENABLED`), and the three statements that do not hold.

## Plan

Done, in order: the interrupt system, sweep, loop and console; the session; the words
and instructions; stack; loops; the proofs of all that is not liveness. What is left,
in order:

1. The safety half of liveness: invariants that say of each place a thread may wait at
   that what it waits for can still come.
2. Byte pointers, once increments are written back (below).
3. DTE commands beside terminal input; the .A10 loader; BLKI and BLKO; JFCL; the AC
   blocks of the process context.
4. Sections other than 0: effective addresses, stack and calls.

## Not modelled

* Byte pointers and the byte instructions. Every instruction works on a copy of the
  pointer that is never written back, so ILDB, IDPB, IBP and ADJBP step nothing;
  `putByte` masks the value by the position instead of the size
  (`bytepointer.cpp:33`); stepping is empty for two of the three kinds; the table of
  one-word global pointers has a 28 for 18 and is read past its end for the last code
  (`bytepointer.cpp:175-184`); ADJBP's error is ignored (`i-byte.cpp:16`). What one would
  state of bytes, that a deposit is what a load gives and its neighbours stay, does not
  hold, and no document of the repository states it.
* DMUL, whose operands are to be made positive but are not, since `negate()` returns
  a word that `W144::product` ignores (`word.cpp:343`, `351`), and whose product goes
  through 256-bit integers that nothing else uses; DDIV, which gives 0 or no-divide; LSHC,
  whose right shift is by a negative count, undefined in C++.
* Sections other than 0, where PUSH's operands of `memPutN` are exchanged
  (`i-jump.cpp:115`), and extended addressing in indirection.
* JFCL, JRA, MAP, BLKI and BLKO, the AC blocks and the process context, the DTE's
  output, clock, switches and acknowledgements, the .A10 loader.
* Formatting, disassembly and symbol tables (text only); the timer and meter devices
  (they store what is written); the logger; address breaks and APRID (stored values);
  paging (the emulator maps virtual addresses to physical ones directly);
  instructions that answer "not yet implemented". The images, listings and
  conversion tools of the repository are data.
