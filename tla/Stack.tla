-------------------------------- MODULE Stack --------------------------------
(***************************************************************************)
(* The stack instructions of src/i-jump.cpp, PUSH, POP, PUSHJ, POPJ and    *)
(* ADJSP, executed one after another by a program that keeps one stack.    *)
(* The PC is in section 0. The pointer's left half counts up to zero as    *)
(* the stack fills, its right half is the address of the top word; the two *)
(* halves are counted apart. The pointer is in AC P.                       *)
(*                                                                         *)
(* The program is followed for as long as it keeps to its stack: it is     *)
(* outside once it has popped an empty stack, or pushed on a full one      *)
(* again in spite of the trap.                                             *)
(***************************************************************************)
EXTENDS Words, Sequences

CONSTANTS
    NumAC,      \* addresses below it are ACs
    P,          \* the AC that holds the pointer
    Base,       \* the word below the stack
    Size,       \* the words given to the stack, the last of them for the limit
    Operands,   \* the values of E in PUSH and POP
    Sites,      \* the PCs that PUSHJ leaves on the stack
    Amounts,    \* the signed values of E in ADJSP
    InitStore   \* the contents of ACs and memory, the pointer's word excepted

VARIABLES
    store,     \* ACBlocks[] and memP[]
    tr2,       \* KM10::flags.tr2, the stack overflow trap
    popped,    \* the word POP last stored, or POPJ last jumped through
    outside    \* the program has left its stack

vars == <<store, tr2, popped, outside>>

Addr == HalfWord
Region == Base + 1 .. Base + Size

ASSUME StackAssumption ==
    /\ NumAC \in 1 .. HalfSize /\ P \in 0 .. NumAC - 1
    /\ Base \in Nat /\ Base >= NumAC /\ Size \in Nat \ {0, 1}
    /\ Base + Size < HalfSize /\ 2 * Size < HalfSize
    /\ Operands \subseteq Addr \ (Region \union {P, Base})
    /\ Sites \subseteq HalfWord
    /\ \A n \in Amounts : n \in Int /\ n # 0 /\ -Size <= n /\ n <= Size
    /\ InitStore \in [Addr -> Word]

----------------------------------------------------------------------------
\* The pointer: each half on its own, modulo 2^18.

pointer == store[P]
Moved(ptr, n) == W36(lhu(ptr) + n, rhu(ptr) + n)
signedHalf(h) == IF 2 * h >= HalfSize THEN h - HalfSize ELSE h
room(ptr) == -signedHalf(lhu(ptr))
depth == Size - room(pointer)

pushAtLimit(v) ==
    LET ptr == Moved(pointer, 1)
    IN  /\ store' = [store EXCEPT ![rhu(ptr)] = v, ![P] = ptr]
        /\ outside' = (depth >= Size)

\* A full stack takes the pointer one further, but no word.
push(v) ==
    LET ptr == Moved(pointer, 1)
        written == IF lhu(ptr) = 0 THEN store ELSE [store EXCEPT ![rhu(ptr)] = v]
    IN  /\ store' = [written EXCEPT ![P] = ptr]
        /\ outside' = (depth >= Size)

overflows == lhu(Moved(pointer, 1)) = 0

top == store[rhu(pointer)]
underflowsAtZero == lhu(Moved(pointer, -1)) = 0

underflows == signedHalf(lhu(Moved(pointer, -1))) = -1

PUSH(e) ==
    /\ push(store[e])
    /\ tr2' = (tr2 \/ overflows)
    /\ UNCHANGED popped

\* The return address, flags left aside. PUSHJ clears the trap flags first.
PUSHJ(site) ==
    /\ push(site)
    /\ tr2' = overflows
    /\ UNCHANGED popped

\* Pop the pointer, then store the word: E may be any word but the pointer's.
POP(e) ==
    /\ store' = [store EXCEPT ![P] = Moved(pointer, -1), ![e] = top]
    /\ popped' = top
    /\ tr2' = (tr2 \/ underflows)
    /\ outside' = (depth = 0)

\* The PC becomes the right half of the word.
POPJ ==
    /\ store' = [store EXCEPT ![P] = Moved(pointer, -1)]
    /\ popped' = top
    /\ tr2' = (tr2 \/ underflows)
    /\ outside' = (depth = 0)

\* ADJSP traps when it takes the count across zero, either way.
ADJSP(n) ==
    LET before == signedHalf(lhu(pointer))
        after == signedHalf(lhu(Moved(pointer, n)))
        crosses == (n < 0 /\ before >= 0 /\ after < 0) \/ (n > 0 /\ before < 0 /\ after >= 0)
    IN  /\ store' = [store EXCEPT ![P] = Moved(pointer, n)]
        /\ tr2' = (tr2 \/ crosses)
        /\ outside' = (depth + n \notin 0 .. Size)
        /\ UNCHANGED popped

\* The trap instruction, a call, clears the flag; so may any program.
Trap ==
    /\ tr2
    /\ tr2' = FALSE
    /\ UNCHANGED <<store, popped, outside>>

Init ==
    /\ store = [InitStore EXCEPT ![P] = W36(-Size, Base)]
    /\ tr2 = FALSE
    /\ popped = 0
    /\ outside = FALSE

Next ==
    /\ ~outside
    /\ \/ \E e \in Operands : PUSH(e) \/ POP(e)
       \/ \E site \in Sites : PUSHJ(site)
       \/ POPJ
       \/ \E n \in Amounts : ADJSP(n)
       \/ Trap

Spec == Init /\ [][Next]_vars

----------------------------------------------------------------------------
\* The state is of its type, and the two halves of the pointer keep their
\* distance: the count is zero exactly when the top is the limit word.
StackTypeOK ==
    /\ store \in [Addr -> Word]
    /\ tr2 \in BOOLEAN
    /\ popped \in Word
    /\ outside \in BOOLEAN
    /\ ~outside => pointer = W36(depth - Size, Base + depth) /\ depth \in 0 .. Size

\* Until the program leaves its stack, no instruction writes below it, at its limit
\* or above: what was there stays, through any mix of PUSH, POP, calls and ADJSP.
LimitKept ==
    ~outside =>
        \A a \in Addr \ (Base + 1 .. Base + Size - 1) :
            a \notin Operands \union {P} => store[a] = InitStore[a]

\* The instructions implement a bounded stack (module BoundedStack): the words
\* between the base and the pointer, last in, first out.
stackWords ==
    IF outside THEN <<>> ELSE [i \in 1 .. depth |-> store[Base + i]]

Promise == INSTANCE BoundedStack
    WITH Capacity <- Size - 1, Value <- Word, words <- stackWords, trap <- tr2

ImplementsBoundedStack == Promise!Spec
============================================================================
