---------------------------- MODULE Instructions ----------------------------
(***************************************************************************)
(* The instructions that compute: moves, half words, Booleans, tests,      *)
(* compares, counting jumps and skips, integer and double-word arithmetic  *)
(* and shifts (src/i-move.cpp, i-half.cpp, i-tstset.cpp, i-cmpand.cpp,     *)
(* i-jump.cpp, i-aoxsox.cpp, i-intbin.cpp, i-dword.cpp), with the operand  *)
(* access of src/km10.cpp.                                                 *)
(*                                                                         *)
(* One state variable holds the ACs and memory: an address below NumAC is  *)
(* an AC. The PC is in section 0, so an immediate operand is the right     *)
(* half of E. A behaviour is one instruction, executed in any store the    *)
(* program may have left: each handler reads no other state.               *)
(***************************************************************************)
EXTENDS Logic, Sequences

CONSTANTS
    NumAC,        \* 16
    Fields,       \* the pairs of AC and E that instructions name
    ShiftCounts,  \* the values of E's right half, signed, that shifts use
    InitStores,   \* the contents of the ACs and memory
    InitFlags     \* the flags before the instruction

VARIABLES
    store,   \* ACBlocks[] and memP[]
    flags,   \* KM10::flags
    iw,      \* KM10::iw and KM10::ea: [op, ac, ea]
    result   \* what the handler returned

vars == <<store, flags, iw, result>>

Flag == {"usr", "ov", "cy0", "cy1", "tr1", "ndv"}
Addr == HalfWord
None == [op |-> 0, ac |-> 0, ea |-> 0]

ASSUME OperandAssumption ==
    /\ NumAC \in 1 .. HalfSize
    /\ Fields \subseteq (0 .. NumAC - 1) \X Addr
    /\ ShiftCounts \subseteq Int
    /\ InitStores \subseteq [Addr -> Word]
    /\ InitFlags \subseteq SUBSET Flag

----------------------------------------------------------------------------
\* The opcodes of each group, as the Install functions number them.

MoveOps == \o200 .. \o217
ArithOps == \o220 .. \o237 \union \o270 .. \o277
CompareOps == \o300 .. \o317
JumpSkipOps == \o320 .. \o337
CountOps == \o340 .. \o377
BooleanOps == \o400 .. \o477
HalfOps == \o500 .. \o577
TestOps == \o600 .. \o677
DoubleOps == {\o114, \o115, \o120, \o121, \o124, \o125}
ShiftOps == \o240 .. \o245
EXCH == \o250

\* The instructions of a group that the model executes.
Of(ops) == {[op |-> o, ac |-> f[1], ea |-> f[2]] : o \in ops, f \in Fields}
Shifts == {[op |-> o, ac |-> f[1], ea |-> n] : o \in ShiftOps, f \in Fields, n \in ShiftCounts}

\* The last digit of an opcode: the mode of two-operand instructions.
mode(i) == <<"", "I", "M", "B">>[(i.op % 4) + 1]

----------------------------------------------------------------------------
\* Operands. E + 1 wraps at the end of the section.

acGet(i) == store[i.ac]
memGet(i) == store[i.ea]
immediate(i) == i.ea
Source(i) == IF mode(i) = "I" THEN immediate(i) ELSE memGet(i)
next(a) == (a + 1) % HalfSize
acGet2(i) == W72(store[i.ac], store[i.ac + 1])
memGet2(i) == W72(store[i.ea], store[next(i.ea)])

\* A store with one or two words replaced; the second replacement is the later.
Put(s, a, v) == [s EXCEPT ![a] = v]
acPut(i, v) == Put(store, i.ac, v)
memPut(i, v) == Put(store, i.ea, v)
bothPut(i, v) == Put(acPut(i, v), i.ea, v)
acPut2(i, d) == Put(acPut(i, d.hi), i.ac + 1, d.lo)
bothPut2(i, d) == Put(acPut2(i, d), i.ea, d.hi)
selfPut(i, v) == IF i.ac # 0 THEN bothPut(i, v) ELSE memPut(i, v)

PutByMode(i, v) ==
    CASE mode(i) \in {"", "I"} -> acPut(i, v)
      [] mode(i) = "M" -> memPut(i, v)
      [] mode(i) = "B" -> bothPut(i, v)

\* The same for a double result: only its high word goes to memory.
PutByMode2(i, d) ==
    CASE mode(i) \in {"", "I"} -> acPut2(i, d)
      [] mode(i) = "M" -> memPut(i, d.hi)
      [] mode(i) = "B" -> bothPut2(i, d)

\* What an instruction leaves behind. Handlers only turn flags on.
Done(i, s, f, r) ==
    /\ iw' = i
    /\ store' = s
    /\ flags' = flags \union f
    /\ result' = r
Finish(i, s) == Done(i, s, {}, "iNormal")

----------------------------------------------------------------------------
\* Moves and half words share their modes; mode 3 is S, to memory and to an AC
\* other than 0.

MoveSource(i) == IF mode(i) = "M" THEN acGet(i) ELSE Source(i)
MoveInto(i) == IF mode(i) \in {"", "I"} THEN acGet(i) ELSE memGet(i)
PutMoved(i, v) ==
    CASE mode(i) \in {"", "I"} -> acPut(i, v)
      [] mode(i) = "M" -> memPut(i, v)
      [] mode(i) = "B" -> selfPut(i, v)

DoMove(i) ==
    LET v == MoveSource(i)
        r == CASE i.op \in \o200 .. \o203 -> [value |-> v, flags |-> {}]
               [] i.op \in \o204 .. \o207 -> [value |-> swap(v), flags |-> {}]
               [] i.op \in \o210 .. \o213 -> negate(v)
               [] i.op \in \o214 .. \o217 -> magnitude(v)
    IN  Done(i, PutMoved(i, r.value), r.flags, "iNormal")

\* HLL, HRL, their Z, O and E forms, then HRR, HLR and theirs.
DoHalf(i) ==
    LET group == (i.op - \o500) \div 4
        to == IF group < 8 THEN "L" ELSE "R"
        from == IF group % 2 = 0 THEN to ELSE IF to = "L" THEN "R" ELSE "L"
        fill == <<"", "Z", "O", "E">>[((group \div 2) % 4) + 1]
        v == copyHalf(from, to, MoveSource(i), MoveInto(i))
    IN  Finish(i, PutMoved(i, fillHalf(fill, to, v)))

DoEXCH(i) == Finish(i, Put(acPut(i, memGet(i)), i.ea, acGet(i)))

----------------------------------------------------------------------------
\* Booleans and tests.

BooleanNamesExchanged ==
    <<"SETZ", "AND", "ANDCM", "SETM", "ANDCA", "SETA", "XOR", "IOR",
      "ANDCB", "EQV", "SETCA", "ORCA", "SETCM", "ORCM", "ORCB", "SETO">>

BooleanNames ==
    <<"SETZ", "AND", "ANDCA", "SETM", "ANDCM", "SETA", "XOR", "IOR",
      "ANDCB", "EQV", "SETCA", "ORCA", "SETCM", "ORCM", "ORCB", "SETO">>

DoBoolean(i) ==
    LET name == BooleanNames[((i.op - \o400) \div 4) + 1]
    IN  Finish(i, PutByMode(i, BooleanOf(name, acGet(i), Source(i))))

\* TR and TL: one half of the AC, moved to the right, against E. They write
\* that half back, and leave the other.
TestRight(i) == i.op % 2 = 0
TestedHalf(i) == IF TestRight(i) THEN rhu(acGet(i)) ELSE lhu(acGet(i))
acPutHalf(i, v) ==
    acPut(i, IF TestRight(i) THEN W36(lhu(acGet(i)), rhu(v)) ELSE W36(rhu(v), rhu(acGet(i))))

\* TD and TS: the whole AC against the memory word, or against its halves swapped.
TestMask(i) == IF TestRight(i) THEN memGet(i) ELSE swap(memGet(i))

DoTest(i) ==
    LET modify == <<"N", "Z", "C", "O">>[((i.op - \o600) \div 16) + 1]
        byHalf == (i.op \div 8) % 2 = 0
        cond == <<"", "E", "A", "N">>[((i.op % 8) \div 2) + 1]
        a == IF byHalf THEN TestedHalf(i) ELSE acGet(i)
        b == IF byHalf THEN i.ea ELSE TestMask(i)
        s == CASE modify = "N" -> store
               [] modify # "N" /\ byHalf -> acPutHalf(i, Masked(modify, a, b))
               [] OTHER -> acPut(i, Masked(modify, a, b))
    IN  Done(i, s, {}, IF TestSkips(cond, a, b) THEN "iSkip" ELSE "iNormal")

----------------------------------------------------------------------------
\* Compares, jumps, skips and counts: the last digit of the opcode is a
\* condition on two signed numbers.

ConditionStrict(op, a, b) ==
    \/ op % 8 \in {1, 3} /\ a < b
    \/ op % 8 = 2 /\ a = b
    \/ op % 8 = 4
    \/ op % 8 = 5 /\ a >= b
    \/ op % 8 = 6 /\ a # b
    \/ op % 8 = 7 /\ a > b

Condition(op, a, b) ==
    \/ op % 8 = 1 /\ a < b
    \/ op % 8 = 2 /\ a = b
    \/ op % 8 = 3 /\ a <= b
    \/ op % 8 = 4
    \/ op % 8 = 5 /\ a >= b
    \/ op % 8 = 6 /\ a # b
    \/ op % 8 = 7 /\ a > b

DoCompare(i) ==
    LET b == IF i.op < \o310 THEN immediate(i) ELSE memGet(i)
        holds == Condition(i.op, ext64(acGet(i)), ext64(b))
    IN  Done(i, store, {}, IF holds THEN "iSkip" ELSE "iNormal")

DoJump(i) ==
    Done(i, store, {}, IF Condition(i.op, ext64(acGet(i)), 0) THEN "iJump" ELSE "iNormal")

\* The word is fetched again after the AC was loaded.
DoSkip(i) ==
    LET s == IF i.ac # 0 THEN acPut(i, memGet(i)) ELSE store
    IN  Done(i, s, {}, IF Condition(i.op, ext64(s[i.ea]), 0) THEN "iSkip" ELSE "iNormal")

\* AOJ and SOJ count the AC and jump, AOS and SOS the memory word and skip. An
\* overflow traps unless the condition holds.
DoCount(i) ==
    LET inMemory == i.op % 16 >= 8
        up == i.op < \o360
        a == IF inMemory THEN memGet(i) ELSE acGet(i)
        v == Trunc(IF up THEN a + 1 ELSE a - 1)
        f == IF up THEN checkAOTraps(a) ELSE checkSOTraps(a)
        r == IF Condition(i.op, ext64(v), 0) THEN IF inMemory THEN "iSkip" ELSE "iJump"
             ELSE IF "tr1" \in f THEN "iTrap" ELSE "iNormal"
    IN  Done(i, IF inMemory THEN selfPut(i, v) ELSE acPut(i, v), f, r)

----------------------------------------------------------------------------
\* Integer arithmetic.

DoAddSub(i) ==
    LET r == IF i.op < \o274 THEN addWord(acGet(i), Source(i)) ELSE subWord(acGet(i), Source(i))
    IN  Done(i, PutByMode(i, r.value), r.flags, "iNormal")

DoIMUL(i) ==
    LET r == imulWord(acGet(i), Source(i))
    IN  Done(i, PutByMode(i, r.value), r.flags, "iNormal")

DoMulDiv(i) ==
    LET r == CASE i.op \in \o224 .. \o227 -> mulWord(acGet(i), Source(i))
               [] i.op \in \o230 .. \o233 -> idivWord(acGet(i), Source(i))
               [] i.op \in \o234 .. \o237 -> divWord(acGet2(i), Source(i))
    IN  Done(i, PutByMode2(i, r.value), r.flags, "iNormal")

\* DADD and DSUB.
DoDoubleSum(i) ==
    LET user == "usr" \in flags
        r == IF i.op = \o114 THEN doubleAdd(acGet2(i), memGet2(i), user)
             ELSE doubleSub(acGet2(i), memGet2(i), user)
    IN  Done(i, acPut2(i, r.value), r.flags, IF "tr1" \in r.flags THEN "iTrap" ELSE "iNormal")

\* DMOVE and DMOVEM copy the first word before they read the second.
DoDMOVE(i) ==
    LET first == acPut(i, memGet(i)) IN Finish(i, Put(first, i.ac + 1, first[next(i.ea)]))
DoDMOVEMSameWord(i) ==
    LET first == memPut(i, acGet(i)) IN Finish(i, Put(first, next(i.ea), acGet(i)))

DoDMOVEM(i) ==
    LET first == memPut(i, acGet(i)) IN Finish(i, Put(first, next(i.ea), first[i.ac + 1]))

DoDMOVN(i) ==
    Done(i, acPut2(i, exchangeDouble(memGet2(i))),
         IF movnZero(memGet2(i)) THEN {"cy0", "cy1"} ELSE {}, "iNormal")
DoDMOVNM(i) ==
    LET d == exchangeDouble(acGet2(i))
    IN  Done(i, Put(memPut(i, d.hi), next(i.ea), d.lo),
             IF movnmZero(acGet2(i)) THEN {"cy0", "cy1"} ELSE {}, "iNormal")

DoDoubleMove(i) ==
    \/ i.op = \o120 /\ DoDMOVE(i)
    \/ i.op = \o121 /\ DoDMOVN(i)
    \/ i.op = \o124 /\ DoDMOVEM(i)
    \/ i.op = \o125 /\ DoDMOVNM(i)

----------------------------------------------------------------------------
\* Shifts.

DoShift(i) ==
    LET n == shiftCount(i.ea, WordLength)
        r == CASE i.op = \o240 -> ASH(acGet(i), n)
               [] i.op = \o241 -> [value |-> ROT(acGet(i), n), flags |-> {}]
               [] i.op = \o242 -> [value |-> LSH(acGet(i), n), flags |-> {}]
    IN  Done(i, acPut(i, r.value), r.flags, "iNormal")

\* It jumps if the count, not the word, is other than zero.
DoJFFO(i) ==
    LET n == IF acGet(i) = 0 THEN 0 ELSE leadingZeros(acGet(i))
    IN  Done(i, Put(store, i.ac + 1, n), {}, IF n # 0 THEN "iJump" ELSE "iNormal")

DoDoubleShift(i) ==
    LET n == shiftCount(i.ea, 2 * WordLength)
        r == CASE i.op = \o244 -> ASHC(acGet2(i), n)
               [] i.op = \o245 -> [value |-> ROTC(acGet2(i), n), flags |-> {}]
    IN  Done(i, IF i.op = \o244 /\ n = 0 THEN store ELSE acPut2(i, r.value), r.flags, "iNormal")

----------------------------------------------------------------------------
\* The instructions that reach for the AC after theirs. The assertion in
\* acGetN and acPutN stops the program when there is none.

NeedsPair(i) ==
    \/ i.op \in DoubleOps \union \o234 .. \o237 \union {\o243, \o244, \o245}
    \/ i.op \in \o224 .. \o233 /\ mode(i) # "M"

HasPair(i) == i.ac + 1 < NumAC

Abort(i) == NeedsPair(i) /\ ~HasPair(i) /\ Done(i, store, {}, "abort")

Init ==
    /\ store \in InitStores
    /\ flags \in InitFlags
    /\ iw = None
    /\ result = "none"

Single(i) ==
    \/ i.op \in MoveOps /\ DoMove(i)
    \/ i.op \in HalfOps /\ DoHalf(i)
    \/ i.op = EXCH /\ DoEXCH(i)
    \/ i.op \in BooleanOps /\ DoBoolean(i)
    \/ i.op \in TestOps /\ DoTest(i)
    \/ i.op \in CompareOps /\ DoCompare(i)
    \/ i.op \in \o320 .. \o327 /\ DoJump(i)
    \/ i.op \in \o330 .. \o337 /\ DoSkip(i)
    \/ i.op \in CountOps /\ DoCount(i)
    \/ i.op \in \o270 .. \o277 /\ DoAddSub(i)
    \/ i.op \in \o220 .. \o223 /\ DoIMUL(i)
    \/ i.op \in \o240 .. \o242 /\ DoShift(i)

Pair(i) ==
    /\ NeedsPair(i) => HasPair(i)
    /\ \/ i.op \in \o224 .. \o237 /\ DoMulDiv(i)
       \/ i.op \in {\o114, \o115} /\ DoDoubleSum(i)
       \/ DoDoubleMove(i)
       \/ i.op = \o243 /\ DoJFFO(i)
       \/ i.op \in {\o244, \o245} /\ DoDoubleShift(i)

Executable == Of(MoveOps \union ArithOps \union CompareOps \union JumpSkipOps \union CountOps
                 \union BooleanOps \union HalfOps \union TestOps \union DoubleOps \union {EXCH})
              \union Shifts

Execute(i) == Single(i) \/ Pair(i) \/ Abort(i)

Next == result = "none" /\ \E i \in Executable : Execute(i)

Spec == Init /\ [][Next]_vars
============================================================================
