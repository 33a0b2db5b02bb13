-------------------------- MODULE InstructionProofs --------------------------
(***************************************************************************)
(* Proofs about module Instructions by the laws of InstructionLaws, for    *)
(* words of any width, any number of ACs and any contents of the store.    *)
(***************************************************************************)
EXTENDS InstructionLaws, WordProofs

\* A behaviour is one instruction, begun in a store of words and with flags that a
\* program may have.
Ready == result = "none" => store \in [Addr -> Word] /\ flags \in InitFlags

Groups == MoveOps \union ArithOps \union CompareOps \union JumpSkipOps \union CountOps
            \union BooleanOps \union HalfOps \union TestOps \union DoubleOps \union {EXCH}

\* The fields of an instruction: an AC, and, but for shifts, an address.
LEMMA FieldsOf ==
  ASSUME NEW i \in Executable
  PROVE  /\ i.op \in Nat /\ i.ac \in 0 .. NumAC - 1 /\ i.ac \in Addr
         /\ i.op \notin ShiftOps => i.ea \in Addr
         /\ HasPair(i) => i.ac + 1 \in Addr
<1>1. NumAC \in Nat /\ NumAC <= HalfSize /\ HalfSize \in Nat \ {0}
  BY OperandAssumption, WordAssumption
<1>2. ASSUME NEW o, NEW f \in Fields, NEW n, i = [op |-> o, ac |-> f[1], ea |-> n]
      PROVE  i.op = o /\ i.ac \in 0 .. NumAC - 1 /\ f[2] \in Addr /\ i.ea = n
  BY <1>2, OperandAssumption
<1>3. CASE i \in Of(Groups)
  <2>1. PICK o \in Groups, f \in Fields : i = [op |-> o, ac |-> f[1], ea |-> f[2]]
    BY <1>3 DEF Of
  <2>2. o \in Nat
    BY DEF Groups, MoveOps, ArithOps, CompareOps, JumpSkipOps, CountOps, BooleanOps, HalfOps,
           TestOps, DoubleOps, EXCH
  <2> QED
    BY <1>1, <1>2, <2>1, <2>2 DEF Addr, HalfWord, HasPair
<1>4. CASE i \in Shifts
  <2>1. PICK o \in ShiftOps, f \in Fields, n \in ShiftCounts : i = [op |-> o, ac |-> f[1], ea |-> n]
    BY <1>4 DEF Shifts
  <2>2. o \in Nat
    BY DEF ShiftOps
  <2> QED
    BY <1>1, <1>2, <2>1, <2>2 DEF Addr, HalfWord, HasPair
<1> QED
  BY <1>3, <1>4 DEF Executable, Groups

\* Every handler ends in Done, with a result.
LEMMA Executes ==
  ASSUME NEW i, Execute(i)
  PROVE  iw' = i /\ result' # "none"
<1>1. CASE Single(i)
  BY <1>1 DEF Single, Done, Finish, DoMove, DoHalf, DoEXCH, DoBoolean, DoTest, DoCompare, DoJump,
              DoSkip, DoCount, DoAddSub, DoIMUL, DoShift
<1>2. CASE Pair(i)
  BY <1>2 DEF Pair, Done, Finish, DoMulDiv, DoDoubleSum, DoDoubleMove, DoDMOVE, DoDMOVN, DoDMOVEM,
              DoDMOVNM, DoJFFO, DoDoubleShift
<1>3. CASE Abort(i)
  BY <1>3 DEF Abort, Done
<1> QED
  BY <1>1, <1>2, <1>3 DEF Execute

\* The instruction is executed in the store it was given.
LEMMA ReadyInvariant == Spec => []Ready
<1>1. Init => Ready
  BY OperandAssumption DEF Init, Ready
<1>2. Ready /\ [Next]_vars => Ready'
  BY Executes DEF Ready, Next, vars
<1> QED
  BY <1>1, <1>2, PTL DEF Spec

\* The start of a step: what a law may assume.
LEMMA OneStep ==
  ASSUME Ready, Next
  PROVE  /\ iw' \in Executable /\ Execute(iw')
         /\ store \in [Addr -> Word] /\ flags \in InitFlags
         /\ ac \in 0 .. NumAC - 1 /\ ac \in Addr /\ op \in Nat
         /\ op \notin ShiftOps => ea \in Addr
         /\ HasPair(iw') => ac + 1 \in Addr
<1>1. PICK i \in Executable : Execute(i) /\ result = "none"
  BY DEF Next
<1>2. iw' = i
  BY <1>1, Executes
<1> QED
  BY <1>1, <1>2, FieldsOf DEF Ready, op, ac, ea

\* Replacements in a store.
LEMMA Replaced ==
  ASSUME NEW s \in [Addr -> Word], NEW a \in Addr, NEW v
  PROVE  /\ Put(s, a, v)[a] = v
         /\ \A x \in Addr \ {a} : Put(s, a, v)[x] = s[x]
         /\ v \in Word => Put(s, a, v) \in [Addr -> Word]
BY DEF Put

\* Words, as signed numbers.
LEMMA SignedNumbers ==
  /\ SignBit \in Nat \ {0} /\ 0 \in Word /\ HalfWord \subseteq Word
  /\ \A w \in Word : ext64(w) \in Int /\ ext64(w) = IF w < SignBit THEN w ELSE w - 2 * SignBit
  /\ \A v, w \in Word : v = w <=> ext64(v) = ext64(w)
  /\ ext64(0) = 0
  /\ \A n \in Int : Trunc(n) \in Word
<1>1. SignBit \in Nat \ {0} /\ 2 * SignBit \in Nat \ {0} /\ HalfSize \in Nat /\ HalfSize >= 2
  BY WordAssumption, SignOfHalf
<1>2. HalfSize <= HalfSize * HalfSize
  BY <1>1
<1>3. HalfWord \subseteq Word
  BY <1>1, <1>2, WordAssumption DEF HalfWord, Word
<1>4. \A n \in Int : Trunc(n) \in Word
  BY <1>1, RemainderRange DEF Trunc, Word
<1> QED
  BY <1>1, <1>3, <1>4 DEF Word, ext64, sign

----------------------------------------------------------------------------
\* Conditions.

\* The eight relations are three bits.
LEMMA ConditionIsBits ==
  ASSUME NEW o \in Nat, NEW a \in Int, NEW b \in Int
  PROVE  Condition(o, a, b)
           <=> (((a < b /\ o % 2 = 1) \/ (a = b /\ (o \div 2) % 2 = 1)) # (o % 8 >= 4))
<1>1. PICK q \in Nat, r \in 0 .. 7 : o = 8 * q + r
  <2>1. o \div 8 \in Nat /\ o % 8 \in 0 .. 7 /\ o = 8 * (o \div 8) + (o % 8)
    OBVIOUS
  <2> QED
    BY <2>1
<1>2. o % 8 = r /\ o % 2 = r % 2 /\ (o \div 2) % 2 = (r \div 2) % 2
  BY <1>1
<1> DEFINE L == a < b
           E == a = b
           G == (L /\ o % 2 = 1) \/ (E /\ (o \div 2) % 2 = 1)
           H == o % 8 >= 4
<1>3. CASE r = 0
  <2>0. o % 8 = 0
    BY <1>2, <1>3
  <2>1. Condition(o, a, b) <=> FALSE
    BY <2>0 DEF Condition
  <2>2. o % 2 = 0 /\ (o \div 2) % 2 = 0 /\ o % 8 = 0
    BY <1>2, <1>3
  <2>3. (G <=> (FALSE)) /\ (H <=> FALSE)
    BY <2>2
  <2> QED
    BY <2>1, <2>3
<1>4. CASE r = 1
  <2>0. o % 8 = 1
    BY <1>2, <1>4
  <2>1. Condition(o, a, b) <=> a < b
    BY <2>0 DEF Condition
  <2>2. o % 2 = 1 /\ (o \div 2) % 2 = 0 /\ o % 8 = 1
    BY <1>2, <1>4
  <2>3. (G <=> (L)) /\ (H <=> FALSE)
    BY <2>2
  <2> QED
    BY <2>1, <2>3
<1>5. CASE r = 2
  <2>0. o % 8 = 2
    BY <1>2, <1>5
  <2>1. Condition(o, a, b) <=> a = b
    BY <2>0 DEF Condition
  <2>2. o % 2 = 0 /\ (o \div 2) % 2 = 1 /\ o % 8 = 2
    BY <1>2, <1>5
  <2>3. (G <=> (E)) /\ (H <=> FALSE)
    BY <2>2
  <2> QED
    BY <2>1, <2>3
<1>6. CASE r = 3
  <2>0. o % 8 = 3
    BY <1>2, <1>6
  <2>1. Condition(o, a, b) <=> a <= b
    BY <2>0 DEF Condition
  <2>2. o % 2 = 1 /\ (o \div 2) % 2 = 1 /\ o % 8 = 3
    BY <1>2, <1>6
  <2>3. (G <=> (L \/ E)) /\ (H <=> FALSE)
    BY <2>2
  <2> QED
    BY <2>1, <2>3
<1>7. CASE r = 4
  <2>0. o % 8 = 4
    BY <1>2, <1>7
  <2>1. Condition(o, a, b) <=> TRUE
    BY <2>0 DEF Condition
  <2>2. o % 2 = 0 /\ (o \div 2) % 2 = 0 /\ o % 8 = 4
    BY <1>2, <1>7
  <2>3. (G <=> (FALSE)) /\ (H <=> TRUE)
    BY <2>2
  <2> QED
    BY <2>1, <2>3
<1>8. CASE r = 5
  <2>0. o % 8 = 5
    BY <1>2, <1>8
  <2>1. Condition(o, a, b) <=> a >= b
    BY <2>0 DEF Condition
  <2>2. o % 2 = 1 /\ (o \div 2) % 2 = 0 /\ o % 8 = 5
    BY <1>2, <1>8
  <2>3. (G <=> (L)) /\ (H <=> TRUE)
    BY <2>2
  <2> QED
    BY <2>1, <2>3
<1>9. CASE r = 6
  <2>0. o % 8 = 6
    BY <1>2, <1>9
  <2>1. Condition(o, a, b) <=> a # b
    BY <2>0 DEF Condition
  <2>2. o % 2 = 0 /\ (o \div 2) % 2 = 1 /\ o % 8 = 6
    BY <1>2, <1>9
  <2>3. (G <=> (E)) /\ (H <=> TRUE)
    BY <2>2
  <2> QED
    BY <2>1, <2>3
<1>10. CASE r = 7
  <2>0. o % 8 = 7
    BY <1>2, <1>10
  <2>1. Condition(o, a, b) <=> a > b
    BY <2>0 DEF Condition
  <2>2. o % 2 = 1 /\ (o \div 2) % 2 = 1 /\ o % 8 = 7
    BY <1>2, <1>10
  <2>3. (G <=> (L \/ E)) /\ (H <=> TRUE)
    BY <2>2
  <2> QED
    BY <2>1, <2>3
<1> QED
  BY <1>1, <1>3, <1>4, <1>5, <1>6, <1>7, <1>8, <1>9, <1>10

\* The handler that an opcode selects.
LEMMA Selected ==
  ASSUME Ready, Next
  PROVE  /\ op \in CompareOps => DoCompare(iw')
         /\ op \in \o320 .. \o327 => DoJump(iw')
         /\ op \in \o330 .. \o337 => DoSkip(iw')
         /\ op \in CountOps => DoCount(iw')
         /\ op \in \o270 .. \o277 => DoAddSub(iw')
         /\ op \in MoveOps => DoMove(iw')
         /\ op \in HalfOps => DoHalf(iw')
         /\ op \in {\o114, \o115} /\ ran => DoDoubleSum(iw') /\ HasPair(iw')
<1> USE DEF op, MoveOps, HalfOps, CompareOps, CountOps, EXCH, BooleanOps, TestOps, ShiftOps, DoubleOps
<1>1. Execute(iw') /\ iw'.op \in Nat
  BY OneStep
<1>2. CASE Single(iw')
  BY <1>1, <1>2 DEF Single
<1>3. CASE Pair(iw')
  BY <1>1, <1>3 DEF Pair, DoDoubleMove, NeedsPair
<1>4. CASE Abort(iw')
  BY <1>1, <1>4 DEF Abort, NeedsPair, Done, ran
<1> QED
  BY <1>1, <1>2, <1>3, <1>4 DEF Execute

\* The handlers of Booleans, tests and shifts.
LEMMA SelectedBits ==
  ASSUME Ready, Next
  PROVE  /\ op \in BooleanOps => DoBoolean(iw')
         /\ op \in TestOps => DoTest(iw')
         /\ op \in \o240 .. \o242 => DoShift(iw')
         /\ op \in {\o244, \o245} /\ ran => DoDoubleShift(iw') /\ HasPair(iw')
<1> USE DEF op, MoveOps, HalfOps, CompareOps, CountOps, EXCH, BooleanOps, TestOps, DoubleOps
<1>1. Execute(iw') /\ iw'.op \in Nat
  BY OneStep
<1>2. CASE Single(iw')
  BY <1>1, <1>2 DEF Single
<1>3. CASE Pair(iw')
  BY <1>1, <1>3 DEF Pair, DoDoubleMove, NeedsPair
<1>4. CASE Abort(iw')
  BY <1>1, <1>4 DEF Abort, NeedsPair, Done, ran
<1> QED
  BY <1>1, <1>2, <1>3, <1>4 DEF Execute

\* A condition on two words, by its bits.
ByBits(o, v, w) ==
    ((ext64(v) < ext64(w) /\ o % 2 = 1) \/ (v = w /\ (o \div 2) % 2 = 1)) # (o % 8 >= 4)

LEMMA ConditionOnWords ==
  ASSUME NEW o \in Nat, NEW v \in Word, NEW w \in Word
  PROVE  Condition(o, ext64(v), ext64(w)) <=> ByBits(o, v, w)
<1>1. ext64(v) \in Int /\ ext64(w) \in Int /\ (v = w <=> ext64(v) = ext64(w))
  BY SignedNumbers
<1> HIDE DEF Condition
<1> QED
  BY <1>1, ConditionIsBits DEF ByBits

\* ConditionsByOpcode: compares, jumps, skips and counts of i-cmpand.cpp, i-jump.cpp
\* and i-aoxsox.cpp skip or jump by the last digit of the opcode.
LEMMA ConditionStep == Ready /\ [Next]_vars => [conditionByOpcode]_vars
<1> SUFFICES ASSUME Ready, Next, op \in CompareOps \union JumpSkipOps \union CountOps
             PROVE  conditionByOpcode
  BY DEF conditionByOpcode
<1>1. /\ store \in [Addr -> Word] /\ ac \in Addr /\ op \in Nat
      /\ ea \in Addr /\ Addr \subseteq Word /\ 0 \in Word /\ ext64(0) = 0
  BY OneStep, SignedNumbers DEF Addr, CompareOps, JumpSkipOps, CountOps, ShiftOps
<1>2. CASE op \in CompareOps
  <2>1. DoCompare(iw')
    BY <1>2, Selected
  <2> DEFINE w == IF op \in \o300 .. \o307 THEN ea ELSE store[ea]
  <2>2. (result' = "iSkip" <=> Condition(op, ext64(store[ac]), ext64(w))) /\ store' = store
    BY <1>1, <1>2, <2>1 DEF DoCompare, Done, acGet, memGet, immediate, op, ac, ea, CompareOps
  <2>3. store[ac] \in Word /\ w \in Word
    BY <1>1
  <2>4. result' = "iSkip" <=> ByBits(op, store[ac], w)
    BY <1>1, <2>2, <2>3, ConditionOnWords
  <2> QED
    BY <1>1, <1>2, <2>2, <2>4 DEF conditionByOpcode, ByBits, CompareOps, CountOps
<1>3. CASE op \in \o320 .. \o327
  <2>1. DoJump(iw')
    BY <1>3, Selected
  <2>2. (result' = "iJump" <=> Condition(op, ext64(store[ac]), ext64(0))) /\ store' = store
    BY <1>1, <2>1 DEF DoJump, Done, acGet, op, ac
  <2>4. result' = "iJump" <=> ByBits(op, store[ac], 0)
    BY <1>1, <2>2, ConditionOnWords
  <2> QED
    BY <1>1, <1>3, <2>2, <2>4 DEF conditionByOpcode, ByBits, CompareOps, CountOps
<1>4. CASE op \in \o330 .. \o337
  <2>1. DoSkip(iw')
    BY <1>4, Selected
  <2> DEFINE s == IF ac # 0 THEN Put(store, ac, store[ea]) ELSE store
  <2>2. Done(iw', s, {}, IF Condition(op, ext64(s[ea]), ext64(0)) THEN "iSkip" ELSE "iNormal")
    BY <1>1, <2>1 DEF DoSkip, acPut, memGet, op, ac, ea
  <2>3. s[ea] = store[ea]
    BY <1>1 DEF Put
  <2>5. store[ea] \in Word
    BY <1>1
  <2> HIDE DEF s
  <2>6. (result' = "iSkip" <=> Condition(op, ext64(store'[ea]), ext64(0))) /\ store'[ea] \in Word
    BY <2>2, <2>3, <2>5 DEF Done
  <2>4. result' = "iSkip" <=> ByBits(op, store'[ea], 0)
    BY <1>1, <2>6, ConditionOnWords
  <2> QED
    BY <1>1, <1>4, <2>6, <2>4 DEF conditionByOpcode, ByBits, CompareOps, CountOps
<1>5. CASE op \in CountOps
  <2>1. DoCount(iw')
    BY <1>5, Selected
  <2> DEFINE inMemory == op % 16 >= 8
             w == IF inMemory THEN store'[ea] ELSE store'[ac]
             taken == IF inMemory THEN "iSkip" ELSE "iJump"
             a == IF inMemory THEN store[ea] ELSE store[ac]
             v == Trunc(IF op < \o360 THEN a + 1 ELSE a - 1)
             f == IF op < \o360 THEN checkAOTraps(a) ELSE checkSOTraps(a)
  <2>2. a \in Int
    BY <1>1, SignedNumbers DEF Word
  <2>3. v \in Word
    BY <2>2, SignedNumbers
  <2>4. Done(iw', IF inMemory THEN selfPut(iw', v) ELSE acPut(iw', v), f,
             IF Condition(op, ext64(v), 0) THEN taken ELSE IF "tr1" \in f THEN "iTrap" ELSE "iNormal")
    BY <2>1 DEF DoCount, acGet, memGet, op, ac, ea
  <2> HIDE DEF v, f, a
  <2>8. acPut(iw', v) = Put(store, ac, v) /\ memPut(iw', v) = Put(store, ea, v)
        /\ bothPut(iw', v) = Put(Put(store, ac, v), ea, v)
    BY DEF acPut, memPut, bothPut, ac, ea
  <2>9. /\ acPut(iw', v)[ac] = v /\ memPut(iw', v)[ea] = v /\ bothPut(iw', v)[ea] = v
    <3>1. \A s \in [Addr -> Word], x \in Addr : Put(s, x, v)[x] = v
      BY Replaced
    <3>2. Put(store, ac, v) \in [Addr -> Word]
      BY <1>1, <2>3, Replaced
    <3> QED
      BY <1>1, <2>8, <3>1, <3>2
  <2>10. selfPut(iw', v)[ea] = v
    BY <2>9 DEF selfPut
  <2>5. w = v
    BY <2>4, <2>9, <2>10 DEF Done
  <2>6. result' = taken <=> Condition(op, ext64(v), 0)
    BY <2>4 DEF Done
  <2>7. result' = taken <=> ByBits(op, w, 0)
    BY <1>1, <2>3, <2>5, <2>6, ConditionOnWords
  <2> QED
    BY <1>1, <1>5, <2>7 DEF conditionByOpcode, ByBits, CompareOps, CountOps
<1> QED
  BY <1>2, <1>3, <1>4, <1>5 DEF JumpSkipOps

\* ConditionsByOpcode.
THEOREM ConditionsHold == Spec => ConditionsByOpcode
BY ReadyInvariant, ConditionStep, PTL DEF Spec, ConditionsByOpcode

----------------------------------------------------------------------------
\* Sums.

LEMMA Euclid ==
  ASSUME NEW h \in Nat \ {0}, NEW n \in Int
  PROVE  n \div h \in Int /\ n % h \in 0 .. h - 1 /\ n = h * (n \div h) + (n % h)
OBVIOUS

LEMMA MagRange == SignBit \in Nat \ {0} /\ \A w \in Word : w \in Int /\ mag(w) \in 0 .. SignBit - 1
BY WordAssumption, RemainderRange DEF mag, Word

\* Truncated high words keep a sum of double words, modulo the size of one.
LEMMA TruncatedHigh ==
  ASSUME NEW x \in Int, NEW m \in 0 .. SignBit - 1
  PROVE  (x * SignBit + m) % (2 * SignBit * SignBit) = Trunc(x) * SignBit + m
<1> DEFINE h == 2 * SignBit
           q == x \div h
           r == x % h
           w == h * SignBit
           v == r * SignBit + m
<1>1. SignBit \in Nat \ {0} /\ h \in Nat \ {0}
  BY WordAssumption
<1>2. q \in Int /\ r \in 0 .. h - 1 /\ x = h * q + r
  <2> HIDE DEF h
  <2> QED
    BY <1>1, Euclid
<1>3. Trunc(x) = r
  BY DEF Trunc
<1> HIDE DEF h, q, r
<1>4. w \in Nat \ {0}
  BY <1>1
<1>5. v \in 0 .. w - 1
  <2>1. r * SignBit >= 0 /\ r * SignBit <= (h - 1) * SignBit
    BY <1>1, <1>2
  <2>2. (h - 1) * SignBit = w - SignBit
    BY <1>1
  <2>3. r * SignBit \in Int
    BY <1>1, <1>2
  <2> QED
    BY <1>1, <1>4, <2>1, <2>2, <2>3
<1>6. x * SignBit + m = q * w + v
  BY <1>1, <1>2
<1> HIDE DEF v, w
<1>7. (q * w + v) % w = v
  BY <1>2, <1>4, <1>5, QuotientAndRemainder
<1>8. w = 2 * SignBit * SignBit
  BY <1>1 DEF w, h
<1> QED
  BY <1>3, <1>6, <1>7, <1>8 DEF v

\* A double word that is put together with one sign has the value of its parts.
LEMMA SignedDoubleValue ==
  ASSUME NEW hi \in Word, NEW lo \in Int
  PROVE  LET r == signedDouble(hi, lo)
         IN  /\ doubleValue(r) = hi * SignBit + (lo % SignBit)
             /\ sign(r.hi) = sign(r.lo)
             /\ r = W72(hi, r.lo) /\ r.lo \in Word
<1> DEFINE m == lo % SignBit
           s == signTerm(sign(hi))
<1>1. SignBit \in Nat \ {0} /\ m \in 0 .. SignBit - 1
  BY WordAssumption, RemainderRange
<1>2. s = IF sign(hi) THEN SignBit ELSE 0
  BY DEF signTerm
<1>3. signedDouble(hi, lo) = [hi |-> hi, lo |-> s + m]
  BY DEF signedDouble, W72, mag
<1> HIDE DEF m, s
<1>4. s + m \in Int /\ -SignBit <= s + m /\ s + m < 2 * SignBit
  BY <1>1, <1>2
<1>5. mag(s + m) = m
  BY <1>1, <1>2, <1>4, NearRemainder DEF mag
<1>6. s + m \in Word /\ (sign(s + m) <=> sign(hi))
  BY <1>1, <1>2 DEF sign, Word
<1>7. sign(s + m) = sign(hi)
  BY <1>6 DEF sign
<1> QED
  BY <1>3, <1>5, <1>6, <1>7 DEF doubleValue, m, W72

\* DADD: the carry of the low words goes to the high ones.
LEMMA DoubleAddIsExact ==
  ASSUME NEW a, NEW b, NEW u, a.hi \in Word, a.lo \in Word, b.hi \in Word, b.lo \in Word
  PROVE  LET r == doubleAdd(a, b, u).value
         IN  /\ doubleValue(r) = (doubleValue(a) + doubleValue(b)) % (2 * SignBit * SignBit)
             /\ sign(r.hi) = sign(r.lo)
             /\ r = W72(r.hi, r.lo)
<1> DEFINE la == mag(a.lo)
           lb == mag(b.lo)
           c == (la + lb) \div SignBit
           m == (la + lb) % SignBit
           x == a.hi + b.hi + c
<1>1. /\ SignBit \in Nat \ {0} /\ la \in Int /\ lb \in Int
      /\ a.hi \in Int /\ b.hi \in Int /\ a.lo \in Int /\ b.lo \in Int
  BY WordAssumption DEF mag, Word
<1>2. c \in Int /\ m \in 0 .. SignBit - 1 /\ la + lb = c * SignBit + m
  BY <1>1
<1>3. doubleAdd(a, b, u).value = signedDouble(Trunc(x), la + lb)
  BY DEF doubleAdd
<1>4. doubleValue(a) = a.hi * SignBit + la /\ doubleValue(b) = b.hi * SignBit + lb
  BY DEF doubleValue
<1>5. (la + lb) % SignBit = m /\ la + lb \in Int
  BY <1>1
<1> HIDE DEF la, lb, c, m
<1>6. x \in Int
  BY <1>1, <1>2
<1>7. doubleValue(a) + doubleValue(b) = x * SignBit + m
  <2> DEFINE ah == a.hi * SignBit
             bh == b.hi * SignBit
             ch == c * SignBit
             xh == x * SignBit
  <2>1. xh = ah + bh + ch /\ ah \in Int /\ bh \in Int /\ ch \in Int /\ m \in Int
    BY <1>1, <1>2
  <2>2. doubleValue(a) = ah + la /\ doubleValue(b) = bh + lb /\ la + lb = ch + m
    BY <1>2, <1>4
  <2> HIDE DEF ah, bh, ch, xh
  <2>3. doubleValue(a) + doubleValue(b) = xh + m
    BY <1>1, <2>1, <2>2
  <2> QED
    BY <2>3 DEF xh
<1> HIDE DEF x
<1>8. Trunc(x) \in Word
  BY <1>6, SignedNumbers
<1>9. (x * SignBit + m) % (2 * SignBit * SignBit) = Trunc(x) * SignBit + m
  BY <1>2, <1>6, TruncatedHigh
<1> DEFINE r == signedDouble(Trunc(x), la + lb)
<1>10. doubleValue(r) = Trunc(x) * SignBit + m /\ sign(r.hi) = sign(r.lo) /\ r = W72(r.hi, r.lo)
  BY <1>5, <1>8, SignedDoubleValue DEF W72
<1> QED
  BY <1>3, <1>7, <1>9, <1>10

\* DSUB: the low words borrow from the high ones.
LEMMA DoubleSubIsExact ==
  ASSUME NEW a, NEW b, NEW u, a.hi \in Word, a.lo \in Word, b.hi \in Word, b.lo \in Word
  PROVE  LET r == doubleSub(a, b, u).value
         IN  /\ doubleValue(r) = (doubleValue(a) - doubleValue(b)) % (2 * SignBit * SignBit)
             /\ sign(r.hi) = sign(r.lo)
             /\ r = W72(r.hi, r.lo)
<1> DEFINE la == mag(a.lo)
           lb == mag(b.lo)
           c == IF la - lb < 0 THEN 1 ELSE 0
           m == (la - lb) % SignBit
           x == a.hi - b.hi - c
<1>1. /\ SignBit \in Nat \ {0} /\ la \in 0 .. SignBit - 1 /\ lb \in 0 .. SignBit - 1
      /\ a.hi \in Int /\ b.hi \in Int /\ a.lo \in Int /\ b.lo \in Int
  BY MagRange
<1>3. doubleSub(a, b, u).value = signedDouble(Trunc(x), la - lb)
  BY DEF doubleSub
<1>4. doubleValue(a) = a.hi * SignBit + la /\ doubleValue(b) = b.hi * SignBit + lb
  BY DEF doubleValue
<1> HIDE DEF la, lb
<1>5. (la - lb) % SignBit = m /\ la - lb \in Int /\ -SignBit <= la - lb /\ la - lb < 2 * SignBit
  BY <1>1
<1>2. c \in Int /\ m \in 0 .. SignBit - 1 /\ la - lb = m - c * SignBit
  <2>1. m = IF la - lb < 0 THEN la - lb + SignBit ELSE la - lb
    <3> DEFINE n == la - lb
    <3>1. n \in Int /\ -SignBit <= n /\ n < SignBit /\ n < 2 * SignBit
      BY <1>1
    <3> HIDE DEF n
    <3>2. n % SignBit = IF n < 0 THEN n + SignBit ELSE n
      BY <1>1, <3>1, NearRemainder
    <3> QED
      BY <3>2 DEF n
  <2>2. CASE la - lb < 0
    BY <1>1, <2>1, <2>2
  <2>3. CASE ~(la - lb < 0)
    BY <1>1, <2>1, <2>3
  <2> QED
    BY <2>2, <2>3
<1> HIDE DEF c, m
<1>6. x \in Int
  BY <1>1, <1>2
<1>7. doubleValue(a) - doubleValue(b) = x * SignBit + m
  <2> DEFINE ah == a.hi * SignBit
             bh == b.hi * SignBit
             ch == c * SignBit
             xh == x * SignBit
  <2>1. xh = ah - bh - ch /\ ah \in Int /\ bh \in Int /\ ch \in Int /\ m \in Int
    BY <1>1, <1>2
  <2>2. doubleValue(a) = ah + la /\ doubleValue(b) = bh + lb /\ la - lb = m - ch
    BY <1>2, <1>4
  <2> HIDE DEF ah, bh, ch, xh
  <2>3. doubleValue(a) - doubleValue(b) = xh + m
    BY <1>1, <2>1, <2>2
  <2> QED
    BY <2>3 DEF xh
<1> HIDE DEF x
<1>8. Trunc(x) \in Word
  BY <1>6, SignedNumbers
<1>9. (x * SignBit + m) % (2 * SignBit * SignBit) = Trunc(x) * SignBit + m
  BY <1>2, <1>6, TruncatedHigh
<1> DEFINE r == signedDouble(Trunc(x), la - lb)
<1>10. doubleValue(r) = Trunc(x) * SignBit + m /\ sign(r.hi) = sign(r.lo) /\ r = W72(r.hi, r.lo)
  BY <1>5, <1>8, SignedDoubleValue DEF W72
<1> QED
  BY <1>3, <1>7, <1>9, <1>10

\* The two words that DADD and DSUB read are words, and the pair they write is read back.
LEMMA DoubleOperands ==
  ASSUME Ready, Next, op \in {\o114, \o115}, ran
  PROVE  /\ DoDoubleSum(iw')
         /\ acGet2(iw').hi \in Word /\ acGet2(iw').lo \in Word
         /\ memGet2(iw').hi \in Word /\ memGet2(iw').lo \in Word
         /\ \A d : /\ d = W72(d.hi, d.lo)
                   /\ store' = acPut2(iw', d)
                   => W72(store'[ac], store'[ac + 1]) = d
<1>1. /\ store \in [Addr -> Word] /\ DoDoubleSum(iw') /\ HasPair(iw')
      /\ ac \in 0 .. NumAC - 1 /\ ac \in Addr /\ op \in Nat
  BY OneStep, Selected
<1>2. ac + 1 \in Addr /\ ea \in Addr /\ ac + 1 # ac
  BY <1>1, OneStep, OperandAssumption DEF ShiftOps
<1>3. next(ea) \in Addr
  BY <1>2, WordAssumption, RemainderRange DEF next, Addr, HalfWord
<1>4. /\ acGet2(iw').hi \in Word /\ acGet2(iw').lo \in Word
      /\ memGet2(iw').hi \in Word /\ memGet2(iw').lo \in Word
  BY <1>1, <1>2, <1>3 DEF acGet2, memGet2, W72, ac, ea
<1>5. ASSUME NEW d, d = W72(d.hi, d.lo), store' = acPut2(iw', d)
      PROVE  W72(store'[ac], store'[ac + 1]) = d
  <2>1. store' = [[store EXCEPT ![ac] = d.hi] EXCEPT ![ac + 1] = d.lo]
    BY <1>5 DEF acPut2, acPut, Put, ac
  <2>2. store'[ac] = d.hi /\ store'[ac + 1] = d.lo
    BY <1>1, <1>2, <2>1
  <2> QED
    BY <1>5, <2>2
<1> QED
  BY <1>1, <1>4, <1>5

\* DADD and DSUB.
LEMMA DoubleSumStep == Ready /\ Next => doubleSumIsExact
<1> SUFFICES ASSUME Ready, Next, op \in {\o114, \o115}, ran
             PROVE  doubleSumIsExact
  BY DEF doubleSumIsExact
<1> DEFINE a == acGet2(iw')
           b == memGet2(iw')
           u == "usr" \in flags
           r == IF op = \o114 THEN doubleAdd(a, b, u).value ELSE doubleSub(a, b, u).value
           h == 2 * SignBit * SignBit
<1>1. store' = acPut2(iw', r)
  BY DoubleOperands DEF DoDoubleSum, Done, op
<1>2. /\ a.hi \in Word /\ a.lo \in Word /\ b.hi \in Word /\ b.lo \in Word
      /\ (r = W72(r.hi, r.lo) /\ store' = acPut2(iw', r) => W72(store'[ac], store'[ac + 1]) = r)
  BY DoubleOperands
<1> HIDE DEF a, b
<1>3. /\ doubleValue(r) = (IF op = \o114 THEN doubleValue(a) + doubleValue(b)
                           ELSE doubleValue(a) - doubleValue(b)) % h
      /\ sign(r.hi) = sign(r.lo)
      /\ r = W72(r.hi, r.lo)
  <2>1. CASE op = \o114
    BY <1>2, <2>1, DoubleAddIsExact
  <2>2. CASE op # \o114
    BY <1>2, <2>2, DoubleSubIsExact
  <2> QED
    BY <2>1, <2>2
<1> HIDE DEF r, h
<1>4. W72(store'[ac], store'[ac + 1]) = r
  BY <1>1, <1>2, <1>3
<1> QED
  BY <1>3, <1>4 DEF doubleSumIsExact, a, b, h

\* The four modes.
LEMMA Modes ==
  ASSUME NEW i, i.op \in Nat
  PROVE  mode(i) \in {"", "I", "M", "B"}
<1> DEFINE m == <<"", "I", "M", "B">>
           k == (i.op % 4) + 1
<1>1. i.op % 4 = 0 \/ i.op % 4 = 1 \/ i.op % 4 = 2 \/ i.op % 4 = 3
  OBVIOUS
<1>2. k \in {1, 2, 3, 4}
  BY <1>1
<1>3. mode(i) = m[k]
  BY DEF mode
<1>4. m[1] = "" /\ m[2] = "I" /\ m[3] = "M" /\ m[4] = "B"
  OBVIOUS
<1> HIDE DEF m, k
<1> QED
  BY <1>2, <1>3, <1>4

\* What PutByMode writes, and where.
LEMMA WrittenByMode ==
  ASSUME store \in [Addr -> Word], NEW i, i.op \in Nat, i.ac \in Addr, i.ea \in Addr,
         NEW v \in Word
  PROVE  /\ mode(i) # "M" => PutByMode(i, v)[i.ac] = v
         /\ mode(i) \in {"M", "B"} => PutByMode(i, v)[i.ea] = v
<1>1. Put(store, i.ac, v) \in [Addr -> Word]
  BY Replaced
<1>2. Put(store, i.ac, v)[i.ac] = v /\ Put(store, i.ea, v)[i.ea] = v
  BY Replaced
<1>3. Put(Put(store, i.ac, v), i.ea, v)[i.ea] = v /\ Put(Put(store, i.ac, v), i.ea, v)[i.ac] = v
  BY <1>1, <1>2 DEF Put
<1>4. mode(i) \in {"", "I", "M", "B"}
  BY Modes
<1>5. CASE mode(i) \in {"", "I"}
  BY <1>2, <1>5 DEF PutByMode, acPut
<1>6. CASE mode(i) = "M"
  BY <1>2, <1>6 DEF PutByMode, memPut
<1>7. CASE mode(i) = "B"
  BY <1>3, <1>7 DEF PutByMode, bothPut, acPut
<1> QED
  BY <1>4, <1>5, <1>6, <1>7

\* ADD and SUB.
LEMMA SumStep == Ready /\ Next => sumIsExact
<1> SUFFICES ASSUME Ready, Next, op \in \o270 .. \o277
             PROVE  sumIsExact
  BY DEF sumIsExact
<1>1. /\ store \in [Addr -> Word] /\ ac \in Addr /\ ea \in Addr /\ op \in Nat
      /\ Addr \subseteq Word /\ DoAddSub(iw')
  BY OneStep, Selected, SignedNumbers DEF ShiftOps, Addr
<1> DEFINE x == ext64(store[ac])
           y == ext64(operand)
           n == IF op < \o274 THEN x + y ELSE x - y
           f == IF op < \o274 THEN addFlags(store[ac], operand) ELSE subFlags(store[ac], operand)
<1>2. Done(iw', PutByMode(iw', Trunc(n)), f, "iNormal")
  BY <1>1 DEF DoAddSub, addWord, subWord, acGet, Source, operand, memGet, immediate, op, ac, ea
<1>3. operand \in Word /\ store[ac] \in Word
  BY <1>1 DEF operand
<1>4. x \in Int /\ y \in Int
  BY <1>3, SignedNumbers
<1>5. ~(-SignBit <= n /\ n < SignBit) => "ov" \in f /\ "tr1" \in f
  <2> HIDE DEF x, y
  <2>1. CASE op < \o274
    BY <1>4, <2>1, SignedNumbers DEF addFlags, x, y
  <2>2. CASE ~(op < \o274)
    BY <1>4, <2>2, SignedNumbers DEF subFlags, x, y
  <2> QED
    BY <2>1, <2>2
<1>6. Trunc(n) \in Word
  <2> HIDE DEF x, y
  <2> QED
    BY <1>4, SignedNumbers
<1> DEFINE v == Trunc(n)
<1> HIDE DEF f, v
<1>8. /\ mode(iw') # "M" => store'[ac] = v
      /\ mode(iw') \in {"M", "B"} => store'[ea] = v
  <2>1. store' = PutByMode(iw', v)
    BY <1>2 DEF Done, v
  <2>2. iw'.op \in Nat /\ iw'.ac \in Addr /\ iw'.ea \in Addr /\ v \in Word
    BY <1>1, <1>6 DEF op, ac, ea, v
  <2>3. /\ mode(iw') # "M" => PutByMode(iw', v)[iw'.ac] = v
        /\ mode(iw') \in {"M", "B"} => PutByMode(iw', v)[iw'.ea] = v
    BY <1>1, <2>2, WrittenByMode
  <2> QED
    BY <2>1, <2>3 DEF ac, ea
<1>9. "ov" \in f /\ "tr1" \in f => overflowed
  BY <1>2 DEF Done, overflowed
<1>10. -SignBit \in Int /\ SignBit \in Int
  BY SignedNumbers
<1> QED
  BY <1>5, <1>8, <1>9 DEF sumIsExact, v

\* SumsAreExact: the sums of i-dword.cpp and i-intbin.cpp are exact.
THEOREM SumsExact == Spec => SumsAreExact
<1>1. Ready /\ [Next]_vars => [doubleSumIsExact /\ sumIsExact]_vars
  BY DoubleSumStep, SumStep
<1> QED
  BY <1>1, ReadyInvariant, PTL DEF Spec, SumsAreExact

----------------------------------------------------------------------------
\* Carries.

\* What a word's magnitude and sign are.
LEMMA MagOfWord ==
  ASSUME NEW w \in Word
  PROVE  mag(w) = IF w < SignBit THEN w ELSE w - SignBit
<1>1. SignBit \in Nat \ {0} /\ w \in Int /\ -SignBit <= w /\ w < 2 * SignBit /\ 0 <= w
  BY SignedNumbers DEF Word
<1>2. w % SignBit = IF w < 0 THEN w + SignBit ELSE IF w < SignBit THEN w ELSE w - SignBit
  BY <1>1, NearRemainder
<1> QED
  BY <1>1, <1>2 DEF mag

\* The flags that a handler turns on are the adder's carries and, if the handler
\* looks for them, their difference.
Carries(f, x, y, c, user) ==
    /\ "cy0" \in f <=> x + y + c > all1s
    /\ "cy1" \in f <=> mag(x) + mag(y) + c >= SignBit
    /\ "ov" \in f <=> "tr1" \in f
    /\ "tr1" \in f <=> user /\ ~(x + y + c > all1s <=> mag(x) + mag(y) + c >= SignBit)

LEMMA AddFlagsAreCarries ==
  ASSUME NEW x \in Word, NEW y \in Word, NEW c \in 0 .. 1, NEW user \in BOOLEAN
  PROVE  Carries(setADDFlags(x, y, Trunc(x + y + c), user), x, y, c, user)
<1> DEFINE n == x + y + c
           s == Trunc(n)
<1>1. SignBit \in Nat \ {0} /\ x \in 0 .. 2 * SignBit - 1 /\ y \in 0 .. 2 * SignBit - 1
  BY SignedNumbers DEF Word
<1>2. s = IF n < 2 * SignBit THEN n ELSE n - 2 * SignBit
  <2> DEFINE h == 2 * SignBit
  <2>1. h \in Nat \ {0} /\ n \in Int /\ -h <= n /\ n < 2 * h /\ 0 <= n
    BY <1>1
  <2> HIDE DEF h, n
  <2>2. n % h = IF n < 0 THEN n + h ELSE IF n < h THEN n ELSE n - h
    BY <2>1, NearRemainder
  <2> QED
    BY <2>1, <2>2 DEF h, n, Trunc
<1>3. /\ mag(x) = IF x < SignBit THEN x ELSE x - SignBit
      /\ mag(y) = IF y < SignBit THEN y ELSE y - SignBit
  BY MagOfWord
<1> HIDE DEF s
<1>4. Carries(setADDFlags(x, y, s, user), x, y, c, user)
  <2> DEFINE f == setADDFlags(x, y, s, user)
  <2>1. CASE x >= SignBit /\ y >= SignBit /\ s < SignBit
    <3>2. sign(x) /\ sign(y) /\ ~sign(s)
      BY <1>1, <1>2, <2>1 DEF sign
    <3>1. f = {"cy0"} \union overflowFlags(user)
      BY <3>2 DEF setADDFlags
    <3> QED
      BY <1>1, <1>2, <1>3, <2>1, <3>1 DEF Carries, overflowFlags, all1s
  <2>2. CASE x < SignBit /\ y < SignBit /\ s >= SignBit
    <3>1. f = {"cy1"} \union overflowFlags(user)
      BY <1>1, <2>2 DEF setADDFlags, sign
    <3> QED
      BY <1>1, <1>2, <1>3, <2>2, <3>1 DEF Carries, overflowFlags, all1s
  <2>3. CASE \/ x >= SignBit /\ y >= SignBit /\ s >= SignBit
             \/ ((x >= SignBit /\ y < SignBit) \/ (x < SignBit /\ y >= SignBit)) /\ s < SignBit
    <3>1. f = {"cy0", "cy1"}
      BY <1>1, <1>2, <2>3 DEF setADDFlags, sign
    <3> QED
      BY <1>1, <1>2, <1>3, <2>3, <3>1 DEF Carries, all1s
  <2>4. CASE \/ x < SignBit /\ y < SignBit /\ s < SignBit
             \/ ((x >= SignBit /\ y < SignBit) \/ (x < SignBit /\ y >= SignBit)) /\ s >= SignBit
    <3>1. f = {}
      BY <1>1, <1>2, <2>4 DEF setADDFlags, sign
    <3> QED
      BY <1>1, <1>2, <1>3, <2>4, <3>1 DEF Carries, all1s
  <2> QED
    BY <1>1, <1>2, <2>1, <2>2, <2>3, <2>4
<1> QED
  BY <1>4 DEF s

\* To subtract is to add the complement; a borrow is a carry that is not there.
LEMMA SubFlagsAreCarries ==
  ASSUME NEW x \in Word, NEW z \in Word, NEW b \in 0 .. 1, NEW user \in BOOLEAN
  PROVE  Carries(setSUBFlags(x, z, Trunc(x - z - b), user), x, all1s - z, 1 - b, user)
<1> DEFINE y == all1s - z
           c == 1 - b
<1>1. SignBit \in Nat \ {0} /\ x \in 0 .. 2 * SignBit - 1 /\ z \in 0 .. 2 * SignBit - 1
  BY SignedNumbers DEF Word
<1>2. y \in Word /\ c \in 0 .. 1 /\ (y < SignBit <=> z >= SignBit) /\ x - z - b = x + y + c - 2 * SignBit
  BY <1>1 DEF Word, all1s
<1>3. Trunc(x - z - b) = Trunc(x + y + c)
  <2> DEFINE h == 2 * SignBit
             n == x - z - b
             m == x + y + c
  <2>1. h \in Nat \ {0} /\ n \in Int /\ -h <= n /\ n < 2 * h /\ n < h
    BY <1>1
  <2>5. m \in Int /\ -h <= m /\ m < 2 * h /\ m = n + h /\ 0 <= m
    BY <1>1, <1>2, <2>1 DEF Word
  <2> HIDE DEF h, n, m
  <2>2. n % h = IF n < 0 THEN n + h ELSE IF n < h THEN n ELSE n - h
    BY <2>1, NearRemainder
  <2>3. m % h = IF m < 0 THEN m + h ELSE IF m < h THEN m ELSE m - h
    BY <2>1, <2>5, NearRemainder
  <2>4. n % h = m % h
    BY <2>1, <2>2, <2>3, <2>5
  <2> QED
    BY <2>4 DEF h, n, m, Trunc
<1>4. \A s : setSUBFlags(x, z, s, user) = setADDFlags(x, y, s, user)
  <2> SUFFICES ASSUME NEW s PROVE setSUBFlags(x, z, s, user) = setADDFlags(x, y, s, user)
    OBVIOUS
  <2>1. (sign(z) <=> ~sign(y)) /\ sign(z) \in BOOLEAN /\ sign(y) \in BOOLEAN /\ sign(x) \in BOOLEAN
    BY <1>1, <1>2 DEF sign, Word
  <2> QED
    BY <2>1 DEF setSUBFlags, setADDFlags
<1> HIDE DEF y, c
<1>5. Carries(setADDFlags(x, y, Trunc(x + y + c), user), x, y, c, user)
  BY <1>2, AddFlagsAreCarries
<1> QED
  BY <1>3, <1>4, <1>5 DEF y, c

\* AOJ and AOS add 1, SOJ and SOS the number whose bits are all 1, MOVN the
\* complement of its operand to 0, with a carry.
LEMMA CountFlagsAreCarries ==
  ASSUME NEW w \in Word
  PROVE  /\ Carries(checkAOTraps(w), w, 0, 1, TRUE)
         /\ w # SignBit => Carries(checkSOTraps(w), w, all1s, 0, TRUE)
         /\ Carries(negate(w).flags, 0, all1s - w, 1, TRUE)
<1>1. SignBit \in Nat \ {0} /\ w \in 0 .. 2 * SignBit - 1 /\ 0 \in Word /\ all1s \in Word /\ all1s - w \in Word
  BY SignedNumbers DEF Word, all1s
<1>2. /\ mag(w) = (IF w < SignBit THEN w ELSE w - SignBit) /\ mag(0) = 0
      /\ mag(all1s) = SignBit - 1
      /\ mag(all1s - w) = IF w < SignBit THEN SignBit - 1 - w ELSE all1s - w
  <2>1. \A v \in Word : mag(v) = IF v < SignBit THEN v ELSE v - SignBit
    BY MagOfWord
  <2>2. mag(w) = (IF w < SignBit THEN w ELSE w - SignBit) /\ mag(0) = 0
    BY <1>1, <2>1
  <2>3. mag(all1s) = SignBit - 1
    BY <1>1, <2>1 DEF all1s
  <2>4. mag(all1s - w) = IF w < SignBit THEN SignBit - 1 - w ELSE all1s - w
    <3>1. mag(all1s - w) = IF all1s - w < SignBit THEN all1s - w ELSE all1s - w - SignBit
      BY <1>1, <2>1
    <3> QED
      BY <1>1, <3>1 DEF all1s
  <2> QED
    BY <2>2, <2>3, <2>4
<1>3. Carries(checkAOTraps(w), w, 0, 1, TRUE)
  <2>1. CASE w = SignBit - 1
    BY <1>1, <1>2, <2>1 DEF Carries, checkAOTraps, all1s
  <2>2. CASE w = all1s
    <3>1. checkAOTraps(w) = {"cy0", "cy1"}
      BY <1>1, <2>2 DEF checkAOTraps, all1s
    <3> QED
      BY <1>1, <1>2, <2>2, <3>1 DEF Carries, all1s
  <2>3. CASE w # SignBit - 1 /\ w # all1s
    BY <1>1, <1>2, <2>3 DEF Carries, checkAOTraps, all1s
  <2> QED
    BY <2>1, <2>2, <2>3
<1>4. ASSUME w # SignBit PROVE Carries(checkSOTraps(w), w, all1s, 0, TRUE)
  <2>1. CASE w = 0
    <3>1. checkSOTraps(w) = {}
      BY <1>1, <2>1 DEF checkSOTraps
    <3> QED
      BY <1>1, <1>2, <2>1, <3>1 DEF Carries, all1s
  <2>2. CASE w # 0
    <3>1. checkSOTraps(w) = {"cy0", "cy1"}
      BY <1>1, <1>4, <2>2 DEF checkSOTraps
    <3> QED
      BY <1>1, <1>2, <1>4, <2>2, <3>1 DEF Carries, all1s
  <2> QED
    BY <2>1, <2>2
<1>5. Carries(negate(w).flags, 0, all1s - w, 1, TRUE)
  <2>1. CASE w = SignBit
    <3>1. negate(w).flags = {"tr1", "ov", "cy1"}
      BY <1>1, <2>1 DEF negate
    <3> QED
      BY <1>1, <1>2, <2>1, <3>1 DEF Carries, all1s
  <2>2. CASE w = 0
    <3>1. negate(w).flags = {"cy0", "cy1"}
      BY <1>1, <2>2 DEF negate
    <3> QED
      BY <1>1, <1>2, <2>2, <3>1 DEF Carries, all1s
  <2>3. CASE w # SignBit /\ w # 0
    <3>1. negate(w).flags = {}
      BY <1>1, <2>3 DEF negate
    <3> QED
      BY <1>1, <1>2, <2>3, <3>1 DEF Carries, all1s
  <2> QED
    BY <2>1, <2>2, <2>3
<1> QED
  BY <1>3, <1>4, <1>5

\* Flags that were off before the instruction are the ones it turned on.
LEMMA NewFlags ==
  ASSUME flags \subseteq {"usr"}, NEW f, NEW x, NEW y, NEW c, NEW user \in BOOLEAN,
         flags' = flags \union f, Carries(f, x, y, c, user)
  PROVE  /\ flagsAreCarries(x, y, c)
         /\ overflowed = (user /\ (carry0(x, y, c) # carry1(x, y, c)))
         /\ overflowed = ("tr1" \in f)
<1>1. /\ "cy0" \in flags' <=> "cy0" \in f
      /\ "cy1" \in flags' <=> "cy1" \in f
      /\ "ov" \in flags' <=> "ov" \in f
      /\ "tr1" \in flags' <=> "tr1" \in f
  OBVIOUS
<1> DEFINE A == x + y + c > all1s
           B == mag(x) + mag(y) + c >= SignBit
<1>2. A \in BOOLEAN /\ B \in BOOLEAN
  OBVIOUS
<1>3. carry0(x, y, c) = A /\ carry1(x, y, c) = B
  BY DEF carry0, carry1
<1>4. /\ "cy0" \in f <=> A
      /\ "cy1" \in f <=> B
      /\ "ov" \in f <=> "tr1" \in f
      /\ "tr1" \in f <=> user /\ ~(A <=> B)
  BY DEF Carries
<1> HIDE DEF A, B
<1>5. ("cy0" \in flags') = A /\ ("cy1" \in flags') = B
  BY <1>1, <1>2, <1>4
<1>6. flagsAreCarries(x, y, c)
  BY <1>3, <1>5 DEF flagsAreCarries
<1>7. overflowed <=> "tr1" \in f
  BY <1>1, <1>4 DEF overflowed
<1>8. overflowed \in BOOLEAN
  BY DEF overflowed
<1>9. overflowed = ("tr1" \in f)
  BY <1>7, <1>8
<1>10. overflowed = (user /\ (A # B))
  BY <1>2, <1>4, <1>7, <1>8
<1> QED
  BY <1>3, <1>6, <1>9, <1>10

\* No flag but User is on when an instruction begins.
FlagsClear == InitFlags \subseteq SUBSET {"usr"}

\* AOJ and AOS, SOJ and SOS.
LEMMA CountCarries ==
  ASSUME FlagsClear, Ready, Next, op \in CountOps
  PROVE  /\ op \in \o340 .. \o357 => singleCarries(counted, 0, 1)
         /\ op \in \o360 .. \o377 /\ counted # SignBit => singleCarries(counted, all1s, 0)
<1>1. /\ store \in [Addr -> Word] /\ ac \in Addr /\ ea \in Addr /\ op \in Nat
      /\ flags \subseteq {"usr"} /\ DoCount(iw')
  <2>1. op \notin ShiftOps
    BY OneStep DEF CountOps, ShiftOps
  <2>2. flags \in InitFlags
    BY OneStep
  <2>3. flags \subseteq {"usr"}
    BY <2>2 DEF FlagsClear
  <2>4. DoCount(iw')
    BY Selected
  <2> QED
    BY <2>1, <2>3, <2>4, OneStep
<1>2. counted \in Word
  BY <1>1 DEF counted
<1>3. flags' = flags \union (IF op < \o360 THEN checkAOTraps(counted) ELSE checkSOTraps(counted))
  BY <1>1 DEF DoCount, Done, counted, acGet, memGet, op, ac, ea
<1>4. CASE op \in \o340 .. \o357
  <2>1. flags' = flags \union checkAOTraps(counted)
    BY <1>3, <1>4
  <2>2. Carries(checkAOTraps(counted), counted, 0, 1, TRUE)
    BY <1>2, CountFlagsAreCarries
  <2>3. flagsAreCarries(counted, 0, 1) /\ overflowed = (TRUE /\ carry0(counted, 0, 1) # carry1(counted, 0, 1))
    BY <1>1, <2>1, <2>2, NewFlags, Zenon DEF flagsAreCarries
  <2> QED
    BY <1>4, <2>3 DEF singleCarries
<1>5. CASE op \in \o360 .. \o377 /\ counted # SignBit
  <2>1. flags' = flags \union checkSOTraps(counted)
    BY <1>3, <1>5
  <2>2. Carries(checkSOTraps(counted), counted, all1s, 0, TRUE)
    BY <1>2, <1>5, CountFlagsAreCarries
  <2>3. /\ flagsAreCarries(counted, all1s, 0)
        /\ overflowed = (TRUE /\ carry0(counted, all1s, 0) # carry1(counted, all1s, 0))
    BY <1>1, <2>1, <2>2, NewFlags, Zenon DEF flagsAreCarries
  <2> QED
    BY <1>5, <2>3 DEF singleCarries
<1> QED
  BY <1>4, <1>5

\* MOVN.
LEMMA MoveCarries ==
  ASSUME FlagsClear, Ready, Next, op \in \o210 .. \o213
  PROVE  singleCarries(0, all1s - negated, 1)
<1>1. /\ store \in [Addr -> Word] /\ ac \in Addr /\ op \in Nat
      /\ op \notin ShiftOps => ea \in Addr
  BY OneStep
<1>2. ea \in Addr /\ Addr \subseteq Word
  BY <1>1, SignedNumbers DEF ShiftOps, Addr
<1>3. flags \subseteq {"usr"}
  <2>1. flags \in InitFlags
    BY OneStep
  <2> QED
    BY <2>1 DEF FlagsClear
<1>4. DoMove(iw')
  BY Selected DEF MoveOps
<1>5. negated \in Word
  BY <1>1, <1>2 DEF negated, operand
<1>6. MoveSource(iw') = negated
  BY DEF MoveSource, negated, operand, acGet, Source, immediate, memGet, ac, ea
<1>7. flags' = flags \union negate(negated).flags
  BY <1>4, <1>6 DEF DoMove, Done, op
<1>8. Carries(negate(negated).flags, 0, all1s - negated, 1, TRUE)
  BY <1>5, CountFlagsAreCarries
<1>9. /\ flagsAreCarries(0, all1s - negated, 1)
      /\ overflowed = (TRUE /\ carry0(0, all1s - negated, 1) # carry1(0, all1s - negated, 1))
  BY <1>3, <1>7, <1>8, NewFlags, Zenon DEF flagsAreCarries
<1> QED
  BY <1>9 DEF singleCarries

\* The low words' carry and borrow.
LEMMA LowCarries ==
  ASSUME NEW v \in Word, NEW w \in Word
  PROVE  /\ (mag(v) + mag(w)) \div SignBit \in 0 .. 1
         /\ (IF mag(v) >= mag(w) THEN 1 ELSE 0) = 1 - (IF mag(v) - mag(w) < 0 THEN 1 ELSE 0)
<1>1. SignBit \in Nat \ {0} /\ mag(v) \in 0 .. SignBit - 1 /\ mag(w) \in 0 .. SignBit - 1
  BY MagRange
<1> DEFINE n == mag(v) + mag(w)
           q == n \div SignBit
           r == n % SignBit
<1>2. n \in 0 .. 2 * SignBit - 2
  BY <1>1
<1>3. q \in Int /\ r \in 0 .. SignBit - 1 /\ n = SignBit * q + r
  <2> HIDE DEF n
  <2> QED
    BY <1>1, <1>2, Euclid
<1> HIDE DEF q, r, n
<1>4. q \in 0 .. 1
  <2>1. CASE q >= 2
    <3>1. SignBit * q >= 2 * SignBit
      BY <1>1, <1>3, <2>1
    <3> QED
      BY <1>1, <1>2, <1>3, <3>1
  <2>2. CASE q <= -1
    <3>1. SignBit * q <= -SignBit
      BY <1>1, <1>3, <2>2
    <3> QED
      BY <1>1, <1>2, <1>3, <3>1
  <2> QED
    BY <1>3, <2>1, <2>2
<1> QED
  BY <1>1, <1>4 DEF q, n

\* DADD and DSUB, on their high words and what comes from the low ones.
LEMMA DoubleCarries ==
  ASSUME FlagsClear, Ready, Next, op \in {\o114, \o115}, ran
  PROVE  LET a == acGet2(iw')
             b == memGet2(iw')
             lowSum == (mag(a.lo) + mag(b.lo)) \div SignBit
             lowDiff == IF mag(a.lo) >= mag(b.lo) THEN 1 ELSE 0
         IN  /\ op = \o114 => doubleCarries(a.hi, b.hi, lowSum)
             /\ op = \o115 => doubleCarries(a.hi, all1s - b.hi, lowDiff)
<1> DEFINE a == acGet2(iw')
           b == memGet2(iw')
           u == "usr" \in flags
           lowSum == (mag(a.lo) + mag(b.lo)) \div SignBit
           borrow == IF mag(a.lo) - mag(b.lo) < 0 THEN 1 ELSE 0
           lowDiff == IF mag(a.lo) >= mag(b.lo) THEN 1 ELSE 0
           s == Trunc(a.hi + b.hi + lowSum)
           d == Trunc(a.hi - b.hi - borrow)
           f == IF op = \o114 THEN setADDFlags(a.hi, b.hi, s, u) ELSE setSUBFlags(a.hi, b.hi, d, u)
<1>1. flags \subseteq {"usr"}
  <2>1. flags \in InitFlags
    BY OneStep
  <2> QED
    BY <2>1 DEF FlagsClear
<1>2. /\ DoDoubleSum(iw')
      /\ a.hi \in Word /\ a.lo \in Word /\ b.hi \in Word /\ b.lo \in Word
  BY DoubleOperands
<1>3. flags' = flags \union f /\ result' = IF "tr1" \in f THEN "iTrap" ELSE "iNormal"
  BY <1>2 DEF DoDoubleSum, Done, doubleAdd, doubleSub, op
<1>4. u \in BOOLEAN
  OBVIOUS
<1>5. lowSum \in 0 .. 1 /\ borrow \in 0 .. 1 /\ lowDiff = 1 - borrow
  <2>1. lowSum \in 0 .. 1 /\ lowDiff = 1 - borrow
    BY <1>2, LowCarries
  <2>2. borrow \in 0 .. 1
    OBVIOUS
  <2> QED
    BY <2>1, <2>2
<1>6. ((result' = "iTrap") <=> "tr1" \in f) /\ (result' = "iTrap") \in BOOLEAN
  BY <1>3
<1> HIDE DEF a, b, u, lowSum, borrow, lowDiff, f
<1>7. CASE op = \o114
  <2>1. Carries(setADDFlags(a.hi, b.hi, Trunc(a.hi + b.hi + lowSum), u), a.hi, b.hi, lowSum, u)
    BY <1>2, <1>4, <1>5, AddFlagsAreCarries
  <2>2. Carries(f, a.hi, b.hi, lowSum, u)
    BY <1>7, <2>1 DEF f
  <2>3. /\ flagsAreCarries(a.hi, b.hi, lowSum)
        /\ overflowed = (u /\ carry0(a.hi, b.hi, lowSum) # carry1(a.hi, b.hi, lowSum))
        /\ overflowed = ("tr1" \in f)
    BY <1>1, <1>3, <1>4, <2>2, NewFlags, Zenon DEF flagsAreCarries
  <2>4. (result' = "iTrap") = overflowed
    BY <1>6, <2>3
  <2> QED
    BY <1>7, <2>3, <2>4 DEF doubleCarries, u, a, b, lowSum
<1>8. CASE op = \o115
  <2> DEFINE y == all1s - b.hi
             c == 1 - borrow
  <2>1. Carries(setSUBFlags(a.hi, b.hi, Trunc(a.hi - b.hi - borrow), u), a.hi, y, c, u)
    BY <1>2, <1>4, <1>5, SubFlagsAreCarries
  <2> HIDE DEF y
  <2>2. Carries(f, a.hi, y, lowDiff, u)
    BY <1>5, <1>8, <2>1 DEF f
  <2>3. /\ flagsAreCarries(a.hi, y, lowDiff)
        /\ overflowed = (u /\ carry0(a.hi, y, lowDiff) # carry1(a.hi, y, lowDiff))
        /\ overflowed = ("tr1" \in f)
    BY <1>1, <1>3, <1>4, <2>2, NewFlags, Zenon DEF flagsAreCarries
  <2>4. (result' = "iTrap") = overflowed
    BY <1>6, <2>3
  <2> QED
    BY <1>8, <2>3, <2>4 DEF doubleCarries, u, a, b, lowDiff, y
<1> QED
  BY <1>7, <1>8 DEF a, b, lowSum, lowDiff

\* CarriesAreTrue: an instruction that begins with its flags off leaves in them the
\* carries of the addition it makes (flagging helpers of km10.cpp and i-dword.cpp).
THEOREM CarriesTrue ==
  ASSUME FlagsClear
  PROVE  Spec => CarriesAreTrue
<1>1. Ready /\ [Next]_vars => [carriesAreTrue]_vars
  <2> SUFFICES ASSUME Ready, Next
               PROVE  carriesAreTrue
    OBVIOUS
  <2>1. op \in {\o114, \o115} /\ ran =>
          LET a == acGet2(iw')
              b == memGet2(iw')
              lowSum == (mag(a.lo) + mag(b.lo)) \div SignBit
              lowDiff == IF mag(a.lo) >= mag(b.lo) THEN 1 ELSE 0
          IN  /\ op = \o114 => doubleCarries(a.hi, b.hi, lowSum)
              /\ op = \o115 => doubleCarries(a.hi, all1s - b.hi, lowDiff)
    BY DoubleCarries
  <2>2. /\ op \in \o340 .. \o357 => singleCarries(counted, 0, 1)
        /\ op \in \o360 .. \o377 /\ counted # SignBit => singleCarries(counted, all1s, 0)
    BY CountCarries DEF CountOps
  <2>3. op \in \o210 .. \o213 => singleCarries(0, all1s - negated, 1)
    BY MoveCarries
  <2> QED
    BY <2>1, <2>2, <2>3 DEF carriesAreTrue
<1> QED
  BY <1>1, ReadyInvariant, PTL DEF Spec, CarriesAreTrue

----------------------------------------------------------------------------
\* Words that are kept.

\* A replacement leaves the other words.
LEMMA PutOutside ==
  ASSUME NEW s, DOMAIN s = Addr, NEW x \in Addr, NEW y, x # y, NEW v
  PROVE  DOMAIN Put(s, y, v) = Addr /\ Put(s, y, v)[x] = s[x]
BY DEF Put

\* So do the replacements that handlers make, each outside the words it names.
LEMMA PutsOutside ==
  ASSUME DOMAIN store = Addr, NEW i, i.op \in Nat, NEW x \in Addr, NEW v,
         mode(i) \in {"M", "B"} => x # i.ea
  PROVE  /\ x # i.ac => acPut(i, v)[x] = store[x] /\ PutByMode(i, v)[x] = store[x]
         /\ x # i.ea /\ (x # i.ac \/ i.ac = 0) => selfPut(i, v)[x] = store[x]
         /\ x # i.ac \/ (mode(i) = "B" /\ i.ac = 0) => PutMoved(i, v)[x] = store[x]
         /\ x # i.ac /\ x # i.ac + 1 => acPut2(i, v)[x] = store[x]
         /\ x # i.ac /\ (mode(i) # "M" => x # i.ac + 1) => PutByMode2(i, v)[x] = store[x]
<1>1. mode(i) \in {"", "I", "M", "B"}
  BY Modes
<1>2. ASSUME x # i.ac, NEW w
      PROVE  DOMAIN acPut(i, w) = Addr /\ acPut(i, w)[x] = store[x]
  BY <1>2, PutOutside DEF acPut
<1>3. ASSUME x # i.ea, NEW w
      PROVE  memPut(i, w)[x] = store[x]
  BY <1>3, PutOutside DEF memPut
<1>4. ASSUME x # i.ea, x # i.ac, NEW w
      PROVE  bothPut(i, w)[x] = store[x]
  BY <1>2, <1>4, PutOutside DEF bothPut
<1>5. ASSUME x # i.ea, x # i.ac \/ i.ac = 0, NEW w
      PROVE  selfPut(i, w)[x] = store[x]
  BY <1>3, <1>4, <1>5 DEF selfPut
<1>6. ASSUME x # i.ac, x # i.ac + 1, NEW d
      PROVE  DOMAIN acPut2(i, d) = Addr /\ acPut2(i, d)[x] = store[x]
  BY <1>2, <1>6, PutOutside DEF acPut2
<1>7. ASSUME x # i.ac PROVE PutByMode(i, v)[x] = store[x]
  BY <1>1, <1>2, <1>3, <1>4, <1>7 DEF PutByMode
<1>8. ASSUME x # i.ac \/ (mode(i) = "B" /\ i.ac = 0) PROVE PutMoved(i, v)[x] = store[x]
  BY <1>1, <1>2, <1>3, <1>5, <1>8 DEF PutMoved
<1>9. ASSUME x # i.ac, mode(i) # "M" => x # i.ac + 1 PROVE PutByMode2(i, v)[x] = store[x]
  <2>1. CASE mode(i) \in {"", "I"}
    BY <1>6, <1>9, <2>1 DEF PutByMode2
  <2>2. CASE mode(i) = "M"
    BY <1>3, <2>2 DEF PutByMode2
  <2>3. CASE mode(i) = "B"
    <3>1. bothPut2(i, v)[x] = store[x]
      BY <1>6, <1>9, <2>3, PutOutside DEF bothPut2
    <3> QED
      BY <2>3, <3>1 DEF PutByMode2
  <2> QED
    BY <1>1, <2>1, <2>2, <2>3
<1> QED
  BY <1>2, <1>5, <1>6, <1>7, <1>8, <1>9

\* Every handler writes only where onlyNamedWordsChange lets it.
LEMMA FrameStep == Ready /\ Next => onlyNamedWordsChange
<1> DEFINE i == iw'
<1> SUFFICES ASSUME Ready, Next, NEW x \in Addr, ~named(x)
             PROVE  store'[x] = store[x]
  BY DEF onlyNamedWordsChange
<1>1. store \in [Addr -> Word] /\ op \in Nat /\ DOMAIN store = Addr /\ Execute(i) /\ x \in Addr
  BY OneStep
<1>2. /\ op = i.op /\ ac = i.ac /\ ea = i.ea
  BY DEF op, ac, ea
<1>3. /\ op \in {\o124, \o125} => x # ea /\ x # next(ea)
      /\ writesMemory => x # ea
      /\ op \notin {\o124, \o125} /\ ~(sparesAC0 /\ ac = 0) => x # ac
      /\ op \notin {\o124, \o125} /\ NeedsPair(i) => x # ac + 1
  BY DEF named, storesPair
<1>7. /\ op \in BooleanOps => DoBoolean(i)
      /\ op \in TestOps => DoTest(i)
      /\ op \in \o270 .. \o277 => DoAddSub(i)
      /\ op \in MoveOps => DoMove(i)
      /\ op \in HalfOps => DoHalf(i)
  BY Selected, SelectedBits
<1> HIDE DEF i
<1>4. CASE Abort(i)
  BY <1>4 DEF Abort, Done
<1>5. CASE Single(i)
  <2>1. CASE op \in MoveOps \/ op \in HalfOps
    <3>1. PICK v : store' = PutMoved(i, v)
      <4>1. CASE i.op \in MoveOps
        <5>1. DoMove(i)
          BY <1>2, <1>7, <4>1
        <5> DEFINE v == MoveSource(i)
                   r == CASE i.op \in \o200 .. \o203 -> [value |-> v, flags |-> {}]
                          [] i.op \in \o204 .. \o207 -> [value |-> swap(v), flags |-> {}]
                          [] i.op \in \o210 .. \o213 -> negate(v)
                          [] i.op \in \o214 .. \o217 -> magnitude(v)
        <5>2. store' = PutMoved(i, r.value)
          BY <5>1, Zenon DEF DoMove, Done
        <5> HIDE DEF r
        <5> QED
          BY <5>2
      <4>2. CASE i.op \in HalfOps
        <5>1. DoHalf(i)
          BY <1>2, <1>7, <4>2
        <5> DEFINE group == (i.op - \o500) \div 4
                   to == IF group < 8 THEN "L" ELSE "R"
                   from == IF group % 2 = 0 THEN to ELSE IF to = "L" THEN "R" ELSE "L"
                   fill == <<"", "Z", "O", "E">>[((group \div 2) % 4) + 1]
                   v == fillHalf(fill, to, copyHalf(from, to, MoveSource(i), MoveInto(i)))
        <5>2. store' = PutMoved(i, v)
          BY <5>1, Zenon DEF DoHalf, Finish, Done
        <5> HIDE DEF v
        <5> QED
          BY <5>2
      <4> QED
        BY <1>2, <2>1, <4>1, <4>2
    <3>2. /\ op \notin {\o124, \o125}
          /\ mode(i) \in {"M", "B"} => writesMemory
          /\ sparesAC0 <=> mode(i) = "B"
      BY <2>1 DEF MoveOps, HalfOps, CountOps, writesMemory, sparesAC0, isSelf, i
    <3>3. (mode(i) \in {"M", "B"} => x # i.ea) /\ (x # i.ac \/ (mode(i) = "B" /\ i.ac = 0))
      BY <1>2, <1>3, <3>2
    <3> QED
      BY <1>1, <1>2, <3>1, <3>3, PutsOutside
  <2>2. CASE op = EXCH
    <3>1. store' = Put(acPut(i, memGet(i)), i.ea, acGet(i))
      BY <1>2, <1>5, <2>2 DEF Single, DoEXCH, Finish, Done, MoveOps, HalfOps, EXCH, BooleanOps, TestOps,
             CompareOps, CountOps
    <3>2. x # i.ea /\ x # i.ac
      BY <1>2, <1>3, <2>2 DEF EXCH, writesMemory, sparesAC0, isSelf, MoveOps, HalfOps, CountOps
    <3> QED
      BY <1>1, <3>1, <3>2, PutOutside DEF acPut
  <2>3. CASE op \in BooleanOps \/ op \in \o270 .. \o277 \/ op \in \o220 .. \o223
    <3>1. PICK v : store' = PutByMode(i, v)
      <4>1. CASE op \in BooleanOps
        BY <1>7, <4>1 DEF DoBoolean, Finish, Done
      <4>2. CASE op \in \o270 .. \o277
        BY <1>7, <4>2 DEF DoAddSub, Done
      <4>3. CASE op \in \o220 .. \o223
        <5>1. DoIMUL(i)
          BY <1>2, <1>5, <4>3 DEF Single, MoveOps, HalfOps, EXCH, BooleanOps, TestOps, CompareOps, CountOps
        <5> QED
          BY <5>1 DEF DoIMUL, Done
      <4> QED
        BY <2>3, <4>1, <4>2, <4>3
    <3>2. /\ op \notin {\o124, \o125} /\ ~sparesAC0
          /\ mode(i) \in {"M", "B"} => writesMemory
      BY <2>3 DEF MoveOps, HalfOps, CountOps, BooleanOps, ArithOps, writesMemory, sparesAC0, isSelf, i
    <3> QED
      BY <1>1, <1>2, <1>3, <3>1, <3>2, PutsOutside
  <2>4. CASE op \in TestOps \/ op \in \o240 .. \o242
    <3>1. store' = store \/ \E v : store' = acPut(i, v)
      <4>1. CASE i.op \in TestOps
        <5>1. DoTest(i)
          BY <1>2, <1>7, <4>1
        <5> DEFINE modify == <<"N", "Z", "C", "O">>[((i.op - \o600) \div 16) + 1]
        <5>2. CASE modify = "N"
          BY <5>1, <5>2 DEF DoTest, Done
        <5>3. CASE modify # "N"
          <6> DEFINE byHalf == (i.op \div 8) % 2 = 0
                     m == Masked(modify, IF byHalf THEN TestedHalf(i) ELSE acGet(i),
                                 IF byHalf THEN i.ea ELSE TestMask(i))
          <6>1. store' = CASE modify = "N" -> store
                           [] modify # "N" /\ byHalf -> acPutHalf(i, m)
                           [] OTHER -> acPut(i, m)
            BY <5>1, Zenon DEF DoTest, Done
          <6> HIDE DEF byHalf, m, modify
          <6>2. store' = acPutHalf(i, m) \/ store' = acPut(i, m)
            BY <5>3, <6>1
          <6> QED
            BY <6>2 DEF acPutHalf
        <5> QED
          BY <5>2, <5>3
      <4>2. CASE i.op \in \o240 .. \o242
        <5>1. DoShift(i)
          BY <1>5, <4>2 DEF Single, MoveOps, HalfOps, EXCH, BooleanOps, TestOps, CompareOps, CountOps
        <5> QED
          BY <5>1 DEF DoShift, Done
      <4> QED
        BY <1>2, <2>4, <4>1, <4>2
    <3>2. op \notin {\o124, \o125} /\ ~sparesAC0
      BY <2>4 DEF TestOps, MoveOps, HalfOps, CountOps, sparesAC0, isSelf
    <3> QED
      BY <1>1, <1>2, <1>3, <3>1, <3>2, PutOutside DEF acPut
  <2>5. CASE op \in CompareOps \/ op \in \o320 .. \o327
    BY <1>2, <1>5, <2>5 DEF Single, DoCompare, DoJump, Done, MoveOps, HalfOps, EXCH, BooleanOps, TestOps,
           CompareOps, CountOps
  <2>6. CASE op \in \o330 .. \o337
    <3>1. store' = store \/ (i.ac # 0 /\ store' = acPut(i, memGet(i)))
      BY <1>2, <1>5, <2>6 DEF Single, DoSkip, Done, MoveOps, HalfOps, EXCH, BooleanOps, TestOps,
             CompareOps, CountOps
    <3>2. op \notin {\o124, \o125}
      BY <2>6
    <3> QED
      BY <1>1, <1>2, <1>3, <3>1, <3>2, PutOutside DEF acPut
  <2>7. CASE op \in CountOps
    <3>1. DoCount(i)
      BY <1>2, <1>5, <2>7 DEF Single, MoveOps, HalfOps, EXCH, BooleanOps, TestOps, CompareOps, CountOps
    <3>2. PICK v : store' = IF op % 16 >= 8 THEN selfPut(i, v) ELSE acPut(i, v)
      BY <1>2, <3>1 DEF DoCount, Done
    <3>3. /\ op \notin {\o124, \o125}
          /\ op % 16 >= 8 => writesMemory
          /\ ~(op % 16 >= 8) => ~sparesAC0
      BY <2>7 DEF CountOps, MoveOps, HalfOps, writesMemory, sparesAC0, isSelf
    <3>4. CASE op % 16 >= 8
      <4>1. x # i.ea /\ (x # i.ac \/ i.ac = 0)
        BY <1>2, <1>3, <3>3, <3>4
      <4> QED
        BY <1>1, <1>2, <3>2, <3>4, <4>1, PutsOutside
    <3>5. CASE ~(op % 16 >= 8)
      <4>1. x # i.ac
        BY <1>2, <1>3, <3>3, <3>5
      <4> QED
        BY <1>1, <3>2, <3>5, <4>1, PutOutside DEF acPut
    <3> QED
      BY <3>4, <3>5
  <2> QED
    BY <1>2, <1>5, <2>1, <2>2, <2>3, <2>4, <2>5, <2>6, <2>7 DEF Single
<1>6. CASE Pair(i)
  <2>1. CASE op \in \o224 .. \o237
    <3>1. DoMulDiv(i)
      BY <1>2, <1>6, <2>1 DEF Pair, DoDoubleMove
    <3>2. PICK v : store' = PutByMode2(i, v)
      BY <3>1 DEF DoMulDiv, Done
    <3>3. /\ op \notin {\o124, \o125} /\ ~sparesAC0
          /\ mode(i) \in {"M", "B"} => writesMemory
          /\ mode(i) # "M" => NeedsPair(i)
      BY <1>2, <2>1 DEF MoveOps, HalfOps, CountOps, ArithOps, writesMemory, sparesAC0, isSelf, NeedsPair, i
    <3> QED
      BY <1>1, <1>2, <1>3, <3>2, <3>3, PutsOutside
  <2>2. CASE op \in {\o114, \o115, \o120, \o121, \o243, \o244, \o245}
    <3>1. op \notin {\o124, \o125} /\ ~sparesAC0 /\ NeedsPair(i)
      BY <1>2, <2>2 DEF MoveOps, HalfOps, CountOps, sparesAC0, isSelf, NeedsPair, DoubleOps
    <3>2. x # i.ac /\ x # i.ac + 1
      BY <1>2, <1>3, <3>1
    <3>3. \/ store' = store
          \/ \E v : store' = acPut2(i, v)
          \/ \E v : store' = Put(store, i.ac + 1, v)
          \/ \E v, w : store' = Put(Put(store, i.ac, v), i.ac + 1, w)
      <4>1. CASE i.op \in {\o114, \o115}
        BY <1>6, <4>1 DEF Pair, DoDoubleMove, DoDoubleSum, Done
      <4>2. CASE i.op \in {\o120, \o121}
        <5>1. DoDMOVE(i) \/ DoDMOVN(i)
          BY <1>6, <4>2 DEF Pair, DoDoubleMove
        <5> QED
          BY <5>1 DEF DoDMOVE, DoDMOVN, Finish, Done, acPut
      <4>3. CASE i.op \in {\o243, \o244, \o245}
        <5>1. DoJFFO(i) \/ DoDoubleShift(i)
          BY <1>6, <4>3 DEF Pair, DoDoubleMove
        <5> QED
          BY <5>1 DEF DoJFFO, DoDoubleShift, Done
      <4> QED
        BY <1>2, <2>2, <4>1, <4>2, <4>3
    <3> QED
      BY <1>1, <3>2, <3>3, PutOutside DEF acPut2, acPut
  <2>3. CASE op \in {\o124, \o125}
    <3>1. \E v, w : store' = Put(Put(store, i.ea, v), next(i.ea), w)
      <4>1. DoDMOVEM(i) \/ DoDMOVNM(i)
        BY <1>2, <1>6, <2>3 DEF Pair, DoDoubleMove
      <4> QED
        BY <4>1 DEF DoDMOVEM, DoDMOVNM, Finish, Done, memPut
    <3>2. x # i.ea /\ x # next(i.ea)
      BY <1>2, <1>3, <2>3
    <3> QED
      BY <1>1, <3>1, <3>2, PutOutside
  <2> QED
    BY <1>2, <1>6, <2>1, <2>2, <2>3 DEF Pair, DoDoubleMove
<1> QED
  BY <1>1, <1>4, <1>5, <1>6 DEF Execute

\* DMOVE and DMOVEM.
LEMMA DoubleMoveStep == Ready /\ Next => doubleMoveCopies
<1> SUFFICES ASSUME Ready, Next, ran, op \in {\o120, \o124}
             PROVE  doubleMoveCopies
  BY DEF doubleMoveCopies
<1> DEFINE i == iw'
<1>1. store \in [Addr -> Word] /\ op \in Nat /\ ac \in Addr /\ Execute(i)
  BY OneStep
<1>2. op = i.op /\ ac = i.ac /\ ea = i.ea
  BY DEF op, ac, ea
<1> HIDE DEF i
<1>3. Pair(i)
  <2>1. ~Abort(i)
    BY DEF Abort, Done, ran
  <2>2. ~Single(i)
    BY <1>2 DEF Single, MoveOps, HalfOps, EXCH, BooleanOps, TestOps, CompareOps, CountOps
  <2> QED
    BY <1>1, <2>1, <2>2 DEF Execute
<1>4. HasPair(i)
  BY <1>2, <1>3 DEF Pair, NeedsPair, DoubleOps
<1>5. ac + 1 \in Addr /\ ea \in Addr /\ ac + 1 # ac
  <2>1. HasPair(iw')
    BY <1>4 DEF i
  <2> QED
    BY <1>1, <2>1, OneStep DEF ShiftOps, Addr, HalfWord
<1>6. next(ea) \in Addr /\ next(ea) # ea
  <2>1. HalfSize \in Nat \ {0} /\ HalfSize >= 2 /\ ea \in 0 .. HalfSize - 1
    BY <1>5, SignOfHalf, WordAssumption DEF Addr, HalfWord
  <2> DEFINE n == ea + 1
  <2>2. n \in Int /\ -HalfSize <= n /\ n < 2 * HalfSize /\ n >= 1 /\ n <= HalfSize
    BY <2>1
  <2> HIDE DEF n
  <2>3. n % HalfSize = IF n < 0 THEN n + HalfSize ELSE IF n < HalfSize THEN n ELSE n - HalfSize
    BY <2>1, <2>2, NearRemainder
  <2>4. next(ea) = IF n < HalfSize THEN n ELSE n - HalfSize
    BY <2>2, <2>3 DEF next, n
  <2> QED
    BY <2>1, <2>2, <2>4 DEF n, Addr, HalfWord
<1>7. CASE op = \o120
  <2>1. DoDMOVE(i)
    BY <1>2, <1>3, <1>7 DEF Pair, DoDoubleMove
  <2>2. store' = Put(Put(store, ac, store[ea]), ac + 1, Put(store, ac, store[ea])[next(ea)])
    BY <1>2, <2>1 DEF DoDMOVE, Finish, Done, acPut, memGet
  <2>3. Put(store, ac, store[ea]) \in [Addr -> Word]
    BY <1>1, <1>5, Replaced
  <2>4. store'[ac] = store[ea] /\ store'[ac + 1] = Put(store, ac, store[ea])[next(ea)]
    BY <1>1, <1>5, <2>2, <2>3 DEF Put
  <2>5. ac # next(ea) => Put(store, ac, store[ea])[next(ea)] = store[next(ea)]
    BY <1>1, <1>6 DEF Put
  <2> QED
    BY <1>7, <2>4, <2>5 DEF doubleMoveCopies
<1>8. CASE op = \o124
  <2>1. DoDMOVEM(i)
    BY <1>2, <1>3, <1>8 DEF Pair, DoDoubleMove
  <2>2. store' = Put(Put(store, ea, store[ac]), next(ea), Put(store, ea, store[ac])[ac + 1])
    BY <1>2, <2>1 DEF DoDMOVEM, Finish, Done, memPut, acGet
  <2>3. Put(store, ea, store[ac]) \in [Addr -> Word]
    BY <1>1, <1>5, Replaced
  <2>4. store'[ea] = store[ac] /\ store'[next(ea)] = Put(store, ea, store[ac])[ac + 1]
    BY <1>1, <1>5, <1>6, <2>2, <2>3 DEF Put
  <2>5. ea # ac + 1 => Put(store, ea, store[ac])[ac + 1] = store[ac + 1]
    BY <1>1, <1>5 DEF Put
  <2> QED
    BY <1>8, <2>4, <2>5 DEF doubleMoveCopies
<1> QED
  BY <1>7, <1>8

\* WordsAreKept: no instruction writes a word it does not name, and DMOVE and DMOVEM
\* write the two words they read.
THEOREM WordsKept == Spec => WordsAreKept
<1>1. Ready /\ [Next]_vars => [doubleMoveCopies /\ onlyNamedWordsChange]_vars
  BY DoubleMoveStep, FrameStep
<1> QED
  BY <1>1, ReadyInvariant, PTL DEF Spec, WordsAreKept

----------------------------------------------------------------------------
\* Half words.

\* W36 of half words needs no truncation.
LEMMA W36OfHalves ==
  ASSUME NEW l \in HalfWord, NEW r \in HalfWord
  PROVE  /\ W36(l, r) = l * HalfSize + r /\ W36(l, r) \in Word
         /\ lhu(W36(l, r)) = l /\ rhu(W36(l, r)) = r
<1>1. HalfSize \in Nat \ {0} /\ l \in Int /\ r \in Int
  BY WordAssumption DEF HalfWord
<1>2. l % HalfSize = l
  BY <1>1, NearRemainder DEF HalfWord
<1>3. r % HalfSize = r
  BY <1>1, NearRemainder DEF HalfWord
<1>4. W36(l, r) = l * HalfSize + r
  BY <1>2, <1>3 DEF W36
<1> QED
  BY <1>1, <1>2, <1>3, <1>4, HalvesOfW36

\* The numbers at the ends of a half word's range.
LEMMA HalfNumbers ==
  ASSUME NEW h \in HalfWord
  PROVE  /\ h \in Int /\ 0 \in HalfWord /\ HalfSize - 1 \in HalfWord /\ h * HalfSize \in Int
         /\ extnOf(h) \in HalfWord
         /\ extnOf(h) = IF 2 * h >= HalfSize THEN HalfSize - 1 ELSE 0
         /\ h < SignBit
         /\ (HalfSize - 1) * HalfSize + h = all1s - (HalfSize - 1 - h)
         /\ 2 * h >= HalfSize => ext64((HalfSize - 1) * HalfSize + h) = h - HalfSize
         /\ ext64(h) = h
<1>1. HalfSize \in Nat \ {0} /\ SignBit \in Nat \ {0} /\ HalfSize * HalfSize = 2 * SignBit
      /\ HalfSize >= 2 /\ h \in 0 .. HalfSize - 1
  BY WordAssumption, SignOfHalf DEF HalfWord
<1>2. PICK k \in Nat : HalfSize = 2 * k
  <2> DEFINE k == HalfSize \div 2
  <2>1. k \in Nat /\ (HalfSize = 2 * k \/ HalfSize = 2 * k + 1)
    BY <1>1
  <2> HIDE DEF k
  <2>2. CASE HalfSize = 2 * k + 1
    <3>1. HalfSize * HalfSize = 2 * (2 * (k * k) + 2 * k) + 1
      BY <2>1, <2>2
    <3> QED
      BY <1>1, <2>1, <3>1
  <2> QED
    BY <2>1, <2>2
<1>3. SignBit = k * HalfSize /\ k >= 1 /\ HalfSize \div 2 = k
  BY <1>1, <1>2
<1>4. extnOf(h) = IF 2 * h >= HalfSize THEN HalfSize - 1 ELSE 0
  BY <1>1, <1>2, <1>3 DEF extnOf
<1>5. SignBit >= HalfSize
  BY <1>1, <1>2, <1>3
<1>6. (HalfSize - 1) * HalfSize + h = 2 * SignBit - HalfSize + h
  BY <1>1
<1>7. (HalfSize - 1) * HalfSize + h = all1s - (HalfSize - 1 - h)
  BY <1>1, <1>6 DEF all1s
<1>8. ext64(2 * SignBit - HalfSize + h) = h - HalfSize
  BY <1>1, <1>5 DEF ext64, sign
<1>9. ext64(h) = h /\ h < SignBit
  BY <1>1, <1>5 DEF ext64, sign
<1>10. h * HalfSize \in Int
  BY <1>1
<1> QED
  BY <1>1, <1>4, <1>6, <1>7, <1>8, <1>9, <1>10 DEF HalfWord

\* The half of a word an instruction sends.
halfSent(from, w) == IF from = "R" THEN w % HalfSize ELSE w \div HalfSize

\* What the four ways to fill make of a copied half.
halvesFilled(to, h, old, c) ==
    /\ halfBecomes(to, 0, h, old, fillHalf("", to, c))
    /\ halfBecomes(to, 1, h, old, fillHalf("Z", to, c))
    /\ halfBecomes(to, 2, h, old, fillHalf("O", to, c))
    /\ halfBecomes(to, 3, h, old, fillHalf("E", to, c))
    /\ \A f \in {"", "Z", "O", "E"} : fillHalf(f, to, c) \in Word

\* What copyHalf and fillHalf make of a half.
LEMMA HalfBecomes ==
  ASSUME NEW src \in Word, NEW old \in Word, NEW to \in {"L", "R"}, NEW from \in {"L", "R"},
         NEW h, h = halfSent(from, src), NEW c, c = copyHalf(from, to, src, old)
  PROVE  halvesFilled(to, h, old, c)
<1> DEFINE l == lhu(old)
           r == rhu(old)
           e == extnOf(h)
           n == HalfSize - 1
<1>1. h \in HalfWord /\ l \in HalfWord /\ r \in HalfWord /\ old = l * HalfSize + r
      /\ r = old % HalfSize /\ HalfSize \in Nat \ {0}
  BY Halves, WordAssumption DEF lhu, rhu, halfSent
<1>2. c = IF to = "R" THEN W36(l, h) ELSE W36(h, r)
  BY DEF copyHalf, lhu, rhu, halfSent
<1> HIDE DEF l, r
<1>3. /\ e \in HalfWord /\ n \in HalfWord /\ 0 \in HalfWord /\ h \in Int /\ h * HalfSize \in Int
      /\ e = (IF 2 * h >= HalfSize THEN n ELSE 0)
      /\ n * HalfSize + h = all1s - (HalfSize - 1 - h)
      /\ 2 * h >= HalfSize => ext64(n * HalfSize + h) = h - HalfSize
      /\ ext64(h) = h
  BY <1>1, HalfNumbers
<1> HIDE DEF e
<1>4. CASE to = "R"
  <2>1. c = W36(l, h) /\ c \in Word /\ rhu(c) = h /\ c = l * HalfSize + h
    BY <1>1, <1>2, <1>4, W36OfHalves
  <2>2. /\ fillHalf("", "R", c) = c
        /\ fillHalf("Z", "R", c) = W36(0, h)
        /\ fillHalf("O", "R", c) = W36(n, h)
        /\ fillHalf("E", "R", c) = W36(e, h)
    BY <2>1 DEF fillHalf, e
  <2> HIDE DEF n
  <2>3. /\ W36(0, h) = 0 * HalfSize + h /\ W36(0, h) \in Word
        /\ W36(n, h) = n * HalfSize + h /\ W36(n, h) \in Word
        /\ W36(e, h) = e * HalfSize + h /\ W36(e, h) \in Word
    BY <1>1, <1>3, W36OfHalves
  <2>4. 0 * HalfSize + h = h
    BY <1>1, <1>3
  <2>5. halfBecomes(to, 0, h, old, c)
    <3>1. c - h = old - (old % HalfSize)
      <4> DEFINE lh == l * HalfSize
      <4>1. lh \in Int /\ h \in Int /\ r \in Int /\ c \in Int /\ old \in Int
        BY <1>1, <1>3, <2>1 DEF HalfWord, Word
      <4> HIDE DEF lh
      <4>2. c = lh + h /\ old = lh + r
        BY <1>1, <2>1 DEF lh
      <4> QED
        BY <1>1, <4>1, <4>2
    <3> QED
      BY <1>4, <3>1 DEF halfBecomes
  <2>6. halfBecomes(to, 1, h, old, W36(0, h))
    BY <1>4, <2>3, <2>4 DEF halfBecomes
  <2>7. halfBecomes(to, 2, h, old, W36(n, h))
    BY <1>3, <1>4, <2>3 DEF halfBecomes
  <2>8. halfBecomes(to, 3, h, old, W36(e, h))
    <3>1. ext64(W36(e, h)) = IF 2 * h >= HalfSize THEN h - HalfSize ELSE h
      <4>1. CASE 2 * h >= HalfSize
        BY <1>3, <2>3, <4>1
      <4>2. CASE ~(2 * h >= HalfSize)
        BY <1>3, <2>3, <2>4, <4>2
      <4> QED
        BY <4>1, <4>2
    <3> QED
      BY <1>4, <3>1 DEF halfBecomes
  <2>10. /\ halfBecomes(to, 0, h, old, fillHalf("", to, c))
         /\ halfBecomes(to, 1, h, old, fillHalf("Z", to, c))
         /\ halfBecomes(to, 2, h, old, fillHalf("O", to, c))
         /\ halfBecomes(to, 3, h, old, fillHalf("E", to, c))
    BY <2>2, <2>5, <2>6, <2>7, <2>8, <1>4
  <2>11. \A f \in {"", "Z", "O", "E"} : fillHalf(f, to, c) \in Word
    BY <2>1, <2>2, <2>3, <1>4
  <2> QED
    BY <2>10, <2>11, <1>4 DEF halvesFilled
<1>5. CASE to = "L"
  <2>1. c = W36(h, r) /\ c \in Word /\ lhu(c) = h /\ c = h * HalfSize + r
    BY <1>1, <1>2, <1>5, W36OfHalves
  <2>2. /\ fillHalf("", "L", c) = c
        /\ fillHalf("Z", "L", c) = W36(h, 0)
        /\ fillHalf("O", "L", c) = W36(h, n)
        /\ fillHalf("E", "L", c) = W36(h, e)
    BY <2>1 DEF fillHalf, e
  <2>3. /\ W36(h, 0) = h * HalfSize + 0 /\ W36(h, 0) \in Word
        /\ W36(h, n) = h * HalfSize + n /\ W36(h, n) \in Word
        /\ W36(h, e) = h * HalfSize + e /\ W36(h, e) \in Word
    BY <1>1, <1>3, W36OfHalves
  <2>4. h * HalfSize + 0 = h * HalfSize
    BY <1>3
  <2>5. halfBecomes(to, 0, h, old, c)
    <3>1. c - h * HalfSize = old % HalfSize
      <4> DEFINE hh == h * HalfSize
      <4>1. hh \in Int /\ r \in Int
        BY <1>1, <1>3 DEF HalfWord
      <4> HIDE DEF hh
      <4>2. c = hh + r
        BY <2>1 DEF hh
      <4>3. c - hh = old % HalfSize
        BY <1>1, <4>1, <4>2
      <4> QED
        BY <4>3 DEF hh
    <3> QED
      BY <1>5, <3>1 DEF halfBecomes
  <2>6. halfBecomes(to, 1, h, old, W36(h, 0))
    BY <1>5, <2>3, <2>4 DEF halfBecomes
  <2>7. halfBecomes(to, 2, h, old, W36(h, n))
    BY <1>5, <2>3 DEF halfBecomes
  <2>8. halfBecomes(to, 3, h, old, W36(h, e))
    <3> DEFINE signed == IF 2 * h >= HalfSize THEN h - HalfSize ELSE h
    <3>1. signed < 0 <=> 2 * h >= HalfSize
      BY <1>1, <1>3 DEF HalfWord
    <3>2. signed >= 0 <=> ~(2 * h >= HalfSize)
      BY <1>1, <1>3 DEF HalfWord
    <3>3. signed < 0 => W36(h, e) = h * HalfSize + (HalfSize - 1)
      BY <1>3, <2>3, <3>1
    <3>4. signed >= 0 => W36(h, e) = h * HalfSize
      BY <1>3, <2>3, <2>4, <3>2
    <3> QED
      BY <1>5, <3>3, <3>4 DEF halfBecomes
  <2>10. /\ halfBecomes(to, 0, h, old, fillHalf("", to, c))
         /\ halfBecomes(to, 1, h, old, fillHalf("Z", to, c))
         /\ halfBecomes(to, 2, h, old, fillHalf("O", to, c))
         /\ halfBecomes(to, 3, h, old, fillHalf("E", to, c))
    BY <2>2, <2>5, <2>6, <2>7, <2>8, <1>5
  <2>11. \A f \in {"", "Z", "O", "E"} : fillHalf(f, to, c) \in Word
    BY <2>1, <2>2, <2>3, <1>5
  <2> QED
    BY <2>10, <2>11, <1>5 DEF halvesFilled
<1> QED
  BY <1>4, <1>5

\* What PutMoved puts where MoveInto reads.
LEMMA MovedTo ==
  ASSUME store \in [Addr -> Word], NEW i, i.op \in Nat, i.ac \in Addr, i.ea \in Addr,
         NEW v \in Word
  PROVE  /\ mode(i) \in {"M", "B"} => PutMoved(i, v)[i.ea] = v
         /\ mode(i) \notin {"M", "B"} => PutMoved(i, v)[i.ac] = v
<1>1. mode(i) \in {"", "I", "M", "B"}
  BY Modes
<1>2. \A s \in [Addr -> Word], x \in Addr : Put(s, x, v)[x] = v
  BY Replaced
<1>3. Put(store, i.ac, v) \in [Addr -> Word]
  BY Replaced
<1>4. acPut(i, v)[i.ac] = v /\ memPut(i, v)[i.ea] = v /\ bothPut(i, v)[i.ea] = v
  BY <1>2, <1>3 DEF acPut, memPut, bothPut
<1>5. selfPut(i, v)[i.ea] = v
  BY <1>4 DEF selfPut
<1> QED
  BY <1>1, <1>4, <1>5 DEF PutMoved

\* Every half-word move.
LEMMA HalfStep == Ready /\ Next => halfIsNumber
<1> SUFFICES ASSUME Ready, Next, op \in HalfOps
             PROVE  halfIsNumber
  BY DEF halfIsNumber
<1> DEFINE i == iw'
           k == (i.op - \o500) \div 4
           to == IF k >= 8 THEN "R" ELSE "L"
           from == IF (to = "R") = (k % 2 = 0) THEN "R" ELSE "L"
           fill == (k \div 2) % 4
           names == <<"", "Z", "O", "E">>
           name == names[fill + 1]
           toMemory == mode(iw') \in {"M", "B"}
           src == IF mode(iw') = "M" THEN store[ac] ELSE operand
           old == IF toMemory THEN store[ea] ELSE store[ac]
           h == IF from = "R" THEN src % HalfSize ELSE src \div HalfSize
           v == fillHalf(name, to, copyHalf(from, to, src, old))
<1>1. /\ store \in [Addr -> Word] /\ ac \in Addr /\ op \in Nat
      /\ op \notin ShiftOps => ea \in Addr
  BY OneStep
<1>2. ea \in Addr /\ Addr \subseteq Word
  BY <1>1, SignedNumbers DEF HalfOps, ShiftOps, Addr
<1>3. op = i.op /\ ac = i.ac /\ ea = i.ea /\ mode(i) \in {"", "I", "M", "B"}
  <2>1. op = i.op /\ ac = i.ac /\ ea = i.ea
    BY DEF op, ac, ea
  <2>2. i.op \in Nat
    BY <1>1, <2>1
  <2> HIDE DEF i
  <2> QED
    BY <2>1, <2>2, Modes
<1>4. DoHalf(i)
  BY Selected
<1>5. src \in Word /\ old \in Word
  BY <1>1, <1>2 DEF operand
<1>6. MoveSource(i) = src /\ MoveInto(i) = old
  BY <1>3 DEF MoveSource, MoveInto, operand, acGet, Source, immediate, memGet, ac, ea
<1>7. k \in Int /\ fill \in 0 .. 3
  <2> HIDE DEF i
  <2>1. i.op \in \o500 .. \o577
    BY <1>3 DEF HalfOps
  <2>2. k \in Int
    BY <2>1
  <2> HIDE DEF k
  <2>3. k \div 2 \in Int
    BY <2>2
  <2> QED
    BY <2>2, <2>3
<1> HIDE DEF src, old
<1>8. store' = PutMoved(i, v)
  <2> DEFINE dTo == IF k < 8 THEN "L" ELSE "R"
             dFrom == IF k % 2 = 0 THEN dTo ELSE IF dTo = "L" THEN "R" ELSE "L"
  <2>1. store' = PutMoved(i, fillHalf(name, dTo, copyHalf(dFrom, dTo, MoveSource(i), MoveInto(i))))
    BY <1>3, <1>4, Zenon DEF DoHalf, Finish, Done
  <2> HIDE DEF k
  <2>2. dTo = to
    BY <1>7
  <2>3. dFrom = from
    <3> DEFINE even == k % 2 = 0
    <3>1. even \in BOOLEAN
      OBVIOUS
    <3>2. dFrom = IF even THEN to ELSE IF to = "L" THEN "R" ELSE "L"
      BY <2>2
    <3>3. from = IF (to = "R") = even THEN "R" ELSE "L"
      OBVIOUS
    <3>4. to \in {"L", "R"}
      OBVIOUS
    <3> HIDE DEF even, to, from, dFrom, dTo
    <3>5. CASE even
      BY <3>1, <3>2, <3>3, <3>4, <3>5
    <3>6. CASE ~even
      BY <3>1, <3>2, <3>3, <3>4, <3>6
    <3> QED
      BY <3>5, <3>6
  <2> HIDE DEF dTo, dFrom, to, from, name
  <2> QED
    BY <1>6, <2>1, <2>2, <2>3
<1>9. to \in {"L", "R"} /\ from \in {"L", "R"}
  OBVIOUS
<1> HIDE DEF to, from, fill
<1>10. halfBecomes(to, fill, h, old, v) /\ v \in Word
  <2> DEFINE c == copyHalf(from, to, src, old)
  <2>1. /\ fill = 0 => halfBecomes(to, 0, h, old, fillHalf("", to, c))
        /\ fill = 1 => halfBecomes(to, 1, h, old, fillHalf("Z", to, c))
        /\ fill = 2 => halfBecomes(to, 2, h, old, fillHalf("O", to, c))
        /\ fill = 3 => halfBecomes(to, 3, h, old, fillHalf("E", to, c))
        /\ \A f \in {"", "Z", "O", "E"} : fillHalf(f, to, c) \in Word
    <3>1. c = copyHalf(from, to, src, old)
      OBVIOUS
    <3>2. h = halfSent(from, src)
      BY DEF halfSent
    <3>3. src \in Word /\ old \in Word
      BY <1>5, <1>7
    <3> HIDE DEF c, h, src, old
    <3>4. halvesFilled(to, h, old, c)
      BY <1>9, <3>1, <3>2, <3>3, HalfBecomes, Zenon
    <3> QED
      BY <3>4, Zenon DEF halvesFilled
  <2>2. names[1] = "" /\ names[2] = "Z" /\ names[3] = "O" /\ names[4] = "E"
    OBVIOUS
  <2>3. v = fillHalf(name, to, c) /\ name = names[fill + 1]
    OBVIOUS
  <2> HIDE DEF names, name, c, h, v
  <2>4. CASE fill = 0
    <3>1. fill + 1 = 1
      BY <2>4
    <3>2. name = ""
      BY <2>2, <2>3, <3>1
    <3>3. v = fillHalf("", to, c)
      BY <2>3, <3>2
    <3> QED
      BY <2>1, <2>4, <3>3
  <2>5. CASE fill = 1
    <3>1. fill + 1 = 2
      BY <2>5
    <3>2. name = "Z"
      BY <2>2, <2>3, <3>1
    <3>3. v = fillHalf("Z", to, c)
      BY <2>3, <3>2
    <3> QED
      BY <2>1, <2>5, <3>3
  <2>6. CASE fill = 2
    <3>1. fill + 1 = 3
      BY <2>6
    <3>2. name = "O"
      BY <2>2, <2>3, <3>1
    <3>3. v = fillHalf("O", to, c)
      BY <2>3, <3>2
    <3> QED
      BY <2>1, <2>6, <3>3
  <2>7. CASE fill = 3
    <3>1. fill + 1 = 4
      BY <2>7
    <3>2. name = "E"
      BY <2>2, <2>3, <3>1
    <3>3. v = fillHalf("E", to, c)
      BY <2>3, <3>2
    <3> QED
      BY <2>1, <2>7, <3>3
  <2> QED
    BY <1>7, <2>4, <2>5, <2>6, <2>7
<1> HIDE DEF v, h
<1>11. (IF toMemory THEN store'[ea] ELSE store'[ac]) = v
  <2> HIDE DEF i
  <2>1. /\ mode(i) \in {"M", "B"} => PutMoved(i, v)[i.ea] = v
        /\ mode(i) \notin {"M", "B"} => PutMoved(i, v)[i.ac] = v
    BY <1>1, <1>2, <1>3, <1>10, MovedTo
  <2> QED
    BY <1>3, <1>8, <2>1 DEF i
<1>12. halfBecomes(to, fill, h, old, IF toMemory THEN store'[ea] ELSE store'[ac])
  BY <1>10, <1>11
<1> QED
  BY <1>12, Zenon DEF halfIsNumber, to, from, fill, src, old, h, op

\* HalvesAreNumbers: the 64 half-word moves of i-half.cpp.
THEOREM HalvesNumbers == Spec => HalvesAreNumbers
<1>1. Ready /\ [Next]_vars => [halfIsNumber]_vars
  BY HalfStep
<1> QED
  BY <1>1, ReadyInvariant, PTL DEF Spec, HalvesAreNumbers

----------------------------------------------------------------------------
\* Divisions.

\* A quotient of natural numbers is at most the dividend, and at most half of it unless
\* the divisor is 1; it is below any bound that the divisor carries over the dividend.
LEMMA QuotientRange ==
  ASSUME NEW n \in Nat, NEW d \in Nat \ {0}
  PROVE  /\ n \div d \in Nat /\ n % d \in 0 .. d - 1 /\ (n \div d) * d + (n % d) = n
         /\ n \div d <= n
         /\ d >= 2 => 2 * (n \div d) <= n
         /\ \A h \in Nat : n < h * d => n \div d < h
<1> DEFINE q == n \div d
           r == n % d
<1>1. q \in Int /\ r \in 0 .. d - 1 /\ n = d * q + r
  BY Euclid
<1> HIDE DEF q, r
<1>2. q >= 0
  <2>1. CASE q <= -1
    <3>1. d * q <= -d
      BY <1>1, <2>1
    <3> QED
      BY <1>1, <3>1
  <2> QED
    BY <1>1, <2>1
<1>3. d * q = q * d /\ q <= d * q
  BY <1>1, <1>2
<1>4. d >= 2 => 2 * q <= d * q
  BY <1>1, <1>2
<1>5. ASSUME NEW h \in Nat, n < h * d PROVE q < h
  <2>1. CASE q >= h
    <3>1. q * d >= h * d /\ h * d \in Int /\ q * d \in Int
      BY <1>1, <2>1
    <3> QED
      BY <1>1, <1>3, <1>5, <3>1
  <2> QED
    BY <1>1, <2>1
<1>6. q * d + r = n /\ q <= n /\ (d >= 2 => 2 * q <= n)
  <2>1. d * q \in Int
    BY <1>1
  <2> QED
    BY <1>1, <1>3, <1>4, <2>1
<1> QED
  BY <1>1, <1>2, <1>5, <1>6 DEF q, r

\* A number in the range of signed words is what its word says.
LEMMA ExtOfTrunc ==
  ASSUME NEW n \in -SignBit .. SignBit - 1
  PROVE  Trunc(n) \in Word /\ ext64(Trunc(n)) = n
<1>1. SignBit \in Nat \ {0} /\ n \in Int
  BY WordAssumption
<1>2. Trunc(n) = IF n < 0 THEN n + 2 * SignBit ELSE n
  <2> DEFINE h == 2 * SignBit
  <2>1. h \in Nat \ {0} /\ -h <= n /\ n < 2 * h /\ n < h
    BY <1>1
  <2> HIDE DEF h
  <2>2. n % h = IF n < 0 THEN n + h ELSE n
    BY <1>1, <2>1, NearRemainder
  <2> QED
    BY <2>2 DEF Trunc, h
<1> QED
  BY <1>1, <1>2, SignedNumbers DEF ext64, sign

\* What is owed for a quotient q and a remainder r of n by d.
Accounts(q, r, n, d, negative) ==
    /\ magnitudeOf(q) * d + r = n
    /\ r < d
    /\ (q < 0) = (negative /\ q # 0)

LEMMA IDIVAccounts ==
  ASSUME NEW a \in Word, NEW b \in Word, "ndv" \notin idivWord(a, b).flags
  PROVE  LET d == idivWord(a, b).value
         IN  /\ d = W72(d.hi, d.lo)
             /\ Accounts(ext64(d.hi), d.lo, magnitudeOf(ext64(a)), magnitudeOf(ext64(b)),
                         sign(a) # sign(b))
<1> DEFINE m == ext64(a)
           n == ext64(b)
           x == magnitudeOf(m)
           y == magnitudeOf(n)
           p == x \div y
           q == Quotient(m, n)
           r == x % y
<1>1. ~(a = SignBit /\ b = all1s) /\ b # 0
  BY DEF idivWord, noDivide
<1>2. idivWord(a, b).value = W72(Trunc(q), r)
  BY <1>1 DEF idivWord
<1>3. /\ SignBit \in Nat \ {0} /\ m \in -SignBit .. SignBit - 1 /\ n \in -SignBit .. SignBit - 1
      /\ n # 0 /\ ~(m = -SignBit /\ n = -1)
      /\ sign(a) = (m < 0) /\ sign(b) = (n < 0)
  BY <1>1, WordAssumption DEF Word, ext64, sign, all1s
<1> HIDE DEF m, n
<1>4. x \in Nat /\ y \in Nat \ {0} /\ x <= SignBit /\ (x = SignBit => m = -SignBit) /\ (y = 1 => n = 1 \/ n = -1)
  BY <1>3 DEF magnitudeOf
<1>5. q = IF (m < 0) # (n < 0) THEN -p ELSE p
  BY DEF Quotient
<1> HIDE DEF x, y, q
<1>6. p \in Nat /\ r \in 0 .. y - 1 /\ p * y + r = x /\ p <= x /\ (y >= 2 => 2 * p <= x)
  BY <1>4, QuotientRange
<1> HIDE DEF p, r
<1>7. q \in -SignBit .. SignBit - 1
  <2>1. CASE (m < 0) # (n < 0)
    BY <1>3, <1>4, <1>5, <1>6, <2>1
  <2>2. CASE (m < 0) = (n < 0)
    <3>1. q = p
      BY <1>5, <2>2
    <3>2. p # SignBit
      <4> SUFFICES ASSUME p = SignBit PROVE FALSE
        OBVIOUS
      <4>1. x = SignBit /\ y = 1
        BY <1>3, <1>4, <1>6
      <4> QED
        BY <1>3, <1>4, <2>2, <4>1
    <3> QED
      BY <1>3, <1>4, <1>6, <3>1, <3>2
  <2> QED
    BY <2>1, <2>2
<1>8. ext64(Trunc(q)) = q
  BY <1>7, ExtOfTrunc
<1>9. magnitudeOf(q) = p /\ ((q < 0) = (((m < 0) # (n < 0)) /\ q # 0))
  BY <1>5, <1>6 DEF magnitudeOf
<1>10. Accounts(q, r, x, y, sign(a) # sign(b))
  <2>1. magnitudeOf(q) * y + r = x
    BY <1>6, <1>9
  <2>2. r < y
    BY <1>4, <1>6
  <2>3. (q < 0) = (sign(a) # sign(b) /\ q # 0)
    BY <1>3, <1>9
  <2> QED
    BY <2>1, <2>2, <2>3 DEF Accounts
<1> QED
  BY <1>2, <1>8, <1>10 DEF W72, x, y, m, n

LEMMA DIVAccounts ==
  ASSUME NEW a, a.hi \in Word, a.lo \in Word, NEW b \in Word,
         ~sign(a.hi), ~sign(b), "ndv" \notin divWord(a, b).flags
  PROVE  LET d == divWord(a, b).value
         IN  /\ d = W72(d.hi, d.lo)
             /\ Accounts(ext64(d.hi), d.lo, doubleValue(a), magnitudeOf(ext64(b)), FALSE)
<1> DEFINE n == doubleValue(a)
           p == n \div b
           r == n % b
           m == mag(a.lo)
<1>1. ~(mag(a.hi) >= mag(b) \/ b = 0)
  BY DEF divWord, noDivide
<1>2. /\ SignBit \in Nat \ {0} /\ m \in 0 .. SignBit - 1
      /\ a.hi \in 0 .. SignBit - 1 /\ b \in 1 .. SignBit - 1
      /\ mag(a.hi) = a.hi /\ mag(b) = b
      /\ ext64(b) = b /\ magnitudeOf(b) = b
  <2>1. SignBit \in Nat \ {0} /\ m \in 0 .. SignBit - 1
    BY MagRange
  <2>2. a.hi \in 0 .. SignBit - 1 /\ b \in 1 .. SignBit - 1
    BY <1>1, <2>1 DEF Word, sign
  <2>3. mag(a.hi) = a.hi /\ mag(b) = b
    BY <2>1, <2>2 DEF mag
  <2> QED
    BY <2>1, <2>2, <2>3 DEF ext64, magnitudeOf
<1>3. a.hi < b
  BY <1>1, <1>2
<1> HIDE DEF m
<1>4. n = a.hi * SignBit + m
  BY DEF doubleValue, m
<1>5. n \in Nat /\ n < SignBit * b
  <2>1. a.hi * SignBit >= 0 /\ a.hi * SignBit \in Int
    BY <1>2
  <2>2. (a.hi + 1) * SignBit <= b * SignBit /\ (a.hi + 1) * SignBit = a.hi * SignBit + SignBit
    BY <1>2, <1>3
  <2>3. b * SignBit = SignBit * b /\ b * SignBit \in Int
    BY <1>2
  <2> QED
    BY <1>2, <1>4, <2>1, <2>2, <2>3
<1> HIDE DEF n
<1>6. p \in 0 .. SignBit - 1 /\ r \in 0 .. b - 1 /\ p * b + r = n
  <2>1. b \in Nat \ {0} /\ SignBit \in Nat
    BY <1>2
  <2>2. p \in Nat /\ r \in 0 .. b - 1 /\ p * b + r = n /\ p < SignBit
    BY <1>5, <2>1, QuotientRange
  <2> QED
    BY <2>1, <2>2
<1> HIDE DEF p, r
<1>7. mag(p) = p /\ mag(r) = r /\ ext64(p) = p /\ magnitudeOf(p) = p
  BY <1>2, <1>6 DEF mag, ext64, sign, magnitudeOf
<1>8. divWord(a, b).value = W72(p, r)
  <2>1. mag(a.hi) * SignBit + mag(a.lo) = n
    BY <1>2, <1>4 DEF m
  <2>2. signTerm(sign(a.hi)) = 0
    BY DEF signTerm
  <2>3. divWord(a, b).value = W72(0 + mag(n \div mag(b)), 0 + mag(n % mag(b)))
    BY <1>1, <2>1, <2>2 DEF divWord
  <2>4. 0 + p = p /\ 0 + r = r
    BY <1>6
  <2> QED
    BY <1>2, <1>7, <2>3, <2>4 DEF p, r
<1>9. Accounts(p, r, n, b, FALSE)
  <2>1. magnitudeOf(p) * b + r = n
    BY <1>6, <1>7
  <2> QED
    BY <1>2, <1>6, <2>1 DEF Accounts
<1>10. divWord(a, b).value.hi = p /\ divWord(a, b).value.lo = r
  BY <1>8 DEF W72
<1> HIDE DEF divWord
<1> QED
  BY <1>2, <1>7, <1>8, <1>9, <1>10 DEF n

\* A pair that is put and not overwritten, and the modes that put one.
LEMMA PairWritten ==
  ASSUME store \in [Addr -> Word], NEW i, i.ac \in Addr, i.ac + 1 \in Addr, NEW d,
         NEW s, s = acPut2(i, d) \/ (s = bothPut2(i, d) /\ i.ea # i.ac + 1)
  PROVE  s[i.ac] = d.hi /\ s[i.ac + 1] = d.lo
<1>1. i.ac # i.ac + 1
  BY DEF Addr, HalfWord
<1>2. acPut2(i, d)[i.ac] = d.hi /\ acPut2(i, d)[i.ac + 1] = d.lo
  BY <1>1 DEF acPut2, acPut, Put
<1>3. DOMAIN acPut2(i, d) = Addr
  BY DEF acPut2, acPut, Put
<1>4. bothPut2(i, d) = [acPut2(i, d) EXCEPT ![i.ea] = d.hi]
  BY DEF bothPut2, Put
<1> HIDE DEF acPut2, bothPut2
<1> QED
  BY <1>1, <1>2, <1>3, <1>4

LEMMA PairByMode ==
  ASSUME NEW i, i.op \in Nat, mode(i) # "M", NEW d
  PROVE  PutByMode2(i, d) = IF mode(i) = "B" THEN bothPut2(i, d) ELSE acPut2(i, d)
BY Modes, Zenon DEF PutByMode2

LEMMA DivisionStep == Ready /\ Next => divisionAccounts
<1> SUFFICES ASSUME Ready, Next, op \in \o230 .. \o237, ran, "ndv" \notin flags', mode(iw') # "M",
                    ~(mode(iw') = "B" /\ ea = ac + 1),
                    op >= \o234 => ~sign(operand) /\ ~sign(store[ac])
             PROVE  Accounts(ext64(store'[ac]), store'[ac + 1],
                             IF op >= \o234 THEN doubleValue(acGet2(iw'))
                                            ELSE magnitudeOf(ext64(store[ac])),
                             magnitudeOf(ext64(operand)),
                             ~(op >= \o234) /\ (sign(store[ac]) # sign(operand)))
  BY DEF divisionAccounts, Accounts
<1> DEFINE i == iw'
<1>1. /\ store \in [Addr -> Word] /\ ac \in Addr /\ op \in Nat /\ ea \in Addr
      /\ Addr \subseteq Word /\ Execute(i) /\ (HasPair(i) => ac + 1 \in Addr)
      /\ op = i.op /\ ac = i.ac /\ ea = i.ea
  BY OneStep, SignedNumbers DEF ShiftOps, Addr, op, ac, ea
<1>2. mode(i) # "M"
  OBVIOUS
<1>3. DoMulDiv(i) /\ HasPair(i)
  <2> USE <1>1 DEF MoveOps, HalfOps, CompareOps, CountOps, EXCH, BooleanOps, TestOps, ShiftOps, DoubleOps
  <2>1. NeedsPair(i)
    <3> HIDE DEF i
    <3>1. i.op \in \o230 .. \o237
      BY <1>1
    <3>2. i.op \in \o230 .. \o233 \/ i.op \in \o234 .. \o237
      BY <3>1
    <3> QED
      BY <1>2, <3>2 DEF NeedsPair
  <2>2. ~Single(i)
    BY DEF Single
  <2>3. ~Abort(i)
    BY DEF Abort, Done, ran
  <2>4. Pair(i)
    BY <2>2, <2>3 DEF Execute
  <2> QED
    BY <2>1, <2>4 DEF Pair, DoDoubleMove
<1>4. operand = Source(i) /\ operand \in Word /\ store[ac] \in Word /\ store[ac + 1] \in Word
      /\ acGet(i) = store[ac] /\ acGet2(i) = W72(store[ac], store[ac + 1])
  BY <1>1, <1>3 DEF operand, Source, immediate, memGet, acGet, acGet2
<1> DEFINE b == operand
           r == IF op >= \o234 THEN divWord(acGet2(i), b) ELSE idivWord(store[ac], b)
<1>5. store' = PutByMode2(i, r.value) /\ flags' = flags \union r.flags
  BY <1>1, <1>3, <1>4 DEF DoMulDiv, Done
<1>6. store'[ac] = r.value.hi /\ store'[ac + 1] = r.value.lo
  <2>1. store' = acPut2(i, r.value) \/ (store' = bothPut2(i, r.value) /\ i.ea # i.ac + 1)
    <3> HIDE DEF r, i
    <3>1. PutByMode2(i, r.value) = IF mode(i) = "B" THEN bothPut2(i, r.value) ELSE acPut2(i, r.value)
      BY <1>1, <1>2, PairByMode
    <3> QED
      BY <1>1, <1>5, <3>1 DEF i
  <2> HIDE DEF r, i
  <2>2. i.ac \in Addr /\ i.ac + 1 \in Addr
    BY <1>1, <1>3
  <2> QED
    BY <1>1, <2>1, <2>2, PairWritten
<1>7. "ndv" \notin r.flags
  BY <1>5
<1>8. CASE op >= \o234
  <2> DEFINE a == acGet2(i)
  <2>1. a.hi \in Word /\ a.lo \in Word /\ ~sign(a.hi) /\ ~sign(b) /\ b \in Word
    BY <1>4, <1>8 DEF W72
  <2>2. "ndv" \notin divWord(a, b).flags
    BY <1>7, <1>8
  <2> HIDE DEF a, b
  <2>3. Accounts(ext64(divWord(a, b).value.hi), divWord(a, b).value.lo, doubleValue(a),
                 magnitudeOf(ext64(b)), FALSE)
    BY <2>1, <2>2, DIVAccounts
  <2> QED
    BY <1>6, <1>8, <2>3 DEF Accounts, a, b
<1>9. CASE ~(op >= \o234)
  <2>1. "ndv" \notin idivWord(store[ac], b).flags
    BY <1>7, <1>9
  <2>2. Accounts(ext64(idivWord(store[ac], b).value.hi), idivWord(store[ac], b).value.lo,
                 magnitudeOf(ext64(store[ac])), magnitudeOf(ext64(b)), sign(store[ac]) # sign(b))
    <3> HIDE DEF b
    <3> QED
      BY <1>4, <2>1, IDIVAccounts DEF b
  <2> QED
    BY <1>6, <1>9, <2>2 DEF Accounts
<1> QED
  BY <1>8, <1>9

\* DivisionAccounts: IDIV, and DIV of operands that are not negative, of i-intbin.cpp.
THEOREM DivisionsAccount == Spec => DivisionAccounts
<1>1. Ready /\ [Next]_vars => [divisionAccounts]_vars
  BY DivisionStep
<1> QED
  BY <1>1, ReadyInvariant, PTL DEF Spec, DivisionAccounts

----------------------------------------------------------------------------
\* Bits.

LEMMA BitsOf ==
  ASSUME NEW w \in Word
  PROVE  Bits[w] \subseteq BitNumber /\ \A n \in BitNumber : n \in Bits[w] <=> bit(w, n) = 1
BY DEF Bits, bit

LEMMA WordOfBits ==
  ASSUME NEW b \in SUBSET BitNumber
  PROVE  WordOf[b] \in Word /\ Bits[WordOf[b]] = b
<1>1. WordLength \in Nat /\ 2^WordLength = 2 * SignBit
  BY LengthAssumption
<1>2. PICK w \in 0 .. 2^WordLength - 1 : \A n \in 0 .. WordLength - 1 : n \in b <=> bit(w, n) = 1
  BY <1>1, NumberWithBits DEF BitNumber
<1>3. w \in Word
  BY <1>1, <1>2 DEF Word
<1>4. Bits[w] = b
  BY <1>2, <1>3, BitsOf DEF BitNumber
<1>5. WordOf[b] = CHOOSE v \in Word : Bits[v] = b
  BY DEF WordOf
<1> QED
  BY <1>3, <1>4, <1>5

\* A half word has half the bits.
LEMMA HalfLength ==
  \E k \in Nat : HalfSize = 2^k /\ WordLength = 2 * k
<1>1. HalfSize \in Nat /\ HalfSize * HalfSize = 2^WordLength /\ WordLength \in Nat
  BY WordAssumption, LengthAssumption
<1>2. PICK k \in Nat : HalfSize = 2^k
  BY <1>1, RootOfPower
<1>3. 2^(k + k) = 2^WordLength /\ k + k \in Nat
  <2>1. 2^(k + k) = 2^k * 2^k
    BY PowerOfSum
  <2> QED
    BY <1>1, <1>2, <2>1
<1>4. ASSUME NEW m \in Nat, NEW n \in Nat, m < n PROVE 2^m # 2^n
  <2>1. m + 1 \in Nat /\ m + 1 <= n
    BY <1>4
  <2>2. 2^(m + 1) = 2 * 2^m /\ 2^m \in Nat \ {0} /\ 2^n \in Nat
    BY PowerDoubles, PowerIsPositive
  <2>3. 2^(m + 1) <= 2^n
    BY <2>1, PowerOfDifference
  <2> DEFINE a == 2^m
  <2> HIDE DEF a
  <2>4. a \in Nat \ {0} /\ 2 * a <= 2^n /\ 2^n \in Nat
    BY <2>2, <2>3 DEF a
  <2>5. a # 2^n
    BY <2>4
  <2> QED
    BY <2>5 DEF a
<1>5. k + k = WordLength
  <2>1. CASE k + k < WordLength
    BY <1>1, <1>3, <1>4, <2>1
  <2>2. CASE WordLength < k + k
    BY <1>1, <1>3, <1>4, <2>2
  <2> QED
    BY <1>1, <1>3, <2>1, <2>2
<1> QED
  BY <1>2, <1>5

\* The bits of a word are those of its halves.
LEMMA BitsOfHalves ==
  ASSUME NEW k \in Nat, HalfSize = 2^k, WordLength = 2 * k
  PROVE  /\ \A l, r \in HalfWord : \A n \in BitNumber :
              n \in Bits[W36(l, r)] <=> IF n < k THEN n \in Bits[r] ELSE n - k \in Bits[l]
         /\ \A h \in HalfWord : h \in Word /\ Bits[h] \subseteq 0 .. k - 1
<1>1. HalfSize \in Nat \ {0} /\ HalfWord = 0 .. 2^k - 1 /\ BitNumber = 0 .. 2 * k - 1 /\ HalfWord \subseteq Word
  BY WordAssumption, SignedNumbers DEF HalfWord, BitNumber
<1>2. ASSUME NEW h \in HalfWord PROVE h \in Word /\ Bits[h] \subseteq 0 .. k - 1
  <2>1. \A n \in BitNumber : n >= k => bit(h, n) = 0
    BY <1>1, BitsAbove
  <2>2. Bits[h] \subseteq BitNumber /\ \A n \in BitNumber : n \in Bits[h] => bit(h, n) = 1
    BY <1>1, BitsOf
  <2> QED
    BY <1>1, <2>1, <2>2
<1>3. ASSUME NEW l \in HalfWord, NEW r \in HalfWord, NEW n \in BitNumber
      PROVE  n \in Bits[W36(l, r)] <=> IF n < k THEN n \in Bits[r] ELSE n - k \in Bits[l]
  <2>1. W36(l, r) = l * 2^k + r /\ W36(l, r) \in Word
    BY W36OfHalves
  <2>2. l \in Int /\ r \in 0 .. 2^k - 1 /\ l \in Word /\ r \in Word
    BY <1>1 DEF HalfWord
  <2>3. CASE n < k
    <3>0. n \in 0 .. k - 1
      BY <1>1, <2>3
    <3>1. bit(l * 2^k + r, n) = bit(r, n)
      BY <2>2, <3>0, BitsOfSum, Zenon
    <3> QED
      BY <2>1, <2>2, <2>3, <3>1, BitsOf
  <2>4. CASE n >= k
    <3>1. n - k \in Nat /\ n - k \in BitNumber /\ k + (n - k) = n
      BY <1>1, <2>4
    <3>2. bit(l * 2^k + r, k + (n - k)) = bit(l, n - k)
      BY <2>2, <3>1, BitsOfSum, Zenon
    <3>3. n \in Bits[W36(l, r)] <=> n - k \in Bits[l]
      BY <2>1, <2>2, <3>1, <3>2, BitsOf
    <3> QED
      BY <1>1, <2>4, <3>3
  <2> QED
    BY <1>1, <2>3, <2>4
<1> QED
  BY <1>2, <1>3

\* The function whose truth table is the number k, of the bits a and m.
Table(k, a, m) ==
    {n \in BitNumber : (k \div ((IF n \in m THEN 1 ELSE 4) * (IF n \in a THEN 1 ELSE 2))) % 2 = 1}

LEMMA TableEntries ==
  ASSUME NEW k \in Nat, NEW a, NEW m, NEW n \in BitNumber
  PROVE  n \in Table(k, a, m)
           <=> IF n \in m THEN IF n \in a THEN k % 2 = 1 ELSE (k \div 2) % 2 = 1
               ELSE IF n \in a THEN (k \div 4) % 2 = 1 ELSE (k \div 8) % 2 = 1
<1>1. k \div 1 = k /\ 1 * 1 = 1 /\ 1 * 2 = 2 /\ 4 * 1 = 4 /\ 4 * 2 = 8
  OBVIOUS
<1>2. CASE n \in m /\ n \in a
  BY <1>1, <1>2 DEF Table
<1>3. CASE n \in m /\ n \notin a
  BY <1>1, <1>3 DEF Table
<1>4. CASE n \notin m /\ n \in a
  BY <1>1, <1>4 DEF Table
<1>5. CASE n \notin m /\ n \notin a
  BY <1>1, <1>5 DEF Table
<1> QED
  BY <1>2, <1>3, <1>4, <1>5

\* The sixteen functions, by mnemonic and by number.
LEMMA SixteenTables ==
  ASSUME NEW a, NEW m, a \subseteq BitNumber, m \subseteq BitNumber
  PROVE
    /\ Table(0, a, m) = {}
    /\ Table(1, a, m) = m \intersect a
    /\ Table(2, a, m) = m \intersect (BitNumber \ a)
    /\ Table(3, a, m) = m
    /\ Table(4, a, m) = (BitNumber \ m) \intersect a
    /\ Table(5, a, m) = a
    /\ Table(6, a, m) = (m \ a) \union (a \ m)
    /\ Table(7, a, m) = m \union a
    /\ Table(8, a, m) = (BitNumber \ m) \intersect (BitNumber \ a)
    /\ Table(9, a, m) = BitNumber \ ((m \ a) \union (a \ m))
    /\ Table(10, a, m) = BitNumber \ a
    /\ Table(11, a, m) = m \union (BitNumber \ a)
    /\ Table(12, a, m) = BitNumber \ m
    /\ Table(13, a, m) = (BitNumber \ m) \union a
    /\ Table(14, a, m) = (BitNumber \ m) \union (BitNumber \ a)
    /\ Table(15, a, m) = BitNumber
<1>1. Table(0, a, m) = {}
  <2>1. \A n \in BitNumber : n \in Table(0, a, m) <=> n \in {}
    BY TableEntries
  <2> QED
    BY <2>1 DEF Table
<1>2. Table(1, a, m) = m \intersect a
  <2>1. \A n \in BitNumber : n \in Table(1, a, m) <=> n \in (m \intersect a)
    BY TableEntries
  <2> QED
    BY <2>1 DEF Table
<1>3. Table(2, a, m) = m \intersect (BitNumber \ a)
  <2>1. \A n \in BitNumber : n \in Table(2, a, m) <=> n \in (m \intersect (BitNumber \ a))
    BY TableEntries
  <2> QED
    BY <2>1 DEF Table
<1>4. Table(3, a, m) = m
  <2>1. \A n \in BitNumber : n \in Table(3, a, m) <=> n \in m
    BY TableEntries
  <2> QED
    BY <2>1 DEF Table
<1>5. Table(4, a, m) = (BitNumber \ m) \intersect a
  <2>1. \A n \in BitNumber : n \in Table(4, a, m) <=> n \in ((BitNumber \ m) \intersect a)
    BY TableEntries
  <2> QED
    BY <2>1 DEF Table
<1>6. Table(5, a, m) = a
  <2>1. \A n \in BitNumber : n \in Table(5, a, m) <=> n \in a
    BY TableEntries
  <2> QED
    BY <2>1 DEF Table
<1>7. Table(6, a, m) = (m \ a) \union (a \ m)
  <2>1. \A n \in BitNumber : n \in Table(6, a, m) <=> n \in ((m \ a) \union (a \ m))
    BY TableEntries
  <2> QED
    BY <2>1 DEF Table
<1>8. Table(7, a, m) = m \union a
  <2>1. \A n \in BitNumber : n \in Table(7, a, m) <=> n \in (m \union a)
    BY TableEntries
  <2> QED
    BY <2>1 DEF Table
<1>9. Table(8, a, m) = (BitNumber \ m) \intersect (BitNumber \ a)
  <2>1. \A n \in BitNumber : n \in Table(8, a, m) <=> n \in ((BitNumber \ m) \intersect (BitNumber \ a))
    BY TableEntries
  <2> QED
    BY <2>1 DEF Table
<1>10. Table(9, a, m) = BitNumber \ ((m \ a) \union (a \ m))
  <2>1. \A n \in BitNumber : n \in Table(9, a, m) <=> n \in (BitNumber \ ((m \ a) \union (a \ m)))
    BY TableEntries
  <2> QED
    BY <2>1 DEF Table
<1>11. Table(10, a, m) = BitNumber \ a
  <2>1. \A n \in BitNumber : n \in Table(10, a, m) <=> n \in (BitNumber \ a)
    BY TableEntries
  <2> QED
    BY <2>1 DEF Table
<1>12. Table(11, a, m) = m \union (BitNumber \ a)
  <2>1. \A n \in BitNumber : n \in Table(11, a, m) <=> n \in (m \union (BitNumber \ a))
    BY TableEntries
  <2> QED
    BY <2>1 DEF Table
<1>13. Table(12, a, m) = BitNumber \ m
  <2>1. \A n \in BitNumber : n \in Table(12, a, m) <=> n \in (BitNumber \ m)
    BY TableEntries
  <2> QED
    BY <2>1 DEF Table
<1>14. Table(13, a, m) = (BitNumber \ m) \union a
  <2>1. \A n \in BitNumber : n \in Table(13, a, m) <=> n \in ((BitNumber \ m) \union a)
    BY TableEntries
  <2> QED
    BY <2>1 DEF Table
<1>15. Table(14, a, m) = (BitNumber \ m) \union (BitNumber \ a)
  <2>1. \A n \in BitNumber : n \in Table(14, a, m) <=> n \in ((BitNumber \ m) \union (BitNumber \ a))
    BY TableEntries
  <2> QED
    BY <2>1 DEF Table
<1>16. Table(15, a, m) = BitNumber
  <2>1. \A n \in BitNumber : n \in Table(15, a, m) <=> n \in BitNumber
    BY TableEntries
  <2> QED
    BY <2>1 DEF Table
<1> QED
  BY <1>1, <1>2, <1>3, <1>4, <1>5, <1>6, <1>7, <1>8, <1>9, <1>10, <1>11, <1>12, <1>13, <1>14, <1>15, <1>16

LEMMA BooleanIsTable ==
  ASSUME NEW x \in Word, NEW y \in Word, NEW k \in 0 .. 15
  PROVE  BooleanOf(BooleanNames[k + 1], x, y) = WordOf[Table(k, Bits[x], Bits[y])]
<1> DEFINE a == Bits[x]
           m == Bits[y]
<1>0. a \subseteq BitNumber /\ m \subseteq BitNumber
  BY BitsOf
<1>t. /\ Table(0, a, m) = {}
      /\ Table(1, a, m) = m \intersect a
      /\ Table(2, a, m) = m \intersect (BitNumber \ a)
      /\ Table(3, a, m) = m
      /\ Table(4, a, m) = (BitNumber \ m) \intersect a
      /\ Table(5, a, m) = a
      /\ Table(6, a, m) = (m \ a) \union (a \ m)
      /\ Table(7, a, m) = m \union a
      /\ Table(8, a, m) = (BitNumber \ m) \intersect (BitNumber \ a)
      /\ Table(9, a, m) = BitNumber \ ((m \ a) \union (a \ m))
      /\ Table(10, a, m) = BitNumber \ a
      /\ Table(11, a, m) = m \union (BitNumber \ a)
      /\ Table(12, a, m) = BitNumber \ m
      /\ Table(13, a, m) = (BitNumber \ m) \union a
      /\ Table(14, a, m) = (BitNumber \ m) \union (BitNumber \ a)
      /\ Table(15, a, m) = BitNumber
  <2> HIDE DEF a, m
  <2> QED
    BY <1>0, SixteenTables, Zenon
<1>1. CASE k = 0
  <2>1. BooleanNames[k + 1] = "SETZ"
    BY <1>1 DEF BooleanNames
  <2>2. BooleanOf("SETZ", x, y) = WordOf[{}]
    BY DEF BooleanOf
  <2>3. BooleanOf("SETZ", x, y) = WordOf[Table(0, a, m)]
    BY <1>t, <2>2, Zenon
  <2> QED
    BY <1>1, <2>1, <2>3, Zenon
<1>2. CASE k = 1
  <2>1. BooleanNames[k + 1] = "AND"
    BY <1>2 DEF BooleanNames
  <2>2. BooleanOf("AND", x, y) = WordOf[m \intersect a]
    BY DEF BooleanOf
  <2>3. BooleanOf("AND", x, y) = WordOf[Table(1, a, m)]
    BY <1>t, <2>2, Zenon
  <2> QED
    BY <1>2, <2>1, <2>3, Zenon
<1>3. CASE k = 2
  <2>1. BooleanNames[k + 1] = "ANDCA"
    BY <1>3 DEF BooleanNames
  <2>2. BooleanOf("ANDCA", x, y) = WordOf[m \intersect (BitNumber \ a)]
    BY DEF BooleanOf
  <2>3. BooleanOf("ANDCA", x, y) = WordOf[Table(2, a, m)]
    BY <1>t, <2>2, Zenon
  <2> QED
    BY <1>3, <2>1, <2>3, Zenon
<1>4. CASE k = 3
  <2>1. BooleanNames[k + 1] = "SETM"
    BY <1>4 DEF BooleanNames
  <2>2. BooleanOf("SETM", x, y) = WordOf[m]
    BY DEF BooleanOf
  <2>3. BooleanOf("SETM", x, y) = WordOf[Table(3, a, m)]
    BY <1>t, <2>2, Zenon
  <2> QED
    BY <1>4, <2>1, <2>3, Zenon
<1>5. CASE k = 4
  <2>1. BooleanNames[k + 1] = "ANDCM"
    BY <1>5 DEF BooleanNames
  <2>2. BooleanOf("ANDCM", x, y) = WordOf[(BitNumber \ m) \intersect a]
    BY DEF BooleanOf
  <2>3. BooleanOf("ANDCM", x, y) = WordOf[Table(4, a, m)]
    BY <1>t, <2>2, Zenon
  <2> QED
    BY <1>5, <2>1, <2>3, Zenon
<1>6. CASE k = 5
  <2>1. BooleanNames[k + 1] = "SETA"
    BY <1>6 DEF BooleanNames
  <2>2. BooleanOf("SETA", x, y) = WordOf[a]
    BY DEF BooleanOf
  <2>3. BooleanOf("SETA", x, y) = WordOf[Table(5, a, m)]
    BY <1>t, <2>2, Zenon
  <2> QED
    BY <1>6, <2>1, <2>3, Zenon
<1>7. CASE k = 6
  <2>1. BooleanNames[k + 1] = "XOR"
    BY <1>7 DEF BooleanNames
  <2>2. BooleanOf("XOR", x, y) = WordOf[(m \ a) \union (a \ m)]
    BY DEF BooleanOf
  <2>3. BooleanOf("XOR", x, y) = WordOf[Table(6, a, m)]
    BY <1>t, <2>2, Zenon
  <2> QED
    BY <1>7, <2>1, <2>3, Zenon
<1>8. CASE k = 7
  <2>1. BooleanNames[k + 1] = "IOR"
    BY <1>8 DEF BooleanNames
  <2>2. BooleanOf("IOR", x, y) = WordOf[m \union a]
    BY DEF BooleanOf
  <2>3. BooleanOf("IOR", x, y) = WordOf[Table(7, a, m)]
    BY <1>t, <2>2, Zenon
  <2> QED
    BY <1>8, <2>1, <2>3, Zenon
<1>9. CASE k = 8
  <2>1. BooleanNames[k + 1] = "ANDCB"
    BY <1>9 DEF BooleanNames
  <2>2. BooleanOf("ANDCB", x, y) = WordOf[(BitNumber \ m) \intersect (BitNumber \ a)]
    BY DEF BooleanOf
  <2>3. BooleanOf("ANDCB", x, y) = WordOf[Table(8, a, m)]
    BY <1>t, <2>2, Zenon
  <2> QED
    BY <1>9, <2>1, <2>3, Zenon
<1>10. CASE k = 9
  <2>1. BooleanNames[k + 1] = "EQV"
    BY <1>10 DEF BooleanNames
  <2>2. BooleanOf("EQV", x, y) = WordOf[BitNumber \ ((m \ a) \union (a \ m))]
    BY DEF BooleanOf
  <2>3. BooleanOf("EQV", x, y) = WordOf[Table(9, a, m)]
    BY <1>t, <2>2, Zenon
  <2> QED
    BY <1>10, <2>1, <2>3, Zenon
<1>11. CASE k = 10
  <2>1. BooleanNames[k + 1] = "SETCA"
    BY <1>11 DEF BooleanNames
  <2>2. BooleanOf("SETCA", x, y) = WordOf[BitNumber \ a]
    BY DEF BooleanOf
  <2>3. BooleanOf("SETCA", x, y) = WordOf[Table(10, a, m)]
    BY <1>t, <2>2, Zenon
  <2> QED
    BY <1>11, <2>1, <2>3, Zenon
<1>12. CASE k = 11
  <2>1. BooleanNames[k + 1] = "ORCA"
    BY <1>12 DEF BooleanNames
  <2>2. BooleanOf("ORCA", x, y) = WordOf[m \union (BitNumber \ a)]
    BY DEF BooleanOf
  <2>3. BooleanOf("ORCA", x, y) = WordOf[Table(11, a, m)]
    BY <1>t, <2>2, Zenon
  <2> QED
    BY <1>12, <2>1, <2>3, Zenon
<1>13. CASE k = 12
  <2>1. BooleanNames[k + 1] = "SETCM"
    BY <1>13 DEF BooleanNames
  <2>2. BooleanOf("SETCM", x, y) = WordOf[BitNumber \ m]
    BY DEF BooleanOf
  <2>3. BooleanOf("SETCM", x, y) = WordOf[Table(12, a, m)]
    BY <1>t, <2>2, Zenon
  <2> QED
    BY <1>13, <2>1, <2>3, Zenon
<1>14. CASE k = 13
  <2>1. BooleanNames[k + 1] = "ORCM"
    BY <1>14 DEF BooleanNames
  <2>2. BooleanOf("ORCM", x, y) = WordOf[(BitNumber \ m) \union a]
    BY DEF BooleanOf
  <2>3. BooleanOf("ORCM", x, y) = WordOf[Table(13, a, m)]
    BY <1>t, <2>2, Zenon
  <2> QED
    BY <1>14, <2>1, <2>3, Zenon
<1>15. CASE k = 14
  <2>1. BooleanNames[k + 1] = "ORCB"
    BY <1>15 DEF BooleanNames
  <2>2. BooleanOf("ORCB", x, y) = WordOf[(BitNumber \ m) \union (BitNumber \ a)]
    BY DEF BooleanOf
  <2>3. BooleanOf("ORCB", x, y) = WordOf[Table(14, a, m)]
    BY <1>t, <2>2, Zenon
  <2> QED
    BY <1>15, <2>1, <2>3, Zenon
<1>16. CASE k = 15
  <2>1. BooleanNames[k + 1] = "SETO"
    BY <1>16 DEF BooleanNames
  <2>2. BooleanOf("SETO", x, y) = WordOf[BitNumber]
    BY DEF BooleanOf
  <2>3. BooleanOf("SETO", x, y) = WordOf[Table(15, a, m)]
    BY <1>t, <2>2, Zenon
  <2> QED
    BY <1>16, <2>1, <2>3, Zenon
<1> QED
  BY <1>1, <1>2, <1>3, <1>4, <1>5, <1>6, <1>7, <1>8, <1>9, <1>10, <1>11, <1>12, <1>13, <1>14, <1>15, <1>16

\* booleanByOpcode: the Booleans of i-intbin.cpp and i-tstset.cpp.
LEMMA BooleanStep == Ready /\ Next => booleanByOpcode
<1> SUFFICES ASSUME Ready, Next, op \in BooleanOps
             PROVE  booleanByOpcode
  BY DEF booleanByOpcode
<1> DEFINE i == iw'
           k == (op - \o400) \div 4
           r == BooleanOf(BooleanNames[k + 1], store[ac], operand)
<1>1. /\ store \in [Addr -> Word] /\ ac \in Addr /\ op \in Nat /\ ea \in Addr
      /\ Addr \subseteq Word /\ DoBoolean(i)
      /\ op = i.op /\ ac = i.ac /\ ea = i.ea
  <2>1. DoBoolean(i)
    BY SelectedBits
  <2>2. op \notin ShiftOps
    BY DEF BooleanOps, ShiftOps
  <2>3. store \in [Addr -> Word] /\ ac \in Addr /\ op \in Nat /\ ea \in Addr
    BY <2>2, OneStep
  <2>4. Addr \subseteq Word
    BY SignedNumbers DEF Addr
  <2> QED
    BY <2>1, <2>3, <2>4 DEF op, ac, ea
<1>2. operand \in Word /\ store[ac] \in Word
  BY <1>1 DEF operand
<1>3. k \in 0 .. 15
  BY DEF BooleanOps
<1>4. store' = PutByMode(i, r)
  BY <1>1, Zenon DEF DoBoolean, Finish, Done, acGet, Source, operand, immediate, memGet, op, ac, ea
<1> HIDE DEF k
<1>5. r = WordOf[Table(k, Bits[store[ac]], Bits[operand])]
  BY <1>2, <1>3, BooleanIsTable
<1>6. Table(k, Bits[store[ac]], Bits[operand]) \in SUBSET BitNumber
  BY DEF Table
<1> HIDE DEF r
<1>7. r \in Word /\ Bits[r] = Table(k, Bits[store[ac]], Bits[operand])
  BY <1>5, <1>6, WordOfBits
<1>8. /\ mode(i) # "M" => store'[ac] = r
      /\ mode(i) \in {"M", "B"} => store'[ea] = r
  <2> HIDE DEF i
  <2>1. i.op \in Nat /\ i.ac \in Addr /\ i.ea \in Addr
    BY <1>1
  <2>2. /\ mode(i) # "M" => PutByMode(i, r)[i.ac] = r
        /\ mode(i) \in {"M", "B"} => PutByMode(i, r)[i.ea] = r
    BY <1>1, <1>7, <2>1, WrittenByMode
  <2> QED
    BY <1>1, <1>4, <2>2
<1> QED
  BY <1>7, <1>8 DEF booleanByOpcode, Table, k, i

\* Tests. What becomes of the bits x under the mask y.
Changed(e, x, y) == <<x, x \ y, (x \ y) \union (y \ x), x \union y>>[e + 1]

LEMMA ChangedAt ==
  ASSUME NEW x, NEW y, NEW e \in 0 .. 3
  PROVE  \A n : n \in Changed(e, x, y)
                <=> \/ e = 0 /\ n \in x
                    \/ e = 1 /\ n \in x /\ n \notin y
                    \/ e = 2 /\ ((n \in x /\ n \notin y) \/ (n \in y /\ n \notin x))
                    \/ e = 3 /\ (n \in x \/ n \in y)
<1>1. CASE e = 0
  BY <1>1 DEF Changed
<1>2. CASE e = 1
  BY <1>2 DEF Changed
<1>3. CASE e = 2
  BY <1>3 DEF Changed
<1>4. CASE e = 3
  BY <1>4 DEF Changed
<1> QED
  BY <1>1, <1>2, <1>3, <1>4

Modifies(e) == <<"N", "Z", "C", "O">>[e + 1]

LEMMA MaskedBits ==
  ASSUME NEW a \in Word, NEW b \in Word, NEW e \in 0 .. 3
  PROVE  /\ Masked(Modifies(e), a, b) \in Word
         /\ Bits[Masked(Modifies(e), a, b)] = Changed(e, Bits[a], Bits[b])
<1> DEFINE x == Bits[a]
           y == Bits[b]
<1>1. x \subseteq BitNumber /\ y \subseteq BitNumber
  BY BitsOf
<1>2. CASE e = 0
  BY <1>2 DEF Modifies, Masked, Changed
<1>3. CASE e = 1
  <2>1. Masked(Modifies(e), a, b) = WordOf[x \ y]
    BY <1>3 DEF Modifies, Masked, zeroMask
  <2>2. Changed(e, x, y) = x \ y /\ x \ y \in SUBSET BitNumber
    BY <1>1, <1>3 DEF Changed
  <2> QED
    BY <2>1, <2>2, WordOfBits
<1>4. CASE e = 2
  <2>1. Masked(Modifies(e), a, b) = WordOf[(x \ y) \union (y \ x)]
    BY <1>4 DEF Modifies, Masked, compMask
  <2>2. Changed(e, x, y) = (x \ y) \union (y \ x) /\ (x \ y) \union (y \ x) \in SUBSET BitNumber
    BY <1>1, <1>4 DEF Changed
  <2> QED
    BY <2>1, <2>2, WordOfBits
<1>5. CASE e = 3
  <2>1. Masked(Modifies(e), a, b) = WordOf[x \union y]
    BY <1>5 DEF Modifies, Masked, onesMask
  <2>2. Changed(e, x, y) = x \union y /\ x \union y \in SUBSET BitNumber
    BY <1>1, <1>5 DEF Changed
  <2> QED
    BY <2>1, <2>2, WordOfBits
<1> QED
  BY <1>2, <1>3, <1>4, <1>5

\* A test of one half is one of the word, under a mask that spares the other half.
LEMMA HalfTested ==
  ASSUME NEW a \in Word, NEW h \in HalfWord, NEW e \in 0 .. 3, NEW right \in BOOLEAN,
         NEW half, half = (IF right THEN rhu(a) ELSE lhu(a)),
         NEW mask, mask = (IF right THEN h ELSE h * HalfSize),
         NEW v, v = Masked(Modifies(e), half, h),
         NEW w, w = (IF right THEN W36(lhu(a), rhu(v)) ELSE W36(rhu(v), rhu(a)))
  PROVE  /\ mask \in Word
         /\ Bits[w] = Changed(e, Bits[a], Bits[mask])
         /\ andIsZero(half, h) <=> Bits[a] \intersect Bits[mask] = {}
<1>1. PICK k \in Nat : HalfSize = 2^k /\ WordLength = 2 * k
  BY HalfLength
<1> DEFINE l == lhu(a)
           r == rhu(a)
           lv == lhu(v)
           rv == rhu(v)
<1>2. /\ l \in HalfWord /\ r \in HalfWord /\ a = W36(l, r) /\ half = (IF right THEN r ELSE l)
      /\ w = (IF right THEN W36(l, rv) ELSE W36(rv, r))
  BY Halves
<1>3. 0 \in HalfWord /\ HalfSize \in Nat /\ h \in Int /\ HalfWord \subseteq Word
  BY WordAssumption, SignedNumbers DEF HalfWord
<1>4. /\ \A p, q \in HalfWord : \A n \in BitNumber :
           n \in Bits[W36(p, q)] <=> IF n < k THEN n \in Bits[q] ELSE n - k \in Bits[p]
      /\ \A p \in HalfWord : p \in Word /\ Bits[p] \subseteq 0 .. k - 1
  BY <1>1, BitsOfHalves
<1>5. BitNumber = 0 .. 2 * k - 1
  BY <1>1 DEF BitNumber
<1>6. half \in Word /\ h \in Word
  BY <1>2, <1>3
<1>7. v \in Word /\ Bits[v] = Changed(e, Bits[half], Bits[h])
  BY <1>6, MaskedBits
<1>8. lv \in HalfWord /\ rv \in HalfWord /\ v = W36(lv, rv)
  BY <1>7, Halves
<1>9. mask = (IF right THEN W36(0, h) ELSE W36(h, 0)) /\ mask \in Word
  <2>1. W36(0, h) = 0 * HalfSize + h /\ W36(h, 0) = h * HalfSize + 0
        /\ W36(0, h) \in Word /\ W36(h, 0) \in Word
    BY <1>3, W36OfHalves
  <2> DEFINE g == h * HalfSize
  <2>2. g \in Int /\ 0 * HalfSize + h = h /\ g + 0 = g
    BY <1>3
  <2> QED
    BY <2>1, <2>2
<1>10. Bits[0] = {}
  <2>1. \A n \in BitNumber : bit(0, n) = 0
    <3>1. 0 \in 0 .. 2^0 - 1 /\ 0 \in Nat
      OBVIOUS
    <3>2. \A n \in BitNumber : n \in Nat /\ n >= 0
      BY <1>5
    <3> QED
      BY <3>1, <3>2, BitsAbove
  <2> QED
    BY <1>3, <2>1, BitsOf
<1> HIDE DEF l, r, lv, rv
<1>11. w \in Word
  BY <1>2, <1>8, W36OfHalves
<1> DEFINE A == Bits[a]
           B == Bits[mask]
<1>12. A \subseteq BitNumber /\ B \subseteq BitNumber /\ Bits[w] \subseteq BitNumber
  BY <1>9, <1>11, BitsOf
<1>13. \A n \in BitNumber :
          /\ n \in A <=> IF n < k THEN n \in Bits[r] ELSE n - k \in Bits[l]
          /\ n \in Bits[v] <=> IF n < k THEN n \in Bits[rv] ELSE n - k \in Bits[lv]
          /\ n \in B <=> IF right THEN n < k /\ n \in Bits[h] ELSE n >= k /\ n - k \in Bits[h]
          /\ n \in Bits[w] <=> IF right THEN IF n < k THEN n \in Bits[rv] ELSE n - k \in Bits[l]
                               ELSE IF n < k THEN n \in Bits[r] ELSE n - k \in Bits[rv]
  <2>1. ASSUME NEW n \in BitNumber
        PROVE /\ n \in A <=> IF n < k THEN n \in Bits[r] ELSE n - k \in Bits[l]
              /\ n \in Bits[v] <=> IF n < k THEN n \in Bits[rv] ELSE n - k \in Bits[lv]
    BY <1>2, <1>4, <1>8
  <2>2. ASSUME NEW n \in BitNumber
        PROVE n \in B <=> IF right THEN n < k /\ n \in Bits[h] ELSE n >= k /\ n - k \in Bits[h]
    <3>1. CASE right
      <4>1. n \in Bits[W36(0, h)] <=> IF n < k THEN n \in Bits[h] ELSE n - k \in Bits[0]
        BY <1>3, <1>4
      <4> QED
        BY <1>9, <1>10, <3>1, <4>1
    <3>2. CASE ~right
      <4>1. n \in Bits[W36(h, 0)] <=> IF n < k THEN n \in Bits[0] ELSE n - k \in Bits[h]
        BY <1>3, <1>4
      <4>2. n \in Int /\ k \in Int
        BY <1>5
      <4> QED
        BY <1>9, <1>10, <3>2, <4>1, <4>2
    <3> QED
      BY <3>1, <3>2
  <2>3. ASSUME NEW n \in BitNumber
        PROVE n \in Bits[w] <=> IF right THEN IF n < k THEN n \in Bits[rv] ELSE n - k \in Bits[l]
                                ELSE IF n < k THEN n \in Bits[r] ELSE n - k \in Bits[rv]
    <3>1. CASE right
      BY <1>2, <1>4, <1>8, <3>1
    <3>2. CASE ~right
      BY <1>2, <1>4, <1>8, <3>2
    <3> QED
      BY <3>1, <3>2
  <2> QED
    BY <2>1, <2>2, <2>3
<1> HIDE DEF A, B
<1>14. \A n \in BitNumber : n \in Bits[w] <=> n \in Changed(e, A, B)
  <2> SUFFICES ASSUME NEW n \in BitNumber PROVE n \in Bits[w] <=> n \in Changed(e, A, B)
    OBVIOUS
  <2>1. n \in Int /\ k \in Int /\ (n >= k => n - k \in BitNumber /\ (n - k) + k = n)
    BY <1>5
  <2>2. \A j : j \in 0 .. k - 1 => j \in BitNumber /\ j < k
    BY <1>5
  <2>3. CASE right /\ n < k
    <3>1. n \in Bits[w] <=> n \in Changed(e, Bits[r], Bits[h])
      BY <1>2, <1>7, <1>13, <2>3
    <3>2. (n \in A <=> n \in Bits[r]) /\ (n \in B <=> n \in Bits[h])
      BY <1>13, <2>3
    <3> QED
      BY <3>1, <3>2, ChangedAt
  <2>4. CASE right /\ ~(n < k)
    <3>1. (n \in Bits[w] <=> n \in A) /\ n \notin B
      BY <1>13, <2>4
    <3> QED
      BY <3>1, ChangedAt
  <2>5. CASE ~right /\ n < k
    <3>1. (n \in Bits[w] <=> n \in A) /\ n \notin B
      BY <1>13, <2>1, <2>5
    <3> QED
      BY <3>1, ChangedAt
  <2>6. CASE ~right /\ ~(n < k)
    <3>1. /\ n \in Bits[w] <=> n - k \in Bits[rv]
          /\ n \in A <=> n - k \in Bits[l]
          /\ n \in B <=> n - k \in Bits[h]
      BY <1>13, <2>1, <2>6
    <3>2. n - k \in BitNumber /\ n - k < k
      BY <1>5, <2>1, <2>6
    <3>3. n - k \in Bits[rv] <=> n - k \in Changed(e, Bits[l], Bits[h])
      BY <1>2, <1>7, <1>13, <2>6, <3>2
    <3> QED
      BY <3>1, <3>3, ChangedAt
  <2> QED
    BY <2>3, <2>4, <2>5, <2>6
<1>15. Changed(e, A, B) \subseteq BitNumber
  BY <1>12, ChangedAt DEF A, B
<1>16. Bits[w] = Changed(e, A, B)
  BY <1>12, <1>14, <1>15
<1>17. andIsZero(half, h) <=> A \intersect B = {}
  <2>1. \A j : j \in Bits[h] => j \in 0 .. k - 1
    BY <1>4
  <2>2. \A j \in 0 .. k - 1 : j \in BitNumber /\ j + k \in BitNumber /\ (j + k) - k = j
                              /\ j < k /\ ~(j + k < k) /\ j + k >= k
    BY <1>5
  <2>3. \A n \in BitNumber : n \in Int /\ (~(n < k) <=> n >= k)
    BY <1>5
  <2>4. CASE right
    BY <1>2, <1>12, <1>13, <2>1, <2>2, <2>4 DEF andIsZero, A, B
  <2>5. CASE ~right
    <3>1. ASSUME NEW j, j \in Bits[l], j \in Bits[h] PROVE j + k \in A /\ j + k \in B
      BY <1>13, <2>1, <2>2, <2>5, <3>1
    <3>2. ASSUME NEW n, n \in A, n \in B PROVE n - k \in Bits[l] /\ n - k \in Bits[h]
      BY <1>12, <1>13, <2>3, <2>5, <3>2 DEF A, B
    <3> QED
      BY <1>2, <2>5, <3>1, <3>2 DEF andIsZero
  <2> QED
    BY <2>4, <2>5
<1> QED
  BY <1>9, <1>16, <1>17 DEF A, B

\* The four conditions of a test.
Conditions(c) == <<"", "E", "A", "N">>[c + 1]

LEMMA SkipsByNumber ==
  ASSUME NEW c \in 0 .. 3, NEW a, NEW b, NEW anyOne \in BOOLEAN, andIsZero(a, b) <=> ~anyOne
  PROVE  TestSkips(Conditions(c), a, b) = <<FALSE, ~anyOne, TRUE, anyOne>>[c + 1]
<1> DEFINE names == <<"", "E", "A", "N">>
           skips == <<FALSE, ~anyOne, TRUE, anyOne>>
<1>1. names[1] = "" /\ names[2] = "E" /\ names[3] = "A" /\ names[4] = "N"
  OBVIOUS
<1>2. skips[1] = FALSE /\ skips[2] = ~anyOne /\ skips[3] = TRUE /\ skips[4] = anyOne
  BY Zenon
<1>3. /\ TestSkips("", a, b) = FALSE
      /\ TestSkips("E", a, b) = andIsZero(a, b)
      /\ TestSkips("A", a, b) = TRUE
      /\ TestSkips("N", a, b) = ~andIsZero(a, b)
  BY Zenon DEF TestSkips
<1>4. Conditions(c) = names[c + 1]
  BY DEF Conditions
<1>5. andIsZero(a, b) = ~anyOne
  BY DEF andIsZero
<1>6. c + 1 = 1 \/ c + 1 = 2 \/ c + 1 = 3 \/ c + 1 = 4
  OBVIOUS
<1> HIDE DEF names, skips
<1>7. TestSkips(names[c + 1], a, b) = skips[c + 1]
  BY <1>1, <1>2, <1>3, <1>5, <1>6, Zenon
<1> QED
  BY <1>4, <1>7 DEF skips

\* testsUseOneMask: the tests of i-tstset.cpp.
LEMMA TestStep == Ready /\ Next => testsUseOneMask
<1> SUFFICES ASSUME Ready, Next, op \in TestOps
             PROVE  testsUseOneMask
  BY DEF testsUseOneMask
<1> DEFINE i == iw'
           d == op - \o600
           e == d \div 16
           c == (d % 8) \div 2
           byHalf == d % 16 < 8
           right == d % 2 = 0
           x == store[ac]
           mask == CASE d % 16 < 8 /\ d % 2 = 0 -> ea
                     [] d % 16 < 8 /\ d % 2 = 1 -> ea * HalfSize
                     [] d % 16 >= 8 /\ d % 2 = 0 -> store[ea]
                     [] d % 16 >= 8 /\ d % 2 = 1 -> swap(store[ea])
           a == IF byHalf THEN IF right THEN rhu(x) ELSE lhu(x) ELSE x
           b == IF byHalf THEN ea ELSE IF right THEN store[ea] ELSE swap(store[ea])
           v == Masked(Modifies(e), a, b)
           w == IF byHalf THEN IF right THEN W36(lhu(x), rhu(v)) ELSE W36(rhu(v), rhu(x)) ELSE v
           anyOne == Bits[x] \intersect Bits[mask] # {}
<1>1. /\ store \in [Addr -> Word] /\ ac \in Addr /\ op \in Nat /\ ea \in Addr
      /\ Addr \subseteq Word /\ DoTest(i)
      /\ op = i.op /\ ac = i.ac /\ ea = i.ea
  <2>1. DoTest(i)
    BY SelectedBits
  <2>2. op \notin ShiftOps
    BY DEF TestOps, ShiftOps
  <2>3. store \in [Addr -> Word] /\ ac \in Addr /\ op \in Nat /\ ea \in Addr
    BY <2>2, OneStep
  <2>4. Addr \subseteq Word
    BY SignedNumbers DEF Addr
  <2> QED
    BY <2>1, <2>3, <2>4 DEF op, ac, ea
<1>2. x \in Word /\ store[ea] \in Word /\ ea \in HalfWord /\ swap(store[ea]) \in Word
  <2>1. x \in Word /\ store[ea] \in Word /\ ea \in HalfWord
    BY <1>1 DEF Addr
  <2>2. rhu(store[ea]) \in Int /\ lhu(store[ea]) \in Int
    BY <2>1, Halves, WordAssumption DEF HalfWord
  <2> QED
    BY <2>1, <2>2, HalvesOfW36 DEF swap
<1>3. /\ d \in 0 .. 63 /\ e \in 0 .. 3 /\ c \in 0 .. 3
      /\ byHalf <=> (op \div 8) % 2 = 0
      /\ right <=> op % 2 = 0
      /\ op % 8 = d % 8
      /\ d % 2 \in {0, 1} /\ (~byHalf <=> d % 16 >= 8)
  BY DEF TestOps
<1>4. mask = IF byHalf THEN IF right THEN ea ELSE ea * HalfSize ELSE b
  <2>1. CASE byHalf /\ right
    BY <1>3, <2>1
  <2>2. CASE byHalf /\ ~right
    BY <1>3, <2>2
  <2>3. CASE ~byHalf /\ right
    BY <1>3, <2>3
  <2>4. CASE ~byHalf /\ ~right
    BY <1>3, <2>4
  <2> QED
    BY <2>1, <2>2, <2>3, <2>4
<1>5. Done(i, CASE Modifies(e) = "N" -> store
                [] Modifies(e) # "N" /\ byHalf -> acPutHalf(i, v)
                [] OTHER -> acPut(i, v),
           {}, IF TestSkips(Conditions(c), a, b) THEN "iSkip" ELSE "iNormal")
  <2> DEFINE a1 == IF (i.op \div 8) % 2 = 0 THEN TestedHalf(i) ELSE acGet(i)
             b1 == IF (i.op \div 8) % 2 = 0 THEN i.ea ELSE TestMask(i)
             byHalf1 == (i.op \div 8) % 2 = 0
             m1 == <<"N", "Z", "C", "O">>[((i.op - \o600) \div 16) + 1]
             c1 == <<"", "E", "A", "N">>[((i.op % 8) \div 2) + 1]
  <2>1. m1 = Modifies(e)
    BY <1>1 DEF Modifies
  <2>2. c1 = Conditions(c)
    BY <1>1, <1>3, Zenon DEF Conditions
  <2>3. a1 = a /\ b1 = b /\ byHalf1 = byHalf
    BY <1>1, <1>3 DEF TestedHalf, TestRight, TestMask, acGet, memGet, ac, ea
  <2>4. DoTest(i)
    BY <1>1
  <2>5. Done(i, CASE m1 = "N" -> store
                  [] m1 # "N" /\ byHalf1 -> acPutHalf(i, Masked(m1, a1, b1))
                  [] OTHER -> acPut(i, Masked(m1, a1, b1)),
             {}, IF TestSkips(c1, a1, b1) THEN "iSkip" ELSE "iNormal")
    BY <2>4, Zenon DEF DoTest
  <2> HIDE DEF a, b, e, c, a1, b1, byHalf1, byHalf, m1, c1
  <2> QED
    BY <2>1, <2>2, <2>3, <2>5, Zenon
<1> HIDE DEF d, e, c, mask, b
<1>6. /\ mask \in Word
      /\ Bits[w] = Changed(e, Bits[x], Bits[mask])
      /\ andIsZero(a, b) <=> Bits[x] \intersect Bits[mask] = {}
  <2>1. CASE byHalf
    <3> DEFINE half == IF right THEN rhu(x) ELSE lhu(x)
               m == IF right THEN ea ELSE ea * HalfSize
               v1 == Masked(Modifies(e), half, ea)
               w1 == IF right THEN W36(lhu(x), rhu(v1)) ELSE W36(rhu(v1), rhu(x))
    <3>1. half = a /\ m = mask /\ v1 = v /\ w1 = w /\ b = ea
      BY <1>4, <2>1 DEF b
    <3>2. right \in BOOLEAN
      OBVIOUS
    <3> HIDE DEF right
    <3>3. /\ half = IF right THEN rhu(x) ELSE lhu(x)
          /\ m = IF right THEN ea ELSE ea * HalfSize
          /\ v1 = Masked(Modifies(e), half, ea)
          /\ w1 = IF right THEN W36(lhu(x), rhu(v1)) ELSE W36(rhu(v1), rhu(x))
      OBVIOUS
    <3> HIDE DEF half, m, v1, w1, x, e
    <3>4. /\ m \in Word
          /\ Bits[w1] = Changed(e, Bits[x], Bits[m])
          /\ andIsZero(half, ea) <=> Bits[x] \intersect Bits[m] = {}
      BY <1>2, <1>3, <3>2, <3>3, HalfTested
    <3> QED
      BY <3>1, <3>4
  <2>2. CASE ~byHalf
    <3>1. a = x /\ mask = b /\ w = v
      BY <1>4, <2>2
    <3>2. b \in Word
      BY <1>2, <2>2 DEF b
    <3> HIDE DEF a, x, w, v
    <3>3. Bits[Masked(Modifies(e), x, b)] = Changed(e, Bits[x], Bits[b])
      BY <1>2, <1>3, <3>2, MaskedBits
    <3> QED
      BY <3>1, <3>2, <3>3 DEF andIsZero, v
  <2> QED
    BY <2>1, <2>2
<1>7. store'[ac] = IF e = 0 THEN x ELSE w
  <2>1. Modifies(e) = "N" <=> e = 0
    BY <1>3 DEF Modifies
  <2> DEFINE s == CASE Modifies(e) = "N" -> store
                    [] Modifies(e) # "N" /\ byHalf -> acPutHalf(i, v)
                    [] OTHER -> acPut(i, v)
  <2>2. store' = s
    BY <1>5 DEF Done
  <2>3. CASE e = 0
    BY <2>1, <2>2, <2>3
  <2>4. CASE e # 0 /\ byHalf
    <3>1. s = acPutHalf(i, v)
      BY <2>1, <2>4
    <3>2. acPutHalf(i, v) = Put(store, ac, w)
      BY <1>1, <1>3, <2>4 DEF acPutHalf, acPut, TestRight, acGet, ac
    <3> HIDE DEF s, v, w
    <3> QED
      BY <1>1, <2>2, <2>4, <3>1, <3>2, Replaced
  <2>5. CASE e # 0 /\ ~byHalf
    <3>1. s = acPut(i, v)
      BY <2>1, <2>5
    <3>2. acPut(i, v) = Put(store, ac, w)
      BY <2>5 DEF acPut, ac
    <3> HIDE DEF s, v, w
    <3> QED
      BY <1>1, <2>2, <2>5, <3>1, <3>2, Replaced
  <2> QED
    BY <2>3, <2>4, <2>5
<1>8. Bits[store'[ac]] = Changed(e, Bits[x], Bits[mask])
  <2>1. CASE e = 0
    BY <1>7, <2>1 DEF Changed
  <2>2. CASE e # 0
    BY <1>6, <1>7, <2>2
  <2> QED
    BY <2>1, <2>2
<1>9. (result' = "iSkip") = <<FALSE, ~anyOne, TRUE, anyOne>>[c + 1]
  <2>1. result' = IF TestSkips(Conditions(c), a, b) THEN "iSkip" ELSE "iNormal"
    BY <1>5 DEF Done
  <2>2. anyOne \in BOOLEAN /\ (andIsZero(a, b) <=> ~anyOne)
    BY <1>6
  <2> HIDE DEF anyOne, a
  <2>3. TestSkips(Conditions(c), a, b) = <<FALSE, ~anyOne, TRUE, anyOne>>[c + 1]
    BY <1>3, <2>2, SkipsByNumber
  <2>4. <<FALSE, ~anyOne, TRUE, anyOne>>[c + 1] \in BOOLEAN
    <3> DEFINE skips == <<FALSE, ~anyOne, TRUE, anyOne>>
    <3>1. skips[1] = FALSE /\ skips[2] = ~anyOne /\ skips[3] = TRUE /\ skips[4] = anyOne
      BY Zenon
    <3>2. c + 1 = 1 \/ c + 1 = 2 \/ c + 1 = 3 \/ c + 1 = 4
      BY <1>3
    <3>3. skips[1] \in BOOLEAN /\ skips[2] \in BOOLEAN /\ skips[3] \in BOOLEAN /\ skips[4] \in BOOLEAN
      BY <2>2, <3>1, Zenon
    <3> HIDE DEF skips
    <3>4. skips[c + 1] \in BOOLEAN
      BY <3>2, <3>3, Zenon
    <3> QED
      BY <3>4 DEF skips
  <2>5. "iSkip" # "iNormal"
    OBVIOUS
  <2> QED
    BY <2>1, <2>3, <2>4, <2>5, Zenon
<1> QED
  BY <1>8, <1>9, Zenon DEF testsUseOneMask, Changed, mask, d, e, c, x

\* BitsByOpcode: the 64 Booleans and the 64 tests of i-intbin.cpp and i-tstset.cpp.
THEOREM BitsNamed == Spec => BitsByOpcode
<1>1. Ready /\ [Next]_vars => [booleanByOpcode /\ testsUseOneMask]_vars
  BY BooleanStep, TestStep
<1> QED
  BY <1>1, ReadyInvariant, PTL DEF Spec, BitsByOpcode
----------------------------------------------------------------------------
\* Shifts.

\* The set of a number's k lowest ones.
Ones(w, k) == {m \in 0 .. k - 1 : bit(w, m) = 1}

LEMMA WordNumbers ==
  /\ WordLength \in Nat \ {0} /\ SignBit \in Nat \ {0} /\ 2^WordLength = 2 * SignBit
  /\ Word = 0 .. 2^WordLength - 1
  /\ \A w \in Word : Bits[w] = Ones(w, WordLength)
<1>1. WordLength \in Nat /\ SignBit \in Nat \ {0} /\ 2^WordLength = 2 * SignBit
  BY WordAssumption, LengthAssumption
<1>2. WordLength # 0
  <2>1. 2^0 = 1 /\ 2 * SignBit # 1
    BY <1>1
  <2> QED
    BY <1>1, <2>1
<1>3. Word = 0 .. 2^WordLength - 1
  BY <1>1 DEF Word
<1>4. ASSUME NEW w \in Word PROVE Bits[w] = Ones(w, WordLength)
  BY BitsOf DEF Ones, BitNumber
<1> QED
  BY <1>1, <1>2, <1>3, <1>4

\* The count that the handlers use, in the words of the law.
LEMMA CountOfShift ==
  ASSUME NEW n \in Int, NEW k \in Nat \ {0}
  PROVE  LET c == magnitudeOf(n) % k
         IN  /\ shiftCount(n, k) = IF n < 0 THEN -c ELSE c
             /\ shiftCount(n, k) \in -(k - 1) .. k - 1
<1>1. magnitudeOf(n) \in Int
  BY DEF magnitudeOf
<1>2. magnitudeOf(n) % k \in 0 .. k - 1
  BY <1>1, RemainderRange
<1>3. shiftCount(n, k) = IF n < 0 THEN -(magnitudeOf(n) % k) ELSE magnitudeOf(n) % k
  BY DEF shiftCount, Remainder, magnitudeOf
<1> QED
  BY <1>2, <1>3

\* A rotation by n places, up or down, in a word of k bits.
LEMMA RotatedOnes ==
  ASSUME NEW k \in Nat \ {0}, NEW n \in -(k - 1) .. k - 1, NEW w \in 0 .. 2^k - 1
  PROVE  LET r == IF n >= 0 THEN ((w * 2^n) % 2^k) + (w \div 2^(k - n))
                            ELSE (w \div 2^(-n)) + ((w * 2^(k + n)) % 2^k)
         IN  r \in 0 .. 2^k - 1 /\ Ones(r, k) = {(m + n) % k : m \in Ones(w, k)}
<1> DEFINE r == IF n >= 0 THEN ((w * 2^n) % 2^k) + (w \div 2^(k - n))
                          ELSE (w \div 2^(-n)) + ((w * 2^(k + n)) % 2^k)
           j == IF n >= 0 THEN n ELSE k + n
           s == ((w * 2^j) % 2^k) + (w \div 2^(k - j))
<1>1. j \in 0 .. k
  OBVIOUS
<1>2. r = s
  <2>1. CASE n >= 0
    BY <2>1
  <2>2. CASE n < 0
    <3> DEFINE a == w \div 2^(k - j)
               b == (w * 2^j) % 2^k
    <3>1. j = k + n /\ k - j = -n
      BY <2>2
    <3>2. r = a + b /\ s = b + a
      BY <2>2, <3>1
    <3>3. a \in Int /\ b \in Int
      <4>1. k - j \in Nat /\ j \in Nat /\ w \in Int
        BY <1>1, PowerIsPositive
      <4> DEFINE e == 2^(k - j)
                 f == 2^j
                 g == 2^k
      <4>2. e \in Nat \ {0} /\ f \in Nat \ {0} /\ g \in Nat \ {0}
        BY <4>1, PowerIsPositive
      <4> HIDE DEF e, f, g
      <4>3. w \div e \in Int /\ (w * f) % g \in Int
        BY <4>1, <4>2
      <4> QED
        BY <4>3 DEF e, f, g
    <3> HIDE DEF a, b, r, s
    <3> QED
      BY <3>2, <3>3
  <2> QED
    BY <2>1, <2>2
<1> HIDE DEF r, j
<1>3. /\ s \in 0 .. 2^k - 1
      /\ \A m \in 0 .. k - 1 : bit(s, m) = IF m < j THEN bit(w, m + (k - j)) ELSE bit(w, m - j)
  BY <1>1, BitsRotated
<1> HIDE DEF s
<1>4. ASSUME NEW m \in 0 .. k - 1 PROVE (m + n) % k = IF m + j < k THEN m + j ELSE m + j - k
  <2> DEFINE x == m + n
  <2>1. x \in Int /\ -k <= x /\ x < 2 * k
    OBVIOUS
  <2> HIDE DEF x
  <2>2. x % k = IF x < 0 THEN x + k ELSE IF x < k THEN x ELSE x - k
    BY <2>1, NearRemainder
  <2> QED
    BY <2>2 DEF j, x
<1>5. ASSUME NEW m \in Ones(s, k) PROVE \E b \in Ones(w, k) : m = (b + n) % k
  <2> DEFINE b == IF m < j THEN m + (k - j) ELSE m - j
  <2>1. m \in 0 .. k - 1 /\ bit(s, m) = 1
    BY DEF Ones
  <2>2. b \in 0 .. k - 1 /\ bit(w, b) = 1
    BY <1>1, <1>3, <2>1
  <2>3. m = IF b + j < k THEN b + j ELSE b + j - k
    BY <1>1, <2>1
  <2> HIDE DEF b
  <2>4. b \in Ones(w, k) /\ m = (b + n) % k
    BY <1>4, <2>2, <2>3 DEF Ones
  <2> QED
    BY <2>4
<1>6. ASSUME NEW b \in Ones(w, k) PROVE (b + n) % k \in Ones(s, k)
  <2> DEFINE m == IF b + j < k THEN b + j ELSE b + j - k
  <2>1. b \in 0 .. k - 1 /\ bit(w, b) = 1
    BY DEF Ones
  <2>2. m \in 0 .. k - 1 /\ b = IF m < j THEN m + (k - j) ELSE m - j
    BY <1>1, <2>1
  <2>3. (b + n) % k = m
    BY <1>4, <2>1
  <2> HIDE DEF m
  <2>4. bit(s, m) = 1
    BY <1>3, <2>1, <2>2
  <2> QED
    BY <2>2, <2>3, <2>4 DEF Ones
<1>7. Ones(s, k) = {(m + n) % k : m \in Ones(w, k)}
  BY <1>5, <1>6
<1> QED
  BY <1>2, <1>3, <1>7 DEF r

LEMMA ROTBits ==
  ASSUME NEW w \in Word, NEW n \in -(WordLength - 1) .. WordLength - 1
  PROVE  Bits[ROT(w, n)] = {(m + n) % WordLength : m \in Bits[w]}
<1> DEFINE k == WordLength
           r == ROT(w, n)
<1>1. r = IF n >= 0 THEN ((w * 2^n) % 2^k) + (w \div 2^(k - n))
                    ELSE (w \div 2^(-n)) + ((w * 2^(k + n)) % 2^k)
  BY WordNumbers DEF ROT, Trunc
<1>2. k \in Nat \ {0} /\ w \in 0 .. 2^k - 1
  BY WordNumbers
<1> HIDE DEF r, k
<1>3. r \in 0 .. 2^k - 1 /\ Ones(r, k) = {(m + n) % k : m \in Ones(w, k)}
  <2>1. n \in -(k - 1) .. k - 1
    BY DEF k
  <2> QED
    BY <1>1, <1>2, <2>1, RotatedOnes
<1> QED
  BY <1>3, WordNumbers DEF r, k

LEMMA LSHBits ==
  ASSUME NEW w \in Word, NEW n \in -(WordLength - 1) .. WordLength - 1
  PROVE  Bits[LSH(w, n)] = {m + n : m \in Bits[w]} \intersect BitNumber
<1> DEFINE k == WordLength
           r == LSH(w, n)
<1>1. k \in Nat \ {0} /\ w \in 0 .. 2^k - 1 /\ BitNumber = 0 .. k - 1
  BY WordNumbers DEF BitNumber
<1>2. /\ r \in 0 .. 2^k - 1
      /\ \A m \in 0 .. k - 1 : bit(r, m) = IF m - n \in 0 .. k - 1 THEN bit(w, m - n) ELSE 0
  <2>1. CASE n >= 0
    <3>1. r = (w * 2^n) % 2^k
      BY <2>1, WordNumbers DEF LSH, Trunc
    <3>2. n \in 0 .. k
      BY <1>1, <2>1
    <3> HIDE DEF r, k
    <3>3. /\ r \in 0 .. 2^k - 1
          /\ \A m \in 0 .. k - 1 : bit(r, m) = IF m < n THEN 0 ELSE bit(w, m - n)
      BY <1>1, <3>1, <3>2, BitsMovedUp
    <3>4. \A m \in 0 .. k - 1 : m < n <=> m - n \notin 0 .. k - 1
      BY <1>1, <3>2
    <3> QED
      BY <3>3, <3>4
  <2>2. CASE n < 0
    <3> DEFINE j == -n
    <3>1. r = w \div 2^j
      BY <2>2 DEF LSH
    <3>2. j \in 0 .. k
      BY <1>1, <2>2
    <3>3. \A m \in 0 .. k - 1 : (m + j < k <=> m - n \in 0 .. k - 1) /\ m + j = m - n
      BY <1>1, <2>2
    <3> HIDE DEF r, k, j
    <3>4. /\ r \in 0 .. 2^k - 1
          /\ \A m \in 0 .. k - 1 : bit(r, m) = IF m + j < k THEN bit(w, m + j) ELSE 0
      BY <1>1, <3>1, <3>2, BitsMovedDown
    <3> QED
      BY <3>3, <3>4
  <2> QED
    BY <1>1, <2>1, <2>2
<1> HIDE DEF r, k
<1>3. ASSUME NEW m \in Ones(r, k) PROVE m - n \in Ones(w, k) /\ m = (m - n) + n
  <2>1. m \in 0 .. k - 1 /\ bit(r, m) = 1 /\ n \in Int
    BY DEF Ones
  <2>2. m - n \in 0 .. k - 1 /\ bit(w, m - n) = 1
    BY <1>2, <2>1
  <2> QED
    BY <2>1, <2>2 DEF Ones
<1>4. ASSUME NEW m \in Ones(w, k), m + n \in 0 .. k - 1 PROVE m + n \in Ones(r, k)
  <2>1. m \in 0 .. k - 1 /\ bit(w, m) = 1 /\ (m + n) - n = m
    BY DEF Ones
  <2>2. bit(r, m + n) = 1
    BY <1>2, <1>4, <2>1
  <2> QED
    BY <1>4, <2>2 DEF Ones
<1>5. Ones(r, k) = {m + n : m \in Ones(w, k)} \intersect (0 .. k - 1)
  <2>1. Ones(r, k) \subseteq 0 .. k - 1
    BY DEF Ones
  <2> QED
    BY <1>3, <1>4, <2>1
<1> QED
  BY <1>1, <1>2, <1>5, WordNumbers DEF r, k

\* Two words are one number of twice the length, and back.
LEMMA DoubleOnes ==
  ASSUME NEW hi \in Word, NEW lo \in Word
  PROVE  LET w == hi * (2 * SignBit) + lo
         IN  /\ w \in 0 .. 2^(2 * WordLength) - 1
             /\ bits72(hi, lo) = Ones(w, 2 * WordLength)
<1> DEFINE k == WordLength
           h == 2^k
           w == hi * h + lo
<1>1. k \in Nat \ {0} /\ h \in Nat \ {0} /\ hi \in 0 .. h - 1 /\ lo \in 0 .. h - 1 /\ 2 * SignBit = h
  BY WordNumbers
<1>2. 2^(2 * k) = h * h
  <2>1. 2 * k = k + k /\ k \in Nat
    BY <1>1
  <2> QED
    BY <2>1, PowerOfSum
<1>3. w \in 0 .. 2^(2 * k) - 1
  <2> HIDE DEF h, k
  <2>1. hi * h >= 0 /\ hi * h <= (h - 1) * h /\ (h - 1) * h = h * h - h /\ hi * h \in Int
    BY <1>1
  <2>2. h * h \in Int
    BY <1>1
  <2> QED
    BY <1>1, <1>2, <2>1, <2>2
<1>4. Bits[lo] = Ones(lo, k) /\ Bits[hi] = Ones(hi, k)
  BY WordNumbers
<1>5. ASSUME NEW m \in 0 .. 2 * k - 1
      PROVE  bit(w, m) = IF m < k THEN bit(lo, m) ELSE bit(hi, m - k)
  <2>1. hi \in Int /\ k \in Nat /\ lo \in 0 .. 2^k - 1
    BY <1>1
  <2>2. CASE m < k
    <3>1. m \in 0 .. k - 1
      BY <1>1, <2>2
    <3> HIDE DEF k
    <3> QED
      BY <2>1, <2>2, <3>1, BitsOfSum, Zenon
  <2>3. CASE m >= k
    <3> DEFINE j == m - k
    <3>1. j \in Nat /\ k + j = m
      BY <1>1, <2>3
    <3> HIDE DEF k, j
    <3>2. bit(hi * 2^k + lo, k + j) = bit(hi, j)
      BY <2>1, <3>1, BitsOfSum, Zenon
    <3>3. ~(m < k)
      BY <1>1, <2>3
    <3> QED
      BY <3>1, <3>2, <3>3 DEF j
  <2> QED
    BY <1>1, <2>2, <2>3
<1> HIDE DEF w, h
<1>6. ASSUME NEW m PROVE m \in bits72(hi, lo) <=> m \in Ones(w, 2 * k)
  <2>1. m \in bits72(hi, lo) <=> m \in Ones(lo, k) \/ \E n \in Ones(hi, k) : m = n + k
    BY <1>4 DEF bits72
  <2> HIDE DEF k
  <2>2. CASE m \in Ones(lo, k)
    BY <1>1, <1>5, <2>1, <2>2 DEF Ones
  <2>3. ASSUME NEW n \in Ones(hi, k), m = n + k PROVE m \in Ones(w, 2 * k)
    <3>1. n \in 0 .. k - 1 /\ bit(hi, n) = 1
      BY DEF Ones
    <3>2. m \in 0 .. 2 * k - 1 /\ ~(m < k) /\ m - k = n
      BY <1>1, <2>3, <3>1
    <3> QED
      BY <1>5, <3>1, <3>2 DEF Ones
  <2>4. CASE m \in Ones(w, 2 * k)
    <3>1. m \in 0 .. 2 * k - 1 /\ bit(w, m) = 1
      BY <2>4 DEF Ones
    <3>2. CASE m < k
      <4>1. m \in 0 .. k - 1 /\ bit(lo, m) = 1
        BY <1>1, <1>5, <3>1, <3>2
      <4>2. m \in Ones(lo, k)
        BY <4>1 DEF Ones
      <4> QED
        BY <2>1, <2>4, <4>2
    <3>3. CASE ~(m < k)
      <4>1. m - k \in 0 .. k - 1 /\ m = (m - k) + k
        BY <1>1, <3>1, <3>3
      <4>2. m - k \in Ones(hi, k)
        BY <1>5, <3>1, <3>3, <4>1 DEF Ones
      <4> QED
        BY <2>1, <2>4, <4>1, <4>2
    <3> QED
      BY <3>2, <3>3
  <2> QED
    BY <2>1, <2>2, <2>3, <2>4
<1>7. bits72(hi, lo) = Ones(w, 2 * k)
  <2> HIDE DEF k
  <2>1. \A m : m \in bits72(hi, lo) <=> m \in Ones(w, 2 * k)
    BY <1>6
  <2> QED
    BY <2>1
<1> QED
  BY <1>1, <1>3, <1>7 DEF w, h
LEMMA ROTCBits ==
  ASSUME NEW hi \in Word, NEW lo \in Word, NEW n \in -(2 * WordLength - 1) .. 2 * WordLength - 1
  PROVE  LET d == ROTC(W72(hi, lo), n)
         IN  bits72(d.hi, d.lo) = {(m + n) % (2 * WordLength) : m \in bits72(hi, lo)}
<1> DEFINE k == 2 * WordLength
           h == 2 * SignBit
           a == hi * h + lo
           r == IF n >= 0 THEN ((a * 2^n) % 2^k) + (a \div 2^(k - n))
                          ELSE (a \div 2^(-n)) + ((a * 2^(k + n)) % 2^k)
           q == r \div h
           t == r % h
<1>1. ROTC(W72(hi, lo), n) = W72(q, t)
  BY DEF ROTC, W72, Trunc
<1>2. k \in Nat \ {0} /\ a \in 0 .. 2^k - 1 /\ h \in Nat \ {0} /\ Word = 0 .. h - 1
  BY WordNumbers, DoubleOnes DEF Word
<1>3. n \in -(k - 1) .. k - 1
  OBVIOUS
<1>4. bits72(hi, lo) = Ones(a, k)
  BY DoubleOnes
<1>5. 2^k = h * h
  <2>1. k = WordLength + WordLength /\ WordLength \in Nat /\ 2^WordLength = h
    BY WordNumbers
  <2> QED
    BY <2>1, PowerOfSum
<1> HIDE DEF a, k
<1>6. r \in 0 .. 2^k - 1 /\ Ones(r, k) = {(m + n) % k : m \in Ones(a, k)}
  BY <1>2, <1>3, RotatedOnes
<1> HIDE DEF r
<1>7. q \in Word /\ t \in Word /\ r = q * h + t
  <2> HIDE DEF h
  <2>1. r \in Int /\ r >= 0 /\ r < h * h
    <3>1. h * h \in Int
      BY <1>2
    <3> QED
      BY <1>5, <1>6, <3>1
  <2>2. q \in Int /\ t \in 0 .. h - 1 /\ r = h * q + t
    BY <1>2, <2>1, Euclid
  <2> HIDE DEF q, t
  <2>3. CASE q < 0
    <3>1. h * q <= h * (-1) /\ h * q \in Int
      BY <1>2, <2>2, <2>3
    <3> QED
      BY <1>2, <2>1, <2>2, <3>1
  <2>4. CASE q >= h
    <3>1. h * q >= h * h /\ h * q \in Int /\ h * h \in Int
      BY <1>2, <2>2, <2>4
    <3> QED
      BY <1>2, <2>1, <2>2, <3>1
  <2>5. h * q = q * h
    BY <1>2, <2>2
  <2> QED
    BY <1>2, <2>2, <2>3, <2>4, <2>5
<1> HIDE DEF q, t
<1>8. bits72(q, t) = Ones(r, k)
  <2>1. bits72(q, t) = Ones(q * (2 * SignBit) + t, 2 * WordLength)
    BY <1>7, DoubleOnes
  <2> QED
    BY <1>7, <2>1 DEF h, k
<1>9. W72(q, t).hi = q /\ W72(q, t).lo = t
  BY DEF W72
<1>10. bits72(q, t) = {(m + n) % k : m \in bits72(hi, lo)}
  BY <1>4, <1>6, <1>8
<1> QED
  BY <1>1, <1>9, <1>10, Zenon DEF k

\* The quotient of a number and a greater power of two is the smaller.
LEMMA QuotientShrinks ==
  ASSUME NEW s \in Nat \ {0}, NEW x \in -s .. s - 1, NEW d \in Nat \ {0}
  PROVE  x \div d \in -s .. s - 1 /\ (x < 0 <=> x \div d < 0)
<1> DEFINE q == x \div d
           r == x % d
<1>1. q \in Int /\ r \in 0 .. d - 1 /\ x = d * q + r /\ x \in Int
  BY Euclid
<1> HIDE DEF q, r
<1>2. CASE q >= 0
  <2>1. d * q >= q /\ d * q \in Int
    BY <1>1, <1>2
  <2> QED
    BY <1>1, <1>2, <2>1 DEF q
<1>3. CASE q < 0
  <2>1. d * (q + 1) <= q + 1 /\ d * q <= -d /\ d * q \in Int /\ d * (q + 1) = d * q + d
    BY <1>1, <1>3
  <2> QED
    BY <1>1, <1>3, <2>1 DEF q
<1> QED
  BY <1>1, <1>2, <1>3

\* A sign and a magnitude, put together and taken apart.
LEMMA SignAndMagnitude ==
  ASSUME NEW negative \in BOOLEAN, NEW m \in 0 .. SignBit - 1
  PROVE  LET w == signTerm(negative) + m
         IN  /\ w \in Word /\ mag(w) = m /\ (sign(w) <=> negative)
             /\ ext64(w) = IF negative THEN m - SignBit ELSE m
<1> DEFINE w == signTerm(negative) + m
<1>1. SignBit \in Nat \ {0} /\ w = IF negative THEN SignBit + m ELSE m
  BY WordAssumption DEF signTerm
<1> HIDE DEF w
<1>2. w \in Int /\ -SignBit <= w /\ w < 2 * SignBit
  BY <1>1
<1>3. mag(w) = m
  BY <1>1, <1>2, NearRemainder DEF mag
<1>4. w \in Word /\ (sign(w) <=> negative)
  BY <1>1 DEF Word, sign
<1>5. ext64(w) = IF negative THEN m - SignBit ELSE m
  BY <1>1, <1>4 DEF ext64
<1> QED
  BY <1>3, <1>4, <1>5 DEF w

\* The magnitude of a signed number.
LEMMA MagOfSigned ==
  ASSUME NEW q \in -SignBit .. SignBit - 1
  PROVE  q % SignBit = IF q < 0 THEN q + SignBit ELSE q
<1>1. SignBit \in Nat \ {0} /\ -SignBit <= q /\ q < SignBit /\ q < 2 * SignBit /\ q \in Int
  BY WordAssumption
<1>2. q % SignBit = IF q < 0 THEN q + SignBit ELSE IF q < SignBit THEN q ELSE q - SignBit
  BY <1>1, NearRemainder
<1> QED
  BY <1>1, <1>2

LEMMA MagOfTrunc ==
  ASSUME NEW n \in Int
  PROVE  mag(Trunc(n)) = mag(n)
<1> DEFINE h == 2 * SignBit
           a == n \div h
           b == n % h
<1>1. SignBit \in Nat \ {0} /\ a \in Int /\ b \in Int /\ n = h * a + b
  <2>1. SignBit \in Nat \ {0} /\ h \in Nat \ {0}
    BY WordAssumption
  <2> HIDE DEF h
  <2> QED
    BY <2>1, Euclid
<1> HIDE DEF a, b
<1>2. n = (2 * a) * SignBit + b /\ 2 * a \in Int
  BY <1>1
<1>3. ((2 * a) * SignBit + b) % SignBit = b % SignBit
  BY <1>1, <1>2, DivisionOfSum
<1> QED
  BY <1>2, <1>3 DEF mag, Trunc, b

LEMMA ASHDivides ==
  ASSUME NEW w \in Word, NEW n \in Nat
  PROVE  ext64(ASH(w, n).value) = ext64(w) \div 2^n
<1> DEFINE x == ext64(w)
           d == 2^n
           q == x \div d
           moved == IF n > 0 THEN Trunc(q) ELSE Trunc(w * 2^(-n))
<1>1. /\ SignBit \in Nat \ {0} /\ x \in -SignBit .. SignBit - 1
      /\ (x < 0 <=> sign(w)) /\ sign(w) \in BOOLEAN /\ d \in Nat \ {0}
      /\ w \in 0 .. 2 * SignBit - 1
  BY WordAssumption, PowerIsPositive DEF Word, ext64, sign
<1>2. ASH(w, n).value = signTerm(sign(w)) + mag(moved)
  BY DEF ASH
<1>3. Trunc(w) = w
  <2> DEFINE h == 2 * SignBit
  <2>1. h \in Nat \ {0} /\ w \in Int /\ -h <= w /\ w < 2 * h /\ 0 <= w /\ w < h
    BY <1>1
  <2> HIDE DEF h
  <2>2. w % h = IF w < 0 THEN w + h ELSE IF w < h THEN w ELSE w - h
    BY <2>1, NearRemainder
  <2> QED
    BY <2>1, <2>2 DEF Trunc, h
<1>4. ext64(Trunc(x)) = x /\ w = Trunc(x)
  <2>1. ext64(Trunc(x)) = x /\ Trunc(x) \in Word
    BY <1>1, ExtOfTrunc
  <2> HIDE DEF x
  <2>2. ext64(w) = x
    BY DEF x
  <2> QED
    BY <2>1, <2>2, SignedNumbers
<1>5. moved = Trunc(q)
  <2>1. CASE n > 0
    BY <2>1
  <2>2. CASE n = 0
    <3>1. 2^(-n) = 1 /\ d = 1
      BY <2>2
    <3>2. moved = Trunc(w)
      BY <1>1, <2>2, <3>1
    <3> HIDE DEF moved, x, d
    <3>3. q = x
      BY <1>1, <3>1
    <3> QED
      BY <1>3, <1>4, <3>2, <3>3
  <2> QED
    BY <2>1, <2>2
<1> HIDE DEF moved, d, x
<1>6. q \in -SignBit .. SignBit - 1 /\ (q < 0 <=> sign(w))
  BY <1>1, QuotientShrinks
<1> HIDE DEF q
<1>7. mag(Trunc(q)) = IF q < 0 THEN q + SignBit ELSE q
  <2>1. mag(Trunc(q)) = mag(q)
    BY <1>1, <1>6, MagOfTrunc
  <2> QED
    BY <1>6, <2>1, MagOfSigned DEF mag
<1> DEFINE m == mag(Trunc(q))
<1>8. m \in 0 .. SignBit - 1
  BY <1>1, <1>6, <1>7
<1>9. ext64(signTerm(sign(w)) + m) = IF sign(w) THEN m - SignBit ELSE m
  <2> HIDE DEF m
  <2> QED
    BY <1>1, <1>8, SignAndMagnitude
<1>10. ext64(ASH(w, n).value) = q
  <2>1. ASH(w, n).value = signTerm(sign(w)) + m
    BY <1>2, <1>5
  <2>2. m = IF q < 0 THEN q + SignBit ELSE q
    BY <1>7
  <2> HIDE DEF m
  <2> QED
    BY <1>1, <1>6, <1>9, <2>1, <2>2
<1> QED
  BY <1>10 DEF q, x, d

LEMMA ASHCDivides ==
  ASSUME NEW hi \in Word, NEW lo \in Word, NEW n \in Nat \ {0}
  PROVE  LET d == ASHC(W72(hi, lo), -n).value
         IN  ext64(d.hi) * SignBit + mag(d.lo) = (ext64(hi) * SignBit + mag(lo)) \div 2^n
<1> DEFINE w70 == ext64(hi) * SignBit + mag(lo)
           q == w70 \div 2^n
           p == q \div SignBit
           r == q % SignBit
           h == signTerm(sign(hi)) + mag(p)
           l == signTerm(sign(hi)) + mag(q)
<1>1. ASHC(W72(hi, lo), -n).value.hi = h /\ ASHC(W72(hi, lo), -n).value.lo = l
  <2>1. -n < 0 /\ -(-n) = n /\ ~(-n >= 0)
    OBVIOUS
  <2> QED
    BY <2>1 DEF ASHC, W72
<1>2. /\ SignBit \in Nat \ {0} /\ 2^n \in Nat \ {0} /\ sign(hi) \in BOOLEAN
      /\ ext64(hi) \in -SignBit .. SignBit - 1 /\ (ext64(hi) < 0 <=> sign(hi))
      /\ mag(lo) \in 0 .. SignBit - 1
  BY WordAssumption, PowerIsPositive, MagRange DEF Word, ext64, sign
<1> DEFINE s == SignBit * SignBit
<1>3. s \in Nat \ {0} /\ w70 \in -s .. s - 1 /\ (w70 < 0 <=> sign(hi))
  <2> DEFINE x == ext64(hi)
             y == x * SignBit
  <2>1. x \in Int /\ -SignBit <= x /\ x <= SignBit - 1
    BY <1>2
  <2>2. /\ y \in Int /\ y >= (-SignBit) * SignBit /\ y <= (SignBit - 1) * SignBit
        /\ (x < 0 => y <= (-1) * SignBit) /\ (x >= 0 => y >= 0)
    <3> HIDE DEF x
    <3> QED
      BY <1>2, <2>1
  <2>3. (-SignBit) * SignBit = -s /\ (SignBit - 1) * SignBit = s - SignBit /\ s \in Nat \ {0}
    BY <1>2
  <2> HIDE DEF x, y, s
  <2>4. w70 = y + mag(lo) /\ (x < 0 <=> sign(hi))
    BY <1>2 DEF x, y
  <2> HIDE DEF w70
  <2>5. y \in Int /\ y >= -s /\ y <= s - SignBit
    BY <2>2, <2>3
  <2>6. (x < 0 => y <= -SignBit) /\ (x >= 0 => y >= 0)
    BY <1>2, <2>2
  <2>7. w70 \in -s .. s - 1 /\ (x < 0 => w70 < 0) /\ (x >= 0 => w70 >= 0)
    BY <1>2, <2>3, <2>4, <2>5, <2>6
  <2> QED
    BY <2>1, <2>3, <2>4, <2>7
<1> HIDE DEF w70, s
<1>4. q \in -s .. s - 1 /\ (q < 0 <=> sign(hi))
  <2> DEFINE d == 2^n
  <2>1. d \in Nat \ {0}
    BY <1>2
  <2> HIDE DEF d
  <2>2. w70 \div d \in -s .. s - 1 /\ (w70 < 0 <=> w70 \div d < 0)
    BY <1>3, <2>1, QuotientShrinks
  <2> QED
    BY <1>3, <2>2 DEF d
<1> HIDE DEF q
<1>5. p \in -SignBit .. SignBit - 1 /\ (p < 0 <=> sign(hi)) /\ r \in 0 .. SignBit - 1
      /\ q = p * SignBit + r
  <2>1. q \in Int /\ p \in Int /\ r \in 0 .. SignBit - 1 /\ q = SignBit * p + r
    BY <1>2, <1>3, <1>4, Euclid
  <2> HIDE DEF p, r
  <2>2. CASE p >= 0
    <3>1. SignBit * p >= 0 /\ SignBit * p \in Int
      BY <1>2, <2>1, <2>2
    <3>2. p < SignBit
      <4>1. CASE p >= SignBit
        <5>1. SignBit * p >= s
          BY <1>2, <2>1, <4>1 DEF s
        <5> QED
          BY <1>3, <1>4, <2>1, <3>1, <5>1
      <4> QED
        BY <1>2, <2>1, <4>1
    <3>3. q >= 0
      BY <2>1, <3>1
    <3>4. SignBit * p = p * SignBit
      BY <1>2, <2>1
    <3> QED
      BY <1>2, <1>3, <1>4, <2>1, <2>2, <3>2, <3>3, <3>4
  <2>3. CASE p < 0
    <3>1. SignBit * p <= -SignBit /\ SignBit * p \in Int
      BY <1>2, <2>1, <2>3
    <3>2. p >= -SignBit
      <4>1. CASE p <= -SignBit - 1
        <5>1. SignBit * p <= SignBit * (-SignBit - 1) /\ SignBit * (-SignBit - 1) = -s - SignBit
          BY <1>2, <2>1, <4>1 DEF s
        <5> QED
          BY <1>2, <1>3, <1>4, <2>1, <3>1, <5>1
      <4> QED
        BY <1>2, <2>1, <4>1
    <3>3. q < 0
      BY <1>2, <2>1, <3>1
    <3>4. SignBit * p = p * SignBit
      BY <1>2, <2>1
    <3> QED
      BY <1>2, <1>3, <1>4, <2>1, <2>3, <3>2, <3>3, <3>4
  <2> QED
    BY <2>1, <2>2, <2>3
<1>6. mag(p) = IF sign(hi) THEN p + SignBit ELSE p
  <2> HIDE DEF p
  <2> QED
    BY <1>2, <1>5, MagOfSigned DEF mag
<1>7. mag(q) = r
  BY DEF mag
<1> HIDE DEF p, r
<1> DEFINE m == mag(p)
<1>8. m \in 0 .. SignBit - 1
  BY <1>2, <1>5, <1>6
<1>9. ext64(h) = p
  <2> HIDE DEF m
  <2>1. ext64(signTerm(sign(hi)) + m) = IF sign(hi) THEN m - SignBit ELSE m
    BY <1>2, <1>8, SignAndMagnitude
  <2>2. m = IF sign(hi) THEN p + SignBit ELSE p
    BY <1>6 DEF m
  <2>3. h = signTerm(sign(hi)) + m
    BY DEF m
  <2> HIDE DEF h
  <2> QED
    BY <1>2, <1>5, <2>1, <2>2, <2>3
<1>10. mag(l) = r
  <2>1. mag(signTerm(sign(hi)) + r) = r
    BY <1>2, <1>5, SignAndMagnitude
  <2> QED
    BY <1>7, <2>1
<1> HIDE DEF h, l
<1>11. ext64(h) * SignBit + mag(l) = q
  BY <1>5, <1>9, <1>10
<1> QED
  BY <1>1, <1>11, Zenon DEF q, w70
\* What the two shift handlers leave in the store.
LEMMA ShiftWritten ==
  ASSUME Ready, Next, op \in ShiftOps, op # \o243, ran
  PROVE  LET i == iw'
             n == shiftCount(ea, WordLength)
             n2 == shiftCount(ea, 2 * WordLength)
         IN  /\ ea \in Int /\ store[ac] \in Word
             /\ op = \o240 => store'[ac] = ASH(store[ac], n).value
             /\ op = \o241 => store'[ac] = ROT(store[ac], n)
             /\ op = \o242 => store'[ac] = LSH(store[ac], n)
             /\ op \in {\o244, \o245} => store[ac + 1] \in Word
             /\ op = \o244 /\ n2 # 0 =>
                  LET d == ASHC(W72(store[ac], store[ac + 1]), n2).value
                  IN  store'[ac] = d.hi /\ store'[ac + 1] = d.lo
             /\ op = \o245 =>
                  LET d == ROTC(W72(store[ac], store[ac + 1]), n2)
                  IN  store'[ac] = d.hi /\ store'[ac + 1] = d.lo
<1> DEFINE i == iw'
           n == shiftCount(ea, WordLength)
           n2 == shiftCount(ea, 2 * WordLength)
<1>1. /\ store \in [Addr -> Word] /\ ac \in Addr /\ op \in Nat /\ i \in Executable
      /\ Execute(i) /\ (HasPair(i) => ac + 1 \in Addr)
      /\ op = i.op /\ ac = i.ac /\ ea = i.ea
  BY OneStep DEF op, ac, ea
<1>2. ea \in Int
  <2>1. CASE i \in Shifts
    <3>1. PICK o \in ShiftOps, f \in Fields, m \in ShiftCounts : i = [op |-> o, ac |-> f[1], ea |-> m]
      BY <2>1 DEF Shifts
    <3> QED
      BY <1>1, <3>1, OperandAssumption
  <2>2. CASE i \notin Shifts
    <3>1. \E ops : i \in Of(ops)
      BY <1>1, <2>2 DEF Executable
    <3>2. PICK ops : i \in Of(ops)
      BY <3>1
    <3>3. PICK o \in ops, f \in Fields : i = [op |-> o, ac |-> f[1], ea |-> f[2]]
      BY <3>2 DEF Of
    <3> QED
      BY <1>1, <3>3, OperandAssumption, WordAssumption DEF Addr, HalfWord
  <2> QED
    BY <2>1, <2>2
<1>3. CASE op \in \o240 .. \o242
  <2>4. DoShift(i)
    BY <1>3, SelectedBits
  <2>5. store' = acPut(i, (CASE op = \o240 -> ASH(store[ac], n)
                             [] op = \o241 -> [value |-> ROT(store[ac], n), flags |-> {}]
                             [] op = \o242 -> [value |-> LSH(store[ac], n), flags |-> {}]).value)
    BY <1>1, <2>4 DEF DoShift, Done, acGet
  <2> HIDE DEF n
  <2>6. /\ op = \o240 => store' = acPut(i, ASH(store[ac], n).value)
        /\ op = \o241 => store' = acPut(i, ROT(store[ac], n))
        /\ op = \o242 => store' = acPut(i, LSH(store[ac], n))
    BY <2>5
  <2>7. \A v : acPut(i, v)[ac] = v
    BY <1>1 DEF acPut, Put
  <2> QED
    BY <1>1, <1>2, <1>3, <2>6, <2>7 DEF n
<1>4. CASE op \in {\o244, \o245}
  <2>5. DoDoubleShift(i) /\ HasPair(i)
    BY <1>4, SelectedBits
  <2> DEFINE d == W72(store[ac], store[ac + 1])
  <2>6. store' = IF op = \o244 /\ n2 = 0 THEN store
                 ELSE acPut2(i, (CASE op = \o244 -> ASHC(d, n2)
                                   [] op = \o245 -> [value |-> ROTC(d, n2), flags |-> {}]).value)
    BY <1>1, <2>5 DEF DoDoubleShift, Done, acGet2
  <2> HIDE DEF n2, d
  <2>7. /\ op = \o244 /\ n2 # 0 => store' = acPut2(i, ASHC(d, n2).value)
        /\ op = \o245 => store' = acPut2(i, ROTC(d, n2))
    BY <2>6
  <2>8. \A v, s : s = acPut2(i, v) => s[ac] = v.hi /\ s[ac + 1] = v.lo
    <3> HIDE DEF i
    <3> QED
      BY <1>1, <2>5, PairWritten
  <2>9. store[ac] \in Word /\ store[ac + 1] \in Word
    BY <1>1, <2>5
  <2> QED
    BY <1>2, <1>4, <2>7, <2>8, <2>9 DEF n2, d
<1> QED
  BY <1>3, <1>4 DEF ShiftOps

LEMMA ShiftStep == Ready /\ Next => shiftsMoveBits
<1> SUFFICES ASSUME Ready, Next, op \in ShiftOps, ran
             PROVE  shiftsMoveBits
  BY DEF shiftsMoveBits
<1> DEFINE k == WordLength
           c == magnitudeOf(ea) % k
           by == IF ea < 0 THEN -c ELSE c
           c2 == magnitudeOf(ea) % (2 * k)
           by2 == IF ea < 0 THEN -c2 ELSE c2
           a == store[ac]
           b == store[ac + 1]
<1>1. CASE op = \o243
  BY <1>1 DEF shiftsMoveBits
<1>2. CASE op # \o243
  <2>1. /\ ea \in Int /\ a \in Word
        /\ op = \o240 => store'[ac] = ASH(a, shiftCount(ea, k)).value
        /\ op = \o241 => store'[ac] = ROT(a, shiftCount(ea, k))
        /\ op = \o242 => store'[ac] = LSH(a, shiftCount(ea, k))
        /\ op \in {\o244, \o245} => b \in Word
        /\ op = \o244 /\ shiftCount(ea, 2 * k) # 0 =>
             /\ store'[ac] = ASHC(W72(a, b), shiftCount(ea, 2 * k)).value.hi
             /\ store'[ac + 1] = ASHC(W72(a, b), shiftCount(ea, 2 * k)).value.lo
        /\ op = \o245 =>
             /\ store'[ac] = ROTC(W72(a, b), shiftCount(ea, 2 * k)).hi
             /\ store'[ac + 1] = ROTC(W72(a, b), shiftCount(ea, 2 * k)).lo
    BY <1>2, ShiftWritten
  <2>2. k \in Nat \ {0} /\ 2 * k \in Nat \ {0}
    BY WordNumbers
  <2>3. shiftCount(ea, k) = by /\ by \in -(k - 1) .. k - 1
    <3> HIDE DEF k
    <3> QED
      BY <2>1, <2>2, CountOfShift DEF by, c
  <2>4. shiftCount(ea, 2 * k) = by2 /\ by2 \in -(2 * k - 1) .. 2 * k - 1
    <3> DEFINE l == 2 * k
    <3> HIDE DEF l
    <3>1. l \in Nat \ {0}
      BY <2>2 DEF l
    <3>2. LET e == magnitudeOf(ea) % l
          IN  /\ shiftCount(ea, l) = IF ea < 0 THEN -e ELSE e
              /\ shiftCount(ea, l) \in -(l - 1) .. l - 1
      BY <2>1, <3>1, CountOfShift
    <3> QED
      BY <3>2 DEF l
  <2> HIDE DEF c, by, c2, by2, a, b
  <2>5. op = \o241 => Bits[store'[ac]] = {(n + by) % k : n \in Bits[a]}
    BY <2>1, <2>3, ROTBits
  <2>6. op = \o242 => Bits[store'[ac]] = {n + by : n \in Bits[a]} \intersect BitNumber
    BY <2>1, <2>3, LSHBits
  <2>7. op = \o245 => bits72(store'[ac], store'[ac + 1]) = {(n + by2) % (2 * k) : n \in bits72(a, b)}
    BY <2>1, <2>4, ROTCBits
  <2>8. op = \o240 /\ by >= 0 => ext64(store'[ac]) = ext64(a) \div 2^by
    <3> SUFFICES ASSUME op = \o240, by >= 0
                 PROVE  ext64(store'[ac]) = ext64(a) \div 2^by
      OBVIOUS
    <3>1. by \in Nat
      BY <2>2, <2>3
    <3>2. ext64(ASH(a, by).value) = ext64(a) \div 2^by
      BY <2>1, <3>1, ASHDivides
    <3> QED
      BY <2>1, <2>3, <3>2
  <2>9. op = \o244 /\ by2 < 0 =>
          ext64(store'[ac]) * SignBit + mag(store'[ac + 1])
            = (ext64(a) * SignBit + mag(b)) \div 2^(-by2)
    <3> SUFFICES ASSUME op = \o244, by2 < 0
                 PROVE  ext64(store'[ac]) * SignBit + mag(store'[ac + 1])
                          = (ext64(a) * SignBit + mag(b)) \div 2^(-by2)
      OBVIOUS
    <3> DEFINE m == -by2
    <3>1. m \in Nat \ {0} /\ -m = by2 /\ by2 # 0
      BY <2>2, <2>4
    <3>2. b \in Word /\ a \in Word
      BY <2>1
    <3> HIDE DEF m
    <3> DEFINE d == ASHC(W72(a, b), -m).value
    <3>3. ext64(d.hi) * SignBit + mag(d.lo) = (ext64(a) * SignBit + mag(b)) \div 2^m
      BY <3>1, <3>2, ASHCDivides
    <3>4. store'[ac] = d.hi /\ store'[ac + 1] = d.lo
      BY <2>1, <2>4, <3>1
    <3> HIDE DEF d
    <3> QED
      BY <3>3, <3>4 DEF m
  <2> QED
    BY <2>5, <2>6, <2>7, <2>8, <2>9 DEF shiftsMoveBits, c, by, c2, by2, a, b
<1> QED
  BY <1>1, <1>2

\* ShiftsMoveBits: the shifts and rotations of i-intbin.cpp.
THEOREM ShiftsMove == Spec => ShiftsMoveBits
<1>1. Ready /\ [Next]_vars => [shiftsMoveBits]_vars
  BY ShiftStep
<1> QED
  BY <1>1, ReadyInvariant, PTL DEF Spec, ShiftsMoveBits
=============================================================================
