--------------------------- MODULE InstructionLaws ---------------------------
(***************************************************************************)
(* What the instructions of module Instructions owe to the program, stated *)
(* without the handlers: from the digits of the opcode, or from arithmetic *)
(* on the numbers the words stand for. Each law is about one step, the     *)
(* execution of iw', from store to store'.                                 *)
(***************************************************************************)
EXTENDS Instructions, FiniteSets

op == iw'.op
ac == iw'.ac
ea == iw'.ea
ran == result' # "abort"
operand == IF mode(iw') = "I" THEN ea ELSE store[ea]
isSelf == op \in (MoveOps \union HalfOps) /\ mode(iw') = "B"

\* The opcode of a Boolean is its truth table: with op = 400 + 4k octal, the bits
\* 8, 4, 2 and 1 of k are the function's values for (AC, memory) = 00, 10, 01
\* and 11. Sixty-four handlers in two files are written and installed one by one.
booleanByOpcode ==
    op \in BooleanOps =>
        LET k == (op - \o400) \div 4
            a == Bits[store[ac]]
            m == Bits[operand]
            weight(n) == (IF n \in m THEN 1 ELSE 4) * (IF n \in a THEN 1 ELSE 2)
            v == {n \in BitNumber : (k \div weight(n)) % 2 = 1}
        IN  /\ mode(iw') # "M" => Bits[store'[ac]] = v
            /\ mode(iw') \in {"M", "B"} => Bits[store'[ea]] = v

\* TR, TL, TD and TS are one instruction with four masks: E, E in the left
\* half, the memory word, and its halves swapped. What they test and what they
\* change is that of the whole AC under that mask.
testsUseOneMask ==
    op \in TestOps =>
        LET d == op - \o600
            mask == Bits[CASE d % 16 < 8 /\ d % 2 = 0 -> ea
                           [] d % 16 < 8 /\ d % 2 = 1 -> ea * HalfSize
                           [] d % 16 >= 8 /\ d % 2 = 0 -> store[ea]
                           [] d % 16 >= 8 /\ d % 2 = 1 -> swap(store[ea])]
            a == Bits[store[ac]]
            changed == <<a, a \ mask, (a \ mask) \union (mask \ a), a \union mask>>
            anyOne == a \intersect mask # {}
            skips == <<FALSE, ~anyOne, TRUE, anyOne>>
        IN  /\ Bits[store'[ac]] = changed[(d \div 16) + 1]
            /\ (result' = "iSkip") = skips[((d % 8) \div 2) + 1]

\* i-tstset.cpp, i-intbin.cpp: each of the 128 handlers is the one its opcode names.
BitsByOpcode == [][booleanByOpcode /\ testsUseOneMask]_vars

\* What a half h becomes in the right or left half of a word that was old, by the
\* way the other half is filled: not at all, with zeros, with ones, with h's sign.
halfBecomes(to, fill, h, old, new) ==
    LET signed == IF 2 * h >= HalfSize THEN h - HalfSize ELSE h
    IN  /\ fill = 0 /\ to = "R" => new - h = old - (old % HalfSize)
        /\ fill = 0 /\ to = "L" => new - h * HalfSize = old % HalfSize
        /\ fill = 1 => new = IF to = "R" THEN h ELSE h * HalfSize
        /\ fill = 2 /\ to = "R" => new = all1s - (HalfSize - 1 - h)
        /\ fill = 3 /\ to = "R" => ext64(new) = signed
        /\ fill = 2 \/ (fill = 3 /\ signed < 0) =>
              (to = "L" => new = h * HalfSize + (HalfSize - 1))
        /\ fill = 3 /\ signed >= 0 /\ to = "L" => new = h * HalfSize

halfIsNumber ==
    op \in HalfOps =>
        LET k == (op - \o500) \div 4
            to == IF k >= 8 THEN "R" ELSE "L"
            from == IF (to = "R") = (k % 2 = 0) THEN "R" ELSE "L"
            toMemory == mode(iw') \in {"M", "B"}
            src == IF mode(iw') = "M" THEN store[ac] ELSE operand
            h == IF from = "R" THEN src % HalfSize ELSE src \div HalfSize
            old == IF toMemory THEN store[ea] ELSE store[ac]
            new == IF toMemory THEN store'[ea] ELSE store'[ac]
        IN  halfBecomes(to, (k \div 2) % 4, h, old, new)

\* A half-word move that fills makes a number: the half itself (Z), the half
\* with its sign (E) to the right; to the left, the half times 2^18. One that
\* does not fill leaves the other half of the destination. In the "S" mode the
\* source and the destination are the same word.
HalvesAreNumbers == [][halfIsNumber]_vars

\* What the last digit of the opcode says of the step.
conditionByOpcode ==
    op \in CompareOps \union JumpSkipOps \union CountOps =>
        LET inMemory == op \in \o330 .. \o337 \/ (op \in CountOps /\ op % 16 >= 8)
            left == IF inMemory THEN store'[ea] ELSE store'[ac]
            right == CASE op \in \o300 .. \o307 -> ea
                       [] op \in \o310 .. \o317 -> store[ea]
                       [] OTHER -> 0
            less == ext64(left) < ext64(right) /\ op % 2 = 1
            equal == left = right /\ (op \div 2) % 2 = 1
            holds == (less \/ equal) # (op % 8 >= 4)
            taken == IF inMemory \/ op \in CompareOps THEN "iSkip" ELSE "iJump"
        IN  (result' = taken) = holds

\* The last digit of the opcode of compares, jumps, skips and counts is a set of
\* conditions: 1 is less, 2 is equal, 4 inverts. It is asked of the count after
\* the counting; sixty-four handlers write it with six relations.
ConditionsByOpcode == [][conditionByOpcode]_vars

\* The carries out of the two highest bits, and the flags that stand for them.
carry0(a, b, c) == a + b + c > all1s
carry1(a, b, c) == mag(a) + mag(b) + c >= SignBit
flagsAreCarries(a, b, c) ==
    /\ ("cy0" \in flags') = carry0(a, b, c)
    /\ ("cy1" \in flags') = carry1(a, b, c)
overflowed == "ov" \in flags' /\ "tr1" \in flags'
counted == IF op % 16 >= 8 THEN store[ea] ELSE store[ac]
negated == IF mode(iw') = "M" THEN store[ac] ELSE operand

doubleCarries(x, y, c) ==
    /\ flagsAreCarries(x, y, c)
    /\ overflowed = ("usr" \in flags /\ carry0(x, y, c) # carry1(x, y, c))
    /\ (result' = "iTrap") = overflowed
singleCarries(x, y, c) ==
    /\ flagsAreCarries(x, y, c)
    /\ overflowed = (carry0(x, y, c) # carry1(x, y, c))

carriesAreTrue ==
    LET a == acGet2(iw')
        b == memGet2(iw')
        lowSum == (mag(a.lo) + mag(b.lo)) \div SignBit
        lowDiff == IF mag(a.lo) >= mag(b.lo) THEN 1 ELSE 0
    IN  /\ op = \o114 /\ ran => doubleCarries(a.hi, b.hi, lowSum)
        /\ op = \o115 /\ ran => doubleCarries(a.hi, all1s - b.hi, lowDiff)
        /\ op \in \o340 .. \o357 => singleCarries(counted, 0, 1)
        /\ op \in \o360 .. \o377 /\ counted # SignBit => singleCarries(counted, all1s, 0)
        /\ op \in \o210 .. \o213 => singleCarries(0, all1s - negated, 1)

\* Carry 0 and carry 1 are the carries out of the two highest bits of an adder
\* that is given two words and a carry; overflow is their difference. True of
\* DADD and DSUB (the high words), of AOJ and AOS, of MOVN and, but for the most
\* negative number, of SOJ and SOS. ADD and SUB set theirs by other rules.
CarriesAreTrue == [][carriesAreTrue]_vars

\* DADD and DSUB are exact, modulo the size of a double word, and give both words
\* of the result one sign.
doubleValue(d) == d.hi * SignBit + mag(d.lo)
doubleSumIsExact ==
    op \in {\o114, \o115} /\ ran =>
        LET a == doubleValue(acGet2(iw'))
            b == doubleValue(memGet2(iw'))
            r == W72(store'[ac], store'[ac + 1])
        IN  /\ doubleValue(r) = (IF op = \o114 THEN a + b ELSE a - b) % (2 * SignBit * SignBit)
            /\ sign(r.hi) = sign(r.lo)

\* ADD and SUB, in every mode, are exact modulo 2^36, and none of their overflows
\* goes unnoticed. (Negative results are noted as overflows too.)
sumIsExact ==
    op \in \o270 .. \o277 =>
        LET n == IF op < \o274 THEN ext64(store[ac]) + ext64(operand)
                 ELSE ext64(store[ac]) - ext64(operand)
            inRange == -SignBit <= n /\ n < SignBit
        IN  /\ mode(iw') # "M" => store'[ac] = Trunc(n)
            /\ mode(iw') \in {"M", "B"} => store'[ea] = Trunc(n)
            /\ ~inRange => overflowed

\* i-dword.cpp, i-intbin.cpp: sums of one word and of two are exact.
SumsAreExact == [][doubleSumIsExact /\ sumIsExact]_vars

\* word.hpp:248: "Factory to take a 70-bit unsigned magnitude and a sign and make a
\* doubleword"; word.hpp:254 reads it back with the high word's bits above the low
\* word's. So the double word MUL leaves in the ACs is the product's magnitude.
MULIsProduct ==
    [][(op \in {\o224, \o225} /\ ran) =>
        mag(store'[ac]) * SignBit + mag(store'[ac + 1])
            = magnitudeOf(ext64(store[ac]) * ext64(operand))]_vars

divisionAccounts ==
    op \in \o230 .. \o237 /\ ran /\ "ndv" \notin flags' /\ mode(iw') # "M" =>
        LET d == operand
            long == op >= \o234
            n == IF long THEN doubleValue(acGet2(iw')) ELSE magnitudeOf(ext64(store[ac]))
            q == ext64(store'[ac])
            rem == store'[ac + 1]
            overlaid == mode(iw') = "B" /\ ea = ac + 1
            negative == ~long /\ (sign(store[ac]) # sign(d)) /\ q # 0
        IN  (long => ~sign(d) /\ ~sign(store[ac])) /\ ~overlaid =>
                /\ magnitudeOf(q) * magnitudeOf(ext64(d)) + rem = n
                /\ rem < magnitudeOf(ext64(d))
                /\ (q < 0) = negative

\* A division that is done accounts for the dividend: quotient times divisor and
\* remainder, both in magnitude, the remainder smaller than the divisor. DIV is
\* held to it for operands that are not negative: its divisor is never negated.
DivisionAccounts == [][divisionAccounts]_vars

\* The bits of a double word.
bits72(hi, lo) == Bits[lo] \union {n + WordLength : n \in Bits[hi]}

shiftsMoveBits ==
    op \in ShiftOps /\ ran =>
        LET c == magnitudeOf(ea) % WordLength
            by == IF ea < 0 THEN -c ELSE c
            c2 == magnitudeOf(ea) % (2 * WordLength)
            by2 == IF ea < 0 THEN -c2 ELSE c2
            a == store[ac]
        IN  /\ op = \o241 => Bits[store'[ac]] = {(n + by) % WordLength : n \in Bits[a]}
            /\ op = \o242 => Bits[store'[ac]] = {n + by : n \in Bits[a]} \intersect BitNumber
            /\ op = \o245 => bits72(store'[ac], store'[ac + 1])
                               = {(n + by2) % (2 * WordLength) : n \in bits72(a, store[ac + 1])}
            /\ op = \o240 /\ by >= 0 => ext64(store'[ac]) = ext64(a) \div 2^by
            /\ op = \o244 /\ by2 < 0 =>
                  ext64(store'[ac]) * SignBit + mag(store'[ac + 1])
                    = (ext64(a) * SignBit + mag(store[ac + 1])) \div 2^(-by2)

\* A rotation takes bit n to bit n + count around the word, or around both; a
\* logical shift drops what leaves the word; counts beyond the word's length
\* come round again. An arithmetic shift to the right, of one word or two, is a
\* division rounded down. (ASH goes right for a positive count, ASHC for a
\* negative one.)
ShiftsMoveBits == [][shiftsMoveBits]_vars

\* DMOVE and DMOVEM copy two words, unless the words overlap so that the first
\* one written is the second one read.
doubleMoveCopies ==
    ran =>
        /\ op = \o120 /\ ac # next(ea) =>
              store'[ac] = store[ea] /\ store'[ac + 1] = store[next(ea)]
        /\ op = \o124 /\ ea # ac + 1 /\ next(ea) # ac =>
              store'[ea] = store[ac] /\ store'[next(ea)] = store[ac + 1]

\* An instruction writes no word but its AC, the next one if it makes a pair, and
\* memory at E (and E + 1) if its mode says so; the "S" modes, AOS, SOS and SKIP
\* spare AC 0.
writesMemory ==
    \/ op \in MoveOps \union ArithOps \union BooleanOps \union HalfOps /\ mode(iw') \in {"M", "B"}
    \/ op = EXCH
    \/ op \in CountOps /\ op % 16 >= 8
sparesAC0 == isSelf \/ (op \in CountOps /\ op % 16 >= 8) \/ op \in \o330 .. \o337

storesPair == op \in {\o124, \o125}
named(x) ==
    \/ storesPair /\ x \in {ea, next(ea)}
    \/ writesMemory /\ x = ea
    \/ ~storesPair /\ ~(sparesAC0 /\ ac = 0) /\ x = ac
    \/ ~storesPair /\ NeedsPair(iw') /\ x = ac + 1

onlyNamedWordsChange == \A x \in Addr : named(x) \/ store'[x] = store[x]

\* i-dword.cpp and every other group: an instruction writes the words it names, and a
\* move of two words writes the two it read.
WordsAreKept == [][doubleMoveCopies /\ onlyNamedWordsChange]_vars
============================================================================
