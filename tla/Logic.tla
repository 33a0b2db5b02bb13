------------------------------- MODULE Logic -------------------------------
(***************************************************************************)
(* Instructions that treat a word as bits: the sixteen Boolean functions   *)
(* (src/i-intbin.cpp and the SETx group of src/i-tstset.cpp), the masks of *)
(* the test instructions, the half-word copies of src/i-half.cpp and the   *)
(* shifts. A word's bits are the set of the exponents of its ones, the     *)
(* sign bit being WordLength - 1.                                          *)
(***************************************************************************)
EXTENDS Words

CONSTANT WordLength   \* 36

ASSUME LengthAssumption == WordLength \in Nat /\ 2^WordLength = 2 * SignBit

BitNumber == 0 .. WordLength - 1
Bits == [w \in Word |-> {n \in BitNumber : (w \div 2^n) % 2 = 1}]
WordOf == [b \in SUBSET BitNumber |-> CHOOSE w \in Word : Bits[w] = b]

----------------------------------------------------------------------------
\* The Boolean functions of the AC and the memory operand, by mnemonic.

BooleanOf(name, ac, mem) ==
    LET a == Bits[ac]
        m == Bits[mem]
        Not(b) == BitNumber \ b
        Xor(b, c) == (b \ c) \union (c \ b)
    IN  WordOf[CASE name = "SETZ"  -> {}
                 [] name = "AND"   -> m \intersect a
                 [] name = "ANDCA" -> m \intersect Not(a)
                 [] name = "SETM"  -> m
                 [] name = "ANDCM" -> Not(m) \intersect a
                 [] name = "SETA"  -> a
                 [] name = "XOR"   -> Xor(m, a)
                 [] name = "IOR"   -> m \union a
                 [] name = "ANDCB" -> Not(m) \intersect Not(a)
                 [] name = "EQV"   -> Not(Xor(m, a))
                 [] name = "SETCA" -> Not(a)
                 [] name = "ORCA"  -> m \union Not(a)
                 [] name = "SETCM" -> Not(m)
                 [] name = "ORCM"  -> Not(m) \union a
                 [] name = "ORCB"  -> Not(m) \union Not(a)
                 [] name = "SETO"  -> BitNumber]

----------------------------------------------------------------------------
\* The test instructions: what becomes of the bits of a under the mask b.

zeroMask(a, b) == WordOf[Bits[a] \ Bits[b]]
compMask(a, b) == WordOf[(Bits[a] \ Bits[b]) \union (Bits[b] \ Bits[a])]
onesMask(a, b) == WordOf[Bits[a] \union Bits[b]]
andIsZero(a, b) == Bits[a] \intersect Bits[b] = {}

Masked(modify, a, b) ==
    CASE modify = "N" -> a
      [] modify = "Z" -> zeroMask(a, b)
      [] modify = "C" -> compMask(a, b)
      [] modify = "O" -> onesMask(a, b)

TestSkips(cond, a, b) ==
    CASE cond = "" -> FALSE
      [] cond = "E" -> andIsZero(a, b)
      [] cond = "A" -> TRUE
      [] cond = "N" -> ~andIsZero(a, b)

----------------------------------------------------------------------------
\* Half words: copy one half of src into one half of dst, then fill the other.

copyHalf(from, to, src, dst) ==
    LET h == IF from = "L" THEN lhu(src) ELSE rhu(src)
    IN  IF to = "L" THEN W36(h, rhu(dst)) ELSE W36(lhu(dst), h)

ExtnOfStrict(h) == IF h > HalfSize \div 2 THEN HalfSize - 1 ELSE 0

extnOf(h) == IF h >= HalfSize \div 2 THEN HalfSize - 1 ELSE 0

fillHalf(fill, to, w) ==
    LET h == IF to = "L" THEN lhu(w) ELSE rhu(w)
        other == CASE fill = "Z" -> 0
                   [] fill = "O" -> HalfSize - 1
                   [] fill = "E" -> extnOf(h)
    IN  CASE fill = "" -> w
          [] fill # "" /\ to = "L" -> W36(h, other)
          [] fill # "" /\ to = "R" -> W36(other, h)

----------------------------------------------------------------------------
\* Shifts. The count is the right half of E, a signed number, taken modulo the
\* length in C's way. ASH moves to the right for a positive count.

shiftCount(n, length) == Remainder(n, length)

LSH(w, n) == IF n >= 0 THEN Trunc(w * 2^n) ELSE w \div 2^(-n)

ROTDropsBits(w, n) ==
    IF n >= 0 THEN Trunc(w * 2^n) ELSE w \div 2^(-n)

ROT(w, n) ==
    IF n >= 0 THEN Trunc(w * 2^n) + (w \div 2^(WordLength - n))
    ELSE (w \div 2^(-n)) + Trunc(w * 2^(WordLength + n))

ASH(w, n) ==
    LET lost == CASE n > 0 -> w % 2^n
                  [] n < 0 -> w % 2^(WordLength + n)
                  [] n = 0 -> 0
        moved == IF n > 0 THEN Trunc(ext64(w) \div 2^n) ELSE Trunc(w * 2^(-n))
        overflow == \/ ext64(moved) > 0 /\ lost # 0
                    \/ ext64(moved) < 0 /\ lost = 0
    IN  [value |-> signTerm(sign(w)) + mag(moved),
         flags |-> IF overflow THEN {"tr1", "ov"} ELSE {}]

\* The double word as one number: 72 bits for ROTC, 70 and a sign for ASHC.
ROTC(d, n) ==
    LET a == d.hi * (2 * SignBit) + d.lo
        length == 2 * WordLength
        r == IF n >= 0 THEN ((a * 2^n) % 2^length) + (a \div 2^(length - n))
             ELSE (a \div 2^(-n)) + ((a * 2^(length + n)) % 2^length)
    IN  W72(r \div (2 * SignBit), Trunc(r))

ASHC(d, n) ==
    LET w70 == ext64(d.hi) * SignBit + mag(d.lo)
        ones == 2^(-n) - 1
        lost == w70 % 2^(-n)
        overflow == n < 0 /\ IF sign(d.hi) THEN lost # ones ELSE lost # 0
        moved == IF n >= 0 THEN w70 * 2^n ELSE w70 \div 2^(-n)
    IN  [value |-> W72(signTerm(sign(d.hi)) + mag(moved \div SignBit),
                       signTerm(sign(d.hi)) + mag(moved)),
         flags |-> IF overflow THEN {"tr1", "ov"} ELSE {}]

\* JFFO: the number of zeros before the first one.
leadingZeros(w) == CHOOSE n \in BitNumber : 2^(WordLength - 1 - n) <= w /\ w < 2^(WordLength - n)
============================================================================
