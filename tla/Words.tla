------------------------------- MODULE Words -------------------------------
(***************************************************************************)
(* The 36-bit word of src/word.hpp and the arithmetic done on it: the      *)
(* views of its union (halves, magnitude and sign, signed number), and the *)
(* helpers that compute a result and the flags it sets. A word is a        *)
(* natural number below 2 * SignBit, whatever its width; 36-bit words have *)
(* SignBit = 2^35 and HalfSize = 2^18.                                     *)
(*                                                                         *)
(* A helper that sets flags returns the record [value, flags], where flags *)
(* are the ones it turns on: none of them turns a flag off.                *)
(***************************************************************************)
EXTENDS Integers

CONSTANTS
    SignBit,   \* W36::bit0
    HalfSize,  \* the number of half words, 2^18
    HostHigh   \* 2^64 divided by SignBit: what uint64_t keeps above 35 bits

ASSUME WordAssumption ==
    /\ SignBit \in Nat \ {0}
    /\ HalfSize \in Nat \ {0}
    /\ HalfSize * HalfSize = 2 * SignBit
    /\ HostHigh \in Nat \ {0}

Word == 0 .. 2 * SignBit - 1
HalfWord == 0 .. HalfSize - 1
all1s == 2 * SignBit - 1

----------------------------------------------------------------------------
\* The views of a word. An assignment to a word or a half keeps the low bits.

Trunc(n) == n % (2 * SignBit)
W36(lh, rh) == (lh % HalfSize) * HalfSize + (rh % HalfSize)
lhu(w) == w \div HalfSize
rhu(w) == w % HalfSize
mag(w) == w % SignBit
sign(w) == w >= SignBit
ext64(w) == IF sign(w) THEN w - 2 * SignBit ELSE w
signTerm(negative) == IF negative THEN SignBit ELSE 0
magnitudeOf(n) == IF n < 0 THEN -n ELSE n
swap(w) == W36(rhu(w), lhu(w))

\* C's quotient, rounded toward zero.
Quotient(n, d) ==
    LET q == magnitudeOf(n) \div magnitudeOf(d)
    IN  IF (n < 0) # (d < 0) THEN -q ELSE q

\* C's remainder, with the sign of the dividend; d is positive.
Remainder(n, d) == IF n < 0 THEN -((-n) % d) ELSE n % d

----------------------------------------------------------------------------
\* Double words: W72. The magnitude of a double word leaves out both signs.

W72(hi, lo) == [hi |-> hi, lo |-> lo]

\* W72::fromMag: the low 35 bits go to the high word, what is left of a
\* 64-bit integer above them to the low word.
fromMag(m, negative) ==
    W72(signTerm(negative) + (m % SignBit),
        signTerm(negative) + ((m \div SignBit) % HostHigh))

----------------------------------------------------------------------------
\* ADD and SUB. A negative sum, converted to uint64_t, is above bit0.

addFlags(a, b) ==
    LET sum == ext64(a) + ext64(b)
    IN  CASE sum < -SignBit -> {"tr1", "ov", "cy0"}
          [] sum >= SignBit \/ sum \in -SignBit .. -1 -> {"tr1", "ov", "cy1"}
          [] sum \in 0 .. SignBit - 1 ->
                IF sign(a) # sign(b) THEN {"cy0", "cy1"} ELSE {}

addWord(a, b) == [value |-> Trunc(ext64(a) + ext64(b)), flags |-> addFlags(a, b)]

subFlags(a, b) ==
    LET diff == ext64(a) - ext64(b)
    IN  CASE diff < -SignBit -> {"tr1", "ov", "cy0"}
          [] diff >= SignBit \/ diff \in -SignBit .. -1 -> {"tr1", "ov", "cy1"}
          [] OTHER -> {}

subWord(a, b) == [value |-> Trunc(ext64(a) - ext64(b)), flags |-> subFlags(a, b)]

----------------------------------------------------------------------------
\* MUL, IMUL, IDIV and DIV.

bothMaxNeg(a, b) == a = SignBit /\ b = SignBit

productMag(a, b) ==
    LET p == ext64(a) * ext64(b) IN fromMag(magnitudeOf(p), p < 0)

mulWord(a, b) ==
    IF bothMaxNeg(a, b)
    THEN [value |-> W72(SignBit \div 2, 0), flags |-> {"tr1", "ov"}]
    ELSE [value |-> productMag(a, b), flags |-> {}]

\* IMUL keeps the sign of the high word and the magnitude of the low one.
imulWord(a, b) ==
    LET p == productMag(a, b)
    IN  [value |-> signTerm(sign(p.hi)) + mag(p.lo),
         flags |-> IF bothMaxNeg(a, b) THEN {"tr1", "ov"} ELSE {}]

noDivide == {"ndv", "tr1", "ov"}

idivWord(a, b) ==
    IF (a = SignBit /\ b = all1s) \/ b = 0
    THEN [value |-> W72(a, b), flags |-> noDivide]
    ELSE LET rem == magnitudeOf(ext64(a)) % magnitudeOf(ext64(b))
         IN  [value |-> W72(Trunc(Quotient(ext64(a), ext64(b))), rem), flags |-> {}]

DivWordAdmitsEqual(a, b) ==
    IF mag(a.hi) > mag(b) \/ mag(b) = 0
    THEN [value |-> a, flags |-> noDivide]
    ELSE LET den70 == mag(a.hi) * SignBit + mag(a.lo)
             signBit == signTerm(sign(a.hi))
         IN  [value |-> W72(signBit + mag(den70 \div mag(b)),
                            signBit + mag(den70 % mag(b))),
              flags |-> {}]

\* The divisor is the low 35 bits of b, and both results get a's sign bit.
divWord(a, b) ==
    IF mag(a.hi) >= mag(b) \/ b = 0
    THEN [value |-> a, flags |-> noDivide]
    ELSE LET den70 == mag(a.hi) * SignBit + mag(a.lo)
             signBit == signTerm(sign(a.hi))
         IN  [value |-> W72(signBit + mag(den70 \div mag(b)),
                            signBit + mag(den70 % mag(b))),
              flags |-> {}]

----------------------------------------------------------------------------
\* MOVN and MOVM, and the counting instructions.

negate(w) ==
    [value |-> Trunc(-ext64(w)),
     flags |-> CASE w = SignBit -> {"tr1", "ov", "cy1"}
                 [] w = 0 -> {"cy0", "cy1"}
                 [] OTHER -> {}]

magnitude(w) ==
    [value |-> Trunc(magnitudeOf(ext64(w))),
     flags |-> IF w = SignBit THEN {"tr1", "ov", "cy1"} ELSE {}]

checkAOTraps(w) ==
    CASE w = SignBit - 1 -> {"tr1", "ov", "cy1"}
      [] w = all1s -> {"cy0", "cy1"}
      [] OTHER -> {}

checkSOTraps(w) ==
    CASE w = SignBit -> {"tr1", "ov", "cy1"}
      [] w # 0 /\ w # SignBit -> {"cy0", "cy1"}
      [] OTHER -> {}

----------------------------------------------------------------------------
\* DADD and DSUB: the flags of the high words, by the three signs. An
\* overflow is noted, and traps, in user mode only.

overflowFlags(user) == IF user THEN {"tr1", "ov"} ELSE {}

SetADDFlagsForgetMixed(a, b, sum, user) ==
    CASE sign(a) /\ sign(b) /\ ~sign(sum) -> {"cy0"} \union overflowFlags(user)
      [] ~sign(a) /\ ~sign(b) /\ sign(sum) -> {"cy1"} \union overflowFlags(user)
      [] sign(a) /\ sign(b) /\ sign(sum) -> {"cy0", "cy1"}
      [] OTHER -> {}

setADDFlags(a, b, sum, user) ==
    CASE sign(a) /\ sign(b) /\ ~sign(sum) -> {"cy0"} \union overflowFlags(user)
      [] ~sign(a) /\ ~sign(b) /\ sign(sum) -> {"cy1"} \union overflowFlags(user)
      [] sign(a) /\ sign(b) /\ sign(sum) -> {"cy0", "cy1"}
      [] sign(a) # sign(b) /\ ~sign(sum) -> {"cy0", "cy1"}
      [] OTHER -> {}

setSUBFlags(a, b, diff, user) ==
    CASE sign(a) /\ ~sign(b) /\ ~sign(diff) -> {"cy0"} \union overflowFlags(user)
      [] ~sign(a) /\ sign(b) /\ sign(diff) -> {"cy1"} \union overflowFlags(user)
      [] sign(a) /\ ~sign(b) /\ sign(diff) -> {"cy0", "cy1"}
      [] sign(a) = sign(b) /\ ~sign(diff) -> {"cy0", "cy1"}
      [] OTHER -> {}

\* The high word's sign is copied into the low word.
signedDouble(hi, lo) == W72(hi, signTerm(sign(hi)) + mag(lo))

doubleAdd(a, b, user) ==
    LET lo == mag(a.lo) + mag(b.lo)
        hi == Trunc(a.hi + b.hi + (lo \div SignBit))
    IN  [value |-> signedDouble(hi, lo), flags |-> setADDFlags(a.hi, b.hi, hi, user)]

DoubleSubWithoutBorrow(a, b, user) ==
    LET lo == mag(a.lo) - mag(b.lo)
        hi == Trunc(a.hi - b.hi)
    IN  [value |-> signedDouble(hi, lo), flags |-> setSUBFlags(a.hi, b.hi, hi, user)]

doubleSub(a, b, user) ==
    LET lo == mag(a.lo) - mag(b.lo)
        borrow == IF lo < 0 THEN 1 ELSE 0
        hi == Trunc(a.hi - b.hi - borrow)
    IN  [value |-> signedDouble(hi, lo), flags |-> setSUBFlags(a.hi, b.hi, hi, user)]

\* DMOVN and DMOVNM exchange the two words, clear the sign of the one that was
\* low, and negate neither: the magnitude they compare with W72::bit0, 2^71,
\* is below 2^64. Zero is the magnitude's zero for DMOVN, the word's for DMOVNM.
exchangeDouble(d) == W72(mag(d.lo), d.hi)
movnZero(d) == mag(d.hi) % HostHigh = 0 /\ mag(d.lo) = 0
movnmZero(d) == d.hi = 0 /\ mag(d.lo) = 0
============================================================================
