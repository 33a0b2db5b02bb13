----------------------------- MODULE LoopsProofs -----------------------------
(***************************************************************************)
(* Proofs about the indirection, the transfer and the counted loop of      *)
(* module Loops, for words of any width and any contents of the store.     *)
(***************************************************************************)
EXTENDS Loops, WordProofs

LEMMA LoopSizes ==
  /\ HalfSize \in Nat \ {0} /\ NumAC \in Nat \ {0} /\ NumAC <= HalfSize
  /\ Last \in Addr /\ HalfWord \subseteq Word /\ 0 \in Word /\ HalfWord = Addr
<1>1. HalfSize <= HalfSize * HalfSize /\ HalfSize \in Nat \ {0}
  BY WordAssumption
<1> QED
  BY <1>1, WordAssumption, LoopsAssumption DEF Last, Addr, HalfWord, Word

-----------------------------------------------------------------------------
\* Types

\* A round of getEA reads a reference with all its fields in range.
LEMMA ReferenceType ==
  ASSUME NEW w \in Word
  PROVE  reference(w) \in [i : {0, 1}, x : 0 .. NumAC - 1, y : Addr]
<1>1. w \in Int /\ HalfSize * NumAC \in Nat \ {0}
  BY LoopSizes, WordAssumption DEF Word
<1>2. (w \div (HalfSize * NumAC)) \in Int /\ (w \div HalfSize) \in Int
  BY <1>1, LoopSizes
<1>3. /\ (w \div (HalfSize * NumAC)) % 2 \in {0, 1}
      /\ (w \div HalfSize) % NumAC \in 0 .. NumAC - 1
  BY <1>2, LoopSizes
<1> QED
  BY <1>3, Halves DEF reference, Addr

LEMMA IndexedType ==
  ASSUME LoopsTypeOK
  PROVE  /\ indexed(store, ref) \in Int
         /\ store[indexed(store, ref) % HalfSize] \in Word
         /\ Trunc(indexed(store, ref)) \in Word
<1>1. ref.y \in Int /\ ref.x \in Addr
  BY LoopSizes DEF LoopsTypeOK, Addr, HalfWord
<1>2. store[ref.x] \in Int
  BY <1>1, WordAssumption DEF LoopsTypeOK, Word
<1>3. indexed(store, ref) \in Int
  BY <1>1, <1>2 DEF indexed
<1>4. indexed(store, ref) % HalfSize \in Addr
  BY <1>3, LoopSizes, RemainderRange DEF Addr, HalfWord
<1>5. Trunc(indexed(store, ref)) \in Word
  <2>1. 2 * SignBit \in Nat \ {0}
    BY WordAssumption
  <2> QED
    BY <1>3, <2>1, RemainderRange DEF Trunc, Word
<1> QED
  BY <1>3, <1>4, <1>5 DEF LoopsTypeOK

\* One step of the pointer makes a word, and its halves are addresses.
LEMMA StepType ==
  ASSUME NEW w \in Word
  PROVE  /\ aobStep(w) \in Word /\ lhu(w) \in Addr /\ rhu(w) \in Addr
         /\ lhu(aobStep(w)) = (lhu(w) + 1) % HalfSize
         /\ rhu(aobStep(w)) = (rhu(w) + 1) % HalfSize
<1>1. lhu(w) \in Addr /\ rhu(w) \in Addr
  BY Halves DEF Addr
<1>2. lhu(w) + 1 \in Int /\ rhu(w) + 1 \in Int
  BY <1>1, LoopSizes DEF Addr, HalfWord
<1> QED
  BY <1>1, <1>2, HalvesOfW36 DEF aobStep

LEMMA TypesKept == ASSUME LoopsTypeOK, [Next]_vars PROVE LoopsTypeOK'
<1>1. CASE getEA
  <2>1. reference(store[indexed(store, ref) % HalfSize])
          \in [i : {0, 1}, x : 0 .. NumAC - 1, y : Addr]
    BY IndexedType, ReferenceType
  <2> QED
    BY <1>1, <2>1, IndexedType DEF getEA, LoopsTypeOK
<1>2. iw.ac \in Addr /\ store[iw.ac] \in Word
  BY LoopSizes DEF LoopsTypeOK, Instruction, Addr, HalfWord
<1>3. CASE BLT
  BY <1>2, <1>3, StepType DEF BLT, LoopsTypeOK
<1>4. CASE AOBJ
  BY <1>2, <1>4, StepType DEF AOBJ, LoopsTypeOK
<1>5. CASE Pass
  BY <1>5 DEF Pass, operands, LoopsTypeOK, Instruction
<1>6. CASE Stop
  BY <1>6 DEF Stop, LoopsTypeOK
<1>7. CASE UNCHANGED vars
  BY <1>7 DEF vars, LoopsTypeOK
<1> QED
  BY <1>1, <1>3, <1>4, <1>5, <1>6, <1>7 DEF Next, Processor

\* The state is of its type, and addresses and words stay in their widths.
THEOREM LoopsTypes == Spec => []LoopsTypeOK
<1>1. Init => LoopsTypeOK
  <2> SUFFICES ASSUME Init PROVE LoopsTypeOK
    OBVIOUS
  <2>1. PICK c \in InitCases : iw = c[1] /\ store = c[2]
    BY DEF Init
  <2>2. iw \in Instruction /\ store \in [Addr -> Word]
    BY <2>1, LoopsAssumption
  <2>3. running \in BOOLEAN
    BY DEF Init
  <2> QED
    BY <2>2, <2>3, LoopSizes DEF Init, LoopsTypeOK, operands, Instruction
<1> QED
  BY <1>1, TypesKept, PTL DEF Spec

-----------------------------------------------------------------------------
\* The counted loop. Its inductive invariant: the halves of the AC have advanced by the same
\* number, and the left one has not yet passed the last negative number.
counter == store[iw.ac]
first == start[iw.ac]

CountInv ==
    /\ LoopsTypeOK
    /\ (iw.op = "AOBJN" /\ sign(first)) =>
        /\ phase \in {"ea", "run", "jumped"} =>
                /\ lhu(counter) >= lhu(first)
                /\ rhu(counter) = (rhu(first) + (lhu(counter) - lhu(first))) % HalfSize
        /\ phase = "finished" =>
                counter = W36(0, rhu(first) + HalfSize - lhu(first))

\* One execution more either keeps the loop going or brings the left half to zero.
LEMMA CountStep ==
  ASSUME CountInv, AOBJ PROVE CountInv'
<1>1. LoopsTypeOK' /\ LoopsTypeOK
  BY TypesKept DEF CountInv, Next, Processor
<1>2. /\ iw' = iw /\ start' = start /\ phase = "run" /\ iw.ac \in Addr
      /\ counter \in Word /\ first \in Word /\ counter' = aobStep(counter)
      /\ phase' = IF again(counter') THEN "jumped" ELSE "finished"
  BY <1>1, LoopSizes DEF AOBJ, LoopsTypeOK, Instruction, Addr, HalfWord, counter, first
<1> DEFINE l == lhu(counter)
           r == rhu(counter)
           fl == lhu(first)
           fr == rhu(first)
<1>3. l \in Addr /\ r \in Addr /\ fl \in Addr /\ fr \in Addr
  BY <1>2, StepType
<1>4. /\ counter' \in Word /\ lhu(counter') = (l + 1) % HalfSize
      /\ rhu(counter') = (r + 1) % HalfSize /\ counter' = W36(l + 1, r + 1)
  BY <1>2, StepType DEF aobStep
<1>5. first' = first /\ (sign(first) <=> 2 * fl >= HalfSize)
  BY <1>2, SignOfHalf DEF first
<1>6. sign(counter') <=> 2 * lhu(counter') >= HalfSize
  BY <1>4, SignOfHalf
<1> HIDE DEF l, r, fl, fr
<1>7. /\ HalfSize \in Nat \ {0} /\ HalfSize >= 2 /\ l \in 0 .. HalfSize - 1
      /\ r \in 0 .. HalfSize - 1 /\ fl \in 0 .. HalfSize - 1 /\ fr \in 0 .. HalfSize - 1
  BY <1>3, SignOfHalf, LoopSizes DEF Addr, HalfWord
<1>8. (l + 1) % HalfSize = IF l + 1 = HalfSize THEN 0 ELSE l + 1
  <2>1. l + 1 \in Int /\ -HalfSize <= l + 1 /\ l + 1 < 2 * HalfSize /\ ~(l + 1 < 0)
    BY <1>7
  <2>2. (l + 1) % HalfSize = IF l + 1 < HalfSize THEN l + 1 ELSE (l + 1) - HalfSize
    BY <1>7, <2>1, NearRemainder
  <2> QED
    BY <1>7, <2>2
<1>9. ASSUME iw.op = "AOBJN", sign(first)
      PROVE  /\ phase' = "jumped" => /\ lhu(counter') >= fl
                                     /\ rhu(counter') = (fr + (lhu(counter') - fl)) % HalfSize
             /\ phase' = "finished" => counter' = W36(0, fr + HalfSize - fl)
             /\ phase' \in {"jumped", "finished"}
  <2>1. l >= fl /\ r = (fr + (l - fl)) % HalfSize
    BY <1>2, <1>9 DEF CountInv, l, r, fl, fr
  <2>2. (r + 1) % HalfSize = (fr + ((l + 1) - fl)) % HalfSize
    <3> DEFINE x == fr + (l - fl)
    <3>1. x \in Int /\ 1 \in Int /\ x + 1 = fr + ((l + 1) - fl)
      BY <1>7
    <3>2. r = x % HalfSize
      BY <2>1
    <3> HIDE DEF x
    <3>3. ((x % HalfSize) + 1) % HalfSize = (x + 1) % HalfSize
      BY <3>1, LoopSizes, RemainderOfSum
    <3> QED
      BY <3>1, <3>2, <3>3
  <2>3. again(counter') <=> l + 1 # HalfSize
    <3>1. again(counter') <=> sign(counter')
      BY <1>9 DEF again
    <3>2. 2 * fl >= HalfSize
      BY <1>5, <1>9
    <3> QED
      BY <1>4, <1>6, <1>7, <1>8, <2>1, <3>1, <3>2
  <2>4. ASSUME l + 1 = HalfSize PROVE counter' = W36(0, fr + HalfSize - fl)
    <3>1. fr + HalfSize - fl = fr + ((l + 1) - fl)
      BY <1>7, <2>4
    <3>2. HalfSize % HalfSize = 0 /\ 0 % HalfSize = 0
      BY <1>7, <1>8, <2>4
    <3> QED
      BY <1>4, <2>2, <2>4, <3>1, <3>2 DEF W36
  <2>5. ASSUME l + 1 # HalfSize PROVE lhu(counter') = l + 1 /\ l + 1 >= fl
    BY <1>4, <1>7, <1>8, <2>1, <2>5
  <2> QED
    BY <1>2, <1>4, <2>2, <2>3, <2>4, <2>5
<1> QED
  BY <1>1, <1>2, <1>5, <1>9 DEF CountInv, fl, fr

\* The other steps leave the AC alone. A loop that has jumped comes back to its jump.
LEMMA CountKept == ASSUME CountInv, [Next]_vars PROVE CountInv'
<1>1. LoopsTypeOK'
  BY TypesKept DEF CountInv
<1>2. CASE getEA
  BY <1>1, <1>2 DEF getEA, CountInv, counter, first
<1>3. CASE BLT
  BY <1>1, <1>3 DEF BLT, CountInv
<1>4. CASE Pass
  BY <1>1, <1>4 DEF Pass, CountInv, counter, first
<1>5. CASE Stop
  BY <1>1, <1>5 DEF Stop, CountInv, counter, first
<1>6. CASE UNCHANGED vars
  BY <1>1, <1>6 DEF vars, CountInv, counter, first
<1> QED
  BY <1>2, <1>3, <1>4, <1>5, <1>6, CountStep DEF Next, Processor

\* i-jump.cpp: a loop closed by AOBJN with -n in the left half is executed n times, and
\* leaves the index n further, in words of every width.
THEOREM CountedLoops == Spec => []AOBJNCounts
<1>1. Init /\ LoopsTypeOK => CountInv
  <2> SUFFICES ASSUME Init, LoopsTypeOK PROVE CountInv
    OBVIOUS
  <2>1. counter = first /\ phase = "ea" /\ first \in Word
    BY LoopSizes DEF Init, counter, first, LoopsTypeOK, Instruction, Addr, HalfWord
  <2>2. rhu(first) \in 0 .. HalfSize - 1 /\ lhu(first) \in 0 .. HalfSize - 1
    BY <2>1, Halves DEF HalfWord
  <2>3. rhu(first) + (lhu(first) - lhu(first)) = rhu(first)
    BY <2>2, LoopSizes
  <2>4. rhu(first) % HalfSize = rhu(first) /\ lhu(first) >= lhu(first)
    BY <2>2, LoopSizes, NearRemainder
  <2> QED
    BY <2>1, <2>3, <2>4 DEF CountInv
<1>2. CountInv => AOBJNCounts
  BY DEF CountInv, AOBJNCounts, counter, first
<1> QED
  BY <1>1, <1>2, CountKept, LoopsTypes, PTL DEF Spec

-----------------------------------------------------------------------------
\* The transfer. With j words copied the AC names word j of source and destination; when
\* the source runs into the destination it reads what the transfer itself wrote.
src == lhu(start[iw.ac])
dst == rhu(start[iw.ac])
words == rhu(ea) - dst + 1
overlaps == src < dst /\ dst < src + words
from(k) == IF overlaps THEN src + (k % (dst - src)) ELSE src + k
Undisturbed ==
    /\ words >= 1
    /\ (src .. src + words - 1 \union dst .. dst + words - 1) \subseteq Addr \ {iw.ac}

Copied(j) ==
    /\ \A k \in 0 .. j - 1 : store[dst + k] = start[from(k)]
    /\ \A a \in Addr \ (dst .. dst + j - 1 \union {iw.ac}) : store[a] = start[a]
    /\ store[iw.ac] = W36(src + j, dst + j)

\* A transfer up to the last address never finishes.
BLTInv ==
    /\ LoopsTypeOK
    /\ iw.op = "BLT" =>
        /\ phase # "jumped"
        /\ phase = "ea" => store = start
        /\ Undisturbed /\ phase = "run" /\ rhu(ea) # Last =>
                \E j \in 0 .. words - 1 : Copied(j)
        /\ Undisturbed /\ phase = "finished" => Copied(words)

\* The addresses of an undisturbed transfer.
LEMMA Transfer ==
  ASSUME LoopsTypeOK, Undisturbed
  PROVE  /\ src \in Addr /\ dst \in Addr /\ rhu(ea) \in Addr /\ words \in Nat /\ words >= 1
         /\ src + words <= HalfSize /\ rhu(ea) = dst + (words - 1)
         /\ \A k \in 0 .. words - 1 : /\ src + k \in Addr \ {iw.ac} /\ dst + k \in Addr \ {iw.ac}
<1>1. iw.ac \in Addr /\ start[iw.ac] \in Word /\ ea \in Word
  BY LoopSizes DEF LoopsTypeOK, Instruction, Addr, HalfWord
<1>2. src \in Addr /\ dst \in Addr /\ rhu(ea) \in Addr
  BY <1>1, Halves DEF src, dst, Addr
<1>3. /\ src \in Nat /\ dst \in Nat /\ rhu(ea) \in Nat /\ words \in Int /\ words >= 1
      /\ rhu(ea) = dst + (words - 1)
  BY <1>2, LoopSizes DEF words, Undisturbed, Addr, HalfWord
<1>4. \A k \in 0 .. words - 1 : /\ src + k \in src .. src + words - 1
                                /\ dst + k \in dst .. dst + words - 1
  BY <1>3
<1>5. src + (words - 1) \in Addr
  BY <1>3, <1>4 DEF Undisturbed
<1>6. src + words <= HalfSize
  BY <1>3, <1>5, LoopSizes DEF Addr, HalfWord
<1> QED
  BY <1>2, <1>3, <1>4, <1>6 DEF Undisturbed

\* Adding the divisor changes no remainder.
LEMMA RemainderRepeats ==
  ASSUME NEW h \in Nat \ {0}, NEW n \in Nat, n >= h
  PROVE  n % h = (n - h) % h
<1> DEFINE q == (n - h) \div h
           m == (n - h) % h
<1>1. q \in Int /\ m \in 0 .. h - 1 /\ n - h = h * q + m
  OBVIOUS
<1> HIDE DEF q, m
<1>2. n = (q + 1) * h + m /\ q + 1 \in Int
  BY <1>1
<1>3. n % h = m
  BY <1>1, <1>2, QuotientAndRemainder
<1> QED
  BY <1>3 DEF m

\* What word j of the source holds when j words have been copied.
LEMMA SourceHolds ==
  ASSUME LoopsTypeOK, Undisturbed, NEW j \in 0 .. words - 1, Copied(j)
  PROVE  store[src + j] = start[from(j)]
<1>1. /\ src \in Nat /\ dst \in Nat /\ words \in Nat /\ j \in Nat /\ j < words
      /\ src + j \in Addr \ {iw.ac}
  BY Transfer, LoopSizes DEF Addr, HalfWord
<1>2. CASE ~overlaps
  <2>1. src + j \notin dst .. dst + j - 1
    BY <1>1, <1>2 DEF overlaps
  <2>2. from(j) = src + j
    BY <1>2 DEF from
  <2> QED
    BY <1>1, <2>1, <2>2 DEF Copied
<1>3. CASE overlaps
  <2> DEFINE d == dst - src
  <2>1. d \in Nat \ {0} /\ d < words
    BY <1>1, <1>3 DEF overlaps
  <2>2. \A k \in Nat : from(k) = src + (k % d)
    BY <1>3 DEF from
  <2>3. CASE j < d
    <3>1. src + j \notin dst .. dst + j - 1
      BY <1>1, <2>3
    <3>2. j % d = j
      <4> HIDE DEF d
      <4> QED
        BY <1>1, <2>1, <2>3
    <3> QED
      BY <1>1, <2>2, <3>1, <3>2 DEF Copied
  <2>4. CASE j >= d
    <3>1. j - d \in 0 .. j - 1 /\ dst + (j - d) = src + j /\ j - d \in Nat
      BY <1>1, <2>1, <2>4
    <3> HIDE DEF d
    <3>2. store[src + j] = start[from(j - d)]
      BY <3>1 DEF Copied
    <3>3. (j - d) % d = j % d
      BY <1>1, <2>1, <2>4, RemainderRepeats
    <3> QED
      BY <1>1, <2>2, <3>1, <3>2, <3>3
  <2> QED
    BY <1>1, <2>1, <2>3, <2>4
<1> QED
  BY <1>2, <1>3

\* One round copies one word more.
LEMMA RoundCopies ==
  ASSUME LoopsTypeOK, BLT, Undisturbed, NEW j \in 0 .. words - 1, Copied(j), rhu(ea) # Last
  PROVE  /\ UNCHANGED <<start, iw, ea>>
         /\ Copied(j + 1)'
         /\ phase' = IF j + 1 < words THEN "run" ELSE "finished"
<1>1. UNCHANGED <<start, iw, ea>> /\ iw.ac \in Addr /\ store \in [Addr -> Word]
  BY LoopSizes DEF BLT, LoopsTypeOK, Instruction, Addr, HalfWord
<1>2. /\ src \in 0 .. Last /\ dst \in 0 .. Last /\ words \in Nat /\ j \in Nat /\ j < words
      /\ src + j \in Addr \ {iw.ac} /\ dst + j \in Addr \ {iw.ac}
      /\ rhu(ea) = dst + (words - 1) /\ rhu(ea) \in 0 .. Last /\ Last + 1 = HalfSize
  BY Transfer, LoopSizes DEF Addr, HalfWord, Last
<1> DEFINE w == store[iw.ac]
<1>3. /\ w = W36(src + j, dst + j) /\ w \in Word
      /\ lhu(w) = src + j /\ rhu(w) = dst + j
  <2>1. src + j \in Int /\ dst + j \in Int /\ src + j \in 0 .. HalfSize - 1 /\ dst + j \in 0 .. HalfSize - 1
    BY <1>2 DEF Addr, HalfWord
  <2>2. (src + j) % HalfSize = src + j /\ (dst + j) % HalfSize = dst + j
    BY <2>1, LoopSizes
  <2> QED
    BY <1>1, <2>1, <2>2, HalvesOfW36 DEF Copied
<1>4. aobStep(w) = W36(src + (j + 1), dst + (j + 1))
  BY <1>2, <1>3 DEF aobStep
<1>5. rhu(aobStep(w)) = dst + (j + 1)
  <2>1. dst + (j + 1) \in Int /\ src + (j + 1) \in Int /\ dst + (j + 1) \in 0 .. HalfSize - 1
    <3>1. HalfSize \in Nat /\ Last = HalfSize - 1
      BY LoopSizes DEF Last
    <3>2. dst + (words - 1) <= Last - 1
      BY <1>2, <3>1
    <3> QED
      BY <1>2, <3>1, <3>2
  <2>2. (dst + (j + 1)) % HalfSize = dst + (j + 1)
    BY <2>1, LoopSizes
  <2> QED
    BY <1>4, <2>1, <2>2, HalvesOfW36
<1>6. /\ store' = [store EXCEPT ![dst + j] = store[src + j], ![iw.ac] = aobStep(w)]
      /\ phase' = IF rhu(aobStep(w)) <= rhu(ea) THEN "run" ELSE "finished"
  BY <1>3 DEF BLT
<1> HIDE DEF w
<1>7. phase' = IF j + 1 < words THEN "run" ELSE "finished"
  <2>1. (dst + (j + 1) <= rhu(ea)) <=> j + 1 < words
    BY <1>2
  <2> QED
    BY <1>5, <1>6, <2>1
<1>8. /\ store'[dst + j] = start[from(j)]
      /\ store'[iw.ac] = W36(src + (j + 1), dst + (j + 1))
      /\ \A a \in Addr \ {iw.ac, dst + j} : store'[a] = store[a]
  BY <1>1, <1>2, <1>4, <1>6, SourceHolds
<1>9. Copied(j + 1)'
  <2>1. \A k \in 0 .. j + 1 - 1 : store'[dst + k] = start[from(k)]
    <3> SUFFICES ASSUME NEW k \in 0 .. j PROVE store'[dst + k] = start[from(k)]
      BY <1>2
    <3>1. CASE k = j
      BY <1>8, <3>1
    <3>2. CASE k # j
      <4>1. k \in 0 .. j - 1 /\ k \in 0 .. words - 1 /\ dst + k # dst + j
        BY <1>2, <3>2
      <4>2. dst + k \in Addr \ {iw.ac}
        BY <4>1, Transfer
      <4>3. store[dst + k] = start[from(k)]
        BY <4>1 DEF Copied
      <4> QED
        BY <1>8, <4>1, <4>2, <4>3
    <3> QED
      BY <3>1, <3>2
  <2>2. \A a \in Addr \ (dst .. dst + (j + 1) - 1 \union {iw.ac}) : store'[a] = start[a]
    <3> SUFFICES ASSUME NEW a \in Addr \ (dst .. dst + (j + 1) - 1 \union {iw.ac})
                 PROVE  store'[a] = start[a]
      OBVIOUS
    <3>1. a # dst + j /\ a \notin dst .. dst + j - 1
      BY <1>2
    <3> QED
      BY <1>8, <3>1 DEF Copied
  <2>3. /\ src' = src /\ dst' = dst /\ \A k : from(k)' = from(k)
    BY <1>1 DEF src, dst, from, overlaps, words
  <2> QED
    BY <1>1, <1>8, <2>1, <2>2, <2>3 DEF Copied
<1> QED
  BY <1>1, <1>7, <1>9

\* A transfer up to the last address goes on: every address is at most that.
LEMMA TransferGoesOn ==
  ASSUME LoopsTypeOK, BLT, rhu(ea) = Last PROVE phase' = "run"
<1>1. store[iw.ac] \in Word
  BY LoopSizes DEF LoopsTypeOK, Instruction, Addr, HalfWord
<1>2. aobStep(store[iw.ac]) \in Word
  BY <1>1, StepType
<1>3. rhu(aobStep(store[iw.ac])) \in 0 .. HalfSize - 1
  BY <1>2, Halves DEF HalfWord
<1>4. rhu(aobStep(store[iw.ac])) <= rhu(ea)
  BY <1>3, LoopSizes DEF Last
<1> QED
  BY <1>4 DEF BLT

\* The effective address is ready: no word has been copied.
NothingCopied == store = start /\ Undisturbed => \E j \in 0 .. words - 1 : Copied(j)

LEMMA TransferBegins == LoopsTypeOK => NothingCopied
<1> SUFFICES ASSUME LoopsTypeOK, store = start, Undisturbed
             PROVE  0 \in 0 .. words - 1 /\ Copied(0)
  BY DEF NothingCopied
<1>1. words \in Nat /\ words >= 1 /\ src \in Addr /\ dst \in Addr
  BY Transfer
<1>2. src \in Nat /\ dst \in Nat
  BY <1>1, LoopSizes DEF Addr, HalfWord
<1>3. start[iw.ac] = W36(src + 0, dst + 0)
  <2>1. start[iw.ac] \in Word
    BY LoopSizes DEF LoopsTypeOK, Instruction, Addr, HalfWord
  <2>2. src + 0 = src /\ dst + 0 = dst
    BY <1>2
  <2> QED
    BY <2>1, <2>2, Halves DEF src, dst
<1> QED
  BY <1>1, <1>3 DEF Copied

\* The rounds of a transfer, and the steps that leave the store alone.
LEMMA TransferStep == ASSUME BLTInv, BLT PROVE BLTInv'
<1>1. /\ LoopsTypeOK /\ LoopsTypeOK' /\ iw.op = "BLT" /\ phase = "run" /\ phase' \in {"run", "finished"}
      /\ UNCHANGED <<iw, start, ea>>
  BY TypesKept DEF BLTInv, Next, Processor, BLT
<1>2. ASSUME Undisturbed', rhu(ea)' # Last
      PROVE  /\ words \in Nat
             /\ \E j \in 0 .. words - 1 :
                   Copied(j + 1)' /\ phase' = IF j + 1 < words THEN "run" ELSE "finished"
  <2>1. Undisturbed /\ rhu(ea) # Last
    BY <1>1, <1>2 DEF Undisturbed, words, src, dst
  <2>2. PICK j \in 0 .. words - 1 : Copied(j)
    BY <1>1, <2>1 DEF BLTInv
  <2> QED
    BY <1>1, <2>1, <2>2, RoundCopies, Transfer
<1>3. words' = words
  BY <1>1 DEF words, dst
<1>4. ASSUME Undisturbed', phase' = "run", rhu(ea)' # Last
      PROVE  \E j \in 0 .. words' - 1 : Copied(j)'
  <2>1. PICK j \in 0 .. words - 1 :
            Copied(j + 1)' /\ phase' = IF j + 1 < words THEN "run" ELSE "finished"
    BY <1>2, <1>4
  <2>2. words \in Nat
    BY <1>2, <1>4
  <2>3. j + 1 \in 0 .. words - 1
    BY <1>4, <2>1, <2>2
  <2>4. \E i \in 0 .. words - 1 : Copied(i)'
    BY <2>1, <2>3
  <2> QED
    BY <1>3, <2>4
<1>5. ASSUME Undisturbed', phase' = "finished" PROVE Copied(words)'
  <2>1. rhu(ea) # Last
    BY <1>1, <1>5, TransferGoesOn
  <2>2. PICK j \in 0 .. words - 1 :
            Copied(j + 1)' /\ phase' = IF j + 1 < words THEN "run" ELSE "finished"
    BY <1>1, <1>2, <1>5, <2>1
  <2>3. words \in Nat
    BY <1>2, <1>1, <1>5, <2>1
  <2>4. j + 1 = words
    BY <1>5, <2>2, <2>3
  <2> QED
    BY <1>3, <2>2, <2>4 DEF Copied
<1> QED
  BY <1>1, <1>4, <1>5 DEF BLTInv

LEMMA TransferKept == ASSUME BLTInv, [Next]_vars PROVE BLTInv'
<1>1. LoopsTypeOK /\ LoopsTypeOK'
  BY TypesKept DEF BLTInv
<1>2. CASE getEA
  <2>1. /\ UNCHANGED <<store, start, iw, running>> /\ phase = "ea" /\ phase' \in {"ea", "run"}
    BY <1>2 DEF getEA
  <2>2. NothingCopied'
    BY <1>1, TransferBegins, PTL
  <2> QED
    BY <1>1, <2>1, <2>2 DEF BLTInv, NothingCopied
<1>3. CASE AOBJ
  BY <1>1, <1>3 DEF AOBJ, BLTInv
<1>4. CASE Pass
  BY <1>1, <1>4 DEF Pass, BLTInv
<1>5. CASE Stop
  BY <1>1, <1>5 DEF Stop, BLTInv, Undisturbed, Copied, words, src, dst, from, overlaps
<1>6. CASE UNCHANGED vars
  BY <1>1, <1>6 DEF vars, BLTInv, Undisturbed, Copied, words, src, dst, from, overlaps
<1> QED
  BY <1>2, <1>3, <1>4, <1>5, <1>6, TransferStep DEF Next, Processor

\* i-intbin.cpp: what a transfer has done when it ends, for every source, destination and
\* length that leave the AC and the end of memory alone.
THEOREM Transfers == Spec => []BLTCopies
<1>1. Init /\ LoopsTypeOK => BLTInv
  BY DEF Init, BLTInv
<1>2. BLTInv => BLTCopies
  BY DEF BLTInv, BLTCopies, Undisturbed, Copied, words, src, dst, from, overlaps
<1> QED
  BY <1>1, <1>2, TransferKept, LoopsTypes, PTL DEF Spec

-----------------------------------------------------------------------------
\* Effective addresses

Refs == [i : {0, 1}, x : 0 .. NumAC - 1, y : Addr]

LEMMA LinkType ==
  ASSUME LoopsTypeOK, NEW r \in Refs
  PROVE  link(r) \in Refs /\ indexed(store, r) \in Int /\ indexed(store, r) % HalfSize \in Addr
<1>1. r.y \in Int /\ r.x \in Addr
  BY LoopSizes DEF Refs, Addr, HalfWord
<1>2. store[r.x] \in Int
  BY <1>1, WordAssumption DEF LoopsTypeOK, Word
<1>3. indexed(store, r) \in Int
  BY <1>1, <1>2 DEF indexed
<1>4. indexed(store, r) % HalfSize \in Addr
  BY <1>3, LoopSizes, RemainderRange DEF Addr, HalfWord
<1>5. reference(store[indexed(store, r) % HalfSize]) \in Refs
  BY <1>4, ReferenceType DEF LoopsTypeOK, Refs
<1> QED
  BY <1>3, <1>4, <1>5 DEF link

\* The chain exists as far as it is followed, one link after another.
LEMMA ChainLinks ==
  ASSUME LoopsTypeOK
  PROVE  /\ chain \in [0 .. HalfSize -> Refs]
         /\ chain[0] = operands
         /\ \A n \in 0 .. HalfSize - 1 : chain[n + 1] = link(chain[n])
<1> DEFINE IsChain(g, m) ==
        g = [n \in 0 .. m |-> IF n = 0 THEN operands ELSE link(g[n - 1])]
           S == {m \in 0 .. HalfSize : \E g \in [0 .. m -> Refs] : IsChain(g, m)}
<1>1. operands \in Refs /\ HalfSize \in Nat
  BY LoopSizes DEF operands, LoopsTypeOK, Instruction, Refs
<1>2. 0 \in S
  <2> DEFINE g == [n \in 0 .. 0 |-> operands]
  <2>1. g \in [0 .. 0 -> Refs] /\ IsChain(g, 0)
    BY <1>1
  <2> HIDE DEF g, IsChain
  <2> QED
    BY <1>1, <2>1
<1>3. ASSUME NEW k \in 0 .. HalfSize - 1, k \in S PROVE k + 1 \in S
  <2>1. PICK g \in [0 .. k -> Refs] : IsChain(g, k)
    BY <1>3
  <2> DEFINE h == [n \in 0 .. k + 1 |-> IF n = k + 1 THEN link(g[k]) ELSE g[n]]
  <2>2. h \in [0 .. k + 1 -> Refs]
    <3>1. link(g[k]) \in Refs
      BY LinkType
    <3> QED
      BY <3>1
  <2>3. ASSUME NEW n \in 0 .. k + 1
        PROVE  h[n] = IF n = 0 THEN operands ELSE link(h[n - 1])
    <3>1. CASE n = k + 1
      BY <3>1
    <3>2. CASE n \in 0 .. k
      <4>1. g[n] = IF n = 0 THEN operands ELSE link(g[n - 1])
        BY <2>1, <3>2
      <4> QED
        BY <3>2, <4>1
    <3> QED
      BY <3>1, <3>2
  <2>4. IsChain(h, k + 1)
    BY <2>3
  <2> HIDE DEF h, IsChain
  <2> QED
    BY <2>2, <2>4, <1>1
<1> HIDE DEF S
<1>4. HalfSize \in S
  BY <1>1, <1>2, <1>3, Inductive
<1>5. \E g : IsChain(g, HalfSize)
  BY <1>4 DEF S
<1>6. IsChain(chain, HalfSize)
  BY <1>5 DEF chain
<1>7. \A n \in 0 .. HalfSize : chain[n] = IF n = 0 THEN operands ELSE link(chain[n - 1])
  BY <1>6
<1>8. \A n \in 0 .. HalfSize - 1 : chain[n + 1] = link(chain[n])
  BY <1>1, <1>7
<1>9. chain \in [0 .. HalfSize -> Refs]
  <2> DEFINE R == {n \in 0 .. HalfSize : chain[n] \in Refs}
  <2>1. 0 \in R
    BY <1>1, <1>7
  <2>2. \A n \in 0 .. HalfSize - 1 : n \in R => n + 1 \in R
    BY <1>1, <1>8, LinkType
  <2>3. ASSUME NEW m \in 0 .. HalfSize PROVE m \in R
    <3> HIDE DEF R
    <3> QED
      BY <1>1, <2>1, <2>2, Inductive
  <2>4. chain = [n \in 0 .. HalfSize |-> chain[n]]
    <3>1. \E f : chain = [n \in 0 .. HalfSize |-> f[n]]
      <4> DEFINE f == [n \in 0 .. HalfSize |-> IF n = 0 THEN operands ELSE link(chain[n - 1])]
      <4>1. chain = f
        BY <1>6
      <4> QED
        BY <4>1
    <3> QED
      BY <3>1
  <2> QED
    BY <2>3, <2>4
<1> QED
  BY <1>1, <1>7, <1>8, <1>9

\* A chain that ends stays at its end.
LEMMA ChainSettles ==
  ASSUME LoopsTypeOK, NEW n \in 0 .. HalfSize, chain[n].i = 0
  PROVE  Chain = chain[n]
<1> DEFINE S == {k \in 0 .. HalfSize - n : chain[n + k] = chain[n]}
<1>1. HalfSize \in Nat /\ HalfSize - n \in Nat /\ 0 \in S
  BY LoopSizes
<1>2. ASSUME NEW k \in 0 .. HalfSize - n - 1, k \in S PROVE k + 1 \in S
  <2>1. n + k \in 0 .. HalfSize - 1 /\ n + (k + 1) = (n + k) + 1 /\ k + 1 \in 0 .. HalfSize - n
    BY <1>1
  <2>2. chain[(n + k) + 1] = link(chain[n + k])
    BY <2>1, ChainLinks
  <2>3. link(chain[n]) = chain[n]
    BY DEF link
  <2> QED
    BY <1>2, <2>1, <2>2, <2>3
<1> HIDE DEF S
<1>3. HalfSize - n \in S
  BY <1>1, <1>2, Inductive
<1> QED
  BY <1>1, <1>3 DEF S, Chain

ChainStarts == chain[0] = operands

LEMMA ChainBegins == LoopsTypeOK => ChainStarts
BY ChainLinks DEF ChainStarts

\* One that has not ended after as many links as there are addresses has met one of
\* them twice, and goes round from then on.
LEMMA ChainTurnsBack ==
  ASSUME LoopsTypeOK, Endless
  PROVE  \E n \in 0 .. HalfSize : link(Chain) = chain[n]
<1> DEFINE at == [n \in 0 .. HalfSize |-> indexed(store, chain[n]) % HalfSize]
<1>1. HalfSize \in Nat \ {0} /\ \A n \in 0 .. HalfSize : chain[n] \in Refs /\ chain[n].i # 0
  BY LoopSizes, ChainLinks, ChainSettles DEF Endless
<1>2. at \in [0 .. HalfSize -> Addr]
  BY <1>1, LinkType
<1>3. /\ IsFiniteSet(0 .. HalfSize) /\ Cardinality(0 .. HalfSize) = HalfSize + 1
      /\ IsFiniteSet(Addr) /\ Cardinality(Addr) = HalfSize
  <2>1. 0 \in Int /\ HalfSize \in Int /\ HalfSize - 1 \in Int
    BY <1>1
  <2>2. /\ IsFiniteSet(0 .. HalfSize)
        /\ Cardinality(0 .. HalfSize) = IF 0 > HalfSize THEN 0 ELSE HalfSize - 0 + 1
    BY <2>1, FS_Interval
  <2>3. /\ IsFiniteSet(0 .. HalfSize - 1)
        /\ Cardinality(0 .. HalfSize - 1) = IF 0 > HalfSize - 1 THEN 0 ELSE HalfSize - 1 - 0 + 1
    BY <2>1, FS_Interval
  <2> QED
    BY <1>1, <2>2, <2>3 DEF Addr, HalfWord
<1>4. PICK j, k \in 0 .. HalfSize : j < k /\ at[j] = at[k]
  <2> HIDE DEF at
  <2>1. PICK x, y \in 0 .. HalfSize : x # y /\ at[x] = at[y]
    <3>1. Cardinality(Addr) < Cardinality(0 .. HalfSize)
      BY <1>1, <1>3
    <3>2. IsFiniteSet(0 .. HalfSize) /\ IsFiniteSet(Addr) /\ at \in [0 .. HalfSize -> Addr]
      BY <1>2, <1>3
    <3> QED
      BY <3>1, <3>2, FS_PigeonHole
  <2>2. CASE x < y
    BY <2>1, <2>2
  <2>3. CASE y < x
    BY <2>1, <2>3
  <2> QED
    BY <1>1, <2>1, <2>2, <2>3
<1>5. link(chain[j]) = link(chain[k])
  BY <1>1, <1>4 DEF link
<1> DEFINE S == {m \in 0 .. HalfSize - k : link(chain[j + m]) = link(chain[k + m])}
<1>6. 0 \in S /\ HalfSize - k \in Nat
  BY <1>1, <1>5
<1>7. ASSUME NEW m \in 0 .. HalfSize - k - 1, m \in S PROVE m + 1 \in S
  <2>1. /\ j + m \in 0 .. HalfSize - 1 /\ k + m \in 0 .. HalfSize - 1 /\ m + 1 \in 0 .. HalfSize - k
        /\ j + (m + 1) = (j + m) + 1 /\ k + (m + 1) = (k + m) + 1
    BY <1>1, <1>4
  <2>2. chain[(j + m) + 1] = link(chain[j + m]) /\ chain[(k + m) + 1] = link(chain[k + m])
    BY <2>1, ChainLinks
  <2> QED
    BY <1>7, <2>1, <2>2
<1> HIDE DEF S
<1>8. HalfSize - k \in S
  BY <1>6, <1>7, Inductive
<1> DEFINE n == j + (HalfSize - k)
<1>9. n \in 0 .. HalfSize - 1 /\ k + (HalfSize - k) = HalfSize
  BY <1>1, <1>4
<1>10. link(chain[n]) = link(Chain)
  BY <1>8, <1>9 DEF S, Chain
<1>11. link(chain[n]) = chain[n + 1] /\ n + 1 \in 0 .. HalfSize
  BY <1>1, <1>9, ChainLinks
<1> QED
  BY <1>10, <1>11

\* The loop of getEA is always at a link of the chain.
OnChain == phase = "ea" => \E n \in 0 .. HalfSize : ref = chain[n]

LEMMA RoundStaysOnChain ==
  ASSUME LoopsTypeOK, OnChain, phase = "ea"
  PROVE  \E n \in 0 .. HalfSize : link(ref) = chain[n]
<1>1. PICK n \in 0 .. HalfSize : ref = chain[n]
  BY DEF OnChain
<1>2. CASE n < HalfSize
  <2>1. n \in 0 .. HalfSize - 1 /\ n + 1 \in 0 .. HalfSize
    BY <1>2, LoopSizes
  <2> QED
    BY <1>1, <2>1, ChainLinks
<1>3. CASE n = HalfSize /\ ref.i # 0
  BY <1>1, <1>3, ChainTurnsBack DEF Chain, Endless
<1>4. CASE ref.i = 0
  BY <1>1, <1>4 DEF link
<1> QED
  BY <1>2, <1>3, <1>4, LoopSizes

LEMMA OnChainKept == ASSUME LoopsTypeOK, OnChain, [Next]_vars PROVE OnChain'
<1>1. LoopsTypeOK'
  BY TypesKept
<1>2. ASSUME UNCHANGED <<store, iw>> PROVE chain' = chain
  BY <1>2 DEF chain, link, operands, indexed
<1>3. CASE getEA /\ phase' = "ea"
  <2>1. phase = "ea" /\ ref' = link(ref) /\ UNCHANGED <<store, iw>>
    BY <1>3 DEF getEA, link
  <2>2. chain' = chain
    BY <1>2, <2>1
  <2> QED
    BY <2>1, <2>2, RoundStaysOnChain DEF OnChain
<1>4. CASE Pass /\ phase' = "ea"
  <2>1. ref' = operands'
    BY <1>4 DEF Pass, operands
  <2>2. ChainStarts'
    BY <1>1, ChainBegins, PTL
  <2>3. (\E n \in 0 .. HalfSize : ref = chain[n])'
    BY <2>1, <2>2, LoopSizes DEF ChainStarts
  <2> QED
    BY <2>3 DEF OnChain
<1>5. CASE Stop \/ UNCHANGED vars
  <2>1. UNCHANGED <<store, iw, ref, phase>>
    BY <1>5 DEF Stop, vars
  <2>2. chain' = chain
    BY <1>2, <2>1
  <2> QED
    BY <2>1, <2>2 DEF OnChain
<1>6. CASE (BLT \/ AOBJ \/ getEA \/ Pass) /\ phase' # "ea"
  BY <1>6 DEF OnChain
<1>7. BLT \/ AOBJ => phase' # "ea"
  BY DEF BLT, AOBJ
<1> QED
  BY <1>3, <1>4, <1>5, <1>6, <1>7 DEF Next, Processor

\* km10.cpp: getEA returns the end of the chain of references, in memories of every size;
\* from a chain without an end it does not return.
THEOREM EffectiveAddresses == Spec => EAIsEndOfChain
<1> DEFINE Returned == ~Endless /\ rhu(ea') = indexed(store, Chain) % HalfSize
<1>1. Init /\ LoopsTypeOK => OnChain
  <2> SUFFICES ASSUME Init, LoopsTypeOK PROVE \E n \in 0 .. HalfSize : ref = chain[n]
    BY DEF OnChain
  <2> QED
    BY ChainLinks, LoopSizes DEF Init
<1>2. LoopsTypeOK /\ OnChain /\ [Next]_vars => [phase = "ea" /\ phase' # "ea" => Returned]_vars
  <2> SUFFICES ASSUME LoopsTypeOK, OnChain, Next, phase = "ea", phase' # "ea" PROVE Returned
    OBVIOUS
  <2>1. getEA
    BY DEF Next, Processor, BLT, AOBJ, Pass, Stop
  <2>2. ref.i = 0 /\ ea' = Trunc(indexed(store, ref))
    BY <2>1 DEF getEA
  <2>3. Chain = ref
    BY <2>2, ChainSettles DEF OnChain
  <2>4. rhu(ea') = indexed(store, ref) % HalfSize
    BY <2>2, IndexedType, HalfOfTrunc
  <2> QED
    BY <2>2, <2>3, <2>4 DEF Endless
<1>3. LoopsTypeOK /\ OnChain /\ [Next]_vars => OnChain'
  BY OnChainKept
<1> QED
  BY <1>1, <1>2, <1>3, LoopsTypes, PTL DEF Spec, EAIsEndOfChain
=============================================================================
