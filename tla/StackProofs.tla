----------------------------- MODULE StackProofs -----------------------------
(***************************************************************************)
(* Proofs about module Stack, for words of any width and a stack of any    *)
(* size at any place.                                                      *)
(***************************************************************************)
EXTENDS Stack, WordProofs, SequenceTheorems

\* The pointer that has n words below it.
At(n) == W36(n - Size, Base + n)

LEMMA Sizes ==
  /\ HalfSize \in Nat \ {0} /\ Base \in Nat /\ Size \in Nat /\ Size >= 2
  /\ Base + Size < HalfSize /\ 2 * Size < HalfSize
  /\ P \in Addr /\ P < NumAC /\ NumAC <= Base /\ P < Base
  /\ Operands \subseteq Addr /\ P \notin Operands
BY StackAssumption, WordAssumption DEF Addr, HalfWord, Region

\* Within the stack the two halves of the pointer say the same number of words.
LEMMA PointerCounts ==
  ASSUME NEW n \in 0 .. Size
  PROVE  /\ rhu(At(n)) = Base + n
         /\ signedHalf(lhu(At(n))) = n - Size
         /\ lhu(At(n)) = 0 <=> n = Size
         /\ At(n) \in Word
<1>1. n - Size \in Int /\ Base + n \in Int /\ n \in Nat
  BY Sizes
<1>2. (n - Size) % HalfSize = IF n = Size THEN 0 ELSE (n - Size) + HalfSize
  <2>1. -HalfSize <= n - Size /\ n - Size < 2 * HalfSize /\ n - Size < HalfSize
        /\ (n - Size < 0 <=> n # Size) /\ (n = Size => n - Size = 0)
    BY Sizes, <1>1
  <2> QED
    BY Sizes, <1>1, <2>1, NearRemainder
<1>3. (Base + n) % HalfSize = Base + n
  <2>1. -HalfSize <= Base + n /\ Base + n < 2 * HalfSize /\ Base + n < HalfSize /\ ~(Base + n < 0)
    BY Sizes, <1>1
  <2> QED
    BY Sizes, <1>1, <2>1, NearRemainder
<1>4. /\ At(n) \in Word /\ rhu(At(n)) = Base + n
      /\ lhu(At(n)) = IF n = Size THEN 0 ELSE (n - Size) + HalfSize
  BY <1>1, <1>2, <1>3, HalvesOfW36 DEF At
<1> QED
  BY <1>1, <1>4, Sizes DEF signedHalf

\* However far it is moved, the halves keep their distance.
LEMMA PointerMoves ==
  ASSUME NEW n \in 0 .. Size, NEW k \in Int
  PROVE  Moved(At(n), k) = At(n + k)
<1>1. /\ n - Size \in Int /\ Base + n \in Int /\ n \in Int
      /\ (n - Size) + k = (n + k) - Size /\ (Base + n) + k = Base + (n + k)
  BY Sizes
<1>2. lhu(At(n)) = (n - Size) % HalfSize /\ rhu(At(n)) = (Base + n) % HalfSize
  BY <1>1, HalvesOfW36 DEF At
<1>3. /\ (((n - Size) % HalfSize) + k) % HalfSize = ((n + k) - Size) % HalfSize
      /\ (((Base + n) % HalfSize) + k) % HalfSize = (Base + (n + k)) % HalfSize
  <2>1. /\ (((n - Size) % HalfSize) + k) % HalfSize = ((n - Size) + k) % HalfSize
        /\ (((Base + n) % HalfSize) + k) % HalfSize = ((Base + n) + k) % HalfSize
    BY <1>1, Sizes, RemainderOfSum
  <2> QED
    BY <1>1, <2>1
<1> QED
  BY <1>2, <1>3 DEF Moved, At, W36

\* The inductive invariant: the pointer counts the words, and nothing else is written.
StackInv ==
    /\ store \in [Addr -> Word]
    /\ tr2 \in BOOLEAN
    /\ popped \in Word
    /\ outside \in BOOLEAN
    /\ ~outside => depth \in 0 .. Size /\ pointer = At(depth)
    /\ LimitKept

\* What a store with a pointer moved by k makes of the depth.
LEMMA DepthMoves ==
  ASSUME StackInv, ~outside, NEW k \in Int, store' \in [Addr -> Word],
         pointer' = Moved(pointer, k), depth + k \in 0 .. Size
  PROVE  depth' = depth + k /\ pointer' = At(depth')
<1>1. depth \in 0 .. Size /\ pointer' = At(depth + k)
  BY PointerMoves DEF StackInv
<1>2. signedHalf(lhu(pointer')) = (depth + k) - Size
  BY <1>1, PointerCounts
<1>3. depth' = Size - (-signedHalf(lhu(pointer')))
  BY DEF depth, room
<1>4. depth' = depth + k
  BY <1>1, <1>2, <1>3, Sizes
<1> QED
  BY <1>1, <1>4

\* The word the top of the stack names.
LEMMA TopIsWord == ASSUME StackInv, ~outside PROVE top \in Word /\ top = store[Base + depth]
<1>1. rhu(pointer) = Base + depth
  BY PointerCounts DEF StackInv
<1>2. Base + depth \in Addr
  BY Sizes DEF StackInv, Addr, HalfWord
<1> QED
  BY <1>1, <1>2 DEF top, StackInv

\* A word is pushed inside the stack, or not at all.
LEMMA PushKeeps ==
  ASSUME StackInv, ~outside, NEW v \in Word, push(v)
  PROVE  /\ store' \in [Addr -> Word] /\ outside' \in BOOLEAN
         /\ outside' = (depth = Size)
         /\ ~outside' =>
                /\ depth + 1 \in 0 .. Size /\ depth' = depth + 1 /\ pointer' = At(depth')
                /\ overflows <=> depth + 1 = Size
                /\ \A a \in Addr \ {P} :
                       (a # Base + depth + 1 \/ depth + 1 = Size) => store'[a] = store[a]
<1> DEFINE ptr == Moved(pointer, 1)
           written == IF lhu(ptr) = 0 THEN store ELSE [store EXCEPT ![rhu(ptr)] = v]
<1>1. depth \in 0 .. Size /\ ptr = At(depth + 1) /\ 1 \in Int
  BY PointerMoves DEF StackInv
<1>2. store' = [written EXCEPT ![P] = ptr] /\ outside' = (depth >= Size)
  BY DEF push
<1>3. outside' \in BOOLEAN /\ (~outside' => depth # Size) /\ outside' = (depth = Size)
  <2>1. (depth >= Size) = (depth = Size)
    BY <1>1, Sizes
  <2>2. outside' \in BOOLEAN
    BY <1>2
  <2>3. outside' = (depth = Size)
    BY <1>2, <2>1, Zenon
  <2> QED
    BY <2>2, <2>3
<1>4. ptr \in Word /\ rhu(ptr) \in Addr
  <2>1. (depth + 1) - Size \in Int /\ Base + (depth + 1) \in Int
    BY <1>1, Sizes
  <2> QED
    BY <1>1, <2>1, HalvesOfW36, Halves DEF At, Addr
<1>5. written \in [Addr -> Word]
  BY <1>4 DEF StackInv
<1>6. store' \in [Addr -> Word] /\ pointer' = ptr
  BY <1>2, <1>4, <1>5, Sizes DEF pointer
<1>7. ASSUME ~outside'
      PROVE  /\ depth + 1 \in 0 .. Size
             /\ depth' = depth + 1 /\ pointer' = At(depth')
             /\ overflows <=> depth + 1 = Size
             /\ rhu(ptr) = Base + depth + 1 /\ (lhu(ptr) = 0 <=> depth + 1 = Size)
  <2>1. depth + 1 \in 0 .. Size
    BY <1>1, <1>3, <1>7, Sizes
  <2>2. depth' = depth + 1 /\ pointer' = At(depth')
    BY <1>1, <1>6, <2>1, DepthMoves
  <2>3. rhu(ptr) = Base + (depth + 1) /\ (lhu(ptr) = 0 <=> depth + 1 = Size)
    BY <1>1, <2>1, PointerCounts
  <2> QED
    BY <1>1, <2>1, <2>2, <2>3, Sizes DEF overflows
<1>8. ASSUME ~outside', NEW a \in Addr \ {P}, a # Base + depth + 1 \/ depth + 1 = Size
      PROVE  store'[a] = store[a]
  <2>1. rhu(ptr) # a \/ lhu(ptr) = 0
    BY <1>7, <1>8
  <2>2. store'[a] = written[a]
    BY <1>2, <1>5
  <2> HIDE DEF ptr
  <2>3. written[a] = store[a]
    BY <1>4, <2>1 DEF StackInv
  <2> QED
    BY <2>2, <2>3
<1> QED
  BY <1>3, <1>6, <1>7, <1>8

\* PUSH and PUSHJ keep the invariant: the word goes under the limit.
LEMMA PushKeepsInv ==
  ASSUME StackInv, ~outside, NEW v \in Word, push(v), tr2' \in BOOLEAN, UNCHANGED popped
  PROVE  StackInv'
<1>1. LimitKept'
  <2> SUFFICES ASSUME ~outside', NEW a \in Addr \ (Base + 1 .. Base + Size - 1),
                      a \notin Operands \union {P}
               PROVE  store'[a] = InitStore[a]
    BY DEF LimitKept
  <2>1. depth \in 0 .. Size /\ depth + 1 \in 0 .. Size /\ store'[a] = store[a]
    <3>1. depth \in 0 .. Size /\ depth + 1 \in 0 .. Size
      BY PushKeeps DEF StackInv
    <3>2. a # Base + depth + 1 \/ depth + 1 = Size
      BY <3>1, Sizes
    <3> QED
      BY <3>1, <3>2, PushKeeps
  <2> QED
    BY <2>1 DEF StackInv, LimitKept
<1>2. ~outside' => depth' \in 0 .. Size /\ pointer' = At(depth')
  BY PushKeeps
<1>3. store' \in [Addr -> Word] /\ outside' \in BOOLEAN /\ popped' \in Word
  BY PushKeeps DEF StackInv
<1> QED
  BY <1>1, <1>2, <1>3 DEF StackInv

\* An instruction that moves the pointer and stores, if anything, at an operand.
LEMMA MoveKeeps ==
  ASSUME StackInv, ~outside, NEW k \in Int, NEW s \in [Addr -> Word],
         store' = [s EXCEPT ![P] = Moved(pointer, k)],
         \A a \in Addr \ Operands : s[a] = store[a],
         outside' = (depth + k \notin 0 .. Size)
  PROVE  /\ store' \in [Addr -> Word] /\ outside' \in BOOLEAN
         /\ ~outside' => depth + k \in 0 .. Size /\ depth' = depth + k /\ pointer' = At(depth')
         /\ \A a \in Addr \ (Operands \union {P}) : store'[a] = store[a]
         /\ LimitKept'
<1>1. depth \in 0 .. Size /\ Moved(pointer, k) = At(depth + k)
  BY PointerMoves DEF StackInv
<1>2. At(depth + k) \in Word
  <2>1. (depth + k) - Size \in Int /\ Base + (depth + k) \in Int
    BY <1>1, Sizes
  <2> QED
    BY <2>1, HalvesOfW36 DEF At
<1>3. store' \in [Addr -> Word] /\ pointer' = Moved(pointer, k)
  BY <1>1, <1>2, Sizes DEF pointer
<1>4. ~outside' => depth + k \in 0 .. Size
  OBVIOUS
<1>5. ~outside' => depth' = depth + k /\ pointer' = At(depth')
  BY <1>3, <1>4, DepthMoves
<1>6. \A a \in Addr \ (Operands \union {P}) : store'[a] = store[a]
  BY <1>3
<1>7. LimitKept'
  BY <1>6 DEF LimitKept, StackInv
<1>8. outside' \in BOOLEAN
  OBVIOUS
<1> QED
  BY <1>3, <1>4, <1>5, <1>6, <1>7, <1>8

\* POP is a move by one down; it stores at its operand after that.
LEMMA PopMoves ==
  ASSUME StackInv, ~outside, NEW e \in Operands, POP(e)
  PROVE  \E s \in [Addr -> Word] :
            /\ store' = [s EXCEPT ![P] = Moved(pointer, -1)]
            /\ \A a \in Addr \ Operands : s[a] = store[a]
<1> DEFINE s == [store EXCEPT ![e] = top]
<1>1. s \in [Addr -> Word] /\ e \in Addr /\ e # P /\ P \in Addr
  BY TopIsWord, Sizes DEF StackInv
<1>2. store' = [store EXCEPT ![P] = Moved(pointer, -1), ![e] = top]
  BY DEF POP
<1>3. store' = [s EXCEPT ![P] = Moved(pointer, -1)]
  BY <1>1, <1>2 DEF StackInv
<1>4. \A a \in Addr \ Operands : s[a] = store[a]
  BY DEF StackInv
<1> HIDE DEF s
<1> QED
  BY <1>1, <1>3, <1>4

\* StackInv holds for as long as the program runs.
LEMMA InitStack == Init => StackInv
<1> SUFFICES ASSUME Init PROVE StackInv
  OBVIOUS
<1>1. At(0) \in Word /\ signedHalf(lhu(At(0))) = 0 - Size
  BY PointerCounts, Sizes
<1>2. At(0) = W36(-Size, Base)
  BY Sizes DEF At
<1>3. store \in [Addr -> Word] /\ pointer = At(0)
  BY <1>1, <1>2, StackAssumption, Sizes DEF Init, pointer
<1>4. depth = 0
  BY <1>1, <1>3, Sizes DEF depth, room
<1>5. LimitKept
  BY StackAssumption DEF LimitKept, Init
<1>6. 0 \in Word
  BY WordAssumption DEF Word
<1>7. tr2 \in BOOLEAN /\ outside \in BOOLEAN
  BY DEF Init
<1> QED
  BY <1>3, <1>4, <1>5, <1>6, <1>7, Sizes DEF Init, StackInv

LEMMA NextStack == ASSUME StackInv, Next PROVE StackInv'
<1>1. ~outside
  BY DEF Next
<1>2. ASSUME NEW e \in Operands, PUSH(e) PROVE StackInv'
  <2>1. store[e] \in Word /\ tr2' \in BOOLEAN
    BY <1>2, Sizes DEF PUSH, StackInv
  <2> QED
    BY <1>1, <1>2, <2>1, PushKeepsInv DEF PUSH
<1>3. ASSUME NEW site \in Sites, PUSHJ(site) PROVE StackInv'
  <2>1. site \in Word
    <3>1. HalfSize <= HalfSize * HalfSize
      BY Sizes
    <3> QED
      BY <3>1, StackAssumption, WordAssumption DEF Word, HalfWord
  <2>2. tr2' \in BOOLEAN
    BY <1>3 DEF PUSHJ, overflows
  <2> QED
    BY <1>1, <1>3, <2>1, <2>2, PushKeepsInv DEF PUSHJ
<1>4. ASSUME NEW e \in Operands, POP(e) PROVE StackInv'
  <2>1. popped' \in Word /\ tr2' \in BOOLEAN
    BY <1>1, <1>4, TopIsWord DEF POP, StackInv
  <2>2. outside' = (depth + (-1) \notin 0 .. Size)
    <3>1. depth = 0 <=> depth + (-1) \notin 0 .. Size
      BY <1>1, Sizes DEF StackInv
    <3> QED
      BY <1>4, <3>1 DEF POP
  <2> QED
    BY <1>1, <1>4, <2>1, <2>2, PopMoves, MoveKeeps DEF StackInv
<1>5. ASSUME POPJ PROVE StackInv'
  <2>1. popped' \in Word /\ tr2' \in BOOLEAN
    BY <1>1, <1>5, TopIsWord DEF POPJ, StackInv
  <2>2. outside' = (depth + (-1) \notin 0 .. Size)
    <3>1. depth = 0 <=> depth + (-1) \notin 0 .. Size
      BY <1>1, Sizes DEF StackInv
    <3> QED
      BY <1>5, <3>1 DEF POPJ
  <2>3. store' = [store EXCEPT ![P] = Moved(pointer, -1)]
    BY <1>5 DEF POPJ
  <2>4. store \in [Addr -> Word] /\ -1 \in Int
    BY DEF StackInv
  <2>5. /\ store' \in [Addr -> Word] /\ outside' \in BOOLEAN /\ LimitKept'
        /\ ~outside' => depth + (-1) \in 0 .. Size /\ depth' = depth + (-1) /\ pointer' = At(depth')
    BY <1>1, <2>2, <2>3, <2>4, MoveKeeps
  <2> QED
    BY <2>1, <2>4, <2>5 DEF StackInv
<1>6. ASSUME NEW n \in Amounts, ADJSP(n) PROVE StackInv'
  <2>1. tr2' \in BOOLEAN /\ UNCHANGED popped /\ n \in Int
    BY <1>6, StackAssumption DEF ADJSP, StackInv
  <2>2. outside' = (depth + n \notin 0 .. Size)
    BY <1>6 DEF ADJSP
  <2>3. store' = [store EXCEPT ![P] = Moved(pointer, n)]
    BY <1>6 DEF ADJSP
  <2>4. store \in [Addr -> Word] /\ popped' \in Word
    BY <2>1 DEF StackInv
  <2>5. /\ store' \in [Addr -> Word] /\ outside' \in BOOLEAN /\ LimitKept'
        /\ ~outside' => depth + n \in 0 .. Size /\ depth' = depth + n /\ pointer' = At(depth')
    BY <1>1, <2>1, <2>2, <2>3, <2>4, MoveKeeps
  <2> QED
    BY <2>1, <2>4, <2>5 DEF StackInv
<1>7. ASSUME Trap PROVE StackInv'
  BY <1>7 DEF Trap, StackInv, LimitKept, pointer, depth, room
<1> QED
  BY <1>2, <1>3, <1>4, <1>5, <1>6, <1>7 DEF Next

\* StackInv holds in every state of a program that keeps to its stack.
THEOREM StackInvariant == Spec => []StackInv
<1>1. StackInv /\ UNCHANGED vars => StackInv'
  BY DEF vars, StackInv, LimitKept, pointer, depth, room
<1> QED
  BY <1>1, InitStack, NextStack, PTL DEF Spec

\* The state is of its type, and the pointer's halves agree.
THEOREM StackTypes == Spec => []StackTypeOK
<1>1. StackInv => StackTypeOK
  BY DEF StackInv, StackTypeOK, At
<1> QED
  BY <1>1, StackInvariant, PTL

\* i-jump.cpp: no mix of the stack instructions writes at the limit of the stack, above
\* it or below it, until the program leaves its stack.
THEOREM LimitIsKept == Spec => []LimitKept
<1>1. StackInv => LimitKept
  BY DEF StackInv
<1> QED
  BY <1>1, StackInvariant, PTL

-----------------------------------------------------------------------------
\* The words of the stack are those between the base and the pointer; none of them is an
\* operand or the pointer.
StackIsWords ==
    /\ depth \in 0 .. Size
    /\ stackWords \in Seq(Word) /\ Len(stackWords) = depth
    /\ \A i \in 1 .. depth : stackWords[i] = store[Base + i]

LEMMA WordsOfStack == StackInv /\ ~outside => StackIsWords
<1> SUFFICES ASSUME StackInv, ~outside PROVE StackIsWords
  OBVIOUS
<1>1. stackWords = [i \in 1 .. depth |-> store[Base + i]]
  BY DEF stackWords
<1>2. depth \in Nat /\ \A i \in 1 .. depth : Base + i \in Addr
  BY Sizes DEF StackInv, Addr, HalfWord
<1>3. \A i \in 1 .. depth : store[Base + i] \in Word
  BY <1>2 DEF StackInv
<1>4. stackWords \in [1 .. depth -> Word]
  BY <1>1, <1>3
<1> QED
  BY <1>1, <1>2, <1>4, LenProperties DEF StackIsWords, StackInv

LEMMA RegionIsApart ==
  ASSUME NEW i \in 1 .. Size
  PROVE  Base + i \in Addr \ (Operands \union {P})
<1>1. Base + i \in Region /\ Base + i # P /\ Base + i \in Addr
  BY Sizes DEF Region, Addr, HalfWord
<1> QED
  BY <1>1, StackAssumption

\* A push on a stack that is not over maps to a push.
LEMMA PushMaps ==
  ASSUME StackInv, ~outside, StackInv', NEW v \in Word, push(v), UNCHANGED popped,
         tr2' = (tr2 \/ overflows) \/ tr2' = overflows
  PROVE  Promise!Next
<1>1. CASE outside'
  <2>1. depth = Size
    BY <1>1, PushKeeps
  <2> QED
    BY <1>1, <2>1, WordsOfStack, Sizes DEF StackIsWords, Promise!Next, Promise!Leave, Promise!Over
<1>2. CASE ~outside'
  <2>1. /\ depth \in 0 .. Size /\ depth + 1 \in 0 .. Size /\ depth' = depth + 1
        /\ overflows <=> depth + 1 = Size
    BY <1>2, PushKeeps DEF StackInv
  <2>2. \A i \in 1 .. depth : store'[Base + i] = store[Base + i]
    <3> SUFFICES ASSUME NEW i \in 1 .. depth PROVE store'[Base + i] = store[Base + i]
      OBVIOUS
    <3>1. i \in 1 .. Size /\ Base + i # Base + depth + 1
      BY <2>1, Sizes
    <3>2. Base + i \in Addr \ {P}
      BY <3>1, RegionIsApart
    <3> QED
      BY <1>2, <3>1, <3>2, PushKeeps
  <2> DEFINE s == stackWords
             x == store'[Base + (depth + 1)]
  <2>3. /\ s \in Seq(Word) /\ Len(s) = depth /\ \A i \in 1 .. depth : s[i] = store[Base + i]
        /\ s' \in Seq(Word) /\ Len(s') = depth + 1
        /\ \A i \in 1 .. depth + 1 : s'[i] = store'[Base + i]
    <3>1. StackIsWords /\ StackIsWords'
      BY <1>2, WordsOfStack, PTL
    <3> QED
      BY <2>1, <3>1 DEF StackIsWords
  <2> HIDE DEF s
  <2>4. s' = Append(s, x) /\ x \in Word
    <3>1. depth + 1 \in 1 .. depth + 1 /\ depth + 1 \in 1 .. Size
      BY <2>1
    <3>2. x \in Word
      BY <3>1, RegionIsApart DEF StackInv
    <3> HIDE DEF x
    <3>3. /\ Append(s, x) \in Seq(Word) /\ Len(Append(s, x)) = depth + 1
          /\ \A i \in 1 .. depth : Append(s, x)[i] = s[i]
          /\ Append(s, x)[depth + 1] = x
      BY <2>1, <2>3, <3>2, AppendProperties
    <3>4. ASSUME NEW i \in 1 .. depth + 1 PROVE s'[i] = Append(s, x)[i]
      <4>1. CASE i = depth + 1
        <5>1. s'[depth + 1] = store'[Base + (depth + 1)] /\ Append(s, x)[depth + 1] = x
          BY <2>3, <3>1, <3>3
        <5> QED
          BY <4>1, <5>1 DEF x
      <4>2. CASE i \in 1 .. depth
        <5>1. i \in 1 .. depth + 1 /\ Append(s, x)[i] = s[i] /\ s[i] = store[Base + i]
          BY <2>3, <3>3, <4>2
        <5>2. s'[i] = store'[Base + i]
          BY <2>3, <5>1
        <5> QED
          BY <2>2, <4>2, <5>1, <5>2
      <4>3. i = depth + 1 \/ i \in 1 .. depth
        <5>1. depth \in Nat
          BY <2>1, Sizes
        <5> QED
          BY <5>1
      <4> QED
        BY <4>1, <4>2, <4>3
    <3> QED
      BY <2>3, <3>2, <3>3, <3>4, SeqEqual
  <2>5. ~Promise!Over /\ (Promise!Full <=> depth + 1 = Size)
    BY <2>1, <2>3, Sizes DEF Promise!Over, Promise!Full, s
  <2>6. IF Promise!Full THEN tr2' ELSE tr2' \in {tr2, FALSE}
    <3>1. overflows \in BOOLEAN /\ tr2 \in BOOLEAN
      BY DEF overflows, StackInv
    <3>2. CASE overflows
      BY <2>1, <2>5, <3>2
    <3>3. CASE ~overflows
      BY <2>1, <2>5, <3>1, <3>3
    <3> QED
      BY <3>2, <3>3
  <2>7. outside' = outside
    BY <1>2 DEF StackInv
  <2>8. Promise!Push
    BY <2>4, <2>5, <2>6, <2>7 DEF Promise!Push, s
  <2> QED
    BY <2>8 DEF Promise!Next
<1> QED
  BY <1>1, <1>2

\* The first n elements of a sequence.
LEMMA Prefix ==
  ASSUME NEW S, NEW s \in Seq(S), NEW n \in 0 .. Len(s)
  PROVE  /\ SubSeq(s, 1, n) \in Seq(S) /\ Len(SubSeq(s, 1, n)) = n
         /\ \A i \in 1 .. n : SubSeq(s, 1, n)[i] = s[i]
<1>1. Len(s) \in Nat
  BY LenProperties
<1>2. 1 \in 1 .. Len(s) + 1 /\ n \in 1 - 1 .. Len(s) /\ n \in Nat
  BY <1>1
<1>3. /\ SubSeq(s, 1, n) \in Seq(S)
      /\ Len(SubSeq(s, 1, n)) = IF 1 <= n THEN n - 1 + 1 ELSE 0
      /\ \A i \in 1 .. n - 1 + 1 : SubSeq(s, 1, n)[i] = s[1 + i - 1]
  BY <1>2, SubSeqProperties
<1>4. n - 1 + 1 = n /\ (n = 0 \/ 1 <= n) /\ \A i \in 1 .. n : 1 + i - 1 = i
  BY <1>2
<1> QED
  BY <1>3, <1>4

\* What an instruction that moves the pointer leaves of the words.
LEMMA WordsMove ==
  ASSUME StackInv, ~outside, StackInv', ~outside', NEW k \in Int, depth' = depth + k,
         \A a \in Addr \ (Operands \union {P}) : store'[a] = store[a]
  PROVE  /\ depth + k \in 0 .. Size /\ depth \in 0 .. Size
         /\ Len(stackWords) = depth /\ Len(stackWords') = depth + k
         /\ k <= 0 => stackWords' = SubSeq(stackWords, 1, depth + k)
         /\ k >= 0 => SubSeq(stackWords', 1, depth) = stackWords
<1>1. StackIsWords /\ StackIsWords'
  BY WordsOfStack, PTL
<1> DEFINE s == stackWords
           m == depth + k
<1>2. /\ m \in 0 .. Size /\ depth \in 0 .. Size /\ m \in Nat /\ depth \in Nat
      /\ s \in Seq(Word) /\ Len(s) = depth /\ s' \in Seq(Word) /\ Len(s') = m
  BY <1>1, Sizes DEF StackIsWords
<1>3. \A i \in 1 .. Size : store'[Base + i] = store[Base + i]
  BY RegionIsApart
<1>4. /\ \A i \in 1 .. depth : s[i] = store[Base + i]
      /\ \A i \in 1 .. m : s'[i] = store'[Base + i]
  BY <1>1, <1>2 DEF StackIsWords
<1>5. \A i \in 1 .. Size : (i <= depth /\ i <= m) => s'[i] = s[i]
  <2> SUFFICES ASSUME NEW i \in 1 .. Size, i <= depth, i <= m PROVE s'[i] = s[i]
    OBVIOUS
  <2>1. i \in 1 .. depth /\ i \in 1 .. m
    BY <1>2, Sizes
  <2> QED
    BY <1>3, <1>4, <2>1
<1>6. ASSUME k <= 0 PROVE s' = SubSeq(s, 1, m)
  <2>1. m <= depth /\ m \in 0 .. Len(s)
    BY <1>2, <1>6
  <2> HIDE DEF s, m
  <2>2. /\ SubSeq(s, 1, m) \in Seq(Word) /\ Len(SubSeq(s, 1, m)) = m
        /\ \A i \in 1 .. m : SubSeq(s, 1, m)[i] = s[i]
    BY <1>2, <2>1, Prefix
  <2>3. \A i \in 1 .. m : i \in 1 .. Size /\ i <= depth /\ i <= m
    BY <1>2, <2>1, Sizes
  <2> QED
    BY <1>2, <1>5, <2>2, <2>3, SeqEqual
<1>7. ASSUME k >= 0 PROVE SubSeq(s', 1, depth) = s
  <2>1. depth <= m
    BY <1>2, <1>7
  <2> HIDE DEF s, m
  <2>2. /\ SubSeq(s', 1, depth) \in Seq(Word) /\ Len(SubSeq(s', 1, depth)) = depth
        /\ \A i \in 1 .. depth : SubSeq(s', 1, depth)[i] = s'[i]
    <3>1. depth \in 0 .. Len(s')
      BY <1>2, <2>1
    <3> QED
      BY <1>2, <3>1, Prefix
  <2>3. \A i \in 1 .. depth : i \in 1 .. Size /\ i <= depth /\ i <= m
    BY <1>2, <2>1, Sizes
  <2> QED
    BY <1>2, <1>5, <2>2, <2>3, SeqEqual
<1> HIDE DEF s
<1> QED
  BY <1>2, <1>6, <1>7 DEF s

\* The flag of a pop is that of the word it takes away again.
LEMMA PopMaps ==
  ASSUME StackInv, ~outside, StackInv', (\E e \in Operands : POP(e)) \/ POPJ
  PROVE  Promise!Next
<1>1. /\ popped' = top /\ tr2' = (tr2 \/ underflows) /\ outside' = (depth = 0)
      /\ depth \in 0 .. Size /\ pointer = At(depth)
  BY DEF POP, POPJ, StackInv
<1>2. StackIsWords
  BY WordsOfStack
<1>3. CASE depth = 0
  <2>1. stackWords = <<>> /\ outside'
    BY <1>1, <1>2, <1>3, EmptySeq DEF StackIsWords
  <2> QED
    BY <2>1 DEF Promise!Next, Promise!Leave
<1>4. CASE depth # 0
  <2> DEFINE k == -1
  <2>1. /\ k \in Int /\ depth + k \in 0 .. Size /\ k <= 0 /\ depth \in 1 .. Size
        /\ depth + k = depth - 1 /\ outside' = (depth + k \notin 0 .. Size)
    BY <1>1, <1>4, Sizes
  <2>2. \E s \in [Addr -> Word] : /\ store' = [s EXCEPT ![P] = Moved(pointer, k)]
                                  /\ \A a \in Addr \ Operands : s[a] = store[a]
    <3>1. CASE POPJ
      BY <3>1 DEF POPJ, StackInv
    <3>2. CASE \E e \in Operands : POP(e)
      BY <3>2, PopMoves
    <3> QED
      BY <3>1, <3>2
  <2>3. /\ ~outside' /\ depth' = depth + k
        /\ \A a \in Addr \ (Operands \union {P}) : store'[a] = store[a]
    BY <2>1, <2>2, MoveKeeps
  <2>4. /\ Len(stackWords) = depth
        /\ stackWords' = SubSeq(stackWords, 1, depth - 1)
    <3> HIDE DEF k
    <3> QED
      BY <2>1, <2>3, WordsMove
  <2>5. underflows <=> depth = Size
    <3>1. Moved(pointer, k) = At(depth + k)
      BY <1>1, <2>1, PointerMoves
    <3>2. signedHalf(lhu(At(depth + k))) = (depth + k) - Size
      BY <2>1, PointerCounts
    <3> QED
      BY <2>1, <3>1, <3>2, Sizes DEF underflows
  <2>6. Promise!Over <=> depth = Size
    BY <2>4, Sizes, <1>1 DEF Promise!Over
  <2>7. popped' = stackWords[Len(stackWords)]
    <3>1. top = store[Base + depth]
      BY TopIsWord
    <3> QED
      BY <1>1, <1>2, <2>1, <2>4, <3>1 DEF StackIsWords
  <2>8. tr2' = (tr2 \/ Promise!Over)
    BY <1>1, <2>5, <2>6
  <2>9. outside' = outside /\ stackWords # <<>>
    BY <1>4, <2>3, <2>4, EmptySeq DEF StackInv
  <2> QED
    BY <2>4, <2>7, <2>8, <2>9 DEF Promise!Next, Promise!Pop, Promise!Down
<1> QED
  BY <1>3, <1>4

\* ADJSP takes words away or gives some back, and traps as the abstract stack does.
LEMMA AdjustMaps ==
  ASSUME StackInv, ~outside, StackInv', NEW n \in Amounts, ADJSP(n)
  PROVE  Promise!Next
<1> DEFINE m == depth + n
           before == signedHalf(lhu(pointer))
           after == signedHalf(lhu(Moved(pointer, n)))
           crosses == (n < 0 /\ before >= 0 /\ after < 0) \/ (n > 0 /\ before < 0 /\ after >= 0)
<1>1. /\ n \in Int /\ n # 0 /\ -Size <= n /\ n <= Size
      /\ depth \in 0 .. Size /\ pointer = At(depth) /\ UNCHANGED popped
      /\ tr2' = (tr2 \/ crosses) /\ outside' = (m \notin 0 .. Size)
      /\ store' = [store EXCEPT ![P] = Moved(pointer, n)]
  BY StackAssumption DEF ADJSP, StackInv
<1>2. CASE m \notin 0 .. Size
  BY <1>1, <1>2 DEF Promise!Next, Promise!Leave
<1>3. CASE m \in 0 .. Size
  <2> HIDE DEF crosses
  <2>1. store \in [Addr -> Word]
    BY DEF StackInv
  <2>2. /\ ~outside' /\ depth' = depth + n
        /\ \A a \in Addr \ (Operands \union {P}) : store'[a] = store[a]
    BY <1>1, <1>3, <2>1, MoveKeeps
  <2>3. /\ Len(stackWords) = depth /\ Len(stackWords') = m
        /\ n <= 0 => stackWords' = SubSeq(stackWords, 1, m)
        /\ n >= 0 => SubSeq(stackWords', 1, depth) = stackWords
    BY <1>1, <2>2, WordsMove
  <2>4. before = depth - Size /\ after = m - Size
    <3>1. Moved(pointer, n) = At(m)
      BY <1>1, PointerMoves
    <3> QED
      BY <1>1, <1>3, <3>1, PointerCounts
  <2> HIDE DEF before, after
  <2>5. outside' = outside
    BY <2>2 DEF StackInv
  <2>6. Promise!Over <=> depth = Size
    BY <1>1, <2>3, Sizes DEF Promise!Over
  <2>7. CASE n < 0
    <3>1. -n \in 1 .. (Size - 1) + 1 /\ -n <= depth /\ depth - (-n) = m
      BY <1>1, <1>3, <2>7, Sizes
    <3>2. crosses <=> depth = Size
      BY <1>1, <1>3, <2>4, <2>7, Sizes DEF crosses
    <3>3. tr2' = (tr2 \/ Promise!Over)
      BY <1>1, <2>6, <3>2
    <3>4. -n <= Len(stackWords) /\ stackWords' = Promise!Down(-n)
      BY <1>1, <2>3, <2>7, <3>1 DEF Promise!Down
    <3> QED
      BY <1>1, <2>5, <3>1, <3>3, <3>4 DEF Promise!Next, Promise!Adjust
  <2>8. CASE n > 0
    <3>1. n \in 1 .. (Size - 1) + 1 /\ depth + n <= (Size - 1) + 1
      BY <1>1, <1>3, <2>8, Sizes
    <3>2. crosses <=> depth # Size /\ depth + n = (Size - 1) + 1
      BY <1>1, <1>3, <2>4, <2>8, Sizes DEF crosses
    <3>3. tr2' = (tr2 \/ (~Promise!Over /\ Len(stackWords) + n = (Size - 1) + 1))
      BY <1>1, <2>3, <2>6, <3>2
    <3>4. /\ Len(stackWords) + n <= (Size - 1) + 1
          /\ Len(stackWords') = Len(stackWords) + n
          /\ SubSeq(stackWords', 1, Len(stackWords)) = stackWords
      BY <1>1, <2>3, <2>8, <3>1
    <3> QED
      BY <1>1, <2>5, <3>1, <3>3, <3>4 DEF Promise!Next, Promise!Adjust
  <2> QED
    BY <1>1, <2>7, <2>8
<1> QED
  BY <1>2, <1>3

\* i-jump.cpp: the stack instructions implement the bounded stack: last in, first out, a
\* trap at the limit, one word lost there and nothing else.
THEOREM StackIsBounded == Spec => ImplementsBoundedStack
<1>1. Init => Promise!Init
  <2> SUFFICES ASSUME Init PROVE stackWords = <<>>
    BY DEF Init, Promise!Init
  <2>1. StackInv /\ ~outside
    BY InitStack DEF Init
  <2>2. depth = 0
    <3>1. store[P] = At(0)
      BY StackAssumption, Sizes DEF Init, At
    <3> QED
      BY <3>1, PointerCounts, Sizes DEF depth, room, pointer
  <2> QED
    BY <2>1, <2>2, WordsOfStack, EmptySeq DEF StackIsWords
<1>2. StackInv /\ StackInv' /\ [Next]_vars => [Promise!Next]_(Promise!vars)
  <2> SUFFICES ASSUME StackInv, StackInv', [Next]_vars PROVE [Promise!Next]_(Promise!vars)
    OBVIOUS
  <2>1. ASSUME Next PROVE Promise!Next
    <3>1. ~outside
      BY <2>1 DEF Next
    <3>2. ASSUME NEW e \in Operands, PUSH(e) PROVE Promise!Next
      <4>1. store[e] \in Word
        BY Sizes DEF StackInv
      <4> QED
        BY <3>1, <3>2, <4>1, PushMaps DEF PUSH
    <3>3. ASSUME NEW site \in Sites, PUSHJ(site) PROVE Promise!Next
      <4>1. site \in Word
        <5>1. HalfSize <= HalfSize * HalfSize
          BY Sizes
        <5> QED
          BY <5>1, StackAssumption, WordAssumption DEF Word, HalfWord
      <4> QED
        BY <3>1, <3>3, <4>1, PushMaps DEF PUSHJ
    <3>4. ASSUME Trap PROVE Promise!Next
      BY <3>1, <3>4 DEF Trap, Promise!Next, Promise!Serve, stackWords, depth, room, pointer
    <3> QED
      BY <2>1, <3>1, <3>2, <3>3, <3>4, PopMaps, AdjustMaps DEF Next
  <2>2. CASE UNCHANGED vars
    BY <2>2 DEF vars, Promise!vars, stackWords, depth, room, pointer
  <2> QED
    BY <2>1, <2>2
<1> QED
  BY <1>1, <1>2, StackInvariant, PTL DEF Spec, ImplementsBoundedStack, Promise!Spec
=============================================================================
