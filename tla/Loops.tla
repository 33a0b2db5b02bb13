-------------------------------- MODULE Loops --------------------------------
(***************************************************************************)
(* What repeats inside the processor: the indirection of KM10::getEA       *)
(* (src/km10.cpp), the word by word transfer of BLT (src/i-intbin.cpp) and *)
(* the counted loops closed by AOBJN and AOBJP (src/i-jump.cpp). The       *)
(* interrupt key clears running at any time, but it is looked at only      *)
(* between instructions. The PC is in section 0.                           *)
(*                                                                         *)
(* A behaviour is one instruction. If it jumps, the program is one that    *)
(* comes back to it.                                                       *)
(***************************************************************************)
EXTENDS Words

CONSTANTS
    NumAC,     \* addresses below it are ACs
    InitCases  \* pairs of the instruction word and the contents of the store

VARIABLES
    store,    \* ACBlocks[] and memP[]
    start,    \* history: the store before the instruction
    iw,       \* KM10::iw: [op, ac, i, x, y]
    ref,      \* the arguments i, x and y of getEA, as its loop replaces them
    ea,       \* KM10::ea
    phase,    \* "ea", "run" (the handler), "jumped", "finished" or "debugger"
    running   \* KM10::running

vars == <<store, start, iw, ref, ea, phase, running>>

Addr == HalfWord
Last == HalfSize - 1
Instruction ==
    [op : {"BLT", "AOBJN", "AOBJP"}, ac : 0 .. NumAC - 1,
     i : {0, 1}, x : 0 .. NumAC - 1, y : Addr]

ASSUME LoopsAssumption ==
    /\ NumAC \in 1 .. HalfSize
    /\ InitCases \subseteq Instruction \X [Addr -> Word]

----------------------------------------------------------------------------
\* The address fields of a word, from the right: y, x and i.

reference(w) ==
    [i |-> (w \div (HalfSize * NumAC)) % 2, x |-> (w \div HalfSize) % NumAC, y |-> rhu(w)]

operands == [i |-> iw.i, x |-> iw.x, y |-> iw.y]
indexed(s, r) == r.y + (IF r.x # 0 THEN s[r.x] ELSE 0)

aobStepWithCarry(w) == Trunc(w + HalfSize + 1)

aobStepIndexOnly(w) == W36(lhu(w), rhu(w) + 1)

\* Half words at 2^17 and above are negative, and so are such words.
aobStep(w) == W36(lhu(w) + 1, rhu(w) + 1)
again(w) == IF iw.op = "AOBJN" THEN sign(w) ELSE ~sign(w)

----------------------------------------------------------------------------
Init ==
    /\ \E c \in InitCases : iw = c[1] /\ store = c[2]
    /\ start = store
    /\ ref = operands
    /\ ea = 0
    /\ phase = "ea"
    /\ running = TRUE

getEAKeepsIndex ==
    /\ phase = "ea"
    /\ LET y == indexed(store, ref)
       IN  IF ref.i # 0 THEN /\ ref' = [reference(store[y % HalfSize]) EXCEPT !.x = ref.x]
                             /\ UNCHANGED <<ea, phase>>
                        ELSE /\ ea' = Trunc(y)
                             /\ phase' = "run"
                             /\ UNCHANGED ref
    /\ UNCHANGED <<store, start, iw, running>>

\* One round of getEA. The sum is an address modulo 2^18 when it is used as one.
getEA ==
    /\ phase = "ea"
    /\ LET y == indexed(store, ref)
       IN  IF ref.i # 0 THEN /\ ref' = reference(store[y % HalfSize])
                             /\ UNCHANGED <<ea, phase>>
                        ELSE /\ ea' = Trunc(y)
                             /\ phase' = "run"
                             /\ UNCHANGED ref
    /\ UNCHANGED <<store, start, iw, running>>

BLTOneLess ==
    /\ phase = "run" /\ iw.op = "BLT"
    /\ LET a == aobStep(store[iw.ac])
       IN  /\ store' = [store EXCEPT ![rhu(store[iw.ac])] = store[lhu(store[iw.ac])],
                                     ![iw.ac] = a]
           /\ phase' = IF rhu(a) < rhu(ea) THEN "run" ELSE "finished"
    /\ UNCHANGED <<start, iw, ref, ea, running>>

\* One round of the do-while loop: the AC is put back after every word.
BLT ==
    /\ phase = "run" /\ iw.op = "BLT"
    /\ LET a == aobStep(store[iw.ac])
       IN  /\ store' = [store EXCEPT ![rhu(store[iw.ac])] = store[lhu(store[iw.ac])],
                                     ![iw.ac] = a]
           /\ phase' = IF rhu(a) <= rhu(ea) THEN "run" ELSE "finished"
    /\ UNCHANGED <<start, iw, ref, ea, running>>

AOBJ ==
    /\ phase = "run" /\ iw.op # "BLT"
    /\ LET a == aobStep(store[iw.ac])
       IN  /\ store' = [store EXCEPT ![iw.ac] = a]
           /\ phase' = IF again(a) THEN "jumped" ELSE "finished"
    /\ UNCHANGED <<start, iw, ref, ea, running>>

\* The next pass of the instruction loop: the debugger, if it was stopped.
Pass ==
    /\ IF running THEN phase = "jumped" /\ phase' = "ea" /\ ref' = operands
                  ELSE phase \in {"jumped", "finished"} /\ phase' = "debugger" /\ UNCHANGED ref
    /\ UNCHANGED <<store, start, iw, ea, running>>

\* The handler of SIGINT.
Stop ==
    /\ running
    /\ running' = FALSE
    /\ UNCHANGED <<store, start, iw, ref, ea, phase>>

Processor == getEA \/ BLT \/ AOBJ \/ Pass
Next == Processor \/ Stop

Spec == Init /\ [][Next]_vars /\ WF_vars(Processor)

----------------------------------------------------------------------------
\* The state is of its type: addresses and words stay in their widths.
LoopsTypeOK ==
    /\ store \in [Addr -> Word] /\ start \in [Addr -> Word]
    /\ iw \in Instruction
    /\ ref \in [i : {0, 1}, x : 0 .. NumAC - 1, y : Addr]
    /\ ea \in Word
    /\ phase \in {"ea", "run", "jumped", "finished", "debugger"}
    /\ running \in BOOLEAN

\* The reference definition of an effective address: the chain of references from
\* the instruction on. With Last + 1 words, a chain that is still indirect after
\* as many links comes back to one of them.
link(r) == IF r.i = 0 THEN r ELSE reference(store[indexed(store, r) % HalfSize])
chain[n \in 0 .. HalfSize] == IF n = 0 THEN operands ELSE link(chain[n - 1])
Chain == chain[HalfSize]

Endless == Chain.i # 0

\* getEA in km10.cpp: it returns the end of the chain, if it has one; otherwise it
\* never returns.
EAIsEndOfChain ==
    [][(phase = "ea" /\ phase' # "ea") =>
        ~Endless /\ rhu(ea') = indexed(store, Chain) % HalfSize]_vars

\* A transfer up to the last address never ends: every address is at most that.
TransfersForEver == iw.op = "BLT" /\ rhu(ea) = Last

\* i-intbin.cpp, i-jump.cpp: every transfer and every counted loop ends, or is
\* stopped, with the same two exceptions.
LoopsEnd ==
    <>(\/ phase \in {"finished", "debugger"}
       \/ phase = "ea" /\ Endless
       \/ phase = "run" /\ TransfersForEver)

\* BLT in i-intbin.cpp, when neither the AC nor the end of memory is in its way: word
\* k of the destination is word k of the source, or, where the source
\* runs into the destination, repeats the words between the two. Nothing
\* else changes.
BLTCopies ==
    LET src == lhu(start[iw.ac])
        dst == rhu(start[iw.ac])
        n == rhu(ea) - dst + 1
        touched == src .. src + n - 1 \union dst .. dst + n - 1
        overlaps == src < dst /\ dst < src + n
        from(k) == IF overlaps THEN src + (k % (dst - src)) ELSE src + k
    IN  (iw.op = "BLT" /\ phase = "finished" /\ n >= 1 /\ touched \subseteq Addr \ {iw.ac}) =>
            /\ \A k \in 0 .. n - 1 : store[dst + k] = start[from(k)]
            /\ \A a \in Addr \ (dst .. dst + n - 1 \union {iw.ac}) : store[a] = start[a]
            /\ store[iw.ac] = W36(src + n, dst + n)

\* AOBJN in i-jump.cpp: a loop that starts with the count -n in the left half is
\* executed n times, and leaves the index n further.
AOBJNCounts ==
    LET a == start[iw.ac]
    IN  (iw.op = "AOBJN" /\ phase = "finished" /\ sign(a)) =>
            store[iw.ac] = W36(0, rhu(a) + HalfSize - lhu(a))
============================================================================
