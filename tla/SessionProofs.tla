---------------------------- MODULE SessionProofs ----------------------------
(***************************************************************************)
(* Proofs about modules PcRing and Session, for a history of any length,   *)
(* any program, any command lines and any breakpoints.                     *)
(***************************************************************************)
EXTENDS Session, SequenceTheorems, TLAPS

N == pcHistorySize

\* The only remainders the ring buffer takes are those of numbers below 2N.
LEMMA SmallRemainder ==
  ASSUME NEW x \in 0 .. 2 * N - 1
  PROVE  x % N = IF x < N THEN x ELSE x - N
<1>1. N \in Nat /\ N > 0 /\ x \in Int
  BY HistoryAssumption DEF N
<1>2. CASE x < N
  BY <1>1, <1>2
<1>3. CASE x >= N
  BY <1>1, <1>3
<1> QED
  BY <1>1, <1>2, <1>3

\* What the buffer holds, oldest first: element i of the log.
Held(i) == IF full THEN IF head + i - 1 < N THEN buffer[head + i - 1] ELSE buffer[head + i - 1 - N]
                   ELSE buffer[i - 1]

LogOfHeld ==
    /\ Count \in 0 .. N
    /\ mostRecent(N) = [i \in 1 .. Count |-> Held(i)]
    /\ mostRecent(N) \in Seq(Word)
    /\ Len(mostRecent(N)) = Count

\* The log is a sequence of PCs, as long as the buffer is filled.
LEMMA LogIsHeld == RingTypeOK => LogOfHeld
<1> SUFFICES ASSUME RingTypeOK PROVE LogOfHeld
  OBVIOUS
<1>1. N \in Nat /\ N > 0 /\ head \in 0 .. N - 1 /\ full \in BOOLEAN
  BY HistoryAssumption DEF N, RingTypeOK, Slot
<1>2. Count \in 0 .. N
  BY <1>1 DEF Count, N
<1>3. Min2(N, Count) = Count
  BY <1>1, <1>2 DEF Min2
<1>4. ASSUME NEW i \in 1 .. Count
      PROVE  /\ buffer[((IF Count >= N THEN (head + N - Count) % N ELSE 0) + i - 1) % N] = Held(i)
             /\ Held(i) \in Word
  <2>1. CASE full
    <3>1. Count = N /\ (head + N - Count) % N = head
      BY <1>1, <2>1, SmallRemainder DEF Count, N
    <3>2. (head + i - 1) % N = IF head + i - 1 < N THEN head + i - 1 ELSE head + i - 1 - N
      BY <1>1, <3>1, SmallRemainder
    <3>3. (head + i - 1) % N \in Slot
      BY <1>1, <3>1, <3>2 DEF Slot, N
    <3> QED
      BY <1>1, <2>1, <3>1, <3>2, <3>3 DEF Held, RingTypeOK
  <2>2. CASE ~full
    <3>1. Count = head /\ Count < N
      BY <1>1, <2>2 DEF Count
    <3>2. (0 + i - 1) % N = i - 1 /\ i - 1 \in Slot
      BY <1>1, <3>1, SmallRemainder DEF Slot, N
    <3> QED
      BY <1>1, <2>2, <3>1, <3>2 DEF Held, RingTypeOK
  <2> QED
    BY <1>1, <2>1, <2>2
<1>5. mostRecent(N) = [i \in 1 .. Count |-> Held(i)]
  BY <1>2, <1>3, <1>4 DEF mostRecent, N
<1>6. mostRecent(N) \in [1 .. Count -> Word]
  BY <1>4, <1>5
<1> QED
  BY <1>2, <1>5, <1>6, LenProperties DEF LogOfHeld

\* The end of a sequence, element by element.
LEMMA LastOfProperties ==
  ASSUME NEW S, NEW s \in Seq(S), NEW n \in Nat
  PROVE  /\ LastOf(s, n) \in Seq(S)
         /\ Len(LastOf(s, n)) = IF Len(s) <= n THEN Len(s) ELSE n
         /\ \A i \in 1 .. Len(LastOf(s, n)) :
                LastOf(s, n)[i] = s[Len(s) - Len(LastOf(s, n)) + i]
<1>1. Len(s) \in Nat
  BY LenProperties
<1>2. CASE Len(s) <= n
  BY <1>1, <1>2 DEF LastOf
<1>3. CASE Len(s) > n
  <2>1. Len(s) - n + 1 \in 1 .. Len(s) + 1 /\ Len(s) \in Len(s) - n + 1 - 1 .. Len(s)
    BY <1>1, <1>3
  <2>2. LastOf(s, n) = SubSeq(s, Len(s) - n + 1, Len(s))
    BY <1>1, <1>3 DEF LastOf
  <2> QED
    BY <1>1, <1>3, <2>1, <2>2, SubSeqProperties
<1> QED
  BY <1>1, <1>2, <1>3

\* The last element of a sequence.
LEMMA LastOfOne ==
  ASSUME NEW S, NEW s \in Seq(S), Len(s) >= 1
  PROVE  LastOf(s, 1) = <<s[Len(s)]>>
<1>1. Len(s) \in Nat /\ 1 \in Nat
  BY LenProperties
<1>2. /\ LastOf(s, 1) \in Seq(S)
      /\ Len(LastOf(s, 1)) = IF Len(s) <= 1 THEN Len(s) ELSE 1
      /\ \A i \in 1 .. Len(LastOf(s, 1)) :
             LastOf(s, 1)[i] = s[Len(s) - Len(LastOf(s, 1)) + i]
  BY <1>1, LastOfProperties
<1> DEFINE k == Len(LastOf(s, 1))
           l == Len(s)
<1>3. k = 1
  <2>1. k = (IF l <= 1 THEN l ELSE 1) /\ l \in Nat /\ l >= 1
    BY <1>1, <1>2
  <2> HIDE DEF k, l
  <2> QED
    BY <2>1
<1>4. Len(s) - 1 + 1 = Len(s)
  BY <1>1
<1>5. LastOf(s, 1)[1] = s[Len(s)]
  <2>1. 1 \in 1 .. k
    <3> HIDE DEF k
    <3> QED
      BY <1>3
  <2>2. LastOf(s, 1)[1] = s[Len(s) - Len(LastOf(s, 1)) + 1]
    BY <1>2, <2>1
  <2> QED
    BY <1>3, <1>4, <2>2
<1>6. s[Len(s)] \in S
  BY <1>1, ElementOfSeq
<1>7. /\ <<s[Len(s)]>> \in Seq(S) /\ Len(<<s[Len(s)]>>) = 1
      /\ <<s[Len(s)]>>[1] = s[Len(s)]
  BY <1>6
<1> QED
  BY <1>2, <1>3, <1>5, <1>7, SeqEqual

\* An addition keeps the type of the ring and adds to the log it shows.
LEMMA AddLogs ==
  ASSUME RingTypeOK, NEW e \in Word, add(e)
  PROVE  RingTypeOK' /\ mostRecent(N)' = LastOf(Append(mostRecent(N), e), N)
<1>1. N \in Nat /\ N > 0 /\ head \in 0 .. N - 1 /\ full \in BOOLEAN
  BY HistoryAssumption DEF N, RingTypeOK, Slot
<1>2. /\ buffer' = [buffer EXCEPT ![head] = e]
      /\ head' = IF head + 1 = N THEN 0 ELSE head + 1
      /\ full' = (full \/ head' = 0)
  BY <1>1, SmallRemainder DEF add, N
<1>3. RingTypeOK'
  BY <1>1, <1>2 DEF RingTypeOK, Slot, N
<1>4. LogOfHeld /\ LogOfHeld'
  <2>1. LogOfHeld'
    BY <1>3, LogIsHeld, PTL
  <2> QED
    BY <2>1, LogIsHeld
<1>5. Count \in 0 .. N /\ Count' \in 0 .. N
  BY <1>4 DEF LogOfHeld
<1> DEFINE s == Append(mostRecent(N), e)
<1>6. /\ s \in Seq(Word) /\ Len(s) = Count + 1 /\ s[Count + 1] = e
      /\ \A i \in 1 .. Count : s[i] = Held(i)
  BY <1>4, AppendProperties DEF LogOfHeld
<1> HIDE DEF s
<1>7. /\ LastOf(s, N) \in Seq(Word)
      /\ Len(LastOf(s, N)) = IF Count + 1 <= N THEN Count + 1 ELSE N
      /\ \A i \in 1 .. Len(LastOf(s, N)) :
             LastOf(s, N)[i] = s[((Count + 1) - Len(LastOf(s, N))) + i]
  <2>1. /\ LastOf(s, N) \in Seq(Word)
        /\ Len(LastOf(s, N)) = IF Len(s) <= N THEN Len(s) ELSE N
        /\ \A i \in 1 .. Len(LastOf(s, N)) :
               LastOf(s, N)[i] = s[Len(s) - Len(LastOf(s, N)) + i]
    BY <1>1, <1>6, LastOfProperties
  <2>2. Len(s) = Count + 1
    BY <1>6
  <2>3. Len(LastOf(s, N)) = IF Count + 1 <= N THEN Count + 1 ELSE N
    BY <2>1, <2>2
  <2>4. ASSUME NEW i \in 1 .. Len(LastOf(s, N))
        PROVE  LastOf(s, N)[i] = s[((Count + 1) - Len(LastOf(s, N))) + i]
    BY <2>1, <2>2
  <2> QED
    BY <2>1, <2>3, <2>4
<1>8. Count' = IF Count + 1 <= N THEN Count + 1 ELSE N
  <2>1. Count = (IF full THEN N ELSE head) /\ Count' = (IF full' THEN N ELSE head')
    BY DEF Count, N
  <2>2. CASE full
    <3>1. full'
      BY <1>2, <2>2
    <3>2. Count = N /\ Count' = N
      BY <2>1, <2>2, <3>1
    <3> QED
      BY <1>1, <3>2
  <2>3. CASE ~full /\ head + 1 = N
    <3>1. head' = 0 /\ full'
      BY <1>2, <2>3
    <3>2. Count = head /\ Count' = N
      BY <2>1, <2>3, <3>1
    <3> QED
      BY <1>1, <2>3, <3>2
  <2>4. CASE ~full /\ head + 1 # N
    <3>1. head' = head + 1 /\ head' # 0
      BY <1>1, <1>2, <2>4
    <3>2. ~full'
      BY <1>2, <2>4, <3>1
    <3>3. Count = head /\ Count' = head + 1
      BY <2>1, <2>4, <3>1, <3>2
    <3> QED
      BY <1>1, <2>4, <3>3
  <2> QED
    BY <2>2, <2>3, <2>4
<1>9. ASSUME NEW i \in 1 .. Count'
      PROVE  mostRecent(N)'[i] = LastOf(s, N)[i]
  <2>1. mostRecent(N)'[i] = Held(i)'
    BY <1>4 DEF LogOfHeld
  <2>2. CASE full
    <3>1. Count = N /\ Count' = N /\ full'
      BY <1>1, <1>2, <1>8, <2>2 DEF Count, N
    <3>2. LastOf(s, N)[i] = IF i < N THEN Held(i + 1) ELSE e
      <4>1. i \in 1 .. N /\ LastOf(s, N)[i] = s[i + 1]
        BY <1>1, <1>7, <3>1
      <4>2. CASE i < N
        BY <1>1, <1>6, <3>1, <4>1, <4>2
      <4>3. CASE i = N
        BY <1>1, <1>6, <3>1, <4>1, <4>3
      <4> QED
        BY <1>1, <4>1, <4>2, <4>3
    <3>3. Held(i)' = IF i < N THEN Held(i + 1) ELSE e
      BY <1>1, <1>2, <2>2, <3>1 DEF Held, RingTypeOK, Slot, N
    <3> QED
      BY <2>1, <3>2, <3>3
  <2>3. CASE ~full
    <3>1. Count = head /\ Count' = head + 1 /\ Count + 1 <= N
      BY <1>1, <1>8, <2>3 DEF Count
    <3>2. LastOf(s, N)[i] = IF i <= head THEN Held(i) ELSE e
      BY <1>1, <1>6, <1>7, <1>8, <3>1
    <3>3. Held(i)' = IF i <= head THEN Held(i) ELSE e
      BY <1>1, <1>2, <2>3, <3>1 DEF Held, RingTypeOK, Slot, N
    <3> QED
      BY <2>1, <3>2, <3>3
  <2> QED
    BY <1>1, <2>2, <2>3
<1>10. mostRecent(N)' = LastOf(s, N)
  BY <1>4, <1>5, <1>7, <1>8, <1>9, SeqEqual DEF LogOfHeld
<1> QED
  BY <1>3, <1>10 DEF s

-----------------------------------------------------------------------------
\* The inductive invariant of a session: its types; the machine is stopped from the
\* moment the user is owed a prompt, and while it prompts; and the newest entry of
\* the history is the instruction that waits to be executed.
Newest == IF head = 0 THEN pcHistorySize - 1 ELSE head - 1

SessionInv ==
    /\ SessionTypeOK
    /\ due => ~running
    /\ phase \in {"prompt", "ended"} => ~running
    /\ phase \in {"prompt", "execute"} => (full \/ head > 0) /\ buffer[Newest] = fetchPC

\* A machine begins stopped, with an empty history.
LEMMA InitSession == Init => SessionInv
<1> SUFFICES ASSUME Init PROVE SessionInv
  OBVIOUS
<1>1. 0 \in Slot
  BY HistoryAssumption DEF Slot
<1>2. bps \in [Kinds -> SUBSET Int]
  BY SessionAssumption DEF Init
<1>3. RingTypeOK
  BY <1>1 DEF Init, RingInit, RingTypeOK
<1>4. SessionTypeOK
  <2>1. running \in BOOLEAN /\ due \in BOOLEAN
    BY DEF Init
  <2>4. nSteps \in Int
    BY DEF Init
  <2>2. prevLine \in Lines \union {Help} /\ phase \in {"pass", "prompt", "execute", "ended"}
    BY DEF Init
  <2>3. fetchPC \in Addr
    BY DEF Init
  <2> QED
    BY <1>2, <1>3, <2>1, <2>2, <2>3, <2>4 DEF SessionTypeOK
<1> QED
  BY <1>4 DEF Init, SessionInv

\* The pass that fetches: what it adds to the history is what is executed next.
LEMMA FetchPassKeeps == ASSUME SessionInv, FetchPass PROVE SessionInv'
<1>1. RingTypeOK /\ fetchPC \in Word /\ add(fetchPC)
  BY DEF SessionInv, SessionTypeOK, FetchPass, Addr
<1>2. RingTypeOK'
  BY <1>1, AddLogs
<1>3. buffer'[Newest'] = fetchPC /\ (full' \/ head' > 0)
  <2>1. N \in Nat /\ N > 0 /\ head \in 0 .. N - 1
    BY <1>1, HistoryAssumption DEF N, RingTypeOK, Slot
  <2>2. head' = IF head + 1 = N THEN 0 ELSE head + 1
    BY <1>1, <2>1, SmallRemainder DEF add, N
  <2>3. Newest' = head
    BY <2>1, <2>2 DEF Newest, N
  <2>4. buffer'[head] = fetchPC
    BY <1>1 DEF add, RingTypeOK
  <2>5. full' \/ head' > 0
    <3>1. CASE head + 1 = N
      BY <1>1, <2>2, <3>1 DEF add
    <3>2. CASE head + 1 # N
      BY <2>1, <2>2, <3>2
    <3> QED
      BY <3>1, <3>2
  <2> QED
    BY <2>3, <2>4, <2>5
<1>4. /\ UNCHANGED <<fetchPC, nSteps, bps, prevLine>>
      /\ running' = (running /\ ~Breaks) /\ due' = (due \/ Breaks)
      /\ phase' = IF running' THEN "execute" ELSE "prompt"
  BY DEF FetchPass
<1>5. SessionTypeOK'
  <2>1. running' \in BOOLEAN /\ due' \in BOOLEAN
    BY <1>4
  <2>2. phase' \in {"execute", "prompt"}
    BY <1>4
  <2> QED
    BY <1>2, <1>4, <2>1, <2>2 DEF SessionInv, SessionTypeOK
<1>6. due' => ~running'
  BY <1>4 DEF SessionInv
<1>7. phase' \in {"prompt", "ended"} => ~running'
  BY <1>4
<1> QED
  BY <1>3, <1>4, <1>5, <1>6, <1>7 DEF SessionInv

\* The pass that executes: a breakpoint on memory stops the machine.
LEMMA ExecutePassKeeps == ASSUME SessionInv, ExecutePass PROVE SessionInv'
<1>1. /\ UNCHANGED <<bps, prevLine, buffer, head, full>> /\ fetchPC' \in Addr /\ phase' = "pass"
      /\ running' = (running /\ ~lastStep /\ ~Touches) /\ due' = (due \/ Touches)
      /\ nSteps' = IF nSteps > 0 THEN nSteps - 1 ELSE nSteps
  BY DEF ExecutePass, ringVars
<1>2. RingTypeOK'
  BY <1>1 DEF SessionInv, SessionTypeOK, RingTypeOK
<1>3. running' \in BOOLEAN /\ due' \in BOOLEAN
  BY <1>1
<1>4. nSteps' \in Int
  BY <1>1 DEF SessionInv, SessionTypeOK
<1>5. SessionTypeOK'
  BY <1>1, <1>2, <1>3, <1>4 DEF SessionInv, SessionTypeOK
<1>6. due' => ~running'
  BY <1>1 DEF SessionInv
<1> QED
  BY <1>1, <1>5, <1>6 DEF SessionInv

\* The line at the beginning is like those that may be typed.
LEMMA LineTyped ==
  ASSUME NEW l \in Lines \union {Help}
  PROVE  l.cmd \in Commands /\ l.n \in Int /\ (l.cmd = "pc" => l.n \in Addr)
<1>1. CASE l \in Lines
  BY <1>1, SessionAssumption
<1>2. CASE l = Help
  <2>1. l.cmd = "show" /\ l.n = 0
    BY <1>2 DEF Help
  <2> QED
    BY <2>1 DEF Commands
<1> QED
  BY <1>1, <1>2

\* No command touches the history, and only step and continue start the machine.
LEMMA ObeyKeeps ==
  ASSUME SessionInv, phase = "prompt", NEW l \in Lines \union {Help}, Obey(l),
         prevLine' = l, UNCHANGED ringVars
  PROVE  SessionInv'
<1>1. /\ l.cmd \in Commands /\ l.n \in Int /\ (l.cmd = "pc" => l.n \in Addr)
      /\ UNCHANGED <<buffer, head, full>> /\ ~running /\ RingTypeOK'
      /\ full \/ head > 0
      /\ buffer[Newest] = fetchPC
  BY LineTyped DEF SessionInv, SessionTypeOK, RingTypeOK, ringVars
<1>2. CASE l.cmd = "step" /\ Resume(l.n)
  BY <1>1, <1>2 DEF Resume, SessionInv, SessionTypeOK, Newest
<1>3. CASE l.cmd = "continue" /\ Resume(0)
  <2>1. running' = TRUE /\ due' = FALSE /\ phase' = "execute"
    BY <1>3 DEF Resume
  <2>3. nSteps' \in Int
    BY <1>3 DEF Resume
  <2>2. UNCHANGED <<fetchPC, bps>>
    BY <1>3 DEF Resume
  <2> QED
    BY <1>1, <2>1, <2>2, <2>3 DEF SessionInv, SessionTypeOK, Newest
<1>4. CASE l.cmd \in {"set", "remove", "clear"} /\ handleBPCommand(l)
  <2>1. PICK s \in SUBSET Int : l.kind \in Kinds => bps' = [bps EXCEPT ![l.kind] = s]
    <3>1. CASE l.kind \in Kinds
      <4>1. bps[l.kind] \in SUBSET Int /\ -l.n \in Int
        BY <1>1, <3>1 DEF SessionInv, SessionTypeOK
      <4>2. /\ l.cmd = "set" => bps' = [bps EXCEPT ![l.kind] = bps[l.kind] \union {l.n}]
            /\ l.cmd = "remove" => bps' = [bps EXCEPT ![l.kind] = bps[l.kind] \union {-l.n}]
            /\ l.cmd = "clear" => bps' = [bps EXCEPT ![l.kind] = {}]
        BY <1>4 DEF handleBPCommand
      <4> QED
        BY <1>1, <1>4, <4>1, <4>2
    <3> QED
      BY <3>1
  <2>2. bps' \in [Kinds -> SUBSET Int]
    BY <1>4, <2>1 DEF handleBPCommand, SessionInv, SessionTypeOK
  <2> QED
    BY <1>1, <1>4, <2>2 DEF handleBPCommand, SessionInv, SessionTypeOK, Newest
<1>5. CASE l.cmd = "pc" /\ SetPC(l.n)
  BY <1>1, <1>5 DEF SetPC, SessionInv, SessionTypeOK
<1>6. CASE l.cmd = "show" /\ Show
  BY <1>1, <1>6 DEF Show, SessionInv, SessionTypeOK, Newest
<1>7. CASE l.cmd = "quit" /\ Quit
  BY <1>1, <1>7 DEF Quit, SessionInv, SessionTypeOK
<1> QED
  BY <1>2, <1>3, <1>4, <1>5, <1>6, <1>7 DEF Obey

\* Whatever is typed, and the empty line too.
LEMMA PromptKeeps == ASSUME SessionInv, Prompt PROVE SessionInv'
<1>1. phase = "prompt" /\ UNCHANGED ringVars
  BY DEF Prompt
<1>2. PICK l \in Lines \union {Help} : Obey(l) /\ prevLine' = l
  BY DEF Prompt, SessionInv, SessionTypeOK
<1> QED
  BY <1>1, <1>2, ObeyKeeps

\* The interrupt key only stops.
LEMMA StopKeeps == ASSUME SessionInv, Stop PROVE SessionInv'
  BY DEF Stop, SessionInv, SessionTypeOK, RingTypeOK, ringVars, Newest

\* SessionInv holds in every state of a session, whatever is typed.
THEOREM SessionInvariant == Spec => []SessionInv
<1>1. SessionInv /\ [Next]_vars => SessionInv'
  <2>1. SessionInv /\ UNCHANGED vars => SessionInv'
    BY DEF vars, machine, ringVars, SessionInv, SessionTypeOK, RingTypeOK, Newest
  <2> QED
    BY <2>1, FetchPassKeeps, ExecutePassKeeps, StopKeeps, PromptKeeps DEF Next
<1> QED
  BY <1>1, InitSession, PTL DEF Spec

\* The state of a session is of its type.
THEOREM SessionTypes == Spec => []SessionTypeOK
<1>1. SessionInv => SessionTypeOK
  BY DEF SessionInv
<1> QED
  BY <1>1, SessionInvariant, PTL

\* debugger.cpp:439-447: no break is executed past. Once the user is owed a prompt, no fetch
\* leads to an execution.
THEOREM NoBreakIsMissed == Spec => BreaksArePrompted
<1>1. SessionInv /\ [Next]_vars => [(phase = "pass" /\ phase' = "execute") => ~due']_vars
  <2> SUFFICES ASSUME SessionInv, Next, phase = "pass", phase' = "execute" PROVE ~due'
    BY DEF vars
  <2>1. FetchPass
    <3>1. ~ExecutePass /\ ~Stop /\ ~Prompt
      BY DEF ExecutePass, Stop, Prompt
    <3> QED
      BY <3>1 DEF Next
  <2>2. running' /\ running /\ ~Breaks
    BY <2>1 DEF FetchPass
  <2> QED
    BY <2>1, <2>2 DEF FetchPass, SessionInv
<1> QED
  BY <1>1, SessionInvariant, PTL DEF Spec, BreaksArePrompted

\* A count that does not exceed a full buffer gives the end of the log.
LEMMA CountGivesEnd ==
  ASSUME RingTypeOK, NEW n \in Nat \ {0}, ~ExceedsHistory(n)
  PROVE  mostRecent(n) = LastOf(mostRecent(N), n)
<1>1. /\ N \in Nat /\ N > 0 /\ head \in 0 .. N - 1 /\ full \in BOOLEAN
      /\ full => n \in 1 .. N
  BY HistoryAssumption DEF N, RingTypeOK, Slot, ExceedsHistory
<1>2. LogOfHeld
  BY LogIsHeld
<1>3. Count \in 0 .. N /\ Count = IF full THEN N ELSE head
  BY <1>1 DEF Count, N
<1> DEFINE m == Min2(n, Count)
           start == IF Count >= n THEN (head + N - m) % N ELSE 0
<1>4. m \in 0 .. N /\ m = (IF n < Count THEN n ELSE Count)
  BY <1>3 DEF Min2
<1>5. /\ LastOf(mostRecent(N), n) \in Seq(Word)
      /\ Len(LastOf(mostRecent(N), n)) = m
      /\ \A i \in 1 .. m : LastOf(mostRecent(N), n)[i] = Held((Count - m) + i)
  <2>1. mostRecent(N) \in Seq(Word) /\ Len(mostRecent(N)) = Count
    BY <1>2 DEF LogOfHeld
  <2>2. /\ LastOf(mostRecent(N), n) \in Seq(Word)
        /\ Len(LastOf(mostRecent(N), n)) = IF Count <= n THEN Count ELSE n
        /\ \A i \in 1 .. Len(LastOf(mostRecent(N), n)) :
               LastOf(mostRecent(N), n)[i]
                 = mostRecent(N)[(Count - Len(LastOf(mostRecent(N), n))) + i]
    <3>1. n \in Nat
      BY <1>1
    <3> HIDE DEF m, start
    <3> QED
      BY <2>1, <3>1, LastOfProperties
  <2>3. Len(LastOf(mostRecent(N), n)) = m
    BY <1>3, <1>4, <2>2
  <2>4. ASSUME NEW i \in 1 .. m
        PROVE  LastOf(mostRecent(N), n)[i] = Held((Count - m) + i)
    <3>1. (Count - m) + i \in 1 .. Count
      BY <1>3, <1>4
    <3> HIDE DEF m
    <3>2. LastOf(mostRecent(N), n)[i] = mostRecent(N)[(Count - m) + i]
      BY <2>2, <2>3
    <3> QED
      BY <1>2, <3>1, <3>2 DEF LogOfHeld
  <2> QED
    BY <2>2, <2>3, <2>4
<1> HIDE DEF m
<1>6. ASSUME NEW i \in 1 .. m
      PROVE  buffer[((start + i) - 1) % N] = Held((Count - m) + i)
  <2>1. CASE full
    <3>1. m = n /\ Count = N /\ n \in 1 .. N
      BY <1>1, <1>3, <1>4, <2>1
    <3>2. start = IF head < n THEN (head + N) - n ELSE head - n
      <4>1. head + N - n \in 0 .. 2 * N - 1 /\ head + N - n = (head + N) - n
        BY <1>1, <3>1
      <4> QED
        BY <1>1, <3>1, <4>1, SmallRemainder
    <3> HIDE DEF start
    <3>3. ((start + i) - 1) \in 0 .. 2 * N - 1
      BY <1>1, <3>1, <3>2
    <3>4. ((start + i) - 1) % N = IF (start + i) - 1 < N THEN (start + i) - 1 ELSE ((start + i) - 1) - N
      BY <3>3, SmallRemainder
    <3> QED
      BY <1>1, <2>1, <3>1, <3>2, <3>4 DEF Held
  <2>2. CASE ~full
    <3>1. Count = head /\ Count < N
      BY <1>1, <1>3, <2>2
    <3>2. start = Count - m
      <4>1. CASE Count >= n
        <5>1. m = n /\ n \in 1 .. N /\ head + N - m \in 0 .. 2 * N - 1 /\ head + N - m = (head + N) - m
          BY <1>1, <1>4, <3>1, <4>1
        <5> QED
          BY <1>1, <3>1, <4>1, <5>1, SmallRemainder
      <4>2. CASE Count < n
        BY <1>3, <1>4, <4>2
      <4> QED
        BY <1>3, <4>1, <4>2
    <3> HIDE DEF start
    <3>3. ((start + i) - 1) \in 0 .. 2 * N - 1 /\ (start + i) - 1 < N
      BY <1>1, <1>4, <3>1, <3>2
    <3>4. ((start + i) - 1) % N = (start + i) - 1
      BY <3>3, SmallRemainder
    <3> QED
      BY <1>1, <2>2, <3>2, <3>4 DEF Held
  <2> QED
    BY <1>1, <2>1, <2>2
<1>7. mostRecent(n) = [i \in 1 .. m |-> buffer[((start + i) - 1) % N]]
  <2>1. mostRecent(n) = [i \in 1 .. m |-> buffer[(start + i - 1) % N]]
    BY DEF mostRecent, N, m
  <2>2. start \in Int
    BY <1>1, <1>4
  <2> HIDE DEF start
  <2>3. \A i \in 1 .. m : start + i - 1 = (start + i) - 1
    BY <1>4, <2>2
  <2> QED
    BY <2>1, <2>3
<1>8. mostRecent(n) = [i \in 1 .. m |-> LastOf(mostRecent(N), n)[i]]
  BY <1>5, <1>6, <1>7
<1>9. LastOf(mostRecent(N), n) = [i \in 1 .. m |-> LastOf(mostRecent(N), n)[i]]
  BY <1>5, LenProperties
<1> QED
  BY <1>8, <1>9

\* At the prompt, and until the instruction is executed, the log ends with it.
LEMMA LogEndsWithNext ==
  ASSUME SessionInv, phase \in {"prompt", "execute"}, NEW n \in Nat \ {0}, ~ExceedsHistory(n)
  PROVE  LastOf(mostRecent(n), 1) = <<fetchPC>>
<1>1. /\ N \in Nat /\ N > 0 /\ head \in 0 .. N - 1 /\ full \in BOOLEAN
      /\ RingTypeOK /\ (full \/ head > 0) /\ buffer[Newest] = fetchPC
  BY HistoryAssumption DEF N, SessionInv, SessionTypeOK, RingTypeOK, Slot
<1>2. LogOfHeld /\ mostRecent(n) = LastOf(mostRecent(N), n)
  BY <1>1, LogIsHeld, CountGivesEnd
<1>3. Count \in 1 .. N /\ Held(Count) = fetchPC
  BY <1>1 DEF Count, N, Held, Newest
<1>4. /\ mostRecent(n) \in Seq(Word) /\ Len(mostRecent(n)) \in 1 .. N
      /\ mostRecent(n)[Len(mostRecent(n))] = fetchPC
  <2>1. /\ mostRecent(N) \in Seq(Word) /\ Len(mostRecent(N)) = Count
        /\ mostRecent(N)[Count] = fetchPC
    BY <1>2, <1>3 DEF LogOfHeld
  <2>2. /\ mostRecent(n) \in Seq(Word)
        /\ Len(mostRecent(n)) = IF Count <= n THEN Count ELSE n
        /\ \A i \in 1 .. Len(mostRecent(n)) :
               mostRecent(n)[i] = mostRecent(N)[(Count - Len(mostRecent(n))) + i]
    <3> DEFINE s == mostRecent(N)
    <3> HIDE DEF s
    <3>1. s \in Seq(Word) /\ n \in Nat
      BY <2>1 DEF s
    <3>2. /\ LastOf(s, n) \in Seq(Word)
          /\ Len(LastOf(s, n)) = IF Len(s) <= n THEN Len(s) ELSE n
          /\ \A i \in 1 .. Len(LastOf(s, n)) :
                 LastOf(s, n)[i] = s[Len(s) - Len(LastOf(s, n)) + i]
      BY <3>1, LastOfProperties
    <3> QED
      BY <1>2, <2>1, <3>2 DEF s
  <2>3. Len(mostRecent(n)) \in 1 .. N
    BY <1>1, <1>3, <2>2
  <2>4. Len(mostRecent(n)) \in 1 .. Len(mostRecent(n))
    BY <2>3
  <2>5. (Count - Len(mostRecent(n))) + Len(mostRecent(n)) = Count
    BY <1>3, <2>3
  <2>6. mostRecent(n)[Len(mostRecent(n))]
          = mostRecent(N)[(Count - Len(mostRecent(n))) + Len(mostRecent(n))]
    BY <2>2, <2>4
  <2> QED
    BY <2>1, <2>2, <2>3, <2>5, <2>6
<1> QED
  BY <1>4, LastOfOne

\* A count that exceeds a full buffer gives the slots in their order: the elements
\* added since slot 0 was last written, and then the older ones.
LEMMA CountExceeds ==
  ASSUME RingTypeOK, NEW n \in Nat, ExceedsHistory(n)
  PROVE  InTwoRuns(mostRecent(n), mostRecent(N))
<1>1. N \in Nat /\ N > 0 /\ head \in 0 .. N - 1 /\ full /\ n > N
  BY HistoryAssumption DEF N, RingTypeOK, Slot, ExceedsHistory
<1>2. Count = N /\ Min2(n, Count) = N /\ ~(Count >= n)
  BY <1>1 DEF Count, N, Min2
<1>3. mostRecent(n) = [i \in 1 .. N |-> buffer[i - 1]]
  <2>1. ASSUME NEW i \in 1 .. N PROVE (0 + i - 1) % N = i - 1
    <3>1. 0 + i - 1 \in 0 .. 2 * N - 1 /\ 0 + i - 1 = i - 1 /\ i - 1 < N
      BY <1>1
    <3> QED
      BY <3>1, SmallRemainder
  <2> QED
    BY <1>2, <2>1 DEF mostRecent, N
<1>4. mostRecent(n) \in Seq(Word) /\ Len(mostRecent(n)) = N
  <2>1. \A i \in 1 .. N : buffer[i - 1] \in Word
    BY <1>1 DEF RingTypeOK, Slot, N
  <2>2. mostRecent(n) \in [1 .. N -> Word]
    BY <1>3, <2>1
  <2> QED
    BY <1>1, <1>3, <2>2, LenProperties
<1> DEFINE log == mostRecent(N)
           k == N - head
           new == SubSeq(log, k + 1, N)
           old == SubSeq(log, 1, k)
<1>5. /\ log \in Seq(Word) /\ Len(log) = N
      /\ \A i \in 1 .. N : log[i] = Held(i) /\ log[i] \in Word
  <2>1. LogOfHeld
    BY LogIsHeld
  <2>2. log \in Seq(Word) /\ Len(log) = N /\ log = [i \in 1 .. N |-> Held(i)]
    BY <1>2, <2>1 DEF LogOfHeld
  <2> QED
    BY <2>2, ElementOfSeq
<1>6. k \in 1 .. N /\ k = N - head
  BY <1>1
<1> HIDE DEF log, k
<1>7. /\ new \in Seq(Word) /\ Len(new) = head
      /\ \A i \in 1 .. head : new[i] = Held(k + i)
  <2>1. \A i \in k + 1 .. N : log[i] \in Word
    BY <1>1, <1>5, <1>6
  <2>2. /\ new \in Seq(Word) /\ Len(new) = IF k + 1 <= N THEN N - (k + 1) + 1 ELSE 0
        /\ \A i \in 1 .. N - (k + 1) + 1 : new[i] = log[k + 1 + i - 1]
    BY <1>1, <1>6, <2>1, SubSeqProperties
  <2>3. Len(new) = head
    BY <1>1, <1>6, <2>2
  <2>4. ASSUME NEW i \in 1 .. head PROVE new[i] = Held(k + i)
    <3>1. i \in 1 .. N - (k + 1) + 1 /\ k + 1 + i - 1 = k + i /\ k + i \in 1 .. N
      BY <1>1, <1>6
    <3> HIDE DEF new
    <3> QED
      BY <1>5, <2>2, <3>1
  <2> HIDE DEF new
  <2> QED
    BY <2>2, <2>3, <2>4
<1>8. /\ old \in Seq(Word) /\ Len(old) = k
      /\ \A i \in 1 .. k : old[i] = Held(i)
  <2>1. \A i \in 1 .. k : log[i] \in Word
    BY <1>1, <1>5, <1>6
  <2>2. /\ old \in Seq(Word) /\ Len(old) = IF 1 <= k THEN k - 1 + 1 ELSE 0
        /\ \A i \in 1 .. k - 1 + 1 : old[i] = log[1 + i - 1]
    BY <1>1, <1>6, <2>1, SubSeqProperties
  <2>3. Len(old) = k
    BY <1>6, <2>2
  <2>4. ASSUME NEW i \in 1 .. k PROVE old[i] = Held(i)
    <3>1. i \in 1 .. k - 1 + 1 /\ 1 + i - 1 = i /\ i \in 1 .. N
      BY <1>1, <1>6
    <3> HIDE DEF old
    <3> QED
      BY <1>5, <2>2, <3>1
  <2> HIDE DEF old
  <2> QED
    BY <2>2, <2>3, <2>4
<1> HIDE DEF new, old
<1>9. /\ new \o old \in Seq(Word) /\ Len(new \o old) = N
      /\ \A i \in 1 .. N : (new \o old)[i] = IF i <= head THEN new[i] ELSE old[i - head]
  <2>1. head + k = N
    BY <1>1, <1>6
  <2>2. /\ new \o old \in Seq(Word) /\ Len(new \o old) = Len(new) + Len(old)
        /\ \A i \in 1 .. Len(new) + Len(old) :
               (new \o old)[i] = IF i <= Len(new) THEN new[i] ELSE old[i - Len(new)]
    BY <1>7, <1>8, ConcatProperties
  <2>3. Len(new) = head /\ Len(old) = k
    BY <1>7, <1>8
  <2> QED
    BY <2>1, <2>2, <2>3
<1>10. ASSUME NEW i \in 1 .. N PROVE mostRecent(n)[i] = (new \o old)[i]
  <2>1. CASE i <= head
    <3>1. i \in 1 .. head /\ ~(head + (k + i) - 1 < N) /\ head + (k + i) - 1 - N = i - 1
      BY <1>1, <1>6, <2>1
    <3>2. (new \o old)[i] = Held(k + i)
      BY <1>7, <1>9, <2>1, <3>1
    <3> QED
      BY <1>1, <1>3, <3>1, <3>2 DEF Held
  <2>2. CASE ~(i <= head)
    <3>1. i - head \in 1 .. k /\ head + (i - head) - 1 < N /\ head + (i - head) - 1 = i - 1
      BY <1>1, <1>6, <2>2
    <3>2. (new \o old)[i] = Held(i - head)
      <4>1. (new \o old)[i] = old[i - head]
        BY <1>1, <1>9, <2>2
      <4> QED
        BY <1>8, <3>1, <4>1
    <3> QED
      BY <1>1, <1>3, <3>1, <3>2 DEF Held
  <2> QED
    BY <1>1, <2>1, <2>2
<1>11. mostRecent(n) = new \o old
  BY <1>4, <1>9, <1>10, SeqEqual
<1>12. k \in 0 .. Len(log) /\ mostRecent(n) = SubSeq(log, k + 1, Len(log)) \o SubSeq(log, 1, k)
  BY <1>1, <1>5, <1>6, <1>11 DEF new, old
<1> QED
  BY <1>12 DEF InTwoRuns, log

\* debugger.cpp:460, 985-999: whatever the count, the size of the history and the
\* program, pchist shows an end part of the log, which at the prompt ends with the
\* instruction executed next; only for a count that exceeds a full history are all
\* the entries shown out of that order, in two runs.
THEOREM HistoryShowsNext == Spec => []PromptShowsNext
<1>1. SessionInv => PromptShowsNext
  <2> SUFFICES ASSUME SessionInv, NEW n \in 1 .. MaxCount
               PROVE  IF ExceedsHistory(n)
                      THEN InTwoRuns(mostRecent(n), mostRecent(N))
                      ELSE /\ mostRecent(n) = LastOf(mostRecent(N), n)
                           /\ phase \in {"prompt", "execute"}
                                => LastOf(mostRecent(n), 1) = <<fetchPC>>
    BY DEF PromptShowsNext, N
  <2>1. n \in Nat \ {0} /\ RingTypeOK
    BY HistoryAssumption DEF SessionInv, SessionTypeOK
  <2>2. CASE ExceedsHistory(n)
    BY <2>1, <2>2, CountExceeds
  <2>3. CASE ~ExceedsHistory(n)
    BY <2>1, <2>3, CountGivesEnd, LogEndsWithNext
  <2> QED
    BY <2>2, <2>3
<1> QED
  BY <1>1, SessionInvariant, PTL

\* The ring buffer of a session implements the abstract log of the most recent fetches.
THEOREM SessionLogs == Spec => LogSpec
<1>1. Init => Log!Init
  <2> SUFFICES ASSUME Init PROVE mostRecent(N) = <<>>
    BY DEF Log!Init, N
  <2>1. SessionInv /\ Count = 0
    BY InitSession DEF Init, RingInit, Count
  <2>2. mostRecent(N) \in Seq(Word) /\ Len(mostRecent(N)) = 0
    BY <2>1, LogIsHeld DEF LogOfHeld, SessionInv, SessionTypeOK
  <2> QED
    BY <2>2, EmptySeq
<1>2. SessionInv /\ [Next]_vars => [Log!Next]_(mostRecent(N))
  <2> SUFFICES ASSUME SessionInv, [Next]_vars
               PROVE  Log!Next \/ UNCHANGED mostRecent(N)
    OBVIOUS
  <2>1. CASE FetchPass
    <3>1. RingTypeOK /\ fetchPC \in Word /\ add(fetchPC)
      BY <2>1 DEF SessionInv, SessionTypeOK, FetchPass, Addr
    <3>2. mostRecent(N)' = LastOf(Append(mostRecent(N), fetchPC), N)
      BY <3>1, AddLogs
    <3> QED
      BY <3>1, <3>2 DEF Log!Next, Log!LastOf, LastOf, N
  <2>2. CASE UNCHANGED ringVars
    BY <2>2 DEF ringVars, mostRecent, Count
  <2> QED
    BY <2>1, <2>2 DEF Next, ExecutePass, Stop, Prompt, vars
<1> QED
  BY <1>1, <1>2, SessionInvariant, PTL DEF Spec, LogSpec, Log!Spec, N

-----------------------------------------------------------------------------
\* The permission the state stands for, and what each step makes of it.
granted == IF nSteps <= 0 THEN Forever ELSE nSteps

LEMMA ObeyMaps ==
  ASSUME SessionInv, phase = "prompt", NEW l \in Lines \union {Help}, Obey(l), prevLine' = l
  PROVE  [Abstract!Next]_(Abstract!vars)
<1>1. l.n \in Int /\ ~running /\ permitted = 0 /\ asked(prevLine)' = asked(l)
  <2>1. l.n \in Int
    BY LineTyped
  <2>2. ~running /\ permitted = 0
    BY DEF SessionInv, permitted
  <2>3. asked(prevLine)' = asked(l)
    BY DEF asked
  <2> QED
    BY <2>1, <2>2, <2>3
<1>2. ASSUME Resume(l.n), l.cmd = "step" PROVE Abstract!Grant
  <2>1. running' = TRUE /\ phase' = "execute" /\ nSteps' = l.n
    BY <1>2 DEF Resume
  <2>2. permitted' = IF l.n <= 0 THEN Forever ELSE l.n
    BY <2>1 DEF permitted
  <2>3. asked(l) = IF l.n <= 0 THEN Forever ELSE l.n
    BY <1>1, <1>2 DEF asked
  <2> QED
    BY <1>1, <2>1, <2>2, <2>3 DEF Abstract!Grant, Forever
<1>3. ASSUME Resume(0), l.cmd = "continue" PROVE Abstract!Grant
  <2>1. running' = TRUE /\ phase' = "execute" /\ nSteps' = 0
    BY <1>3 DEF Resume
  <2>2. permitted' = Forever
    BY <2>1 DEF permitted
  <2>3. asked(l) = Forever
    BY <1>3 DEF asked
  <2> QED
    BY <1>1, <2>1, <2>2, <2>3 DEF Abstract!Grant, Forever
<1>4. l.cmd \notin {"step", "continue"} => asked(prevLine)' = 0
  BY <1>1 DEF asked
<1>5. CASE \/ l.cmd \in {"set", "remove", "clear"} /\ handleBPCommand(l)
           \/ l.cmd = "show" /\ Show
  <2>1. UNCHANGED <<running, phase, nSteps>>
    BY <1>5 DEF handleBPCommand, Show
  <2> QED
    BY <1>1, <1>4, <1>5, <2>1 DEF permitted, Abstract!Next, Abstract!Talk
<1>6. CASE l.cmd = "pc" /\ SetPC(l.n)
  BY <1>1, <1>4, <1>6 DEF SetPC, permitted, Abstract!Next, Abstract!Refetch
<1>7. CASE l.cmd = "quit" /\ Quit
  <2>1. phase' = "ended" /\ permitted' = 0
    BY <1>7 DEF Quit, permitted
  <2> QED
    BY <1>1, <1>4, <1>7, <2>1 DEF Abstract!Next, Abstract!Talk
<1> QED
  BY <1>2, <1>3, <1>5, <1>6, <1>7 DEF Obey, Abstract!Next

LEMMA FetchMaps == ASSUME SessionInv, FetchPass PROVE [Abstract!Next]_(Abstract!vars)
<1>1. phase = "pass" /\ nSteps' = nSteps /\ asked(prevLine)' = asked(prevLine)
  BY DEF FetchPass, asked
<1>2. CASE running'
  <2>1. running /\ phase' = "execute"
    BY <1>2 DEF FetchPass
  <2> QED
    BY <1>1, <1>2, <2>1 DEF permitted, Abstract!vars
<1>3. CASE ~running'
  <2>1. phase' = "prompt"
    BY <1>3 DEF FetchPass
  <2> QED
    BY <1>1, <2>1 DEF permitted, Abstract!Next, Abstract!Break
<1> QED
  BY <1>2, <1>3

LEMMA ExecuteMaps == ASSUME SessionInv, ExecutePass PROVE [Abstract!Next]_(Abstract!vars)
<1>1. /\ phase = "execute" /\ phase' = "pass" /\ nSteps \in Int
      /\ nSteps' = IF nSteps > 0 THEN nSteps - 1 ELSE nSteps
      /\ running' = (running /\ ~lastStep /\ ~Touches)
      /\ asked(prevLine)' = asked(prevLine)
  BY DEF ExecutePass, SessionInv, SessionTypeOK, asked
<1>2. permitted = IF running THEN granted ELSE 1
  BY <1>1 DEF permitted, granted
<1>3. permitted # 0
  BY <1>1, <1>2 DEF granted, Forever
<1>4. permitted' \in {Abstract!Less(permitted), 0}
  <2>1. CASE running'
    <3>1. running /\ nSteps # 1
      BY <1>1, <2>1 DEF lastStep
    <3>2. permitted' = IF nSteps' <= 0 THEN Forever ELSE nSteps'
      BY <1>1, <2>1 DEF permitted
    <3> QED
      BY <1>1, <1>2, <3>1, <3>2 DEF granted, Forever, Abstract!Less
  <2>2. CASE ~running'
    BY <1>1, <2>2 DEF permitted
  <2> QED
    BY <2>1, <2>2
<1> QED
  BY <1>1, <1>3, <1>4 DEF Abstract!Next, Abstract!Execute

LEMMA StopMaps == ASSUME SessionInv, Stop PROVE [Abstract!Next]_(Abstract!vars)
<1>1. /\ running /\ ~running' /\ UNCHANGED <<phase, nSteps>> /\ phase \in {"pass", "execute"}
      /\ asked(prevLine)' = asked(prevLine)
  BY DEF Stop, SessionInv, SessionTypeOK, asked
<1>2. permitted = granted /\ permitted' \in {0, 1}
  BY <1>1 DEF permitted, granted
<1>3. permitted # 0
  BY <1>2 DEF granted, Forever, SessionInv, SessionTypeOK
<1> QED
  BY <1>1, <1>2, <1>3 DEF Abstract!Next, Abstract!Withdraw

\* Stepping and continuing implement the abstract specification of permission: step N
\* with N above 0 executes N instructions at most, whatever is interrupted, watched or
\* typed, and only continue, and step with another number, may execute any number.
THEOREM SessionPermits == Spec => PermissionSpec
<1>1. Init => Abstract!Init
  <2>1. Init => asked(prevLine) = 0
    <3>1. Init => prevLine = Help /\ Help.cmd = "show"
      BY DEF Init, Help
    <3> QED
      BY <3>1 DEF asked
  <2> QED
    BY <2>1 DEF Init, Abstract!Init, permitted
<1>2. SessionInv /\ [Next]_vars => [Abstract!Next]_(Abstract!vars)
  <2> SUFFICES ASSUME SessionInv, [Next]_vars PROVE [Abstract!Next]_(Abstract!vars)
    OBVIOUS
  <2>1. CASE Prompt
    <3>1. \E l \in Lines \union {Help} : Obey(l) /\ prevLine' = l
      BY <2>1 DEF Prompt, SessionInv, SessionTypeOK
    <3> QED
      BY <2>1, <3>1, ObeyMaps DEF Prompt
  <2>2. CASE UNCHANGED vars
    BY <2>2 DEF vars, machine, permitted, asked, Abstract!vars
  <2> QED
    BY <2>1, <2>2, FetchMaps, ExecuteMaps, StopMaps DEF Next
<1> QED
  BY <1>1, <1>2, SessionInvariant, PTL DEF Spec, PermissionSpec, Abstract!Spec
============================================================================
