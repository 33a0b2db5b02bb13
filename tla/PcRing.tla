------------------------------- MODULE PcRing -------------------------------
(***************************************************************************)
(* Debugger::RingBuffer (src/debugger.cpp), the history of fetched PCs     *)
(* that the instruction loop adds to and the pchist command shows.         *)
(***************************************************************************)
EXTENDS Naturals, Sequences

CONSTANTS
    Word,           \* the values of fetchPC
    pcHistorySize,  \* slots of the buffer; 1024 in debugger.hpp
    MaxCount        \* the largest count given to pchist in a run

ASSUME HistoryAssumption == pcHistorySize \in Nat \ {0} /\ MaxCount \in Nat

VARIABLES
    buffer,  \* [0 .. pcHistorySize - 1 -> Word], arbitrary until written
    head,    \* the slot the next element goes to
    full     \* every slot has been written

ringVars == <<buffer, head, full>>

Slot == 0 .. pcHistorySize - 1

RingTypeOK ==
    /\ buffer \in [Slot -> Word]
    /\ head \in Slot
    /\ full \in BOOLEAN

RingInit ==
    /\ buffer \in [Slot -> Word]
    /\ head = 0
    /\ full = FALSE

Min2(a, b) == IF a < b THEN a ELSE b

AddForgetsFull(e) ==
    /\ buffer' = [buffer EXCEPT ![head] = e]
    /\ head' = (head + 1) % pcHistorySize
    /\ full' = (head' = 0)

add(e) ==
    /\ buffer' = [buffer EXCEPT ![head] = e]
    /\ head' = (head + 1) % pcHistorySize
    /\ full' = (full \/ head' = 0)

Count == IF full THEN pcHistorySize ELSE head

mostRecentFromZero(n) ==
    [i \in 1 .. Min2(n, Count) |-> buffer[(i - 1) % pcHistorySize]]

\* What pchist shows. A count beyond what is held starts at slot 0, which is the oldest only
\* until the buffer is full.
mostRecent(n) ==
    LET start == IF Count >= n THEN (head + pcHistorySize - Min2(n, Count)) % pcHistorySize
                               ELSE 0
    IN  [i \in 1 .. Min2(n, Count) |-> buffer[(start + i - 1) % pcHistorySize]]

-----------------------------------------------------------------------------
(* Properties *)

\* The buffer, read as pchist without a count reads it, is the log of the
\* most recent fetches: through filling, wrapping and overwriting, nothing
\* recent is lost, and nothing uninitialised or overwritten appears.
Log == INSTANCE RecentLog
          WITH Element <- Word, Size <- pcHistorySize, recent <- mostRecent(pcHistorySize)
LogSpec == Log!Spec

LastOf(s, n) == IF Len(s) <= n THEN s ELSE SubSeq(s, Len(s) - n + 1, Len(s))

=============================================================================
