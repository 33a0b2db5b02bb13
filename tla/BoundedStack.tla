---------------------------- MODULE BoundedStack ----------------------------
(***************************************************************************)
(* What the stack instructions promise a program that keeps to its stack:  *)
(* last in, first out; a stack of Capacity words; a trap on the push that  *)
(* finds it full, which loses the word pushed and nothing else, and on the *)
(* pop that takes that word's place away again.                            *)
(***************************************************************************)
EXTENDS Sequences, Integers

CONSTANTS Capacity, Value

VARIABLES
    words,    \* the stack, its top last
    trap,     \* the overflow flag
    popped,   \* the last word delivered
    outside   \* the program has left the stack; nothing is promised any more

vars == <<words, trap, popped, outside>>

Full == Len(words) = Capacity
Over == Len(words) = Capacity + 1
Down(n) == SubSeq(words, 1, Len(words) - n)

Init == words = <<>> /\ trap = FALSE /\ popped = 0 /\ outside = FALSE

\* The instruction may clear the flag before it pushes, as a call does.
Push ==
    /\ ~Over
    /\ \E v \in Value : words' = Append(words, v)
    /\ IF Full THEN trap' ELSE trap' \in {trap, FALSE}
    /\ UNCHANGED <<popped, outside>>

Pop ==
    /\ words # <<>>
    /\ words' = Down(1)
    /\ ~Over => popped' = words[Len(words)]
    /\ trap' = (trap \/ Over)
    /\ UNCHANGED outside

\* Take or give back several words; those taken hold what was there.
Adjust ==
    /\ \E n \in 1 .. Capacity + 1 :
        \/ /\ n <= Len(words)
           /\ words' = Down(n)
           /\ trap' = (trap \/ Over)
        \/ /\ Len(words) + n <= Capacity + 1
           /\ Len(words') = Len(words) + n
           /\ SubSeq(words', 1, Len(words)) = words
           /\ trap' = (trap \/ (~Over /\ Len(words) + n = Capacity + 1))
    /\ UNCHANGED <<popped, outside>>

Serve ==
    /\ trap
    /\ trap' = FALSE
    /\ UNCHANGED <<words, popped, outside>>

Leave == (Over \/ words = <<>> \/ outside') /\ outside'

Next == ~outside /\ (Push \/ Pop \/ Adjust \/ Serve \/ Leave)

Spec == Init /\ [][Next]_vars
============================================================================
