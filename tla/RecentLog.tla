------------------------------ MODULE RecentLog ------------------------------
(***************************************************************************)
(* What the PC history promises: the most recent additions, at most Size   *)
(* of them, in the order they were made.                                   *)
(***************************************************************************)
EXTENDS Naturals, Sequences

CONSTANTS Element, Size

VARIABLE recent

LastOf(s, n) == IF Len(s) <= n THEN s ELSE SubSeq(s, Len(s) - n + 1, Len(s))

Init == recent = <<>>

Next == \E e \in Element : recent' = LastOf(Append(recent, e), Size)

Spec == Init /\ [][Next]_recent

=============================================================================
