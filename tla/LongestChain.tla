---------------------------- MODULE LongestChain ----------------------------
(***************************************************************************)
(* What a block store promises while nothing crashes or is rewound: blocks *)
(* are added to a tree rooted in genesis, none is ever lost, and the head  *)
(* is a longest branch, replaced by an added block only if that block is   *)
(* at least as high.                                                       *)
(***************************************************************************)
EXTENDS Naturals, Sequences

CONSTANT Block

VARIABLES stored, head

vars == <<stored, head>>

Parent(b) == SubSeq(b, 1, Len(b) - 1)

Init == stored = {<<>>} /\ head = <<>>

\* A block whose parent is stored is added; a tie with the head may go either way.
Add(b) ==
  /\ b \notin stored /\ Parent(b) \in stored
  /\ stored' = stored \cup {b}
  /\ \/ Len(b) <= Len(head) /\ head' = head
     \/ Len(b) >= Len(head) /\ head' = b

Next == \E b \in Block \ {<<>>} : Add(b)

Spec == Init /\ [][Next]_vars
=============================================================================
