---------------------------- MODULE FindAncestor ----------------------------
(***************************************************************************)
(* findAncestor of bgm/downloader/downloader.go: which block of the local  *)
(* chain a sync with a peer starts from.  First every Gap-th header below  *)
(* the head is asked for, then a binary search is made.                    *)
(*                                                                         *)
(* The peer reported height; its chain now ends at remote, and its blocks  *)
(* up to known are known locally (HasBlockAndState, or HasHeader).  The    *)
(* peer is honest: what it answers is on its chain.                        *)
(***************************************************************************)
EXTENDS Integers, FiniteSets, FiniteSetsExt

CONSTANTS
  MaxHeaderFetch, MaxForkAncestry,
  Gap,                 \* 16 in the code
  MaxHeight, MaxGrowth \* bounds

VARIABLES
  ceil,           \* local height
  height, remote, \* reported and real height of the peer's chain
  known,
  at,             \* "head", "search", "found", "failed", "stalling"
  start, end

inputs == <<ceil, height, remote, known>>
vars == <<inputs, at, start, end>>

floor == IF ceil >= MaxForkAncestry THEN ceil - MaxForkAncestry ELSE -1
head  == Min({ceil, height})

Init ==
  /\ ceil \in 0..MaxHeight /\ height \in 0..MaxHeight
  /\ remote \in height..Min({height + MaxGrowth, MaxHeight})
  /\ known \in 0..remote
  /\ at = "head" /\ start = 0 /\ end = 0

\* The numbers asked for at first, that the peer has, up to the local height.
from  == Max({head - MaxHeaderFetch, 0})
limit == (2 * MaxHeaderFetch) \div Gap
count == Min({1 + (ceil - from) \div Gap, limit})
Asked == {n \in {from + i * Gap : i \in 0..count - 1} : n <= remote}

\* An ancestor at or below the floor is refused.
conclude(n) ==
  /\ at' = IF n <= floor THEN "failed" ELSE "found"
  /\ start' = n

HeadAnswer ==
  LET common == {n \in Asked : n <= ceil /\ n <= known}
  IN  /\ at = "head"
      /\ \/ /\ common # {} /\ Max(common) > height
            /\ Max(common) = from + (limit - 1) * Gap
            /\ at' = "stalling" /\ UNCHANGED <<start, end>>
         \/ /\ common # {}
            /\ ~(Max(common) > height /\ Max(common) = from + (limit - 1) * Gap)
            /\ conclude(Max(common)) /\ UNCHANGED end
         \/ /\ common = {}
            /\ at' = "search"
            /\ start' = Max({floor, 0}) /\ end' = head
      /\ UNCHANGED inputs


narrow(check) ==
  IF check <= known THEN start' = check /\ UNCHANGED end
  ELSE end' = check /\ UNCHANGED start

SearchAnswer ==
  /\ at = "search" /\ start + 1 < end
  /\ narrow((start + end) \div 2)
  /\ UNCHANGED <<inputs, at>>

SearchEnd ==
  /\ at = "search" /\ start + 1 >= end
  /\ conclude(start)
  /\ UNCHANGED <<inputs, end>>

Next == HeadAnswer \/ SearchAnswer \/ SearchEnd

Spec == Init /\ [][Next]_vars

----------------------------------------------------------------------------
\* The sync starts from a block that both chains have, below the local head,
\* not deeper than MaxForkAncestry, and at most one gap below the last such
\* block: no more than Gap blocks are downloaded again.
AncestorRight ==
  at = "found" =>
    /\ start <= known /\ start <= ceil /\ start > floor
    /\ start + Gap > Min({known, head})

\* An honest peer is refused only when the last common block is near or below
\* the oldest allowed one, or when its chain has grown, since it reported its
\* height, past the last header asked for.
RefusedRightly ==
  /\ at = "failed" =>
       /\ ceil >= MaxForkAncestry
       /\ Min({known, head}) < ceil - MaxForkAncestry + Gap
  /\ at = "stalling" => remote >= height + MaxHeaderFetch - Gap
=============================================================================
