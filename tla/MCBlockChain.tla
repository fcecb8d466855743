----------------------------- MODULE MCBlockChain -----------------------------
(***************************************************************************)
(* The block store, and what fills it, checked side by side: part selects  *)
(* the component that this behaviour is one of.  The store with crashes    *)
(* has its own variables; v1 to v9 are those of the others, 0 where a      *)
(* component has fewer.                                                    *)
(***************************************************************************)
EXTENDS BlockChain

VARIABLES part, v1, v2, v3, v4, v5, v6, v7, v8, v9

mcvars == <<vars, part, v1, v2, v3, v4, v5, v6, v7, v8, v9>>

\* Two branches from genesis, one of which forks again.
Branches == {<<>>, <<1>>, <<1, 1>>, <<1, 2>>, <<1, 2, 1>>, <<2>>}

\* Longer branches, both of which fork again.
MoreBranches ==
  Branches \cup {<<1, 1, 1>>, <<2, 1>>, <<2, 1, 1>>, <<2, 2>>, <<2, 2, 1>>, <<2, 2, 1, 1>>}

\* Transactions that both sides of a fork have, at different heights; no branch
\* has one twice.
BranchTxs(b) ==
  CASE b \in {<<1>>, <<2, 1>>, <<2, 2, 1>>} -> {"s"}
    [] b \in {<<2>>, <<1, 1>>, <<1, 2, 1>>} -> {"t"}
    [] OTHER -> {}

Full == INSTANCE BlockChain WITH
  db <- v1, bc <- v2, status <- v3, importing <- v4, crashes <- v5, rewinds <- v6,
  Block <- MoreBranches, Importer <- {"insertChain", "worker"},
  MaxCrashes <- 0, MaxRewinds <- 0

Fast == INSTANCE FastSyncChain WITH
  db <- v1, bc <- v2, status <- v3, importing <- v4, crashes <- v5, rewinds <- v6,
  sync <- v7, syncs <- v8, past <- v9,
  Block <- {<<>>, <<1>>, <<1, 1>>, <<1, 1, 1>>, <<2>>, <<2, 1>>},
  Importer <- {"insertChain"}, Tx <- {}, MaxCrashes <- 1, MaxRewinds <- 0,
  SafetyNet <- 2, MaxSyncs <- 2

Down == INSTANCE Downloader WITH
  chain <- v1, db <- v2, fastSync <- v3, d <- v4, waiters <- v5, syncs <- v6,
  faults <- v7,
  Height <- 3, Pivot <- 2, Mode <- "fast", Batch <- 2, fsHeaderForceVerify <- 1,
  fsHeaderSafetyNet <- 3, MaxSyncs <- 2, MaxFaults <- 1

Anc == INSTANCE FindAncestor WITH
  ceil <- v1, height <- v2, remote <- v3, known <- v4, at <- v5, start <- v6, end <- v7,
  MaxHeaderFetch <- 4, MaxForkAncestry <- 7, Gap <- 2, MaxHeight <- 13, MaxGrowth <- 6

Query == INSTANCE HeadersQuery WITH
  query <- v1, origin <- v2, headers <- v3, done <- v4,
  W <- 4, Height <- 6, Fork <- 3, MaxHeaderFetch <- 3, MaxAmount <- 4

\* The component has n variables; the other registers are 0.
Unused(n) ==
  /\ n <= 0 => v1 = 0 /\ v2 = 0 /\ v3 = 0 /\ v4 = 0
  /\ n <= 4 => v5 = 0 /\ v6 = 0
  /\ n <= 6 => v7 = 0
  /\ n <= 7 => v8 = 0 /\ v9 = 0

Step(n) ==
  /\ part' = part
  /\ n # 0 => UNCHANGED vars
  /\ n <= 0 => UNCHANGED <<v1, v2, v3, v4>>
  /\ n <= 4 => UNCHANGED <<v5, v6>>
  /\ n <= 6 => UNCHANGED <<v7>>
  /\ n <= 7 => UNCHANGED <<v8, v9>>

MCInit ==
  /\ Init
  /\ \/ part = "rewind" /\ Unused(0)
     \/ part = "full" /\ Full!Init /\ Unused(6)
     \/ part = "fast" /\ Fast!FastInit /\ Unused(9)
     \/ part = "downloader" /\ Down!Init /\ Unused(7)
     \/ part = "ancestor" /\ Anc!Init /\ Unused(7)
     \/ part = "query" /\ Query!Init /\ Unused(4)

MCNext ==
  \/ part = "rewind" /\ Next /\ Step(0)
  \/ part = "full" /\ Full!Next /\ Step(6)
  \/ part = "fast" /\ Fast!FastNext /\ Step(9)
  \/ part = "downloader" /\ Down!Next /\ Step(7)
  \/ part = "ancestor" /\ Anc!Next /\ Step(7)
  \/ part = "query" /\ Query!Next /\ Step(4)

MCSpec == MCInit /\ [][MCNext]_mcvars

----------------------------------------------------------------------------
\* blockchain.go and headerchain.go.  While nothing crashes or rewinds, the
\* canonical hashes and the transaction lookups are those of the head chain, and
\* reorg drops a block.  With crashes and SetHead, the heads are in the database
\* with what they need, a restart finds them again, and SetHead does not wait
\* for its own lock.
StoreRight ==
  /\ part = "full" => /\ Full!CanonicalIsHeadChain /\ Full!LookupRight
                      /\ Full!ReorgDropsBlocks
  /\ part = "rewind" => HeadsResolve /\ HeadsDurable /\ NeverHangs



\* While nothing crashes or rewinds, the store implements the longest chain: no
\* order of locks and writes loses a block, and the head is a longest branch.
StoreIsLongestChain ==
  /\ part = "full" => Full!Chain!Init
  /\ [][part = "full" => [Full!Chain!Next]_(Full!Chain!vars)]_mcvars
=============================================================================
