------------------------------- MODULE MCSync -------------------------------
(***************************************************************************)
(* The parts of synchronisation that must come to an end, checked side by  *)
(* side: part selects the component that this behaviour is one of.  The    *)
(* exchange of transactions (TxSync) has its own variables; v1 to v11 are  *)
(* those of the others, 0 where a component has fewer.                     *)
(***************************************************************************)
EXTENDS TxSync

CONSTANTS None

VARIABLES part, v1, v2, v3, v4, v5, v6, v7, v8, v9, v10, v11

mcvars == <<vars, part, v1, v2, v3, v4, v5, v6, v7, v8, v9, v10, v11>>

Fetch == INSTANCE Fetcher WITH
  f <- v1, importing <- v2, finished <- v3, chain <- v4, dropped <- v5,
  blamed <- v6, inputs <- v7, foreign <- v8,
  Peer <- {"p", "q"}, Hash <- {"a1", "a2", "b1"},
  Number <- [a1 |-> 1, a2 |-> 2, b1 |-> 1],
  Parent <- [a1 |-> "genesis", a2 |-> "a1", b1 |-> "genesis"],
  Body <- [a1 |-> "x", a2 |-> "empty", b1 |-> "x"], EmptyBody <- "empty",
  Invalid <- {"b1"}, Genesis <- "genesis",
  Deliveries <- {<<"a1">>, <<"b1", "b1">>, <<"b1", "a1">>},
  hashLimit <- 1, blockLimit <- 1, maxUncleDist <- 0, maxQueueDist <- 2,
  MaxInputs <- 2, MaxForeign <- 1

Queue == INSTANCE FetchQueue WITH
  q <- v1, busy <- v2, lacking <- v3, peers <- v4, failed <- v5, results <- v6,
  faults <- v7,
  Peer <- {"p", "q"}, Faulty <- {"q"}, Height <- 5, fastSyncPivot <- 3,
  NoBody <- {2}, NoReceipts <- {1}, Stray <- 99, blockCacheLimit <- 3,
  fsHeaderForceVerify <- 1, Capacities <- {3}, MaxFaults <- 1

Headers == INSTANCE HeaderFetch WITH
  s <- v1, h <- v2, peers <- v3, procCh <- v4, received <- v5, faults <- v6,
  Peer <- {"m", "p", "r"}, Master <- "m", Height <- 11, MaxHeaderFetch <- 2,
  MaxSkeletonSize <- 3, MaxFaults <- 2

Down == INSTANCE Downloader WITH
  chain <- v1, db <- v2, fastSync <- v3, d <- v4, waiters <- v5, syncs <- v6,
  faults <- v7,
  Height <- 3, Pivot <- 2, Mode <- "fast", Batch <- 2, fsHeaderForceVerify <- 1,
  fsHeaderSafetyNet <- 3, MaxSyncs <- 1, MaxFaults <- 1

\* Two subtries that share a node, and one of them twice under the root.
State == INSTANCE StateSync WITH
  s <- v1, disk <- v2, active <- v3, gone <- v4, finished <- v5, peers <- v6,
  busy <- v7, drops <- v8, late <- v9, faults <- v10, crashes <- v11,
  Node <- {"r", "a", "b", "c"}, Root <- "r",
  Kids <- [r |-> <<"a", "b", "a">>, a |-> <<"c">>, b |-> <<"c">>, c |-> <<>>],
  Peer <- {"p", "q"}, Capacity <- 2, MinRequest <- 1, MaxFaults <- 2,
  MaxCrashes <- 1, MaxLate <- 1

None9 == v9 = 0 /\ v10 = 0 /\ v11 = 0
None1 == v1 = 0 /\ v2 = 0 /\ v3 = 0 /\ v4 = 0 /\ v5 = 0 /\ v6 = 0 /\ v7 = 0 /\ v8 = 0

MCInit ==
  /\ Init
  /\ \/ part = "txsync" /\ None1 /\ None9
     \/ part = "fetcher" /\ Fetch!Init /\ None9
     \/ part = "queue" /\ Queue!Init /\ v8 = 0 /\ None9
     \/ part = "headers" /\ Headers!Init /\ v7 = 0 /\ v8 = 0 /\ None9
     \/ part = "downloader" /\ Down!Init /\ v8 = 0 /\ None9
     \/ part = "state" /\ State!Init

\* A step of the component that part names, with n variables of v1 to v11.
Step(n) ==
  /\ part' = part
  /\ n # 0 => UNCHANGED vars
  /\ n < 11 => UNCHANGED <<v9, v10, v11>>
  /\ n < 8 => UNCHANGED v8
  /\ n < 7 => UNCHANGED v7
  /\ n = 0 => UNCHANGED <<v1, v2, v3, v4, v5, v6>>

MCNext ==
  \/ part = "txsync" /\ Next /\ Step(0)
  \/ part = "fetcher" /\ Fetch!Next /\ Step(8)
  \/ part = "queue" /\ Queue!Next /\ Step(7)
  \/ part = "headers" /\ Headers!Next /\ Step(6)
  \/ part = "downloader" /\ Down!Next /\ Step(7)
  \/ part = "state" /\ State!Next /\ Step(11)

MCFair(i) ==
  \/ part = "headers" /\ Headers!Fair(i) /\ Step(6)
  \/ part = "downloader" /\ Down!Fair(i) /\ Step(7)
  \/ part = "state" /\ State!Fair(i) /\ Step(11)

MCRests(i) ==
  /\ part = "txsync" => Rests(i)
  /\ part = "fetcher" => Fetch!Rests(i)
  /\ part = "queue" => Queue!Rests(i)
  /\ part = "state" => State!Rests(i)

MCMoves(i) ==
  \/ part = "txsync" /\ Moves(i)
  \/ part = "fetcher" /\ Fetch!Moves(i)
  \/ part = "queue" /\ Queue!Moves(i)
  \/ part = "state" /\ State!Moves(i)

\* The fairness of each component (its FairSpec), as one formula for all.
MCSpec ==
  /\ MCInit /\ [][MCNext]_mcvars
  /\ \A i \in 1..6 : WF_mcvars(MCFair(i))
  /\ \A i \in 1..6 : []<>MCRests(i) \/ []<><<MCMoves(i)>>_mcvars

----------------------------------------------------------------------------

\* statesync.go and trie/sync.go: what is in the database has its children
\* there, no missing node is forgotten, and only empty answers end a sync.
StateConsistent ==
  part = "state" => /\ State!DiskClosed /\ State!NothingLost
                    /\ State!GivesUpRightly

\* Each part comes to its end: announcements are acted on and imports end; all
\* headers, parts and states arrive unless the sync fails; synchronise returns;
\* every peer gets the transactions of the pool.
SyncEnds ==
  <>[](/\ Sent
       /\ part = "fetcher" => /\ Fetch!Resolved /\ Fetch!Imported
       /\ part = "queue" => Queue!Retrieved
       /\ part = "headers" => Headers!Received
       /\ part = "downloader" => Down!Returned \/ Down!Abandoned
       /\ part = "state" => State!Arrived)
=============================================================================
