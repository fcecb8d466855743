--------------------------- MODULE MCDposNetwork ---------------------------
(***************************************************************************)
(* Validators that exchange blocks, and two parts of a light client, its   *)
(* retrieval of data and its transaction pool, checked side by side: part  *)
(* selects the component that this behaviour is one of.  The validators    *)
(* have their own variables; v1 to v9 are those of the others, 0 where     *)
(* there are fewer.                                                        *)
(***************************************************************************)
EXTENDS DposNetwork

CONSTANT Part    \* the components that a run is about

VARIABLES part, v1, v2, v3, v4, v5, v6, v7, v8, v9

mcvars == <<vars, part, v1, v2, v3, v4, v5, v6, v7, v8, v9>>

MCEpoch == 0..3
TwoOrders == << <<1, 2>>, <<2, 1>> >>

\* A branch of one block and one of two; the first transaction is in both.
LightBlocks == {10, 11, 21, 22}
LightParent == [b \in LightBlocks |-> CASE b \in {11, 21} -> 10 [] b = 22 -> 21
                                        [] OTHER -> 0]
LightTxs == [b \in LightBlocks |-> CASE b = 11 -> {1} [] b = 22 -> {1, 2} [] OTHER -> {}]

Retrieve == INSTANCE LesRetrieve WITH
  q <- v1, dist <- v2, chan <- v3, listed <- v4, r <- v5, peers <- v6, faults <- v7,
  Req <- {1, 2}, Peer <- {"a", "b"}, Setting <- {<<1, 2, 2>>, <<2, 1, 0>>}

Light == INSTANCE LightTxPool WITH
  chain <- v1, posts <- v2, events <- v3, pool <- v4, relay <- v5, peers <- v6,
  user <- v7, past <- v8, faults <- v9,
  Block <- LightBlocks, Genesis <- 10, Parent <- LightParent,
  Number <- [b \in LightBlocks |-> b % 10], Txs <- LightTxs,
  Tx <- {1, 2}, Nonce <- <<0, 1>>, Peer <- {"p"}, txPermanent <- 0, MaxFaults <- 1

\* The component has n variables; the other registers are 0.
Unused(n) ==
  /\ n <= 0 => v1 = 0 /\ v2 = 0 /\ v3 = 0 /\ v4 = 0 /\ v5 = 0 /\ v6 = 0 /\ v7 = 0
  /\ n <= 7 => v8 = 0 /\ v9 = 0

Step(n) ==
  /\ part' = part
  /\ n # 0 => UNCHANGED vars
  /\ n <= 0 => UNCHANGED <<v1, v2, v3, v4, v5, v6, v7>>
  /\ n <= 7 => UNCHANGED <<v8, v9>>

MCInit ==
  /\ Init
  /\ part \in Part
  /\ \/ part = "network" /\ Unused(0)
     \/ part = "retrieve" /\ Retrieve!Init /\ Unused(7)
     \/ part = "light" /\ Light!Init /\ Unused(9)

MCNext ==
  \/ part = "network" /\ Next /\ Step(0)
  \/ part = "retrieve" /\ Retrieve!Next /\ Step(7)
  \/ part = "light" /\ Light!Next /\ Step(9)

MCSpec == MCInit /\ [][MCNext]_mcvars

\* The fairness of DposNetwork; nothing is asked of the others.
MCFairSpec == MCSpec /\ Fairness

----------------------------------------------------------------------------
\* les/retrieve.go, les/distributor.go: requests are served in their order and
\* no wake-up is lost, a retrieval that nobody stopped goes on, and an answer
\* counts only if its server was asked.  light/txpool.go, les/txrelay.go: the
\* pool follows the chain through reorganisations, with the transactions that
\* are not in it, and the relay sends what is pending.
LightRight ==
  /\ part = "retrieve" => /\ Retrieve!QueueRight /\ Retrieve!ClosedOnce
                          /\ Retrieve!GoesOn /\ Retrieve!ResultRight
  /\ part = "light" => /\ Light!HeadFollows /\ Light!PendingRight
                       /\ Light!RelayAgrees /\ Light!NoPanic
=============================================================================
