------------------------------- MODULE MCMiner -------------------------------
(***************************************************************************)
(* The miner, the proof-of-authority engine, and the flow control between  *)
(* light clients and their server, checked side by side: part selects the  *)
(* component that this behaviour is one of.  The miner has its own         *)
(* variables; v1 to v8 are those of the others, 0 where there are fewer.   *)
(***************************************************************************)
EXTENDS Miner

VARIABLES part, v1, v2, v3, v4, v5, v6, v7, v8

mcvars == <<vars, part, v1, v2, v3, v4, v5, v6, v7, v8>>

Poa == INSTANCE Clique WITH
  snap <- v1, signer <- v2, proposals <- v3, work <- v4, calls <- v5, latest <- v6,
  broken <- v7,
  Address <- 1 .. 4, Subject <- {1, 4}, Local <- {1, 2}, Genesis <- {1 .. 3},
  Epoch <- 4, Width <- 4, MaxNumber <- 4, MaxProposals <- 1

Flow == INSTANCE LesFlow WITH
  time <- v1, est <- v2, link <- v3, back <- v4, srv <- v5, cm <- v6, late <- v7,
  left <- v8,
  Client <- {1, 2}, BufLimit <- 5, MinRecharge <- 1, safetyMargin <- 1, maxSimReq <- 1,
  Cost <- {2, 7}, W <- 4, Bounds <- {<<1, 3, 3>>, <<2, 3, 0>>}

\* The component has n variables; the other registers are 0.
Unused(n) ==
  /\ n <= 0 => v1 = 0 /\ v2 = 0 /\ v3 = 0 /\ v4 = 0 /\ v5 = 0 /\ v6 = 0 /\ v7 = 0
  /\ n <= 7 => v8 = 0

Step(n) ==
  /\ part' = part
  /\ n # 0 => UNCHANGED vars
  /\ n <= 0 => UNCHANGED <<v1, v2, v3, v4, v5, v6, v7>>
  /\ n <= 7 => UNCHANGED <<v8>>

MCInit ==
  /\ Init
  /\ \/ part = "miner" /\ Unused(0)
     \/ part = "clique" /\ Poa!Init /\ Unused(7)
     \/ part = "flow" /\ Flow!Init /\ Unused(8)

MCNext ==
  \/ part = "miner" /\ Next /\ Step(0)
  \/ part = "clique" /\ Poa!Next /\ Step(7)
  \/ part = "flow" /\ Flow!Next /\ Step(8)

\* The fairness of Miner; nothing is asked of the others.
MCSpec == MCInit /\ [][MCNext]_mcvars /\ Fairness

----------------------------------------------------------------------------
\* clique.go and snapshot.go: the tally counts the votes that stand, recent
\* signers are those of the last blocks, and what is sealed or verified can be
\* applied.
EngineRight ==
  part = "clique" => /\ Poa!TallyRight /\ Poa!RecentsRight
                     /\ Poa!SealedVerifies /\ Poa!VerifiedAppliesLater

\* No step of the engine changes the signers without a majority.
SignersByMajority == [][part = "clique" => Poa!MajorityRules]_mcvars

\* les/flowcontrol: a client that keeps to its buffer is not rejected, and the
\* manager counts the requests that it serves.
FlowRight == part = "flow" => Flow!HonestNotRejected /\ Flow!CountRight
=============================================================================
