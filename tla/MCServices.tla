----------------------------- MODULE MCServices -----------------------------
(***************************************************************************)
(* The services of a node that run until they are told to stop, checked    *)
(* side by side: part selects the component that this behaviour is one of. *)
(* The protocol manager has its own variables; v1 to v14 are those of the  *)
(* others, 0 where a component has fewer.                                  *)
(***************************************************************************)
EXTENDS ProtocolManager, Sequences

CONSTANT None

VARIABLES part, v1, v2, v3, v4, v5, v6, v7, v8, v9, v10, v11, v12, v13, v14

mcvars == <<vars, part, v1, v2, v3, v4, v5, v6, v7, v8, v9, v10, v11, v12, v13, v14>>

Spread == INSTANCE Gossip WITH
  has <- v1, known <- v2, td <- v3, wait <- v4, queue <- v5, ch <- v6,
  Node <- {"a", "b", "c"}, Link <- {{"a", "b"}, {"b", "c"}}, MaxBlock <- 3,
  maxQueueDist <- 3

\* A capability is a name and a version, which here has as many codes.
Codes(cap) == cap[2]

\* Two versions of one protocol and one of another, which the own end all has.
PeerCaps == {<<1, 1>>, <<1, 2>>, <<2, 1>>}

Connected == INSTANCE P2PPeer WITH
  mine <- v1, theirs <- v2, p <- v3,
  Caps <- PeerCaps, Length <- Codes,
  baseProtocolLength <- 2, MaxMsgs <- 1, MaxWrites <- 1

Server == INSTANCE P2PServer WITH
  g <- v1, conn <- v2, fin <- v3, expired <- v4, slots <- v5, listen <- v6, stop <- v7,
  Node <- {"s", "d"}, Trusted <- {}, StaticNodes <- {"s"}, Dialers <- {"d"}, Boot <- "d",
  Random <- {<<>>, <<"d">>}, maxDynDials <- 1, MaxPeers <- 1,
  maxActiveDialTasks <- 1, MaxPendingPeers <- 1

Disc == INSTANCE Discover WITH
  bucket <- v1, db <- v2, plist <- v3, bonds <- v4, slots <- v5, bonding <- v6,
  look <- v7, rl <- v8, count <- v9,
  Node <- {1, 2}, Nursery <- {1}, bucketSize <- 1, alpha <- 1,
  maxBondingPingPongs <- 1, maxFindnodeFailures <- 1, Answers <- {{1, 2}},
  MaxLookups <- 1, MaxEvents <- 1

Rpc == INSTANCE RPC WITH
  d <- v1, rd <- v2, wc <- v3, sd <- v4, op <- v5, respWait <- v6, subs <- v7,
  sub <- v8, closer <- v9, user <- v10, conn <- v11, sv <- v12, notes <- v13,
  events <- v14,
  BatchSize <- 2, maxClientSubscriptionBuffer <- 1, MaxConns <- 2, MaxNotes <- 2,
  MaxEvents <- 1

Ev == INSTANCE Events WITH
  kind <- v1, s <- v2,
  Kind <- {"feed", "mux", "func", "resub"}, Chan <- {"x", "y"}, Sender <- {"p", "q"},
  Buffer <- 1, MaxFails <- 2

\* The component has n variables; the other registers are 0.
Unused(n) ==
  /\ n <= 0 => v1 = 0 /\ v2 = 0
  /\ n <= 2 => v3 = 0
  /\ n <= 3 => v4 = 0 /\ v5 = 0 /\ v6 = 0
  /\ n <= 6 => v7 = 0
  /\ n <= 7 => v8 = 0 /\ v9 = 0
  /\ n <= 9 => v10 = 0 /\ v11 = 0 /\ v12 = 0 /\ v13 = 0 /\ v14 = 0

Step(n) ==
  /\ part' = part
  /\ n # 0 => UNCHANGED vars
  /\ n <= 0 => UNCHANGED <<v1, v2>>
  /\ n <= 2 => UNCHANGED <<v3>>
  /\ n <= 3 => UNCHANGED <<v4, v5, v6>>
  /\ n <= 6 => UNCHANGED <<v7>>
  /\ n <= 7 => UNCHANGED <<v8, v9>>
  /\ n <= 9 => UNCHANGED <<v10, v11, v12, v13, v14>>

MCInit ==
  /\ Init
  /\ \/ part = "manager" /\ Unused(0)
     \/ part = "gossip" /\ Spread!Init /\ Unused(6)
     \/ part = "peer" /\ Connected!Init /\ v1 = PeerCaps /\ Unused(3)
     \/ part = "server" /\ Server!Init /\ Unused(7)
     \/ part = "discover" /\ Disc!Init /\ Unused(9)
     \/ part = "rpc" /\ Rpc!Init /\ Unused(14)
     \/ part = "events" /\ Ev!Init /\ Unused(2)

MCNext ==
  \/ part = "manager" /\ Next /\ Step(0)
  \/ part = "gossip" /\ Spread!Next /\ Step(6)
  \/ part = "peer" /\ Connected!Next /\ Step(3)
  \/ part = "server" /\ Server!Next /\ Step(7)
  \/ part = "discover" /\ Disc!Next /\ Step(9)
  \/ part = "rpc" /\ Rpc!Next /\ Step(14)
  \/ part = "events" /\ Ev!Next /\ Step(2)

MCRests(i) ==
  /\ part = "manager" => Rests(i)
  /\ part = "gossip" => Spread!Rests(i)
  /\ part = "peer" => Connected!Rests(i)
  /\ part = "server" => Server!Rests(i)
  /\ part = "discover" => Disc!Rests(i)
  /\ part = "rpc" => Rpc!Rests(i)
  /\ part = "events" => Ev!Rests(i)

MCMoves(i) ==
  \/ part = "manager" /\ Moves(i)
  \/ part = "gossip" /\ Spread!Moves(i)
  \/ part = "peer" /\ Connected!Moves(i)
  \/ part = "server" /\ Server!Moves(i)
  \/ part = "discover" /\ Disc!Moves(i)
  \/ part = "rpc" /\ Rpc!Moves(i)
  \/ part = "events" /\ Ev!Moves(i)

\* The fairness of each component (its FairSpec), as one formula for all.
MCSpec ==
  /\ MCInit /\ [][MCNext]_mcvars
  /\ \A i \in 1..10 : []<>MCRests(i) \/ []<><<MCMoves(i)>>_mcvars

----------------------------------------------------------------------------

\* rpc, event: no channel is closed twice or used after it was closed, what is
\* sent to subscribers arrives in order and complete, and stopping the server
\* closes what it serves.
DeliveryConsistent ==
  /\ part = "rpc" => Rpc!ChannelsSafe /\ Rpc!NotesComplete /\ Rpc!StopCloses
  /\ part = "events" => Ev!FeedDelivers /\ Ev!MuxSafe

\* Each service comes to rest: Stop returns, blocks spread, a peer's goroutines
\* end, a static node is dialed again and again, calls return, unless what the
\* component's own module names as an exception has happened.
ServicesRest ==
  /\ <>[](/\ Returned
          /\ part = "gossip" => Spread!Spread
          /\ part = "peer" => Connected!Left
          /\ part = "server" => Server!StopEnds
          /\ part = "discover" => Disc!Quiet
          /\ part = "rpc" => Rpc!Stuck \/ Rpc!Quiet
          /\ part = "events" => Ev!Quiet)
  /\ []<>(part = "server" => Server!Wanted("s") /\ Server!Wanted("d"))
=============================================================================
