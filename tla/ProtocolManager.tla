--------------------------- MODULE ProtocolManager ---------------------------
(***************************************************************************)
(* Peers of bgm/handler.go: the goroutine that the p2p server starts for   *)
(* each connection (Run, handle), removePeer, which the downloader and the *)
(* fetcher call too, and Stop.  The peer set of bgm/peer.go and that of    *)
(* the downloader are two registries; removePeer takes a peer's name, and  *)
(* a name may connect again.                                               *)
(***************************************************************************)
EXTENDS Integers, FiniteSets

CONSTANTS
  Id, maxPeers,
  MaxConns, MaxDrops   \* bounds: connections of one peer; calls of removePeer

ASSUME ManagerAssumption == IsFiniteSet(Id)

VARIABLES
  c,       \* of each peer: the number of its connection, whether that is open,
           \* where its goroutine is and which connection it looked up last; the
           \* connection in the peer set, or 0; whether the downloader has it;
           \* whether a removePeer hit another connection than it was for
  drop,    \* a call of removePeer from elsewhere: where it is, the connection
           \* that caused it, the connection it has looked up
  drops,
  closed,  \* peerSet.closed
  wg, stop

vars == <<c, drop, drops, closed, wg, stop>>

NoDrop == [at |-> "none", for |-> 0, got |-> 0]

Init ==
  /\ c = [i \in Id |-> [n |-> 0, up |-> FALSE, at |-> "none", got |-> 0,
                        peer |-> 0, down |-> FALSE, missed |-> FALSE]]
  /\ drop = [i \in Id |-> NoDrop] /\ drops = 0
  /\ closed = FALSE /\ wg = 0 /\ stop = "run"

Registered == {i \in Id : c[i].peer # 0}

----------------------------------------------------------------------------
(* Run and handle.                                                         *)

Connect(i) ==
  /\ c[i].at = "none" /\ c[i].n < MaxConns
  /\ c' = [c EXCEPT ![i].n = @ + 1, ![i].up = TRUE, ![i].at = "run"]
  /\ UNCHANGED <<drop, drops, closed, wg, stop>>

\* The syncer takes the peer, until it has received noMorePeers; or quitSync.
Announce(i) ==
  /\ c[i].at = "run"
  /\ \/ stop = "run" /\ c' = [c EXCEPT ![i].at = "add"]
     \/ stop \in {"close", "wait", "done"}
        /\ c' = [c EXCEPT ![i].at = "none", ![i].up = FALSE]
  /\ UNCHANGED <<drop, drops, closed, wg, stop>>

\* wg.Add comes only after the peer has been taken.
Add(i) ==
  /\ c[i].at = "add" /\ wg' = wg + 1
  /\ c' = [c EXCEPT ![i].at =
             IF Cardinality(Registered) >= maxPeers THEN "end" ELSE "handshake"]
  /\ UNCHANGED <<drop, drops, closed, stop>>

Handshake(i) ==
  /\ c[i].at = "handshake"
  /\ c' = [c EXCEPT ![i].at = IF c[i].up THEN "register" ELSE "end"]
  /\ UNCHANGED <<drop, drops, closed, wg, stop>>

\* Faulty variant: the set does not say that it is closed.
RegisterAlways(i) ==
  /\ c[i].at = "register"
  /\ c' = IF c[i].peer # 0 THEN [c EXCEPT ![i].at = "end"]
          ELSE [c EXCEPT ![i].at = "download", ![i].peer = c[i].n]
  /\ UNCHANGED <<drop, drops, closed, wg, stop>>

Register(i) ==
  /\ c[i].at = "register"
  /\ c' = IF closed \/ c[i].peer # 0 THEN [c EXCEPT ![i].at = "end"]
          ELSE [c EXCEPT ![i].at = "download", ![i].peer = c[i].n]
  /\ UNCHANGED <<drop, drops, closed, wg, stop>>

RegisterDownloader(i) ==
  /\ c[i].at = "download"
  /\ c' = [c EXCEPT ![i].down = TRUE, ![i].at = IF c[i].down THEN "remove" ELSE "loop"]
  /\ UNCHANGED <<drop, drops, closed, wg, stop>>

\* Messages are handled until reading fails.
Fails(i) ==
  /\ c[i].at = "loop" /\ ~c[i].up /\ c' = [c EXCEPT ![i].at = "remove"]
  /\ UNCHANGED <<drop, drops, closed, wg, stop>>

\* The deferred removePeer, in its three steps.
Lookup(i) ==
  /\ c[i].at = "remove"
  /\ c' = [c EXCEPT ![i].got = c[i].peer,
                    ![i].at = IF c[i].peer = 0 THEN "end" ELSE "unregister"]
  /\ UNCHANGED <<drop, drops, closed, wg, stop>>

UnregisterDownloader(i) ==
  /\ c[i].at = "unregister" /\ c' = [c EXCEPT ![i].down = FALSE, ![i].at = "forget"]
  /\ UNCHANGED <<drop, drops, closed, wg, stop>>

Unregister(i) ==
  /\ c[i].at = "forget"
  /\ c' = [c EXCEPT ![i].peer = 0, ![i].at = "end", ![i].up = @ /\ c[i].got # c[i].n]
  /\ UNCHANGED <<drop, drops, closed, wg, stop>>

\* wg.Done, and the p2p server forgets the connection.
End(i) ==
  /\ c[i].at = "end" /\ wg' = wg - 1
  /\ c' = [c EXCEPT ![i].at = "none", ![i].up = FALSE, ![i].got = 0]
  /\ UNCHANGED <<drop, drops, closed, stop>>

\* The other side or the network closes the connection.
Disconnect(i) ==
  /\ c[i].up /\ c' = [c EXCEPT ![i].up = FALSE]
  /\ UNCHANGED <<drop, drops, closed, wg, stop>>

----------------------------------------------------------------------------
(* removePeer, called because of something that a connection did: an       *)
(* invalid block, a timeout, a failed sync.                                *)

Blame(i) ==
  /\ drop[i] = NoDrop /\ drops < MaxDrops /\ drops' = drops + 1
  /\ c[i].at = "loop"
  /\ drop' = [drop EXCEPT ![i] = [at |-> "remove", for |-> c[i].n, got |-> 0]]
  /\ UNCHANGED <<c, closed, wg, stop>>

Misses(i) == c[i].missed \/ c[i].peer \notin {0, drop[i].for}

\* Faulty variant: the downloader is not told.
removePeerHalf(i) ==
  /\ \/ /\ drop[i].at = "remove" /\ c' = [c EXCEPT ![i].missed = Misses(i)]
        /\ drop' = [drop EXCEPT ![i] = IF c[i].peer = 0 THEN NoDrop
                      ELSE [@ EXCEPT !.at = "forget", !.got = c[i].peer]]
     \/ /\ drop[i].at = "forget" /\ drop' = [drop EXCEPT ![i] = NoDrop]
        /\ c' = [c EXCEPT ![i].peer = 0, ![i].missed = Misses(i),
                          ![i].up = @ /\ drop[i].got # c[i].n]
  /\ UNCHANGED <<drops, closed, wg, stop>>

removePeer(i) ==
  /\ \/ /\ drop[i].at = "remove" /\ c' = [c EXCEPT ![i].missed = Misses(i)]
        /\ drop' = [drop EXCEPT ![i] = IF c[i].peer = 0 THEN NoDrop
                      ELSE [@ EXCEPT !.at = "unregister", !.got = c[i].peer]]
     \/ /\ drop[i].at = "unregister" /\ drop' = [drop EXCEPT ![i].at = "forget"]
        /\ c' = [c EXCEPT ![i].down = FALSE, ![i].missed = Misses(i)]
     \/ /\ drop[i].at = "forget" /\ drop' = [drop EXCEPT ![i] = NoDrop]
        /\ c' = [c EXCEPT ![i].peer = 0, ![i].missed = Misses(i),
                          ![i].up = @ /\ drop[i].got # c[i].n]
  /\ UNCHANGED <<drops, closed, wg, stop>>

----------------------------------------------------------------------------
\* Stop: the syncer receives noMorePeers; quitSync is closed; the peers are
\* disconnected and no more are registered; the goroutines are waited for.
Stop ==
  /\ \/ stop = "run" /\ stop' = "quit" /\ UNCHANGED <<c, closed>>
     \/ stop = "quit" /\ stop' = "close" /\ UNCHANGED <<c, closed>>
     \/ /\ stop = "close" /\ stop' = "wait" /\ closed' = TRUE
        /\ c' = [i \in Id |-> [c[i] EXCEPT !.up = @ /\ c[i].peer # c[i].n]]
     \/ stop = "wait" /\ wg = 0 /\ stop' = "done" /\ UNCHANGED <<c, closed>>
  /\ UNCHANGED <<drop, drops, wg>>

Handler(i) ==
  \/ Announce(i) \/ Add(i) \/ Handshake(i) \/ Register(i) \/ RegisterDownloader(i)
  \/ Fails(i) \/ Lookup(i) \/ UnregisterDownloader(i) \/ Unregister(i) \/ End(i)

Next ==
  \/ \E i \in Id : Connect(i) \/ Handler(i) \/ Disconnect(i) \/ Blame(i) \/ removePeer(i)
  \/ Stop

\* The goroutines go on, and Stop too once it is called: weak fairness, spelled
\* out as "infinitely often at rest, or infinitely often moved".
Rests(n) ==
  CASE n = 1 -> \A i \in Id : \/ c[i].at = "none"
                              \/ c[i].at = "loop" /\ c[i].up
                              \/ c[i].at = "run" /\ stop = "quit"
    [] n = 2 -> \A i \in Id : drop[i] = NoDrop
    [] n = 3 -> stop \in {"run", "done"} \/ (stop = "wait" /\ wg # 0)
    [] OTHER -> TRUE

Moves(n) ==
  CASE n = 1 -> \E i \in Id : c[i].at # "none" /\ c'[i].at # c[i].at
    [] n = 2 -> \E i \in Id : drop[i] # NoDrop /\ drop'[i] # drop[i]
    [] n = 3 -> stop # "run" /\ stop' # stop
    [] OTHER -> FALSE

Spec == Init /\ [][Next]_vars
FairSpec == Spec /\ \A n \in 1..3 : []<>Rests(n) \/ []<><<Moves(n)>>_vars

----------------------------------------------------------------------------
\* The two registries agree: a peer whose messages are handled is in both, and
\* one whose goroutine has ended is in neither; unless a removePeer because of
\* an earlier connection, or one still under way, comes in between.
RegistriesAgree ==
  \A i \in Id : drop[i] = NoDrop /\ ~c[i].missed =>
    /\ c[i].at = "loop" /\ c[i].up => c[i].peer = c[i].n /\ c[i].down
    /\ c[i].at \in {"none", "run", "add", "handshake", "end"} =>
         c[i].peer = 0 /\ ~c[i].down

\* After Stop no peer is registered or will be, and no message is handled,
\* also by a goroutine that the syncer took but that was not counted in time.
StoppedMeansStopped ==
  stop = "done" =>
    Registered = {} /\ \A i \in Id : c[i].at \notin {"download", "loop"}

\* Stop returns, unless such a late removePeer took a connection out of the
\* peer set that then is not disconnected.
Returned == stop \in {"run", "done"} \/ \E i \in Id : c[i].missed
=============================================================================
