------------------------------- MODULE Gossip -------------------------------
(***************************************************************************)
(* How a block spreads: BroadcastBlock, the handlers of NewBlock and       *)
(* NewBlockHashes and synchronise (bgm/handler.go, bgm/sync.go), with what *)
(* each node believes its peers know (bgm/peer.go), over a network of      *)
(* nodes.  The fetcher (module Fetcher) and the downloader (Downloader)    *)
(* are one step each here; links keep the order and lose nothing.          *)
(*                                                                         *)
(* There is one chain: a block is its number, which is also its total      *)
(* difficulty.                                                             *)
(***************************************************************************)
EXTENDS Integers, Sequences, FiniteSets, FiniteSetsExt

CONSTANTS
  Node, Link,   \* Link: sets of two nodes
  MaxBlock, maxQueueDist

VARIABLES
  has,    \* height of each node's chain
  known,  \* blocks that a node believes a peer to know
  td,     \* total difficulty that a node believes a peer to have
  wait,   \* blocks that were announced to a node and are to be fetched
  queue,  \* blocks that wait in a node's fetcher
  ch      \* messages under way: <<"block" or "hash", number>>

vars == <<has, known, td, wait, queue, ch>>

Peers(n) == {m \in Node : {n, m} \in Link}

Init ==
  /\ has = [n \in Node |-> 0] /\ wait = [n \in Node |-> {}] /\ queue = [n \in Node |-> {}]
  /\ known = [n \in Node |-> [m \in Peers(n) |-> {}]]
  /\ td = [n \in Node |-> [m \in Peers(n) |-> 0]]
  /\ ch = [n \in Node |-> [m \in Peers(n) |-> <<>>]]

Sqrt(k) == Max({r \in 0..k : r * r <= k})
PeersWithoutBlock(n, b) == {m \in Peers(n) : b \notin known[n][m]}

\* n sends b itself to some peers and its hash to others; both are marked.
Send(n, b, whole, hashes) ==
  /\ known' = [known EXCEPT ![n] = [m \in Peers(n) |->
                 IF m \in whole \cup hashes THEN @[m] \cup {b} ELSE @[m]]]
  /\ ch' = [ch EXCEPT ![n] = [m \in Peers(n) |->
              IF m \in whole THEN Append(@[m], <<"block", b>>)
              ELSE IF m \in hashes THEN Append(@[m], <<"hash", b>>) ELSE @[m]]]

\* Faulty variant: the peers that did not get the block are not told of it.
BroadcastBlockOnly(n, b) ==
  LET open == PeersWithoutBlock(n, b)
  IN  \E whole \in kSubset(Sqrt(Cardinality(open)), open) : Send(n, b, whole, {})

\* The block goes to the root of the number of peers that lack it, before it is
\* imported; its hash to the others, after that.
BroadcastBlock(n, b) ==
  LET open == PeersWithoutBlock(n, b)
  IN  \E whole \in kSubset(Sqrt(Cardinality(open)), open) : Send(n, b, whole, open \ whole)

----------------------------------------------------------------------------
\* A block is mined on the longest chain.
Mine(n) ==
  /\ has[n] < MaxBlock /\ \A m \in Node : has[m] <= has[n]
  /\ has' = [has EXCEPT ![n] = @ + 1]
  /\ BroadcastBlock(n, has[n] + 1)
  /\ UNCHANGED <<td, wait, queue>>

InQueue(n, b) ==
  queue' = [queue EXCEPT ![n] =
              IF b > has[n] /\ b <= has[n] + maxQueueDist THEN @ \cup {b} ELSE @]

\* n handles a message of m.  A block says what its sender had before it.
ReceiveBlock(m, n) ==
  LET b == Head(ch[m][n])[2]
  IN  /\ ch[m][n] # <<>> /\ Head(ch[m][n])[1] = "block"
      /\ ch' = [ch EXCEPT ![m][n] = Tail(@)]
      /\ known' = [known EXCEPT ![n][m] = @ \cup {b}]
      /\ InQueue(n, b)
      /\ td' = [td EXCEPT ![n][m] = Max({@, b - 1})]
      /\ UNCHANGED <<has, wait>>

ReceiveHash(m, n) ==
  LET b == Head(ch[m][n])[2]
  IN  /\ ch[m][n] # <<>> /\ Head(ch[m][n])[1] = "hash"
      /\ ch' = [ch EXCEPT ![m][n] = Tail(@)]
      /\ known' = [known EXCEPT ![n][m] = @ \cup {b}]
      /\ wait' = [wait EXCEPT ![n] = IF b > has[n] THEN @ \cup {b} ELSE @]
      /\ UNCHANGED <<has, td, queue>>

\* The fetcher gets an announced block from the peer that announced it.
Fetch(n, b) ==
  /\ b \in wait[n] /\ wait' = [wait EXCEPT ![n] = @ \ {b}]
  /\ InQueue(n, b)
  /\ UNCHANGED <<has, known, td, ch>>

\* The fetcher imports a block that fits, and passes it on.
Import(n) ==
  /\ has[n] + 1 \in queue[n]
  /\ has' = [has EXCEPT ![n] = @ + 1]
  /\ queue' = [queue EXCEPT ![n] = {b \in @ : b > has[n] + 1}]
  /\ BroadcastBlock(n, has[n] + 1)
  /\ UNCHANGED <<td, wait>>

\* synchronise, because of a NewBlock or the force sync timer.  Of what it has
\* imported a node announces only the head.
Synchronise(n, m) ==
  /\ td[n][m] > has[n]
  /\ has' = [has EXCEPT ![n] = Max({@, has[m]})]
  /\ queue' = [queue EXCEPT ![n] = {b \in @ : b > has'[n]}]
  /\ Send(n, has'[n], {}, PeersWithoutBlock(n, has'[n]))
  /\ UNCHANGED <<td, wait>>

Next ==
  \E n \in Node :
    \/ Mine(n) \/ Import(n)
    \/ \E b \in 1..MaxBlock : Fetch(n, b)
    \/ \E m \in Peers(n) : ReceiveBlock(m, n) \/ ReceiveHash(m, n) \/ Synchronise(n, m)

Links == {l \in Node \X Node : l[2] \in Peers(l[1])}

\* Messages arrive, announcements are fetched, blocks that fit are imported,
\* and syncs with a peer that is known to be ahead are made.
Rests(i) ==
  CASE i = 1 -> \A l \in Links : ch[l[1]][l[2]] = <<>>
    [] i = 2 -> \A n \in Node : wait[n] = {}
    [] i = 3 -> \A n \in Node : has[n] + 1 \notin queue[n]
    [] i = 4 -> \A l \in Links : td[l[1]][l[2]] <= has[l[1]]
    [] OTHER -> TRUE

Moves(i) ==
  CASE i = 1 -> \E l \in Links : Len(ch'[l[1]][l[2]]) < Len(ch[l[1]][l[2]])
    [] i = 2 -> \E n \in Node : wait[n] \ wait'[n] # {}
    [] i \in {3, 4} -> has' # has
    [] OTHER -> FALSE

Spec == Init /\ [][Next]_vars
FairSpec == Spec /\ \A i \in 1..4 : []<>Rests(i) \/ []<><<Moves(i)>>_vars

----------------------------------------------------------------------------
\* A node that knows of a block only as the announced head of a peer's sync
\* cannot import it and does not learn that the peer is ahead.
Orphaned(n) == queue[n] # {} /\ has[n] + 1 \notin queue[n]

\* Every block reaches every node, although most are only told its hash and
\* nobody sends a peer what it is believed to know; unless the block became an
\* orphan there, which the next block that is sent whole would repair.
Spread == \A n, m \in Node : has[n] = has[m] \/ Orphaned(n) \/ Orphaned(m)
\* No node believes a peer to know a block that it neither has nor is about to
\* be told of.
BeliefsRight ==
  \A l \in Links : \A b \in known[l[1]][l[2]] :
    \/ b <= has[l[2]] \/ b \in queue[l[2]] \cup wait[l[2]]
    \/ \E i \in DOMAIN ch[l[1]][l[2]] : ch[l[1]][l[2]][i][2] = b
=============================================================================
