------------------------------- MODULE TxSync -------------------------------
(***************************************************************************)
(* How transactions reach the peers (bgm/sync.go, bgm/handler.go): a peer  *)
(* that connects gets those of the pool through txsyncLoop, in packs, one  *)
(* pack under way at a time; later ones come from txBroadcastLoop.         *)
(*                                                                         *)
(* txsyncLoop keeps what is pending by node, and a node may connect again  *)
(* while a pack to its last connection is still under way.                 *)
(***************************************************************************)
EXTENDS Integers, Sequences, FiniteSets

CONSTANTS
  Tx, Node,
  PackSize,  \* transactions in a pack (a size in bytes in the code)
  MaxConns   \* bound on the connections of a node

ASSUME TxSyncAssumption == "none" \notin Node

VARIABLES
  pool,      \* pending transactions
  txCh,      \* TxPreEvents that txBroadcastLoop has not seen
  conn,      \* of each node: the number of its connection, whether it is open,
             \* registered, and synced (syncTransactions was called); what it
             \* was sent or marked as knowing; history: whether a failed pack to
             \* an earlier connection removed what was pending
  pending,   \* txsyncLoop: node to the connection and what it is to get
  pack,      \* the pack under way, or none
  result     \* what SendTransactions returned for it: "none", "ok" or "err"

vars == <<pool, txCh, conn, pending, pack, result>>

Empty == [n |-> 0, txs |-> {}]
NoPack == [node |-> "none", n |-> 0, txs |-> {}]

Init ==
  /\ pool = {} /\ txCh = <<>>
  /\ conn = [p \in Node |-> [n |-> 0, up |-> FALSE, synced |-> FALSE,
                             sent |-> {}, robbed |-> FALSE]]
  /\ pending = [p \in Node |-> Empty] /\ pack = NoPack /\ result = "none"

----------------------------------------------------------------------------
AddTx(t) ==
  /\ t \notin pool /\ pool' = pool \cup {t} /\ txCh' = Append(txCh, t)
  /\ UNCHANGED <<conn, pending, pack, result>>

\* txBroadcastLoop: BroadcastTx sends to each registered peer without it.
BroadcastTx ==
  /\ txCh # <<>> /\ txCh' = Tail(txCh)
  /\ conn' = [p \in Node |-> [conn[p] EXCEPT
                !.sent = IF conn[p].up THEN @ \cup {Head(txCh)} ELSE @]]
  /\ UNCHANGED <<pool, pending, pack, result>>

\* handle: the peer is registered before syncTransactions looks at the pool.
Connect(p) ==
  /\ ~conn[p].up /\ conn[p].n < MaxConns
  /\ conn' = [conn EXCEPT ![p] = [n |-> @.n + 1, up |-> TRUE, synced |-> FALSE,
                                  sent |-> {}, robbed |-> FALSE]]
  /\ UNCHANGED <<pool, txCh, pending, pack, result>>

Disconnect(p) ==
  /\ conn[p].up /\ conn' = [conn EXCEPT ![p].up = FALSE]
  /\ UNCHANGED <<pool, txCh, pending, pack, result>>

----------------------------------------------------------------------------
(* txsyncLoop.  Two actions may call send.                                 *)

\* Faulty variant: what does not fit into the pack is forgotten.
sendAll(todo, p) ==
  \E txs \in SUBSET todo[p].txs :
    /\ txs # {} /\ Cardinality(txs) <= PackSize
    /\ pack' = [node |-> p, n |-> todo[p].n, txs |-> txs]
    /\ pending' = [todo EXCEPT ![p] = Empty]

\* The first transactions of p, in the order of a map, become the pack.
send(todo, p) ==
  \E txs \in SUBSET todo[p].txs :
    /\ Cardinality(txs) = IF Cardinality(todo[p].txs) < PackSize
                          THEN Cardinality(todo[p].txs) ELSE PackSize
    /\ pack' = [node |-> p, n |-> todo[p].n, txs |-> txs]
    /\ pending' = [todo EXCEPT ![p] = IF txs = @.txs THEN Empty
                                      ELSE [n |-> @.n, txs |-> @.txs \ txs]]

\* syncTransactions hands the pool to the loop, replacing what was pending for
\* this node; the loop sends at once if nothing is under way.
syncTransactions(p) ==
  LET todo == [pending EXCEPT ![p] = [n |-> conn[p].n, txs |-> pool]]
  IN  /\ conn[p].up /\ ~conn[p].synced
      /\ conn' = [conn EXCEPT ![p].synced = TRUE]
      /\ IF pool = {} THEN UNCHANGED <<pending, pack>>
         ELSE IF pack = NoPack THEN send(todo, p)
         ELSE pending' = todo /\ UNCHANGED pack
      /\ UNCHANGED <<pool, txCh, result>>

\* The goroutine that sends: it fails if the connection is gone.
SendTransactions ==
  LET here == conn[pack.node].up /\ conn[pack.node].n = pack.n
  IN  /\ pack # NoPack /\ result = "none"
      /\ result' = IF here THEN "ok" ELSE "err"
      /\ conn' = IF here THEN [conn EXCEPT ![pack.node].sent = @ \cup pack.txs] ELSE conn
      /\ UNCHANGED <<pool, txCh, pending, pack>>

\* The loop hears of it.  After an error nothing stays pending for the node,
\* whichever connection that was meant for.  Then any other node is served.
Done ==
  LET p == pack.node
      todo == IF result = "err" THEN [pending EXCEPT ![p] = Empty] ELSE pending
      left == {r \in Node : todo[r].txs # {}}
  IN  /\ result # "none" /\ result' = "none"
      /\ conn' = [conn EXCEPT ![p].robbed =
                    @ \/ (result = "err" /\ pending[p].n = conn[p].n /\ pack.n # conn[p].n)]
      /\ IF left = {} THEN pack' = NoPack /\ pending' = todo
         ELSE \E r \in left : send(todo, r)
      /\ UNCHANGED <<pool, txCh>>

Next ==
  \/ \E t \in Tx : AddTx(t)
  \/ BroadcastTx \/ SendTransactions \/ Done
  \/ \E p \in Node : Connect(p) \/ Disconnect(p) \/ syncTransactions(p)

\* The three goroutines go on, and so does the handler of each connection.
Rests(i) ==
  CASE i = 1 -> txCh = <<>>
    [] i = 2 -> pack = NoPack \/ result # "none"
    [] i = 3 -> result = "none"
    [] i = 4 -> \A p \in Node : conn[p].up => conn[p].synced
    [] OTHER -> TRUE

Moves(i) ==
  CASE i = 1 -> Len(txCh') < Len(txCh)
    [] i = 2 -> result = "none" /\ result' # "none"
    [] i = 3 -> result # "none" /\ result' = "none"
    [] i = 4 -> \E p \in Node : conn'[p].synced /\ ~conn[p].synced
    [] OTHER -> FALSE

Spec == Init /\ [][Next]_vars
FairSpec == Spec /\ \A i \in 1..4 : []<>Rests(i) \/ []<><<Moves(i)>>_vars

----------------------------------------------------------------------------
\* No transaction falls between the two ways: whatever is in the pool has been
\* sent to a peer, or is pending, in the pack or to be broadcast for it; unless
\* the failed pack of an earlier connection removed what was pending.
EveryTxOnItsWay ==
  \A p \in Node : \A t \in pool :
    conn[p].up /\ conn[p].synced /\ ~conn[p].robbed =>
      \/ t \in conn[p].sent
      \/ \E i \in DOMAIN txCh : txCh[i] = t
      \/ pending[p].n = conn[p].n /\ t \in pending[p].txs
      \/ pack.node = p /\ pack.n = conn[p].n /\ t \in pack.txs

\* And it arrives.
Sent == \A p \in Node : conn[p].up /\ ~conn[p].robbed => pool \subseteq conn[p].sent
=============================================================================
