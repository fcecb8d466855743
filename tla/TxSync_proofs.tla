--------------------------- MODULE TxSync_proofs ---------------------------
(***************************************************************************)
(* Between txBroadcastLoop and txsyncLoop no transaction is forgotten: the *)
(* proof, for any number of nodes, connections and transactions and any    *)
(* size of a pack, that what is in the pool is always on its way.          *)
(***************************************************************************)
EXTENDS TxSync, SequenceTheorems, TLAPS

Connection ==
  [n : Nat, up : BOOLEAN, synced : BOOLEAN, sent : SUBSET Tx, robbed : BOOLEAN]

Todo == [n : Nat, txs : SUBSET Tx]

Pack == [node : Node \cup {"none"}, n : Nat, txs : SUBSET Tx]

TypeOK ==
  /\ pool \in SUBSET Tx /\ txCh \in Seq(Tx)
  /\ conn \in [Node -> Connection]
  /\ pending \in [Node -> Todo]
  /\ pack \in Pack
  /\ result \in {"none", "ok", "err"}

\* What is pending or under way was meant for this connection of the node or for
\* an earlier one; a result is that of a pack.
Dated ==
  /\ \A p \in Node : pending[p].n <= conn[p].n
  /\ pack.node \in Node => pack.n <= conn[pack.node].n
  /\ pack.node = "none" => pack = NoPack
  /\ result # "none" => pack # NoPack

\* A pack that went through has been sent to the connection it was meant for, if
\* that is still the one; one that failed was meant for a connection that ended.
Reported ==
  pack.node \in Node /\ conn[pack.node].up /\ pack.n = conn[pack.node].n =>
    /\ result # "err"
    /\ result = "ok" => pack.txs \subseteq conn[pack.node].sent

IInv == TypeOK /\ Dated /\ Reported /\ EveryTxOnItsWay

\* Transaction t reaches node p in one of four ways.
OnItsWay(p, t) ==
  \/ t \in conn[p].sent
  \/ \E i \in DOMAIN txCh : txCh[i] = t
  \/ pending[p].n = conn[p].n /\ t \in pending[p].txs
  \/ pack.node = p /\ pack.n = conn[p].n /\ t \in pack.txs

Served(p) == conn[p].up /\ conn[p].synced /\ ~conn[p].robbed

LEMMA WayDef ==
  EveryTxOnItsWay <=> \A p \in Node : \A t \in pool : Served(p) => OnItsWay(p, t)
  BY DEF EveryTxOnItsWay, OnItsWay, Served

----------------------------------------------------------------------------
LEMMA InitIInv == Init => IInv
  <1> SUFFICES ASSUME Init PROVE IInv
    OBVIOUS
  <1>1. TypeOK
    BY DEF Init, TypeOK, Connection, Todo, Pack, Empty, NoPack
  <1>2. Dated /\ Reported
    BY TxSyncAssumption DEF Init, Dated, Reported, Empty, NoPack
  <1>3. EveryTxOnItsWay
    BY DEF Init, EveryTxOnItsWay
  <1> QED
    BY <1>1, <1>2, <1>3 DEF IInv

\* send makes a pack of some of what is to be sent to p and keeps the rest: no
\* transaction that was to be sent is lost, and nothing changes for the others.
LEMMA SendKeeps ==
  ASSUME NEW todo \in [Node -> Todo], NEW p \in Node, send(todo, p)
  PROVE  /\ pack' \in Pack /\ pack'.node = p /\ pack'.n = todo[p].n
         /\ pending' \in [Node -> Todo]
         /\ \A r \in Node \ {p} : pending'[r] = todo[r]
         /\ pending'[p] = Empty \/ pending'[p].n = todo[p].n
         /\ \A t \in todo[p].txs :
              t \in pack'.txs \/ (pending'[p].n = todo[p].n /\ t \in pending'[p].txs)
  <1>1. PICK txs \in SUBSET todo[p].txs :
          /\ pack' = [node |-> p, n |-> todo[p].n, txs |-> txs]
          /\ pending' = [todo EXCEPT ![p] = IF txs = @.txs THEN Empty
                                            ELSE [n |-> @.n, txs |-> @.txs \ txs]]
    BY DEF send
  <1>2. todo[p] \in Todo /\ Empty \in Todo
    BY DEF Todo, Empty
  <1>3. pending'[p] = IF txs = todo[p].txs THEN Empty
                      ELSE [n |-> todo[p].n, txs |-> todo[p].txs \ txs]
    BY <1>1
  <1>4. pending'[p] \in Todo
    BY <1>2, <1>3 DEF Todo
  <1>5. pending' \in [Node -> Todo] /\ \A r \in Node \ {p} : pending'[r] = todo[r]
    BY <1>1, <1>2, <1>3, <1>4
  <1>6. pack' \in Pack
    BY <1>1, <1>2 DEF Pack, Todo
  <1>7. pending'[p] = Empty \/ pending'[p].n = todo[p].n
    BY <1>2, <1>3 DEF Todo
  <1>8. ASSUME NEW t \in todo[p].txs
        PROVE  t \in pack'.txs \/ (pending'[p].n = todo[p].n /\ t \in pending'[p].txs)
    BY <1>1, <1>2, <1>3 DEF Todo
  <1> QED
    BY <1>1, <1>5, <1>6, <1>7, <1>8

----------------------------------------------------------------------------
\* The handlers and the two loops, one by one.
LEMMA AddTxIInv ==
  ASSUME IInv, NEW t \in Tx, AddTx(t)
  PROVE  IInv'
  <1>1. txCh' \in Seq(Tx) /\ txCh' = Append(txCh, t) /\ txCh \in Seq(Tx)
    BY DEF IInv, TypeOK, AddTx
  <1>2. TypeOK'
    BY <1>1 DEF IInv, TypeOK, AddTx
  <1>3. Dated' /\ Reported'
    BY DEF IInv, AddTx, Dated, Reported
  <1>4. ASSUME NEW p \in Node, NEW u \in pool', Served(p)'
        PROVE  OnItsWay(p, u)'
    <2>1. CASE u = t
      <3>1. txCh'[Len(txCh) + 1] = t /\ Len(txCh) + 1 \in DOMAIN txCh'
        BY <1>1
      <3> QED
        BY <2>1, <3>1 DEF OnItsWay
    <2>2. CASE u # t
      <3>1. u \in pool /\ Served(p)
        BY <1>4, <2>2 DEF AddTx, Served
      <3>2. OnItsWay(p, u)
        BY <3>1, WayDef DEF IInv
      <3>3. \A i \in DOMAIN txCh : i \in DOMAIN txCh' /\ txCh'[i] = txCh[i]
        BY <1>1
      <3> QED
        BY <3>2, <3>3 DEF OnItsWay, AddTx
    <2> QED
      BY <2>1, <2>2
  <1> QED
    BY <1>2, <1>3, <1>4 DEF IInv, EveryTxOnItsWay, OnItsWay, Served

LEMMA BroadcastTxIInv ==
  ASSUME IInv, BroadcastTx
  PROVE  IInv'
  <1>1. /\ txCh \in Seq(Tx) /\ txCh # <<>> /\ txCh' = Tail(txCh)
        /\ Head(txCh) \in Tx /\ txCh' \in Seq(Tx)
    BY DEF IInv, TypeOK, BroadcastTx
  <1>2. ASSUME NEW p \in Node
        PROVE  /\ conn'[p] \in Connection
               /\ conn'[p].n = conn[p].n /\ conn'[p].up = conn[p].up
               /\ conn'[p].synced = conn[p].synced /\ conn'[p].robbed = conn[p].robbed
               /\ conn[p].sent \subseteq conn'[p].sent
               /\ conn[p].up => Head(txCh) \in conn'[p].sent
    <2>1. conn[p] \in Connection
      BY DEF IInv, TypeOK
    <2>2. conn'[p] = [conn[p] EXCEPT !.sent = IF conn[p].up THEN @ \cup {Head(txCh)} ELSE @]
      BY DEF BroadcastTx
    <2> QED
      BY <1>1, <2>1, <2>2 DEF Connection
  <1>3. TypeOK'
    <2>1. conn' \in [Node -> Connection]
      BY <1>2 DEF BroadcastTx
    <2> QED
      BY <1>1, <2>1 DEF IInv, TypeOK, BroadcastTx
  <1>4. Dated' /\ Reported'
    BY <1>2 DEF IInv, BroadcastTx, Dated, Reported
  <1>5. ASSUME NEW p \in Node, NEW u \in pool', Served(p)'
        PROVE  OnItsWay(p, u)'
    <2>1. u \in pool /\ Served(p)
      BY <1>2, <1>5 DEF BroadcastTx, Served
    <2>2. OnItsWay(p, u)
      BY <2>1, WayDef DEF IInv
    <2>3. ASSUME NEW i \in DOMAIN txCh, txCh[i] = u, u # Head(txCh)
          PROVE  \E j \in DOMAIN txCh' : txCh'[j] = u
      <3>1. i - 1 \in DOMAIN txCh' /\ txCh'[i - 1] = txCh[i]
        BY <1>1, <2>3
      <3> QED
        BY <2>3, <3>1
    <2> QED
      BY <1>2, <2>1, <2>2, <2>3 DEF OnItsWay, BroadcastTx, Served
  <1> QED
    BY <1>3, <1>4, <1>5 DEF IInv, EveryTxOnItsWay, OnItsWay, Served

\* A new connection has a number that nothing pending or under way has.
LEMMA ConnectIInv ==
  ASSUME IInv, NEW p \in Node, Connect(p)
  PROVE  IInv'
  <1>1. conn[p] \in Connection /\ conn \in [Node -> Connection]
    BY DEF IInv, TypeOK
  <1>2. /\ conn'[p] = [n |-> conn[p].n + 1, up |-> TRUE, synced |-> FALSE,
                       sent |-> {}, robbed |-> FALSE]
        /\ \A r \in Node \ {p} : conn'[r] = conn[r]
        /\ conn' \in [Node -> Connection]
    BY <1>1 DEF Connect, Connection
  <1>3. TypeOK'
    BY <1>2 DEF IInv, TypeOK, Connect
  <1>4. Dated'
    BY <1>1, <1>2 DEF IInv, TypeOK, Todo, Pack, Connection, Dated, Connect
  <1>5. Reported'
    <2>1. CASE pack.node = p
      BY <1>1, <1>2, <2>1 DEF IInv, TypeOK, Pack, Connection, Dated, Reported, Connect
    <2>2. CASE pack.node # p
      BY <1>2, <2>2 DEF IInv, Reported, Connect
    <2> QED
      BY <2>1, <2>2
  <1>6. EveryTxOnItsWay'
    BY <1>2 DEF IInv, EveryTxOnItsWay, Connect
  <1> QED
    BY <1>3, <1>4, <1>5, <1>6 DEF IInv

LEMMA DisconnectIInv ==
  ASSUME IInv, NEW p \in Node, Disconnect(p)
  PROVE  IInv'
  <1>1. conn[p] \in Connection /\ conn \in [Node -> Connection]
    BY DEF IInv, TypeOK
  <1>2. /\ conn'[p] = [conn[p] EXCEPT !.up = FALSE]
        /\ \A r \in Node \ {p} : conn'[r] = conn[r]
        /\ conn' \in [Node -> Connection]
    BY <1>1 DEF Disconnect, Connection
  <1>3. conn'[p].n = conn[p].n /\ ~conn'[p].up
    BY <1>1, <1>2 DEF Connection
  <1>4. TypeOK'
    BY <1>2 DEF IInv, TypeOK, Disconnect
  <1>5. Dated' /\ Reported'
    BY <1>2, <1>3 DEF IInv, Dated, Reported, Disconnect
  <1>6. EveryTxOnItsWay'
    BY <1>2, <1>3 DEF IInv, EveryTxOnItsWay, Disconnect
  <1> QED
    BY <1>4, <1>5, <1>6 DEF IInv

LEMMA SyncTransactionsIInv ==
  ASSUME IInv, NEW p \in Node, syncTransactions(p)
  PROVE  IInv'
  <1> DEFINE todo == [pending EXCEPT ![p] = [n |-> conn[p].n, txs |-> pool]]
  <1>1. /\ conn[p] \in Connection /\ conn \in [Node -> Connection]
        /\ pending \in [Node -> Todo] /\ pool \in SUBSET Tx /\ pack \in Pack
    BY DEF IInv, TypeOK
  <1>2. /\ conn'[p] = [conn[p] EXCEPT !.synced = TRUE]
        /\ \A r \in Node \ {p} : conn'[r] = conn[r]
        /\ conn' \in [Node -> Connection]
    BY <1>1 DEF syncTransactions, Connection
  <1>3. \A r \in Node : /\ conn'[r].n = conn[r].n /\ conn'[r].up = conn[r].up
                        /\ conn'[r].sent = conn[r].sent
                        /\ conn'[r].robbed = conn[r].robbed
                        /\ r # p => conn'[r].synced = conn[r].synced
    BY <1>1, <1>2 DEF Connection
  <1>4. /\ todo \in [Node -> Todo] /\ \A r \in Node \ {p} : todo[r] = pending[r]
        /\ todo[p].n = conn[p].n /\ todo[p].txs = pool
    BY <1>1 DEF Todo, Connection
  <1>5. pool' = pool /\ txCh' = txCh /\ result' = result
    BY DEF syncTransactions
  <1>6. /\ pool = {} => pending' = pending /\ pack' = pack
        /\ pool # {} /\ pack = NoPack => send(todo, p)
        /\ pool # {} /\ pack # NoPack => pending' = todo /\ pack' = pack
    BY DEF syncTransactions
  <1> HIDE DEF todo
  <1>7. CASE pool = {}
    <2>1. TypeOK' /\ Dated' /\ Reported'
      BY <1>2, <1>3, <1>5, <1>6, <1>7 DEF IInv, TypeOK, Dated, Reported
    <2> QED
      BY <1>5, <1>7, <2>1 DEF IInv, EveryTxOnItsWay
  <1>8. CASE pool # {} /\ pack # NoPack
    <2>1. TypeOK'
      BY <1>2, <1>4, <1>5, <1>6, <1>8 DEF IInv, TypeOK
    <2>2. \A r \in Node : conn[r].n \in Nat
      BY <1>1 DEF Connection
    <2>3. Dated' /\ Reported'
      BY <1>3, <1>4, <1>5, <1>6, <1>8, <2>2 DEF IInv, Dated, Reported
    <2>4. ASSUME NEW r \in Node, NEW t \in pool', Served(r)'
          PROVE  OnItsWay(r, t)'
      <3>1. CASE r = p
        BY <1>3, <1>4, <1>5, <1>6, <1>8, <3>1 DEF OnItsWay
      <3>2. CASE r # p
        <4>1. Served(r) /\ t \in pool
          BY <1>3, <1>5, <2>4, <3>2 DEF Served
        <4>2. OnItsWay(r, t)
          BY <4>1, WayDef DEF IInv
        <4> QED
          BY <1>3, <1>4, <1>5, <1>6, <1>8, <3>2, <4>2 DEF OnItsWay
      <3> QED
        BY <3>1, <3>2
    <2> QED
      BY <2>1, <2>3, <2>4 DEF IInv, EveryTxOnItsWay, OnItsWay, Served
  <1>9. CASE pool # {} /\ pack = NoPack
    <2>1. send(todo, p)
      BY <1>6, <1>9
    <2>2. /\ pack' \in Pack /\ pack'.node = p /\ pack'.n = todo[p].n
          /\ pending' \in [Node -> Todo]
          /\ \A r \in Node \ {p} : pending'[r] = todo[r]
          /\ pending'[p] = Empty \/ pending'[p].n = todo[p].n
          /\ \A t \in todo[p].txs :
              t \in pack'.txs \/ (pending'[p].n = todo[p].n /\ t \in pending'[p].txs)
      BY <1>4, <2>1, SendKeeps
    <2>3. TypeOK'
      BY <1>2, <1>5, <2>2 DEF IInv, TypeOK
    <2>4. \A r \in Node : conn[r].n \in Nat
      BY <1>1 DEF Connection
    <2>5. result = "none" /\ pack.node = "none"
      BY <1>9 DEF IInv, Dated, NoPack
    <2>6. pack'.node # "none"
      BY <2>2, TxSyncAssumption
    <2>7. Dated' /\ Reported'
      BY <1>3, <1>4, <1>5, <2>2, <2>4, <2>5, <2>6 DEF IInv, Dated, Reported, Empty
    <2>8. ASSUME NEW r \in Node, NEW t \in pool', Served(r)'
          PROVE  OnItsWay(r, t)'
      <3>1. CASE r = p
        BY <1>3, <1>4, <1>5, <2>2, <3>1 DEF OnItsWay
      <3>2. CASE r # p
        <4>1. Served(r) /\ t \in pool
          BY <1>3, <1>5, <2>8, <3>2 DEF Served
        <4>2. OnItsWay(r, t) /\ pack.node # r
          BY <2>5, <4>1, WayDef, TxSyncAssumption DEF IInv
        <4> QED
          BY <1>3, <1>4, <1>5, <2>2, <3>2, <4>2 DEF OnItsWay
      <3> QED
        BY <3>1, <3>2
    <2> QED
      BY <2>3, <2>7, <2>8 DEF IInv, EveryTxOnItsWay, OnItsWay, Served
  <1> QED
    BY <1>7, <1>8, <1>9

\* A pack is sent to the connection it was meant for or not at all.
LEMMA SendTransactionsIInv ==
  ASSUME IInv, SendTransactions
  PROVE  IInv'
  <1> DEFINE q == pack.node
  <1>1. /\ q \in Node /\ conn[q] \in Connection /\ conn \in [Node -> Connection]
        /\ pack \in Pack /\ pack # NoPack
    BY DEF IInv, TypeOK, SendTransactions, Dated, Pack
  <1>2. /\ pool' = pool /\ txCh' = txCh /\ pending' = pending /\ pack' = pack
        /\ result = "none"
    BY DEF SendTransactions
  <1> HIDE DEF q
  <1>3. CASE conn[q].up /\ conn[q].n = pack.n
    <2>1. result' = "ok" /\ conn' = [conn EXCEPT ![q].sent = @ \cup pack.txs]
      BY <1>3 DEF SendTransactions, q
    <2>2. /\ conn' \in [Node -> Connection]
          /\ conn'[q].sent = conn[q].sent \cup pack.txs
          /\ \A r \in Node : /\ conn'[r].n = conn[r].n /\ conn'[r].up = conn[r].up
                             /\ conn'[r].synced = conn[r].synced
                             /\ conn'[r].robbed = conn[r].robbed
                             /\ conn[r].sent \subseteq conn'[r].sent
      BY <1>1, <2>1 DEF Connection, Pack
    <2>3. TypeOK'
      BY <1>2, <2>1, <2>2 DEF IInv, TypeOK
    <2>4. Dated' /\ Reported'
      BY <1>1, <1>2, <2>1, <2>2 DEF IInv, Dated, Reported, q
    <2>5. EveryTxOnItsWay'
      BY <1>2, <2>2 DEF IInv, EveryTxOnItsWay
    <2> QED
      BY <2>3, <2>4, <2>5 DEF IInv
  <1>4. CASE ~(conn[q].up /\ conn[q].n = pack.n)
    <2>1. result' = "err" /\ conn' = conn
      BY <1>4 DEF SendTransactions, q
    <2>2. TypeOK' /\ Dated' /\ EveryTxOnItsWay'
      BY <1>1, <1>2, <2>1 DEF IInv, TypeOK, Dated, EveryTxOnItsWay
    <2>3. Reported'
      BY <1>2, <1>4, <2>1 DEF Reported, q
    <2> QED
      BY <2>2, <2>3 DEF IInv
  <1> QED
    BY <1>3, <1>4

\* What Done takes from pending for the node of the pack is either for an earlier
\* connection, or for this one, and then the node is said to be robbed.
LEMMA DoneIInv ==
  ASSUME IInv, Done
  PROVE  IInv'
  <1> DEFINE q == pack.node
             todo == IF result = "err" THEN [pending EXCEPT ![q] = Empty] ELSE pending
             left == {r \in Node : todo[r].txs # {}}
  <1>1. /\ q \in Node /\ conn[q] \in Connection /\ conn \in [Node -> Connection]
        /\ pack \in Pack /\ pending \in [Node -> Todo]
    BY DEF IInv, TypeOK, Done, Dated, Pack
  <1>2. pool' = pool /\ txCh' = txCh /\ result' = "none" /\ result # "none"
    BY DEF Done
  <1>3. \/ left = {} /\ pack' = NoPack /\ pending' = todo
        \/ \E r \in left : send(todo, r)
    BY DEF Done
  <1>4. PICK robbed \in BOOLEAN :
          /\ conn' = [conn EXCEPT ![q].robbed = robbed]
          /\ conn[q].robbed => robbed
          /\ result = "err" /\ pending[q].n = conn[q].n /\ pack.n # conn[q].n => robbed
    <2>1. conn[q].robbed \in BOOLEAN
      BY <1>1 DEF Connection
    <2>2. (conn[q].robbed \/ (/\ result = "err" /\ pending[q].n = conn[q].n
                             /\ pack.n # conn[q].n)) \in BOOLEAN
      BY <2>1
    <2> QED
      BY <2>2 DEF Done, q
  <1>5. /\ conn' \in [Node -> Connection]
        /\ conn'[q].robbed = robbed
        /\ \A r \in Node : /\ conn'[r].n = conn[r].n /\ conn'[r].up = conn[r].up
                           /\ conn'[r].synced = conn[r].synced
                           /\ conn'[r].sent = conn[r].sent
                           /\ r # q => conn'[r].robbed = conn[r].robbed
    BY <1>1, <1>4 DEF Connection
  <1>6. /\ todo \in [Node -> Todo] /\ \A r \in Node \ {q} : todo[r] = pending[r]
        /\ result = "err" => todo[q] = Empty
        /\ result # "err" => todo[q] = pending[q]
    BY <1>1 DEF Todo, Empty
  <1>7. /\ \A r \in Node : todo[r].n <= conn[r].n
        /\ \A r \in Node : conn[r].n \in Nat
    <2>1. \A r \in Node : conn[r].n \in Nat
      BY <1>1 DEF Connection
    <2> QED
      BY <1>6, <2>1 DEF IInv, Dated, Empty
  \* What was on its way to a node that is served and not robbed is in todo, if it
  \* was not sent and is not to be broadcast.
  <1>8. ASSUME NEW r \in Node, NEW t \in pool', Served(r)', t \notin conn[r].sent,
               ~\E i \in DOMAIN txCh : txCh[i] = t
        PROVE  todo[r].n = conn[r].n /\ t \in todo[r].txs
    <2>1. Served(r) /\ t \in pool
      BY <1>2, <1>4, <1>5, <1>8 DEF Served, q
    <2>2. \/ pending[r].n = conn[r].n /\ t \in pending[r].txs
          \/ q = r /\ pack.n = conn[r].n /\ t \in pack.txs
      BY <1>8, <2>1, WayDef DEF IInv, OnItsWay, q
    <2>3. CASE r # q
      BY <1>6, <2>2, <2>3
    <2>4. CASE r = q
      <3>1. conn[q].up /\ ~robbed
        BY <1>5, <1>8, <2>4 DEF Served
      <3>2. pack.n = conn[q].n => result = "ok" /\ pack.txs \subseteq conn[q].sent
        BY <1>1, <1>2, <3>1 DEF IInv, Reported, TypeOK, q
      <3>3. pending[q].n = conn[q].n /\ t \in pending[q].txs
        BY <1>8, <2>2, <2>4, <3>2
      <3>4. result # "err"
        BY <1>4, <3>1, <3>2, <3>3
      <3> QED
        BY <1>6, <2>4, <3>3, <3>4
    <2> QED
      BY <2>3, <2>4
  <1> HIDE DEF q, todo
  <1>9. CASE left = {} /\ pack' = NoPack /\ pending' = todo
    <2>1. TypeOK'
      BY <1>2, <1>5, <1>6, <1>9 DEF IInv, TypeOK, Pack, NoPack
    <2>2. Dated' /\ Reported'
      BY <1>2, <1>5, <1>7, <1>9, TxSyncAssumption DEF Dated, Reported, NoPack
    <2>3. EveryTxOnItsWay'
      BY <1>2, <1>5, <1>8, <1>9 DEF EveryTxOnItsWay, Served
    <2> QED
      BY <2>1, <2>2, <2>3 DEF IInv
  <1>10. ASSUME NEW s \in left, send(todo, s)
         PROVE  IInv'
    <2>1. /\ s \in Node
          /\ pack' \in Pack /\ pack'.node = s /\ pack'.n = todo[s].n
          /\ pending' \in [Node -> Todo]
          /\ \A r \in Node \ {s} : pending'[r] = todo[r]
          /\ pending'[s] = Empty \/ pending'[s].n = todo[s].n
          /\ \A t \in todo[s].txs :
              t \in pack'.txs \/ (pending'[s].n = todo[s].n /\ t \in pending'[s].txs)
      BY <1>6, <1>10, SendKeeps
    <2>2. TypeOK'
      BY <1>2, <1>5, <2>1 DEF IInv, TypeOK
    <2>3. pack'.node # "none"
      BY <2>1, TxSyncAssumption
    <2>4. Dated' /\ Reported'
      BY <1>2, <1>5, <1>7, <2>1, <2>3 DEF Dated, Reported, Empty
    <2>5. ASSUME NEW r \in Node, NEW t \in pool', Served(r)'
          PROVE  OnItsWay(r, t)'
      <3>1. CASE t \in conn[r].sent \/ \E i \in DOMAIN txCh : txCh[i] = t
        BY <1>2, <1>5, <3>1 DEF OnItsWay
      <3>2. CASE todo[r].n = conn[r].n /\ t \in todo[r].txs
        BY <1>5, <2>1, <3>2 DEF OnItsWay
      <3> QED
        BY <1>8, <2>5, <3>1, <3>2
    <2> QED
      BY <2>2, <2>4, <2>5 DEF IInv, EveryTxOnItsWay, OnItsWay, Served
  <1> QED
    BY <1>3, <1>9, <1>10

----------------------------------------------------------------------------
LEMMA NextIInv == IInv /\ [Next]_vars => IInv'
  <1> SUFFICES ASSUME IInv, [Next]_vars PROVE IInv'
    OBVIOUS
  <1>1. ASSUME NEW t \in Tx, AddTx(t) PROVE IInv'
    BY <1>1, AddTxIInv
  <1>2. CASE BroadcastTx
    BY <1>2, BroadcastTxIInv
  <1>3. CASE SendTransactions
    BY <1>3, SendTransactionsIInv
  <1>4. CASE Done
    BY <1>4, DoneIInv
  <1>5. ASSUME NEW p \in Node, Connect(p) PROVE IInv'
    BY <1>5, ConnectIInv
  <1>6. ASSUME NEW p \in Node, Disconnect(p) PROVE IInv'
    BY <1>6, DisconnectIInv
  <1>7. ASSUME NEW p \in Node, syncTransactions(p) PROVE IInv'
    BY <1>7, SyncTransactionsIInv
  <1>8. CASE UNCHANGED vars
    BY <1>8 DEF vars, IInv, TypeOK, Dated, Reported, EveryTxOnItsWay
  <1> QED
    BY <1>1, <1>2, <1>3, <1>4, <1>5, <1>6, <1>7, <1>8 DEF Next

\* No transaction of the pool is forgotten for a peer that is connected and whose
\* handler has called syncTransactions (bgm/sync.go): it has been sent, is to be
\* broadcast, is pending in txsyncLoop or in the pack under way; the one way to
\* lose it is a failed pack to an earlier connection of the same node.
THEOREM TxsStayOnTheirWay == Spec => []EveryTxOnItsWay
  <1>1. IInv => EveryTxOnItsWay
    BY DEF IInv
  <1> QED
    BY InitIInv, NextIInv, <1>1, PTL DEF Spec
=============================================================================
