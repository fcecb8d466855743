----------------------------- MODULE LightTxPool -----------------------------
(***************************************************************************)
(* The transactions of a light client: the light chain and the head events *)
(* it posts (light/lightchain.go), the pool that follows them              *)
(* (light/txpool.go), and the relay to servers (les/txrelay.go).           *)
(*                                                                         *)
(* Blocks and what they contain are constants.  All transactions are of    *)
(* one account and valid but for their nonce.  Every header has its        *)
(* ancestors: SyncCht, which jumps ahead, is left out.  Which servers a    *)
(* transaction goes to is a choice: the list comes from a map.             *)
(***************************************************************************)
EXTENDS Integers, Sequences, SequencesExt, FiniteSets, FiniteSetsExt

CONSTANTS
  Block, Genesis, Parent, Number,
  Txs,            \* the transactions of each block
  Tx, Nonce, Peer,
  txPermanent,    \* mined this deep, a transaction is forgotten
  MaxFaults       \* bound on failures, removals, second submissions and so on

VARIABLES
  chain,   \* LightChain: headers, current head, canonical block of each number
  posts,   \* postChainEvents: goroutines, by their event and what they do next
  events,  \* chainHeadCh
  pool, relay,
  peers,
  user,    \* history: what was submitted; what was removed
  past,    \* history: what went before that excuses a property
  faults

vars == <<chain, posts, events, pool, relay, peers, user, past, faults>>

None == 0
ancestry[b \in Block] == IF b = Genesis THEN {b} ELSE ancestry[Parent[b]] \cup {b}
included(b) == UNION {Txs[c] : c \in ancestry[b]}
numbers == {Number[b] : b \in Block}

Init ==
  /\ chain = [known |-> {Genesis}, current |-> Genesis,
              canon |-> [n \in numbers |-> IF n = 0 THEN Genesis ELSE None]]
  /\ posts = {} /\ events = <<>>
  /\ pool = [head |-> Genesis, pending |-> {}, mined |-> [b \in Block |-> {}],
             clearIdx |-> 0, nonce |-> 0]
  /\ relay = [sent |-> [t \in Tx |-> {}], known |-> {}, pending |-> {}]
  /\ peers = Peer /\ user = [sent |-> {}, removed |-> {}] /\ past = {} /\ faults = 0

Fault == faults < MaxFaults /\ faults' = faults + 1

----------------------------------------------------------------------------
(* LightChain.                                                             *)

\* WriteHeader of a header that becomes the head: the canonical numbers follow.
reorganised(b) ==
  [known |-> chain.known \cup {b}, current |-> b,
   canon |-> [n \in numbers |->
                IF n > Number[b] THEN None
                ELSE CHOOSE c \in ancestry[b] : Number[c] = n]]

\* InsertHeaderChain.  Of two branches of the same difficulty either may win.
InsertHeader(b) ==
  /\ b \notin chain.known /\ Parent[b] \in chain.known
  /\ \/ /\ Number[b] >= Number[chain.current]
        /\ chain' = reorganised(b)
        /\ posts' = posts \cup {[hash |-> b, at |-> "check"]}
     \/ /\ Number[b] <= Number[chain.current]
        /\ chain' = [chain EXCEPT !.known = @ \cup {b}]
        /\ UNCHANGED posts
  /\ UNCHANGED <<events, pool, relay, peers, user, past, faults>>

\* postChainEvents: an event of what is not the head any more is not sent.
CheckEvent(e) ==
  /\ e.at = "check"
  /\ posts' = (posts \ {e}) \cup (IF chain.current = e.hash
                                  THEN {[e EXCEPT !.at = "send"]} ELSE {})
  /\ UNCHANGED <<chain, events, pool, relay, peers, user, past, faults>>

\* The goroutines are not ordered: an event may overtake another.
SendEvent(e) ==
  /\ e.at = "send"
  /\ posts' = posts \ {e} /\ events' = Append(events, e.hash)
  /\ past' = IF chain.current = e.hash THEN past ELSE past \cup {"late"}
  /\ UNCHANGED <<chain, pool, relay, peers, user, faults>>

\* Rollback, by the downloader after a failure.  It posts no event.
Rollback ==
  /\ Fault /\ chain.current # Genesis
  /\ chain' = [chain EXCEPT !.current = Parent[@]]
  /\ past' = past \cup {"rollback"}
  /\ UNCHANGED <<posts, events, pool, relay, peers, user>>

----------------------------------------------------------------------------
(* LesTxRelay.                                                             *)

\* send: each transaction goes to up to count servers that do not have it yet.
sends(r, txs, count) ==
  LET open(t) == peers \ r.sent[t]
      fan(t) == kSubset(Min({count, Cardinality(open(t))}), open(t))
  IN  {[r EXCEPT !.sent = [t \in Tx |-> IF t \in txs THEN @[t] \cup to[t] ELSE @[t]],
                 !.pending = @ \cup (txs \ r.known), !.known = @ \cup txs] :
         to \in {f \in [txs -> SUBSET peers] : \A t \in txs : f[t] \in fan(t)}}

newHead(r, mined, rollback) ==
  LET u == [r EXCEPT !.pending = (@ \ mined) \cup rollback]
  IN  IF u.pending \subseteq u.known THEN sends(u, u.pending, 1)
      ELSE {[u EXCEPT !.sent = [t \in Tx |-> {}], !.known = {}]}   \* a nil transaction

discard(r, txs) ==
  [sent |-> [t \in Tx |-> IF t \in txs THEN {} ELSE r.sent[t]],
   known |-> r.known \ txs, pending |-> r.pending \ txs]

Panicked == ~(relay.pending \subseteq relay.known)

\* A server connects, with a new peer object, or leaves.
registerPeer(p) ==
  /\ p \notin peers /\ peers' = peers \cup {p}
  /\ relay' = [relay EXCEPT !.sent = [t \in Tx |-> @[t] \ {p}]]
  /\ UNCHANGED <<chain, posts, events, pool, user, past, faults>>

unregisterPeer(p) ==
  /\ Fault /\ p \in peers /\ peers' = peers \ {p}
  /\ UNCHANGED <<chain, posts, events, pool, relay, user, past>>

----------------------------------------------------------------------------
(* TxPool.                                                                 *)

\* The nonce of the account in the state of the current header.
stateNonce == Cardinality(included(chain.current))

\* validateTx and add.
valid(t) == t \notin pool.pending /\ Nonce[t] >= stateNonce

AddBatch(txs) ==
  LET new == {t \in txs : valid(t)}
  IN  /\ ~Panicked
      /\ pool' = [pool EXCEPT !.pending = @ \cup new,
                              !.nonce = Max({@} \cup {Nonce[t] + 1 : t \in new})]
      /\ IF new = {} THEN UNCHANGED relay ELSE relay' \in sends(relay, new, 3)
      /\ user' = [sent |-> user.sent \cup new, removed |-> user.removed \ new]
      /\ past' = past \cup (IF new \cap included(pool.head) = {} THEN {} ELSE {"behind"})
      /\ IF new \cap user.sent = {} THEN UNCHANGED faults ELSE Fault
      /\ UNCHANGED <<chain, posts, events, peers>>

\* RemoveTx: whether it is pending or mined.
RemoveTx(t) ==
  /\ Fault /\ ~Panicked /\ t \in user.sent \ user.removed
  /\ pool' = [pool EXCEPT !.pending = @ \ {t}]
  /\ relay' = discard(relay, {t})
  /\ user' = [user EXCEPT !.removed = @ \cup {t}]
  /\ past' = past \cup (IF \E b \in Block : t \in pool.mined[b] THEN {"removed"} ELSE {})
  /\ UNCHANGED <<chain, posts, events, peers>>

GetNonce ==
  /\ ~Panicked /\ pool.nonce < stateNonce
  /\ pool' = [pool EXCEPT !.nonce = stateNonce]
  /\ UNCHANGED <<chain, posts, events, relay, peers, user, past, faults>>

\* Faulty variant: transactions of blocks that are left are not pending again.
rollbackTxsNot(p, b) == [p EXCEPT !.mined[b] = {}]

\* rollbackTxs and checkMinedTxs.
rollbackTxs(p, b) ==
  [p EXCEPT !.pending = @ \cup p.mined[b], !.mined[b] = {}]

checkMinedTxs(p, b) ==
  LET list == Txs[b] \cap p.pending
  IN  [p EXCEPT !.pending = @ \ list, !.mined[b] = @ \cup list, !.head = b]

\* A branch, from below.
ordered(bs) ==
  [i \in 1..Cardinality(bs) |->
     CHOOSE b \in bs : Cardinality({c \in bs : Number[c] < Number[b]}) = i - 1]

\* Clearing: what is deep enough in the canonical chain is forgotten.
cleared(p, b) ==
  {c \in Block : /\ Number[c] \in p.clearIdx..Number[b] - txPermanent - 1
                 /\ chain.canon[Number[c]] = c}

clear(p, b) ==
  IF Number[b] > p.clearIdx + txPermanent
  THEN [p EXCEPT !.mined = [c \in Block |-> IF c \in cleared(p, b) THEN {} ELSE @[c]],
                 !.clearIdx = Number[b] - txPermanent]
  ELSE p

\* reorgOnNewHead: back to the common ancestor, then forward; retrieving a block
\* fails after some of them, unless nothing is pending.
back(b) == ancestry[pool.head] \ ancestry[b]
forward(b) == ordered(ancestry[b] \ ancestry[pool.head])
atAncestor(b) ==
  LET common == ancestry[pool.head] \cap ancestry[b]
      top == CHOOSE c \in common : \A d \in common : Number[d] <= Number[c]
      p == [pool EXCEPT !.clearIdx = Min({@, Number[top]})]
  IN  [FoldSet(LAMBDA c, q : rollbackTxs(q, c), p, back(b)) EXCEPT !.head = top]

reorg(b, k) == FoldLeft(checkMinedTxs, atAncestor(b), SubSeq(forward(b), 1, k))

\* setNewHead.
SetNewHead ==
  LET b == Head(events)
  IN  /\ ~Panicked /\ events # <<>> /\ events' = Tail(events)
      /\ \E k \in 0..Len(forward(b)) :
         \E p \in {reorg(b, k)} :
           LET q == IF k = Len(forward(b)) THEN clear(p, b) ELSE p
               gone == UNION {p.mined[c] \ q.mined[c] : c \in Block}
               left == UNION {pool.mined[c] : c \in back(b)}
               found == UNION {p.mined[c] : c \in ancestry[b] \ ancestry[pool.head]}
           IN  /\ k < Len(forward(b)) => Fault /\ p.pending # {}
               /\ k = Len(forward(b)) => UNCHANGED faults
               /\ pool' = q
               /\ relay' \in newHead(discard(relay, gone), found \ left, left \ found)
               /\ past' = past \cup (IF k < Len(forward(b)) THEN {"failed"} ELSE {})
                               \cup (IF gone = {} THEN {} ELSE {"cleared"})
      /\ UNCHANGED <<chain, posts, peers, user>>

----------------------------------------------------------------------------
Next ==
  \/ \E b \in Block : InsertHeader(b)
  \/ \E e \in posts : CheckEvent(e) \/ SendEvent(e)
  \/ Rollback \/ GetNonce \/ SetNewHead
  \/ \E p \in Peer : registerPeer(p) \/ unregisterPeer(p)
  \/ \E t \in Tx : RemoveTx(t)
  \/ \E txs \in SUBSET Tx \ {{}} : AddBatch(txs)

Spec == Init /\ [][Next]_vars

----------------------------------------------------------------------------
\* The pool has come to rest: each event is delivered.
Settled == posts = {} /\ events = <<>>

\* The pool follows the chain through reorganisations: once every event is
\* delivered its head is that of the chain, unless an event came late, a block
\* could not be retrieved, or the downloader rolled back.
HeadFollows ==
  Settled /\ past \cap {"late", "failed", "rollback"} = {} => pool.head = chain.current

\* A transaction that was submitted and not removed is pending exactly if it is
\* not in the chain that the pool has followed, however that was reorganised and
\* wherever it got stuck, unless it was submitted when the chain, though not the
\* pool, had left the block that it is in.
PendingRight ==
  /\ \A t \in pool.pending : t \in included(pool.head) => "behind" \in past
  /\ \A t \in user.sent \ user.removed :
       t \notin pool.pending /\ "cleared" \notin past => t \in included(pool.head)

\* The relay keeps on sending what is pending and nothing else, with the same
\* exception.
RelayAgrees == "behind" \notin past => relay.pending = pool.pending

\* It knows each transaction that it is to send, unless one was removed after
\* it had been mined, or with the exception of the above.
NoPanic == past \cap {"removed", "behind"} = {} => ~Panicked

=============================================================================
