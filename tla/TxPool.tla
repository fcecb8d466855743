------------------------------- MODULE TxPool -------------------------------
(***************************************************************************)
(* The transaction pool of core/tx_pool.go with its lists (tx_list.go) and *)
(* its journal (tx_journal.go).  Every operation holds pool.mu and is one  *)
(* step; it is written as a function from a pool to a pool.                *)
(*                                                                         *)
(* Abstractions: a transaction is its sender, nonce and price, and costs   *)
(* its price; size, signature, gas and the limits on them are left out.  A *)
(* list is the set of its transactions: txSortedMap's index and cache are  *)
(* left out.  A chain is the sequence of its transactions, one per block,  *)
(* and a head's nonces and balances follow from it.  Heap entries of one   *)
(* price are taken in a fixed order.                                       *)
(***************************************************************************)
EXTENDS Integers, Sequences, SequencesExt, FiniteSets, FiniteSetsExt, Bags, BagsExt

CONSTANTS
  Address,
  Transactions,   \* the transactions that exist: records from, nonce, price
  Funds,          \* balance of every account before the first block
  PriceLimit, PriceBump,
  AccountSlots, GlobalSlots, AccountQueue, GlobalQueue,
  ReheapShare,    \* 4: stale heap entries beyond this share cause a rebuild
  MaxReorg,       \* 64: deeper reorganisations reinject nothing
  Prices,         \* the thresholds SetGasPrice is called with
  MaxBlocks,      \* bound on the length of the chain
  MaxAdds,        \* bound on the submissions of a behaviour
  MaxEvents       \* bound on everything else that happens to the pool

VARIABLES
  pool,      \* the pool's maps, heap, local accounts and nonces
  head,      \* the head that loop has seen, a chain
  current,   \* the head whose state currentState is
  gasPrice,
  journal,   \* the journal's file, and whether a writer is open
  owed,      \* history: what was accepted for journalling
  adds, events

vars == <<pool, head, current, gasPrice, journal, owed, adds, events>>

----------------------------------------------------------------------------
\* The chain: nonce and balance of an account at a head.
Of(chain, a) == SelectSeq(chain, LAMBDA tx : tx.from = a)
GetNonce(chain, a) == Len(Of(chain, a))
GetBalance(chain, a) == Funds - FoldLeft(LAMBDA s, tx : s + tx.price, 0, Of(chain, a))

\* Chains whose every transaction is next in its account's order and paid for.
Chains ==
  {c \in BoundedSeq(Transactions, MaxBlocks) : \A i \in DOMAIN c :
     LET before == SubSeq(c, 1, i - 1)
     IN  /\ c[i].nonce = GetNonce(before, c[i].from)
         /\ c[i].price <= GetBalance(before, c[i].from)}

----------------------------------------------------------------------------
\* txList, as the set of its transactions and its costcap.
NoList == [txs |-> {}, costcap |-> 0]
Nonces(list) == {tx.nonce : tx \in list.txs}
At(list, n) == {tx \in list.txs : tx.nonce = n}
Size(list) == Cardinality(list.txs)
Drop(list, txs) == [list EXCEPT !.txs = @ \ txs]
Sorted(txs) ==
  SetToSortSeq(txs, LAMBDA x, y : x.nonce < y.nonce \/ (x.nonce = y.nonce /\ x.price < y.price))

\* The transaction that tx would replace must be outbid by PriceBump percent.
Outbids(list, tx) ==
  \A old \in At(list, tx.nonce) :
    /\ old.price < tx.price
    /\ (old.price * (100 + PriceBump)) \div 100 <= tx.price

ListAdd(list, tx) ==
  [txs |-> (list.txs \ At(list, tx.nonce)) \cup {tx},
   costcap |-> Max({list.costcap, tx.price})]

\* Forward and Cap: what leaves the list.
Below(list, nonce) == {tx \in list.txs : tx.nonce < nonce}
Beyond(list, threshold) ==
  {tx \in list.txs : Cardinality(Below(list, tx.nonce)) >= threshold}

\* Filter: the unpayable transactions and, for a strict list, all later ones.
Unpayable(list, limit) ==
  IF list.costcap <= limit THEN {} ELSE {tx \in list.txs : tx.price > limit}
After(list, txs) ==
  {tx \in list.txs : \E r \in txs : r.nonce < tx.nonce}
Filtered(list, limit) ==
  [list EXCEPT !.costcap = IF @ <= limit THEN @ ELSE limit]

\* Ready: the run of nonces from the lowest, if that is due.
Ready(list, start) ==
  IF list.txs = {} \/ Min(Nonces(list)) > start THEN {}
  ELSE {tx \in list.txs : \A n \in Min(Nonces(list))..tx.nonce : At(list, n) # {}}

----------------------------------------------------------------------------
\* txPricedList: a heap that keeps entries of removed transactions until the
\* stale ones are too many; stales counts them.
Put(p, tx) == [p EXCEPT !.items = BagAdd(@, tx)]

Removed(p) ==
  IF p.stales + 1 > BagCardinality(p.items) \div ReheapShare
  THEN [p EXCEPT !.stales = 0, !.items = SetToBag(p.all)]
  ELSE [p EXCEPT !.stales = @ + 1]

\* delete(pool.all, hash) and priced.Removed(), for each of a set.
Forget(p, txs) ==
  FoldLeft(LAMBDA q, tx : Removed([q EXCEPT !.all = @ \ {tx}]), p, Sorted(txs))

Cheapest(p) ==
  CHOOSE tx \in DOMAIN p.items : \A other \in DOMAIN p.items : tx.price <= other.price

RECURSIVE DropStaleHead(_)
DropStaleHead(p) ==
  IF DOMAIN p.items = {} \/ Cheapest(p) \in p.all THEN p
  ELSE DropStaleHead([p EXCEPT !.items = BagRemove(@, Cheapest(p)), !.stales = @ - 1])

\* Pop entries until enough transactions are found that may go: Discard's count
\* or, for Cap, all below a price.  Entries of local accounts are put back.
RECURSIVE Pop(_, _, _, _, _)
Pop(p, count, price, drop, save) ==
  LET tx   == Cheapest(p)
      rest == [p EXCEPT !.items = BagRemove(@, tx)]
      done == [p |-> [p EXCEPT !.items = @ (+) save], drop |-> drop]
  IN  IF count = 0 \/ DOMAIN p.items = {} THEN done
      ELSE IF tx \notin p.all
           THEN Pop([rest EXCEPT !.stales = @ - 1], count, price, drop, save)
      ELSE IF tx.price >= price
           THEN done
      ELSE IF tx.from \in p.locals
           THEN Pop(rest, count, price, drop, BagAdd(save, tx))
           ELSE Pop(rest, count - 1, price, Append(drop, tx), save)

NoPrice == 1 + Max({tx.price : tx \in Transactions})
Discard(p, count) == Pop(p, count, NoPrice, <<>>, EmptyBag)
CapPrice(p, price) == Pop(p, -1, price, <<>>, EmptyBag)

----------------------------------------------------------------------------
\* enqueueTx.  A transaction that does not outbid its predecessor is not taken.
Enqueues(p, tx) == Outbids(p.queue[tx.from], tx)

enqueueTx(p, tx) ==
  LET list == p.queue[tx.from]
      old  == At(list, tx.nonce)
      q    == Forget([p EXCEPT !.queue[tx.from] = ListAdd(list, tx)], old)
  IN  IF Enqueues(p, tx) THEN Put([q EXCEPT !.all = @ \cup {tx}], tx) ELSE p

enqueueAll(p, txs) == FoldLeft(enqueueTx, p, Sorted(txs))

SetList(p, a, list) ==
  [p EXCEPT !.pending[a] = IF list.txs = {} THEN NoList ELSE list,
            !.beats = IF list.txs = {} THEN Remove(@, a) ELSE @]
SetQueue(p, a, list) ==
  [p EXCEPT !.queue[a] = IF list.txs = {} THEN NoList ELSE list]

\* removeTx.  When the removed transaction was the first of its account, the
\* list is empty once the later ones were taken out of it, and these are not
\* put into the queue.
RemovePending(p, a, n, later) ==
  LET rest == Drop(p.pending[a], At(p.pending[a], n) \cup later)
      q    == enqueueAll(SetList(p, a, rest), IF rest.txs = {} THEN {} ELSE later)
  IN  [q EXCEPT !.nonces[a] = Min({@, n})]

RemoveQueued(p, a, n) == SetQueue(p, a, Drop(p.queue[a], At(p.queue[a], n)))

removeTx(p, tx) ==
  LET list == p.pending[tx.from]
  IN  IF tx \notin p.all THEN p
      ELSE IF At(list, tx.nonce) # {}
           THEN RemovePending(Forget(p, {tx}), tx.from, tx.nonce, After(list, {tx}))
           ELSE RemoveQueued(Forget(p, {tx}), tx.from, tx.nonce)

removeAll(p, txs) == FoldLeft(removeTx, p, txs)

Know(p, tx) == IF tx \in p.all THEN p ELSE Put([p EXCEPT !.all = @ \cup {tx}], tx)

promoteTx(p, tx) ==
  LET list == p.pending[tx.from]
  IN  IF ~Outbids(list, tx) THEN Forget(p, {tx})
      ELSE [Know(Forget([p EXCEPT !.pending[tx.from] = ListAdd(list, tx)],
                        At(list, tx.nonce)), tx)
              EXCEPT !.beats = Append(Remove(@, tx.from), tx.from),
                     !.nonces[tx.from] = tx.nonce + 1]


\* The part of promoteExecutables that goes through the accounts: old and
\* unpayable transactions are dropped from the queue, what is ready is promoted,
\* and what remains is cut to AccountQueue.
DropOld(p, a, txs) == [Forget(p, txs) EXCEPT !.queue[a] = Drop(@, txs)]
DropUnpayable(p, a, limit, txs) ==
  [Forget(p, txs) EXCEPT !.queue[a] = Filtered(Drop(@, txs), limit)]
PromoteReady(p, a, txs) ==
  [FoldLeft(promoteTx, p, Sorted(txs)) EXCEPT !.queue[a] = Drop(@, txs)]
CutQueue(p, a, txs) == SetQueue(Forget(p, txs), a, Drop(p.queue[a], txs))

Forward(p, state, a) == DropOld(p, a, Below(p.queue[a], GetNonce(state, a)))
Filter(p, a, limit) == DropUnpayable(p, a, limit, Unpayable(p.queue[a], limit))
Promote(p, a) == PromoteReady(p, a, Ready(p.queue[a], p.nonces[a]))
Cap(p, a) ==
  CutQueue(p, a, IF a \in p.locals THEN {} ELSE Beyond(p.queue[a], AccountQueue))

promoteAccount(p, state, a) ==
  IF p.queue[a].txs = {} THEN p
  ELSE Cap(Promote(Filter(Forward(p, state, a), a, GetBalance(state, a)), a), a)

\* Drop the last pending transaction of each offender.
dropLast(p, offenders) ==
  FoldLeft(LAMBDA q, a :
             LET last == Beyond(q.pending[a], Size(q.pending[a]) - 1)
                 r    == Forget([q EXCEPT !.pending[a] = Drop(@, last)], last)
             IN  [r EXCEPT !.nonces[a] = Min({@} \cup {tx.nonce : tx \in last})],
           p, offenders)

Pending(p) == MapThenSumSet(LAMBDA a : Size(p.pending[a]), Address)
Queued(p)  == MapThenSumSet(LAMBDA a : Size(p.queue[a]), Address)

RECURSIVE dropWhile(_, _, _, _)
dropWhile(p, offenders, last, threshold) ==
  IF Pending(p) > GlobalSlots /\ Size(p.pending[last]) > threshold
  THEN dropWhile(dropLast(p, offenders), offenders, last, threshold) ELSE p

\* Too many pending: the largest remote accounts are cut to one size, next
\* largest by next largest, and in the end all of them to AccountSlots.
RECURSIVE truncatePending(_, _, _)
truncatePending(p, offenders, spammers) ==
  IF Pending(p) <= GlobalSlots THEN p
  ELSE IF spammers = {}
       THEN IF offenders = <<>> THEN p
            ELSE dropWhile(p, offenders, Last(offenders), AccountSlots)
  ELSE LET next == CHOOSE a \in spammers :
                     \A b \in spammers : Size(p.pending[a]) >= Size(p.pending[b])
       IN  truncatePending(
             IF offenders = <<>> THEN p
             ELSE dropWhile(p, offenders, Last(offenders), Size(p.pending[next])),
             Append(offenders, next), spammers \ {next})

\* Too many queued: the remote accounts promoted last lose theirs first, each
\* from its highest nonce.
Latest(p, addresses) ==
  CHOOSE a \in addresses : \A b \in addresses :
    Contains(p.beats, b) =>
      /\ Contains(p.beats, a)
      /\ SelectInSeq(p.beats, LAMBDA c : c = a) >= SelectInSeq(p.beats, LAMBDA c : c = b)

RECURSIVE truncateQueue(_, _, _)
truncateQueue(p, drop, addresses) ==
  IF drop <= 0 \/ addresses = {} THEN p
  ELSE LET a    == Latest(p, addresses)
           txs  == Beyond(p.queue[a], Max({Size(p.queue[a]) - drop, 0}))
       IN  truncateQueue(removeAll(p, Sorted(txs)), drop - Cardinality(txs), addresses \ {a})

PendingWithin(p) ==
  truncatePending(p, <<>>, {a \in Address \ p.locals : Size(p.pending[a]) > AccountSlots})

QueueWithin(p) ==
  truncateQueue(p, Queued(p) - GlobalQueue, {a \in Address \ p.locals : p.queue[a].txs # {}})

promoteExecutables(p, state, accounts) ==
  QueueWithin(PendingWithin(
    FoldSet(LAMBDA a, q : promoteAccount(q, state, a), p, accounts)))

\* demoteUnexecutables, for an account: old and unpayable transactions are
\* dropped; those after an unpayable one, and all when the first is missing,
\* go back to the queue.
DemoteOld(p, a, txs) == [Forget(p, txs) EXCEPT !.pending[a] = Drop(@, txs)]
DemoteUnpayable(p, a, limit, txs) ==
  LET invalids == After(p.pending[a], txs) \ txs
      list     == Filtered(Drop(p.pending[a], txs \cup invalids), limit)
  IN  [enqueueAll(Forget(p, txs), invalids) EXCEPT !.pending[a] = list]
DemoteGapped(p, a, nonce) ==
  LET gapped == IF At(p.pending[a], nonce) = {} THEN p.pending[a].txs ELSE {}
  IN  SetList(enqueueAll(p, gapped), a, Drop(p.pending[a], gapped))
Demote(p, a, limit) == DemoteUnpayable(p, a, limit, Unpayable(p.pending[a], limit))

demoteAccount(p, state, a) ==
  IF p.pending[a].txs = {} THEN p
  ELSE DemoteGapped(Demote(DemoteOld(p, a, Below(p.pending[a], GetNonce(state, a))),
                           a, GetBalance(state, a)),
                    a, GetNonce(state, a))

----------------------------------------------------------------------------
\* add: the error of a transaction that is not taken, or "".  State is the
\* head whose nonces and balances the pool knows.
validateTx(p, state, tx, local) ==
  IF ~local /\ tx.from \notin p.locals /\ gasPrice > tx.price THEN "underpriced"
  ELSE IF GetNonce(state, tx.from) > tx.nonce THEN "nonce too low"
  ELSE IF GetBalance(state, tx.from) < tx.price THEN "insufficient funds"
  ELSE ""

Full(p) == Cardinality(p.all) >= GlobalSlots + GlobalQueue

Underpriced(p, tx) ==
  /\ tx.from \notin p.locals
  /\ DOMAIN p.items # {} /\ Cheapest(p).price >= tx.price

\* Room is made before it is known whether the transaction will be taken.
NotAdded(p, err) == [p |-> p, err |-> err, replace |-> FALSE]

ReplacePending(p, tx) ==
  LET list == p.pending[tx.from]
      q    == Forget([p EXCEPT !.pending[tx.from] = ListAdd(list, tx)], At(list, tx.nonce))
  IN  [p |-> Put([q EXCEPT !.all = @ \cup {tx}], tx), err |-> "", replace |-> TRUE]

Insert(p, tx, local) ==
  IF At(p.pending[tx.from], tx.nonce) # {}
  THEN IF Outbids(p.pending[tx.from], tx)
       THEN ReplacePending(p, tx) ELSE NotAdded(p, "replacement underpriced")
  ELSE IF ~Enqueues(p, tx) THEN NotAdded(p, "replacement underpriced")
  ELSE [p |-> [enqueueTx(p, tx) EXCEPT !.locals = IF local THEN @ \cup {tx.from} ELSE @],
        err |-> "", replace |-> At(p.queue[tx.from], tx.nonce) # {}]

MakeRoom(p, tx, local) ==
  IF Underpriced(p, tx) THEN NotAdded(p, "underpriced")
  ELSE LET Cut(r) == removeAll(r.p, r.drop)
       IN  Insert(Cut(Discard(p, Cardinality(p.all) - (GlobalSlots + GlobalQueue - 1))),
                  tx, local)

add(p, state, tx, local) ==
  LET invalid == validateTx(p, state, tx, local)
  IN  IF tx \in p.all THEN NotAdded(p, "known")
      ELSE IF invalid # "" THEN NotAdded(p, invalid)
      ELSE IF Full(p)
           THEN MakeRoom(IF tx.from \in p.locals THEN p ELSE DropStaleHead(p), tx, local)
           ELSE Insert(p, tx, local)

Added(r) == r.err = "" /\ ~r.replace

\* addTx: promote the account unless something was replaced.
PromoteAdded(r, state, a) ==
  IF Added(r) THEN [r EXCEPT !.p = promoteExecutables(r.p, state, {a})] ELSE r

addTx(p, state, tx, local) == PromoteAdded(add(p, state, tx, local), state, tx.from)

\* addTxsLocked, for transactions that come back from dropped blocks.
AddDirty(r, dirty, a) == [p |-> r.p, dirty |-> IF Added(r) THEN dirty \cup {a} ELSE dirty]
PromoteDirty(d, state) ==
  IF d.dirty = {} THEN d.p ELSE promoteExecutables(d.p, state, d.dirty)

addTxsLocked(p, state, txs, local) ==
  PromoteDirty(FoldLeft(LAMBDA d, tx : AddDirty(add(d.p, state, tx, local), d.dirty, tx.from),
                        [p |-> p, dirty |-> {}], txs),
               state)

\* journalTx: transactions of local accounts go to the journal's writer.
Journals(p, tx) == tx.from \in p.locals

----------------------------------------------------------------------------
\* Faulty variant: the difference is taken the wrong way round.
ReinjectedIncluded(old, new) ==
  LET common == Len(LongestCommonPrefix({old, new}))
  IN  SelectSeq(SubSeq(new, common + 1, Len(new)), LAMBDA tx : ~Contains(old, tx))

\* reset.  What the old branch had and the new one has not comes back, unless
\* the new head extends the old one or the reorganisation is deep.
Reinjected(old, new) ==
  LET common == Len(LongestCommonPrefix({old, new}))
      depth  == IF Len(old) > Len(new) THEN Len(old) - Len(new) ELSE Len(new) - Len(old)
  IN  IF (new # <<>> /\ old = Front(new)) \/ depth > MaxReorg THEN <<>>
      ELSE SelectSeq(Reverse(SubSeq(old, common + 1, Len(old))),
                     LAMBDA tx : ~Contains(SubSeq(new, common + 1, Len(new)), tx))

Managed(p, state) == [p EXCEPT !.nonces = [a \in Address |-> GetNonce(state, a)]]
SetNonces(p) ==
  [p EXCEPT !.nonces = [a \in Address |-> IF p.pending[a].txs = {} THEN @[a]
                                          ELSE 1 + Max(Nonces(p.pending[a]))]]
PromoteAll(p, state) ==
  promoteExecutables(p, state, {a \in Address : p.queue[a].txs # {}})

resetPool(p, old, new) ==
  LET injected == addTxsLocked(Managed(p, new), new, Reinjected(old, new), FALSE)
      demoted  == FoldSet(LAMBDA a, q : demoteAccount(q, new, a), injected, Address)
  IN  PromoteAll(SetNonces(demoted), new)

NewPool ==
  [pending |-> [a \in Address |-> NoList], queue |-> [a \in Address |-> NoList],
   all |-> {}, items |-> EmptyBag, stales |-> 0, locals |-> {}, beats |-> <<>>,
   nonces |-> [a \in Address |-> 0]]

\* local: what the journal is regenerated from.
local(p) == UNION {p.pending[a].txs \cup p.queue[a].txs : a \in p.locals}

Init ==
  /\ pool = NewPool
  /\ head = <<>> /\ current = <<>>
  /\ gasPrice = PriceLimit
  /\ journal = [file |-> {}, open |-> TRUE]
  /\ owed = {}
  /\ adds = 0 /\ events = 0

----------------------------------------------------------------------------
\* AddLocal and AddRemote.
AddTx(tx, isLocal) ==
  /\ adds < MaxAdds
  /\ adds' = adds + 1
  /\ \E r \in {addTx(pool, current, tx, isLocal)} :
       LET journalled == IF r.err = "" /\ Journals(r.p, tx) THEN {tx} ELSE {}
       IN  /\ pool' = r.p
           /\ journal' = IF journal.open
                         THEN [journal EXCEPT !.file = @ \cup journalled] ELSE journal
           /\ owed' = owed \cup journalled
  /\ UNCHANGED <<head, current, gasPrice, events>>

Event ==
  /\ events < MaxEvents
  /\ events' = events + 1
  /\ UNCHANGED adds

\* loop, a new head.  When its state cannot be opened the pool stays as it is,
\* and only the head that the next reset compares with moves on.
ChainHeadEvent(new) ==
  /\ Event
  /\ new # head /\ Len(new) >= Len(head)
  /\ head' = new
  /\ \/ current' = new /\ pool' = resetPool(pool, head, new)
     \/ UNCHANGED <<current, pool>>
  /\ UNCHANGED <<gasPrice, journal, owed>>

\* loop, eviction: queues of remote accounts that were not promoted lately, or
\* never, are removed.
evict ==
  /\ Event
  /\ \E old \in SUBSET {a \in Address \ pool.locals : pool.queue[a].txs # {}} :
       /\ old # {}
       /\ \A a \in Address \ pool.locals :
            pool.queue[a].txs # {} /\ ~Contains(pool.beats, a) => a \in old
       /\ pool' = removeAll(pool, Sorted(UNION {pool.queue[a].txs : a \in old}))
  /\ UNCHANGED <<head, current, gasPrice, journal, owed>>

SetGasPrice(price) ==
  /\ Event
  /\ gasPrice' = price
  /\ \E cut \in {CapPrice(pool, price)} : pool' = removeAll(cut.p, cut.drop)
  /\ UNCHANGED <<head, current, journal, owed>>

\* rotate: the journal is written anew; when that fails no writer is left.
rotate ==
  /\ Event
  /\ \/ journal' = [file |-> local(pool), open |-> TRUE]
     \/ journal' = [journal EXCEPT !.open = FALSE]
  /\ UNCHANGED <<pool, head, current, gasPrice, owed>>

\* The node stops, or crashes, and starts on the head it had: the journal's
\* transactions are added as local ones, and the journal is regenerated.
NewTxPool ==
  /\ Event
  /\ pool' = FoldLeft(LAMBDA p, tx : addTx(p, head, tx, TRUE).p,
                      Managed(NewPool, head), Sorted(journal.file))
  /\ journal' = [file |-> local(pool'), open |-> TRUE]
  /\ owed' = local(pool')
  /\ current' = head
  /\ gasPrice' = PriceLimit
  /\ UNCHANGED head

Next ==
  \/ \E tx \in Transactions, isLocal \in BOOLEAN : AddTx(tx, isLocal)
  \/ \E new \in Chains : ChainHeadEvent(new)
  \/ \E price \in Prices : SetGasPrice(price)
  \/ evict \/ rotate \/ NewTxPool

Spec == Init /\ [][Next]_vars

----------------------------------------------------------------------------
Listed(p) == UNION {p.pending[a].txs \cup p.queue[a].txs : a \in Address}

\* Whatever is pending or queued is known, in one list only, and no two
\* transactions of an account have one nonce.
ListsAgree ==
  /\ Listed(pool) \subseteq pool.all
  /\ \A x, y \in Listed(pool) : x.from = y.from /\ x.nonce = y.nonce => x = y
  /\ \A a \in Address : pool.pending[a].txs \cap pool.queue[a].txs = {}

\* What the pool offers to the miner can be executed in order: without gaps
\* from the account's nonce, each transaction paid for, and the nonce handed
\* out next is the one after the last.
PendingExecutable ==
  \A a \in Address :
    LET list == pool.pending[a] IN
    list.txs # {} =>
      /\ Nonces(list) = GetNonce(current, a) .. (pool.nonces[a] - 1)
      /\ \A tx \in list.txs : tx.price <= GetBalance(current, a)

\* Nothing that could run waits: the queue holds no transaction whose nonce is
\* the next one of its account.
NothingReadyWaits ==
  \A a \in Address : pool.nonces[a] \notin Nonces(pool.queue[a])

\* Limits: a remote account queues no more than AccountQueue; beyond the global
\* limits only local accounts, or accounts within their slots, are left.
Limits ==
  /\ \A a \in Address \ pool.locals : Size(pool.queue[a]) <= AccountQueue
  /\ Pending(pool) > GlobalSlots =>
       \A a \in Address \ pool.locals : Size(pool.pending[a]) <= AccountSlots
  /\ Queued(pool) > GlobalQueue =>
       \A a \in Address \ pool.locals : pool.queue[a].txs = {}

\* costcap, by which Filter skips a list, bounds every cost in the list.
CostcapBounds ==
  \A a \in Address : \A list \in {pool.pending[a], pool.queue[a]} :
    \A tx \in list.txs : tx.price <= list.costcap

\* While a writer is open, a transaction accepted from a local account survives
\* a restart as long as it is in the pool.
JournalKeepsLocals == journal.open => owed \cap Listed(pool) \subseteq journal.file

\* Neither limits nor prices drop what a local account has: except on a new
\* head and a restart, each of its transactions stays or is replaced by one
\* of its nonce.
LocalsKept ==
  \/ \A tx \in local(pool) :
       \E kept \in local(pool') : kept.from = tx.from /\ kept.nonce = tx.nonce
  \/ head' # head
  \/ NewTxPool

\* A shallow reorganisation loses no transaction: what the old branch had and
\* is its account's next transaction on the new branch is pending there, if
\* there is room, it pays the pool's price and the pool knows no other
\* transaction of its nonce.  The pool must have followed the old head: on one
\* it did not follow, limits are applied while stale entries still count.
ReorgKeepsTransactions ==
  current = head /\ head' # head /\ current' = head' /\ Len(head') - Len(head) <= MaxReorg
  /\ Cardinality(pool.all) + Len(head) <= GlobalSlots + GlobalQueue =>
    \A i \in DOMAIN head :
      LET tx == head[i] IN
      /\ tx.price >= gasPrice /\ ~Contains(head', tx)
      /\ tx.nonce = GetNonce(head', tx.from)
      /\ tx.price <= GetBalance(head', tx.from)
      /\ \A other \in pool.all : <<other.from, other.nonce>> # <<tx.from, tx.nonce>>
      => At(pool'.pending[tx.from], tx.nonce) # {}
=============================================================================
