----------------------------- MODULE BlockChain -----------------------------
(***************************************************************************)
(* The block store of one full node: what BlockChain and HeaderChain keep  *)
(* in the database and in memory while blocks are imported, the chain is   *)
(* reorganised or rewound, and the process dies between two writes.        *)
(*                                                                         *)
(* A block is the sequence of choices that leads to it from genesis: its   *)
(* number is its Len, its ancestors are its prefixes.                      *)
(* Every difficulty is 1, so the total difficulty of a block is its number *)
(* and the database only says whether it is there.  An operation is the    *)
(* sequence of its database writes; a batch is one write; a crash keeps a  *)
(* prefix of that sequence.  The caches hold what the database holds and   *)
(* are left out, as are events and blocks queued for the future; receipts  *)
(* are written and deleted with the body.  Module FastSyncChain adds       *)
(* headers and bodies that arrive without state.                           *)
(***************************************************************************)
EXTENDS Naturals, Sequences, FiniteSets, FiniteSetsExt

CONSTANTS
  Block,       \* the blocks that validators ever make
  Importer,    \* the goroutines that import: insertChain and worker.wait
  None,        \* no block: the empty hash or a nil pointer
  Tx, Transactions(_),  \* transactions, and those in each block
  MaxCrashes,  \* bound on the crashes of the process
  MaxRewinds   \* bound on the calls of SetHead

genesisBlock == <<>>

ParentOf(b) == SubSeq(b, 1, Len(b) - 1)

ASSUME BlockChainAssumption ==
  /\ IsFiniteSet(Block) /\ genesisBlock \in Block /\ None \notin Block
  /\ \A b \in Block : Len(b) \in Nat /\ b = [i \in 1 .. Len(b) |-> b[i]]
  /\ \A b \in Block \ {genesisBlock} : ParentOf(b) \in Block
  /\ IsFiniteSet(Tx) /\ \A b \in Block : Transactions(b) \in SUBSET Tx
  /\ MaxCrashes \in Nat /\ MaxRewinds \in Nat

VARIABLES
  db,         \* the database
  bc,         \* bc.currentBlock, hc.currentHeader and bc.currentFastBlock
  status,     \* the process is up, down, or hung in a lock it holds itself
  importing,  \* what each importer is about to write
  crashes,    \* crashes so far
  rewinds     \* calls of SetHead so far

vars == <<db, bc, status, importing, crashes, rewinds>>

\* Sequences: the result of applying op to x and each element in turn, sequences
\* joined to one, and the elements of a finite set in some order.  (SequencesExt
\* has these, and with it come Bags and TLC: a load on every proof obligation.)
InTurn(op(_, _), x, seq) ==
  MapThenFoldSet(LAMBDA y, z : op(z, y), x, LAMBDA i : seq[i], LAMBDA S : Max(S),
                 DOMAIN seq)

Joined(seqs) ==
  IF Len(seqs) = 0 THEN <<>>
  ELSE LET upTo[i \in 1 .. Len(seqs)] ==
             IF i = 1 THEN seqs[i] ELSE upTo[i - 1] \o seqs[i]
       IN  upTo[Len(seqs)]

InSomeOrder(S) == CHOOSE f \in [1 .. Cardinality(S) -> S] : IsInjective(f)

Number == {Len(b) : b \in Block}

Ancestor(b, n) == SubSeq(b, 1, n)

\* The blocks from b back to the block with number n, without it.
Back(b, n) == [i \in 1 .. Len(b) - n |-> Ancestor(b, Len(b) - i + 1)]

----------------------------------------------------------------------------
\* The database: which headers, bodies, total difficulties and states are
\* there, the hash of each canonical number, the block in which a transaction is
\* looked up, and the three head hashes.
Database ==
  [headers : SUBSET Block, bodies : SUBSET Block, tds : SUBSET Block,
   states : SUBSET Block, canonical : [Number -> Block \cup {None}],
   lookup : [Tx -> Block \cup {None}],
   headBlock : Block, headHeader : Block, headFast : Block \cup {None}]

GetBlock(d, b) == b \in d.headers \cap d.bodies

\* GetTransaction and GetReceipt: by the lookup entry, in the body.
GetTransaction(d, t) ==
  IF d.lookup[t] # None /\ d.lookup[t] \in d.bodies THEN d.lookup[t] ELSE None

HasBlockAndState(d, b) == GetBlock(d, b) /\ b \in d.states

\* The writes: one key is put or deleted, or a batch stores a block with its
\* state, its dpos context and the lookup entries of these transactions, or a
\* body with its receipts and lookup entries.
WriteTd(b) == [op |-> "put", key |-> "tds", block |-> b]
DeleteTd(b) == [op |-> "delete", key |-> "tds", block |-> b]
WriteBody(b) == [op |-> "put", key |-> "bodies", block |-> b]
WriteHeader(b) == [op |-> "put", key |-> "headers", block |-> b]
DeleteBody(b) == [op |-> "delete", key |-> "bodies", block |-> b]
DeleteHeader(b) == [op |-> "delete", key |-> "headers", block |-> b]
WriteCanonicalHash(n, b) == [op |-> "canonical", key |-> n, block |-> b]
DeleteCanonicalHash(n) == [op |-> "canonical", key |-> n, block |-> None]
WriteHeadBlockHash(b) == [op |-> "head", key |-> "headBlock", block |-> b]
WriteHeadHeaderHash(b) == [op |-> "head", key |-> "headHeader", block |-> b]
WriteHeadFastBlockHash(b) == [op |-> "head", key |-> "headFast", block |-> b]
WriteTxLookupEntries(b) == [op |-> "lookup", key |-> Transactions(b), block |-> b]
DeleteTxLookupEntry(t) == [op |-> "lookup", key |-> {t}, block |-> None]
WriteBatch(b, txs) == [op |-> "batch", key |-> txs, block |-> b]
WriteBodyBatch(b) == [op |-> "body", key |-> Transactions(b), block |-> b]

lookupIn(d, txs, b) == [t \in Tx |-> IF t \in txs THEN b ELSE d.lookup[t]]

Apply(d, w) ==
  CASE w.op = "put" -> [d EXCEPT ![w.key] = @ \cup {w.block}]
    [] w.op = "delete" -> [d EXCEPT ![w.key] = @ \ {w.block}]
    [] w.op = "canonical" -> [d EXCEPT !.canonical[w.key] = w.block]
    [] w.op = "head" -> [d EXCEPT ![w.key] = w.block]
    [] w.op = "lookup" -> [d EXCEPT !.lookup = lookupIn(d, w.key, w.block)]
    [] w.op = "body" -> [d EXCEPT !.bodies = @ \cup {w.block},
                                  !.lookup = lookupIn(d, w.key, w.block)]
    [] w.op = "batch" -> [d EXCEPT !.headers = @ \cup {w.block},
                                   !.bodies = @ \cup {w.block},
                                   !.states = @ \cup {w.block},
                                   !.lookup = lookupIn(d, w.key, w.block)]

Written(d, ws) == InTurn(Apply, d, ws)

----------------------------------------------------------------------------

\* insert(block): the writes and the assignments in memory.  The header and
\* fast heads follow only when the number was assigned to another block.
insertWrites(b, updateHeads) ==
  <<WriteCanonicalHash(Len(b), b), WriteHeadBlockHash(b)>>
  \o IF updateHeads THEN <<WriteHeadHeaderHash(b), WriteHeadFastBlockHash(b)>>
     ELSE <<>>

insertHeads(m, b, updateHeads) ==
  IF updateHeads
  THEN [currentBlock |-> b, currentHeader |-> b, currentFastBlock |-> b]
  ELSE [m EXCEPT !.currentBlock = b]

insertCall(m, call) == insertHeads(m, call.block, call.update)

commonBlock(old, new) ==
  Ancestor(old, Max({n \in 0 .. Len(old) :
                       n <= Len(new) /\ Ancestor(old, n) = Ancestor(new, n)}))

\* reorg walks both chains down to the common block and gives up when a block
\* of either is not in the database; the two heads are passed to it.
reorgFails(d, old, new) ==
  \E n \in Len(commonBlock(old, new)) .. Len(new) - 1 :
    \/ ~GetBlock(d, Ancestor(new, n))
    \/ n < Len(old) /\ ~GetBlock(d, Ancestor(old, n))

\* The blocks that reorg inserts, the newest first.
newChain(old, new) == Back(new, Len(commonBlock(old, new)))

\* The fork choice: a higher total difficulty wins, a coin decides a tie.
wins(b, head, coin) == Len(b) > Len(head) \/ (Len(b) = Len(head) /\ coin)

\* Whether WriteBlockAndState calls reorg, and fails in it.
reorgs(m, b, coin) == wins(b, m.currentBlock, coin) /\ ParentOf(b) # m.currentBlock

refused(d, m, b, coin) == reorgs(m, b, coin) /\ reorgFails(d, m.currentBlock, b)

\* The calls of insert in reorg, and the one that ends WriteBlockAndState: the
\* block and whether its number was assigned to another block at that time.
reorgInserts(d, m, b, coin) ==
  IF ~reorgs(m, b, coin) THEN <<>>
  ELSE LET chain == newChain(m.currentBlock, b)
       IN  [i \in DOMAIN chain |->
              [block |-> chain[i], update |-> d.canonical[Len(chain[i])] # chain[i]]]

\* Faulty variant: reorg is taken to have inserted the block already.
lastInsertSkipped(d, m, b, coin) ==
  IF ~wins(b, m.currentBlock, coin) \/ reorgs(m, b, coin) THEN <<>>
  ELSE <<[block |-> b, update |-> d.canonical[Len(b)] # b]>>

lastInsert(d, m, b, coin) ==
  IF ~wins(b, m.currentBlock, coin) THEN <<>>
  ELSE <<[block |-> b,
          update |-> ~reorgs(m, b, coin) /\ d.canonical[Len(b)] # b]>>

writesOf(calls) ==
  Joined([i \in DOMAIN calls |-> insertWrites(calls[i].block, calls[i].update)])

txsOf(chain) == UNION {Transactions(chain[i]) : i \in DOMAIN chain}

\* Faulty variant: what was dropped is deleted, in the new chain or not.
TxDifferenceAll(deleted, added) == deleted
TxDifference(deleted, added) == deleted \ added

\* reorg: each new block is inserted and its transactions looked up in it; then
\* those that only the old chain has are not looked up any more.
reorgWrites(d, m, b, coin) ==
  IF ~reorgs(m, b, coin) THEN <<>>
  ELSE LET calls == reorgInserts(d, m, b, coin)
           common == Len(commonBlock(m.currentBlock, b))
           diff == TxDifference(txsOf(Back(m.currentBlock, common)), txsOf(Back(b, common)))
       IN  Joined([i \in DOMAIN calls |->
                         insertWrites(calls[i].block, calls[i].update)
                         \o <<WriteTxLookupEntries(calls[i].block)>>])
           \o LET gone == InSomeOrder(diff)
              IN  [i \in DOMAIN gone |-> DeleteTxLookupEntry(gone[i])]

\* Lookup entries go into the batch of a block that becomes canonical.
batchOf(m, b, coin) ==
  WriteBatch(b, IF wins(b, m.currentBlock, coin) THEN Transactions(b) ELSE {})

\* Faulty variant: the total difficulty follows the batch.
blockWritesTdLate(d, m, b, coin) ==
  IF refused(d, m, b, coin) THEN <<>>
  ELSE reorgWrites(d, m, b, coin)
       \o <<batchOf(m, b, coin), WriteTd(b)>> \o writesOf(lastInsert(d, m, b, coin))

\* The writes of WriteBlockAndState.  The total difficulty goes straight to the
\* database, then what reorg writes does, and only then the batch with the block.
blockWrites(d, m, b, coin) ==
  IF refused(d, m, b, coin) THEN <<WriteTd(b)>>
  ELSE <<WriteTd(b)>> \o reorgWrites(d, m, b, coin)
       \o <<batchOf(m, b, coin)>> \o writesOf(lastInsert(d, m, b, coin))

blockHeads(d, m, b, coin) ==
  IF refused(d, m, b, coin) THEN m
  ELSE InTurn(insertCall, m, reorgInserts(d, m, b, coin) \o lastInsert(d, m, b, coin))

----------------------------------------------------------------------------
\* HeaderChain.SetHead: from the current header back to number n, or to a
\* header that is missing, bodies, headers and difficulties are deleted; then
\* the canonical hashes, from the number of the current header down.
rewound(d, h, n) ==
  Back(h, Max({IF n < Len(h) THEN n ELSE Len(h)}
              \cup {k \in n .. Len(h) - 1 : Ancestor(h, k) \notin d.headers}))

headerAt(d, h, n) ==
  IF Len(h) <= n THEN h
  ELSE IF \A k \in n .. Len(h) - 1 : Ancestor(h, k) \in d.headers
       THEN Ancestor(h, n) ELSE genesisBlock

headerWrites(d, h, n) ==
  LET gone == rewound(d, h, n)
  IN  Joined([i \in DOMAIN gone |->
                    <<DeleteBody(gone[i]), DeleteHeader(gone[i]), DeleteTd(gone[i])>>])
      \o [i \in 1 .. (IF n < Len(h) THEN Len(h) - n ELSE 0) |->
            DeleteCanonicalHash(Len(h) - i + 1)]
      \o <<WriteHeadHeaderHash(headerAt(d, h, n))>>

\* A head above the rewound header is moved to it, or dropped when there is no
\* such block.
cutTo(d, head, header) ==
  IF head = None \/ Len(header) >= Len(head) THEN head
  ELSE IF GetBlock(d, header) THEN header ELSE None

\* BlockChain.SetHead up to its last call: a full head without state, and any
\* head without block, becomes genesis.
setHeads(d, m, n) ==
  LET header == headerAt(d, m.currentHeader, n)
      left   == Written(d, headerWrites(d, m.currentHeader, n))
      block  == cutTo(left, m.currentBlock, header)
      fast   == cutTo(left, m.currentFastBlock, header)
  IN  [currentBlock |-> IF block = None \/ block \notin d.states
                        THEN genesisBlock ELSE block,
       currentHeader |-> header,
       currentFastBlock |-> IF fast = None THEN genesisBlock ELSE fast]

headWrites(d, m, n) ==
  headerWrites(d, m.currentHeader, n)
  \o <<WriteHeadBlockHash(setHeads(d, m, n).currentBlock),
       WriteHeadFastBlockHash(setHeads(d, m, n).currentFastBlock)>>

----------------------------------------------------------------------------
\* loadLastState finds the head block with its state, or resets the chain.
loads(d) == HasBlockAndState(d, d.headBlock)

loadedHeads(d) ==
  [currentBlock |-> d.headBlock,
   currentHeader |-> IF d.headHeader \in d.headers THEN d.headHeader ELSE d.headBlock,
   currentFastBlock |-> IF GetBlock(d, d.headFast) THEN d.headFast ELSE d.headBlock]

loadWrites(d) == <<WriteHeadHeaderHash(loadedHeads(d).currentHeader)>>

\* The heads when Reset is called at the start: NewHeaderChain has taken the
\* header of the head block if there is one, the others are nil.
startHeads(d) ==
  [currentBlock |-> None, currentFastBlock |-> None,
   currentHeader |-> IF d.headBlock \in d.headers THEN d.headBlock ELSE genesisBlock]

\* ResetWithGenesisBlock: SetHead(0), which loads the genesis block, then the
\* genesis block is stored and inserted again.
resetWrites(d) ==
  headWrites(d, startHeads(d), 0)
  \o <<WriteHeadHeaderHash(genesisBlock), WriteTd(genesisBlock),
       WriteBody(genesisBlock), WriteHeader(genesisBlock)>>
  \o insertWrites(genesisBlock, d.canonical[0] # genesisBlock)
  \o <<WriteHeadHeaderHash(genesisBlock)>>

genesisHeads ==
  [currentBlock |-> genesisBlock, currentHeader |-> genesisBlock,
   currentFastBlock |-> genesisBlock]

----------------------------------------------------------------------------
Idle == [block |-> None, ptd |-> FALSE]

TypeOK ==
  /\ db \in Database
  /\ bc \in [currentBlock : Block \cup {None}, currentHeader : Block \cup {None},
             currentFastBlock : Block \cup {None}]
  /\ status \in {"up", "down", "hung"}
  /\ importing \in [Importer -> [block : Block \cup {None}, ptd : BOOLEAN]]
  /\ crashes \in 0 .. MaxCrashes /\ rewinds \in 0 .. MaxRewinds

\* The database as Genesis.Commit leaves it, without a fast head, and loaded.
Init ==
  /\ db = [headers |-> {genesisBlock}, bodies |-> {genesisBlock},
           tds |-> {genesisBlock}, states |-> {genesisBlock},
           canonical |-> [n \in Number |-> IF n = 0 THEN genesisBlock ELSE None],
           lookup |-> [t \in Tx |-> None],
           headBlock |-> genesisBlock, headHeader |-> genesisBlock,
           headFast |-> None]
  /\ bc = genesisHeads
  /\ status = "up"
  /\ importing = [i \in Importer |-> Idle]
  /\ crashes = 0 /\ rewinds = 0

\* insertChain up to the call of WriteBlockAndState, or the miner's work up to
\* worker.wait: the parent is there with its state and the block is not.  A
\* block is announced once it is written, so no two importers have the same.
Validate(i, b) ==
  /\ status = "up" /\ importing[i] = Idle
  /\ b # genesisBlock /\ \A j \in Importer : importing[j].block # b
  /\ ~HasBlockAndState(db, b)
  /\ HasBlockAndState(db, ParentOf(b))
  /\ importing' = [importing EXCEPT ![i].block = b]
  /\ UNCHANGED <<db, bc, status, crashes, rewinds>>

\* WriteBlockAndState reads the parent's total difficulty before it locks.
readTd(i) ==
  /\ status = "up" /\ importing[i].block # None /\ ~importing[i].ptd
  /\ importing' = IF ParentOf(importing[i].block) \in db.tds
                  THEN [importing EXCEPT ![i].ptd = TRUE]
                  ELSE [importing EXCEPT ![i] = Idle]
  /\ UNCHANGED <<db, bc, status, crashes, rewinds>>

\* The rest of WriteBlockAndState, under bc.mu.
WriteBlockAndState(i, coin) ==
  /\ status = "up" /\ importing[i].ptd
  /\ db' = Written(db, blockWrites(db, bc, importing[i].block, coin))
  /\ bc' = blockHeads(db, bc, importing[i].block, coin)
  /\ importing' = [importing EXCEPT ![i] = Idle]
  /\ UNCHANGED <<status, crashes, rewinds>>

\* SetHead holds bc.mu and not the lock of insertChain; when it cannot load the
\* head again it calls Reset, which waits for bc.mu.
SetHead(n) ==
  /\ status = "up" /\ rewinds < MaxRewinds
  /\ rewinds' = rewinds + 1
  /\ LET d == Written(db, headWrites(db, bc, n))
     IN  IF loads(d)
         THEN /\ db' = Written(d, loadWrites(d)) /\ bc' = loadedHeads(d)
              /\ UNCHANGED status
         ELSE /\ db' = d /\ bc' = setHeads(db, bc, n) /\ status' = "hung"
  /\ UNCHANGED <<importing, crashes>>

\* NewBlockChain.
NewBlockChain ==
  /\ status = "down"
  /\ LET d == Written(db, headWrites(db, startHeads(db), 0))
     IN  IF loads(db)
         THEN /\ db' = Written(db, loadWrites(db)) /\ bc' = loadedHeads(db)
              /\ status' = "up"
         ELSE /\ db' = Written(db, resetWrites(db)) /\ bc' = genesisHeads
              /\ status' = IF loads(d) THEN "up" ELSE "hung"
  /\ UNCHANGED <<importing, crashes, rewinds>>

\* The process dies after the first writes of an operation.
Dies(ws) ==
  /\ crashes < MaxCrashes
  /\ crashes' = crashes + 1
  /\ \E k \in 0 .. Len(ws) : db' = Written(db, SubSeq(ws, 1, k))
  /\ bc' = [currentBlock |-> None, currentHeader |-> None, currentFastBlock |-> None]
  /\ status' = "down"
  /\ importing' = [i \in Importer |-> Idle]

crashInWrite(i, coin) ==
  /\ status = "up" /\ importing[i].ptd
  /\ Dies(blockWrites(db, bc, importing[i].block, coin))
  /\ UNCHANGED rewinds

crashInSetHead(n) ==
  /\ status = "up" /\ rewinds < MaxRewinds
  /\ rewinds' = rewinds + 1
  /\ Dies(headWrites(db, bc, n))

crashInStart ==
  /\ status = "down"
  /\ Dies(IF loads(db) THEN loadWrites(db) ELSE resetWrites(db))
  /\ UNCHANGED rewinds

Next ==
  \/ \E i \in Importer :
       \/ \E b \in Block : Validate(i, b)
       \/ readTd(i)
       \/ \E coin \in BOOLEAN : WriteBlockAndState(i, coin) \/ crashInWrite(i, coin)
  \/ \E n \in Number : SetHead(n) \/ crashInSetHead(n)
  \/ NewBlockChain
  \/ crashInStart

Spec == Init /\ [][Next]_vars

----------------------------------------------------------------------------
\* While nothing crashes or rewinds, the canonical hashes are those of the head
\* block and its ancestors, and no number above has one: reorg and insert leave
\* no hash of a chain that was dropped.
CanonicalIsHeadChain ==
  status = "up" =>
    \A n \in Number :
      db.canonical[n] = IF n <= Len(bc.currentBlock) THEN Ancestor(bc.currentBlock, n)
                        ELSE None

\* While nothing crashes or rewinds, a transaction is looked up in the block of
\* the head chain that has it, and only there, also when both sides of a
\* reorganisation have it at different heights.
LookupRight ==
  status = "up" =>
    \A t \in Tx :
      LET at == {n \in 0 .. Len(bc.currentBlock) :
                   t \in Transactions(Ancestor(bc.currentBlock, n))}
      IN  IF at = {} THEN GetTransaction(db, t) = None
          ELSE \E n \in at : GetTransaction(db, t) = Ancestor(bc.currentBlock, n)

\* Until the chain is rewound, every block that can be the parent of an import
\* has all its ancestors with their states and total difficulties, wherever a
\* crash falls: reorg never meets a missing block ("Invalid new chain").
FullBlocksRooted ==
  rewinds = 0 =>
    \A b \in Block : HasBlockAndState(db, b) =>
      \A n \in 0 .. Len(b) :
        HasBlockAndState(db, Ancestor(b, n)) /\ Ancestor(b, n) \in db.tds

\* The three heads of a running node are in the database with the total
\* difficulties that imports compare, and the full head has its state,
\* whatever was rewound and wherever a crash fell.
HeadsResolve ==
  status = "up" =>
    /\ HasBlockAndState(db, bc.currentBlock) /\ bc.currentBlock \in db.tds
    /\ bc.currentHeader \in db.headers \cap db.tds
    /\ GetBlock(db, bc.currentFastBlock) /\ bc.currentFastBlock \in db.tds

\* A node that stops finds the full head and the header head it had when it
\* starts again: every change of them in memory has reached the database.
HeadsDurable ==
  status = "up" => /\ loads(db)
                   /\ loadedHeads(db).currentBlock = bc.currentBlock
                   /\ loadedHeads(db).currentHeader = bc.currentHeader

\* SetHead never calls Reset while it holds bc.mu, which would block the node
\* for ever: the head it leaves can always be loaded.
NeverHangs == status # "hung"

\* reorg never goes to a descendant of the head, which it logs as "Impossible
\* reorg, please file an issue": the chain it drops has at least one block.
ReorgDropsBlocks ==
  status = "up" =>
    \A i \in Importer, coin \in BOOLEAN :
      LET b == importing[i].block
      IN  /\ importing[i].ptd
          /\ reorgs(bc, b, coin)
          /\ ~refused(db, bc, b, coin)
          => commonBlock(bc.currentBlock, b) # bc.currentBlock

\* The blocks found by number below the head are its ancestors, as the test of
\* reorganisations walks them, also when the process died in between.
CanonicalLinks ==
  status = "up" =>
    \A n \in 0 .. Len(bc.currentBlock) : db.canonical[n] = Ancestor(bc.currentBlock, n)

----------------------------------------------------------------------------
\* While nothing crashes or rewinds, the store implements the longest chain:
\* locks and orders of writes lose no block and the head is a longest branch.
Chain == INSTANCE LongestChain
           WITH stored <- {b \in Block : HasBlockAndState(db, b)},
                head <- bc.currentBlock

ImplementsLongestChain == Chain!Spec
=============================================================================
