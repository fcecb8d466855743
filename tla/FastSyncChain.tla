---------------------------- MODULE FastSyncChain ----------------------------
(***************************************************************************)
(* The block store during a fast synchronisation: headers arrive ahead of  *)
(* bodies (InsertHeaderChain), bodies and receipts without state           *)
(* (InsertReceiptChain), the state of the pivot block on its own           *)
(* (FastSyncCommitHead); blocks after the pivot are imported in full, and  *)
(* a synchronisation that fails takes its last headers back (Rollback).    *)
(*                                                                         *)
(* What is fetched, and when a synchronisation is fast, is what            *)
(* bgm/downloader and bgm/sync.go allow: headers and bodies come in the    *)
(* order of the chain from an ancestor that is there, and a node with a    *)
(* full head above genesis never goes back to fast synchronisation.        *)
(***************************************************************************)
EXTENDS BlockChain, SequencesExt

CONSTANTS
  SafetyNet,  \* fsHeaderSafetyNet: headers that are taken back
  MaxSyncs    \* bound on fast synchronisations

VARIABLES
  sync,   \* whether the node synchronises fast, the head of the chain that it
          \* synchronises with at present, and the headers that would be taken
          \* back if that failed, oldest first
  syncs,  \* synchronisations so far
  past    \* history: "undone" when a full head was taken back, "aside" when the
          \* pivot was not on the chain of the header head

fvars == <<vars, sync, syncs, past>>

FastInit ==
  /\ Init
  /\ sync = [fast |-> TRUE, with |-> None, rollback |-> <<>>] /\ syncs = 0 /\ past = {}

\* A synchronisation is under way and does not import a block right now.
Syncs == status = "up" /\ sync.with # None /\ \A i \in Importer : importing[i] = Idle

BeginSync(b) ==
  /\ status = "up" /\ sync.fast /\ sync.with = None /\ b # genesisBlock
  /\ syncs < MaxSyncs /\ syncs' = syncs + 1
  /\ sync' = [sync EXCEPT !.with = b]
  /\ UNCHANGED <<vars, past>>

----------------------------------------------------------------------------
(* HeaderChain.WriteHeader.                                                *)

\* The numbers below the header that are assigned to its ancestors: down to the
\* first one that is so already.
rewritten(d, b) ==
  {n \in 0 .. Len(b) - 1 :
     \A k \in n .. Len(b) - 1 : d.canonical[k] # Ancestor(b, k)}

\* The numbers above it that are cleared: up to the first one that is free.
cleared(d, b) ==
  {n \in Number : n > Len(b) /\ \A k \in Len(b) + 1 .. n : d.canonical[k] # None}

canonicalWrites(d, b) ==
  [i \in 1 .. Cardinality(cleared(d, b)) |-> DeleteCanonicalHash(Len(b) + i)]
  \o [i \in 1 .. Cardinality(rewritten(d, b)) |->
        WriteCanonicalHash(Len(b) - i, Ancestor(b, Len(b) - i))]
  \o <<WriteCanonicalHash(Len(b), b), WriteHeadHeaderHash(b)>>

WriteHeaderWrites(d, m, b, coin) ==
  <<WriteTd(b), WriteHeader(b)>>
  \o IF wins(b, m.currentHeader, coin) THEN canonicalWrites(d, b) ELSE <<>>

\* InsertHeaderChain, one header: the header is not known, its ancestors are, and
\* its parent has a total difficulty.
unknown(b) ==
  /\ Syncs /\ IsPrefix(b, sync.with)
  /\ b \notin db.headers /\ ParentOf(b) \in db.tds
  /\ \A n \in 0 .. Len(b) - 1 : Ancestor(b, n) \in db.headers

InsertHeader(b, coin) ==
  /\ unknown(b)
  /\ db' = Written(db, WriteHeaderWrites(db, bc, b, coin))
  /\ bc' = IF wins(b, bc.currentHeader, coin) THEN [bc EXCEPT !.currentHeader = b] ELSE bc
  /\ sync' = [sync EXCEPT !.rollback =
                LET all == Append(@, b)
                IN  IF Len(all) > SafetyNet THEN Tail(all) ELSE all]
  /\ UNCHANGED <<status, importing, crashes, rewinds, syncs, past>>

----------------------------------------------------------------------------
(* InsertReceiptChain.                                                     *)


\* The blocks from..Len(b) of b's chain, those that are there left out, each
\* with its receipts and lookup entries: a batch is written when it is large
\* enough, after any block.  Then the fast head, if the total difficulty grows.
bodyWrites(d, b, from) ==
  LET chain == SelectSeq(Reverse(Back(b, from - 1)), LAMBDA c : ~GetBlock(d, c))
  IN  [i \in DOMAIN chain |-> WriteBodyBatch(chain[i])]

fastHeadMoves(m, b) == Len(b) > Len(m.currentFastBlock)

receiptWrites(d, m, b, from) ==
  bodyWrites(d, b, from)
  \o IF fastHeadMoves(m, b) THEN <<WriteHeadFastBlockHash(b)>> ELSE <<>>

\* The headers are known, and all blocks before the first one are there.
fetched(b, from) ==
  /\ Syncs /\ IsPrefix(b, sync.with) /\ from \in 1 .. Len(b) /\ ~GetBlock(db, b)
  /\ \A n \in from .. Len(b) : Ancestor(b, n) \in db.headers
  /\ \A n \in 0 .. from - 1 : GetBlock(db, Ancestor(b, n))

InsertReceiptChain(b, from) ==
  /\ fetched(b, from)
  /\ db' = Written(db, receiptWrites(db, bc, b, from))
  /\ bc' = IF fastHeadMoves(bc, b) THEN [bc EXCEPT !.currentFastBlock = b] ELSE bc
  /\ UNCHANGED <<status, importing, crashes, rewinds, sync, syncs, past>>

----------------------------------------------------------------------------

\* FastSyncCommitHead, once the blocks up to the pivot are there and its state has
\* been downloaded: the full head moves in memory only.
FastSyncCommitHead(b) ==
  /\ Syncs /\ IsPrefix(b, sync.with)
  /\ bc.currentBlock = genesisBlock /\ b # genesisBlock
  /\ \A n \in 0 .. Len(b) : GetBlock(db, Ancestor(b, n))
  /\ db' = [db EXCEPT !.states = @ \cup {b}]
  /\ bc' = [bc EXCEPT !.currentBlock = b]
  /\ past' = IF IsPrefix(b, bc.currentHeader) THEN past ELSE past \cup {"aside"}
  /\ UNCHANGED <<status, importing, crashes, rewinds, sync, syncs>>

\* Rollback: a head that is the header in hand goes to its parent.
back(m, b) ==
  [h \in DOMAIN m |-> IF m[h] = b THEN ParentOf(b) ELSE m[h]]

Rollback(chain) == FoldLeft(back, bc, Reverse(chain))

\* The head hashes follow.
rollbackWrites(m) ==
  <<WriteHeadHeaderHash(m.currentHeader)>>
  \o (IF m.currentFastBlock # bc.currentFastBlock
      THEN <<WriteHeadFastBlockHash(m.currentFastBlock)>> ELSE <<>>)
  \o (IF m.currentBlock # bc.currentBlock
      THEN <<WriteHeadBlockHash(m.currentBlock)>> ELSE <<>>)

\* A synchronisation ends.  The next one is fast only from genesis.
EndSync(failed) ==
  /\ Syncs
  /\ LET m == IF failed THEN Rollback(sync.rollback) ELSE bc
     IN  /\ bc' = m
         /\ db' = IF failed THEN Written(db, rollbackWrites(m)) ELSE db
         /\ sync' = [fast |-> m.currentBlock = genesisBlock, with |-> None, rollback |-> <<>>]
         /\ past' = IF m.currentBlock = bc.currentBlock THEN past ELSE past \cup {"undone"}
  /\ UNCHANGED <<status, importing, crashes, rewinds, syncs>>

----------------------------------------------------------------------------
(* Full imports, of a synchronisation behind its pivot or of a node that    *)
(* is not in a fast synchronisation, and restarts.                          *)

FullImport ==
  /\ \E i \in Importer :
       \/ \E b \in Block :
            /\ \/ ~sync.fast
               \/ Syncs /\ bc.currentBlock # genesisBlock
                  /\ IsPrefix(b, sync.with) /\ b \in db.headers
            /\ Validate(i, b)
       \/ readTd(i)
       \/ \E coin \in BOOLEAN : WriteBlockAndState(i, coin) \/ crashInWrite(i, coin)
  /\ UNCHANGED <<sync, syncs, past>>

Restart ==
  /\ NewBlockChain
  /\ sync' = [fast |-> bc'.currentBlock = genesisBlock, with |-> None, rollback |-> <<>>]
  /\ UNCHANGED <<syncs, past>>

crashInSync(ws) == Dies(ws) /\ UNCHANGED <<rewinds, sync, syncs, past>>

Crash ==
  \/ \E b \in Block, coin \in BOOLEAN :
       unknown(b) /\ crashInSync(WriteHeaderWrites(db, bc, b, coin))
  \/ \E b \in Block, from \in Number :
       fetched(b, from) /\ crashInSync(receiptWrites(db, bc, b, from))
  \/ Syncs /\ crashInSync(rollbackWrites(Rollback(sync.rollback)))

FastNext ==
  \/ \E b \in Block : BeginSync(b)
  \/ \E b \in Block, coin \in BOOLEAN : InsertHeader(b, coin)
  \/ \E b \in Block, from \in Number : InsertReceiptChain(b, from)
  \/ \E b \in Block : FastSyncCommitHead(b)
  \/ \E failed \in BOOLEAN : EndSync(failed)
  \/ FullImport \/ Restart \/ Crash

FastSpec == FastInit /\ [][FastNext]_fvars

----------------------------------------------------------------------------
\* The fast head has its whole chain of blocks behind it and the header head its
\* chain of headers with their total difficulties, wherever a crash falls and
\* whatever is taken back: Rollback never meets a missing parent.
HeadsRooted ==
  status = "up" =>
    /\ \A n \in 0 .. Len(bc.currentFastBlock) : GetBlock(db, Ancestor(bc.currentFastBlock, n))
    /\ \A n \in 0 .. Len(bc.currentBlock) : GetBlock(db, Ancestor(bc.currentBlock, n))
    /\ \A n \in 0 .. Len(bc.currentHeader) :
         Ancestor(bc.currentHeader, n) \in db.headers \cap db.tds

\* Until a crash, the numbers up to the header head are those of its ancestors,
\* whatever forks the headers of a fast synchronisation take, unless a pivot was
\* committed on a shorter fork than an earlier synchronisation left.
CanonicalHeaders ==
  status = "up" /\ crashes = 0 /\ "aside" \notin past =>
    \A n \in 0 .. Len(bc.currentHeader) : db.canonical[n] = Ancestor(bc.currentHeader, n)

\* A node finds a full head that it can load when it starts, unless a failing
\* synchronisation took back the pivot: the chain is not reset to genesis.
HeadLoads == status = "up" /\ "undone" \notin past => loads(db) /\ bc.currentBlock \in db.states
=============================================================================
