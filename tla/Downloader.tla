----------------------------- MODULE Downloader -----------------------------
(***************************************************************************)
(* One sync after the other: synchronise of bgm/sync.go, and Synchronise,  *)
(* syncWithPeer and spawnSync of bgm/downloader/downloader.go with the     *)
(* goroutines they start: fetchHeaders, processHeaders, fetchBodies,       *)
(* fetchReceipts and the content processor, which share the closed flag of *)
(* the queue, the cancel channel, headerProcCh and the wake channels.      *)
(*                                                                         *)
(* The peer's chain is 1..Height.  How headers and parts are requested is  *)
(* in HeaderFetch and FetchQueue: here a fetcher gets all it can in one    *)
(* step.  A fault is a timeout, a bad answer or a peer that leaves.        *)
(***************************************************************************)
EXTENDS Integers, Sequences, FiniteSets, FiniteSetsExt

CONSTANTS
  Height, Pivot,        \* of the peer's chain at first; it may be one higher later
  Mode,                 \* configured: "fast" or "full"
  Batch,                \* headers in one batch of headerProcCh
  fsHeaderForceVerify, fsHeaderSafetyNet,
  MaxSyncs, MaxFaults   \* bounds

VARIABLES
  chain,     \* numbers of the head header, head fast block and head block
  db,        \* the database: headers, canonical numbers, blocks with their
             \* state, and the head block
  fastSync,  \* ProtocolManager.fastSync
  d,         \* the sync that runs or has just returned
  waiters,   \* "own", "late": goroutines that wait for a failed state sync
  syncs, faults

vars == <<chain, db, fastSync, d, waiters, syncs, faults>>

Parts == {"bodies", "receipts"}
Gos   == {"headers", "process", "content"} \cup Parts
Stop  == <<0, 0>>       \* the nil batch that ends headerProcCh

Idle == [at |-> "idle", mode |-> "full", origin |-> 0, height |-> 0,
         clean |-> TRUE, late |-> FALSE,      \* no fault; closed by a late waiter
         rolled |-> FALSE,                    \* imported blocks were rolled back
         committed |-> FALSE, err |-> "none",
         master |-> FALSE, others |-> FALSE,  \* peers that are there
         closed |-> FALSE, cancelled |-> FALSE, go |-> {},
         procCh |-> <<>>, wake |-> [k \in Parts |-> <<>>],
         from |-> 0,                          \* fetchHeaders
         ph |-> "wait", got |-> 0, rollback |-> {},  \* processHeaders
         upto |-> [k \in Parts |-> 0], finished |-> {},
         cp |-> "wait", done |-> 0,           \* the content processor
         state |-> "none"]                    \* state sync of the head block

Init ==
  /\ chain = [header |-> 0, fast |-> 0, block |-> 0] 
  /\ db = [headers |-> {0}, canon |-> {0}, states |-> {0}, head |-> 0]
  /\ fastSync = (Mode = "fast")
  /\ d = Idle /\ waiters = {} /\ syncs = 0 /\ faults = 0

Fast == d.mode = "fast"
Peers == d.master \/ d.others
Running(g) == g \in d.go
Fault == faults < MaxFaults /\ faults' = faults + 1
Faulty == [d EXCEPT !.clean = FALSE]

\* A goroutine returns r, and spawnSync receives it.  Before the last result it
\* closes the queue, after an error or the last one it cancels everything.
return(e, g, r) ==
  LET end == e.at = "run" /\ (r # "nil" \/ e.go = {g})
  IN  [e EXCEPT !.go = @ \ {g}, !.at = IF end THEN "wait" ELSE @,
                !.err = IF end THEN r ELSE @, !.cancelled = @ \/ end,
                !.closed = @ \/ end \/ Cardinality(e.go) = 2]

----------------------------------------------------------------------------
(* synchronise: everything is reset, then the goroutines are started.      *)

Ancestor(mode) ==
  LET top == IF mode = "fast" THEN chain.fast
             ELSE Max({b \in db.states : b <= chain.block})
  IN  IF mode = "fast" /\ Pivot < top THEN Pivot - 1 ELSE top

Start ==
  LET again == chain.block = 0 /\ chain.fast > 0
      mode  == IF fastSync \/ again THEN "fast" ELSE "full"
      from  == Ancestor(mode)
  IN  /\ d.at = "idle" /\ syncs < MaxSyncs
      /\ fastSync' = (fastSync \/ again)
      /\ \E h \in Height..Height + Min({syncs, 1}) :
           /\ chain.block < h
           /\ d' = [Idle EXCEPT !.at = "run", !.mode = mode, !.origin = from,
                 !.height = h, !.rolled = d.rolled,
                 !.master = TRUE, !.others = TRUE, !.go = Gos,
                 !.from = from + 1, !.got = from, !.done = from,
                 !.upto = [k \in Parts |-> from],
                 !.state = IF mode = "fast" THEN "run" ELSE "none"]
      /\ waiters' = {"late" : w \in waiters}
                       \cup (IF mode = "fast" THEN {"own"} ELSE {})
      /\ syncs' = syncs + 1 /\ UNCHANGED <<chain, db, faults>>

\* All goroutines have returned, so does the sync.  Fast sync is then disabled
\* if there is a head block, whatever the result.  Of the rest, only the result
\* matters from here on, and whether the waiter has something to do.
Finish ==
  /\ d.at = "wait" /\ d.go = {}
  /\ d' = [Idle EXCEPT !.mode = d.mode, !.clean = d.clean, !.late = d.late,
             !.committed = d.committed, !.err = d.err, !.height = d.height,
             !.rolled = d.rolled]
  /\ waiters' = IF d.state = "err" THEN waiters ELSE waiters \ {"own"}
  /\ fastSync' = (fastSync /\ chain.block = 0)
  /\ UNCHANGED <<chain, db, syncs, faults>>

\* UnregisterPeer: without its master the sync is cancelled.
MasterLeaves ==
  /\ d.master /\ Fault
  /\ d' = [Faulty EXCEPT !.master = FALSE, !.cancelled = TRUE]
  /\ UNCHANGED <<chain, db, fastSync, waiters, syncs>>

OthersLeave ==
  /\ d.others /\ Fault
  /\ d' = [Faulty EXCEPT !.others = FALSE]
  /\ UNCHANGED <<chain, db, fastSync, waiters, syncs>>

\* The process dies and is started again.  A head block without its state makes
\* loadLastState empty the chain, from the head header down.
Crash ==
  LET lost == IF db.head \in db.states THEN {} ELSE 1..chain.header
  IN  /\ d.at # "idle" /\ Fault
      /\ db' = [headers |-> db.headers \ lost, canon |-> db.canon \ lost,
                states |-> db.states \ lost, head |-> IF lost = {} THEN db.head ELSE 0]
      /\ chain' = IF lost = {} THEN [chain EXCEPT !.block = db.head]
                  ELSE [header |-> 0, fast |-> 0, block |-> 0]
      /\ d' = [Idle EXCEPT !.rolled = d.rolled] /\ waiters' = {}
      /\ fastSync' = (Mode = "fast" /\ chain'.block = 0)
      /\ UNCHANGED syncs

\* The select of a fetcher takes the cancel channel.
Cancelled(g) ==
  /\ d.cancelled /\ Running(g) /\ g \in {"headers"} \cup Parts
  /\ d' = return(d, g, "cancel")
  /\ UNCHANGED <<chain, db, fastSync, waiters, syncs, faults>>

----------------------------------------------------------------------------
(* fetchHeaders.                                                           *)

SendHeaders ==
  LET upto == Min({d.from + Batch - 1, d.height})
  IN  /\ Running("headers") /\ d.procCh = <<>> /\ d.master
      /\ d' = IF d.from > d.height
              THEN return([d EXCEPT !.procCh = <<Stop>>], "headers", "nil")
              ELSE [d EXCEPT !.procCh = <<<<d.from, upto>>>>, !.from = upto + 1]
      /\ UNCHANGED <<chain, db, fastSync, waiters, syncs, faults>>

\* No answer: the master is dropped, which cancels the sync.  So each send that
\* would end the sync in order may or may not be made, and errBadPeer follows.
HeadersTimeout ==
  /\ Running("headers") /\ d.master /\ Fault
  /\ \E sent \in SUBSET {k \in Parts : d.wake[k] = <<>>}, stop \in BOOLEAN :
       /\ stop => d.procCh = <<>>
       /\ d' = return([Faulty EXCEPT !.master = FALSE, !.cancelled = TRUE,
                  !.wake = [k \in Parts |-> IF k \in sent THEN <<FALSE>> ELSE @[k]],
                  !.procCh = IF stop THEN <<Stop>> ELSE @], "headers", "bad")
  /\ UNCHANGED <<chain, db, fastSync, waiters, syncs>>

----------------------------------------------------------------------------
(* processHeaders, with its deferred rollback.                             *)

\* processHeaders returns r.  Rollback of blockchain.go: a head that is in the
\* list moves to the first block below it that is not.
returnRollback(e, r) ==
  LET below(h) == IF h \in e.rollback THEN Max({b \in 0..h : b \notin e.rollback}) ELSE h
  IN  /\ chain' = [k \in DOMAIN chain |-> below(chain[k])]
      /\ db' = [db EXCEPT !.head = IF chain.block \in e.rollback THEN below(chain.block) ELSE @]
      /\ d' = return([e EXCEPT !.rolled = @ \/ chain.block \in e.rollback], "process", r)

ProcessCancelled ==
  /\ d.cancelled /\ Running("process") /\ d.ph = "wait"
  /\ returnRollback(d, "cancel")
  /\ UNCHANGED <<fastSync, waiters, syncs, faults>>

\* The last fsHeaderSafetyNet headers that were not known before.
uncertain(from, upto) ==
  LET all == d.rollback \cup ((from..upto) \ db.headers)
  IN  {b \in all : Cardinality({c \in all : c > b}) < fsHeaderSafetyNet}

\* A batch is inserted, in a fast sync, and scheduled; both fetchers are woken.
ProcessBatch ==
  LET from == d.procCh[1][1]
      upto == d.procCh[1][2]
  IN  /\ Running("process") /\ d.ph = "wait" /\ d.procCh \notin {<<>>, <<Stop>>}
      /\ d' = [d EXCEPT !.got = upto, !.procCh = <<>>,
                 !.rollback = IF Fast THEN uncertain(from, upto) ELSE {},
                 !.wake = [k \in Parts |-> IF @[k] = <<>> THEN <<TRUE>> ELSE @[k]]]
      /\ IF Fast /\ upto \notin db.headers
         THEN /\ chain' = [chain EXCEPT !.header = upto]
              /\ db' = [db EXCEPT !.headers = @ \cup (from..upto), !.canon = 0..upto]
         ELSE UNCHANGED <<chain, db>>
      /\ UNCHANGED <<fastSync, waiters, syncs, faults>>

\* The first header of the batch is not valid.
ProcessBadBatch ==
  /\ Running("process") /\ d.ph = "wait" /\ d.procCh \notin {<<>>, <<Stop>>}
  /\ Fast /\ Fault
  /\ returnRollback([Faulty EXCEPT !.procCh = <<>>], "invalid")
  /\ UNCHANGED <<fastSync, waiters, syncs>>

\* The nil batch: false is sent to one wake channel after the other.
ProcessStop ==
  /\ Running("process") /\ d.ph = "wait" /\ d.procCh = <<Stop>>
  /\ d' = [d EXCEPT !.procCh = <<>>, !.ph = "bodies"]
  /\ UNCHANGED <<chain, db, fastSync, waiters, syncs, faults>>

NotifyStop ==
  /\ Running("process") /\ d.ph \in Parts
  /\ LET e == [d EXCEPT !.ph = IF @ = "bodies" THEN "receipts" ELSE "check"]
     IN  \/ d.wake[d.ph] = <<>> /\ d' = [e EXCEPT !.wake[d.ph] = <<FALSE>>]
         \/ d.cancelled /\ d' = e
  /\ UNCHANGED <<chain, db, fastSync, waiters, syncs, faults>>

\* The total difficulty that the peer promised must have been delivered.
ProcessEnd ==
  LET stalling == \/ d.got = d.origin /\ chain.block < d.height
                  \/ Fast /\ chain.header < d.height
  IN  /\ Running("process") /\ d.ph = "check"
      /\ IF stalling
         THEN returnRollback(d, "stalling")
         ELSE d' = return(d, "process", "nil") /\ UNCHANGED <<chain, db>>
      /\ UNCHANGED <<fastSync, waiters, syncs, faults>>

----------------------------------------------------------------------------
(* fetchBodies and fetchReceipts.                                          *)

\* What is scheduled for k: receipts are wanted up to the pivot of a fast sync.
Wanted(k) ==
  IF k = "bodies" THEN d.got
  ELSE IF Fast THEN Max({d.origin, Min({d.got, Pivot})}) ELSE d.origin

Wake(k) ==
  /\ Running(k) /\ d.wake[k] # <<>>
  /\ d' = [d EXCEPT !.wake[k] = <<>>,
             !.finished = IF d.wake[k][1] THEN @ ELSE @ \cup {k}]
  /\ UNCHANGED <<chain, db, fastSync, waiters, syncs, faults>>

Fetch(k) ==
  /\ Running(k) /\ Peers /\ d.upto[k] < Wanted(k)
  /\ d' = [d EXCEPT !.upto[k] = Wanted(k)]
  /\ UNCHANGED <<chain, db, fastSync, waiters, syncs, faults>>

FetchEnd(k) ==
  /\ Running(k)
  /\ \/ ~Peers /\ d' = return(d, k, "nopeers")
     \/ Peers /\ k \in d.finished /\ d.upto[k] = Wanted(k) /\ d' = return(d, k, "nil")
  /\ UNCHANGED <<chain, db, fastSync, waiters, syncs, faults>>

----------------------------------------------------------------------------
(* processFullSyncContent and processFastSyncContent.                      *)

\* The last block that WaitResults may return: all its parts and those of the
\* blocks before are there, and there are enough results after a pivot.
Processable ==
  Max({b \in d.done..d.upto["bodies"] :
         Fast => /\ Min({b, Pivot}) <= d.upto["receipts"]
                 /\ d.done < Pivot /\ Pivot <= b =>
                      Pivot + fsHeaderForceVerify <= d.upto["bodies"]})

\* InsertChain: a block whose state is there is skipped, and does not become
\* the head; one that is not canonical yet also moves the other two heads.
insertChain(c, from, upto) ==
  LET new   == (from..upto) \ db.states
      fresh == (from..upto) \ db.canon
  IN  IF new = {} THEN chain' = c /\ db' = [db EXCEPT !.states = @ \cup {c.block}]
      ELSE /\ chain' = [header |-> Max({c.header} \cup fresh),
                        fast |-> Max({c.fast} \cup fresh), block |-> Max(new)]
           /\ db' = [headers |-> db.headers \cup new, canon |-> db.canon \cup new,
                     states |-> db.states \cup new \cup {c.block}, head |-> Max(new)]

\* importBlockResults.
ImportBlockResults ==
  /\ Running("content") /\ d.cp = "wait"
  /\ Fast => Pivot <= d.done
  /\ \E upto \in {Processable} :
       /\ upto > d.done
       /\ insertChain(chain, d.done + 1, upto)
       /\ d' = [d EXCEPT !.done = upto]
  /\ UNCHANGED <<fastSync, waiters, syncs, faults>>

\* Blocks before the pivot are written with their receipts unless the state sync
\* of the head has failed.  At the pivot it is cancelled.
CommitFastSyncData ==
  /\ Running("content") /\ Fast /\ d.cp = "wait" /\ d.done < Pivot
  /\ \E upto \in {Processable} :
       LET before == Min({upto, Pivot - 1})
       IN  /\ upto > d.done
           /\ IF d.done < before /\ d.state = "err"
              THEN d' = return(d, "content", "state") /\ UNCHANGED chain
              ELSE /\ d' = [d EXCEPT !.done = upto,
                             !.cp = IF Pivot <= upto THEN "pivot" ELSE "wait",
                             !.state = IF Pivot <= upto /\ @ = "run" THEN "err" ELSE @]
                   /\ chain' = [chain EXCEPT !.fast =
                                  IF d.done < before THEN Max({@, before}) ELSE @]
  /\ UNCHANGED <<db, fastSync, waiters, syncs, faults>>

\* The states of the pivot are there: it becomes the head, though not in the
\* database, and the blocks that came with it are imported.
CommitPivotBlock ==
  /\ Running("content") /\ d.cp = "pivot" /\ Peers
  /\ d' = [d EXCEPT !.cp = "wait", !.committed = TRUE]
  /\ insertChain([chain EXCEPT !.fast = Max({@, Pivot}), !.block = Pivot],
                 Pivot + 1, d.done)
  /\ UNCHANGED <<fastSync, waiters, syncs, faults>>

\* A state sync of the pivot fails with all peers, or a block is not valid.
ContentFails ==
  /\ Running("content") /\ Fault
  /\ d.cp = "pivot" \/ Processable > d.done
  /\ d' = return([Faulty EXCEPT !.state = IF @ = "run" THEN "err" ELSE @],
                 "content", "invalid")
  /\ UNCHANGED <<chain, db, fastSync, waiters, syncs>>

\* WaitResults returns nothing once the queue is closed.  The result of a fast
\* sync is then that of the state sync of the head.
ContentEnd ==
  LET state == IF d.state = "run" THEN "err" ELSE d.state
  IN  /\ Running("content") /\ d.cp = "wait" /\ d.closed /\ Processable = d.done
      /\ d' = return([d EXCEPT !.state = state], "content",
                     IF state = "err" THEN "state" ELSE "nil")
      /\ UNCHANGED <<chain, db, fastSync, waiters, syncs, faults>>

\* The state sync of the head completes, or fails with all peers.
HeadState ==
  /\ d.state = "run"
  /\ \/ Peers /\ d' = [d EXCEPT !.state = "nil"] /\ UNCHANGED faults
     \/ Fault /\ d' = [Faulty EXCEPT !.state = "err"]
  /\ UNCHANGED <<chain, db, fastSync, waiters, syncs>>

\* The goroutine that waits for the state sync closes the queue if that failed.
\* Nobody waits for it: by then the queue may be that of the next sync.
Waiter(w) ==
  /\ w \in waiters /\ (w = "own" => d.at = "idle" \/ d.state = "err")
  /\ waiters' = waiters \ {w}
  /\ d' = IF d.at = "idle" THEN d
          ELSE [d EXCEPT !.closed = TRUE, !.late = @ \/ w = "late"]
  /\ UNCHANGED <<chain, db, fastSync, syncs, faults>>

Process == ProcessCancelled \/ ProcessBatch \/ ProcessStop \/ NotifyStop \/ ProcessEnd
Content == ImportBlockResults \/ CommitFastSyncData \/ CommitPivotBlock \/ ContentEnd

Next ==
  \/ Start \/ Finish \/ MasterLeaves \/ OthersLeave \/ Crash
  \/ SendHeaders \/ HeadersTimeout \/ Process \/ ProcessBadBatch
  \/ \E k \in Parts : Wake(k) \/ Fetch(k) \/ FetchEnd(k)
  \/ \E g \in Gos : Cancelled(g)
  \/ Content \/ ContentFails \/ HeadState
  \/ \E w \in {"own", "late"} : Waiter(w)

\* Each goroutine goes on while it can.  Nothing makes a peer answer the state
\* sync of the head in time.
Fair(i) ==
  CASE i = 1 -> Finish
    [] i = 2 -> SendHeaders \/ Cancelled("headers")
    [] i = 3 -> Process
    [] i = 4 -> Content
    [] i \in {5, 6} -> LET k == IF i = 5 THEN "bodies" ELSE "receipts"
                       IN  Wake(k) \/ Fetch(k) \/ FetchEnd(k) \/ Cancelled(k)
    [] OTHER -> FALSE

Spec == Init /\ [][Next]_vars
FairSpec == Spec /\ \A i \in 1..6 : WF_vars(Fair(i))

----------------------------------------------------------------------------
Returned == d.at = "idle"

\* A sync that reports success has imported the whole chain of the peer, unless
\* a late waiter closed its queue, or a failed sync before it moved the head
\* block back (blocks it imports again are then skipped).
SuccessImportsAll ==
  Returned /\ d.err = "nil" => chain.block = d.height \/ d.late \/ d.rolled

\* A sync in which no peer did anything wrong fails only after the pivot has
\* been committed, or because of what a failed sync before it left behind: a
\* late waiter, or headers that it rolled back and that stay known.
FailureJustified ==
  Returned /\ d.clean /\ d.err \notin {"none", "nil"} =>
    d.committed \/ d.late \/ (d.err = "stalling" /\ d.height \in db.headers)

\* The head block has its state, whatever fails and whenever the process dies,
\* unless processHeaders rolled imported blocks back.
HeadHasState == chain.block \in db.states \/ d.rolled

\* Every sync returns, unless it waits for the state of the pivot with no peer
\* left: that wait is not cancelled.
Abandoned == d.cp = "pivot" /\ ~Peers
=============================================================================
