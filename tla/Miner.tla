------------------------------- MODULE Miner -------------------------------
(***************************************************************************)
(* The life cycle of block production: Miner (miner.go) decides when to    *)
(* mine, around synchronisation; the worker (worker.go) runs a mintLoop    *)
(* goroutine per start, an update goroutine that aborts sealing when the   *)
(* head moves, and a wait goroutine that writes what was sealed.           *)
(*                                                                         *)
(* Channels that are closed and replaced (stopper, quitCh) are numbers, so *)
(* that two goroutines may hold different channels for the same field.  A  *)
(* field that is read and written without a lock is read and written in    *)
(* steps of their own.  createNewWork is one step: start, stop and         *)
(* createNewWork exclude each other by worker.mu.                          *)
(*                                                                         *)
(* Abstractions: a block is its number; whether it is this validator's     *)
(* turn, whether a work can be made and whether signing succeeds are free; *)
(* transactions applied to the pending state, and the list of unconfirmed  *)
(* blocks that is only logged, are left out.                               *)
(***************************************************************************)
EXTENDS Integers, Sequences, SequencesExt, FiniteSets

CONSTANTS
  User,        \* goroutines that call Start and Stop: RPC calls, start-up
  MaxCalls,    \* bound on the calls of users
  MaxSyncs,    \* bound on the synchronisations the downloader announces
  MaxLoops,    \* bound on the mintLoops started
  MaxHeads,    \* bound on the number of the head
  MaxWorks,    \* bound on the blocks that are worked on
  resultQueueSize

ASSUME MinerAssumption ==
  /\ MaxCalls \in Nat /\ MaxSyncs \in Nat /\ MaxLoops \in Nat
  /\ MaxHeads \in Nat /\ MaxWorks \in Nat
  /\ resultQueueSize \in Nat \ {0}
  /\ "sync" \notin User

Caller == User \cup {"sync"}   \* "sync" is the goroutine of Miner.update
Loop   == 1..MaxLoops

VARIABLES
  miner,       \* Miner's mining, canStart and shouldStart
  worker,      \* worker's mining, stopper and quitCh
  made,        \* channels made so far; a channel is its number
  closed,      \* channels that were closed
  caller,      \* where each caller is, and where it goes on after Stop
  loop,        \* the mintLoop goroutines
  upd,         \* where worker.update is: "select" or "swap"
  heads,       \* ChainHeadEvents waiting in chainHeadCh
  recv,        \* worker.recv: the results on their way to wait
  head,        \* the number of the current block
  syncing,     \* whether the downloader synchronises
  status,      \* "ok", or the channel whose second close ended the process
  history      \* calls and synchronisations so far; what properties refer to

chan  == <<made, closed, status>>
chain == <<upd, heads, recv, head>>
vars  == <<miner, worker, chan, caller, loop, chain, syncing, history>>

NoBlock == 0    \* the nil block of an aborted seal
Alive   == {l \in Loop : loop[l].pc \notin {"unborn", "gone"}}
NoLoop  == [pc |-> "unborn", stop |-> 0, quit |-> 0, work |-> 0]

Init ==
  /\ miner = [mining |-> FALSE, canStart |-> TRUE, shouldStart |-> FALSE]
  /\ worker = [mining |-> FALSE, stopper |-> 1, quitCh |-> 2]
  /\ made = 2 /\ closed = {} /\ status = "ok"
  /\ caller = [c \in Caller |-> [pc |-> "idle", then |-> "idle"]]
  /\ loop = [l \in Loop |-> NoLoop]
  /\ upd = "select" /\ heads = 0 /\ recv = <<>>
  /\ head = 0
  /\ syncing = FALSE
  /\ history = [calls |-> 0, syncs |-> 0, works |-> 0, stops |-> 0,
                overlap |-> FALSE, promised |-> FALSE]

----------------------------------------------------------------------------
\* Miner.Start and Miner.Stop, by a caller.  overlap records that two callers
\* were inside the miner at once.
Busy(c) == caller[c].pc \notin {"idle", "done"}

Enter(c) == history.overlap \/ \E d \in Caller \ {c} : Busy(d)

At(c, pc) == caller[c].pc = pc
Goto(c, pc) == caller' = [caller EXCEPT ![c].pc = pc]
Return(c) == Goto(c, IF c = "sync" THEN "done" ELSE "idle")

\* PrivateMinerAPI.Start calls Miner.Start only if the miner does not mine.
callStart(u) ==
  /\ At(u, "idle") /\ history.calls < MaxCalls
  /\ ~miner.mining
  /\ Goto(u, "start")
  /\ history' = [history EXCEPT !.calls = @ + 1, !.overlap = Enter(u)]
  /\ UNCHANGED <<miner, worker, chan, loop, chain, syncing>>

callStop(u) ==
  /\ At(u, "idle") /\ history.calls < MaxCalls
  /\ caller' = [caller EXCEPT ![u] = [pc |-> "stop", then |-> "idle"]]
  /\ history' = [history EXCEPT !.calls = @ + 1, !.overlap = Enter(u),
                                !.promised = FALSE]
  /\ UNCHANGED <<miner, worker, chan, loop, chain, syncing>>

\* Miner.Start: shouldStart is set before canStart is looked at.
setShouldStart(c) ==
  /\ At(c, "start")
  /\ miner' = [miner EXCEPT !.shouldStart = TRUE]
  /\ Goto(c, "check")
  /\ UNCHANGED <<worker, chan, loop, chain, syncing, history>>

checkCanStart(c) ==
  /\ At(c, "check")
  /\ IF miner.canStart
     THEN /\ miner' = [miner EXCEPT !.mining = TRUE]
          /\ Goto(c, "spawn")
          /\ UNCHANGED history
     ELSE /\ Return(c)
          /\ history' = [history EXCEPT !.promised = TRUE]
          /\ UNCHANGED miner
  /\ UNCHANGED <<worker, chan, loop, chain, syncing>>

\* worker.start.  A loop that has been told to stop may not have left yet.
start(c) ==
  /\ At(c, "spawn")
  /\ worker' = [worker EXCEPT !.mining = TRUE]
  /\ \E l \in Loop :
       /\ \A k \in Loop : loop[k].pc = "unborn" <=> k >= l
       /\ loop' = [loop EXCEPT ![l].pc = "loop"]
  /\ Return(c)
  /\ history' = [history EXCEPT !.overlap = @ \/ Alive # {}]
  /\ UNCHANGED <<miner, chan, chain, syncing>>

\* worker.stop: mining is tested before worker.mu is taken.
stopTest(c) ==
  /\ At(c, "stop")
  /\ Goto(c, IF worker.mining THEN "close" ELSE "clear")
  /\ UNCHANGED <<miner, worker, chan, loop, chain, syncing, history>>

\* close(ch): closing a closed channel ends the process.
Close(name, ch) ==
  IF ch \in closed
  THEN status' = name /\ UNCHANGED closed
  ELSE closed' = closed \cup {ch} /\ UNCHANGED status

\* Faulty variant: the stopper is replaced, but the old one is not closed.
stopReplaces(c) ==
  /\ At(c, "close")
  /\ worker' = [worker EXCEPT !.mining = FALSE, !.stopper = made + 1]
  /\ made' = made + 1
  /\ Goto(c, "clear")
  /\ history' = [history EXCEPT !.stops = @ + 1]
  /\ UNCHANGED <<miner, closed, status, loop, chain, syncing>>

stop(c) ==
  /\ At(c, "close")
  /\ worker' = [worker EXCEPT !.mining = FALSE]
  /\ Close("stopper", worker.stopper)
  /\ Goto(c, "clear")
  /\ history' = [history EXCEPT !.stops = @ + 1]
  /\ UNCHANGED <<miner, made, loop, chain, syncing>>

\* Miner.Stop's stores, in their order.
clearMining(c) ==
  /\ At(c, "clear")
  /\ miner' = [miner EXCEPT !.mining = FALSE]
  /\ Goto(c, "clear2")
  /\ UNCHANGED <<worker, chan, loop, chain, syncing, history>>

clearShouldStart(c) ==
  /\ At(c, "clear2")
  /\ miner' = [miner EXCEPT !.shouldStart = FALSE]
  /\ Goto(c, caller[c].then)
  /\ UNCHANGED <<worker, chan, loop, chain, syncing, history>>

----------------------------------------------------------------------------
\* Miner.update: the handlers of the downloader's events.  Post hands an event
\* over when update receives, so the downloader waits for "idle"; after Done
\* or Failed, update has unsubscribed ("done") and posts go nowhere.
StartEvent ==
  /\ ~syncing /\ history.syncs < MaxSyncs /\ At("sync", "idle")
  /\ syncing' = TRUE
  /\ miner' = [miner EXCEPT !.canStart = FALSE]
  /\ Goto("sync", "mining?")
  /\ history' = [history EXCEPT !.syncs = @ + 1, !.overlap = Enter("sync")]
  /\ UNCHANGED <<worker, chan, loop, chain>>

\* A miner that mines is stopped and will be started again.
pause ==
  /\ At("sync", "mining?")
  /\ caller' = [caller EXCEPT !["sync"] =
       [pc |-> IF miner.mining THEN "stop" ELSE "idle", then |-> "resume"]]
  /\ UNCHANGED <<miner, worker, chan, loop, chain, syncing, history>>

wantRestart ==
  /\ At("sync", "resume")
  /\ miner' = [miner EXCEPT !.shouldStart = TRUE]
  /\ Goto("sync", "idle")
  /\ UNCHANGED <<worker, chan, loop, chain, syncing, history>>

\* Done or Failed: shouldStart is loaded before canStart is raised.
DoneEvent ==
  /\ syncing /\ At("sync", "idle")
  /\ syncing' = FALSE
  /\ caller' = [caller EXCEPT !["sync"] =
       [pc |-> "raise", then |-> IF miner.shouldStart THEN "start" ELSE "done"]]
  /\ history' = [history EXCEPT !.overlap = Enter("sync")]
  /\ UNCHANGED <<miner, worker, chan, loop, chain>>

raiseCanStart ==
  /\ At("sync", "raise")
  /\ miner' = [miner EXCEPT !.canStart = TRUE]
  /\ Goto("sync", "reset")
  /\ UNCHANGED <<worker, chan, loop, chain, syncing, history>>

\* Faulty variant: a start that was put off is forgotten.
resetForgets ==
  /\ At("sync", "reset")
  /\ miner' = [miner EXCEPT !.shouldStart = FALSE]
  /\ Goto("sync", "done")
  /\ UNCHANGED <<worker, chan, loop, chain, syncing, history>>

resetShouldStart ==
  /\ At("sync", "reset")
  /\ miner' = [miner EXCEPT !.shouldStart = FALSE]
  /\ Goto("sync", caller["sync"].then)
  /\ UNCHANGED <<worker, chan, loop, chain, syncing, history>>

----------------------------------------------------------------------------
\* mintLoop.  select looks at the stopper field once, when it is entered.
enterSelect(l) ==
  /\ loop[l].pc = "loop"
  /\ loop' = [loop EXCEPT ![l].pc = "select", ![l].stop = worker.stopper]
  /\ UNCHANGED <<miner, worker, chan, caller, chain, syncing, history>>

\* A tick.  mintBlock returns early when it is not this validator's turn or no
\* work can be made; otherwise createNewWork builds on the head.
tick(l) ==
  /\ loop[l].pc = "select"
  /\ \/ /\ loop' = [loop EXCEPT ![l].pc = "loop", ![l].stop = 0]
        /\ UNCHANGED history
     \/ /\ head < MaxHeads /\ history.works < MaxWorks
        /\ loop' = [loop EXCEPT ![l].pc = "work", ![l].stop = 0, ![l].work = head + 1]
        /\ history' = [history EXCEPT !.works = @ + 1]
  /\ UNCHANGED <<miner, worker, chan, caller, chain, syncing>>

\* mintBlock calls Seal with the channel that quitCh holds now.
seal(l) ==
  /\ loop[l].pc = "work"
  /\ loop' = [loop EXCEPT ![l].pc = "seal", ![l].quit = worker.quitCh]
  /\ UNCHANGED <<miner, worker, chan, caller, chain, syncing, history>>

\* Seal returns the signed block when the slot comes, nothing when its channel
\* is closed first, or an error.  The result goes to wait, an error does not;
\* the send waits while the queue of results is full.
sealed(l) ==
  /\ loop[l].pc = "seal"
  /\ \/ /\ Len(recv) < resultQueueSize
        /\ \/ recv' = Append(recv, loop[l].work)
           \/ loop[l].quit \in closed /\ recv' = Append(recv, NoBlock)
     \/ UNCHANGED recv
  /\ loop' = [loop EXCEPT ![l] = [NoLoop EXCEPT !.pc = "loop"]]
  /\ UNCHANGED <<miner, worker, chan, caller, upd, heads, head,
                 syncing, history>>

\* The stopper case: close quitCh, then replace quitCh, then stopper.
leave(l) ==
  /\ loop[l].pc = "select" /\ loop[l].stop \in closed
  /\ Close("quitCh", worker.quitCh)
  /\ loop' = [loop EXCEPT ![l].pc = "newQuit", ![l].stop = 0]
  /\ UNCHANGED <<miner, worker, made, caller, chain, syncing, history>>

leaveQuit(l) ==
  /\ loop[l].pc = "newQuit"
  /\ worker' = [worker EXCEPT !.quitCh = made + 1]
  /\ made' = made + 1
  /\ loop' = [loop EXCEPT ![l].pc = "newStopper"]
  /\ UNCHANGED <<miner, closed, status, caller, chain, syncing, history>>

leaveStopper(l) ==
  /\ loop[l].pc = "newStopper"
  /\ worker' = [worker EXCEPT !.stopper = made + 1]
  /\ made' = made + 1
  /\ loop' = [loop EXCEPT ![l].pc = "gone"]
  /\ UNCHANGED <<miner, closed, status, caller, chain, syncing, history>>

----------------------------------------------------------------------------
\* worker.update: a head event closes quitCh and then replaces it.
\* Faulty variant: the channel is replaced without being closed.
updateUnclosed ==
  /\ upd = "select" /\ heads > 0
  /\ heads' = heads - 1
  /\ upd' = "swap"
  /\ UNCHANGED <<miner, worker, chan, caller, loop, recv, head,
                 syncing, history>>

updateClose ==
  /\ upd = "select" /\ heads > 0
  /\ heads' = heads - 1
  /\ Close("quitCh", worker.quitCh)
  /\ upd' = "swap"
  /\ UNCHANGED <<miner, worker, made, caller, loop, recv, head,
                 syncing, history>>

\* Faulty variant: the closed channel stays in the field.
updateKeepsChannel ==
  /\ upd = "swap"
  /\ upd' = "select"
  /\ UNCHANGED <<miner, worker, chan, caller, loop, heads, recv, head,
                 syncing, history>>

updateSwap ==
  /\ upd = "swap"
  /\ worker' = [worker EXCEPT !.quitCh = made + 1]
  /\ made' = made + 1
  /\ upd' = "select"
  /\ UNCHANGED <<miner, closed, status, caller, loop, heads, recv, head,
                 syncing, history>>

\* worker.wait: write the block and announce the new head.
\* A block that does not exceed the head stays on a side branch.
wait ==
  /\ recv # <<>>
  /\ recv' = Tail(recv)
  /\ LET block == Head(recv)
         wins  == block > head
     IN  /\ head' = IF wins THEN block ELSE head
         /\ heads' = IF wins THEN heads + 1 ELSE heads
  /\ UNCHANGED <<miner, worker, chan, caller, loop, upd, syncing, history>>

\* A block of another validator becomes the head.
foreignHead ==
  /\ head < MaxHeads
  /\ head' = head + 1
  /\ heads' = heads + 1
  /\ UNCHANGED <<miner, worker, chan, caller, loop, upd, recv,
                 syncing, history>>

----------------------------------------------------------------------------
Call(c) ==
  \/ setShouldStart(c) \/ checkCanStart(c) \/ start(c) \/ stopTest(c)
  \/ stop(c) \/ clearMining(c) \/ clearShouldStart(c)

Update == pause \/ wantRestart \/ raiseCanStart \/ resetShouldStart

Mint(l) ==
  \/ enterSelect(l) \/ tick(l) \/ seal(l) \/ sealed(l)
  \/ leave(l) \/ leaveQuit(l) \/ leaveStopper(l)

Next ==
  /\ status = "ok"
  /\ \/ \E u \in User : callStart(u) \/ callStop(u)
     \/ \E c \in Caller : Call(c)
     \/ StartEvent \/ DoneEvent \/ Update
     \/ \E l \in Loop : Mint(l)
     \/ updateClose \/ updateSwap \/ wait \/ foreignHead

Spec == Init /\ [][Next]_vars

\* Goroutines that can run do run; a select whose stop channel is closed takes
\* that case sooner or later, however often the ticker is ready too, because
\* Go picks among ready cases at random.
Fairness ==
  /\ \A l \in Loop : /\ WF_vars(status = "ok" /\ Mint(l))
                     /\ SF_vars(status = "ok" /\ leave(l))
  /\ WF_vars(status = "ok" /\ wait)

----------------------------------------------------------------------------
Quiet == \A c \in Caller : ~Busy(c)

\* When calls do not overlap and each start comes after the stopped loop has
\* left, then between calls Miner and worker agree on whether they mine, and
\* the node mines with exactly one mintLoop that the next stop can reach.
MiningHasMinter ==
  status = "ok" /\ ~history.overlap /\ Quiet =>
    /\ miner.mining = worker.mining
    /\ worker.mining =>
         /\ worker.stopper \notin closed
         /\ \E l \in Loop : /\ Alive = {l}
                            /\ loop[l].pc \notin {"newQuit", "newStopper"}

\* worker.stop closes a stopper twice only after overlapping calls or a start
\* that came before the stopped loop had replaced the channel.
StopperClosedOnce == status = "stopper" => history.overlap

\* As long as nobody stops mining, head events never close quitCh twice: only
\* a leaving mintLoop competes with worker.update for the channel.
QuitClosedOnce == status = "quitCh" => history.stops > 0

\* Whoever seals can be told to abort: its channel is closed already or is
\* still the one the next head event closes.
SealersCanBeStopped ==
  \A l \in Loop : loop[l].pc = "seal" =>
    loop[l].quit \in closed \cup {worker.quitCh}

\* mintLoops that wait can be stopped, unless a start overtook a loop that was
\* leaving: that loop replaces the channel its successor waits on.
LoopsCanBeStopped ==
  ~history.overlap =>
    \A l \in Loop : loop[l].pc = "select" =>
      loop[l].stop \in closed \cup {worker.stopper}

\* No mining while the downloader synchronises, and no start that was put off
\* ("will start miner afterwards") is lost, when calls do not overlap.
SyncPausesMining ==
  ~history.overlap /\ Quiet =>
    /\ syncing => ~worker.mining
    /\ At("sync", "done") /\ history.promised => worker.mining

\* Between calls the node mines or not as it was told, whatever came in between.
MiningRight == MiningHasMinter /\ SyncPausesMining

\* No channel is closed twice, but for what the two parts except.
ClosedOnce == StopperClosedOnce /\ QuitClosedOnce

\* Nobody waits on a channel that no one will close.
CanBeStopped == SealersCanBeStopped /\ LoopsCanBeStopped

\* A stopped miner stops: every mintLoop leaves after a stop, unless mining is
\* started anew, calls overlapped or the process ended.
StopTakesEffect ==
  ~worker.mining ~> (Alive = {} \/ worker.mining \/ history.overlap \/ status # "ok")
=============================================================================
