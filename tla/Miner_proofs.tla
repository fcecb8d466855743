---------------------------- MODULE Miner_proofs ----------------------------
(***************************************************************************)
(* Proofs about the life cycle of block production, for any callers and    *)
(* any number of calls, mintLoops, heads and works.                        *)
(*                                                                         *)
(* The inductive invariant has four parts.  Types.  Channels: who is       *)
(* between closing quitCh and replacing it, with no assumption on the      *)
(* calls.  Calls: how far the handlers of the downloader's events are.     *)
(* Orderly and Minter: what holds as long as calls have not overlapped.    *)
(***************************************************************************)
EXTENDS Miner, TLAPS

Pc == {"idle", "start", "check", "spawn", "stop", "close", "clear", "clear2"}
Pausing == {"mining?", "stop", "close", "clear", "clear2", "resume"}
Resuming == {"raise", "reset", "start", "check", "spawn", "done"}
LoopPc == {"unborn", "loop", "select", "work", "seal", "newQuit", "newStopper", "gone"}
Minting == {"loop", "select", "work", "seal"}

MinerRec == [mining : BOOLEAN, canStart : BOOLEAN, shouldStart : BOOLEAN]
WorkerRec == [mining : BOOLEAN, stopper : Nat, quitCh : Nat]
CallerRec == [pc : Pc \cup Pausing \cup Resuming,
              then : {"idle", "resume", "start", "done"}]
LoopRec == [pc : LoopPc, stop : Nat, quit : Nat, work : Nat]
HistoryRec == [calls : Nat, syncs : Nat, works : Nat, stops : Nat,
               overlap : BOOLEAN, promised : BOOLEAN]

TypeOK ==
  /\ miner \in MinerRec /\ worker \in WorkerRec
  /\ made \in Nat /\ closed \in SUBSET Nat
  /\ status \in {"ok", "stopper", "quitCh"}
  /\ caller \in [Caller -> CallerRec] /\ loop \in [Loop -> LoopRec]
  /\ upd \in {"select", "swap"}
  /\ heads \in Nat /\ recv \in Seq(Nat) /\ head \in Nat
  /\ syncing \in BOOLEAN
  /\ history \in HistoryRec

\* A channel that was not made yet is not closed.  One goroutine at a time is
\* between closing quitCh and replacing it, a second one ends the process.
\* Until the first stop, the stopper is open and only worker.update closes.
Channels ==
  /\ \A ch \in closed : 1 <= ch /\ ch <= made
  /\ worker.stopper \in 1 .. made /\ worker.quitCh \in 1 .. made
  /\ worker.stopper # worker.quitCh
  /\ status = "ok" =>
       /\ upd = "swap" => worker.quitCh \in closed
       /\ \A l \in Loop : loop[l].pc = "newQuit" =>
            /\ worker.quitCh \in closed /\ upd = "select"
            /\ \A k \in Loop : loop[k].pc = "newQuit" => k = l
  /\ history.stops = 0 =>
       /\ worker.stopper \notin closed
       /\ worker.quitCh \in closed => upd = "swap"
       /\ \A l \in Loop : /\ loop[l].stop \in {0, worker.stopper}
                          /\ loop[l].pc \notin {"newQuit", "newStopper"}
  /\ SealersCanBeStopped
  /\ QuitClosedOnce

\* Where the callers are.  The handler of StartEvent runs while the downloader
\* synchronises, the one of DoneEvent afterwards; canStart is down until it has
\* been raised.
Calls ==
  /\ \A u \in User : caller[u].pc \in Pc /\ caller[u].then = "idle"
  /\ caller["sync"].pc \in Pausing => syncing
  /\ caller["sync"].pc \in Pausing \ {"mining?"} => caller["sync"].then = "resume"
  /\ caller["sync"].pc \in {"raise", "reset"} => caller["sync"].then \in {"start", "done"}
  /\ caller["sync"].pc \in Resuming => ~syncing
  /\ caller["sync"].pc \in Resuming \ {"raise"} => miner.canStart
  /\ syncing => ~miner.canStart
  /\ ~miner.canStart => syncing \/ caller["sync"].pc = "raise"

\* A start that was put off is remembered until the miner has started.
Kept ==
  \/ syncing /\ At("sync", "idle") /\ miner.shouldStart
  \/ caller["sync"].pc \in {"raise", "reset"} /\ caller["sync"].then = "start"
  \/ caller["sync"].pc \in {"start", "check", "spawn"}
  \/ At("sync", "done") /\ worker.mining

\* As long as calls do not overlap one caller is inside at a time, and Miner
\* and worker differ only between two stores of that caller.
Orderly ==
  ~history.overlap =>
    /\ \A c, d \in Caller : Busy(c) /\ Busy(d) => c = d
    /\ \A c \in Caller : /\ At(c, "close") => worker.mining
                         /\ At(c, "clear") => ~worker.mining
                         /\ At(c, "spawn") => miner.mining /\ ~syncing
                         /\ At(c, "check") => miner.shouldStart
    /\ (\A c \in Caller : ~At(c, "spawn") /\ ~At(c, "clear")) =>
         (miner.mining <=> worker.mining)
    /\ syncing /\ caller["sync"].pc \notin {"mining?", "stop", "close"} => ~worker.mining
    /\ history.promised =>
         /\ \A u \in User : caller[u].pc \notin {"stop", "close", "clear", "clear2"}
         /\ Kept

\* And one mintLoop lives at a time, on the stopper that the next stop closes.
Minter ==
  ~history.overlap =>
    /\ status # "stopper"
    /\ \A k, l \in Alive : k = l
    /\ \A l \in Loop : loop[l].pc = "select" => loop[l].stop = worker.stopper
    /\ worker.mining => /\ worker.stopper \notin closed
                        /\ \E l \in Loop : loop[l].pc \in Minting
    /\ worker.stopper \in closed => Alive # {}

IInv == TypeOK /\ Channels /\ Calls /\ Orderly /\ Minter

----------------------------------------------------------------------------
(* What the steps of a caller do to the record of callers.                 *)

\* Caller c is now at p and goes on at t after Stop; the others have not moved.
Moved(c, p, t) ==
  \A d \in Caller : /\ caller'[d].pc = IF d = c THEN p ELSE caller[d].pc
                    /\ caller'[d].then = IF d = c THEN t ELSE caller[d].then

\* The update goroutine is a caller, and no user.
LEMMA Callers == "sync" \in Caller /\ \A u \in User : u \in Caller /\ u # "sync"
  BY MinerAssumption DEF Caller

\* Goto moves its caller.
LEMMA GotoMoves ==
  ASSUME TypeOK, NEW c \in Caller, NEW p, Goto(c, p)
  PROVE  Moved(c, p, caller[c].then)
  <1>1. caller \in [Caller -> CallerRec] /\ caller' = [caller EXCEPT ![c].pc = p]
    BY DEF TypeOK, Goto
  <1>2. QED
    BY <1>1 DEF CallerRec, Moved

\* So does a step that says where to go on.
LEMMA CallMoves ==
  ASSUME TypeOK, NEW c \in Caller, NEW p, NEW t,
         caller' = [caller EXCEPT ![c] = [pc |-> p, then |-> t]]
  PROVE  Moved(c, p, t)
  <1>1. caller \in [Caller -> CallerRec]
    BY DEF TypeOK
  <1>2. QED
    BY SMTT(30), <1>1 DEF CallerRec, Moved

\* Every step keeps the types.
LEMMA TypesKept ==
  ASSUME TypeOK, Next
  PROVE  TypeOK'
  <1>1. ASSUME NEW u \in User, callStart(u) PROVE TypeOK'
    <2>1. caller' \in [Caller -> CallerRec]
      BY <1>1
      DEF callStart, TypeOK, CallerRec, Goto, Return, Pc, Pausing, Resuming, Caller
    <2>2. PICK o \in BOOLEAN : o = Enter(u)
      BY Zenon DEF Enter
    <2>3. history' \in HistoryRec
      <3>1. history \in HistoryRec
        BY DEF TypeOK
      <3>2. PICK n \in Nat : n = history.calls + 1
        BY <3>1 DEF HistoryRec
      <3>3. history' = [history EXCEPT !.calls = n, !.overlap = o]
        BY <1>1, <2>2, <3>2, Zenon DEF callStart
      <3>4. QED
        BY <3>1, <3>3, ZenonT(60) DEF HistoryRec
    <2>4. QED
      BY <1>1, <2>1, <2>3 DEF callStart, TypeOK, chan, chain
  <1>2. ASSUME NEW u \in User, callStop(u) PROVE TypeOK'
    <2>1. caller' \in [Caller -> CallerRec]
      BY <1>2
      DEF callStop, TypeOK, CallerRec, Goto, Return, Pc, Pausing, Resuming, Caller
    <2>2. PICK o \in BOOLEAN : o = Enter(u)
      BY Zenon DEF Enter
    <2>3. history' \in HistoryRec
      <3>1. history \in HistoryRec
        BY DEF TypeOK
      <3>2. PICK n \in Nat : n = history.calls + 1
        BY <3>1 DEF HistoryRec
      <3>3. history' = [history EXCEPT !.calls = n, !.overlap = o, !.promised = FALSE]
        BY <1>2, <2>2, <3>2, Zenon DEF callStop
      <3>4. QED
        BY <3>1, <3>3, ZenonT(60) DEF HistoryRec
    <2>4. QED
      BY <1>2, <2>1, <2>3 DEF callStop, TypeOK, chan, chain
  <1>3. ASSUME NEW c \in Caller, setShouldStart(c) PROVE TypeOK'
    <2>1. miner' \in MinerRec
      BY <1>3, Zenon DEF setShouldStart, TypeOK, MinerRec
    <2>2. caller' \in [Caller -> CallerRec]
      BY <1>3, ZenonT(60)
      DEF setShouldStart, TypeOK, CallerRec, Goto, Return, Pc, Pausing, Resuming
    <2>3. QED
      BY <1>3, <2>1, <2>2 DEF setShouldStart, TypeOK, chan, chain
  <1>4. ASSUME NEW c \in Caller, checkCanStart(c) PROVE TypeOK'
    <2>1. miner' \in MinerRec
      BY <1>4, Zenon DEF checkCanStart, TypeOK, MinerRec
    <2>2. caller' \in [Caller -> CallerRec]
      BY <1>4
      DEF checkCanStart, TypeOK, CallerRec, Goto, Return, Pc, Pausing, Resuming
    <2>3. history' \in HistoryRec
      BY <1>4, Zenon DEF checkCanStart, TypeOK, HistoryRec
    <2>4. QED
      BY SMTT(30), <1>4, <2>1, <2>2, <2>3 DEF checkCanStart, TypeOK, chan, chain
  <1>5. ASSUME NEW c \in Caller, start(c) PROVE TypeOK'
    <2>1. worker' \in WorkerRec
      BY <1>5, Zenon DEF start, TypeOK, WorkerRec
    <2>2. loop' \in [Loop -> LoopRec]
      <3>1. PICK l \in Loop : loop' = [loop EXCEPT ![l].pc = "loop"]
        BY <1>5, Zenon DEF start
      <3>2. QED
        BY <3>1, ZenonT(60) DEF TypeOK, LoopRec, LoopPc
    <2>3. caller' \in [Caller -> CallerRec]
      BY <1>5, ZenonT(60)
      DEF start, TypeOK, CallerRec, Goto, Return, Pc, Pausing, Resuming
    <2>4. PICK o \in BOOLEAN : o = (history.overlap \/ Alive # {})
      BY Zenon DEF Enter
    <2>5. history' \in HistoryRec
      BY <1>5, <2>4, Zenon DEF start, TypeOK, HistoryRec
    <2>6. QED
      BY <1>5, <2>1, <2>2, <2>3, <2>5 DEF start, TypeOK, chan, chain
  <1>6. ASSUME NEW c \in Caller, stopTest(c) PROVE TypeOK'
    <2>1. caller' \in [Caller -> CallerRec]
      BY <1>6 DEF stopTest, TypeOK, CallerRec, Goto, Return, Pc, Pausing, Resuming
    <2>2. QED
      BY <1>6, <2>1 DEF stopTest, TypeOK, chan, chain
  <1>7. ASSUME NEW c \in Caller, stop(c) PROVE TypeOK'
    <2>1. worker' \in WorkerRec
      BY <1>7, ZenonT(60) DEF stop, TypeOK, WorkerRec
    <2>2. closed' \in SUBSET Nat /\ status' \in {"ok", "stopper", "quitCh"}
      BY SMTT(30), <1>7 DEF stop, TypeOK, Close, WorkerRec
    <2>3. caller' \in [Caller -> CallerRec]
      BY <1>7, ZenonT(60)
      DEF stop, TypeOK, CallerRec, Goto, Return, Pc, Pausing, Resuming
    <2>4. history' \in HistoryRec
      BY <1>7 DEF stop, TypeOK, HistoryRec
    <2>5. QED
      BY SMTT(30), <1>7, <2>1, <2>2, <2>3, <2>4 DEF stop, TypeOK, chan, chain
  <1>8. ASSUME NEW c \in Caller, clearMining(c) PROVE TypeOK'
    <2>1. miner' \in MinerRec
      BY <1>8, Zenon DEF clearMining, TypeOK, MinerRec
    <2>2. caller' \in [Caller -> CallerRec]
      BY <1>8, ZenonT(60)
      DEF clearMining, TypeOK, CallerRec, Goto, Return, Pc, Pausing, Resuming
    <2>3. QED
      BY <1>8, <2>1, <2>2 DEF clearMining, TypeOK, chan, chain
  <1>9. ASSUME NEW c \in Caller, clearShouldStart(c) PROVE TypeOK'
    <2>1. miner' \in MinerRec
      BY <1>9, ZenonT(60) DEF clearShouldStart, TypeOK, MinerRec
    <2>2. caller' \in [Caller -> CallerRec]
      BY <1>9
      DEF clearShouldStart, TypeOK, CallerRec, Goto, Return, Pc, Pausing, Resuming
    <2>3. QED
      BY <1>9, <2>1, <2>2 DEF clearShouldStart, TypeOK, chan, chain
  <1>10. ASSUME StartEvent PROVE TypeOK'
    <2>1. miner' \in MinerRec
      BY <1>10, Zenon DEF StartEvent, TypeOK, MinerRec
    <2>2. caller' \in [Caller -> CallerRec]
      BY <1>10
      DEF StartEvent, TypeOK, CallerRec, Goto, Return, Pc, Pausing, Resuming, Caller
    <2>3. PICK o \in BOOLEAN : o = Enter("sync")
      BY Zenon DEF Enter
    <2>4. history' \in HistoryRec
      <3>1. history \in HistoryRec
        BY DEF TypeOK
      <3>2. PICK n \in Nat : n = history.syncs + 1
        BY <3>1 DEF HistoryRec
      <3>3. history' = [history EXCEPT !.syncs = n, !.overlap = o]
        BY <1>10, <2>3, <3>2, Zenon DEF StartEvent
      <3>4. QED
        BY <3>1, <3>3, ZenonT(60) DEF HistoryRec
    <2>5. QED
      BY <1>10, <2>1, <2>2, <2>4 DEF StartEvent, TypeOK, chan, chain
  <1>11. ASSUME DoneEvent PROVE TypeOK'
    <2>1. caller' \in [Caller -> CallerRec]
      BY <1>11
      DEF DoneEvent, TypeOK, CallerRec, Goto, Return, Pc, Pausing, Resuming, Caller
    <2>2. PICK o \in BOOLEAN : o = Enter("sync")
      BY Zenon DEF Enter
    <2>3. history' \in HistoryRec
      BY <1>11, <2>2, ZenonT(60) DEF DoneEvent, TypeOK, HistoryRec
    <2>4. QED
      BY <1>11, <2>1, <2>3, ZenonT(60) DEF DoneEvent, TypeOK, chan, chain
  <1>12. ASSUME pause PROVE TypeOK'
    <2>1. caller' \in [Caller -> CallerRec]
      BY SMTT(30), <1>12
      DEF pause, TypeOK, CallerRec, Goto, Return, Pc, Pausing, Resuming, Caller
    <2>2. QED
      BY <1>12, <2>1 DEF pause, TypeOK, chan, chain
  <1>13. ASSUME wantRestart PROVE TypeOK'
    <2>1. miner' \in MinerRec
      BY <1>13, ZenonT(60) DEF wantRestart, TypeOK, MinerRec
    <2>2. caller' \in [Caller -> CallerRec]
      BY SMTT(30), <1>13
      DEF wantRestart, TypeOK, CallerRec, Goto, Return, Pc, Pausing, Resuming,
          Caller
    <2>3. QED
      BY <1>13, <2>1, <2>2 DEF wantRestart, TypeOK, chan, chain
  <1>14. ASSUME raiseCanStart PROVE TypeOK'
    <2>1. miner' \in MinerRec
      BY <1>14, ZenonT(60) DEF raiseCanStart, TypeOK, MinerRec
    <2>2. caller' \in [Caller -> CallerRec]
      BY <1>14
      DEF raiseCanStart, TypeOK, CallerRec, Goto, Return, Pc, Pausing, Resuming,
          Caller
    <2>3. QED
      BY <1>14, <2>1, <2>2 DEF raiseCanStart, TypeOK, chan, chain
  <1>15. ASSUME resetShouldStart PROVE TypeOK'
    <2>1. miner' \in MinerRec
      BY <1>15, ZenonT(60) DEF resetShouldStart, TypeOK, MinerRec
    <2>2. caller' \in [Caller -> CallerRec]
      BY SMTT(30), <1>15
      DEF resetShouldStart, TypeOK, CallerRec, Goto, Return, Pc, Pausing, Resuming,
          Caller
    <2>3. QED
      BY <1>15, <2>1, <2>2 DEF resetShouldStart, TypeOK, chan, chain
  <1>16. ASSUME NEW l \in Loop, enterSelect(l) PROVE TypeOK'
    <2>1. loop' \in [Loop -> LoopRec]
      BY <1>16, ZenonT(60) DEF enterSelect, TypeOK, LoopRec, LoopPc, NoLoop, WorkerRec
    <2>2. QED
      BY <1>16, <2>1 DEF enterSelect, TypeOK, chan, chain
  <1>17. ASSUME NEW l \in Loop, tick(l) PROVE TypeOK'
    <2>1. loop' \in [Loop -> LoopRec]
      <3>1. PICK n \in Nat : n = head + 1
        BY DEF TypeOK
      <3>2. CASE loop' = [loop EXCEPT ![l].pc = "loop", ![l].stop = 0]
        BY <3>2, ZenonT(60) DEF TypeOK, LoopRec, LoopPc
      <3>3. CASE loop' = [loop EXCEPT ![l].pc = "work", ![l].stop = 0, ![l].work = n]
        BY <3>3, ZenonT(60) DEF TypeOK, LoopRec, LoopPc
      <3>4. QED
        BY <1>17, <3>1, <3>2, <3>3 DEF tick
    <2>2. history' \in HistoryRec
      BY <1>17 DEF tick, TypeOK, HistoryRec
    <2>3. QED
      BY <1>17, <2>1, <2>2 DEF tick, TypeOK, chan, chain
  <1>18. ASSUME NEW l \in Loop, seal(l) PROVE TypeOK'
    <2>1. loop' \in [Loop -> LoopRec]
      BY <1>18, ZenonT(60) DEF seal, TypeOK, LoopRec, LoopPc, NoLoop, WorkerRec
    <2>2. QED
      BY <1>18, <2>1 DEF seal, TypeOK, chan, chain
  <1>19. ASSUME NEW l \in Loop, sealed(l) PROVE TypeOK'
    <2>1. loop' \in [Loop -> LoopRec]
      BY SMTT(30), <1>19 DEF sealed, TypeOK, LoopRec, LoopPc, NoLoop, WorkerRec
    <2>2. recv' \in Seq(Nat)
      <3>1. loop[l].work \in Nat /\ NoBlock \in Nat
        BY DEF TypeOK, LoopRec, NoBlock
      <3>2. recv \in Seq(Nat) /\ \A n \in Nat : Append(recv, n) \in Seq(Nat)
        BY DEF TypeOK
      <3>3. \/ recv' = recv
            \/ recv' = Append(recv, loop[l].work)
            \/ recv' = Append(recv, NoBlock)
        BY <1>19, Zenon DEF sealed
      <3>4. QED
        BY <3>1, <3>2, <3>3, Zenon
    <2>3. QED
      BY <1>19, <2>1, <2>2 DEF sealed, TypeOK, chan, chain
  <1>20. ASSUME NEW l \in Loop, leave(l) PROVE TypeOK'
    <2>1. closed' \in SUBSET Nat /\ status' \in {"ok", "stopper", "quitCh"}
      BY SMTT(30), <1>20 DEF leave, TypeOK, Close, WorkerRec
    <2>2. loop' \in [Loop -> LoopRec]
      BY <1>20, ZenonT(60) DEF leave, TypeOK, LoopRec, LoopPc, NoLoop, WorkerRec
    <2>3. QED
      BY <1>20, <2>1, <2>2 DEF leave, TypeOK, chan, chain
  <1>21. ASSUME NEW l \in Loop, leaveQuit(l) PROVE TypeOK'
    <2>1. worker' \in WorkerRec
      BY <1>21 DEF leaveQuit, TypeOK, WorkerRec
    <2>2. loop' \in [Loop -> LoopRec]
      BY <1>21, ZenonT(60) DEF leaveQuit, TypeOK, LoopRec, LoopPc, NoLoop, WorkerRec
    <2>3. QED
      BY <1>21, <2>1, <2>2 DEF leaveQuit, TypeOK, chan, chain
  <1>22. ASSUME NEW l \in Loop, leaveStopper(l) PROVE TypeOK'
    <2>1. worker' \in WorkerRec
      BY <1>22 DEF leaveStopper, TypeOK, WorkerRec
    <2>2. loop' \in [Loop -> LoopRec]
      BY <1>22, ZenonT(60)
      DEF leaveStopper, TypeOK, LoopRec, LoopPc, NoLoop, WorkerRec
    <2>3. QED
      BY <1>22, <2>1, <2>2 DEF leaveStopper, TypeOK, chan, chain
  <1>23. ASSUME updateClose PROVE TypeOK'
    <2>1. closed' \in SUBSET Nat /\ status' \in {"ok", "stopper", "quitCh"}
      BY <1>23, Zenon DEF updateClose, TypeOK, Close, WorkerRec
    <2>2. QED
      BY <1>23, <2>1 DEF updateClose, TypeOK, chan, chain
  <1>24. ASSUME updateSwap PROVE TypeOK'
    <2>1. PICK n \in Nat : n = made + 1
      BY DEF TypeOK
    <2>2. worker' = [worker EXCEPT !.quitCh = n] /\ made' = n
      BY <1>24, <2>1, Zenon DEF updateSwap
    <2>3. worker' \in WorkerRec
      BY <2>2 DEF TypeOK, WorkerRec
    <2>4. QED
      BY SMTT(30), <1>24, <2>2, <2>3 DEF updateSwap, TypeOK, chan, chain
  <1>25. ASSUME wait PROVE TypeOK'
    <2>1. recv' \in Seq(Nat)
      BY <1>25 DEF wait, TypeOK, LoopRec, NoBlock
    <2>2. QED
      BY <1>25, <2>1 DEF wait, TypeOK, chan, chain
  <1>26. ASSUME foreignHead PROVE TypeOK'
    BY SMTT(30), <1>26 DEF foreignHead, TypeOK, chan
  <1>27. QED
    BY <1>1, <1>2, <1>3, <1>4, <1>5, <1>6, <1>7, <1>8, <1>9, <1>10, <1>11, <1>12,
       <1>13, <1>14, <1>15, <1>16, <1>17, <1>18, <1>19, <1>20, <1>21, <1>22, <1>23,
       <1>24, <1>25, <1>26
    DEF Next, Call, Update, Mint

----------------------------------------------------------------------------
(* The calls.                                                              *)

\* Steps that are not a caller's leave the calls alone.
LEMMA CallsSame ==
  ASSUME Calls, Orderly, UNCHANGED <<caller, miner, syncing>>,
         worker'.mining = worker.mining, history'.overlap = history.overlap,
         history'.promised = history.promised
  PROVE  Calls' /\ Orderly'
  <1>1. Calls'
    BY DEF Calls
  <1>2. Orderly'
    BY DEF Orderly, Busy, At, Kept
  <1>3. QED
    BY <1>1, <1>2

\* A user calls Start.
LEMMA CallStartCalls ==
  ASSUME IInv, NEW u \in User, callStart(u)
  PROVE  Calls' /\ Orderly'
  <1>1. Moved(u, "start", caller[u].then) /\ caller[u].pc = "idle"
    BY Callers, GotoMoves DEF callStart, At, IInv
  <1>2. UNCHANGED <<miner, worker, syncing>>
    BY DEF callStart
  <1>3. history'.overlap = Enter(u) /\ history'.promised = history.promised
    BY DEF callStart, IInv, TypeOK, HistoryRec, Enter
  <1>4. ~history'.overlap => ~history.overlap /\ \A d \in Caller : Busy(d) => d = u
    BY <1>3, Zenon DEF Enter
  <1>5. Calls'
    BY SMTT(30), <1>1, <1>2, <1>3, <1>4, Callers
    DEF IInv, Calls, Moved, Pc, Pausing, Resuming
  <1>6. Orderly'
    BY <1>1, <1>2, <1>3, <1>4, Callers
    DEF IInv, Calls, Orderly, Moved, At, Busy, Kept, Pc, Pausing, Resuming
  <1>7. QED
    BY <1>5, <1>6

\* A user calls Stop.
LEMMA CallStopCalls ==
  ASSUME IInv, NEW u \in User, callStop(u)
  PROVE  Calls' /\ Orderly'
  <1>1. Moved(u, "stop", "idle") /\ caller[u].pc = "idle"
    BY Callers, CallMoves, ZenonT(60) DEF callStop, At, IInv
  <1>2. UNCHANGED <<miner, worker, syncing>>
    BY DEF callStop
  <1>3. history'.overlap = Enter(u) /\ history'.promised = FALSE
    BY DEF callStop, IInv, TypeOK, HistoryRec, Enter
  <1>4. ~history'.overlap => ~history.overlap /\ \A d \in Caller : Busy(d) => d = u
    BY <1>3, Zenon DEF Enter
  <1>5. Calls'
    BY SMTT(30), <1>1, <1>2, <1>3, <1>4, Callers
    DEF IInv, Calls, Moved, Pc, Pausing, Resuming
  <1>6. Orderly'
    BY SMTT(30), <1>1, <1>2, <1>3, <1>4, Callers
    DEF IInv, Calls, Orderly, Moved, At, Busy, Kept, Pc, Pausing, Resuming
  <1>7. QED
    BY <1>5, <1>6

\* Start asks for mining.
LEMMA SetShouldStartCalls ==
  ASSUME IInv, NEW c \in Caller, setShouldStart(c)
  PROVE  Calls' /\ Orderly'
  <1>1. Moved(c, "check", caller[c].then) /\ caller[c].pc = "start"
    BY GotoMoves DEF setShouldStart, At, IInv
  <1>2. UNCHANGED <<worker, syncing, history>>
    BY DEF setShouldStart
  <1>3. /\ miner'.mining = miner.mining
        /\ miner'.canStart = miner.canStart
        /\ miner'.shouldStart = TRUE
    BY DEF setShouldStart, IInv, TypeOK, MinerRec
  <1>4. Calls'
    BY SMTT(30), <1>1, <1>2, <1>3, Callers
    DEF IInv, Calls, Moved, Pc, Pausing, Resuming
  <1>5. Orderly'
    BY SMTT(30), <1>1, <1>2, <1>3, Callers
    DEF IInv, Calls, Orderly, Moved, At, Busy, Kept, Pc, Pausing, Resuming
  <1>6. QED
    BY <1>4, <1>5

\* Stop looks whether the worker mines.
LEMMA StopTestCalls ==
  ASSUME IInv, NEW c \in Caller, stopTest(c)
  PROVE  Calls' /\ Orderly'
  <1>1. /\ Moved(c, (IF worker.mining THEN "close" ELSE "clear"), caller[c].then)
        /\ caller[c].pc = "stop"
    BY SMTT(30), GotoMoves DEF stopTest, At, IInv
  <1>2. UNCHANGED <<miner, worker, syncing, history>>
    BY SMTT(30) DEF stopTest
  <1>3. Calls'
    BY <1>1, <1>2, Callers DEF IInv, Calls, Moved, Pc, Pausing, Resuming
  <1>4. Orderly'
    BY <1>1, <1>2, Callers
    DEF IInv, Calls, Orderly, Moved, At, Busy, Kept, Pc, Pausing, Resuming
  <1>5. QED
    BY <1>3, <1>4

\* Stop's first store.
LEMMA ClearMiningCalls ==
  ASSUME IInv, NEW c \in Caller, clearMining(c)
  PROVE  Calls' /\ Orderly'
  <1>1. Moved(c, "clear2", caller[c].then) /\ caller[c].pc = "clear"
    BY GotoMoves DEF clearMining, At, IInv
  <1>2. UNCHANGED <<worker, syncing, history>>
    BY DEF clearMining
  <1>3. /\ miner'.mining = FALSE
        /\ miner'.canStart = miner.canStart
        /\ miner'.shouldStart = miner.shouldStart
    BY SMTT(30) DEF clearMining, IInv, TypeOK, MinerRec
  <1>4. Calls'
    BY <1>1, <1>2, <1>3, Callers DEF IInv, Calls, Moved, Pc, Pausing, Resuming
  <1>5. Orderly'
    BY SMTT(30), <1>1, <1>2, <1>3, Callers
    DEF IInv, Calls, Orderly, Moved, At, Busy, Kept, Pc, Pausing, Resuming
  <1>6. QED
    BY <1>4, <1>5

\* Stop's second store, and the way back.
LEMMA ClearShouldStartCalls ==
  ASSUME IInv, NEW c \in Caller, clearShouldStart(c)
  PROVE  Calls' /\ Orderly'
  <1>1. Moved(c, caller[c].then, caller[c].then) /\ caller[c].pc = "clear2"
    BY GotoMoves DEF clearShouldStart, At, IInv
  <1>2. UNCHANGED <<worker, syncing, history>>
    BY DEF clearShouldStart
  <1>3. /\ miner'.mining = miner.mining
        /\ miner'.canStart = miner.canStart
        /\ miner'.shouldStart = FALSE
    BY DEF clearShouldStart, IInv, TypeOK, MinerRec
  <1>4. Calls'
    BY SMTT(30), <1>1, <1>2, <1>3, Callers
    DEF IInv, Calls, Moved, Pc, Pausing, Resuming, Caller
  <1>5. Orderly'
    BY <1>1, <1>2, <1>3, Callers
    DEF IInv, Calls, Orderly, Moved, At, Busy, Kept, Pc, Pausing, Resuming, Caller
  <1>6. QED
    BY <1>4, <1>5

\* A synchronisation begins.
LEMMA StartEventCalls ==
  ASSUME IInv, StartEvent
  PROVE  Calls' /\ Orderly'
  <1>1. Moved("sync", "mining?", caller["sync"].then) /\ caller["sync"].pc = "idle"
    BY Callers, GotoMoves DEF StartEvent, At, IInv
  <1>2. ~syncing /\ syncing' = TRUE /\ UNCHANGED worker
    BY DEF StartEvent
  <1>3. /\ miner'.mining = miner.mining
        /\ miner'.canStart = FALSE
        /\ miner'.shouldStart = miner.shouldStart
    BY SMTT(30) DEF StartEvent, IInv, TypeOK, MinerRec
  <1>4. history'.overlap = Enter("sync") /\ history'.promised = history.promised
    BY DEF StartEvent, IInv, TypeOK, HistoryRec, Enter
  <1>5. ~history'.overlap => ~history.overlap /\ \A d \in Caller : Busy(d) => d = "sync"
    BY <1>4, Zenon DEF Enter
  <1>6. Calls'
    BY SMTT(30), <1>1, <1>2, <1>3, <1>4, <1>5, Callers
    DEF IInv, Calls, Moved, Pc, Pausing, Resuming
  <1>7. Orderly'
    BY <1>1, <1>2, <1>3, <1>4, <1>5, Callers
    DEF IInv, Calls, Orderly, Moved, At, Busy, Kept, Pc, Pausing, Resuming
  <1>8. QED
    BY <1>6, <1>7

\* Its handler stops a miner that mines.
LEMMA PauseCalls ==
  ASSUME IInv, pause
  PROVE  Calls' /\ Orderly'
  <1>1. /\ Moved("sync", (IF miner.mining THEN "stop" ELSE "idle"), "resume")
        /\ caller["sync"].pc = "mining?"
    BY Callers, CallMoves, ZenonT(60) DEF pause, At, IInv
  <1>2. UNCHANGED <<miner, worker, syncing, history>>
    BY DEF pause
  <1>3. Calls'
    BY SMTT(30), <1>1, <1>2, Callers DEF IInv, Calls, Moved, Pc, Pausing, Resuming
  <1>4. Orderly'
    BY SMTT(30), <1>1, <1>2, Callers
    DEF IInv, Calls, Orderly, Moved, At, Busy, Kept, Pc, Pausing, Resuming
  <1>5. QED
    BY <1>3, <1>4

\* And asks for mining afterwards.
LEMMA WantRestartCalls ==
  ASSUME IInv, wantRestart
  PROVE  Calls' /\ Orderly'
  <1>1. Moved("sync", "idle", caller["sync"].then) /\ caller["sync"].pc = "resume"
    BY SMTT(30), Callers, GotoMoves DEF wantRestart, At, IInv
  <1>2. UNCHANGED <<worker, syncing, history>>
    BY DEF wantRestart
  <1>3. /\ miner'.mining = miner.mining
        /\ miner'.canStart = miner.canStart
        /\ miner'.shouldStart = TRUE
    BY DEF wantRestart, IInv, TypeOK, MinerRec
  <1>4. Calls'
    BY <1>1, <1>2, <1>3, Callers DEF IInv, Calls, Moved, Pc, Pausing, Resuming
  <1>5. Orderly'
    BY <1>1, <1>2, <1>3, Callers
    DEF IInv, Calls, Orderly, Moved, At, Busy, Kept, Pc, Pausing, Resuming
  <1>6. QED
    BY <1>4, <1>5

\* The synchronisation ends.
LEMMA DoneEventCalls ==
  ASSUME IInv, DoneEvent
  PROVE  Calls' /\ Orderly'
  <1>1. /\ Moved("sync", "raise", (IF miner.shouldStart THEN "start" ELSE "done"))
        /\ caller["sync"].pc = "idle"
    BY Callers, CallMoves, ZenonT(60) DEF DoneEvent, At, IInv
  <1>2. syncing /\ syncing' = FALSE /\ UNCHANGED <<miner, worker>>
    BY DEF DoneEvent
  <1>3. history'.overlap = Enter("sync") /\ history'.promised = history.promised
    BY DEF DoneEvent, IInv, TypeOK, HistoryRec, Enter
  <1>4. ~history'.overlap => ~history.overlap /\ \A d \in Caller : Busy(d) => d = "sync"
    BY <1>3, Zenon DEF Enter
  <1>5. Calls'
    BY SMTT(30), <1>1, <1>2, <1>3, <1>4, Callers
    DEF IInv, Calls, Moved, Pc, Pausing, Resuming
  <1>6. Orderly'
    BY SMTT(30), <1>1, <1>2, <1>3, <1>4, Callers
    DEF IInv, Calls, Orderly, Moved, At, Busy, Kept, Pc, Pausing, Resuming
  <1>7. QED
    BY <1>5, <1>6

\* Its handler allows mining.
LEMMA RaiseCalls ==
  ASSUME IInv, raiseCanStart
  PROVE  Calls' /\ Orderly'
  <1>1. Moved("sync", "reset", caller["sync"].then) /\ caller["sync"].pc = "raise"
    BY SMTT(30), Callers, GotoMoves DEF raiseCanStart, At, IInv
  <1>2. UNCHANGED <<worker, syncing, history>>
    BY DEF raiseCanStart
  <1>3. /\ miner'.mining = miner.mining
        /\ miner'.canStart = TRUE
        /\ miner'.shouldStart = miner.shouldStart
    BY DEF raiseCanStart, IInv, TypeOK, MinerRec
  <1>4. Calls'
    BY SMTT(30), <1>1, <1>2, <1>3, Callers
    DEF IInv, Calls, Moved, Pc, Pausing, Resuming
  <1>5. Orderly'
    BY <1>1, <1>2, <1>3, Callers
    DEF IInv, Calls, Orderly, Moved, At, Busy, Kept, Pc, Pausing, Resuming
  <1>6. QED
    BY <1>4, <1>5

\* And starts if that was asked for.
LEMMA ResetCalls ==
  ASSUME IInv, resetShouldStart
  PROVE  Calls' /\ Orderly'
  <1>1. /\ Moved("sync", caller["sync"].then, caller["sync"].then)
        /\ caller["sync"].pc = "reset"
    BY SMTT(30), Callers, GotoMoves DEF resetShouldStart, At, IInv
  <1>2. UNCHANGED <<worker, syncing, history>>
    BY DEF resetShouldStart
  <1>3. /\ miner'.mining = miner.mining
        /\ miner'.canStart = miner.canStart
        /\ miner'.shouldStart = FALSE
    BY DEF resetShouldStart, IInv, TypeOK, MinerRec
  <1>4. Calls'
    BY SMTT(30), <1>1, <1>2, <1>3, Callers
    DEF IInv, Calls, Moved, Pc, Pausing, Resuming
  <1>5. Orderly'
    BY SMTT(30), <1>1, <1>2, <1>3, Callers
    DEF IInv, Calls, Orderly, Moved, At, Busy, Kept, Pc, Pausing, Resuming
  <1>6. QED
    BY <1>4, <1>5

\* Start goes on if it may, and otherwise leaves the promise to start later.
LEMMA CheckCanStartCalls ==
  ASSUME IInv, NEW c \in Caller, checkCanStart(c)
  PROVE  Calls' /\ Orderly'
  <1>1. caller[c].pc = "check" /\ UNCHANGED <<worker, syncing>>
    BY SMTT(30) DEF checkCanStart, At
  <1>2. CASE miner.canStart
    <2>1. Moved(c, "spawn", caller[c].then) /\ history' = history
      BY <1>2, GotoMoves DEF checkCanStart, IInv
    <2>2. /\ miner'.mining = TRUE
          /\ miner'.canStart = miner.canStart
          /\ miner'.shouldStart = miner.shouldStart
      BY <1>2, ZenonT(60) DEF checkCanStart, IInv, TypeOK, MinerRec
    <2>3. Calls'
      BY <1>1, <1>2, <2>1, <2>2, Callers DEF IInv, Calls, Moved, Pc, Pausing, Resuming
    <2>4. Orderly'
      BY SMTT(30), <1>1, <1>2, <2>1, <2>2, Callers
      DEF IInv, Calls, Orderly, Moved, At, Busy, Kept, Pc, Pausing, Resuming
    <2>5. QED
      BY <2>3, <2>4
  <1>3. CASE ~miner.canStart
    <2>1. c # "sync"
      BY SMTT(30), <1>1, <1>3 DEF IInv, Calls, Resuming
    <2>2. Moved(c, "idle", caller[c].then) /\ miner' = miner
      BY <1>3, <2>1, GotoMoves DEF checkCanStart, Return, IInv
    <2>3. history'.overlap = history.overlap
      BY SMTT(30), <1>3 DEF checkCanStart, IInv, TypeOK, HistoryRec
    <2>4. Calls'
      BY <1>1, <1>3, <2>1, <2>2, Callers DEF IInv, Calls, Moved, Pc, Pausing, Resuming
    <2>5. Orderly'
      BY SMTT(30), <1>1, <1>3, <2>1, <2>2, <2>3, Callers
      DEF IInv, Calls, Orderly, Moved, At, Busy, Kept, Pc, Pausing, Resuming, Caller
    <2>6. QED
      BY <2>4, <2>5
  <1>4. QED
    BY <1>2, <1>3

\* worker.start.
LEMMA StartCalls ==
  ASSUME IInv, NEW c \in Caller, start(c)
  PROVE  Calls' /\ Orderly'
  <1>1. caller[c].pc = "spawn" /\ UNCHANGED <<miner, syncing>>
    BY DEF start, At
  <1>2. Moved(c, IF c = "sync" THEN "done" ELSE "idle", caller[c].then)
    BY GotoMoves DEF start, Return, IInv
  <1>3. worker'.mining = TRUE
    BY DEF start, IInv, TypeOK, WorkerRec
  <1>4. history'.promised = history.promised /\ (history.overlap => history'.overlap)
    BY SMTT(30) DEF start, IInv, TypeOK, HistoryRec
  <1>5. Calls'
    BY <1>1, <1>2, <1>3, <1>4, Callers DEF IInv, Calls, Moved, Pc, Pausing, Resuming
  <1>6. Orderly'
    BY SMTT(30), <1>1, <1>2, <1>3, <1>4, Callers
    DEF IInv, Calls, Orderly, Moved, At, Busy, Kept, Pc, Pausing, Resuming, Caller
  <1>7. QED
    BY <1>5, <1>6

\* worker.stop.
LEMMA StopCalls ==
  ASSUME IInv, NEW c \in Caller, stop(c)
  PROVE  Calls' /\ Orderly'
  <1>1. Moved(c, "clear", caller[c].then) /\ caller[c].pc = "close"
    BY GotoMoves DEF stop, At, IInv
  <1>2. UNCHANGED <<miner, syncing>>
    BY DEF stop
  <1>3. worker'.mining = FALSE
    BY DEF stop, IInv, TypeOK, WorkerRec
  <1>4. history'.promised = history.promised /\ history'.overlap = history.overlap
    BY SMTT(30) DEF stop, IInv, TypeOK, HistoryRec
  <1>5. Calls'
    BY <1>1, <1>2, <1>3, <1>4, Callers DEF IInv, Calls, Moved, Pc, Pausing, Resuming
  <1>6. Orderly'
    BY SMTT(30), <1>1, <1>2, <1>3, <1>4, Callers
    DEF IInv, Calls, Orderly, Moved, At, Busy, Kept, Pc, Pausing, Resuming, Caller
  <1>7. QED
    BY <1>5, <1>6

----------------------------------------------------------------------------
(* The channels and the mintLoops.                                         *)

\* Most steps of a caller leave the channels and the loops alone.
LEMMA ChannelsSame ==
  ASSUME Channels, UNCHANGED <<made, closed, status, upd, loop, worker>>,
         history'.stops = history.stops
  PROVE  Channels'
  BY SMTT(30) DEF Channels, SealersCanBeStopped, QuitClosedOnce

\* They may overlap with another call.
LEMMA MinterSame ==
  ASSUME Minter, UNCHANGED <<closed, status, loop, worker>>,
         history.overlap => history'.overlap
  PROVE  Minter'
  BY DEF Minter, Alive

\* Loop l is now at p with the channels st and q; the others have not moved.
Turned(l, p, st, q) ==
  \A k \in Loop : /\ loop'[k].pc = IF k = l THEN p ELSE loop[k].pc
                  /\ loop'[k].stop = IF k = l THEN st ELSE loop[k].stop
                  /\ loop'[k].quit = IF k = l THEN q ELSE loop[k].quit

\* worker.start makes a loop; one that meets another is an overlap.
LEMMA StartMinter ==
  ASSUME IInv, NEW c \in Caller, start(c)
  PROVE  Channels' /\ Minter'
  <1>1. PICK l \in Loop :
          loop[l].pc = "unborn" /\ loop' = [loop EXCEPT ![l].pc = "loop"]
    <2>1. PICK l \in Loop : /\ \A k \in Loop : loop[k].pc = "unborn" <=> k >= l
                            /\ loop' = [loop EXCEPT ![l].pc = "loop"]
      BY Zenon DEF start
    <2>2. loop[l].pc = "unborn"
      BY SMTT(30), <2>1, MinerAssumption DEF Loop
    <2>3. QED
      BY <2>1, <2>2, ZenonT(60)
  <1>2. UNCHANGED <<made, closed, status, upd>>
    BY DEF start, chan, chain
  <1>3. /\ worker'.mining = TRUE
        /\ worker'.stopper = worker.stopper
        /\ worker'.quitCh = worker.quitCh
    BY DEF start, IInv, TypeOK, WorkerRec
  <1>4. /\ history'.stops = history.stops
        /\ ~history'.overlap => ~history.overlap /\ Alive = {}
    BY ZenonT(60) DEF start, IInv, TypeOK, HistoryRec
  <1>5. Turned(l, "loop", loop[l].stop, loop[l].quit)
    BY <1>1 DEF IInv, TypeOK, LoopRec, Turned
  <1>6. Channels'
    BY SMTT(30), <1>1, <1>2, <1>3, <1>4, <1>5
    DEF IInv, Channels, Turned, SealersCanBeStopped, QuitClosedOnce
  <1>7. Minter'
    BY SMTT(30), <1>1, <1>2, <1>3, <1>4, <1>5 DEF IInv, Minter, Turned, Alive, Minting
  <1>8. QED
    BY <1>6, <1>7

\* worker.stop closes the stopper, which is open unless calls overlapped.
LEMMA StopMinter ==
  ASSUME IInv, NEW c \in Caller, stop(c), status = "ok"
  PROVE  Channels' /\ Minter'
  <1>1. caller[c].pc = "close" /\ UNCHANGED <<made, loop, upd>>
    BY DEF stop, At, chain
  <1>2. /\ worker'.mining = FALSE
        /\ worker'.stopper = worker.stopper
        /\ worker'.quitCh = worker.quitCh
    BY DEF stop, IInv, TypeOK, WorkerRec
  <1>3. history'.stops = history.stops + 1 /\ history'.overlap = history.overlap
    BY DEF stop, IInv, TypeOK, HistoryRec
  <1>4. history'.stops # 0
    BY <1>3 DEF IInv, TypeOK, HistoryRec
  <1>5. \/ worker.stopper \in closed /\ status' = "stopper" /\ closed' = closed
        \/ worker.stopper \notin closed /\ closed' = closed \cup {worker.stopper} /\ status' = status
    BY DEF stop, Close
  <1>6. worker.stopper \in Nat /\ 1 <= worker.stopper
    BY SMTT(30) DEF IInv, TypeOK, WorkerRec, Channels
  <1>7. Channels'
    BY <1>1, <1>2, <1>4, <1>5, <1>6
    DEF IInv, Channels, SealersCanBeStopped, QuitClosedOnce
  <1>8. Minter'
    BY SMTT(30), <1>1, <1>2, <1>3, <1>5 DEF IInv, Minter, Alive, Minting, Orderly, At
  <1>9. QED
    BY <1>7, <1>8

\* A loop waits on the stopper that the field holds.
LEMMA EnterSelectMinter ==
  ASSUME IInv, NEW l \in Loop, enterSelect(l)
  PROVE  Channels' /\ Minter'
  <1>1. Turned(l, "select", worker.stopper, loop[l].quit) /\ loop[l].pc = "loop"
    BY SMTT(30) DEF enterSelect, IInv, TypeOK, LoopRec, Turned
  <1>2. UNCHANGED <<worker, made, closed, status, upd, history>>
    BY SMTT(30) DEF enterSelect, chan, chain
  <1>3. Channels'
    BY <1>1, <1>2 DEF IInv, Channels, Turned, SealersCanBeStopped, QuitClosedOnce
  <1>4. Minter'
    BY SMTT(30), <1>1, <1>2 DEF IInv, Minter, Turned, Alive, Minting
  <1>5. QED
    BY <1>3, <1>4

\* A tick.
LEMMA TickMinter ==
  ASSUME IInv, NEW l \in Loop, tick(l)
  PROVE  Channels' /\ Minter'
  <1>1. \E p \in {"loop", "work"} : Turned(l, p, 0, loop[l].quit)
    BY DEF tick, IInv, TypeOK, LoopRec, Turned
  <1>2. loop[l].pc = "select"
    BY DEF tick
  <1>3. history'.stops = history.stops /\ history'.overlap = history.overlap
    BY DEF tick, IInv, TypeOK, HistoryRec
  <1>4. UNCHANGED <<worker, made, closed, status, upd>>
    BY DEF tick, chan, chain
  <1>5. Channels'
    BY <1>1, <1>2, <1>3, <1>4
    DEF IInv, Channels, Turned, SealersCanBeStopped, QuitClosedOnce
  <1>6. Minter'
    BY SMTT(30), <1>1, <1>2, <1>3, <1>4 DEF IInv, Minter, Turned, Alive, Minting
  <1>7. QED
    BY <1>5, <1>6

\* Sealing waits on the quit channel that the field holds.
LEMMA SealMinter ==
  ASSUME IInv, NEW l \in Loop, seal(l)
  PROVE  Channels' /\ Minter'
  <1>1. Turned(l, "seal", loop[l].stop, worker.quitCh) /\ loop[l].pc = "work"
    BY SMTT(30) DEF seal, IInv, TypeOK, LoopRec, Turned
  <1>2. UNCHANGED <<worker, made, closed, status, upd, history>>
    BY SMTT(30) DEF seal, chan, chain
  <1>3. Channels'
    BY <1>1, <1>2 DEF IInv, Channels, Turned, SealersCanBeStopped, QuitClosedOnce
  <1>4. Minter'
    BY SMTT(30), <1>1, <1>2 DEF IInv, Minter, Turned, Alive, Minting
  <1>5. QED
    BY <1>3, <1>4

\* Sealing ends.
LEMMA SealedMinter ==
  ASSUME IInv, NEW l \in Loop, sealed(l)
  PROVE  Channels' /\ Minter'
  <1>1. Turned(l, "loop", 0, 0) /\ loop[l].pc = "seal"
    BY SMTT(30) DEF sealed, IInv, TypeOK, LoopRec, Turned, NoLoop
  <1>2. UNCHANGED <<worker, made, closed, status, upd, history>>
    BY DEF sealed, chan, chain
  <1>3. Channels'
    BY <1>1, <1>2 DEF IInv, Channels, Turned, SealersCanBeStopped, QuitClosedOnce
  <1>4. Minter'
    BY SMTT(30), <1>1, <1>2 DEF IInv, Minter, Turned, Alive, Minting
  <1>5. QED
    BY <1>3, <1>4

\* A loop that was told to stop closes the quit channel.
LEMMA LeaveMinter ==
  ASSUME IInv, NEW l \in Loop, leave(l), status = "ok"
  PROVE  Channels' /\ Minter'
  <1>1. Turned(l, "newQuit", 0, loop[l].quit) /\ loop[l].pc = "select"
    BY DEF leave, IInv, TypeOK, LoopRec, Turned
  <1>2. loop[l].stop \in closed /\ UNCHANGED <<worker, made, upd, history>>
    BY SMTT(30) DEF leave, chain
  <1>3. \/ worker.quitCh \in closed /\ status' = "quitCh" /\ closed' = closed
        \/ worker.quitCh \notin closed /\ closed' = closed \cup {worker.quitCh} /\ status' = status
    BY DEF leave, Close
  <1>4. /\ made \in Nat /\ worker.quitCh \in Nat /\ history.stops \in Nat
        /\ closed \subseteq Nat
        /\ worker.stopper # worker.quitCh /\ made + 1 \notin closed
    BY SMTT(30) DEF IInv, TypeOK, WorkerRec, HistoryRec, Channels
  <1>5. upd \in {"select", "swap"} /\ history.stops > 0
    BY SMTT(30), <1>2, <1>4 DEF IInv, TypeOK, Channels
  <1>6. Channels'
    <2>1. \A ch \in closed' : 1 <= ch /\ ch <= made'
      BY SMTT(30), <1>2, <1>3, <1>4 DEF IInv, Channels
    <2>2. ASSUME status' = "ok", NEW k \in Loop, loop'[k].pc = "newQuit"
          PROVE  worker'.quitCh \in closed' /\ upd' = "select" /\ k = l
      BY SMTT(30), <1>1, <1>2, <1>3, <1>5, <2>2 DEF IInv, Channels, Turned
    <2>3. status' = "ok" /\ upd' = "swap" => worker'.quitCh \in closed'
      BY SMTT(30), <1>2, <1>3
    <2>4. SealersCanBeStopped'
      BY SMTT(30), <1>1, <1>2, <1>3 DEF IInv, Channels, SealersCanBeStopped, Turned
    <2>5. QED
      BY SMTT(30), <1>1, <1>2, <1>5, <2>1, <2>2, <2>3, <2>4
      DEF IInv, Channels, QuitClosedOnce
  <1>7. Minter'
    BY SMTT(30), <1>1, <1>2, <1>3, <1>4, <1>5 DEF IInv, Minter, Turned, Alive, Minting
  <1>8. QED
    BY <1>6, <1>7

\* It replaces the quit channel.
LEMMA LeaveQuitMinter ==
  ASSUME IInv, NEW l \in Loop, leaveQuit(l), status = "ok"
  PROVE  Channels' /\ Minter'
  <1>1. Turned(l, "newStopper", loop[l].stop, loop[l].quit) /\ loop[l].pc = "newQuit"
    BY DEF leaveQuit, IInv, TypeOK, LoopRec, Turned
  <1>2. made' = made + 1 /\ UNCHANGED <<closed, status, upd, history>>
    BY DEF leaveQuit, chain
  <1>3. /\ worker'.mining = worker.mining
        /\ worker'.stopper = worker.stopper /\ worker'.quitCh = made + 1
    BY DEF leaveQuit, IInv, TypeOK, WorkerRec
  <1>4. /\ made \in Nat /\ worker.quitCh \in Nat /\ history.stops \in Nat
        /\ closed \subseteq Nat
        /\ worker.stopper # worker.quitCh /\ made + 1 \notin closed
    BY DEF IInv, TypeOK, WorkerRec, HistoryRec, Channels
  <1>5. Channels'
    BY SMTT(30), <1>1, <1>2, <1>3, <1>4
    DEF IInv, Channels, Turned, SealersCanBeStopped, QuitClosedOnce
  <1>6. Minter'
    BY SMTT(30), <1>1, <1>2, <1>3, <1>4 DEF IInv, Minter, Turned, Alive, Minting
  <1>7. QED
    BY <1>5, <1>6

\* And the stopper, and is gone.
LEMMA LeaveStopperMinter ==
  ASSUME IInv, NEW l \in Loop, leaveStopper(l), status = "ok"
  PROVE  Channels' /\ Minter'
  <1>1. Turned(l, "gone", loop[l].stop, loop[l].quit) /\ loop[l].pc = "newStopper"
    BY DEF leaveStopper, IInv, TypeOK, LoopRec, Turned
  <1>2. made' = made + 1 /\ UNCHANGED <<closed, status, upd, history>>
    BY DEF leaveStopper, chain
  <1>3. /\ worker'.mining = worker.mining
        /\ worker'.stopper = made + 1 /\ worker'.quitCh = worker.quitCh
    BY DEF leaveStopper, IInv, TypeOK, WorkerRec
  <1>4. /\ made \in Nat /\ worker.quitCh \in Nat /\ history.stops \in Nat
        /\ closed \subseteq Nat
        /\ worker.stopper # worker.quitCh /\ made + 1 \notin closed
    BY DEF IInv, TypeOK, WorkerRec, HistoryRec, Channels
  <1>5. Channels'
    BY SMTT(30), <1>1, <1>2, <1>3, <1>4
    DEF IInv, Channels, Turned, SealersCanBeStopped, QuitClosedOnce
  <1>6. Minter'
    BY SMTT(30), <1>1, <1>2, <1>3, <1>4 DEF IInv, Minter, Turned, Alive, Minting
  <1>7. QED
    BY <1>5, <1>6

\* A head event closes the quit channel.
LEMMA UpdateCloseMinter ==
  ASSUME IInv, updateClose, status = "ok"
  PROVE  Channels' /\ Minter'
  <1>1. upd = "select" /\ upd' = "swap" /\ UNCHANGED <<worker, made, loop, history>>
    BY SMTT(30) DEF updateClose
  <1>2. \/ worker.quitCh \in closed /\ status' = "quitCh" /\ closed' = closed
        \/ worker.quitCh \notin closed /\ closed' = closed \cup {worker.quitCh} /\ status' = status
    BY DEF updateClose, Close
  <1>3. /\ made \in Nat /\ worker.quitCh \in Nat /\ history.stops \in Nat
        /\ closed \subseteq Nat
        /\ worker.stopper # worker.quitCh /\ made + 1 \notin closed
    BY SMTT(30) DEF IInv, TypeOK, WorkerRec, HistoryRec, Channels
  <1>4. worker.quitCh \in closed => history.stops > 0
    BY SMTT(30), <1>1, <1>3 DEF IInv, Channels
  <1>5. \A l \in Loop : loop[l].pc = "newQuit" => worker.quitCh \in closed
    BY DEF IInv, Channels
  <1>6. Channels'
    <2>1. \A ch \in closed' : 1 <= ch /\ ch <= made'
      BY SMTT(30), <1>1, <1>2, <1>3 DEF IInv, Channels
    <2>2. status' = "ok" =>
            worker'.quitCh \in closed' /\ \A l \in Loop : loop'[l].pc # "newQuit"
      BY <1>1, <1>2, <1>5
    <2>3. SealersCanBeStopped'
      BY SMTT(30), <1>1, <1>2 DEF IInv, Channels, SealersCanBeStopped
    <2>4. history'.stops = 0 => worker'.stopper \notin closed'
      BY <1>1, <1>2, <1>3 DEF IInv, Channels
    <2>5. QuitClosedOnce'
      BY <1>1, <1>2, <1>4 DEF QuitClosedOnce
    <2>6. QED
      BY SMTT(30), <1>1, <2>1, <2>2, <2>3, <2>4, <2>5 DEF IInv, Channels
  <1>7. Minter'
    BY <1>1, <1>2, <1>3, <1>4, <1>5 DEF IInv, Minter, Turned, Alive, Minting
  <1>8. QED
    BY SMTT(30), <1>6, <1>7

\* And replaces it.
LEMMA UpdateSwapMinter ==
  ASSUME IInv, updateSwap, status = "ok"
  PROVE  Channels' /\ Minter'
  <1>1. upd = "swap" /\ upd' = "select" /\ made' = made + 1
        /\ UNCHANGED <<closed, status, loop, history>>
    BY SMTT(30) DEF updateSwap
  <1>2. /\ worker'.mining = worker.mining
        /\ worker'.stopper = worker.stopper /\ worker'.quitCh = made + 1
    BY DEF updateSwap, IInv, TypeOK, WorkerRec
  <1>3. /\ made \in Nat /\ worker.quitCh \in Nat /\ history.stops \in Nat
        /\ closed \subseteq Nat
        /\ worker.stopper # worker.quitCh /\ made + 1 \notin closed
    BY DEF IInv, TypeOK, WorkerRec, HistoryRec, Channels
  <1>4. Channels'
    BY <1>1, <1>2, <1>3
    DEF IInv, Channels, Turned, SealersCanBeStopped, QuitClosedOnce
  <1>5. Minter'
    BY SMTT(30), <1>1, <1>2, <1>3 DEF IInv, Minter, Turned, Alive, Minting
  <1>6. QED
    BY <1>4, <1>5

----------------------------------------------------------------------------
(* The invariant.                                                          *)

\* Nothing mines at the start, and no channel is closed.
LEMMA InitIInv == Init => IInv
  <1> SUFFICES ASSUME Init PROVE IInv
    BY SMTT(30)
  <1>1. TypeOK
    <2>1. miner \in MinerRec /\ worker \in WorkerRec /\ history \in HistoryRec
      BY SMTT(30) DEF Init, MinerRec, WorkerRec, HistoryRec
    <2>2. caller \in [Caller -> CallerRec] /\ loop \in [Loop -> LoopRec]
      BY DEF Init, CallerRec, Pc, NoLoop, LoopRec, LoopPc
    <2>3. made \in Nat /\ closed \in SUBSET Nat /\ heads \in Nat /\ head \in Nat
      BY SMTT(30) DEF Init
    <2>4. recv \in Seq(Nat)
      BY SMTT(30) DEF Init
    <2>5. syncing \in BOOLEAN
      BY ZenonT(60) DEF Init
    <2>6. status \in {"ok", "stopper", "quitCh"} /\ upd \in {"select", "swap"}
      BY SMTT(30) DEF Init
    <2>7. QED
      BY <2>1, <2>2, <2>3, <2>4, <2>5, <2>6, Zenon DEF TypeOK
  <1>2. \A l \in Loop : loop[l].pc = "unborn" /\ loop[l].stop = 0
    BY SMTT(30) DEF Init, NoLoop
  <1>3. \A c \in Caller : caller[c].pc = "idle" /\ caller[c].then = "idle"
    BY SMTT(30) DEF Init
  <1>4. Channels
    BY <1>2 DEF Init, Channels, SealersCanBeStopped, QuitClosedOnce
  <1>5. Calls
    BY SMTT(30), <1>3, Callers DEF Init, Calls, Pc, Pausing, Resuming
  <1>6. Orderly
    BY <1>3, Callers DEF Init, Orderly, Busy, At
  <1>7. Minter
    BY SMTT(30), <1>2 DEF Init, Minter, Alive
  <1>8. QED
    BY <1>1, <1>4, <1>5, <1>6, <1>7 DEF IInv

\* A caller's step that leaves channels and loops alone keeps the invariant if
\* it keeps what is said of the calls.
LEMMA CallerStep ==
  ASSUME IInv, Next, UNCHANGED <<worker, chan, loop, chain>>, Calls' /\ Orderly',
         history'.stops = history.stops, history.overlap => history'.overlap
  PROVE  IInv'
  <1>1. UNCHANGED <<made, closed, status, upd, loop, worker>>
    BY DEF chan, chain
  <1>2. TypeOK'
    BY SMTT(30), TypesKept DEF IInv
  <1>3. Channels' /\ Minter'
    BY <1>1, ChannelsSame, MinterSame DEF IInv
  <1>4. QED
    BY <1>2, <1>3 DEF IInv

\* And a step of the other goroutines if it keeps channels and loops right.
LEMMA WorkerStep ==
  ASSUME IInv, Next, UNCHANGED <<caller, miner, syncing>>, worker'.mining = worker.mining,
         history'.overlap = history.overlap, history'.promised = history.promised,
         Channels' /\ Minter'
  PROVE  IInv'
  <1>1. TypeOK'
    BY TypesKept DEF IInv
  <1>2. Calls' /\ Orderly'
    BY CallsSame DEF IInv
  <1>3. QED
    BY SMTT(30), <1>1, <1>2 DEF IInv

\* Every step keeps the invariant.
LEMMA NextIInv == IInv /\ [Next]_vars => IInv'
  <1> SUFFICES ASSUME IInv, [Next]_vars PROVE IInv'
    BY SMTT(30)
  <1>1. CASE UNCHANGED vars
    <2>1. UNCHANGED <<miner, worker, made, closed, status, caller, loop, upd, heads, recv,
                      head, syncing, history>>
      BY SMTT(30), <1>1 DEF vars, chan, chain
    <2>2. TypeOK'
      BY <2>1 DEF IInv, TypeOK
    <2>3. Channels' /\ Minter'
      BY SMTT(30), <2>1, ChannelsSame, MinterSame DEF IInv
    <2>4. Calls' /\ Orderly'
      BY SMTT(30), <2>1, CallsSame DEF IInv
    <2>5. QED
      BY <2>2, <2>3, <2>4 DEF IInv
  <1> SUFFICES ASSUME Next PROVE IInv'
    BY SMTT(30), <1>1
  <1>2. status = "ok"
    BY DEF Next
  <1>3. ASSUME NEW u \in User, callStart(u) PROVE IInv'
    <2>1. UNCHANGED <<worker, chan, loop, chain>>
      BY <1>3 DEF callStart
    <2>2. history'.stops = history.stops /\ (history.overlap => history'.overlap)
      BY SMTT(30), <1>3 DEF callStart, IInv, TypeOK, HistoryRec, Enter
    <2>3. QED
      BY SMTT(30), <1>3, <2>1, <2>2, CallStartCalls, CallerStep
  <1>4. ASSUME NEW u \in User, callStop(u) PROVE IInv'
    <2>1. UNCHANGED <<worker, chan, loop, chain>>
      BY <1>4 DEF callStop
    <2>2. history'.stops = history.stops /\ (history.overlap => history'.overlap)
      BY SMTT(30), <1>4 DEF callStop, IInv, TypeOK, HistoryRec, Enter
    <2>3. QED
      BY <1>4, <2>1, <2>2, CallStopCalls, CallerStep
  <1>5. ASSUME NEW c \in Caller, setShouldStart(c) PROVE IInv'
    <2>1. UNCHANGED <<worker, chan, loop, chain, history>>
      BY <1>5 DEF setShouldStart
    <2>2. QED
      BY <1>5, <2>1, SetShouldStartCalls, CallerStep
  <1>6. ASSUME NEW c \in Caller, checkCanStart(c) PROVE IInv'
    <2>1. UNCHANGED <<worker, chan, loop, chain>>
      BY <1>6 DEF checkCanStart
    <2>2. history'.stops = history.stops /\ (history.overlap => history'.overlap)
      BY <1>6 DEF checkCanStart, IInv, TypeOK, HistoryRec
    <2>3. QED
      BY SMTT(30), <1>6, <2>1, <2>2, CheckCanStartCalls, CallerStep
  <1>7. ASSUME NEW c \in Caller, start(c) PROVE IInv'
    BY <1>7, TypesKept, StartCalls, StartMinter DEF IInv
  <1>8. ASSUME NEW c \in Caller, stopTest(c) PROVE IInv'
    <2>1. UNCHANGED <<worker, chan, loop, chain, history>>
      BY SMTT(30), <1>8 DEF stopTest
    <2>2. QED
      BY <1>8, <2>1, StopTestCalls, CallerStep
  <1>9. ASSUME NEW c \in Caller, stop(c) PROVE IInv'
    BY <1>9, <1>2, TypesKept, StopCalls, StopMinter DEF IInv
  <1>10. ASSUME NEW c \in Caller, clearMining(c) PROVE IInv'
    <2>1. UNCHANGED <<worker, chan, loop, chain, history>>
      BY SMTT(30), <1>10 DEF clearMining
    <2>2. QED
      BY <1>10, <2>1, ClearMiningCalls, CallerStep
  <1>11. ASSUME NEW c \in Caller, clearShouldStart(c) PROVE IInv'
    <2>1. UNCHANGED <<worker, chan, loop, chain, history>>
      BY <1>11 DEF clearShouldStart
    <2>2. QED
      BY <1>11, <2>1, ClearShouldStartCalls, CallerStep
  <1>12. ASSUME StartEvent PROVE IInv'
    <2>1. UNCHANGED <<worker, chan, loop, chain>>
      BY <1>12 DEF StartEvent
    <2>2. history'.stops = history.stops /\ (history.overlap => history'.overlap)
      BY SMTT(30), <1>12 DEF StartEvent, IInv, TypeOK, HistoryRec, Enter
    <2>3. QED
      BY SMTT(30), <1>12, <2>1, <2>2, StartEventCalls, CallerStep
  <1>13. ASSUME DoneEvent PROVE IInv'
    <2>1. UNCHANGED <<worker, chan, loop, chain>>
      BY SMTT(30), <1>13 DEF DoneEvent
    <2>2. history'.stops = history.stops /\ (history.overlap => history'.overlap)
      BY <1>13 DEF DoneEvent, IInv, TypeOK, HistoryRec, Enter
    <2>3. QED
      BY <1>13, <2>1, <2>2, DoneEventCalls, CallerStep
  <1>14. ASSUME pause PROVE IInv'
    <2>1. UNCHANGED <<worker, chan, loop, chain, history>>
      BY SMTT(30), <1>14 DEF pause
    <2>2. QED
      BY <1>14, <2>1, PauseCalls, CallerStep
  <1>15. ASSUME wantRestart PROVE IInv'
    <2>1. UNCHANGED <<worker, chan, loop, chain, history>>
      BY <1>15 DEF wantRestart
    <2>2. QED
      BY <1>15, <2>1, WantRestartCalls, CallerStep
  <1>16. ASSUME raiseCanStart PROVE IInv'
    <2>1. UNCHANGED <<worker, chan, loop, chain, history>>
      BY SMTT(30), <1>16 DEF raiseCanStart
    <2>2. QED
      BY <1>16, <2>1, RaiseCalls, CallerStep
  <1>17. ASSUME resetShouldStart PROVE IInv'
    <2>1. UNCHANGED <<worker, chan, loop, chain, history>>
      BY <1>17 DEF resetShouldStart
    <2>2. QED
      BY <1>17, <2>1, ResetCalls, CallerStep
  <1>18. ASSUME NEW l \in Loop, enterSelect(l) PROVE IInv'
    <2>1. UNCHANGED <<caller, miner, syncing, worker, history>>
      BY <1>18 DEF enterSelect
    <2>2. QED
      BY SMTT(30), <1>18, <2>1, EnterSelectMinter, WorkerStep
  <1>19. ASSUME NEW l \in Loop, tick(l) PROVE IInv'
    <2>1. UNCHANGED <<caller, miner, syncing, worker>>
      BY <1>19 DEF tick
    <2>2. history'.overlap = history.overlap /\ history'.promised = history.promised
      BY SMTT(30), <1>19 DEF tick, IInv, TypeOK, HistoryRec
    <2>3. QED
      BY SMTT(30), <1>19, <2>1, <2>2, TickMinter, WorkerStep
  <1>20. ASSUME NEW l \in Loop, seal(l) PROVE IInv'
    <2>1. UNCHANGED <<caller, miner, syncing, worker, history>>
      BY <1>20 DEF seal
    <2>2. QED
      BY <1>20, <2>1, SealMinter, WorkerStep
  <1>21. ASSUME NEW l \in Loop, sealed(l) PROVE IInv'
    <2>1. UNCHANGED <<caller, miner, syncing, worker, history>>
      BY SMTT(30), <1>21 DEF sealed
    <2>2. QED
      BY <1>21, <2>1, SealedMinter, WorkerStep
  <1>22. ASSUME NEW l \in Loop, leave(l) PROVE IInv'
    <2>1. UNCHANGED <<caller, miner, syncing, worker, history>>
      BY <1>22 DEF leave
    <2>2. QED
      BY <1>22, <1>2, <2>1, LeaveMinter, WorkerStep
  <1>23. ASSUME NEW l \in Loop, leaveQuit(l) PROVE IInv'
    <2>1. UNCHANGED <<caller, miner, syncing, history>>
      BY SMTT(30), <1>23 DEF leaveQuit
    <2>2. worker'.mining = worker.mining
      BY <1>23 DEF leaveQuit, IInv, TypeOK, WorkerRec
    <2>3. QED
      BY <1>23, <1>2, <2>1, <2>2, LeaveQuitMinter, WorkerStep
  <1>24. ASSUME NEW l \in Loop, leaveStopper(l) PROVE IInv'
    <2>1. UNCHANGED <<caller, miner, syncing, history>>
      BY SMTT(30), <1>24 DEF leaveStopper
    <2>2. worker'.mining = worker.mining
      BY <1>24 DEF leaveStopper, IInv, TypeOK, WorkerRec
    <2>3. QED
      BY <1>24, <1>2, <2>1, <2>2, LeaveStopperMinter, WorkerStep
  <1>25. ASSUME updateClose PROVE IInv'
    <2>1. UNCHANGED <<caller, miner, syncing, worker, history>>
      BY <1>25 DEF updateClose
    <2>2. QED
      BY <1>25, <1>2, <2>1, UpdateCloseMinter, WorkerStep
  <1>26. ASSUME updateSwap PROVE IInv'
    <2>1. UNCHANGED <<caller, miner, syncing, history>>
      BY SMTT(30), <1>26 DEF updateSwap
    <2>2. worker'.mining = worker.mining
      BY <1>26 DEF updateSwap, IInv, TypeOK, WorkerRec
    <2>3. QED
      BY <1>26, <1>2, <2>1, <2>2, UpdateSwapMinter, WorkerStep
  <1>27. CASE wait \/ foreignHead
    <2>1. /\ UNCHANGED <<miner, worker, made, closed, status, caller, loop, upd>>
          /\ UNCHANGED <<syncing, history>>
      BY SMTT(30), <1>27 DEF wait, foreignHead, chan
    <2>2. Channels' /\ Minter'
      BY <2>1, ChannelsSame, MinterSame DEF IInv
    <2>3. QED
      BY SMTT(30), <2>1, <2>2, WorkerStep
  <1>28. QED
    BY <1>3, <1>4, <1>5, <1>6, <1>7, <1>8, <1>9, <1>10, <1>11, <1>12,
       <1>13, <1>14, <1>15, <1>16, <1>17, <1>18, <1>19, <1>20, <1>21,
       <1>22, <1>23, <1>24, <1>25, <1>26, <1>27
    DEF Next, Call, Update, Mint

\* The invariant holds in every reachable state.
LEMMA Invariance == Spec => []IInv
  BY InitIInv, NextIInv, PTL DEF Spec

----------------------------------------------------------------------------
(* The theorems.                                                           *)

\* Between calls that do not overlap, Miner and worker agree on whether they
\* mine, with one mintLoop that the next stop reaches; nothing mines while the
\* downloader synchronises, and no start that was put off is lost.
THEOREM MiningIsRight == Spec => []MiningRight
  <1>1. IInv => MiningRight
    <2> SUFFICES ASSUME IInv PROVE MiningRight
      OBVIOUS
    <2>1. ASSUME ~history.overlap, Quiet
          PROVE  /\ miner.mining = worker.mining
                 /\ syncing => ~worker.mining
                 /\ At("sync", "done") /\ history.promised => worker.mining
      <3>1. \A c \in Caller : caller[c].pc \in {"idle", "done"}
        BY SMTT(30), <2>1 DEF Quiet, Busy
      <3>2. miner.mining <=> worker.mining
        BY <2>1, <3>1 DEF IInv, Orderly, At
      <3>3. miner.mining \in BOOLEAN /\ worker.mining \in BOOLEAN
        BY SMTT(30) DEF IInv, TypeOK, MinerRec, WorkerRec
      <3>4. syncing => ~worker.mining
        BY <2>1, <3>1, Callers DEF IInv, Orderly
      <3>5. At("sync", "done") /\ history.promised => worker.mining
        BY SMTT(30), <2>1, <3>1, Callers DEF IInv, Orderly, Kept, At
      <3>6. QED
        BY <3>2, <3>3, <3>4, <3>5
    <2>2. ASSUME ~history.overlap, worker.mining
          PROVE  /\ worker.stopper \notin closed
                 /\ \E l \in Loop : /\ Alive = {l}
                                    /\ loop[l].pc \notin {"newQuit", "newStopper"}
      <3>1. PICK l \in Loop : loop[l].pc \in Minting
        BY <2>2 DEF IInv, Minter
      <3>2. Alive = {l}
        BY <2>2, <3>1 DEF IInv, Minter, Minting, Alive
      <3>3. QED
        BY <2>2, <3>1, <3>2 DEF IInv, Minter, Minting
    <2>3. QED
      BY SMTT(30), <2>1, <2>2 DEF MiningRight, MiningHasMinter, SyncPausesMining
  <1>2. QED
    BY <1>1, Invariance, PTL

\* No stopper is closed twice unless calls overlap, and no quit channel as long
\* as nobody stops mining: worker.update alone never meets itself.
THEOREM ChannelsClosedOnce == Spec => []ClosedOnce
  <1>1. IInv => ClosedOnce
    BY DEF IInv, Channels, Minter, ClosedOnce, StopperClosedOnce, QuitClosedOnce
  <1>2. QED
    BY <1>1, Invariance, PTL

\* Whoever seals holds a quit channel that is closed or will be with the next
\* head, whatever calls overlap; whoever waits holds the stopper, unless they do.
THEOREM EveryoneCanBeStopped == Spec => []CanBeStopped
  <1>1. IInv => CanBeStopped
    BY DEF IInv, Channels, Minter, CanBeStopped, SealersCanBeStopped,
           LoopsCanBeStopped
  <1>2. QED
    BY <1>1, Invariance, PTL
=============================================================================
