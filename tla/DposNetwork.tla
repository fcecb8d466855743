---------------------------- MODULE DposNetwork ----------------------------
(***************************************************************************)
(* Validators that mint, exchange and verify blocks: worker.mintLoop and   *)
(* worker.wait, Dpos.CheckValidator and Seal, BlockChain.insertChain with  *)
(* verifyHeader and verifySeal, the fork choice of WriteBlockAndState, and *)
(* the confirmed header kept by updateConfirmedBlockHeader.                *)
(*                                                                         *)
(* A block is the sequence of headers from genesis to it, so that its hash *)
(* is its identity and its parent is its Front; its total difficulty is    *)
(* its length, every difficulty being 1.  A header has its time, its       *)
(* validator and the validator list of its DposContext.  There are as many *)
(* candidates as an election needs and no transactions: an election only   *)
(* changes the order of the list.  Messages may be delayed, reordered,     *)
(* repeated or lost: a node may be handed any block another node has, or   *)
(* never be.  All clocks agree.                                            *)
(***************************************************************************)
EXTENDS EpochContext, SequencesExt

CONSTANTS
  Orders,      \* the orders that elections draw, indexed by the parent's hash
  MaxTime,     \* bound on the clock
  MaxLag,      \* bound on the seconds between a tick and its use
  MaxRecv      \* capacity of the worker's result channel

ASSUME NetworkAssumption ==
  /\ Cardinality(Address) <= safeSize
  /\ Orders \in Seq(Shuffles(Address)) /\ Orders # <<>>
  /\ MaxTime \in Nat /\ MaxLag \in Nat /\ MaxRecv \in Nat \ {0}

\* One validator alone confirms nothing (the code has three).
ASSUME ConsensusAssumption == maxValidatorSize >= 2

consensusSize == (maxValidatorSize * 2) \div 3 + 1

VARIABLES
  now,        \* the wall clock
  known,      \* the blocks in each node's database
  head,       \* bc.currentBlock
  curHeader,  \* hc.currentHeader, as the block it is the header of
  confirmed,  \* d.confirmedBlockHeader, NoBlock before it is loaded
  stored,     \* its copy in the database, NoBlock when there is none
  step,       \* where the mint loop is: "idle", "checked" or "sealing"
  tick,       \* the last tick that passed CheckValidator
  work,       \* the block being sealed
  sealAt,     \* the slot that Seal waits for
  recv        \* sealed blocks that worker.wait has not written yet

mintVars == <<step, tick, work, sealAt>>
vars == <<now, known, head, curHeader, confirmed, stored, step, tick, work,
          sealAt, recv>>

NoBlock == <<>>

GenesisBlock == <<[time |-> 0, validator |-> NoAddress, validators |-> Orders[1]]>>

Blocks == UNION {known[n] : n \in Address}

----------------------------------------------------------------------------
\* The validator list after a block on top of parent: tryElect shuffles with
\* the parent's hash when the block opens an epoch.
validatorsAfter(parent, time) ==
  IF EpochOf(time) = EpochOf(Last(parent).time) THEN Last(parent).validators
  ELSE Orders[((Len(parent) + Last(parent).time + EpochOf(time)) % Len(Orders)) + 1]

NewBlock(parent, time, validator) ==
  Append(parent, [time |-> time, validator |-> validator,
                  validators |-> validatorsAfter(parent, time)])

\* checkDeadline and CheckValidator: n may mint on top of last at this tick.
checkDeadline(last, t) ==
  /\ last.time < NextSlot(t)
  /\ last.time = PrevSlot(t) \/ NextSlot(t) - t <= 1

CheckValidator(n, last, t) ==
  checkDeadline(last, t) /\ lookupValidator(last, t) = n

\* verifyHeader and verifySeal: header i of a block against the one before it.
verifyHeader(b, i) == b[i-1].time + blockInterval <= b[i].time

verifySeal(b, i) == lookupValidator(b[i-1], b[i].time) = b[i].validator

Verifies(b, i) == verifyHeader(b, i) /\ verifySeal(b, i)

AllVerify(b) == \A i \in 2..Len(b) : Verifies(b, i)

\* The validators of the blocks from i to the top of b in the epoch of
\* block i: validatorMap after the walk has added block i.
Witnesses(b, i) ==
  {b[j].validator : j \in {k \in i..Len(b) : EpochOf(b[k].time) = EpochOf(b[i].time)}}

\* validatorMap when the walk comes to block i, reset if the epoch changes.
validatorMap(b, i) ==
  {b[j].validator : j \in {k \in i+1..Len(b) : EpochOf(b[k].time) = EpochOf(b[i].time)}}

\* Faulty variant: the fast return gives up one block too early.
fastReturnEarly(b, conf, i) ==
  i - Len(conf) <= consensusSize - Cardinality(validatorMap(b, i))

\* The fast return of updateConfirmedBlockHeader at block i.
fastReturn(b, conf, i) ==
  i - Len(conf) < consensusSize - Cardinality(validatorMap(b, i))

\* updateConfirmedBlockHeader's walk from b down to the height of conf.
confirmedFrom(b, conf) ==
  LET found == {i \in Len(conf)+1..Len(b) :
                  /\ \A j \in i..Len(b) : ~fastReturn(b, conf, j)
                  /\ Cardinality(Witnesses(b, i)) >= consensusSize}
  IN  IF found = {} THEN conf ELSE SubSeq(b, 1, Max(found))

\* Faulty variant: the stored header is not read back after a restart.
loadConfirmedAnew(n) ==
  IF confirmed[n] # NoBlock THEN confirmed[n] ELSE GenesisBlock

\* The confirmed header as loaded when memory has none.
loadConfirmed(n) ==
  IF confirmed[n] # NoBlock THEN confirmed[n]
  ELSE IF stored[n] # NoBlock THEN stored[n]
  ELSE GenesisBlock

----------------------------------------------------------------------------
Init ==
  /\ now = 0
  /\ known = [n \in Address |-> {GenesisBlock}]
  /\ head = [n \in Address |-> GenesisBlock]
  /\ curHeader = head
  /\ confirmed = [n \in Address |-> NoBlock]
  /\ stored = [n \in Address |-> NoBlock]
  /\ step = [n \in Address |-> "idle"]
  /\ tick = [n \in Address |-> 0]
  /\ work = [n \in Address |-> NoBlock]
  /\ sealAt = [n \in Address |-> 0]
  /\ recv = [n \in Address |-> <<>>]

\* A second passes.  MaxLag bounds how late the mint loop may run.
Tick ==
  /\ now < MaxTime
  /\ \A n \in Address : step[n] = "checked" => now < tick[n] + MaxLag
  /\ now' = now + 1
  /\ UNCHANGED <<known, head, curHeader, confirmed, stored, mintVars, recv>>

\* Faulty variant: a reorg leaves the current header on the old chain.
headerAfterReorgKept(hdr, old, b) == IF Front(b) = old THEN b ELSE hdr

\* The current header after b replaces the head: reorg inserts the new blocks
\* from the top down, and insert moves the current header only when the
\* canonical hash changes, so that after a reorg the current header is the
\* lowest of the new blocks.  Writing the head again moves nothing.
headerAfter(hdr, old, b) ==
  IF Front(b) = old THEN b
  ELSE IF b = old THEN hdr
  ELSE SubSeq(b, 1, Len(LongestCommonPrefix({old, b})) + 1)

\* Faulty variant: the new block's own difficulty is not added to its parent's.
WriteParentTd(n, b) ==
  /\ known' = [known EXCEPT ![n] = @ \cup {b}]
  /\ \/ /\ Len(b) - 1 >= Len(head[n])
        /\ head' = [head EXCEPT ![n] = b]
        /\ curHeader' = [curHeader EXCEPT ![n] = headerAfter(curHeader[n], head[n], b)]
     \/ /\ Len(b) - 1 <= Len(head[n])
        /\ UNCHANGED <<head, curHeader>>

\* WriteBlockAndState: the longer chain wins, and a tie is a coin toss.
WriteBlockAndState(n, b) ==
  /\ known' = [known EXCEPT ![n] = @ \cup {b}]
  /\ \/ /\ Len(b) >= Len(head[n])
        /\ head' = [head EXCEPT ![n] = b]
        /\ curHeader' = [curHeader EXCEPT ![n] = headerAfter(curHeader[n], head[n], b)]
     \/ /\ Len(b) <= Len(head[n])
        /\ UNCHANGED <<head, curHeader>>

----------------------------------------------------------------------------
\* mintBlock takes a tick, possibly late, and checks it against the head.
mintBlock(n, t) ==
  /\ step[n] = "idle"
  /\ t > tick[n] /\ t <= now /\ now <= t + MaxLag
  /\ CheckValidator(n, Last(head[n]), t)
  /\ step' = [step EXCEPT ![n] = "checked"]
  /\ tick' = [tick EXCEPT ![n] = t]
  /\ UNCHANGED <<now, known, head, curHeader, confirmed, stored, work, sealAt, recv>>

\* createNewWork reads the head and the clock anew, and sleeps if it has to
\* stamp more than a second ahead; Seal is called with the result and waits
\* for the next slot.
createNewWork(n) ==
  LET last   == Last(head[n]).time
      tstamp == IF last >= now THEN last + 1 ELSE now
  IN  /\ step[n] = "checked"
      /\ tstamp <= MaxTime
      /\ work' = [work EXCEPT ![n] = NewBlock(head[n], tstamp, n)]
      /\ sealAt' = [sealAt EXCEPT ![n] =
                      NextSlot(IF tstamp > now + 1 THEN tstamp ELSE now)]
      /\ step' = [step EXCEPT ![n] = "sealing"]
      /\ UNCHANGED <<now, known, head, curHeader, confirmed, stored, tick, recv>>

\* The mint loop is back to waiting for a tick.
MintDone(n) ==
  /\ step' = [step EXCEPT ![n] = "idle"]
  /\ work' = [work EXCEPT ![n] = NoBlock]
  /\ sealAt' = [sealAt EXCEPT ![n] = 0]

\* Seal signs once its slot has come; the header's time is what it was.
Seal(n) ==
  /\ step[n] = "sealing"
  /\ now >= sealAt[n]
  /\ Len(recv[n]) < MaxRecv
  /\ recv' = [recv EXCEPT ![n] = Append(@, work[n])]
  /\ MintDone(n)
  /\ UNCHANGED <<now, known, head, curHeader, confirmed, stored, tick>>

\* A new head closes quitCh, which ends a Seal that is still waiting.
SealStopped(n) ==
  /\ step[n] = "sealing"
  /\ Last(work[n]).time <= now + 1 /\ now < sealAt[n]
  /\ head[n] # Front(work[n])
  /\ MintDone(n)
  /\ UNCHANGED <<now, known, head, curHeader, confirmed, stored, tick, recv>>

\* worker.wait writes a sealed block, without verifying it, and announces it.
wait(n) ==
  /\ recv[n] # <<>>
  /\ WriteBlockAndState(n, Head(recv[n]))
  /\ recv' = [recv EXCEPT ![n] = Tail(@)]
  /\ UNCHANGED <<now, confirmed, stored, mintVars>>

\* What insertChain does with a block it has accepted: verifySeal moves the
\* confirmed header before the block is written, from the current header as
\* it is then.
AcceptBlock(n, b) ==
  /\ LET conf == confirmedFrom(curHeader[n], loadConfirmed(n))
     IN  /\ confirmed' = [confirmed EXCEPT ![n] = conf]
         /\ stored' = IF conf = loadConfirmed(n) THEN stored
                      ELSE [stored EXCEPT ![n] = conf]
  /\ WriteBlockAndState(n, b)
  /\ UNCHANGED <<now, mintVars, recv>>

\* Faulty variant: a wrong signer is let through.
insertUnsealed(n, b) ==
  /\ b \notin known[n]
  /\ Front(b) \in known[n]
  /\ Last(b).time <= now
  /\ verifyHeader(b, Len(b))
  /\ AcceptBlock(n, b)

\* insertChain on a block that another node has: one whose parent is unknown
\* or that does not verify is refused.
insertChain(n, b) ==
  /\ b \notin known[n]
  /\ Front(b) \in known[n]
  /\ Last(b).time <= now
  /\ Verifies(b, Len(b))
  /\ AcceptBlock(n, b)

\* A node restarts: what is in memory only is lost.
restart(n) ==
  /\ confirmed' = [confirmed EXCEPT ![n] = NoBlock]
  /\ recv' = [recv EXCEPT ![n] = <<>>]
  /\ MintDone(n)
  /\ UNCHANGED <<now, known, head, curHeader, stored, tick>>

Next ==
  \/ Tick
  \/ \E n \in Address :
       \/ \E t \in now-MaxLag..now : mintBlock(n, t)
       \/ createNewWork(n)
       \/ Seal(n)
       \/ SealStopped(n)
       \/ wait(n)
       \/ \E b \in Blocks : insertChain(n, b)
       \/ restart(n)

Spec == Init /\ [][Next]_vars

\* The clock and the worker's goroutines run on, and the synchronisation with
\* a peer of higher total difficulty, or procFutureBlocks, hands a node the
\* blocks it lacks.
Fairness ==
  /\ WF_vars(Tick)
  /\ \A n \in Address : /\ WF_vars(createNewWork(n))
                        /\ WF_vars(wait(n))
                        /\ WF_vars(\E b \in Blocks : insertChain(n, b))

----------------------------------------------------------------------------
\* The state has its type.
TypeOK ==
  /\ now \in 0..MaxTime
  /\ \A n \in Address :
       /\ GenesisBlock \in known[n]
       /\ head[n] \in known[n] /\ curHeader[n] \in known[n]
       /\ confirmed[n] \in known[n] \cup {NoBlock}
       /\ stored[n] \in known[n] \cup {NoBlock}
       /\ step[n] \in {"idle", "checked", "sealing"}
       /\ (step[n] = "sealing") = (work[n] # NoBlock)
       /\ tick[n] \in 0..MaxTime /\ sealAt[n] \in Nat
       /\ Len(recv[n]) <= MaxRecv

\* A node's head is a longest block it knows, whatever the order in which
\* blocks of several forks came and were mined.
HeadIsLongest == \A n \in Address : \A b \in known[n] : Len(b) <= Len(head[n])

\* A node's database is closed under parents: reorg and the confirmation walk
\* always find the ancestors they ask for.
AncestorsKnown ==
  \A n \in Address : \A b \in known[n] : Len(b) > 1 => Front(b) \in known[n]

\* The current header may lag behind the current block after a reorg, but it
\* is always a block of the canonical chain.
CurrentHeaderOnChain == \A n \in Address : IsPrefix(curHeader[n], head[n])

\* What the block database and the heads of a node keep to, together.
ChainsConsistent == HeadIsLongest /\ AncestorsKnown /\ CurrentHeaderOnChain

\* A block stamped late or on a head that moved after CheckValidator does not
\* verify, and the miner writes it all the same: such a block stays with the
\* node that minted it.
UnverifiedStaysHome ==
  \A n \in Address : \A b \in known[n] : \A i \in 2..Len(b) :
    Verifies(b, i) \/ b[i].validator = n

\* A confirmed block verifies, itself and all its ancestors, although the walk
\* that confirms it may count the node's own blocks that do not.
ConfirmedVerifies ==
  \A n \in Address : AllVerify(stored[n])

\* The fast return skips no confirmation: the walk finds the highest block
\* above the confirmed one with consensusSize validators from it in its epoch.
FastReturnSound ==
  \A n \in Address : \A b \in known[n] :
    LET conf == loadConfirmed(n)
        ok   == {i \in Len(conf)+1..Len(b) :
                   Cardinality(Witnesses(b, i)) >= consensusSize}
    IN  confirmedFrom(b, conf) = IF ok = {} THEN conf ELSE SubSeq(b, 1, Max(ok))

\* The confirmed number never goes back, across forks, reorgs and restarts.
ConfirmedNumberGrows ==
  [][\A n \in Address : Len(loadConfirmed(n)') >= Len(loadConfirmed(n))]_vars

\* Nodes whose own chains verify end on chains of the same length, however
\* blocks were delayed, forked or lost with a restart on the way.  A node that
\* minted a block which does not verify may stay on its own.
NodesCatchUp ==
  <>[](\A m, n \in Address :
         AllVerify(head[m]) /\ AllVerify(head[n]) => Len(head[m]) = Len(head[n]))

\* What the source says of itself and the code does not do: the confirmed
\* block is "the latest irreversible block" (API.GetConfirmedBlockNumber).
ConfirmedIsIrreversible ==
  \A n \in Address : IsPrefix(loadConfirmed(n), head[n])

=============================================================================
