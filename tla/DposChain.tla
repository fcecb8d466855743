----------------------------- MODULE DposChain -----------------------------
(***************************************************************************)
(* One chain of blocks and the DPoS state it carries, as the validator     *)
(* whose turn it is extends it: worker.createNewWork opens a block on the  *)
(* head, commitTransactions applies pool transactions to the work's state  *)
(* and context, Dpos.Finalize rewards, elects and counts, and the sealed   *)
(* block becomes the head.  tryElect's loop is one step per round, so that *)
(* what each round does to the candidates can be stated.                   *)
(*                                                                         *)
(* Abstractions: a block is its timestamp and its validator; gas is free;  *)
(* a Binary transaction moves one unit; the coinbase of a validator is its *)
(* own account; sealing succeeds.                                          *)
(***************************************************************************)
EXTENDS EpochContext

CONSTANTS
  GenesisValidators,  \* the configured validators, a sequence
  GenesisTime,        \* the timestamp of the genesis block
  GenesisBalance,     \* the allocated balances
  blockReward,
  Transactions,       \* the transactions users may submit
  MaxTime,            \* bound on block timestamps
  MaxBlocks,          \* bound on the length of the chain, genesis included
  MaxTxs              \* bound on the transactions of a behaviour

TxTypes == {"Binary", "LoginCandidate", "LogoutCandidate", "Delegate", "UnDelegate"}

\* "to" is NoAddress when the transaction has no recipient.
Tx == [type : TxTypes, from : Address, to : Address \cup {NoAddress}]

Headers == [time : 0..MaxTime, validator : Address \cup {NoAddress}]

ASSUME ChainAssumption ==
  /\ GenesisValidators \in Seq(Address)
  /\ IsInjective(GenesisValidators)
  /\ GenesisTime \in Nat
  /\ GenesisBalance \in [Address -> Nat]
  /\ blockReward \in Nat
  /\ Transactions \subseteq Tx
  /\ MaxTime \in Nat /\ MaxBlocks \in Nat /\ MaxTxs \in Nat
  /\ GenesisTime <= MaxTime
  /\ \A t \in 0..MaxTime : EpochOf(t) \in Epoch

VARIABLES
  chain,             \* the headers from genesis to the head
  ctx,               \* the head's DposContext
  balance,           \* the head's account balances
  timeOfFirstBlock,  \* the process-wide cache of the first block's time, or 0
  phase,             \* "idle", "txs" or "elect"
  header,            \* the header of the block being built
  dposContext,       \* work.dposContext
  state,             \* work.state
  round,             \* the epoch that tryElect's loop has reached
  applied            \* transactions taken from the pool so far

headVars == <<chain, ctx, balance>>
vars == <<chain, ctx, balance, timeOfFirstBlock, phase, header, dposContext,
          state, round, applied>>

Genesis == Head(chain)
Parent  == chain[Len(chain)]

\* tryElect's prevEpochIsGenesis, prevEpoch and currentEpoch.
prevEpochIsGenesis == EpochOf(Parent.time) = EpochOf(Genesis.time)

currentEpoch == EpochOf(header.time)

prevEpoch ==
  IF prevEpochIsGenesis /\ EpochOf(Parent.time) < currentEpoch
  THEN currentEpoch - 1 ELSE EpochOf(Parent.time)

----------------------------------------------------------------------------
\* Transaction.Validate, run when a transaction is submitted: only candidate
\* transactions may lack a recipient.
Validate(tx) ==
  tx.type \in {"Delegate", "UnDelegate"} => tx.to # NoAddress

\* applyDposMessage: the operations' errors are dropped.
applyDposMessage(c, tx) ==
  CASE tx.type = "LoginCandidate"  -> BecomeCandidate(c, tx.from)
    [] tx.type = "LogoutCandidate" -> KickoutCandidate(c, tx.from)
    [] tx.type = "Delegate"        -> Delegate(c, tx.from, tx.to)
    [] tx.type = "UnDelegate"      -> UnDelegate(c, tx.from, tx.to)
    [] OTHER                       -> c

\* ApplyTransaction fails for a DPoS transaction without recipient and for a
\* transfer the sender cannot pay.
ApplyFails(tx, bal) ==
  \/ tx.to = NoAddress /\ tx.type # "Binary"
  \/ tx.type = "Binary" /\ bal[tx.from] < 1

\* ApplyMessage: what a transfer does to the balances.
Transfer(tx, bal) ==
  LET paid == [bal EXCEPT ![tx.from] = @ - 1]
  IN  IF tx.type # "Binary" THEN bal
      ELSE IF tx.to = NoAddress THEN paid
      ELSE [paid EXCEPT ![tx.to] = @ + 1]

----------------------------------------------------------------------------
Init ==
  /\ chain = <<[time |-> GenesisTime, validator |-> NoAddress]>>
  /\ ctx = initGenesisDposContext(GenesisValidators)
  /\ balance = GenesisBalance
  /\ timeOfFirstBlock = 0
  /\ phase = "idle"
  /\ header = [time |-> GenesisTime, validator |-> NoAddress]
  /\ dposContext = ctx
  /\ state = balance
  /\ round = 0
  /\ applied = 0

\* No work in progress: the work's variables hold the head's state.
NoWork ==
  /\ phase' = "idle"
  /\ header' = chain'[Len(chain')]
  /\ dposContext' = ctx'
  /\ state' = balance'
  /\ round' = 0

\* createNewWork for a slot after the head's: the validator on duty by the
\* head's context starts from the head's state.
createNewWork(time) ==
  /\ phase = "idle"
  /\ Len(chain) < MaxBlocks
  /\ time >= Parent.time + blockInterval
  /\ lookupValidator(ctx, time) # NoAddress
  /\ header' = [time |-> time, validator |-> lookupValidator(ctx, time)]
  /\ dposContext' = ctx
  /\ state' = balance
  /\ phase' = "txs"
  /\ UNCHANGED <<headVars, timeOfFirstBlock, round, applied>>

\* commitTransaction: a failing transaction is rolled back to the snapshots
\* and skipped.
commitTransaction(tx) ==
  /\ phase = "txs"
  /\ applied < MaxTxs
  /\ Validate(tx)
  /\ applied' = applied + 1
  /\ IF ApplyFails(tx, state)
     THEN UNCHANGED <<dposContext, state>>
     ELSE /\ state' = Transfer(tx, state)
          /\ dposContext' = applyDposMessage(dposContext, tx)
  /\ UNCHANGED <<headVars, timeOfFirstBlock, phase, header, round>>

\* Faulty variant: the cache is filled from the parent, not from block 1.
FinalizeCachesParent ==
  /\ phase = "txs"
  /\ state' = [state EXCEPT ![header.validator] = @ + blockReward]
  /\ timeOfFirstBlock' = IF timeOfFirstBlock = 0 /\ Len(chain) > 1
                         THEN Parent.time ELSE timeOfFirstBlock
  /\ round' = prevEpoch
  /\ phase' = "elect"
  /\ UNCHANGED <<headVars, header, dposContext, applied>>

\* Finalize up to tryElect's loop: the reward is paid first, and block 1's
\* time is cached once it is known.
Finalize ==
  /\ phase = "txs"
  /\ state' = [state EXCEPT ![header.validator] = @ + blockReward]
  /\ timeOfFirstBlock' = IF timeOfFirstBlock = 0 /\ Len(chain) > 1
                         THEN chain[2].time ELSE timeOfFirstBlock
  /\ round' = prevEpoch
  /\ phase' = "elect"
  /\ UNCHANGED <<headVars, header, dposContext, applied>>

\* The candidates after this round's kickout: the k-th round judges the
\* validators by the counts of prevEpoch when it has k minters on record.
AfterKickout ==
  IF ~prevEpochIsGenesis
     /\ round - prevEpoch < Cardinality(Minters(dposContext, prevEpoch))
  THEN kickoutValidator(dposContext, prevEpoch, header.time, timeOfFirstBlock)
  ELSE dposContext

\* Faulty variants: a round for the current epoch too, and a round that does
\* not advance the loop.
tryElectOneMore ==
  /\ phase = "elect"
  /\ round <= currentEpoch
  /\ \E c \in {AfterKickout} :
       /\ ~ElectionFails(c)
       /\ \E vs \in Shuffles(Elected(c, state)) : dposContext' = SetValidators(c, vs)
  /\ round' = round + 1
  /\ UNCHANGED <<headVars, timeOfFirstBlock, phase, header, state, applied>>


\* One round of tryElect.
tryElectRound ==
  /\ phase = "elect"
  /\ round < currentEpoch
  /\ \E c \in {AfterKickout} :
       /\ ~ElectionFails(c)
       /\ \E vs \in Shuffles(Elected(c, state)) : dposContext' = SetValidators(c, vs)
  /\ round' = round + 1
  /\ UNCHANGED <<headVars, timeOfFirstBlock, phase, header, state, applied>>

\* tryElect gives up, Finalize returns its error and the work is dropped.
tryElectFails ==
  /\ phase = "elect"
  /\ round < currentEpoch
  /\ ElectionFails(AfterKickout)
  /\ UNCHANGED <<headVars, timeOfFirstBlock, applied>>
  /\ NoWork

\* The rest of Finalize; the block is sealed and written and becomes the head.
sealBlock ==
  /\ phase = "elect"
  /\ round >= currentEpoch
  /\ ctx' = updateMintCnt(dposContext, Parent.time, header.time, header.validator)
  /\ balance' = state
  /\ chain' = Append(chain, header)
  /\ UNCHANGED <<timeOfFirstBlock, applied>>
  /\ NoWork

\* The process restarts: the cache and the work in progress are lost.
restart ==
  /\ timeOfFirstBlock' = 0
  /\ UNCHANGED <<headVars, applied>>
  /\ NoWork

Next ==
  \/ \E time \in 0..MaxTime : createNewWork(time)
  \/ \E tx \in Transactions : commitTransaction(tx)
  \/ Finalize
  \/ tryElectRound
  \/ tryElectFails
  \/ sealBlock
  \/ restart

Spec == Init /\ [][Next]_vars

\* The goroutine that builds a block runs on until the block is done.
Fairness ==
  /\ WF_vars(Finalize)
  /\ WF_vars(tryElectRound)
  /\ WF_vars(tryElectFails)
  /\ WF_vars(sealBlock)

----------------------------------------------------------------------------
\* The state has its type.
TypeOK ==
  /\ chain \in Seq(Headers)
  /\ chain # <<>>
  /\ ctx \in DposContexts
  /\ balance \in [Address -> Nat]
  /\ timeOfFirstBlock \in 0..MaxTime
  /\ phase \in {"idle", "txs", "elect"}
  /\ header \in Headers
  /\ phase # "idle" => header.validator \in Address
  /\ dposContext \in DposContexts
  /\ state \in [Address -> Nat]
  /\ round \in Nat
  /\ applied \in 0..MaxTxs

\* The vote and delegate tries tell the same story, through any interleaving
\* of delegations, logouts and kickouts: a vote has its delegate entry, and a
\* delegate entry has its vote unless it is the self-vote of a genesis
\* validator, for which initGenesisDposContext writes no vote.
VotesMatchDelegates(c) ==
  /\ \A d \in Address :
       c.vote[d] # NoAddress => <<c.vote[d], d>> \in c.delegate
  /\ \A p \in c.delegate :
       \/ c.vote[p[2]] = p[1]
       \/ p[1] = p[2] /\ p[1] \in Range(GenesisValidators)

VoteAgreement == VotesMatchDelegates(ctx) /\ VotesMatchDelegates(dposContext)

\* No balance counts for an account that logged out or was kicked out: every
\* delegate entry is for a candidate.
DelegatesAreCandidates ==
  \A c \in {ctx, dposContext} : \A p \in c.delegate : p[1] \in c.candidate

\* The mint-count trie, kept by increments that a block opening an epoch
\* restarts, is the tally of the chain: the blocks of each validator in each
\* epoch.
MintCntIsTally ==
  \A e \in Epoch : \A v \in Address :
    ctx.mintCnt[e][v] =
      Cardinality({n \in 2..Len(chain) : chain[n].validator = v
                                          /\ EpochOf(chain[n].time) = e})

\* When tryElect judges an epoch, the process has block 1's time, whenever it
\* was restarted: the first epoch's length is never taken from an empty cache.
FirstBlockTimeKnown ==
  phase = "elect" /\ ~prevEpochIsGenesis => timeOfFirstBlock = chain[2].time

\* Validators serve whole epochs: the list changes only with a block that
\* opens a later epoch than its parent's, whatever logouts the blocks carry.
ValidatorsServeEpoch ==
  [][ctx'.validators # ctx.validators
       => EpochOf(chain'[Len(chain')].time) > EpochOf(Parent.time)]_vars

\* The outcome of an election: distinct candidates, as many as there are up to
\* maxValidatorSize, and no candidate left out has more votes than one taken.
ElectionByWeight ==
  [][tryElectRound =>
       LET c     == dposContext'
           taken == Range(c.validators)
           votes == countVotes(c, state)
       IN  /\ IsInjective(c.validators)
           /\ taken \subseteq c.candidate
           /\ Len(c.validators) = maxValidatorSize \/ taken = c.candidate
           /\ \A a \in taken, b \in c.candidate \ taken : votes[a] >= votes[b]]_vars

\* Kickouts never cost the chain an election: tryElect fails only when the
\* transactions had already left fewer than safeSize candidates.  And a round
\* removes a candidate only if it is a validator that minted less than half its
\* share of prevEpoch, and spares it if a less active one is kept.
KickoutRight ==
  [][/\ tryElectFails => Cardinality(dposContext.candidate) < safeSize
     /\ tryElectRound =>
          LET cnt  == dposContext.mintCnt[prevEpoch]
              gone == dposContext.candidate \ dposContext'.candidate
              kept == Range(dposContext.validators) \cap dposContext'.candidate
          IN  \A v \in gone :
                /\ v \in Range(dposContext.validators)
                /\ 2 * maxValidatorSize * blockInterval * (cnt[v] + 1) <= epochInterval
                /\ \A u \in kept : cnt[u] >= cnt[v]]_vars


----------------------------------------------------------------------------
\* What the source says of itself and the code does not do.

\* "delete old candidate if exists" (Delegate): a delegator's balance counts
\* for one candidate.
DelegatorCountedOnce ==
  \A p, q \in ctx.delegate : p[2] = q[2] => p = q

\* "if prevEpoch is not genesis, kickout not active candidate" (tryElect): who
\* is judged by the counts of an epoch was a validator in it.
OnlyServingValidatorsKicked ==
  [][tryElectRound =>
       dposContext.candidate \ dposContext'.candidate
         \subseteq Range(ctx.validators)]_vars
=============================================================================
