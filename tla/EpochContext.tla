---------------------------- MODULE EpochContext ----------------------------
(***************************************************************************)
(* The DPoS part of a block's state (core/types/dpos_context.go), and what *)
(* is computed from it: epoch changes and elections                        *)
(* (consensus/dpos/epoch_context.go), the slot arithmetic and the mint     *)
(* counters of consensus/dpos/dpos.go.                                     *)
(***************************************************************************)
EXTENDS Integers, Sequences, FiniteSets, Functions

----------------------------------------------------------------------------
(* DposContext: five prefix tries whose roots a header commits to, as a    *)
(* record                                                                  *)
(*   candidate   the keys of the candidate trie;                           *)
(*   delegate    the pairs <<candidate, delegator>> of the delegate trie;  *)
(*   vote        the vote trie, delegator -> candidate, NoAddress when the *)
(*               trie has no entry;                                        *)
(*   validators  the list stored in the epoch trie under "validator";      *)
(*   mintCnt     the mint-count trie, epoch -> validator -> count, 0 when  *)
(*               the trie has no entry (a stored count is at least 1).     *)
(* The operations are functions from contexts to contexts: a trie is       *)
(* copy-on-write, so an iterator opened before a deletion still yields the *)
(* old content.  An operation that returns an error before its first write *)
(* is the identity, its error being dropped by applyDposMessage.           *)

CONSTANTS
  Address,      \* the accounts
  Epoch         \* the epochs for which mint counts are kept

NoAddress == 0

\* An account is represented by its place in the order of Address.String(),
\* the order that breaks ties between candidates.  0 is the zero address.
ASSUME AddressAssumption ==
  /\ Address \subseteq Nat \ {NoAddress}
  /\ IsFiniteSet(Address)

ASSUME EpochAssumption == Epoch \subseteq Nat

DposContexts ==
  [candidate  : SUBSET Address,
   delegate   : SUBSET (Address \X Address),
   vote       : [Address -> Address \cup {NoAddress}],
   validators : Seq(Address),
   mintCnt    : [Epoch -> [Address -> Nat]]]

----------------------------------------------------------------------------
\* NewDposContext: five empty tries.
NewDposContext ==
  [candidate  |-> {},
   delegate   |-> {},
   vote       |-> [d \in Address |-> NoAddress],
   validators |-> <<>>,
   mintCnt    |-> [e \in Epoch |-> [v \in Address |-> 0]]]

\* The delegators under a candidate's prefix of the delegate trie.
DelegatorsOf(c, cand) == {d \in Address : <<cand, d>> \in c.delegate}

BecomeCandidate(c, cand) == [c EXCEPT !.candidate = @ \cup {cand}]

\* Faulty variant: the delegate entries of a removed candidate are left.
KickoutKeepsDelegates(c, cands) ==
  [c EXCEPT
     !.candidate = @ \ cands,
     !.vote      = [d \in Address |->
                      IF c.vote[d] \in cands /\ <<c.vote[d], d>> \in c.delegate
                      THEN NoAddress ELSE c.vote[d]]]

\* KickoutCandidate for every member of a set.  The deletions for one
\* candidate do not touch the entries of another, so the order is immaterial.
\* A vote is deleted only when the delegate trie leads to it.
KickoutCandidates(c, cands) ==
  [c EXCEPT
     !.candidate = @ \ cands,
     !.delegate  = {p \in @ : p[1] \notin cands},
     !.vote      = [d \in Address |->
                      IF c.vote[d] \in cands /\ <<c.vote[d], d>> \in c.delegate
                      THEN NoAddress ELSE c.vote[d]]]

KickoutCandidate(c, cand) == KickoutCandidates(c, {cand})

\* Faulty variant: the old candidate's delegate entry is not deleted.
DelegateKeepsOld(c, delegator, cand) ==
  IF cand \notin c.candidate THEN c
  ELSE [c EXCEPT
          !.delegate = @ \cup {<<cand, delegator>>},
          !.vote     = [@ EXCEPT ![delegator] = cand]]

\* Delegate: refused unless the target is a candidate; the delegate entry
\* that the vote trie points to is replaced.
Delegate(c, delegator, cand) ==
  IF cand \notin c.candidate THEN c
  ELSE [c EXCEPT
          !.delegate = (@ \ {<<c.vote[delegator], delegator>>})
                         \cup {<<cand, delegator>>},
          !.vote     = [@ EXCEPT ![delegator] = cand]]

\* UnDelegate: refused unless the target is a candidate and is the recorded vote.
UnDelegate(c, delegator, cand) ==
  IF cand \notin c.candidate \/ c.vote[delegator] # cand THEN c
  ELSE [c EXCEPT
          !.delegate = @ \ {<<cand, delegator>>},
          !.vote     = [@ EXCEPT ![delegator] = NoAddress]]

GetValidators(c) == c.validators

SetValidators(c, vs) == [c EXCEPT !.validators = vs]

\* initGenesisDposContext: the configured validators become candidates, each
\* with a delegate entry for itself.  No vote entry is written.
initGenesisDposContext(vs) ==
  [NewDposContext EXCEPT
     !.validators = vs,
     !.delegate   = {<<v, v>> : v \in {vs[i] : i \in DOMAIN vs}},
     !.candidate  = {vs[i] : i \in DOMAIN vs}]

----------------------------------------------------------------------------
(* Epochs and elections.                                                   *)
(* What a sort followed by a cut computes is written as a set: an element  *)
(* survives the cut when fewer than the limit sort before it.  The order   *)
(* of the elected list is left open (Shuffles), since the shuffle is drawn *)
(* from a generator seeded with the parent's hash.                         *)

CONSTANTS
  blockInterval,      \* seconds between slots (10)
  epochInterval,      \* seconds in an epoch (86400)
  maxValidatorSize    \* validators per epoch (3)

ASSUME IntervalAssumption ==
  /\ blockInterval \in Nat \ {0}
  /\ epochInterval \in Nat \ {0}
  /\ maxValidatorSize \in Nat \ {0}

safeSize == (maxValidatorSize * 2) \div 3 + 1

EpochOf(time) == time \div epochInterval

----------------------------------------------------------------------------
\* sortableAddresses.Less: heavier first, then by address.
Less(weight, a, b) ==
  \/ weight[a] > weight[b]
  \/ weight[a] = weight[b] /\ a < b

\* The first n elements of S in the order of Less, and in the reverse order.
FirstBy(weight, S, n) ==
  {a \in S : Cardinality({b \in S : Less(weight, b, a)}) < n}

LastBy(weight, S, n) ==
  {a \in S : Cardinality({b \in S : Less(weight, a, b)}) < n}

\* countVotes: the balance of every delegator of a candidate counts for it.
countVotes(c, balance) ==
  [cand \in c.candidate |-> SumFunctionOnSet(balance, DelegatorsOf(c, cand))]

\* The validators of an epoch that minted too little of it.
epochDuration(time, firstTime) ==
  IF time - firstTime < epochInterval THEN time - firstTime ELSE epochInterval

MintTarget(time, firstTime) ==
  ((epochDuration(time, firstTime) \div blockInterval) \div maxValidatorSize) \div 2

NeedKickout(c, epoch, time, firstTime) ==
  {v \in Range(GetValidators(c)) :
     c.mintCnt[epoch][v] < MintTarget(time, firstTime)}

\* Faulty variant: one kickout too many.
KickedOutOneMore(c, epoch, time, firstTime) ==
  LastBy(c.mintCnt[epoch], NeedKickout(c, epoch, time, firstTime),
         Cardinality(c.candidate) - safeSize + 1)

\* kickoutValidator: the least active go first, and only as long as the count
\* of candidates, lowered by one for each, stays above safeSize.
KickedOut(c, epoch, time, firstTime) ==
  LastBy(c.mintCnt[epoch], NeedKickout(c, epoch, time, firstTime),
         Cardinality(c.candidate) - safeSize)

kickoutValidator(c, epoch, time, firstTime) ==
  KickoutCandidates(c, KickedOut(c, epoch, time, firstTime))

\* The orders a shuffle may leave a set in.
Shuffles(S) == {s \in [1..Cardinality(S) -> S] : IsInjective(s)}

\* The body of tryElect's loop after the kickout: the elected are the first
\* maxValidatorSize candidates by votes.  Fewer than safeSize is an error.
ElectionFails(c) == Cardinality(c.candidate) < safeSize

\* Faulty variant: the sort order is reversed.
ElectedByFewest(c, balance) ==
  LastBy(countVotes(c, balance), c.candidate, maxValidatorSize)

Elected(c, balance) ==
  FirstBy(countVotes(c, balance), c.candidate, maxValidatorSize)

\* The validators that have a mint count in an epoch: the entries under the
\* epoch's prefix, which tryElect's iterator yields one per round.
Minters(c, epoch) == {v \in Address : c.mintCnt[epoch][v] > 0}

----------------------------------------------------------------------------
\* lookupValidator: NoAddress stands for its errors.
lookupValidator(c, time) ==
  LET offset == time % epochInterval
      vs     == GetValidators(c)
  IN  IF offset % blockInterval # 0 \/ Len(vs) = 0 THEN NoAddress
      ELSE vs[((offset \div blockInterval) % Len(vs)) + 1]

\* Faulty variant: the count goes on from the parent's epoch.
updateMintCntCarried(c, parentTime, time, validator) ==
  LET old == c.mintCnt[EpochOf(parentTime)][validator]
  IN  [c EXCEPT !.mintCnt[EpochOf(time)][validator] = old + 1]

\* updateMintCnt: one more for the validator in the block's epoch; a block
\* that opens an epoch starts from 1 without reading the trie.
updateMintCnt(c, parentTime, time, validator) ==
  LET old == IF EpochOf(parentTime) = EpochOf(time)
             THEN c.mintCnt[EpochOf(time)][validator] ELSE 0
  IN  [c EXCEPT !.mintCnt[EpochOf(time)][validator] = old + 1]

PrevSlot(now) == ((now - 1) \div blockInterval) * blockInterval

NextSlot(now) == ((now + blockInterval - 1) \div blockInterval) * blockInterval

=============================================================================
