-------------------------- MODULE DposChain_proofs --------------------------
(***************************************************************************)
(* Proofs about DposChain, for any accounts, intervals, genesis and        *)
(* transactions.                                                           *)
(***************************************************************************)
EXTENDS DposChain, FiniteSetTheorems, FunctionTheorems, WellFoundedInduction, TLAPS

----------------------------------------------------------------------------
(* What the operations on a context preserve.                              *)

\* Votes and delegate entries agree, and the entries are for candidates.
Agrees(c) ==
  /\ VotesMatchDelegates(c)
  /\ \A p \in c.delegate : p[1] \in c.candidate

\* Kicking out candidates takes their votes and delegate entries with them.
LEMMA KickoutContext ==
  ASSUME NEW c \in DposContexts, NEW S \in SUBSET Address
  PROVE  /\ KickoutCandidates(c, S) \in DposContexts
         /\ Agrees(c) => Agrees(KickoutCandidates(c, S))
  <1>1. KickoutCandidates(c, S) \in DposContexts
    BY DEF KickoutCandidates, DposContexts
  <1>2. Agrees(c) => Agrees(KickoutCandidates(c, S))
    BY AddressAssumption
       DEF KickoutCandidates, Agrees, VotesMatchDelegates, DposContexts, NoAddress
  <1>3. QED
    BY <1>1, <1>2

\* The operations of the four DPoS transactions return contexts and keep the
\* agreement.
LEMMA VotingContext ==
  ASSUME NEW c \in DposContexts, NEW a \in Address, NEW b \in Address,
         NEW d \in {BecomeCandidate(c, a), KickoutCandidate(c, a),
                    Delegate(c, a, b), UnDelegate(c, a, b)}
  PROVE  d \in DposContexts /\ (Agrees(c) => Agrees(d))
  <1>1. CASE d = BecomeCandidate(c, a)
    BY <1>1 DEF BecomeCandidate, DposContexts, Agrees, VotesMatchDelegates
  <1>2. CASE d = KickoutCandidate(c, a)
    BY <1>2, KickoutContext DEF KickoutCandidate
  <1>3. CASE d = Delegate(c, a, b)
    <2>1. (c.delegate \ {<<c.vote[a], a>>}) \cup {<<b, a>>}
            \in SUBSET (Address \X Address)
      BY DEF DposContexts
    <2>2. [c.vote EXCEPT ![a] = b] \in [Address -> Address \cup {NoAddress}]
      BY DEF DposContexts
    <2>3. Delegate(c, a, b) \in DposContexts
      BY <2>1, <2>2 DEF Delegate, DposContexts
    <2>4. Agrees(c) => Agrees(Delegate(c, a, b))
      BY AddressAssumption
         DEF Delegate, Agrees, VotesMatchDelegates, DposContexts, NoAddress
    <2>5. QED
      BY <1>3, <2>3, <2>4
  <1>4. CASE d = UnDelegate(c, a, b)
    <2>1. UnDelegate(c, a, b) \in DposContexts
      BY DEF UnDelegate, DposContexts
    <2>2. Agrees(c) => Agrees(UnDelegate(c, a, b))
      BY AddressAssumption
         DEF UnDelegate, Agrees, VotesMatchDelegates, DposContexts, NoAddress
    <2>3. QED
      BY <1>4, <2>1, <2>2
  <1>5. QED
    BY <1>1, <1>2, <1>3, <1>4

\* Storing a list of validators touches nothing else.
LEMMA ValidatorsContext ==
  ASSUME NEW c \in DposContexts, NEW vs \in Seq(Address)
  PROVE  /\ SetValidators(c, vs) \in DposContexts
         /\ Agrees(c) => Agrees(SetValidators(c, vs))
  BY DEF SetValidators, DposContexts, Agrees, VotesMatchDelegates

----------------------------------------------------------------------------
(* Facts about elections, slots and counters.                              *)

\* Whatever the order and the limit, a cut selects from the set it is given.
LEMMA CutSelects ==
  ASSUME NEW w, NEW S, NEW n
  PROVE  FirstBy(w, S, n) \subseteq S /\ LastBy(w, S, n) \subseteq S
  BY DEF FirstBy, LastBy

\* The genesis context is a context on which votes and delegates agree.
LEMMA GenesisContext ==
  /\ initGenesisDposContext(GenesisValidators) \in DposContexts
  /\ Agrees(initGenesisDposContext(GenesisValidators))
  <1> DEFINE G == {GenesisValidators[i] : i \in DOMAIN GenesisValidators}
  <1>1. G \subseteq Address /\ G = Range(GenesisValidators)
    BY ChainAssumption DEF Range
  <1>2. {<<v, v>> : v \in G} \in SUBSET (Address \X Address)
    BY <1>1
  <1>3. initGenesisDposContext(GenesisValidators) \in DposContexts
    BY <1>1, <1>2, ChainAssumption
       DEF initGenesisDposContext, NewDposContext, DposContexts
  <1>4. Agrees(initGenesisDposContext(GenesisValidators))
    BY <1>1 DEF initGenesisDposContext, NewDposContext, Agrees, VotesMatchDelegates
  <1>5. QED
    BY <1>3, <1>4

\* A kickout removes accounts.
LEMMA KickedOutAreAccounts ==
  ASSUME NEW c \in DposContexts, NEW e, NEW t, NEW f
  PROVE  KickedOut(c, e, t, f) \subseteq Address
  <1>1. Range(GetValidators(c)) \subseteq Address
    BY DEF Range, GetValidators, DposContexts
  <1>2. NeedKickout(c, e, t, f) \subseteq Address
    BY <1>1 DEF NeedKickout
  <1>3. QED
    BY <1>2, CutSelects DEF KickedOut

\* A shuffle of some candidates is a list of accounts.
LEMMA ShuffleIsList ==
  ASSUME NEW S \in SUBSET Address, NEW vs \in Shuffles(S)
  PROVE  vs \in Seq(Address)
  <1>1. IsFiniteSet(S) /\ Cardinality(S) \in Nat
    BY AddressAssumption, FS_Subset, FS_CardinalityType
  <1>2. vs \in [1..Cardinality(S) -> Address]
    BY DEF Shuffles
  <1>3. QED
    BY <1>1, <1>2

\* A remainder is below its divisor.
LEMMA ModRange ==
  ASSUME NEW x \in Int, NEW n \in Nat \ {0}
  PROVE  x % n \in 0..(n - 1)
  BY SMT

\* The validator on duty is one of the validators.
LEMMA OnDutyIsAccount ==
  ASSUME NEW c \in DposContexts, NEW t \in Nat
  PROVE  lookupValidator(c, t) \in Address \cup {NoAddress}
  <1> DEFINE offset == t % epochInterval
             vs == c.validators
  <1>1. vs \in Seq(Address)
    BY DEF DposContexts
  <1>2. CASE offset % blockInterval # 0 \/ Len(vs) = 0
    BY <1>2 DEF lookupValidator, GetValidators
  <1>3. CASE ~(offset % blockInterval # 0 \/ Len(vs) = 0)
    <2>1. Len(vs) \in Nat \ {0}
      BY <1>1, <1>3
    <2>2. offset \in Nat
      BY IntervalAssumption
    <2>3. offset \div blockInterval \in Int
      BY <2>2, IntervalAssumption
    <2>4. (offset \div blockInterval) % Len(vs) \in 0..(Len(vs) - 1)
      BY <2>1, <2>3, ModRange
    <2> DEFINE k == (offset \div blockInterval) % Len(vs)
    <2> HIDE DEF k
    <2>5. k \in 0..(Len(vs) - 1)
      BY <2>4 DEF k
    <2>6. vs[k + 1] \in Address
      BY <1>1, <2>5
    <2>7. QED
      BY <1>3, <2>6 DEF lookupValidator, GetValidators, k
  <1>4. QED
    BY <1>2, <1>3

\* Counting a block gives a context that differs in the mint counts only.
LEMMA MintCntUpdate ==
  ASSUME NEW c \in DposContexts, NEW s \in 0..MaxTime, NEW t \in 0..MaxTime,
         NEW v \in Address
  PROVE  /\ updateMintCnt(c, s, t, v) \in DposContexts
         /\ Agrees(c) => Agrees(updateMintCnt(c, s, t, v))
  <1> DEFINE e == EpochOf(t)
             old == IF EpochOf(s) = e THEN c.mintCnt[e][v] ELSE 0
             cnt == [c.mintCnt EXCEPT ![e] = [c.mintCnt[e] EXCEPT ![v] = old + 1]]
  <1>1. e \in Epoch
    BY ChainAssumption
  <1>2. old \in Nat
    BY <1>1 DEF DposContexts
  <1>3. cnt \in [Epoch -> [Address -> Nat]]
    BY <1>1, <1>2 DEF DposContexts
  <1>4. updateMintCnt(c, s, t, v) = [c EXCEPT !.mintCnt = cnt]
    BY DEF updateMintCnt
  <1> HIDE DEF cnt
  <1>5. QED
    BY <1>3, <1>4 DEF DposContexts, Agrees, VotesMatchDelegates

----------------------------------------------------------------------------
(* The inductive invariant.                                                *)

IInv == TypeOK /\ Agrees(ctx) /\ Agrees(dposContext)

\* What the steps of tryElect need to know of the times.
LEMMA EpochTypes ==
  ASSUME TypeOK
  PROVE  /\ Parent.time \in 0..MaxTime
         /\ EpochOf(Parent.time) \in Epoch
         /\ currentEpoch \in Epoch
         /\ prevEpoch \in Nat
  <1>1. chain \in Seq(Headers) /\ chain # <<>> /\ header \in Headers
    BY DEF TypeOK
  <1>2. Parent \in Headers
    BY <1>1 DEF Parent
  <1>3. Parent.time \in 0..MaxTime /\ header.time \in 0..MaxTime
    BY <1>1, <1>2 DEF Headers
  <1>4. EpochOf(Parent.time) \in Epoch /\ currentEpoch \in Epoch
    BY <1>3, ChainAssumption DEF currentEpoch
  <1>5. prevEpoch \in Nat
    <2> DEFINE p == EpochOf(Parent.time)
    <2>1. p \in Nat /\ currentEpoch \in Nat
      BY <1>4, EpochAssumption
    <2>2. prevEpoch = p \/ (p < currentEpoch /\ prevEpoch = currentEpoch - 1)
      BY DEF prevEpoch, prevEpochIsGenesis
    <2> HIDE DEF p
    <2>3. QED
      BY <2>1, <2>2
  <1>6. QED
    BY <1>3, <1>4, <1>5

\* A round's kickout leaves a context on which votes and delegates agree.
LEMMA AfterKickoutContext ==
  ASSUME IInv
  PROVE  AfterKickout \in DposContexts /\ Agrees(AfterKickout)
  <1>1. dposContext \in DposContexts /\ Agrees(dposContext)
    BY DEF IInv, TypeOK
  <1> DEFINE K == kickoutValidator(dposContext, prevEpoch, header.time, timeOfFirstBlock)
  <1>2. K \in DposContexts /\ Agrees(K)
    BY <1>1, KickedOutAreAccounts, KickoutContext DEF kickoutValidator
  <1> HIDE DEF K
  <1>3. AfterKickout = K \/ AfterKickout = dposContext
    BY DEF AfterKickout, K
  <1>4. QED
    BY <1>1, <1>2, <1>3

\* The genesis state satisfies the inductive invariant.
LEMMA InitIInv == Init => IInv
  <1> SUFFICES ASSUME Init PROVE IInv
    OBVIOUS
  <1>1. ctx \in DposContexts /\ Agrees(ctx) /\ dposContext = ctx
    BY GenesisContext DEF Init
  <1>2. GenesisTime \in 0..MaxTime /\ 0 \in 0..MaxTime /\ 0 \in 0..MaxTxs
    BY ChainAssumption
  <1>3. TypeOK
    BY <1>1, <1>2, ChainAssumption DEF Init, TypeOK, Headers
  <1>4. QED
    BY <1>1, <1>3 DEF IInv

\* Steps that end with no work in progress.
LEMMA NoWorkIInv ==
  ASSUME NoWork, applied' = applied, applied \in 0..MaxTxs,
         chain' \in Seq(Headers),
         chain' # <<>>, ctx' \in DposContexts, Agrees(ctx'),
         balance' \in [Address -> Nat], timeOfFirstBlock' \in 0..MaxTime
  PROVE  IInv'
  <1>2. header' \in Headers
    BY DEF NoWork
  <1>3. TypeOK'
    BY <1>2 DEF NoWork, TypeOK
  <1>4. Agrees(dposContext')
    BY DEF NoWork
  <1>5. QED
    BY <1>3, <1>4 DEF IInv, Agrees, VotesMatchDelegates

\* Opening a block on the head preserves the inductive invariant.
LEMMA CreateNewWorkIInv ==
  ASSUME IInv, NEW time \in 0..MaxTime, createNewWork(time)
  PROVE  IInv'
  <1>1. lookupValidator(ctx, time) \in Address
    BY OnDutyIsAccount, ChainAssumption DEF createNewWork, IInv, TypeOK
  <1>2. TypeOK'
    BY <1>1 DEF createNewWork, headVars, IInv, TypeOK, Headers
  <1>3. Agrees(ctx)' /\ Agrees(dposContext)'
    BY DEF createNewWork, headVars, IInv, Agrees, VotesMatchDelegates
  <1>4. QED
    BY <1>2, <1>3 DEF IInv

\* A transaction, applied or rolled back, preserves the inductive invariant.
LEMMA CommitTransactionIInv ==
  ASSUME IInv, NEW tx \in Transactions, commitTransaction(tx)
  PROVE  IInv'
  <1>1. /\ tx \in Tx
        /\ dposContext \in DposContexts
        /\ Agrees(dposContext)
        /\ state \in [Address -> Nat]
        /\ applied' \in 0..MaxTxs
    BY ChainAssumption DEF IInv, TypeOK, commitTransaction
  <1>2. CASE ApplyFails(tx, state)
    BY <1>1, <1>2
       DEF commitTransaction, headVars, IInv, TypeOK, Agrees, VotesMatchDelegates
  <1>3. CASE ~ApplyFails(tx, state)
    <2>1. tx.from \in Address /\ tx.to \in Address \cup {NoAddress}
      BY <1>1 DEF Tx
    <2>2. tx.type # "Binary" => tx.to \in Address
      BY <1>3, <2>1 DEF ApplyFails
    <2>3. state' \in [Address -> Nat]
      <3>1. CASE tx.type # "Binary"
        BY <1>1, <1>3, <3>1 DEF commitTransaction, Transfer
      <3>2. CASE tx.type = "Binary"
        <4> DEFINE paid == [state EXCEPT ![tx.from] = state[tx.from] - 1]
        <4>1. state[tx.from] - 1 \in Nat
          BY <1>1, <1>3, <2>1, <3>2 DEF ApplyFails
        <4>2. paid \in [Address -> Nat]
          BY <1>1, <2>1, <4>1
        <4> HIDE DEF paid
        <4>3. state' = IF tx.to = NoAddress THEN paid
                       ELSE [paid EXCEPT ![tx.to] = paid[tx.to] + 1]
          BY <1>3, <3>2 DEF commitTransaction, Transfer, paid
        <4>4. QED
          BY <2>1, <4>2, <4>3
      <3>3. QED
        BY <3>1, <3>2
    <2>4. dposContext' \in DposContexts /\ Agrees(dposContext')
      <3>1. dposContext' = applyDposMessage(dposContext, tx)
        BY <1>3 DEF commitTransaction
      <3>2. \/ dposContext' = dposContext
            \/ tx.to \in Address
               /\ dposContext' \in {BecomeCandidate(dposContext, tx.from),
                                    KickoutCandidate(dposContext, tx.from),
                                    Delegate(dposContext, tx.from, tx.to),
                                    UnDelegate(dposContext, tx.from, tx.to)}
        BY <1>1, <2>2, <3>1 DEF applyDposMessage, Tx, TxTypes
      <3>3. QED
        BY <1>1, <2>1, <3>2, VotingContext
    <2>5. TypeOK'
      BY <1>1, <2>3, <2>4 DEF commitTransaction, headVars, IInv, TypeOK
    <2>6. Agrees(ctx)'
      BY DEF commitTransaction, headVars, IInv, Agrees, VotesMatchDelegates
    <2>7. Agrees(dposContext)'
      BY <2>4 DEF Agrees, VotesMatchDelegates
    <2>8. QED
      BY <2>5, <2>6, <2>7 DEF IInv
  <1>4. QED
    BY <1>2, <1>3

\* Paying the reward and entering the election preserves the invariant.
LEMMA FinalizeIInv ==
  ASSUME IInv, Finalize
  PROVE  IInv'
  <1>1. prevEpoch \in Nat
    BY EpochTypes DEF IInv
  <1>2. state' \in [Address -> Nat]
    BY ChainAssumption DEF Finalize, IInv, TypeOK
  <1>3. timeOfFirstBlock' \in 0..MaxTime
    <2>1. chain \in Seq(Headers)
      BY DEF IInv, TypeOK
    <2>2. Len(chain) > 1 => chain[2] \in Headers
      BY <2>1
    <2>3. Len(chain) > 1 => chain[2].time \in 0..MaxTime
      BY <2>2 DEF Headers
    <2>4. QED
      BY <2>3 DEF Finalize, IInv, TypeOK
  <1>4. TypeOK'
    BY <1>1, <1>2, <1>3 DEF Finalize, headVars, IInv, TypeOK
  <1>5. Agrees(ctx)' /\ Agrees(dposContext)'
    BY DEF Finalize, headVars, IInv, Agrees, VotesMatchDelegates
  <1>6. QED
    BY <1>4, <1>5 DEF IInv

\* A round of tryElect preserves the inductive invariant.
LEMMA TryElectRoundIInv ==
  ASSUME IInv, tryElectRound
  PROVE  IInv'
  <1>1. AfterKickout \in DposContexts /\ Agrees(AfterKickout)
    BY AfterKickoutContext
  <1>2. PICK vs \in Shuffles(Elected(AfterKickout, state)) :
          dposContext' = SetValidators(AfterKickout, vs)
    BY DEF tryElectRound
  <1>3. Elected(AfterKickout, state) \in SUBSET Address
    BY <1>1, CutSelects DEF Elected, DposContexts
  <1>4. dposContext' \in DposContexts /\ Agrees(dposContext')
    BY <1>1, <1>2, <1>3, ShuffleIsList, ValidatorsContext
  <1>5. TypeOK'
    BY <1>4 DEF tryElectRound, headVars, IInv, TypeOK
  <1>6. Agrees(ctx)'
    BY DEF tryElectRound, headVars, IInv, Agrees, VotesMatchDelegates
  <1>7. Agrees(dposContext)'
    BY <1>4 DEF Agrees, VotesMatchDelegates
  <1>8. QED
    BY <1>5, <1>6, <1>7 DEF IInv

\* Making the finished block the head preserves the inductive invariant.
LEMMA SealBlockIInv ==
  ASSUME IInv, sealBlock
  PROVE  IInv'
  <1>1. /\ dposContext \in DposContexts
        /\ Agrees(dposContext)
        /\ header.time \in 0..MaxTime
        /\ header.validator \in Address
        /\ Parent.time \in 0..MaxTime
    BY EpochTypes DEF IInv, TypeOK, sealBlock, Headers
  <1>2. ctx' \in DposContexts /\ Agrees(ctx')
    BY <1>1, MintCntUpdate DEF sealBlock
  <1>3. chain' \in Seq(Headers) /\ chain' # <<>>
    BY DEF sealBlock, IInv, TypeOK
  <1>4. QED
    BY <1>2, <1>3, NoWorkIInv DEF sealBlock, IInv, TypeOK

\* Every step keeps the inductive invariant.
LEMMA NextIInv == IInv /\ [Next]_vars => IInv'
  <1> SUFFICES ASSUME IInv, [Next]_vars PROVE IInv'
    OBVIOUS
  <1>1. ASSUME NEW time \in 0..MaxTime, createNewWork(time) PROVE IInv'
    BY <1>1, CreateNewWorkIInv
  <1>2. ASSUME NEW tx \in Transactions, commitTransaction(tx) PROVE IInv'
    BY <1>2, CommitTransactionIInv
  <1>3. CASE Finalize
    BY <1>3, FinalizeIInv
  <1>4. CASE tryElectRound
    BY <1>4, TryElectRoundIInv
  <1>5. CASE tryElectFails
    <2>1. Agrees(ctx')
      BY <1>5 DEF tryElectFails, headVars, IInv
    <2>2. QED
      BY <1>5, <2>1, NoWorkIInv DEF tryElectFails, headVars, IInv, TypeOK
  <1>6. CASE sealBlock
    BY <1>6, SealBlockIInv
  <1>7. CASE restart
    <2>1. Agrees(ctx')
      BY <1>7 DEF restart, headVars, IInv
    <2>2. 0 \in 0..MaxTime
      BY ChainAssumption
    <2>3. QED
      BY <1>7, <2>1, <2>2, NoWorkIInv DEF restart, headVars, IInv, TypeOK
  <1>8. CASE UNCHANGED vars
    BY <1>8 DEF vars, IInv, TypeOK, Agrees, VotesMatchDelegates
  <1>9. QED
    BY <1>1, <1>2, <1>3, <1>4, <1>5, <1>6, <1>7, <1>8 DEF Next

----------------------------------------------------------------------------
\* The inductive invariant holds in every reachable state.
LEMMA Invariance == Spec => []IInv
  BY InitIInv, NextIInv, PTL DEF Spec

\* Every reachable state has its type: no step, error path or restart takes a
\* context, a header or a counter out of its range.
THEOREM TypeCorrect == Spec => []TypeOK
  <1>1. IInv => TypeOK
    BY DEF IInv
  <1>2. QED
    BY <1>1, Invariance, PTL

\* The vote and delegate tries agree in every block and in the work in progress,
\* but for the self-votes of genesis validators.
THEOREM VotesAgree == Spec => []VoteAgreement
  <1>1. IInv => VoteAgreement
    BY DEF IInv, Agrees, VoteAgreement
  <1>2. QED
    BY <1>1, Invariance, PTL

\* No delegate entry is left for an account that is not a candidate.
THEOREM NoStaleDelegates == Spec => []DelegatesAreCandidates
  <1>1. IInv => DelegatesAreCandidates
    BY DEF IInv, Agrees, DelegatesAreCandidates
  <1>2. QED
    BY <1>1, Invariance, PTL

----------------------------------------------------------------------------
(* Elections, kickouts and mint counts: sums.                              *)

\* A set of naturals that is not empty has a least element.
LEMMA LeastNat ==
  ASSUME NEW S \in SUBSET Nat, S # {}
  PROVE  \E m \in S : \A x \in S : m <= x
  <1>1. PICK m \in S : \A x \in S : <<x, m>> \notin OpToRel(<, Nat)
    BY NatLessThanWellFounded, WFMin, Zenon
  <1>2. \A x \in S : ~(x < m)
    BY <1>1, Zenon DEF OpToRel
  <1>3. QED
    BY <1>2

\* The member of a set that a fold takes next, and one unfolding of the sum of
\* f: what g sums for s when it is right for smaller sets.
Taken(s) == CHOOSE x \in s : TRUE

Unfolded(f, g, s) == IF s = {} THEN 0 ELSE f[Taken(s)] + g[s \ {Taken(s)}]

\* Taking a member leaves a smaller set.
LEMMA TakenSmaller ==
  ASSUME NEW s, IsFiniteSet(s), s # {}
  PROVE  /\ Taken(s) \in s
         /\ IsFiniteSet(s \ {Taken(s)})
         /\ Cardinality(s) \in Nat
         /\ Cardinality(s \ {Taken(s)}) \in Nat
         /\ Cardinality(s \ {Taken(s)}) = Cardinality(s) - 1
  <1>1. Taken(s) \in s
    BY DEF Taken
  <1>2. QED
    BY <1>1, FS_RemoveElement, FS_CardinalityType

\* There is a function that unfolds for the sets of up to n members.
SumsUpTo(f, S, n) ==
  \E g \in [SUBSET S -> Nat] : \A s \in SUBSET S :
    Cardinality(s) <= n => g[s] = Unfolded(f, g, s)

\* There is one for every n.
LEMMA SumUpTo ==
  ASSUME NEW S, IsFiniteSet(S), NEW f, \A x \in S : f[x] \in Nat, NEW n \in Nat
  PROVE  SumsUpTo(f, S, n)
  <1> DEFINE Fits(g, k) == \A s \in SUBSET S :
                             Cardinality(s) <= k => g[s] = Unfolded(f, g, s)
             Bad == {k \in Nat : ~ \E g \in [SUBSET S -> Nat] : Fits(g, k)}
  <1>1. \A s \in SUBSET S : IsFiniteSet(s) /\ Cardinality(s) \in Nat
    BY FS_Subset, FS_CardinalityType
  <1>2. SUFFICES ASSUME Bad # {} PROVE FALSE
    <2>1. Bad = {} => n \notin Bad
      OBVIOUS
    <2>2. QED
      BY <1>2, <2>1 DEF SumsUpTo
  <1>3. Bad \in SUBSET Nat
    OBVIOUS
  <1>4. PICK m \in Bad : \A k \in Bad : m <= k
    BY <1>2, <1>3, LeastNat
  <1>5. m \in Nat /\ ~ \E g \in [SUBSET S -> Nat] : Fits(g, m)
    BY <1>4
  <1>a. \A k \in Nat : k \notin Bad => \E g \in [SUBSET S -> Nat] : Fits(g, k)
    BY Zenon
  <1> HIDE DEF Bad
  <1>6. CASE m = 0
    <2> DEFINE z == [s \in SUBSET S |-> 0]
    <2>1. z \in [SUBSET S -> Nat]
      OBVIOUS
    <2>2. ASSUME NEW s \in SUBSET S, Cardinality(s) <= 0
          PROVE  z[s] = Unfolded(f, z, s)
      <3>1. s = {}
        BY <1>1, <2>2, FS_EmptySet
      <3>2. QED
        BY <3>1 DEF Unfolded
    <2>3. Fits(z, m)
      BY <2>2, <1>6
    <2>4. QED
      BY <1>5, <2>1, <2>3
  <1>7. CASE m # 0
    <2>1. m - 1 \in Nat /\ m - 1 \notin Bad
      BY <1>4, <1>5, <1>7
    <2>2. PICK g \in [SUBSET S -> Nat] : Fits(g, m - 1)
      BY <1>a, <2>1, Zenon
    <2> DEFINE h == [s \in SUBSET S |-> Unfolded(f, g, s)]
    <2>3. ASSUME NEW s \in SUBSET S, s # {}
          PROVE  /\ Taken(s) \in S
                 /\ s \ {Taken(s)} \in SUBSET S
                 /\ Cardinality(s \ {Taken(s)}) = Cardinality(s) - 1
      BY <1>1, <2>3, TakenSmaller
    <2>4. h \in [SUBSET S -> Nat]
      <3>1. ASSUME NEW s \in SUBSET S PROVE Unfolded(f, g, s) \in Nat
        <4>1. CASE s = {}
          BY <4>1 DEF Unfolded
        <4>2. CASE s # {}
          <5>1. f[Taken(s)] \in Nat /\ g[s \ {Taken(s)}] \in Nat
            BY <2>3, <4>2
          <5>2. Unfolded(f, g, s) = f[Taken(s)] + g[s \ {Taken(s)}]
            BY <4>2 DEF Unfolded
          <5>3. QED
            BY <5>1, <5>2
        <4>3. QED
          BY <4>1, <4>2
      <3>2. QED
        BY <3>1
    <2>5. ASSUME NEW s \in SUBSET S, Cardinality(s) <= m
          PROVE  h[s] = Unfolded(f, h, s)
      <3>1. CASE s = {}
        BY <3>1 DEF Unfolded
      <3>2. CASE s # {}
        <4> DEFINE t == s \ {Taken(s)}
        <4>1. t \in SUBSET S /\ Cardinality(t) <= m - 1
          BY <1>1, <1>5, <2>3, <2>5, <3>2
        <4>2. g[t] = Unfolded(f, g, t)
          BY <2>2, <4>1
        <4>3. h[t] = g[t]
          BY <4>1, <4>2
        <4>4. QED
          BY <3>2, <4>3 DEF Unfolded
      <3>3. QED
        BY <3>1, <3>2
    <2>6. Fits(h, m)
      BY <2>5
    <2>7. QED
      BY <1>5, <2>4, <2>6
  <1>8. QED
    BY <1>6, <1>7

\* SumFunctionOnSet over a finite set is a natural number: the recursive
\* function that defines it exists.
LEMMA SumIsNat ==
  ASSUME NEW A, NEW f \in [A -> Nat], NEW S \in SUBSET A, IsFiniteSet(S)
  PROVE  SumFunctionOnSet(f, S) \in Nat
  <1> DEFINE Sums(g) == g = [s \in SUBSET S |-> Unfolded(f, g, s)]
             it == CHOOSE g : Sums(g)
  <1>1. \A s \in SUBSET S : IsFiniteSet(s) /\ Cardinality(s) \in Nat
    BY FS_Subset, FS_CardinalityType
  <1>2. SumFunctionOnSet(f, S) = it[S]
    BY DEF SumFunctionOnSet, FoldFunctionOnSet, MapThenFoldSet, Unfolded, Taken
  <1>3. \E g : Sums(g)
    <2>1. SumsUpTo(f, S, Cardinality(S))
      BY <1>1, SumUpTo
    <2>2. PICK g \in [SUBSET S -> Nat] : \A s \in SUBSET S :
            Cardinality(s) <= Cardinality(S) => g[s] = Unfolded(f, g, s)
      BY <2>1 DEF SumsUpTo
    <2>3. ASSUME NEW s \in SUBSET S PROVE g[s] = Unfolded(f, g, s)
      BY <2>2, FS_Subset
    <2>4. Sums(g)
      BY <2>2, <2>3
    <2>5. QED
      BY <2>4
  <1>4. Sums(it)
    BY <1>3
  <1> HIDE DEF it
  <1>5. \A s \in SUBSET S : it[s] = Unfolded(f, it, s)
    BY <1>4
  <1> DEFINE Bad == {k \in Nat : \E s \in SUBSET S : Cardinality(s) = k /\ it[s] \notin Nat}
  <1>6. SUFFICES ASSUME Bad # {} PROVE FALSE
    BY <1>1, <1>2
  <1>7. Bad \in SUBSET Nat
    OBVIOUS
  <1>8. PICK m \in Bad : \A k \in Bad : m <= k
    BY <1>6, <1>7, LeastNat
  <1>9. PICK s \in SUBSET S : Cardinality(s) = m /\ it[s] \notin Nat
    BY <1>8
  <1>10. s # {}
    BY <1>5, <1>9 DEF Unfolded
  <1> DEFINE t == s \ {Taken(s)}
  <1>11. /\ Taken(s) \in S /\ t \in SUBSET S
         /\ Cardinality(t) = m - 1 /\ m - 1 \in Nat /\ m \in Nat
    BY <1>1, <1>9, <1>10, TakenSmaller
  <1>12. it[t] \in Nat
    <2>1. m - 1 \notin Bad
      BY <1>8, <1>11
    <2>2. QED
      BY <2>1, <1>11
  <1>13. it[s] = f[Taken(s)] + it[t]
    BY <1>5, <1>10 DEF Unfolded
  <1>14. QED
    BY <1>9, <1>11, <1>12, <1>13

----------------------------------------------------------------------------
(* Cuts.                                                                   *)

\* The members of S that fewer than n others precede in a strict total order R:
\* there are n of them, as far as S has so many, and they precede the rest.
Cut(S, R, n) == {a \in S : Cardinality({b \in S : <<b, a>> \in R}) < n}

\* For a strict total order the cut takes as many as it should.
LEMMA CutCount ==
  ASSUME NEW S, IsFiniteSet(S), NEW R, NEW n \in Int,
         \A a \in S : <<a, a>> \notin R,
         \A a, b \in S : a # b => <<a, b>> \in R \/ <<b, a>> \in R,
         \A a, b, c \in S : <<a, b>> \in R /\ <<b, c>> \in R => <<a, c>> \in R
  PROVE  /\ n <= 0 => Cut(S, R, n) = {}
         /\ n > 0 /\ n <= Cardinality(S) => Cardinality(Cut(S, R, n)) = n
         /\ n >= Cardinality(S) => Cut(S, R, n) = S
         /\ \A a \in Cut(S, R, n), b \in S \ Cut(S, R, n) : <<a, b>> \in R
  <1> DEFINE N == Cardinality(S)
             P(a) == {b \in S : <<b, a>> \in R}
             r == [a \in S |-> Cardinality(P(a))]
             C == Cut(S, R, n)
  <1>1. N \in Nat
    BY FS_CardinalityType
  <1>2. ASSUME NEW a \in S PROVE IsFiniteSet(P(a)) /\ Cardinality(P(a)) \in 0..(N - 1)
    <2>1. P(a) \in SUBSET (S \ {a})
      OBVIOUS
    <2>2. IsFiniteSet(S \ {a}) /\ Cardinality(S \ {a}) = N - 1
      BY FS_RemoveElement
    <2> HIDE DEF N, P
    <2>3. IsFiniteSet(P(a)) /\ Cardinality(P(a)) <= N - 1
      <3>1. IsFiniteSet(P(a)) /\ Cardinality(P(a)) <= Cardinality(S \ {a})
        BY <2>1, <2>2, FS_Subset, Zenon
      <3>2. QED
        BY <2>2, <3>1
    <2>4. Cardinality(P(a)) \in Nat
      BY <2>3, FS_CardinalityType
    <2>5. QED
      BY <1>1, <2>3, <2>4
  <1>3. ASSUME NEW a \in S, NEW b \in S, <<a, b>> \in R PROVE r[a] < r[b]
    <2>1. P(a) \cup {a} \in SUBSET P(b)
      BY <1>3
    <2>2. a \notin P(a)
      OBVIOUS
    <2>3. Cardinality(P(a) \cup {a}) = Cardinality(P(a)) + 1
      BY <1>2, <2>2, FS_AddElement
    <2>4. Cardinality(P(a) \cup {a}) <= Cardinality(P(b))
      BY <1>2, <2>1, FS_Subset
    <2>5. Cardinality(P(a)) \in Int /\ Cardinality(P(b)) \in Int
      BY <1>1, <1>2
    <2> HIDE DEF P
    <2>6. QED
      BY <2>3, <2>4, <2>5
  <1>4. r \in [S -> 0..(N - 1)]
    BY <1>2
  <1>5. \A a, b \in S : r[a] = r[b] => a = b
    <2>1. \A a \in S : r[a] \in Int
      BY <1>4, <1>1
    <2> HIDE DEF r
    <2>2. ASSUME NEW a \in S, NEW b \in S, r[a] = r[b], a # b PROVE FALSE
      <3>1. r[a] < r[b] \/ r[b] < r[a]
        BY <1>3, <2>2, Zenon
      <3>2. QED
        BY <2>1, <2>2, <3>1
    <2>3. QED
      BY <2>2, Zenon
  <1>6. r \in Surjection(S, 0..(N - 1))
    <2>1. r \in Injection(S, 0..(N - 1))
      BY <1>4, <1>5, Fun_IsInj, Zenon
    <2> HIDE DEF r, N
    <2>2. IsFiniteSet(0..(N - 1)) /\ Cardinality(0..(N - 1)) = N
      <3>1. 0 \in Int /\ N - 1 \in Int
        BY <1>1
      <3>2. /\ IsFiniteSet(0..(N - 1))
            /\ Cardinality(0..(N - 1)) = IF 0 > N - 1 THEN 0 ELSE N - 1 - 0 + 1
        BY <3>1, FS_Interval, Zenon
      <3>3. QED
        BY <1>1, <3>2
    <2>3. Cardinality(S) = Cardinality(0..(N - 1))
      BY <2>2 DEF N
    <2>4. QED
      BY <2>1, <2>2, <2>3, FS_Injection, Zenon
  <1> HIDE DEF r, N
  <1>7. \A k \in 0..(N - 1) : \E a \in S : r[a] = k
    BY <1>6 DEF Surjection
  <1>8. C = {a \in S : r[a] < n}
    BY DEF Cut, r
  <1> HIDE DEF C
  <1>9. \A a \in S : r[a] \in 0..(N - 1)
    BY <1>4
  <1>10. n <= 0 => C = {}
    BY <1>1, <1>8, <1>9
  <1>11. n >= N => C = S
    BY <1>1, <1>8, <1>9
  <1>12. ASSUME n > 0, n <= N PROVE Cardinality(C) = n
    <2> DEFINE q == [a \in C |-> r[a]]
    <2>1. q \in [C -> 0..(n - 1)]
      BY <1>1, <1>8, <1>9
    <2>2. \A a, b \in C : q[a] = q[b] => a = b
      BY <1>5, <1>8
    <2>3. ASSUME NEW k \in 0..(n - 1) PROVE \E a \in C : q[a] = k
      <3>1. k \in 0..(N - 1) /\ k < n
        BY <1>1, <1>12
      <3>2. PICK a \in S : r[a] = k
        BY <1>7, <3>1
      <3>3. a \in C
        BY <1>8, <3>1, <3>2
      <3>4. QED
        BY <3>2, <3>3
    <2> HIDE DEF q
    <2>4. q \in Bijection(C, 0..(n - 1))
      BY <2>1, <2>2, <2>3, Fun_IsBij, Zenon
    <2>5. ExistsBijection(C, 0..(n - 1))
      BY <2>4, Fun_ExistsBij, Zenon
    <2>6. IsFiniteSet(C)
      BY <1>8, FS_Subset
    <2>7. Cardinality(0..(n - 1)) = n
      BY <1>12, FS_Interval
    <2>8. QED
      BY <2>5, <2>6, <2>7, FS_Bijection
  <1>13. ASSUME NEW a \in C, NEW b \in S \ C PROVE <<a, b>> \in R
    <2>1. a \in S /\ b \in S /\ r[a] < n /\ ~(r[b] < n)
      BY <1>8, <1>13
    <2>2. r[a] \in Int /\ r[b] \in Int
      BY <1>1, <1>9, <2>1
    <2>3. ~(r[b] < r[a]) /\ a # b
      BY <2>1, <2>2
    <2>4. QED
      BY <1>3, <2>1, <2>3
  <1>14. QED
    BY <1>10, <1>11, <1>12, <1>13 DEF C, N

\* The order of sortableAddresses is a strict total order: no two accounts have
\* the same place.
LEMMA LessOrders ==
  ASSUME NEW S \in SUBSET Address, NEW w, \A a \in S : w[a] \in Int
  PROVE  /\ \A a \in S : ~Less(w, a, a)
         /\ \A a, b \in S : a # b => Less(w, a, b) \/ Less(w, b, a)
         /\ \A a, b, c \in S : Less(w, a, b) /\ Less(w, b, c) => Less(w, a, c)
  <1>1. \A a \in S : a \in Int
    BY AddressAssumption
  <1>2. QED
    BY <1>1 DEF Less

\* A sort and a cut: the first n by weight, and no one left out is heavier.
LEMMA FirstByCut ==
  ASSUME NEW S \in SUBSET Address, NEW w, \A a \in S : w[a] \in Int, NEW n \in Nat \ {0}
  PROVE  LET C == FirstBy(w, S, n)
         IN  /\ n <= Cardinality(S) => Cardinality(C) = n
             /\ n >= Cardinality(S) => C = S
             /\ \A a \in C, b \in S \ C : w[a] >= w[b]
  <1> DEFINE R == {p \in S \X S : Less(w, p[1], p[2])}
  <1>1. IsFiniteSet(S)
    BY AddressAssumption, FS_Subset
  <1>2. FirstBy(w, S, n) = Cut(S, R, n)
    <2>1. \A a \in S : {b \in S : Less(w, b, a)} = {b \in S : <<b, a>> \in R}
      OBVIOUS
    <2>2. QED
      BY <2>1 DEF FirstBy, Cut
  <1>3. /\ \A a \in S : <<a, a>> \notin R
        /\ \A a, b \in S : a # b => <<a, b>> \in R \/ <<b, a>> \in R
        /\ \A a, b, c \in S : <<a, b>> \in R /\ <<b, c>> \in R => <<a, c>> \in R
    BY LessOrders
  <1>4. \A a, b \in S : <<a, b>> \in R => w[a] >= w[b]
    BY DEF Less
  <1> HIDE DEF R
  <1>5. /\ n > 0 /\ n <= Cardinality(S) => Cardinality(Cut(S, R, n)) = n
        /\ n >= Cardinality(S) => Cut(S, R, n) = S
        /\ \A a \in Cut(S, R, n), b \in S \ Cut(S, R, n) : <<a, b>> \in R
    BY <1>1, <1>3, CutCount
  <1>6. Cut(S, R, n) \subseteq S /\ n > 0
    BY DEF Cut
  <1>7. \A a \in Cut(S, R, n), b \in S \ Cut(S, R, n) : w[a] >= w[b]
    BY <1>4, <1>5, <1>6, Zenon
  <1>8. QED
    BY <1>2, <1>5, <1>6, <1>7, Zenon

\* The last n by weight: no more than n, and no one left out is lighter.
LEMMA LastByCut ==
  ASSUME NEW S \in SUBSET Address, NEW w, \A a \in S : w[a] \in Int, NEW n \in Int
  PROVE  LET C == LastBy(w, S, n)
         IN  /\ n <= 0 => C = {}
             /\ n > 0 => Cardinality(C) <= n
             /\ \A a \in C, b \in S \ C : w[b] >= w[a]
  <1> DEFINE R == {p \in S \X S : Less(w, p[2], p[1])}
  <1>1. IsFiniteSet(S) /\ Cardinality(S) \in Nat
    BY AddressAssumption, FS_Subset, FS_CardinalityType
  <1>2. LastBy(w, S, n) = Cut(S, R, n)
    <2>1. \A a \in S : {b \in S : Less(w, a, b)} = {b \in S : <<b, a>> \in R}
      OBVIOUS
    <2>2. QED
      BY <2>1 DEF LastBy, Cut
  <1>3. /\ \A a \in S : <<a, a>> \notin R
        /\ \A a, b \in S : a # b => <<a, b>> \in R \/ <<b, a>> \in R
        /\ \A a, b, c \in S : <<a, b>> \in R /\ <<b, c>> \in R => <<a, c>> \in R
    BY LessOrders
  <1>4. \A a, b \in S : <<a, b>> \in R => w[b] >= w[a]
    BY DEF Less
  <1> HIDE DEF R
  <1>5. /\ n <= 0 => Cut(S, R, n) = {}
        /\ n > 0 /\ n <= Cardinality(S) => Cardinality(Cut(S, R, n)) = n
        /\ n >= Cardinality(S) => Cut(S, R, n) = S
        /\ \A a \in Cut(S, R, n), b \in S \ Cut(S, R, n) : <<a, b>> \in R
    BY <1>1, <1>3, CutCount
  <1>6. Cut(S, R, n) \subseteq S
    BY DEF Cut
  <1>7. n > 0 => Cardinality(Cut(S, R, n)) <= n
    BY <1>1, <1>5
  <1>8. QED
    BY <1>2, <1>4, <1>5, <1>6, <1>7

----------------------------------------------------------------------------
(* Times and contexts.                                                     *)

\* A later time is in no earlier epoch.
LEMMA EpochMonotone ==
  ASSUME NEW s \in Nat, NEW t \in Nat, s <= t
  PROVE  EpochOf(s) \in Nat /\ EpochOf(t) \in Nat /\ EpochOf(s) <= EpochOf(t)
  BY IntervalAssumption DEF EpochOf

\* Neither votes nor kickouts touch the counts and the list of validators.
LEMMA VotesKeepCounts ==
  ASSUME NEW c \in DposContexts
  PROVE  /\ \A a, b \in Address : \A d \in {BecomeCandidate(c, a), KickoutCandidate(c, a),
                                           Delegate(c, a, b), UnDelegate(c, a, b)} :
              d.mintCnt = c.mintCnt /\ d.validators = c.validators
         /\ \A S : KickoutCandidates(c, S).mintCnt = c.mintCnt
         /\ \A vs : SetValidators(c, vs).mintCnt = c.mintCnt
  BY DEF BecomeCandidate, KickoutCandidate, KickoutCandidates, Delegate, UnDelegate,
         SetValidators, DposContexts

\* What a transaction leaves alone.
LEMMA TransactionKeepsCounts ==
  ASSUME IInv, NEW tx \in Transactions, commitTransaction(tx)
  PROVE  /\ dposContext'.mintCnt = dposContext.mintCnt
         /\ dposContext'.validators = dposContext.validators
  <1>1. dposContext \in DposContexts /\ tx \in Tx
    BY ChainAssumption DEF IInv, TypeOK
  <1>2. CASE ApplyFails(tx, state)
    BY <1>2 DEF commitTransaction
  <1>3. CASE ~ApplyFails(tx, state)
    <2>1. tx.from \in Address /\ (tx.type # "Binary" => tx.to \in Address)
      BY <1>1, <1>3 DEF ApplyFails, Tx
    <2>2. dposContext' = applyDposMessage(dposContext, tx)
      BY <1>3 DEF commitTransaction
    <2>3. \/ dposContext' = dposContext
          \/ tx.to \in Address
             /\ dposContext' \in {BecomeCandidate(dposContext, tx.from),
                                  KickoutCandidate(dposContext, tx.from),
                                  Delegate(dposContext, tx.from, tx.to),
                                  UnDelegate(dposContext, tx.from, tx.to)}
      BY <1>1, <2>1, <2>2 DEF applyDposMessage, Tx, TxTypes
    <2>4. QED
      BY <1>1, <2>1, <2>3, VotesKeepCounts
  <1>4. QED
    BY <1>2, <1>3

\* What a round leaves alone.
LEMMA RoundKeepsCounts ==
  ASSUME IInv, tryElectRound
  PROVE  dposContext'.mintCnt = dposContext.mintCnt
  <1>1. dposContext \in DposContexts /\ AfterKickout \in DposContexts
    BY AfterKickoutContext DEF IInv, TypeOK
  <1>2. AfterKickout.mintCnt = dposContext.mintCnt
    BY <1>1, VotesKeepCounts DEF AfterKickout, kickoutValidator
  <1>3. PICK vs : dposContext' = SetValidators(AfterKickout, vs)
    BY DEF tryElectRound
  <1>4. QED
    BY <1>1, <1>2, <1>3, VotesKeepCounts

----------------------------------------------------------------------------
(* The inductive invariant of elections, kickouts and mint counts.         *)

\* Blocks are in the order of time, the one being built comes after its parent.
Times ==
  /\ \A i, j \in 1..Len(chain) : i < j => chain[i].time < chain[j].time
  /\ phase # "idle" => Parent.time < header.time

\* The counts are the tally, and the work starts from them.
Tally == MintCntIsTally /\ dposContext.mintCnt = ctx.mintCnt

\* The cache is empty or right, and filled once there is an election.
Cache ==
  /\ timeOfFirstBlock # 0 => Len(chain) > 1 /\ timeOfFirstBlock = chain[2].time
  /\ phase = "elect" /\ Len(chain) > 1 => timeOfFirstBlock = chain[2].time

\* The loop begins no earlier than the parent's epoch, and the work has other
\* validators than the head only when its epoch is a later one.
Serving ==
  /\ phase = "elect" => EpochOf(Parent.time) <= round
  /\ dposContext.validators # ctx.validators =>
       phase = "elect" /\ EpochOf(Parent.time) < currentEpoch

EInv == IInv /\ Times /\ Tally /\ Cache /\ Serving

\* The blocks of v in epoch e.
Minted(ch, e, v) ==
  {n \in 2..Len(ch) : ch[n].validator = v /\ EpochOf(ch[n].time) = e}

\* What the times are.
LEMMA HeaderTypes ==
  ASSUME TypeOK
  PROVE  /\ Len(chain) \in Nat \ {0}
         /\ \A i \in 1..Len(chain) : chain[i].time \in Nat
         /\ Parent = chain[Len(chain)] /\ Parent.time \in Nat
         /\ header.time \in Nat
         /\ \A t \in Nat : EpochOf(t) \in Nat
  <1>1. chain \in Seq(Headers) /\ chain # <<>> /\ header \in Headers
    BY DEF TypeOK
  <1>2. Len(chain) \in Nat \ {0}
    BY <1>1
  <1>3. \A i \in 1..Len(chain) : chain[i] \in Headers
    BY <1>1
  <1>4. \A h \in Headers : h.time \in Nat
    BY ChainAssumption DEF Headers
  <1>5. \A t \in Nat : EpochOf(t) \in Nat
    BY IntervalAssumption DEF EpochOf
  <1>6. Parent = chain[Len(chain)] /\ Len(chain) \in 1..Len(chain)
    BY <1>2 DEF Parent
  <1>7. QED
    BY <1>1, <1>2, <1>3, <1>4, <1>5, <1>6

\* The genesis chain has no block to count.
LEMMA InitEInv == Init => EInv
  <1> SUFFICES ASSUME Init PROVE EInv
    OBVIOUS
  <1>1. IInv
    BY InitIInv
  <1>2. Len(chain) = 1 /\ phase = "idle" /\ dposContext = ctx /\ timeOfFirstBlock = 0
    BY DEF Init
  <1>3. ctx.mintCnt = [e \in Epoch |-> [v \in Address |-> 0]]
    BY DEF Init, initGenesisDposContext, NewDposContext
  <1>4. \A e, v : Minted(chain, e, v) = {}
    BY <1>2 DEF Minted
  <1>5. MintCntIsTally
    <2>1. \A e \in Epoch, v \in Address : ctx.mintCnt[e][v] = Cardinality(Minted(chain, e, v))
      BY <1>3, <1>4, FS_EmptySet
    <2>2. QED
      BY <2>1 DEF MintCntIsTally, Minted
  <1>6. QED
    BY <1>1, <1>2, <1>5 DEF EInv, Times, Tally, Cache, Serving

\* A step that ends with no work in progress and leaves the head alone.
LEMMA DroppedEInv ==
  ASSUME EInv, IInv', NoWork, UNCHANGED headVars, timeOfFirstBlock' \in {0, timeOfFirstBlock}
  PROVE  EInv'
  <1>1. chain' = chain /\ ctx' = ctx /\ phase' = "idle" /\ dposContext' = ctx'
    BY DEF NoWork, headVars
  <1>2. Times' /\ Serving'
    BY <1>1 DEF EInv, Times, Serving
  <1>3. Tally'
    BY <1>1 DEF EInv, Tally, MintCntIsTally
  <1>4. Cache'
    BY <1>1 DEF EInv, Cache
  <1>5. QED
    BY <1>2, <1>3, <1>4 DEF EInv

\* Opening a block: later than its parent, with the head's context.
LEMMA CreateNewWorkEInv ==
  ASSUME EInv, NEW time \in 0..MaxTime, createNewWork(time)
  PROVE  EInv'
  <1>1. /\ chain' = chain /\ ctx' = ctx /\ phase' = "txs" /\ dposContext' = ctx
        /\ timeOfFirstBlock' = timeOfFirstBlock /\ header'.time = time
        /\ Parent' = Parent
    BY DEF createNewWork, headVars, Parent
  <1>2. IInv'
    BY CreateNewWorkIInv DEF EInv
  <1>3. Parent.time < time
    <2>1. Parent.time \in Nat /\ time \in Nat /\ blockInterval \in Nat \ {0}
      BY HeaderTypes, IntervalAssumption, ChainAssumption DEF EInv, IInv
    <2>2. time >= Parent.time + blockInterval
      BY DEF createNewWork
    <2>3. QED
      BY <2>1, <2>2
  <1>4. Times' /\ Serving' /\ Cache'
    BY <1>1, <1>3 DEF EInv, Times, Serving, Cache
  <1>5. Tally'
    BY <1>1 DEF EInv, Tally, MintCntIsTally
  <1>6. QED
    BY <1>2, <1>4, <1>5 DEF EInv

\* Entering the election: the cache is filled, the loop starts at prevEpoch.
LEMMA FinalizeEInv ==
  ASSUME EInv, Finalize
  PROVE  EInv'
  <1>1. /\ chain' = chain /\ ctx' = ctx /\ phase = "txs" /\ phase' = "elect"
        /\ dposContext' = dposContext /\ header' = header
        /\ Parent' = Parent /\ round' = prevEpoch
    BY DEF Finalize, headVars, Parent
  <1>2. IInv'
    BY FinalizeIInv DEF EInv
  <1>3. EpochOf(Parent.time) <= prevEpoch
    <2>1. EpochOf(Parent.time) \in Nat /\ currentEpoch \in Nat
      BY HeaderTypes DEF EInv, IInv, currentEpoch
    <2> DEFINE p == EpochOf(Parent.time)
    <2>2. prevEpoch = p \/ (p < currentEpoch /\ prevEpoch = currentEpoch - 1)
      BY DEF prevEpoch
    <2>3. p \in Nat
      BY <2>1
    <2> HIDE DEF p
    <2>4. p <= prevEpoch
      BY <2>1, <2>2, <2>3
    <2>5. QED
      BY <2>4 DEF p
  <1>4. Times' /\ Serving'
    BY <1>1, <1>3 DEF EInv, Times, Serving
  <1>5. Tally'
    BY <1>1 DEF EInv, Tally, MintCntIsTally
  <1>6. Cache'
    BY <1>1 DEF EInv, Cache, Finalize
  <1>7. QED
    BY <1>2, <1>4, <1>5, <1>6 DEF EInv

\* A round: there is one only when the block's epoch is a later one.
LEMMA TryElectRoundEInv ==
  ASSUME EInv, tryElectRound
  PROVE  EInv'
  <1>1. /\ chain' = chain /\ ctx' = ctx /\ phase = "elect" /\ phase' = "elect"
        /\ header' = header /\ Parent' = Parent /\ currentEpoch' = currentEpoch
        /\ timeOfFirstBlock' = timeOfFirstBlock /\ round' = round + 1
        /\ round < currentEpoch
    BY DEF tryElectRound, headVars, Parent, currentEpoch
  <1>2. IInv'
    BY TryElectRoundIInv DEF EInv
  <1>3. /\ EpochOf(Parent.time) \in Nat /\ currentEpoch \in Nat /\ round \in Nat
    BY HeaderTypes DEF EInv, IInv, TypeOK, currentEpoch
  <1>4. EpochOf(Parent.time) <= round
    BY <1>1 DEF EInv, Serving
  <1>5. EpochOf(Parent.time) < currentEpoch /\ EpochOf(Parent.time) <= round + 1
    BY <1>1, <1>3, <1>4
  <1>6. Times' /\ Serving' /\ Cache'
    BY <1>1, <1>5 DEF EInv, Times, Serving, Cache
  <1>7. Tally'
    BY <1>1, RoundKeepsCounts DEF EInv, Tally, MintCntIsTally
  <1>8. QED
    BY <1>2, <1>6, <1>7 DEF EInv

\* A transaction changes neither counts nor validators.
LEMMA CommitTransactionEInv ==
  ASSUME EInv, NEW tx \in Transactions, commitTransaction(tx)
  PROVE  EInv'
  <1>1. /\ chain' = chain /\ ctx' = ctx /\ phase' = phase /\ header' = header
        /\ Parent' = Parent /\ timeOfFirstBlock' = timeOfFirstBlock
        /\ currentEpoch' = currentEpoch /\ round' = round
    BY DEF commitTransaction, headVars, Parent, currentEpoch
  <1>2. IInv'
    BY CommitTransactionIInv DEF EInv
  <1>3. /\ dposContext'.mintCnt = dposContext.mintCnt
        /\ dposContext'.validators = dposContext.validators
    BY TransactionKeepsCounts DEF EInv
  <1>4. Times' /\ Serving' /\ Cache'
    BY <1>1, <1>3 DEF EInv, Times, Serving, Cache
  <1>5. Tally'
    BY <1>1, <1>3 DEF EInv, Tally, MintCntIsTally
  <1>6. QED
    BY <1>2, <1>4, <1>5 DEF EInv

\* Before a block that opens an epoch, no block of that epoch was counted.
LEMMA NothingMinted ==
  ASSUME EInv, phase # "idle", EpochOf(Parent.time) # EpochOf(header.time), NEW v
  PROVE  Minted(chain, EpochOf(header.time), v) = {}
  <1>1. SUFFICES ASSUME NEW n \in 2..Len(chain) PROVE EpochOf(chain[n].time) # EpochOf(header.time)
    BY DEF Minted
  <1>2. /\ Len(chain) \in Nat \ {0} /\ chain[n].time \in Nat
        /\ Parent.time \in Nat /\ header.time \in Nat /\ Parent = chain[Len(chain)]
    BY HeaderTypes DEF EInv, IInv
  <1>3. chain[n].time <= Parent.time /\ Parent.time < header.time
    <2>1. n = Len(chain) \/ chain[n].time < chain[Len(chain)].time
      BY <1>2 DEF EInv, Times
    <2>2. QED
      BY <1>2, <2>1 DEF EInv, Times
  <1> DEFINE x == EpochOf(chain[n].time)
             y == EpochOf(Parent.time)
             z == EpochOf(header.time)
  <1>4. x \in Nat /\ y \in Nat /\ z \in Nat /\ x <= y /\ y <= z /\ y # z
    <2>1. Parent.time <= header.time
      BY <1>2, <1>3
    <2>2. y \in Nat /\ z \in Nat /\ y <= z
      BY <1>2, <2>1, EpochMonotone, Zenon
    <2>3. x \in Nat /\ x <= y
      BY <1>2, <1>3, EpochMonotone, Zenon
    <2>4. QED
      BY <2>2, <2>3
  <1> HIDE DEF x, y, z
  <1>5. x # z
    BY <1>4
  <1>6. QED
    BY <1>5 DEF x, z

\* The finished block is one more in the tally of its validator and epoch.
LEMMA MintedAppend ==
  ASSUME NEW ch \in Seq(Headers), NEW h \in Headers, NEW e, NEW v
  PROVE  LET M == Minted(ch, e, v)
             n == Len(ch) + 1
         IN  /\ IsFiniteSet(M) /\ n \notin M
             /\ Minted(Append(ch, h), e, v) =
                  IF h.validator = v /\ EpochOf(h.time) = e /\ ch # <<>> THEN M \cup {n} ELSE M
  <1>1. /\ Len(ch) \in Nat /\ Len(Append(ch, h)) = Len(ch) + 1
        /\ \A n \in 1..Len(ch) : Append(ch, h)[n] = ch[n]
        /\ Append(ch, h)[Len(ch) + 1] = h
        /\ ch # <<>> <=> Len(ch) + 1 \in 2..(Len(ch) + 1)
    OBVIOUS
  <1>2. IsFiniteSet(2..Len(ch))
    BY <1>1, FS_Interval
  <1>3. IsFiniteSet(Minted(ch, e, v))
    BY <1>2, FS_Subset DEF Minted
  <1>4. Len(ch) + 1 \notin Minted(ch, e, v)
    BY <1>1 DEF Minted
  <1>5. \A n : n \in 2..(Len(ch) + 1) <=>
                 n \in 2..Len(ch) \/ (n = Len(ch) + 1 /\ ch # <<>>)
    BY <1>1
  <1>6. 2..Len(ch) \subseteq 1..Len(ch)
    BY <1>1
  <1>7. Minted(Append(ch, h), e, v) =
          IF h.validator = v /\ EpochOf(h.time) = e /\ ch # <<>>
          THEN Minted(ch, e, v) \cup {Len(ch) + 1} ELSE Minted(ch, e, v)
    BY <1>1, <1>5, <1>6 DEF Minted
  <1>8. QED
    BY <1>3, <1>4, <1>7

\* Writing the block: its count, restarted where it opens an epoch, is right.
LEMMA SealBlockTally ==
  ASSUME EInv, sealBlock
  PROVE  MintCntIsTally'
  <1> DEFINE e0 == EpochOf(header.time)
             v0 == header.validator
             cnt == dposContext.mintCnt
             old == IF EpochOf(Parent.time) = e0 THEN cnt[e0][v0] ELSE 0
  <1>1. /\ chain \in Seq(Headers) /\ chain # <<>> /\ header \in Headers
        /\ v0 \in Address /\ phase # "idle" /\ chain' = Append(chain, header)
        /\ cnt \in [Epoch -> [Address -> Nat]] /\ dposContext \in DposContexts
    BY DEF EInv, IInv, TypeOK, sealBlock, DposContexts
  <1>2. e0 \in Epoch
    BY <1>1, ChainAssumption DEF Headers
  <1>3. \A e \in Epoch, v \in Address : cnt[e][v] = Cardinality(Minted(chain, e, v))
    BY DEF EInv, Tally, MintCntIsTally, Minted
  <1>4. old = Cardinality(Minted(chain, e0, v0))
    <2>1. CASE EpochOf(Parent.time) = e0
      BY <1>1, <1>2, <1>3, <2>1
    <2>2. CASE EpochOf(Parent.time) # e0
      <3>1. Minted(chain, e0, v0) = {}
        BY <1>1, <2>2, NothingMinted
      <3>2. QED
        BY <2>2, <3>1, FS_EmptySet
    <2>3. QED
      BY <2>1, <2>2
  <1>5. ctx'.mintCnt = [cnt EXCEPT ![e0] = [cnt[e0] EXCEPT ![v0] = old + 1]]
    BY <1>1 DEF sealBlock, updateMintCnt, DposContexts
  <1> HIDE DEF e0, v0, cnt, old
  <1>6. ASSUME NEW e \in Epoch, NEW v \in Address
        PROVE  ctx'.mintCnt[e][v] = Cardinality(Minted(chain', e, v))
    <2>1. /\ IsFiniteSet(Minted(chain, e, v)) /\ Len(chain) + 1 \notin Minted(chain, e, v)
          /\ Minted(chain', e, v) =
               IF header.validator = v /\ EpochOf(header.time) = e
               THEN Minted(chain, e, v) \cup {Len(chain) + 1} ELSE Minted(chain, e, v)
      BY <1>1, MintedAppend
    <2>2. CASE v = v0 /\ e = e0
      <3>1. Cardinality(Minted(chain', e, v)) = Cardinality(Minted(chain, e, v)) + 1
        <4>1. Minted(chain', e, v) = Minted(chain, e, v) \cup {Len(chain) + 1}
          BY <2>1, <2>2 DEF v0, e0
        <4>2. QED
          BY <2>1, <4>1, FS_AddElement, Zenon
      <3>2. ctx'.mintCnt[e][v] = old + 1
        BY <1>1, <1>2, <1>5, <2>2
      <3>3. QED
        BY <1>4, <2>2, <3>1, <3>2
    <2>3. CASE ~(v = v0 /\ e = e0)
      <3>1. Minted(chain', e, v) = Minted(chain, e, v)
        BY <2>1, <2>3 DEF v0, e0
      <3>2. ctx'.mintCnt[e][v] = cnt[e][v]
        BY <1>1, <1>2, <1>5, <2>3
      <3>3. QED
        BY <1>3, <3>1, <3>2
    <2>4. QED
      BY <2>2, <2>3
  <1>7. QED
    BY <1>6 DEF MintCntIsTally, Minted

\* Writing the block keeps the inductive invariant.
LEMMA SealBlockEInv ==
  ASSUME EInv, sealBlock
  PROVE  EInv'
  <1>1. /\ chain \in Seq(Headers) /\ chain # <<>> /\ header \in Headers
        /\ chain' = Append(chain, header) /\ phase = "elect" /\ phase' = "idle"
        /\ dposContext' = ctx' /\ timeOfFirstBlock' = timeOfFirstBlock
    BY DEF EInv, IInv, TypeOK, sealBlock, NoWork
  <1>2. IInv'
    BY SealBlockIInv DEF EInv
  <1>3. /\ Len(chain) \in Nat \ {0} /\ Len(chain') = Len(chain) + 1
        /\ \A i \in 1..Len(chain) : chain'[i] = chain[i] /\ chain[i].time \in Nat
        /\ chain'[Len(chain) + 1] = header
        /\ Parent = chain[Len(chain)] /\ Parent.time \in Nat /\ header.time \in Nat
    BY <1>1, HeaderTypes DEF EInv, IInv
  <1>4. ASSUME NEW i \in 1..Len(chain'), NEW j \in 1..Len(chain'), i < j
        PROVE  chain'[i].time < chain'[j].time
    <2>1. i \in 1..Len(chain)
      BY <1>3, <1>4
    <2>2. CASE j \in 1..Len(chain)
      BY <1>3, <1>4, <2>1, <2>2 DEF EInv, Times
    <2>3. CASE j = Len(chain) + 1
      <3>1. i = Len(chain) \/ chain[i].time < Parent.time
        BY <1>3, <2>1 DEF EInv, Times
      <3>2. Parent.time < header.time
        BY <1>1 DEF EInv, Times
      <3>3. chain[i].time \in Nat
        BY <1>3, <2>1
      <3>4. chain[i].time < header.time
        BY <1>3, <3>1, <3>2, <3>3
      <3>5. QED
        BY <1>3, <2>1, <2>3, <3>4
    <2>4. QED
      BY <1>3, <2>2, <2>3
  <1>5. Times' /\ Serving'
    BY <1>1, <1>4 DEF Times, Serving
  <1>6. Cache'
    BY <1>1, <1>3 DEF EInv, Cache
  <1>7. Tally'
    BY <1>1, SealBlockTally DEF Tally
  <1>8. QED
    BY <1>2, <1>5, <1>6, <1>7 DEF EInv

\* Every step keeps the inductive invariant.
LEMMA NextEInv == EInv /\ [Next]_vars => EInv'
  <1> SUFFICES ASSUME EInv, [Next]_vars PROVE EInv'
    OBVIOUS
  <1>1. IInv'
    BY NextIInv DEF EInv
  <1>2. ASSUME NEW time \in 0..MaxTime, createNewWork(time) PROVE EInv'
    BY <1>2, CreateNewWorkEInv
  <1>3. ASSUME NEW tx \in Transactions, commitTransaction(tx) PROVE EInv'
    BY <1>3, CommitTransactionEInv
  <1>4. CASE Finalize
    BY <1>4, FinalizeEInv
  <1>5. CASE tryElectRound
    BY <1>5, TryElectRoundEInv
  <1>6. CASE tryElectFails
    BY <1>1, <1>6, DroppedEInv DEF tryElectFails
  <1>7. CASE sealBlock
    BY <1>7, SealBlockEInv
  <1>8. CASE restart
    BY <1>1, <1>8, DroppedEInv DEF restart
  <1>9. CASE UNCHANGED vars
    BY <1>1, <1>9 DEF vars, EInv, Times, Tally, Cache, Serving, MintCntIsTally,
                      Parent, currentEpoch
  <1>10. QED
    BY <1>2, <1>3, <1>4, <1>5, <1>6, <1>7, <1>8, <1>9 DEF Next

\* The inductive invariant holds in every reachable state.
LEMMA EInvariance == Spec => []EInv
  BY InitEInv, NextEInv, PTL DEF Spec

----------------------------------------------------------------------------
(* The theorems about elections, kickouts and mint counts.                 *)

\* The mint-count trie, which updateMintCnt keeps by increments, counts the
\* blocks of each validator in each epoch, whatever epochs were skipped.
THEOREM CountsAreTally == Spec => []MintCntIsTally
  <1>1. EInv => MintCntIsTally
    BY DEF EInv, Tally
  <1>2. QED
    BY <1>1, EInvariance, PTL

\* tryElect never judges the first epoch by an empty cache of the first block's
\* time, whenever the process was restarted.
THEOREM FirstTimeIsKnown == Spec => []FirstBlockTimeKnown
  <1>1. ASSUME EInv PROVE FirstBlockTimeKnown
    <2>1. Len(chain) \in Nat \ {0} /\ Parent = chain[Len(chain)]
      BY <1>1, HeaderTypes DEF EInv, IInv
    <2>2. chain \in Seq(Headers)
      BY <1>1 DEF EInv, IInv, TypeOK
    <2>3. ~prevEpochIsGenesis => Len(chain) > 1
      BY <2>1, <2>2 DEF prevEpochIsGenesis, Genesis
    <2>4. QED
      BY <1>1, <2>3 DEF EInv, Cache, FirstBlockTimeKnown
  <1>2. QED
    BY <1>1, EInvariance, PTL

\* The list of validators changes only with a block that opens an epoch.
THEOREM ValidatorsServe == Spec => ValidatorsServeEpoch
  <1>1. ASSUME EInv, [Next]_vars, ctx'.validators # ctx.validators
        PROVE  EpochOf(chain'[Len(chain')].time) > EpochOf(Parent.time)
    <2>1. ctx' # ctx
      BY <1>1
    <2>2. sealBlock
      BY <1>1, <2>1 DEF Next, vars, createNewWork, commitTransaction, Finalize,
                        tryElectRound, tryElectFails, restart, headVars
    <2>3. /\ chain \in Seq(Headers) /\ dposContext \in DposContexts
          /\ header \in Headers /\ chain' = Append(chain, header)
          /\ ctx' = updateMintCnt(dposContext, Parent.time, header.time, header.validator)
      BY <1>1, <2>2 DEF sealBlock, EInv, IInv, TypeOK
    <2>4. ctx'.validators = dposContext.validators
      BY <2>3 DEF updateMintCnt, DposContexts
    <2>5. chain'[Len(chain')] = header
      BY <2>3
    <2>6. EpochOf(Parent.time) \in Nat /\ currentEpoch \in Nat
      BY <1>1, HeaderTypes DEF EInv, IInv, currentEpoch
    <2>7. EpochOf(Parent.time) < currentEpoch
      BY <1>1, <2>4 DEF EInv, Serving
    <2>8. QED
      BY <2>5, <2>6, <2>7 DEF currentEpoch
  <1>2. QED
    BY <1>1, EInvariance, PTL DEF Spec, ValidatorsServeEpoch

\* The votes of a candidate are a number.
LEMMA VotesAreNumbers ==
  ASSUME NEW c \in DposContexts, NEW b \in [Address -> Nat]
  PROVE  \A a \in c.candidate : countVotes(c, b)[a] \in Nat
  <1>1. ASSUME NEW a \in c.candidate PROVE SumFunctionOnSet(b, DelegatorsOf(c, a)) \in Nat
    <2>1. DelegatorsOf(c, a) \in SUBSET Address
      BY DEF DelegatorsOf
    <2>2. IsFiniteSet(DelegatorsOf(c, a))
      BY <2>1, AddressAssumption, FS_Subset
    <2>3. QED
      BY <2>1, <2>2, SumIsNat
  <1>2. QED
    BY <1>1 DEF countVotes

\* A shuffle loses no one.
LEMMA ShuffleHasAll ==
  ASSUME NEW S \in SUBSET Address, NEW vs \in Shuffles(S)
  PROVE  IsInjective(vs) /\ Range(vs) = S /\ Len(vs) = Cardinality(S)
  <1>1. IsFiniteSet(S) /\ Cardinality(S) \in Nat
    BY AddressAssumption, FS_Subset, FS_CardinalityType
  <1>2. vs \in [1..Cardinality(S) -> S] /\ IsInjective(vs)
    BY DEF Shuffles
  <1>3. vs \in Injection(1..Cardinality(S), S)
    BY <1>2 DEF Injection
  <1>4. Cardinality(1..Cardinality(S)) = Cardinality(S)
    BY <1>1, FS_Interval
  <1>5. vs \in Surjection(1..Cardinality(S), S)
    BY <1>1, <1>3, <1>4, FS_Injection
  <1>6. Range(vs) = S
    BY <1>5, Fun_SurjectionProperties
  <1>7. Len(vs) = Cardinality(S)
    BY <1>1, <1>2
  <1>8. QED
    BY <1>2, <1>6, <1>7

\* An election takes distinct candidates, maxValidatorSize of them if there are
\* so many, and none that it leaves out has more votes, for any balances.
THEOREM ElectionRespectsVotes == Spec => ElectionByWeight
  <1> DEFINE c == dposContext'
             taken == Range(c.validators)
             votes == countVotes(c, state)
  <1>1. ASSUME EInv, tryElectRound
        PROVE  /\ IsInjective(c.validators)
               /\ taken \subseteq c.candidate
               /\ Len(c.validators) = maxValidatorSize \/ taken = c.candidate
               /\ \A a \in taken, b \in c.candidate \ taken : votes[a] >= votes[b]
    <2> DEFINE K == AfterKickout
               S == K.candidate
               w == countVotes(K, state)
               E == FirstBy(w, S, maxValidatorSize)
    <2>1. K \in DposContexts /\ state \in [Address -> Nat]
      BY <1>1, AfterKickoutContext DEF EInv, IInv, TypeOK
    <2>2. PICK vs \in Shuffles(E) : c = SetValidators(K, vs)
      BY <1>1 DEF tryElectRound, Elected
    <2>3. S \in SUBSET Address /\ IsFiniteSet(S) /\ Cardinality(S) \in Nat
      BY <2>1, AddressAssumption, FS_Subset, FS_CardinalityType DEF DposContexts
    <2>4. c.validators = vs /\ c.candidate = S /\ votes = w
      BY <2>1, <2>2 DEF SetValidators, DposContexts, countVotes, DelegatorsOf
    <2>5. \A a \in S : w[a] \in Nat
      BY <2>1, VotesAreNumbers
    <2>6. E \subseteq S
      BY CutSelects
    <2>7. /\ maxValidatorSize <= Cardinality(S) => Cardinality(E) = maxValidatorSize
          /\ maxValidatorSize >= Cardinality(S) => E = S
          /\ \A a \in E, b \in S \ E : w[a] >= w[b]
      <3>1. \A a \in S : w[a] \in Int
        BY <2>5
      <3>2. maxValidatorSize \in Nat \ {0}
        BY IntervalAssumption
      <3> HIDE DEF w, S
      <3>3. QED
        BY <2>3, <3>1, <3>2, FirstByCut
    <2>8. IsInjective(vs) /\ Range(vs) = E /\ Len(vs) = Cardinality(E)
      BY <2>2, <2>3, <2>6, ShuffleHasAll
    <2>9. Cardinality(E) = maxValidatorSize \/ E = S
      BY <2>3, <2>7, IntervalAssumption
    <2> HIDE DEF c, K, S, w, E
    <2>10. QED
      BY <2>4, <2>6, <2>7, <2>8, <2>9
  <1>2. QED
    BY <1>1, EInvariance, PTL DEF Spec, ElectionByWeight

\* A quotient times its divisor is no more than the dividend.
LEMMA DivBound ==
  ASSUME NEW x \in Int, NEW a \in Nat \ {0}, NEW k \in Int, k <= x \div a
  PROVE  a * k <= x
  <1>1. x \div a \in Int /\ a * (x \div a) <= x
    BY SMT
  <1> DEFINE q == x \div a
  <1>2. q \in Int /\ a * q <= x /\ k <= q
    BY <1>1
  <1> HIDE DEF q
  <1>3. a * k <= a * q
    BY <1>2, SMT
  <1>4. QED
    BY <1>2, <1>3, SMT

\* Who minted less than the target minted less than half a share of an epoch.
LEMMA TargetBound ==
  ASSUME NEW t \in Nat, NEW f \in Nat, NEW k \in Nat, k < MintTarget(t, f)
  PROVE  2 * maxValidatorSize * blockInterval * (k + 1) <= epochInterval
  <1> DEFINE d == epochDuration(t, f)
             q1 == d \div blockInterval
             q2 == q1 \div maxValidatorSize
             q3 == q2 \div 2
             m == 2 * (k + 1)
  <1>1. d \in Int /\ d <= epochInterval
    BY IntervalAssumption DEF epochDuration
  <1>2. q1 \in Int
    BY <1>1, IntervalAssumption
  <1>3. q2 \in Int
    BY <1>2, IntervalAssumption
  <1>4. q3 \in Int /\ k + 1 <= q3
    BY <1>3 DEF MintTarget
  <1>5. m \in Int /\ m <= q2
    BY <1>3, <1>4, DivBound
  <1>6. maxValidatorSize \in Nat \ {0} /\ blockInterval \in Nat \ {0}
    BY IntervalAssumption
  <1> HIDE DEF d, m, q1
  <1>7. maxValidatorSize * m \in Int /\ maxValidatorSize * m <= q1
    <2>1. maxValidatorSize * m \in Int
      BY <1>5, <1>6
    <2>2. QED
      BY <1>2, <1>5, <1>6, <2>1, DivBound, Zenon
  <1>a. blockInterval * (maxValidatorSize * m) <= d
    BY <1>1, <1>6, <1>7, DivBound, Zenon DEF q1
  <1>8. blockInterval * (maxValidatorSize * (2 * (k + 1))) <= epochInterval
    BY <1>1, <1>6, <1>7, <1>a, IntervalAssumption DEF m
  <1>9. QED
    BY <1>8, IntervalAssumption

\* A kickout takes only validators that minted too little of the epoch before,
\* the least active first, and leaves enough candidates for an election.
LEMMA KickoutJust ==
  ASSUME EInv, NEW c \in {AfterKickout}
  PROVE  LET cnt  == dposContext.mintCnt[prevEpoch]
             gone == dposContext.candidate \ c.candidate
         IN  /\ c.candidate \subseteq dposContext.candidate
             /\ Cardinality(c.candidate) < safeSize =>
                  Cardinality(dposContext.candidate) < safeSize
             /\ \A v \in gone :
                  /\ v \in Range(dposContext.validators)
                  /\ 2 * maxValidatorSize * blockInterval * (cnt[v] + 1) <= epochInterval
                  /\ \A u \in Range(dposContext.validators) \cap c.candidate :
                       cnt[u] >= cnt[v]
  <1> DEFINE cnt == dposContext.mintCnt[prevEpoch]
             S == dposContext.candidate
             V == Range(dposContext.validators)
             D == NeedKickout(dposContext, prevEpoch, header.time, timeOfFirstBlock)
             K == KickedOut(dposContext, prevEpoch, header.time, timeOfFirstBlock)
             target == MintTarget(header.time, timeOfFirstBlock)
             n == Cardinality(S) - safeSize
  <1>1. dposContext \in DposContexts /\ timeOfFirstBlock \in Nat /\ header.time \in Nat
    BY HeaderTypes, ChainAssumption DEF EInv, IInv, TypeOK
  <1>2. CASE c = dposContext
    BY <1>2
  <1>3. CASE c # dposContext
    <2>1. ~prevEpochIsGenesis /\ c = KickoutCandidates(dposContext, K)
      BY <1>3 DEF AfterKickout, kickoutValidator
    <2>2. prevEpoch \in Epoch
      <3>1. prevEpoch = EpochOf(Parent.time)
        BY <2>1 DEF prevEpoch
      <3>2. QED
        BY <3>1, EpochTypes DEF EInv, IInv
    <2>3. cnt \in [Address -> Nat]
      BY <1>1, <2>2 DEF DposContexts
    <2>4. V \in SUBSET Address /\ D = {v \in V : cnt[v] < target}
      BY <1>1 DEF NeedKickout, GetValidators, Range, DposContexts
    <2>5. S \in SUBSET Address /\ IsFiniteSet(S) /\ Cardinality(S) \in Nat
      BY <1>1, AddressAssumption, FS_Subset, FS_CardinalityType DEF DposContexts
    <2>6. safeSize \in Nat /\ n \in Int
      BY <2>5, IntervalAssumption DEF safeSize
    <2>7. K = LastBy(cnt, D, n)
      BY DEF KickedOut
    <2>8. c.candidate = S \ K
      BY <1>1, <2>1 DEF KickoutCandidates, DposContexts
    <2> HIDE DEF K, n, D, S, V, cnt
    <2>9. /\ n <= 0 => K = {}
          /\ n > 0 => Cardinality(K) <= n
          /\ \A a \in K, b \in D \ K : cnt[b] >= cnt[a]
          /\ K \subseteq D
      <3>1. D \in SUBSET Address /\ \A a \in D : cnt[a] \in Int
        BY <2>3, <2>4
      <3>2. /\ n <= 0 => LastBy(cnt, D, n) = {}
            /\ n > 0 => Cardinality(LastBy(cnt, D, n)) <= n
            /\ \A a \in LastBy(cnt, D, n), b \in D \ LastBy(cnt, D, n) : cnt[b] >= cnt[a]
        BY <2>6, <3>1, LastByCut
      <3>3. LastBy(cnt, D, n) \subseteq D
        BY CutSelects, Zenon
      <3>4. QED
        BY <2>7, <3>2, <3>3, Zenon
    <2>10. Cardinality(S \ K) < safeSize => Cardinality(S) < safeSize
      <3>1. CASE n <= 0
        <4>1. S \ K = S
          BY <2>9, <3>1
        <4>2. QED
          BY <4>1
      <3>2. CASE n > 0
        <4>1. IsFiniteSet(K) /\ K \in SUBSET Address
          BY <2>4, <2>9, AddressAssumption, FS_Subset
        <4>2. /\ Cardinality(S \ K) = Cardinality(S) - Cardinality(S \cap K)
              /\ Cardinality(S \cap K) <= Cardinality(K)
              /\ Cardinality(S \cap K) \in Nat /\ Cardinality(K) \in Nat
          BY <2>5, <4>1, FS_Difference, FS_Intersection, FS_CardinalityType
        <4>3. n = Cardinality(S) - safeSize
          BY DEF n, S
        <4>4. QED
          BY <2>5, <2>6, <2>9, <3>2, <4>2, <4>3
      <3>3. QED
        BY <2>6, <3>1, <3>2
    <2>11. target \in Int
      BY <1>1, IntervalAssumption DEF MintTarget, epochDuration
    <2>12. ASSUME NEW v \in S \ (S \ K)
           PROVE  /\ v \in V
                  /\ 2 * maxValidatorSize * blockInterval * (cnt[v] + 1) <= epochInterval
                  /\ \A u \in V \cap (S \ K) : cnt[u] >= cnt[v]
      <3>1. v \in K /\ v \in V /\ cnt[v] \in Nat /\ cnt[v] < target
        BY <2>3, <2>4, <2>9, <2>12
      <3>2. 2 * maxValidatorSize * blockInterval * (cnt[v] + 1) <= epochInterval
        BY <1>1, <3>1, TargetBound
      <3>3. ASSUME NEW u \in V \cap (S \ K) PROVE cnt[u] >= cnt[v]
        <4>1. CASE u \in D
          BY <2>9, <3>1, <4>1
        <4>2. CASE u \notin D
          <5>1. cnt[u] \in Nat /\ ~(cnt[u] < target)
            BY <2>3, <2>4, <4>2
          <5> HIDE DEF target
          <5>2. QED
            BY <2>11, <3>1, <5>1
        <4>3. QED
          BY <4>1, <4>2
      <3>4. QED
        BY <3>1, <3>2, <3>3
    <2>13. QED
      BY <2>8, <2>10, <2>12 DEF S, V, cnt
  <1>4. QED
    BY <1>2, <1>3

\* Kickouts never cost the chain an election, and strike only validators that
\* minted less than half their share, the least active first.
THEOREM KickoutsAreRight == Spec => KickoutRight
  <1> DEFINE cnt == dposContext.mintCnt[prevEpoch]
             gone == dposContext.candidate \ dposContext'.candidate
             kept == Range(dposContext.validators) \cap dposContext'.candidate
  <1>1. ASSUME EInv, tryElectFails PROVE Cardinality(dposContext.candidate) < safeSize
    BY <1>1, KickoutJust DEF tryElectFails, ElectionFails
  <1>2. ASSUME EInv, tryElectRound
        PROVE  \A v \in gone :
                 /\ v \in Range(dposContext.validators)
                 /\ 2 * maxValidatorSize * blockInterval * (cnt[v] + 1) <= epochInterval
                 /\ \A u \in kept : cnt[u] >= cnt[v]
    <2>1. AfterKickout \in DposContexts
      BY <1>2, AfterKickoutContext DEF EInv
    <2>2. PICK vs : dposContext' = SetValidators(AfterKickout, vs)
      BY <1>2 DEF tryElectRound
    <2>3. dposContext'.candidate = AfterKickout.candidate
      BY <2>1, <2>2 DEF SetValidators, DposContexts
    <2>4. QED
      BY <1>2, <2>3, KickoutJust
  <1>3. QED
    BY <1>1, <1>2, EInvariance, PTL DEF Spec, KickoutRight
=============================================================================
