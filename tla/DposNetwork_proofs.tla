------------------------- MODULE DposNetwork_proofs -------------------------
(***************************************************************************)
(* Proofs about DposNetwork, for any number of validators, intervals,      *)
(* orders drawn by elections and bounds on clock, lag and channel.         *)
(***************************************************************************)
EXTENDS DposNetwork, FiniteSetTheorems, SequenceTheorems, WellFoundedInduction, TLAPS

Header == [time : Nat, validator : Address \cup {NoAddress}, validators : Seq(Address)]

Block == Seq(Header) \ {<<>>}

\* The ancestor of a block at height k.
Ancestor(b, k) == SubSeq(b, 1, k)

Increasing(b) == \A i, j \in 1..Len(b) : i < j => b[i].time < b[j].time

----------------------------------------------------------------------------
(* Numbers and sequences.                                                  *)

\* A set of naturals that is not empty has a least element.
LEMMA LeastNat ==
  ASSUME NEW S \in SUBSET Nat, S # {}
  PROVE  \E m \in S : \A x \in S : m <= x
  <1>1. PICK m \in S : \A x \in S : <<x, m>> \notin OpToRel(<, Nat)
    BY NatLessThanWellFounded, WFMin, Zenon
  <1>2. \A x \in S : ~(x < m)
    BY <1>1, Zenon DEF OpToRel
  <1>3. QED
    BY <1>2

\* A set of naturals that is not empty and has a bound has a greatest element.
LEMMA GreatestNat ==
  ASSUME NEW hi \in Nat, NEW S \in SUBSET (0..hi), S # {}
  PROVE  Max(S) \in S /\ \A x \in S : x <= Max(S)
  <1> DEFINE T == {y \in 0..hi : hi - y \in S}
  <1>1. PICK x \in S : TRUE
    BY Zenon
  <1>2. hi - x \in T
    BY <1>1
  <1>3. PICK m \in T : \A y \in T : m <= y
    <2>1. T # {}
      BY <1>2, Zenon
    <2>2. \A y \in T : y \in Nat
      OBVIOUS
    <2>3. T \in SUBSET Nat
      BY <2>2
    <2>4. QED
      BY <2>1, <2>3, LeastNat, Zenon
  <1>4. \A y \in S : hi - y \in T
    OBVIOUS
  <1>5. hi - m \in S /\ \A y \in S : hi - m >= y
    BY <1>3, <1>4
  <1>6. QED
    BY <1>5, Zenon DEF Max

\* A later time is in no earlier epoch.
LEMMA EpochMonotone ==
  ASSUME NEW s \in Nat, NEW t \in Nat, s <= t
  PROVE  EpochOf(s) <= EpochOf(t) /\ EpochOf(s) \in Nat
  BY IntervalAssumption DEF EpochOf

\* Front, Last and the ancestors of a block.
LEMMA BlockParts ==
  ASSUME NEW b \in Block
  PROVE  /\ Len(b) \in Nat \ {0}
         /\ Last(b) \in Header /\ Last(b) = b[Len(b)]
         /\ \A i \in 1..Len(b) : b[i] \in Header
         /\ \A k \in 1..Len(b) :
              /\ Ancestor(b, k) \in Block
              /\ Len(Ancestor(b, k)) = k
              /\ \A i \in 1..k : Ancestor(b, k)[i] = b[i]
         /\ Ancestor(b, Len(b)) = b
         /\ Len(b) > 1 => Front(b) = Ancestor(b, Len(b) - 1)
  <1>1. b \in Seq(Header) /\ Len(b) \in Nat \ {0}
    BY EmptySeq, LenProperties DEF Block
  <1>2. \A i \in 1..Len(b) : b[i] \in Header
    BY <1>1, ElementOfSeq
  <1>3. ASSUME NEW k \in 1..Len(b)
        PROVE  /\ Ancestor(b, k) \in Block
               /\ Len(Ancestor(b, k)) = k
               /\ \A i \in 1..k : Ancestor(b, k)[i] = b[i]
    BY <1>1 DEF Ancestor, Block
  <1>4. Ancestor(b, Len(b)) = b
    BY <1>1, SubSeqFull DEF Ancestor
  <1>5. QED
    BY <1>1, <1>2, <1>3, <1>4 DEF Last, Front, Ancestor

\* Two blocks with the same headers are the same block.
LEMMA SameBlock ==
  ASSUME NEW a \in Block, NEW b \in Block, Len(a) = Len(b),
         \A i \in 1..Len(a) : a[i] = b[i]
  PROVE  a = b
  BY SeqEqual DEF Block

\* The ancestors of an ancestor are ancestors.
LEMMA AncestorOfAncestor ==
  ASSUME NEW b \in Block, NEW k \in 1..Len(b), NEW j \in 1..k
  PROVE  Ancestor(Ancestor(b, k), j) = Ancestor(b, j)
  <1>1. /\ Ancestor(b, k) \in Block /\ Len(Ancestor(b, k)) = k
        /\ Ancestor(b, j) \in Block /\ Len(Ancestor(b, j)) = j
        /\ \A i \in 1..k : Ancestor(b, k)[i] = b[i]
        /\ \A i \in 1..j : Ancestor(b, j)[i] = b[i]
    BY BlockParts
  <1>2. /\ Ancestor(Ancestor(b, k), j) \in Block
        /\ Len(Ancestor(Ancestor(b, k), j)) = j
        /\ \A i \in 1..j : Ancestor(Ancestor(b, k), j)[i] = Ancestor(b, k)[i]
    BY <1>1, BlockParts
  <1>3. QED
    BY <1>1, <1>2, SameBlock

\* Whether a header verifies depends only on the chain up to it.
LEMMA VerifiesInAncestor ==
  ASSUME NEW b \in Block, NEW k \in 1..Len(b), NEW i \in 2..k
  PROVE  Verifies(Ancestor(b, k), i) = Verifies(b, i)
  BY BlockParts DEF Verifies, verifyHeader, verifySeal

\* A shuffle of the accounts is a list of accounts.
LEMMA ShuffleIsList ==
  ASSUME NEW vs \in Shuffles(Address)
  PROVE  vs \in Seq(Address)
  <1>1. Cardinality(Address) \in Nat
    BY AddressAssumption, FS_CardinalityType
  <1>2. QED
    BY <1>1 DEF Shuffles

\* An election leaves a list of accounts.
LEMMA ValidatorsAfterIsList ==
  ASSUME NEW p \in Block, NEW t \in Nat
  PROVE  validatorsAfter(p, t) \in Seq(Address)
  <1> DEFINE x == Len(p) + Last(p).time + EpochOf(t)
             k == (x % Len(Orders)) + 1
  <1>1. Last(p) \in Header /\ Len(p) \in Nat
    BY BlockParts
  <1>2. EpochOf(t) \in Nat
    BY EpochMonotone
  <1>3. Len(Orders) \in Nat \ {0} /\ Orders \in Seq(Shuffles(Address))
    BY NetworkAssumption, EmptySeq, LenProperties
  <1>4. x \in Nat
    BY <1>1, <1>2 DEF Header
  <1>5. k \in 1..Len(Orders)
    BY <1>3, <1>4
  <1>6. Orders[k] \in Shuffles(Address)
    BY <1>3, <1>5, ElementOfSeq
  <1>7. QED
    BY <1>1, <1>6, ShuffleIsList DEF validatorsAfter, Header

\* What createNewWork puts on top of a parent.
LEMMA NewBlockParts ==
  ASSUME NEW p \in Block, NEW t \in Nat, NEW n \in Address, Last(p).time < t
  PROVE  /\ NewBlock(p, t, n) \in Block
         /\ Len(NewBlock(p, t, n)) = Len(p) + 1
         /\ Front(NewBlock(p, t, n)) = p
         /\ Last(NewBlock(p, t, n)).validator = n
         /\ Last(NewBlock(p, t, n)).time = t
         /\ Increasing(p) => Increasing(NewBlock(p, t, n))
  <1> DEFINE vs == validatorsAfter(p, t)
             h  == [time |-> t, validator |-> n, validators |-> vs]
             b  == NewBlock(p, t, n)
  <1>1. p \in Seq(Header) /\ Len(p) \in Nat \ {0} /\ Last(p) \in Header
    BY BlockParts DEF Block
  <1>2. vs \in Seq(Address)
    BY <1>1, ValidatorsAfterIsList
  <1>3. h \in Header
    BY <1>2 DEF Header
  <1>4. b = Append(p, h)
    BY DEF NewBlock
  <1>5. /\ b \in Seq(Header) /\ Len(b) = Len(p) + 1 /\ b[Len(b)] = h
        /\ \A i \in 1..Len(p) : b[i] = p[i]
    BY <1>1, <1>3, <1>4, AppendProperties
  <1>6. b \in Block
    BY <1>5, <1>1, EmptySeq DEF Block
  <1>7. Front(b) = p
    BY <1>1, <1>5, <1>6, BlockParts, SameBlock
  <1>8. Increasing(p) => Increasing(b)
    <2> HIDE DEF b
    <2>1. SUFFICES ASSUME Increasing(p), NEW i \in 1..Len(b), NEW j \in 1..Len(b), i < j
                   PROVE  b[i].time < b[j].time
      BY DEF Increasing
    <2>2. Len(p) \in Nat /\ Len(b) = Len(p) + 1 /\ Last(p) = p[Len(p)]
      BY <1>1, <1>5 DEF Last
    <2>3. i \in 1..Len(p) /\ (j \in 1..Len(p) \/ j = Len(b))
      BY <2>1, <2>2
    <2>4. b[i] = p[i]
      BY <1>5, <2>3
    <2>5. CASE j \in 1..Len(p)
      <3>1. b[j] = p[j]
        BY <1>5, <2>5
      <3>2. p[i].time < p[j].time
        BY <2>1, <2>3, <2>5 DEF Increasing
      <3>3. QED
        BY <3>1, <3>2, <2>4
    <2>6. CASE j = Len(b)
      <3>1. b[j].time = t
        BY <1>5, <2>6
      <3>2. p[i].time \in Nat /\ Last(p).time \in Nat
        BY <2>2, <2>3, <1>1, BlockParts DEF Header
      <3>3. i # Len(p) => p[i].time < p[Len(p)].time
        BY <2>1, <2>2, <2>3 DEF Increasing
      <3>4. p[i].time < t
        BY <2>2, <3>2, <3>3
      <3>5. QED
        BY <3>1, <3>4, <2>4
    <2>7. QED
      BY <2>3, <2>5, <2>6
  <1>9. QED
    BY <1>5, <1>6, <1>7, <1>8 DEF Last

\* A block that is at least as long as the old head and not the old head has a
\* first header that the old head does not share.
LEMMA CommonPrefixIsShorter ==
  ASSUME NEW old \in Block, NEW b \in Block, Len(old) <= Len(b), b # old
  PROVE  Len(LongestCommonPrefix({old, b})) \in 0..(Len(b) - 1)
  <1> DEFINE C == CommonPrefixes({old, b})
             lengths == {Len(c) : c \in C}
             lcp == LongestCommonPrefix({old, b})
  <1>1. /\ old \in Seq(Header) /\ Len(old) \in Nat /\ SubSeq(old, 1, Len(old)) = old
        /\ b \in Seq(Header) /\ Len(b) \in Nat /\ SubSeq(b, 1, Len(b)) = b
    BY BlockParts, SubSeqFull DEF Block
  <1>2. <<>> \in C
    <2>1. <<>> \in Prefixes(old)
      BY <1>1, SubSeqEmpty DEF Prefixes
    <2>2. IsPrefix(<<>>, old) /\ IsPrefix(<<>>, b)
      BY <1>1, SubSeqEmpty DEF IsPrefix
    <2>3. QED
      BY <2>1, <2>2 DEF CommonPrefixes
  <1>3. ASSUME NEW c \in C
        PROVE  Len(c) \in 0..Len(b) /\ IsPrefix(c, old) /\ IsPrefix(c, b)
    <2>1. IsPrefix(c, old) /\ IsPrefix(c, b)
      BY <1>3 DEF CommonPrefixes
    <2>2. PICK s \in {old, b} : c \in Prefixes(s)
      BY <1>3 DEF CommonPrefixes
    <2>3. Len(c) \in Nat
      BY <2>2, <1>1 DEF Prefixes
    <2>4. QED
      BY <2>1, <2>3, <1>1 DEF IsPrefix
  <1>4. PICK c \in C : \A d \in C : Len(d) <= Len(c)
    <2>1. lengths \in SUBSET (0..Len(b)) /\ lengths # {}
      BY <1>2, <1>3, Zenon
    <2>2. Max(lengths) \in lengths /\ \A x \in lengths : x <= Max(lengths)
      BY <2>1, <1>1, GreatestNat, Zenon
    <2>3. QED
      BY <2>2, Zenon
  <1>5. lcp \in C
    BY <1>4, Zenon DEF LongestCommonPrefix
  <1>6. Len(lcp) \in 0..Len(b) /\ IsPrefix(lcp, old) /\ IsPrefix(lcp, b)
    BY <1>3, <1>5, Zenon
  <1> HIDE DEF lcp
  <1>7. Len(lcp) # Len(b)
    BY <1>1, <1>6 DEF IsPrefix
  <1>8. Len(lcp) \in 0..(Len(b) - 1)
    BY <1>1, <1>6, <1>7
  <1>9. QED
    BY <1>8 DEF lcp

----------------------------------------------------------------------------
(* The inductive invariant.                                                *)

Types ==
  /\ now \in 0..MaxTime
  /\ known \in [Address -> SUBSET Block]
  /\ head \in [Address -> Block]
  /\ curHeader \in [Address -> Block]
  /\ confirmed \in [Address -> Seq(Header)]
  /\ stored \in [Address -> Seq(Header)]
  /\ step \in [Address -> {"idle", "checked", "sealing"}]
  /\ tick \in [Address -> 0..MaxTime]
  /\ work \in [Address -> Seq(Header)]
  /\ sealAt \in [Address -> Nat]
  /\ recv \in [Address -> Seq(Block)]

\* A node has the ancestors of its blocks, a block has increasing times, is
\* known to the node that minted it, and only the minter of a header has it
\* unverified.
Kept(n, b) ==
  /\ Len(b) <= Len(head[n])
  /\ \A k \in 1..Len(b) : Ancestor(b, k) \in known[n]
  /\ Increasing(b)
  /\ \A i \in 2..Len(b) : Verifies(b, i) \/ b[i].validator = n
  /\ Len(b) > 1 => /\ Last(b).validator \in Address
                   /\ b \in known[Last(b).validator]

Chains ==
  \A n \in Address :
    /\ GenesisBlock \in known[n]
    /\ \A b \in known[n] : Kept(n, b)
    /\ head[n] \in known[n] /\ curHeader[n] \in known[n]
    /\ IsPrefix(curHeader[n], head[n])

\* The confirmed header in memory is the stored one, and this one verifies.
Confirmation ==
  \A n \in Address :
    /\ confirmed[n] \in known[n] \cup {NoBlock}
    /\ stored[n] \in known[n] \cup {NoBlock}
    /\ AllVerify(stored[n])
    /\ confirmed[n] # NoBlock =>
         confirmed[n] = IF stored[n] # NoBlock THEN stored[n] ELSE GenesisBlock

\* A block on its way from createNewWork to wait has a parent that its minter
\* knows.
Minted(n, b) ==
  /\ b \in Block /\ Len(b) > 1
  /\ Front(b) \in known[n]
  /\ Increasing(b)
  /\ Last(b).validator = n

Pipeline ==
  \A n \in Address :
    /\ (step[n] = "sealing") = (work[n] # NoBlock)
    /\ work[n] # NoBlock => Minted(n, work[n])
    /\ Len(recv[n]) <= MaxRecv
    /\ \A i \in 1..Len(recv[n]) : Minted(n, recv[n][i])

IInv == Types /\ Chains /\ Confirmation /\ Pipeline

\* The genesis block has one header.
LEMMA GenesisIsBlock == GenesisBlock \in Block /\ Len(GenesisBlock) = 1
  <1>1. Orders[1] \in Seq(Address)
    BY NetworkAssumption, EmptySeq, LenProperties, ElementOfSeq, ShuffleIsList
  <1>2. [time |-> 0, validator |-> NoAddress, validators |-> Orders[1]] \in Header
    BY <1>1 DEF Header
  <1>3. QED
    BY <1>2 DEF GenesisBlock, Block

\* A node starts with the genesis block, which it has confirmed.
LEMMA InitIInv == Init => IInv
  <1> SUFFICES ASSUME Init PROVE IInv
    OBVIOUS
  <1>1. /\ GenesisBlock \in Block /\ Len(GenesisBlock) = 1
        /\ Ancestor(GenesisBlock, 1) = GenesisBlock
    BY GenesisIsBlock, BlockParts
  <1>2. NoBlock \in Seq(Header) /\ Len(NoBlock) = 0
    BY DEF NoBlock
  <1>3. Types
    BY <1>1, <1>2, NetworkAssumption DEF Types, Init
  <1>4. Chains
    <2>1. IsPrefix(GenesisBlock, GenesisBlock)
      BY <1>1 DEF IsPrefix
    <2>2. \A n \in Address : Kept(n, GenesisBlock)
      BY <1>1 DEF Init, Kept, Increasing
    <2>3. QED
      BY <2>1, <2>2 DEF Init, Chains
  <1>5. Confirmation
    BY <1>2 DEF Init, Confirmation, AllVerify
  <1>6. Pipeline
    BY <1>2, NetworkAssumption DEF Init, Pipeline
  <1>7. QED
    BY <1>3, <1>4, <1>5, <1>6 DEF IInv

----------------------------------------------------------------------------
(* What a write of a block preserves.                                      *)

\* insert and reorg: the current header stays a block of the head's chain.
LEMMA HeaderAfterOnChain ==
  ASSUME NEW hdr \in Block, NEW old \in Block, NEW b \in Block,
         IsPrefix(hdr, old), Len(old) <= Len(b)
  PROVE  /\ IsPrefix(headerAfter(hdr, old, b), b)
         /\ \/ headerAfter(hdr, old, b) = hdr
            \/ \E k \in 1..Len(b) : headerAfter(hdr, old, b) = Ancestor(b, k)
  <1>1. Len(b) \in Nat \ {0} /\ Ancestor(b, Len(b)) = b
    BY BlockParts
  <1>2. ASSUME NEW k \in 1..Len(b) PROVE IsPrefix(Ancestor(b, k), b)
    <2>1. Ancestor(b, k) \in Block /\ Len(Ancestor(b, k)) = k
      BY BlockParts
    <2>2. SubSeq(Ancestor(b, k), 1, k) = Ancestor(b, k)
      BY <2>1, BlockParts DEF Ancestor
    <2>3. QED
      BY <2>1, <2>2, <1>1 DEF IsPrefix, Ancestor
  <1>3. CASE Front(b) = old
    BY <1>1, <1>2, <1>3 DEF headerAfter
  <1>4. CASE Front(b) # old /\ b = old
    BY <1>4 DEF headerAfter
  <1>5. CASE Front(b) # old /\ b # old
    <2>1. Len(LongestCommonPrefix({old, b})) + 1 \in 1..Len(b)
      BY <1>5, <1>1, CommonPrefixIsShorter
    <2>2. headerAfter(hdr, old, b) = Ancestor(b, Len(LongestCommonPrefix({old, b})) + 1)
      BY <1>5 DEF headerAfter, Ancestor
    <2>3. QED
      BY <2>1, <2>2, <1>2
  <1>6. QED
    BY <1>3, <1>4, <1>5

\* WriteBlockAndState, of a block whose parent is known and that verifies or is
\* the node's own.
LEMMA WriteKeepsChains ==
  ASSUME Types, Chains, NEW n \in Address, NEW b \in Block,
         Len(b) > 1, Front(b) \in known[n], Increasing(b),
         Verifies(b, Len(b)) \/ Last(b).validator = n,
         Last(b).validator \in Address,
         Last(b).validator = n \/ b \in known[Last(b).validator],
         WriteBlockAndState(n, b)
  PROVE  /\ known' \in [Address -> SUBSET Block]
         /\ head' \in [Address -> Block]
         /\ curHeader' \in [Address -> Block]
         /\ \A m \in Address : known[m] \subseteq known'[m]
         /\ Chains'
  <1>1. /\ Len(b) \in Nat /\ Ancestor(b, Len(b)) = b
        /\ Front(b) = Ancestor(b, Len(b) - 1)
        /\ \A k \in 1..Len(b) : Ancestor(b, k) \in Block /\ Len(Ancestor(b, k)) = k
        /\ Last(b) = b[Len(b)]
    BY BlockParts
  <1>2. /\ \A m \in Address : known[m] \subseteq Block /\ head[m] \in Block /\ curHeader[m] \in Block
        /\ \A m \in Address : \A c \in known[m] : Len(c) \in Nat
        /\ \A m \in Address : head[m] \in known[m] /\ curHeader[m] \in known[m]
    BY BlockParts, Zenon DEF Types, Chains
  <1>3. /\ known' = [known EXCEPT ![n] = @ \cup {b}]
        /\ known' \in [Address -> SUBSET Block]
        /\ known'[n] = known[n] \cup {b}
        /\ \A m \in Address : m # n => known'[m] = known[m]
        /\ \A m \in Address : known[m] \subseteq known'[m]
    BY DEF WriteBlockAndState, Types
  <1>4. \A k \in 1..Len(b) : Ancestor(b, k) \in known'[n]
    <2>1. \A k \in 1..(Len(b) - 1) : Ancestor(Front(b), k) \in known[n]
      BY <1>1 DEF Chains, Kept
    <2>2. \A k \in 1..(Len(b) - 1) : Ancestor(Front(b), k) = Ancestor(b, k)
      BY <1>1, AncestorOfAncestor
    <2>3. QED
      BY <2>1, <2>2, <1>1, <1>3
  <1>5. \A i \in 2..Len(b) : Verifies(b, i) \/ b[i].validator = n
    <2>1. ASSUME NEW i \in 2..(Len(b) - 1)
          PROVE  Verifies(b, i) \/ b[i].validator = n
      <3>1. /\ Verifies(Front(b), i) \/ Front(b)[i].validator = n
            /\ Front(b)[i] = b[i]
        BY <1>1, BlockParts DEF Chains, Kept
      <3>2. Verifies(Front(b), i) = Verifies(b, i)
        BY <1>1, VerifiesInAncestor
      <3>3. QED
        BY <3>1, <3>2
    <2>2. QED
      BY <2>1, <1>1
  <1>6. /\ head' \in [Address -> Block] /\ curHeader' \in [Address -> Block]
        /\ \A m \in Address : m # n => head'[m] = head[m] /\ curHeader'[m] = curHeader[m]
        /\ head'[n] \in known'[n] /\ curHeader'[n] \in known'[n]
        /\ Len(head[n]) <= Len(head'[n]) /\ Len(b) <= Len(head'[n])
        /\ IsPrefix(curHeader'[n], head'[n])
    <2> DEFINE hdr == headerAfter(curHeader[n], head[n], b)
    <2>1. CASE UNCHANGED <<head, curHeader>> /\ Len(b) <= Len(head[n])
      BY <2>1, <1>2, <1>3 DEF Types, Chains
    <2>2. CASE /\ Len(b) >= Len(head[n])
               /\ head' = [head EXCEPT ![n] = b]
               /\ curHeader' = [curHeader EXCEPT ![n] = hdr]
      <3>1. /\ IsPrefix(hdr, b)
            /\ hdr = curHeader[n] \/ \E k \in 1..Len(b) : hdr = Ancestor(b, k)
        BY <2>2, <1>1, <1>2, HeaderAfterOnChain DEF Chains
      <3>2. hdr \in known'[n] /\ hdr \in Block
        BY <3>1, <1>2, <1>3, <1>4 DEF Types
      <3>3. QED
        BY <2>2, <3>1, <3>2, <1>1, <1>2, <1>3 DEF Types
    <2>3. QED
      BY <2>1, <2>2 DEF WriteBlockAndState
  <1>7. ASSUME NEW m \in Address, NEW c \in known'[m]
        PROVE  Kept(m, c)'
    <2>1. CASE c \in known[m]
      <3>1. Kept(m, c)
        BY <2>1 DEF Chains
      <3>2. Len(c) <= Len(head'[m])
        <4>1. Len(c) \in Nat /\ Len(head[m]) \in Nat /\ Len(head'[m]) \in Nat
          BY <2>1, <1>2, <1>6, BlockParts
        <4>2. Len(head[m]) <= Len(head'[m])
          BY <4>1, <1>6
        <4>3. Len(c) <= Len(head[m])
          BY <3>1 DEF Kept
        <4>4. QED
          BY <4>1, <4>2, <4>3
      <3>3. QED
        BY <3>1, <3>2, <1>3 DEF Kept
    <2>2. CASE m = n /\ c = b
      BY <2>2, <1>3, <1>4, <1>5, <1>6 DEF Kept
    <2>3. QED
      BY <2>1, <2>2, <1>3
  <1>8. Chains'
    BY <1>2, <1>3, <1>6, <1>7 DEF Chains
  <1>9. QED
    BY <1>3, <1>6, <1>8, Zenon

----------------------------------------------------------------------------
(* What the walk of updateConfirmedBlockHeader finds.                      *)

\* A header confirmed by two validators verifies with all its ancestors: one
\* that does not verify is its minter's own, and the other validator, who
\* built on top of it, has it too.
LEMMA WitnessedVerifies ==
  ASSUME Types, Chains, NEW n \in Address, NEW b \in known[n], NEW i \in 2..Len(b),
         Cardinality(Witnesses(b, i)) >= consensusSize
  PROVE  AllVerify(Ancestor(b, i))
  <1>1. b \in Block /\ Len(b) \in Nat /\ Kept(n, b)
    BY BlockParts DEF Types, Chains
  <1>2. consensusSize >= 2
    BY IntervalAssumption, ConsensusAssumption DEF consensusSize
  <1>3. PICK m \in Witnesses(b, i) : m # n
    <2>1. SUFFICES ASSUME Witnesses(b, i) \subseteq {n} PROVE FALSE
      OBVIOUS
    <2>2. Cardinality({n}) = 1 /\ IsFiniteSet({n})
      BY FS_Singleton, Zenon
    <2>3. /\ Cardinality(Witnesses(b, i)) <= 1
          /\ Cardinality(Witnesses(b, i)) \in Nat
      BY <2>1, <2>2, FS_Subset, FS_CardinalityType
    <2>4. consensusSize \in Nat
      BY IntervalAssumption DEF consensusSize
    <2>5. QED
      BY <2>3, <2>4, <1>2
  <1>4. PICK k \in i..Len(b) : b[k].validator = m
    BY <1>3 DEF Witnesses
  <1>5. SUFFICES ASSUME NEW j \in 2..i, ~Verifies(b, j) PROVE FALSE
    <2>1. Len(Ancestor(b, i)) = i
      BY <1>1, BlockParts
    <2>2. \A j \in 2..i : Verifies(Ancestor(b, i), j) = Verifies(b, j)
      BY <1>1, VerifiesInAncestor
    <2>3. QED
      BY <1>5, <2>1, <2>2 DEF AllVerify
  <1>6. b[j].validator = n
    BY <1>1, <1>5 DEF Kept
  <1> DEFINE a == Ancestor(b, k)
  <1>7. /\ a \in Block /\ Len(a) = k /\ a \in known[n]
        /\ Last(a) = b[k] /\ a[j] = b[j]
    <2>1. k \in 1..Len(b) /\ j \in 1..k
      BY <1>1, <1>4, <1>5
    <2>2. a \in Block /\ Len(a) = k /\ a[j] = b[j] /\ a[k] = b[k]
      BY <2>1, <1>1, BlockParts
    <2>3. QED
      BY <2>1, <2>2, <1>1 DEF Kept, Last
  <1>8. m \in Address /\ a \in known[m]
    BY <1>4, <1>7 DEF Chains, Kept
  <1>9. Verifies(a, j) \/ a[j].validator = m
    BY <1>4, <1>5, <1>7, <1>8 DEF Chains, Kept
  <1>10. Verifies(a, j) = Verifies(b, j)
    BY <1>1, <1>4, <1>5, VerifiesInAncestor
  <1>11. QED
    BY <1>3, <1>5, <1>6, <1>7, <1>9, <1>10

\* The walk returns the header it started from, or a higher one of the chain,
\* which verifies.
LEMMA ConfirmedFromIsKnown ==
  ASSUME Types, Chains, NEW n \in Address, NEW b \in known[n], NEW conf \in known[n],
         confirmedFrom(b, conf) # conf
  PROVE  /\ confirmedFrom(b, conf) \in known[n]
         /\ Len(confirmedFrom(b, conf)) > Len(conf)
         /\ AllVerify(confirmedFrom(b, conf))
  <1> DEFINE found == {i \in Len(conf)+1..Len(b) :
                         /\ \A j \in i..Len(b) : ~fastReturn(b, conf, j)
                         /\ Cardinality(Witnesses(b, i)) >= consensusSize}
             top == Max(found)
  <1>1. /\ b \in Block /\ Len(b) \in Nat /\ Kept(n, b)
        /\ conf \in Block /\ Len(conf) \in Nat \ {0}
    BY BlockParts DEF Types, Chains
  <1>2. found # {} /\ confirmedFrom(b, conf) = Ancestor(b, top)
    BY Zenon DEF confirmedFrom, Ancestor
  <1>3. found \in SUBSET (0..Len(b))
    BY <1>1
  <1>4. top \in found
    BY <1>1, <1>2, <1>3, GreatestNat, Zenon
  <1> HIDE DEF top
  <1>5. /\ top \in Len(conf)+1..Len(b)
        /\ Cardinality(Witnesses(b, top)) >= consensusSize
    BY <1>4
  <1>6. top \in 2..Len(b) /\ top \in 1..Len(b)
    BY <1>5, <1>1
  <1>7. Ancestor(b, top) \in known[n] /\ Len(Ancestor(b, top)) = top
    BY <1>1, <1>6, BlockParts DEF Kept
  <1>8. AllVerify(Ancestor(b, top))
    BY <1>5, <1>6, WitnessedVerifies
  <1>9. QED
    BY <1>1, <1>2, <1>5, <1>7, <1>8

----------------------------------------------------------------------------
(* The steps preserve the invariant.                                       *)

\* What a node knows only grows, and parts that a step leaves alone stay right.
LEMMA MintedStays ==
  ASSUME NEW n \in Address, NEW b, Minted(n, b), known[n] \subseteq known'[n]
  PROVE  Minted(n, b)'
  BY DEF Minted

\* What a step that leaves databases and heads alone need not show.
LEMMA ChainsFrame ==
  ASSUME Chains, UNCHANGED <<known, head, curHeader>>
  PROVE  Chains' /\ \A m \in Address : known[m] \subseteq known'[m]
  BY DEF Chains, Kept

\* The same of the confirmed headers, which only grow more known.
LEMMA ConfirmationFrame ==
  ASSUME Confirmation, UNCHANGED <<confirmed, stored>>,
         \A m \in Address : known[m] \subseteq known'[m]
  PROVE  Confirmation'
  BY DEF Confirmation

\* The same of the miner's loop, its agent and the channel between them.
LEMMA PipelineFrame ==
  ASSUME Pipeline, UNCHANGED <<mintVars, recv>>,
         \A m \in Address : known[m] \subseteq known'[m]
  PROVE  Pipeline'
  <1>1. step' = step /\ work' = work /\ recv' = recv
    BY DEF mintVars
  <1>2. QED
    BY <1>1, MintedStays DEF Pipeline

\* The clock moves: no header of the node's own becomes newer than now.
LEMMA TickIInv ==
  ASSUME IInv, Tick
  PROVE  IInv'
  <1>1. Types'
    BY NetworkAssumption DEF IInv, Types, Tick, mintVars
  <1>2. Chains' /\ \A m \in Address : known[m] \subseteq known'[m]
    BY ChainsFrame DEF IInv, Tick
  <1>3. Confirmation' /\ Pipeline'
    BY <1>2, ConfirmationFrame, PipelineFrame DEF IInv, Tick
  <1>4. QED
    BY <1>1, <1>2, <1>3 DEF IInv

\* mintingLoop: the check of the head and the second, and what it remembers.
LEMMA MintBlockIInv ==
  ASSUME IInv, NEW n \in Address, NEW t \in now-MaxLag..now, mintBlock(n, t)
  PROVE  IInv'
  <1>1. now \in 0..MaxTime /\ tick[n] \in 0..MaxTime /\ MaxTime \in Nat /\ MaxLag \in Nat
    BY NetworkAssumption DEF IInv, Types
  <1>2. t \in 0..MaxTime
    BY <1>1 DEF mintBlock
  <1>3. Types'
    BY <1>2 DEF IInv, Types, mintBlock
  <1>4. Chains' /\ \A m \in Address : known[m] \subseteq known'[m]
    BY ChainsFrame DEF IInv, mintBlock
  <1>5. Confirmation'
    BY <1>4, ConfirmationFrame DEF IInv, mintBlock
  <1>6. Pipeline'
    <2>1. work' = work /\ recv' = recv
      BY DEF mintBlock
    <2>2. \A m \in Address : (step'[m] = "sealing") = (step[m] = "sealing")
      BY DEF mintBlock, IInv, Types
    <2>3. QED
      BY <2>1, <2>2, <1>4, MintedStays DEF Pipeline, IInv
  <1>7. QED
    BY <1>3, <1>4, <1>5, <1>6 DEF IInv

\* A slot is a natural number.
LEMMA NextSlotNat ==
  ASSUME NEW t \in Nat
  PROVE  NextSlot(t) \in Nat
  <1>1. blockInterval \in Nat \ {0} /\ t + blockInterval - 1 \in Nat
    BY IntervalAssumption
  <1>2. (t + blockInterval - 1) \div blockInterval \in Nat
    BY <1>1
  <1>3. QED
    BY <1>1, <1>2 DEF NextSlot

\* commitNewWork with Prepare and Finalize: a header on the current head.
LEMMA CreateNewWorkIInv ==
  ASSUME IInv, NEW n \in Address, createNewWork(n)
  PROVE  IInv'
  <1> DEFINE last == Last(head[n]).time
             tstamp == IF last >= now THEN last + 1 ELSE now
             at == NextSlot(IF tstamp > now + 1 THEN tstamp ELSE now)
             b == NewBlock(head[n], tstamp, n)
  <1>1. now \in 0..MaxTime /\ MaxTime \in Nat /\ head[n] \in Block /\ head[n] \in known[n]
    BY NetworkAssumption DEF IInv, Types, Chains
  <1>2. last \in Nat
    BY <1>1, BlockParts DEF Header
  <1>3. tstamp \in Nat /\ last < tstamp
    BY <1>1, <1>2
  <1>4. at \in Nat
    BY <1>1, <1>3, NextSlotNat
  <1>5. /\ b \in Block /\ Len(b) = Len(head[n]) + 1 /\ Front(b) = head[n]
        /\ Last(b).validator = n
        /\ Increasing(head[n]) => Increasing(b)
    BY <1>1, <1>3, NewBlockParts
  <1>6. Minted(n, b)
    <2>1. Increasing(head[n]) /\ Len(head[n]) \in Nat \ {0}
      BY <1>1, BlockParts DEF IInv, Chains, Kept
    <2>2. QED
      BY <1>1, <1>5, <2>1 DEF Minted
  <1>7. /\ work' = [work EXCEPT ![n] = b]
        /\ sealAt' = [sealAt EXCEPT ![n] = at]
        /\ step' = [step EXCEPT ![n] = "sealing"]
        /\ UNCHANGED <<now, known, head, curHeader, confirmed, stored, tick, recv>>
    BY DEF createNewWork
  <1> HIDE DEF b, at
  <1>8. Types'
    BY <1>4, <1>5, <1>7, Zenon DEF IInv, Types, Block
  <1>9. Chains' /\ \A m \in Address : known[m] \subseteq known'[m]
    BY <1>7, ChainsFrame DEF IInv
  <1>10. Confirmation'
    BY <1>7, <1>9, ConfirmationFrame DEF IInv
  <1>11. Pipeline'
    <2>1. b # NoBlock
      BY <1>5 DEF Block, NoBlock
    <2>2. \A m \in Address : m # n => step'[m] = step[m] /\ work'[m] = work[m]
      BY <1>7 DEF IInv, Types
    <2>3. step'[n] = "sealing" /\ work'[n] = b
      BY <1>7 DEF IInv, Types
    <2>4. QED
      BY <2>1, <2>2, <2>3, <1>6, <1>7, <1>9, MintedStays DEF Pipeline, IInv
  <1>12. QED
    BY <1>8, <1>9, <1>10, <1>11 DEF IInv

\* MintDone leaves nothing being sealed.
LEMMA MintDonePipeline ==
  ASSUME IInv, NEW n \in Address, MintDone(n)
  PROVE  /\ step' \in [Address -> {"idle", "checked", "sealing"}]
         /\ work' \in [Address -> Seq(Header)]
         /\ sealAt' \in [Address -> Nat]
         /\ \A m \in Address :
              /\ (step'[m] = "sealing") = (work'[m] # NoBlock)
              /\ work'[m] # NoBlock => Minted(m, work'[m])
  <1>1. NoBlock \in Seq(Header)
    BY DEF NoBlock
  <1>2. /\ step' = [step EXCEPT ![n] = "idle"]
        /\ work' = [work EXCEPT ![n] = NoBlock]
        /\ sealAt' = [sealAt EXCEPT ![n] = 0]
    BY DEF MintDone
  <1>3. /\ step'[n] = "idle" /\ work'[n] = NoBlock
        /\ \A m \in Address : m # n => step'[m] = step[m] /\ work'[m] = work[m]
    BY <1>2 DEF IInv, Types
  <1>4. \A m \in Address :
          /\ (step'[m] = "sealing") = (work'[m] # NoBlock)
          /\ work'[m] # NoBlock => Minted(m, work'[m])
    BY <1>3 DEF IInv, Pipeline
  <1>5. QED
    BY <1>1, <1>2, <1>4 DEF IInv, Types

\* The worker's channel, after a step that leaves in it blocks that n minted.
LEMMA RecvPipeline ==
  ASSUME IInv, NEW n \in Address, NEW s \in Seq(Block), recv' = [recv EXCEPT ![n] = s],
         Len(s) <= MaxRecv, \A i \in 1..Len(s) : Minted(n, s[i])
  PROVE  /\ recv' \in [Address -> Seq(Block)]
         /\ \A m \in Address :
              /\ Len(recv'[m]) <= MaxRecv
              /\ \A i \in 1..Len(recv'[m]) : Minted(m, recv'[m][i])
  <1>1. recv'[n] = s /\ \A m \in Address : m # n => recv'[m] = recv[m]
    BY DEF IInv, Types
  <1>2. QED
    BY <1>1 DEF IInv, Types, Pipeline

\* Seal: the signed block goes to the channel of worker.wait.
LEMMA SealIInv ==
  ASSUME IInv, NEW n \in Address, Seal(n)
  PROVE  IInv'
  <1> DEFINE s == Append(recv[n], work[n])
  <1>1. /\ UNCHANGED <<now, known, head, curHeader, confirmed, stored, tick>>
        /\ recv' = [recv EXCEPT ![n] = s] /\ MintDone(n)
        /\ Len(recv[n]) < MaxRecv
    BY DEF Seal
  <1>2. Minted(n, work[n]) /\ work[n] \in Block
    BY DEF Seal, IInv, Pipeline, Minted
  <1>3. recv[n] \in Seq(Block) /\ MaxRecv \in Nat
    BY NetworkAssumption DEF IInv, Types
  <1>4. s \in Seq(Block) /\ Len(s) = Len(recv[n]) + 1 /\ Len(s) <= MaxRecv
    BY <1>1, <1>2, <1>3
  <1>5. \A i \in 1..Len(s) : Minted(n, s[i])
    <2>1. \A i \in 1..Len(recv[n]) : s[i] = recv[n][i] /\ Minted(n, recv[n][i])
      BY <1>2, <1>3 DEF IInv, Pipeline
    <2>2. s[Len(s)] = work[n]
      BY <1>2, <1>3
    <2>3. QED
      BY <2>1, <2>2, <1>2, <1>3, <1>4
  <1> HIDE DEF s
  <1>6. /\ recv' \in [Address -> Seq(Block)]
        /\ \A m \in Address :
             /\ Len(recv'[m]) <= MaxRecv
             /\ \A i \in 1..Len(recv'[m]) : Minted(m, recv'[m][i])
    BY <1>1, <1>4, <1>5, RecvPipeline, ZenonT(30)
  <1>7. Chains' /\ \A m \in Address : known[m] \subseteq known'[m]
    BY <1>1, ChainsFrame DEF IInv
  <1>8. Confirmation'
    BY <1>1, <1>7, ConfirmationFrame DEF IInv
  <1>9. Types'
    BY <1>1, <1>6, MintDonePipeline DEF IInv, Types
  <1>10. Pipeline'
    BY <1>1, <1>6, <1>7, MintDonePipeline, MintedStays DEF Pipeline
  <1>11. QED
    BY <1>7, <1>8, <1>9, <1>10 DEF IInv

\* Seal gives up: the header it was to sign is dropped.
LEMMA SealStoppedIInv ==
  ASSUME IInv, NEW n \in Address, SealStopped(n)
  PROVE  IInv'
  <1>1. /\ UNCHANGED <<now, known, head, curHeader, confirmed, stored, tick, recv>>
        /\ MintDone(n)
    BY DEF SealStopped
  <1>2. Chains' /\ \A m \in Address : known[m] \subseteq known'[m]
    BY <1>1, ChainsFrame DEF IInv
  <1>3. Confirmation'
    BY <1>1, <1>2, ConfirmationFrame DEF IInv
  <1>4. Types'
    BY <1>1, MintDonePipeline, Zenon DEF IInv, Types
  <1>5. Pipeline'
    BY <1>1, <1>2, MintDonePipeline, MintedStays, Zenon DEF IInv, Pipeline
  <1>6. QED
    BY <1>2, <1>3, <1>4, <1>5 DEF IInv

\* A restart loses what is in memory and keeps the database.
LEMMA RestartIInv ==
  ASSUME IInv, NEW n \in Address, restart(n)
  PROVE  IInv'
  <1>1. /\ UNCHANGED <<now, known, head, curHeader, stored, tick>>
        /\ confirmed' = [confirmed EXCEPT ![n] = NoBlock]
        /\ recv' = [recv EXCEPT ![n] = <<>>]
        /\ MintDone(n)
    BY DEF restart
  <1>2. Chains' /\ \A m \in Address : known[m] \subseteq known'[m]
    BY <1>1, ChainsFrame DEF IInv
  <1>3. /\ recv' \in [Address -> Seq(Block)]
        /\ \A m \in Address :
             /\ Len(recv'[m]) <= MaxRecv
             /\ \A i \in 1..Len(recv'[m]) : Minted(m, recv'[m][i])
    <2>1. <<>> \in Seq(Block) /\ Len(<<>>) = 0 /\ Len(<<>>) <= MaxRecv
      BY NetworkAssumption
    <2>2. \A i \in 1..Len(<<>>) : Minted(n, <<>>[i])
      BY <2>1
    <2>3. QED
      BY <1>1, <2>1, <2>2, RecvPipeline, Zenon
  <1>4. NoBlock \in Seq(Header)
    BY DEF NoBlock
  <1>5. confirmed'[n] = NoBlock /\ \A m \in Address : m # n => confirmed'[m] = confirmed[m]
    BY <1>1 DEF IInv, Types
  <1>6. Confirmation'
    BY <1>1, <1>5 DEF IInv, Confirmation
  <1>7. Types'
    BY <1>1, <1>3, <1>4, MintDonePipeline DEF IInv, Types
  <1>8. Pipeline'
    BY <1>1, <1>2, <1>3, MintDonePipeline, MintedStays DEF Pipeline
  <1>9. QED
    BY <1>2, <1>6, <1>7, <1>8 DEF IInv

\* worker.wait writes a block that nothing verified: it is the node's own.
LEMMA WaitIInv ==
  ASSUME IInv, NEW n \in Address, wait(n)
  PROVE  IInv'
  <1> DEFINE b == Head(recv[n])
             s == Tail(recv[n])
  <1>1. /\ UNCHANGED <<now, confirmed, stored, step, tick, work, sealAt>>
        /\ recv' = [recv EXCEPT ![n] = s] /\ recv[n] # <<>>
        /\ WriteBlockAndState(n, b)
    BY DEF wait, mintVars
  <1>2. recv[n] \in Seq(Block) /\ MaxRecv \in Nat /\ Len(recv[n]) <= MaxRecv
    BY NetworkAssumption DEF IInv, Types, Pipeline
  <1>3. /\ Len(recv[n]) \in Nat \ {0} /\ b = recv[n][1]
        /\ s \in Seq(Block) /\ Len(s) = Len(recv[n]) - 1
        /\ \A i \in 1..Len(s) : s[i] = recv[n][i + 1]
    BY <1>1, <1>2, HeadTailProperties, EmptySeq, LenProperties
  <1>4. Minted(n, b) /\ \A i \in 1..Len(s) : Minted(n, s[i])
    BY <1>3 DEF IInv, Pipeline
  <1> HIDE DEF b, s
  <1>5. /\ known' \in [Address -> SUBSET Block]
        /\ head' \in [Address -> Block]
        /\ curHeader' \in [Address -> Block]
        /\ \A m \in Address : known[m] \subseteq known'[m]
        /\ Chains'
    BY <1>1, <1>4, WriteKeepsChains DEF IInv, Minted
  <1>6. /\ recv' \in [Address -> Seq(Block)]
        /\ \A m \in Address :
             /\ Len(recv'[m]) <= MaxRecv
             /\ \A i \in 1..Len(recv'[m]) : Minted(m, recv'[m][i])
    <2>1. Len(s) <= MaxRecv
      BY <1>2, <1>3
    <2>2. QED
      BY <2>1, <1>1, <1>3, <1>4, RecvPipeline, ZenonT(30)
  <1>7. Types'
    BY <1>1, <1>5, <1>6 DEF IInv, Types
  <1>8. Confirmation'
    BY <1>1, <1>5, ConfirmationFrame DEF IInv
  <1>9. Pipeline'
    BY <1>1, <1>5, <1>6, MintedStays DEF IInv, Pipeline
  <1>10. QED
    BY <1>5, <1>7, <1>8, <1>9 DEF IInv

\* The confirmed header that a node goes by is one of its blocks.
LEMMA LoadConfirmedKnown ==
  ASSUME IInv, NEW n \in Address
  PROVE  loadConfirmed(n) \in known[n] /\ loadConfirmed(n) # NoBlock
  <1>1. NoBlock \notin known[n]
    BY DEF IInv, Types, Block, NoBlock
  <1>2. QED
    BY <1>1 DEF IInv, Confirmation, Chains, loadConfirmed

\* What verifySeal does to the confirmed header when a block is accepted.
LEMMA AcceptConfirmation ==
  ASSUME IInv, NEW n \in Address, NEW b, AcceptBlock(n, b),
         \A m \in Address : known[m] \subseteq known'[m]
  PROVE  /\ confirmed' \in [Address -> Seq(Header)]
         /\ stored' \in [Address -> Seq(Header)]
         /\ Confirmation'
         /\ Len(confirmed'[n]) >= Len(loadConfirmed(n))
         /\ confirmed'[n] # NoBlock
         /\ \A m \in Address : m # n => confirmed'[m] = confirmed[m] /\ stored'[m] = stored[m]
  <1> DEFINE load == loadConfirmed(n)
             conf == confirmedFrom(curHeader[n], load)
  <1>1. /\ load \in known[n] /\ load # NoBlock /\ curHeader[n] \in known[n]
        /\ known[n] \subseteq Block
    BY LoadConfirmedKnown, ZenonT(30) DEF IInv, Types, Chains
  <1>2. Len(load) \in Nat
    BY <1>1, BlockParts
  <1>3. conf # load => /\ conf \in known[n]
                       /\ Len(conf) > Len(load)
                       /\ AllVerify(conf)
    BY <1>1, ConfirmedFromIsKnown DEF IInv
  <1>4. /\ confirmed' = [confirmed EXCEPT ![n] = conf]
        /\ stored' = IF conf = load THEN stored ELSE [stored EXCEPT ![n] = conf]
    BY DEF AcceptBlock
  <1>5. load = IF confirmed[n] # NoBlock THEN confirmed[n]
               ELSE IF stored[n] # NoBlock THEN stored[n] ELSE GenesisBlock
    BY DEF loadConfirmed
  <1> HIDE DEF load, conf
  <1>6. conf \in known[n] /\ conf \in Seq(Header) /\ conf # NoBlock
    BY <1>1, <1>3 DEF Block, NoBlock
  <1>7. /\ confirmed' \in [Address -> Seq(Header)] /\ stored' \in [Address -> Seq(Header)]
        /\ confirmed'[n] = conf
        /\ \A m \in Address : m # n => confirmed'[m] = confirmed[m] /\ stored'[m] = stored[m]
        /\ stored'[n] = IF conf = load THEN stored[n] ELSE conf
    BY <1>4, <1>6 DEF IInv, Types
  <1>8. ASSUME NEW m \in Address
        PROVE  /\ confirmed'[m] \in known'[m] \cup {NoBlock}
               /\ stored'[m] \in known'[m] \cup {NoBlock}
               /\ AllVerify(stored'[m])
               /\ confirmed'[m] # NoBlock =>
                    confirmed'[m] = IF stored'[m] # NoBlock THEN stored'[m] ELSE GenesisBlock
    <2>1. CASE m # n
      BY <2>1, <1>7, ZenonT(30) DEF IInv, Confirmation
    <2>2. CASE m = n /\ conf # load
      BY <2>2, <1>3, <1>6, <1>7
    <2>3. CASE m = n /\ conf = load
      BY <2>3, <1>5, <1>6, <1>7 DEF IInv, Confirmation
    <2>4. QED
      BY <2>1, <2>2, <2>3
  <1>9. Confirmation'
    BY <1>8 DEF Confirmation
  <1>10. Len(confirmed'[n]) >= Len(load)
    BY <1>2, <1>3, <1>7
  <1>11. QED
    BY <1>6, <1>7, <1>9, <1>10 DEF load

\* insertChain: the only step that verifies, and the only one that confirms.
LEMMA InsertChainIInv ==
  ASSUME IInv, NEW n \in Address, NEW b \in Blocks, insertChain(n, b)
  PROVE  IInv' /\ \A m \in Address : known[m] \subseteq known'[m]
  <1>1. PICK m \in Address : b \in known[m]
    BY DEF Blocks
  <1>2. b \in Block /\ Len(b) \in Nat \ {0} /\ Kept(m, b)
    BY <1>1, BlockParts DEF IInv, Types, Chains
  <1>3. Len(b) > 1
    <2>1. Front(b) \in Block
      BY DEF insertChain, IInv, Types
    <2>2. Len(b) = 1 => Front(b) = <<>>
      BY <1>2, SubSeqEmpty DEF Front, Block
    <2>3. Len(b) # 1
      BY <2>1, <2>2 DEF Block
    <2>4. \A k \in Nat \ {0} : k # 1 => k > 1
      OBVIOUS
    <2>5. QED
      BY <2>3, <2>4, <1>2, Zenon
  <1>4. /\ Front(b) \in known[n] /\ Verifies(b, Len(b)) /\ AcceptBlock(n, b)
        /\ WriteBlockAndState(n, b) /\ UNCHANGED <<now, step, tick, work, sealAt, recv>>
    BY ZenonT(30) DEF insertChain, AcceptBlock, mintVars
  <1>5. /\ known' \in [Address -> SUBSET Block]
        /\ head' \in [Address -> Block]
        /\ curHeader' \in [Address -> Block]
        /\ \A k \in Address : known[k] \subseteq known'[k]
        /\ Chains'
    BY <1>2, <1>3, <1>4, WriteKeepsChains, ZenonT(30) DEF IInv, Kept
  <1>6. /\ confirmed' \in [Address -> Seq(Header)] /\ stored' \in [Address -> Seq(Header)]
        /\ Confirmation'
    BY <1>4, <1>5, AcceptConfirmation, ZenonT(30)
  <1>7. Types'
    BY <1>4, <1>5, <1>6, Zenon DEF IInv, Types
  <1>8. Pipeline'
    BY <1>4, <1>5, MintedStays, Zenon DEF IInv, Pipeline
  <1>9. QED
    BY <1>5, <1>6, <1>7, <1>8 DEF IInv

\* Every step keeps the inductive invariant.
LEMMA NextIInv == IInv /\ [Next]_vars => IInv'
  <1> SUFFICES ASSUME IInv, [Next]_vars PROVE IInv'
    OBVIOUS
  <1>1. CASE Tick
    BY <1>1, TickIInv
  <1>2. ASSUME NEW n \in Address, NEW t \in now-MaxLag..now, mintBlock(n, t) PROVE IInv'
    BY <1>2, MintBlockIInv
  <1>3. ASSUME NEW n \in Address, createNewWork(n) PROVE IInv'
    BY <1>3, CreateNewWorkIInv
  <1>4. ASSUME NEW n \in Address, Seal(n) PROVE IInv'
    BY <1>4, SealIInv
  <1>5. ASSUME NEW n \in Address, SealStopped(n) PROVE IInv'
    BY <1>5, SealStoppedIInv
  <1>6. ASSUME NEW n \in Address, wait(n) PROVE IInv'
    BY <1>6, WaitIInv
  <1>7. ASSUME NEW n \in Address, NEW b \in Blocks, insertChain(n, b) PROVE IInv'
    BY <1>7, InsertChainIInv
  <1>8. ASSUME NEW n \in Address, restart(n) PROVE IInv'
    BY <1>8, RestartIInv
  <1>9. CASE UNCHANGED vars
    <2>1. /\ UNCHANGED <<now, known, head, curHeader, confirmed, stored, mintVars, recv>>
          /\ UNCHANGED <<step, tick, work, sealAt>>
      BY <1>9 DEF vars, mintVars
    <2>2. Chains' /\ \A m \in Address : known[m] \subseteq known'[m]
      BY <2>1, ChainsFrame DEF IInv
    <2>3. Types' /\ Confirmation' /\ Pipeline'
      BY <2>1, <2>2, ConfirmationFrame, PipelineFrame DEF IInv, Types
    <2>4. QED
      BY <2>2, <2>3 DEF IInv
  <1>10. QED
    BY <1>1, <1>2, <1>3, <1>4, <1>5, <1>6, <1>7, <1>8, <1>9 DEF Next

\* The inductive invariant holds in every reachable state.
LEMMA Invariance == Spec => []IInv
  BY InitIInv, NextIInv, PTL DEF Spec

----------------------------------------------------------------------------
(* The fast return of updateConfirmedBlockHeader.                          *)

\* Headers i to j name at most j - i + 1 validators.
LEMMA ValidatorsBetween ==
  ASSUME NEW b, NEW i \in Nat, NEW j \in Nat, i <= j
  PROVE  /\ IsFiniteSet({b[k].validator : k \in i..j})
         /\ Cardinality({b[k].validator : k \in i..j}) <= j - i + 1
         /\ Cardinality({b[k].validator : k \in i..j}) \in Nat
  <1> DEFINE f == [k \in i..j |-> b[k].validator]
             S == {b[k].validator : k \in i..j}
  <1>1. IsFiniteSet(i..j) /\ Cardinality(i..j) = j - i + 1
    BY FS_Interval
  <1>2. f \in Surjection(i..j, S)
    BY DEF Surjection
  <1>3. IsFiniteSet(S) /\ Cardinality(S) <= Cardinality(i..j)
    BY <1>1, <1>2, FS_Surjection
  <1>4. QED
    BY <1>1, <1>3, FS_CardinalityType

\* Where the walk can still find a header, no header above it ends the walk:
\* the validators of its epoch are among those counted and those of the
\* headers between.
LEMMA FastReturnLate ==
  ASSUME Types, Chains, NEW n \in Address, NEW b \in known[n], NEW conf \in known[n],
         NEW i \in Len(conf)+1..Len(b), NEW j \in i..Len(b),
         Cardinality(Witnesses(b, i)) >= consensusSize
  PROVE  ~fastReturn(b, conf, j)
  <1> DEFINE B == {b[k].validator : k \in i..j}
             M == validatorMap(b, j)
             W == Witnesses(b, i)
  <1>1. /\ b \in Block /\ Len(b) \in Nat /\ Increasing(b)
        /\ Len(conf) \in Nat \ {0}
    BY BlockParts DEF Types, Chains, Kept
  <1>2. i \in Nat /\ j \in Nat /\ Len(conf) + 1 <= i /\ i <= j /\ j <= Len(b)
    BY <1>1
  <1>3. \A k \in 1..Len(b) : b[k].time \in Nat
    BY <1>1, BlockParts DEF Header
  <1>4. W \subseteq B \cup M
    <2>1. SUFFICES ASSUME NEW k \in i..Len(b), EpochOf(b[k].time) = EpochOf(b[i].time)
                   PROVE  b[k].validator \in B \cup M
      BY DEF Witnesses
    <2>2. CASE k <= j
      BY <2>2, <1>2
    <2>3. CASE k > j
      <3>1. b[i].time <= b[j].time /\ b[j].time <= b[k].time
        BY <2>3, <1>1, <1>2, <1>3 DEF Increasing
      <3>2. b[i].time \in Nat /\ b[j].time \in Nat /\ b[k].time \in Nat
        BY <1>1, <1>2, <1>3
      <3>3. /\ EpochOf(b[i].time) <= EpochOf(b[j].time)
            /\ EpochOf(b[j].time) <= EpochOf(b[k].time)
            /\ EpochOf(b[i].time) \in Nat /\ EpochOf(b[j].time) \in Nat
        BY <3>1, <3>2, EpochMonotone, ZenonT(30)
      <3>4. EpochOf(b[k].time) = EpochOf(b[j].time)
        BY <2>1, <3>3
      <3>5. k \in j+1..Len(b)
        BY <2>3, <1>1, <1>2
      <3>6. QED
        BY <3>4, <3>5 DEF validatorMap
    <2>4. QED
      BY <2>2, <2>3, <1>1, <1>2
  <1>5. /\ IsFiniteSet(B) /\ Cardinality(B) <= j - i + 1
        /\ Cardinality(B) \in Nat
    BY <1>2, ValidatorsBetween, Zenon
  <1>6. IsFiniteSet(M) /\ Cardinality(M) \in Nat
    <2>1. IsFiniteSet({b[k].validator : k \in 1..Len(b)})
      <3>1. 1 <= Len(b)
        BY <1>1, <1>2
      <3>2. QED
        BY <3>1, <1>1, ValidatorsBetween, Zenon
    <2>2. M \subseteq {b[k].validator : k \in 1..Len(b)}
      BY <1>1, <1>2 DEF validatorMap
    <2>3. QED
      BY <2>1, <2>2, FS_Subset, FS_CardinalityType
  <1> HIDE DEF B, M, W
  <1>7. /\ IsFiniteSet(B \cup M)
        /\ Cardinality(B \cup M) <= Cardinality(B) + Cardinality(M)
    <2>1. /\ IsFiniteSet(B \cup M)
          /\ Cardinality(B \cup M) =
               Cardinality(B) + Cardinality(M) - Cardinality(B \cap M)
      BY <1>5, <1>6, FS_Union
    <2>2. Cardinality(B \cap M) \in Nat
      BY <1>5, FS_Intersection, FS_CardinalityType, Zenon
    <2>3. QED
      BY <2>1, <2>2, <1>5, <1>6
  <1>8. Cardinality(W) <= Cardinality(B \cup M) /\ Cardinality(W) \in Nat
        /\ Cardinality(B \cup M) \in Nat
    BY <1>4, <1>7, FS_Subset, FS_CardinalityType
  <1>9. consensusSize \in Nat
    BY IntervalAssumption DEF consensusSize
  <1>10. consensusSize <= (j - Len(conf)) + Cardinality(M)
    BY <1>1, <1>2, <1>5, <1>6, <1>7, <1>8, <1>9 DEF W
  <1>11. QED
    BY <1>1, <1>2, <1>6, <1>9, <1>10 DEF fastReturn, M

----------------------------------------------------------------------------
(* What the invariant gives.                                               *)

\* Every reachable state has its type: heads, current headers and confirmed
\* headers are blocks that the node knows, whatever the order of events.
THEOREM TypeCorrect == Spec => []TypeOK
  <1>1. IInv => TypeOK
    BY DEF IInv, Types, Chains, Confirmation, Pipeline, TypeOK
  <1>2. QED
    BY <1>1, Invariance, PTL

\* In every reachable state, for any number of validators: a node's head is a
\* longest block it knows, its database has the ancestors of its blocks, and
\* hc.currentHeader, also where reorg leaves it behind, is on the head's chain.
THEOREM ChainsStayConsistent == Spec => []ChainsConsistent
  <1>1. ASSUME IInv PROVE ChainsConsistent
    <2>1. HeadIsLongest /\ CurrentHeaderOnChain
      BY <1>1 DEF IInv, Chains, Kept, HeadIsLongest, CurrentHeaderOnChain
    <2>2. ASSUME NEW n \in Address, NEW b \in known[n], Len(b) > 1
          PROVE  Front(b) \in known[n]
      <3>1. b \in Block /\ Len(b) \in Nat /\ Front(b) = Ancestor(b, Len(b) - 1)
        BY <1>1, <2>2, BlockParts DEF IInv, Types
      <3>2. QED
        BY <1>1, <2>2, <3>1 DEF IInv, Chains, Kept
    <2>3. QED
      BY <2>1, <2>2, Zenon DEF ChainsConsistent, AncestorsKnown
  <1>2. QED
    BY <1>1, Invariance, PTL

\* A header that verifySeal or verifyHeader would refuse, which the miner
\* writes all the same, is in no other node's database.
THEOREM UnverifiedStays == Spec => []UnverifiedStaysHome
  <1>1. IInv => UnverifiedStaysHome
    BY DEF IInv, Chains, Kept, UnverifiedStaysHome
  <1>2. QED
    BY <1>1, Invariance, PTL

\* What updateConfirmedBlockHeader stores verifies with all its ancestors,
\* although it counts the node's own unverified blocks as well.
THEOREM ConfirmedAlwaysVerifies == Spec => []ConfirmedVerifies
  <1>1. IInv => ConfirmedVerifies
    BY DEF IInv, Confirmation, ConfirmedVerifies
  <1>2. QED
    BY <1>1, Invariance, PTL

\* The confirmed number that a node goes by never goes back, whatever it
\* imports, mints or forgets with a restart.
THEOREM ConfirmedGrows == Spec => ConfirmedNumberGrows
  <1>1. ASSUME IInv, [Next]_vars, NEW n \in Address
        PROVE  Len(loadConfirmed(n)') >= Len(loadConfirmed(n))
    <2>1. Len(loadConfirmed(n)) \in Nat
      BY <1>1, LoadConfirmedKnown, BlockParts DEF IInv, Types
    <2>2. ASSUME confirmed'[n] = confirmed[n], stored'[n] = stored[n]
          PROVE  loadConfirmed(n)' = loadConfirmed(n)
      BY <2>2, ZenonT(30) DEF loadConfirmed, GenesisBlock
    <2>3. CASE UNCHANGED <<confirmed, stored>>
      <3>1. loadConfirmed(n)' = loadConfirmed(n)
        BY <2>2, <2>3, Zenon
      <3>2. \A k \in Nat : k >= k
        OBVIOUS
      <3>3. QED
        BY <2>1, <3>1, <3>2, Zenon
    <2>4. ASSUME NEW m \in Address, NEW b \in Blocks, insertChain(m, b)
          PROVE  Len(loadConfirmed(n)') >= Len(loadConfirmed(n))
      <3>1. AcceptBlock(m, b) /\ \A k \in Address : known[k] \subseteq known'[k]
        BY <1>1, <2>4, InsertChainIInv, Zenon DEF insertChain
      <3>2. CASE m = n
        <4>1. Len(confirmed'[n]) >= Len(loadConfirmed(n)) /\ confirmed'[n] # NoBlock
          BY <1>1, <3>1, <3>2, AcceptConfirmation, ZenonT(30)
        <4>2. loadConfirmed(n)' = confirmed'[n]
          BY <4>1 DEF loadConfirmed, NoBlock
        <4>3. QED
          BY <4>1, <4>2
      <3>3. CASE m # n
        <4>1. confirmed'[n] = confirmed[n] /\ stored'[n] = stored[n]
          BY <1>1, <3>1, <3>3, AcceptConfirmation
        <4>2. QED
          BY <4>1, <2>1, <2>2
      <3>4. QED
        BY <3>2, <3>3
    <2>5. ASSUME NEW m \in Address, restart(m)
          PROVE  Len(loadConfirmed(n)') >= Len(loadConfirmed(n))
      <3>1. /\ stored' = stored
            /\ confirmed'[n] = IF m = n THEN NoBlock ELSE confirmed[n]
        BY <1>1, <2>5 DEF restart, IInv, Types
      <3>2. confirmed[n] # NoBlock =>
              confirmed[n] = IF stored[n] # NoBlock THEN stored[n] ELSE GenesisBlock
        BY <1>1 DEF IInv, Confirmation
      <3>3. loadConfirmed(n)' = loadConfirmed(n)
        BY <3>1, <3>2 DEF loadConfirmed, GenesisBlock, NoBlock
      <3>4. QED
        BY <3>3, <2>1
    <2>6. QED
      BY <1>1, <2>3, <2>4, <2>5, Zenon
         DEF Next, vars, Tick, mintBlock, createNewWork, Seal, SealStopped, wait
  <1>2. IInv /\ [Next]_vars =>
          [\A n \in Address : Len(loadConfirmed(n)') >= Len(loadConfirmed(n))]_vars
    BY <1>1
  <1>3. QED
    BY <1>2, Invariance, PTL DEF Spec, ConfirmedNumberGrows

\* The fast return loses no confirmation: the walk finds the highest header
\* above the confirmed one that enough validators of its epoch are above.
THEOREM FastReturnIsSound == Spec => []FastReturnSound
  <1>1. ASSUME IInv PROVE FastReturnSound
    <2>1. SUFFICES ASSUME NEW n \in Address, NEW b \in known[n]
                   PROVE  LET conf == loadConfirmed(n)
                              ok == {i \in Len(conf)+1..Len(b) :
                                       Cardinality(Witnesses(b, i)) >= consensusSize}
                          IN  confirmedFrom(b, conf) =
                                IF ok = {} THEN conf ELSE SubSeq(b, 1, Max(ok))
      BY ZenonT(30) DEF FastReturnSound
    <2> DEFINE conf == loadConfirmed(n)
               ok == {i \in Len(conf)+1..Len(b) :
                        Cardinality(Witnesses(b, i)) >= consensusSize}
               found == {i \in Len(conf)+1..Len(b) :
                           /\ \A j \in i..Len(b) : ~fastReturn(b, conf, j)
                           /\ Cardinality(Witnesses(b, i)) >= consensusSize}
    <2>2. conf \in known[n]
      BY <1>1, LoadConfirmedKnown
    <2>3. \A i \in ok : \A j \in i..Len(b) : ~fastReturn(b, conf, j)
      BY <1>1, <2>2, FastReturnLate DEF IInv
    <2>4. found = ok
      BY <2>3
    <2>5. QED
      BY <2>4, Zenon DEF confirmedFrom
  <1>2. QED
    BY <1>1, Invariance, PTL
=============================================================================
