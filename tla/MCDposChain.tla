---------------------------- MODULE MCDposChain ----------------------------
(***************************************************************************)
(* Small instances of DposChain, and beside them the tries that a context  *)
(* is kept in and the encoding of what they hold: part selects the         *)
(* component that this behaviour is one of.  The chain has its own         *)
(* variables; v1 to v6 are those of the tries and of the encoding.         *)
(*                                                                         *)
(* Two validators per epoch (safeSize 2), and epochs of four slots, where  *)
(* a validator that mints nothing is idle, or of eight, where one that     *)
(* mints a single block is idle too.                                       *)
(***************************************************************************)
EXTENDS DposChain, TLC

CONSTANT Part   \* the components to check

VARIABLES part, v1, v2, v3, v4, v5, v6

mcvars == <<vars, part, v1, v2, v3, v4, v5, v6>>

MCEpoch == 0..3
MCGenesisValidators == <<1, 2>>
MCGenesisBalance == [a \in Address |-> a]

Login(a)       == [type |-> "LoginCandidate",  from |-> a, to |-> a]
Logout(a)      == [type |-> "LogoutCandidate", from |-> a, to |-> a]
Votes(a, b)    == [type |-> "Delegate",        from |-> a, to |-> b]
Unvotes(a, b)  == [type |-> "UnDelegate",      from |-> a, to |-> b]
Pays(a, b)     == [type |-> "Binary",          from |-> a, to |-> b]

\* A candidate transaction without recipient, as NewTransaction builds it from
\* an empty address.
BareLogin(a)   == [type |-> "LoginCandidate",  from |-> a, to |-> NoAddress]

\* Candidates come and go, and two of three accounts vote: one that is a candidate
\* from the start and one that is not.
Voter == {1, 3}

VotingTransactions ==
  {BareLogin(3)} \cup {Login(a) : a \in Address} \cup {Logout(a) : a \in Address}
    \cup {Votes(a, b) : a \in Voter, b \in Address}
    \cup {Unvotes(a, b) : a \in Voter, b \in Address}

\* Candidates coming and going and balances moving, for elections.
ElectionTransactions ==
  {Login(3), Login(4), Logout(1), Logout(2), Votes(4, 3), Votes(1, 3), Pays(3, 1)}

\* Keys of one and two bytes, some of them prefixes of others; short nodes are
\* small enough to stay inside their parents.
Inside(n) == n.t = "short" /\ Len(n.key) <= 2

Tries == INSTANCE Trie WITH
  root <- v1, db <- v2, content <- v3, it <- v4, commits <- v5, updates <- v6,
  Radix <- 2, Key <- {<<0, 0>>, <<0, 0, 0, 1>>, <<0, 0, 1, 1>>, <<1, 0>>}, Value <- {1},
  Start <- {<<0, 0>>, <<0, 1>>}, Small <- Inside, MaxCommits <- 2, MaxUpdates <- 4

Coding == INSTANCE RLP WITH
  s <- v1, got <- v2, w <- v3, err <- v4, loose <- v5, values <- v6,
  S <- 2, Short <- 2, LL <- 2, Content <- {0, 2}, MaxInput <- 5, MaxArray <- 2,
  MaxUint <- 2, MaxDepth <- 2, MaxValues <- 1, MaxLoose <- 1

\* The component has n variables; the other registers are 0.
Unused(n) ==
  /\ n <= 0 => v1 = 0 /\ v2 = 0 /\ v3 = 0 /\ v4 = 0 /\ v5 = 0 /\ v6 = 0

Step(n) ==
  /\ part' = part
  /\ n # 0 => UNCHANGED vars
  /\ n <= 0 => UNCHANGED <<v1, v2, v3, v4, v5, v6>>

MCInit ==
  /\ part \in Part
  /\ Init
  /\ \/ part = "dpos" /\ Unused(0)
     \/ part = "trie" /\ Tries!Init /\ Unused(6)
     \/ part = "rlp" /\ Coding!Init /\ Unused(6)

MCNext ==
  \/ part = "dpos" /\ Next /\ Step(0)
  \/ part = "trie" /\ Tries!Next /\ Step(6)
  \/ part = "rlp" /\ Coding!Next /\ Step(6)

MCSpec == MCInit /\ [][MCNext]_mcvars

\* The fairness of DposChain; tries and encoding move when they are called.
MCFairSpec == MCSpec /\ Fairness

----------------------------------------------------------------------------
\* trie.go, iterator.go and proof.go: whatever was written, deleted and
\* committed, the trie has the one form of its contents, reads, proofs and
\* iterations tell these contents, and what was committed is in the database.
\* rlp: what is accepted is what the encoder writes, and reading stays within
\* the list that is open.
DataRight ==
  /\ part = "trie" => /\ Tries!Canonical /\ Tries!GetRight /\ Tries!Stored
                      /\ Tries!ProofRight /\ Tries!IterationRight
  /\ part = "rlp" => Coding!Canonical /\ Coding!WithinLists /\ Coding!SplitAgrees
=============================================================================
