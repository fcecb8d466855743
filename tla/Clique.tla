------------------------------- MODULE Clique -------------------------------
(***************************************************************************)
(* Proof of authority (consensus/clique): the voting snapshot that each    *)
(* header carries on, the checks of a header against it, and a local       *)
(* signer that prepares and seals headers while others extend the chain.   *)
(*                                                                         *)
(* Addresses are numbers, in the order of signers(); 0 is the empty        *)
(* address.  A header is its signer, the account it votes on, the vote and *)
(* its difficulty; hashes, times, seals and the parts of extra-data with a *)
(* fixed form are left out.  A vote is kept without its block number.      *)
(***************************************************************************)
EXTENDS Integers, FiniteSets, FiniteSetsExt

CONSTANTS
  Address, Genesis,   \* accounts, and the signer lists a chain may begin with
  Subject, Local,     \* the accounts voted on; those that the local node uses
  Epoch,
  Width,              \* block numbers have this many bits
  MaxNumber,          \* bound on the length of the chain
  MaxProposals        \* bound on the calls of Propose, Discard and Authorize

VARIABLES
  snap,       \* the snapshot of the last header, with its number
  signer,     \* c.signer of the local node, and its proposals
  proposals,
  work,       \* the header that the local node has prepared, and for whom
  calls,
  latest,     \* history: the last vote of each signer on each account that the
              \* rules let stand
  broken      \* history: a header was verified that no snapshot can take in

vars == <<snap, signer, proposals, work, calls, latest, broken>>

Number == 2 ^ Width
NoTally == [authorize |-> FALSE, votes |-> 0]
newSnapshot(signers) ==
  [number |-> 0, signers |-> signers, recents |-> [n \in {} |-> 0],
   votes |-> {}, tally |-> [a \in Address |-> NoTally]]
NoWork == [number |-> 0]
NoVote == "none"
Init ==
  /\ snap \in {newSnapshot(g) : g \in Genesis}
  /\ signer = Min(Local) /\ work = NoWork /\ calls = 0
  /\ proposals \in {[a \in {} |-> TRUE], [a \in {Max(Subject)} |-> TRUE]}
  /\ latest = [s \in Address |-> [a \in Address |-> NoVote]] /\ broken = FALSE

limit(s) == Cardinality(s.signers) \div 2 + 1

----------------------------------------------------------------------------
(* Snapshot.                                                               *)

validVote(s, a, authorize) == (a \in s.signers) # authorize

\* cast and uncast: a tally of no votes is one that is not there.
cast(s, v, n) ==
  IF ~validVote(s, v.address, v.authorize) THEN s
  ELSE [s EXCEPT !.tally[v.address] =
                   IF @.votes = 0 THEN [authorize |-> v.authorize, votes |-> 1]
                   ELSE [@ EXCEPT !.votes = @ + 1],
                 !.votes = @ \cup {v}]

uncast(s, v) ==
  IF s.tally[v.address].votes = 0 \/ s.tally[v.address].authorize # v.authorize THEN s
  ELSE [s EXCEPT !.tally[v.address] =
                   IF @.votes > 1 THEN [@ EXCEPT !.votes = @ - 1] ELSE NoTally]

\* Votes are taken out of the list and of the tally.
discard(s, out) ==
  [FoldSet(LAMBDA v, u : uncast(u, v), s, out) EXCEPT !.votes = @ \ out]

forget(s, n) ==
  [s EXCEPT !.recents = [k \in DOMAIN s.recents \ {n - limit(s)} |-> s.recents[k]]]

checkpoint(s, n) ==
  IF n % Epoch # 0 THEN s
  ELSE [s EXCEPT !.votes = {}, !.tally = [a \in Address |-> NoTally]]

\* Faulty variant: the votes of a signer that is removed stay.
passedKeep(s, n, a) ==
  IF s.tally[a].votes <= Cardinality(s.signers) \div 2 THEN s
  ELSE LET left == IF s.tally[a].authorize THEN [s EXCEPT !.signers = @ \cup {a}]
                   ELSE forget([s EXCEPT !.signers = @ \ {a}], n)
       IN  [left EXCEPT !.votes = {v \in @ : v.address # a}, !.tally[a] = NoTally]

\* A vote that passed changes the signers.  The votes that a removed signer cast
\* are taken back, and all votes on the account are dropped.
passed(s, n, a) ==
  IF s.tally[a].votes <= Cardinality(s.signers) \div 2 THEN s
  ELSE LET left == IF s.tally[a].authorize THEN [s EXCEPT !.signers = @ \cup {a}]
                   ELSE discard(forget([s EXCEPT !.signers = @ \ {a}], n),
                                {v \in s.votes : v.signer = a})
       IN  [left EXCEPT !.votes = {v \in @ : v.address # a}, !.tally[a] = NoTally]

\* Whether a header may follow, by the snapshot: its signer is authorized and
\* not among the recent ones.  The empty address cannot become a signer here.
applies(s, h) ==
  LET f == forget(s, s.number + 1)
  IN  h.signer \in s.signers /\ \A k \in DOMAIN f.recents : f.recents[k] # h.signer

\* Faulty variant: an earlier vote of the signer on the account stays.
previousNone(s, h) == {}
previous(s, h) == {v \in s.votes : v.signer = h.signer /\ v.address = h.coinbase}

apply(s, h) ==
  LET n == s.number + 1
      f == forget(checkpoint(s, n), n)
      r == [f EXCEPT !.number = n,
              !.recents = [k \in DOMAIN f.recents \cup {n} |->
                             IF k = n THEN h.signer ELSE f.recents[k]]]
      v == [signer |-> h.signer, address |-> h.coinbase, authorize |-> h.authorize]
  IN  IF h.coinbase = 0 THEN r
      ELSE passed(cast(discard(r, previous(r, h)), v, n), n, h.coinbase)

\* The place of a signer in the ascending list is the number of those before.
inturn(s, n, a) ==
  n % Cardinality(s.signers) = Cardinality({b \in s.signers : b < a})

----------------------------------------------------------------------------
(* Clique.                                                                 *)

\* A signer that signed recently, unless this block shifts it out.  The
\* difference wraps round below zero.
recently(s, n, a) ==
  \E seen \in DOMAIN s.recents : s.recents[seen] = a /\ seen > (n - limit(s)) % Number

\* verifyHeader: a checkpoint has no vote; the difficulty is that of the turn.
verifyHeader(s, h) ==
  LET n == s.number + 1
  IN  /\ n % Epoch = 0 => h.coinbase = 0 /\ ~h.authorize
      /\ h.signer \in s.signers /\ ~recently(s, n, h.signer)
      /\ h.diff = IF inturn(s, n, h.signer) THEN 2 ELSE 1

Header == [signer : Address, coinbase : Subject \cup {0}, authorize : BOOLEAN, diff : {1, 2}]

\* What the votes of the chain are by the rules, kept beside the snapshot.
voted(l, h, n, before, after) ==
  LET here == IF n % Epoch = 0 THEN [s \in Address |-> [a \in Address |-> NoVote]] ELSE l
      cast1 == IF h.coinbase = 0 THEN here
               ELSE [here EXCEPT ![h.signer][h.coinbase] = IF h.authorize THEN "for" ELSE "against"]
      changed == (before \ after) \cup (after \ before)
  IN  [s \in Address |-> [a \in Address |->
         IF a \in changed \/ s \in before \ after THEN NoVote ELSE cast1[s][a]]]

\* A header is verified and becomes the head.
extend(h) ==
  LET next == apply(snap, h)
  IN  IF applies(snap, h)
      THEN /\ snap' = next /\ UNCHANGED broken
           /\ latest' = voted(latest, h, next.number, snap.signers, next.signers)
      ELSE broken' = TRUE /\ UNCHANGED <<snap, latest>>

Receive(h) ==
  /\ ~broken /\ snap.number < MaxNumber /\ h.signer # signer /\ verifyHeader(snap, h)
  /\ h.coinbase = 0 => ~h.authorize
  /\ extend(h)
  /\ UNCHANGED <<signer, proposals, work, calls>>

Call == calls < MaxProposals /\ calls' = calls + 1 /\ UNCHANGED <<snap, work, latest, broken>>

Propose(a, authorize) ==
  /\ Call /\ UNCHANGED signer
  /\ proposals' = [b \in DOMAIN proposals \cup {a} |->
                     IF b = a THEN authorize ELSE proposals[b]]

Discard(a) ==
  /\ Call /\ a \in DOMAIN proposals /\ UNCHANGED signer
  /\ proposals' = [b \in DOMAIN proposals \ {a} |-> proposals[b]]

Authorize(a) == Call /\ a # signer /\ signer' = a /\ UNCHANGED proposals

\* Prepare: a proposal that makes sense in the snapshot, picked at random, and
\* the difficulty.  Without signers the turn is a division by zero.
Prepare ==
  LET n == snap.number + 1
      sense == {a \in DOMAIN proposals : validVote(snap, a, proposals[a])}
      votes == IF n % Epoch = 0 \/ sense = {} THEN {[a |-> 0, auth |-> FALSE]}
               ELSE {[a |-> a, auth |-> proposals[a]] : a \in sense}
  IN  /\ ~broken /\ work = NoWork /\ n <= MaxNumber /\ snap.signers # {}
      /\ \E v \in votes :
           work' = [number |-> n, by |-> signer, parent |-> snap,
                    coinbase |-> v.a, authorize |-> v.auth,
                    diff |-> IF inturn(snap, n, signer) THEN 2 ELSE 1]
      /\ UNCHANGED <<snap, signer, proposals, calls, latest, broken>>

sealed == [signer |-> signer, coinbase |-> work.coinbase, authorize |-> work.authorize,
           diff |-> work.diff]

mayWait(s, n, a) ==
  \E seen \in DOMAIN s.recents :
    s.recents[seen] = a /\ (n < limit(s) \/ seen > n - limit(s))

\* Seal: the block goes to the chain if its parent is still the head; else, and
\* when it is not permitted or is stopped, nothing comes of it.
Seal ==
  /\ ~broken /\ work # NoWork
  /\ work' = NoWork
  /\ IF /\ signer \in work.parent.signers
        /\ ~mayWait(work.parent, work.number, signer)
        /\ work.parent = snap /\ verifyHeader(snap, sealed)
     THEN extend(sealed)
     ELSE UNCHANGED <<snap, latest, broken>>
  /\ UNCHANGED <<signer, proposals, calls>>

Next ==
  \/ \E h \in Header : Receive(h)
  \/ \E a \in Subject : Discard(a)
  \/ \E a \in Local : Authorize(a)
  \/ \E a \in Subject, authorize \in BOOLEAN : Propose(a, authorize)
  \/ Prepare \/ Seal

Spec == Init /\ [][Next]_vars

----------------------------------------------------------------------------
\* The tally of an account is the number of votes on it, all of one kind; each
\* signer has at most one, and only signers have any, whatever was uncast by a
\* new vote, a removal or a checkpoint.
TallyRight ==
  /\ \A a \in Address :
       LET on == {v \in snap.votes : v.address = a}
       IN  /\ snap.tally[a].votes = Cardinality(on)
           /\ \A v \in on : v.authorize = snap.tally[a].authorize
           /\ Cardinality({v.signer : v \in on}) = Cardinality(on)
  /\ \A v \in snap.votes : v.signer \in snap.signers

\* Accounts become signers, and cease to be, exactly when more than half of the
\* signers of that time voted so, each vote counted once.
MajorityRules ==
  \A a \in Address :
       (a \in snap'.signers) # (a \in snap.signers) =>
         \E h \in Header :
           /\ h.coinbase = a /\ h.authorize = (a \in snap'.signers)
           /\ LET all == voted(latest, h, snap'.number, {}, {})
                  how == IF h.authorize THEN "for" ELSE "against"
              IN  h.signer = snap'.recents[snap'.number]
                  /\ 2 * Cardinality({s \in snap.signers : all[s][a] = how})
                       > Cardinality(snap.signers)

\* The recent signers are those of the last limit blocks or fewer, also when the
\* limit changes, and some signer may always sign the next block.
RecentsRight ==
  /\ \A k \in DOMAIN snap.recents : k > snap.number - limit(snap) /\ k <= snap.number
  /\ snap.signers # {} => \E h \in Header : verifyHeader(snap, h) /\ applies(snap, h)

\* A header that the local node seals is one that others accept, unless its
\* account was changed since it was prepared.
SealedVerifies ==
  LET s == work.parent
  IN  work # NoWork /\ work.by = signer /\ signer \in s.signers
      /\ ~mayWait(s, work.number, signer) => verifyHeader(s, sealed) /\ applies(s, sealed)

\* And it does so from the number on from which the limit is not above it.
VerifiedAppliesLater ==
  broken => snap.number + 1 < limit(snap)
=============================================================================
