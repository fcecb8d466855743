------------------------------ MODULE StateDB ------------------------------
(***************************************************************************)
(* The state database (core/state): accounts cached as state objects, a    *)
(* journal that undoes changes back to a snapshot, and a set of dirty      *)
(* accounts that alone are written to the trie.  The rules are those of    *)
(* Byzantium: empty accounts are deleted when a transaction ends.          *)
(*                                                                         *)
(* Each account has one storage slot.  An object that is loaded from the   *)
(* trie only to be read is not told from one that is not loaded.           *)
(***************************************************************************)
EXTENDS Integers, Sequences, SequencesExt, FiniteSets

CONSTANTS
  Addr,
  Genesis,       \* tries to start from: functions from Addr to accounts or None
  MaxBalance, MaxJournal, MaxSnapshots, MaxTxs   \* bounds

VARIABLES
  trie,      \* the account trie of the StateDB
  s,         \* the StateDB: objects, dirty set, journal, revisions, refund, logs
  copy,      \* a copy of it, with what could be read from it when it was made
  txs, done  \* transactions finalised; CommitTo has run

vars == <<trie, s, copy, txs, done>>

None == [none |-> TRUE]
Account(nonce, bal, code, stor) == [nonce |-> nonce, bal |-> bal, code |-> code, stor |-> stor]

----------------------------------------------------------------------------
(* State objects.                                                          *)

newObject(d) == [data |-> d, suicided |-> FALSE, deleted |-> FALSE,
                 touched |-> FALSE, onDirty |-> TRUE]
empty(o) == o.data.nonce = 0 /\ o.data.bal = 0 /\ o.data.code = 0

\* What the getters see, given the cached objects.
getStateObject(objs, a) ==
  IF objs[a] # None THEN IF objs[a].deleted THEN None ELSE objs[a]
  ELSE IF trie[a] # None THEN newObject(trie[a]) ELSE None

Seen(objs, a) ==
  LET o == getStateObject(objs, a)
  IN  IF o = None THEN None ELSE [data |-> o.data, suicided |-> o.suicided]
View(t) == [accounts |-> [a \in Addr |-> Seen(t.objs, a)], refund |-> t.refund, logs |-> t.logs]

\* An object changes; the first time it tells the dirty set of it.
modify(t, a, o) ==
  [t EXCEPT !.objs[a] = [o EXCEPT !.onDirty = FALSE],
            !.dirty = IF o.onDirty THEN @ \cup {a} ELSE @]
log(t, e) == [t EXCEPT !.journal = Append(@, e)]

createObject(t, a) ==
  LET prev == getStateObject(t.objs, a)
  IN  log(modify(t, a, newObject(Account(0, 0, 0, 0))),
          IF prev = None THEN [kind |-> "create", a |-> a]
          ELSE [kind |-> "reset", a |-> a, prev |-> prev])

GetOrNewStateObject(t, a) ==
  LET o == getStateObject(t.objs, a)
  IN  IF o = None THEN createObject(t, a) ELSE [t EXCEPT !.objs[a] = o]

\* Each setter records what it overwrites.
set(t, a, field, v) ==
  LET o == t.objs[a]
  IN  modify(log(t, [kind |-> "set", a |-> a, field |-> field, prev |-> o.data[field]]),
             a, [o EXCEPT !.data[field] = v])

\* AddBalance of nothing touches an empty account, so that it will be deleted.
touch(t, a) ==
  LET o == t.objs[a]
  IN  modify(log(t, [kind |-> "touch", a |-> a, prev |-> o.touched, prevDirty |-> ~o.onDirty]),
             a, [o EXCEPT !.touched = TRUE])

AddBalance(t, a, n) ==
  IF n # 0 THEN set(t, a, "bal", t.objs[a].data.bal + n)
  ELSE IF empty(t.objs[a]) THEN touch(t, a) ELSE t


Suicide(t, a) ==
  LET o == getStateObject(t.objs, a)
  IN  modify(log(t, [kind |-> "suicide", a |-> a, prev |-> o.suicided, bal |-> o.data.bal]),
             a, [o EXCEPT !.suicided = TRUE, !.data.bal = 0])

\* CreateAccount keeps the balance, without a journal entry of its own.
CreateAccount(t, a) ==
  LET prev == getStateObject(t.objs, a)
      u == createObject(t, a)
  IN  IF prev = None THEN u ELSE [u EXCEPT !.objs[a].data.bal = prev.data.bal]

----------------------------------------------------------------------------
(* The journal.                                                            *)

undo(t, e) ==
  CASE e.kind = "create" -> [t EXCEPT !.objs[e.a] = None, !.dirty = @ \ {e.a}]
    [] e.kind = "reset" -> [t EXCEPT !.objs[e.a] = e.prev]
    [] e.kind = "set" -> modify(t, e.a, [t.objs[e.a] EXCEPT !.data[e.field] = e.prev])
    [] e.kind = "touch" ->
         IF e.prev THEN t
         ELSE [t EXCEPT !.objs[e.a].touched = FALSE,
                        !.dirty = IF e.prevDirty THEN @ ELSE @ \ {e.a}]
    [] e.kind = "suicide" ->
         modify(t, e.a, [t.objs[e.a] EXCEPT !.suicided = e.prev, !.data.bal = e.bal])
    [] e.kind = "refund" -> [t EXCEPT !.refund = e.prev]
    [] e.kind = "log" -> [t EXCEPT !.logs = @ - 1]

\* A revision: the length of the journal and, as history, what could be seen.
Snapshot(t) == [t EXCEPT !.revs = Append(@, [len |-> Len(t.journal), view |-> View(t)])]

RevertToSnapshot(t, i) ==
  LET undone == FoldLeft(undo, t, Reverse(SubSeq(t.journal, t.revs[i].len + 1, Len(t.journal))))
  IN  [undone EXCEPT !.journal = SubSeq(@, 1, t.revs[i].len), !.revs = SubSeq(@, 1, i - 1)]

clearJournalAndRefund(t) == [t EXCEPT !.journal = <<>>, !.revs = <<>>, !.refund = 0]

----------------------------------------------------------------------------
(* Writing to the trie.                                                    *)

dead(o) == o.suicided \/ empty(o)

\* Finalise, at the end of a transaction: dirty objects go to the trie and stay
\* dirty.  Prepare gives the next transaction logs of its own.
Finalise ==
  /\ ~done /\ txs < MaxTxs /\ txs' = txs + 1
  /\ trie' = [a \in Addr |-> IF a \notin s.dirty THEN trie[a]
                             ELSE IF dead(s.objs[a]) THEN None ELSE s.objs[a].data]
  /\ s' = clearJournalAndRefund(
            [s EXCEPT !.logs = 0,
                      !.objs = [a \in Addr |-> IF a \in s.dirty /\ dead(@[a])
                                               THEN [@[a] EXCEPT !.deleted = TRUE] ELSE @[a]]])
  /\ UNCHANGED <<copy, done>>

\* CommitTo: the database is not used any more.
CommitTo ==
  /\ ~done /\ done' = TRUE
  /\ trie' = [a \in Addr |->
                LET o == s.objs[a]
                IN  IF o # None /\ (o.suicided \/ (a \in s.dirty /\ empty(o))) THEN None
                    ELSE IF a \in s.dirty THEN o.data ELSE trie[a]]
  /\ s' = clearJournalAndRefund(
            [s EXCEPT !.dirty = {},
                      !.objs = [a \in Addr |-> IF @[a] # None /\ (@[a].suicided \/ (a \in s.dirty /\ empty(@[a])))
                                               THEN [@[a] EXCEPT !.deleted = TRUE] ELSE @[a]]])
  /\ UNCHANGED <<copy, txs>>

deepCopy(o) == [o EXCEPT !.onDirty = TRUE, !.touched = FALSE]

\* Copy: the dirty objects; the trie is that of the original, not a copy of it.
\* It is made between two transactions.
Copy ==
  /\ copy = None /\ s.journal = <<>> /\ s.revs = <<>>
  /\ copy' = [objs |-> [a \in Addr |-> IF a \in s.dirty THEN deepCopy(s.objs[a]) ELSE None],
              dirty |-> s.dirty, view |-> View(s).accounts]
  /\ UNCHANGED <<trie, s, txs, done>>

----------------------------------------------------------------------------
Init ==
  /\ trie \in Genesis
  /\ s = [objs |-> [a \in Addr |-> None], dirty |-> {}, journal |-> <<>>, revs |-> <<>>,
          refund |-> 0, logs |-> 0]
  /\ copy = None /\ txs = 0 /\ done = FALSE

Do(t) == s' = t /\ UNCHANGED <<trie, copy, txs, done>>
Room == ~done /\ Len(s.journal) < MaxJournal

\* The setters, on an account that is created if it is not there.
Set(a) ==
  LET t == GetOrNewStateObject(s, a)
      d == t.objs[a].data
  IN  /\ Room
      /\ \/ \E n \in 0..1 : d.bal + n <= MaxBalance /\ Do(AddBalance(t, a, n))
         \/ d.bal > 0 /\ Do(set(t, a, "bal", d.bal - 1))
         \/ d.nonce = 0 /\ Do(set(t, a, "nonce", 1))
         \/ d.code = 0 /\ Do(set(t, a, "code", 1))
         \/ \E v \in {0, 1} \ {d.stor} : Do(set(t, a, "stor", v))

Destroy(a) == Room /\ getStateObject(s.objs, a) # None /\ Do(Suicide(s, a))
Create(a) == Room /\ Do(CreateAccount(s, a))
AddRefund == Room /\ Do([log(s, [kind |-> "refund", prev |-> s.refund]) EXCEPT !.refund = @ + 1])
AddLog == Room /\ Do([log(s, [kind |-> "log"]) EXCEPT !.logs = @ + 1])
Snap == ~done /\ Len(s.revs) < MaxSnapshots /\ Do(Snapshot(s))
Revert == ~done /\ \E i \in DOMAIN s.revs : Do(RevertToSnapshot(s, i))

Next ==
  \/ \E a \in Addr : Set(a) \/ Destroy(a) \/ Create(a)
  \/ AddRefund \/ AddLog \/ Snap \/ Revert \/ Finalise \/ CommitTo \/ Copy

Spec == Init /\ [][Next]_vars

----------------------------------------------------------------------------
\* Undoing the journal back to a snapshot brings back all that could be seen
\* when it was taken: for each open revision, undoing now gives its view.
RevertRestores == \A i \in DOMAIN s.revs : View(RevertToSnapshot(s, i)) = s.revs[i].view

\* An undone touch takes the account from the dirty set, but the object will not
\* report later changes.
Unmarked(a) == s.objs[a] # None /\ ~s.objs[a].onDirty /\ a \notin s.dirty

\* What is written is what could be seen, without the accounts that are dead,
\* except for accounts that are not marked.
CommitSaves ==
  done' /\ ~done =>
       \A a \in Addr : ~Unmarked(a) =>
         LET o == getStateObject(s.objs, a)
         IN  trie'[a] = IF o = None \/ (s.objs[a] # None /\ dead(o)) THEN None ELSE o.data

\* The accounts that were dirty when the copy was made stay in it as they were.
CopyHolds ==
  copy # None => \A a \in copy.dirty : Seen(copy.objs, a) = copy.view[a]

=============================================================================
