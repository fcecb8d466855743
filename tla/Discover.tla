------------------------------- MODULE Discover -------------------------------
(***************************************************************************)
(* Node discovery (p2p/discover): the table with its one interesting       *)
(* bucket, bonding with limited slots, lookups, the refresh loop, and the  *)
(* UDP transport's list of replies that are waited for.                    *)
(*                                                                         *)
(* Nodes are numbered by their distance to the target of the lookups.      *)
(* Other nodes answer, or not, or of their own accord send a ping.         *)
(***************************************************************************)
EXTENDS Integers, Sequences, SequencesExt, FiniteSets, FiniteSetsExt

CONSTANTS
  Node, Nursery,
  bucketSize, alpha, maxBondingPingPongs, maxFindnodeFailures,
  Answers,               \* the sets of nodes that a reply to findnode may have
  MaxLookups, MaxEvents  \* bounds on lookups; on pings, timer events, closing, and
                         \* bonds that grow old

VARIABLES
  bucket,   \* entries: a node and who contests it, the most active first
  db,       \* what the database has of each node
  plist,    \* replies that are waited for, oldest first
  bonds,    \* calls of bond
  slots, bonding,
  look,     \* calls of lookup
  rl,       \* refreshLoop and doRefresh
  count     \* how often the bounded things have happened

vars == <<bucket, db, plist, bonds, slots, bonding, look, rl, count>>

\* A call of bond: by whom it was made (a ping, a query of a lookup, or the
\* bootstrap), and for which node.
Lookup == {"user", "refresh"}
Caller == ({"in"} \X {0}) \cup (Lookup \X Node) \cup {<<"refresh", 0>>}
Call == {<<c[1], c[2], n>> : c \in Caller, n \in Node}
NoCall == <<"none", 0, 0>>

NoBond == [st |-> "no", pinged |-> FALSE, had |-> FALSE, err |-> FALSE, w |-> NoCall, old |-> 0]
NoLook == [st |-> "idle", first |-> FALSE, asked |-> {}, seen |-> {}, result |-> <<>>,
           q |-> [n \in Node |-> "none"], got |-> [n \in Node |-> {}]]

Init ==
  /\ bucket = <<>> /\ plist = <<>> /\ slots = maxBondingPingPongs
  /\ db = [n \in Node |-> [known |-> FALSE, fresh |-> FALSE, fails |-> 0]]
  /\ bonds = [c \in Call |-> NoBond] /\ bonding = [n \in Node |-> NoCall]
  /\ look = [l \in Lookup |-> NoLook]
  /\ rl = [st |-> "loop", at |-> "", waiting |-> {}]
  /\ count = [lookup |-> 0, event |-> 0]

Ids(b) == {b[i].id : i \in DOMAIN b}
Known(n) == rl.st # "closed" /\ db[n].known
Closing == rl.st # "loop"

----------------------------------------------------------------------------
(* The list of replies that are waited for.                                *)

wants(n, type, owner) == [from |-> n, type |-> type, owner |-> owner]

\* pending: what is waited for when the transport is closed fails at once.
pending(p) == plist' = IF Closing THEN plist ELSE Append(plist, p)
sent(ok) == IF Closing THEN "fail" ELSE ok

\* The reply of p has come, or has not.
wakeBond(p, how) ==
  IF p.owner[1] = "bond" THEN [bonds EXCEPT ![p.owner[2]].st = how] ELSE bonds
wakeLook(p, how) ==
  IF p.owner[1] = "look" THEN [look EXCEPT ![p.owner[2]].q[p.from] = how] ELSE look

resolve(i, how) ==
  /\ bonds' = wakeBond(plist[i], how) /\ look' = wakeLook(plist[i], how)
  /\ plist' = RemoveAt(plist, i)

First(n, type) ==
  LET is == {i \in DOMAIN plist : plist[i].from = n /\ plist[i].type = type}
  IN  IF is = {} THEN 0 ELSE Min(is)

\* A pong answers the oldest ping only: the loop ends where it removes an entry.
Pong(n) ==
  /\ First(n, "pong") # 0 /\ ~Closing
  /\ resolve(First(n, "pong"), "ok")
  /\ UNCHANGED <<bucket, db, slots, bonding, rl, count>>

\* A ping from a node that was waited for, or from any node.
Ping(n) ==
  LET c == <<"in", 0, n>>
  IN  /\ ~Closing
      /\ \/ /\ First(n, "ping") # 0
            /\ resolve(First(n, "ping"), "ok")
            /\ UNCHANGED count
         \/ /\ First(n, "ping") = 0 /\ bonds[c].st = "no" /\ count.event < MaxEvents
            /\ count' = [count EXCEPT !.event = @ + 1]
            /\ bonds' = [bonds EXCEPT ![c] = [NoBond EXCEPT !.st = "begin", !.pinged = TRUE]]
            /\ UNCHANGED <<plist, look>>
      /\ UNCHANGED <<bucket, db, slots, bonding, rl>>

\* Nodes that n knows; with enough of them a findnode is done, and the loop over
\* the list ends where that is removed.
Neighbors(n, ns) ==
  LET is == {i \in DOMAIN plist : plist[i].from = n /\ plist[i].type = "neighbors"}
      all(l) == look[l].got[n] \cup ns
      full == {i \in is : Cardinality(all(plist[i].owner[2])) >= bucketSize}
      fed == {plist[i].owner[2] : i \in {j \in is : \A k \in full : j <= k}}
  IN  /\ is # {} /\ ~Closing
      /\ look' = [l \in Lookup |->
                    IF l \notin fed THEN look[l]
                    ELSE [look[l] EXCEPT !.got[n] = all(l),
                            !.q[n] = IF Cardinality(all(l)) >= bucketSize THEN "ok" ELSE @]]
      /\ plist' = IF full = {} THEN plist ELSE RemoveAt(plist, Min(full))
      /\ UNCHANGED <<bucket, db, bonds, slots, bonding, rl, count>>

\* The timer is set for the oldest entry; all wait equally long.
Timeout ==
  /\ plist # <<>> /\ resolve(1, "fail")
  /\ UNCHANGED <<bucket, db, slots, bonding, rl, count>>

----------------------------------------------------------------------------
(* The bucket.                                                             *)

entry(n) == [id |-> n, by |-> NoCall]

bump(b, n) ==
  LET i == CHOOSE j \in DOMAIN b : b[j].id = n
  IN  <<entry(n)>> \o RemoveAt(b, i)

replace(b, n, last) ==
  IF n \in Ids(b) \/ (Len(b) = bucketSize /\ (last = 0 \/ b[bucketSize].id # last)) THEN b
  ELSE <<entry(n)>> \o IF Len(b) = bucketSize THEN Front(b) ELSE b

deleteNode(b, n) == SelectSeq(b, LAMBDA e : e.id # n)

stuff(b, ns) ==
  FoldLeft(LAMBDA x, n : IF n \in Ids(x) \/ Len(x) >= bucketSize THEN x ELSE Append(x, entry(n)),
           b, SetToSortSeq(ns, LAMBDA x, y : x < y))

----------------------------------------------------------------------------
(* bond.                                                                   *)

Begin(c) ==
  LET n == c[3]
      b == bonds[c]
      w == bonding[n]
  IN  /\ b.st = "begin"
      /\ IF Known(n) /\ db[n].fails = 0 /\ db[n].fresh
         THEN bonds' = [bonds EXCEPT ![c].st = "result", ![c].had = TRUE] /\ UNCHANGED bonding
         ELSE IF w = NoCall
         THEN /\ bonds' = [bonds EXCEPT ![c].st = "slot", ![c].had = Known(n)]
              /\ bonding' = [bonding EXCEPT ![n] = c]
         ELSE /\ bonds' = [bonds EXCEPT ![c].had = Known(n), ![c].w = w, ![c].err = bonds[w].err,
                             ![c].st = IF bonds[w].st = "unreg" THEN "result" ELSE "wait"]
              /\ UNCHANGED bonding
      /\ UNCHANGED <<bucket, db, plist, slots, look, rl, count>>

\* pingpong, with a slot.
Slot(c) ==
  /\ bonds[c].st = "slot" /\ slots > 0 /\ slots' = slots - 1
  /\ bonds' = [bonds EXCEPT ![c].st = sent("pong")]
  /\ pending(wants(c[3], "pong", <<"bond", c>>))
  /\ UNCHANGED <<bucket, db, bonding, look, rl, count>>

\* pingpong ends: those that wait for it are told, and the slot is given back.
finish(c, err) ==
  [d \in Call |->
     IF d = c THEN [bonds[d] EXCEPT !.st = "unreg", !.err = err]
     ELSE IF bonds[d].st = "wait" /\ bonds[d].w = c
     THEN [bonds[d] EXCEPT !.st = "result", !.err = err] ELSE bonds[d]]

giveBack(err) == slots + 1

\* After the pong, a ping is waited for unless there was one.
Pinged(c) ==
  LET b == bonds[c]
      n == c[3]
  IN  /\ bonding[n] = c /\ b.st \in {"ok", "fail"} /\ b.old = 0
      /\ IF b.st = "ok" /\ ~b.pinged
         THEN /\ bonds' = [bonds EXCEPT ![c].pinged = TRUE, ![c].st = sent("ping"), ![c].old = -1]
              /\ pending(wants(n, "ping", <<"bond", c>>))
              /\ db' = [db EXCEPT ![n].fresh = TRUE] /\ UNCHANGED slots
         ELSE /\ bonds' = finish(c, b.st = "fail")
              /\ slots' = giveBack(b.st = "fail")
              /\ db' = IF b.st = "ok" THEN [db EXCEPT ![n].known = TRUE, ![n].fresh = TRUE] ELSE db
              /\ UNCHANGED plist
      /\ UNCHANGED <<bucket, bonding, look, rl, count>>

\* The ping has come or not: the bond holds.
Waited(c) ==
  LET n == c[3]
  IN  /\ bonding[n] = c /\ bonds[c].st \in {"ok", "fail"} /\ bonds[c].old = -1
      /\ bonds' = [finish(c, FALSE) EXCEPT ![c].old = 0]
      /\ slots' = giveBack(FALSE) /\ db' = [db EXCEPT ![n].known = TRUE]
      /\ UNCHANGED <<bucket, plist, bonding, look, rl, count>>

Unregister(c) ==
  /\ bonds[c].st = "unreg" /\ bonds' = [bonds EXCEPT ![c].st = "result"]
  /\ bonding' = [bonding EXCEPT ![c[3]] = NoCall]
  /\ UNCHANGED <<bucket, db, plist, slots, look, rl, count>>

\* bond returns; a ping's call has no one to return to.
return(c) ==
  IF c[1] = "in" THEN NoBond
  ELSE [NoBond EXCEPT !.st = "end", !.had = bonds[c].had, !.err = bonds[c].err]

\* add: at the front of the bucket, or in place of the last entry if that does
\* not answer.
Add(c) ==
  LET b == bonds[c]
      n == c[3]
      last == bucket[bucketSize]
  IN  /\ b.st = "result"
      /\ IF b.err /\ ~b.had
         THEN bonds' = [bonds EXCEPT ![c] = return(c)] /\ UNCHANGED <<bucket, plist, db>>
         ELSE IF n \notin Ids(bucket) /\ Len(bucket) = bucketSize /\ last.by = NoCall
         THEN /\ bucket' = [bucket EXCEPT ![bucketSize].by = c]
              /\ bonds' = [bonds EXCEPT ![c].st = sent("contest"), ![c].old = last.id]
              /\ pending(wants(last.id, "pong", <<"bond", c>>)) /\ UNCHANGED db
         ELSE /\ bonds' = [bonds EXCEPT ![c] = return(c)]
              /\ bucket' = IF n \in Ids(bucket) THEN bump(bucket, n)
                           ELSE IF Len(bucket) = bucketSize THEN bucket
                           ELSE replace(bucket, n, 0)
              /\ db' = [db EXCEPT ![n].fails = 0] /\ UNCHANGED plist
      /\ UNCHANGED <<slots, bonding, look, rl, count>>

Contested(c) ==
  LET b == bonds[c]
      free == [i \in DOMAIN bucket |->
                 IF bucket[i].by = c THEN [bucket[i] EXCEPT !.by = NoCall] ELSE bucket[i]]
  IN  /\ b.st \in {"ok", "fail"} /\ b.old > 0
      /\ bucket' = IF b.st = "ok" THEN free ELSE replace(free, c[3], b.old)
      /\ db' = [db EXCEPT ![c[3]].fails = 0, ![b.old].fresh = @ \/ b.st = "ok"]
      /\ bonds' = [bonds EXCEPT ![c] = return(c)]
      /\ UNCHANGED <<plist, slots, bonding, look, rl, count>>

----------------------------------------------------------------------------
(* lookup.                                                                 *)

\* Entries are put in by distance; the list is not looked through for the node.
push(r, n) ==
  LET k == Cardinality({i \in DOMAIN r : r[i] <= n})
      a == SubSeq(r, 1, k) \o <<n>> \o SubSeq(r, k + 1, Len(r))
  IN  SubSeq(a, 1, Min({Len(a), bucketSize}))

closest(b) == FoldLeft(LAMBDA r, e : push(r, e.id), <<>>, b)

Busy(k) == Cardinality({n \in Node : k.q[n] # "none"})

\* The next nodes to ask.
next(k) ==
  LET open == {i \in DOMAIN k.result : k.result[i] \notin k.asked}
      free == alpha - Busy(k)
  IN  {k.result[i] : i \in {j \in open : Cardinality({h \in open : h < j}) < free}}

\* Queries are started; without any the lookup ends.
ask(l, k) ==
  LET ns == next(k)
      j == [k EXCEPT !.asked = @ \cup ns,
                     !.q = [n \in Node |-> IF n \in ns THEN sent("find") ELSE @[n]]]
      done == [NoLook EXCEPT !.st = "done", !.result = k.result]
  IN  /\ look' = [look EXCEPT ![l] = IF Busy(j) = 0 THEN done ELSE j]
      /\ plist' = IF Closing THEN plist
                  ELSE plist \o SetToSeq({wants(n, "neighbors", <<"look", l>>) : n \in ns})

\* lookup from its start: what the table has, or the refresh that is waited for.
Started(l, first) ==
  LET r == closest(bucket)
  IN  IF r = <<>> /\ first
      THEN look' = [look EXCEPT ![l] = [NoLook EXCEPT !.st = "refresh"]] /\ UNCHANGED plist
      ELSE ask(l, [NoLook EXCEPT !.st = "run", !.result = r])

Lookups ==
  /\ look["user"].st = "idle" /\ Started("user", TRUE)
  /\ count.lookup < MaxLookups /\ count' = [count EXCEPT !.lookup = @ + 1]
  /\ UNCHANGED <<bucket, db, bonds, slots, bonding, rl>>

\* findnode has ended: failures are counted, and what was found is bonded with.
Found(l, n) ==
  LET k == look[l]
      fails == db[n].fails + 1
      failed == k.q[n] = "fail"
  IN  /\ k.q[n] \in {"ok", "fail"}
      /\ db' = IF failed THEN [db EXCEPT ![n].fails = Min({fails, maxFindnodeFailures})] ELSE db
      /\ bucket' = IF failed /\ fails >= maxFindnodeFailures THEN deleteNode(bucket, n) ELSE bucket
      /\ bonds' = [c \in Call |-> IF c[1] = l /\ c[2] = n /\ c[3] \in k.got[n]
                                  THEN [NoBond EXCEPT !.st = "begin"] ELSE bonds[c]]
      /\ look' = [look EXCEPT ![l].q[n] = "bond"]
      /\ UNCHANGED <<plist, slots, bonding, rl, count>>

\* bondall has ended: those that bonded are candidates, unless seen before.
Reply(l, n) ==
  LET k == look[l]
      cs == {c \in Call : c[1] = l /\ c[2] = n /\ c[3] \in k.got[n]}
      new == {c[3] : c \in {d \in cs : ~bonds[d].err \/ bonds[d].had}} \ k.seen
  IN  /\ k.q[n] = "bond" /\ \A c \in cs : bonds[c].st = "end"
      /\ ask(l, [k EXCEPT !.q[n] = "none", !.got[n] = {}, !.seen = @ \cup new,
                   !.result = FoldLeft(push, @, SetToSortSeq(new, LAMBDA x, y : x < y))])
      /\ bonds' = [c \in Call |-> IF c \in cs THEN NoBond ELSE bonds[c]]
      /\ UNCHANGED <<bucket, db, slots, bonding, rl, count>>

Ended ==
  /\ look["user"].st = "done" /\ look' = [look EXCEPT !["user"] = NoLook]
  /\ UNCHANGED <<bucket, db, plist, bonds, slots, bonding, rl, count>>

----------------------------------------------------------------------------
(* refreshLoop and doRefresh.                                              *)

\* A lookup asks for a refresh, or need not wait as the table is closed.
Request ==
  /\ look["user"].st = "refresh"
  /\ \/ /\ rl.st = "loop" /\ "user" \notin rl.waiting
        /\ rl' = [rl EXCEPT !.waiting = {"user"}, !.at = IF @ = "" THEN "begin" ELSE @]
        /\ UNCHANGED <<look, plist>>
     \/ rl.st = "closed" /\ Started("user", FALSE) /\ UNCHANGED rl
  /\ UNCHANGED <<bucket, db, bonds, slots, bonding, count>>

Timer ==
  /\ rl.st = "loop" /\ rl.at = "" /\ count.event < MaxEvents
  /\ count' = [count EXCEPT !.event = @ + 1] /\ rl' = [rl EXCEPT !.at = "begin"]
  /\ UNCHANGED <<bucket, db, plist, bonds, slots, bonding, look>>

\* doRefresh: a lookup; if it found nothing, seeds and a lookup again.
Refresh ==
  /\ rl.at = "begin" /\ rl' = [rl EXCEPT !.at = "lookup"]
  /\ Started("refresh", FALSE)
  /\ UNCHANGED <<bucket, db, bonds, slots, bonding, count>>

Seeds ==
  /\ rl.at = "lookup" /\ look["refresh"].st = "done"
  /\ look' = [look EXCEPT !["refresh"] = NoLook]
  /\ IF look["refresh"].result # <<>>
     THEN rl' = [rl EXCEPT !.at = "done"] /\ UNCHANGED bonds
     ELSE \E ns \in SUBSET {n \in Node : Known(n)} :
            /\ rl' = [rl EXCEPT !.at = "seeds"]
            /\ bonds' = [c \in Call |-> IF c[1] = "refresh" /\ c[2] = 0 /\ c[3] \in ns \cup Nursery
                                        THEN [NoBond EXCEPT !.st = "begin"] ELSE bonds[c]]
  /\ UNCHANGED <<bucket, db, plist, slots, bonding, count>>

Stuff ==
  LET cs == {c \in Call : c[1] = "refresh" /\ c[2] = 0 /\ bonds[c].st # "no"}
      ns == {c[3] : c \in {d \in cs : ~bonds[d].err \/ bonds[d].had}}
  IN  /\ rl.at = "seeds" /\ \A c \in cs : bonds[c].st = "end"
      /\ bucket' = stuff(bucket, ns)
      /\ bonds' = [c \in Call |-> IF c \in cs THEN NoBond ELSE bonds[c]]
      /\ rl' = [rl EXCEPT !.at = "self"]
      /\ UNCHANGED <<db, plist, slots, bonding, look, count>>

\* The lookup of the node itself.
Self ==
  /\ rl.at = "self"
  /\ IF look["refresh"].st = "idle" THEN Started("refresh", FALSE) /\ UNCHANGED rl
     ELSE /\ look["refresh"].st = "done" /\ look' = [look EXCEPT !["refresh"] = NoLook]
          /\ rl' = [rl EXCEPT !.at = "done"] /\ UNCHANGED plist
  /\ UNCHANGED <<bucket, db, bonds, slots, bonding, count>>

\* The refresh is done: those that wait go on.  If the table is to be closed it
\* is now.
Refreshed ==
  /\ rl.at = "done" \/ (rl.st = "closing" /\ rl.at = "")
  /\ rl' = [rl EXCEPT !.at = "", !.waiting = {}, !.st = IF @ = "closing" THEN "closed" ELSE @]
  /\ IF "user" \in rl.waiting THEN Started("user", FALSE) ELSE UNCHANGED <<look, plist>>
  /\ UNCHANGED <<bucket, db, bonds, slots, bonding, count>>

\* Close: the transport is closed, and the refresh waited for.
Close ==
  /\ rl.st = "loop" /\ rl' = [rl EXCEPT !.st = "closing"]
  /\ count.event < MaxEvents /\ count' = [count EXCEPT !.event = @ + 1]
  /\ UNCHANGED <<bucket, db, plist, bonds, slots, bonding, look>>

\* The transport's loop ends: all that is waited for fails.
EndLoop ==
  /\ Closing /\ plist # <<>> /\ resolve(1, "fail")
  /\ UNCHANGED <<bucket, db, slots, bonding, rl, count>>

----------------------------------------------------------------------------
\* The last pong of a node gets old, and the node is forgotten.
Age(n) ==
  /\ db[n].fresh /\ count.event < MaxEvents /\ count' = [count EXCEPT !.event = @ + 1]
  /\ db' = [db EXCEPT ![n].fresh = FALSE]
  /\ UNCHANGED <<bucket, plist, bonds, slots, bonding, look, rl>>

Expire(n) ==
  /\ db[n].known /\ ~db[n].fresh
  /\ db' = [db EXCEPT ![n] = [known |-> FALSE, fresh |-> FALSE, fails |-> 0]]
  /\ UNCHANGED <<bucket, plist, bonds, slots, bonding, look, rl, count>>

Step(c) == Begin(c) \/ Slot(c) \/ Pinged(c) \/ Waited(c) \/ Unregister(c) \/ Add(c) \/ Contested(c)

Next ==
  \/ \E n \in Node : Pong(n) \/ Ping(n) \/ Age(n) \/ Expire(n)
  \/ \E n \in Node, ns \in Answers : Neighbors(n, ns)
  \/ Timeout \/ EndLoop
  \/ \E c \in Call : Step(c)
  \/ Lookups \/ Ended \/ Request
  \/ \E l \in Lookup, n \in Node : Found(l, n) \/ Reply(l, n)
  \/ Timer \/ Refresh \/ Seeds \/ Stuff \/ Self \/ Refreshed \/ Close

\* Weak fairness, spelled out: the goroutines go on, and what is waited for times
\* out, as long as there is something to do.
Rests(i) ==
  IF i # 1 THEN TRUE
  ELSE /\ plist = <<>> /\ rl.at \notin {"begin", "done"} /\ ~(rl.st = "closing" /\ rl.at = "")
       /\ \A c \in Call : bonds[c].st \in {"no", "wait", "end", "pong", "ping", "contest"}
                            \/ (bonds[c].st = "slot" /\ slots = 0)
       /\ \A l \in Lookup, n \in Node :
            \/ look[l].q[n] \in {"none", "find"}
            \/ look[l].q[n] = "bond" /\ \E m \in look[l].got[n] : bonds[<<l, n, m>>].st # "end"
       /\ look["user"].st # "done"
       /\ look["user"].st = "refresh" => "user" \in rl.waiting
       /\ rl.at \in {"lookup", "self"} => look["refresh"].st = "run"
       /\ rl.at = "seeds" => \E n \in Node : bonds[<<"refresh", 0, n>>].st \notin {"no", "end"}

Moves(i) == i = 1

Spec == Init /\ [][Next]_vars
FairSpec == Spec /\ ([]<>Rests(1) \/ []<><<Moves(1)>>_vars)

----------------------------------------------------------------------------
\* The bucket keeps its bound and no node twice, although the mutex is let go
\* while an entry is pinged.
BucketRight ==
  /\ Len(bucket) <= bucketSize
  /\ \A i, j \in DOMAIN bucket : bucket[i].id = bucket[j].id => i = j

\* Slots are neither lost nor made up, and those in use are of bonds that are
\* registered, one for each node.
SlotsRight ==
  /\ slots + Cardinality({c \in Call : bonding[c[3]] = c /\ bonds[c].st \in {"pong", "ping", "ok", "fail"}})
       = maxBondingPingPongs
  /\ \A n \in Node : bonding[n] # NoCall => bonds[bonding[n]].st \notin {"no", "begin", "end"}

\* Whatever is lost, and also if the table is closed meanwhile: every bond,
\* lookup and refresh ends, those that wait for one are told, and Close returns.
Quiet ==
  /\ \A c \in Call : bonds[c].st = "no"
  /\ look["user"].st = "idle" /\ rl.at = "" /\ rl.st # "closing"
=============================================================================
