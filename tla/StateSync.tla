----------------------------- MODULE StateSync -----------------------------
(***************************************************************************)
(* State download (bgm/downloader/statesync.go): stateSync.loop assigns    *)
(* what the trie scheduler misses to idle peers and processes what comes   *)
(* back; runStateSync tracks the requests in flight and hands over         *)
(* answers, timeouts and departures.                                       *)
(*                                                                         *)
(* Which tasks a request takes is a choice: the code ranges over a map.    *)
(***************************************************************************)
EXTENDS Integers, SequencesExt, FiniteSets, FiniteSetsExt

----------------------------------------------------------------------------
(* The scheduler of a trie download (trie/sync.go).  A node is a hash; the *)
(* hashes in it, in order, are Kids[n], repeated ones included: references *)
(* to trie nodes, and, in an account, to its storage trie and code.        *)

CONSTANTS Node, Root, Kids

\* A scheduler: the requests, those whose data has come, their parents and how
\* many children each waits for, the hashes not yet given out, the membatch.
NewTrieSync(disk) ==
  LET want == {Root} \ disk
  IN  [requests |-> want, data |-> {}, queue |-> want, batch |-> <<>>,
       parents |-> [n \in Node |-> <<>>], deps |-> [n \in Node |-> 0]]

Has(t, disk, n) == n \in disk \/ \E i \in DOMAIN t.batch : t.batch[i] = n

schedule(t, n, parent) ==
  [t EXCEPT !.parents[n] = Append(@, parent), !.requests = @ \cup {n},
            !.queue = IF n \in t.requests THEN @ ELSE @ \cup {n}]

\* A request whose data and children are there goes into the membatch, and with
\* it each parent that waited for nothing else.
RECURSIVE commit(_, _)
commit(t, n) ==
  FoldLeft(LAMBDA u, p :
             LET v == [u EXCEPT !.deps[p] = @ - 1]
             IN  IF v.deps[p] = 0 THEN commit(v, p) ELSE v,
           [t EXCEPT !.batch = Append(@, n), !.requests = @ \ {n},
                     !.data = @ \ {n}, !.parents[n] = <<>>],
           t.parents[n])

\* Faulty variant: a node is committed as soon as its data comes.
ProcessAtOnce(t, disk, n) ==
  LET kids == SelectSeq(Kids[n], LAMBDA k : ~Has(t, disk, k))
  IN  IF n \notin t.requests \/ n \in t.data THEN t
      ELSE commit(FoldLeft(LAMBDA v, k : [schedule(v, k, n) EXCEPT !.parents[k] = <<>>],
                           [t EXCEPT !.data = @ \cup {n}], kids), n)

\* A result: ignored if not requested or there already.
Process(t, disk, n) ==
  LET kids == SelectSeq(Kids[n], LAMBDA k : ~Has(t, disk, k))
      u == [t EXCEPT !.data = @ \cup {n}]
  IN  IF n \notin t.requests \/ n \in t.data THEN t
      ELSE IF kids = <<>> THEN commit(u, n)
      ELSE FoldLeft(LAMBDA v, k : schedule(v, k, n),
                    [u EXCEPT !.deps[n] = @ + Len(kids)], kids)

----------------------------------------------------------------------------
(* The download.                                                           *)

CONSTANTS
  Peer, Capacity,        \* node data that is asked of a peer at once
  MinRequest,            \* timing out on no more than this is unforgivable (2)
  MaxFaults, MaxCrashes, \* bounds
  MaxLate                \* bound on answers to requests that have timed out

VARIABLES
  s,        \* stateSync: the scheduler, the tasks and their attempts, and
            \* whether a peer answered with nothing or none was left (history)
  disk,
  active,   \* runStateSync: the request in flight of each peer
  gone,     \* peers whose request in flight is one of an earlier connection
  finished, \* requests to be handed to the loop
  peers, busy, drops,    \* peers; those not idle; departures not yet seen
  late,     \* answers still under way to requests that have timed out
  faults, crashes

vars == <<s, disk, active, gone, finished, peers, busy, drops, late, faults, crashes>>

NoReq == {}
start(dsk) == [t |-> NewTrieSync(dsk), tasks |-> {}, tried |-> [n \in Node |-> {}],
               err |-> FALSE, excused |-> FALSE]

Init ==
  /\ disk = {} /\ s = start({})
  /\ active = [p \in Peer |-> NoReq] /\ gone = {} /\ finished = <<>>
  /\ peers = Peer /\ busy = {} /\ drops = {} /\ late = {}
  /\ faults = 0 /\ crashes = 0

Fault == faults < MaxFaults /\ faults' = faults + 1
Ended == s.err \/ s.t.requests = {}

\* A request that ended: its peer, whether the connection is still the same, its
\* items, what came back, and how it ended.
req(p, got, how) == [peer |-> p, same |-> p \notin gone, items |-> active[p],
                     got |-> got, how |-> how]

\* The connections of these peers end: what was asked of them stays.
leave(who, fin) ==
  /\ peers' = peers \ who /\ drops' = drops \cup who
  /\ late' = {l \in late : l[1] \notin who}
  /\ gone' = gone \cup {p \in who : active[p] # NoReq}
  /\ finished' = [i \in DOMAIN fin |->
                    [fin[i] EXCEPT !.same = @ /\ fin[i].peer \notin who]]

----------------------------------------------------------------------------
(* assignTasks and fillTasks, with the tracking of the request.            *)

Assign(p) ==
  /\ ~Ended /\ p \in peers \ busy
  /\ \E new \in kSubset(Min({Cardinality(s.t.queue),
                             Max({Capacity - Cardinality(s.tasks), 0})}), s.t.queue) :
       LET tasks == s.tasks \cup new
           open  == {n \in tasks : p \notin s.tried[n]}
       IN  /\ open # {}
           /\ \E items \in kSubset(Min({Capacity, Cardinality(open)}), open) :
                /\ s' = [s EXCEPT !.t.queue = @ \ new, !.tasks = tasks \ items,
                           !.tried = [n \in Node |-> IF n \in items THEN @[n] \cup {p}
                                                     ELSE @[n]]]
                /\ active' = [active EXCEPT ![p] = items]
                /\ finished' = IF active[p] = NoReq THEN finished
                               ELSE Append(finished, req(p, {}, "dropped"))
  /\ gone' = gone \ {p}
  /\ busy' = busy \cup {p}
  /\ UNCHANGED <<disk, peers, drops, late, faults, crashes>>

----------------------------------------------------------------------------
(* runStateSync: a request ends.                                           *)

EndRequest(p, got, how) ==
  /\ finished' = IF active[p] = NoReq THEN finished
                 ELSE Append(finished, req(p, got, how))
  /\ active' = [active EXCEPT ![p] = NoReq] /\ gone' = gone \ {p}

\* A peer answers, in the order of its requests, with all that it was asked for
\* or, if not at its best, with less.
Answer(p) ==
  /\ p \in peers \ gone /\ active[p] # NoReq /\ \A l \in late : l[1] # p
  /\ \/ EndRequest(p, active[p], "answer") /\ UNCHANGED faults
     \/ \E got \in SUBSET active[p] : EndRequest(p, got, "answer") /\ Fault
  /\ UNCHANGED <<s, disk, peers, busy, drops, late, crashes>>

\* No answer in time.  It may still come.
Timeout(p) ==
  /\ active[p] # NoReq
  /\ IF p \in peers \ gone THEN Fault ELSE UNCHANGED faults
  /\ EndRequest(p, {}, "timeout")
  /\ late' \in {late} \cup (IF p \in peers \ gone /\ Cardinality(late) < MaxLate
                            THEN {late \cup {<<p, active[p]>>}} ELSE {})
  /\ UNCHANGED <<s, disk, peers, busy, drops, crashes>>

\* The late answer is taken for one to the request in flight, if there is one.
LateAnswer(p) ==
  /\ \E items \in SUBSET Node :
       /\ <<p, items>> \in late /\ late' = late \ {<<p, items>>}
       /\ EndRequest(p, items, "answer")
  /\ UNCHANGED <<s, disk, peers, busy, drops, faults, crashes>>

Leave(p) ==
  /\ p \in peers /\ Fault
  /\ leave({p}, finished) /\ busy' = busy \ {p}
  /\ UNCHANGED <<s, disk, active, crashes>>

\* A new connection, idle.
Join(p) ==
  /\ p \notin peers /\ peers' = peers \cup {p}
  /\ UNCHANGED <<s, disk, active, gone, finished, busy, drops, late, faults, crashes>>

PeerDrop(p) ==
  /\ p \in drops /\ drops' = drops \ {p}
  /\ EndRequest(p, {}, "dropped")
  /\ UNCHANGED <<s, disk, peers, busy, late, faults, crashes>>

----------------------------------------------------------------------------
(* loop: process a request that has ended.                                 *)

\* What was not delivered becomes a task again, open to the peer unless it
\* answered with nothing at all.  A task that as many peers as there are have
\* tried ends the sync.
retry(u, r, left, all) ==
  LET again == r.got # {} \/ r.how # "answer"
      tried == [n \in Node |-> IF n \in left /\ again THEN u.tried[n] \ {r.peer}
                               ELSE u.tried[n]]
  IN  [u EXCEPT !.tried = tried, !.tasks = @ \cup left,
                !.err = \E n \in left : Cardinality(tried[n]) >= Cardinality(all),
                !.excused = @ \/ ~again \/ all = {}]

process(r) == FoldLeft(LAMBDA u, n : Process(u, disk, n), s.t, SetToSeq(r.got))

\* Data is written to the database at some point (commit(false)), at the end
\* for certain.  A peer that timed out on a small request is dropped; one whose
\* answer has nothing of what was asked stays busy.
Deliver ==
  LET r == Head(finished)
      t == process(r)
      drop == IF r.how = "timeout" /\ Cardinality(r.items) <= MinRequest
              THEN peers \cap {r.peer} ELSE {}
      u == retry([s EXCEPT !.t = t], r, r.items \ r.got, peers \ drop)
      stale == r.got # {} /\ r.got \cap r.items = {}
  IN  /\ ~Ended /\ finished # <<>>
      /\ leave(drop, Tail(finished))
      /\ \E flush \in BOOLEAN :
           /\ ~u.err /\ t.requests = {} => flush
           /\ u.err => ~flush
           /\ disk' = IF flush THEN disk \cup ToSet(t.batch) ELSE disk
           /\ s' = IF flush THEN [u EXCEPT !.t.batch = <<>>] ELSE u
      /\ busy' = IF stale \/ ~r.same THEN busy ELSE busy \ {r.peer}
      /\ UNCHANGED <<active, faults, crashes>>

\* The process dies; the next sync of this state starts from the database.
Crash ==
  /\ crashes < MaxCrashes /\ crashes' = crashes + 1
  /\ s' = start(disk) /\ active' = [p \in Peer |-> NoReq] /\ gone' = {}
  /\ finished' = <<>>
  /\ busy' = {} /\ drops' = {} /\ late' = {}
  /\ UNCHANGED <<disk, peers, faults>>

Next ==
  \/ Deliver \/ Crash
  \/ \E p \in Peer :
       \/ Assign(p) \/ Answer(p) \/ Timeout(p) \/ LateAnswer(p)
       \/ Leave(p) \/ Join(p) \/ PeerDrop(p)

\* Weak fairness, partly spelled out as "infinitely often at rest, or infinitely
\* often moved": the loop goes on, peers that stay answer, requests of others
\* time out, and peers that left come back.
Rests(i) ==
  CASE i = 1 -> Ended \/ finished = <<>>
    [] i = 2 -> \A p \in Peer : active[p] = NoReq
    [] i = 3 -> peers = Peer
    [] OTHER -> TRUE

Moves(i) ==
  CASE i = 1 -> Len(finished') < Len(finished)
    [] i = 2 -> active' # active
    [] i = 3 -> peers' # peers
    [] OTHER -> FALSE

Fair(i) == i = 1 /\ \E p \in Peer : Assign(p)

Spec == Init /\ [][Next]_vars
FairSpec ==
  Spec /\ WF_vars(Fair(1)) /\ \A i \in 1..3 : []<>Rests(i) \/ []<><<Moves(i)>>_vars

----------------------------------------------------------------------------
\* A node in the database has all its children there: so a node that is found
\* in the database need not be looked into, also after a crash.
DiskClosed == \A n \in disk : \A i \in DOMAIN Kids[n] : Kids[n][i] \in disk

\* Each node that is missing is waiting to be assigned, or with a peer, or in
\* a request that is to be processed.
NothingLost ==
  ~s.err => \A n \in s.t.requests \ s.t.data :
     \/ n \in s.t.queue \cup s.tasks
     \/ \E p \in Peer : n \in active[p]
     \/ \E i \in DOMAIN finished : n \in finished[i].items

\* A sync gives up only if some peer has answered with nothing, or if none is
\* left: slow peers and short answers are no reason.
GivesUpRightly == s.err => s.excused

\* A peer that is taken for busy although nothing is asked of it: the answer to
\* an earlier request was taken for that to the last one.
Stuck(p) ==
  /\ p \in peers \cap busy /\ active[p] = NoReq
  /\ \A i \in DOMAIN finished : finished[i].peer # p

\* The state arrives whole, however often peers leave or time out, unless the
\* sync gives up or a peer gets stuck.
Arrived == s.err \/ Node \subseteq disk \/ \E p \in Peer : Stuck(p)
=============================================================================
