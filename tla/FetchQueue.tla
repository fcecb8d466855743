----------------------------- MODULE FetchQueue -----------------------------
(***************************************************************************)
(* The download queue of bgm/downloader/queue.go for block bodies and      *)
(* receipts, with the flags of bgm/downloader/peer.go that say whether a   *)
(* peer is busy.  Every method runs under the queue's lock and is one step;*)
(* the steps of fetchParts that call them interleave freely.               *)
(*                                                                         *)
(* A header is its number on the chain being downloaded, or Stray for one  *)
(* that does not continue it.  Contents are not modelled: an answer is how *)
(* many items it has and the first of them that does not match its header. *)
(* The order of taskQueue is by number, so the queue is a bag of headers.  *)
(***************************************************************************)
EXTENDS Integers, Sequences, SequencesExt, FiniteSets, FiniteSetsExt

CONSTANTS
  Peer,
  Faulty,                \* peers that may answer late, badly or not at all
  Height,                  \* height of the chain; the origin is 0
  fastSyncPivot,         \* 0 in a full sync
  NoBody, NoReceipts,    \* headers whose body, or receipts, are empty
  Stray, None,
  blockCacheLimit, fsHeaderForceVerify,
  Capacities,            \* how much a peer may be asked for at once
  MaxFaults              \* bound on what faulty peers do

VARIABLES
  q,        \* the queue
  busy,     \* kind of data to the peers whose idle flag is 1
  lacking,  \* peer to the headers it is known not to have
  peers,    \* registered peers
  failed,   \* a method returned errInvalidChain
  results,  \* history: what WaitResults returned
  faults

vars == <<q, busy, lacking, peers, failed, results, faults>>

Header == 1..Height
Kind == {"body", "receipt"}
Kinds(h) == IF h <= fastSyncPivot THEN Kind ELSE {"body"}
Components(h) == Cardinality(Kinds(h))
isNoop(kind, h) == h \in IF kind = "body" THEN NoBody ELSE NoReceipts

Init ==
  /\ q = [head |-> 0,
          taskPool |-> [k \in Kind |-> {}],
          taskQueue |-> [k \in Kind |-> [h \in Header |-> 0]],
          pendPool |-> [k \in Kind |-> [p \in Peer |-> <<>>]],
          donePool |-> [k \in Kind |-> {}],
          resultCache |-> [i \in 1..blockCacheLimit |-> None],
          resultOffset |-> 1]
  /\ busy = [k \in Kind |-> {}] /\ lacking = [p \in Peer |-> {}]
  /\ peers = Peer /\ failed = FALSE /\ results = <<>> /\ faults = 0

Fault(p) == p \in Faulty /\ faults < MaxFaults /\ faults' = faults + 1

----------------------------------------------------------------------------
\* Schedule adds headers up to the first that does not continue the chain.
scheduleHeader(acc, h) ==
  IF acc.stop \/ h # acc.g.head + 1 THEN [acc EXCEPT !.stop = TRUE]
  ELSE [acc EXCEPT
          !.g.head = h,
          !.g.taskPool = [k \in Kind |-> IF k \in Kinds(h) THEN @[k] \cup {h} ELSE @[k]],
          !.g.taskQueue = [k \in Kind |->
                             IF k \in Kinds(h) THEN [@[k] EXCEPT ![h] = @ + 1] ELSE @[k]]]

\* processHeaders gives up when a header was not taken.
Schedule(headers) ==
  LET acc == FoldLeft(scheduleHeader, [g |-> q, stop |-> FALSE], headers)
  IN  /\ ~failed
      /\ q' = acc.g /\ failed' = acc.stop
      /\ UNCHANGED <<busy, lacking, peers, results, faults>>

\* The headers of taskQueue, lowest number first.
Queued(g, k) == SelectSeq([h \in Header |-> h], LAMBDA h : g.taskQueue[k][h] > 0)
Push(g, k, hs) ==
  [g EXCEPT !.taskQueue[k] = [h \in Header |->
     @[h] + Len(SelectSeq(hs, LAMBDA x : x = h))]]

\* Places in the pending requests of a kind, and those that hold header h.
Requested(g, k) == UNION {{p} \X DOMAIN g.pendPool[k][p] : p \in Peer}
RequestedAt(g, k, h) == {x \in Requested(g, k) : g.pendPool[k][x[1]][x[2]] = h}
Space(g, k) == blockCacheLimit - Cardinality(g.donePool[k]) - Cardinality(Requested(g, k))

\* Slot of a header in resultCache, and whether it is one.
Slot(g, h) == h - g.resultOffset + 1
InCache(g, h) == Slot(g, h) \in 1..blockCacheLimit

\* One round of the loop of reserveHeaders: the header gets its place in
\* resultCache; it is done at once when there is nothing to fetch, and skipped
\* when the peer lacks it.
reserveHeader(acc, k, p, count, h) ==
  IF acc.err \/ acc.proc >= acc.space \/ Len(acc.send) >= count THEN acc
  ELSE IF ~InCache(acc.g, h) THEN [acc EXCEPT !.err = TRUE, !.g.taskQueue[k][h] = @ - 1]
  ELSE LET s == Slot(acc.g, h)
           g == [acc.g EXCEPT
                   !.taskQueue[k][h] = @ - 1,
                   !.resultCache[s] = IF @ # None THEN @
                      ELSE [header |-> h, pending |-> Components(h)]]
       IN  IF isNoop(k, h)
           THEN [acc EXCEPT
                   !.g = [g EXCEPT !.donePool[k] = @ \cup {h},
                                   !.taskPool[k] = @ \ {h},
                                   !.resultCache[s].pending = @ - 1],
                   !.space = @ - 1]
           ELSE IF h \in lacking[p]
           THEN [acc EXCEPT !.g = g, !.skip = Append(@, h), !.proc = @ + 1]
           ELSE [acc EXCEPT !.g = g, !.send = Append(@, h), !.proc = @ + 1]

\* reserveHeaders for an idle peer, called by fetchParts unless throttled; the
\* peer is busy once the request is sent.
CanReserve(k, p) ==
  /\ ~failed /\ p \in peers \ busy[k] /\ q.pendPool[k][p] = <<>>
  /\ Space(q, k) > 0 /\ Queued(q, k) # <<>>

Reserve(k, p, count) ==
  /\ CanReserve(k, p)
  /\ LET acc == FoldLeft(LAMBDA a, h : reserveHeader(a, k, p, count, h),
                  [g |-> q, proc |-> 0, space |-> Space(q, k),
                   send |-> <<>>, skip |-> <<>>, err |-> FALSE],
                  Queued(q, k))
     IN  IF acc.err THEN q' = acc.g /\ failed' = TRUE /\ UNCHANGED busy
         ELSE /\ q' = [Push(acc.g, k, acc.skip) EXCEPT !.pendPool[k][p] = acc.send]
              /\ busy' = IF acc.send = <<>> THEN busy ELSE [busy EXCEPT ![k] = @ \cup {p}]
              /\ UNCHANGED failed
  /\ UNCHANGED <<lacking, peers, results, faults>>

----------------------------------------------------------------------------

\* The headers that an answer left open are queued again.
deliverBack(g, k, hs) == Push(g, k, hs)

\* deliver for an answer of n items of which item bad is the first that does
\* not match (n + 1 when all do).  fetchParts sets the peer idle again, unless
\* nothing matched: then the answer is taken for a stale one.
Deliver(k, p, n, bad) ==
  LET request  == q.pendPool[k][p]
      asked    == Min({n, Len(request)})
      placed(i) == InCache(q, request[i]) /\ q.resultCache[Slot(q, request[i])] # None
      accepted == Max({i \in 0..asked : \A j \in 1..i : placed(j) /\ j < bad})
      invalid  == accepted < asked /\ ~placed(accepted + 1)
      good     == SubSeq(request, 1, accepted)
      cache    == [s \in 1..blockCacheLimit |->
                     IF \E i \in 1..accepted : Slot(q, request[i]) = s
                     THEN [q.resultCache[s] EXCEPT !.pending = @ - 1]
                     ELSE q.resultCache[s]]
  IN  /\ ~failed /\ p \in peers /\ request # <<>>
      /\ q' = deliverBack([q EXCEPT !.pendPool[k][p] = <<>>,
                             !.donePool[k] = @ \cup ToSet(good),
                             !.taskPool[k] = @ \ ToSet(good),
                             !.resultCache = cache],
                          k, SubSeq(request, accepted + 1, Len(request)))
      /\ failed' = invalid
      /\ lacking' = IF n = 0 THEN [lacking EXCEPT ![p] = @ \cup ToSet(request)] ELSE lacking
      /\ busy' = IF ~invalid /\ (accepted > 0 \/ bad > asked)
                 THEN [busy EXCEPT ![k] = @ \ {p}] ELSE busy
      /\ UNCHANGED <<peers, results>>

\* An honest peer answers with all it was asked for.
DeliverAll(k, p) ==
  /\ Deliver(k, p, Len(q.pendPool[k][p]), Len(q.pendPool[k][p]) + 1)
  /\ UNCHANGED faults

DeliverBadly(k, p) ==
  /\ Fault(p)
  /\ \E n \in 0..Len(q.pendPool[k][p]) : \E bad \in 1..n + 1 : Deliver(k, p, n, bad)

\* An answer to a request that is no longer there only sets the peer idle.
DeliverNothing(k, p) ==
  /\ p \in peers /\ q.pendPool[k][p] = <<>> /\ p \in busy[k]
  /\ busy' = [busy EXCEPT ![k] = @ \ {p}]
  /\ UNCHANGED <<q, lacking, peers, failed, results, faults>>

revoke(g, p) ==
  LET one(x, k) == [Push(x, k, x.pendPool[k][p]) EXCEPT !.pendPool[k][p] = <<>>]
  IN  one(one(g, "body"), "receipt")

\* A request timed out.  It is queued again; a peer that failed on more than
\* two headers is set idle, any other is dropped, which revokes its requests.
Expire(k, p) ==
  LET request == q.pendPool[k][p]
      g       == [Push(q, k, request) EXCEPT !.pendPool[k][p] = <<>>]
  IN  /\ Fault(p) /\ ~failed /\ p \in peers /\ request # <<>>
      /\ \/ /\ Len(request) > 2
            /\ q' = g /\ busy' = [busy EXCEPT ![k] = @ \ {p}]
            /\ UNCHANGED peers
         \/ /\ Len(request) <= 2
            /\ q' = revoke(g, p) /\ peers' = peers \ {p}
            /\ busy' = [x \in Kind |-> busy[x] \ {p}]
      /\ UNCHANGED <<lacking, failed, results>>

\* UnregisterPeer and RegisterPeer: a peer leaves, and comes back afresh.
Unregister(p) ==
  /\ Fault(p) /\ p \in peers
  /\ q' = revoke(q, p)
  /\ peers' = peers \ {p} /\ busy' = [k \in Kind |-> busy[k] \ {p}]
  /\ UNCHANGED <<lacking, failed, results>>

Register(p) ==
  /\ p \notin peers
  /\ peers' = peers \cup {p} /\ lacking' = [lacking EXCEPT ![p] = {}]
  /\ UNCHANGED <<q, busy, failed, results, faults>>

----------------------------------------------------------------------------

\* The number of results from the front that are complete; the pivot is held
\* back until the headers after it, that verify it, are in the cache.
Processable(g, i) ==
  LET r == g.resultCache[i]
  IN  /\ r # None /\ r.pending = 0
      /\ fastSyncPivot > 0 /\ r.header = fastSyncPivot =>
           \A j \in i + 1..i + fsHeaderForceVerify :
             j <= blockCacheLimit /\ g.resultCache[j] # None

countProcessableItems(g) ==
  Max({n \in 0..blockCacheLimit : \A i \in 1..n : Processable(g, i)})

WaitResults ==
  LET n    == countProcessableItems(q)
      out  == [i \in 1..n |-> q.resultCache[i].header]
  IN  /\ n > 0
      /\ results' = results \o out
      /\ q' = [q EXCEPT
                 !.donePool = [k \in Kind |-> @[k] \ ToSet(out)],
                 !.resultCache = [i \in 1..blockCacheLimit |->
                                    IF i + n <= blockCacheLimit THEN @[i + n] ELSE None],
                 !.resultOffset = @ + n]
      /\ UNCHANGED <<busy, lacking, peers, failed, faults>>

\* Batches of headers that processHeaders hands over.
Batches ==
  {<<h>> : h \in {q.head + 1} \cap Header}
    \cup {<<h, h + 1>> : h \in {q.head + 1} \cap 1..Height - 1}
    \cup {<<h, Stray>> : h \in {q.head + 1} \cap Header} \cup {<<Stray>>}

Next ==
  \/ \E headers \in Batches : Schedule(headers)
  \/ WaitResults
  \/ \E k \in Kind, p \in Peer :
       \/ \E count \in Capacities : Reserve(k, p, count)
       \/ DeliverAll(k, p) \/ DeliverBadly(k, p) \/ DeliverNothing(k, p)
       \/ Expire(k, p)
  \/ \E p \in Peer : Unregister(p) \/ Register(p)

\* Weak fairness, spelled out as "infinitely often at rest, or infinitely often
\* moved": the headers keep coming and the results are taken; fetchParts keeps
\* reserving for idle peers, and requests are answered in the end.
Rests(i) ==
  CASE i = 1 -> failed \/ q.head = Height
    [] i = 2 -> countProcessableItems(q) = 0
    [] i \in {3, 4} -> LET k == IF i = 3 THEN "body" ELSE "receipt"
                       IN  \A p \in Peer \ Faulty : ~CanReserve(k, p)
    [] i \in {5, 6} -> LET k == IF i = 5 THEN "body" ELSE "receipt"
                       IN  failed \/ \A p \in peers : q.pendPool[k][p] = <<>>
    [] OTHER -> TRUE

Moves(i) ==
  CASE i = 1 -> q'.head > q.head
    [] i = 2 -> results' # results
    [] i \in {3, 4} -> LET k == IF i = 3 THEN "body" ELSE "receipt"
                       IN  \E h \in Header : q'.taskQueue[k][h] < q.taskQueue[k][h]
    [] i \in {5, 6} -> LET k == IF i = 5 THEN "body" ELSE "receipt"
                       IN  \E p \in peers : q.pendPool[k][p] # <<>> /\ q'.pendPool[k][p] = <<>>
    [] OTHER -> FALSE

Spec == Init /\ [][Next]_vars
FairSpec == Spec /\ \A i \in 1..6 : []<>Rests(i) \/ []<><<Moves(i)>>_vars

----------------------------------------------------------------------------
\* Every header that is scheduled and not done is queued once or asked of one
\* peer, for each kind of data: expiry, revocation, partial and empty answers
\* lose none and duplicate none.
TasksPlaced ==
  ~failed =>
    \A k \in Kind, h \in Header :
      q.taskQueue[k][h] + Cardinality(RequestedAt(q, k, h))
      = IF h \in q.taskPool[k] THEN 1 ELSE 0

\* A result's pending count is the kinds of its data that are not done.
PendingCounts ==
  \A i \in 1..blockCacheLimit :
    LET r == q.resultCache[i]
    IN  r # None =>
          /\ r.header = q.resultOffset + i - 1
          /\ r.pending = Cardinality({k \in Kinds(r.header) : r.header \notin q.donePool[k]})

\* Results come out in the order of the chain, each once, and nothing does
\* before its data is done.
ResultsInOrder ==
  /\ results = [i \in 1..q.resultOffset - 1 |-> i]
  /\ \A h \in ToSet(results), k \in Kind : h \notin q.taskPool[k]

\* Unless the sync fails, an honest peer is enough for all to be retrieved.
Retrieved == failed \/ Len(results) = Height
=============================================================================
