----------------------------- MODULE HeaderFetch -----------------------------
(***************************************************************************)
(* Header download: fetchHeaders and fillHeaderSkeleton of                 *)
(* bgm/downloader/downloader.go with the header tasks of queue.go.  The    *)
(* master peer gives a skeleton of every MaxHeaderFetch-th header, all     *)
(* peers fill the gaps, and what is complete from the front is passed to   *)
(* processHeaders over headerProcCh, a channel with one place.             *)
(*                                                                         *)
(* A header is its number.  A fill that does not match the skeleton is a   *)
(* bad one; its content is not modelled.                                   *)
(***************************************************************************)
EXTENDS Integers, Sequences, SequencesExt, FiniteSets, FiniteSetsExt

CONSTANTS
  Peer, Master,
  Height,           \* height of the master's chain; the ancestor is 0
  MaxHeaderFetch, MaxSkeletonSize,
  MaxFaults         \* bound on bad fills, timeouts and departures

VARIABLES
  s,        \* fetchHeaders: what it does next, and its local variables
  h,        \* the header part of the queue
  peers, procCh,
  received, \* history: headers that processHeaders has received
  faults

vars == <<s, h, peers, procCh, received, faults>>

Interval(a, b) == [i \in 1..b - a + 1 |-> a + i - 1]
Empty == [pool |-> {}, queue |-> {}, miss |-> [p \in Peer |-> {}],
          pend |-> [p \in Peer |-> 0], results |-> <<>>, proced |-> 0, offset |-> 0]

Init ==
  /\ s = [at |-> "request", from |-> 1, skeleton |-> TRUE, out |-> <<>>]
  /\ h = Empty /\ peers = Peer /\ procCh = <<>> /\ received = <<>> /\ faults = 0

Fault == faults < MaxFaults /\ faults' = faults + 1

----------------------------------------------------------------------------
\* The master's answer to a request for a skeleton, then ScheduleSkeleton.
Skeleton ==
  LET n == Min({MaxSkeletonSize, (Height - s.from + 1) \div MaxHeaderFetch})
      tasks == {s.from + i * MaxHeaderFetch : i \in 0..n - 1}
  IN  /\ s.at = "request" /\ s.skeleton
      /\ IF n = 0
         THEN s' = [s EXCEPT !.skeleton = FALSE] /\ UNCHANGED h
         ELSE /\ s' = [s EXCEPT !.at = "fill"]
              /\ h' = [Empty EXCEPT !.pool = tasks, !.queue = tasks,
                         !.pend = h.pend, !.offset = s.from,
                         !.results = [i \in 1..n * MaxHeaderFetch |-> 0]]
      /\ UNCHANGED <<peers, procCh, received, faults>>

\* Its answer to a request for the headers after the skeleton.
Remaining ==
  /\ s.at = "request" /\ ~s.skeleton
  /\ s' = IF s.from > Height THEN [s EXCEPT !.at = "finish"]
          ELSE [s EXCEPT !.at = "send",
                  !.out = Interval(s.from, Min({Height, s.from + MaxHeaderFetch - 1}))]
  /\ UNCHANGED <<h, peers, procCh, received, faults>>

\* ReserveHeaders: the first gap that this peer has not failed on.
ReserveHeaders(p) ==
  LET open == h.queue \ h.miss[p]
  IN  /\ s.at = "fill" /\ p \in peers /\ h.pend[p] = 0 /\ open # {}
      /\ h' = [h EXCEPT !.pend[p] = Min(open), !.queue = @ \ {Min(open)}]
      /\ UNCHANGED <<s, peers, procCh, received, faults>>

\* The number of headers from place proced on that are there, in whole batches.
Ready(g) ==
  MaxHeaderFetch *
    Max({n \in 0..Len(g.results) \div MaxHeaderFetch :
           \A i \in 1..n : LET at == g.proced + (i - 1) * MaxHeaderFetch + 1
                           IN  at <= Len(g.results) /\ g.results[at] # 0})

\* Complete headers from the front are passed on, unless the channel is full.
passReady(g, ch) ==
  IF ch = <<>> /\ Ready(g) > 0
  THEN [g |-> [g EXCEPT !.proced = @ + Ready(g)],
        ch |-> <<SubSeq(g.results, g.proced + 1, g.proced + Ready(g))>>]
  ELSE [g |-> g, ch |-> ch]

\* The results with the fill that p was asked for.
fill(p) ==
  LET from == h.pend[p]
  IN  [h EXCEPT !.pend[p] = 0, !.pool = @ \ {from},
         !.results = [i \in DOMAIN @ |->
            IF i + h.offset - 1 \in from..from + MaxHeaderFetch - 1
            THEN i + h.offset - 1 ELSE @[i]]]

\* DeliverHeaders with a fill that maps onto the skeleton.
DeliverHeaders(p) ==
  /\ s.at = "fill" /\ p \in peers /\ h.pend[p] # 0
  /\ \E g \in {fill(p)} :
       h' = passReady(g, procCh).g /\ procCh' = passReady(g, procCh).ch
  /\ UNCHANGED <<s, peers, received, faults>>

\* And with one that does not: the peer is not asked for this gap again.
DeliverBad(p) ==
  /\ Fault /\ p # Master
  /\ s.at = "fill" /\ p \in peers /\ h.pend[p] # 0
  /\ h' = [h EXCEPT !.pend[p] = 0, !.queue = @ \cup {h.pend[p]},
                    !.miss[p] = @ \cup {h.pend[p]}]
  /\ UNCHANGED <<s, peers, procCh, received>>

\* Faulty variant: the gap of a request that timed out is not queued again.
requeueNever(g, p) == [g EXCEPT !.pend[p] = 0]
requeue(g, p) == [g EXCEPT !.pend[p] = 0, !.queue = @ \cup {g.pend[p]}]

\* ExpireHeaders: the peer is dropped whatever it was asked for.
ExpireHeaders(p) ==
  /\ p # Master
  /\ IF p \in peers THEN Fault ELSE UNCHANGED faults
  /\ s.at = "fill" /\ h.pend[p] # 0
  /\ h' = requeue(h, p) /\ peers' = peers \ {p}
  /\ UNCHANGED <<s, procCh, received>>

\* A peer leaves.  Revoke does not look at header requests: they time out.
Unregister(p) ==
  /\ Fault /\ p \in peers \ {Master}
  /\ peers' = peers \ {p}
  /\ UNCHANGED <<s, h, procCh, received>>

\* All gaps are filled; RetrieveHeaders returns what was not passed on yet.
Filled ==
  /\ s.at = "fill" /\ h.pool = {} /\ \A p \in Peer : h.pend[p] = 0
  /\ s' = [s EXCEPT !.from = @ + h.proced,
             !.out = SubSeq(h.results, h.proced + 1, Len(h.results)),
             !.at = IF h.proced = Len(h.results) THEN "request" ELSE "send"]
  /\ h' = [h EXCEPT !.results = <<>>, !.proced = 0]
  /\ UNCHANGED <<peers, procCh, received, faults>>

\* fetchHeaders passes the headers on, and an empty batch at the end.
Send ==
  /\ s.at = "send" /\ procCh = <<>>
  /\ procCh' = <<s.out>>
  /\ s' = [s EXCEPT !.from = @ + Len(s.out), !.out = <<>>, !.at = "request"]
  /\ UNCHANGED <<h, peers, received, faults>>

Finish ==
  /\ s.at = "finish" /\ procCh = <<>>
  /\ procCh' = <<<<>>>> /\ s' = [s EXCEPT !.at = "done"]
  /\ UNCHANGED <<h, peers, received, faults>>

\* processHeaders takes a batch.
Process ==
  /\ procCh # <<>>
  /\ procCh' = <<>> /\ received' = received \o procCh[1]
  /\ UNCHANGED <<s, h, peers, faults>>

Next ==
  \/ Skeleton \/ Remaining \/ Filled \/ Send \/ Finish \/ Process
  \/ \E p \in Peer :
       \/ ReserveHeaders(p) \/ DeliverHeaders(p) \/ DeliverBad(p)
       \/ ExpireHeaders(p) \/ Unregister(p)

\* Everything but the faults goes on; requests of peers that left time out.
Fair(i) ==
  CASE i = 1 -> Skeleton \/ Remaining \/ Filled \/ Send \/ Finish
    [] i = 2 -> Process
    [] i = 3 -> \E p \in Peer : ReserveHeaders(p)
    [] i = 4 -> \E p \in Peer : DeliverHeaders(p)
    [] i = 5 -> \E p \in Peer \ peers : ExpireHeaders(p)
    [] OTHER -> FALSE

Spec == Init /\ [][Next]_vars
FairSpec == Spec /\ \A i \in 1..5 : WF_vars(Fair(i))

----------------------------------------------------------------------------
\* processHeaders receives the chain in order, each header once, although gaps
\* are filled in any order and batches are passed on from two places.
HeadersInOrder == received = Interval(1, Len(received))

\* Each gap of the skeleton is queued or asked of one peer until it is filled.
GapsPlaced ==
  s.at = "fill" =>
    /\ h.pool = h.queue \cup ({h.pend[p] : p \in Peer} \ {0})
    /\ \A p \in Peer : h.pend[p] \notin h.queue
    /\ \A p, r \in Peer : p # r /\ h.pend[p] # 0 => h.pend[p] # h.pend[r]

\* The whole chain arrives.
Received == s.at = "done" /\ received = Interval(1, Height)
=============================================================================
