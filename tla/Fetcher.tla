------------------------------ MODULE Fetcher ------------------------------
(***************************************************************************)
(* The block fetcher of bgm/fetcher/fetcher.go: announcements of blocks    *)
(* are collected, one announcer is asked for the header and then for the   *)
(* body, and complete blocks wait in a queue until they fit the chain.     *)
(*                                                                         *)
(* loop is one goroutine.  A step takes one event of its select and then   *)
(* goes through the top of the next iteration, up to the next select; its  *)
(* maps are the record f.  Imports are goroutines of their own.            *)
(*                                                                         *)
(* Abstractions: a block is its hash; what a hash commits to (number,      *)
(* parent, body, validity) are constant functions.  Times are left out:    *)
(* which announcements are old enough, and which fetches have timed out,   *)
(* is any choice.  Requests are not recorded: a peer may send any header   *)
(* or body at any time, or never.                                          *)
(***************************************************************************)
EXTENDS Integers, Sequences, SequencesExt, FiniteSets, FiniteSetsExt

CONSTANTS
  Peer, Hash,
  Number, Parent, Body,   \* functions of a hash; Parent may be Genesis
  EmptyBody,              \* the body of a block that has only a header
  Invalid,                \* blocks that verifyHeader refuses
  Genesis, None,
  Deliveries,             \* the sequences of headers that peers deliver
  hashLimit, blockLimit, maxUncleDist, maxQueueDist,
  MaxInputs,              \* bound on announced and propagated blocks
  MaxForeign              \* bound on blocks that the downloader imports

VARIABLES
  f,          \* the maps and timers that loop owns
  importing,  \* blocks whose import runs: hash to origin, or None
  finished,   \* imports that wait to send on done
  chain,      \* the blocks of the local chain
  dropped,    \* peers given to dropPeer
  blamed,     \* history: peers that sent something wrong
  inputs, foreign

vars == <<f, importing, finished, chain, dropped, blamed, inputs, foreign>>

Height == Max({0} \cup {Number[h] : h \in chain})
Known(h) == h \in chain \cup {Genesis}
InRange(n) == n - Height >= -maxUncleDist /\ n - Height <= maxQueueDist

Init ==
  /\ f = [announces |-> [p \in Peer |-> 0],
          announced |-> [h \in Hash |-> <<>>],
          fetching |-> [h \in Hash |-> None],
          fetched |-> [h \in Hash |-> <<>>],
          completing |-> [h \in Hash |-> None],
          queue |-> {}, queues |-> [p \in Peer |-> 0],
          queued |-> [h \in Hash |-> None],
          fetchTimer |-> TRUE, completeTimer |-> TRUE]
  /\ importing = [h \in Hash |-> None] /\ finished = {}
  /\ chain = {} /\ dropped = {} /\ blamed = {}
  /\ inputs = 0 /\ foreign = 0

----------------------------------------------------------------------------
Announcers(seq) == [i \in DOMAIN seq |-> seq[i].origin]
One(announce) == IF announce = None THEN <<>> ELSE <<announce>>

\* forgetHash: one from the counter of each announcement that is dropped.
forgetHash(g, h) ==
  LET all == Announcers(g.announced[h] \o One(g.fetching[h])
                        \o g.fetched[h] \o One(g.completing[h]))
  IN  [g EXCEPT !.announces = [p \in Peer |->
                   @[p] - Len(SelectSeq(all, LAMBDA q : q = p))],
                !.announced[h] = <<>>, !.fetching[h] = None,
                !.fetched[h] = <<>>, !.completing[h] = None]

forgetBlock(g, h) ==
  IF g.queued[h] = None THEN g
  ELSE [g EXCEPT !.queues[g.queued[h]] = @ - 1, !.queued[h] = None]

\* enqueue: a block over the peer's allowance or too far away loses its trace.
enqueue(g, p, h) ==
  IF g.queues[p] + 1 > blockLimit \/ ~InRange(Number[h]) THEN forgetHash(g, h)
  ELSE IF g.queued[h] # None THEN g
  ELSE [g EXCEPT !.queues[p] = @ + 1, !.queued[h] = p, !.queue = @ \cup {h}]

Announced(g) == {h \in Hash : g.announced[h] # <<>>}
Fetched(g)   == {h \in Hash : g.fetched[h] # <<>>}

rescheduleFetch(g) == [g EXCEPT !.fetchTimer = @ \/ Announced(g) # {}]
rescheduleComplete(g) == [g EXCEPT !.completeTimer = @ \/ Fetched(g) # {}]

----------------------------------------------------------------------------
\* The top of loop: timed-out fetches are forgotten, then queued blocks that
\* fit are imported, unless they are old or known; the rest stays queued.
Fits(h) == Number[h] <= Height + 1
Stale(h) == Number[h] + maxUncleDist < Height \/ Known(h)

top(g, expired) ==
  LET clean == FoldSet(LAMBDA h, x : forgetHash(x, h), g, expired)
      fit   == {h \in clean.queue : Fits(h)}
      old   == {h \in fit : Stale(h)}
      rest  == FoldSet(LAMBDA h, x : forgetBlock(x, h), clean, old)
  IN  /\ f' = [rest EXCEPT !.queue = @ \ fit]
      /\ importing' = [h \in Hash |->
                         IF h \in fit \ old THEN rest.queued[h] ELSE importing[h]]

\* The end of an event and the top of the next iteration.
Continue(g) ==
  \E expired \in SUBSET {h \in Hash : g.fetching[h] # None} : top(g, expired)

\* A block was announced.
notify(p, h, n) ==
  /\ inputs < MaxInputs /\ inputs' = inputs + 1
  /\ LET g == rescheduleFetch([f EXCEPT
                !.announces[p] = @ + 1,
                !.announced[h] = Append(@, [origin |-> p, number |-> n])])
         late == [f EXCEPT
                !.announces[p] = @ + 1,
                !.announced[h] = Append(@, [origin |-> p, number |-> n])]
     IN  Continue(IF \/ f.announces[p] + 1 > hashLimit
                     \/ n > 0 /\ ~InRange(n)
                     \/ f.fetching[h] # None \/ f.completing[h] # None
                  THEN f
                  ELSE IF Cardinality(Announced(late)) = 1 THEN g ELSE late)
  /\ blamed' = IF n = Number[h] THEN blamed ELSE blamed \cup {p}
  /\ UNCHANGED <<finished, chain, dropped, foreign>>

\* A whole block was propagated.
inject(p, h) ==
  /\ inputs < MaxInputs /\ inputs' = inputs + 1
  /\ Continue(enqueue(f, p, h))
  /\ blamed' = IF h \in Invalid THEN blamed \cup {p} ELSE blamed
  /\ UNCHANGED <<finished, chain, dropped, foreign>>

\* An import is over.
done(h) ==
  /\ h \in finished
  /\ finished' = finished \ {h}
  /\ Continue(forgetBlock(forgetHash(f, h), h))
  /\ UNCHANGED <<chain, dropped, blamed, inputs, foreign>>

\* One of the announcers is chosen; the counters of all of them go down.
choose(g, h, announce, map) ==
  LET x == forgetHash(g, h)
  IN  IF Known(h) THEN x
      ELSE IF map = "fetching" THEN [x EXCEPT !.fetching[h] = announce]
      ELSE [x EXCEPT !.completing[h] = announce]

chooseAll(g, picks, map) ==
  FoldSet(LAMBDA h, x : choose(x, h, picks[h], map), g, DOMAIN picks)

\* Choices of one announcer for each of a set of hashes.
Picks(seqs, hashes) ==
  {c \in [hashes -> UNION {ToSet(seqs[h]) : h \in hashes}] :
     \A h \in hashes : c[h] \in ToSet(seqs[h])}

\* The arrival timer: announcements that are old enough are fetched.

fetchTimer ==
  /\ f.fetchTimer
  /\ UNCHANGED <<finished, chain, dropped, blamed, inputs, foreign>>
  /\ \E due \in SUBSET Announced(f) :
       /\ Announced(f) # {} => due # {}
       /\ \E picks \in Picks(f.announced, due) :
            Continue(rescheduleFetch(
              chooseAll([f EXCEPT !.fetchTimer = FALSE], picks, "fetching")))

\* The gather timer: the bodies of all fetched headers are requested.
completeTimer ==
  /\ f.completeTimer
  /\ \E picks \in Picks(f.fetched, Fetched(f)) :
       Continue(rescheduleComplete(
         chooseAll([f EXCEPT !.completeTimer = FALSE], picks, "completing")))
  /\ UNCHANGED <<finished, chain, dropped, blamed, inputs, foreign>>

----------------------------------------------------------------------------

\* FilterHeaders: headers a fetch asked for are taken out of the delivery.
Wanted(g, p, h) ==
  /\ g.fetching[h] # None /\ g.fetching[h].origin = p
  /\ g.fetched[h] = <<>> /\ g.completing[h] = None /\ g.queued[h] = None

\* One header: a number other than the announced one costs the announcer its
\* connection; an empty block is complete, any other waits for its body.
filterHeader(acc, p, h) ==
  LET g == acc.g
  IN  IF ~Wanted(g, p, h) THEN acc
      ELSE IF g.fetching[h].number # Number[h]
           THEN [acc EXCEPT !.g = forgetHash(g, h), 
                            !.drop = @ \cup {g.fetching[h].origin}]
      ELSE IF Known(h) THEN [acc EXCEPT !.g = forgetHash(g, h)]
      ELSE IF Body[h] = EmptyBody
           THEN [acc EXCEPT !.g.completing[h] = g.fetching[h],
                            !.complete = Append(@, h)]
           ELSE [acc EXCEPT !.incomplete = Append(@, [hash |-> h, by |-> g.fetching[h]])]

scheduleBody(g, x) ==
  IF g.completing[x.hash] # None THEN g
  ELSE LET late == [g EXCEPT !.fetched[x.hash] = Append(@, x.by)]
       IN  IF Cardinality(Fetched(late)) = 1 THEN rescheduleComplete(late) ELSE late

scheduleImport(g, h) ==
  IF g.completing[h] = None THEN g ELSE enqueue(g, g.completing[h].origin, h)

headerFilter(p, headers) ==
  /\ LET acc == FoldLeft(LAMBDA a, h : filterHeader(a, p, h),
                         [g |-> f, drop |-> {}, incomplete |-> <<>>, complete |-> <<>>],
                         headers)
     IN  /\ Continue(FoldLeft(scheduleImport,
                       FoldLeft(scheduleBody, acc.g, acc.incomplete), acc.complete))
         /\ dropped' = dropped \cup acc.drop
         /\ blamed' = blamed \cup
              (IF \E i \in DOMAIN headers : headers[i] \in Invalid THEN {p} ELSE {})
  /\ UNCHANGED <<finished, chain, inputs, foreign>>

\* FilterBodies: a body completes every block that waits for it from this peer.
Matches(p, body) ==
  {h \in Hash : /\ f.completing[h] # None /\ f.queued[h] = None
                /\ Body[h] = body /\ f.completing[h].origin = p}

bodyFilter(p, body) ==
  /\ LET known == {h \in Matches(p, body) : Known(h)}
         g     == FoldSet(LAMBDA h, x : forgetHash(x, h), f, known)
     IN  Continue(FoldSet(LAMBDA h, x : scheduleImport(x, h), g,
                          Matches(p, body) \ known))
  /\ UNCHANGED <<finished, chain, dropped, blamed, inputs, foreign>>

----------------------------------------------------------------------------
\* The goroutine of insert.  An invalid header costs the origin its connection;
\* a block whose parent is unknown is given up; insertChain may fail.
insert(h) ==
  /\ importing[h] # None
  /\ importing' = [importing EXCEPT ![h] = None]
  /\ finished' = finished \cup {h}
  /\ IF ~Known(Parent[h]) THEN UNCHANGED <<chain, dropped>>
     ELSE IF h \in Invalid
          THEN dropped' = dropped \cup {importing[h]} /\ UNCHANGED chain
     ELSE /\ \/ chain' = chain \cup {h}
             \/ UNCHANGED chain
          /\ UNCHANGED dropped
  /\ UNCHANGED <<f, blamed, inputs, foreign>>

\* The downloader or the miner imports a block.
foreignImport(h) ==
  /\ foreign < MaxForeign /\ foreign' = foreign + 1
  /\ ~Known(h) /\ Known(Parent[h]) /\ h \notin Invalid
  /\ chain' = chain \cup {h}
  /\ UNCHANGED <<f, importing, finished, dropped, blamed, inputs>>

Next ==
  \/ \E p \in Peer, h \in Hash :
       inject(p, h) \/ \E n \in {0, Number[h]} : notify(p, h, n)
  \/ \E h \in Hash : done(h) \/ insert(h) \/ foreignImport(h)
  \/ fetchTimer \/ completeTimer
  \/ \E p \in Peer : \E headers \in Deliveries : headerFilter(p, headers)
  \/ \E p \in Peer : \E body \in {Body[h] : h \in Hash} : bodyFilter(p, body)

\* Weak fairness, spelled out as "infinitely often at rest, or infinitely often
\* moved": the arrival timer fires; imports end and loop hears of it.
Rests(i) ==
  CASE i = 1 -> Announced(f) = {} \/ ~f.fetchTimer
    [] i = 2 -> finished = {}
    [] i = 3 -> \A h \in Hash : importing[h] = None
    [] OTHER -> TRUE

Moves(i) ==
  CASE i = 1 -> \E h \in Announced(f) : f'.announced[h] = <<>>
    [] i = 2 -> finished \ finished' # {}
    [] i = 3 -> \E h \in Hash : importing[h] # None /\ importing'[h] = None
    [] OTHER -> FALSE

Spec == Init /\ [][Next]_vars
FairSpec == Spec /\ \A i \in 1..3 : []<>Rests(i) \/ []<><<Moves(i)>>_vars

----------------------------------------------------------------------------
\* Nothing waits for a timer that is not set: announcements wait for the fetch
\* timer, fetched headers for the completion timer.
TimersSet ==
  /\ Announced(f) # {} => f.fetchTimer
  /\ Fetched(f) # {} => f.completeTimer

\* The import queue is consistent: what is queued waits or is being imported,
\* never both, and each peer's count is what it has queued, within blockLimit.
QueueCounts ==
  LET inside == {h \in Hash : f.queued[h] # None}
  IN  /\ inside = f.queue \cup finished \cup {h \in Hash : importing[h] # None}
      /\ \A h \in f.queue : importing[h] = None /\ h \notin finished
      /\ \A p \in Peer :
           /\ f.queues[p] = Cardinality({h \in Hash : f.queued[h] = p})
           /\ f.queues[p] <= blockLimit

\* No block that fits the chain is left in the queue when all imports are over,
\* unless the chain grew by other means: loop looks again only at an event.
NothingImportableWaits ==
  foreign = 0 /\ finished = {} /\ (\A h \in Hash : importing[h] = None) =>
    \A h \in f.queue : Number[h] > Height + 1

\* Only peers that announced a wrong number or sent an invalid block are given
\* to dropPeer.
DropsJustified == dropped \subseteq blamed

\* When nothing new is announced any more, every announcement is acted on.
Resolved == Announced(f) = {}
\* And every import that was started ends and is forgotten: only blocks that
\* do not fit the chain yet stay queued.
Imported == \A h \in Hash : f.queued[h] # None => h \in f.queue
=============================================================================
