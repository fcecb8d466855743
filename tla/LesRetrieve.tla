----------------------------- MODULE LesRetrieve -----------------------------
(***************************************************************************)
(* On-demand retrieval of the light client: retrieveManager                *)
(* (les/retrieve.go), which keeps a request alive until a server has       *)
(* answered it, and requestDistributor (les/distributor.go), which hands   *)
(* the queued requests to servers.                                         *)
(*                                                                         *)
(* A request r is one sentReq with its distReq.  What a server can take at *)
(* the moment (its send queue and its flow control) is a choice.           *)
(***************************************************************************)
EXTENDS Integers, Sequences, SequencesExt, FiniteSets

CONSTANTS
  Req,           \* requests: 1, 2, ... in the order of their reqOrder
  Peer,
  Setting        \* <<n, m, k>>: n requests and m servers take part, with at most k
                 \* bad answers, departures, cancellations and stops

VARIABLES
  q,        \* reqQueue
  dist,     \* the distributor: its loop, and the wake-up of the loop (loopChn)
  chan,     \* sentChn as its receiver sees it: "none", "open", "closed", a peer
  listed,   \* requests whose field sentChn is set
  r,        \* sentReq: loop, flags, events, and the goroutines of tryRequest
  peers,
  faults    \* faults still to come

vars == <<q, dist, chan, listed, r, peers, faults>>

\* at[p] tells how the goroutine that sent to p waits: for the soft timeout, then
\* for the hard one.  asked holds servers that have still to answer.
NewReq ==
  [loop |-> "requesting", queued |-> TRUE, sent |-> FALSE, srto |-> 0, stopped |-> FALSE,
   err |-> "none", events |-> <<>>, try |-> "queue", sentTo |-> {},
   at |-> [p \in Peer |-> "none"], valid |-> [p \in Peer |-> "none"], asked |-> {}]
NoReq == [NewReq EXCEPT !.loop = "end", !.queued = FALSE, !.stopped = TRUE, !.try = "none"]

Init ==
  /\ \E c \in Setting :
       /\ r = [x \in Req |-> IF x <= c[1] THEN NewReq ELSE NoReq]
       /\ peers = CHOOSE s \in SUBSET Peer : Cardinality(s) = c[2]
       /\ faults = c[3]
  /\ q = <<>> /\ dist = [at |-> "idle", wake |-> "no"]
  /\ chan = [x \in Req |-> "none"] /\ listed = {}

Fault == faults > 0 /\ faults' = faults - 1

----------------------------------------------------------------------------
(* The distributor.  Its lock is held while the loop works.                *)

Unlocked == dist.at # "work"

\* queue: in the order of the requests, then the loop is woken.
queue(x) ==
  LET before == SelectSeq(q, LAMBDA y : y < x)
      after  == SelectSeq(q, LAMBDA y : y >= x)
  IN  /\ q' = before \o <<x>> \o after
      /\ dist' = [dist EXCEPT !.wake = IF @ = "no" THEN "token" ELSE @]
      /\ chan' = [chan EXCEPT ![x] = "open"] /\ listed' = listed \cup {x}

remove(x) == SelectSeq(q, LAMBDA y : y # x)

LoopWakes ==
  /\ dist.at = "idle" /\ dist.wake = "token"
  /\ dist' = [at |-> "work", wake |-> "no"]
  /\ UNCHANGED <<q, chan, listed, r, peers, faults>>

TimerWakes ==
  /\ dist.wake = "timer" /\ dist' = [dist EXCEPT !.wake = "token"]
  /\ UNCHANGED <<q, chan, listed, r, peers, faults>>

\* nextRequest, given what the servers can take.  Each server is considered for
\* the first request that it can serve; requests at the front that none can
\* serve are given up.
canSend(x, p, load) == p \in peers /\ load[p] # "full" /\ p \notin r[x].sentTo
served(load) == {i \in DOMAIN q : \E p \in Peer : canSend(q[i], p, load)}
firstFor(p, load) ==
  LET can == {i \in DOMAIN q : canSend(q[i], p, load)}
  IN  IF can = {} THEN 0 ELSE CHOOSE i \in can : \A j \in can : i <= j
givenUp(load) ==
  {q[i] : i \in {j \in DOMAIN q : \A k \in served(load) : j < k}}

timer == [at |-> "idle", wake |-> "timer"]

LoopWorks ==
  /\ dist.at = "work"
  /\ \E load \in [Peer -> {"now", "later", "full"}] :
       LET dead == givenUp(load)
           rest == SelectSeq(q, LAMBDA x : x \notin dead)
           now  == {p \in Peer : load[p] = "now" /\ firstFor(p, load) # 0}
       IN  /\ \A p \in Peer \ peers : load[p] = "full"
           /\ IF now = {}
              THEN /\ q' = rest
                   /\ dist' = IF rest = <<>> THEN [dist EXCEPT !.at = "idle"] ELSE timer
                   /\ chan' = [x \in Req |-> IF x \in dead THEN "closed" ELSE chan[x]]
                   /\ listed' = listed \ dead /\ UNCHANGED r
              ELSE \E p \in now :
                     LET x == q[firstFor(p, load)]
                     IN  /\ q' = SelectSeq(rest, LAMBDA y : y # x)
                         /\ chan' = [y \in Req |-> IF y = x THEN p
                                                   ELSE IF y \in dead THEN "closed" ELSE chan[y]]
                         /\ listed' = listed \ (dead \cup {x})
                         /\ r' = [r EXCEPT ![x].sentTo = @ \cup {p}, ![x].asked = @ \cup {p}]
                         /\ UNCHANGED dist
  /\ UNCHANGED <<peers, faults>>

\* The client stops: channels of queued requests are closed, but stay listed.
LoopStops ==
  /\ dist.at = "idle" /\ Fault
  /\ dist' = [dist EXCEPT !.at = "stopped"]
  /\ chan' = [x \in Req |-> IF x \in ToSet(q) THEN "closed" ELSE chan[x]]
  /\ UNCHANGED <<q, listed, r, peers>>

----------------------------------------------------------------------------
(* tryRequest.                                                             *)

TryQueue(x) ==
  /\ r[x].try = "queue" /\ Unlocked
  /\ queue(x) /\ r' = [r EXCEPT ![x].try = "wait"]
  /\ UNCHANGED <<peers, faults>>

\* The request was sent to p, or to nobody.
trySent(x, p) ==
  [r EXCEPT ![x].try = "none", ![x].events = Append(@, <<"sent", p>>),
            ![x].at = [s \in Peer |-> IF s = p THEN "soft" ELSE @[s]]]

TryReceive(x) ==
  /\ r[x].try = "wait" /\ chan[x] # "open"
  /\ r' = trySent(x, chan[x]) /\ chan' = [chan EXCEPT ![x] = "none"]
  /\ UNCHANGED <<q, dist, listed, peers, faults>>

\* cancel: a listed request is closed and removed.  If the distributor has
\* closed it already, this panics.
TryCancel(x) ==
  /\ r[x].try = "wait" /\ r[x].stopped /\ Unlocked
  /\ IF x \in listed
     THEN /\ q' = remove(x) /\ listed' = listed \ {x}
          /\ chan' = [chan EXCEPT ![x] = IF @ = "closed" THEN "panic" ELSE "none"]
          /\ r' = trySent(x, "nobody")
     ELSE /\ r' = trySent(x, chan[x])
          /\ chan' = [chan EXCEPT ![x] = "none"] /\ UNCHANGED <<q, listed>>
  /\ UNCHANGED <<dist, peers, faults>>

SoftTimeout(x, p) ==
  /\ r[x].at[p] = "soft"
  /\ r' = [r EXCEPT ![x].at[p] = "hard", ![x].events = Append(@, <<"soft", p>>)]
  /\ UNCHANGED <<q, dist, chan, listed, peers, faults>>

\* The goroutine ends: with an answer, or with the server being dropped.
ended(x, p, event) ==
  [r EXCEPT ![x].at[p] = "none", ![x].valid[p] = "none", ![x].sentTo = @ \ {p},
            ![x].events = Append(@, <<event, p>>)]

Answered(x, p) ==
  /\ r[x].at[p] # "none" /\ r[x].valid[p] # "none"
  /\ r' = ended(x, p, r[x].valid[p])
  /\ UNCHANGED <<q, dist, chan, listed, peers, faults>>

HardTimeout(x, p) ==
  /\ r[x].at[p] = "hard"
  /\ r' = ended(x, p, "hard") /\ peers' = peers \ {p}
  /\ UNCHANGED <<q, dist, chan, listed, faults>>

accepted(x, p) == r[x].loop # "end" /\ p \in r[x].sentTo /\ r[x].valid[p] = "none"

\* A server answers, well or badly; the answer may come too late.
deliver(x, p) ==
  /\ p \in r[x].asked
  /\ \E ok \in {"valid", "invalid"} :
       /\ ok = "invalid" => Fault
       /\ ok = "valid" => UNCHANGED faults
       /\ r' = IF accepted(x, p) THEN [r EXCEPT ![x].asked = @ \ {p}, ![x].valid[p] = ok]
               ELSE [r EXCEPT ![x].asked = @ \ {p}]
  /\ UNCHANGED <<q, dist, chan, listed, peers>>

Leave(p) ==
  /\ p \in peers /\ Fault /\ peers' = peers \ {p}
  /\ UNCHANGED <<q, dist, chan, listed, r>>

----------------------------------------------------------------------------
(* retrieveLoop.                                                           *)

waiting(s) == s.queued \/ s.sent \/ s.srto > 0

update(s, ev) ==
  CASE ev[1] = "sent" -> [s EXCEPT !.queued = FALSE, !.sent = @ \/ ev[2] \in Peer]
    [] ev[1] = "soft" -> [s EXCEPT !.sent = FALSE, !.srto = @ + 1]
    [] OTHER          -> [s EXCEPT !.srto = @ - 1]

stop(s, err) == IF s.stopped THEN s ELSE [s EXCEPT !.stopped = TRUE, !.err = err]

\* stateRequesting, stateNoMorePeers and stateStopped take an event.
step(s, ev) ==
  CASE s.loop = "requesting" /\ ev[1] = "sent" /\ ev[2] \notin Peer ->
         IF waiting(s) THEN [s EXCEPT !.loop = "nomore"]
         ELSE [stop(s, "nopeers") EXCEPT !.loop = "end"]
    [] s.loop = "requesting" /\ ev[1] = "soft" -> [s EXCEPT !.try = "queue", !.queued = TRUE]
    [] s.loop \in {"requesting", "nomore"} /\ ev[1] = "valid" ->
         [stop(s, "nil") EXCEPT !.loop = "stopped"]
    [] OTHER -> s

TakeEvent(x) ==
  /\ r[x].loop # "end" /\ r[x].events # <<>>
  /\ r[x].loop = "stopped" => waiting(r[x])
  /\ LET s == [r[x] EXCEPT !.events = Tail(@)]
     IN  r' = [r EXCEPT ![x] = step(update(s, Head(r[x].events)), Head(r[x].events))]
  /\ UNCHANGED <<q, dist, chan, listed, peers, faults>>

\* After a while with no server left, another try.
Retry(x) ==
  /\ r[x].loop = "nomore"
  /\ r' = [r EXCEPT ![x].loop = "requesting", ![x].try = "queue", ![x].queued = TRUE]
  /\ UNCHANGED <<q, dist, chan, listed, peers, faults>>

SeeStop(x) ==
  /\ r[x].loop \in {"requesting", "nomore"} /\ r[x].stopped
  /\ r' = [r EXCEPT ![x].loop = "stopped"]
  /\ UNCHANGED <<q, dist, chan, listed, peers, faults>>

LoopEnds(x) ==
  /\ r[x].loop = "stopped" /\ ~waiting(r[x])
  /\ r' = [r EXCEPT ![x].loop = "end"]
  /\ UNCHANGED <<q, dist, chan, listed, peers, faults>>

\* retrieve: the caller's context ends, or the client shuts down.
Cancel(x) ==
  /\ ~r[x].stopped /\ Fault /\ r' = [r EXCEPT ![x] = stop(@, "cancelled")]
  /\ UNCHANGED <<q, dist, chan, listed, peers>>

----------------------------------------------------------------------------
Loop(x) == TakeEvent(x) \/ SeeStop(x) \/ LoopEnds(x)
Try(x) == \/ TryQueue(x) \/ TryReceive(x) \/ TryCancel(x)
          \/ \E p \in Peer : Answered(x, p)
Timers(x) == \E p \in Peer : SoftTimeout(x, p) \/ HardTimeout(x, p)

Next ==
  \/ LoopWakes \/ TimerWakes \/ LoopWorks \/ LoopStops
  \/ \E p \in Peer : Leave(p)
  \/ \E x \in Req : \/ Loop(x) \/ Try(x) \/ Timers(x) \/ Retry(x) \/ Cancel(x)
                    \/ \E p \in Peer : deliver(x, p)

Spec == Init /\ [][Next]_vars

----------------------------------------------------------------------------
\* The queue is in the order of the requests, none is in it twice, and its loop
\* will look at it again unless it has stopped: no wake-up is lost.
QueueRight ==
  dist.at # "stopped" =>
       /\ \A i, j \in DOMAIN q : i < j => q[i] < q[j]
       /\ ToSet(q) = listed /\ \A x \in Req : chan[x] = "open" <=> x \in ToSet(q)
       /\ q # <<>> => dist.at = "work" \/ dist.wake # "no"

\* No channel is closed twice, unless the client is shutting down.
ClosedOnce == (\E x \in Req : chan[x] = "panic") => dist.at = "stopped"

\* A server has answered before the soft timeout: the loop takes it for one that
\* will still time out.
quick(x) == LET s == r[x] IN
  s.sent /\ (\A p \in Peer : s.at[p] # "soft") /\ \A i \in DOMAIN s.events : s.events[i][1] # "soft"

\* A retrieval that has not been stopped is queued, or with a server, or has an
\* event to take, or will try again, unless a server answered badly and quickly.
GoesOn ==
  \A x \in Req : LET s == r[x] IN
    ~s.stopped => \/ s.try # "none" \/ s.events # <<>> \/ s.loop = "nomore"
                  \/ \E p \in Peer : s.at[p] # "none"
                  \/ quick(x)

\* An answer counts only if its server has been asked, and a retrieval fails for
\* lack of servers only if it waits for none.
ResultRight ==
  \A x \in Req, p \in Peer :
    /\ r[x].valid[p] # "none" => p \in r[x].sentTo
    /\ r[x].err = "nopeers" => r[x].at[p] = "none" /\ r[x].try = "none"
=============================================================================
