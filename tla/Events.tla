------------------------------- MODULE Events -------------------------------
(***************************************************************************)
(* Package event: Feed with SubscriptionScope, TypeMux, NewSubscription    *)
(* and Resubscribe.  They share no state; a behaviour shows one of them,   *)
(* named by kind, with the goroutines that use it.                         *)
(*                                                                         *)
(* Events are named by their sender.  Receivers are free to read or not.   *)
(***************************************************************************)
EXTENDS Integers, Sequences, SequencesExt, FiniteSets

CONSTANTS
  Kind,         \* of "feed", "mux", "func", "resub"
  Chan, Sender,
  Buffer,       \* capacity of the subscribed channels
  MaxFails      \* bound on subscriptions that fail (Resubscribe)

VARIABLES kind, s
vars == <<kind, s>>

without(seq, c) == SelectSeq(seq, LAMBDA x : x # c)

----------------------------------------------------------------------------
(* Feed.  cases holds the channels of sendCases in the order of the array;  *)
(* the first n are the ones that the Send in progress has still to serve.   *)

FeedInit ==
  [lock |-> "free", inbox |-> <<>>, cases |-> <<>>, n |-> 0, i |-> 1,
   pc |-> [p \in Sender |-> "wait"], sub |-> [c \in Chan |-> "new"],
   buf |-> [c \in Chan |-> <<>>], scope |-> "open", user |-> [c \in Chan |-> "new"],
   want |-> [p \in Sender |-> {}], got |-> [c \in Chan |-> <<>>]]

Subscribe(c) ==
  /\ s.sub[c] = "new"
  /\ s' = [s EXCEPT !.sub[c] = "on", !.user[c] = "track", !.inbox = Append(@, c)]

\* Track.  The subscription that a closed scope refuses stays in the feed, and
\* its owner is left without a handle to end it.
Track(c) ==
  /\ s.user[c] = "track" /\ s.scope # "closing"
  /\ s' = [s EXCEPT !.user[c] = IF s.scope = "open" THEN "use" ELSE "lost"]

BeginSend(p) ==
  /\ s.pc[p] = "wait" /\ s.lock = "free"
  /\ LET all == s.cases \o s.inbox
     IN  s' = [s EXCEPT !.lock = p, !.pc[p] = "try", !.cases = all, !.inbox = <<>>,
                        !.n = Len(all), !.i = 1, !.want[p] = ToSet(all)]

deactivate(cs, i, n) == [cs EXCEPT ![i] = cs[n], ![n] = cs[i]]

serve(p, i, next) ==
  LET c == s.cases[i]
  IN  [s EXCEPT !.buf[c] = Append(@, p), !.got[c] = Append(@, p), !.pc[p] = "try",
                !.cases = deactivate(@, i, s.n), !.n = @ - 1, !.i = next]

Room(c) == Len(s.buf[c]) < Buffer

\* The fast path: each channel in turn, without blocking.
Try(p) ==
  /\ s.pc[p] = "try"
  /\ s' = IF s.n = 0 THEN [s EXCEPT !.pc[p] = "done", !.lock = "free"]
          ELSE IF s.i > s.n THEN [s EXCEPT !.pc[p] = "select"]
          ELSE IF Room(s.cases[s.i]) THEN serve(p, s.i, s.i)
          ELSE [s EXCEPT !.i = @ + 1]

SelectSend(p) ==
  /\ s.pc[p] = "select"
  /\ \E i \in 1..s.n : Room(s.cases[i]) /\ s' = serve(p, i, 1)

removed(n, index) == IF index <= n THEN n - 1 ELSE n

\* A channel is removed by the Send in progress, over removeSub.
SelectRemove(p, c) ==
  /\ s.pc[p] = "select" /\ s.sub[c] = "offer"
  /\ \E index \in DOMAIN s.cases :
       /\ s.cases[index] = c
       /\ s' = [s EXCEPT !.cases = RemoveAt(@, index), !.n = removed(@, index),
                         !.i = 1, !.pc[p] = "try", !.sub[c] = "off"]

\* feedSub.Unsubscribe: from the inbox, or else from the cases.
leave(t, c) ==
  IF c \in ToSet(t.inbox)
  THEN [t EXCEPT !.inbox = without(@, c), !.sub[c] = "off"]
  ELSE [t EXCEPT !.sub[c] = "offer"]

TakeLock(c) ==
  /\ s.sub[c] = "offer" /\ s.lock = "free"
  /\ s' = [s EXCEPT !.cases = without(@, c), !.sub[c] = "off"]

\* scopeSub.Unsubscribe by its user: the subscription first, then the scope.
Unsubscribe(c) ==
  /\ s.user[c] = "use"
  /\ s' = IF s.sub[c] = "on" THEN [leave(s, c) EXCEPT !.user[c] = "leave"]
          ELSE [s EXCEPT !.user[c] = "leave"]

Untrack(c) ==
  /\ s.user[c] = "leave" /\ s.sub[c] = "off" /\ s.scope # "closing"
  /\ s' = [s EXCEPT !.user[c] = "done"]

\* SubscriptionScope.Close: one subscription after the other, under the lock.
CloseScope ==
  /\ s.scope = "open" /\ s' = [s EXCEPT !.scope = "closing"]

CloseNext ==
  LET tracked == {c \in Chan : s.user[c] \in {"use", "leave"} /\ s.sub[c] # "off"}
  IN  /\ s.scope = "closing" /\ \A c \in tracked : s.sub[c] # "offer"
      /\ \/ \E c \in tracked : s' = leave(s, c)
         \/ tracked = {} /\ s' = [s EXCEPT !.scope = "closed"]

Read(c) == s.buf[c] # <<>> /\ s' = [s EXCEPT !.buf[c] = Tail(@)]

FeedSend(p) == BeginSend(p) \/ Try(p) \/ SelectSend(p) \/ \E c \in Chan : SelectRemove(p, c)
FeedMoves == \/ \E c \in Chan : TakeLock(c) \/ Untrack(c) \/ Track(c)
             \/ CloseNext \/ \E p \in Sender : FeedSend(p)
FeedNext == FeedMoves \/ CloseScope \/ \E c \in Chan : Subscribe(c) \/ Unsubscribe(c) \/ Read(c)

----------------------------------------------------------------------------
(* TypeMux.  A subscription is named by its channel, which has no buffer.    *)
(* posts tells how far each Post is, which subscriptions were there when it   *)
(* was stamped, which are left, and whether it is in deliver (with the        *)
(* channel or with nil).                                                      *)

MuxInit ==
  [subm |-> <<>>, stopped |-> FALSE, lock |-> "free",
   sub |-> [c \in Chan |-> "new"], closing |-> {}, closed |-> {},
   posts |-> [p \in Sender |-> [at |-> "new", known |-> {}, todo |-> <<>>, in |-> "no"]],
   got |-> [c \in Chan |-> <<>>]]

MuxSubscribe(c) ==
  /\ s.sub[c] = "new" /\ s.lock = "free"
  /\ s' = IF s.stopped THEN [s EXCEPT !.sub[c] = "off", !.closed = @ \cup {c}]
          ELSE [s EXCEPT !.sub[c] = "on", !.subm = Append(@, c)]

\* Post: the event is stamped; later the subscribers are read, and each gets the
\* event unless it came after the stamp.
Stamp(p) ==
  /\ s.posts[p].at = "new"
  /\ s' = [s EXCEPT !.posts[p].at = "post", !.posts[p].known = {c \in Chan : s.sub[c] # "new"}]

ReadSubs(p) ==
  /\ s.posts[p].at = "post" /\ s.lock = "free"
  /\ s' = [s EXCEPT !.posts[p].at = "deliver", !.posts[p].known = {},
             !.posts[p].todo = IF s.stopped THEN <<>>
                               ELSE SelectSeq(s.subm, LAMBDA c : c \in s.posts[p].known)]

\* deliver takes postMu, which is refused while closewait waits for it.
Deliver(p) ==
  /\ s.posts[p].at = "deliver" /\ s.posts[p].in = "no"
  /\ IF s.posts[p].todo = <<>> THEN s' = [s EXCEPT !.posts[p].at = "done"]
     ELSE LET c == Head(s.posts[p].todo)
          IN  /\ c \notin s.closing \ s.closed
              /\ s' = [s EXCEPT !.posts[p].in = IF c \in s.closed THEN "nil" ELSE "chan"]

delivered(t, p) == [t EXCEPT !.posts[p].in = "no", !.posts[p].todo = Tail(@)]

\* A subscriber receives; or else the subscription is closing.
Receive(c) ==
  \E p \in Sender : /\ s.posts[p].in = "chan" /\ Head(s.posts[p].todo) = c
                    /\ s' = [delivered(s, p) EXCEPT !.got[c] = Append(@, p)]
Skip(p) ==
  /\ s.posts[p].in # "no" /\ Head(s.posts[p].todo) \in s.closing
  /\ s' = delivered(s, p)

\* Unsubscribe: del under the lock of the mux, then closewait.
Del(c) ==
  /\ s.sub[c] = "on" /\ s.lock = "free"
  /\ s' = [s EXCEPT !.subm = without(@, c), !.sub[c] = "close"]

BeginClose(c) ==
  /\ s.sub[c] = "close" \/ s.lock = c
  /\ c \notin s.closing /\ s' = [s EXCEPT !.closing = @ \cup {c}]

readers(c) == {p \in Sender : s.posts[p].in # "no" /\ Head(s.posts[p].todo) = c}

EndClose(c) ==
  /\ c \in s.closing \ s.closed /\ readers(c) = {}
  /\ s' = [s EXCEPT !.closed = @ \cup {c}, !.sub[c] = "off",
                    !.lock = IF @ = c THEN "next" ELSE @]

\* Stop closes one subscription after the other, under the lock of the mux.
MuxStop ==
  /\ ~s.stopped
  /\ \/ s.lock = "free" /\ s' = [s EXCEPT !.lock = "next"]
     \/ /\ s.lock = "next"
        /\ LET left == ToSet(s.subm) \ s.closed
           IN  IF left = {} THEN s' = [s EXCEPT !.lock = "free", !.stopped = TRUE, !.subm = <<>>]
               ELSE \E c \in left : s' = [s EXCEPT !.lock = c]

MuxMoves == \/ s.lock # "free" /\ MuxStop
            \/ \E c \in Chan : BeginClose(c) \/ EndClose(c)
            \/ \E p \in Sender : ReadSubs(p) \/ Deliver(p) \/ Skip(p)
MuxNext == \/ MuxMoves \/ MuxStop
           \/ \E c \in Chan : MuxSubscribe(c) \/ Receive(c) \/ Del(c)
           \/ \E p \in Sender : Stamp(p)

----------------------------------------------------------------------------
(* NewSubscription: the senders are callers of Unsubscribe.                 *)

FuncInit ==
  [producer |-> "run", unsubscribed |-> FALSE, quit |-> FALSE, err |-> <<>>, done |-> FALSE,
   caller |-> [p \in Sender |-> "use"]]

\* The producer returns, by itself or because it is told to.
ProducerEnds == s.producer = "run" /\ s' = [s EXCEPT !.producer = "failed"]
ProducerStops == s.producer = "run" /\ s.quit /\ s' = [s EXCEPT !.producer = "ok"]

\* Then the error is passed on, unless somebody has unsubscribed.
ProducerReports ==
  /\ s.producer \in {"failed", "ok"}
  /\ s' = [s EXCEPT !.producer = "gone", !.done = TRUE, !.unsubscribed = TRUE,
             !.err = IF ~s.unsubscribed /\ s.producer = "failed" THEN <<"failed">> ELSE @]

FuncUnsubscribe(p) ==
  \/ /\ s.caller[p] = "use"
     /\ s' = IF s.unsubscribed THEN [s EXCEPT !.caller[p] = "done"]
             ELSE [s EXCEPT !.caller[p] = "wait", !.unsubscribed = TRUE, !.quit = TRUE]
  \/ s.caller[p] = "wait" /\ s.done /\ s' = [s EXCEPT !.caller[p] = "done"]

FuncMoves == \/ ProducerStops \/ ProducerReports
             \/ \E p \in Sender : s.caller[p] = "wait" /\ FuncUnsubscribe(p)
FuncNext == ProducerEnds \/ FuncMoves \/ \E p \in Sender : FuncUnsubscribe(p)

----------------------------------------------------------------------------
(* Resubscribe.                                                             *)

ResubInit ==
  [loop |-> "try", fn |-> "none", inner |-> "none", caller |-> "use", done |-> FALSE,
   fails |-> 0]

\* subscribe starts a goroutine that calls fn, which succeeds or fails.
ResubTry == s.loop = "try" /\ s' = [s EXCEPT !.loop = "wait", !.fn = "call"]
FnReturns ==
  /\ s.fn = "call"
  /\ \/ s' = [s EXCEPT !.fn = "ok", !.inner = "on"]
     \/ s.fails < MaxFails /\ s' = [s EXCEPT !.fn = "failed", !.fails = @ + 1]

\* Its result is taken, unless Unsubscribe was called: then nobody takes it.
ResubTake ==
  /\ s.loop = "wait" /\ s.fn \in {"ok", "failed"}
  /\ s' = [s EXCEPT !.fn = "none", !.loop = IF s.fn = "ok" THEN "on" ELSE "backoff"]

BackoffEnds == s.loop = "backoff" /\ s' = [s EXCEPT !.loop = "try"]

\* The inner subscription fails, or ends without an error.
InnerEnds(err) ==
  /\ s.loop = "on" /\ s.inner = "on"
  /\ err => s.fails < MaxFails
  /\ s' = [s EXCEPT !.inner = "none", !.loop = IF err THEN "try" ELSE "end",
                    !.fails = IF err THEN @ + 1 ELSE @]

LoopEnds == s.loop = "end" /\ ~s.done /\ s' = [s EXCEPT !.done = TRUE]

\* Unsubscribe offers to the loop, wherever it waits, and waits for its end.
ResubUnsubscribe ==
  \/ s.caller = "use" /\ s' = [s EXCEPT !.caller = "offer"]
  \/ /\ s.caller = "offer" /\ s.loop \in {"wait", "on", "backoff"}
     /\ s' = [s EXCEPT !.caller = "wait", !.loop = "end",
                       !.inner = IF s.loop = "on" THEN "none" ELSE @]
  \/ s.caller = "wait" /\ s.done /\ s' = [s EXCEPT !.caller = "done"]

ResubMoves == \/ ResubTry \/ FnReturns \/ ResubTake \/ BackoffEnds \/ LoopEnds
              \/ s.caller # "use" /\ ResubUnsubscribe
ResubNext == ResubMoves \/ ResubUnsubscribe \/ \E err \in BOOLEAN : InnerEnds(err)

----------------------------------------------------------------------------
Init ==
  /\ kind \in Kind
  /\ s = CASE kind = "feed" -> FeedInit [] kind = "mux" -> MuxInit
           [] kind = "func" -> FuncInit [] kind = "resub" -> ResubInit

Next ==
  /\ UNCHANGED kind
  /\ \/ kind = "feed" /\ FeedNext
     \/ kind = "mux" /\ MuxNext
     \/ kind = "func" /\ FuncNext
     \/ kind = "resub" /\ ResubNext

\* The goroutines of the package go on; its users may stop at any point, but a
\* producer that is told to stop does.
System ==
  \/ kind = "feed" /\ FeedMoves
  \/ kind = "mux" /\ MuxMoves
  \/ kind = "func" /\ FuncMoves
  \/ kind = "resub" /\ ResubMoves

\* Weak fairness spelled out; no behaviour has infinitely many steps but the
\* tries of Resubscribe, which are bounded.
Rests(i) == i = 1 => ~ENABLED (System /\ UNCHANGED kind)
Moves(i) == i = 1

Spec == Init /\ [][Next]_vars
FairSpec == Spec /\ ([]<>Rests(1) \/ []<><<Moves(1)>>_vars)

----------------------------------------------------------------------------
\* A finished Send has reached each channel that was subscribed when it began,
\* unless that was removed meanwhile, and no other; a channel gets no value
\* twice, and nothing more once its Unsubscribe has returned.
FeedDelivers ==
  kind = "feed" =>
    \A c \in Chan :
      /\ IsInjective(s.got[c])
      /\ s.sub[c] = "off" => c \notin ToSet(s.cases \o s.inbox)
      /\ \A p \in Sender :
           /\ p \in ToSet(s.got[c]) => c \in s.want[p]
           /\ s.pc[p] = "done" /\ c \in s.want[p] => p \in ToSet(s.got[c]) \/ s.sub[c] = "off"

\* No Post is about to send on a channel of the mux that was closed, and no event
\* reaches a subscriber twice.
MuxSafe ==
  kind = "mux" =>
    /\ \A c \in Chan : IsInjective(s.got[c])
    /\ \A p \in Sender : s.posts[p].in = "chan" => Head(s.posts[p].todo) \notin s.closed

\* What is still under way waits for somebody outside.  Feed: a Send for a
\* channel that is full, with no removal pending; and other Sends for that one.
\* Mux: a Post for a receiver that stays away.  Resubscribe: see Hung.
Hung == s.caller = "offer" /\ s.loop = "end"
Quiet ==
  CASE kind = "feed" ->
         /\ s.scope # "closing"
         /\ \A c \in Chan : s.user[c] \notin {"track", "leave"} /\ s.sub[c] # "offer"
         /\ \A p \in Sender :
              \/ s.pc[p] = "done"
              \/ s.pc[p] = "select" /\ \A i \in 1..s.n : ~Room(s.cases[i])
              \/ s.pc[p] = "wait" /\ s.lock # "free"
    [] kind = "mux" ->
         /\ s.lock = "free"
         /\ \A c \in Chan : s.sub[c] # "close"
         /\ \A p \in Sender :
              \/ s.posts[p].at \in {"new", "done"}
              \/ s.posts[p].in # "no" /\ Head(s.posts[p].todo) \notin s.closing
    [] kind = "func" -> \A p \in Sender : s.caller[p] # "wait"
    [] kind = "resub" -> s.caller \in {"use", "done"} \/ Hung

=============================================================================
