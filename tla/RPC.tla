--------------------------------- MODULE RPC ---------------------------------
(***************************************************************************)
(* JSON-RPC over a stream (rpc/client.go, server.go, subscription.go): the *)
(* client's dispatch and read loops, callers, one subscription with its    *)
(* forwarding goroutine, reconnecting and Close; the server's serving      *)
(* loops, the execution of requests in parallel, the notifier, and Stop.   *)
(*                                                                         *)
(* There is a batch of calls, a subscription, and its cancellation.        *)
(***************************************************************************)
EXTENDS Integers, Sequences, FiniteSets

CONSTANTS
  BatchSize, maxClientSubscriptionBuffer,
  MaxConns, MaxNotes, MaxEvents  \* bounds; events are broken connections, failing dials,
                                 \* contexts that end, Close, Unsubscribe and Stop

VARIABLES
  d,         \* dispatch
  rd,        \* the read loop
  wc,        \* writeConn, 0 for nil
  sd,        \* sendDone
  op,        \* requestOp of each caller
  respWait, subs,
  sub,       \* the ClientSubscription
  closer,    \* Close
  user,      \* Unsubscribe
  conn,      \* connections, with the server's side of each
  sv,        \* the server
  notes, events

client == <<d, rd, wc, sd, op, respWait, subs, sub, closer, user>>
vars == <<client, conn, sv, notes, events>>

Op == {"call", "sub", "unsub"}
ids(o) == {<<o, i>> : i \in 1..(IF o = "call" THEN BatchSize ELSE 1)}
Conn == 1..MaxConns

NoConn == [up |-> "no", cc |-> FALSE, sc |-> FALSE, c2s |-> <<>>, s2c |-> <<>>,
           serve |-> "no", exec |-> {}, notif |-> "no"]
NewConn == [NoConn EXCEPT !.up = "up", !.serve = "begin"]

Init ==
  /\ d = [at |-> "loop", locked |-> FALSE, last |-> "none", reading |-> TRUE, conn |-> 1,
          next |-> 0, note |-> 0, cause |-> ""]
  /\ rd = [at |-> "read", c |-> 1, msg |-> <<>>]
  /\ wc = 1 /\ sd = ""
  /\ op = [o \in Op |-> [st |-> IF o = "unsub" THEN "idle" ELSE "send", resp |-> {}, closed |-> FALSE, err |-> FALSE, c |-> 0]]
  /\ respWait = {} /\ subs = FALSE
  /\ sub = [fw |-> "none", once |-> "no", quit |-> FALSE, err |-> "", buf |-> <<>>, got |-> <<>>]
  /\ closer = "no" /\ user = "no"
  /\ conn = [c \in Conn |-> IF c = 1 THEN NewConn ELSE NoConn]
  /\ sv = [run |-> TRUE, stop |-> "no"] /\ notes = 0 /\ events = 0

Event == events < MaxEvents /\ events' = events + 1

----------------------------------------------------------------------------
(* Callers.                                                                *)

\* The caller has all its answers, or the channel they come on is closed.
Done(o) == op[o].st = "failed" \/ (op[o].st = "wait" /\ (op[o].closed \/ op[o].resp = ids(o)))
Ok(o) == op[o].st = "wait" /\ Done(o) /\ ~op[o].err

\* send: the client has quit.
Refused(o) ==
  /\ d.at = "quit"
  /\ \/ op[o].st = "send" /\ op' = [op EXCEPT ![o].st = "failed"] /\ UNCHANGED <<sd, conn>>
     \/ /\ op[o].st = "reconn" /\ op' = [op EXCEPT ![o].st = "failed"] /\ sd' = "err"
        /\ conn' = [conn EXCEPT ![op[o].c].cc = TRUE]
  /\ UNCHANGED <<d, rd, wc, respWait, subs, sub, closer, user, sv, notes, events>>

\* The context of a caller ends.
Cancel(o) ==
  /\ o # "unsub" /\ op[o].st \in {"send", "wait"} /\ ~Done(o) /\ Event
  /\ op' = [op EXCEPT ![o].st = "failed"]
  /\ UNCHANGED <<d, rd, wc, sd, respWait, subs, sub, closer, user, conn, sv, notes>>

\* write: what is written to a connection the other side has closed may be lost
\* without an error.
Write(o) ==
  LET k == conn[wc]
      sent == op' = [op EXCEPT ![o].st = "wait", ![o].c = wc] /\ sd' = "ok" /\ UNCHANGED wc
  IN  /\ op[o].st = "write" /\ wc # 0
      /\ IF k.up = "up" /\ ~k.cc /\ ~k.sc
         THEN sent /\ conn' = [conn EXCEPT ![wc].c2s = Append(@, o)]
         ELSE /\ \/ /\ op' = [op EXCEPT ![o].st = "failed"] /\ sd' = "err" /\ wc' = 0
                 \/ ~k.cc /\ sent
              /\ UNCHANGED conn
      /\ UNCHANGED <<d, rd, respWait, subs, sub, closer, user, sv, notes, events>>

\* reconnect, as the previous write failed.
Reconnect(o) ==
  /\ op[o].st = "write" /\ wc = 0
  /\ \/ \E c \in Conn :
          /\ conn[c].up = "no" /\ \A b \in 1..c - 1 : conn[b].up # "no"
          /\ sv.run
          /\ conn' = [conn EXCEPT ![c] = NewConn]
          /\ op' = [op EXCEPT ![o].st = "reconn", ![o].c = c]
          /\ UNCHANGED <<sd, events>>
     \/ /\ IF sv.run /\ conn[MaxConns].up = "no" THEN Event ELSE UNCHANGED events
        /\ op' = [op EXCEPT ![o].st = "failed"] /\ sd' = "err" /\ UNCHANGED conn
  /\ UNCHANGED <<d, rd, wc, respWait, subs, sub, closer, user, sv, notes>>

----------------------------------------------------------------------------
(* dispatch.                                                               *)

TakeOp(o) ==
  /\ d.at = "loop" /\ ~d.locked /\ op[o].st = "send"
  /\ d' = [d EXCEPT !.locked = TRUE, !.last = o]
  /\ op' = [op EXCEPT ![o].st = "write"] /\ respWait' = respWait \cup ids(o)
  /\ UNCHANGED <<rd, wc, sd, subs, sub, closer, user, conn, sv, notes, events>>

TakeDone ==
  /\ d.at = "loop" /\ sd # "" /\ sd' = ""
  /\ respWait' = IF sd = "err" THEN respWait \ ids(d.last) ELSE respWait
  /\ d' = [d EXCEPT !.locked = FALSE, !.last = "none"]
  /\ UNCHANGED <<rd, wc, op, subs, sub, closer, user, conn, sv, notes, events>>

answered(s) == respWait \ s

\* handleNotification and handleResponse.
TakeResp ==
  /\ d.at = "loop" /\ rd.at = "resp" /\ rd' = [rd EXCEPT !.at = "read"]
  /\ \/ /\ rd.msg[1] = "note"
        /\ d' = IF subs THEN [d EXCEPT !.at = "deliver", !.note = rd.msg[2]] ELSE d
        /\ UNCHANGED <<op, respWait, subs, sub>>
     \/ /\ rd.msg[1] # "note"
        /\ LET o == rd.msg[1]
               known == ids(o) \cap respWait
           IN  /\ respWait' = answered(known)
               /\ op' = IF known = {} THEN op
                        ELSE IF o = "sub" THEN [op EXCEPT ![o].closed = TRUE, ![o].err = ~rd.msg[2]]
                        ELSE [op EXCEPT ![o].resp = @ \cup known]
               /\ IF o = "sub" /\ known # {} /\ rd.msg[2]
                  THEN subs' = TRUE /\ sub' = [sub EXCEPT !.fw = "run"]
                  ELSE UNCHANGED <<subs, sub>>
        /\ UNCHANGED d
  /\ UNCHANGED <<wc, sd, closer, user, conn, sv, notes, events>>

\* deliver: the forwarding goroutine takes the value, unless the subscription
\* has ended.
Deliver ==
  /\ d.at = "deliver" /\ d' = [d EXCEPT !.at = "loop", !.note = 0]
  /\ \/ sub.quit /\ UNCHANGED sub
     \/ /\ sub.fw = "run"
        /\ sub' = IF Len(sub.buf) = maxClientSubscriptionBuffer THEN [sub EXCEPT !.fw = "overflow"]
                  ELSE [sub EXCEPT !.buf = Append(@, d.note)]
  /\ UNCHANGED <<rd, wc, sd, op, respWait, subs, closer, user, conn, sv, notes, events>>

\* closeRequestOps is done: the connection is closed.
closed(e, cause) ==
  /\ conn' = [conn EXCEPT ![d.conn].cc = TRUE]
  /\ d' = IF cause = "err" THEN [e EXCEPT !.at = "loop", !.reading = FALSE]
          ELSE [e EXCEPT !.at = IF d.reading THEN "drain" ELSE "quit"]

failed(p) == [p EXCEPT !.closed = TRUE, !.err = TRUE]

\* closeRequestOps: all that wait are told.  If the subscription is just being
\* cancelled, quitOnce makes this wait for that.
closeRequestOps(cause) ==
  /\ op' = [o \in Op |-> IF ids(o) \cap respWait = {} THEN op[o]
                         ELSE failed(op[o])]
  /\ respWait' = {} /\ subs' = FALSE
  /\ IF subs /\ sub.once \in {"forward", "user"}
     THEN d' = [d EXCEPT !.at = "once", !.cause = cause] /\ UNCHANGED <<conn, sub>>
     ELSE /\ closed(d, cause)
          /\ sub' = IF subs /\ sub.once = "no"
                    THEN [sub EXCEPT !.once = "done", !.quit = TRUE, !.err = cause] ELSE sub

TakeErr ==
  /\ d.at = "loop" /\ rd.at = "err" /\ rd' = [rd EXCEPT !.at = "dead"]
  /\ closeRequestOps("err")
  /\ UNCHANGED <<wc, sd, closer, user, sv, notes, events>>

TakeClose ==
  /\ d.at = "loop" /\ closer = "want" /\ closer' = "wait"
  /\ closeRequestOps("quit")
  /\ UNCHANGED <<rd, wc, sd, user, sv, notes, events>>

OnceDone ==
  /\ d.at = "once" /\ sub.once = "done" /\ closed([d EXCEPT !.cause = ""], d.cause)
  /\ UNCHANGED <<rd, wc, sd, op, respWait, subs, sub, closer, user, sv, notes, events>>

\* The read channels are emptied until the read loop is dead.
Drain ==
  /\ d.at = "drain" /\ rd.at \in {"resp", "err"}
  /\ rd' = [rd EXCEPT !.at = IF @ = "resp" THEN "read" ELSE "dead"]
  /\ d' = IF rd.at = "err" THEN [d EXCEPT !.at = "quit"] ELSE d
  /\ UNCHANGED <<wc, sd, op, respWait, subs, sub, closer, user, conn, sv, notes, events>>

\* A new connection: the previous read loop has to end first.
TakeConn(o) ==
  LET c == op[o].c
  IN  /\ d.at = "loop" /\ op[o].st = "reconn"
      /\ op' = [op EXCEPT ![o].st = "write"] /\ wc' = c
      /\ IF d.reading
         THEN /\ conn' = [conn EXCEPT ![d.conn].cc = TRUE]
              /\ d' = [d EXCEPT !.at = "waitErr", !.next = c] /\ UNCHANGED rd
         ELSE /\ rd' = [at |-> "read", c |-> c, msg |-> <<>>]
              /\ d' = [d EXCEPT !.reading = TRUE, !.conn = c] /\ UNCHANGED conn
      /\ UNCHANGED <<sd, respWait, subs, sub, closer, user, sv, notes, events>>

WaitErr ==
  /\ d.at = "waitErr" /\ rd.at = "err"
  /\ rd' = [at |-> "read", c |-> d.next, msg |-> <<>>]
  /\ d' = [d EXCEPT !.at = "loop", !.conn = d.next, !.next = 0]
  /\ UNCHANGED <<wc, sd, op, respWait, subs, sub, closer, user, conn, sv, notes, events>>

\* read.
Read ==
  LET k == conn[rd.c]
  IN  /\ rd.at = "read"
      /\ IF k.up = "broken" \/ k.cc \/ (k.sc /\ k.s2c = <<>>)
         THEN rd' = [rd EXCEPT !.at = "err", !.msg = <<>>] /\ UNCHANGED conn
         ELSE /\ k.s2c # <<>> /\ rd' = [rd EXCEPT !.at = "resp", !.msg = Head(k.s2c)]
              /\ conn' = [conn EXCEPT ![rd.c].s2c = Tail(@)]
      /\ UNCHANGED <<d, wc, sd, op, respWait, subs, sub, closer, user, sv, notes, events>>

----------------------------------------------------------------------------
(* The subscription.                                                       *)

\* The subscriber receives.
Receive ==
  /\ sub.fw = "run" /\ sub.buf # <<>>
  /\ sub' = [sub EXCEPT !.buf = Tail(@), !.got = Append(@, Head(sub.buf))]
  /\ UNCHANGED <<d, rd, wc, sd, op, respWait, subs, closer, user, conn, sv, notes, events>>

\* forward returns as the subscription has ended.
ForwardEnds ==
  /\ sub.fw = "run" /\ sub.quit
  /\ sub' = [sub EXCEPT !.fw = "end", !.buf = <<>>]
  /\ UNCHANGED <<d, rd, wc, sd, op, respWait, subs, closer, user, conn, sv, notes, events>>

\* quitWithError(err, true), of the goroutine whose buffer is full or of
\* Unsubscribe: the first to come cancels.
cancel(who) ==
  IF sub.once = "no"
  THEN /\ sub' = [sub EXCEPT !.once = who, !.quit = TRUE, !.fw = IF who = "forward" THEN "end" ELSE @,
                             !.buf = IF who = "forward" THEN <<>> ELSE @]
       /\ op' = [op EXCEPT !["unsub"].st = "send"]
  ELSE /\ sub' = [sub EXCEPT !.fw = IF who = "forward" THEN "end" ELSE @,
                             !.buf = IF who = "forward" THEN <<>> ELSE @]
       /\ UNCHANGED op

Overflow ==
  /\ sub.fw = "overflow" /\ cancel("forward")
  /\ UNCHANGED <<d, rd, wc, sd, respWait, subs, closer, user, conn, sv, notes, events>>

Unsubscribe ==
  /\ Ok("sub") /\ user = "no" /\ user' = "wait" /\ cancel("user") /\ Event
  /\ UNCHANGED <<d, rd, wc, sd, respWait, subs, closer, conn, sv, notes>>

\* requestUnsubscribe has returned.
Unsubscribed ==
  /\ sub.once \in {"forward", "user"} /\ Done("unsub")
  /\ sub' = [sub EXCEPT !.once = "done", !.err = IF sub.once = "forward" THEN "overflow" ELSE @]
  /\ UNCHANGED <<d, rd, wc, sd, op, respWait, subs, closer, user, conn, sv, notes, events>>

UnsubscribeReturns ==
  /\ user = "wait" /\ sub.once = "done" /\ user' = "done"
  /\ UNCHANGED <<d, rd, wc, sd, op, respWait, subs, sub, closer, conn, sv, notes, events>>

Close ==
  /\ closer = "no" /\ closer' = "want" /\ Event
  /\ UNCHANGED <<d, rd, wc, sd, op, respWait, subs, sub, user, conn, sv, notes>>

CloseReturns ==
  /\ closer \in {"want", "wait"} /\ d.at = "quit" /\ closer' = "done"
  /\ UNCHANGED <<d, rd, wc, sd, op, respWait, subs, sub, user, conn, sv, notes, events>>

----------------------------------------------------------------------------
(* The server.                                                             *)

codecs == {c \in Conn : conn[c].serve \in {"read", "wait"}}

admitted(k) == IF sv.run THEN [k EXCEPT !.serve = "read"] ELSE [k EXCEPT !.serve = "end", !.sc = TRUE]

\* serveRequest: the codec is registered unless the server has stopped.
Serve(c) ==
  /\ conn[c].serve = "begin"
  /\ conn' = [conn EXCEPT ![c] = admitted(@)]
  /\ UNCHANGED <<client, sv, notes, events>>

Readable(k) == k.up = "up" /\ ~k.sc
Writable(k) == k.up = "up" /\ ~k.sc /\ ~k.cc

\* The response is written; if it cannot be the codec is closed.
respond(k, msg) ==
  IF Writable(k) THEN [k EXCEPT !.s2c = Append(@, msg)] ELSE [k EXCEPT !.sc = TRUE]

\* One more request is executed, or the loop ends.  What is being executed is
\* waited for, unless the server has stopped; then a request is refused.
ReadRequest(c) ==
  LET k == conn[c]
  IN  /\ k.serve = "read"
      /\ \/ /\ Readable(k) /\ k.c2s # <<>> /\ sv.run
            /\ conn' = [conn EXCEPT ![c].c2s = Tail(@), ![c].exec = @ \cup {<<Head(k.c2s), "handle">>}]
         \/ /\ ~sv.run
            /\ \/ conn' = [conn EXCEPT ![c].serve = "end", ![c].sc = TRUE]
               \/ /\ Readable(k) /\ k.c2s # <<>>
                  /\ conn' = [conn EXCEPT ![c] =
                       [respond([k EXCEPT !.c2s = Tail(@)], <<Head(k.c2s), FALSE>>)
                          EXCEPT !.serve = "end", !.sc = TRUE]]
         \/ /\ ~Readable(k) \/ (k.cc /\ k.c2s = <<>>)
            /\ conn' = [conn EXCEPT ![c].serve = "wait"]
      /\ UNCHANGED <<client, sv, notes, events>>

ServeEnds(c) ==
  /\ conn[c].serve = "wait" /\ conn[c].exec = {}
  /\ conn' = [conn EXCEPT ![c].serve = "end", ![c].sc = TRUE]
  /\ UNCHANGED <<client, sv, notes, events>>

\* Faulty variant: the subscription is active from the start.
CreateSubscriptionActive == "active"
CreateSubscription == "inactive"

\* handle makes a subscription, which is not active yet, or ends one.
Handle(c, o) ==
  LET k == conn[c]
  IN  /\ <<o, "handle">> \in k.exec
      /\ \/ /\ o = "sub"
            /\ conn' = [conn EXCEPT ![c].exec = (@ \ {<<o, "handle">>}) \cup {<<o, "write">>},
                          ![c].notif = CreateSubscription]
         \/ /\ o # "sub"
            /\ conn' = [conn EXCEPT ![c] =
                 respond([k EXCEPT !.exec = @ \ {<<o, "handle">>},
                            !.notif = IF o = "unsub" /\ @ = "active" THEN "gone" ELSE @],
                         <<o, o # "unsub" \/ k.notif = "active">>)]
      /\ UNCHANGED <<client, sv, notes, events>>

WriteId(c) ==
  /\ <<"sub", "write">> \in conn[c].exec
  /\ conn' = [conn EXCEPT ![c] =
       respond([conn[c] EXCEPT !.exec = (@ \ {<<"sub", "write">>}) \cup {<<"sub", "activate">>}],
               <<"sub", TRUE>>)]
  /\ UNCHANGED <<client, sv, notes, events>>

Activate(c) ==
  /\ <<"sub", "activate">> \in conn[c].exec
  /\ conn' = [conn EXCEPT ![c].exec = @ \ {<<"sub", "activate">>},
                ![c].notif = IF @ = "inactive" THEN "active" ELSE @]
  /\ UNCHANGED <<client, sv, notes, events>>

Notify(c) ==
  /\ conn[c].notif = "active" /\ ~conn[c].sc /\ notes < MaxNotes /\ notes' = notes + 1
  /\ conn' = IF Writable(conn[c]) THEN [conn EXCEPT ![c].s2c = Append(@, <<"note", notes + 1>>)]
             ELSE [conn EXCEPT ![c].sc = TRUE]
  /\ UNCHANGED <<client, sv, events>>

Stop ==
  /\ sv.run /\ Event /\ sv' = [run |-> FALSE, stop |-> "wait"]
  /\ UNCHANGED <<client, conn, notes>>

StopCodecs ==
  /\ sv.stop = "wait" /\ sv' = [sv EXCEPT !.stop = "done"]
  /\ conn' = [c \in Conn |-> IF c \in codecs THEN [conn[c] EXCEPT !.sc = TRUE] ELSE conn[c]]
  /\ UNCHANGED <<client, notes, events>>

Break(c) ==
  /\ conn[c].up = "up" /\ Event
  /\ conn' = [conn EXCEPT ![c].up = "broken", ![c].c2s = <<>>, ![c].s2c = <<>>]
  /\ UNCHANGED <<client, sv, notes>>

----------------------------------------------------------------------------
Next ==
  \/ \E o \in Op : Refused(o) \/ Cancel(o) \/ Write(o) \/ Reconnect(o)
                     \/ TakeOp(o) \/ TakeConn(o)
  \/ TakeDone \/ TakeResp \/ Deliver \/ TakeErr \/ TakeClose \/ OnceDone \/ Drain \/ WaitErr \/ Read
  \/ Receive \/ ForwardEnds \/ Overflow \/ Unsubscribe \/ Unsubscribed \/ UnsubscribeReturns
  \/ Close \/ CloseReturns
  \/ \E c \in Conn :
       \/ Serve(c) \/ ReadRequest(c) \/ WriteId(c) \/ ServeEnds(c) \/ Activate(c) \/ Notify(c) \/ Break(c)
       \/ \E o \in Op : Handle(c, o)
  \/ Stop \/ StopCodecs

\* Weak fairness, spelled out: every goroutine of client and server goes on as long
\* as it can.  Subscribers need not receive.
Rests(i) ==
  IF i # 1 THEN TRUE
  ELSE /\ \A o \in Op :
            /\ op[o].st # "write" /\ (op[o].st \in {"send", "reconn"} => d.at # "quit")
            /\ d.at = "loop" => op[o].st # "reconn" /\ (op[o].st = "send" => d.locked)
       /\ d.at = "loop" => sd = "" /\ rd.at \notin {"resp", "err"} /\ closer # "want"
       /\ d.at = "deliver" => ~sub.quit /\ sub.fw # "run"
       /\ d.at = "once" => sub.once # "done"
       /\ d.at = "drain" => rd.at \notin {"resp", "err"}
       /\ d.at = "waitErr" => rd.at # "err"
       /\ rd.at = "read" => LET k == conn[rd.c]
                            IN  k.up = "up" /\ ~k.cc /\ ~k.sc /\ k.s2c = <<>>
       /\ sub.fw # "overflow" /\ (sub.fw = "run" => ~sub.quit)
       /\ sub.once \in {"forward", "user"} => ~Done("unsub")
       /\ user = "wait" => sub.once # "done"
       /\ closer \in {"want", "wait"} => d.at # "quit"
       /\ sv.stop # "wait"
       /\ \A c \in Conn :
            /\ conn[c].serve \notin {"begin", "wait"} /\ conn[c].exec = {}
            /\ conn[c].serve = "read" => /\ sv.run /\ Readable(conn[c]) /\ conn[c].c2s = <<>>
                                         /\ ~conn[c].cc

Moves(i) == i = 1

Spec == Init /\ [][Next]_vars
FairSpec == Spec /\ ([]<>Rests(1) \/ []<><<Moves(1)>>_vars)

----------------------------------------------------------------------------
\* The channel of a request that is waited for is open and has room, so that
\* dispatch never closes one twice, sends on a closed one, or waits to send.
ChannelsSafe ==
  \A o \in Op : ids(o) \cap respWait # {} =>
    ~op[o].closed /\ ids(o) \cap respWait \cap op[o].resp = {}

\* No notification is lost between the response to the subscription and its end:
\* the id is known to the client before the first one comes.
NotesComplete ==
  LET all == sub.got \o sub.buf
  IN  ~sub.quit => all = [i \in 1..Len(all) |-> i]

\* After the server has stopped no codec stays open.
StopCloses ==
  sv.stop = "done" => \A c \in codecs : conn[c].sc

\* What cannot go on: dispatch waits for a cancellation that waits for dispatch,
\* or for the error of a read loop that waits to hand over a message; or a
\* request was sent on a connection that was then replaced without an error.
Stuck ==
  \/ d.at = "once" /\ op["unsub"].st \in {"send", "reconn"}
  \/ d.at = "waitErr" /\ rd.at = "resp"
  \/ \E o \in Op : op[o].st = "wait" /\ ~Done(o) /\ op[o].c # d.conn

\* Otherwise every call is answered or fails, and Close and Unsubscribe return,
\* whatever breaks in between.
Quiet == (\A o \in Op : op[o].st = "idle" \/ Done(o)) /\ closer # "want" /\ closer # "wait" /\ user # "wait"
=============================================================================
