------------------------------- MODULE LesFlow -------------------------------
(***************************************************************************)
(* Flow control between light clients and their server (les/flowcontrol):  *)
(* each client estimates what the server still takes from it (ServerNode), *)
(* the server keeps the value itself (ClientNode) and turns away what      *)
(* comes too early (reject in les/handler.go), and a manager bounds how    *)
(* many clients are served at once (ClientManager).                        *)
(*                                                                         *)
(* Time is in units of fcTimeConst.  The recharge values of the manager    *)
(* are choices: they may delay a request and raise what a client has left. *)
(***************************************************************************)
EXTENDS Integers, Sequences, FiniteSets, FiniteSetsExt

CONSTANTS
  Client,            \* 1, 2, ...
  BufLimit, MinRecharge, safetyMargin, maxSimReq,
  Cost,              \* what requests cost; more than BufLimit counts as BufLimit
  W,                 \* width of an unsigned integer, in bits
  Bounds             \* bounds on what happens: how many clients are active,
                     \* how many requests they send, and in what time

VARIABLES
  time,
  est,    \* ServerNode of each client
  link,   \* requests to the server: cost, and when it was queued
  back,   \* buffer values in answers to the client
  srv,    \* ClientNode and the message handler of each client
  cm,     \* ClientManager
  late,   \* history: a request was on its way longer than the margin
  left    \* what is left of one of the bounds

vars == <<time, est, link, back, srv, cm, late, left>>

capped(cost) == Min({cost, BufLimit})

Init ==
  /\ time = 0 /\ late = FALSE /\ left \in Bounds
  /\ est = [c \in Client |-> [buf |-> BufLimit, last |-> 0, sum |-> 0, pending |-> <<>>]]
  /\ link = [c \in Client |-> <<>>] /\ back = [c \in Client |-> <<>>]
  /\ srv = [c \in Client |-> [buf |-> BufLimit, last |-> 0, at |-> "read", bv |-> 0,
                              serving |-> FALSE]]
  /\ cm = [nodes |-> Client, simReqCnt |-> 0, resume |-> {}, stopped |-> FALSE,
           panic |-> FALSE]

Tick ==
  /\ time < left[3] /\ time' = time + 1
  /\ UNCHANGED <<est, link, back, srv, cm, late, left>>

\* recalcBLE and recalcBV: the buffer recharges, up to its limit.
recharged(n) == [n EXCEPT !.buf = Min({@ + MinRecharge * (time - n.last), BufLimit}),
                          !.last = time]

----------------------------------------------------------------------------
(* The client.                                                             *)

\* CanSend returns no waiting time, then QueueRequest.
canSend(n, cost) == n.buf >= capped(cost + safetyMargin * MinRecharge)

Send(c, cost) ==
  LET n == recharged(est[c])
      k == capped(cost)
  IN  /\ srv[c].at # "gone" /\ canSend(n, k)
      /\ c <= left[1] /\ left[2] > 0 /\ left' = [left EXCEPT ![2] = @ - 1]
      /\ est' = [est EXCEPT ![c] = [n EXCEPT !.buf = @ - k, !.sum = @ + k,
                                             !.pending = Append(@, n.sum + k)]]
      /\ link' = [link EXCEPT ![c] = Append(@, [cost |-> cost, at |-> time])]
      /\ UNCHANGED <<time, back, srv, cm, late>>

\* Faulty variant: requests on their way are not counted.
GotReplyAll(c) ==
  /\ back[c] # <<>> /\ back' = [back EXCEPT ![c] = Tail(@)]
  /\ est' = [est EXCEPT ![c] = [@ EXCEPT !.buf = capped(Head(back[c])), !.last = time,
                                         !.pending = Tail(@)]]
  /\ UNCHANGED <<time, link, srv, cm, late, left>>

GotReply(c) ==
  LET cc == est[c].sum - Head(est[c].pending)
  IN  /\ back[c] # <<>> /\ back' = [back EXCEPT ![c] = Tail(@)]
      /\ est' = [est EXCEPT ![c] = [@ EXCEPT !.buf = Max({capped(Head(back[c])) - cc, 0}),
                                             !.last = time, !.pending = Tail(@)]]
      /\ UNCHANGED <<time, link, srv, cm, late, left>>

----------------------------------------------------------------------------
(* The server.                                                             *)

canStartReq == cm.simReqCnt < maxSimReq
started == [cm EXCEPT !.simReqCnt = @ + 1]

\* AcceptRequest: the request starts, or waits for its turn.
AcceptRequest(c) ==
  LET n == recharged(srv[c])
  IN  /\ srv[c].at = "read" /\ link[c] # <<>>
      /\ \/ /\ canStartReq /\ cm' = started
            /\ srv' = [srv EXCEPT ![c] = [n EXCEPT !.at = "check", !.bv = n.buf,
                                                   !.serving = TRUE]]
         \/ /\ srv' = [srv EXCEPT ![c] = [n EXCEPT !.at = "queue", !.bv = n.buf]]
            /\ UNCHANGED cm
      /\ UNCHANGED <<time, est, link, back, late, left>>

\* It is handed to queueProc, unless the channel is closed.
Queue(c) ==
  /\ srv[c].at = "queue"
  /\ IF cm.stopped THEN cm' = [cm EXCEPT !.panic = TRUE] /\ UNCHANGED srv
     ELSE /\ cm.resume = {} /\ cm' = [cm EXCEPT !.resume = {c}]
          /\ srv' = [srv EXCEPT ![c].at = "wait"]
  /\ UNCHANGED <<time, est, link, back, late, left>>

queueProc ==
  /\ cm.resume # {} /\ canStartReq
  /\ cm' = [cm EXCEPT !.resume = {}]
  /\ srv' = [c \in Client |-> IF c \in cm.resume THEN [srv[c] EXCEPT !.at = "resumed"]
                              ELSE srv[c]]
  /\ UNCHANGED <<time, est, link, back, late, left>>

\* If the client was removed the answer is no, but reject does not look at it.
Resume(c) ==
  /\ srv[c].at = "resumed"
  /\ IF c \in cm.nodes
     THEN cm' = started /\ srv' = [srv EXCEPT ![c].at = "check", ![c].serving = TRUE]
     ELSE srv' = [srv EXCEPT ![c].at = "check"] /\ UNCHANGED cm
  /\ UNCHANGED <<time, est, link, back, late, left>>

\* stop, and removeNode if the client is gone.
stop(c, gone) == [cm EXCEPT !.simReqCnt = IF srv[c].serving THEN @ - 1 ELSE @,
                            !.nodes = IF gone THEN @ \ {c} ELSE @]

tooEarly(c) == srv[c].at = "check" /\ capped(Head(link[c]).cost) > srv[c].bv

\* The end of a connection: rejected, or lost while the server reads.
Remove(c) ==
  /\ tooEarly(c) \/ srv[c].at = "read"
  /\ srv' = [srv EXCEPT ![c].at = "gone", ![c].serving = FALSE]
  /\ cm' = stop(c, TRUE)
  /\ UNCHANGED <<time, est, link, back, late, left>>

\* RequestProcessed, with the whole cost: the difference wraps, and is then
\* taken for a full buffer.  There may be more left than the client's own value.
processed(n, cost) == [n EXCEPT !.buf = capped((@ - cost) % 2^W)]

RequestProcessed(c) ==
  LET r == Head(link[c])
      n == processed(recharged(srv[c]), r.cost)
  IN  /\ srv[c].at = "check" /\ ~tooEarly(c)
      /\ \E buf \in {n.buf, BufLimit} :
           /\ srv' = [srv EXCEPT ![c] = [n EXCEPT !.buf = buf, !.at = "read", !.bv = 0,
                                                  !.serving = FALSE]]
           /\ back' = [back EXCEPT ![c] = Append(@, buf)]
      /\ cm' = stop(c, FALSE)
      /\ link' = [link EXCEPT ![c] = Tail(@)]
      /\ late' = (late \/ time > r.at + safetyMargin)
      /\ UNCHANGED <<time, est, left>>

\* The server stops the manager before it stops the message handlers.
Stop ==
  /\ ~cm.stopped /\ cm' = [cm EXCEPT !.stopped = TRUE, !.nodes = {}]
  /\ UNCHANGED <<time, est, link, back, srv, late, left>>

Next ==
  \/ ~cm.panic /\ (Tick \/ queueProc \/ Stop)
  \/ \E c \in Client :
       /\ ~cm.panic
       /\ \/ \E cost \in Cost : Send(c, cost)
          \/ GotReply(c) \/ AcceptRequest(c) \/ Queue(c) \/ Resume(c)
          \/ Remove(c) \/ RequestProcessed(c)

Spec == Init /\ [][Next]_vars

----------------------------------------------------------------------------
\* A request sent when CanSend allows it does not come too early, with several
\* on their way and whatever the server has left: if those before it took no
\* longer than the margin, and if the margin was not cut off at the limit.
HonestNotRejected ==
  \A c \in Client :
    tooEarly(c) => late \/ Head(link[c]).cost + safetyMargin * MinRecharge > BufLimit

\* The manager counts the clients that are being served, also if a client or
\* the manager goes in the middle of it.
CountRight == cm.simReqCnt = Cardinality({c \in Client : srv[c].serving})

=============================================================================
