------------------------------ MODULE P2PServer ------------------------------
(***************************************************************************)
(* The p2p server (p2p/server.go, p2p/dial.go): the run loop, which owns   *)
(* the peers and the dial state, the goroutines that set connections up    *)
(* and ask it at two checkpoints, the listener and Stop.                   *)
(*                                                                         *)
(* A connection is <<node, "in" or "out">>.  Stop holds srv.lock until the *)
(* loops have returned; Self and SetupConn take it too.                    *)
(***************************************************************************)
EXTENDS Integers, Sequences, SequencesExt, FiniteSets

CONSTANTS
  Node, Trusted,       \* nodes; those that are accepted above MaxPeers
  StaticNodes,         \* nodes that are or can be static
  Dialers,             \* nodes that connect of their own accord
  Boot, Random,        \* the bootnode; what the table may give as random nodes
  maxDynDials, MaxPeers, maxActiveDialTasks,
  MaxPendingPeers      \* inbound connections that are set up at a time

VARIABLES
  g,       \* the run loop: peers and dial state
  conn,    \* of each connection: where it is, how it was made
  fin,     \* tasks that have been done and wait in taskdone
  expired, \* entries of the dial history whose time is over
  slots, listen,
  stop     \* "no"; "wait": Stop holds the lock and waits; "done"

vars == <<g, conn, fin, expired, slots, listen, stop>>

Conn == Node \X {"in", "out"}
NoConn == [at |-> "none", flag |-> "none", told |-> FALSE]

----------------------------------------------------------------------------
(* Dial state.  Tasks are nodes to dial, "lookup" and "wait".              *)

checkDial(h, n) ==
  /\ h.dialing[n] = "none"
  /\ \A c \in h.peers : c[1] # n
  /\ \A i \in DOMAIN h.hist : h.hist[i] # n

addDial(h, flag, n) ==
  IF ~checkDial(h, n) THEN h
  ELSE [h EXCEPT !.dialing[n] = flag, !.new = Append(@, n),
                 !.need = IF flag = "dyn" THEN @ - 1 ELSE @]

addDials(h, nodes) ==
  IF nodes = <<>> THEN h ELSE FoldLeft(LAMBDA x, n : addDial(x, "dyn", n), h, nodes)

\* The parts of newTasks: the history expires and static nodes are dialed; the
\* bootnode, if there are no peers for long; random nodes; results of lookups;
\* then a lookup, or a wait for the history if nothing else will wake the loop.
dialStatic(h) ==
  LET dyn == Cardinality({c \in h.peers : conn[c].flag = "dyn"})
             + Cardinality({n \in Node : h.dialing[n] = "dyn"})
      hist == SubSeq(h.hist, expired + 1, Len(h.hist))
      static == {n \in h.static : checkDial([h EXCEPT !.hist = hist], n)}
  IN  [h EXCEPT !.need = maxDynDials - dyn, !.hist = hist,
                !.dialing = [n \in Node |-> IF n \in static THEN "static" ELSE @[n]],
                !.new = IF static = {} THEN <<>> ELSE SetToSeq(static)]

dialRandom(h, boot, random) ==
  LET h1 == IF h.peers = {} /\ h.need > 0 /\ boot THEN addDial(h, "dyn", Boot) ELSE h
  IN  IF h1.need \div 2 > 0 THEN addDials(h1, random) ELSE h1

dialFound(h) ==
  LET used == CHOOSE k \in 0..Len(h.buf) :
                /\ k = Len(h.buf) \/ addDials(h, SubSeq(h.buf, 1, k)).need <= 0
                /\ \A j \in 0..k - 1 : addDials(h, SubSeq(h.buf, 1, j)).need > 0
  IN  IF h.buf = <<>> THEN h
      ELSE [addDials(h, SubSeq(h.buf, 1, used)) EXCEPT
              !.buf = SubSeq(h.buf, used + 1, Len(h.buf))]

lookOrWait(h, nRunning) ==
  IF Len(h.buf) < h.need /\ ~h.looking
  THEN [h EXCEPT !.looking = TRUE, !.new = Append(@, "lookup")]
  ELSE IF nRunning = 0 /\ h.new = <<>> /\ h.hist # <<>>
  THEN [h EXCEPT !.new = <<"wait">>] ELSE h

startTasks(h, tasks) ==
  LET n == IF Len(tasks) < maxActiveDialTasks - Len(h.running) THEN Len(tasks)
           ELSE maxActiveDialTasks - Len(h.running)
  IN  [h EXCEPT !.running = @ \o SubSeq(tasks, 1, n),
                !.queued = @ \o SubSeq(tasks, n + 1, Len(tasks))]

\* What the loop does before every select.
scheduleTasks(h) ==
  \E h1 \in {startTasks([h EXCEPT !.queued = <<>>], h.queued)} :
    IF Len(h1.running) >= maxActiveDialTasks THEN g' = h1 /\ UNCHANGED expired
    ELSE \E boot \in BOOLEAN, random \in Random, h2 \in {dialStatic(h1)} :
         \E h3 \in {dialRandom(h2, boot, random)} : \E h4 \in {dialFound(h3)} :
         \E h5 \in {lookOrWait(h4, Len(h1.running) + Len(h1.queued))} :
           /\ g' = [startTasks(h5, h5.new) EXCEPT !.new = <<>>, !.need = 0]
           /\ expired' = 0

Start == [at |-> "start", cur |-> <<Boot, "in">>, peers |-> {}, static |-> StaticNodes,
          dialing |-> [n \in Node |-> "none"], running |-> <<>>, queued |-> <<>>,
          hist |-> <<>>, looking |-> FALSE, buf |-> <<>>, new |-> <<>>, need |-> 0]

\* SetupConn returns: the slot is free, or the dial is done.
Return(c) ==
  /\ slots' = IF c[2] = "in" THEN slots + 1 ELSE slots
  /\ fin' = IF c[2] = "out" THEN fin \cup {c[1]} ELSE fin

Close(c) == conn' = [conn EXCEPT ![c] = NoConn] /\ Return(c)

Init ==
  /\ conn = [c \in Conn |-> NoConn] /\ fin = {} /\ g = Start /\ expired = 0
  /\ slots = MaxPendingPeers /\ listen = "slots" /\ stop = "no"

----------------------------------------------------------------------------
(* The run loop.                                                           *)

Run ==
  /\ g.at = "start" /\ scheduleTasks([g EXCEPT !.at = "loop"])
  /\ UNCHANGED <<conn, fin, slots, listen, stop>>

AddStatic(n) ==
  /\ g.at = "loop" /\ n \in StaticNodes \ g.static
  /\ scheduleTasks([g EXCEPT !.static = @ \cup {n}])
  /\ UNCHANGED <<conn, fin, slots, listen, stop>>

\* The peer is disconnected.
RemoveStatic(n) ==
  /\ g.at = "loop" /\ n \in g.static
  /\ conn' = [c \in Conn |-> IF c[1] = n /\ c \in g.peers
                             THEN [conn[c] EXCEPT !.told = TRUE] ELSE conn[c]]
  /\ scheduleTasks([g EXCEPT !.static = @ \ {n}])
  /\ UNCHANGED <<fin, slots, listen, stop>>

TaskDone(t) ==
  LET h == [g EXCEPT !.running = SelectSeq(@, LAMBDA r : r # t)]
  IN  /\ g.at = "loop" /\ t \in fin /\ fin' = fin \ {t}
      /\ IF t = "lookup"
         THEN \E found \in {<<>>} \cup {<<n>> : n \in Node} :
                scheduleTasks([h EXCEPT !.looking = FALSE, !.buf = @ \o found])
         ELSE IF t = "wait" THEN scheduleTasks(h)
         ELSE scheduleTasks([h EXCEPT !.dialing[t] = "none", !.hist = Append(@, t)])
      /\ UNCHANGED <<conn, slots, listen, stop>>


tooMany(c) ==
  /\ conn[c].flag # "static" /\ c[1] \notin Trusted /\ Cardinality(g.peers) >= MaxPeers

\* A connection comes to its first or its second checkpoint: encHandshakeChecks
\* refuses it or goes on to compare it with Self.
Checkpoint(c) ==
  /\ g.at = "loop" /\ conn[c].at \in {"posthandshake", "addpeer"}
  /\ IF tooMany(c) \/ \E d \in g.peers : d[1] = c[1]
     THEN Close(c) /\ scheduleTasks(g)
     ELSE g' = [g EXCEPT !.at = "self", !.cur = c] /\ UNCHANGED <<conn, fin, expired, slots>>
  /\ UNCHANGED <<listen, stop>>

\* Self needs the lock.  The connection goes on to the protocol handshake or,
\* the second time, becomes a peer.
Self ==
  LET c == g.cur
      first == conn[c].at = "posthandshake"
  IN  /\ g.at = "self" /\ stop = "no"
      /\ conn' = [conn EXCEPT ![c].at = IF first THEN "proto" ELSE "running"]
      /\ scheduleTasks([g EXCEPT !.at = "loop", !.cur = Start.cur,
                                 !.peers = IF first THEN @ ELSE @ \cup {c}])
      /\ IF first THEN UNCHANGED <<fin, slots>> ELSE Return(c)
      /\ UNCHANGED <<listen, stop>>

DelPeer(c) ==
  /\ g.at \in {"loop", "spin"} /\ conn[c].at = "ended"
  /\ conn' = [conn EXCEPT ![c] = NoConn]
  /\ IF g.at = "loop" THEN scheduleTasks([g EXCEPT !.peers = @ \ {c}])
     ELSE g' = [g EXCEPT !.peers = @ \ {c}] /\ UNCHANGED expired
  /\ UNCHANGED <<fin, slots, listen, stop>>

Quit ==
  /\ g.at = "loop" /\ stop = "wait"
  /\ g' = [g EXCEPT !.at = "spin"]
  /\ conn' = [c \in Conn |-> IF c \in g.peers THEN [conn[c] EXCEPT !.told = TRUE]
                             ELSE conn[c]]
  /\ UNCHANGED <<fin, expired, slots, listen, stop>>

SpunDown ==
  /\ g.at = "spin" /\ g.peers = {}
  /\ g' = [g EXCEPT !.at = "done"]
  /\ UNCHANGED <<conn, fin, expired, slots, listen, stop>>

----------------------------------------------------------------------------
(* Tasks, connections, the listener.                                       *)

Running(t) == \E i \in DOMAIN g.running : g.running[i] = t

\* A dial fails, a lookup ends.  A wait ends when the oldest entry expires.
DoTask(t) ==
  /\ Running(t) /\ t \notin fin
  /\ t \in Node => conn[<<t, "out">>] = NoConn
  /\ t = "wait" => expired > 0
  /\ fin' = fin \cup {t}
  /\ UNCHANGED <<g, conn, expired, slots, listen, stop>>

Dial(n) ==
  /\ Running(n) /\ n \notin fin /\ conn[<<n, "out">>] = NoConn
  /\ conn' = [conn EXCEPT ![<<n, "out">>] = [at |-> "setup", flag |-> g.dialing[n], told |-> FALSE]]
  /\ UNCHANGED <<g, fin, expired, slots, listen, stop>>

Expire ==
  /\ expired < Len(g.hist) /\ expired' = expired + 1
  /\ UNCHANGED <<g, conn, fin, slots, listen, stop>>

\* listenLoop takes a slot, accepts, takes a slot; it ends when the listener is
\* closed, but not while it waits for a slot.
TakeSlot ==
  /\ listen = "slots" /\ slots > 0 /\ slots' = slots - 1 /\ listen' = "accept"
  /\ UNCHANGED <<g, conn, fin, expired, stop>>

Accept(n) ==
  /\ listen = "accept" /\ stop = "no" /\ conn[<<n, "in">>] = NoConn
  /\ conn' = [conn EXCEPT ![<<n, "in">>] = [at |-> "setup", flag |-> "inbound", told |-> FALSE]]
  /\ listen' = "slots" /\ UNCHANGED <<g, fin, expired, slots, stop>>

ListenEnds ==
  /\ listen = "accept" /\ stop = "wait" /\ listen' = "done"
  /\ UNCHANGED <<g, conn, fin, expired, slots, stop>>

\* SetupConn: it takes the lock for a moment; then the handshakes, which may
\* fail, each with a checkpoint, which fails when the server quits.
SetupConn(c) ==
  /\ (conn[c].at = "setup" /\ stop = "no") \/ conn[c].at = "proto"
  /\ conn' = [conn EXCEPT ![c].at = IF @ = "setup" THEN "posthandshake" ELSE "addpeer"]
  /\ UNCHANGED <<g, fin, expired, slots, listen, stop>>

SetupFails(c) ==
  /\ \/ conn[c].at = "setup" /\ stop # "wait"
     \/ conn[c].at = "proto"
     \/ conn[c].at \in {"posthandshake", "addpeer"} /\ stop # "no"
  /\ Close(c)
  /\ UNCHANGED <<g, expired, listen, stop>>

\* The connection of a peer ends.
PeerEnds(c) ==
  /\ conn[c].at = "running" /\ conn' = [conn EXCEPT ![c].at = "ended"]
  /\ UNCHANGED <<g, fin, expired, slots, listen, stop>>

Stop ==
  /\ stop = "no" /\ stop' = "wait"
  /\ UNCHANGED <<g, conn, fin, expired, slots, listen>>

Stopped ==
  /\ stop = "wait" /\ g.at = "done" /\ listen = "done" /\ stop' = "done"
  /\ UNCHANGED <<g, conn, fin, expired, slots, listen>>

Next ==
  \/ Run \/ Self \/ Quit \/ SpunDown \/ Expire \/ TakeSlot \/ ListenEnds \/ Stop \/ Stopped
  \/ \E n \in Node : AddStatic(n) \/ RemoveStatic(n) \/ Dial(n)
  \/ \E n \in Dialers : Accept(n)
  \/ \E t \in Node \cup {"lookup", "wait"} : TaskDone(t) \/ DoTask(t)
  \/ \E c \in Conn : \/ Checkpoint(c) \/ DelPeer(c) \/ SetupConn(c)
                     \/ SetupFails(c) \/ PeerEnds(c)

\* What will leave its state: connections at a checkpoint, in a handshake or
\* told to end, of one direction; dials, lookups and waits.
Checking(dir) == {c \in Node \X {dir} : conn[c].at \in {"posthandshake", "addpeer"}}
Pending(dir) == {c \in Node \X {dir} : \/ conn[c].at = "proto"
                                       \/ conn[c].at = "setup" /\ stop # "wait"
                                       \/ conn[c].at = "running" /\ conn[c].told}
Ended == {c \in Conn : conn[c].at = "ended"}
Over == {t \in Node \cup {"lookup", "wait"} :
           /\ Running(t) /\ t \notin fin
           /\ t \in Node => conn[<<t, "out">>] = NoConn
           /\ t = "wait" => expired > 0}

\* Fairness, spelled out as "infinitely often at rest, or infinitely often
\* moved".  The select of the loop chooses at random among what is ready, so it
\* attends to each kind of event again and again; handshakes, lookups and waits
\* end; the dial history expires; peers that are told to disconnect do.
Rests(i) ==
  CASE i = 1 -> fin = {} \/ stop # "no"
    [] i = 2 -> Checking("in") = {}
    [] i = 3 -> Checking("out") = {}
    [] i = 4 -> Pending("in") = {}
    [] i = 5 -> Pending("out") = {}
    [] i = 6 -> Over = {}
    [] i = 7 -> expired = Len(g.hist)
    [] i = 8 -> Ended = {}
    [] i = 9 -> ~(listen = "slots" /\ slots > 0) /\ (stop = "wait" =>
                  listen # "accept" /\ ~(listen = "done" /\ g.at = "done"))
    [] i = 10 -> \/ stop = "no" /\ g.at = "loop"
                 \/ stop = "wait" /\ g.at \in {"self", "done"}
                 \/ stop = "done"
    [] OTHER -> TRUE

Moves(i) ==
  CASE i = 1 -> ~(fin \subseteq fin')
    [] i = 2 -> ~(Checking("in") \subseteq Checking("in")')
    [] i = 3 -> ~(Checking("out") \subseteq Checking("out")')
    [] i = 4 -> \E c \in Pending("in") : conn'[c] # conn[c]
    [] i = 5 -> \E c \in Pending("out") : conn'[c] # conn[c]
    [] i = 6 -> ~(Over \subseteq Over')
    [] i = 7 -> expired' # expired
    [] i = 8 -> ~(Ended \subseteq Ended')
    [] i = 9 -> listen' # listen \/ stop' # stop
    [] i = 10 -> g'.at # g.at
    [] OTHER -> FALSE

Spec == Init /\ [][Next]_vars
FairSpec == Spec /\ \A i \in 1..10 : []<>Rests(i) \/ []<><<Moves(i)>>_vars

----------------------------------------------------------------------------
\* Although several connections are set up at a time, each node is a peer at
\* most once, and the peers that are neither trusted nor static do not exceed
\* MaxPeers: the loop checks again when a connection is added.
PeersBounded ==
  /\ \A c, d \in g.peers : c[1] = d[1] => c = d
  /\ Cardinality({c \in g.peers : c[1] \notin Trusted /\ conn[c].flag # "static"}) <= MaxPeers

\* A node that is being dialed has one task, queued or running, and no other
\* node has one; not more than maxDynDials nodes are dialed or have been dialed
\* as peers because they were found.
DialsPlaced ==
  LET tasks == g.running \o g.queued
  IN  /\ Len(g.running) <= maxActiveDialTasks
      /\ \A n \in Node : Cardinality({i \in DOMAIN tasks : tasks[i] = n})
                          = IF g.dialing[n] = "none" THEN 0 ELSE 1
      /\ Cardinality({n \in Node : \/ g.dialing[n] = "dyn"
                                   \/ \E c \in g.peers : c[1] = n /\ conn[c].flag = "dyn"})
           <= maxDynDials

\* Stop waits for the loop, and the loop for the lock that Stop holds; or the
\* listener waits for a slot, and all who have one wait for the lock.
Hung ==
  /\ stop = "wait"
  /\ \/ g.at = "self"
     \/ listen = "slots" /\ slots = 0 /\ \A n \in Node : conn[<<n, "in">>].at
                                             \in {"none", "setup", "running", "ended"}

\* Stop returns, unless it hangs.
StopEnds == stop # "no" => stop = "done" \/ Hung

\* A static node does not stay without a connection and without being dialed:
\* the history that holds the dial back expires, and a task wakes the loop then.
Wanted(n) ==
  \/ n \notin g.static \/ stop # "no"
  \/ g.dialing[n] # "none" \/ \E c \in g.peers : c[1] = n

=============================================================================
