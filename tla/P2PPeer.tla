------------------------------- MODULE P2PPeer -------------------------------
(***************************************************************************)
(* A connected peer (p2p/peer.go): the run loop, the read and the ping     *)
(* loop and one goroutine per protocol that both ends have, which end      *)
(* together however the connection ends.                                   *)
(*                                                                         *)
(* A capability is <<name, version>>, names and versions are numbers.  The *)
(* codes of a message are those of the wire.                               *)
(***************************************************************************)
EXTENDS Integers, Sequences, SequencesExt, FiniteSets, TLC

CONSTANTS
  Caps,                \* capabilities that an end may have
  Length(_),           \* message codes that a protocol uses
  baseProtocolLength,
  MaxMsgs, MaxWrites   \* bounds

VARIABLES
  mine, theirs,  \* capabilities of both ends
  p              \* the peer

vars == <<mine, theirs, p>>

Less(c, d) == c[1] < d[1] \/ (c[1] = d[1] /\ c[2] < d[2])

\* A later version takes the codes of an earlier one of the same name.
matchCap(acc, c) ==
  LET old == IF c[1] \in DOMAIN acc.result THEN Length(acc.result[c[1]].cap) ELSE 0
      from == acc.offset - old
  IN  [result |-> [n \in DOMAIN acc.result \cup {c[1]} |->
                     IF n = c[1] THEN [cap |-> c, offset |-> from] ELSE acc.result[n]],
       offset |-> from + Length(c)]

\* The other end's capabilities, sorted, are looked up among the own protocols.
matchProtocols(protocols, caps) ==
  FoldLeft(LAMBDA acc, c : IF c \in protocols THEN matchCap(acc, c) ELSE acc,
           [result |-> [n \in {} |-> 0], offset |-> baseProtocolLength],
           SortSeq(SetToSeq(caps), Less)).result

Codes(proto) == proto.offset..proto.offset + Length(proto.cap) - 1

\* newPeer.  Each protocol and the ping loop may report one error.
protoErrCap(running) == Cardinality(DOMAIN running) + 1

newPeer(running) ==
  [running |-> running, at |-> "loop", token |-> TRUE, werr |-> <<>>, rerr |-> <<>>,
   errs |-> 0, cap |-> protoErrCap(running), closed |-> FALSE, netdown |-> FALSE,
   reader |-> "read", to |-> 0, ping |-> "wait", disc |-> "none",
   proto |-> [n \in DOMAIN running |-> "ready"], msgs |-> 0, writes |-> 0]

\* Connections with no common protocol are refused (protoHandshakeChecks).
Init ==
  /\ mine \in SUBSET Caps /\ theirs \in SUBSET Caps
  /\ mine \cap theirs # {}
  /\ p = newPeer(matchProtocols(mine, theirs))

Become(q) == p' = q /\ UNCHANGED <<mine, theirs>>

----------------------------------------------------------------------------
(* The run loop.                                                           *)

close(q) == [q EXCEPT !.at = "wait", !.closed = TRUE, !.netdown = TRUE]

WriteErr ==
  /\ p.at = "loop" /\ p.werr # <<>>
  /\ Become(IF p.werr[1] = "ok" THEN [p EXCEPT !.werr = <<>>, !.token = TRUE]
            ELSE close([p EXCEPT !.werr = <<>>]))

ReadErr == p.at = "loop" /\ p.rerr # <<>> /\ Become(close([p EXCEPT !.rerr = <<>>]))
ProtoErr == p.at = "loop" /\ p.errs > 0 /\ Become(close([p EXCEPT !.errs = @ - 1]))
Disc == p.at = "loop" /\ p.disc = "sent" /\ Become(close([p EXCEPT !.disc = "done"]))

\* Disconnect, which returns when the loop has taken it or has ended.
Disconnect ==
  \/ p.disc = "none" /\ Become([p EXCEPT !.disc = "sent"])
  \/ p.disc = "sent" /\ p.closed /\ Become([p EXCEPT !.disc = "done"])

Ended == p.reader = "done" /\ p.ping = "done" /\ \A n \in DOMAIN p.running : p.proto[n] = "done"
Return == p.at = "wait" /\ Ended /\ Become([p EXCEPT !.at = "done"])

----------------------------------------------------------------------------
(* readLoop and pingLoop.                                                  *)

\* The connection fails, or the other end sends something.
NetFails == ~p.netdown /\ Become([p EXCEPT !.netdown = TRUE])

Read ==
  /\ p.reader = "read" /\ ~p.netdown /\ p.msgs < MaxMsgs
  /\ \/ Become([p EXCEPT !.reader = "error", !.msgs = @ + 1])   \* discMsg
     \/ \E n \in DOMAIN p.running : \E code \in Codes(p.running[n]) :
          Become([p EXCEPT !.reader = "deliver", !.to = code, !.msgs = @ + 1])

getProto(code) == {n \in DOMAIN p.running : code \in Codes(p.running[n])}

\* The message goes to a protocol that reads; otherwise the loop waits.
Deliver ==
  /\ p.reader = "deliver"
  /\ \E n \in getProto(p.to) :
       /\ p.proto[n] = "reading"
       /\ Become([p EXCEPT !.reader = "read", !.to = 0, !.proto[n] = "ready"])

ReadEnds ==
  \/ /\ \/ p.reader = "read" /\ p.netdown
        \/ p.reader = "deliver" /\ p.closed
     /\ Become([p EXCEPT !.reader = "error", !.to = 0])
  \/ /\ p.reader = "error" /\ p.rerr = <<>>
     /\ Become([p EXCEPT !.reader = "done", !.rerr = <<"err">>])

Ping ==
  \/ p.ping = "wait" /\ p.closed /\ Become([p EXCEPT !.ping = "done"])
  \/ p.ping = "wait" /\ p.netdown /\ Become([p EXCEPT !.ping = "error"])
  \/ /\ p.ping = "error" /\ p.errs < p.cap
     /\ Become([p EXCEPT !.ping = "done", !.errs = @ + 1])

----------------------------------------------------------------------------
(* Protocols: each reads, writes, or returns; it returns when one of them  *)
(* fails.                                                                  *)

ProtoReads(n) ==
  \/ p.proto[n] = "ready" /\ Become([p EXCEPT !.proto[n] = "reading"])
  \/ p.proto[n] = "reading" /\ p.closed /\ Become([p EXCEPT !.proto[n] = "error"])

\* WriteMsg: one write at a time; its outcome goes to the run loop.
ProtoWrites(n) ==
  \/ /\ p.proto[n] = "ready" /\ p.writes < MaxWrites
     /\ Become([p EXCEPT !.proto[n] = "start", !.writes = @ + 1])
  \/ p.proto[n] = "start" /\ p.token /\ Become([p EXCEPT !.proto[n] = "writing", !.token = FALSE])
  \/ p.proto[n] = "start" /\ p.closed /\ Become([p EXCEPT !.proto[n] = "error"])
  \/ /\ p.proto[n] = "writing" /\ p.werr = <<>>
     /\ Become(IF p.netdown THEN [p EXCEPT !.proto[n] = "error", !.werr = <<"err">>]
               ELSE [p EXCEPT !.proto[n] = "ready", !.werr = <<"ok">>])

ProtoReturns(n) ==
  \/ p.proto[n] = "ready" /\ Become([p EXCEPT !.proto[n] = "error"])
  \/ /\ p.proto[n] = "error" /\ p.errs < p.cap
     /\ Become([p EXCEPT !.proto[n] = "done", !.errs = @ + 1])

Loop == WriteErr \/ ReadErr \/ ProtoErr \/ Disc \/ Return
Next ==
  \/ Loop \/ Disconnect \/ NetFails \/ Read \/ Deliver \/ ReadEnds \/ Ping
  \/ \E n \in DOMAIN p.running : ProtoReads(n) \/ ProtoWrites(n) \/ ProtoReturns(n)

\* Goroutines go on while they can; a protocol need not stop writing by itself.
Rests(i) ==
  CASE i = 1 -> CASE p.at = "loop" -> p.werr = <<>> /\ p.rerr = <<>> /\ p.errs = 0 /\ p.disc # "sent"
                  [] p.at = "wait" -> ~Ended
                  [] OTHER -> TRUE
    [] i = 2 -> CASE p.reader = "read" -> ~p.netdown
                  [] p.reader = "deliver" -> ~p.closed
                  [] p.reader = "error" -> p.rerr # <<>>
                  [] OTHER -> TRUE
    [] i = 3 -> CASE p.ping = "wait" -> ~p.closed
                  [] p.ping = "error" -> p.errs = p.cap
                  [] OTHER -> TRUE
    [] i = 4 -> \A n \in DOMAIN p.running :
                  CASE p.proto[n] = "ready" -> FALSE
                    [] p.proto[n] = "reading" -> ~p.closed
                    [] p.proto[n] = "start" -> ~p.closed /\ ~p.token
                    [] p.proto[n] = "writing" -> p.werr # <<>>
                    [] p.proto[n] = "error" -> p.errs = p.cap
                    [] OTHER -> TRUE
    [] OTHER -> TRUE

Moves(i) ==
  CASE i = 1 -> p'.at # p.at \/ (p'.token /\ ~p.token)
    [] i = 2 -> p'.reader # p.reader
    [] i = 3 -> p'.ping # p.ping
    [] i = 4 -> p'.proto # p.proto
    [] OTHER -> FALSE

Spec == Init /\ [][Next]_vars
FairSpec == Spec /\ \A i \in 1..4 : []<>Rests(i) \/ []<><<Moves(i)>>_vars

----------------------------------------------------------------------------
\* Both ends give each protocol the same version and the same codes, whatever
\* other protocols and versions each has, and no code belongs to two protocols or
\* to the base protocol:
\* so a message reaches the protocol that it was sent by.
CodesAgree ==
  LET other == matchProtocols(theirs, mine)
  IN  /\ p.running = other
      /\ \A n, k \in DOMAIN other : n # k => Codes(other[n]) \cap Codes(other[k]) = {}
      /\ \A n \in DOMAIN other : other[n].offset >= baseProtocolLength
      /\ \A n \in DOMAIN other : \A c \in mine \cap theirs :
           c[1] = n => c[2] <= other[n].cap[2]

\* Once the loop has been left, the peer ends: no goroutine waits for a channel
\* that nobody reads.
Left == p.at # "loop" => p.at = "done"
=============================================================================
