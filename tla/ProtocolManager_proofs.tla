----------------------- MODULE ProtocolManager_proofs -----------------------
(***************************************************************************)
(* Proofs about ProtocolManager, for any set of peers, limit of the peer   *)
(* set, number of connections and of calls of removePeer.                  *)
(***************************************************************************)
EXTENDS ProtocolManager, FiniteSetTheorems, TLAPS

----------------------------------------------------------------------------
(* The inductive invariant.                                                *)

\* Where a goroutine is before it registers its peer, and between that and the
\* end of its removePeer; Counted is where wg counts it.
Before == {"none", "run", "add", "handshake", "register", "end"}
Inside == {"download", "loop", "remove", "unregister", "forget"}
Counted == {"handshake", "register", "end"} \cup Inside

Connection ==
  [n : Nat, up : BOOLEAN, at : Before \cup Inside, got : Nat, peer : Nat,
   down : BOOLEAN, missed : BOOLEAN]

Drop == [at : {"none", "remove", "unregister", "forget"}, for : Nat, got : Nat]

TypeOK ==
  /\ c \in [Id -> Connection] /\ drop \in [Id -> Drop]
  /\ closed \in BOOLEAN /\ wg \in Nat
  /\ stop \in {"run", "quit", "close", "wait", "done"}

\* One peer and the removePeer that is under way for it.  A peer is in the peer
\* set only while its goroutine is inside; a removePeer is for an earlier
\* connection while the goroutine is on its way in.  Unless a removePeer took
\* another connection than its own: the downloader has no peer that the set
\* has not, and what a removePeer has half done shows in the record.
Fine(r, d) ==
  /\ r.at # "none" => r.n # 0
  /\ r.peer # 0 => r.at \in Inside
  /\ r.at = "forget" => ~r.down
  /\ d.at # "none" =>
       /\ d.for <= r.n
       /\ r.at \in {"run", "add", "handshake", "register", "download"} => d.for < r.n
  /\ ~r.missed =>
       /\ r.peer = 0 => ~r.down
       /\ r.at = "download" => r.peer = r.n
       /\ d.at \in {"unregister", "forget"} => d.got = d.for
       /\ d.at = "forget" /\ r.peer = d.for => ~r.down
       /\ r.at = "loop" /\ r.up =>
            r.peer = r.n /\ (r.down \/ (d.at = "forget" /\ d.for = r.n))

CountedIds == {i \in Id : c[i].at \in Counted}

\* wg counts the goroutines, and Stop's last step is taken with none of them.
Stopping ==
  /\ wg = Cardinality(CountedIds)
  /\ closed = (stop \in {"wait", "done"})
  /\ stop = "done" => \A i \in Id : c[i].at \notin Inside

IInv ==
  /\ TypeOK
  /\ \A i \in Id : Fine(c[i], drop[i])
  /\ Stopping

----------------------------------------------------------------------------
\* Nothing is connected at the start.
LEMMA InitIInv == Init => IInv
  <1> SUFFICES ASSUME Init PROVE IInv
    OBVIOUS
  <1>1. TypeOK
    BY DEF Init, TypeOK, Connection, Drop, NoDrop, Before, Inside
  <1>2. \A i \in Id : Fine(c[i], drop[i])
    BY DEF Init, Fine, NoDrop
  <1>3. CountedIds = {}
    BY DEF Init, CountedIds, Counted, Inside
  <1>4. Stopping
    <2>1. wg = Cardinality(CountedIds)
      BY <1>3, FS_EmptySet DEF Init
    <2>2. closed = FALSE /\ stop = "run"
      BY DEF Init
    <2>3. (stop \in {"wait", "done"}) = FALSE
      BY <2>2
    <2>4. QED
      BY <2>1, <2>2, <2>3, Zenon DEF Stopping
  <1>5. QED
    BY <1>1, <1>2, <1>4 DEF IInv

\* A step of one peer: the others are as they were.
LEMMA OtherPeers ==
  ASSUME IInv, NEW i \in Id, NEW r \in Connection, NEW d \in Drop,
         c' = [c EXCEPT ![i] = r], drop' = [drop EXCEPT ![i] = d], Fine(r, d)
  PROVE  /\ c' \in [Id -> Connection] /\ drop' \in [Id -> Drop]
         /\ \A j \in Id : Fine(c'[j], drop'[j])
  <1>1. c \in [Id -> Connection] /\ drop \in [Id -> Drop]
    BY DEF IInv, TypeOK
  <1>2. c' \in [Id -> Connection] /\ drop' \in [Id -> Drop]
    BY <1>1
  <1>3. ASSUME NEW j \in Id PROVE Fine(c'[j], drop'[j])
    <2>1. CASE j = i
      <3>1. c'[j] = r /\ drop'[j] = d
        BY <1>1, <2>1
      <3>2. QED
        BY <3>1, Zenon
    <2>2. CASE j # i
      <3>1. c'[j] = c[j] /\ drop'[j] = drop[j]
        BY <1>1, <2>2
      <3>2. QED
        BY <3>1, Zenon DEF IInv
    <2>3. QED
      BY <2>1, <2>2
  <1>4. QED
    BY <1>2, <1>3

\* A step of one peer that wg does not count, or goes on counting.
LEMMA SameCount ==
  ASSUME IInv, NEW i \in Id, NEW r \in Connection, NEW d \in Drop,
         c' = [c EXCEPT ![i] = r], drop' = [drop EXCEPT ![i] = d], Fine(r, d),
         r.at \in Counted <=> c[i].at \in Counted,
         r.at \in Inside => c[i].at \in Inside \/ ~closed,
         UNCHANGED <<closed, wg, stop>>
  PROVE  IInv'
  <1>1. /\ c' \in [Id -> Connection] /\ drop' \in [Id -> Drop]
        /\ \A j \in Id : Fine(c'[j], drop'[j])
    BY OtherPeers
  <1>2. c \in [Id -> Connection] /\ c'[i] = r /\ \A j \in Id : j # i => c'[j] = c[j]
    BY DEF IInv, TypeOK
  <1>3. CountedIds' = CountedIds
    BY <1>2 DEF CountedIds
  <1>4. Stopping'
    BY <1>2, <1>3 DEF IInv, Stopping
  <1>5. TypeOK'
    BY <1>1 DEF IInv, TypeOK
  <1>6. QED
    BY <1>1, <1>4, <1>5 DEF IInv

\* What the invariant says of one peer.
LEMMA OnePeer ==
  ASSUME IInv, NEW i \in Id
  PROVE  /\ c \in [Id -> Connection] /\ drop \in [Id -> Drop]
         /\ c[i] \in Connection /\ drop[i] \in Drop
         /\ drop = [drop EXCEPT ![i] = drop[i]] /\ c = [c EXCEPT ![i] = c[i]]
         /\ Fine(c[i], drop[i])
  BY DEF IInv, TypeOK

\* The steps of a peer that leave the others and wg alone: a step keeps what is
\* fine, and none goes in once the peer set is closed.
Keeps(o, r, d) ==
  /\ r \in Connection /\ Fine(r, d)
  /\ r.at \in Counted <=> o.at \in Counted
  /\ r.at \in Inside => o.at \in Inside \/ ~closed

\* The goroutine's steps other than wg.Add and wg.Done.
LEMMA HandlerIInv ==
  ASSUME IInv, NEW i \in Id,
         \/ Connect(i) \/ Announce(i) \/ Handshake(i) \/ Register(i)
         \/ RegisterDownloader(i) \/ Fails(i) \/ Lookup(i)
         \/ UnregisterDownloader(i) \/ Unregister(i) \/ Disconnect(i)
  PROVE  IInv'
  <1> DEFINE o == c[i]
             d == drop[i]
  <1>1. /\ c \in [Id -> Connection] /\ o \in Connection /\ d \in Drop
        /\ drop' = [drop EXCEPT ![i] = d] /\ Fine(o, d)
        /\ UNCHANGED <<closed, wg, stop>>
    BY OnePeer DEF Connect, Announce, Handshake, Register, RegisterDownloader, Fails,
                   Lookup, UnregisterDownloader, Unregister, Disconnect
  <1>2. SUFFICES \E r \in Connection : c' = [c EXCEPT ![i] = r] /\ Keeps(o, r, d)
    <2>1. PICK r \in Connection : c' = [c EXCEPT ![i] = r] /\ Keeps(o, r, d)
      BY <1>2
    <2>2. QED
      BY <1>1, <2>1, SameCount DEF Keeps
  <1>3. CASE Connect(i)
    <2> DEFINE r == [o EXCEPT !.n = o.n + 1, !.up = TRUE, !.at = "run"]
    <2>1. c' = [c EXCEPT ![i] = r]
      BY <1>1, <1>3 DEF Connect
    <2>2. Keeps(o, r, d)
      BY <1>1, <1>3 DEF Connect, Keeps, Fine, Connection, Drop, Before, Inside, Counted
    <2>3. QED
      BY <2>1, <2>2 DEF Keeps
  <1>4. CASE Announce(i) /\ stop = "run"
    <2> DEFINE r == [o EXCEPT !.at = "add"]
    <2>1. c' = [c EXCEPT ![i] = r]
      BY <1>1, <1>4 DEF Announce
    <2>2. Keeps(o, r, d)
      BY <1>1, <1>4 DEF Announce, Keeps, Fine, Connection, Drop, Before, Inside, Counted
    <2>3. QED
      BY <2>1, <2>2 DEF Keeps
  <1>5. CASE Announce(i) /\ stop # "run"
    <2> DEFINE r == [o EXCEPT !.at = "none", !.up = FALSE]
    <2>1. c' = [c EXCEPT ![i] = r]
      BY <1>1, <1>5 DEF Announce
    <2>2. Keeps(o, r, d)
      BY <1>1, <1>5 DEF Announce, Keeps, Fine, Connection, Drop, Before, Inside, Counted
    <2>3. QED
      BY <2>1, <2>2 DEF Keeps
  <1>6. CASE Handshake(i)
    <2> DEFINE r == [o EXCEPT !.at = IF o.up THEN "register" ELSE "end"]
    <2>1. c' = [c EXCEPT ![i] = r]
      BY <1>1, <1>6 DEF Handshake
    <2>2. Keeps(o, r, d)
      BY <1>1, <1>6 DEF Handshake, Keeps, Fine, Connection, Drop, Before, Inside, Counted
    <2>3. QED
      BY <2>1, <2>2 DEF Keeps
  <1>7. CASE Register(i) /\ (closed \/ o.peer # 0)
    <2> DEFINE r == [o EXCEPT !.at = "end"]
    <2>1. c' = [c EXCEPT ![i] = r]
      BY <1>1, <1>7 DEF Register
    <2>2. Keeps(o, r, d)
      BY <1>1, <1>7 DEF Register, Keeps, Fine, Connection, Drop, Before, Inside, Counted
    <2>3. QED
      BY <2>1, <2>2 DEF Keeps
  <1>8. CASE Register(i) /\ ~(closed \/ o.peer # 0)
    <2> DEFINE r == [o EXCEPT !.at = "download", !.peer = o.n]
    <2>1. c' = [c EXCEPT ![i] = r]
      BY <1>1, <1>8 DEF Register
    <2>2. Keeps(o, r, d)
      BY <1>1, <1>8 DEF Register, Keeps, Fine, Connection, Drop, Before, Inside, Counted
    <2>3. QED
      BY <2>1, <2>2 DEF Keeps
  <1>9. CASE RegisterDownloader(i)
    <2> DEFINE r == [o EXCEPT !.down = TRUE, !.at = IF o.down THEN "remove" ELSE "loop"]
    <2>1. c' = [c EXCEPT ![i] = r]
      BY <1>1, <1>9 DEF RegisterDownloader
    <2>2. Keeps(o, r, d)
      BY <1>1, <1>9 DEF RegisterDownloader, Keeps, Fine, Connection, Drop, Before, Inside, Counted
    <2>3. QED
      BY <2>1, <2>2 DEF Keeps
  <1>10. CASE Fails(i)
    <2> DEFINE r == [o EXCEPT !.at = "remove"]
    <2>1. c' = [c EXCEPT ![i] = r]
      BY <1>1, <1>10 DEF Fails
    <2>2. Keeps(o, r, d)
      BY <1>1, <1>10 DEF Fails, Keeps, Fine, Connection, Drop, Before, Inside, Counted
    <2>3. QED
      BY <2>1, <2>2 DEF Keeps
  <1>11. CASE Lookup(i)
    <2> DEFINE r == [o EXCEPT !.got = o.peer, !.at = IF o.peer = 0 THEN "end" ELSE "unregister"]
    <2>1. c' = [c EXCEPT ![i] = r]
      BY <1>1, <1>11 DEF Lookup
    <2>2. Keeps(o, r, d)
      BY <1>1, <1>11 DEF Lookup, Keeps, Fine, Connection, Drop, Before, Inside, Counted
    <2>3. QED
      BY <2>1, <2>2 DEF Keeps
  <1>12. CASE UnregisterDownloader(i)
    <2> DEFINE r == [o EXCEPT !.down = FALSE, !.at = "forget"]
    <2>1. c' = [c EXCEPT ![i] = r]
      BY <1>1, <1>12 DEF UnregisterDownloader
    <2>2. Keeps(o, r, d)
      BY <1>1, <1>12 DEF UnregisterDownloader, Keeps, Fine, Connection, Drop, Before, Inside, Counted
    <2>3. QED
      BY <2>1, <2>2 DEF Keeps
  <1>13. CASE Unregister(i)
    <2> DEFINE r == [o EXCEPT !.peer = 0, !.at = "end", !.up = o.up /\ o.got # o.n]
    <2>1. c' = [c EXCEPT ![i] = r]
      BY <1>1, <1>13 DEF Unregister
    <2>2. Keeps(o, r, d)
      BY <1>1, <1>13 DEF Unregister, Keeps, Fine, Connection, Drop, Before, Inside, Counted
    <2>3. QED
      BY <2>1, <2>2 DEF Keeps
  <1>14. CASE Disconnect(i)
    <2> DEFINE r == [o EXCEPT !.up = FALSE]
    <2>1. c' = [c EXCEPT ![i] = r]
      BY <1>1, <1>14 DEF Disconnect
    <2>2. Keeps(o, r, d)
      BY <1>1, <1>14 DEF Disconnect, Keeps, Fine, Connection, Drop, Before, Inside, Counted
    <2>3. QED
      BY <2>1, <2>2 DEF Keeps
  <1>15. QED
    BY <1>3, <1>4, <1>5, <1>6, <1>7, <1>8, <1>9, <1>10, <1>11, <1>12, <1>13, <1>14

\* A peer is blamed, and removePeer takes its three steps.
LEMMA RemovePeerIInv ==
  ASSUME IInv, NEW i \in Id, Blame(i) \/ removePeer(i)
  PROVE  IInv'
  <1> DEFINE o == c[i]
             d == drop[i]
  <1>1. /\ c \in [Id -> Connection] /\ drop \in [Id -> Drop]
        /\ o \in Connection /\ d \in Drop /\ Fine(o, d)
        /\ UNCHANGED <<closed, wg, stop>>
    BY OnePeer DEF Blame, removePeer
  <1>2. SUFFICES \E r \in Connection, e \in Drop :
                   /\ c' = [c EXCEPT ![i] = r] /\ drop' = [drop EXCEPT ![i] = e]
                   /\ r.at = o.at /\ Fine(r, e)
    <2>1. PICK r \in Connection, e \in Drop :
            /\ c' = [c EXCEPT ![i] = r] /\ drop' = [drop EXCEPT ![i] = e]
            /\ r.at = o.at /\ Fine(r, e)
      BY <1>2
    <2>2. QED
      BY <1>1, <2>1, SameCount
  <1>3. PICK miss \in BOOLEAN : miss = Misses(i) /\ (~miss => ~o.missed /\ o.peer \in {0, d.for})
    BY <1>1 DEF Misses, Connection
  <1>4. CASE Blame(i)
    <2> DEFINE e == [at |-> "remove", for |-> o.n, got |-> 0]
    <2>1. c' = [c EXCEPT ![i] = o] /\ drop' = [drop EXCEPT ![i] = e]
      BY <1>1, <1>4, OnePeer DEF Blame
    <2>2. e \in Drop /\ Fine(o, e)
      BY <1>1, <1>4 DEF Blame, NoDrop, Connection, Drop, Fine
    <2>3. QED
      BY <1>1, <2>1, <2>2
  <1>5. CASE removePeer(i) /\ d.at = "remove"
    <2> DEFINE r == [o EXCEPT !.missed = miss]
               e == IF o.peer = 0 THEN NoDrop
                    ELSE [d EXCEPT !.at = "unregister", !.got = o.peer]
    <2>1. c' = [c EXCEPT ![i] = r] /\ drop' = [drop EXCEPT ![i] = e]
      BY <1>1, <1>3, <1>5 DEF removePeer
    <2>2. r \in Connection /\ e \in Drop /\ r.at = o.at
      BY <1>1 DEF NoDrop, Connection, Drop
    <2>3. Fine(r, e)
      BY <1>1, <1>3, <1>5 DEF NoDrop, Connection, Drop, Fine
    <2>4. QED
      BY <2>1, <2>2, <2>3
  <1>6. CASE removePeer(i) /\ d.at = "unregister"
    <2> DEFINE r == [o EXCEPT !.down = FALSE, !.missed = miss]
               e == [d EXCEPT !.at = "forget"]
    <2>1. c' = [c EXCEPT ![i] = r] /\ drop' = [drop EXCEPT ![i] = e]
      BY <1>1, <1>3, <1>6 DEF removePeer
    <2>2. r \in Connection /\ e \in Drop /\ r.at = o.at
      BY <1>1 DEF Connection, Drop
    <2>3. Fine(r, e)
      BY <1>1, <1>3, <1>6 DEF Connection, Drop, Fine
    <2>4. QED
      BY <2>1, <2>2, <2>3
  <1>7. CASE removePeer(i) /\ d.at = "forget"
    <2>1. PICK up \in BOOLEAN : up = (o.up /\ d.got # o.n) /\ (up => d.got # o.n /\ o.up)
      BY <1>1 DEF Connection
    <2> DEFINE r == [o EXCEPT !.peer = 0, !.missed = miss, !.up = up]
    <2>2. c' = [c EXCEPT ![i] = r] /\ drop' = [drop EXCEPT ![i] = NoDrop]
      BY <1>1, <1>3, <1>7, <2>1 DEF removePeer
    <2>3. r \in Connection /\ NoDrop \in Drop /\ r.at = o.at
      BY <1>1 DEF NoDrop, Connection, Drop
    <2>4. Fine(r, NoDrop)
      BY <1>1, <1>3, <1>7, <2>1 DEF NoDrop, Connection, Drop, Fine
    <2>5. QED
      BY <2>2, <2>3, <2>4
  <1>8. QED
    BY <1>4, <1>5, <1>6, <1>7 DEF removePeer

\* wg.Add and wg.Done.
LEMMA CountingIInv ==
  ASSUME IInv, NEW i \in Id, Add(i) \/ End(i)
  PROVE  IInv'
  <1> DEFINE r == c'[i]
             d == drop[i]
             o == c[i]
  <1>1. /\ c \in [Id -> Connection] /\ o \in Connection /\ d \in Drop
        /\ drop' = [drop EXCEPT ![i] = d] /\ Fine(o, d)
        /\ UNCHANGED <<closed, stop>>
    BY OnePeer DEF Add, End
  <1>2. /\ c' = [c EXCEPT ![i] = r]
        /\ \/ /\ o.at = "add" /\ wg' = wg + 1
              /\ \E a \in {"end", "handshake"} : r = [o EXCEPT !.at = a]
           \/ /\ o.at = "end" /\ wg' = wg - 1
              /\ r = [o EXCEPT !.at = "none", !.up = FALSE, !.got = 0]
    BY <1>1 DEF Add, End
  <1>3. wg \in Nat /\ wg = Cardinality(CountedIds) /\ IsFiniteSet(CountedIds)
    BY ManagerAssumption, FS_Subset DEF IInv, TypeOK, Stopping, CountedIds
  <1>4. \A j \in Id : j # i => c'[j] = c[j]
    BY <1>1, <1>2
  <1>5. i \in CountedIds <=> o.at = "end"
    BY <1>2 DEF CountedIds, Counted, Inside
  <1>6. /\ wg' \in Nat /\ wg' = Cardinality(CountedIds')
    <2>1. CASE o.at = "add"
      <3>1. CountedIds' = CountedIds \cup {i}
        BY <1>1, <1>2, <1>4, <2>1 DEF CountedIds, Counted, Connection
      <3>2. Cardinality(CountedIds') = Cardinality(CountedIds) + 1
        BY <1>3, <1>5, <2>1, <3>1, FS_AddElement
      <3>3. QED
        BY <1>2, <1>3, <2>1, <3>2
    <2>2. CASE o.at = "end"
      <3>1. CountedIds' = CountedIds \ {i}
        BY <1>1, <1>2, <1>4, <2>2 DEF CountedIds, Counted, Inside, Connection
      <3>2. Cardinality(CountedIds') = Cardinality(CountedIds) - 1 /\ IsFiniteSet(CountedIds')
        BY <1>3, <1>5, <2>2, <3>1, FS_RemoveElement
      <3>3. QED
        BY <1>2, <1>3, <2>2, <3>2, FS_CardinalityType
    <2>3. QED
      BY <1>2, <2>1, <2>2
  <1>7. r \in Connection /\ Fine(r, d) /\ r.at \notin Inside
    <2>1. CASE \E a \in {"end", "handshake"} : o.at = "add" /\ r = [o EXCEPT !.at = a]
      BY <1>1, <2>1 DEF Connection, Drop, Fine, Before, Inside
    <2>2. CASE o.at = "end" /\ r = [o EXCEPT !.at = "none", !.up = FALSE, !.got = 0]
      BY <1>1, <2>2 DEF Connection, Drop, Fine, Before, Inside
    <2>3. QED
      BY <1>2, <2>1, <2>2
  <1>8. /\ c' \in [Id -> Connection] /\ drop' \in [Id -> Drop]
        /\ \A j \in Id : Fine(c'[j], drop'[j])
    BY <1>1, <1>2, <1>7, OtherPeers
  <1>9. Stopping'
    BY <1>1, <1>4, <1>6, <1>7 DEF IInv, Stopping
  <1>10. TypeOK'
    BY <1>1, <1>6, <1>8 DEF IInv, TypeOK
  <1>11. QED
    BY <1>8, <1>9, <1>10 DEF IInv

\* Stop: when wg is down to zero, no goroutine is inside.
LEMMA StopIInv ==
  ASSUME IInv, Stop
  PROVE  IInv'
  <1>1. /\ c \in [Id -> Connection] /\ drop \in [Id -> Drop] /\ closed \in BOOLEAN /\ wg \in Nat
        /\ drop' = drop /\ wg' = wg
        /\ closed = (stop \in {"wait", "done"})
    BY DEF IInv, TypeOK, Stop, Stopping
  <1>2. \A i \in Id : /\ c'[i] \in Connection
                      /\ c'[i] = c[i] \/ c'[i] = [c[i] EXCEPT !.up = FALSE]
    <2>1. CASE c' = c
      BY <1>1, <2>1
    <2>2. CASE c' = [i \in Id |-> [c[i] EXCEPT !.up = c[i].up /\ c[i].peer # c[i].n]]
      BY <1>1, <2>2 DEF Connection
    <2>3. QED
      BY <2>1, <2>2 DEF Stop
  <1>3. c' \in [Id -> Connection]
    <2>1. c' = [i \in Id |-> c'[i]]
      BY <1>1 DEF Stop
    <2>2. QED
      BY <1>2, <2>1
  <1>4. ASSUME NEW i \in Id PROVE c'[i].at = c[i].at /\ Fine(c'[i], drop'[i])
    <2>1. c[i] \in Connection /\ drop[i] \in Drop /\ Fine(c[i], drop[i])
      BY OnePeer
    <2>2. c'[i] = c[i] \/ c'[i] = [c[i] EXCEPT !.up = FALSE]
      BY <1>2
    <2>3. QED
      BY <1>1, <2>1, <2>2 DEF Connection, Fine
  <1>5. CountedIds' = CountedIds
    BY <1>4 DEF CountedIds
  <1>6. ASSUME stop' = "done" PROVE \A i \in Id : c[i].at \notin Inside
    <2>1. stop = "wait" /\ wg = 0
      BY <1>6 DEF Stop
    <2>2. IsFiniteSet(CountedIds) /\ Cardinality(CountedIds) = 0
      BY <2>1, ManagerAssumption, FS_Subset DEF IInv, Stopping, CountedIds
    <2>3. CountedIds = {}
      BY <2>2, FS_EmptySet
    <2>4. QED
      BY <2>3 DEF CountedIds, Counted
  <1>7. /\ closed' \in BOOLEAN /\ stop' \in {"run", "quit", "close", "wait", "done"}
        /\ closed' = (stop' \in {"wait", "done"})
    <2>1. CASE stop' = "wait" /\ closed' = TRUE
      BY <2>1
    <2>2. CASE stop' \in {"quit", "close"} /\ stop \in {"run", "quit"} /\ closed' = closed
      BY <1>1, <2>2
    <2>3. CASE stop' = "done" /\ stop = "wait" /\ closed' = closed
      BY <1>1, <2>3
    <2>4. QED
      BY <2>1, <2>2, <2>3 DEF Stop
  <1>8. Stopping'
    BY <1>1, <1>4, <1>5, <1>6, <1>7 DEF IInv, Stopping
  <1>9. TypeOK'
    BY <1>1, <1>3, <1>7 DEF TypeOK
  <1>10. QED
    BY <1>4, <1>8, <1>9 DEF IInv

\* Every step keeps the inductive invariant.
LEMMA NextIInv == IInv /\ [Next]_vars => IInv'
  <1> SUFFICES ASSUME IInv, [Next]_vars PROVE IInv'
    OBVIOUS
  <1>1. CASE UNCHANGED vars
    BY <1>1 DEF vars, IInv, TypeOK, Stopping, CountedIds
  <1>2. CASE Stop
    BY <1>2, StopIInv
  <1>3. ASSUME NEW i \in Id, Connect(i) \/ Handler(i) \/ Disconnect(i) \/ Blame(i) \/ removePeer(i)
        PROVE  IInv'
    BY <1>3, HandlerIInv, RemovePeerIInv, CountingIInv DEF Handler
  <1>4. QED
    BY <1>1, <1>2, <1>3 DEF Next

\* The inductive invariant holds in every reachable state.
LEMMA Invariance == Spec => []IInv
  BY InitIInv, NextIInv, PTL DEF Spec

----------------------------------------------------------------------------
\* The peer set and the downloader agree on who is a peer, unless a removePeer
\* because of an earlier connection came in between.
THEOREM RegistriesDoAgree == Spec => []RegistriesAgree
  <1>1. ASSUME IInv PROVE RegistriesAgree
    <2>1. ASSUME NEW i \in Id, drop[i] = NoDrop, ~c[i].missed
          PROVE  /\ c[i].at = "loop" /\ c[i].up => c[i].peer = c[i].n /\ c[i].down
                 /\ c[i].at \in {"none", "run", "add", "handshake", "end"} =>
                      c[i].peer = 0 /\ ~c[i].down
      BY <1>1, <2>1, OnePeer DEF Fine, Inside, NoDrop, Connection, Drop
    <2>2. QED
      BY <2>1 DEF RegistriesAgree
  <1>2. QED
    BY <1>1, Invariance, PTL

\* After Stop no peer is registered and no message is handled, although a
\* goroutine that the syncer took may be counted only after Stop has returned.
THEOREM StopIsFinal == Spec => []StoppedMeansStopped
  <1>1. ASSUME IInv PROVE StoppedMeansStopped
    <2>1. ASSUME stop = "done", NEW i \in Id
          PROVE  c[i].at \notin Inside /\ c[i].peer = 0
      BY <1>1, <2>1, OnePeer DEF IInv, Stopping, Fine
    <2>2. QED
      BY <2>1 DEF StoppedMeansStopped, Registered, Inside
  <1>2. QED
    BY <1>1, Invariance, PTL
=============================================================================
