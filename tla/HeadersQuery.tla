---------------------------- MODULE HeadersQuery ----------------------------
(***************************************************************************)
(* The answer to GetBlockHeaders (handleMsg of bgm/handler.go): one step   *)
(* of the module is one turn of its loop.  Numbers, the skip and their     *)
(* sums are unsigned integers of W bits, W = 64 in the code; the loop that *)
(* walks back over the ancestors counts with a signed one.                 *)
(*                                                                         *)
(* A header is <<branch, number>>: branch 0 is canonical, branch 1 leaves  *)
(* it at Fork.                                                             *)
(***************************************************************************)
EXTENDS Integers, Sequences

CONSTANTS W, Height, Fork, MaxHeaderFetch, MaxAmount

VARIABLES query, origin, headers, done   \* origin: where the loop has got to

vars == <<query, origin, headers, done>>

Word == 0..2^W - 1
Hash == {<<0, n>> : n \in 0..Height} \cup {<<1, n>> : n \in Fork + 1..Height}
NoHeader == <<2, 0>>

GetHeaderByNumber(n) == IF n <= Height THEN <<0, n>> ELSE NoHeader

\* The ancestor of h that is n below it, or NoHeader.
Ancestor(h, n) ==
  IF h = NoHeader \/ n > h[2] THEN NoHeader
  ELSE IF h[2] - n <= Fork THEN <<0, h[2] - n>> ELSE <<h[1], h[2] - n>>

Init ==
  /\ query \in [hash : BOOLEAN, reverse : BOOLEAN, skip : Word, amount : 0..MaxAmount,
                from : {<<0, n>> : n \in Word} \cup Hash]
  /\ query.hash => query.from \in Hash
  /\ ~query.hash => query.from[1] = 0
  /\ origin = query.from /\ headers = <<>> /\ done = FALSE

Add(a, b) == (a + b) % 2^W
Signed(a) == IF a < 2^(W - 1) THEN a ELSE a - 2^W

\* The canonical header skip + 1 above h, if h is an ancestor of it.
descendant(h, skip) ==
  LET next == GetHeaderByNumber(Add(Add(h[2], skip), 1))
  IN  IF next = NoHeader \/ next[2] <= h[2] \/ Ancestor(next, skip + 1) # h THEN NoHeader
      ELSE next

\* Where the loop goes from h, a header it has found; NoHeader: nowhere.
Next1(h) ==
  LET step == Add(query.skip, 1)
  IN  CASE query.hash /\ query.reverse ->
             IF Signed(query.skip) + 1 <= 0 THEN h
             ELSE Ancestor(h, Signed(query.skip) + 1)
        [] query.hash /\ ~query.reverse -> descendant(h, query.skip)
        [] ~query.hash /\ query.reverse -> IF h[2] >= step THEN <<0, h[2] - step>> ELSE NoHeader
        [] OTHER -> <<0, Add(h[2], step)>>

Turn ==
  LET found == IF query.hash THEN origin ELSE GetHeaderByNumber(origin[2])
  IN  /\ ~done
      /\ IF Len(headers) < query.amount /\ Len(headers) < MaxHeaderFetch /\ found # NoHeader
         THEN /\ headers' = Append(headers, found) /\ origin' = Next1(found)
              /\ done' = (origin' = NoHeader)
         ELSE done' = TRUE /\ UNCHANGED <<origin, headers>>
      /\ UNCHANGED query

Next == Turn
Spec == Init /\ [][Next]_vars

----------------------------------------------------------------------------
\* A skip so large that a sum or the conversion of it overflows.
Overflows ==
  CASE query.hash /\ query.reverse -> query.skip >= 2^(W - 1) - 1
    [] query.hash /\ ~query.reverse -> FALSE
    [] ~query.hash /\ query.reverse -> query.skip + 1 = 2^W
    [] OTHER -> query.skip + 1 + Height >= 2^W

\* The n-th header that the query asks for, NoHeader if there is none.
Asked(n) ==
  LET from == IF query.hash THEN query.from ELSE GetHeaderByNumber(query.from[2])
      dist == (n - 1) * (query.skip + 1)
  IN  IF from = NoHeader THEN NoHeader
      ELSE IF query.reverse THEN Ancestor(from, dist)
      ELSE LET h == GetHeaderByNumber(from[2] + dist)
           IN  IF n = 1 THEN from ELSE IF Ancestor(h, dist) = from THEN h ELSE NoHeader

\* The answer is what was asked for: headers at the given distances, all on one
\* chain, from the origin on, as many as there are within the limits; on a side
\* chain too.  Only a skip that overflows gives something else.
AnswerRight ==
  done /\ ~Overflows =>
    LET all == {n \in 1..MaxHeaderFetch : n <= query.amount
                                          /\ \A m \in 1..n : Asked(m) # NoHeader}
    IN  /\ \A n \in all : n <= Len(headers) /\ headers[n] = Asked(n)
        /\ \A n \in DOMAIN headers : n \in all
=============================================================================
