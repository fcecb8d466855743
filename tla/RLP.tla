--------------------------------- MODULE RLP ---------------------------------
(***************************************************************************)
(* RLP (rlp/): a Stream that is read by calls in any order that the types  *)
(* being decoded can give rise to, and an encbuf into which what was read  *)
(* is written again.                                                       *)
(*                                                                         *)
(* The layout of a header byte is that of the code with smaller numbers:   *)
(* single bytes below S (0x80), sizes up to Short (55) in the header, and  *)
(* up to LL (8) bytes for larger ones.  What the input holds is decided    *)
(* when it is read.                                                        *)
(***************************************************************************)
EXTENDS Integers, Sequences, SequencesExt, FiniteSets, FiniteSetsExt

CONSTANTS
  S, Short, LL,
  Content,    \* bytes of which strings consist in the input
  MaxInput, MaxArray, MaxUint, MaxDepth,
  MaxValues,  \* bound on values that are read one after the other
  MaxLoose    \* bound on loose

VARIABLES
  s,     \* Stream: the header read last, the open lists, and what the input has left
  got,   \* history: bytes read
  w,     \* encbuf, with the places of the lists not yet ended
  err,   \* what the first call to fail returned
  loose, \* history: number of values accepted that are not as they would be written
  values \* history: number of values read that are in no list

vars == <<s, got, w, err, loose, values>>

StrBase  == S
StrLong  == StrBase + Short        \* 0xB7
ListBase == StrLong + LL + 1       \* 0xC0
ListLong == ListBase + Short       \* 0xF7
B        == ListLong + LL + 1      \* number of bytes
Byte     == 0..B - 1

----------------------------------------------------------------------------
(* encode.go                                                               *)

intsize(n) == Min({k \in 1..LL : n < B^k})
putint(n) == LET k == intsize(n) IN [i \in 1..k |-> (n \div B^(k - i)) % B]
headsize(n) == IF n <= Short THEN 1 ELSE 1 + intsize(n)
puthead(small, large, n) ==
  IF n <= Short THEN <<small + n>> ELSE <<large + intsize(n)>> \o putint(n)

Empty == [str |-> <<>>, lheads |-> <<>>, lhsize |-> 0, open |-> <<>>]
size(e) == Len(e.str) + e.lhsize
write(e, b) == [e EXCEPT !.str = @ \o b]

encodeString(e, b) ==
  IF Len(b) = 1 /\ b[1] < S THEN write(e, b)
  ELSE write(e, puthead(StrBase, StrLong, Len(b)) \o b)

writeUint(e, n) ==
  write(e, IF n = 0 THEN <<StrBase>> ELSE IF n < S THEN <<n>>
           ELSE <<StrBase + intsize(n)>> \o putint(n))

list(e) == [e EXCEPT !.lheads = Append(@, [offset |-> Len(e.str), size |-> e.lhsize]),
                     !.open = Append(@, Len(e.lheads) + 1)]

\* The size of the content: all that was written since, with the headers of the
\* lists that ended meanwhile.
listEnd(e) ==
  LET lh == e.lheads[e.open[Len(e.open)]]
      n  == size(e) - lh.offset - lh.size
  IN  [e EXCEPT !.lheads[e.open[Len(e.open)]].size = n, !.lhsize = @ + headsize(n),
                !.open = Front(@)]

\* toBytes: the headers are put in where the lists begin.
toBytes(e) ==
  LET piece(i) == SubSeq(e.str, (IF i = 1 THEN 0 ELSE e.lheads[i - 1].offset) + 1,
                         e.lheads[i].offset)
                    \o puthead(ListBase, ListLong, e.lheads[i].size)
      k == Len(e.lheads)
  IN  FlattenSeq([i \in 1..k |-> piece(i)])
        \o SubSeq(e.str, (IF k = 0 THEN 0 ELSE e.lheads[k].offset) + 1, Len(e.str))

----------------------------------------------------------------------------
(* decode.go: reading.  Each operator gives the possible outcomes.         *)

top(z) == z.stack[Len(z.stack)]
fail(z, e) == [z |-> [z EXCEPT !.kind = "none"], e |-> e, b |-> <<>>]

\* willRead, and the end of an input whose length is not known.
willRead(z, n) ==
  LET y == [z EXCEPT !.kind = "none",
              !.stack = IF @ = <<>> THEN @ ELSE [@ EXCEPT ![Len(@)].pos = @ + n]]
  IN  IF z.stack # <<>> /\ n > top(z).size - top(z).pos THEN fail(z, "ErrElemTooLarge")
      ELSE IF n > z.left THEN fail(y, IF z.limited THEN "ErrValueTooLarge" ELSE "EOF")
      ELSE [z |-> [y EXCEPT !.left = @ - n], e |-> "", b |-> <<>>]

readFull(z, n, from) ==
  LET r == willRead(z, n)
  IN  IF r.e # "" THEN {r} ELSE {[r EXCEPT !.b = b] : b \in [1..n -> from]}

value(b) == FoldLeft(LAMBDA n, d : n * B + d, 0, b)

\* readUint: the bytes and the number, without a zero in front.
readUint(z, n, from) ==
  IF n = 0 THEN {[z |-> [z EXCEPT !.kind = "none"], e |-> "", b |-> <<>>]}
  ELSE {IF r.e = "" /\ n > 1 /\ r.b[1] = 0 THEN [r EXCEPT !.e = "ErrCanonSize"] ELSE r :
          r \in readFull(z, n, from)}

kinded(r, b, k, n, v) ==
  [z |-> [r.z EXCEPT !.kind = k, !.size = n, !.byteval = v], e |-> r.e, b |-> b]

\* A header with the size behind it.
readSized(r, k, n) ==
  {LET b == r.b \o q.b
   IN  IF q.e = "" /\ value(q.b) <= Short THEN kinded([q EXCEPT !.e = "ErrCanonSize"], b, k, value(q.b), 0)
       ELSE kinded(q, b, k, value(q.b), 0) :
     q \in readUint(r.z, n, Byte)}

readKind(z) ==
  UNION {LET b == r.b[1]
         IN  IF r.e # "" THEN {r}
             ELSE IF b < S THEN {kinded(r, r.b, "Byte", 0, b)}
             ELSE IF b <= StrLong THEN {kinded(r, r.b, "String", b - StrBase, 0)}
             ELSE IF b < ListBase THEN readSized(r, "String", b - StrLong)
             ELSE IF b <= ListLong THEN {kinded(r, r.b, "List", b - ListBase, 0)}
             ELSE readSized(r, "List", b - ListLong) :
           r \in readFull(z, 1, Byte)}

\* Kind: the next header, unless it has been read or the list is at its end.
Kind(z) ==
  IF z.kind # "none" THEN {[z |-> z, e |-> "", b |-> <<>>]}
  ELSE IF z.stack # <<>> /\ top(z).pos = top(z).size THEN {[z |-> z, e |-> "EOL", b |-> <<>>]}
  ELSE {IF r.e # "" THEN r
        ELSE IF z.stack = <<>>
        THEN IF z.limited /\ r.z.size > r.z.left THEN [r EXCEPT !.e = "ErrValueTooLarge"] ELSE r
        ELSE IF r.z.size > top(r.z).size - top(r.z).pos THEN [r EXCEPT !.e = "ErrElemTooLarge"]
        ELSE r : r \in readKind(z)}

----------------------------------------------------------------------------
(* The calls.                                                              *)

Closed == [kind |-> "none", size |-> 0, byteval |-> 0, stack |-> <<>>, left |-> 0, limited |-> TRUE]

Init ==
  /\ \E n \in 0..MaxInput, l \in BOOLEAN :
       s = [Closed EXCEPT !.left = n, !.limited = l]
  /\ got = <<>> /\ w = Empty /\ err = "" /\ loose = 0 /\ values = 0

\* A call ends, with what it wrote and whether that may differ from what it read.
\* After an error nothing is read any more, and what was read is of no use.
Returns(r, e, l) ==
  /\ err' = r.e
  /\ IF r.e = "" THEN s' = r.z /\ got' = got \o r.b /\ w' = e
     ELSE s' = Closed /\ got' = <<>> /\ w' = Empty
  /\ loose' = IF l THEN loose + 1 ELSE loose
  /\ values' = IF r.e = "" /\ r.z.stack = <<>> THEN values + 1 ELSE values

used(r) == [r EXCEPT !.z.kind = "none"]
then(r, q) == [q EXCEPT !.b = r.b \o q.b]

List(r) ==
  IF r.z.kind # "List" THEN Returns([r EXCEPT !.e = "ErrExpectedList"], w, FALSE)
  ELSE Returns([r EXCEPT !.z.stack = Append(@, [pos |-> 0, size |-> r.z.size]),
                         !.z.kind = "none", !.z.size = 0], list(w), FALSE)

Bytes(r) ==
  CASE r.z.kind = "Byte" -> Returns(used(r), encodeString(w, <<r.z.byteval>>), FALSE)
    [] r.z.kind = "String" ->
         \E q \in readFull(r.z, r.z.size, Content) :
           IF q.e = "" /\ r.z.size = 1 /\ q.b[1] < S
           THEN Returns(then(r, [q EXCEPT !.e = "ErrCanonSize"]), w, FALSE)
           ELSE Returns(then(r, q), encodeString(w, q.b), FALSE)
    [] r.z.kind = "List" -> Returns([r EXCEPT !.e = "ErrExpectedString"], w, FALSE)

\* uint: a number of at most n bytes.
Uint(r, n) ==
  CASE r.z.kind = "Byte" ->
         IF r.z.byteval = 0 THEN Returns([r EXCEPT !.e = "ErrCanonInt"], w, FALSE)
         ELSE Returns(used(r), writeUint(w, r.z.byteval), FALSE)
    [] r.z.kind = "String" ->
         IF r.z.size > n THEN Returns([r EXCEPT !.e = "errUintOverflow"], w, FALSE)
         ELSE \E q \in readUint(r.z, r.z.size, Content) :
                IF q.e = "" /\ r.z.size > 0 /\ value(q.b) < S
                THEN Returns(then(r, [q EXCEPT !.e = "ErrCanonSize"]), w, FALSE)
                ELSE Returns(then(r, q), writeUint(w, value(q.b)), FALSE)
    [] r.z.kind = "List" -> Returns([r EXCEPT !.e = "ErrExpectedString"], w, FALSE)

\* decodeByteArray.  A single byte is taken with Uint, whose error is not looked
\* at: a zero is returned, and stays the next value of the stream.
ByteArray(r, n) ==
  CASE r.z.kind = "Byte" ->
         IF n # 1 THEN Returns([r EXCEPT !.e = "length"], w, FALSE)
         ELSE Returns(IF r.z.byteval = 0 THEN r ELSE used(r), encodeString(w, <<r.z.byteval>>),
                      r.z.byteval = 0)
    [] r.z.kind = "String" ->
         IF r.z.size # n THEN Returns([r EXCEPT !.e = "length"], w, FALSE)
         ELSE \E q \in readFull(r.z, n, Content) :
                IF q.e = "" /\ n = 1 /\ q.b[1] < S
                THEN Returns(then(r, [q EXCEPT !.e = "ErrCanonSize"]), w, FALSE)
                ELSE Returns(then(r, q), encodeString(w, q.b), FALSE)
    [] r.z.kind = "List" -> Returns([r EXCEPT !.e = "ErrExpectedString"], w, FALSE)

\* Raw: the value as it is, with its header made anew.
Raw(r) ==
  IF r.z.kind = "Byte" THEN Returns(used(r), write(w, <<r.z.byteval>>), FALSE)
  ELSE \E q \in readFull(r.z, r.z.size, Content) :
         Returns(then(r, q),
                 write(w, (IF r.z.kind = "String" THEN puthead(StrBase, StrLong, r.z.size)
                           ELSE puthead(ListBase, ListLong, r.z.size)) \o q.b),
                 r.z.kind = "String" /\ r.z.size = 1 /\ q.e = "" /\ q.b[1] < S)

\* makeOptionalPtrDecoder: an empty value of either kind is no value, and written
\* as one of the kind of the type.
Optional(r, k) ==
  /\ r.z.size = 0 /\ r.z.kind # "Byte"
  /\ Returns(used(r), write(w, <<IF k = "String" THEN StrBase ELSE ListBase>>), k # r.z.kind)

Call ==
  /\ err = "" /\ (s.left > 0 \/ s.kind # "none" \/ s.stack # <<>>)
  /\ values < MaxValues /\ loose < MaxLoose
  /\ \E r \in Kind(s) :
       IF r.e # "" THEN r.e # "EOL" /\ Returns(r, w, FALSE)
       ELSE \/ Len(s.stack) < MaxDepth /\ List(r)
            \/ Bytes(r)
            \/ \E n \in 1..MaxUint : Uint(r, n)
            \/ \E n \in 1..MaxArray : ByteArray(r, n)
            \/ Raw(r)
            \/ \E k \in {"String", "List"} : Optional(r, k)

ListEnd ==
  LET t == top(s)
      up == Front(s.stack)
  IN  /\ err = "" /\ s.stack # <<>>
      /\ IF t.pos # t.size
         THEN Returns([z |-> s, e |-> "errNotAtEOL", b |-> <<>>], w, FALSE)
         ELSE /\ s' = [s EXCEPT !.kind = "none", !.size = 0,
                         !.stack = IF up = <<>> THEN up
                                   ELSE [up EXCEPT ![Len(up)].pos = @ + t.size]]
              /\ w' = listEnd(w)
              /\ values' = IF up = <<>> THEN values + 1 ELSE values
              /\ UNCHANGED <<got, err, loose>>

Next == Call \/ ListEnd

Spec == Init /\ [][Next]_vars

----------------------------------------------------------------------------
(* raw.go: the same input taken apart without a Stream.                    *)

\* readSize: the size in the k bytes after the header, or -1 if it is not as it
\* should be.
readSize(b, k) ==
  IF k + 1 > Len(b) \/ b[2] = 0 \/ value(SubSeq(b, 2, k + 1)) <= Short THEN -1
  ELSE value(SubSeq(b, 2, k + 1))

\* readKind of raw.go: the sizes of the header and of the content.  An error is a
\* content of size -1.
rawKind(b) ==
  LET h == b[1]
      r == CASE h < S -> [tag |-> 0, n |-> 1]
             [] h >= S /\ h <= StrLong ->
                  [tag |-> 1, n |-> IF h = StrBase + 1 /\ b[2] < S THEN -1 ELSE h - StrBase]
             [] h > StrLong /\ h < ListBase -> [tag |-> h - StrLong + 1, n |-> readSize(b, h - StrLong)]
             [] h >= ListBase /\ h <= ListLong -> [tag |-> 1, n |-> h - ListBase]
             [] h > ListLong -> [tag |-> h - ListLong + 1, n |-> readSize(b, h - ListLong)]
  IN  IF r.n > Len(b) - r.tag THEN [r EXCEPT !.n = -1] ELSE r

\* The number of values, or -1.
CountValues[b \in Seq(Byte)] ==
  LET r == rawKind(b)
      more == CountValues[SubSeq(b, r.tag + r.n + 1, Len(b))]
  IN  IF b = <<>> THEN 0
      ELSE IF r.n = -1 \/ more = -1 THEN -1 ELSE 1 + more

----------------------------------------------------------------------------
\* Whole values have been read.
AtValue == err = "" /\ s.stack = <<>> /\ s.kind = "none" /\ w.open = <<>>

\* What is accepted is the one encoding of what is returned: written again it
\* gives the bytes read, although sizes of lists are found by counting from two
\* sides.  Not so for an optional value, a zero in an array of one byte, or a
\* single byte in a string of its own that is taken raw.
Canonical == AtValue /\ loose = 0 => toBytes(w) = got

\* No list ends before what is in it, and no call reads past a list that is open.
WithinLists ==
  /\ \A i \in DOMAIN s.stack : s.stack[i].pos <= s.stack[i].size
  /\ \A i \in 1..Len(s.stack) - 1 : s.stack[i].pos + s.stack[i + 1].size <= s.stack[i].size

\* CountValues accepts what the Stream accepts, and finds the same values.
SplitAgrees == AtValue /\ loose = 0 => CountValues[got] = values
=============================================================================
