-------------------------------- MODULE Trie --------------------------------
(***************************************************************************)
(* The Merkle trie (trie/): insertion, deletion, lookup, hashing and       *)
(* storing with nodes that are loaded when needed, proofs, and iteration   *)
(* while the trie changes.                                                 *)
(*                                                                         *)
(* A hash is the stored form of the node it belongs to.  Nodes that are    *)
(* too small to be hashed, and so are kept within their parent, are those  *)
(* that Small holds of.  A nibble is one of Radix values; the terminator   *)
(* of a key is Radix.                                                      *)
(***************************************************************************)
EXTENDS Integers, Sequences, SequencesExt, FiniteSets, FiniteSetsExt

CONSTANTS
  Radix, Key,     \* keys are sequences of nibbles of even length
  Value, Start,   \* values; prefixes from which iteration starts
  Small(_),
  MaxCommits, MaxUpdates  \* bounds

VARIABLES
  root, db,
  content,  \* history: the map that the trie stands for
  it,       \* an iterator over the keys with some prefix
  commits, updates

vars == <<root, db, content, it, commits, updates>>

Nil == [t |-> "nil"]
valueNode(v) == [t |-> "value", v |-> v]
shortNode(k, n, d) == [t |-> "short", key |-> k, val |-> n, dirty |-> d]
fullNode(c, d) == [t |-> "full", c |-> c, dirty |-> d]
hashNode(n) == [t |-> "hash", of |-> n]
NoKids == [i \in 0..Radix |-> Nil]

keybytesToHex(k) == Append(k, Radix)
drop(k, n) == SubSeq(k, n + 1, Len(k))
take(k, n) == SubSeq(k, 1, Min({n, Len(k)}))
prefixLen(a, b) == Max({n \in 0..Min({Len(a), Len(b)}) : take(a, n) = take(b, n)})
hasTerm(k) == k # <<>> /\ k[Len(k)] = Radix

----------------------------------------------------------------------------
(* Stored nodes.                                                           *)

\* The key of a stored node: pairs of nibbles, the first with flags.
hexToCompact(hex) ==
  LET term == IF hasTerm(hex) THEN 1 ELSE 0
      h    == take(hex, Len(hex) - term)
      odd  == Len(h) % 2
      rest == drop(h, odd)
  IN  <<<<2 * term + odd, IF odd = 1 THEN h[1] ELSE 0>>>>
        \o [i \in 1..Len(rest) \div 2 |-> <<rest[2 * i - 1], rest[2 * i]>>]

compactToHex(compact) ==
  LET base == FlattenSeq(compact)
      all  == IF base[1] >= 2 THEN Append(base, Radix) ELSE base
  IN  drop(all, 2 - (base[1] % 2))

\* hashChildren, store: the form in which a node is stored, and how its parent
\* refers to it.
RECURSIVE Collapsed(_), Ref(_)
Collapsed(n) ==
  IF n.t = "short" THEN [t |-> "short", key |-> hexToCompact(n.key), val |-> Ref(n.val)]
  ELSE [t |-> "full", c |-> [i \in 0..Radix |-> Ref(n.c[i])]]
Ref(n) ==
  IF n.t \in {"nil", "value", "hash"} THEN n
  ELSE IF Small(n) THEN Collapsed(n) ELSE hashNode(Collapsed(n))

\* decodeNode.
RECURSIVE decodeNode(_)
decodeNode(n) ==
  IF n.t = "short" THEN shortNode(compactToHex(n.key), decodeNode(n.val), FALSE)
  ELSE IF n.t = "full" THEN fullNode([i \in 0..Radix |-> decodeNode(n.c[i])], FALSE)
  ELSE n
resolveHash(n) == decodeNode(n.of)
resolve(n) == IF n.t = "hash" THEN resolveHash(n) ELSE n

Hashed(n) == n.t \in {"short", "full"} /\ ~Small(n)

\* What a commit writes: nodes that changed, down to those that did not.
RECURSIVE Written(_, _)
Written(n, force) ==
  IF n.t \notin {"short", "full"} \/ ~n.dirty THEN {}
  ELSE (IF force \/ Hashed(n) THEN {Collapsed(n)} ELSE {})
         \cup (IF n.t = "short" THEN Written(n.val, FALSE)
               ELSE UNION {Written(n.c[i], FALSE) : i \in 0..Radix})

\* What stays in memory: nothing is dirty any more, and of what has not been
\* changed for long only the hash is kept.
RECURSIVE Cached(_, _)
Cached(n, unload) ==
  IF n.t \notin {"short", "full"} THEN n
  ELSE IF unload /\ ~n.dirty /\ Hashed(n) THEN hashNode(Collapsed(n))
  ELSE IF n.t = "short" THEN shortNode(n.key, Cached(n.val, unload), FALSE)
  ELSE fullNode([i \in 0..Radix |-> Cached(n.c[i], unload)], FALSE)

----------------------------------------------------------------------------
(* Lookup: the value, and the node with what was loaded on the way.        *)

RECURSIVE tryGet(_, _)
tryGet(n, k) ==
  CASE n.t = "nil" -> [v |-> 0, n |-> n]
    [] n.t = "value" -> [v |-> n.v, n |-> n]
    [] n.t = "short" ->
         IF take(k, Len(n.key)) # n.key THEN [v |-> 0, n |-> n]
         ELSE LET r == tryGet(n.val, drop(k, Len(n.key)))
              IN  [v |-> r.v, n |-> [n EXCEPT !.val = r.n]]
    [] n.t = "full" ->
         LET r == tryGet(n.c[k[1]], Tail(k)) IN [v |-> r.v, n |-> [n EXCEPT !.c[k[1]] = r.n]]
    [] n.t = "hash" -> tryGet(resolveHash(n), k)

----------------------------------------------------------------------------
(* insert and delete: whether the node changed, and the new node.          *)

RECURSIVE insert(_, _, _)
insert(n, k, val) ==
  IF k = <<>> THEN [dirty |-> n # val, n |-> val]
  ELSE CASE n.t = "nil" -> [dirty |-> TRUE, n |-> shortNode(k, val, TRUE)]
    [] n.t = "hash" ->
         LET r == insert(resolveHash(n), k, val)
         IN  [dirty |-> r.dirty, n |-> IF r.dirty THEN r.n ELSE resolveHash(n)]
    [] n.t = "full" ->
         LET r == insert(n.c[k[1]], Tail(k), val)
         IN  [dirty |-> r.dirty,
              n |-> IF r.dirty THEN fullNode([n.c EXCEPT ![k[1]] = r.n], TRUE) ELSE n]
    [] n.t = "short" ->
         LET m == prefixLen(k, n.key)
             r == insert(n.val, drop(k, m), val)
             b == fullNode([NoKids EXCEPT
                    ![n.key[m + 1]] = insert(Nil, drop(n.key, m + 1), n.val).n,
                    ![k[m + 1]] = insert(Nil, drop(k, m + 1), val).n], TRUE)
         IN  IF m = Len(n.key)
             THEN [dirty |-> r.dirty, n |-> IF r.dirty THEN shortNode(n.key, r.n, TRUE) ELSE n]
             ELSE [dirty |-> TRUE, n |-> IF m = 0 THEN b ELSE shortNode(take(k, m), b, TRUE)]

\* Faulty variant: the one child that is left is not loaded, so that a short node
\* is not seen if it is stored.
reduceUnresolved(n) ==
  LET left == {i \in 0..Radix : n.c[i] # Nil}
      pos  == Min(left)
      c    == n.c[pos]
  IN  IF Cardinality(left) # 1 THEN n
      ELSE IF pos # Radix /\ c.t = "short" THEN shortNode(<<pos>> \o c.key, c.val, TRUE)
      ELSE shortNode(<<pos>>, n.c[pos], TRUE)

\* A full node with one child left becomes a short node, merged with the child
\* if that is one too.
reduce(n) ==
  LET left == {i \in 0..Radix : n.c[i] # Nil}
      pos  == Min(left)
      c    == resolve(n.c[pos])
  IN  IF Cardinality(left) # 1 THEN n
      ELSE IF pos # Radix /\ c.t = "short" THEN shortNode(<<pos>> \o c.key, c.val, TRUE)
      ELSE shortNode(<<pos>>, n.c[pos], TRUE)

RECURSIVE delete(_, _)
delete(n, k) ==
  CASE n.t = "nil" -> [dirty |-> FALSE, n |-> n]
    [] n.t = "value" -> [dirty |-> TRUE, n |-> Nil]
    [] n.t = "hash" ->
         LET r == delete(resolveHash(n), k)
         IN  [dirty |-> r.dirty, n |-> IF r.dirty THEN r.n ELSE resolveHash(n)]
    [] n.t = "full" ->
         LET r == delete(n.c[k[1]], Tail(k))
         IN  [dirty |-> r.dirty,
              n |-> IF r.dirty THEN reduce(fullNode([n.c EXCEPT ![k[1]] = r.n], TRUE)) ELSE n]
    [] n.t = "short" ->
         LET m == prefixLen(k, n.key)
             r == delete(n.val, drop(k, Len(n.key)))
         IN  IF m < Len(n.key) THEN [dirty |-> FALSE, n |-> n]
             ELSE IF m = Len(k) THEN [dirty |-> TRUE, n |-> Nil]
             ELSE IF ~r.dirty THEN [dirty |-> FALSE, n |-> n]
             ELSE [dirty |-> TRUE,
                   n |-> IF r.n.t = "short" THEN shortNode(n.key \o r.n.key, r.n.val, TRUE)
                         ELSE shortNode(n.key, r.n, TRUE)]

----------------------------------------------------------------------------
(* Proofs.                                                                 *)

\* Prove: the nodes on the way to a key that are stored on their own.
RECURSIVE onPath(_, _)
onPath(n, k) ==
  CASE n.t \in {"nil", "value"} -> <<>>
    [] n.t = "hash" -> onPath(resolveHash(n), k)
    [] n.t = "short" -> <<n>> \o IF take(k, Len(n.key)) # n.key THEN <<>>
                                 ELSE onPath(n.val, drop(k, Len(n.key)))
    [] n.t = "full" -> <<n>> \o onPath(n.c[k[1]], Tail(k))

Prove(k) ==
  LET p == onPath(root, keybytesToHex(k))
  IN  {Collapsed(p[i]) : i \in {j \in DOMAIN p : j = 1 \/ Hashed(p[j])}}

\* VerifyProof: the value, 0 for none, or -1 if a node is missing.
RECURSIVE walk(_, _)
walk(n, k) ==
  CASE n.t \in {"nil", "value"} -> [n |-> n, k |-> k]
    [] n.t = "hash" -> [n |-> n, k |-> k]
    [] n.t = "short" -> IF take(k, Len(n.key)) # n.key THEN [n |-> Nil, k |-> k]
                        ELSE walk(n.val, drop(k, Len(n.key)))
    [] n.t = "full" -> walk(n.c[k[1]], Tail(k))

RECURSIVE verify(_, _, _)
verify(h, k, proof) ==
  IF h \notin proof THEN -1
  ELSE LET r == walk(decodeNode(h), k)
       IN  IF r.n.t = "nil" THEN 0 ELSE IF r.n.t = "value" THEN r.n.v
           ELSE verify(r.n.of, r.k, proof)

VerifyProof(h, k, proof) == verify(h, keybytesToHex(k), proof)

----------------------------------------------------------------------------
(* Iteration.  The stack holds nodes as they were when they were reached.  *)

state(n, at) == [n |-> resolve(n), index |-> -1, pathlen |-> at]

\* nextChild: the place of the next child of the node on top, or -1.
nextChild(s) ==
  LET p == s[Len(s)]
  IN  IF p.n.t = "full"
      THEN LET more == {i \in p.index + 1..Radix : p.n.c[i] # Nil}
           IN  IF more = {} THEN -1 ELSE Min(more)
      ELSE IF p.n.t = "short" /\ p.index < 0 THEN 0 ELSE -1

pop(i) == [i EXCEPT !.stack = Front(@), !.path = take(@, i.stack[Len(i.stack)].pathlen)]

\* peek: nodes without a further child are taken from the stack; then the child
\* that comes next with its path, or the end.
RECURSIVE peekUp(_)
peekUp(i) ==
  IF i.stack = <<>> THEN [i |-> i, end |-> TRUE]
  ELSE LET c == nextChild(i.stack)
           p == i.stack[Len(i.stack)]
       IN  IF c = -1 THEN peekUp(pop(i))
           ELSE IF p.n.t = "full"
           THEN [i |-> [i EXCEPT !.stack[Len(i.stack)].index = c - 1], end |-> FALSE,
                 s |-> state(p.n.c[c], Len(i.path)), path |-> Append(i.path, c)]
           ELSE [i |-> i, end |-> FALSE,
                 s |-> state(p.n.val, Len(i.path)), path |-> i.path \o p.n.key]

peek(i, descend) ==
  IF i.stack = <<>> THEN [i |-> i, end |-> FALSE, s |-> state(root, 0), path |-> <<>>]
  ELSE peekUp(IF descend THEN i ELSE pop(i))

push(r) ==
  LET st == r.i.stack
      up == IF st = <<>> THEN st ELSE [st EXCEPT ![Len(st)].index = @ + 1]
  IN  [r.i EXCEPT !.stack = Append(up, r.s), !.path = r.path]

\* bytes.Compare(a, b) >= 0
AtLeast(a, b) ==
  LET m == prefixLen(a, b)
  IN  IF m = Len(b) THEN TRUE ELSE IF m = Len(a) THEN FALSE ELSE a[m + 1] > b[m + 1]

RECURSIVE seek(_, _)
seek(i, key) ==
  LET r == peek(i, IsPrefix(i.path, key))
  IN  IF r.end THEN [r.i EXCEPT !.end = TRUE]
      ELSE IF AtLeast(r.path, key) THEN r.i
      ELSE seek(push(r), key)

\* Next of Iterator and prefixIterator: on to the next leaf with the prefix.
RECURSIVE nextLeaf(_)
nextLeaf(i) ==
  IF i.end THEN i
  ELSE LET r == peek(i, TRUE)
           j == push(r)
       IN  IF r.end \/ ~IsPrefix(i.prefix, j.path) THEN [i EXCEPT !.end = TRUE]
           ELSE IF hasTerm(j.path) THEN [j EXCEPT !.got = Append(@, take(j.path, Len(j.path) - 1))]
           ELSE nextLeaf(j)

----------------------------------------------------------------------------
NoIt == [none |-> TRUE]
Init ==
  /\ root = Nil /\ db = {} /\ content = [k \in Key |-> 0] /\ it = NoIt
  /\ commits = 0 /\ updates = 0

Get(k) ==
  /\ root' = tryGet(root, keybytesToHex(k)).n
  /\ UNCHANGED <<db, content, it, commits, updates>>

TryUpdate(k, v) ==
  LET r == IF v = 0 THEN delete(root, keybytesToHex(k))
           ELSE insert(root, keybytesToHex(k), valueNode(v))
  IN  /\ updates < MaxUpdates /\ updates' = updates + 1
      /\ root' = r.n /\ content' = [content EXCEPT ![k] = v]
      /\ UNCHANGED <<db, it, commits>>

CommitTo(unload) ==
  /\ root # Nil /\ commits < MaxCommits /\ commits' = commits + 1
  /\ db' = db \cup Written(root, TRUE)
  /\ root' = Cached(root, unload)
  /\ UNCHANGED <<content, it, updates>>

\* History: what an iterator should give that reads the root now.
Under(prefix) == {k \in Key : content[k] # 0 /\ IsPrefix(prefix, k)}

\* PrefixIterator.
Iterate(prefix) ==
  /\ it = NoIt
  /\ it' = seek([stack |-> <<>>, path |-> <<>>, end |-> FALSE, prefix |-> prefix,
                 got |-> <<>>, all |-> Under(prefix)], prefix)
  /\ UNCHANGED <<root, db, content, commits, updates>>

\* With no prefix to seek, the root is read at the first step only.
NextLeaf ==
  /\ it # NoIt /\ ~it.end
  /\ it' = nextLeaf([it EXCEPT !.all = IF it.stack = <<>> THEN Under(it.prefix) ELSE @])
  /\ UNCHANGED <<root, db, content, commits, updates>>

Release == it # NoIt /\ it.end /\ it' = NoIt /\ UNCHANGED <<root, db, content, commits, updates>>

Next ==
  \/ \E k \in Key : Get(k) \/ \E v \in Value \cup {0} : TryUpdate(k, v)
  \/ \E u \in BOOLEAN : CommitTo(u)
  \/ \E p \in Start : Iterate(p)
  \/ NextLeaf \/ Release

Spec == Init /\ [][Next]_vars

----------------------------------------------------------------------------
\* The trie of a map, made at once from the map: the shape that is required.
RECURSIVE Canon(_)
Canon(m) ==
  LET ks == DOMAIN m
      k  == CHOOSE x \in ks : TRUE
      p  == Max({n \in 0..Len(k) : \A x \in ks : take(x, n) = take(k, n)})
      under(pre) == [x \in {drop(y, Len(pre)) : y \in {z \in ks : IsPrefix(pre, z)}} |-> m[pre \o x]]
  IN  IF ks = {} THEN Nil
      ELSE IF ks = {<<>>} THEN valueNode(m[<<>>])
      ELSE IF Cardinality(ks) = 1 THEN shortNode(k, valueNode(m[k]), FALSE)
      ELSE IF p > 0 THEN shortNode(take(k, p), Canon(under(take(k, p))), FALSE)
      ELSE fullNode([i \in 0..Radix |-> Canon(under(<<i>>))], FALSE)

RECURSIVE Whole(_)
Whole(n) ==
  CASE n.t = "hash" -> Whole(resolveHash(n))
    [] n.t = "short" -> shortNode(n.key, Whole(n.val), FALSE)
    [] n.t = "full" -> fullNode([i \in 0..Radix |-> Whole(n.c[i])], FALSE)
    [] OTHER -> n

\* The trie, and so its root hash, depends on what it holds alone: not on the
\* order of insertions and deletions, nor on what was stored and loaded.
Canonical ==
  Whole(root) =
    Canon([h \in {keybytesToHex(k) : k \in {x \in Key : content[x] # 0}} |-> content[Front(h)]])

\* A lookup gives the value last put, or none.
GetRight == \A k \in Key : tryGet(root, keybytesToHex(k)).v = content[k]

\* All that is referred to by its hash has been stored.
RECURSIVE Hashes(_)
Hashes(n) ==
  CASE n.t = "hash" -> {n.of} \cup Hashes(resolveHash(n))
    [] n.t = "short" -> Hashes(n.val)
    [] n.t = "full" -> UNION {Hashes(n.c[i]) : i \in 0..Radix}
    [] OTHER -> {}
Stored == Hashes(root) \subseteq db

\* A proof made for a key, present or not, is accepted and gives its value.
ProofRight ==
  root # Nil => \A k \in Key : VerifyProof(Collapsed(resolve(root)), k, Prove(k)) = content[k]

\* An iterator gives the keys with its prefix that were there when it began, each
\* once and in order (a key after those it is a prefix of), although the trie is changed and stored meanwhile.
IterationRight ==
  it # NoIt =>
    /\ ToSet(it.got) \subseteq it.all
    /\ \A i \in 1..Len(it.got) - 1 : ~AtLeast(keybytesToHex(it.got[i]), keybytesToHex(it.got[i + 1]))
    /\ it.end => ToSet(it.got) = it.all
=============================================================================
