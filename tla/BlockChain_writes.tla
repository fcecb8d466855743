------------------------- MODULE BlockChain_writes -------------------------
(***************************************************************************)
(* What the writes of the block store do to its database: lemmas about     *)
(* sequences of writes, insert, reorg and WriteBlockAndState, for any tree *)
(* of blocks.  BlockChain_proofs draws the theorems from them.             *)
(***************************************************************************)
EXTENDS BlockChain, FiniteSetTheorems, SequenceTheorems, WellFoundedInduction, TLAPS

----------------------------------------------------------------------------
(* Numbers.                                                                *)

\* A set of naturals that is not empty has a least element.
LEMMA LeastNat ==
  ASSUME NEW S \in SUBSET Nat, S # {}
  PROVE  \E m \in S : \A x \in S : m <= x
  <1>1. PICK m \in S : \A x \in S : <<x, m>> \notin OpToRel(<, Nat)
    BY NatLessThanWellFounded, WFMin, Zenon
  <1>2. \A x \in S : ~(x < m)
    BY <1>1, Zenon DEF OpToRel
  <1>3. QED
    BY <1>2

\* What holds of 0, and of k when it holds of k - 1, holds of n.
LEMMA UpTo ==
  ASSUME NEW n \in Nat, NEW S \in SUBSET (0 .. n), 0 \in S,
         \A k \in 1 .. n : k - 1 \in S => k \in S
  PROVE  S = 0 .. n
  <1> DEFINE Bad == {k \in Nat : k <= n /\ k \notin S}
  <1>1. SUFFICES ASSUME Bad # {} PROVE FALSE
    <2>1. Bad = {} => \A k \in 0 .. n : k \in S
      OBVIOUS
    <2> QED
      BY <1>1, <2>1, Zenon
  <1>2. Bad \in SUBSET Nat
    OBVIOUS
  <1>3. PICK m \in Bad : \A x \in Bad : m <= x
    BY <1>1, <1>2, LeastNat, Zenon
  <1>4. m \in 1 .. n /\ m - 1 \notin Bad
    BY <1>3
  <1> QED
    BY <1>3, <1>4

\* The greatest number of a set that has one.
LEMMA MaxIs ==
  ASSUME NEW S \in SUBSET Nat, NEW m \in S, \A x \in S : x <= m
  PROVE  Max(S) = m
  <1>1. \A x \in S : m >= x
    OBVIOUS
  <1>2. Max(S) \in S /\ \A x \in S : Max(S) >= x
    BY <1>1, Zenon DEF Max
  <1>3. Max(S) \in Nat /\ m \in Nat /\ Max(S) <= m /\ m <= Max(S)
    BY <1>2, Zenon
  <1> QED
    BY <1>3

LEMMA GreatestNat ==
  ASSUME NEW n \in Nat, NEW S \in SUBSET (0 .. n), S # {}
  PROVE  Max(S) \in S /\ \A x \in S : x <= Max(S)
  <1> DEFINE T == {y \in 0 .. n : n - y \in S}
  <1>1. PICK x \in S : TRUE
    BY Zenon
  <1>2. n - x \in T
    BY <1>1
  <1>3. T \in SUBSET Nat /\ T # {}
    <2>1. \A y \in T : y \in Nat
      OBVIOUS
    <2> QED
      BY <1>2, <2>1, Zenon
  <1>4. PICK m \in T : \A y \in T : m <= y
    BY <1>3, LeastNat, Zenon
  <1>5. \A y \in S : n - y \in T
    OBVIOUS
  <1>6. n - m \in S /\ \A y \in S : y <= n - m
    BY <1>4, <1>5
  <1> QED
    BY <1>6, MaxIs

----------------------------------------------------------------------------
(* Folds.  There are two: a sequence of writes is applied to the database, *)
(* and a sequence of calls of insert to the heads in memory.               *)

Op(kind, x, w) == IF kind = "db" THEN Apply(x, w) ELSE insertCall(x, w)

Inserted(m, calls) == InTurn(insertCall, m, calls)

Folded(kind, x, ws) == IF kind = "db" THEN Written(x, ws) ELSE Inserted(x, ws)

\* The fold, unfolded once: g is right for smaller sets.
FoldStep(kind, d, ws, g, s) ==
  IF s = {} THEN d ELSE Op(kind, g[s \ {Max(s)}], ws[Max(s)])

\* The greatest of a set of indices is in it, and the others are fewer.
LEMMA TakeMax ==
  ASSUME NEW n \in Nat, NEW s \in SUBSET (1 .. n), s # {}
  PROVE  /\ Max(s) \in s /\ s \ {Max(s)} \in SUBSET (1 .. n)
         /\ Cardinality(s) \in Nat /\ Cardinality(s \ {Max(s)}) \in Nat
         /\ Cardinality(s \ {Max(s)}) = Cardinality(s) - 1
  <1>1. Max(s) \in s
    <2>1. s \in SUBSET (0 .. n)
      OBVIOUS
    <2> QED
      BY <2>1, GreatestNat
  <1>2. IsFiniteSet(s)
    <2>1. IsFiniteSet(1 .. n)
      BY FS_Interval
    <2> QED
      BY <2>1, FS_Subset, Zenon
  <1> QED
    BY <1>1, <1>2, FS_RemoveElement, FS_CardinalityType, Zenon

\* g unfolds for the sets of up to k of the first n indices.
Unfolds(kind, n, d, ws, g, k) ==
  /\ g = [s \in SUBSET (1 .. n) |-> g[s]]
  /\ \A s \in SUBSET (1 .. n) :
       Cardinality(s) <= k => g[s] = FoldStep(kind, d, ws, g, s)

LEMMA SubsetsOfIndices ==
  ASSUME NEW n \in Nat, NEW s \in SUBSET (1 .. n)
  PROVE  IsFiniteSet(s) /\ Cardinality(s) \in Nat /\ Cardinality(s) <= n
  <1>1. IsFiniteSet(1 .. n) /\ Cardinality(1 .. n) = n
    BY FS_Interval
  <1>2. IsFiniteSet(s) /\ Cardinality(s) <= Cardinality(1 .. n)
    BY <1>1, FS_Subset, Zenon
  <1> QED
    BY <1>1, <1>2, FS_CardinalityType

\* There is such a function for every k.
LEMMA FoldUpTo ==
  ASSUME NEW n \in Nat, NEW kind, NEW d, NEW ws, NEW k \in Nat
  PROVE  \E g : Unfolds(kind, n, d, ws, g, k)
  <1> DEFINE Good == {j \in 0 .. k : \E g : Unfolds(kind, n, d, ws, g, j)}
  <1>1. 0 \in Good
    <2> DEFINE z == [s \in SUBSET (1 .. n) |-> d]
    <2>1. ASSUME NEW s \in SUBSET (1 .. n), Cardinality(s) <= 0
          PROVE  z[s] = FoldStep(kind, d, ws, z, s)
      <3>1. s = {}
        BY <2>1, SubsetsOfIndices, FS_EmptySet, SMTT(30)
      <3> QED
        BY <3>1 DEF FoldStep
    <2>2. Unfolds(kind, n, d, ws, z, 0)
      BY <2>1 DEF Unfolds
    <2> QED
      BY <2>2
  <1>2. ASSUME NEW j \in 1 .. k, j - 1 \in Good
        PROVE  j \in Good
    <2>1. PICK g : Unfolds(kind, n, d, ws, g, j - 1)
      BY <1>2
    <2> DEFINE h == [s \in SUBSET (1 .. n) |-> FoldStep(kind, d, ws, g, s)]
    <2>2. ASSUME NEW s \in SUBSET (1 .. n), Cardinality(s) <= j
          PROVE  h[s] = FoldStep(kind, d, ws, h, s)
      <3>1. CASE s = {}
        BY <3>1 DEF FoldStep
      <3>2. CASE s # {}
        <4> DEFINE t == s \ {Max(s)}
        <4>1. t \in SUBSET (1 .. n) /\ Cardinality(t) <= j - 1
          BY <2>2, <3>2, TakeMax
        <4>2. g[t] = FoldStep(kind, d, ws, g, t)
          BY <2>1, <4>1, Zenon DEF Unfolds
        <4>3. h[t] = g[t]
          BY <4>1, <4>2
        <4> QED
          BY <3>2, <4>3 DEF FoldStep
      <3> QED
        BY <3>1, <3>2
    <2>3. Unfolds(kind, n, d, ws, h, j)
      BY <2>2, ZenonT(60) DEF Unfolds
    <2> HIDE DEF h
    <2> QED
      BY <2>3
  <1>3. k \in Good
    <2>1. Good \in SUBSET (0 .. k)
      OBVIOUS
    <2> HIDE DEF Good
    <2>2. Good = 0 .. k
      BY <1>1, <1>2, <2>1, UpTo
    <2> QED
      BY <2>2
  <1> QED
    BY <1>3

\* g is the function of which the fold takes the value.
FoldOf(kind, n, d, ws, g) ==
  /\ \A s \in SUBSET (1 .. n) : g[s] = FoldStep(kind, d, ws, g, s)
  /\ Folded(kind, d, ws) = g[1 .. n]

LEMMA FoldExists ==
  ASSUME NEW n \in Nat, NEW kind, NEW d, NEW ws, DOMAIN ws = 1 .. n
  PROVE  \E g : FoldOf(kind, n, d, ws, g)
  <1> DEFINE Fold(g) == g = [s \in SUBSET (1 .. n) |-> FoldStep(kind, d, ws, g, s)]
             it == CHOOSE g : Fold(g)
  <1>1. Folded(kind, d, ws) = it[1 .. n]
    <2>1. CASE kind = "db"
      BY <2>1 DEF Folded, Written, InTurn, MapThenFoldSet, FoldStep, Op
    <2>2. CASE kind # "db"
      BY <2>2 DEF Folded, Inserted, InTurn, MapThenFoldSet, FoldStep, Op
    <2> QED
      BY <2>1, <2>2
  <1>2. \E g : Fold(g)
    <2>1. PICK g : Unfolds(kind, n, d, ws, g, n)
      BY FoldUpTo, SMTT(30)
    <2>2. Fold(g)
      BY <2>1, SubsetsOfIndices, Zenon DEF Unfolds
    <2> QED
      BY <2>2
  <1>3. Fold(it)
    BY <1>2
  <1> HIDE DEF it
  <1>4. \A s \in SUBSET (1 .. n) : it[s] = FoldStep(kind, d, ws, it, s)
    BY <1>3
  <1>5. FoldOf(kind, n, d, ws, it)
    BY <1>1, <1>4 DEF FoldOf
  <1> QED
    BY <1>5

\* That function on the first indices.
LEMMA FoldSteps ==
  ASSUME NEW n \in Nat, NEW kind, NEW d, NEW ws, NEW g, FoldOf(kind, n, d, ws, g)
  PROVE  /\ g[1 .. 0] = d
         /\ \A k \in 1 .. n : g[1 .. k] = Op(kind, g[1 .. k - 1], ws[k])
         /\ Folded(kind, d, ws) = g[1 .. n]
  <1>1. g[1 .. 0] = d
    <2>1. 1 .. 0 = {}
      OBVIOUS
    <2> QED
      BY <2>1 DEF FoldStep, FoldOf
  <1>2. ASSUME NEW k \in 1 .. n
        PROVE  g[1 .. k] = Op(kind, g[1 .. k - 1], ws[k])
    <2>1. 1 .. k \in SUBSET (1 .. n) /\ k \in 1 .. k
      OBVIOUS
    <2>2. (1 .. k) \ {k} = 1 .. k - 1
      <3>1. \A x : x \in (1 .. k) \ {k} <=> x \in 1 .. k - 1
        OBVIOUS
      <3> QED
        BY <3>1, Zenon
    <2>3. Max(1 .. k) = k
      BY MaxIs
    <2>4. g[1 .. k] = FoldStep(kind, d, ws, g, 1 .. k)
      BY <2>1 DEF FoldOf
    <2> QED
      BY <2>1, <2>2, <2>3, <2>4, Zenon DEF FoldStep
  <1> QED
    BY <1>1, <1>2 DEF FoldOf

\* Nothing to apply changes nothing.
LEMMA FoldEmpty ==
  ASSUME NEW kind, NEW d
  PROVE  Folded(kind, d, << >>) = d
  <1>1. DOMAIN << >> = 1 .. 0
    OBVIOUS
  <1>2. PICK g : FoldOf(kind, 0, d, << >>, g)
    BY <1>1, FoldExists, Zenon
  <1> QED
    BY <1>2, FoldSteps

\* One more is applied last.
LEMMA FoldAppend ==
  ASSUME NEW kind, NEW d, NEW S, NEW ws \in Seq(S), NEW w \in S
  PROVE  Folded(kind, d, Append(ws, w)) = Op(kind, Folded(kind, d, ws), w)
  <1> DEFINE n == Len(ws)
             vs == Append(ws, w)
  <1>1. /\ n \in Nat /\ DOMAIN ws = 1 .. n /\ n + 1 \in Nat /\ DOMAIN vs = 1 .. n + 1
        /\ vs[n + 1] = w /\ \A k \in 1 .. n : vs[k] = ws[k]
    OBVIOUS
  <1> HIDE DEF n, vs
  <1>2. PICK g : FoldOf(kind, n, d, ws, g)
    BY <1>1, FoldExists, Zenon
  <1>3. PICK h : FoldOf(kind, n + 1, d, vs, h)
    BY <1>1, FoldExists, Zenon
  <1>4. /\ g[1 .. 0] = d /\ \A k \in 1 .. n : g[1 .. k] = Op(kind, g[1 .. k - 1], ws[k])
        /\ Folded(kind, d, ws) = g[1 .. n]
    BY <1>1, <1>2, FoldSteps
  <1>5. /\ h[1 .. 0] = d
        /\ \A k \in 1 .. n + 1 : h[1 .. k] = Op(kind, h[1 .. k - 1], vs[k])
        /\ Folded(kind, d, vs) = h[1 .. n + 1]
    BY <1>1, <1>3, FoldSteps
  <1> DEFINE Same == {k \in 0 .. n : g[1 .. k] = h[1 .. k]}
  <1>6. Same = 0 .. n
    <2>1. Same \in SUBSET (0 .. n) /\ 0 \in Same
      BY <1>1, <1>4, <1>5
    <2>2. ASSUME NEW k \in 1 .. n, k - 1 \in Same PROVE k \in Same
      <3>1. k \in 1 .. n + 1 /\ vs[k] = ws[k] /\ g[1 .. k - 1] = h[1 .. k - 1]
        BY <1>1, <2>2
      <3>2. g[1 .. k] = Op(kind, g[1 .. k - 1], ws[k])
        BY <1>4
      <3>3. h[1 .. k] = Op(kind, h[1 .. k - 1], vs[k])
        BY <1>5, <3>1
      <3> QED
        BY <1>1, <3>1, <3>2, <3>3
    <2> HIDE DEF Same
    <2> QED
      BY <1>1, <2>1, <2>2, UpTo
  <1>7. g[1 .. n] = h[1 .. n]
    BY <1>1, <1>6
  <1>8. h[1 .. n + 1] = Op(kind, h[1 .. n], w)
    <2>1. PICK k \in 1 .. n + 1 : k = n + 1 /\ k - 1 = n
      BY <1>1
    <2>2. h[1 .. k] = Op(kind, h[1 .. k - 1], vs[k])
      BY <1>5
    <2> QED
      BY <1>1, <2>1, <2>2
  <1> QED
    BY <1>4, <1>5, <1>7, <1>8 DEF vs

LEMMA WrittenEmpty ==
  ASSUME NEW d
  PROVE  Written(d, << >>) = d
  BY FoldEmpty DEF Folded

LEMMA WrittenAppend ==
  ASSUME NEW d, NEW S, NEW ws \in Seq(S), NEW w \in S
  PROVE  Written(d, Append(ws, w)) = Apply(Written(d, ws), w)
  <1>1. Folded("db", d, Append(ws, w)) = Op("db", Folded("db", d, ws), w)
    BY FoldAppend
  <1> QED
    BY <1>1 DEF Folded, Op

LEMMA InsertedEmpty ==
  ASSUME NEW m
  PROVE  Inserted(m, << >>) = m
  <1>1. Folded("heads", m, << >>) = m
    BY FoldEmpty
  <1> QED
    BY <1>1 DEF Folded

LEMMA InsertedAppend ==
  ASSUME NEW m, NEW S, NEW calls \in Seq(S), NEW c \in S
  PROVE  Inserted(m, Append(calls, c)) = insertCall(Inserted(m, calls), c)
  <1>1. Folded("heads", m, Append(calls, c)) = Op("heads", Folded("heads", m, calls), c)
    BY FoldAppend
  <1> QED
    BY <1>1 DEF Folded, Op

----------------------------------------------------------------------------
(* Sequences of writes.                                                    *)

\* The writes one after the other; the first k of them are what a crash keeps.
LEMMA WrittenPrefix ==
  ASSUME NEW d, NEW S, NEW ws \in Seq(S)
  PROVE  /\ Written(d, SubSeq(ws, 1, 0)) = d
         /\ \A k \in 1 .. Len(ws) :
              Written(d, SubSeq(ws, 1, k)) = Apply(Written(d, SubSeq(ws, 1, k - 1)), ws[k])
  <1>1. Written(d, SubSeq(ws, 1, 0)) = d
    <2>1. SubSeq(ws, 1, 0) = << >>
      BY SubSeqEmpty
    <2> QED
      BY <2>1, WrittenEmpty, Zenon
  <1>2. ASSUME NEW k \in 1 .. Len(ws)
        PROVE  Written(d, SubSeq(ws, 1, k)) = Apply(Written(d, SubSeq(ws, 1, k - 1)), ws[k])
    <2> DEFINE u == SubSeq(ws, 1, k - 1)
    <2>1. u \in Seq(S) /\ ws[k] \in S /\ SubSeq(ws, 1, k) = Append(u, ws[k])
      OBVIOUS
    <2> HIDE DEF u
    <2>2. Written(d, Append(u, ws[k])) = Apply(Written(d, u), ws[k])
      BY <2>1, WrittenAppend
    <2> QED
      BY <2>1, <2>2, Zenon DEF u
  <1> QED
    BY <1>1, <1>2

\* A sequence after another one.
LEMMA WrittenConcat ==
  ASSUME NEW d, NEW S, NEW s \in Seq(S), NEW t \in Seq(S)
  PROVE  Written(d, s \o t) = Written(Written(d, s), t)
  <1> DEFINE e == Written(d, s)
             Good == {k \in 0 .. Len(t) :
                        Written(d, s \o SubSeq(t, 1, k)) = Written(e, SubSeq(t, 1, k))}
  <1>1. Len(t) \in Nat /\ Good \in SUBSET (0 .. Len(t))
    OBVIOUS
  <1>2. 0 \in Good
    <2>1. SubSeq(t, 1, 0) = << >> /\ s \o << >> = s
      BY SubSeqEmpty, ConcatEmptySeq
    <2>2. Written(e, << >>) = e
      BY WrittenEmpty
    <2>3. Written(d, s \o SubSeq(t, 1, 0)) = Written(e, SubSeq(t, 1, 0))
      BY <2>1, <2>2, Zenon
    <2> QED
      BY <1>1, <2>3
  <1>3. ASSUME NEW k \in 1 .. Len(t), k - 1 \in Good
        PROVE  k \in Good
    <2> DEFINE u == SubSeq(t, 1, k - 1)
    <2>1. u \in Seq(S) /\ t[k] \in S /\ SubSeq(t, 1, k) = Append(u, t[k])
      OBVIOUS
    <2>2. s \o Append(u, t[k]) = Append(s \o u, t[k]) /\ s \o u \in Seq(S)
      BY <2>1
    <2>3. Written(d, s \o u) = Written(e, u)
      BY <1>3
    <2> HIDE DEF u, e
    <2>4. Written(d, Append(s \o u, t[k])) = Apply(Written(d, s \o u), t[k])
      <3>1. PICK v \in Seq(S) : v = s \o u
        BY <2>2, Zenon
      <3>2. Written(d, Append(v, t[k])) = Apply(Written(d, v), t[k])
        BY <2>1, WrittenAppend
      <3> QED
        BY <3>1, <3>2
    <2>5. Written(e, Append(u, t[k])) = Apply(Written(e, u), t[k])
      BY <2>1, WrittenAppend
    <2>6. Written(d, s \o SubSeq(t, 1, k)) = Written(e, SubSeq(t, 1, k))
      BY <2>1, <2>2, <2>3, <2>4, <2>5, Zenon
    <2> QED
      BY <2>6
  <1>4. Good = 0 .. Len(t)
    <2> HIDE DEF Good
    <2> QED
      BY <1>1, <1>2, <1>3, UpTo
  <1>5. Len(t) \in Good
    BY <1>1, <1>4
  <1>6. SubSeq(t, 1, Len(t)) = t
    BY SubSeqFull
  <1> QED
    BY <1>5, <1>6, Zenon

\* Short sequences.
LEMMA WrittenOne ==
  ASSUME NEW d, NEW w
  PROVE  Written(d, <<w>>) = Apply(d, w)
  <1>1. << >> \in Seq({w}) /\ w \in {w} /\ Append(<< >>, w) = <<w>>
    OBVIOUS
  <1>2. Written(d, Append(<< >>, w)) = Apply(Written(d, << >>), w)
    BY <1>1, WrittenAppend, ZenonT(60)
  <1> QED
    BY <1>1, <1>2, WrittenEmpty

LEMMA WrittenTwo ==
  ASSUME NEW d, NEW v, NEW w
  PROVE  Written(d, <<v, w>>) = Apply(Apply(d, v), w)
  <1>1. PICK S : v \in S /\ w \in S
    <2>1. v \in {v, w} /\ w \in {v, w}
      OBVIOUS
    <2> QED
      BY <2>1, Zenon
  <1>2. <<v>> \in Seq(S) /\ Append(<<v>>, w) = <<v, w>>
    <2>1. <<v>> \in Seq(S) /\ <<v, w>> \in Seq(S)
      BY <1>1
    <2>2. Append(<<v>>, w) \in Seq(S) /\ Len(Append(<<v>>, w)) = 2
      BY <1>1, <2>1
    <2>3. \A i \in 1 .. 2 : Append(<<v>>, w)[i] = <<v, w>>[i]
      BY <1>1, <2>1
    <2> QED
      BY <2>1, <2>2, <2>3, SeqEqual, Zenon
  <1>3. Written(d, Append(<<v>>, w)) = Apply(Written(d, <<v>>), w)
    BY <1>1, <1>2, WrittenAppend, ZenonT(60)
  <1> QED
    BY <1>2, <1>3, WrittenOne, Zenon

\* What Joined makes of the first k sequences.
JoinedBy(n, ss, g, k) ==
  /\ g[0] = << >>
  /\ \A j \in 1 .. k : g[j] = g[j - 1] \o ss[j]

\* ss is a sequence of n sequences over S.
Pieces(S, n, ss) ==
  /\ Len(ss) = n /\ (n = 0 => ss = << >>)
  /\ \A k \in 1 .. n : ss[k] \in Seq(S)

LEMMA JoinUpTo ==
  ASSUME NEW S, NEW n \in Nat, NEW ss, Pieces(S, n, ss)
  PROVE  \E g \in [0 .. n -> Seq(S)] : JoinedBy(n, ss, g, n)
  <1>0. \A k \in 1 .. n : ss[k] \in Seq(S)
    BY DEF Pieces
  <1> DEFINE Good == {k \in 0 .. n : \E g \in [0 .. n -> Seq(S)] : JoinedBy(n, ss, g, k)}
  <1>2. 0 \in Good
    <2> DEFINE z == [k \in 0 .. n |-> << >>]
    <2>1. z \in [0 .. n -> Seq(S)] /\ JoinedBy(n, ss, z, 0)
      BY DEF JoinedBy
    <2> HIDE DEF z
    <2> QED
      BY <2>1
  <1>3. ASSUME NEW k \in 1 .. n, k - 1 \in Good
        PROVE  k \in Good
    <2>1. PICK g \in [0 .. n -> Seq(S)] : JoinedBy(n, ss, g, k - 1)
      BY <1>3
    <2>p. PICK p \in 0 .. n : p = k - 1
      OBVIOUS
    <2>2. PICK t \in Seq(S) : t = g[p] \o ss[k]
      <3>1. g[p] \in Seq(S) /\ ss[k] \in Seq(S)
        BY <1>0
      <3> QED
        BY <3>1, ConcatProperties, Zenon
    <2> DEFINE h == [g EXCEPT ![k] = t]
    <2>3. h \in [0 .. n -> Seq(S)]
      OBVIOUS
    <2>4. h[0] = << >>
      BY <2>1 DEF JoinedBy
    <2>5. ASSUME NEW j \in 1 .. k
          PROVE  h[j] = h[j - 1] \o ss[j]
      <3>1. CASE j = k
        <4>1. h[j] = t /\ h[j - 1] = g[p]
          BY <2>p, <3>1
        <4> QED
          BY <2>2, <3>1, <4>1, Zenon
      <3>2. CASE j # k
        <4>1. h[j] = g[j] /\ h[j - 1] = g[j - 1] /\ j \in 1 .. (k - 1)
          BY <3>2
        <4> QED
          BY <2>1, <4>1, Zenon DEF JoinedBy
      <3> QED
        BY <3>1, <3>2, Zenon
    <2>6. JoinedBy(n, ss, h, k)
      BY <2>4, <2>5, Zenon DEF JoinedBy
    <2> HIDE DEF h
    <2> QED
      BY <2>3, <2>6
  <1>4. Good = 0 .. n
    <2>1. Good \in SUBSET (0 .. n)
      OBVIOUS
    <2> HIDE DEF Good
    <2> QED
      BY <1>2, <1>3, <2>1, UpTo
  <1>5. n \in Good
    <2> HIDE DEF Good
    <2> QED
      BY <1>4
  <1> QED
    BY <1>5

LEMMA JoinedIs ==
  ASSUME NEW S, NEW n \in Nat, NEW ss, Pieces(S, n, ss),
         NEW g \in [0 .. n -> Seq(S)], JoinedBy(n, ss, g, n)
  PROVE  Joined(ss) = g[n]
  <1>0. Len(ss) = n /\ (n = 0 => ss = << >>) /\ \A k \in 1 .. n : ss[k] \in Seq(S)
    BY DEF Pieces
  <1>1. g[0] = << >> /\ \A k \in 1 .. n : g[k] = g[k - 1] \o ss[k]
    BY ZenonT(60) DEF JoinedBy
  <1>2. CASE n = 0
    BY <1>0, <1>1, <1>2 DEF Joined
  <1>3. CASE n # 0
    <2> DEFINE Flat(f) == f = [i \in 1 .. n |-> IF i = 1 THEN ss[i] ELSE f[i - 1] \o ss[i]]
               it == CHOOSE f : Flat(f)
    <2>1. Joined(ss) = it[n]
      BY <1>0, <1>3 DEF Joined
    <2>0. 1 \in 1 .. n /\ g[1] = ss[1]
      <3>1. ss[1] \in Seq(S) /\ 1 \in 1 .. n
        BY <1>0, <1>3
      <3>2. g[1] = g[1 - 1] \o ss[1]
        BY <1>1, <3>1, Zenon
      <3>3. 1 - 1 = 0
        OBVIOUS
      <3>4. g[1] = << >> \o ss[1]
        BY <1>1, <3>2, <3>3, Zenon
      <3> QED
        BY <3>1, <3>4, ConcatEmptySeq
    <2>2. \E f : Flat(f)
      <3> DEFINE f == [i \in 1 .. n |-> g[i]]
                 r == [i \in 1 .. n |-> IF i = 1 THEN ss[i] ELSE f[i - 1] \o ss[i]]
      <3>1. ASSUME NEW i \in 1 .. n
            PROVE  f[i] = r[i]
        <4>2. CASE i = 1
          BY <2>0, <4>2
        <4>3. CASE i # 1
          <5>1. PICK p \in 1 .. n : p = i - 1
            BY <4>3
          <5>2. g[i] = g[p] \o ss[i] /\ f[p] = g[p]
            BY <1>1, <5>1, Zenon
          <5> QED
            BY <4>3, <5>1, <5>2, Zenon
        <4> QED
          BY <4>2, <4>3
      <3>2. f = r
        <4>1. f = [i \in 1 .. n |-> f[i]] /\ r = [i \in 1 .. n |-> r[i]]
          OBVIOUS
        <4> HIDE DEF f, r
        <4> QED
          BY <3>1, <4>1
      <3>3. Flat(f)
        BY <3>2
      <3> QED
        BY <3>3, Zenon
    <2>3. Flat(it)
      BY <2>2, Zenon
    <2>4. \A k \in 1 .. n : it[k] = IF k = 1 THEN ss[k] ELSE it[k - 1] \o ss[k]
      <3> HIDE DEF it
      <3> QED
        BY <2>3, Zenon
    <2> HIDE DEF it
    <2> DEFINE Same == {k \in 0 .. n : k = 0 \/ it[k] = g[k]}
    <2>5. Same \in SUBSET (0 .. n) /\ 0 \in Same
      OBVIOUS
    <2>6. ASSUME NEW k \in 1 .. n, k - 1 \in Same
          PROVE  k \in Same
      <3>1. PICK p \in 0 .. n : p = k - 1
        OBVIOUS
      <3>2. CASE p = 0
        BY <2>0, <2>4, <3>1, <3>2
      <3>3. CASE p # 0
        <4>1. it[p] = g[p] /\ k # 1
          BY <2>6, <3>1, <3>3
        <4>2. g[k] = g[p] \o ss[k] /\ it[k] = it[p] \o ss[k]
          BY <1>1, <2>4, <3>1, <4>1, ZenonT(60)
        <4>3. it[k] = g[k]
          BY <4>1, <4>2, Zenon
        <4> QED
          BY <4>3
      <3> QED
        BY <3>2, <3>3
    <2>7. Same = 0 .. n
      <3> HIDE DEF Same
      <3> QED
        BY <2>5, <2>6, UpTo
    <2>8. n \in Same
      <3> HIDE DEF Same
      <3> QED
        BY <2>7
    <2>9. it[n] = g[n]
      BY <1>3, <2>8
    <2> QED
      BY <2>1, <2>9
  <1> QED
    BY <1>2, <1>3

\* e goes from d through the sequences of writes ss.
Through(d, n, ss, e) ==
  /\ e[0] = d
  /\ \A k \in 1 .. n : e[k] = Written(e[k - 1], ss[k])

\* The writes of a sequence of operations, one operation after the other.
LEMMA WrittenJoin ==
  ASSUME NEW d, NEW S, NEW n \in Nat, NEW ss, Pieces(S, n, ss)
  PROVE  /\ Joined(ss) \in Seq(S)
         /\ \E e : Through(d, n, ss, e) /\ e[n] = Written(d, Joined(ss))
  <1>1. PICK g \in [0 .. n -> Seq(S)] : JoinedBy(n, ss, g, n)
    BY JoinUpTo, Zenon
  <1>2. g[0] = << >> /\ \A k \in 1 .. n : g[k] = g[k - 1] \o ss[k]
    BY <1>1, ZenonT(60) DEF JoinedBy
  <1>3. Joined(ss) = g[n]
    BY <1>1, JoinedIs, Zenon
  <1> DEFINE e == [k \in 0 .. n |-> Written(d, g[k])]
  <1>4. e[0] = d
    BY <1>2, WrittenEmpty
  <1>5. e[n] = Written(d, Joined(ss))
    BY <1>3
  <1>6. ASSUME NEW k \in 1 .. n
        PROVE  e[k] = Written(e[k - 1], ss[k])
    <2>1. PICK p \in 0 .. n : p = k - 1
      OBVIOUS
    <2>2. g[k] = g[p] \o ss[k] /\ g[p] \in Seq(S) /\ ss[k] \in Seq(S)
      BY <1>2, <2>1, Zenon DEF Pieces
    <2>3. Written(d, g[p] \o ss[k]) = Written(Written(d, g[p]), ss[k])
      BY <2>2, WrittenConcat
    <2>4. e[k] = Written(d, g[k]) /\ e[p] = Written(d, g[p])
      OBVIOUS
    <2> QED
      BY <2>1, <2>2, <2>3, <2>4
  <1>7. Through(d, n, ss, e)
    BY <1>4, <1>6, Zenon DEF Through
  <1> HIDE DEF e
  <1> QED
    BY <1>3, <1>5, <1>7

\* Every write of S leads from G into G.
Closed(G, S) == \A e \in G : \A w \in S : Apply(e, w) \in G

\* Then so does every sequence of such writes, and whatever a crash keeps of it.
LEMMA StaysIn ==
  ASSUME NEW G, NEW S, Closed(G, S), NEW d \in G, NEW ws \in Seq(S)
  PROVE  /\ \A k \in 0 .. Len(ws) : Written(d, SubSeq(ws, 1, k)) \in G
         /\ Written(d, ws) \in G
  <1> DEFINE Good == {k \in 0 .. Len(ws) : Written(d, SubSeq(ws, 1, k)) \in G}
  <1>0. /\ Written(d, SubSeq(ws, 1, 0)) = d
        /\ \A k \in 1 .. Len(ws) :
             Written(d, SubSeq(ws, 1, k)) = Apply(Written(d, SubSeq(ws, 1, k - 1)), ws[k])
    BY WrittenPrefix, ZenonT(60)
  <1>1. Len(ws) \in Nat /\ Good \in SUBSET (0 .. Len(ws))
    OBVIOUS
  <1>2. 0 \in Good
    BY <1>0, <1>1
  <1>3. ASSUME NEW k \in 1 .. Len(ws), k - 1 \in Good
        PROVE  k \in Good
    <2>1. Written(d, SubSeq(ws, 1, k)) = Apply(Written(d, SubSeq(ws, 1, k - 1)), ws[k])
      BY <1>0, Zenon
    <2>2. ws[k] \in S
      BY ElementOfSeq
    <2>3. Written(d, SubSeq(ws, 1, k - 1)) \in G
      BY <1>3
    <2>4. Written(d, SubSeq(ws, 1, k)) \in G
      BY <2>1, <2>2, <2>3, Zenon DEF Closed
    <2>5. k \in 0 .. Len(ws)
      BY <1>1
    <2> QED
      BY <2>4, <2>5
  <1>4. Good = 0 .. Len(ws)
    <2> HIDE DEF Good
    <2> QED
      BY <1>1, <1>2, <1>3, UpTo
  <1>5. Len(ws) \in 0 .. Len(ws)
    BY <1>1
  <1>6. Len(ws) \in Good
    <2> HIDE DEF Good
    <2> QED
      BY <1>4, <1>5, Zenon
  <1>7. SubSeq(ws, 1, Len(ws)) = ws
    BY SubSeqFull
  <1> QED
    BY <1>4, <1>6, <1>7, Zenon

----------------------------------------------------------------------------
(* Blocks.                                                                 *)

\* The choices of which the blocks are sequences.
Choice == UNION {{b[i] : i \in 1 .. Len(b)} : b \in Block}

LEMMA BlockIsSeq ==
  ASSUME NEW b \in Block
  PROVE  b \in Seq(Choice) /\ Len(b) \in Nat /\ Ancestor(b, Len(b)) = b
  <1>1. Len(b) \in Nat /\ b = [i \in 1 .. Len(b) |-> b[i]]
    BY BlockChainAssumption
  <1>2. ASSUME NEW i \in 1 .. Len(b)
        PROVE  b[i] \in Choice
    <2>1. b[i] \in {b[j] : j \in 1 .. Len(b)}
      OBVIOUS
    <2> QED
      BY <2>1 DEF Choice
  <1>3. PICK n \in Nat : n = Len(b)
    BY <1>1
  <1>4. b \in [1 .. n -> Choice]
    BY <1>1, <1>2, <1>3
  <1>5. b \in Seq(Choice)
    BY <1>4, SeqDef
  <1> QED
    BY <1>1, <1>5, SubSeqFull DEF Ancestor

LEMMA GenesisIsFirst ==
  ASSUME NEW b \in Block
  PROVE  /\ Len(genesisBlock) = 0 /\ genesisBlock \in Block
         /\ b # genesisBlock => Len(b) \in Nat \ {0}
         /\ b = genesisBlock <=> Len(b) = 0
         /\ Ancestor(b, 0) = genesisBlock
  BY BlockIsSeq, EmptySeq, SubSeqEmpty, BlockChainAssumption
  DEF genesisBlock, Ancestor

LEMMA AncestorIsSeq ==
  ASSUME NEW b \in Block, NEW n \in 0 .. Len(b)
  PROVE  /\ Ancestor(b, n) \in Seq(Choice) /\ Len(Ancestor(b, n)) = n
         /\ \A i \in 1 .. n : Ancestor(b, n)[i] = b[i]
         /\ n \in Nat
  <1>1. b \in Seq(Choice) /\ Len(b) \in Nat
    BY BlockIsSeq
  <1>2. \A i \in 1 .. n : b[i] \in Choice
    BY <1>1
  <1>3. /\ SubSeq(b, 1, n) \in Seq(Choice)
        /\ Len(SubSeq(b, 1, n)) = IF 1 <= n THEN n - 1 + 1 ELSE 0
        /\ \A i \in 1 .. n - 1 + 1 : SubSeq(b, 1, n)[i] = b[1 + i - 1]
    <2>1. n \in Int /\ 1 \in Int
      BY <1>1
    <2> QED
      BY <1>2, <2>1, SubSeqProperties
  <1> QED
    BY <1>1, <1>3 DEF Ancestor

LEMMA AncestorOfAncestor ==
  ASSUME NEW b \in Block, NEW m \in 0 .. Len(b), NEW n \in 0 .. m
  PROVE  Ancestor(Ancestor(b, m), n) = Ancestor(b, n)
  <1>1. Len(b) \in Nat
    BY BlockIsSeq
  <1>2. n \in 0 .. Len(b) /\ n \in Int /\ m \in Nat
    BY <1>1
  <1> DEFINE a == Ancestor(b, m)
  <1>3. a \in Seq(Choice) /\ Len(a) = m /\ \A i \in 1 .. m : a[i] = b[i]
    BY AncestorIsSeq
  <1> HIDE DEF a
  <1>4. \A i \in 1 .. n : a[i] \in Choice /\ a[i] = b[i]
    BY <1>2, <1>3
  <1>5. /\ SubSeq(a, 1, n) \in Seq(Choice)
        /\ Len(SubSeq(a, 1, n)) = IF 1 <= n THEN n - 1 + 1 ELSE 0
        /\ \A i \in 1 .. n - 1 + 1 : SubSeq(a, 1, n)[i] = a[1 + i - 1]
    BY <1>2, <1>4, SubSeqProperties
  <1>6. /\ Ancestor(b, n) \in Seq(Choice) /\ Len(Ancestor(b, n)) = n
        /\ \A i \in 1 .. n : Ancestor(b, n)[i] = b[i]
    BY <1>2, AncestorIsSeq
  <1>7. /\ Ancestor(a, n) \in Seq(Choice) /\ Len(Ancestor(a, n)) = n
        /\ \A i \in 1 .. n : Ancestor(a, n)[i] = Ancestor(b, n)[i]
    BY <1>2, <1>4, <1>5, <1>6 DEF Ancestor
  <1>8. Ancestor(a, n) = Ancestor(b, n)
    <2> PICK s : s = Ancestor(a, n)
      OBVIOUS
    <2> PICK t : t = Ancestor(b, n)
      OBVIOUS
    <2> QED
      BY <1>6, <1>7, SeqEqual
  <1> QED
    BY <1>8 DEF a

\* A set of blocks that has the parent of each of them but genesis.
Rooted(S) == \A b \in S : b # genesisBlock => ParentOf(b) \in S

LEMMA AncestorsIn ==
  ASSUME NEW S \in SUBSET Block, Rooted(S), NEW b \in S
  PROVE  \A n \in 0 .. Len(b) : Ancestor(b, n) \in S
  <1> DEFINE l == Len(b)
             Good == {k \in 0 .. l : Ancestor(b, l - k) \in S}
  <1>1. b \in Block /\ l \in Nat /\ Ancestor(b, l) = b
    BY BlockIsSeq
  <1> HIDE DEF l
  <1>2. Good \in SUBSET (0 .. l) /\ 0 \in Good
    BY <1>1
  <1>3. ASSUME NEW k \in 1 .. l, k - 1 \in Good
        PROVE  k \in Good
    <2>1. PICK m \in 1 .. l : m = l - (k - 1)
      BY <1>1
    <2>2. Ancestor(b, m) \in S
      BY <1>3, <2>1
    <2>3. Len(Ancestor(b, m)) = m
      BY <1>1, AncestorIsSeq DEF l
    <2>4. Ancestor(b, m) # genesisBlock
      BY <2>2, <2>3, GenesisIsFirst
    <2>5. ParentOf(Ancestor(b, m)) \in S
      BY <2>2, <2>4 DEF Rooted
    <2>6. ParentOf(Ancestor(b, m)) = Ancestor(Ancestor(b, m), m - 1)
      BY <2>3 DEF ParentOf, Ancestor
    <2>7. Ancestor(Ancestor(b, m), m - 1) = Ancestor(b, m - 1)
      <3>1. m \in 0 .. Len(b) /\ m - 1 \in 0 .. m
        BY <1>1 DEF l
      <3> QED
        BY <1>1, <3>1, AncestorOfAncestor
    <2>8. m - 1 = l - k
      BY <1>1, <2>1
    <2>9. Ancestor(b, l - k) \in S
      BY <2>5, <2>6, <2>7, <2>8, Zenon
    <2> QED
      BY <1>1, <2>9
  <1>4. Good = 0 .. l
    <2> HIDE DEF Good
    <2> QED
      BY <1>1, <1>2, <1>3, UpTo
  <1>5. ASSUME NEW n \in 0 .. l
        PROVE  Ancestor(b, n) \in S
    <2>1. PICK k \in 0 .. l : k = l - n
      BY <1>1
    <2>2. k \in Good
      <3> HIDE DEF Good
      <3> QED
        BY <1>4
    <2>3. n = l - k
      BY <1>1, <2>1
    <2> QED
      BY <2>2, <2>3
  <1> QED
    BY <1>5 DEF l

LEMMA AncestorIsBlock ==
  ASSUME NEW b \in Block, NEW n \in 0 .. Len(b)
  PROVE  Ancestor(b, n) \in Block /\ Len(Ancestor(b, n)) = n /\ n \in Number
  <1>1. Rooted(Block)
    BY BlockChainAssumption DEF Rooted
  <1>2. Ancestor(b, n) \in Block
    BY <1>1, AncestorsIn
  <1>3. Len(Ancestor(b, n)) = n
    BY AncestorIsSeq
  <1> QED
    BY <1>2, <1>3 DEF Number

LEMMA ParentIsBlock ==
  ASSUME NEW b \in Block, b # genesisBlock
  PROVE  /\ ParentOf(b) \in Block /\ Len(ParentOf(b)) = Len(b) - 1
         /\ ParentOf(b) = Ancestor(b, Len(b) - 1)
  <1>1. Len(b) \in Nat /\ Len(b) - 1 \in 0 .. Len(b)
    BY BlockIsSeq, GenesisIsFirst
  <1> QED
    BY <1>1, AncestorIsBlock, Zenon DEF ParentOf, Ancestor

\* The common block of two blocks is an ancestor of both.
LEMMA CommonIsAncestor ==
  ASSUME NEW old \in Block, NEW new \in Block
  PROVE  \E n \in Nat :
           /\ n = Len(commonBlock(old, new)) /\ n <= Len(old) /\ n <= Len(new)
           /\ commonBlock(old, new) = Ancestor(old, n)
           /\ commonBlock(old, new) = Ancestor(new, n)
  <1> DEFINE C == {n \in 0 .. Len(old) :
                    n <= Len(new) /\ Ancestor(old, n) = Ancestor(new, n)}
             k == Max(C)
  <1>1. Len(old) \in Nat /\ Len(new) \in Nat
    BY BlockIsSeq
  <1>2. 0 \in C
    BY <1>1, GenesisIsFirst
  <1>3. C \in SUBSET (0 .. Len(old)) /\ C # {}
    BY <1>2
  <1>4. k \in C
    <2> HIDE DEF C
    <2> QED
      BY <1>1, <1>3, GreatestNat, ZenonT(60)
  <1>5. commonBlock(old, new) = Ancestor(old, k)
    BY DEF commonBlock
  <1> HIDE DEF k
  <1>6. Len(Ancestor(old, k)) = k
    BY <1>1, <1>4, AncestorIsSeq
  <1> QED
    BY <1>1, <1>4, <1>5, <1>6

\* The sequence that InSomeOrder makes of a set of transactions.
LEMMA TxsInSeq ==
  ASSUME NEW T \in SUBSET Tx
  PROVE  \E n \in Nat : Len(InSomeOrder(T)) = n /\ InSomeOrder(T) \in [1 .. n -> Tx]
  <1>1. IsFiniteSet(T)
    BY BlockChainAssumption, FS_Subset
  <1>2. PICK n \in Nat : ExistsBijection(1 .. n, T)
    BY <1>1, FS_NatBijection
  <1>3. Cardinality(T) = n
    BY <1>2, FS_CountingElements
  <1>4. \E f \in [1 .. n -> T] : IsInjective(f)
    BY <1>2, Zenon DEF ExistsBijection, Bijection, Injection
  <1>5. InSomeOrder(T) \in [1 .. n -> T]
    BY <1>3, <1>4, Zenon DEF InSomeOrder
  <1>6. PICK s \in [1 .. n -> T] : s = InSomeOrder(T)
    BY <1>5
  <1>7. s \in [1 .. n -> Tx] /\ Len(s) = n
    OBVIOUS
  <1> QED
    BY <1>6, <1>7

----------------------------------------------------------------------------
(* What each write does to the database.                                   *)

LEMMA ApplyTd ==
  ASSUME NEW d \in Database, NEW b \in Block
  PROVE  /\ Apply(d, WriteTd(b)) \in Database
         /\ Apply(d, WriteTd(b)) = [d EXCEPT !.tds = @ \cup {b}]
  BY Zenon DEF Apply, WriteTd, Database

LEMMA ApplyCanonical ==
  ASSUME NEW d \in Database, NEW n \in Number, NEW b \in Block \cup {None}
  PROVE  /\ Apply(d, WriteCanonicalHash(n, b)) \in Database
         /\ Apply(d, WriteCanonicalHash(n, b)) =
              [d EXCEPT !.canonical = [d.canonical EXCEPT ![n] = b]]
  BY DEF Apply, WriteCanonicalHash, Database

LEMMA ApplyHeadBlock ==
  ASSUME NEW d \in Database, NEW b \in Block
  PROVE  /\ Apply(d, WriteHeadBlockHash(b)) \in Database
         /\ Apply(d, WriteHeadBlockHash(b)) = [d EXCEPT !.headBlock = b]
  BY Zenon DEF Apply, WriteHeadBlockHash, Database

LEMMA ApplyHeadHeader ==
  ASSUME NEW d \in Database, NEW b \in Block
  PROVE  /\ Apply(d, WriteHeadHeaderHash(b)) \in Database
         /\ Apply(d, WriteHeadHeaderHash(b)) = [d EXCEPT !.headHeader = b]
  BY Zenon DEF Apply, WriteHeadHeaderHash, Database

LEMMA ApplyHeadFast ==
  ASSUME NEW d \in Database, NEW b \in Block
  PROVE  /\ Apply(d, WriteHeadFastBlockHash(b)) \in Database
         /\ Apply(d, WriteHeadFastBlockHash(b)) = [d EXCEPT !.headFast = b]
  BY Zenon DEF Apply, WriteHeadFastBlockHash, Database

LEMMA ApplyBody ==
  ASSUME NEW d \in Database, NEW b \in Block
  PROVE  /\ Apply(d, WriteBody(b)) \in Database
         /\ Apply(d, WriteBody(b)) = [d EXCEPT !.bodies = @ \cup {b}]
  BY Zenon DEF Apply, WriteBody, Database

LEMMA ApplyHeader ==
  ASSUME NEW d \in Database, NEW b \in Block
  PROVE  /\ Apply(d, WriteHeader(b)) \in Database
         /\ Apply(d, WriteHeader(b)) = [d EXCEPT !.headers = @ \cup {b}]
  BY Zenon DEF Apply, WriteHeader, Database

LEMMA LookupType ==
  ASSUME NEW d \in Database, NEW txs, NEW b \in Block \cup {None}
  PROVE  lookupIn(d, txs, b) \in [Tx -> Block \cup {None}]
  BY DEF lookupIn, Database

LEMMA ApplyTxLookup ==
  ASSUME NEW d \in Database, NEW b \in Block
  PROVE  /\ Apply(d, WriteTxLookupEntries(b)) \in Database
         /\ \E l \in [Tx -> Block \cup {None}] :
              Apply(d, WriteTxLookupEntries(b)) = [d EXCEPT !.lookup = l]
  <1>1. PICK l \in [Tx -> Block \cup {None}] : l = lookupIn(d, Transactions(b), b)
    BY LookupType
  <1> QED
    BY <1>1, Zenon DEF Apply, WriteTxLookupEntries, Database

LEMMA ApplyDeleteTx ==
  ASSUME NEW d \in Database, NEW t \in Tx
  PROVE  /\ Apply(d, DeleteTxLookupEntry(t)) \in Database
         /\ \E l \in [Tx -> Block \cup {None}] :
              Apply(d, DeleteTxLookupEntry(t)) = [d EXCEPT !.lookup = l]
  <1>1. PICK l \in [Tx -> Block \cup {None}] : l = lookupIn(d, {t}, None)
    BY LookupType
  <1> QED
    BY <1>1, Zenon DEF Apply, DeleteTxLookupEntry, Database

\* e is d with the block b and its state.
BatchInto(d, b, e) ==
  /\ e.headers = d.headers \cup {b} /\ e.bodies = d.bodies \cup {b}
  /\ e.states = d.states \cup {b} /\ e.tds = d.tds
  /\ e.canonical = d.canonical
  /\ e.headBlock = d.headBlock /\ e.headHeader = d.headHeader

LEMMA ApplyBatch ==
  ASSUME NEW d \in Database, NEW b \in Block, NEW txs \in SUBSET Tx
  PROVE  /\ Apply(d, WriteBatch(b, txs)) \in Database
         /\ BatchInto(d, b, Apply(d, WriteBatch(b, txs)))
  <1>1. PICK l \in [Tx -> Block \cup {None}] : l = lookupIn(d, txs, b)
    BY LookupType
  <1> QED
    BY <1>1, ZenonT(60) DEF Apply, WriteBatch, Database, BatchInto

----------------------------------------------------------------------------
(* insert and reorg: the database and the heads in memory.                 *)

\* The writes of insert and reorg.
InsertWrite ==
  {WriteCanonicalHash(Len(c), c) : c \in Block} \cup {WriteHeadBlockHash(c) : c \in Block}
  \cup {WriteHeadHeaderHash(c) : c \in Block} \cup {WriteHeadFastBlockHash(c) : c \in Block}
  \cup {WriteTxLookupEntries(c) : c \in Block} \cup {DeleteTxLookupEntry(t) : t \in Tx}

SameBlocks(d, e) ==
  /\ e.headers = d.headers /\ e.bodies = d.bodies
  /\ e.tds = d.tds /\ e.states = d.states

\* They store and delete no block.
LEMMA InsertWriteKeeps ==
  ASSUME NEW d \in Database, NEW w \in InsertWrite
  PROVE  Apply(d, w) \in Database /\ SameBlocks(d, Apply(d, w))
  <1>1. CASE w \in {WriteCanonicalHash(Len(c), c) : c \in Block}
    <2>1. PICK c \in Block : w = WriteCanonicalHash(Len(c), c)
      BY <1>1
    <2>2. Len(c) \in Number
      BY DEF Number
    <2> QED
      BY <2>1, <2>2, ApplyCanonical DEF SameBlocks, Database
  <1>2. CASE w \in {WriteHeadBlockHash(c) : c \in Block}
    BY <1>2, ApplyHeadBlock DEF SameBlocks, Database
  <1>3. CASE w \in {WriteHeadHeaderHash(c) : c \in Block}
    BY <1>3, ApplyHeadHeader DEF SameBlocks, Database
  <1>4. CASE w \in {WriteHeadFastBlockHash(c) : c \in Block}
    BY <1>4, ApplyHeadFast DEF SameBlocks, Database
  <1>5. CASE w \in {WriteTxLookupEntries(c) : c \in Block}
    <2>1. PICK c \in Block : w = WriteTxLookupEntries(c)
      BY <1>5
    <2>2. /\ Apply(d, w) \in Database
          /\ \E l \in [Tx -> Block \cup {None}] : Apply(d, w) = [d EXCEPT !.lookup = l]
      BY <2>1, ApplyTxLookup
    <2> QED
      BY <2>2 DEF SameBlocks, Database
  <1>6. CASE w \in {DeleteTxLookupEntry(t) : t \in Tx}
    <2>1. PICK t \in Tx : w = DeleteTxLookupEntry(t)
      BY <1>6
    <2>2. /\ Apply(d, w) \in Database
          /\ \E l \in [Tx -> Block \cup {None}] : Apply(d, w) = [d EXCEPT !.lookup = l]
      BY <2>1, ApplyDeleteTx, ZenonT(60)
    <2> QED
      BY <2>2 DEF SameBlocks, Database
  <1> QED
    BY <1>1, <1>2, <1>3, <1>4, <1>5, <1>6, Zenon DEF InsertWrite

\* e is d after insert(c), with or without the header and fast heads.
InsertedInto(d, e, c, update) ==
  /\ e \in Database /\ SameBlocks(d, e)
  /\ \A n \in Number : e.canonical[n] = IF n = Len(c) THEN c ELSE d.canonical[n]
  /\ e.headBlock = c
  /\ e.headHeader = IF update THEN c ELSE d.headHeader

LEMMA InsertEffect ==
  ASSUME NEW d \in Database, NEW c \in Block, NEW update \in BOOLEAN
  PROVE  /\ insertWrites(c, update) \in Seq(InsertWrite)
         /\ InsertedInto(d, Written(d, insertWrites(c, update)), c, update)
  <1> DEFINE w1 == WriteCanonicalHash(Len(c), c)
             w2 == WriteHeadBlockHash(c)
             w3 == WriteHeadHeaderHash(c)
             w4 == WriteHeadFastBlockHash(c)
             d2 == Apply(Apply(d, w1), w2)
  <1>1. /\ w1 \in InsertWrite /\ w2 \in InsertWrite
        /\ w3 \in InsertWrite /\ w4 \in InsertWrite
    BY Zenon DEF InsertWrite
  <1>2. Len(c) \in Number
    BY DEF Number
  <1>3. InsertedInto(d, d2, c, FALSE)
    <2>1. PICK d1 \in Database :
            d1 = Apply(d, w1) /\ d1 = [d EXCEPT !.canonical = [d.canonical EXCEPT ![Len(c)] = c]]
      BY <1>2, ApplyCanonical
    <2>2. d2 \in Database /\ d2 = [d1 EXCEPT !.headBlock = c]
      BY <2>1, ApplyHeadBlock, Zenon
    <2> HIDE DEF d2, w1
    <2> QED
      BY <1>2, <2>1, <2>2 DEF InsertedInto, SameBlocks, Database
  <1>4. InsertedInto(d, Apply(Apply(d2, w3), w4), c, TRUE)
    <2>1. PICK d0 \in Database : d0 = d2
      BY <1>3 DEF InsertedInto
    <2>2. PICK d3 \in Database : d3 = Apply(d2, w3) /\ d3 = [d0 EXCEPT !.headHeader = c]
      BY <2>1, ApplyHeadHeader
    <2>3. PICK d4 \in Database : d4 = Apply(d3, w4) /\ d4 = [d3 EXCEPT !.headFast = c]
      BY ApplyHeadFast
    <2> HIDE DEF d2, w3, w4
    <2>4. /\ SameBlocks(d0, d4) /\ d4.canonical = d0.canonical
          /\ d4.headBlock = d0.headBlock /\ d4.headHeader = c
      BY <2>2, <2>3, ZenonT(60) DEF SameBlocks, Database
    <2>5. InsertedInto(d, d4, c, TRUE)
      BY <1>3, <2>1, <2>4 DEF InsertedInto, SameBlocks
    <2> QED
      BY <2>2, <2>3, <2>5, Zenon
  <1>5. Written(d, <<w1, w2>>) = d2 /\ Written(d2, <<w3, w4>>) = Apply(Apply(d2, w3), w4)
    <2> HIDE DEF w1, w2, w3, w4
    <2> QED
      BY WrittenTwo
  <1>6. <<w1, w2>> \in Seq(InsertWrite) /\ <<w3, w4>> \in Seq(InsertWrite)
    <2> HIDE DEF w1, w2, w3, w4
    <2> QED
      BY <1>1
  <1>7. insertWrites(c, update) = IF update THEN <<w1, w2>> \o <<w3, w4>> ELSE <<w1, w2>>
    <2>1. <<w1, w2>> \o << >> = <<w1, w2>>
      BY <1>6, ConcatEmptySeq, Zenon
    <2> QED
      BY <2>1, Zenon DEF insertWrites
  <1> HIDE DEF w1, w2, w3, w4, d2
  <1>8. /\ <<w1, w2>> \o <<w3, w4>> \in Seq(InsertWrite)
        /\ Written(d, <<w1, w2>> \o <<w3, w4>>) = Written(d2, <<w3, w4>>)
    <2>1. Written(d, <<w1, w2>> \o <<w3, w4>>) = Written(Written(d, <<w1, w2>>), <<w3, w4>>)
      <3>1. PICK s \in Seq(InsertWrite), t \in Seq(InsertWrite) :
              s = <<w1, w2>> /\ t = <<w3, w4>>
        BY <1>6, Zenon
      <3>2. Written(d, s \o t) = Written(Written(d, s), t)
        BY WrittenConcat
      <3> QED
        BY <3>1, <3>2, Zenon
    <2> QED
      BY <1>5, <1>6, <2>1, ConcatProperties
  <1>9. CASE update
    BY <1>4, <1>5, <1>7, <1>8, <1>9, Zenon
  <1>10. CASE ~update
    BY <1>3, <1>5, <1>6, <1>7, <1>10, Zenon
  <1> QED
    BY <1>9, <1>10

\* In reorg the transactions of the block are looked up in it after that.
LEMMA InsertAndLookUp ==
  ASSUME NEW d \in Database, NEW c \in Block, NEW update \in BOOLEAN
  PROVE  /\ insertWrites(c, update) \o <<WriteTxLookupEntries(c)>> \in Seq(InsertWrite)
         /\ InsertedInto(d, Written(d, insertWrites(c, update)
                                       \o <<WriteTxLookupEntries(c)>>), c, update)
  <1> DEFINE w == WriteTxLookupEntries(c)
             ws == insertWrites(c, update)
             e == Written(d, ws)
  <1>1. ws \in Seq(InsertWrite) /\ InsertedInto(d, e, c, update)
    BY InsertEffect
  <1>2. w \in InsertWrite
    BY Zenon DEF InsertWrite
  <1>3. e \in Database
    BY <1>1 DEF InsertedInto
  <1>4. PICK f \in Database :
          f = Apply(e, w) /\ \E l \in [Tx -> Block \cup {None}] : f = [e EXCEPT !.lookup = l]
    BY <1>3, ApplyTxLookup
  <1> HIDE DEF w, ws, e
  <1>5. InsertedInto(d, f, c, update)
    <2>1. /\ SameBlocks(e, f) /\ f.canonical = e.canonical
          /\ f.headBlock = e.headBlock /\ f.headHeader = e.headHeader
      BY <1>3, <1>4 DEF SameBlocks, Database
    <2> QED
      BY <1>1, <2>1 DEF InsertedInto, SameBlocks
  <1>6. <<w>> \in Seq(InsertWrite)
    BY <1>2
  <1>7. Written(d, ws \o <<w>>) = f
    <2>1. Written(d, ws \o <<w>>) = Written(Written(d, ws), <<w>>)
      <3>1. PICK t \in Seq(InsertWrite) : t = <<w>>
        BY <1>6, Zenon
      <3>2. Written(d, ws \o t) = Written(Written(d, ws), t)
        BY <1>1, WrittenConcat
      <3> QED
        BY <3>1, <3>2, Zenon
    <2> QED
      BY <1>4, <2>1, WrittenOne DEF e
  <1>8. ws \o <<w>> \in Seq(InsertWrite)
    BY <1>1, <1>6, ConcatProperties
  <1> QED
    BY <1>5, <1>7, <1>8 DEF w, ws

\* Heads in memory that are blocks of S.
HeadsIn(S) == [currentBlock : S, currentHeader : S, currentFastBlock : S]

Call == [block : Block, update : BOOLEAN]

LEMMA CallHeads ==
  ASSUME NEW S \in SUBSET Block, NEW m \in HeadsIn(S), NEW call \in Call, call.block \in S
  PROVE  /\ insertCall(m, call) \in HeadsIn(S)
         /\ insertCall(m, call).currentBlock = call.block
         /\ insertCall(m, call).currentHeader =
              IF call.update THEN call.block ELSE m.currentHeader
  BY DEF insertCall, insertHeads, HeadsIn, Call

\* The calls of insert in reorg: the new chain, the newest block first.
LEMMA ReorgCalls ==
  ASSUME NEW d \in Database, NEW m, m.currentBlock \in Block, NEW b \in Block,
         NEW coin \in BOOLEAN, reorgs(m, b, coin)
  PROVE  \E n \in Nat :
           /\ n = Len(b) - Len(commonBlock(m.currentBlock, b)) /\ n <= Len(b)
           /\ reorgInserts(d, m, b, coin) \in [1 .. n -> Call]
           /\ Len(reorgInserts(d, m, b, coin)) = n
           /\ \A i \in 1 .. n :
                reorgInserts(d, m, b, coin)[i].block = Ancestor(b, Len(b) - i + 1)
  <1> DEFINE old == m.currentBlock
             chain == newChain(old, b)
             calls == reorgInserts(d, m, b, coin)
  <1>1. PICK c \in Nat : c = Len(commonBlock(old, b)) /\ c <= Len(b)
    BY CommonIsAncestor
  <1>2. Len(b) \in Nat
    BY BlockIsSeq
  <1>3. PICK n \in Nat : n = Len(b) - c
    BY <1>1, <1>2
  <1>4. chain = [i \in 1 .. n |-> Ancestor(b, Len(b) - i + 1)]
    BY <1>1, <1>3 DEF newChain, Back
  <1>5. \A i \in 1 .. n : Ancestor(b, Len(b) - i + 1) \in Block
    <2>1. \A i \in 1 .. n : Len(b) - i + 1 \in 0 .. Len(b)
      BY <1>2, <1>3
    <2> QED
      BY <2>1, AncestorIsBlock
  <1>6. calls = [i \in DOMAIN chain |->
                   [block |-> chain[i], update |-> d.canonical[Len(chain[i])] # chain[i]]]
    BY DEF reorgInserts
  <1> HIDE DEF chain
  <1>7. DOMAIN chain = 1 .. n /\ \A i \in 1 .. n : chain[i] \in Block
    BY <1>4, <1>5, SMTT(30)
  <1>8. ASSUME NEW i \in 1 .. n
        PROVE  calls[i] \in Call /\ calls[i].block = chain[i]
    <2>1. PICK u \in BOOLEAN : u = (d.canonical[Len(chain[i])] # chain[i])
      BY Zenon
    <2>2. calls[i] = [block |-> chain[i], update |-> u]
      BY <1>6, <1>7, <2>1
    <2> QED
      BY <1>7, <2>2 DEF Call
  <1> HIDE DEF calls
  <1>9. calls \in [1 .. n -> Call]
    <2>1. calls = [i \in 1 .. n |-> calls[i]]
      BY <1>6, <1>7
    <2> QED
      BY <1>8, <2>1
  <1>10. Len(calls) = n /\ \A i \in 1 .. n : calls[i].block = Ancestor(b, Len(b) - i + 1)
    BY <1>4, <1>8, <1>9
  <1> QED
    <2>1. n = Len(b) - Len(commonBlock(old, b)) /\ n <= Len(b)
      BY <1>1, <1>2, <1>3
    <2> QED
      BY <1>9, <1>10, <2>1, Zenon DEF calls

\* After the first k of them: e is the database and h the heads in memory.
Midway(d, m, b, S, e, h, k) ==
  /\ e \in Database /\ SameBlocks(d, e) /\ h \in HeadsIn(S)
  /\ d.headHeader = m.currentHeader => e.headHeader = h.currentHeader
  /\ \A n \in Number :
       e.canonical[n] = IF n > Len(b) - k /\ n <= Len(b) THEN Ancestor(b, n) ELSE d.canonical[n]

LEMMA MidwayStep ==
  ASSUME NEW d, NEW m, NEW b \in Block, NEW S \in SUBSET Block, NEW e, NEW h,
         NEW k \in 1 .. Len(b), Midway(d, m, b, S, e, h, k - 1),
         NEW call \in Call, call.block = Ancestor(b, Len(b) - k + 1), call.block \in S,
         NEW f, InsertedInto(e, f, call.block, call.update)
  PROVE  Midway(d, m, b, S, f, insertCall(h, call), k)
  <1>0. Len(b) \in Nat
    BY BlockIsSeq
  <1> PICK j \in Nat : j = Len(b) - k + 1
    BY <1>0
  <1>1. Len(b) \in Nat /\ j \in 0 .. Len(b)
    BY <1>0
  <1>2. call.block = Ancestor(b, j) /\ Len(call.block) = j
    BY <1>1, AncestorIsBlock, ZenonT(60)
  <1>3. h \in HeadsIn(S)
    BY DEF Midway
  <1>4. PICK g : g = insertCall(h, call)
    OBVIOUS
  <1>5. /\ g \in HeadsIn(S)
        /\ g.currentHeader = IF call.update THEN call.block ELSE h.currentHeader
    BY <1>3, <1>4, CallHeads
  <1>6. f \in Database /\ SameBlocks(d, f)
    BY DEF Midway, InsertedInto, SameBlocks
  <1>7. d.headHeader = m.currentHeader => f.headHeader = g.currentHeader
    BY <1>5 DEF Midway, InsertedInto
  <1>8. ASSUME NEW n \in Number
        PROVE  f.canonical[n] = IF n > Len(b) - k /\ n <= Len(b) THEN Ancestor(b, n)
                                ELSE d.canonical[n]
    <2>1. n \in Nat
      BY BlockIsSeq DEF Number
    <2>2. f.canonical[n] = IF n = j THEN Ancestor(b, j) ELSE e.canonical[n]
      BY <1>2 DEF InsertedInto
    <2>3. e.canonical[n] = IF n > Len(b) - (k - 1) /\ n <= Len(b) THEN Ancestor(b, n)
                           ELSE d.canonical[n]
      BY DEF Midway
    <2> QED
      BY <1>1, <2>1, <2>2, <2>3
  <1> QED
    BY <1>4, <1>5, <1>6, <1>7, <1>8 DEF Midway

LEMMA InsertedPrefix ==
  ASSUME NEW m, NEW calls \in Seq(Call)
  PROVE  /\ Inserted(m, SubSeq(calls, 1, 0)) = m
         /\ \A k \in 1 .. Len(calls) :
              Inserted(m, SubSeq(calls, 1, k)) =
                insertCall(Inserted(m, SubSeq(calls, 1, k - 1)), calls[k])
  <1>1. Inserted(m, SubSeq(calls, 1, 0)) = m
    <2>1. SubSeq(calls, 1, 0) = << >>
      BY SubSeqEmpty
    <2> QED
      BY <2>1, InsertedEmpty, Zenon
  <1>2. ASSUME NEW k \in 1 .. Len(calls)
        PROVE  Inserted(m, SubSeq(calls, 1, k)) =
                 insertCall(Inserted(m, SubSeq(calls, 1, k - 1)), calls[k])
    <2> DEFINE u == SubSeq(calls, 1, k - 1)
    <2>1. u \in Seq(Call) /\ calls[k] \in Call /\ SubSeq(calls, 1, k) = Append(u, calls[k])
      OBVIOUS
    <2> HIDE DEF u
    <2>2. Inserted(m, Append(u, calls[k])) = insertCall(Inserted(m, u), calls[k])
      BY <2>1, InsertedAppend
    <2> QED
      BY <2>1, <2>2, ZenonT(60) DEF u
  <1> QED
    BY <1>1, <1>2

\* The deletions that end reorg change only lookup entries.
SameChain(d, e) ==
  /\ e \in Database /\ SameBlocks(d, e) /\ e.canonical = d.canonical
  /\ e.headBlock = d.headBlock /\ e.headHeader = d.headHeader

LEMMA DeletionsEffect ==
  ASSUME NEW d \in Database, NEW T \in SUBSET Tx
  PROVE  LET gone == InSomeOrder(T)
             ws == [i \in DOMAIN gone |-> DeleteTxLookupEntry(gone[i])]
         IN  ws \in Seq(InsertWrite) /\ SameChain(d, Written(d, ws))
  <1> DEFINE gone == InSomeOrder(T)
             ws == [i \in DOMAIN gone |-> DeleteTxLookupEntry(gone[i])]
             D == {DeleteTxLookupEntry(t) : t \in Tx}
             G == {e \in Database : SameChain(d, e)}
  <1>1. PICK n \in Nat : gone \in [1 .. n -> Tx]
    BY TxsInSeq
  <1> HIDE DEF gone
  <1>2. ws \in [1 .. n -> D]
    BY <1>1
  <1> HIDE DEF ws
  <1>3. ws \in Seq(D)
    BY <1>2, SeqDef
  <1>4. ASSUME NEW e \in G, NEW w \in D
        PROVE  Apply(e, w) \in G
    <2>1. PICK t \in Tx : w = DeleteTxLookupEntry(t)
      BY <1>4
    <2>2. e \in Database /\ SameChain(d, e)
      BY <1>4
    <2>3. PICK f \in Database :
            f = Apply(e, w) /\ \E l \in [Tx -> Block \cup {None}] : f = [e EXCEPT !.lookup = l]
      BY <2>1, <2>2, ApplyDeleteTx, ZenonT(60)
    <2>4. SameChain(e, f)
      BY <2>2, <2>3 DEF SameChain, SameBlocks, Database
    <2>5. SameChain(d, f)
      BY <2>2, <2>4 DEF SameChain, SameBlocks
    <2> QED
      BY <2>3, <2>5
  <1>5. d \in G
    BY DEF SameChain, SameBlocks
  <1>6. Closed(G, D)
    BY <1>4, Zenon DEF Closed
  <1>7. Written(d, ws) \in G
    <2> HIDE DEF G, D
    <2> QED
      BY <1>3, <1>5, <1>6, StaysIn
  <1>8. D \subseteq InsertWrite
    BY DEF InsertWrite
  <1>9. ws \in Seq(InsertWrite)
    <2> HIDE DEF D
    <2> QED
      BY <1>3, <1>8, SeqMonotonic
  <1>10. SameChain(d, Written(d, ws))
    BY <1>7
  <1> QED
    BY <1>9, <1>10 DEF ws, gone

\* reorg as a whole.
LEMMA ReorgEffect ==
  ASSUME NEW d \in Database, NEW d0 \in Database, NEW S \in SUBSET Block,
         NEW m \in HeadsIn(S), NEW b \in Block, \A n \in 0 .. Len(b) : Ancestor(b, n) \in S,
         NEW coin \in BOOLEAN, reorgs(m, b, coin)
  PROVE  /\ reorgWrites(d0, m, b, coin) \in Seq(InsertWrite)
         /\ reorgInserts(d0, m, b, coin) \in Seq(Call)
         /\ Midway(d, m, b, S, Written(d, reorgWrites(d0, m, b, coin)),
                   Inserted(m, reorgInserts(d0, m, b, coin)),
                   Len(b) - Len(commonBlock(m.currentBlock, b)))
  <1> DEFINE calls == reorgInserts(d0, m, b, coin)
             common == Len(commonBlock(m.currentBlock, b))
             diff == TxDifference(txsOf(Back(m.currentBlock, common)), txsOf(Back(b, common)))
             ss == [i \in DOMAIN calls |-> insertWrites(calls[i].block, calls[i].update)
                                           \o <<WriteTxLookupEntries(calls[i].block)>>]
             gone == InSomeOrder(diff)
             ws == [i \in DOMAIN gone |-> DeleteTxLookupEntry(gone[i])]
  <1>0. m.currentBlock \in Block
    BY DEF HeadsIn
  <1>1. PICK n \in Nat :
          /\ n = Len(b) - common /\ n <= Len(b)
          /\ calls \in [1 .. n -> Call] /\ Len(calls) = n
          /\ \A i \in 1 .. n : calls[i].block = Ancestor(b, Len(b) - i + 1)
    BY <1>0, ReorgCalls
  <1>2. reorgWrites(d0, m, b, coin) = Joined(ss) \o ws
    BY Zenon DEF reorgWrites
  <1>3. ws \in Seq(InsertWrite) /\ \A e \in Database : SameChain(e, Written(e, ws))
    <2>1. diff \in SUBSET Tx
      <3>1. PICK c \in Nat : c = common /\ c <= Len(m.currentBlock) /\ c <= Len(b)
        BY <1>0, CommonIsAncestor, Zenon
      <3>2. \A i \in DOMAIN Back(m.currentBlock, common) : Back(m.currentBlock, common)[i] \in Block
        <4>1. Len(m.currentBlock) \in Nat
          BY <1>0, BlockIsSeq
        <4>2. \A i \in 1 .. Len(m.currentBlock) - c :
                Len(m.currentBlock) - i + 1 \in 0 .. Len(m.currentBlock)
          BY <4>1
        <4> QED
          BY <1>0, <3>1, <4>2, AncestorIsBlock, Zenon DEF Back
      <3>3. txsOf(Back(m.currentBlock, common)) \in SUBSET Tx
        BY <3>2, BlockChainAssumption DEF txsOf
      <3> QED
        BY <3>3 DEF TxDifference
    <2> HIDE DEF diff
    <2> QED
      BY <2>1, DeletionsEffect
  <1> HIDE DEF calls, common, ws
  <1>4. Pieces(InsertWrite, n, ss)
    <2>1. DOMAIN calls = 1 .. n
      BY <1>1
    <2>2. \A i \in 1 .. n : calls[i].block \in Block /\ calls[i].update \in BOOLEAN
      BY <1>1 DEF Call
    <2>3. ASSUME NEW i \in 1 .. n
          PROVE  ss[i] \in Seq(InsertWrite)
      <3>1. PICK c \in Block, u \in BOOLEAN : c = calls[i].block /\ u = calls[i].update
        BY <2>2
      <3>2. insertWrites(c, u) \o <<WriteTxLookupEntries(c)>> \in Seq(InsertWrite)
        BY InsertAndLookUp, ZenonT(60)
      <3> QED
        BY <2>1, <3>1, <3>2
    <2>4. Len(ss) = n /\ (n = 0 => ss = << >>)
      <3> DEFINE x(i) == insertWrites(calls[i].block, calls[i].update)
                         \o <<WriteTxLookupEntries(calls[i].block)>>
      <3>1. ss = [i \in 1 .. n |-> x(i)]
        BY <2>1
      <3> HIDE DEF x, ss
      <3>2. ss \in [1 .. n -> {x(i) : i \in 1 .. n}]
        BY <3>1
      <3> QED
        BY <3>2, SeqDef, EmptySeq
    <2> HIDE DEF ss
    <2> QED
      BY <2>3, <2>4 DEF Pieces
  <1>5. PICK e : Through(d, n, ss, e) /\ e[n] = Written(d, Joined(ss))
    <2> HIDE DEF ss
    <2> QED
      BY <1>4, WrittenJoin, Zenon
  <1>6. Joined(ss) \in Seq(InsertWrite)
    <2> HIDE DEF ss
    <2> QED
      BY <1>4, WrittenJoin, Zenon
  <1>7. calls \in Seq(Call)
    BY <1>1, SeqDef
  <1> DEFINE h(k) == Inserted(m, SubSeq(calls, 1, k))
             Good == {k \in 0 .. n : Midway(d, m, b, S, e[k], h(k), k)}
  <1>8. h(0) = m /\ \A k \in 1 .. n : h(k) = insertCall(h(k - 1), calls[k])
    BY <1>1, <1>7, InsertedPrefix, ZenonT(60)
  <1>9. h(n) = Inserted(m, calls)
    <2>1. SubSeq(calls, 1, Len(calls)) = calls
      BY <1>7, SubSeqFull
    <2> QED
      BY <1>1, <2>1, Zenon
  <1> HIDE DEF h
  <1>10. 0 \in Good
    <2>1. \A j \in Number : j \in Nat
      BY BlockIsSeq DEF Number
    <2>2. Len(b) \in Nat
      BY BlockIsSeq
    <2>3. Midway(d, m, b, S, d, m, 0)
      BY <2>1, <2>2 DEF Midway, SameBlocks
    <2> QED
      BY <1>5, <1>8, <2>3 DEF Through
  <1>11. ASSUME NEW k \in 1 .. n, k - 1 \in Good
         PROVE  k \in Good
    <2>1. PICK p \in 0 .. n : p = k - 1
      OBVIOUS
    <2>2. Midway(d, m, b, S, e[p], h(p), p)
      BY <1>11, <2>1
    <2>3. PICK call \in Call : call = calls[k]
      BY <1>1
    <2>4. call.block = Ancestor(b, Len(b) - k + 1) /\ call.block \in S
      <3>1. Len(b) \in Nat
        BY BlockIsSeq
      <3>2. Len(b) - k + 1 \in 0 .. Len(b)
        BY <1>1, <3>1
      <3> QED
        BY <1>1, <2>3, <3>2
    <2>5. e[p] \in Database /\ call.block \in Block /\ call.update \in BOOLEAN
      BY <2>2 DEF Midway, Call
    <2>6. e[k] = Written(e[p], insertWrites(call.block, call.update)
                               \o <<WriteTxLookupEntries(call.block)>>)
      <3>1. e[k] = Written(e[p], ss[k])
        BY <1>5, <2>1, ZenonT(60) DEF Through
      <3>2. ss[k] = insertWrites(calls[k].block, calls[k].update)
                    \o <<WriteTxLookupEntries(calls[k].block)>>
        BY <1>1
      <3> QED
        BY <2>3, <3>1, <3>2, Zenon
    <2>7. InsertedInto(e[p], e[k], call.block, call.update)
      BY <2>5, <2>6, InsertAndLookUp
    <2>8. h(k) = insertCall(h(p), call)
      BY <1>8, <2>1, <2>3
    <2>9. k \in 1 .. Len(b)
      BY <1>1, BlockIsSeq
    <2>10. Midway(d, m, b, S, e[k], h(k), k)
      BY <2>1, <2>2, <2>4, <2>7, <2>8, <2>9, MidwayStep
    <2> QED
      BY <2>10
  <1>12. n \in Good
    <2>1. Good \in SUBSET (0 .. n)
      OBVIOUS
    <2> HIDE DEF Good
    <2>2. Good = 0 .. n
      BY <1>10, <1>11, <2>1, UpTo
    <2> QED
      BY <2>2
  <1>13. Midway(d, m, b, S, Written(d, Joined(ss)), Inserted(m, calls), n)
    BY <1>5, <1>9, <1>12
  <1> HIDE DEF ss
  <1>14. Written(d, Joined(ss) \o ws) = Written(Written(d, Joined(ss)), ws)
    BY <1>3, <1>6, WrittenConcat
  <1>15. Midway(d, m, b, S, Written(d, Joined(ss) \o ws), Inserted(m, calls), n)
    <2>1. PICK x \in Database : x = Written(d, Joined(ss))
      BY <1>13 DEF Midway
    <2>2. SameChain(x, Written(x, ws))
      BY <1>3
    <2>3. PICK y : y = Written(x, ws)
      OBVIOUS
    <2>4. Midway(d, m, b, S, y, Inserted(m, calls), n)
      BY <1>13, <2>1, <2>2, <2>3 DEF Midway, SameChain, SameBlocks
    <2> QED
      BY <1>14, <2>1, <2>3, <2>4, SMTT(30)
  <1>16. Joined(ss) \o ws \in Seq(InsertWrite)
    BY <1>3, <1>6, ConcatProperties
  <1> QED
    BY <1>1, <1>2, <1>7, <1>15, <1>16 DEF calls, common

----------------------------------------------------------------------------
(* WriteBlockAndState.                                                     *)

\* The writes of one call of insert.
LEMMA WritesOfOne ==
  ASSUME NEW call \in Call
  PROVE  writesOf(<<call>>) = insertWrites(call.block, call.update)
  <1> DEFINE x == insertWrites(call.block, call.update)
             calls == <<call>>
             ss == [i \in DOMAIN calls |-> insertWrites(calls[i].block, calls[i].update)]
  <1>1. PICK d \in Database : TRUE
    <2> DEFINE r == [headers |-> {}, bodies |-> {}, tds |-> {}, states |-> {},
                     canonical |-> [n \in Number |-> None], lookup |-> [t \in Tx |-> None],
                     headBlock |-> genesisBlock, headHeader |-> genesisBlock,
                     headFast |-> None]
    <2>1. r \in Database
      BY BlockChainAssumption DEF Database
    <2> HIDE DEF r
    <2> QED
      BY <2>1
  <1>2. x \in Seq(InsertWrite)
    BY <1>1, InsertEffect DEF Call
  <1>3. ss = <<x>>
    <2>1. calls \in Seq(Call) /\ Len(calls) = 1 /\ calls[1] = call /\ DOMAIN calls = 1 .. 1
      OBVIOUS
    <2> HIDE DEF calls
    <2>2. ss = [i \in 1 .. 1 |-> x]
      BY <2>1
    <2> HIDE DEF ss, x
    <2> QED
      BY <2>2
  <1> HIDE DEF x, ss
  <1>4. Pieces(InsertWrite, 1, ss) /\ ss[1] = x
    BY <1>2, <1>3 DEF Pieces
  <1>5. PICK g \in [0 .. 1 -> Seq(InsertWrite)] : JoinedBy(1, ss, g, 1)
    BY <1>4, JoinUpTo, Zenon
  <1>6. Joined(ss) = g[1]
    BY <1>4, <1>5, JoinedIs, Zenon
  <1>7. g[0] = << >> /\ g[1] = g[1 - 1] \o ss[1]
    BY <1>5 DEF JoinedBy
  <1>8. 1 - 1 = 0
    OBVIOUS
  <1>9. g[1] = << >> \o x
    BY <1>4, <1>7, <1>8, Zenon
  <1>10. Joined(ss) = x
    BY <1>2, <1>6, <1>9, ConcatEmptySeq
  <1> QED
    BY <1>10 DEF writesOf, x, ss

\* The last call of insert, for a block that becomes the head.
LEMMA LastInsertEffect ==
  ASSUME NEW d0 \in Database, NEW m, NEW b \in Block, NEW coin \in BOOLEAN
  PROVE  \/ /\ ~wins(b, m.currentBlock, coin)
            /\ lastInsert(d0, m, b, coin) = << >>
            /\ writesOf(lastInsert(d0, m, b, coin)) = << >>
         \/ /\ wins(b, m.currentBlock, coin)
            /\ \E call \in Call :
                 /\ call.block = b
                 /\ lastInsert(d0, m, b, coin) = <<call>>
                 /\ writesOf(lastInsert(d0, m, b, coin)) = insertWrites(b, call.update)
  <1>1. CASE ~wins(b, m.currentBlock, coin)
    <2>1. lastInsert(d0, m, b, coin) = << >>
      BY <1>1 DEF lastInsert
    <2>2. writesOf(<< >>) = << >>
      <3> DEFINE none == << >>
                 ss == [i \in DOMAIN none |-> insertWrites(none[i].block, none[i].update)]
      <3>1. DOMAIN none = 1 .. 0
        OBVIOUS
      <3> HIDE DEF none
      <3>2. ss = << >>
        <4>1. ss \in [1 .. 0 -> {}]
          BY <3>1
        <4> HIDE DEF ss
        <4>2. ss \in Seq({}) /\ Len(ss) = 0
          BY <4>1, SeqDef
        <4> QED
          BY <4>2, EmptySeq
      <3>3. Joined(ss) = ss
        <4> HIDE DEF ss
        <4> QED
          BY <3>2 DEF Joined
      <3>4. Joined(ss) = << >>
        BY <3>2, <3>3
      <3> QED
        BY <3>4 DEF none, writesOf
    <2> QED
      BY <1>1, <2>1, <2>2
  <1>2. CASE wins(b, m.currentBlock, coin)
    <2>1. PICK u \in BOOLEAN : u = (~reorgs(m, b, coin) /\ d0.canonical[Len(b)] # b)
      BY Zenon
    <2>2. PICK call \in Call : call = [block |-> b, update |-> u]
      BY ZenonT(60) DEF Call
    <2>3. lastInsert(d0, m, b, coin) = <<call>>
      BY <1>2, <2>1, <2>2, Zenon DEF lastInsert
    <2>4. call.block = b /\ writesOf(<<call>>) = insertWrites(b, call.update)
      BY <2>2, WritesOfOne
    <2> QED
      BY <1>2, <2>3, <2>4, Zenon
  <1> QED
    BY <1>1, <1>2

\* The writes that WriteBlockAndState makes for b.
BlockWrite(b) ==
  InsertWrite \cup {WriteTd(b)} \cup {WriteBatch(b, txs) : txs \in SUBSET Tx}

\* e and h are the database d and the heads m after WriteBlockAndState of b.
StoredInto(d, m, b, coin, e, h) ==
  LET common == Len(commonBlock(m.currentBlock, b))
      win == wins(b, m.currentBlock, coin)
  IN  /\ e \in Database
      /\ e.headers = d.headers \cup {b} /\ e.bodies = d.bodies \cup {b}
      /\ e.tds = d.tds \cup {b} /\ e.states = d.states \cup {b}
      /\ h \in HeadsIn(d.states \cup {b})
      /\ h.currentBlock = IF win THEN b ELSE m.currentBlock
      /\ d.headBlock = m.currentBlock => e.headBlock = h.currentBlock
      /\ d.headHeader = m.currentHeader => e.headHeader = h.currentHeader
      /\ \A n \in Number :
           e.canonical[n] =
             IF win /\ (n = Len(b) \/ (reorgs(m, b, coin) /\ n > common /\ n <= Len(b)))
             THEN Ancestor(b, n) ELSE d.canonical[n]

\* e and h are d and m after reorg, where it is called.
Reorged(d, m, b, coin, S, e, h) ==
  /\ e \in Database /\ SameBlocks(d, e) /\ h \in HeadsIn(S)
  /\ ~reorgs(m, b, coin) => e = d /\ h = m
  /\ d.headHeader = m.currentHeader => e.headHeader = h.currentHeader
  /\ \A n \in Number :
       e.canonical[n] =
         IF /\ reorgs(m, b, coin)
            /\ n > Len(commonBlock(m.currentBlock, b)) /\ n <= Len(b)
         THEN Ancestor(b, n) ELSE d.canonical[n]

LEMMA ReorgPart ==
  ASSUME NEW d \in Database, NEW d0 \in Database, NEW S \in SUBSET Block,
         NEW m \in HeadsIn(S), NEW b \in Block, \A n \in 0 .. Len(b) : Ancestor(b, n) \in S,
         NEW coin \in BOOLEAN
  PROVE  /\ reorgWrites(d0, m, b, coin) \in Seq(InsertWrite)
         /\ reorgInserts(d0, m, b, coin) \in Seq(Call)
         /\ Reorged(d, m, b, coin, S, Written(d, reorgWrites(d0, m, b, coin)),
                    Inserted(m, reorgInserts(d0, m, b, coin)))
  <1>1. CASE reorgs(m, b, coin)
    <2> DEFINE e == Written(d, reorgWrites(d0, m, b, coin))
               h == Inserted(m, reorgInserts(d0, m, b, coin))
    <2>1. PICK c \in Nat : c = Len(commonBlock(m.currentBlock, b)) /\ c <= Len(b)
      BY CommonIsAncestor DEF HeadsIn
    <2>2. /\ reorgWrites(d0, m, b, coin) \in Seq(InsertWrite)
          /\ reorgInserts(d0, m, b, coin) \in Seq(Call)
          /\ Midway(d, m, b, S, e, h, Len(b) - c)
      BY <1>1, <2>1, ReorgEffect
    <2> HIDE DEF e, h
    <2>3. Len(b) \in Nat /\ \A n \in Number : n \in Nat
      BY BlockIsSeq DEF Number
    <2>4. Reorged(d, m, b, coin, S, e, h)
      BY <1>1, <2>1, <2>2, <2>3 DEF Midway, Reorged
    <2> QED
      BY <2>2, <2>4 DEF e, h
  <1>2. CASE ~reorgs(m, b, coin)
    <2>1. reorgWrites(d0, m, b, coin) = << >> /\ reorgInserts(d0, m, b, coin) = << >>
      BY <1>2, Zenon DEF reorgWrites, reorgInserts
    <2>2. Written(d, << >>) = d /\ Inserted(m, << >>) = m
      BY WrittenEmpty, InsertedEmpty
    <2>3. Reorged(d, m, b, coin, S, d, m)
      BY <1>2 DEF Reorged, SameBlocks
    <2> QED
      BY <2>1, <2>2, <2>3, EmptySeq
  <1> QED
    BY <1>1, <1>2

\* The writes after reorg: the block, and the last call of insert.
LEMMA StorePart ==
  ASSUME NEW d \in Database, NEW b \in Block, NEW coin \in BOOLEAN,
         NEW m \in HeadsIn(d.states),
         NEW d1, d1 = [d EXCEPT !.tds = @ \cup {b}],
         NEW d2, NEW h2, Reorged(d1, m, b, coin, d.states \cup {b}, d2, h2),
         NEW txs \in SUBSET Tx, NEW d3, d3 = Apply(d2, WriteBatch(b, txs)),
         NEW e, NEW h,
         \/ ~wins(b, m.currentBlock, coin) /\ e = d3 /\ h = h2
         \/ /\ wins(b, m.currentBlock, coin)
            /\ \E call \in Call : /\ call.block = b /\ h = insertCall(h2, call)
                                  /\ InsertedInto(d3, e, b, call.update)
  PROVE  StoredInto(d, m, b, coin, e, h)
  <1> DEFINE S == d.states \cup {b}
             win == wins(b, m.currentBlock, coin)
             moved(n) == /\ reorgs(m, b, coin)
                         /\ n > Len(commonBlock(m.currentBlock, b)) /\ n <= Len(b)
  <1>2. /\ d1.headers = d.headers /\ d1.bodies = d.bodies /\ d1.states = d.states
        /\ d1.tds = d.tds \cup {b} /\ d1.canonical = d.canonical
        /\ d1.headBlock = d.headBlock /\ d1.headHeader = d.headHeader
    BY DEF Database
  <1>3. d2 \in Database /\ SameBlocks(d1, d2) /\ h2 \in HeadsIn(S)
    BY DEF Reorged
  <1>4. /\ d3 \in Database
        /\ d3.headers = d2.headers \cup {b} /\ d3.bodies = d2.bodies \cup {b}
        /\ d3.states = d2.states \cup {b} /\ d3.tds = d2.tds
        /\ d3.canonical = d2.canonical
        /\ d3.headBlock = d2.headBlock /\ d3.headHeader = d2.headHeader
    BY <1>3, ApplyBatch DEF BatchInto
  <1>5. /\ d3.headers = d.headers \cup {b} /\ d3.bodies = d.bodies \cup {b}
        /\ d3.tds = d.tds \cup {b} /\ d3.states = d.states \cup {b}
    BY <1>2, <1>3, <1>4 DEF SameBlocks
  <1>6. d.headHeader = m.currentHeader => d3.headHeader = h2.currentHeader
    BY <1>2, <1>4 DEF Reorged
  <1>7. \A n \in Number :
          d3.canonical[n] = IF moved(n) THEN Ancestor(b, n) ELSE d.canonical[n]
    BY <1>2, <1>4 DEF Reorged
  <1>8. CASE ~win
    <2>1. ~reorgs(m, b, coin) /\ e = d3 /\ h = m /\ h2 = m /\ d2 = d1
      BY <1>8 DEF Reorged, reorgs
    <2>2. h \in HeadsIn(S) /\ h.currentBlock = m.currentBlock
      BY <1>3, <2>1
    <2>3. d.headBlock = m.currentBlock => e.headBlock = h.currentBlock
      BY <1>2, <1>4, <2>1
    <2>4. d.headHeader = m.currentHeader => e.headHeader = h.currentHeader
      BY <1>6, <2>1
    <2>5. \A n \in Number : e.canonical[n] = d.canonical[n]
      BY <1>7, <2>1, SMTT(30)
    <2> QED
      BY <1>4, <1>5, <1>8, <2>1, <2>2, <2>3, <2>4, <2>5, ZenonT(60) DEF StoredInto
  <1>9. CASE win
    <2>1. PICK call \in Call : /\ call.block = b /\ h = insertCall(h2, call)
                               /\ InsertedInto(d3, e, b, call.update)
      BY <1>9
    <2>2. S \in SUBSET Block /\ b \in S
      BY DEF Database
    <2>3. /\ h \in HeadsIn(S) /\ h.currentBlock = b
          /\ h.currentHeader = IF call.update THEN b ELSE h2.currentHeader
      <3> HIDE DEF S
      <3> QED
        BY <1>3, <2>1, <2>2, CallHeads
    <2>4. /\ e \in Database /\ SameBlocks(d3, e) /\ e.headBlock = b
          /\ e.headHeader = IF call.update THEN b ELSE d3.headHeader
          /\ \A n \in Number : e.canonical[n] = IF n = Len(b) THEN b ELSE d3.canonical[n]
      BY <2>1 DEF InsertedInto
    <2>5. d.headHeader = m.currentHeader => e.headHeader = h.currentHeader
      BY <1>6, <2>3, <2>4
    <2>6. ASSUME NEW n \in Number
          PROVE  e.canonical[n] = IF n = Len(b) \/ moved(n) THEN Ancestor(b, n)
                                  ELSE d.canonical[n]
      <3>1. Ancestor(b, Len(b)) = b
        BY BlockIsSeq
      <3> HIDE DEF moved
      <3> QED
        BY <1>7, <2>4, <3>1
    <2>7. /\ e.headers = d.headers \cup {b} /\ e.bodies = d.bodies \cup {b}
          /\ e.tds = d.tds \cup {b} /\ e.states = d.states \cup {b}
      BY <1>5, <2>4 DEF SameBlocks
    <2> QED
      BY <1>9, <2>3, <2>4, <2>5, <2>6, <2>7, Zenon DEF StoredInto
  <1> QED
    BY <1>8, <1>9

LEMMA AncestorsOfNew ==
  ASSUME NEW S \in SUBSET Block, Rooted(S), NEW b \in Block, b # genesisBlock, ParentOf(b) \in S
  PROVE  /\ \A n \in 0 .. Len(b) - 1 : Ancestor(b, n) \in S
         /\ \A n \in 0 .. Len(b) : Ancestor(b, n) \in S \cup {b}
  <1>1. Len(b) \in Nat /\ Ancestor(b, Len(b)) = b
    BY BlockIsSeq
  <1>2. ParentOf(b) = Ancestor(b, Len(b) - 1) /\ Len(ParentOf(b)) = Len(b) - 1 /\ Len(b) # 0
    BY ParentIsBlock, GenesisIsFirst
  <1>3. ASSUME NEW n \in 0 .. Len(b) - 1
        PROVE  Ancestor(b, n) \in S
    <2>1. Ancestor(ParentOf(b), n) \in S
      BY <1>2, AncestorsIn
    <2>2. PICK l \in 0 .. Len(b) : l = Len(b) - 1 /\ n \in 0 .. l
      BY <1>1, <1>2
    <2>3. Ancestor(Ancestor(b, l), n) = Ancestor(b, n)
      BY <2>2, AncestorOfAncestor
    <2> QED
      BY <1>2, <2>1, <2>2, <2>3
  <1>4. ASSUME NEW n \in 0 .. Len(b)
        PROVE  Ancestor(b, n) \in S \cup {b}
    <2>1. CASE n = Len(b)
      BY <1>1, <2>1
    <2>2. CASE n # Len(b)
      <3>1. n \in 0 .. Len(b) - 1
        BY <1>1, <2>2
      <3> QED
        BY <1>3, <3>1
    <2> QED
      BY <2>1, <2>2
  <1> QED
    BY <1>3, <1>4

\* WriteBlockAndState as a whole: the total difficulty, reorg, the batch, insert.
LEMMA BlockEffect ==
  ASSUME NEW d \in Database, NEW b \in Block, NEW coin \in BOOLEAN,
         NEW m \in HeadsIn(d.states), Rooted(d.states),
         b # genesisBlock, ParentOf(b) \in d.states, ~refused(d, m, b, coin)
  PROVE  /\ \E rest \in Seq(BlockWrite(b)) :
              blockWrites(d, m, b, coin) = <<WriteTd(b)>> \o rest
         /\ StoredInto(d, m, b, coin, Written(d, blockWrites(d, m, b, coin)),
                       blockHeads(d, m, b, coin))
  <1> DEFINE S == d.states \cup {b}
             W == BlockWrite(b)
             T == <<WriteTd(b)>>
             R == reorgWrites(d, m, b, coin)
             B == <<batchOf(m, b, coin)>>
             last == lastInsert(d, m, b, coin)
             L == writesOf(last)
             C == reorgInserts(d, m, b, coin)
             d1 == Apply(d, WriteTd(b))
             d2 == Written(d1, R)
             h2 == Inserted(m, C)
             d3 == Apply(d2, batchOf(m, b, coin))
  <1>1. S \in SUBSET Block /\ m \in HeadsIn(S) /\ d.states \in SUBSET Block
    BY DEF Database, HeadsIn
  <1>2. \A n \in 0 .. Len(b) : Ancestor(b, n) \in S
    BY <1>1, AncestorsOfNew
  <1>3. d1 \in Database /\ d1 = [d EXCEPT !.tds = @ \cup {b}]
    BY ApplyTd
  <1>4. /\ R \in Seq(InsertWrite) /\ C \in Seq(Call)
        /\ Reorged(d1, m, b, coin, S, d2, h2)
    <2> HIDE DEF S, d1
    <2> QED
      BY <1>1, <1>2, <1>3, ReorgPart
  <1>5. PICK txs \in SUBSET Tx : batchOf(m, b, coin) = WriteBatch(b, txs)
    <2>1. Transactions(b) \in SUBSET Tx
      BY BlockChainAssumption
    <2> QED
      BY <2>1 DEF batchOf
  <1>6. d3 \in Database
    <2>1. d2 \in Database
      BY <1>4, ZenonT(60) DEF Reorged
    <2> HIDE DEF d2
    <2> QED
      BY SMTT(30), <1>5, <2>1, ApplyBatch
  <1>7. \/ ~wins(b, m.currentBlock, coin) /\ last = << >> /\ L = << >>
        \/ /\ wins(b, m.currentBlock, coin)
           /\ \E call \in Call : /\ call.block = b /\ last = <<call>>
                                 /\ L = insertWrites(b, call.update)
    BY SMTT(30), LastInsertEffect
  <1>8. L \in Seq(InsertWrite)
    BY <1>6, <1>7, InsertEffect, EmptySeq, ZenonT(60) DEF Call
  <1>9. blockWrites(d, m, b, coin) = ((T \o R) \o B) \o L
    BY Zenon DEF blockWrites
  <1>10. blockHeads(d, m, b, coin) = Inserted(m, C \o last)
    BY Zenon DEF blockHeads, Inserted
  <1>11. InsertWrite \subseteq W /\ WriteTd(b) \in W /\ batchOf(m, b, coin) \in W
    BY <1>5, SMTT(30) DEF BlockWrite
  <1>12. /\ T \in Seq(W) /\ R \in Seq(W) /\ B \in Seq(W) /\ L \in Seq(W)
         /\ T \o R \in Seq(W) /\ (T \o R) \o B \in Seq(W)
    <2>1. R \in Seq(W) /\ L \in Seq(W)
      <3> HIDE DEF R, L, W
      <3> QED
        BY <1>4, <1>8, <1>11, SeqMonotonic, ZenonT(60)
    <2>2. PICK v \in W, w \in W : v = WriteTd(b) /\ w = batchOf(m, b, coin)
      BY <1>11
    <2>3. <<v>> \in Seq(W) /\ <<w>> \in Seq(W)
      OBVIOUS
    <2>4. T \in Seq(W) /\ B \in Seq(W)
      BY <2>2, <2>3, Zenon
    <2> HIDE DEF T, R, B, L, W
    <2>5. T \o R \in Seq(W)
      BY <2>1, <2>4, ConcatProperties
    <2> QED
      BY <2>1, <2>4, <2>5, ConcatProperties, ZenonT(60)
  <1>13. \E rest \in Seq(W) : blockWrites(d, m, b, coin) = T \o rest
    <2> HIDE DEF T, R, B, L, W
    <2>1. (T \o R) \o B = T \o (R \o B) /\ R \o B \in Seq(W)
      BY <1>12, ConcatAssociative, ConcatProperties
    <2>2. (T \o (R \o B)) \o L = T \o ((R \o B) \o L) /\ (R \o B) \o L \in Seq(W)
      <3>1. PICK s \in Seq(W) : s = R \o B
        BY <2>1, Zenon
      <3>0. T \in Seq(W) /\ L \in Seq(W)
        BY <1>12
      <3>2. (T \o s) \o L = T \o (s \o L)
        BY <3>0, ConcatAssociative
      <3>3. s \o L \in Seq(W)
        BY <1>12, ConcatProperties
      <3> QED
        BY <3>1, <3>2, <3>3, Zenon
    <2> QED
      BY <1>9, <2>1, <2>2, Zenon
  <1>14. Written(d, blockWrites(d, m, b, coin)) = Written(d3, L)
    <2>1. Written(d, T) = d1 /\ Written(d2, B) = d3
      BY WrittenOne
    <2> HIDE DEF T, R, B, L, W, d1, d3
    <2>2. Written(d, T \o R) = Written(Written(d, T), R)
      BY <1>12, WrittenConcat
    <2>3. Written(d, (T \o R) \o B) = Written(Written(d, T \o R), B)
      <3>1. PICK s \in Seq(W) : s = T \o R
        BY <1>12, Zenon
      <3>2. Written(d, s \o B) = Written(Written(d, s), B)
        BY <1>12, WrittenConcat
      <3> QED
        BY <3>1, <3>2, Zenon
    <2>4. Written(d, ((T \o R) \o B) \o L) = Written(Written(d, (T \o R) \o B), L)
      <3>1. PICK s \in Seq(W) : s = (T \o R) \o B
        BY <1>12, ZenonT(60)
      <3>2. Written(d, s \o L) = Written(Written(d, s), L)
        BY <1>12, WrittenConcat
      <3> QED
        BY <3>1, <3>2, Zenon
    <2> QED
      BY <1>9, <2>1, <2>2, <2>3, <2>4, Zenon
  <1>15. \/ /\ ~wins(b, m.currentBlock, coin)
            /\ Written(d3, L) = d3 /\ Inserted(m, C \o last) = h2
         \/ /\ wins(b, m.currentBlock, coin)
            /\ \E call \in Call :
                 /\ call.block = b /\ Inserted(m, C \o last) = insertCall(h2, call)
                 /\ InsertedInto(d3, Written(d3, L), b, call.update)
    <2>1. CASE ~wins(b, m.currentBlock, coin)
      <3>1. last = << >> /\ L = << >>
        BY <1>7, <2>1, SMTT(30)
      <3> HIDE DEF C, last, L, d3
      <3>2. C \o << >> = C
        BY <1>4, ConcatEmptySeq
      <3>3. Written(d3, << >>) = d3
        BY WrittenEmpty
      <3> QED
        BY <2>1, <3>1, <3>2, <3>3, Zenon
    <2>2. CASE wins(b, m.currentBlock, coin)
      <3>1. PICK call \in Call :
              call.block = b /\ last = <<call>> /\ L = insertWrites(b, call.update)
        BY <1>7, <2>2
      <3>2. call.update \in BOOLEAN
        BY SMTT(30) DEF Call
      <3> HIDE DEF C, last, L, d3
      <3>3. C \o <<call>> = Append(C, call)
        BY SMTT(30), <1>4, AppendIsConcat
      <3>4. Inserted(m, Append(C, call)) = insertCall(Inserted(m, C), call)
        BY <1>4, InsertedAppend, SMTT(30)
      <3>5. InsertedInto(d3, Written(d3, L), b, call.update)
        BY <1>6, <3>1, <3>2, InsertEffect
      <3> QED
        BY <2>2, <3>1, <3>3, <3>4, <3>5, Zenon
    <2> QED
      BY <2>1, <2>2, ZenonT(60)
  <1>16. StoredInto(d, m, b, coin, Written(d3, L), Inserted(m, C \o last))
    <2> HIDE DEF C, last, L, d1, d2, h2
    <2>1. d3 = Apply(d2, WriteBatch(b, txs))
      BY <1>5
    <2> HIDE DEF d3
    <2> QED
      BY <1>3, <1>4, <1>15, <2>1, StorePart, ZenonT(60)
  <1> QED
    BY <1>10, <1>13, <1>14, <1>16, Zenon
=============================================================================
