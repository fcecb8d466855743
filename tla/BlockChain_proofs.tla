------------------------- MODULE BlockChain_proofs -------------------------
(***************************************************************************)
(* Proofs about the block store, for any tree of blocks, any number of     *)
(* importers and any number of crashes, while SetHead is not called.       *)
(***************************************************************************)
EXTENDS BlockChain_writes

----------------------------------------------------------------------------
(* Crashes and restarts.                                                   *)

\* A database without halves of blocks: what has a header has its body, its
\* state, its total difficulty and its parent.
Whole(d) ==
  /\ d.headers = d.states /\ d.bodies = d.states /\ d.states \subseteq d.tds
  /\ genesisBlock \in d.states /\ Rooted(d.states)

LEMMA StaysAfterFirst ==
  ASSUME NEW d, NEW G, NEW S, Closed(G, S), NEW ws \in Seq(S), Apply(d, ws[1]) \in G
  PROVE  \A k \in 1 .. Len(ws) : Written(d, SubSeq(ws, 1, k)) \in G
  <1> DEFINE Good == {k \in 0 .. Len(ws) : k = 0 \/ Written(d, SubSeq(ws, 1, k)) \in G}
  <1>0. /\ Written(d, SubSeq(ws, 1, 0)) = d
        /\ \A k \in 1 .. Len(ws) :
             Written(d, SubSeq(ws, 1, k)) = Apply(Written(d, SubSeq(ws, 1, k - 1)), ws[k])
    BY WrittenPrefix, ZenonT(60)
  <1>1. Len(ws) \in Nat /\ Good \in SUBSET (0 .. Len(ws)) /\ 0 \in Good
    OBVIOUS
  <1>2. ASSUME NEW k \in 1 .. Len(ws), k - 1 \in Good
        PROVE  k \in Good
    <2>1. PICK p \in 0 .. Len(ws) : p = k - 1
      BY <1>1
    <2>2. Written(d, SubSeq(ws, 1, k)) = Apply(Written(d, SubSeq(ws, 1, p)), ws[k])
      BY <1>0, <2>1
    <2>3. Written(d, SubSeq(ws, 1, k)) \in G
      <3>1. CASE p = 0
        <4>1. k = 1
          BY <2>1, <3>1
        <4> QED
          BY <1>0, <2>2, <3>1, <4>1, Zenon
      <3>2. CASE p # 0
        <4>1. Written(d, SubSeq(ws, 1, p)) \in G
          BY <1>2, <2>1, <3>2
        <4>2. ws[k] \in S
          BY ElementOfSeq
        <4> QED
          BY <2>2, <4>1, <4>2, Zenon DEF Closed
      <3> QED
        BY <3>1, <3>2
    <2>4. k \in 0 .. Len(ws)
      BY <1>1
    <2> QED
      BY <2>3, <2>4
  <1>3. Good = 0 .. Len(ws)
    <2> HIDE DEF Good
    <2> QED
      BY <1>1, <1>2, UpTo
  <1>4. ASSUME NEW k \in 1 .. Len(ws)
        PROVE  Written(d, SubSeq(ws, 1, k)) \in G
    <2>1. k \in 0 .. Len(ws) /\ k # 0
      BY <1>1
    <2>2. k \in Good
      <3> HIDE DEF Good
      <3> QED
        BY <1>3, <2>1, Zenon
    <2> QED
      BY <2>1, <2>2
  <1> QED
    BY <1>4

\* A block comes whole: its total difficulty is there before its batch.
LEMMA BlockWritesClosed ==
  ASSUME NEW b \in Block, b # genesisBlock
  PROVE  Closed({e \in Database : Whole(e) /\ b \in e.tds /\ ParentOf(b) \in e.states},
                BlockWrite(b))
  <1> DEFINE G == {e \in Database : Whole(e) /\ b \in e.tds /\ ParentOf(b) \in e.states}
  <1>1. SUFFICES ASSUME NEW e \in G, NEW w \in BlockWrite(b)
                 PROVE  Apply(e, w) \in G
    BY <1>1, Zenon DEF Closed
  <1>2. e \in Database /\ Whole(e) /\ b \in e.tds /\ ParentOf(b) \in e.states
    BY <1>1
  <1>3. PICK f : f = Apply(e, w)
    OBVIOUS
  <1>4. f \in Database /\ Whole(f) /\ b \in f.tds /\ ParentOf(b) \in f.states
    <2>1. CASE w \in InsertWrite
      <3>1. f \in Database /\ SameBlocks(e, f)
        BY <1>2, <1>3, <2>1, InsertWriteKeeps
      <3> QED
        BY <1>2, <3>1 DEF SameBlocks, Whole
    <2>2. CASE w = WriteTd(b)
      <3>1. f \in Database /\ f = [e EXCEPT !.tds = @ \cup {b}]
        BY <1>2, <1>3, <2>2, ApplyTd
      <3>2. /\ f.headers = e.headers /\ f.bodies = e.bodies
            /\ f.states = e.states /\ f.tds = e.tds \cup {b}
        BY <1>2, <3>1 DEF Database
      <3> QED
        BY <1>2, <3>1, <3>2 DEF Whole
    <2>3. CASE w \in {WriteBatch(b, txs) : txs \in SUBSET Tx}
      <3>1. PICK txs \in SUBSET Tx : w = WriteBatch(b, txs)
        BY <2>3
      <3>2. f \in Database /\ BatchInto(e, b, f)
        BY <1>2, <1>3, <3>1, ApplyBatch
      <3>3. Rooted(f.states)
        BY <1>2, <3>2 DEF BatchInto, Whole, Rooted
      <3> QED
        BY <1>2, <3>2, <3>3 DEF BatchInto, Whole
    <2> QED
      BY <2>1, <2>2, <2>3 DEF BlockWrite
  <1> QED
    BY <1>3, <1>4

\* Whatever WriteBlockAndState has written when the process dies is whole.
LEMMA CrashKeepsWhole ==
  ASSUME NEW d \in Database, Whole(d), NEW b \in Block, b # genesisBlock,
         ParentOf(b) \in d.states, NEW rest \in Seq(BlockWrite(b)), NEW ws,
         ws = <<WriteTd(b)>> \o rest, NEW k \in 0 .. Len(ws)
  PROVE  Written(d, SubSeq(ws, 1, k)) \in Database /\ Whole(Written(d, SubSeq(ws, 1, k)))
  <1> DEFINE G == {e \in Database : Whole(e) /\ b \in e.tds /\ ParentOf(b) \in e.states}
             W == BlockWrite(b)
  <1>1. ws \in Seq(W) /\ Len(ws) \in Nat /\ ws[1] = WriteTd(b)
    <2>1. WriteTd(b) \in W
      BY DEF BlockWrite
    <2>2. PICK w \in W : w = WriteTd(b)
      BY <2>1
    <2>3. <<w>> \in Seq(W) /\ Len(<<w>>) = 1 /\ <<w>>[1] = w
      OBVIOUS
    <2>4. PICK t \in Seq(W) : t = <<w>>
      BY <2>3, ZenonT(60)
    <2>5. ws = t \o rest
      BY <2>2, <2>4
    <2>6. t \o rest \in Seq(W) /\ Len(t \o rest) = Len(t) + Len(rest)
      BY ConcatProperties
    <2>7. (t \o rest)[1] = t[1]
      BY <2>3, <2>4
    <2> HIDE DEF W
    <2> QED
      BY <2>2, <2>3, <2>4, <2>5, <2>6, <2>7
  <1>2. Apply(d, ws[1]) \in G
    <2>1. PICK f \in Database : f = Apply(d, ws[1]) /\ f = [d EXCEPT !.tds = @ \cup {b}]
      BY <1>1, ApplyTd
    <2>2. /\ f.headers = d.headers /\ f.bodies = d.bodies
          /\ f.states = d.states /\ f.tds = d.tds \cup {b}
      BY <2>1 DEF Database
    <2>3. Whole(f) /\ b \in f.tds /\ ParentOf(b) \in f.states
      BY <2>2 DEF Whole
    <2> QED
      BY <2>1, <2>3
  <1>3. Closed(G, W)
    BY BlockWritesClosed
  <1>4. CASE k = 0
    BY <1>1, <1>4, WrittenPrefix, ZenonT(60)
  <1>5. CASE k # 0
    <2>1. k \in 1 .. Len(ws)
      BY <1>1, <1>5
    <2>2. Written(d, SubSeq(ws, 1, k)) \in G
      <3> HIDE DEF G, W
      <3> QED
        BY <1>1, <1>2, <1>3, <2>1, StaysAfterFirst, ZenonT(60)
    <2> QED
      BY <2>2
  <1> QED
    BY <1>4, <1>5

LEMMA EmptyFunction ==
  ASSUME NEW f, DOMAIN f = 1 .. 0, f = [i \in 1 .. 0 |-> f[i]]
  PROVE  f = << >>
  <1>1. f \in [1 .. 0 -> {}]
    OBVIOUS
  <1>2. f \in Seq({}) /\ Len(f) = 0
    BY <1>1, SeqDef
  <1> QED
    BY <1>2, EmptySeq

\* Without a block to load, the header chain starts at genesis: SetHead(0)
\* deletes nothing and moves the three heads to genesis.
LEMMA ResetHeads ==
  ASSUME NEW d \in Database, Whole(d), ~loads(d)
  PROVE  headWrites(d, startHeads(d), 0) =
           <<WriteHeadHeaderHash(genesisBlock)>>
           \o <<WriteHeadBlockHash(genesisBlock), WriteHeadFastBlockHash(genesisBlock)>>
  <1> DEFINE g == genesisBlock
             m == startHeads(d)
  <1>0. g \in Block /\ Len(g) = 0
    BY BlockChainAssumption, GenesisIsFirst
  <1>1. m = [currentBlock |-> None, currentFastBlock |-> None, currentHeader |-> g]
    <2>1. d.headBlock \notin d.headers
      BY DEF loads, HasBlockAndState, GetBlock, Whole
    <2> QED
      BY <2>1 DEF startHeads
  <1>2. rewound(d, g, 0) = << >>
    <2> DEFINE gaps == {k \in 0 .. Len(g) - 1 : Ancestor(g, k) \notin d.headers}
               N == {IF 0 < Len(g) THEN 0 ELSE Len(g)} \cup gaps
    <2>1. N = {0}
      BY <1>0
    <2>2. Max({0}) = 0
      <3>1. {0} \in SUBSET Nat /\ 0 \in {0} /\ \A x \in {0} : x <= 0
        OBVIOUS
      <3> QED
        BY <3>1, MaxIs
    <2>3. rewound(d, g, 0) = Back(g, 0)
      BY <2>1, <2>2, Zenon DEF rewound
    <2>4. Back(g, 0) = << >>
      <3> DEFINE f == Back(g, 0)
      <3>1. f = [i \in 1 .. 0 |-> Ancestor(g, Len(g) - i + 1)]
        BY <1>0 DEF Back
      <3> HIDE DEF f
      <3>2. DOMAIN f = 1 .. 0 /\ f = [i \in 1 .. 0 |-> f[i]]
        BY <3>1
      <3>3. f = << >>
        BY <3>2, EmptyFunction
      <3> QED
        BY <3>3 DEF f
    <2> QED
      BY <2>3, <2>4
  <1>3. headerAt(d, g, 0) = g
    BY <1>0 DEF headerAt
  <1>4. headerWrites(d, g, 0) = <<WriteHeadHeaderHash(g)>>
    <2> DEFINE gone == rewound(d, g, 0)
               x(i) == <<DeleteBody(gone[i]), DeleteHeader(gone[i]), DeleteTd(gone[i])>>
               ss == [i \in DOMAIN gone |-> x(i)]
               cs == [i \in 1 .. (IF 0 < Len(g) THEN Len(g) - 0 ELSE 0) |->
                        DeleteCanonicalHash(Len(g) - i + 1)]
               h == WriteHeadHeaderHash(g)
    <2>1. headerWrites(d, g, 0) = (Joined(ss) \o cs) \o <<h>>
      BY <1>3, Zenon DEF headerWrites
    <2>2. ss = << >>
      <3>1. DOMAIN gone = 1 .. 0
        BY <1>2
      <3> HIDE DEF gone, x
      <3>2. DOMAIN ss = 1 .. 0 /\ ss = [i \in 1 .. 0 |-> ss[i]]
        BY <3>1
      <3> HIDE DEF ss
      <3> QED
        BY <3>2, EmptyFunction
    <2>3. Joined(ss) = << >>
      <3> HIDE DEF ss
      <3> QED
        BY <2>2 DEF Joined
    <2>4. cs = << >>
      <3>1. cs = [i \in 1 .. 0 |-> DeleteCanonicalHash(Len(g) - i + 1)]
        BY <1>0
      <3> HIDE DEF cs
      <3>2. DOMAIN cs = 1 .. 0 /\ cs = [i \in 1 .. 0 |-> cs[i]]
        BY <3>1
      <3> QED
        BY <3>2, EmptyFunction
    <2> HIDE DEF ss, cs, h
    <2>5. << >> \o << >> = << >> /\ << >> \o <<h>> = <<h>>
      <3>1. << >> \in Seq({h}) /\ <<h>> \in Seq({h})
        OBVIOUS
      <3> QED
        BY <3>1, ConcatEmptySeq
    <2>6. headerWrites(d, g, 0) = <<h>>
      BY <2>1, <2>3, <2>4, <2>5, Zenon
    <2> QED
      BY <2>6 DEF h
  <1>5. setHeads(d, m, 0).currentBlock = g /\ setHeads(d, m, 0).currentFastBlock = g
    BY SMTT(30), <1>1 DEF setHeads, cutTo
  <1>6. m.currentHeader = g
    BY <1>1
  <1> QED
    BY <1>4, <1>5, <1>6, Zenon DEF headWrites

\* The writes of a reset, and what it leaves at any point.
ResetWrite ==
  InsertWrite \cup {WriteTd(genesisBlock), WriteBody(genesisBlock), WriteHeader(genesisBlock)}

LEMMA ResetWritesClosed == Closed({e \in Database : Whole(e)}, ResetWrite)
  <1> DEFINE G == {e \in Database : Whole(e)}
             g == genesisBlock
  <1>1. SUFFICES ASSUME NEW e \in G, NEW w \in ResetWrite
                 PROVE  Apply(e, w) \in G
    BY <1>1, Zenon DEF Closed
  <1>2. /\ e \in Database /\ Whole(e) /\ g \in Block
        /\ g \in e.tds /\ g \in e.bodies /\ g \in e.headers
    BY <1>1, BlockChainAssumption DEF Whole
  <1>3. PICK f : f = Apply(e, w)
    OBVIOUS
  <1>4. f \in Database /\ SameBlocks(e, f)
    <2>1. CASE w \in InsertWrite
      BY <1>2, <1>3, <2>1, InsertWriteKeeps
    <2>2. CASE w = WriteTd(g)
      <3>1. f \in Database /\ f = [e EXCEPT !.tds = @ \cup {g}]
        BY <1>2, <1>3, <2>2, ApplyTd
      <3>2. e.tds \cup {g} = e.tds
        BY <1>2
      <3> QED
        BY <1>2, <3>1, <3>2 DEF SameBlocks, Database
    <2>3. CASE w = WriteBody(g)
      <3>1. f \in Database /\ f = [e EXCEPT !.bodies = @ \cup {g}]
        BY <1>2, <1>3, <2>3, ApplyBody
      <3>2. e.bodies \cup {g} = e.bodies
        BY <1>2
      <3> QED
        BY <1>2, <3>1, <3>2 DEF SameBlocks, Database
    <2>4. CASE w = WriteHeader(g)
      <3>1. f \in Database /\ f = [e EXCEPT !.headers = @ \cup {g}]
        BY <1>2, <1>3, <2>4, ApplyHeader
      <3>2. e.headers \cup {g} = e.headers
        BY <1>2
      <3> QED
        BY <1>2, <3>1, <3>2 DEF SameBlocks, Database
    <2> QED
      BY <2>1, <2>2, <2>3, <2>4, Zenon DEF ResetWrite
  <1>5. Whole(f)
    BY <1>2, <1>4 DEF Whole, SameBlocks
  <1> QED
    BY <1>3, <1>4, <1>5

\* A reset leaves a whole database with its heads at genesis.
LEMMA ResetEffect ==
  ASSUME NEW d \in Database, Whole(d), ~loads(d)
  PROVE  /\ resetWrites(d) \in Seq(ResetWrite)
         /\ loads(Written(d, headWrites(d, startHeads(d), 0)))
         /\ Written(d, resetWrites(d)) \in Database /\ Whole(Written(d, resetWrites(d)))
         /\ Written(d, resetWrites(d)).headBlock = genesisBlock
         /\ Written(d, resetWrites(d)).headHeader = genesisBlock
  <1> DEFINE g == genesisBlock
             G == {e \in Database : Whole(e)}
             W == ResetWrite
             hh == WriteHeadHeaderHash(g)
             hb == WriteHeadBlockHash(g)
             hf == WriteHeadFastBlockHash(g)
             H == <<hh>> \o <<hb, hf>>
             X == <<hh, WriteTd(g), WriteBody(g), WriteHeader(g)>>
             u == d.canonical[0] # g
             I == insertWrites(g, u)
  <1>1. g \in Block /\ u \in BOOLEAN
    BY BlockChainAssumption
  <1>2. headWrites(d, startHeads(d), 0) = H
    BY ResetHeads
  <1>3. resetWrites(d) = ((H \o X) \o I) \o <<hh>>
    BY <1>2, Zenon DEF resetWrites
  <1>4. /\ hh \in W /\ hb \in W /\ hf \in W
        /\ WriteTd(g) \in W /\ WriteBody(g) \in W /\ WriteHeader(g) \in W
    BY <1>1, Zenon DEF ResetWrite, InsertWrite
  <1>5. I \in Seq(W)
    <2>1. I \in Seq(InsertWrite)
      BY <1>1, InsertEffect, ZenonT(60)
    <2>2. InsertWrite \subseteq W
      BY DEF ResetWrite
    <2> HIDE DEF I, W
    <2> QED
      BY <2>1, <2>2, SeqMonotonic
  <1>6. <<hh>> \in Seq(W) /\ <<hb, hf>> \in Seq(W) /\ X \in Seq(W)
    <2>1. PICK w1 \in W, w2 \in W, w3 \in W :
            w1 = WriteTd(g) /\ w2 = WriteBody(g) /\ w3 = WriteHeader(g)
      BY <1>4, Zenon
    <2>2. PICK v1 \in W, v2 \in W, v3 \in W : v1 = hh /\ v2 = hb /\ v3 = hf
      BY <1>4, Zenon
    <2> HIDE DEF W, hh, hb, hf
    <2>3. <<v1>> \in Seq(W) /\ <<v2, v3>> \in Seq(W) /\ <<v1, w1, w2, w3>> \in Seq(W)
      OBVIOUS
    <2> QED
      BY <2>1, <2>2, <2>3, Zenon
  <1> HIDE DEF X, I, W, hh, hb, hf, u
  <1>7. H \in Seq(W)
    BY <1>6, ConcatProperties
  <1>8. H \o X \in Seq(W)
    <2> HIDE DEF H
    <2> QED
      BY <1>6, <1>7, ConcatProperties
  <1>9. PICK A \in Seq(W) : A = H \o X
    BY <1>8, ZenonT(60)
  <1>10. A \o I \in Seq(W)
    BY <1>5, ConcatProperties
  <1>11. (A \o I) \o <<hh>> \in Seq(W)
    <2>1. PICK s \in Seq(W), t \in Seq(W) : s = A \o I /\ t = <<hh>>
      BY <1>6, <1>10, ZenonT(60)
    <2>2. s \o t \in Seq(W)
      BY ConcatProperties
    <2> QED
      BY <2>1, <2>2, Zenon
  <1>12. resetWrites(d) \in Seq(W)
    BY <1>3, <1>9, <1>11, Zenon
  <1>13. Closed(G, W) /\ d \in G
    BY ResetWritesClosed DEF W
  <1>14. Written(d, resetWrites(d)) \in G /\ Written(d, A) \in G
    <2> HIDE DEF G
    <2> QED
      BY <1>12, <1>13, StaysIn
  <1>15. loads(Written(d, H))
    <2>1. Written(d, H) = Apply(Apply(Apply(d, hh), hb), hf)
      <3>1. Written(d, H) = Written(Written(d, <<hh>>), <<hb, hf>>)
        <4>1. PICK s \in Seq(W), t \in Seq(W) : s = <<hh>> /\ t = <<hb, hf>>
          BY <1>6, ZenonT(60)
        <4>2. Written(d, s \o t) = Written(Written(d, s), t)
          BY WrittenConcat
        <4> QED
          BY <4>1, <4>2, Zenon
      <3>2. Written(d, <<hh>>) = Apply(d, hh)
        BY WrittenOne
      <3>3. \A e : Written(e, <<hb, hf>>) = Apply(Apply(e, hb), hf)
        BY WrittenTwo
      <3> QED
        BY <3>1, <3>2, <3>3, Zenon
    <2>2. PICK d1 \in Database : d1 = Apply(d, hh) /\ d1 = [d EXCEPT !.headHeader = g]
      BY <1>1, ApplyHeadHeader DEF hh
    <2>3. PICK d2 \in Database : d2 = Apply(d1, hb) /\ d2 = [d1 EXCEPT !.headBlock = g]
      BY <1>1, ApplyHeadBlock DEF hb
    <2>4. PICK d3 \in Database : d3 = Apply(d2, hf) /\ d3 = [d2 EXCEPT !.headFast = g]
      BY <1>1, ApplyHeadFast DEF hf
    <2>5. SameBlocks(d, d3) /\ d3.headBlock = g
      BY <2>2, <2>3, <2>4, ZenonT(60) DEF SameBlocks, Database
    <2>6. loads(d3)
      BY <2>5 DEF loads, HasBlockAndState, GetBlock, SameBlocks, Whole
    <2> QED
      BY <2>1, <2>2, <2>3, <2>4, <2>6, Zenon
  <1>16. /\ Written(d, resetWrites(d)).headBlock = g
         /\ Written(d, resetWrites(d)).headHeader = g
    <2>1. PICK e1 \in Database : e1 = Written(d, A)
      BY <1>14
    <2>2. PICK e2 : e2 = Written(e1, I)
      OBVIOUS
    <2>3. InsertedInto(e1, e2, g, u)
      BY <1>1, <2>2, InsertEffect DEF I
    <2>4. e2 \in Database /\ e2.headBlock = g
      BY <2>3 DEF InsertedInto
    <2>5. PICK e3 : e3 = Apply(e2, hh) /\ e3 = [e2 EXCEPT !.headHeader = g]
      BY <1>1, <2>4, ApplyHeadHeader DEF hh
    <2>6. e3.headBlock = g /\ e3.headHeader = g
      BY <2>4, <2>5 DEF Database
    <2>7. Written(d, A \o I) = e2
      BY <1>5, <2>1, <2>2, WrittenConcat
    <2>8. Written(d, (A \o I) \o <<hh>>) = Written(Written(d, A \o I), <<hh>>)
      <3>1. PICK s \in Seq(W), t \in Seq(W) : s = A \o I /\ t = <<hh>>
        BY <1>6, <1>10, Zenon
      <3>2. Written(d, s \o t) = Written(Written(d, s), t)
        BY WrittenConcat
      <3> QED
        BY <3>1, <3>2, Zenon
    <2>9. Written(e2, <<hh>>) = e3
      BY <2>5, WrittenOne, ZenonT(60)
    <2> QED
      BY <1>3, <1>9, <2>6, <2>7, <2>8, <2>9, Zenon
  <1> QED
    BY <1>2, <1>12, <1>14, <1>15, <1>16, Zenon DEF W

----------------------------------------------------------------------------
(* The inductive invariant.                                                *)

\* What is being imported has its parent with its state, and is not there yet.
Imports ==
  /\ importing \in [Importer -> [block : Block \cup {None}, ptd : BOOLEAN]]
  /\ \A i \in Importer :
       /\ importing[i].ptd => importing[i].block # None
       /\ importing[i].block # None =>
            /\ status = "up"
            /\ importing[i].block \notin db.states /\ importing[i].block # genesisBlock
            /\ ParentOf(importing[i].block) \in db.states
  /\ \A i, j \in Importer :
       importing[i].block = importing[j].block /\ importing[i].block # None => i = j

\* The heads in memory are whole blocks, and the database has them too.
Heads ==
  /\ status \in {"up", "down"}
  /\ status = "up" => /\ bc \in HeadsIn(db.states)
                      /\ db.headBlock = bc.currentBlock
                      /\ db.headHeader = bc.currentHeader

\* Without crashes, the head is a longest chain and the canonical hashes its own.
Orderly ==
  /\ status = "up" /\ CanonicalIsHeadChain
  /\ \A b \in db.states : Len(b) <= Len(bc.currentBlock)

Durable == db \in Database /\ Whole(db) /\ Imports /\ Heads

IInv ==
  /\ crashes \in Nat /\ rewinds \in Nat
  /\ rewinds = 0 => Durable
  /\ rewinds = 0 /\ crashes = 0 => Orderly

LEMMA InitIInv == Init => IInv
  <1> SUFFICES ASSUME Init
               PROVE  IInv
    OBVIOUS
  <1> DEFINE g == genesisBlock
             canon == [n \in Number |-> IF n = 0 THEN g ELSE None]
             look == [t \in Tx |-> None]
  <1>1. g \in Block /\ Len(g) = 0 /\ Ancestor(g, 0) = g
    BY BlockChainAssumption, GenesisIsFirst
  <1>2. canon \in [Number -> Block \cup {None}] /\ look \in [Tx -> Block \cup {None}]
    BY <1>1
  <1>3. PICK c \in [Number -> Block \cup {None}], l \in [Tx -> Block \cup {None}] :
          c = canon /\ l = look
    BY <1>2, ZenonT(60)
  <1>4. db = [headers |-> {g}, bodies |-> {g}, tds |-> {g}, states |-> {g},
              canonical |-> c, lookup |-> l, headBlock |-> g, headHeader |-> g,
              headFast |-> None]
    BY <1>3 DEF Init
  <1>5. /\ db \in Database /\ db.states = {g} /\ db.headers = {g} /\ db.bodies = {g}
        /\ db.tds = {g} /\ db.headBlock = g /\ db.headHeader = g /\ db.canonical = c
    BY <1>1, <1>4 DEF Database
  <1>6. Whole(db)
    BY SMTT(30), <1>5 DEF Whole, Rooted
  <1>7. Imports
    BY DEF Init, Imports, Idle
  <1>8. Heads /\ bc.currentBlock = g
    BY <1>5 DEF Init, Heads, HeadsIn, genesisHeads
  <1>9. Orderly
    <2>1. \A n \in Number : n \in Nat /\ c[n] = IF n = 0 THEN g ELSE None
      BY SMTT(30), <1>3, BlockIsSeq DEF Number
    <2>2. CanonicalIsHeadChain
      BY <1>1, <1>5, <1>8, <2>1 DEF CanonicalIsHeadChain
    <2> QED
      BY <1>1, <1>5, <1>8, <2>2 DEF Init, Orderly
  <1> QED
    BY <1>5, <1>6, <1>7, <1>8, <1>9 DEF Init, IInv, Durable

LEMMA ValidateIInv ==
  ASSUME IInv, NEW i \in Importer, NEW b \in Block, Validate(i, b)
  PROVE  IInv'
  <1>0. UNCHANGED <<db, bc, status, crashes, rewinds>>
    BY DEF Validate
  <1>1. ASSUME rewinds = 0
        PROVE  Durable'
    <2>1. Durable
      BY <1>1 DEF IInv
    <2>2. PICK x \in [block : Block \cup {None}, ptd : BOOLEAN] :
            importing' = [importing EXCEPT ![i] = x] /\ x.block = b /\ ~x.ptd
      <3>1. importing \in [Importer -> [block : Block \cup {None}, ptd : BOOLEAN]]
        BY <2>1 DEF Durable, Imports
      <3>2. PICK r \in [block : Block \cup {None}, ptd : BOOLEAN] : r = importing[i] /\ ~r.ptd
        BY <3>1 DEF Validate, Idle
      <3>3. PICK x : x = [r EXCEPT !.block = b]
        BY ZenonT(60)
      <3>4. x \in [block : Block \cup {None}, ptd : BOOLEAN] /\ x.block = b /\ ~x.ptd
        BY <3>2, <3>3, ZenonT(60)
      <3>5. importing' = [importing EXCEPT ![i] = x]
        BY <3>2, <3>3 DEF Validate
      <3> QED
        BY <3>4, <3>5, ZenonT(60)
    <2>3. b # None /\ b # genesisBlock /\ b \notin db.states /\ ParentOf(b) \in db.states
      BY SMTT(30), <2>1, BlockChainAssumption
      DEF Validate, HasBlockAndState, GetBlock, Durable, Whole
    <2>4. Imports'
      <3>1. importing' \in [Importer -> [block : Block \cup {None}, ptd : BOOLEAN]]
        BY <2>1, <2>2 DEF Durable, Imports
      <3>2. \A j \in Importer : j # i => importing'[j] = importing[j] /\ importing[j].block # b
        BY SMTT(30), <2>1, <2>2 DEF Validate, Durable, Imports
      <3>3. importing'[i].block = b /\ ~importing'[i].ptd
        BY <2>1, <2>2 DEF Durable, Imports
      <3>4. status = "up"
        BY DEF Validate
      <3> QED
        BY SMTT(30), <1>0, <2>1, <2>3, <3>1, <3>2, <3>3, <3>4 DEF Durable, Imports
    <2> QED
      BY <1>0, <2>1, <2>4 DEF Durable, Heads, Whole
  <1> QED
    BY <1>0, <1>1 DEF IInv, Orderly, CanonicalIsHeadChain

LEMMA readTdIInv ==
  ASSUME IInv, NEW i \in Importer, readTd(i)
  PROVE  IInv'
  <1>0. UNCHANGED <<db, bc, status, crashes, rewinds>>
    BY DEF readTd
  <1>1. ASSUME rewinds = 0
        PROVE  Durable'
    <2>1. Durable /\ importing \in [Importer -> [block : Block \cup {None}, ptd : BOOLEAN]]
      BY SMTT(30), <1>1 DEF IInv, Durable, Imports
    <2>2. PICK x \in [block : Block \cup {None}, ptd : BOOLEAN] :
            /\ importing' = [importing EXCEPT ![i] = x]
            /\ x.block = importing[i].block \/ (x.block = None /\ ~x.ptd)
      <3>0. PICK r \in [block : Block \cup {None}, ptd : BOOLEAN] : r = importing[i]
        BY <2>1
      <3>1. CASE ParentOf(importing[i].block) \in db.tds
        <4>1. PICK x : x = [r EXCEPT !.ptd = TRUE]
          BY ZenonT(60)
        <4>2. x \in [block : Block \cup {None}, ptd : BOOLEAN] /\ x.block = r.block
          BY <4>1, ZenonT(60)
        <4>3. importing' = [importing EXCEPT ![i] = x]
          BY <3>0, <3>1, <4>1 DEF readTd
        <4> QED
          BY <3>0, <4>2, <4>3, Zenon
      <3>2. CASE ParentOf(importing[i].block) \notin db.tds
        <4>1. PICK x : x = [block |-> None, ptd |-> FALSE]
          BY ZenonT(60)
        <4>2. x \in [block : Block \cup {None}, ptd : BOOLEAN] /\ x.block = None /\ ~x.ptd
          BY <4>1, ZenonT(60)
        <4>3. importing' = [importing EXCEPT ![i] = x]
          BY <3>2, <4>1 DEF readTd, Idle
        <4> QED
          BY <4>2, <4>3, Zenon
      <3> QED
        BY <3>1, <3>2
    <2>3. importing[i].block # None
      BY DEF readTd
    <2>4. Imports'
      <3>1. importing' \in [Importer -> [block : Block \cup {None}, ptd : BOOLEAN]]
        BY <2>1, <2>2
      <3>2. \A j \in Importer : j # i => importing'[j] = importing[j]
        BY <2>1, <2>2
      <3>3. \/ importing'[i].block = importing[i].block
            \/ importing'[i].block = None /\ ~importing'[i].ptd
        BY <2>1, <2>2
      <3> QED
        BY <1>0, <2>1, <2>3, <3>1, <3>2, <3>3 DEF Durable, Imports
    <2> QED
      BY <1>0, <2>1, <2>4, SMTT(30) DEF Durable, Heads, Whole
  <1> QED
    BY <1>0, <1>1 DEF IInv, Orderly, CanonicalIsHeadChain

\* reorg finds every block it walks through, so WriteBlockAndState succeeds.
LEMMA NeverRefused ==
  ASSUME NEW d \in Database, Whole(d), NEW m \in HeadsIn(d.states), NEW b \in Block,
         b # genesisBlock, ParentOf(b) \in d.states, NEW coin \in BOOLEAN
  PROVE  ~refused(d, m, b, coin)
  <1> DEFINE old == m.currentBlock
  <1>1. old \in d.states /\ d.states \in SUBSET Block /\ Rooted(d.states)
    BY DEF HeadsIn, Database, Whole
  <1>2. \A n \in 0 .. Len(old) : Ancestor(old, n) \in d.states
    BY <1>1, AncestorsIn
  <1>3. \A n \in 0 .. Len(b) - 1 : Ancestor(b, n) \in d.states
    BY <1>1, AncestorsOfNew
  <1>4. PICK c \in Nat : c = Len(commonBlock(old, b))
    BY <1>1, CommonIsAncestor
  <1>5. Len(b) \in Nat /\ Len(old) \in Nat
    BY SMTT(30), <1>1, BlockIsSeq
  <1>6. ASSUME NEW n \in c .. Len(b) - 1
        PROVE  GetBlock(d, Ancestor(b, n)) /\ (n < Len(old) => GetBlock(d, Ancestor(old, n)))
    BY <1>2, <1>3, <1>5 DEF GetBlock, Whole
  <1>7. ~reorgFails(d, old, b)
    BY SMTT(30), <1>4, <1>6 DEF reorgFails
  <1> QED
    BY <1>7 DEF refused

\* The canonical hashes of the new head's chain.
LEMMA CanonicalAfterWrite ==
  ASSUME NEW d \in Database, NEW m \in HeadsIn(d.states), NEW b \in Block, b # genesisBlock,
         Rooted(d.states), ParentOf(b) \in d.states, b \notin d.states, NEW coin \in BOOLEAN,
         \A n \in Number : d.canonical[n] = IF n <= Len(m.currentBlock)
                                            THEN Ancestor(m.currentBlock, n) ELSE None,
         \A c \in d.states : Len(c) <= Len(m.currentBlock),
         NEW e, NEW h, StoredInto(d, m, b, coin, e, h)
  PROVE  /\ \A n \in Number : e.canonical[n] = IF n <= Len(h.currentBlock)
                                               THEN Ancestor(h.currentBlock, n) ELSE None
         /\ \A c \in e.states : Len(c) <= Len(h.currentBlock)
         /\ reorgs(m, b, coin) => commonBlock(m.currentBlock, b) # m.currentBlock
  <1> DEFINE old == m.currentBlock
             win == wins(b, old, coin)
  <1>1. old \in d.states /\ old \in Block /\ Len(old) \in Nat /\ Ancestor(old, Len(old)) = old
    BY BlockIsSeq DEF HeadsIn, Database
  <1>2. Len(b) \in Nat /\ Len(b) - 1 <= Len(old) /\ Ancestor(b, Len(b)) = b
    BY BlockIsSeq, ParentIsBlock
  <1>3. \A n \in Number : n \in Nat
    BY BlockIsSeq DEF Number
  <1>4. PICK c \in Nat : /\ c = Len(commonBlock(old, b)) /\ c <= Len(old) /\ c <= Len(b)
                         /\ commonBlock(old, b) = Ancestor(old, c)
                         /\ commonBlock(old, b) = Ancestor(b, c)
    BY SMTT(30), <1>1, CommonIsAncestor
  <1>5. h.currentBlock = (IF win THEN b ELSE old) /\ e.states = d.states \cup {b}
    BY SMTT(30) DEF StoredInto
  <1>6. ASSUME NEW n \in Number
        PROVE  e.canonical[n] =
                 IF win /\ (n = Len(b) \/ (reorgs(m, b, coin) /\ n > c /\ n <= Len(b)))
                 THEN Ancestor(b, n) ELSE d.canonical[n]
    BY <1>4, ZenonT(60) DEF StoredInto
  <1>7. \A n \in 0 .. c : Ancestor(old, n) = Ancestor(b, n)
    <2>1. c \in 0 .. Len(old) /\ c \in 0 .. Len(b)
      BY <1>1, <1>2, <1>4
    <2>2. \A n \in 0 .. c : /\ Ancestor(Ancestor(old, c), n) = Ancestor(old, n)
                            /\ Ancestor(Ancestor(b, c), n) = Ancestor(b, n)
      BY <1>1, <2>1, AncestorOfAncestor
    <2> QED
      BY SMTT(30), <1>4, <2>2
  <1>8. CASE ~win
    <2>1. h.currentBlock = old /\ Len(b) <= Len(old)
      BY <1>1, <1>2, <1>5, <1>8 DEF wins
    <2>2. \A n \in Number : e.canonical[n] = d.canonical[n]
      BY SMTT(30), <1>6, <1>8
    <2>3. \A x \in e.states : Len(x) <= Len(old)
      BY SMTT(30), <1>5, <2>1
    <2>4. ~reorgs(m, b, coin)
      BY SMTT(30), <1>8 DEF reorgs
    <2> HIDE DEF win
    <2> QED
      BY <2>1, <2>2, <2>3, <2>4, ZenonT(60)
  <1>9. CASE win
    <2>1. Len(b) >= Len(old) /\ h.currentBlock = b
      BY <1>1, <1>2, <1>5, <1>9 DEF wins
    <2>2. \A x \in e.states : Len(x) <= Len(b)
      <3>1. \A x \in d.states : Len(x) \in Nat
        BY SMTT(30), BlockIsSeq DEF Database
      <3> QED
        BY <1>1, <1>2, <1>5, <2>1, <3>1
    <2>3. ASSUME NEW n \in Number
          PROVE  e.canonical[n] = IF n <= Len(b) THEN Ancestor(b, n) ELSE None
      <3>1. CASE reorgs(m, b, coin)
        <4>1. n <= c => d.canonical[n] = Ancestor(b, n)
          BY <1>1, <1>3, <1>4, <1>7
        <4>2. n > Len(b) => d.canonical[n] = None
          BY <1>1, <1>2, <1>3, <2>1
        <4> QED
          BY SMTT(30), <1>2, <1>3, <1>6, <1>9, <3>1, <4>1, <4>2
      <3>2. CASE ~reorgs(m, b, coin)
        <4>1. ParentOf(b) = old
          BY <1>9, <3>2, SMTT(30) DEF reorgs
        <4>2. Len(old) = Len(b) - 1 /\ old = Ancestor(b, Len(old))
          BY <1>2, <4>1, ParentIsBlock
        <4>3. n <= Len(old) => Ancestor(old, n) = Ancestor(b, n)
          <5>1. Len(old) \in 0 .. Len(b)
            BY SMTT(30), <1>1, <1>2, <2>1
          <5>2. n <= Len(old) => n \in 0 .. Len(old)
            BY <1>1, <1>3
          <5> QED
            BY <4>2, <5>1, <5>2, AncestorOfAncestor
        <4> QED
          BY <1>1, <1>2, <1>3, <1>6, <1>9, <3>2, <4>2, <4>3
      <3> QED
        BY SMTT(30), <3>1, <3>2
    <2>4. reorgs(m, b, coin) => commonBlock(old, b) # old
      <3> SUFFICES ASSUME reorgs(m, b, coin), commonBlock(old, b) = old
                   PROVE  FALSE
        BY SMTT(30)
      <3>1. c = Len(old) /\ old = Ancestor(b, Len(old))
        BY SMTT(30), <1>4
      <3>2. Len(old) # Len(b)
        BY <1>1, <1>2, <3>1
      <3>3. Len(old) = Len(b) - 1
        BY <1>1, <1>2, <2>1, <3>2, SMTT(30)
      <3>4. ParentOf(b) = old
        BY <3>1, <3>3, ParentIsBlock
      <3> QED
        BY SMTT(30), <3>4 DEF reorgs
    <2> QED
      BY <2>1, <2>2, <2>3, <2>4
  <1> QED
    BY <1>8, <1>9

\* What WriteBlockAndState of an importer meets, and what it does.
LEMMA WriteEffect ==
  ASSUME Durable, status = "up", NEW i \in Importer, NEW coin \in BOOLEAN, importing[i].ptd
  PROVE  LET b == importing[i].block
         IN  /\ b \in Block /\ b # genesisBlock /\ b \notin db.states /\ ParentOf(b) \in db.states
             /\ ~refused(db, bc, b, coin)
             /\ \E rest \in Seq(BlockWrite(b)) :
                  blockWrites(db, bc, b, coin) = <<WriteTd(b)>> \o rest
             /\ StoredInto(db, bc, b, coin, Written(db, blockWrites(db, bc, b, coin)),
                           blockHeads(db, bc, b, coin))
  <1> DEFINE b == importing[i].block
  <1>1. b \in Block /\ b # genesisBlock /\ b \notin db.states /\ ParentOf(b) \in db.states
    BY DEF Durable, Imports
  <1>2. db \in Database /\ Whole(db) /\ Rooted(db.states) /\ bc \in HeadsIn(db.states)
    BY DEF Durable, Heads, Whole
  <1> HIDE DEF b
  <1>3. ~refused(db, bc, b, coin)
    BY <1>1, <1>2, NeverRefused
  <1>4. /\ \E rest \in Seq(BlockWrite(b)) :
             blockWrites(db, bc, b, coin) = <<WriteTd(b)>> \o rest
        /\ StoredInto(db, bc, b, coin, Written(db, blockWrites(db, bc, b, coin)),
                      blockHeads(db, bc, b, coin))
    BY <1>1, <1>2, <1>3, BlockEffect, ZenonT(60)
  <1> QED
    BY <1>1, <1>3, <1>4, ZenonT(60) DEF b

LEMMA WriteBlockAndStateIInv ==
  ASSUME IInv, NEW i \in Importer, NEW coin \in BOOLEAN, WriteBlockAndState(i, coin)
  PROVE  IInv'
  <1>0. UNCHANGED <<status, crashes, rewinds>> /\ status = "up" /\ importing[i].ptd
    BY DEF WriteBlockAndState
  <1>1. SUFFICES ASSUME rewinds = 0
                 PROVE  Durable' /\ (crashes = 0 => Orderly')
    BY <1>0 DEF IInv
  <1>2. Durable /\ (crashes = 0 => Orderly)
    BY SMTT(30), <1>1 DEF IInv
  <1>3. PICK b \in Block :
          /\ b = importing[i].block /\ b # genesisBlock
          /\ b \notin db.states /\ ParentOf(b) \in db.states
          /\ StoredInto(db, bc, b, coin, db', bc')
    BY <1>0, <1>2, WriteEffect, ZenonT(60) DEF WriteBlockAndState
  <1>4. /\ db' \in Database /\ db'.headers = db.headers \cup {b}
        /\ db'.bodies = db.bodies \cup {b} /\ db'.tds = db.tds \cup {b}
        /\ db'.states = db.states \cup {b} /\ bc' \in HeadsIn(db.states \cup {b})
        /\ db.headBlock = bc.currentBlock => db'.headBlock = bc'.currentBlock
        /\ db.headHeader = bc.currentHeader => db'.headHeader = bc'.currentHeader
    BY <1>3, ZenonT(60) DEF StoredInto
  <1>5. Whole(db')
    <2>1. Rooted(db'.states)
      BY <1>2, <1>3, <1>4, ZenonT(60) DEF Durable, Whole, Rooted
    <2> QED
      BY <1>2, <1>4, <2>1 DEF Durable, Whole
  <1>6. Imports'
    <2>1. importing' = [importing EXCEPT ![i] = [block |-> None, ptd |-> FALSE]]
      BY DEF WriteBlockAndState, Idle
    <2>2. importing \in [Importer -> [block : Block \cup {None}, ptd : BOOLEAN]]
      BY <1>2 DEF Durable, Imports
    <2>3. importing' \in [Importer -> [block : Block \cup {None}, ptd : BOOLEAN]]
      BY SMTT(30), <2>1, <2>2
    <2>4. importing'[i].block = None /\ ~importing'[i].ptd
      BY <2>1, <2>2
    <2>5. b # None
      BY SMTT(30), BlockChainAssumption
    <2>6. \A j \in Importer : j # i => importing'[j] = importing[j] /\ importing[j].block # b
      BY <1>2, <1>3, <2>1, <2>2, <2>5 DEF Durable, Imports
    <2> QED
      BY SMTT(30), <1>0, <1>2, <1>4, <2>3, <2>4, <2>6 DEF Durable, Imports
  <1>7. Heads'
    BY <1>0, <1>2, <1>4 DEF Durable, Heads
  <1>8. ASSUME crashes = 0
        PROVE  Orderly'
    <2>1. db \in Database /\ bc \in HeadsIn(db.states) /\ Rooted(db.states)
      BY SMTT(30), <1>0, <1>2 DEF Durable, Heads, Whole
    <2>2. /\ \A n \in Number : db.canonical[n] = IF n <= Len(bc.currentBlock)
                                                 THEN Ancestor(bc.currentBlock, n) ELSE None
          /\ \A c \in db.states : Len(c) <= Len(bc.currentBlock)
      BY <1>2, <1>8, SMTT(30) DEF Orderly, CanonicalIsHeadChain
    <2>3. /\ \A n \in Number : db'.canonical[n] = IF n <= Len(bc'.currentBlock)
                                                  THEN Ancestor(bc'.currentBlock, n) ELSE None
          /\ \A c \in db'.states : Len(c) <= Len(bc'.currentBlock)
      BY <1>3, <2>1, <2>2, CanonicalAfterWrite
    <2> QED
      BY <1>0, <2>3 DEF Orderly, CanonicalIsHeadChain
  <1> QED
    BY <1>4, <1>5, <1>6, <1>7, <1>8 DEF Durable

\* A process that dies leaves a whole database, from which it can start.
LEMMA DiesDurable ==
  ASSUME NEW ws, Dies(ws),
         \A k \in 0 .. Len(ws) : Written(db, SubSeq(ws, 1, k)) \in Database
                                 /\ Whole(Written(db, SubSeq(ws, 1, k)))
  PROVE  Durable'
  <1>1. db' \in Database /\ Whole(db')
    BY DEF Dies
  <1>2. Imports'
    BY DEF Dies, Imports, Idle
  <1>3. Heads'
    BY DEF Dies, Heads
  <1> QED
    BY <1>1, <1>2, <1>3 DEF Durable

LEMMA crashInWriteIInv ==
  ASSUME IInv, NEW i \in Importer, NEW coin \in BOOLEAN, crashInWrite(i, coin)
  PROVE  IInv'
  <1> DEFINE ws == blockWrites(db, bc, importing[i].block, coin)
  <1>0. /\ rewinds' = rewinds /\ status = "up" /\ importing[i].ptd
        /\ Dies(ws) /\ crashes' = crashes + 1
    BY DEF crashInWrite, Dies
  <1>1. SUFFICES ASSUME rewinds = 0
                 PROVE  Durable'
    BY <1>0 DEF IInv
  <1>2. Durable /\ db \in Database /\ Whole(db)
    BY <1>1, SMTT(30) DEF IInv, Durable
  <1>3. PICK b \in Block :
          /\ b # genesisBlock /\ ParentOf(b) \in db.states
          /\ \E rest \in Seq(BlockWrite(b)) : ws = <<WriteTd(b)>> \o rest
    BY <1>0, <1>2, WriteEffect, ZenonT(60)
  <1> HIDE DEF ws
  <1>4. ASSUME NEW k \in 0 .. Len(ws)
        PROVE  /\ Written(db, SubSeq(ws, 1, k)) \in Database
               /\ Whole(Written(db, SubSeq(ws, 1, k)))
    BY <1>2, <1>3, CrashKeepsWhole, ZenonT(60)
  <1> QED
    BY <1>0, <1>4, DiesDurable, SMTT(30)

\* Loading the last state only writes the hash of the head header again.
LEMMA LoadEffect ==
  ASSUME NEW d \in Database, Whole(d), loads(d)
  PROVE  /\ loadedHeads(d) \in HeadsIn(d.states)
         /\ \E w \in InsertWrite : loadWrites(d) = <<w>>
         /\ Written(d, loadWrites(d)) \in Database /\ Whole(Written(d, loadWrites(d)))
         /\ Written(d, loadWrites(d)).states = d.states
         /\ Written(d, loadWrites(d)).headBlock = loadedHeads(d).currentBlock
         /\ Written(d, loadWrites(d)).headHeader = loadedHeads(d).currentHeader
  <1> DEFINE c == loadedHeads(d).currentHeader
             w == WriteHeadHeaderHash(c)
  <1>1. d.headBlock \in d.states
    BY DEF loads, HasBlockAndState
  <1>2. loadedHeads(d) \in HeadsIn(d.states) /\ loadedHeads(d).currentBlock = d.headBlock
    BY <1>1 DEF loadedHeads, HeadsIn, GetBlock, Whole
  <1>3. c \in Block
    BY <1>2 DEF HeadsIn, Database
  <1> HIDE DEF c
  <1>4. w \in InsertWrite
    BY <1>3, Zenon DEF InsertWrite
  <1>5. PICK e \in Database : e = Apply(d, w) /\ e = [d EXCEPT !.headHeader = c]
    BY <1>3, ApplyHeadHeader
  <1>6. SameBlocks(d, e) /\ e.headBlock = d.headBlock /\ e.headHeader = c
    BY <1>3, <1>5 DEF SameBlocks, Database
  <1>7. Written(d, loadWrites(d)) = e
    BY <1>5, WrittenOne, ZenonT(60) DEF loadWrites, c
  <1>8. Whole(e) /\ e.states = d.states
    BY <1>6 DEF SameBlocks, Whole
  <1>9. loadWrites(d) = <<w>>
    BY DEF loadWrites, c
  <1> QED
    BY <1>2, <1>4, <1>6, <1>7, <1>8, <1>9 DEF c

LEMMA NewBlockChainIInv ==
  ASSUME IInv, NewBlockChain
  PROVE  IInv'
  <1>0. UNCHANGED <<importing, crashes, rewinds>> /\ status = "down"
    BY DEF NewBlockChain
  <1>1. CASE rewinds = 0
    <2>1. Durable /\ db \in Database /\ Whole(db) /\ crashes # 0
      BY <1>0, <1>1 DEF IInv, Durable, Orderly
    <2>2. \A i \in Importer : importing[i].block = None
      BY <1>0, <2>1, SMTT(30) DEF Durable, Imports
    <2>3. Imports'
      BY <1>0, <2>1, <2>2 DEF Durable, Imports
    <2>4. db' \in Database /\ Whole(db') /\ Heads'
      <3>1. CASE loads(db)
        <4>1. db' = Written(db, loadWrites(db)) /\ bc' = loadedHeads(db) /\ status' = "up"
          BY <3>1 DEF NewBlockChain
        <4>2. /\ loadedHeads(db) \in HeadsIn(db.states)
              /\ Written(db, loadWrites(db)) \in Database /\ Whole(Written(db, loadWrites(db)))
              /\ Written(db, loadWrites(db)).states = db.states
              /\ Written(db, loadWrites(db)).headBlock = loadedHeads(db).currentBlock
              /\ Written(db, loadWrites(db)).headHeader = loadedHeads(db).currentHeader
          BY <2>1, <3>1, LoadEffect
        <4> QED
          BY <4>1, <4>2 DEF Heads
      <3>2. CASE ~loads(db)
        <4>1. /\ loads(Written(db, headWrites(db, startHeads(db), 0)))
              /\ Written(db, resetWrites(db)) \in Database
              /\ Whole(Written(db, resetWrites(db)))
              /\ Written(db, resetWrites(db)).headBlock = genesisBlock
              /\ Written(db, resetWrites(db)).headHeader = genesisBlock
          BY <2>1, <3>2, ResetEffect
        <4>2. db' = Written(db, resetWrites(db)) /\ bc' = genesisHeads /\ status' = "up"
          BY <3>2, <4>1, Zenon DEF NewBlockChain
        <4>3. db'.headBlock = genesisBlock /\ db'.headHeader = genesisBlock /\ Whole(db')
          BY <4>1, <4>2
        <4>4. genesisBlock \in db'.states
          BY <4>3 DEF Whole
        <4>5. Heads'
          BY <4>2, <4>3, <4>4 DEF Heads, HeadsIn, genesisHeads
        <4> QED
          BY <4>1, <4>2, <4>5, SMTT(30)
      <3> QED
        BY <3>1, <3>2, SMTT(30)
    <2> QED
      BY <1>0, <2>1, <2>3, <2>4 DEF IInv, Durable
  <1>2. CASE rewinds # 0
    BY <1>0, <1>2 DEF IInv
  <1> QED
    BY <1>1, <1>2

LEMMA crashInStartIInv ==
  ASSUME IInv, crashInStart
  PROVE  IInv'
  <1> DEFINE ws == IF loads(db) THEN loadWrites(db) ELSE resetWrites(db)
             G == {e \in Database : Whole(e)}
             W == ResetWrite
  <1>0. rewinds' = rewinds /\ Dies(ws) /\ crashes' = crashes + 1
    BY DEF crashInStart, Dies
  <1>1. SUFFICES ASSUME rewinds = 0
                 PROVE  Durable'
    BY <1>0 DEF IInv
  <1>2. db \in Database /\ Whole(db)
    BY <1>1 DEF IInv, Durable
  <1>3. ws \in Seq(W)
    <2>1. CASE loads(db)
      <3>1. PICK w \in InsertWrite : loadWrites(db) = <<w>>
        BY <1>2, <2>1, LoadEffect
      <3>2. w \in W
        BY DEF ResetWrite
      <3>3. ws = <<w>>
        BY <2>1, <3>1, Zenon
      <3> HIDE DEF W, ws
      <3> QED
        BY <3>2, <3>3
    <2>2. CASE ~loads(db)
      BY <1>2, <2>2, ResetEffect
    <2> QED
      BY <2>1, <2>2
  <1>4. Closed(G, W) /\ db \in G
    BY <1>2, ResetWritesClosed
  <1>5. \A k \in 0 .. Len(ws) : Written(db, SubSeq(ws, 1, k)) \in G
    <2> HIDE DEF G, W, ws
    <2> QED
      BY <1>3, <1>4, StaysIn
  <1>6. \A k \in 0 .. Len(ws) : Written(db, SubSeq(ws, 1, k)) \in Database
                                /\ Whole(Written(db, SubSeq(ws, 1, k)))
    BY <1>5
  <1> HIDE DEF ws
  <1> QED
    BY <1>0, <1>6, DiesDurable, SMTT(30)

LEMMA NextIInv == IInv /\ [Next]_vars => IInv'
  <1> SUFFICES ASSUME IInv, [Next]_vars
               PROVE  IInv'
    OBVIOUS
  <1>1. ASSUME NEW i \in Importer, NEW b \in Block, Validate(i, b)
        PROVE  IInv'
    BY <1>1, ValidateIInv
  <1>2. ASSUME NEW i \in Importer, readTd(i)
        PROVE  IInv'
    BY <1>2, readTdIInv
  <1>3. ASSUME NEW i \in Importer, NEW coin \in BOOLEAN, WriteBlockAndState(i, coin)
        PROVE  IInv'
    BY <1>3, WriteBlockAndStateIInv
  <1>4. ASSUME NEW i \in Importer, NEW coin \in BOOLEAN, crashInWrite(i, coin)
        PROVE  IInv'
    BY <1>4, crashInWriteIInv
  <1>5. ASSUME NEW n \in Number, SetHead(n)
        PROVE  IInv'
    <2>1. rewinds' = rewinds + 1 /\ crashes' = crashes
      BY <1>5 DEF SetHead
    <2> QED
      BY <2>1 DEF IInv
  <1>6. ASSUME NEW n \in Number, crashInSetHead(n)
        PROVE  IInv'
    <2>1. rewinds' = rewinds + 1 /\ crashes' = crashes + 1
      BY <1>6 DEF crashInSetHead, Dies
    <2> QED
      BY <2>1 DEF IInv
  <1>7. ASSUME NewBlockChain
        PROVE  IInv'
    BY <1>7, NewBlockChainIInv
  <1>8. ASSUME crashInStart
        PROVE  IInv'
    BY <1>8, crashInStartIInv, SMTT(30)
  <1>9. CASE UNCHANGED vars
    BY <1>9 DEF vars, IInv, Durable, Imports, Heads, Orderly, CanonicalIsHeadChain
  <1> QED
    BY <1>1, <1>2, <1>3, <1>4, <1>5, <1>6, <1>7, <1>8, <1>9 DEF Next

LEMMA IInvHolds == Spec => []IInv
  BY InitIInv, NextIInv, PTL DEF Spec

----------------------------------------------------------------------------
(* The theorems.                                                           *)

\* Until the chain is rewound, a block that can be the parent of an import has
\* all its ancestors with their states and total difficulties, in whatever
\* order importers write and wherever crashes cut WriteBlockAndState,
\* loadLastState or Reset.
THEOREM FullBlocksStayRooted == Spec => []FullBlocksRooted
  <1>1. IInv => FullBlocksRooted
    <2> SUFFICES ASSUME IInv, rewinds = 0, NEW b \in Block, HasBlockAndState(db, b),
                        NEW n \in 0 .. Len(b)
                 PROVE  HasBlockAndState(db, Ancestor(b, n)) /\ Ancestor(b, n) \in db.tds
      BY DEF FullBlocksRooted
    <2>1. db \in Database /\ Whole(db)
      BY DEF IInv, Durable
    <2>2. b \in db.states /\ db.states \in SUBSET Block /\ Rooted(db.states)
      BY <2>1 DEF HasBlockAndState, Database, Whole
    <2>3. Ancestor(b, n) \in db.states
      BY <2>2, AncestorsIn
    <2> QED
      BY <2>1, <2>3 DEF HasBlockAndState, GetBlock, Whole
  <1> QED
    BY <1>1, IInvHolds, PTL

\* Until the chain is rewound, the three heads of a running node are in the
\* database with what imports need of them, a restart finds the full head and
\* the header head that were in memory, and no start hangs, wherever crashes cut
\* the writes before.
HeadsSurviveCrashes == rewinds = 0 => HeadsResolve /\ HeadsDurable /\ NeverHangs

THEOREM HeadsDoSurviveCrashes == Spec => []HeadsSurviveCrashes
  <1>1. IInv => HeadsSurviveCrashes
    <2> SUFFICES ASSUME IInv, rewinds = 0
                 PROVE  HeadsResolve /\ HeadsDurable /\ NeverHangs
      BY DEF HeadsSurviveCrashes
    <2>1. db \in Database /\ Whole(db) /\ Heads
      BY DEF IInv, Durable
    <2>2. NeverHangs
      BY <2>1 DEF Heads, NeverHangs
    <2>3. ASSUME status = "up"
          PROVE  /\ bc.currentBlock \in db.states /\ bc.currentHeader \in db.states
                 /\ bc.currentFastBlock \in db.states
                 /\ db.headBlock = bc.currentBlock /\ db.headHeader = bc.currentHeader
      BY <2>1, <2>3 DEF Heads, HeadsIn
    <2>4. HeadsResolve
      BY <2>1, <2>3, SMTT(30) DEF HeadsResolve, HasBlockAndState, GetBlock, Whole
    <2>5. HeadsDurable
      BY <2>1, <2>3
      DEF HeadsDurable, loads, loadedHeads, HasBlockAndState, GetBlock, Whole
    <2> QED
      BY <2>2, <2>4, <2>5
  <1> QED
    BY <1>1, IInvHolds, PTL

\* While nothing crashes or rewinds, the canonical hashes are the head's chain
\* and nothing else, and reorg drops at least one block ("Impossible reorg" is
\* never logged).
CanonicalFollowsHead ==
  rewinds = 0 /\ crashes = 0 => CanonicalIsHeadChain /\ ReorgDropsBlocks

THEOREM CanonicalDoesFollowHead == Spec => []CanonicalFollowsHead
  <1>1. IInv => CanonicalFollowsHead
    <2> SUFFICES ASSUME IInv, rewinds = 0, crashes = 0
                 PROVE  CanonicalIsHeadChain /\ ReorgDropsBlocks
      BY DEF CanonicalFollowsHead
    <2>1. Durable /\ Orderly
      BY DEF IInv
    <2>2. db \in Database /\ bc \in HeadsIn(db.states) /\ Rooted(db.states)
      BY <2>1 DEF Durable, Heads, Whole, Orderly
    <2>3. /\ \A n \in Number : db.canonical[n] = IF n <= Len(bc.currentBlock)
                                                 THEN Ancestor(bc.currentBlock, n) ELSE None
          /\ \A c \in db.states : Len(c) <= Len(bc.currentBlock)
      BY <2>1 DEF Orderly, CanonicalIsHeadChain
    <2>4. ASSUME NEW i \in Importer, NEW coin \in BOOLEAN, importing[i].ptd,
                 reorgs(bc, importing[i].block, coin)
          PROVE  commonBlock(bc.currentBlock, importing[i].block) # bc.currentBlock
      <3>1. PICK b \in Block :
              /\ b = importing[i].block /\ b # genesisBlock
              /\ b \notin db.states /\ ParentOf(b) \in db.states
              /\ \E e, h : StoredInto(db, bc, b, coin, e, h)
        BY <2>1, <2>4, WriteEffect, ZenonT(60) DEF Orderly
      <3>2. PICK e, h : StoredInto(db, bc, b, coin, e, h)
        BY <3>1
      <3>3. reorgs(bc, b, coin) => commonBlock(bc.currentBlock, b) # bc.currentBlock
        BY <2>2, <2>3, <3>1, <3>2, CanonicalAfterWrite
      <3> QED
        BY <2>4, <3>1, <3>3, SMTT(30)
    <2>5. ReorgDropsBlocks
      BY <2>4 DEF ReorgDropsBlocks
    <2> QED
      BY <2>1, <2>5 DEF Orderly
  <1> QED
    BY <1>1, IInvHolds, PTL

\* While nothing crashes or rewinds, the store implements the longest chain:
\* importers that interleave, reorganisations and the order of the writes lose
\* no block, and the head is replaced only by a block at least as high.
Calm == crashes = 0 /\ rewinds = 0

THEOREM StoreImplementsLongestChain == Spec /\ []Calm => ImplementsLongestChain
  <1> DEFINE stored == {b \in Block : HasBlockAndState(db, b)}
  <1>1. Init => Chain!Init
    <2> SUFFICES ASSUME Init
                 PROVE  stored = {<< >>} /\ bc.currentBlock = << >>
      BY DEF Chain!Init
    <2>1. db.headers = {genesisBlock} /\ db.bodies = {genesisBlock} /\ db.states = {genesisBlock}
      BY DEF Init
    <2>2. bc.currentBlock = genesisBlock
      BY SMTT(30) DEF Init, genesisHeads
    <2> QED
      BY <2>1, <2>2, BlockChainAssumption DEF HasBlockAndState, GetBlock, genesisBlock
  <1>2. IInv /\ Calm /\ Calm' /\ [Next]_vars => [Chain!Next]_(Chain!vars)
    <2> SUFFICES ASSUME IInv, Calm, Calm', [Next]_vars
                 PROVE  Chain!Next \/ (stored' = stored /\ bc'.currentBlock = bc.currentBlock)
      BY DEF Chain!vars
    <2>1. Durable /\ Orderly
      BY DEF IInv, Calm
    <2>2. stored = db.states
      BY <2>1 DEF Durable, Database, Whole, HasBlockAndState, GetBlock
    <2>3. ASSUME NEW i \in Importer, NEW coin \in BOOLEAN, WriteBlockAndState(i, coin)
          PROVE  Chain!Next
      <3>1. PICK b \in Block :
              /\ b # genesisBlock /\ b \notin db.states /\ ParentOf(b) \in db.states
              /\ StoredInto(db, bc, b, coin, db', bc')
        BY <2>1, <2>3, WriteEffect, ZenonT(60) DEF WriteBlockAndState
      <3>2. Durable'
        BY <2>3, WriteBlockAndStateIInv DEF IInv, Calm
      <3>3. stored' = db'.states
        BY <3>2, SMTT(30) DEF Durable, Database, Whole, HasBlockAndState, GetBlock
      <3>4. stored' = stored \cup {b}
        BY <2>2, <3>1, <3>3 DEF StoredInto
      <3>5. Len(b) \in Nat /\ Len(bc.currentBlock) \in Nat
        BY <2>1, BlockIsSeq DEF Durable, Heads, HeadsIn, Database, Orderly
      <3>6. \/ Len(b) <= Len(bc.currentBlock) /\ bc'.currentBlock = bc.currentBlock
            \/ Len(b) >= Len(bc.currentBlock) /\ bc'.currentBlock = b
        <4>1. bc'.currentBlock = IF wins(b, bc.currentBlock, coin) THEN b ELSE bc.currentBlock
          BY <3>1 DEF StoredInto
        <4> QED
          BY <3>5, <4>1, SMTT(30) DEF wins
      <3>7. Chain!Add(b)
        <4>1. Chain!Parent(b) = ParentOf(b)
          BY DEF Chain!Parent, ParentOf
        <4>2. b \notin stored /\ Chain!Parent(b) \in stored
          BY <2>2, <3>1, <4>1
        <4> QED
          BY <3>4, <3>6, <4>2 DEF Chain!Add
      <3> QED
        BY <3>1, <3>7, SMTT(30) DEF Chain!Next, genesisBlock
    <2>4. ASSUME \/ \E i \in Importer : (\E b \in Block : Validate(i, b)) \/ readTd(i)
                 \/ UNCHANGED vars
          PROVE  stored' = stored /\ bc'.currentBlock = bc.currentBlock
      BY <2>4 DEF Validate, readTd, vars, HasBlockAndState, GetBlock
    <2>5. ASSUME NEW i \in Importer, NEW coin \in BOOLEAN, crashInWrite(i, coin)
          PROVE  FALSE
      BY <2>5 DEF crashInWrite, Dies, Calm
    <2>6. ASSUME NEW n \in Number, SetHead(n) \/ crashInSetHead(n)
          PROVE  FALSE
      BY <2>6, SMTT(30) DEF SetHead, crashInSetHead, Calm
    <2>7. ASSUME NewBlockChain \/ crashInStart
          PROVE  FALSE
      BY <2>1, <2>7 DEF NewBlockChain, crashInStart, Orderly
    <2> QED
      BY <2>3, <2>4, <2>5, <2>6, <2>7 DEF Next
  <1> QED
    BY <1>1, <1>2, IInvHolds, PTL DEF Spec, ImplementsLongestChain, Chain!Spec
=============================================================================
