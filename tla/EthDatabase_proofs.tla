------------------------- MODULE EthDatabase_proofs -------------------------
(***************************************************************************)
(* Proofs about the operators of EthDatabase: what each method of Database *)
(* does to the rows of `blocks`, `txs`, `token_txs` and `bigints`, and to  *)
(* the chain, the next id, the timestamp index and the address cache in    *)
(* memory.                                                                 *)
(***************************************************************************)
EXTENDS EthDatabase, FiniteSetTheorems, SequenceTheorems, WellFoundedInduction, TLAPS

Fields == {"blocks", "txs", "token_txs", "bigints", "chain", "cache", "next_tx_id", "index"}

\* The rows `bs` are n blocks of one chain, in order, the first of number f.
OneChain(bs, n, f) ==
    /\ bs = [i \in 1..n |-> bs[i]]
    /\ \A i \in 1..n :
          /\ bs[i].hash \in Hashes
          /\ Number(bs[i].hash) = i - 1 + f
          /\ \A j \in i..n : bs[i].hash = Lineage[bs[j].hash][i + f]

\* The chain in memory is that of the rows.
InMemory(d) ==
    d.chain = [i \in 1..Len(d.chain) |-> [hash |-> d.blocks[i].hash, id |-> i]]

\* An open Database holds one chain, the same in its table and in memory.
Holds(d, f) ==
    /\ DOMAIN d = Fields
    /\ Len(d.chain) \in Nat
    /\ OneChain(d.blocks, Len(d.chain), f)
    /\ InMemory(d)

-----------------------------------------------------------------------------
(***************************************************************************)
(* Induction over an interval, and blocks of the node.                     *)
(***************************************************************************)

\* What holds of 0 and is passed from i to i + 1 holds of 0..n.
LEMMA SegmentInduction ==
    ASSUME NEW n \in Nat, NEW S,
           0 \in S, \A i \in 0..(n - 1) : i \in S => i + 1 \in S
    PROVE  \A i \in 0..n : i \in S
<1> DEFINE Bad == (0..n) \ S
           Below == {0..i : i \in Bad}
<1>1. SUFFICES ASSUME Bad # {} PROVE FALSE
  OBVIOUS
<1>2. \A i \in Nat : 0..i \in FiniteSubsetsOf(Nat)
  BY FS_Interval DEF FiniteSubsetsOf
<1>3. Below \subseteq FiniteSubsetsOf(Nat) /\ Below # {}
  BY <1>1, <1>2
<1>4. PICK T \in Below : \A U \in Below : <<U, T>> \notin StrictSubsetOrdering(Nat)
  <2> HIDE DEF Below
  <2> QED BY <1>3, FS_StrictSubsetOrderingWellFounded, WFMin
<1>5. PICK i \in Bad : T = 0..i
  BY <1>4
<1>6. i # 0 /\ i - 1 \in Bad
  BY <1>5
<1>7. 0..(i - 1) \in Below
  BY <1>6
<1>8. 0..(i - 1) \subseteq 0..i /\ i \in 0..i /\ i \notin 0..(i - 1)
  BY <1>5
<1>9. <<0..(i - 1), 0..i>> \in StrictSubsetOrdering(Nat)
  <2>1. 0..(i - 1) \in SUBSET Nat /\ 0..i \in SUBSET Nat
    BY <1>5, <1>6
  <2>2. 0..(i - 1) # 0..i
    BY <1>8
  <2> QED BY <1>8, <2>1, <2>2 DEF StrictSubsetOrdering
<1> QED BY <1>4, <1>5, <1>7, <1>9

\* Blocks of the node: what EthAssumption says of the lineage of one.
LEMMA BlockFacts ==
    ASSUME NEW h \in Hashes
    PROVE  /\ Lineage[h] \in Seq(Hashes)
           /\ Number(h) \in Nat /\ Len(Lineage[h]) = Number(h) + 1
           /\ Lineage[h][Number(h) + 1] = h
           /\ \A i \in 1..(Number(h) + 1) :
                 /\ Lineage[h][i] \in Hashes
                 /\ Number(Lineage[h][i]) = i - 1
                 /\ \A j \in 1..i : Lineage[Lineage[h][i]][j] = Lineage[h][j]
<1> DEFINE L == Lineage[h]
<1>1. /\ L \in Seq(Hashes) /\ L # <<>> /\ L[Len(L)] = h
      /\ \A i \in 1..Len(L) : Lineage[L[i]] = SubSeq(L, 1, i)
  BY EthAssumption DEF EthAssumption, Last
<1>2. Len(L) \in Nat \ {0}
  BY <1>1, LenProperties, EmptySeq
<1>3. ASSUME NEW i \in 1..Len(L)
      PROVE  /\ L[i] \in Hashes
             /\ Len(Lineage[L[i]]) = i
             /\ \A j \in 1..i : Lineage[L[i]][j] = L[j]
  <2>1. \A j \in 1..i : L[j] \in Hashes
    BY <1>1, <1>2, ElementOfSeq
  <2>2. Len(SubSeq(L, 1, i)) = i /\ \A j \in 1..i : SubSeq(L, 1, i)[j] = L[j]
    BY <2>1, <1>2, SubSeqProperties
  <2> QED
    BY <1>1, <1>2, <2>1, <2>2
<1> QED
  BY <1>1, <1>2, <1>3 DEF Number

\* The parent of a block that has one.
LEMMA ParentFacts ==
    ASSUME NEW h \in Hashes, Number(h) # 0
    PROVE  /\ ParentOf(h) \in Hashes
           /\ Number(ParentOf(h)) = Number(h) - 1
           /\ \A j \in 1..Number(h) : Lineage[h][j] = Lineage[ParentOf(h)][j]
<1>1. Number(h) \in 1..(Number(h) + 1)
  BY BlockFacts
<1> QED BY <1>1, BlockFacts DEF ParentOf

\* The largest number of 1..n.
LEMMA MaxOfSegment ==
    ASSUME NEW n \in Nat \ {0}
    PROVE  Max(1..n) = n
<1>1. n \in 1..n /\ \A y \in 1..n : n >= y
  OBVIOUS
<1>2. \A x \in 1..n : (\A y \in 1..n : x >= y) => x = n
  BY <1>1
<1> QED BY <1>1, <1>2 DEF Max

\* The next key of a table whose keys are 1..n.
LEMMA NextKeyOfSegment ==
    ASSUME NEW n \in Nat, NEW t, t = [i \in 1..n |-> t[i]]
    PROVE  NextKey(t) = n + 1
<1>1. CASE n = 0
  <2>1. t = <<>>
    BY <1>1
  <2> QED BY <1>1, <2>1 DEF NextKey
<1>2. CASE n # 0
  <2>1. DOMAIN t = 1..n /\ t # <<>>
    BY <1>2
  <2> QED BY <1>2, <2>1, MaxOfSegment DEF NextKey
<1> QED BY <1>1, <1>2

\* A function on 1..n has length n.
LEMMA LenDomain ==
    ASSUME NEW n \in Nat, NEW s, DOMAIN s = 1..n
    PROVE  Len(s) = n
OBVIOUS

-----------------------------------------------------------------------------
(***************************************************************************)
(* What inserting leaves alone.                                            *)
(***************************************************************************)

\* Two Databases with the same blocks, chain and index.
SameChain(d, e) ==
    /\ DOMAIN e = Fields
    /\ e.blocks = d.blocks /\ e.chain = d.chain /\ e.index = d.index
    /\ e.next_tx_id = d.next_tx_id

LEMMA EncodeAllFrame ==
    ASSUME NEW d, DOMAIN d = Fields, NEW as
    PROVE  SameChain(d, EncodeAll(d, as))
BY DEF SameChain, EncodeAll, Fields

LEMMA EncodeFrame ==
    ASSUME NEW d, DOMAIN d = Fields, NEW a
    PROVE  SameChain(d, Encode(d, a))
BY EncodeAllFrame DEF Encode

LEMMA AddTokenTransactionsFrame ==
    ASSUME NEW d, DOMAIN d = Fields, NEW ids, NEW calls
    PROVE  SameChain(d, AddTokenTransactions(d, ids, calls))
<1> DEFINE as == FlattenSeq([i \in DOMAIN ids |-> <<calls[i].sender, calls[i].receiver>>])
           e == EncodeAll(d, as)
<1>1. SameChain(d, e)
  BY EncodeAllFrame
<1>2. \E rows : AddTokenTransactions(d, ids, calls) = [e EXCEPT !.token_txs = rows]
  BY DEF AddTokenTransactions
<1> HIDE DEF e
<1> QED BY <1>1, <1>2 DEF SameChain, Fields

LEMMA InsertTransactionsFrame ==
    ASSUME NEW d, DOMAIN d = Fields, NEW h, NEW n, NEW calls
    PROVE  SameChain(d, InsertTransactions(d, h, n, calls))
<1>1. PICK as, rows, ids, cs :
        InsertTransactions(d, h, n, calls) =
        AddTokenTransactions([EncodeAll(d, as) EXCEPT !.txs = rows], ids, cs)
  BY DEF InsertTransactions
<1> DEFINE e == EncodeAll(d, as)
           f == [e EXCEPT !.txs = rows]
<1>2. SameChain(d, e)
  BY EncodeAllFrame
<1>3. SameChain(d, f)
  <2> HIDE DEF e
  <2> QED BY <1>2 DEF SameChain, Fields
<1>4. SameChain(f, AddTokenTransactions(f, ids, cs))
  <2> HIDE DEF f
  <2> QED BY <1>3, AddTokenTransactionsFrame DEF SameChain
<1>5. InsertTransactions(d, h, n, calls) = AddTokenTransactions(f, ids, cs)
  BY <1>1
<1> HIDE DEF e, f
<1> QED BY <1>3, <1>4, <1>5 DEF SameChain

\* `cs` is the table `bs` with one more row, at its next key.
AddsRow(cs, bs, row) ==
    cs = [k \in DOMAIN bs \cup {NextKey(bs)} |-> IF k \in DOMAIN bs THEN bs[k] ELSE row]

\* `row` is what InsertOnlyBlock adds to d for the block h, which gives o.
AddsBlock(o, d, h, row) ==
    /\ row.hash = h
    /\ row.first = d.next_tx_id /\ row.count = Len(Txs[h])
    /\ AddsRow(o.blocks, d.blocks, row)
    /\ o.index = AddSpan(d.index, Span(row))

\* InsertOnlyBlock adds a row for the block.
LEMMA InsertOnlyBlockAdds ==
    ASSUME NEW d, DOMAIN d = Fields, NEW h
    PROVE  /\ DOMAIN InsertOnlyBlock(d, h) = Fields
           /\ InsertOnlyBlock(d, h).chain = d.chain
           /\ InsertOnlyBlock(d, h).next_tx_id = d.next_tx_id
           /\ \E row : AddsBlock(InsertOnlyBlock(d, h), d, h, row)
<1> DEFINE e == Encode(d, Miner[h])
           row == [hash |-> h, miner |-> AddressId(e, Miner[h]),
                   first |-> e.next_tx_id, count |-> Len(Txs[h])]
           f == [e EXCEPT !.blocks = With(@, [k \in {NextKey(@)} |-> row]),
                          !.index = AddSpan(@, Span(row))]
<1>1. SameChain(d, e)
  BY EncodeFrame
<1>2. /\ row.hash = h
      /\ row.first = d.next_tx_id /\ row.count = Len(Txs[h])
  BY <1>1 DEF SameChain
<1>3. InsertOnlyBlock(d, h) = f
  BY DEF InsertOnlyBlock
<1>4. /\ DOMAIN f = Fields /\ f.chain = d.chain /\ f.next_tx_id = d.next_tx_id
      /\ AddsRow(f.blocks, d.blocks, row)
      /\ f.index = AddSpan(d.index, Span(row))
  <2> HIDE DEF e, row
  <2> QED BY <1>1 DEF SameChain, Fields, AddsRow, With
<1> HIDE DEF e, row, f
<1>5. AddsBlock(f, d, h, row)
  BY <1>2, <1>4 DEF AddsBlock
<1> QED BY <1>3, <1>4, <1>5

\* A row that gets the key after 1..n.
LEMMA RowAdded ==
    ASSUME NEW n \in Nat, NEW bs, bs = [i \in 1..n |-> bs[i]],
           NEW row, NEW cs, AddsRow(cs, bs, row)
    PROVE  /\ cs = [i \in 1..(n + 1) |-> cs[i]]
           /\ \A i \in 1..n : cs[i] = bs[i]
           /\ cs[n + 1] = row
           /\ Max(DOMAIN cs) = n + 1
<1>1. NextKey(bs) = n + 1
  BY NextKeyOfSegment
<1>2. DOMAIN bs = 1..n
  OBVIOUS
<1>3. 1..n \cup {n + 1} = 1..(n + 1) /\ n + 1 \notin 1..n
  OBVIOUS
<1>4. cs = [i \in 1..(n + 1) |-> IF i \in 1..n THEN bs[i] ELSE row]
  BY <1>1, <1>2, <1>3 DEF AddsRow
<1>5. Max(1..(n + 1)) = n + 1
  BY MaxOfSegment
<1> QED BY <1>3, <1>4, <1>5

\* InsertBlock puts the block on the chain, in the table and in memory: on an
\* empty one the first block, else a block whose parent is the last.
LEMMA InsertBlockExtends ==
    ASSUME NEW d, NEW f \in Nat, Holds(d, f), NEW h \in Hashes, NEW calls,
           IF d.chain = <<>> THEN Number(h) = f
           ELSE /\ Number(h) # 0
                /\ ParentOf(h) = d.chain[Len(d.chain)].hash
    PROVE  /\ Holds(InsertBlock(d, h, calls), f)
           /\ Len(InsertBlock(d, h, calls).chain) = Len(d.chain) + 1
           /\ InsertBlock(d, h, calls).chain[Len(d.chain) + 1].hash = h
<1> DEFINE n == Len(d.chain)
           o == InsertOnlyBlock(d, h)
           t == InsertTransactions(o, h, Len(Txs[h]), calls)
           e == InsertBlock(d, h, calls)
           bs == d.blocks
           cs == o.blocks
<1>1. n \in Nat /\ DOMAIN d = Fields /\ OneChain(bs, n, f) /\ InMemory(d)
  BY DEF Holds
<1>2. PICK row : row.hash = h /\ AddsRow(cs, bs, row)
  BY <1>1, InsertOnlyBlockAdds DEF AddsBlock
<1>3. /\ DOMAIN o = Fields /\ o.chain = d.chain
  BY <1>1, InsertOnlyBlockAdds
<1>4. SameChain(o, t)
  BY <1>3, InsertTransactionsFrame
<1>5. /\ cs = [i \in 1..(n + 1) |-> cs[i]]
      /\ \A i \in 1..n : cs[i] = bs[i]
      /\ cs[n + 1].hash = h
      /\ Max(DOMAIN cs) = n + 1
  <2>1. bs = [i \in 1..n |-> bs[i]]
    BY <1>1 DEF OneChain
  <2> HIDE DEF n, bs, cs
  <2> QED BY <1>1, <1>2, <2>1, RowAdded
<1>6. /\ DOMAIN e = Fields
      /\ e.blocks = cs
      /\ e.chain = Append(d.chain, [hash |-> h, id |-> n + 1])
  <2>1. e = AddNewBlock([t EXCEPT !.next_tx_id = @ + Len(Txs[h])], h, Max(DOMAIN t.blocks))
    BY DEF InsertBlock
  <2>2. t.blocks = cs /\ t.chain = d.chain /\ DOMAIN t = Fields
    BY <1>3, <1>4 DEF SameChain
  <2> HIDE DEF o, t, e, cs
  <2> QED BY <1>5, <2>1, <2>2 DEF AddNewBlock, Fields
<1>7. /\ Len(e.chain) = n + 1
      /\ \A i \in 1..(n + 1) : e.chain[i] = [hash |-> cs[i].hash, id |-> i]
      /\ e.chain = [i \in 1..(n + 1) |-> e.chain[i]]
  <2>1. /\ \A i \in 1..n : d.chain[i] = [hash |-> bs[i].hash, id |-> i]
        /\ d.chain = [i \in 1..n |-> d.chain[i]]
    BY <1>1 DEF InMemory
  <2> DEFINE g == d.chain
             x == [hash |-> h, id |-> n + 1]
  <2>2. /\ DOMAIN Append(g, x) = 1..(n + 1) /\ Append(g, x)[n + 1] = x
        /\ \A i \in 1..n : Append(g, x)[i] = g[i]
        /\ Append(g, x) = [i \in 1..(n + 1) |-> Append(g, x)[i]]
    <3> DEFINE S == {g[i] : i \in 1..n} \cup {x}
    <3>1. g \in Seq(S) /\ x \in S
      BY <1>1, <2>1
    <3> HIDE DEF S, x, g
    <3> QED BY <1>1, <3>1, AppendProperties DEF n, g
  <2>3. \A i \in 1..n : g[i] = [hash |-> cs[i].hash, id |-> i]
    BY <1>5, <2>1
  <2>4. x = [hash |-> cs[n + 1].hash, id |-> n + 1]
    BY <1>5
  <2>5. e.chain = Append(g, x)
    BY <1>6
  <2> HIDE DEF e, cs, n, bs, g, x
  <2>6. DOMAIN e.chain = 1..(n + 1)
    BY <2>2, <2>5
  <2>7. Len(e.chain) = n + 1
    BY <1>1, <2>6, LenDomain
  <2>8. \A i \in 1..(n + 1) : e.chain[i] = [hash |-> cs[i].hash, id |-> i]
    BY <1>1, <2>2, <2>3, <2>4, <2>5
  <2> QED BY <2>2, <2>5, <2>7, <2>8
<1>8. OneChain(cs, n + 1, f)
  <2>1. /\ h \in Hashes /\ Number(h) = n + f
        /\ \A i \in 1..n : cs[i].hash = Lineage[h][i + f]
    <3>1. CASE n = 0
      <4>1. d.chain = <<>>
        BY <1>1, <3>1 DEF InMemory
      <4> QED BY <3>1, <4>1
    <3>2. CASE n # 0
      <4>1. d.chain # <<>> /\ n \in 1..n
        BY <1>1, <3>2
      <4>2. /\ ParentOf(h) = bs[n].hash /\ Number(h) # 0
        BY <1>1, <4>1 DEF InMemory
      <4>3. /\ Number(bs[n].hash) = n - 1 + f
            /\ \A i \in 1..n : bs[i].hash = Lineage[bs[n].hash][i + f]
        <5>1. Number(bs[n].hash) = n - 1 + f
          BY <1>1, <4>1 DEF OneChain
        <5>2. ASSUME NEW i \in 1..n PROVE bs[i].hash = Lineage[bs[n].hash][i + f]
          <6>1. n \in i..n
            BY <1>1
          <6> HIDE DEF bs, n
          <6> QED BY <1>1, <6>1 DEF OneChain
        <5> QED BY <5>1, <5>2
      <4> HIDE DEF bs, cs, n
      <4>4. Number(h) = n + f
        BY <1>1, <4>2, <4>3, ParentFacts, BlockFacts
      <4>5. \A i \in 1..n : i + f \in 1..Number(h)
        BY <1>1, <4>4
      <4> QED BY <1>5, <4>2, <4>3, <4>4, <4>5, ParentFacts
    <3> QED BY <3>1, <3>2
  <2>2. Lineage[h][n + 1 + f] = h
    BY <1>1, <2>1, BlockFacts
  <2> HIDE DEF cs, n
  <2>3. ASSUME NEW i \in 1..(n + 1)
        PROVE  /\ cs[i].hash \in Hashes
               /\ Number(cs[i].hash) = i - 1 + f
               /\ \A j \in i..(n + 1) : cs[i].hash = Lineage[cs[j].hash][i + f]
    <3>1. CASE i = n + 1
      BY <1>1, <1>5, <2>1, <2>2, <3>1
    <3>2. CASE i # n + 1
      <4>1. i \in 1..n
        BY <1>1, <3>2
      <4>2. /\ bs[i].hash \in Hashes
            /\ Number(bs[i].hash) = i - 1 + f
            /\ \A j \in i..n : bs[i].hash = Lineage[bs[j].hash][i + f]
        BY <1>1, <4>1 DEF OneChain
      <4>3. ASSUME NEW j \in i..(n + 1)
            PROVE  cs[i].hash = Lineage[cs[j].hash][i + f]
        <5>1. CASE j = n + 1
          BY <1>5, <2>1, <4>1, <5>1
        <5>2. CASE j # n + 1
          <6>1. j \in i..n /\ j \in 1..n
            BY <1>1, <4>1, <5>2
          <6> QED BY <1>5, <4>1, <4>2, <6>1
        <5> QED BY <5>1, <5>2
      <4> QED BY <1>5, <4>1, <4>2, <4>3
    <3> QED BY <3>1, <3>2
  <2> QED BY <1>5, <2>3 DEF OneChain
<1>9. e.chain[n + 1].hash = h
  <2>1. n + 1 \in 1..(n + 1)
    BY <1>1
  <2> HIDE DEF e, cs, n
  <2>2. e.chain[n + 1] = [hash |-> cs[n + 1].hash, id |-> n + 1]
    BY <1>7, <2>1
  <2> QED BY <1>5, <2>2
<1>10. InMemory(e) /\ Len(e.chain) \in Nat /\ OneChain(e.blocks, Len(e.chain), f)
  <2> HIDE DEF e, cs, n
  <2> QED BY <1>1, <1>6, <1>7, <1>8 DEF InMemory
<1>11. Holds(e, f)
  <2> HIDE DEF e, cs
  <2> QED BY <1>6, <1>10 DEF Holds
<1> QED BY <1>7, <1>9, <1>11

\* A chain in memory is a sequence of blocks with their ids.
LEMMA ChainIsSeq ==
    ASSUME NEW d, NEW f \in Nat, Holds(d, f)
    PROVE  /\ d.chain \in Seq([hash : Hashes, id : Nat])
           /\ DOMAIN d.chain = 1..Len(d.chain)
           /\ DOMAIN d.blocks = 1..Len(d.chain)
           /\ d.chain = <<>> <=> Len(d.chain) = 0
           /\ \A i \in 1..Len(d.chain) :
                 /\ d.chain[i] = [hash |-> d.blocks[i].hash, id |-> i]
                 /\ d.chain[i].hash \in Hashes
                 /\ d.chain[i] \in [hash : Hashes, id : Nat]
                 /\ d.chain[i].id = i
                 /\ Number(d.chain[i].hash) = i - 1 + f
<1> DEFINE n == Len(d.chain)
<1>1. /\ n \in Nat /\ d.chain = [i \in 1..n |-> [hash |-> d.blocks[i].hash, id |-> i]]
      /\ d.blocks = [i \in 1..n |-> d.blocks[i]]
  BY DEF Holds, InMemory, OneChain
<1>2. \A i \in 1..n : d.blocks[i].hash \in Hashes /\ Number(d.blocks[i].hash) = i - 1 + f
  BY DEF Holds, OneChain
<1>3. d.chain \in Seq([hash : Hashes, id : Nat])
  <2>1. \A i \in 1..n : [hash |-> d.blocks[i].hash, id |-> i] \in [hash : Hashes, id : Nat]
    BY <1>2
  <2> HIDE DEF n
  <2> QED BY <1>1, <2>1, IsASeq
<1>4. DOMAIN d.chain = 1..n /\ DOMAIN d.blocks = 1..n /\ (d.chain = <<>> <=> n = 0)
  BY <1>1
<1>5. \A i \in 1..n :
         /\ d.chain[i] = [hash |-> d.blocks[i].hash, id |-> i]
         /\ d.chain[i].hash \in Hashes
         /\ d.chain[i] \in [hash : Hashes, id : Nat]
         /\ d.chain[i].id = i
         /\ Number(d.chain[i].hash) = i - 1 + f
  <2> HIDE DEF n
  <2> QED BY <1>1, <1>2
<1> QED BY <1>3, <1>4, <1>5

\* The blocks above the first k, highest first.
Above(d, k) == Reverse(SubSeq(d.chain, k + 1, Len(d.chain)))

\* They have the ids after k.
LEMMA RevertIds ==
    ASSUME NEW d, NEW f \in Nat, Holds(d, f), NEW k \in 1..Len(d.chain),
           NEW revert, revert = Above(d, k)
    PROVE  /\ Len(revert) = Len(d.chain) - k
           /\ revert = <<>> <=> k = Len(d.chain)
           /\ \A i \in DOMAIN revert : revert[i].id \in (k + 1)..Len(d.chain)
           /\ \A j \in (k + 1)..Len(d.chain) : /\ Len(d.chain) - j + 1 \in DOMAIN revert
                                               /\ revert[Len(d.chain) - j + 1].id = j
<1> DEFINE n == Len(d.chain)
           above == SubSeq(d.chain, k + 1, n)
<1>1. n \in Nat /\ k \in 1..n /\ k \in Nat
  BY DEF Holds
<1>2. /\ Len(above) = n - k /\ above \in Seq([hash : Hashes, id : Nat])
      /\ \A i \in 1..(n - k) : above[i] = d.chain[k + i]
  <2>1. d.chain \in Seq([hash : Hashes, id : Nat])
    BY ChainIsSeq
  <2>2. \A i \in (k + 1)..n : i \in 1..n
    BY <1>1
  <2>3. \A i \in (k + 1)..n : d.chain[i] \in [hash : Hashes, id : Nat]
    BY <2>2, ChainIsSeq
  <2>4. /\ above \in Seq([hash : Hashes, id : Nat])
        /\ Len(above) = IF k + 1 <= n THEN n - (k + 1) + 1 ELSE 0
        /\ \A i \in 1..(n - (k + 1) + 1) : above[i] = d.chain[k + 1 + i - 1]
    <3> HIDE DEF n
    <3> QED BY <1>1, <2>1, <2>3, SubSeqProperties
  <2> HIDE DEF above, n
  <2> QED BY <1>1, <2>4
<1>3. /\ DOMAIN revert = 1..(n - k) /\ Len(revert) = n - k
      /\ \A i \in 1..(n - k) : revert[i] = d.chain[n - i + 1]
  <2>1. revert = Reverse(above)
    BY DEF Above
  <2> HIDE DEF above
  <2>2. revert = [i \in 1..(n - k) |-> above[(n - k) - i + 1]]
    BY <1>2, <2>1 DEF Reverse
  <2>3. \A i \in 1..(n - k) : (n - k) - i + 1 \in 1..(n - k) /\ k + ((n - k) - i + 1) = n - i + 1
    BY <1>1
  <2>4. \A i \in 1..(n - k) : revert[i] = d.chain[n - i + 1]
    <3> HIDE DEF n
    <3> QED BY <1>1, <1>2, <2>2, <2>3
  <2> HIDE DEF n
  <2> QED BY <1>1, <2>2, <2>4, LenDomain
<1>4. /\ \A i \in 1..(n - k) : revert[i].id \in (k + 1)..n
      /\ \A j \in (k + 1)..n : n - j + 1 \in 1..(n - k) /\ revert[n - j + 1].id = j
  <2>1. \A i \in 1..(n - k) : revert[i].id = n - i + 1
    <3>1. \A i \in 1..(n - k) : n - i + 1 \in 1..n
      BY <1>1
    <3>2. \A j \in 1..n : d.chain[j].id = j
      BY <1>1, ChainIsSeq
    <3> HIDE DEF n
    <3> QED BY <1>3, <3>1, <3>2
  <2>2. \A j \in (k + 1)..n : n - j + 1 \in 1..(n - k) /\ n - (n - j + 1) + 1 = j
    BY <1>1
  <2>3. \A i \in 1..(n - k) : n - i + 1 \in (k + 1)..n
    BY <1>1
  <2> HIDE DEF n
  <2> QED BY <2>1, <2>2, <2>3
<1>5. revert = <<>> <=> k = n
  <2>1. revert = <<>> <=> n - k = 0
    <3> HIDE DEF n
    <3> QED BY <1>1, <1>3
  <2> QED BY <1>1, <2>1
<1> QED BY <1>3, <1>4, <1>5

\* DeleteBlocks of all above the first k blocks leaves those.
LEMMA DeleteBlocksTruncates ==
    ASSUME NEW d, NEW f \in Nat, Holds(d, f), NEW k \in 1..Len(d.chain),
           NEW e, e = DeleteBlocks(d, Above(d, k))
    PROVE  /\ Holds(e, f)
           /\ Len(e.chain) = k
           /\ e.chain[k] = d.chain[k]
<1> DEFINE n == Len(d.chain)
           revert == Above(d, k)
           ids == {revert[i].id : i \in DOMAIN revert}
<1>1. /\ n \in Nat /\ DOMAIN d = Fields /\ OneChain(d.blocks, n, f) /\ InMemory(d)
      /\ k \in 1..n /\ k \in Nat
  BY DEF Holds
<1>2. /\ Len(revert) = n - k
      /\ revert = <<>> <=> k = n
      /\ ids = (k + 1)..n
  <2>1. revert = Above(d, k)
    OBVIOUS
  <2> HIDE DEF revert
  <2>2. Len(revert) = n - k
    BY <2>1, RevertIds
  <2>3. revert = <<>> <=> k = n
    BY <2>1, RevertIds
  <2>4. \A i \in DOMAIN revert : revert[i].id \in (k + 1)..n
    BY <2>1, RevertIds
  <2>5. \A j \in (k + 1)..n : n - j + 1 \in DOMAIN revert /\ revert[n - j + 1].id = j
    BY <2>1, RevertIds
  <2>6. ids = (k + 1)..n
    <3> HIDE DEF n
    <3> QED BY <2>4, <2>5
  <2> QED BY <2>2, <2>3, <2>6
<1>4. CASE k = n
  <2>1. revert = <<>>
    BY <1>2, <1>4
  <2>2. e = d
    BY <2>1 DEF DeleteBlocks
  <2> QED BY <1>4, <2>2
<1>5. CASE k # n
  <2>1. revert # <<>>
    BY <1>2, <1>5
  <2>3. /\ DOMAIN e = Fields
        /\ e.blocks = Without(d.blocks, ids)
        /\ e.chain = SubSeq(d.chain, 1, Len(d.chain) - Len(revert))
    <3>1. \E ts, ks, m, x : e = [d EXCEPT !.blocks = Without(d.blocks, ids), !.txs = ts,
                !.token_txs = ks, !.chain = SubSeq(@, 1, Len(@) - Len(revert)),
                !.next_tx_id = m, !.index = x]
      BY <2>1 DEF DeleteBlocks
    <3> HIDE DEF revert, ids
    <3> QED BY <1>1, <3>1 DEF Fields
  <2>4. (1..n) \ ((k + 1)..n) = 1..k
    BY <1>1
  <2>5. /\ e.blocks = [i \in 1..k |-> d.blocks[i]]
    <3>1. DOMAIN d.blocks = 1..n
      BY ChainIsSeq
    <3> HIDE DEF ids, n
    <3> QED BY <1>2, <2>3, <2>4, <3>1 DEF Without
  <2>6. e.chain = [i \in 1..k |-> d.chain[i]] /\ Len(e.chain) = k
    <3>1. e.chain = SubSeq(d.chain, 1, k)
      <4>1. n - (n - k) = k
        BY <1>1
      <4> QED BY <1>2, <2>3, <4>1
    <3>2. \A i \in 1..k : d.chain[i] \in [hash : Hashes, id : Nat]
      <4>1. \A i \in 1..k : i \in 1..n
        BY <1>1
      <4> QED BY <4>1, ChainIsSeq
    <3>3. SubSeq(d.chain, 1, k) \in Seq([hash : Hashes, id : Nat])
          /\ Len(SubSeq(d.chain, 1, k)) = k
          /\ \A i \in 1..k : SubSeq(d.chain, 1, k)[i] = d.chain[i]
      <4>1. d.chain \in Seq([hash : Hashes, id : Nat])
        BY ChainIsSeq
      <4> HIDE DEF n
      <4> QED BY <1>1, <3>2, <4>1, SubSeqProperties
    <3> QED BY <1>1, <3>1, <3>3, LenProperties
  <2>7. OneChain(e.blocks, k, f)
    <3>1. \A i \in 1..k : e.blocks[i] = d.blocks[i] /\ i \in 1..n
      BY <1>1, <2>5
    <3>2. e.blocks = [i \in 1..k |-> e.blocks[i]]
      BY <2>5
    <3>3. ASSUME NEW i \in 1..k, NEW j \in i..k
          PROVE  e.blocks[i].hash = Lineage[e.blocks[j].hash][i + f]
      <4>1. j \in i..n /\ i \in 1..n /\ j \in 1..k
        BY <1>1
      <4>2. d.blocks[i].hash = Lineage[d.blocks[j].hash][i + f]
        BY <1>1, <4>1 DEF OneChain
      <4> QED BY <3>1, <4>1, <4>2
    <3>4. ASSUME NEW i \in 1..k
          PROVE  e.blocks[i].hash \in Hashes /\ Number(e.blocks[i].hash) = i - 1 + f
      BY <1>1, <3>1 DEF OneChain
    <3> QED BY <3>2, <3>3, <3>4 DEF OneChain
  <2>8. InMemory(e)
    <3>1. \A i \in 1..k : d.chain[i] = [hash |-> d.blocks[i].hash, id |-> i]
      BY <1>1, ChainIsSeq
    <3>2. \A i \in 1..k : e.blocks[i] = d.blocks[i]
      BY <2>5
    <3>3. \A i \in 1..k : d.chain[i] = [hash |-> e.blocks[i].hash, id |-> i]
      BY <3>1, <3>2
    <3> QED BY <2>6, <3>3 DEF InMemory
  <2> QED BY <1>1, <2>3, <2>6, <2>7, <2>8 DEF Holds
<1> QED BY <1>4, <1>5

\* TryAddNewBlock finds the parent of a block that is not refused.
LEMMA ParentIsHeld ==
    ASSUME NEW d, NEW f \in Nat, Holds(d, f), NEW h \in Hashes,
           d.chain # <<>>, ~BlockRequired(d, h)
    PROVE  /\ Number(h) # 0
           /\ \E k \in 1..Len(d.chain) :
                 /\ d.chain[k].hash = ParentOf(h)
                 /\ BlocksToRevert(d, h) = Above(d, k)
<1>1. DOMAIN d.chain = 1..Len(d.chain)
  BY ChainIsSeq
<1>2. \E i \in DOMAIN d.chain : Number(h) # 0 /\ d.chain[i].hash = ParentOf(h)
  BY DEF BlockRequired
<1> DEFINE at == CHOOSE i \in DOMAIN d.chain : d.chain[i].hash = ParentOf(h)
<1>3. at \in DOMAIN d.chain /\ d.chain[at].hash = ParentOf(h)
  BY <1>2
<1>4. BlocksToRevert(d, h) = Above(d, at)
  BY DEF BlocksToRevert, Above
<1> HIDE DEF at
<1> QED BY <1>1, <1>2, <1>3, <1>4

\* What PushNewBlock and a turn of InsertBlocks do: after a push the chain
\* ends with the block pushed.
LEMMA PushEndsWith ==
    ASSUME NEW d, NEW f \in Nat, Holds(d, f), NEW h \in Hashes, NEW calls,
           ~BlockRequired(d, h), d.chain = <<>> => Number(h) = f,
           NEW e, e = InsertBlock(DeleteBlocks(d, BlocksToRevert(d, h)), h, calls)
    PROVE  /\ Holds(e, f)
           /\ Len(e.chain) \in Nat \ {0}
           /\ e.chain[Len(e.chain)].hash = h
<1>1. CASE d.chain = <<>>
  <2>1. BlocksToRevert(d, h) = <<>>
    BY <1>1 DEF BlocksToRevert
  <2>2. DeleteBlocks(d, BlocksToRevert(d, h)) = d
    BY <2>1 DEF DeleteBlocks
  <2>3. Len(d.chain) \in Nat
    BY DEF Holds
  <2> QED BY <1>1, <2>2, <2>3, InsertBlockExtends
<1>2. CASE d.chain # <<>>
  <2>1. PICK k \in 1..Len(d.chain) :
           /\ d.chain[k].hash = ParentOf(h)
           /\ BlocksToRevert(d, h) = Above(d, k)
    BY <1>2, ParentIsHeld
  <2> DEFINE c == DeleteBlocks(d, BlocksToRevert(d, h))
  <2>2. Holds(c, f) /\ Len(c.chain) = k /\ c.chain[k] = d.chain[k]
    BY <2>1, DeleteBlocksTruncates
  <2>3. Number(h) # 0 /\ ParentOf(h) = c.chain[Len(c.chain)].hash
    BY <1>2, <2>1, <2>2, ParentIsHeld
  <2>4. c.chain # <<>> /\ k \in Nat \ {0}
    BY <2>1, <2>2, ChainIsSeq DEF Holds
  <2>5. e = InsertBlock(c, h, calls)
    OBVIOUS
  <2> HIDE DEF c
  <2> QED BY <2>2, <2>3, <2>4, <2>5, InsertBlockExtends
<1> QED BY <1>1, <1>2

-----------------------------------------------------------------------------
(***************************************************************************)
(* Opening the database.                                                   *)
(***************************************************************************)

\* What a dead process leaves can be opened: the tables hold one chain.
Stored(d, f) ==
    /\ DOMAIN d = Fields
    /\ d.chain = <<>>
    /\ \E n \in Nat : OneChain(d.blocks, n, f)

\* The rows with a given hash: the blocks of a chain differ.
LEMMA RowOf ==
    ASSUME NEW bs, NEW n \in Nat, NEW f \in Nat, OneChain(bs, n, f), NEW j \in 1..n
    PROVE  {i \in DOMAIN bs : bs[i].hash = bs[j].hash} = {j}
<1>1. DOMAIN bs = 1..n
  BY DEF OneChain
<1>2. \A i \in 1..n : bs[i].hash = bs[j].hash => i = j
  BY DEF OneChain
<1> QED BY <1>1, <1>2

\* The only block that no other follows is the last row.
LEMMA HeadIsLast ==
    ASSUME NEW d, NEW n \in Nat \ {0}, NEW f \in Nat, OneChain(d.blocks, n, f)
    PROVE  HeadRows(d) = {n}
<1> DEFINE bs == d.blocks
<1>1. DOMAIN bs = 1..n
  BY DEF OneChain
<1>2. ASSUME NEW i \in 1..n, NEW j \in 1..n, Number(bs[j].hash) # 0
      PROVE  (ParentOf(bs[j].hash) = bs[i].hash) <=> i = j - 1
  <2>1. /\ bs[j].hash \in Hashes
        /\ Number(bs[j].hash) = j - 1 + f
        /\ Number(bs[i].hash) = i - 1 + f
    BY DEF OneChain
  <2>2. Number(ParentOf(bs[j].hash)) = j - 2 + f
    <3>1. j - 1 + f - 1 = j - 2 + f
      OBVIOUS
    <3> QED BY <1>2, <2>1, <3>1, ParentFacts
  <2>3. CASE i # j - 1
    BY <2>1, <2>2, <2>3
  <2>4. CASE i = j - 1
    <3>1. j \in i..n
      BY <2>4
    <3>2. bs[i].hash = Lineage[bs[j].hash][i + f]
      BY <3>1 DEF OneChain
    <3>3. i + f = Number(bs[j].hash)
      BY <2>1, <2>4
    <3> QED BY <2>4, <3>2, <3>3 DEF ParentOf
  <2> QED BY <2>3, <2>4
<1>3. n \in HeadRows(d)
  <2>1. \A j \in 1..n : n # j - 1
    OBVIOUS
  <2> QED BY <1>1, <1>2, <2>1 DEF HeadRows
<1>4. ASSUME NEW i \in HeadRows(d) PROVE i = n
  <2>1. i \in 1..n
    BY <1>1 DEF HeadRows
  <2>2. CASE i # n
    <3>1. i + 1 \in 1..n /\ i = (i + 1) - 1
      BY <2>1, <2>2
    <3>2. Number(bs[i + 1].hash) = (i + 1) - 1 + f
      BY <3>1 DEF OneChain
    <3>3. Number(bs[i + 1].hash) # 0
      BY <2>1, <3>2
    <3>4. ParentOf(bs[i + 1].hash) = bs[i].hash
      BY <1>2, <2>1, <3>1, <3>3
    <3> QED BY <1>1, <3>1, <3>3, <3>4 DEF HeadRows
  <2> QED BY <2>2
<1> QED BY <1>3, <1>4

\* CppBlockchain() finds the chain of the rows.
LEMMA LoadChainFinds ==
    ASSUME NEW d, NEW n \in Nat, NEW f \in {0, 1}, OneChain(d.blocks, n, f)
    PROVE  LoadChain(d) = [i \in 1..n |-> [hash |-> d.blocks[i].hash, id |-> i]]
<1> DEFINE bs == d.blocks
<1>1. bs = [i \in 1..n |-> bs[i]] /\ DOMAIN bs = 1..n
  BY DEF OneChain
<1>2. CASE n = 0
  <2>1. bs = <<>>
    BY <1>1, <1>2
  <2> QED BY <1>2, <2>1 DEF LoadChain
<1>3. CASE n # 0
  <2> DEFINE head == CHOOSE i \in HeadRows(d) : TRUE
             L == Lineage[bs[head].hash]
             row(h) == {i \in DOMAIN bs : bs[i].hash = h}
             root == CHOOSE k \in DOMAIN L :
                        /\ \A j \in k..Len(L) : row(L[j]) # {}
                        /\ k = 1 \/ row(L[k - 1]) = {}
  <2>1. bs # <<>> /\ n \in 1..n
    BY <1>1, <1>3
  <2>2. head = n
    <3>1. HeadRows(d) = {n}
      BY <1>3, HeadIsLast
    <3> QED BY <3>1
  <2>3. LoadChain(d) = [i \in 1..(Len(L) - root + 1) |->
            [hash |-> L[root + i - 1], id |-> Max(row(L[root + i - 1]))]]
    BY <2>1 DEF LoadChain
  <2>4. /\ Len(L) = n + f /\ DOMAIN L = 1..(n + f)
        /\ \A i \in 1..(n + f) : Number(L[i]) = i - 1
        /\ \A i \in 1..n : L[i + f] = bs[i].hash
    <3>1. bs[n].hash \in Hashes /\ Number(bs[n].hash) = n - 1 + f
      BY <2>1 DEF OneChain
    <3> HIDE DEF head
    <3>2. /\ Len(L) = n + f /\ L \in Seq(Hashes)
          /\ \A i \in 1..(n + f) : Number(L[i]) = i - 1
      <4>1. n - 1 + f + 1 = n + f
        OBVIOUS
      <4> QED BY <2>2, <3>1, <4>1, BlockFacts
    <3>3. ASSUME NEW i \in 1..n PROVE L[i + f] = bs[i].hash
      <4>1. n \in i..n
        BY <2>1
      <4> QED BY <2>2, <4>1 DEF OneChain
    <3> QED BY <3>2, <3>3, LenProperties
  <2>5. ASSUME NEW i \in 1..n PROVE row(L[i + f]) = {i}
    <3>1. row(bs[i].hash) = {i}
      BY RowOf
    <3>2. L[i + f] = bs[i].hash
      BY <2>4
    <3> HIDE DEF row, L
    <3> QED BY <3>1, <3>2
  <2>6. f = 1 => row(L[1]) = {}
    <3>1. \A i \in 1..n : Number(bs[i].hash) = i - 1 + f
      BY DEF OneChain
    <3>2. Number(L[1]) = 0
      BY <2>1, <2>4
    <3>3. f = 1 => \A i \in 1..n : bs[i].hash # L[1]
      <4> HIDE DEF L
      <4> QED BY <3>1, <3>2
    <3> HIDE DEF L
    <3> QED BY <1>1, <3>3
  <2>7. root = f + 1
    <3> DEFINE Is(k) == /\ \A j \in k..Len(L) : row(L[j]) # {}
                        /\ k = 1 \/ row(L[k - 1]) = {}
    <3>1. f + 1 \in DOMAIN L
      BY <1>3, <2>4
    <3>2. Is(f + 1)
      <4>1. \A j \in (f + 1)..(n + f) : j - f \in 1..n /\ (j - f) + f = j
        OBVIOUS
      <4>2. \A j \in (f + 1)..(n + f) : row(L[j]) # {}
        <5> HIDE DEF row, L
        <5> QED BY <2>5, <4>1
      <4>3. f + 1 = 1 \/ row(L[(f + 1) - 1]) = {}
        BY <2>6
      <4> HIDE DEF row, L
      <4> QED BY <2>4, <4>2, <4>3
    <3>3. ASSUME NEW k \in DOMAIN L, Is(k) PROVE k = f + 1
      <4>1. k \in 1..(n + f)
        BY <2>4
      <4>2. CASE k < f + 1
        <5>1. k = 1 /\ f = 1 /\ 1 \in k..Len(L)
          BY <4>1, <4>2, <2>4, <1>3
        <5> QED BY <2>6, <3>3, <5>1
      <4>3. CASE k > f + 1
        <5>1. (k - 1) - f \in 1..n /\ ((k - 1) - f) + f = k - 1 /\ k # 1
          BY <4>1, <4>3
        <5>2. row(L[k - 1]) = {(k - 1) - f}
          <6> HIDE DEF row, L
          <6> QED BY <2>5, <5>1
        <5> HIDE DEF row, L
        <5> QED BY <3>3, <5>1, <5>2
      <4> QED BY <4>1, <4>2, <4>3
    <3> HIDE DEF row, L, Is
    <3> QED BY <3>1, <3>2, <3>3 DEF Is
  <2>8. \A i \in 1..n : Max({i}) = i
    BY DEF Max
  <2>9. Len(L) - root + 1 = n /\ \A i \in 1..n : root + i - 1 = i + f
    <3> HIDE DEF L, root
    <3> QED BY <2>4, <2>7
  <2>10. ASSUME NEW i \in 1..n
         PROVE  L[root + i - 1] = bs[i].hash /\ Max(row(L[root + i - 1])) = i
    <3>1. root + i - 1 = i + f /\ row(L[i + f]) = {i} /\ L[i + f] = bs[i].hash
          /\ Max({i}) = i
      BY <2>4, <2>5, <2>8, <2>9
    <3> HIDE DEF row, L, root
    <3> QED BY <3>1
  <2> HIDE DEF row, L, root
  <2> QED BY <2>3, <2>9, <2>10
<1> QED BY <1>2, <1>3

\* Database() makes of a stored chain an open one.
LEMMA OpenHolds ==
    ASSUME NEW d, NEW f \in {0, 1}, Stored(d, f)
    PROVE  Holds(Open(d), f)
<1> DEFINE e == Open(d)
<1>1. PICK n \in Nat : OneChain(d.blocks, n, f)
  BY DEF Stored
<1>2. /\ DOMAIN e = Fields /\ e.blocks = d.blocks /\ e.chain = LoadChain(d)
  BY DEF Open, Stored, Fields
<1>3. e.chain = [i \in 1..n |-> [hash |-> d.blocks[i].hash, id |-> i]]
  BY <1>1, <1>2, LoadChainFinds
<1>4. Len(e.chain) = n
  <2>1. DOMAIN e.chain = 1..n
    BY <1>3
  <2> HIDE DEF e
  <2> QED BY <2>1, LenDomain
<1>5. e.chain = [i \in 1..n |-> [hash |-> e.blocks[i].hash, id |-> i]]
  BY <1>2, <1>3
<1> HIDE DEF e
<1>6. Holds(e, f)
  BY <1>1, <1>2, <1>4, <1>5 DEF Holds, InMemory
<1> QED BY <1>6 DEF e

\* A process that dies leaves what it held.
LEMMA ForgetStores ==
    ASSUME NEW d, NEW f \in Nat, Holds(d, f)
    PROVE  Stored(Forget(d), f)
<1>1. /\ DOMAIN Forget(d) = Fields /\ Forget(d).blocks = d.blocks
      /\ Forget(d).chain = <<>>
  BY DEF Forget, Holds, Fields
<1>2. OneChain(d.blocks, Len(d.chain), f) /\ Len(d.chain) \in Nat
  BY DEF Holds
<1> QED BY <1>1, <1>2 DEF Stored

\* The first blocks of a chain are one.
LEMMA OneChainPrefix ==
    ASSUME NEW bs, NEW n \in Nat, NEW f \in Nat, OneChain(bs, n, f), NEW k \in 0..n,
           NEW cs, cs = [i \in 1..k |-> bs[i]]
    PROVE  OneChain(cs, k, f)
<1>1. \A i \in 1..k : cs[i] = bs[i] /\ i \in 1..n
  OBVIOUS
<1>2. cs = [i \in 1..k |-> cs[i]]
  OBVIOUS
<1>3. ASSUME NEW i \in 1..k, NEW j \in i..k
      PROVE  cs[i].hash = Lineage[cs[j].hash][i + f]
  <2>1. j \in i..n /\ i \in 1..n /\ j \in 1..k
    OBVIOUS
  <2>2. bs[i].hash = Lineage[bs[j].hash][i + f]
    BY <2>1 DEF OneChain
  <2> QED BY <1>1, <2>1, <2>2
<1>4. ASSUME NEW i \in 1..k
      PROVE  cs[i].hash \in Hashes /\ Number(cs[i].hash) = i - 1 + f
  BY <1>1 DEF OneChain
<1> QED BY <1>2, <1>3, <1>4 DEF OneChain

\* CleanUpDatabase deletes a block and all after it.
LEMMA CleanUpStores ==
    ASSUME NEW d, NEW f \in Nat, Stored(d, f), NEW block \in DOMAIN d.blocks
    PROVE  Stored(CleanUpDatabase(d, block), f)
<1> DEFINE e == CleanUpDatabase(d, block)
<1>1. PICK n \in Nat : OneChain(d.blocks, n, f)
  BY DEF Stored
<1>2. DOMAIN d.blocks = 1..n /\ block \in 1..n
  BY <1>1 DEF OneChain
<1>3. /\ DOMAIN e = Fields /\ e.chain = <<>>
      /\ e.blocks = Without(d.blocks, {i \in DOMAIN d.blocks : i >= block})
  BY DEF CleanUpDatabase, Stored, Fields
<1>4. (1..n) \ {i \in 1..n : i >= block} = 1..(block - 1)
  BY <1>2
<1>5. e.blocks = [i \in 1..(block - 1) |-> d.blocks[i]]
  <2> HIDE DEF e
  <2> QED BY <1>2, <1>3, <1>4 DEF Without
<1>6. block - 1 \in 0..n /\ block - 1 \in Nat
  BY <1>2
<1>7. OneChain(e.blocks, block - 1, f)
  <2> HIDE DEF e
  <2> QED BY <1>1, <1>5, <1>6, OneChainPrefix
<1> QED BY <1>3, <1>6, <1>7 DEF Stored

-----------------------------------------------------------------------------
(***************************************************************************)
(* The timestamp index: what find_first_true finds.                        *)
(***************************************************************************)

Pivot(b, e) == b + (e - b) \div 2
Half(b, e, k) == IF Pivot(b, e) >= k THEN <<b, Pivot(b, e)>> ELSE <<Pivot(b, e), e>>

\* A turn of the loop of find_first_true.
Turn(g, r, k) == IF r[2] - r[1] <= 1 THEN r[2] ELSE g[Half(r[1], r[2], k)]

LEMMA PivotBetween ==
    ASSUME NEW b \in Nat, NEW e \in Nat, e - b > 1
    PROVE  Pivot(b, e) \in Nat /\ b < Pivot(b, e) /\ Pivot(b, e) < e
BY DEF Pivot

\* What find_first_true answers for places b and e of which some lie below k.
LEMMA BisectFixpoint ==
    ASSUME NEW n \in Nat, NEW k \in 1..n
    PROVE  \E g : g = [r \in (1..n) \X (1..(n + 1)) |-> Turn(g, r, k)]
<1> DEFINE F(b, e) == IF e - b <= 1 THEN e ELSE IF k <= b THEN b + 1 ELSE IF k <= e THEN k ELSE e
           D == (1..n) \X (1..(n + 1))
           g == [r \in D |-> F(r[1], r[2])]
<1>1. ASSUME NEW b \in 1..n, NEW e \in 1..(n + 1), e - b > 1
      PROVE  /\ Half(b, e, k) \in D
             /\ F(Half(b, e, k)[1], Half(b, e, k)[2]) = F(b, e)
  <2> DEFINE p == Pivot(b, e)
  <2>1. p \in Nat /\ b < p /\ p < e
    BY <1>1, PivotBetween
  <2>2. CASE p >= k
    <3>1. Half(b, e, k) = <<b, p>> /\ <<b, p>>[1] = b /\ <<b, p>>[2] = p
      BY <2>2 DEF Half
    <3>2. F(b, p) = F(b, e)
      <4> HIDE DEF p
      <4> QED BY <1>1, <2>1, <2>2
    <3>3. <<b, p>> \in D
      <4> HIDE DEF p
      <4> QED BY <2>1
    <3> HIDE DEF F, D, p
    <3> QED BY <3>1, <3>2, <3>3
  <2>3. CASE ~(p >= k)
    <3>1. Half(b, e, k) = <<p, e>> /\ <<p, e>>[1] = p /\ <<p, e>>[2] = e
      BY <2>3 DEF Half
    <3>2. F(p, e) = F(b, e)
      <4> HIDE DEF p
      <4> QED BY <1>1, <2>1, <2>3
    <3>3. <<p, e>> \in D
      <4> HIDE DEF p
      <4> QED BY <2>1
    <3> HIDE DEF F, D, p
    <3> QED BY <3>1, <3>2, <3>3
  <2> QED BY <2>2, <2>3
<1>2. ASSUME NEW r \in D
      PROVE  F(r[1], r[2]) = Turn(g, r, k)
  <2>1. r[1] \in 1..n /\ r[2] \in 1..(n + 1)
    OBVIOUS
  <2>2. CASE r[2] - r[1] <= 1
    BY <2>2 DEF Turn
  <2>3. CASE ~(r[2] - r[1] <= 1)
    <3>1. /\ Half(r[1], r[2], k) \in D
          /\ F(Half(r[1], r[2], k)[1], Half(r[1], r[2], k)[2]) = F(r[1], r[2])
      <4>1. r[2] - r[1] > 1
        BY <2>1, <2>3
      <4> HIDE DEF F, D
      <4> QED BY <1>1, <2>1, <4>1
    <3>2. Turn(g, r, k) = g[Half(r[1], r[2], k)]
      BY <2>3 DEF Turn
    <3> HIDE DEF F, D
    <3> QED BY <3>1, <3>2
  <2> QED BY <2>2, <2>3
<1>3. g = [r \in D |-> Turn(g, r, k)]
  <2> HIDE DEF F, D
  <2> QED BY <1>2
<1> HIDE DEF g
<1> QED BY <1>3

\* find_first_true finds the first place from which on the predicate holds.
LEMMA FindsFirst ==
    ASSUME NEW n \in Nat, NEW k \in 1..n, NEW yes, yes = k..n
    PROVE  FindFirstTrue(n, yes) = k
<1>1. CASE 1 \in yes
  <2>1. k = 1
    BY <1>1
  <2> QED BY <1>1, <2>1 DEF FindFirstTrue
<1>2. CASE 1 \notin yes
  <2> DEFINE D == (1..n) \X (1..(n + 1))
             Is(g) == g = [r \in D |->
                LET pivot == r[1] + (r[2] - r[1]) \div 2
                IN  IF r[2] - r[1] <= 1 THEN r[2]
                    ELSE g[IF pivot \in yes THEN <<r[1], pivot>> ELSE <<pivot, r[2]>>]]
             bisect == CHOOSE g : Is(g)
  <2>1. FindFirstTrue(n, yes) = bisect[<<1, n + 1>>]
    BY <1>2 DEF FindFirstTrue
  <2>2. ASSUME NEW g PROVE Is(g) <=> g = [r \in D |-> Turn(g, r, k)]
    <3>1. ASSUME NEW r \in D, ~(r[2] - r[1] <= 1)
          PROVE  r[1] + (r[2] - r[1]) \div 2 \in yes <=> Pivot(r[1], r[2]) >= k
      <4>1. Pivot(r[1], r[2]) \in Nat /\ Pivot(r[1], r[2]) <= n
        <5>1. r[1] \in Nat /\ r[2] \in Nat /\ r[2] - r[1] > 1 /\ r[2] <= n + 1
          BY <3>1
        <5> QED BY <5>1, PivotBetween
      <4> QED BY <4>1 DEF Pivot
    <3>2. ASSUME NEW r \in D
          PROVE  (LET pivot == r[1] + (r[2] - r[1]) \div 2
                  IN  IF r[2] - r[1] <= 1 THEN r[2]
                      ELSE g[IF pivot \in yes THEN <<r[1], pivot>> ELSE <<pivot, r[2]>>])
                 = Turn(g, r, k)
      <4>1. CASE r[2] - r[1] <= 1
        BY <4>1 DEF Turn
      <4>2. CASE ~(r[2] - r[1] <= 1)
        BY <3>1, <4>2 DEF Turn, Half, Pivot
      <4> QED BY <4>1, <4>2
    <3> HIDE DEF D
    <3> QED BY <3>2
  <2>3. \E g : Is(g)
    <3>1. PICK g : g = [r \in D |-> Turn(g, r, k)]
      BY BisectFixpoint
    <3> HIDE DEF Is, D
    <3> QED BY <2>2, <3>1
  <2>4. Is(bisect)
    <3> HIDE DEF Is
    <3> QED BY <2>3
  <2>5. bisect = [r \in D |-> Turn(bisect, r, k)]
    <3> HIDE DEF Is, D, bisect
    <3> QED BY <2>2, <2>4
  <2> HIDE DEF bisect
  <2> DEFINE S == {m \in 0..n : \A b \in 1..n, e \in 1..(n + 1) :
                        b < k /\ k <= e /\ e - b <= m => bisect[<<b, e>>] = k}
  <2>6. ASSUME NEW b \in 1..n, NEW e \in 1..(n + 1)
        PROVE  bisect[<<b, e>>] = IF e - b <= 1 THEN e ELSE bisect[Half(b, e, k)]
    <3>1. <<b, e>> \in D /\ <<b, e>>[1] = b /\ <<b, e>>[2] = e
      OBVIOUS
    <3>2. bisect[<<b, e>>] = Turn(bisect, <<b, e>>, k)
      <4> HIDE DEF D
      <4> QED BY <2>5, <3>1
    <3>3. Turn(bisect, <<b, e>>, k) = IF e - b <= 1 THEN e ELSE bisect[Half(b, e, k)]
      BY DEF Turn
    <3> QED BY <3>2, <3>3
  <2>7. 0 \in S
    OBVIOUS
  <2>8. ASSUME NEW m \in 0..(n - 1), m \in S
        PROVE  m + 1 \in S
    <3>1. ASSUME NEW b \in 1..n, NEW e \in 1..(n + 1), b < k, k <= e, e - b <= m + 1
          PROVE  bisect[<<b, e>>] = k
      <4>1. CASE e - b <= 1
        <5>1. e = k
          BY <3>1, <4>1
        <5> QED BY <2>6, <4>1, <5>1
      <4>2. CASE ~(e - b <= 1)
        <5> DEFINE p == Pivot(b, e)
        <5>1. p \in Nat /\ b < p /\ p < e
          <6>1. b \in Nat /\ e \in Nat /\ e - b > 1
            BY <4>2
          <6> QED BY <6>1, PivotBetween
        <5>2. bisect[<<b, e>>] = bisect[Half(b, e, k)]
          BY <2>6, <4>2
        <5>3. CASE p >= k
          <6>1. Half(b, e, k) = <<b, p>>
            BY <5>3 DEF Half
          <6>2. p \in 1..(n + 1) /\ p - b <= m
            <7> HIDE DEF p
            <7> QED BY <3>1, <5>1
          <6> HIDE DEF p
          <6>3. bisect[<<b, p>>] = k
            BY <2>8, <3>1, <5>3, <6>2
          <6> QED BY <5>2, <6>1, <6>3
        <5>4. CASE ~(p >= k)
          <6>1. Half(b, e, k) = <<p, e>>
            BY <5>4 DEF Half
          <6>2. p \in 1..n /\ e - p <= m /\ p < k
            <7> HIDE DEF p
            <7> QED BY <3>1, <5>1, <5>4
          <6> HIDE DEF p
          <6>3. bisect[<<p, e>>] = k
            BY <2>8, <3>1, <6>2
          <6> QED BY <5>2, <6>1, <6>3
        <5> QED BY <5>3, <5>4
      <4> QED BY <4>1, <4>2
    <3>2. m + 1 \in 0..n
      OBVIOUS
    <3> QED BY <3>1, <3>2
  <2>9. n \in S
    <3>1. n \in 0..n
      OBVIOUS
    <3> HIDE DEF S
    <3> QED BY <2>7, <2>8, <3>1, SegmentInduction
  <2>10. 1 < k /\ k <= n + 1 /\ 1 \in 1..n /\ n + 1 \in 1..(n + 1) /\ (n + 1) - 1 <= n
    BY <1>2
  <2>11. bisect[<<1, n + 1>>] = k
    BY <2>9, <2>10
  <2> QED BY <2>1, <2>11
<1> QED BY <1>1, <1>2

-----------------------------------------------------------------------------
(***************************************************************************)
(* Numbers in ascending order.                                             *)
(***************************************************************************)

\* a lists the numbers of S in ascending order.
Lists(a, S) ==
    /\ Len(a) \in Nat
    /\ a = [k \in 1..Len(a) |-> a[k]]
    /\ \A k \in 1..Len(a) : a[k] \in S
    /\ \A i \in S : \E k \in 1..Len(a) : a[k] = i
    /\ \A j, k \in 1..Len(a) : j < k => a[j] < a[k]

\* How many numbers of S are below i.
Rank(S, i) == Cardinality({j \in S : j < i})

LEMMA RankGrows ==
    ASSUME NEW S \in SUBSET Nat, IsFiniteSet(S), NEW i \in S
    PROVE  /\ Rank(S, i) \in Nat /\ Rank(S, i) < Cardinality(S)
           /\ \A j \in S : i < j => Rank(S, i) < Rank(S, j)
<1> DEFINE T(x) == {j \in S : j < x}
<1>1. \A x : IsFiniteSet(T(x)) /\ Cardinality(T(x)) \in Nat
  <2> SUFFICES ASSUME NEW x PROVE IsFiniteSet(T(x)) /\ Cardinality(T(x)) \in Nat
    OBVIOUS
  <2>1. T(x) \in SUBSET S
    OBVIOUS
  <2> HIDE DEF T
  <2> QED BY <2>1, FS_Subset, FS_CardinalityType
<1>2. Cardinality(S) \in Nat
  BY FS_CardinalityType
<1>3. T(i) \in SUBSET S /\ T(i) # S
  OBVIOUS
<1>4. Cardinality(T(i)) < Cardinality(S)
  <2>1. Cardinality(T(i)) <= Cardinality(S) /\ Cardinality(S) # Cardinality(T(i))
    <3> HIDE DEF T
    <3> QED BY <1>3, FS_Subset
  <2> HIDE DEF T
  <2> QED BY <1>1, <1>2, <2>1
<1>5. ASSUME NEW j \in S, i < j
      PROVE  Cardinality(T(i)) < Cardinality(T(j))
  <2>1. T(i) \in SUBSET T(j) /\ T(i) # T(j)
    <3>1. i \in Nat /\ j \in Nat /\ \A x \in S : x \in Nat
      OBVIOUS
    <3>2. \A x \in S : x < i => x < j
      BY <1>5, <3>1
    <3>3. i \in T(j) /\ i \notin T(i)
      BY <1>5, <3>1
    <3>4. \A x \in T(i) : x \in T(j)
      BY <3>2
    <3> HIDE DEF T
    <3> QED BY <3>3, <3>4
  <2>2. Cardinality(T(i)) <= Cardinality(T(j)) /\ Cardinality(T(j)) # Cardinality(T(i))
    <3> HIDE DEF T
    <3> QED BY <1>1, <2>1, FS_Subset
  <2> HIDE DEF T
  <2> QED BY <1>1, <2>2
<1> HIDE DEF T
<1>6. \A x : Rank(S, x) = Cardinality(T(x))
  BY DEF T, Rank
<1> QED BY <1>1, <1>4, <1>5, <1>6

LEMMA AscendingLists ==
    ASSUME NEW S \in SUBSET Nat, IsFiniteSet(S), NEW a, a = Ascending(S)
    PROVE  Lists(a, S) /\ Len(a) = Cardinality(S)
<1> DEFINE c == Cardinality(S)
           f == [i \in S |-> Rank(S, i)]
<1>1. c \in Nat
  BY FS_CardinalityType
<1>2. IsFiniteSet(0..(c - 1)) /\ Cardinality(0..(c - 1)) = c
  <2> HIDE DEF c
  <2> QED BY <1>1, FS_Interval
<1>3. f \in Injection(S, 0..(c - 1))
  <2>1. ASSUME NEW i \in S PROVE Rank(S, i) \in 0..(c - 1)
    BY <1>1, RankGrows
  <2>2. ASSUME NEW i \in S, NEW j \in S, i # j PROVE Rank(S, i) # Rank(S, j)
    <3>1. CASE i < j
      BY <3>1, RankGrows
    <3>2. CASE j < i
      BY <3>2, RankGrows
    <3> QED BY <2>2, <3>1, <3>2
  <2>3. f \in [S -> 0..(c - 1)]
    BY <2>1
  <2>4. \A x, y \in S : f[x] = f[y] => x = y
    BY <2>2
  <2> HIDE DEF f, c
  <2> QED BY <2>3, <2>4 DEF Injection, IsInjective
<1>4. f \in Surjection(S, 0..(c - 1))
  <2> HIDE DEF f, c
  <2> QED BY <1>2, <1>3, FS_Injection DEF c
<1>5. ASSUME NEW k \in 1..c
      PROVE  /\ \E i \in S : Rank(S, i) = k - 1
             /\ a[k] \in S /\ Rank(S, a[k]) = k - 1
  <2>1. k - 1 \in 0..(c - 1)
    BY <1>1
  <2>2. \E i \in S : f[i] = k - 1
    <3> HIDE DEF f, c
    <3> QED BY <1>4, <2>1 DEF Surjection
  <2>3. \E i \in S : Rank(S, i) = k - 1
    BY <2>2
  <2>4. a[k] = CHOOSE i \in S : Rank(S, i) = k - 1
    BY DEF Ascending, Rank
  <2> QED BY <2>3, <2>4
<1>6. a = [k \in 1..c |-> a[k]] /\ DOMAIN a = 1..c
  BY DEF Ascending
<1>7. Len(a) = c
  BY <1>1, <1>6, LenDomain
<1>8. ASSUME NEW i \in S PROVE \E k \in 1..c : a[k] = i
  <2> DEFINE k == Rank(S, i) + 1
  <2>1. k \in 1..c /\ k - 1 = Rank(S, i)
    BY <1>1, RankGrows
  <2>2. a[k] \in S /\ Rank(S, a[k]) = Rank(S, i)
    <3> HIDE DEF k, c
    <3> QED BY <1>5, <2>1
  <2>3. a[k] = i
    <3>1. a[k] \in Nat /\ i \in Nat
      BY <2>2
    <3>2. CASE a[k] < i
      <4>1. Rank(S, a[k]) < Rank(S, i) /\ Rank(S, i) \in Nat
        <5> HIDE DEF k
        <5> QED BY <2>2, <3>2, RankGrows
      <4> QED BY <2>2, <4>1
    <3>3. CASE i < a[k]
      <4>1. Rank(S, i) < Rank(S, a[k]) /\ Rank(S, i) \in Nat
        <5> HIDE DEF k
        <5> QED BY <2>2, <3>3, RankGrows
      <4> QED BY <2>2, <4>1
    <3> HIDE DEF k
    <3> QED BY <3>1, <3>2, <3>3
  <2> HIDE DEF k
  <2> QED BY <2>1, <2>3
<1>9. ASSUME NEW j \in 1..c, NEW k \in 1..c, j < k PROVE a[j] < a[k]
  <2>1. a[j] \in S /\ a[k] \in S /\ Rank(S, a[j]) = j - 1 /\ Rank(S, a[k]) = k - 1
    BY <1>5
  <2>2. CASE a[k] < a[j]
    <3>1. Rank(S, a[k]) < Rank(S, a[j])
      BY <2>1, <2>2, RankGrows
    <3> QED BY <1>9, <2>1, <3>1
  <2>3. CASE a[k] = a[j]
    BY <1>9, <2>1, <2>3
  <2>4. a[k] \in Nat /\ a[j] \in Nat
    BY <2>1
  <2> QED BY <2>2, <2>3, <2>4
<1> HIDE DEF c
<1> QED BY <1>1, <1>5, <1>6, <1>7, <1>8, <1>9 DEF Lists, c

-----------------------------------------------------------------------------
(***************************************************************************)
(* The rows of `txs` beside those of `blocks`.                             *)
(***************************************************************************)

\* The id after the transactions of a row, and after those of the first n.
EndOf(row) == row.first + row.count
NextId(bs, n) == IF n = 0 THEN 1 ELSE EndOf(bs[n])

\* The first n rows name consecutive spans of transaction ids.
Consecutive(bs, n) ==
    /\ \A i \in 1..n : /\ bs[i].first \in Nat \ {0} /\ bs[i].count \in Nat
                       /\ bs[i].count = Len(Txs[bs[i].hash])
    /\ n # 0 => bs[1].first = 1
    /\ \A i, j \in 1..n : i < j => EndOf(bs[i]) <= bs[j].first
    /\ \A i, j \in 1..n : j = i + 1 => EndOf(bs[i]) = bs[j].first

\* A transaction and its row in `txs`: in the span of a block, at its place.
Placed(bs, n, t, tx) ==
    /\ tx.block \in 1..n
    /\ bs[tx.block].first <= t /\ t < EndOf(bs[tx.block])
    /\ tx.tx = <<bs[tx.block].hash, t - bs[tx.block].first + 1>>

\* The rows of `txs` are the transactions of the first n rows of `blocks`.
Filled(bs, txs, n) ==
    /\ txs = [t \in 1..(NextId(bs, n) - 1) |-> txs[t]]
    /\ \A t \in 1..(NextId(bs, n) - 1) : Placed(bs, n, t, txs[t])

LEMMA NextIdFacts ==
    ASSUME NEW n \in Nat, NEW bs, Consecutive(bs, n)
    PROVE  /\ \A k \in 0..n : NextId(bs, k) \in Nat \ {0}
           /\ \A k \in 0..n : \A i \in 1..k : EndOf(bs[i]) <= NextId(bs, k)
           /\ \A k \in 0..n : \A i \in (k + 1)..n : NextId(bs, k) <= bs[i].first
           /\ \A k \in 0..n : NextId(bs, k) <= NextId(bs, n)
           /\ \A i \in 1..n : /\ EndOf(bs[i]) \in Nat
                              /\ NextId(bs, i - 1) = bs[i].first
<1>1. \A i \in 1..n : /\ bs[i].first \in Nat \ {0} /\ bs[i].count \in Nat
                      /\ EndOf(bs[i]) \in Nat \ {0} /\ bs[i].first <= EndOf(bs[i])
  BY DEF Consecutive, EndOf
<1>2. ASSUME NEW k \in 0..n PROVE NextId(bs, k) \in Nat \ {0}
  <2>1. k = 0 \/ k \in 1..n
    OBVIOUS
  <2> QED BY <1>1, <2>1 DEF NextId
<1>3. ASSUME NEW k \in 0..n, NEW i \in 1..k PROVE EndOf(bs[i]) <= NextId(bs, k)
  <2>1. k # 0 /\ k \in 1..n /\ i \in 1..n
    OBVIOUS
  <2>2. CASE i = k
    BY <1>1, <2>1, <2>2 DEF NextId
  <2>3. CASE i # k
    <3>1. i < k
      BY <2>3
    <3>2. EndOf(bs[i]) <= bs[k].first
      BY <2>1, <3>1 DEF Consecutive
    <3>3. bs[k].first <= EndOf(bs[k]) /\ NextId(bs, k) = EndOf(bs[k])
      BY <1>1, <2>1 DEF NextId
    <3> QED BY <1>1, <2>1, <3>2, <3>3
  <2> QED BY <2>2, <2>3
<1>4. ASSUME NEW k \in 0..n, NEW i \in (k + 1)..n PROVE NextId(bs, k) <= bs[i].first
  <2>1. CASE k = 0
    BY <1>1, <2>1 DEF NextId
  <2>2. CASE k # 0
    <3>1. k \in 1..n /\ i \in 1..n /\ k < i
      BY <2>2
    <3> QED BY <2>2, <3>1 DEF Consecutive, NextId
  <2> QED BY <2>1, <2>2
<1>5. ASSUME NEW k \in 0..n PROVE NextId(bs, k) <= NextId(bs, n)
  <2>1. CASE k = n
    BY <1>2, <2>1
  <2>2. CASE k # n
    <3>1. n \in (k + 1)..n /\ n \in 1..n /\ n # 0 /\ n \in 0..n
      BY <2>2
    <3>2. NextId(bs, k) <= bs[n].first /\ bs[n].first <= EndOf(bs[n]) /\ NextId(bs, n) = EndOf(bs[n])
      BY <1>1, <1>4, <3>1 DEF NextId
    <3> QED BY <1>1, <1>2, <3>1, <3>2
  <2> QED BY <2>1, <2>2
<1>6. ASSUME NEW i \in 1..n PROVE NextId(bs, i - 1) = bs[i].first
  <2>1. CASE i = 1
    BY <2>1 DEF NextId, Consecutive
  <2>2. CASE i # 1
    <3>1. i - 1 \in 1..n /\ i = (i - 1) + 1 /\ i - 1 # 0
      BY <2>2
    <3>2. EndOf(bs[i - 1]) = bs[i].first
      BY <3>1 DEF Consecutive
    <3> QED BY <3>1, <3>2 DEF NextId
  <2> QED BY <2>1, <2>2
<1> QED BY <1>1, <1>2, <1>3, <1>4, <1>5, <1>6

\* A transaction lies below the end of the first k blocks if it is of one.
LEMMA BelowNextId ==
    ASSUME NEW n \in Nat, NEW bs, NEW txs, Consecutive(bs, n), Filled(bs, txs, n),
           NEW k \in 0..n, NEW t \in 1..(NextId(bs, n) - 1)
    PROVE  t < NextId(bs, k) <=> txs[t].block <= k
<1> DEFINE i == txs[t].block
<1>1. i \in 1..n /\ bs[i].first <= t /\ t < EndOf(bs[i])
  BY DEF Filled, Placed
<1>2. NextId(bs, k) \in Nat /\ EndOf(bs[i]) \in Nat /\ bs[i].first \in Nat
      /\ NextId(bs, n) \in Nat /\ t \in Nat
  <2>1. NextId(bs, k) \in Nat /\ NextId(bs, n) \in Nat /\ n \in 0..n
    BY NextIdFacts
  <2>2. EndOf(bs[i]) \in Nat /\ bs[i].first \in Nat
    <3> HIDE DEF i
    <3> QED BY <1>1, NextIdFacts DEF Consecutive
  <2> QED BY <2>1, <2>2
<1> HIDE DEF i
<1>3. CASE i <= k
  <2>1. i \in 1..k
    BY <1>1, <1>3
  <2>2. EndOf(bs[i]) <= NextId(bs, k)
    BY <2>1, NextIdFacts
  <2> QED BY <1>1, <1>2, <1>3, <2>2 DEF i
<1>4. CASE ~(i <= k)
  <2>1. i \in (k + 1)..n
    BY <1>1, <1>4
  <2>2. NextId(bs, k) <= bs[i].first
    BY <2>1, NextIdFacts
  <2> QED BY <1>1, <1>2, <1>4, <2>2 DEF i
<1> QED BY <1>3, <1>4

\* The first k blocks and their transactions.
LEMMA FilledPrefix ==
    ASSUME NEW n \in Nat, NEW bs, NEW txs, Consecutive(bs, n), Filled(bs, txs, n),
           NEW k \in 0..n, NEW cs, \A i \in 1..k : cs[i] = bs[i],
           NEW us, us = [t \in 1..(NextId(bs, k) - 1) |-> txs[t]]
    PROVE  /\ Consecutive(cs, k) /\ Filled(cs, us, k)
           /\ NextId(cs, k) = NextId(bs, k)
<1>1. \A i \in 1..k : i \in 1..n /\ cs[i] = bs[i]
  OBVIOUS
<1>2. NextId(cs, k) = NextId(bs, k)
  BY <1>1 DEF NextId
<1>3. k # 0 => 1 \in 1..k
  OBVIOUS
<1>4. Consecutive(cs, k)
  <2>1. \A i \in 1..k : /\ bs[i].first \in Nat \ {0} /\ bs[i].count \in Nat
                        /\ bs[i].count = Len(Txs[bs[i].hash])
    BY <1>1 DEF Consecutive
  <2>2. k # 0 => bs[1].first = 1 /\ cs[1] = bs[1]
    BY <1>1, <1>3 DEF Consecutive
  <2>3. \A i, j \in 1..k : /\ i < j => EndOf(bs[i]) <= bs[j].first
                           /\ j = i + 1 => EndOf(bs[i]) = bs[j].first
    BY <1>1 DEF Consecutive
  <2>4. \A i \in 1..k : /\ cs[i].first \in Nat \ {0} /\ cs[i].count \in Nat
                        /\ cs[i].count = Len(Txs[cs[i].hash])
    BY <1>1, <2>1
  <2>5. k # 0 => cs[1].first = 1
    BY <2>2
  <2>6. \A i, j \in 1..k : /\ i < j => EndOf(cs[i]) <= cs[j].first
                           /\ j = i + 1 => EndOf(cs[i]) = cs[j].first
    BY <1>1, <2>3
  <2> QED BY <2>4, <2>5, <2>6 DEF Consecutive
<1>5. ASSUME NEW t \in 1..(NextId(bs, k) - 1) PROVE Placed(cs, k, t, us[t])
  <2>1. t \in 1..(NextId(bs, n) - 1) /\ t < NextId(bs, k)
    <3>1. NextId(bs, k) \in Nat /\ NextId(bs, n) \in Nat /\ NextId(bs, k) <= NextId(bs, n)
          /\ n \in 0..n
      BY NextIdFacts
    <3> QED BY <3>1
  <2>2. txs[t].block <= k /\ us[t] = txs[t]
    BY <2>1, BelowNextId
  <2>3. Placed(bs, n, t, txs[t])
    BY <2>1 DEF Filled
  <2>4. txs[t].block \in 1..k
    BY <2>2, <2>3 DEF Placed
  <2> QED BY <1>1, <2>2, <2>3, <2>4 DEF Placed
<1>6. Filled(cs, us, k)
  BY <1>2, <1>5 DEF Filled
<1> QED BY <1>2, <1>4, <1>6

\* Rows for the n transactions of the block h, which has the id `block`, from
\* the id `first` on.
NewRows(rows, first, n, block, h) ==
    /\ DOMAIN rows = first..(first + n - 1)
    /\ \A t \in first..(first + n - 1) :
          rows[t].block = block /\ rows[t].tx = <<h, t - first + 1>>

\* One more block and its transactions.
LEMMA FilledExtends ==
    ASSUME NEW n \in Nat, NEW bs, NEW txs, Consecutive(bs, n), Filled(bs, txs, n),
           NEW cs, \A i \in 1..n : cs[i] = bs[i],
           cs[n + 1].first = NextId(bs, n), cs[n + 1].count \in Nat,
           cs[n + 1].count = Len(Txs[cs[n + 1].hash]),
           NEW rows, NewRows(rows, NextId(bs, n), cs[n + 1].count, n + 1, cs[n + 1].hash),
           NEW us, us = With(txs, rows)
    PROVE  Consecutive(cs, n + 1) /\ Filled(cs, us, n + 1)
<1> DEFINE m == NextId(bs, n)
           l == NextId(cs, n + 1)
<1>1. m \in Nat \ {0} /\ l = m + cs[n + 1].count /\ l \in Nat /\ m <= l
  <2>1. m \in Nat \ {0}
    <3>1. n \in 0..n
      OBVIOUS
    <3> QED BY <3>1, NextIdFacts
  <2>2. l = cs[n + 1].first + cs[n + 1].count
    BY DEF NextId, EndOf
  <2> HIDE DEF l, m
  <2> QED BY <2>1, <2>2 DEF m
<1>2. /\ DOMAIN rows = m..(l - 1)
      /\ \A t \in m..(l - 1) :
            rows[t].block = n + 1 /\ rows[t].tx = <<cs[n + 1].hash, t - m + 1>>
  <2>1. m + cs[n + 1].count - 1 = l - 1
    <3> DEFINE c == cs[n + 1].count
    <3>1. c \in Nat /\ l = m + c
      BY <1>1
    <3> HIDE DEF m, l, c
    <3>2. m + c - 1 = l - 1
      BY <1>1, <3>1
    <3> QED BY <3>2 DEF c
  <2> HIDE DEF l
  <2> QED BY <2>1 DEF NewRows
<1>3. ASSUME NEW i \in 1..(n + 1)
      PROVE  /\ cs[i].first \in Nat \ {0} /\ cs[i].count \in Nat
             /\ cs[i].count = Len(Txs[cs[i].hash])
  <2>1. CASE i = n + 1
    BY <1>1, <2>1
  <2>2. CASE i # n + 1
    <3>1. i \in 1..n
      BY <2>2
    <3> QED BY <3>1 DEF Consecutive
  <2> QED BY <2>1, <2>2
<1>4. cs[1].first = 1
  <2>1. CASE n = 0
    BY <2>1 DEF NextId
  <2>2. CASE n # 0
    <3>1. 1 \in 1..n
      BY <2>2
    <3> QED BY <2>2, <3>1 DEF Consecutive
  <2> QED BY <2>1, <2>2
<1>5. ASSUME NEW i \in 1..(n + 1), NEW j \in 1..(n + 1)
      PROVE  /\ i < j => EndOf(cs[i]) <= cs[j].first
             /\ j = i + 1 => EndOf(cs[i]) = cs[j].first
  <2>1. CASE i \in 1..n /\ j \in 1..n
    BY <2>1 DEF Consecutive
  <2>2. CASE i \in 1..n /\ j = n + 1
    <3>1. n \in 0..n /\ i \in 1..n /\ n # 0
      BY <2>2
    <3>2. EndOf(bs[i]) <= m
      BY <3>1, NextIdFacts
    <3>3. i = n => m = EndOf(bs[i])
      BY <3>1 DEF NextId
    <3> QED BY <2>2, <3>2, <3>3
  <2>3. CASE ~(i \in 1..n)
    BY <2>3
  <2> QED BY <2>1, <2>2, <2>3
<1>6. Consecutive(cs, n + 1)
  BY <1>3, <1>4, <1>5 DEF Consecutive
<1>7. /\ us = [t \in 1..(l - 1) |-> us[t]]
      /\ \A t \in 1..(m - 1) : us[t] = txs[t]
      /\ \A t \in m..(l - 1) : us[t] = rows[t]
  <2>1. DOMAIN txs = 1..(m - 1) /\ DOMAIN rows = m..(l - 1)
    BY <1>2 DEF Filled
  <2>2. (1..(m - 1)) \cup (m..(l - 1)) = 1..(l - 1)
    <3> HIDE DEF m, l
    <3> QED BY <1>1
  <2>3. \A t \in m..(l - 1) : t \notin 1..(m - 1)
    <3> HIDE DEF m, l
    <3> QED BY <1>1
  <2> HIDE DEF m, l
  <2> QED BY <2>1, <2>2, <2>3 DEF With
<1>8. ASSUME NEW t \in 1..(l - 1) PROVE Placed(cs, n + 1, t, us[t])
  <2>1. CASE t \in 1..(m - 1)
    <3>1. Placed(bs, n, t, txs[t]) /\ us[t] = txs[t]
      BY <1>7, <2>1 DEF Filled
    <3>2. txs[t].block \in 1..n /\ txs[t].block \in 1..(n + 1)
      BY <3>1 DEF Placed
    <3> QED BY <3>1, <3>2 DEF Placed
  <2>2. CASE t \notin 1..(m - 1)
    <3>1. t \in m..(l - 1) /\ t \in Nat
      <4> HIDE DEF m, l
      <4> QED BY <1>1, <2>2
    <3>2. us[t] = rows[t] /\ rows[t].block = n + 1 /\ rows[t].tx = <<cs[n + 1].hash, t - m + 1>>
      BY <1>7, <1>2, <3>1
    <3>3. n + 1 \in 1..(n + 1) /\ cs[n + 1].first = m /\ EndOf(cs[n + 1]) = l
      BY DEF NextId
    <3>4. us[t].block = n + 1 /\ us[t].tx = <<cs[n + 1].hash, t - m + 1>>
          /\ m <= t /\ t < l
      <4> HIDE DEF m, l
      <4>1. m <= t /\ t < l
        BY <1>1, <3>1
      <4>2. us[t].block = rows[t].block /\ us[t].tx = rows[t].tx
        BY <3>2
      <4> QED BY <3>2, <4>1, <4>2
    <3> HIDE DEF m, l
    <3> QED BY <3>3, <3>4 DEF Placed
  <2> QED BY <2>1, <2>2
<1>9. Filled(cs, us, n + 1)
  BY <1>7, <1>8 DEF Filled
<1> QED BY <1>6, <1>9

-----------------------------------------------------------------------------
(***************************************************************************)
(* The timestamp index beside the rows of `blocks`.                        *)
(***************************************************************************)

\* The timestamp index holds spans of the first n rows, or in S, sorted by
\* begin and by end; every span that holds a transaction is there.
Indexed(ix, bs, n, S) ==
    /\ Len(ix) \in Nat /\ ix = [k \in 1..Len(ix) |-> ix[k]]
    /\ \A k \in 1..Len(ix) : ix[k] \in S \/ \E i \in 1..n : ix[k] = Span(bs[i])
    /\ \A j, k \in 1..Len(ix) : j <= k => ix[j].begin <= ix[k].begin /\ ix[j].end <= ix[k].end
    /\ \A i \in 1..n : bs[i].count # 0 => \E k \in 1..Len(ix) : ix[k] = Span(bs[i])

HasSpan(ix, s) == \E k \in 1..Len(ix) : ix[k] = s

LEMMA SpanFields ==
    \A r : Span(r).begin = r.first /\ Span(r).end = EndOf(r) /\ Span(r).block = r.hash
BY DEF Span, EndOf

\* Spans come in the order of their rows.
LEMMA SpansAscend ==
    ASSUME NEW n \in Nat, NEW bs, Consecutive(bs, n), NEW i \in 1..n, NEW j \in i..n
    PROVE  /\ bs[i].first \in Nat /\ EndOf(bs[i]) \in Nat /\ bs[i].first <= EndOf(bs[i])
           /\ bs[i].first <= bs[j].first /\ EndOf(bs[i]) <= EndOf(bs[j])
<1>1. \A k \in 1..n : /\ bs[k].first \in Nat /\ bs[k].count \in Nat /\ EndOf(bs[k]) \in Nat
                      /\ bs[k].first <= EndOf(bs[k])
  BY DEF Consecutive, EndOf
<1>2. j \in 1..n
  OBVIOUS
<1>3. i # j => EndOf(bs[i]) <= bs[j].first
  BY <1>2 DEF Consecutive
<1> QED BY <1>1, <1>2, <1>3

\* add_block of a span that begins where the transactions end: it is last.
LEMMA AddSpanIndexes ==
    ASSUME NEW n \in Nat, NEW bs, Consecutive(bs, n), NEW s, NEW S, S \subseteq {s},
           NEW ix, Indexed(ix, bs, n, S),
           s.begin = NextId(bs, n), s.end \in Nat, s.begin <= s.end,
           NEW iy, iy = AddSpan(ix, s)
    PROVE  /\ Indexed(iy, bs, n, {s})
           /\ HasSpan(iy, s)
<1> DEFINE l == Len(ix)
<1>1. l \in Nat /\ ix = [k \in 1..l |-> ix[k]]
  BY DEF Indexed
<1>2. s.begin \in Nat
  <2>1. n \in 0..n
    OBVIOUS
  <2> QED BY <2>1, NextIdFacts
<1>3. ASSUME NEW k \in 1..l
      PROVE  /\ ix[k].begin \in Nat /\ ix[k].end \in Nat
             /\ ix[k].begin <= s.begin /\ ix[k].end <= s.end
  <2>1. CASE ix[k] = s
    BY <1>2, <2>1
  <2>2. CASE ix[k] # s
    <3>1. PICK i \in 1..n : ix[k] = Span(bs[i])
      BY <2>2 DEF Indexed
    <3>2. ix[k].begin = bs[i].first /\ ix[k].end = EndOf(bs[i])
      BY <3>1, SpanFields
    <3>3. i \in i..n /\ n \in 0..n
      OBVIOUS
    <3>4. bs[i].first \in Nat /\ EndOf(bs[i]) \in Nat /\ bs[i].first <= EndOf(bs[i])
          /\ EndOf(bs[i]) <= NextId(bs, n)
      BY <3>3, NextIdFacts, SpansAscend
    <3> QED BY <1>2, <3>2, <3>4
  <2> QED BY <2>1, <2>2
<1>4. iy = Append(ix, s)
  <2>1. ix # <<>> => ~(s.end < Last(ix).end)
    <3>1. ix # <<>> => l \in 1..l
      BY <1>1
    <3> QED BY <1>3, <3>1 DEF Last
  <2> QED BY <2>1 DEF AddSpan
<1>5. /\ Len(iy) = l + 1 /\ iy = [k \in 1..(l + 1) |-> iy[k]]
      /\ iy[l + 1] = s /\ \A k \in 1..l : iy[k] = ix[k]
  <2> DEFINE T == {ix[k] : k \in 1..l} \cup {s}
  <2>1. ix \in Seq(T) /\ s \in T
    BY <1>1
  <2> HIDE DEF T
  <2>2. /\ iy \in Seq(T) /\ Len(iy) = l + 1 /\ iy[l + 1] = s
        /\ \A k \in 1..l : iy[k] = ix[k]
    BY <1>1, <1>4, <2>1, AppendProperties
  <2> QED BY <2>2, LenProperties
<1>6. ASSUME NEW k \in 1..(l + 1)
      PROVE  /\ iy[k] \in {s} \/ \E i \in 1..n : iy[k] = Span(bs[i])
             /\ iy[k].begin \in Nat /\ iy[k].end \in Nat
             /\ iy[k].begin <= s.begin /\ iy[k].end <= s.end
  <2>1. CASE k = l + 1
    BY <1>2, <1>5, <2>1
  <2>2. CASE k # l + 1
    <3>1. k \in 1..l
      BY <1>1, <2>2
    <3>2. ix[k] \in {s} \/ \E i \in 1..n : ix[k] = Span(bs[i])
      BY <3>1 DEF Indexed
    <3> QED BY <1>3, <1>5, <3>1, <3>2
  <2> QED BY <2>1, <2>2
<1>7. ASSUME NEW j \in 1..(l + 1), NEW k \in 1..(l + 1), j <= k
      PROVE  iy[j].begin <= iy[k].begin /\ iy[j].end <= iy[k].end
  <2>1. CASE k = l + 1
    BY <1>5, <1>6, <2>1
  <2>2. CASE k # l + 1
    <3>1. k \in 1..l /\ j \in 1..l
      BY <1>1, <1>7, <2>2
    <3>2. ix[j].begin <= ix[k].begin /\ ix[j].end <= ix[k].end
      BY <1>7, <3>1 DEF Indexed
    <3> QED BY <1>5, <3>1, <3>2
  <2> QED BY <2>1, <2>2
<1>8. ASSUME NEW i \in 1..n, bs[i].count # 0
      PROVE  \E k \in 1..(l + 1) : iy[k] = Span(bs[i])
  <2>1. PICK k \in 1..l : ix[k] = Span(bs[i])
    BY <1>8 DEF Indexed
  <2>2. iy[k] = ix[k]
    BY <1>5
  <2>3. k \in 1..(l + 1)
    <3> HIDE DEF l
    <3> QED BY <1>1
  <2> QED BY <2>1, <2>2, <2>3
<1>9. l + 1 \in 1..(l + 1) /\ l + 1 \in Nat
  BY <1>1
<1> HIDE DEF l
<1> QED BY <1>5, <1>6, <1>7, <1>8, <1>9 DEF Indexed, HasSpan

\* The span of a new row is in the index: the index is that of the rows.
LEMMA IndexedExtends ==
    ASSUME NEW n \in Nat, NEW bs, NEW cs, \A i \in 1..n : cs[i] = bs[i],
           NEW s, s = Span(cs[n + 1]),
           NEW ix, Indexed(ix, bs, n, {s}), HasSpan(ix, s)
    PROVE  Indexed(ix, cs, n + 1, {})
<1>1. ASSUME NEW k \in 1..Len(ix) PROVE \E i \in 1..(n + 1) : ix[k] = Span(cs[i])
  <2>1. CASE ix[k] = s
    BY <2>1
  <2>2. CASE ix[k] # s
    <3>1. PICK i \in 1..n : ix[k] = Span(bs[i])
      BY <2>2 DEF Indexed
    <3>2. i \in 1..(n + 1) /\ cs[i] = bs[i]
      OBVIOUS
    <3> QED BY <3>1, <3>2
  <2> QED BY <2>1, <2>2
<1>2. ASSUME NEW i \in 1..(n + 1), cs[i].count # 0
      PROVE  \E k \in 1..Len(ix) : ix[k] = Span(cs[i])
  <2>1. CASE i = n + 1
    BY <2>1 DEF HasSpan
  <2>2. CASE i # n + 1
    <3>1. i \in 1..n /\ cs[i] = bs[i]
      BY <2>2
    <3> QED BY <1>2, <3>1 DEF Indexed
  <2> QED BY <2>1, <2>2
<1> QED BY <1>1, <1>2 DEF Indexed

\* reload_data indexes the rows.
LEMMA ReloadIndexes ==
    ASSUME NEW n \in Nat, NEW bs, DOMAIN bs = 1..n, Consecutive(bs, n),
           NEW ix, ix = ReloadIndex(bs)
    PROVE  Indexed(ix, bs, n, {})
<1> DEFINE S == {i \in DOMAIN bs : bs[i].count # 0}
           ids == Ascending(S)
           c == Len(ids)
<1>1. S \in SUBSET Nat /\ IsFiniteSet(S)
  <2>1. IsFiniteSet(1..n) /\ S \in SUBSET (1..n)
    BY FS_Interval
  <2> HIDE DEF S
  <2>2. IsFiniteSet(S)
    BY <2>1, FS_Subset
  <2> QED BY <2>1, <2>2
<1>2. Lists(ids, S)
  <2> HIDE DEF S
  <2> QED BY <1>1, AscendingLists
<1>3. /\ c \in Nat
      /\ \A k \in 1..c : ids[k] \in 1..n
      /\ \A i \in 1..n : bs[i].count # 0 => \E k \in 1..c : ids[k] = i
      /\ \A j, k \in 1..c : j < k => ids[j] < ids[k]
  <2>1. \A i \in S : i \in 1..n
    OBVIOUS
  <2>2. \A i \in 1..n : bs[i].count # 0 => i \in S
    OBVIOUS
  <2> HIDE DEF S, ids
  <2> QED BY <1>2, <2>1, <2>2 DEF Lists
<1>4. ix = [k \in 1..(2 * c) |-> Span(bs[ids[(k + 1) \div 2]])]
  BY DEF ReloadIndex
<1> HIDE DEF ids, S, c
<1>5. /\ \A k \in 1..(2 * c) : (k + 1) \div 2 \in 1..c
      /\ \A j, k \in 1..(2 * c) : j <= k => (j + 1) \div 2 <= (k + 1) \div 2
      /\ \A k \in 1..c : 2 * k \in 1..(2 * c) /\ (2 * k + 1) \div 2 = k
  BY <1>3
<1>6. /\ Len(ix) = 2 * c /\ Len(ix) \in Nat
      /\ ix = [k \in 1..Len(ix) |-> ix[k]]
      /\ \A k \in 1..(2 * c) : ix[k] = Span(bs[ids[(k + 1) \div 2]])
  <2>1. DOMAIN ix = 1..(2 * c) /\ 2 * c \in Nat
    BY <1>3, <1>4
  <2>2. Len(ix) = 2 * c
    BY <2>1, LenDomain
  <2> QED BY <1>4, <2>1, <2>2
<1>7. \A k \in 1..(2 * c) : \E i \in 1..n : ix[k] = Span(bs[i])
  BY <1>3, <1>5, <1>6
<1>8. ASSUME NEW j \in 1..(2 * c), NEW k \in 1..(2 * c), j <= k
      PROVE  ix[j].begin <= ix[k].begin /\ ix[j].end <= ix[k].end
  <2> DEFINE a == ids[(j + 1) \div 2]
             b == ids[(k + 1) \div 2]
  <2>1. a \in 1..n /\ b \in 1..n /\ a <= b
    <3>1. /\ (j + 1) \div 2 \in 1..c /\ (k + 1) \div 2 \in 1..c
          /\ (j + 1) \div 2 <= (k + 1) \div 2
      BY <1>5, <1>8
    <3> DEFINE x == (j + 1) \div 2
               y == (k + 1) \div 2
    <3> HIDE DEF x, y
    <3>2. x \in 1..c /\ y \in 1..c /\ x <= y
      BY <3>1 DEF x, y
    <3>3. ids[x] \in 1..n /\ ids[y] \in 1..n /\ ids[x] <= ids[y]
      BY <1>3, <3>2
    <3> QED BY <3>3 DEF x, y
  <2>2. ix[j] = Span(bs[a]) /\ ix[k] = Span(bs[b])
    BY <1>6
  <2> HIDE DEF a, b
  <2>3. b \in a..n
    BY <2>1
  <2>4. bs[a].first <= bs[b].first /\ EndOf(bs[a]) <= EndOf(bs[b])
    BY <2>1, <2>3, SpansAscend
  <2> QED BY <2>2, <2>4, SpanFields
<1>9. ASSUME NEW i \in 1..n, bs[i].count # 0
      PROVE  \E k \in 1..(2 * c) : ix[k] = Span(bs[i])
  <2>1. PICK k \in 1..c : ids[k] = i
    BY <1>3, <1>9
  <2>2. 2 * k \in 1..(2 * c) /\ ix[2 * k] = Span(bs[ids[k]])
    BY <1>5, <1>6
  <2> QED BY <2>1, <2>2
<1> QED BY <1>6, <1>7, <1>8, <1>9 DEF Indexed

\* get_timestamp finds the block of a transaction and its place in it.
LEMMA TimestampFound ==
    ASSUME NEW n \in Nat, NEW bs, NEW txs, Consecutive(bs, n), Filled(bs, txs, n),
           NEW ix, Indexed(ix, bs, n, {}), NEW t \in DOMAIN txs
    PROVE  GetTimestamp(ix, t) = {txs[t].tx}
<1> DEFINE l == Len(ix)
           i == txs[t].block
           yes == {k \in DOMAIN ix : ix[k].end > t}
           x == FindFirstTrue(l, yes)
<1>1. t \in 1..(NextId(bs, n) - 1) /\ t \in Nat
  <2>1. DOMAIN txs = 1..(NextId(bs, n) - 1)
    BY DEF Filled
  <2> QED BY <2>1
<1>2. /\ i \in 1..n /\ bs[i].first <= t /\ t < EndOf(bs[i])
      /\ txs[t].tx = <<bs[i].hash, t - bs[i].first + 1>>
  BY <1>1 DEF Filled, Placed
<1> HIDE DEF i
<1>3. \A j \in 1..n : bs[j].first \in Nat /\ EndOf(bs[j]) \in Nat
  BY NextIdFacts DEF Consecutive
<1>4. bs[i].count # 0
  BY <1>1, <1>2, <1>3 DEF EndOf, Consecutive
<1>5. PICK y \in 1..l : ix[y] = Span(bs[i])
  BY <1>2, <1>4 DEF Indexed
<1>6. l \in Nat /\ DOMAIN ix = 1..l
  BY DEF Indexed
<1>7. \A k \in 1..l : \E j \in 1..n : ix[k] = Span(bs[j])
  BY DEF Indexed
<1>8. ASSUME NEW k \in 1..l PROVE ix[k].end \in Nat /\ ix[k].begin \in Nat
  BY <1>3, <1>7, SpanFields
<1>9. \A j, k \in 1..l : j <= k => ix[j].begin <= ix[k].begin /\ ix[j].end <= ix[k].end
  BY DEF Indexed
<1>10. y \in yes /\ yes \subseteq 1..l
  BY <1>1, <1>2, <1>3, <1>5, <1>6, SpanFields
<1>11. PICK k \in yes : \A j \in yes : k <= j
  <2>1. yes \in SUBSET Nat /\ IsFiniteSet(yes)
    <3> HIDE DEF yes
    <3>1. IsFiniteSet(1..l) /\ yes \in SUBSET (1..l)
      BY <1>6, <1>10, FS_Interval
    <3>2. IsFiniteSet(yes)
      BY <3>1, FS_Subset
    <3> QED BY <3>1, <3>2
  <2> HIDE DEF yes
  <2> DEFINE a == Ascending(yes)
  <2>2. Lists(a, yes)
    BY <2>1, AscendingLists
  <2> HIDE DEF a
  <2>3. 1 \in 1..Len(a)
    BY <1>10, <2>2 DEF Lists
  <2>4. a[1] \in yes
    BY <2>2, <2>3 DEF Lists
  <2>5. ASSUME NEW j \in yes PROVE a[1] <= j
    <3>1. PICK k \in 1..Len(a) : a[k] = j
      BY <2>2 DEF Lists
    <3>2. \A m \in yes : m \in Nat
      BY <2>1
    <3>3. a[1] \in Nat /\ a[k] \in Nat
      BY <2>4, <3>1, <3>2
    <3>4. CASE k = 1
      BY <3>1, <3>3, <3>4
    <3>5. CASE k # 1
      <4>1. 1 < k
        BY <2>2, <3>5 DEF Lists
      <4>2. a[1] < a[k]
        BY <2>2, <2>3, <4>1 DEF Lists
      <4> QED BY <3>1, <3>3, <4>2
    <3> QED BY <3>4, <3>5
  <2> QED BY <2>4, <2>5
<1>12. k \in 1..l /\ k <= y
  BY <1>10, <1>11
<1>13. yes = k..l
  <2>1. ASSUME NEW j \in k..l PROVE j \in yes
    <3>1. j \in 1..l /\ ix[k].end <= ix[j].end /\ ix[k].end > t
      BY <1>9, <1>11, <1>12
    <3> QED BY <1>1, <1>6, <1>8, <1>12, <3>1
  <2> HIDE DEF l
  <2> QED BY <1>6, <1>10, <1>11, <1>12, <2>1
<1>14. x = k
  <2> HIDE DEF yes, l
  <2> QED BY <1>6, <1>12, <1>13, FindsFirst
<1>15. ix[k] = Span(bs[i])
  <2>1. PICK j \in 1..n : ix[k] = Span(bs[j])
    BY <1>7, <1>12
  <2>2. EndOf(bs[j]) > t
    BY <1>11, <2>1, SpanFields
  <2>3. bs[j].first <= bs[i].first
    BY <1>5, <1>9, <1>12, <2>1, SpanFields
  <2>4. CASE j < i
    <3>1. EndOf(bs[j]) <= bs[i].first
      BY <1>2, <2>4 DEF Consecutive
    <3> QED BY <1>1, <1>2, <1>3, <2>2, <3>1
  <2>5. CASE i < j
    <3>1. EndOf(bs[i]) <= bs[j].first
      BY <1>2, <2>5 DEF Consecutive
    <3> QED BY <1>1, <1>2, <1>3, <2>3, <3>1
  <2>6. CASE i = j
    BY <2>1, <2>6
  <2> QED BY <1>2, <2>4, <2>5, <2>6
<1>16. GetTimestamp(ix, t) = IF x \in DOMAIN ix /\ ix[x].begin <= t
                             THEN {<<ix[x].block, t - ix[x].begin + 1>>} ELSE {}
  BY DEF GetTimestamp
<1>17. x \in DOMAIN ix /\ ix[x].begin = bs[i].first /\ ix[x].block = bs[i].hash
  <2> HIDE DEF x
  <2> QED BY <1>6, <1>12, <1>14, <1>15, SpanFields
<1> HIDE DEF x
<1> QED BY <1>2, <1>16, <1>17

-----------------------------------------------------------------------------
(***************************************************************************)
(* What fits the rows: the next id and the timestamp index.                *)
(***************************************************************************)

\* The rows of `txs` are those of the rows of `blocks`.
Tabled(d) ==
    \E n \in Nat : /\ d.blocks = [i \in 1..n |-> d.blocks[i]]
                   /\ Consecutive(d.blocks, n) /\ Filled(d.blocks, d.txs, n)

\* The memory of d fits n rows: the next id is free, and the timestamp index
\* has their spans, and may have those of S.
FitsRows(d, n, S) ==
    /\ d.blocks = [i \in 1..n |-> d.blocks[i]]
    /\ Consecutive(d.blocks, n) /\ Filled(d.blocks, d.txs, n)
    /\ d.next_tx_id = NextId(d.blocks, n)
    /\ Indexed(d.index, d.blocks, n, S)
Fits(d, S) == \E n \in Nat : FitsRows(d, n, S)

\* The span that a push of h adds, were it to be rolled back.
Stale(d, h) ==
    [begin |-> d.next_tx_id, end |-> d.next_tx_id + Len(Txs[h]), block |-> h]

LEMMA FitsTabled ==
    ASSUME NEW d, NEW S, Fits(d, S)
    PROVE  Tabled(d)
BY DEF Fits, FitsRows, Tabled

\* Two Databases with the same chain and transactions.
SameRows(d, e) == SameChain(d, e) /\ e.txs = d.txs

LEMMA EncodeAllRows ==
    ASSUME NEW d, DOMAIN d = Fields, NEW as
    PROVE  SameRows(d, EncodeAll(d, as))
<1>1. SameChain(d, EncodeAll(d, as))
  BY EncodeAllFrame
<1>2. EncodeAll(d, as).txs = d.txs
  BY DEF EncodeAll, Fields
<1> QED BY <1>1, <1>2 DEF SameRows

LEMMA EncodeRows ==
    ASSUME NEW d, DOMAIN d = Fields, NEW a
    PROVE  SameRows(d, Encode(d, a))
BY EncodeAllRows DEF Encode

LEMMA AddTokenTransactionsRows ==
    ASSUME NEW d, DOMAIN d = Fields, NEW ids, NEW calls
    PROVE  SameRows(d, AddTokenTransactions(d, ids, calls))
<1> DEFINE as == FlattenSeq([i \in DOMAIN ids |-> <<calls[i].sender, calls[i].receiver>>])
           e == EncodeAll(d, as)
<1>1. SameRows(d, e)
  BY EncodeAllRows
<1>2. \E rows : AddTokenTransactions(d, ids, calls) = [e EXCEPT !.token_txs = rows]
  BY DEF AddTokenTransactions
<1> HIDE DEF e
<1> QED BY <1>1, <1>2 DEF SameRows, SameChain, Fields

LEMMA SameRowsFits ==
    ASSUME NEW d, NEW e, NEW S, Fits(d, S), SameRows(d, e)
    PROVE  Fits(e, S)
BY DEF Fits, FitsRows, SameRows, SameChain

\* The next key of the transactions is the id after the last block's.
LEMMA NextTxId ==
    ASSUME NEW n \in Nat, NEW bs, NEW txs, Consecutive(bs, n), Filled(bs, txs, n)
    PROVE  GetNextTxId(txs) = NextId(bs, n)
<1>1. NextId(bs, n) \in Nat \ {0}
  <2>1. n \in 0..n
    OBVIOUS
  <2> QED BY <2>1, NextIdFacts
<1> DEFINE m == NextId(bs, n) - 1
<1>2. m \in Nat /\ m + 1 = NextId(bs, n)
  BY <1>1
<1>3. txs = [t \in 1..m |-> txs[t]]
  BY DEF Filled
<1> HIDE DEF m
<1>4. NextKey(txs) = m + 1
  BY <1>2, <1>3, NextKeyOfSegment
<1> QED BY <1>2, <1>4 DEF GetNextTxId

\* InsertTransactions writes rows from the next id on.
LEMMA InsertTransactionsRows ==
    ASSUME NEW d, DOMAIN d = Fields, NEW h, NEW n, NEW calls
    PROVE  \E rows :
              /\ NewRows(rows, d.next_tx_id, n, Max(DOMAIN d.blocks), h)
              /\ InsertTransactions(d, h, n, calls).txs = With(d.txs, rows)
<1>1. PICK as, rows, ids, cs :
        /\ InsertTransactions(d, h, n, calls) =
           AddTokenTransactions([EncodeAll(d, as) EXCEPT !.txs = With(@, rows)], ids, cs)
        /\ NewRows(rows, d.next_tx_id, n, Max(DOMAIN d.blocks), h)
  <2> DEFINE first == d.next_tx_id
             call(i) == ParseInput(Txs[h][i])
             as == FlattenSeq([i \in 1..n |->
                     <<Txs[h][i].from, Txs[h][i].to>> \o
                     IF i \in calls THEN <<call(i).sender, call(i).receiver>> ELSE <<>>])
             e == EncodeAll(d, as)
             row(i) == [tx |-> <<h, i>>, block |-> Max(DOMAIN d.blocks),
                        sender |-> AddressId(e, Txs[h][i].from),
                        receiver |-> AddressId(e, Txs[h][i].to)]
             rows == [t \in first..(first + n - 1) |-> row(t - first + 1)]
             added == Ascending(calls \cap 1..n)
             ids == [j \in DOMAIN added |-> first + added[j] - 1]
             cs == [j \in DOMAIN added |-> call(added[j])]
  <2>1. InsertTransactions(d, h, n, calls) =
           AddTokenTransactions([EncodeAll(d, as) EXCEPT !.txs = With(@, rows)], ids, cs)
    BY DEF InsertTransactions
  <2>2. NewRows(rows, first, n, Max(DOMAIN d.blocks), h)
    <3> HIDE DEF e
    <3> QED BY DEF NewRows
  <2> HIDE DEF as, rows, ids, cs
  <2> QED BY <2>1, <2>2
<1> DEFINE e == EncodeAll(d, as)
           f == [e EXCEPT !.txs = With(@, rows)]
<1>2. SameRows(d, e)
  BY EncodeAllRows
<1>3. DOMAIN f = Fields /\ f.txs = With(d.txs, rows)
  <2> HIDE DEF e
  <2> QED BY <1>2 DEF SameRows, SameChain, Fields
<1>4. AddTokenTransactions(f, ids, cs).txs = f.txs
  <2> HIDE DEF f
  <2> QED BY <1>3, AddTokenTransactionsRows DEF SameRows
<1>5. InsertTransactions(d, h, n, calls) = AddTokenTransactions(f, ids, cs)
  BY <1>1
<1> HIDE DEF e, f
<1> QED BY <1>1, <1>3, <1>4, <1>5

LEMMA TxsLength ==
    ASSUME NEW h \in Hashes
    PROVE  Len(Txs[h]) \in Nat
<1>1. Txs[h] \in Seq(Tx)
  BY EthAssumption DEF EthAssumption
<1> QED BY <1>1, LenProperties

LEMMA InsertOnlyBlockTxs ==
    ASSUME NEW d, DOMAIN d = Fields, NEW h
    PROVE  InsertOnlyBlock(d, h).txs = d.txs
<1> DEFINE e == Encode(d, Miner[h])
<1>1. SameRows(d, e)
  BY EncodeRows
<1>2. \E bs, ix : InsertOnlyBlock(d, h) = [e EXCEPT !.blocks = bs, !.index = ix]
  BY DEF InsertOnlyBlock
<1> HIDE DEF e
<1> QED BY <1>1, <1>2 DEF SameRows, SameChain, Fields

\* A row for block h after n rows, and its span in the index.
RowStands(o, d, n, h) ==
    /\ DOMAIN o = Fields
    /\ o.chain = d.chain /\ o.next_tx_id = d.next_tx_id /\ o.txs = d.txs
    /\ o.blocks = [i \in 1..(n + 1) |-> o.blocks[i]]
    /\ \A i \in 1..n : o.blocks[i] = d.blocks[i]
    /\ o.blocks[n + 1].hash = h
    /\ o.blocks[n + 1].first = d.next_tx_id /\ o.blocks[n + 1].count = Len(Txs[h])
    /\ Max(DOMAIN o.blocks) = n + 1
    /\ Span(o.blocks[n + 1]) = Stale(d, h)
    /\ Indexed(o.index, d.blocks, n, {Stale(d, h)})
    /\ HasSpan(o.index, Stale(d, h))

\* InsertOnlyBlock, also where a push of the block was rolled back before.
LEMMA InsertOnlyBlockStands ==
    ASSUME NEW d, DOMAIN d = Fields, NEW n \in Nat, NEW S, FitsRows(d, n, S),
           NEW h \in Hashes, S \subseteq {Stale(d, h)}
    PROVE  RowStands(InsertOnlyBlock(d, h), d, n, h)
<1> DEFINE o == InsertOnlyBlock(d, h)
           s == Stale(d, h)
           cs == o.blocks
<1>1. /\ d.blocks = [i \in 1..n |-> d.blocks[i]]
      /\ Consecutive(d.blocks, n)
      /\ d.next_tx_id = NextId(d.blocks, n) /\ Indexed(d.index, d.blocks, n, S)
  BY DEF FitsRows
<1>2. /\ DOMAIN o = Fields /\ o.chain = d.chain /\ o.next_tx_id = d.next_tx_id
      /\ o.txs = d.txs
  BY InsertOnlyBlockAdds, InsertOnlyBlockTxs
<1>3. PICK row : AddsBlock(o, d, h, row)
  BY InsertOnlyBlockAdds
<1>4. Span(row) = s
  BY <1>3 DEF AddsBlock, Span, Stale
<1>5. /\ s.begin = NextId(d.blocks, n) /\ s.end \in Nat /\ s.begin <= s.end
  <2>1. NextId(d.blocks, n) \in Nat
    <3>1. n \in 0..n
      OBVIOUS
    <3> QED BY <1>1, <3>1, NextIdFacts
  <2>2. Len(Txs[h]) \in Nat
    BY TxsLength
  <2>3. s.begin = d.next_tx_id /\ s.end = d.next_tx_id + Len(Txs[h])
    BY DEF Stale
  <2> HIDE DEF s
  <2> QED BY <1>1, <2>1, <2>2, <2>3
<1>6. /\ cs = [i \in 1..(n + 1) |-> cs[i]]
      /\ \A i \in 1..n : cs[i] = d.blocks[i]
      /\ cs[n + 1] = row
      /\ Max(DOMAIN cs) = n + 1
  <2>1. AddsRow(cs, d.blocks, row)
    BY <1>3 DEF AddsBlock
  <2> HIDE DEF cs
  <2> QED BY <1>1, <2>1, RowAdded
<1>7. /\ Indexed(o.index, d.blocks, n, {s})
      /\ HasSpan(o.index, s)
  <2>1. o.index = AddSpan(d.index, s)
    BY <1>3, <1>4 DEF AddsBlock
  <2>2. S \subseteq {s}
    OBVIOUS
  <2> HIDE DEF s, o
  <2> QED BY <1>1, <1>5, <2>1, <2>2, AddSpanIndexes
<1>8. /\ cs[n + 1].hash = h /\ cs[n + 1].first = d.next_tx_id
      /\ cs[n + 1].count = Len(Txs[h]) /\ Span(cs[n + 1]) = s
  BY <1>3, <1>4, <1>6 DEF AddsBlock
<1> HIDE DEF o, s
<1> QED BY <1>2, <1>6, <1>7, <1>8 DEF RowStands, s, o

\* InsertBlock leaves a memory that fits the rows, with nothing stale.
LEMMA InsertBlockFits ==
    ASSUME NEW d, DOMAIN d = Fields, NEW S, Fits(d, S),
           NEW h \in Hashes, S \subseteq {Stale(d, h)}, NEW calls
    PROVE  Fits(InsertBlock(d, h, calls), {})
<1>1. PICK n \in Nat : FitsRows(d, n, S)
  BY DEF Fits
<1> DEFINE o == InsertOnlyBlock(d, h)
           l == Len(Txs[h])
           t == InsertTransactions(o, h, l, calls)
           e == InsertBlock(d, h, calls)
           cs == o.blocks
           m == d.next_tx_id
<1>2. RowStands(o, d, n, h)
  BY <1>1, InsertOnlyBlockStands
<1>3. PICK rows : /\ NewRows(rows, m, l, n + 1, h)
                  /\ t.txs = With(d.txs, rows)
  <2>1. /\ DOMAIN o = Fields /\ o.txs = d.txs
        /\ o.next_tx_id = d.next_tx_id /\ Max(DOMAIN o.blocks) = n + 1
    BY <1>2 DEF RowStands
  <2> HIDE DEF o
  <2> QED BY <2>1, InsertTransactionsRows
<1>4. SameChain(o, t)
  BY <1>2, InsertTransactionsFrame DEF RowStands
<1>5. /\ e.blocks = cs /\ e.txs = With(d.txs, rows)
      /\ e.next_tx_id = m + l /\ e.index = o.index
  <2>1. e = AddNewBlock([t EXCEPT !.next_tx_id = @ + l], h, Max(DOMAIN t.blocks))
    BY DEF InsertBlock
  <2>2. /\ t.blocks = cs /\ t.index = o.index /\ DOMAIN t = Fields /\ t.next_tx_id = m
    BY <1>2, <1>4 DEF SameChain, RowStands
  <2> HIDE DEF o, t, e, cs
  <2> QED BY <1>3, <2>1, <2>2 DEF AddNewBlock, Fields
<1>6. /\ d.blocks = [i \in 1..n |-> d.blocks[i]]
      /\ Consecutive(d.blocks, n) /\ Filled(d.blocks, d.txs, n)
      /\ m = NextId(d.blocks, n)
  BY <1>1 DEF FitsRows
<1>7. /\ cs = [i \in 1..(n + 1) |-> cs[i]]
      /\ \A i \in 1..n : cs[i] = d.blocks[i]
      /\ cs[n + 1].hash = h /\ cs[n + 1].first = m /\ cs[n + 1].count = l
      /\ Span(cs[n + 1]) = Stale(d, h)
      /\ Indexed(o.index, d.blocks, n, {Stale(d, h)})
      /\ HasSpan(o.index, Stale(d, h))
  BY <1>2 DEF RowStands
<1>8. l \in Nat
  BY TxsLength
<1>9. m \in Nat
  <2>1. n \in 0..n
    OBVIOUS
  <2> QED BY <1>6, <2>1, NextIdFacts
<1>10. NextId(cs, n + 1) = m + l
  BY <1>7 DEF NextId, EndOf
<1> HIDE DEF o, e, cs, t, l, m
<1>11. Consecutive(cs, n + 1) /\ Filled(cs, e.txs, n + 1)
  <2>1. cs[n + 1].count \in Nat /\ cs[n + 1].count = Len(Txs[cs[n + 1].hash])
    BY <1>7, <1>8 DEF l
  <2>2. NewRows(rows, NextId(d.blocks, n), cs[n + 1].count, n + 1, cs[n + 1].hash)
    BY <1>3, <1>6, <1>7
  <2>3. e.txs = With(d.txs, rows) /\ cs[n + 1].first = NextId(d.blocks, n)
    BY <1>5, <1>6, <1>7
  <2>4. Consecutive(d.blocks, n) /\ Filled(d.blocks, d.txs, n)
    BY <1>6
  <2>5. \A i \in 1..n : cs[i] = d.blocks[i]
    BY <1>7
  <2> QED BY <2>1, <2>2, <2>3, <2>4, <2>5, FilledExtends
<1>12. Indexed(e.index, cs, n + 1, {})
  BY <1>5, <1>7, IndexedExtends
<1>13. FitsRows(e, n + 1, {})
  BY <1>5, <1>7, <1>10, <1>11, <1>12 DEF FitsRows
<1> QED BY <1>13 DEF Fits, e

-----------------------------------------------------------------------------
(***************************************************************************)
(* What each method of Database does to rows and memory.                   *)
(***************************************************************************)

\* The transactions of the first k rows, as DELETE leaves them: by their
\* block, or by their ids.
LEMMA PrefixTxs ==
    ASSUME NEW n \in Nat, NEW bs, NEW txs, Consecutive(bs, n), Filled(bs, txs, n),
           NEW k \in 0..n, NEW gone, NEW us, us = Without(txs, gone),
           \A t \in DOMAIN txs : t \in gone <=> ~(txs[t].block <= k)
    PROVE  us = [t \in 1..(NextId(bs, k) - 1) |-> txs[t]]
<1>1. DOMAIN txs = 1..(NextId(bs, n) - 1)
  BY DEF Filled
<1>2. /\ NextId(bs, k) \in Nat \ {0} /\ NextId(bs, n) \in Nat \ {0}
      /\ NextId(bs, k) <= NextId(bs, n)
  <2>1. n \in 0..n
    OBVIOUS
  <2> QED BY <2>1, NextIdFacts
<1>3. \A t \in DOMAIN txs : t \in gone <=> ~(t < NextId(bs, k))
  BY <1>1, BelowNextId
<1>4. DOMAIN txs \ gone = 1..(NextId(bs, k) - 1)
  <2> DEFINE a == NextId(bs, k)
             b == NextId(bs, n)
  <2> HIDE DEF a, b
  <2>1. a \in Nat \ {0} /\ b \in Nat \ {0} /\ a <= b /\ DOMAIN txs = 1..(b - 1)
        /\ \A t \in DOMAIN txs : t \in gone <=> ~(t < a)
    BY <1>1, <1>2, <1>3 DEF a, b
  <2>2. DOMAIN txs \ gone = 1..(a - 1)
    BY <2>1
  <2> QED BY <2>2 DEF a
<1> QED BY <1>4 DEF Without

\* DeleteBlocks of all above the first k blocks loads the memory again.
LEMMA DeleteBlocksFits ==
    ASSUME NEW d, NEW f \in Nat, Holds(d, f), Fits(d, {}), NEW k \in 1..Len(d.chain),
           NEW e, e = DeleteBlocks(d, Above(d, k))
    PROVE  Fits(e, {})
<1> DEFINE n == Len(d.chain)
           revert == Above(d, k)
           ids == {revert[i].id : i \in DOMAIN revert}
           bs == Without(d.blocks, ids)
           gone == {t \in DOMAIN d.txs : d.txs[t].block \in ids}
           us == Without(d.txs, gone)
<1>1. n \in Nat /\ DOMAIN d = Fields /\ DOMAIN d.blocks = 1..n
  BY ChainIsSeq DEF Holds
<1>2. FitsRows(d, n, {})
  <2>1. PICK m \in Nat : FitsRows(d, m, {})
    BY DEF Fits
  <2>2. DOMAIN d.blocks = 1..m
    BY <2>1 DEF FitsRows
  <2>3. m = n
    <3> HIDE DEF n
    <3>1. 1..m = 1..n
      BY <1>1, <2>2
    <3>2. Cardinality(1..m) = m /\ Cardinality(1..n) = n
      BY <1>1, FS_Interval
    <3> QED BY <3>1, <3>2
  <2> QED BY <2>1, <2>3
<1>3. Consecutive(d.blocks, n) /\ Filled(d.blocks, d.txs, n)
  BY <1>2 DEF FitsRows
<1>4. CASE revert = <<>>
  <2>1. e = d
    BY <1>4 DEF DeleteBlocks
  <2> QED BY <2>1
<1>5. CASE revert # <<>>
  <2>1. ids = (k + 1)..n
    <3>1. revert = Above(d, k)
      OBVIOUS
    <3> HIDE DEF revert
    <3>2. \A i \in DOMAIN revert : revert[i].id \in (k + 1)..n
      BY <3>1, RevertIds
    <3>3. \A j \in (k + 1)..n : n - j + 1 \in DOMAIN revert /\ revert[n - j + 1].id = j
      BY <3>1, RevertIds
    <3> HIDE DEF n
    <3> QED BY <3>2, <3>3
  <2>2. /\ e.blocks = bs /\ e.txs = us
        /\ e.next_tx_id = GetNextTxId(us) /\ e.index = ReloadIndex(bs)
    <3>1. \E ks, ch : e = [d EXCEPT !.blocks = bs, !.txs = us,
                !.token_txs = ks, !.chain = ch,
                !.next_tx_id = GetNextTxId(us), !.index = ReloadIndex(bs)]
      BY <1>5 DEF DeleteBlocks
    <3> HIDE DEF revert, ids, bs, us
    <3> QED BY <1>1, <3>1 DEF Fields
  <2> HIDE DEF revert, ids
  <2>3. k \in 0..n /\ k \in Nat /\ (1..n) \ ((k + 1)..n) = 1..k
    BY <1>1
  <2>4. bs = [i \in 1..k |-> d.blocks[i]]
    BY <1>1, <2>1, <2>3 DEF Without
  <2>5. \A i \in 1..k : bs[i] = d.blocks[i]
    BY <2>4
  <2>6. us = [t \in 1..(NextId(d.blocks, k) - 1) |-> d.txs[t]]
    <3>1. \A t \in DOMAIN d.txs : t \in gone <=> ~(d.txs[t].block <= k)
      <4>1. ASSUME NEW t \in DOMAIN d.txs PROVE d.txs[t].block \in 1..n
        BY <1>3 DEF Filled, Placed
      <4> HIDE DEF n
      <4> QED BY <2>1, <2>3, <4>1
    <3> HIDE DEF gone, n
    <3> QED BY <1>1, <1>3, <2>3, <3>1, PrefixTxs
  <2> HIDE DEF bs, us, n
  <2>7. /\ Consecutive(bs, k) /\ Filled(bs, us, k)
    BY <1>1, <1>3, <2>3, <2>5, <2>6, FilledPrefix
  <2>8. GetNextTxId(us) = NextId(bs, k)
    BY <2>3, <2>7, NextTxId
  <2>9. DOMAIN bs = 1..k /\ bs = [i \in 1..k |-> bs[i]]
    BY <2>4
  <2>10. Indexed(e.index, bs, k, {})
    BY <2>2, <2>3, <2>7, <2>9, ReloadIndexes
  <2>11. FitsRows(e, k, {})
    BY <2>2, <2>7, <2>8, <2>9, <2>10 DEF FitsRows
  <2> QED BY <2>3, <2>11 DEF Fits
<1> QED BY <1>4, <1>5

\* What a push finds once the blocks above the parent are deleted.
LEMMA RevertFits ==
    ASSUME NEW d, NEW f \in Nat, Holds(d, f), NEW S, Fits(d, S),
           NEW h \in Hashes, S \subseteq {Stale(d, h)},
           S # {} => BlocksToRevert(d, h) = <<>>,
           ~BlockRequired(d, h),
           NEW c, c = DeleteBlocks(d, BlocksToRevert(d, h))
    PROVE  DOMAIN c = Fields /\ Fits(c, S) /\ S \subseteq {Stale(c, h)}
<1>1. CASE BlocksToRevert(d, h) = <<>>
  <2>1. c = d
    BY <1>1 DEF DeleteBlocks
  <2> QED BY <2>1 DEF Holds
<1>2. CASE BlocksToRevert(d, h) # <<>>
  <2>1. S = {} /\ d.chain # <<>>
    BY <1>2 DEF BlocksToRevert
  <2>2. PICK k \in 1..Len(d.chain) : BlocksToRevert(d, h) = Above(d, k)
    BY <2>1, ParentIsHeld
  <2>3. Holds(c, f)
    BY <2>2, DeleteBlocksTruncates
  <2>4. Fits(c, {})
    BY <2>1, <2>2, DeleteBlocksFits
  <2> QED BY <2>1, <2>3, <2>4 DEF Holds
<1> QED BY <1>1, <1>2

\* A push, also where a push of the block was rolled back before: then there
\* was nothing to revert.
LEMMA PushFits ==
    ASSUME NEW d, NEW f \in Nat, Holds(d, f), NEW S, Fits(d, S),
           NEW h \in Hashes, S \subseteq {Stale(d, h)},
           S # {} => BlocksToRevert(d, h) = <<>>,
           ~BlockRequired(d, h), NEW calls,
           NEW e, e = InsertBlock(DeleteBlocks(d, BlocksToRevert(d, h)), h, calls)
    PROVE  Fits(e, {})
<1> DEFINE c == DeleteBlocks(d, BlocksToRevert(d, h))
<1>1. DOMAIN c = Fields /\ Fits(c, S) /\ S \subseteq {Stale(c, h)}
  BY RevertFits
<1>2. e = InsertBlock(c, h, calls)
  OBVIOUS
<1> HIDE DEF c
<1> QED BY <1>1, <1>2, InsertBlockFits

\* A push that is rolled back leaves the span of its block in the index.
LEMMA RollbackFits ==
    ASSUME NEW d, DOMAIN d = Fields, NEW S, Fits(d, S),
           NEW h \in Hashes, S \subseteq {Stale(d, h)}, NEW n, NEW calls,
           NEW e, e = Rollback(InsertTransactions(InsertOnlyBlock(d, h), h, n, calls), d)
    PROVE  Fits(e, {Stale(d, h)}) /\ Stale(e, h) = Stale(d, h)
<1> DEFINE o == InsertOnlyBlock(d, h)
           t == InsertTransactions(o, h, n, calls)
<1>1. PICK m \in Nat : FitsRows(d, m, S)
  BY DEF Fits
<1>2. RowStands(o, d, m, h)
  BY <1>1, InsertOnlyBlockStands
<1>3. SameChain(o, t)
  BY <1>2, InsertTransactionsFrame DEF RowStands
<1>4. /\ e.blocks = d.blocks /\ e.txs = d.txs /\ e.next_tx_id = d.next_tx_id
      /\ e.index = o.index
  <2>1. /\ DOMAIN t = Fields /\ t.next_tx_id = d.next_tx_id /\ t.index = o.index
    BY <1>2, <1>3 DEF SameChain, RowStands
  <2>2. e = Rollback(t, d)
    OBVIOUS
  <2> HIDE DEF t, o
  <2> QED BY <2>1, <2>2 DEF Rollback, Fields
<1>5. FitsRows(e, m, {Stale(d, h)})
  BY <1>1, <1>2, <1>4 DEF FitsRows, RowStands
<1> QED BY <1>4, <1>5 DEF Fits, Stale

\* Database() loads a memory that fits the rows.
LEMMA OpenFits ==
    ASSUME NEW d, DOMAIN d = Fields, Tabled(d)
    PROVE  Fits(Open(d), {})
<1> DEFINE e == Open(d)
<1>1. PICK n \in Nat : /\ d.blocks = [i \in 1..n |-> d.blocks[i]]
                       /\ Consecutive(d.blocks, n) /\ Filled(d.blocks, d.txs, n)
  BY DEF Tabled
<1>2. /\ e.blocks = d.blocks /\ e.txs = d.txs
      /\ e.next_tx_id = GetNextTxId(d.txs) /\ e.index = ReloadIndex(d.blocks)
  BY DEF Open, Fields
<1> HIDE DEF e
<1>3. e.next_tx_id = NextId(d.blocks, n)
  BY <1>1, <1>2, NextTxId
<1>4. Indexed(e.index, d.blocks, n, {})
  <2>1. DOMAIN d.blocks = 1..n
    BY <1>1
  <2> QED BY <1>1, <1>2, <2>1, ReloadIndexes
<1>5. FitsRows(e, n, {})
  BY <1>1, <1>2, <1>3, <1>4 DEF FitsRows
<1> QED BY <1>5 DEF Fits, e

\* What a dead process leaves.
LEMMA ForgetTabled ==
    ASSUME NEW d, DOMAIN d = Fields, NEW S, Fits(d, S)
    PROVE  Tabled(Forget(d))
<1>1. Forget(d).blocks = d.blocks /\ Forget(d).txs = d.txs
  BY DEF Forget, Fields
<1> QED BY <1>1, FitsTabled DEF Tabled

\* CleanUpDatabase deletes a block and all after it, with their transactions.
LEMMA CleanUpTabled ==
    ASSUME NEW d, DOMAIN d = Fields, Tabled(d), NEW block \in DOMAIN d.blocks
    PROVE  Tabled(CleanUpDatabase(d, block))
<1> DEFINE e == CleanUpDatabase(d, block)
           first == d.blocks[block].first
           old == {i \in DOMAIN d.blocks : i >= block}
           gone == {t \in DOMAIN d.txs : t >= first}
           k == block - 1
<1>1. PICK n \in Nat : /\ d.blocks = [i \in 1..n |-> d.blocks[i]]
                       /\ Consecutive(d.blocks, n) /\ Filled(d.blocks, d.txs, n)
  BY DEF Tabled
<1>2. /\ e.blocks = Without(d.blocks, old)
      /\ e.txs = Without(d.txs, gone)
  BY DEF CleanUpDatabase, Fields
<1>3. DOMAIN d.blocks = 1..n
  BY <1>1
<1>4. block \in 1..n /\ k \in 0..n /\ k \in Nat
  BY <1>3
<1>5. e.blocks = [i \in 1..k |-> d.blocks[i]]
  <2>1. (1..n) \ old = 1..k
    BY <1>3, <1>4
  <2> HIDE DEF e, old
  <2> QED BY <1>2, <1>3, <2>1 DEF Without
<1>6. first = NextId(d.blocks, k)
  BY <1>1, <1>4, NextIdFacts
<1>7. \A t \in DOMAIN d.txs : t \in gone <=> ~(d.txs[t].block <= k)
  <2>1. DOMAIN d.txs = 1..(NextId(d.blocks, n) - 1)
    BY <1>1 DEF Filled
  <2>2. first \in Nat
    BY <1>1, <1>4 DEF Consecutive
  <2>3. ASSUME NEW t \in DOMAIN d.txs
        PROVE  /\ t \in Nat
               /\ t < NextId(d.blocks, k) <=> d.txs[t].block <= k
    <3>1. t \in 1..(NextId(d.blocks, n) - 1)
      BY <2>1
    <3> HIDE DEF k
    <3>2. t < NextId(d.blocks, k) <=> d.txs[t].block <= k
      BY <1>1, <1>4, <3>1, BelowNextId
    <3> QED BY <3>1, <3>2
  <2> HIDE DEF first, k
  <2> QED BY <1>6, <2>2, <2>3
<1> HIDE DEF e, k, gone
<1>8. e.txs = [t \in 1..(NextId(d.blocks, k) - 1) |-> d.txs[t]]
  <2>1. k \in 0..n /\ e.txs = Without(d.txs, gone)
    BY <1>2, <1>4
  <2>2. Consecutive(d.blocks, n) /\ Filled(d.blocks, d.txs, n)
    BY <1>1
  <2> QED BY <1>7, <2>1, <2>2, PrefixTxs
<1>9. \A i \in 1..k : e.blocks[i] = d.blocks[i]
  BY <1>5
<1>10. Consecutive(e.blocks, k) /\ Filled(e.blocks, e.txs, k)
  <2>1. k \in 0..n
    BY <1>4
  <2>2. Consecutive(d.blocks, n) /\ Filled(d.blocks, d.txs, n)
    BY <1>1
  <2> QED BY <1>8, <1>9, <2>1, <2>2, FilledPrefix
<1>11. e.blocks = [i \in 1..k |-> e.blocks[i]]
  BY <1>5
<1> QED BY <1>4, <1>10, <1>11 DEF Tabled, e

\* What MemoryMatchesTables says, of an open Database that fits its rows.
LEMMA FitsMatches ==
    ASSUME NEW d, NEW f \in Nat, Holds(d, f), Fits(d, {})
    PROVE  /\ Len(d.chain) = Cardinality(DOMAIN d.blocks)
           /\ \A i \in DOMAIN d.chain : d.blocks[d.chain[i].id].hash = d.chain[i].hash
           /\ d.next_tx_id = GetNextTxId(d.txs)
           /\ \A t \in DOMAIN d.txs : GetTimestamp(d.index, t) = {d.txs[t].tx}
<1>1. Len(d.chain) \in Nat /\ DOMAIN d.chain = 1..Len(d.chain) /\ DOMAIN d.blocks = 1..Len(d.chain)
  BY ChainIsSeq DEF Holds
<1>2. Len(d.chain) = Cardinality(DOMAIN d.blocks)
  BY <1>1, FS_Interval
<1>3. ASSUME NEW i \in DOMAIN d.chain
      PROVE  d.blocks[d.chain[i].id].hash = d.chain[i].hash
  <2>1. d.chain[i] = [hash |-> d.blocks[i].hash, id |-> i]
    BY <1>1, ChainIsSeq
  <2> QED BY <2>1
<1>4. PICK n \in Nat : FitsRows(d, n, {})
  BY DEF Fits
<1>5. /\ Consecutive(d.blocks, n) /\ Filled(d.blocks, d.txs, n)
      /\ d.next_tx_id = NextId(d.blocks, n) /\ Indexed(d.index, d.blocks, n, {})
  BY <1>4 DEF FitsRows
<1>6. d.next_tx_id = GetNextTxId(d.txs)
  BY <1>5, NextTxId
<1>7. \A t \in DOMAIN d.txs : GetTimestamp(d.index, t) = {d.txs[t].tx}
  BY <1>5, TimestampFound
<1> QED BY <1>2, <1>3, <1>6, <1>7

-----------------------------------------------------------------------------
(***************************************************************************)
(* The ids of addresses: the cache and the rows of `bigints`.              *)
(***************************************************************************)

\* x is in the sequence s.
In(x, s) == \E k \in 1..Len(s) : s[k] = x

LEMMA InConcat ==
    ASSUME NEW A, NEW s \in Seq(A), NEW t \in Seq(A), NEW x
    PROVE  /\ In(x, s) => In(x, s \o t)
           /\ In(x, t) => In(x, s \o t)
<1>1. Len(s) \in Nat /\ Len(t) \in Nat
  BY LenProperties
<1>2. /\ Len(s \o t) = Len(s) + Len(t)
      /\ \A i \in 1 .. Len(s) + Len(t) :
            (s \o t)[i] = IF i <= Len(s) THEN s[i] ELSE t[i - Len(s)]
  BY ConcatProperties
<1>3. In(x, s) => In(x, s \o t)
  <2> SUFFICES ASSUME In(x, s) PROVE In(x, s \o t)
    OBVIOUS
  <2>1. PICK k \in 1..Len(s) : s[k] = x
    BY DEF In
  <2>2. k \in 1..(Len(s) + Len(t)) /\ k <= Len(s)
    BY <1>1
  <2>3. (s \o t)[k] = x
    BY <1>2, <2>1, <2>2
  <2> QED BY <1>2, <2>2, <2>3 DEF In
<1>4. In(x, t) => In(x, s \o t)
  <2> SUFFICES ASSUME In(x, t) PROVE In(x, s \o t)
    OBVIOUS
  <2>1. PICK k \in 1..Len(t) : t[k] = x
    BY DEF In
  <2> DEFINE j == Len(s) + k
  <2>2. j \in 1..(Len(s) + Len(t)) /\ ~(j <= Len(s)) /\ j - Len(s) = k
    BY <1>1
  <2> HIDE DEF j
  <2>3. (s \o t)[j] = x
    BY <1>2, <2>1, <2>2
  <2> QED BY <1>2, <2>2, <2>3 DEF In
<1> QED BY <1>3, <1>4

\* FlattenSeq joins n sequences.
LEMMA FlattenJoins ==
    ASSUME NEW A, NEW n \in Nat, NEW ss, ss = [i \in 1..n |-> ss[i]],
           \A i \in 1..n : ss[i] \in Seq(A)
    PROVE  /\ FlattenSeq(ss) \in Seq(A)
           /\ \A i \in 1..n : \A x : In(x, ss[i]) => In(x, FlattenSeq(ss))
<1>1. Len(ss) = n
  <2>1. DOMAIN ss = 1..n
    OBVIOUS
  <2> QED BY <2>1, LenDomain
<1>2. CASE n = 0
  <2>1. ss = <<>>
    BY <1>2
  <2>2. FlattenSeq(ss) = <<>>
    BY <1>1, <1>2, <2>1 DEF FlattenSeq
  <2>3. FlattenSeq(ss) \in Seq(A)
    BY <2>2, EmptySeq
  <2>4. \A i \in 1..n : FALSE
    BY <1>2
  <2> QED BY <2>3, <2>4
<1>3. CASE n # 0
  <2> DEFINE Runs(g, k) == g = [i \in 1..k |-> IF i = 1 THEN ss[i] ELSE g[i - 1] \o ss[i]]
             S == {k \in 0..n : \E g : Runs(g, k)}
  <2>1. 0 \in S
    <3>1. Runs(<<>>, 0)
      OBVIOUS
    <3>2. 0 \in 0..n
      OBVIOUS
    <3> HIDE DEF Runs
    <3> QED BY <3>1, <3>2
  <2>2. ASSUME NEW k \in 0..(n - 1), k \in S
        PROVE  k + 1 \in S
    <3>1. PICK g : Runs(g, k)
      BY <2>2
    <3> DEFINE z == IF k = 0 THEN ss[1] ELSE g[k] \o ss[k + 1]
               h == [i \in 1..(k + 1) |-> IF i = k + 1 THEN z ELSE g[i]]
    <3>2. ASSUME NEW i \in 1..(k + 1)
          PROVE  h[i] = IF i = 1 THEN ss[i] ELSE h[i - 1] \o ss[i]
      <4>1. CASE i = k + 1
        <5>1. h[i] = z
          BY <4>1
        <5>2. CASE k = 0
          BY <4>1, <5>1, <5>2
        <5>3. CASE k # 0
          <6>1. i # 1 /\ i - 1 = k /\ k \in 1..(k + 1) /\ k # k + 1
            BY <4>1, <5>3
          <6>2. h[i - 1] = g[k]
            BY <6>1
          <6>3. z = g[k] \o ss[i]
            BY <4>1, <5>3
          <6> HIDE DEF h, z
          <6> QED BY <5>1, <6>1, <6>2, <6>3
        <5> QED BY <5>2, <5>3
      <4>2. CASE i # k + 1
        <5>1. i \in 1..k
          BY <4>2
        <5>2. h[i] = g[i]
          BY <4>2
        <5>3. g[i] = IF i = 1 THEN ss[i] ELSE g[i - 1] \o ss[i]
          BY <3>1, <5>1
        <5>4. i # 1 => h[i - 1] = g[i - 1]
          BY <5>1
        <5> HIDE DEF h, z
        <5> QED BY <5>2, <5>3, <5>4
      <4> QED BY <4>1, <4>2
    <3>3. Runs(h, k + 1)
      <4>1. h = [i \in 1..(k + 1) |-> h[i]]
        OBVIOUS
      <4> HIDE DEF h
      <4> QED BY <3>2, <4>1
    <3>4. k + 1 \in 0..n
      OBVIOUS
    <3> HIDE DEF Runs
    <3> QED BY <3>3, <3>4
  <2>3. \E g : Runs(g, n)
    <3> HIDE DEF S
    <3>1. n \in S
      BY <2>1, <2>2, SegmentInduction
    <3> QED BY <3>1 DEF S
  <2> DEFINE flatten == CHOOSE g : Runs(g, n)
  <2>4. Runs(flatten, n)
    <3> HIDE DEF Runs
    <3> QED BY <2>3
  <2>5. FlattenSeq(ss) = flatten[n]
    BY <1>1, <1>3 DEF FlattenSeq
  <2> HIDE DEF flatten
  <2>6. ASSUME NEW i \in 1..n
        PROVE  flatten[i] = IF i = 1 THEN ss[i] ELSE flatten[i - 1] \o ss[i]
    BY <2>4
  <2> HIDE DEF Runs
  <2> DEFINE Joins(f, k) == /\ f \in Seq(A)
                            /\ \A i \in 1..k : \A x : In(x, ss[i]) => In(x, f)
             T == {k \in 0..n : k # 0 => Joins(flatten[k], k)}
  <2>7. 0 \in T
    OBVIOUS
  <2>8. ASSUME NEW k \in 0..(n - 1), k \in T
        PROVE  k + 1 \in T
    <3>1. k + 1 \in 1..n /\ k + 1 \in 0..n /\ (k + 1) - 1 = k
      OBVIOUS
    <3>2. ss[k + 1] \in Seq(A)
      BY <3>1
    <3>3. CASE k = 0
      <4>1. flatten[k + 1] = ss[k + 1]
        BY <2>6, <3>1, <3>3
      <4>2. Joins(flatten[k + 1], k + 1)
        BY <3>2, <3>3, <4>1
      <4> QED BY <3>1, <4>2
    <3>4. CASE k # 0
      <4>1. flatten[k + 1] = flatten[k] \o ss[k + 1]
        <5>1. k + 1 # 1
          BY <3>4
        <5>2. flatten[k + 1] = IF k + 1 = 1 THEN ss[k + 1]
                               ELSE flatten[(k + 1) - 1] \o ss[k + 1]
          BY <2>6, <3>1
        <5> QED BY <3>1, <5>1, <5>2
      <4>2. flatten[k] \in Seq(A) /\ \A i \in 1..k : \A x : In(x, ss[i]) => In(x, flatten[k])
        BY <2>8, <3>4
      <4>3. flatten[k + 1] \in Seq(A)
        BY <3>2, <4>1, <4>2, ConcatProperties
      <4>4. ASSUME NEW i \in 1..(k + 1), NEW x, In(x, ss[i])
            PROVE  In(x, flatten[k + 1])
        <5>1. i \in 1..k \/ i = k + 1
          OBVIOUS
        <5>2. In(x, flatten[k]) \/ In(x, ss[k + 1])
          BY <4>2, <4>4, <5>1
        <5> QED BY <3>2, <4>1, <4>2, <5>2, InConcat
      <4>5. Joins(flatten[k + 1], k + 1)
        BY <4>3, <4>4
      <4> HIDE DEF Joins
      <4> QED BY <3>1, <4>5
    <3> QED BY <3>3, <3>4
  <2>9. n \in T
    <3> HIDE DEF T
    <3> QED BY <2>7, <2>8, SegmentInduction
  <2> QED BY <1>3, <2>5, <2>9
<1> QED BY <1>2, <1>3

\* A nonempty finite set of numbers has a smallest one.
LEMMA HasSmallest ==
    ASSUME NEW S \in SUBSET Nat, IsFiniteSet(S), S # {}
    PROVE  \E i \in S : \A j \in S : i <= j
<1> DEFINE a == Ascending(S)
<1>1. Lists(a, S)
  BY AscendingLists
<1> HIDE DEF a
<1>2. 1 \in 1..Len(a) /\ a[1] \in S
  BY <1>1 DEF Lists
<1>3. ASSUME NEW j \in S PROVE a[1] <= j
  <2>1. PICK k \in 1..Len(a) : a[k] = j
    BY <1>1 DEF Lists
  <2>2. k = 1 \/ 1 < k
    BY <1>1 DEF Lists
  <2>3. a[1] \in Nat /\ j \in Nat /\ (1 < k => a[1] < a[k])
    BY <1>1, <1>2 DEF Lists
  <2> QED BY <2>1, <2>2, <2>3
<1> QED BY <1>2, <1>3

\* The cache c and the rows b give the same, distinct, ids from 0 on.
Codes(c, b) ==
    /\ b = [i \in 0..(Len(c) - 1) |-> c[i + 1]]
    /\ \A i, j \in 1..Len(c) : c[i] = c[j] => i = j

\* The ids in c are the same in e.
Begins(c, e) == Len(c) <= Len(e) /\ \A i \in 1..Len(c) : e[i] = c[i]

\* Cache and rows are of addresses.
Addressed(d) ==
    /\ d.cache \in Seq(Addresses)
    /\ IsFiniteSet(DOMAIN d.bigints)
    /\ \A i \in DOMAIN d.bigints : d.bigints[i] \in Addresses

\* From d to e, only ids were added.
Encodes(d, e) ==
    /\ Addressed(e)
    /\ Begins(d.cache, e.cache)
    /\ Codes(d.cache, d.bigints) => Codes(e.cache, e.bigints)

LEMMA EncodesTransitive ==
    ASSUME NEW d, NEW e, NEW f, Addressed(d), Encodes(d, e), Encodes(e, f)
    PROVE  Encodes(d, f)
<1>1. Len(d.cache) \in Nat /\ Len(e.cache) \in Nat /\ Len(f.cache) \in Nat
  BY LenProperties DEF Addressed, Encodes
<1>2. \A i \in 1..Len(d.cache) : i \in 1..Len(e.cache)
  BY <1>1 DEF Encodes, Begins
<1> QED BY <1>1, <1>2 DEF Encodes, Begins

LEMMA EncodeAllCodes ==
    ASSUME NEW d, DOMAIN d = Fields, Addressed(d), NEW as \in Seq(Addresses),
           NEW e, e = EncodeAll(d, as)
    PROVE  /\ Encodes(d, e)
           /\ \A x : In(x, as) => Known(e, x)
<1> DEFINE news == {i \in DOMAIN as : /\ ~Known(d, as[i])
                                      /\ \A j \in 1..(i - 1) : as[j] # as[i]}
           new == Ascending(news)
           adds == [k \in DOMAIN new |-> as[new[k]]]
           all == d.cache \o adds
           L == Len(d.cache)
           M == Len(new)
           N == Len(as)
           more == [id \in L..(Len(all) - 1) |-> all[id + 1]]
<1>1. e.cache = all /\ e.bigints = With(d.bigints, more)
  BY DEF EncodeAll, Fields
<1>2. L \in Nat /\ N \in Nat /\ DOMAIN as = 1..N /\ DOMAIN d.cache = 1..L
  BY LenProperties DEF Addressed
<1> HIDE DEF L, N
<1>3. news \in SUBSET Nat /\ news \in SUBSET (1..N) /\ IsFiniteSet(news)
  <2>1. IsFiniteSet(1..N)
    BY <1>2, FS_Interval
  <2>2. news \in SUBSET (1..N) /\ news \in SUBSET Nat
    <3>1. \A i \in news : i \in DOMAIN as
      OBVIOUS
    <3> HIDE DEF news
    <3> QED BY <1>2, <3>1
  <2> HIDE DEF news
  <2>3. IsFiniteSet(news)
    BY <2>1, <2>2, FS_Subset
  <2> QED BY <2>2, <2>3
<1>4. Lists(new, news)
  <2> HIDE DEF news
  <2> QED BY <1>3, AscendingLists
<1>5. \A i \in news : /\ i \in 1..N /\ as[i] \in Addresses
                      /\ ~Known(d, as[i]) /\ \A j \in 1..(i - 1) : as[j] # as[i]
  BY <1>2, ElementOfSeq DEF N
<1>6. \A i \in 1..N :
         ~Known(d, as[i]) /\ (\A j \in 1..(i - 1) : as[j] # as[i]) => i \in news
  BY <1>2
<1> HIDE DEF news, new
<1>7. /\ M \in Nat /\ DOMAIN new = 1..M
      /\ \A k \in 1..M : new[k] \in news
      /\ \A i \in news : \E k \in 1..M : new[k] = i
      /\ \A j, k \in 1..M : j < k => new[j] < new[k]
  BY <1>4 DEF Lists
<1> HIDE DEF M
<1>8. /\ adds \in Seq(Addresses) /\ Len(adds) = M
      /\ \A k \in 1..M : adds[k] = as[new[k]]
  <2>1. \A k \in 1..M : as[new[k]] \in Addresses
    BY <1>5, <1>7
  <2>2. adds \in [1..M -> Addresses]
    BY <1>7, <2>1
  <2>3. adds \in Seq(Addresses)
    <3> HIDE DEF adds
    <3> QED BY <1>7, <2>2, SeqDef
  <2>4. Len(adds) = M
    <3>1. DOMAIN adds = 1..M
      BY <1>7
    <3> HIDE DEF adds
    <3> QED BY <1>7, <3>1, LenDomain
  <2> QED BY <1>7, <2>3, <2>4
<1> HIDE DEF adds
<1>9. /\ all \in Seq(Addresses) /\ Len(all) = L + M
      /\ \A i \in 1..L : all[i] = d.cache[i]
      /\ \A k \in 1..M : all[L + k] = adds[k]
  <2>1. /\ all \in Seq(Addresses) /\ Len(all) = L + M
        /\ \A i \in 1..(L + M) : all[i] = IF i <= L THEN d.cache[i] ELSE adds[i - L]
    BY <1>8, ConcatProperties DEF Addressed, L
  <2>2. ASSUME NEW i \in 1..L PROVE all[i] = d.cache[i]
    <3>1. i \in 1..(L + M) /\ i <= L
      BY <1>2, <1>7
    <3> QED BY <2>1, <3>1
  <2>3. ASSUME NEW k \in 1..M PROVE all[L + k] = adds[k]
    <3> DEFINE j == L + k
    <3>1. j \in 1..(L + M) /\ ~(j <= L) /\ j - L = k
      BY <1>2, <1>7
    <3> HIDE DEF all, j
    <3>2. all[j] = adds[j - L]
      BY <2>1, <3>1
    <3> QED BY <3>1, <3>2 DEF j
  <2> QED BY <2>1, <2>2, <2>3
<1> HIDE DEF all
<1>10. \A i \in 1..(L + M) : i \in 1..L \/ \E k \in 1..M : i = L + k
  <2> SUFFICES ASSUME NEW i \in 1..(L + M), i \notin 1..L
               PROVE  \E k \in 1..M : i = L + k
    OBVIOUS
  <2>1. i - L \in 1..M /\ i = L + (i - L)
    BY <1>2, <1>7
  <2> QED BY <2>1
<1>11. Begins(d.cache, e.cache)
  BY <1>1, <1>2, <1>7, <1>9 DEF Begins, L
<1>12. ASSUME NEW x, In(x, as) PROVE Known(e, x)
  <2>1. DOMAIN e.cache = 1..(L + M)
    BY <1>1, <1>9, LenProperties
  <2>2. CASE Known(d, x)
    <3>1. PICK i \in 1..L : d.cache[i] = x
      BY <1>2, <2>2 DEF Known
    <3>2. i \in 1..(L + M) /\ e.cache[i] = x
      BY <1>1, <1>2, <1>7, <1>9, <3>1
    <3> QED BY <2>1, <3>2 DEF Known
  <2>3. CASE ~Known(d, x)
    <3> DEFINE X == {i \in 1..N : as[i] = x}
    <3>1. X \in SUBSET Nat /\ X \in SUBSET (1..N) /\ X # {}
      <4>1. \E k \in 1..N : as[k] = x
        BY <1>12 DEF In, N
      <4>2. X # {}
        BY <4>1
      <4>3. \A i \in X : i \in 1..N
        OBVIOUS
      <4> HIDE DEF X
      <4> QED BY <1>2, <4>2, <4>3
    <3>2. IsFiniteSet(X)
      <4>1. IsFiniteSet(1..N)
        BY <1>2, FS_Interval
      <4> HIDE DEF X
      <4> QED BY <3>1, <4>1, FS_Subset
    <3>3. PICK i \in X : \A j \in X : i <= j
      <4> HIDE DEF X
      <4> QED BY <3>1, <3>2, HasSmallest
    <3>4. i \in 1..N /\ as[i] = x
      OBVIOUS
    <3>5. \A j \in 1..(i - 1) : as[j] # as[i]
      <4> SUFFICES ASSUME NEW j \in 1..(i - 1), as[j] = x PROVE FALSE
        BY <3>4
      <4>1. j \in 1..N /\ ~(i <= j)
        BY <1>2, <3>4
      <4> QED BY <3>3, <4>1
    <3>6. PICK k \in 1..M : new[k] = i
      BY <1>6, <1>7, <2>3, <3>4, <3>5
    <3>7. L + k \in 1..(L + M) /\ e.cache[L + k] = x
      <4>1. e.cache[L + k] = adds[k]
        BY <1>1, <1>9
      <4>2. adds[k] = x
        BY <1>8, <3>4, <3>6
      <4> QED BY <1>2, <1>7, <4>1, <4>2
    <3> QED BY <2>1, <3>7 DEF Known
  <2> QED BY <2>2, <2>3
<1>13. DOMAIN more = L..(L + M - 1) /\ \A id \in L..(L + M - 1) : more[id] = all[id + 1]
  <2>1. Len(all) = L + M
    BY <1>9
  <2> QED BY <1>2, <1>7, <2>1
<1> HIDE DEF more
<1>14. Addressed(e)
  <2>1. IsFiniteSet(DOMAIN e.bigints)
    <3>1. DOMAIN e.bigints = DOMAIN d.bigints \cup (L..(L + M - 1))
      BY <1>1, <1>13 DEF With
    <3>2. IsFiniteSet(L..(L + M - 1))
      BY <1>2, <1>7, FS_Interval
    <3> QED BY <3>1, <3>2, FS_Union DEF Addressed
  <2>2. ASSUME NEW id \in L..(L + M - 1) PROVE all[id + 1] \in Addresses
    <3>1. id + 1 \in 1..(L + M)
      BY <1>2, <1>7
    <3> QED BY <1>9, <3>1, ElementOfSeq
  <2>3. \A i \in DOMAIN e.bigints : e.bigints[i] \in Addresses
    BY <1>1, <1>13, <2>2 DEF With, Addressed
  <2> QED BY <1>1, <1>9, <2>1, <2>3 DEF Addressed
<1>15. ASSUME Codes(d.cache, d.bigints)
       PROVE  Codes(e.cache, e.bigints)
  <2>1. e.bigints = [i \in 0..(L + M - 1) |-> all[i + 1]]
    <3>1. DOMAIN d.bigints = 0..(L - 1) /\ \A i \in 0..(L - 1) : d.bigints[i] = all[i + 1]
      <4>1. \A i \in 0..(L - 1) : i + 1 \in 1..L
        BY <1>2
      <4> QED BY <1>9, <1>15, <4>1 DEF Codes, L
    <3>2. DOMAIN d.bigints \cup DOMAIN more = 0..(L + M - 1)
      BY <1>2, <1>7, <1>13, <3>1
    <3> QED BY <1>1, <1>13, <3>1, <3>2 DEF With
  <2>2. ASSUME NEW i \in 1..L, NEW k \in 1..M PROVE all[i] # all[L + k]
    <3>1. all[L + k] = as[new[k]]
      BY <1>8, <1>9
    <3>2. ~Known(d, as[new[k]])
      BY <1>5, <1>7
    <3> QED BY <1>2, <1>9, <3>1, <3>2 DEF Known
  <2>3. ASSUME NEW j \in 1..M, NEW k \in 1..M, j < k PROVE all[L + j] # all[L + k]
    <3>1. new[j] < new[k] /\ new[j] \in 1..N /\ new[k] \in 1..N
      BY <1>5, <1>7, <2>3
    <3>2. new[j] \in 1..(new[k] - 1)
      BY <1>2, <3>1
    <3>3. as[new[j]] # as[new[k]]
      BY <1>5, <1>7, <3>2
    <3> QED BY <1>8, <1>9, <3>3
  <2>4. ASSUME NEW i \in 1..(L + M), NEW j \in 1..(L + M), all[i] = all[j]
        PROVE  i = j
    <3>1. CASE i \in 1..L /\ j \in 1..L
      BY <1>9, <1>15, <2>4, <3>1 DEF Codes, L
    <3>2. CASE i \in 1..L /\ j \notin 1..L
      BY <1>10, <2>2, <2>4, <3>2
    <3>3. CASE i \notin 1..L /\ j \in 1..L
      BY <1>10, <2>2, <2>4, <3>3
    <3>4. CASE i \notin 1..L /\ j \notin 1..L
      <4>1. PICK a \in 1..M : i = L + a
        BY <1>10, <3>4
      <4>2. PICK b \in 1..M : j = L + b
        BY <1>10, <3>4
      <4>3. ~(a < b) /\ ~(b < a)
        BY <2>3, <2>4, <4>1, <4>2
      <4>4. a = b
        BY <1>7, <4>3
      <4> QED BY <4>1, <4>2, <4>4
    <3> QED BY <3>1, <3>2, <3>3, <3>4
  <2>5. Len(e.cache) = L + M
    BY <1>1, <1>9
  <2> QED BY <1>1, <1>2, <1>7, <2>1, <2>4, <2>5 DEF Codes
<1> QED BY <1>11, <1>12, <1>14, <1>15 DEF Encodes

-----------------------------------------------------------------------------
(***************************************************************************)
(* What the calls do to the ids, and to the ids in the rows of `txs`.      *)
(***************************************************************************)

LEMMA SegmentFinite == \A n \in Nat : IsFiniteSet(1..n)
BY FS_Interval

\* The id names address a in the cache c.
IsId(c, id, a) == id \in Nat /\ id + 1 \in 1..Len(c) /\ c[id + 1] = a

LEMMA AddressIdNames ==
    ASSUME NEW d, Addressed(d), NEW a, Known(d, a)
    PROVE  IsId(d.cache, AddressId(d, a), a)
<1> DEFINE i == CHOOSE i \in DOMAIN d.cache : d.cache[i] = a
<1>1. DOMAIN d.cache = 1..Len(d.cache) /\ Len(d.cache) \in Nat
  BY LenProperties DEF Addressed
<1>2. i \in 1..Len(d.cache) /\ d.cache[i] = a
  BY <1>1 DEF Known
<1>3. AddressId(d, a) = i - 1
  BY DEF AddressId
<1> HIDE DEF i
<1> QED BY <1>1, <1>2, <1>3 DEF IsId

LEMMA IsIdKept ==
    ASSUME NEW c \in Seq(Addresses), NEW e \in Seq(Addresses), Begins(c, e),
           NEW id, NEW a, IsId(c, id, a)
    PROVE  IsId(e, id, a)
<1>1. Len(c) \in Nat /\ Len(e) \in Nat
  BY LenProperties
<1> QED BY <1>1 DEF Begins, IsId

\* A row of `txs` names the sender and the receiver of its transaction.
RowNames(c, row) ==
    /\ IsId(c, row.sender, Txs[row.tx[1]][row.tx[2]].from)
    /\ IsId(c, row.receiver, Txs[row.tx[1]][row.tx[2]].to)
Names(c, txs) == \A t \in DOMAIN txs : RowNames(c, txs[t])

\* From d to e, only ids were added, and rows whose ids are right.
Keeps(d, e) ==
    /\ DOMAIN e = Fields
    /\ Encodes(d, e)
    /\ Names(d.cache, d.txs) => Names(e.cache, e.txs)

LEMMA KeepsTransitive ==
    ASSUME NEW d, NEW e, NEW f, Addressed(d), Keeps(d, e), Keeps(e, f)
    PROVE  Keeps(d, f)
BY EncodesTransitive DEF Keeps

\* Ids alone were added.
LEMMA EncodesKeeps ==
    ASSUME NEW d, NEW e, Addressed(d), DOMAIN e = Fields, Encodes(d, e), e.txs = d.txs
    PROVE  Keeps(d, e)
<1>1. \A id, a : IsId(d.cache, id, a) => IsId(e.cache, id, a)
  BY IsIdKept DEF Encodes, Addressed
<1>2. Names(d.cache, d.txs) => Names(e.cache, e.txs)
  BY <1>1 DEF Names, RowNames
<1> QED BY <1>2 DEF Keeps

\* Neither ids nor new rows.
LEMMA SameIdsKeeps ==
    ASSUME NEW d, NEW e, Addressed(d), DOMAIN e = Fields,
           e.cache = d.cache, e.bigints = d.bigints,
           \A t \in DOMAIN e.txs : t \in DOMAIN d.txs /\ e.txs[t] = d.txs[t]
    PROVE  Keeps(d, e)
<1>1. Len(d.cache) \in Nat
  BY LenProperties DEF Addressed
<1>2. Encodes(d, e)
  BY <1>1 DEF Encodes, Addressed, Begins
<1>3. Names(d.cache, d.txs) => Names(e.cache, e.txs)
  BY DEF Names
<1> QED BY <1>2, <1>3 DEF Keeps

LEMMA EncodeKeeps ==
    ASSUME NEW d, DOMAIN d = Fields, Addressed(d), NEW a \in Addresses
    PROVE  /\ Keeps(d, Encode(d, a))
           /\ Known(Encode(d, a), a)
<1> DEFINE as == <<a>>
           e == EncodeAll(d, as)
<1>1. as \in Seq(Addresses) /\ In(a, as)
  <2>1. Len(as) = 1 /\ as[1] = a /\ 1 \in 1..1
    OBVIOUS
  <2> QED BY <2>1 DEF In
<1>2. Encode(d, a) = e
  BY DEF Encode
<1> HIDE DEF as
<1>3. Encodes(d, e) /\ Known(e, a)
  BY <1>1, EncodeAllCodes
<1>4. SameRows(d, e)
  BY EncodeAllRows
<1> HIDE DEF e
<1>5. Keeps(d, e)
  BY <1>3, <1>4, EncodesKeeps DEF SameRows, SameChain
<1> QED BY <1>2, <1>3, <1>5

\* What ParseInput reads of a transfer.
LEMMA ParsedAddresses ==
    ASSUME NEW tx \in Tx, IsTransfer(tx), tx.args # <<>>
    PROVE  ParseInput(tx).sender \in Addresses /\ ParseInput(tx).receiver \in Addresses
<1>1. tx.from \in Addresses /\ tx.args \in Seq(Addresses)
  BY DEF Tx
<1>2. Len(tx.args) \in Nat \ {0}
  BY <1>1, EmptySeq
<1>3. 1 \in 1..Len(tx.args)
  BY <1>2
<1>4. tx.args[1] \in Addresses
  BY <1>1, <1>3, ElementOfSeq
<1> QED BY <1>1, <1>4 DEF ParseInput

\* Transactions of a block.
LEMMA TxFacts ==
    ASSUME NEW h \in Hashes, NEW i \in DOMAIN Txs[h]
    PROVE  /\ i \in 1..Len(Txs[h])
           /\ Txs[h][i] \in Tx
           /\ Txs[h][i].from \in Addresses /\ Txs[h][i].to \in Addresses
           /\ IsTransfer(Txs[h][i]) => /\ ParseInput(Txs[h][i]).sender \in Addresses
                                       /\ ParseInput(Txs[h][i]).receiver \in Addresses
<1> DEFINE tx == Txs[h][i]
<1>1. Txs[h] \in Seq(Tx) /\ (tx.fn \in {"transfer", "transferFrom"} => tx.args # <<>>)
  BY EthAssumption DEF EthAssumption
<1>2. i \in 1..Len(Txs[h])
  BY <1>1, LenProperties
<1>3. tx \in Tx
  BY <1>1, <1>2, ElementOfSeq
<1>4. IsTransfer(tx) => tx.args # <<>>
  BY <1>1 DEF IsTransfer
<1> HIDE DEF tx
<1>5. tx.from \in Addresses /\ tx.to \in Addresses
  BY <1>3 DEF Tx
<1>6. IsTransfer(tx) => ParseInput(tx).sender \in Addresses /\ ParseInput(tx).receiver \in Addresses
  BY <1>3, <1>4, ParsedAddresses
<1> QED BY <1>2, <1>3, <1>5, <1>6 DEF tx

LEMMA AddTokenTransactionsKeeps ==
    ASSUME NEW d, DOMAIN d = Fields, Addressed(d), NEW n \in Nat,
           NEW ids, DOMAIN ids = 1..n, NEW calls,
           \A i \in 1..n : calls[i].sender \in Addresses /\ calls[i].receiver \in Addresses
    PROVE  Keeps(d, AddTokenTransactions(d, ids, calls))
<1> DEFINE ss == [i \in DOMAIN ids |-> <<calls[i].sender, calls[i].receiver>>]
           e == EncodeAll(d, FlattenSeq(ss))
           f == AddTokenTransactions(d, ids, calls)
<1>1. FlattenSeq(ss) \in Seq(Addresses)
  <2>1. ss = [i \in 1..n |-> ss[i]] /\ \A i \in 1..n : ss[i] \in Seq(Addresses)
    OBVIOUS
  <2> HIDE DEF ss
  <2> QED BY <2>1, FlattenJoins
<1>2. \E rows : f = [e EXCEPT !.token_txs = rows]
  BY DEF AddTokenTransactions
<1> HIDE DEF ss
<1>3. Encodes(d, e) /\ SameRows(d, e)
  BY <1>1, EncodeAllCodes, EncodeAllRows
<1> HIDE DEF e, f
<1>4. DOMAIN f = Fields /\ f.cache = e.cache /\ f.bigints = e.bigints /\ f.txs = d.txs
  BY <1>2, <1>3 DEF SameRows, SameChain, Fields
<1>5. Encodes(d, f)
  BY <1>3, <1>4 DEF Encodes, Addressed
<1>6. Keeps(d, f)
  BY <1>4, <1>5, EncodesKeeps
<1> QED BY <1>6 DEF f

LEMMA InsertOnlyBlockKeeps ==
    ASSUME NEW d, DOMAIN d = Fields, Addressed(d), NEW h \in Hashes
    PROVE  Keeps(d, InsertOnlyBlock(d, h))
<1> DEFINE e == Encode(d, Miner[h])
           o == InsertOnlyBlock(d, h)
<1>1. Miner[h] \in Addresses
  BY EthAssumption DEF EthAssumption
<1>2. Keeps(d, e)
  BY <1>1, EncodeKeeps
<1>3. \E bs, ix : o = [e EXCEPT !.blocks = bs, !.index = ix]
  BY DEF InsertOnlyBlock
<1> HIDE DEF e, o
<1>4. DOMAIN o = Fields /\ o.cache = e.cache /\ o.bigints = e.bigints /\ o.txs = e.txs
  BY <1>2, <1>3 DEF Keeps, Fields
<1>5. Keeps(d, o)
  BY <1>2, <1>4 DEF Keeps, Encodes, Addressed
<1> QED BY <1>5 DEF o

\* The transactions of a block for which PostprocessTransaction is right.
Transfers(h) == {i \in DOMAIN Txs[h] : IsTransfer(Txs[h][i])}

LEMMA InsertTransactionsKeeps ==
    ASSUME NEW d, DOMAIN d = Fields, Addressed(d), NEW h \in Hashes,
           NEW n \in Nat, 1..n \subseteq DOMAIN Txs[h],
           NEW calls, calls \subseteq Transfers(h), d.next_tx_id \in Nat
    PROVE  Keeps(d, InsertTransactions(d, h, n, calls))
<1> DEFINE first == d.next_tx_id
           call(i) == ParseInput(Txs[h][i])
           ss == [i \in 1..n |->
                     <<Txs[h][i].from, Txs[h][i].to>> \o
                     IF i \in calls THEN <<call(i).sender, call(i).receiver>> ELSE <<>>]
           e == EncodeAll(d, FlattenSeq(ss))
           row(i) == [tx |-> <<h, i>>, block |-> Max(DOMAIN d.blocks),
                      sender |-> AddressId(e, Txs[h][i].from),
                      receiver |-> AddressId(e, Txs[h][i].to)]
           rows == [t \in first..(first + n - 1) |-> row(t - first + 1)]
           added == Ascending(calls \cap 1..n)
           ids == [j \in DOMAIN added |-> first + added[j] - 1]
           cs == [j \in DOMAIN added |-> call(added[j])]
           f == [e EXCEPT !.txs = With(@, rows)]
<1>1. InsertTransactions(d, h, n, calls) = AddTokenTransactions(f, ids, cs)
  BY DEF InsertTransactions
<1>2. ASSUME NEW i \in 1..n
      PROVE  /\ Txs[h][i].from \in Addresses /\ Txs[h][i].to \in Addresses
             /\ i \in calls => call(i).sender \in Addresses /\ call(i).receiver \in Addresses
  BY TxFacts DEF Transfers
<1>3. ss = [i \in 1..n |-> ss[i]]
  OBVIOUS
<1>4. ASSUME NEW i \in 1..n
      PROVE  /\ ss[i] \in Seq(Addresses)
             /\ In(Txs[h][i].from, ss[i]) /\ In(Txs[h][i].to, ss[i])
  <2> DEFINE s == <<Txs[h][i].from, Txs[h][i].to>>
             t == IF i \in calls THEN <<call(i).sender, call(i).receiver>> ELSE <<>>
  <2>1. s \in Seq(Addresses) /\ t \in Seq(Addresses) /\ ss[i] = s \o t
    BY <1>2
  <2>2. In(Txs[h][i].from, s) /\ In(Txs[h][i].to, s)
    <3>1. Len(s) = 2 /\ s[1] = Txs[h][i].from /\ s[2] = Txs[h][i].to
          /\ 1 \in 1..2 /\ 2 \in 1..2
      OBVIOUS
    <3> HIDE DEF s
    <3> QED BY <3>1 DEF In
  <2> HIDE DEF s, t, ss
  <2> QED BY <2>1, <2>2, InConcat, ConcatProperties
<1> HIDE DEF ss
<1>5. /\ FlattenSeq(ss) \in Seq(Addresses)
      /\ \A i \in 1..n : \A x : In(x, ss[i]) => In(x, FlattenSeq(ss))
  BY <1>3, <1>4, FlattenJoins
<1>6. /\ Encodes(d, e) /\ SameRows(d, e)
      /\ \A x : In(x, FlattenSeq(ss)) => Known(e, x)
  BY <1>5, EncodeAllCodes, EncodeAllRows
<1> HIDE DEF e
<1>7. ASSUME NEW i \in 1..n
      PROVE  RowNames(e.cache, row(i))
  <2>1. Known(e, Txs[h][i].from) /\ Known(e, Txs[h][i].to)
    BY <1>4, <1>5, <1>6
  <2>2. /\ IsId(e.cache, AddressId(e, Txs[h][i].from), Txs[h][i].from)
        /\ IsId(e.cache, AddressId(e, Txs[h][i].to), Txs[h][i].to)
    BY <1>6, <2>1, AddressIdNames DEF Encodes
  <2> QED BY <2>2 DEF RowNames
<1>8. ASSUME NEW t \in DOMAIN rows PROVE RowNames(e.cache, rows[t])
  <2>1. t \in first..(first + n - 1) /\ rows[t] = row(t - first + 1)
    OBVIOUS
  <2>2. t - first + 1 \in 1..n
    <3> HIDE DEF rows, row
    <3> QED BY <2>1
  <2> HIDE DEF rows, row
  <2> QED BY <1>7, <2>1, <2>2
<1> HIDE DEF rows, row
<1>9. /\ DOMAIN f = Fields /\ f.cache = e.cache /\ f.bigints = e.bigints
      /\ f.txs = With(d.txs, rows)
  BY <1>6 DEF SameRows, SameChain, Fields
<1>10. Keeps(d, f)
  <2>1. Keeps(d, e)
    BY <1>6, EncodesKeeps DEF SameRows, SameChain
  <2>2. Names(d.cache, d.txs) => Names(f.cache, f.txs)
    <3> SUFFICES ASSUME Names(d.cache, d.txs), NEW t \in DOMAIN f.txs
                 PROVE  RowNames(f.cache, f.txs[t])
      BY DEF Names
    <3>1. Names(e.cache, d.txs)
      BY <1>6, <2>1 DEF Keeps, SameRows
    <3>2. CASE t \in DOMAIN d.txs
      <4>1. f.txs[t] = d.txs[t]
        BY <1>9, <3>2 DEF With
      <4> QED BY <1>9, <3>1, <3>2, <4>1 DEF Names
    <3>3. CASE t \notin DOMAIN d.txs
      <4>1. t \in DOMAIN rows /\ f.txs[t] = rows[t]
        BY <1>9, <3>3 DEF With
      <4> QED BY <1>8, <1>9, <4>1
    <3> QED BY <3>2, <3>3
  <2> HIDE DEF f
  <2> QED BY <1>6, <1>9, <2>2 DEF Keeps, Encodes, Addressed
<1> HIDE DEF f
<1>11. /\ Len(added) \in Nat /\ DOMAIN added = 1..Len(added)
       /\ \A j \in 1..Len(added) : added[j] \in calls \cap 1..n
  <2>1. IsFiniteSet(1..n)
    BY SegmentFinite
  <2> DEFINE T == calls \cap 1..n
  <2>2. T \in SUBSET (1..n) /\ T \in SUBSET Nat
    OBVIOUS
  <2> HIDE DEF T
  <2>3. IsFiniteSet(T)
    BY <2>1, <2>2, FS_Subset
  <2>4. Lists(Ascending(T), T)
    BY <2>2, <2>3, AscendingLists
  <2>5. added = Ascending(T)
    BY DEF T
  <2> HIDE DEF added
  <2>6. Lists(added, T)
    BY <2>4, <2>5
  <2> QED BY <2>6 DEF Lists, T
<1>12. Keeps(f, AddTokenTransactions(f, ids, cs))
  <2>1. DOMAIN ids = 1..Len(added)
    BY <1>11
  <2>2. ASSUME NEW j \in 1..Len(added)
        PROVE  cs[j].sender \in Addresses /\ cs[j].receiver \in Addresses
    <3>1. cs[j] = call(added[j]) /\ added[j] \in calls /\ added[j] \in 1..n
      BY <1>11
    <3> HIDE DEF cs, added, call
    <3> QED BY <1>2, <3>1
  <2>3. DOMAIN f = Fields /\ Addressed(f)
    BY <1>10 DEF Keeps, Encodes
  <2> HIDE DEF ids, cs, added
  <2> QED BY <1>11, <2>1, <2>2, <2>3, AddTokenTransactionsKeeps
<1> HIDE DEF ids, cs, added
<1> QED BY <1>1, <1>10, <1>12, KeepsTransitive

LEMMA FitsNextId ==
    ASSUME NEW d, NEW S, Fits(d, S)
    PROVE  d.next_tx_id \in Nat
<1>1. PICK n \in Nat : FitsRows(d, n, S)
  BY DEF Fits
<1>2. n \in 0..n
  OBVIOUS
<1> QED BY <1>1, <1>2, NextIdFacts DEF FitsRows

LEMMA DeleteBlocksKeeps ==
    ASSUME NEW d, DOMAIN d = Fields, Addressed(d), NEW revert
    PROVE  Keeps(d, DeleteBlocks(d, revert))
<1> DEFINE e == DeleteBlocks(d, revert)
<1>1. CASE revert = <<>>
  <2>1. e = d
    BY <1>1 DEF DeleteBlocks
  <2> QED BY <2>1, SameIdsKeeps
<1>2. CASE revert # <<>>
  <2>1. PICK gone, bs, tts, ch, id, ix :
           e = [d EXCEPT !.blocks = bs, !.txs = Without(d.txs, gone), !.token_txs = tts,
                         !.chain = ch, !.next_tx_id = id, !.index = ix]
    BY <1>2 DEF DeleteBlocks
  <2> HIDE DEF e
  <2>2. /\ DOMAIN e = Fields /\ e.cache = d.cache /\ e.bigints = d.bigints
        /\ e.txs = Without(d.txs, gone)
    BY <2>1 DEF Fields
  <2>3. \A t \in DOMAIN e.txs : t \in DOMAIN d.txs /\ e.txs[t] = d.txs[t]
    BY <2>2 DEF Without
  <2>4. Keeps(d, e)
    BY <2>2, <2>3, SameIdsKeeps
  <2> QED BY <2>4 DEF e
<1> QED BY <1>1, <1>2

\* A push adds ids, and rows with the right ones.
LEMMA PushKeeps ==
    ASSUME NEW d, NEW f \in Nat, Holds(d, f), Addressed(d), NEW S, Fits(d, S),
           NEW h \in Hashes, S \subseteq {Stale(d, h)},
           S # {} => BlocksToRevert(d, h) = <<>>,
           ~BlockRequired(d, h), NEW calls, calls \subseteq Transfers(h),
           NEW e, e = InsertBlock(DeleteBlocks(d, BlocksToRevert(d, h)), h, calls)
    PROVE  Keeps(d, e)
<1> DEFINE c == DeleteBlocks(d, BlocksToRevert(d, h))
           o == InsertOnlyBlock(c, h)
           n == Len(Txs[h])
           t == InsertTransactions(o, h, n, calls)
<1>1. Keeps(d, c) /\ DOMAIN c = Fields /\ Addressed(c) /\ c.next_tx_id \in Nat
  <2>1. Keeps(d, c)
    BY DeleteBlocksKeeps DEF Holds
  <2>2. Fits(c, S)
    BY RevertFits
  <2> HIDE DEF c
  <2> QED BY <2>1, <2>2, FitsNextId DEF Keeps, Encodes
<1> HIDE DEF c
<1>2. Keeps(c, o) /\ DOMAIN o = Fields /\ Addressed(o) /\ o.next_tx_id \in Nat
  BY <1>1, InsertOnlyBlockKeeps, InsertOnlyBlockAdds DEF Keeps, Encodes
<1>3. n \in Nat /\ 1..n \subseteq DOMAIN Txs[h]
  <2>1. Txs[h] \in Seq(Tx)
    BY EthAssumption DEF EthAssumption
  <2> QED BY <2>1, LenProperties
<1> HIDE DEF o, n
<1>4. Keeps(o, t)
  BY <1>2, <1>3, InsertTransactionsKeeps
<1>5. e = AddNewBlock([t EXCEPT !.next_tx_id = @ + n], h, Max(DOMAIN t.blocks))
  BY DEF InsertBlock, c, o, n
<1> HIDE DEF t
<1>6. Addressed(t) /\ DOMAIN t = Fields
  BY <1>4 DEF Keeps, Encodes
<1>7. DOMAIN e = Fields /\ e.cache = t.cache /\ e.bigints = t.bigints /\ e.txs = t.txs
  BY <1>5, <1>6 DEF AddNewBlock, Fields
<1>8. Keeps(t, e)
  BY <1>6, <1>7, SameIdsKeeps
<1>9. Keeps(d, o)
  BY <1>1, <1>2, KeepsTransitive
<1>10. Keeps(d, t)
  BY <1>4, <1>9, KeepsTransitive
<1> QED BY <1>8, <1>10, KeepsTransitive

\* A push that is rolled back leaves its ids in the cache alone.
LEMMA RollbackAddressed ==
    ASSUME NEW d, DOMAIN d = Fields, Addressed(d), d.next_tx_id \in Nat, NEW h \in Hashes,
           NEW n \in DOMAIN Txs[h], NEW calls, calls \subseteq Transfers(h)
    PROVE  Addressed(Rollback(InsertTransactions(InsertOnlyBlock(d, h), h, n, calls), d))
<1> DEFINE o == InsertOnlyBlock(d, h)
           t == InsertTransactions(o, h, n, calls)
           e == Rollback(t, d)
<1>1. DOMAIN o = Fields /\ Addressed(o) /\ o.next_tx_id \in Nat
  BY InsertOnlyBlockKeeps, InsertOnlyBlockAdds DEF Keeps, Encodes
<1>2. n \in Nat /\ 1..n \subseteq DOMAIN Txs[h]
  <2>1. Txs[h] \in Seq(Tx)
    BY EthAssumption DEF EthAssumption
  <2>2. Len(Txs[h]) \in Nat /\ DOMAIN Txs[h] = 1..Len(Txs[h])
    BY <2>1, LenProperties
  <2> QED BY <2>2
<1> HIDE DEF o
<1>3. Keeps(o, t)
  BY <1>1, <1>2, InsertTransactionsKeeps
<1>4. e.cache = t.cache /\ e.bigints = d.bigints
  <2>1. DOMAIN t = Fields
    BY <1>3 DEF Keeps
  <2> HIDE DEF t
  <2> QED BY <2>1 DEF Rollback, Fields
<1>5. Addressed(e)
  <2>1. t.cache \in Seq(Addresses)
    BY <1>3 DEF Keeps, Encodes, Addressed
  <2> HIDE DEF t, e
  <2> QED BY <1>4, <2>1 DEF Addressed
<1> QED BY <1>5 DEF o

\* Every id is in the table, and every row of `txs` is decoded by the ids.
Coded(d) == Codes(d.cache, d.bigints) /\ Names(d.cache, d.txs)

\* The same of the tables alone.
CodedTables(d) == \E c \in Seq(Addresses) : Codes(c, d.bigints) /\ Names(c, d.txs)

LEMMA KeepsCoded ==
    ASSUME NEW d, NEW e, Keeps(d, e)
    PROVE  Addressed(e) /\ (Coded(d) => Coded(e))
BY DEF Keeps, Encodes, Coded

LEMMA CodedConsistent ==
    ASSUME NEW d, CodedTables(d)
    PROVE  ConsistentlyEncoded(d)
<1>1. PICK c \in Seq(Addresses) : Codes(c, d.bigints) /\ Names(c, d.txs)
  BY DEF CodedTables
<1> DEFINE L == Len(c)
<1>2. L \in Nat /\ DOMAIN d.bigints = 0..(L - 1)
  BY <1>1, LenProperties DEF Codes
<1> HIDE DEF L
<1>3. Cardinality(0..(L - 1)) = L
  BY <1>2, FS_Interval
<1> QED BY <1>2, <1>3 DEF ConsistentlyEncoded

LEMMA OpenAddressed ==
    ASSUME NEW d, DOMAIN d = Fields, Addressed(d), ConsistentlyEncoded(d)
    PROVE  Addressed(Open(d)) /\ (CodedTables(d) => Coded(Open(d)))
<1> DEFINE e == Open(d)
           L == Cardinality(DOMAIN d.bigints)
<1>1. /\ e.cache = [i \in 1..L |-> d.bigints[i - 1]]
      /\ e.bigints = d.bigints /\ e.txs = d.txs
  BY DEF Open, Fields
<1>2. L \in Nat /\ DOMAIN d.bigints = 0..(L - 1)
  BY FS_CardinalityType DEF Addressed, ConsistentlyEncoded
<1> HIDE DEF e, L
<1>3. e.cache \in Seq(Addresses)
  <2>1. \A i \in 1..L : i - 1 \in 0..(L - 1)
    BY <1>2
  <2>2. \A i \in 1..L : d.bigints[i - 1] \in Addresses
    BY <1>2, <2>1 DEF Addressed
  <2>3. e.cache \in [1..L -> Addresses]
    BY <1>1, <2>2
  <2> QED BY <1>2, <2>3, SeqDef
<1>4. Addressed(e)
  BY <1>1, <1>3 DEF Addressed
<1>5. ASSUME CodedTables(d) PROVE Coded(e)
  <2>1. PICK c \in Seq(Addresses) : Codes(c, d.bigints) /\ Names(c, d.txs)
    BY <1>5 DEF CodedTables
  <2> DEFINE M == Len(c)
  <2>2. M \in Nat /\ DOMAIN d.bigints = 0..(M - 1) /\ DOMAIN c = 1..M
        /\ d.bigints = [i \in 0..(M - 1) |-> c[i + 1]]
    BY <2>1, LenProperties DEF Codes
  <2> HIDE DEF M
  <2>3. L = M
    <3>1. Cardinality(0..(M - 1)) = M
      BY <2>2, FS_Interval
    <3> QED BY <2>2, <3>1 DEF L
  <2>4. Len(e.cache) = M
    <3>1. DOMAIN e.cache = 1..M
      BY <1>1, <2>3
    <3> QED BY <2>2, <3>1, LenDomain
  <2>5. ASSUME NEW i \in 1..M PROVE e.cache[i] = c[i]
    <3>1. i - 1 \in 0..(M - 1) /\ (i - 1) + 1 = i
      BY <2>2
    <3>2. d.bigints[i - 1] = c[(i - 1) + 1]
      BY <2>2, <3>1
    <3> QED BY <1>1, <2>3, <3>1, <3>2
  <2>6. e.cache = c
    BY <1>3, <2>4, <2>5, SeqEqual DEF M
  <2> QED BY <1>1, <2>1, <2>6 DEF Coded
<1> QED BY <1>4, <1>5 DEF e

LEMMA ForgetAddressed ==
    ASSUME NEW d, DOMAIN d = Fields, Addressed(d)
    PROVE  Addressed(Forget(d)) /\ (Coded(d) => CodedTables(Forget(d)))
<1> DEFINE e == Forget(d)
<1>1. e.cache = <<>> /\ e.bigints = d.bigints /\ e.txs = d.txs
  BY DEF Forget, Fields
<1> HIDE DEF e
<1>2. Addressed(e)
  BY <1>1, EmptySeq DEF Addressed
<1>3. Coded(d) => CodedTables(e)
  BY <1>1 DEF Coded, CodedTables, Addressed
<1> QED BY <1>2, <1>3 DEF e

LEMMA CleanUpAddressed ==
    ASSUME NEW d, DOMAIN d = Fields, Addressed(d), NEW block
    PROVE  Addressed(CleanUpDatabase(d, block))
<1> DEFINE e == CleanUpDatabase(d, block)
           gone == {a \in DOMAIN d.bigints : a > LastGood(d)}
<1>1. e.cache = d.cache /\ e.bigints = Without(d.bigints, gone)
  BY DEF CleanUpDatabase, Fields
<1> HIDE DEF e, gone
<1>2. /\ DOMAIN e.bigints \in SUBSET DOMAIN d.bigints
      /\ \A i \in DOMAIN e.bigints : e.bigints[i] = d.bigints[i]
  BY <1>1 DEF Without
<1>3. IsFiniteSet(DOMAIN e.bigints)
  <2>1. IsFiniteSet(DOMAIN d.bigints)
    BY DEF Addressed
  <2> QED BY <1>2, <2>1, FS_Subset
<1>4. Addressed(e)
  BY <1>1, <1>2, <1>3 DEF Addressed
<1> QED BY <1>4 DEF e

-----------------------------------------------------------------------------
(***************************************************************************)
(* The rows of `txs` and the transactions of the chain.                    *)
(***************************************************************************)

\* n names a transaction of the chain, or of a row.
OnChain(d, n) ==
    \E i \in DOMAIN d.chain : \E k \in DOMAIN Txs[d.chain[i].hash] : n = <<d.chain[i].hash, k>>
InRows(txs, n) == \E t \in DOMAIN txs : n = txs[t].tx

\* The span of a block has the block's transactions.
LEMMA SpanFilled ==
    ASSUME NEW n \in Nat, NEW bs, NEW txs, Consecutive(bs, n), Filled(bs, txs, n),
           NEW i \in 1..n, NEW k \in 1..bs[i].count
    PROVE  InRows(txs, <<bs[i].hash, k>>)
<1> DEFINE t == bs[i].first + k - 1
           b == txs[t].block
<1>1. /\ bs[i].first \in Nat \ {0} /\ bs[i].count \in Nat
      /\ EndOf(bs[i]) = bs[i].first + bs[i].count /\ k \in Nat /\ 1 <= k /\ k <= bs[i].count
  BY DEF Consecutive, EndOf
<1>2. t \in Nat \ {0} /\ bs[i].first <= t /\ t < EndOf(bs[i]) /\ t - bs[i].first + 1 = k
  <2> PICK x, y : x = bs[i].first /\ y = bs[i].count
    OBVIOUS
  <2>1. x \in Nat \ {0} /\ y \in Nat /\ EndOf(bs[i]) = x + y /\ t = x + k - 1
    BY <1>1
  <2> HIDE DEF t
  <2> QED BY <1>1, <2>1
<1> HIDE DEF t
<1>3. t \in 1..(NextId(bs, n) - 1)
  <2>1. n \in 0..n
    OBVIOUS
  <2>2. EndOf(bs[i]) <= NextId(bs, n) /\ NextId(bs, n) \in Nat /\ EndOf(bs[i]) \in Nat
    BY <2>1, NextIdFacts
  <2> QED BY <1>2, <2>2
<1>4. Placed(bs, n, t, txs[t]) /\ t \in DOMAIN txs
  BY <1>3 DEF Filled
<1>5. /\ b \in 1..n /\ bs[b].first <= t /\ t < EndOf(bs[b])
      /\ txs[t].tx = <<bs[b].hash, t - bs[b].first + 1>>
  BY <1>4 DEF Placed
<1> HIDE DEF b
<1>6. /\ bs[b].first \in Nat /\ EndOf(bs[b]) \in Nat /\ EndOf(bs[i]) \in Nat
  BY <1>1, <1>5 DEF Consecutive, EndOf
<1>7. b = i
  <2>1. b \in Nat /\ i \in Nat
    BY <1>5
  <2>2. CASE b < i
    <3>1. EndOf(bs[b]) <= bs[i].first
      BY <1>5, <2>2 DEF Consecutive
    <3> QED BY <1>1, <1>2, <1>5, <1>6, <3>1
  <2>3. CASE i < b
    <3>1. EndOf(bs[i]) <= bs[b].first
      BY <1>5, <2>3 DEF Consecutive
    <3> QED BY <1>1, <1>2, <1>5, <1>6, <3>1
  <2> QED BY <2>1, <2>2, <2>3
<1>8. txs[t].tx = <<bs[i].hash, k>>
  BY <1>2, <1>5, <1>7
<1> QED BY <1>4, <1>8 DEF InRows

LEMMA RowsAreChain ==
    ASSUME NEW d, NEW f \in Nat, Holds(d, f), NEW S, Fits(d, S), NEW n
    PROVE  OnChain(d, n) <=> InRows(d.txs, n)
<1> DEFINE L == Len(d.chain)
<1>1. /\ DOMAIN d.chain = 1..L /\ DOMAIN d.blocks = 1..L /\ L \in Nat
      /\ \A i \in 1..L : d.chain[i] = [hash |-> d.blocks[i].hash, id |-> i]
                         /\ d.chain[i].hash \in Hashes
  BY ChainIsSeq DEF Holds
<1>2. PICK m \in Nat : FitsRows(d, m, S)
  BY DEF Fits
<1>3. DOMAIN d.blocks = 1..m /\ Consecutive(d.blocks, m) /\ Filled(d.blocks, d.txs, m)
  BY <1>2 DEF FitsRows
<1> HIDE DEF L
<1>4. m = L
  <2>1. Cardinality(1..m) = m /\ Cardinality(1..L) = L
    BY <1>1, FS_Interval
  <2> QED BY <1>1, <1>3, <2>1
<1>5. ASSUME NEW i \in 1..m
      PROVE  /\ d.chain[i].hash = d.blocks[i].hash /\ i \in DOMAIN d.chain
             /\ d.blocks[i].count \in Nat
             /\ DOMAIN Txs[d.chain[i].hash] = 1..d.blocks[i].count
  <2>1. d.chain[i].hash = d.blocks[i].hash /\ d.chain[i].hash \in Hashes
    <3>1. i \in 1..L
      BY <1>4
    <3>2. d.chain[i] = [hash |-> d.blocks[i].hash, id |-> i] /\ d.chain[i].hash \in Hashes
      BY <1>1, <3>1
    <3> QED BY <3>2
  <2>2. Txs[d.chain[i].hash] \in Seq(Tx)
    BY <2>1, EthAssumption DEF EthAssumption
  <2>3. d.blocks[i].count = Len(Txs[d.chain[i].hash]) /\ d.blocks[i].count \in Nat
    BY <1>3, <2>1 DEF Consecutive
  <2> QED BY <1>1, <1>4, <2>1, <2>2, <2>3, LenProperties
<1>6. ASSUME OnChain(d, n) PROVE InRows(d.txs, n)
  <2>1. PICK i \in DOMAIN d.chain : \E k \in DOMAIN Txs[d.chain[i].hash] : n = <<d.chain[i].hash, k>>
    BY <1>6 DEF OnChain
  <2>2. i \in 1..m
    BY <1>1, <1>4
  <2>3. PICK k \in 1..d.blocks[i].count : n = <<d.blocks[i].hash, k>>
    BY <1>5, <2>1, <2>2
  <2> QED BY <1>3, <2>2, <2>3, SpanFilled
<1>7. ASSUME InRows(d.txs, n) PROVE OnChain(d, n)
  <2>1. PICK t \in DOMAIN d.txs : n = d.txs[t].tx
    BY <1>7 DEF InRows
  <2> DEFINE b == d.txs[t].block
             k == t - d.blocks[b].first + 1
  <2>2. t \in Nat /\ Placed(d.blocks, m, t, d.txs[t])
    <3>1. t \in 1..(NextId(d.blocks, m) - 1)
      BY <1>3 DEF Filled
    <3> QED BY <1>3, <3>1 DEF Filled
  <2>3. b \in 1..m /\ d.blocks[b].first <= t /\ t < d.blocks[b].first + d.blocks[b].count
        /\ n = <<d.blocks[b].hash, k>>
    BY <2>1, <2>2 DEF Placed, EndOf
  <2> HIDE DEF b
  <2>4. d.blocks[b].first \in Nat /\ d.blocks[b].count \in Nat
    BY <1>3, <2>3 DEF Consecutive
  <2>5. k \in 1..d.blocks[b].count
    BY <2>2, <2>3, <2>4
  <2>6. /\ d.chain[b].hash = d.blocks[b].hash /\ b \in DOMAIN d.chain
        /\ DOMAIN Txs[d.chain[b].hash] = 1..d.blocks[b].count
    BY <1>5, <2>3
  <2> HIDE DEF k
  <2>7. k \in DOMAIN Txs[d.chain[b].hash] /\ n = <<d.chain[b].hash, k>>
    BY <2>3, <2>5, <2>6
  <2> QED BY <2>6, <2>7 DEF OnChain
<1> QED BY <1>6, <1>7

-----------------------------------------------------------------------------
(***************************************************************************)
(* GetHistory.                                                             *)
(***************************************************************************)

\* In a cache of distinct addresses an id names one, and one has one id.
LEMMA IdUnique ==
    ASSUME NEW c, NEW b, Codes(c, b), NEW id, NEW jd, NEW a, NEW x,
           IsId(c, id, a), IsId(c, jd, x)
    PROVE  id = jd <=> a = x
<1>1. /\ id \in Nat /\ jd \in Nat /\ c[id + 1] = a /\ c[jd + 1] = x
      /\ id + 1 \in 1..Len(c) /\ jd + 1 \in 1..Len(c)
  BY DEF IsId
<1>2. a = x => id + 1 = jd + 1
  BY <1>1 DEF Codes
<1> QED BY <1>1, <1>2

LEMMA DecodeNames ==
    ASSUME NEW d, Addressed(d), NEW id, NEW a, IsId(d.cache, id, a)
    PROVE  Decode(d, id) = a /\ Known(d, a)
<1>1. DOMAIN d.cache = 1..Len(d.cache)
  BY LenProperties DEF Addressed
<1>2. id + 1 \in DOMAIN d.cache /\ d.cache[id + 1] = a
  BY <1>1 DEF IsId
<1> QED BY <1>2 DEF Decode, Known

\* What the chain says of transaction n, and what GetHistory says of row t.
Entry(n) == [tx |-> n, sender |-> Txs[n[1]][n[2]].from, receiver |-> Txs[n[1]][n[2]].to,
             order |-> {n}]
Told(d, t) == [tx |-> d.txs[t].tx, sender |-> Decode(d, d.txs[t].sender),
               receiver |-> Decode(d, d.txs[t].receiver), order |-> GetTimestamp(d.index, t)]
\* Address a is of transaction n.
Party(a, n) == a \in {Txs[n[1]][n[2]].from, Txs[n[1]][n[2]].to}

LEMMA RowTold ==
    ASSUME NEW d, Addressed(d), Coded(d), NEW t \in DOMAIN d.txs,
           GetTimestamp(d.index, t) = {d.txs[t].tx}
    PROVE  /\ Told(d, t) = Entry(d.txs[t].tx)
           /\ \A a : Party(a, d.txs[t].tx) => Known(d, a)
           /\ \A a : Known(d, a) => (t \in TxsWith(d, {AddressId(d, a)}) <=> Party(a, d.txs[t].tx))
<1> DEFINE n == d.txs[t].tx
           x == Txs[n[1]][n[2]].from
           y == Txs[n[1]][n[2]].to
<1>1. IsId(d.cache, d.txs[t].sender, x) /\ IsId(d.cache, d.txs[t].receiver, y)
  BY DEF Coded, Names, RowNames
<1> HIDE DEF x, y
<1>2. /\ Decode(d, d.txs[t].sender) = x /\ Known(d, x)
      /\ Decode(d, d.txs[t].receiver) = y /\ Known(d, y)
  BY <1>1, DecodeNames
<1>3. Told(d, t) = Entry(n)
  BY <1>2 DEF Told, Entry, x, y
<1>4. ASSUME NEW a, Party(a, n) PROVE Known(d, a)
  <2>1. a \in {x, y}
    BY <1>4 DEF Party, x, y
  <2> QED BY <1>2, <2>1
<1>5. ASSUME NEW a, Known(d, a)
      PROVE  t \in TxsWith(d, {AddressId(d, a)}) <=> Party(a, n)
  <2> DEFINE id == AddressId(d, a)
  <2>1. IsId(d.cache, id, a)
    BY <1>5, AddressIdNames
  <2> HIDE DEF id
  <2>2. (d.txs[t].sender = id <=> x = a) /\ (d.txs[t].receiver = id <=> y = a)
    BY <1>1, <2>1, IdUnique DEF Coded
  <2>3. t \in TxsWith(d, {id}) <=> d.txs[t].sender = id \/ d.txs[t].receiver = id
    BY DEF TxsWith
  <2>4. Party(a, n) <=> x = a \/ y = a
    BY DEF Party, x, y
  <2> QED BY <2>2, <2>3, <2>4 DEF id
<1> QED BY <1>3, <1>4, <1>5

\* GetHistory answers with the transactions of the chain.
LEMMA HistoryTold ==
    ASSUME NEW d, NEW f \in Nat, Holds(d, f), Fits(d, {}), Addressed(d), Coded(d), NEW a, NEW e
    PROVE  e \in GetHistory(d, a) <=> \E n : OnChain(d, n) /\ Party(a, n) /\ e = Entry(n)
<1>1. \A t \in DOMAIN d.txs : GetTimestamp(d.index, t) = {d.txs[t].tx}
  BY FitsMatches
<1>2. \A n : OnChain(d, n) <=> InRows(d.txs, n)
  BY RowsAreChain
<1>3. GetHistory(d, a) = IF ~Known(d, a) THEN {}
                         ELSE {Told(d, t) : t \in TxsWith(d, {AddressId(d, a)})}
  BY DEF GetHistory, Told
<1>4. ASSUME e \in GetHistory(d, a)
      PROVE  \E n : OnChain(d, n) /\ Party(a, n) /\ e = Entry(n)
  <2>1. Known(d, a)
    BY <1>3, <1>4
  <2>2. PICK t \in TxsWith(d, {AddressId(d, a)}) : e = Told(d, t)
    BY <1>3, <1>4
  <2>3. t \in DOMAIN d.txs
    BY DEF TxsWith
  <2>4. e = Entry(d.txs[t].tx) /\ Party(a, d.txs[t].tx)
    BY <1>1, <2>1, <2>2, <2>3, RowTold
  <2>5. InRows(d.txs, d.txs[t].tx)
    BY <2>3 DEF InRows
  <2> QED BY <1>2, <2>4, <2>5
<1>5. ASSUME NEW n, OnChain(d, n), Party(a, n), e = Entry(n)
      PROVE  e \in GetHistory(d, a)
  <2>1. PICK t \in DOMAIN d.txs : n = d.txs[t].tx
    BY <1>2, <1>5 DEF InRows
  <2>2. Known(d, a)
    BY <1>1, <1>5, <2>1, RowTold
  <2>3. t \in TxsWith(d, {AddressId(d, a)}) /\ Told(d, t) = e
    BY <1>1, <1>5, <2>1, <2>2, RowTold
  <2> QED BY <1>3, <2>2, <2>3
<1> QED BY <1>4, <1>5

-----------------------------------------------------------------------------
(***************************************************************************)
(* The rows of `token_txs`.                                                *)
(***************************************************************************)

\* The largest number of a finite set.
LEMMA LargestIsMax ==
    ASSUME NEW S \in SUBSET Nat, IsFiniteSet(S), S # {}
    PROVE  Max(S) \in S /\ \A j \in S : j <= Max(S)
<1> DEFINE a == Ascending(S)
           n == Len(a)
<1>1. Lists(a, S)
  BY AscendingLists
<1> HIDE DEF a
<1>2. n \in Nat /\ n # 0 /\ n \in 1..n /\ a[n] \in S
  BY <1>1 DEF Lists
<1>3. ASSUME NEW j \in S PROVE a[n] >= j
  <2>1. PICK k \in 1..n : a[k] = j
    BY <1>1 DEF Lists
  <2>2. k = n \/ k < n
    BY <1>2
  <2>3. a[n] \in Nat /\ j \in Nat /\ (k < n => a[k] < a[n])
    BY <1>1, <1>2 DEF Lists
  <2> QED BY <2>1, <2>2, <2>3
<1>4. \E x \in S : \A y \in S : x >= y
  BY <1>2, <1>3
<1>5. Max(S) \in S /\ \A y \in S : Max(S) >= y
  BY <1>4 DEF Max
<1> QED BY <1>5

\* A table with keys that sqlite gave.
TokenTable(d) ==
    /\ d.token_txs = [k \in DOMAIN d.token_txs |-> d.token_txs[k]]
    /\ DOMAIN d.token_txs \in SUBSET Nat
    /\ IsFiniteSet(DOMAIN d.token_txs)

\* The transactions it is about.
Recorded(d) == {d.token_txs[k].tx : k \in DOMAIN d.token_txs}

\* From d to e, it is about those of S too.
Records(d, e, S) ==
    /\ TokenTable(e)
    /\ \A x : x \in Recorded(e) <=> x \in Recorded(d) \/ x \in S

Elems(s) == {s[i] : i \in 1..Len(s)}

LEMMA NextKeyIsNew ==
    ASSUME NEW d, TokenTable(d)
    PROVE  /\ NextKey(d.token_txs) \in Nat
           /\ \A k \in DOMAIN d.token_txs : k < NextKey(d.token_txs)
<1> DEFINE t == d.token_txs
           D == DOMAIN t
<1>1. t = [k \in D |-> t[k]] /\ D \in SUBSET Nat /\ IsFiniteSet(D)
  BY DEF TokenTable
<1> HIDE DEF t
<1>2. CASE D = {}
  <2>1. t = <<>>
    BY <1>1, <1>2
  <2> QED BY <1>2, <2>1 DEF NextKey, t
<1>3. CASE D # {}
  <2> HIDE DEF D
  <2>1. Max(D) \in Nat /\ \A j \in D : j <= Max(D)
    BY <1>1, <1>3, LargestIsMax
  <2>2. t # <<>>
    BY <1>3 DEF D
  <2>3. NextKey(t) = Max(D) + 1
    BY <2>2 DEF NextKey, D
  <2>4. \A j \in D : j \in Nat
    BY <1>1
  <2>5. NextKey(t) \in Nat /\ \A k \in D : k < NextKey(t)
    BY <2>1, <2>3, <2>4
  <2> QED BY <2>5 DEF D, t
<1> QED BY <1>2, <1>3

LEMMA AddTokenTransactionsRecords ==
    ASSUME NEW d, DOMAIN d = Fields, TokenTable(d), NEW n \in Nat,
           NEW ids, DOMAIN ids = 1..n, NEW calls
    PROVE  Records(d, AddTokenTransactions(d, ids, calls), Elems(ids))
<1> DEFINE t == d.token_txs
           D == DOMAIN t
           key == NextKey(t)
           N == key..(key + n - 1)
           f == AddTokenTransactions(d, ids, calls)
           us == f.token_txs
<1>1. PICK e, rows : /\ \E as : e = EncodeAll(d, as)
                     /\ f = [e EXCEPT !.token_txs = With(@, rows)]
                     /\ DOMAIN rows = key..(key + Len(ids) - 1)
                     /\ \A k \in key..(key + Len(ids) - 1) : rows[k].tx = ids[k - key + 1]
  <2> DEFINE as == FlattenSeq([i \in DOMAIN ids |-> <<calls[i].sender, calls[i].receiver>>])
             e == EncodeAll(d, as)
             row(i) == [tx |-> ids[i], sender |-> AddressId(e, calls[i].sender),
                                       receiver |-> AddressId(e, calls[i].receiver)]
             rows == [k \in key..(key + Len(ids) - 1) |-> row(k - key + 1)]
  <2>1. f = [e EXCEPT !.token_txs = With(@, rows)]
    BY DEF AddTokenTransactions
  <2>2. /\ DOMAIN rows = key..(key + Len(ids) - 1)
        /\ \A k \in key..(key + Len(ids) - 1) : rows[k].tx = ids[k - key + 1]
    <3> HIDE DEF key, e
    <3> QED OBVIOUS
  <2> HIDE DEF f, as, rows
  <2> QED BY <2>1, <2>2
<1>2. Len(ids) = n
  BY LenDomain
<1>3. us = With(t, rows) /\ DOMAIN rows = N /\ \A k \in N : rows[k].tx = ids[k - key + 1]
  <2>1. DOMAIN e = Fields /\ e.token_txs = t
    <3>1. PICK as : e = EncodeAll(d, as)
      BY <1>1
    <3> QED BY <3>1 DEF EncodeAll, Fields
  <2> HIDE DEF key, t, f
  <2>2. f.token_txs = With(t, rows)
    BY <1>1, <2>1 DEF Fields
  <2> QED BY <1>1, <1>2, <2>2
<1>4. key \in Nat /\ \A k \in D : k < key /\ k \in Nat
  BY NextKeyIsNew DEF TokenTable
<1>5. IsFiniteSet(D) /\ IsFiniteSet(N)
  <2>1. key + n - 1 \in Int /\ key \in Int
    BY <1>4
  <2> HIDE DEF key
  <2> QED BY <2>1, FS_Interval DEF TokenTable
<1> HIDE DEF t, key, f
<1>6. \A k \in D : k \notin N
  BY <1>4
<1>7. /\ us = [k \in D \cup N |-> IF k \in D THEN t[k] ELSE rows[k]]
  BY <1>3 DEF With
<1> HIDE DEF D, N, us
<1>8. TokenTable(f)
  <2>1. us = [k \in DOMAIN us |-> us[k]] /\ DOMAIN us = D \cup N
    BY <1>7
  <2>2. D \cup N \in SUBSET Nat
    BY <1>4 DEF N
  <2>3. IsFiniteSet(D \cup N)
    BY <1>5, FS_Union
  <2> QED BY <2>1, <2>2, <2>3 DEF TokenTable, us
<1>9. ASSUME NEW x PROVE x \in Recorded(f) <=> x \in Recorded(d) \/ x \in Elems(ids)
  <2>1. x \in Recorded(f) <=> \E k \in D \cup N : us[k].tx = x
    BY <1>7 DEF Recorded, us
  <2>2. x \in Recorded(d) <=> \E k \in D : t[k].tx = x
    BY DEF Recorded, t, D
  <2>3. x \in Elems(ids) <=> \E i \in 1..n : ids[i] = x
    BY <1>2 DEF Elems
  <2>4. \A k \in D : us[k] = t[k]
    BY <1>7
  <2>5. \A k \in N : us[k].tx = ids[k - key + 1]
    BY <1>3, <1>6, <1>7
  <2>6. \A k \in N : k - key + 1 \in 1..n
    BY <1>4 DEF N
  <2>7. \A i \in 1..n : key + i - 1 \in N /\ (key + i - 1) - key + 1 = i
    BY <1>4 DEF N
  <2>8. (\E k \in N : us[k].tx = x) <=> \E i \in 1..n : ids[i] = x
    <3>1. ASSUME NEW k \in N, us[k].tx = x PROVE \E i \in 1..n : ids[i] = x
      BY <2>5, <2>6, <3>1
    <3>2. ASSUME NEW i \in 1..n, ids[i] = x PROVE \E k \in N : us[k].tx = x
      <4> DEFINE k == key + i - 1
      <4>1. k \in N /\ k - key + 1 = i
        BY <2>7
      <4> HIDE DEF k
      <4>2. us[k].tx = ids[k - key + 1]
        BY <2>5, <4>1
      <4> QED BY <3>2, <4>1, <4>2
    <3> QED BY <3>1, <3>2
  <2> QED BY <2>1, <2>2, <2>3, <2>4, <2>8
<1> QED BY <1>8, <1>9 DEF Records, f

\* The ids of transactions of a block, the first of which has the id `first`.
Ids(first, calls) == {first + i - 1 : i \in calls}

LEMMA InsertTransactionsRecords ==
    ASSUME NEW d, DOMAIN d = Fields, TokenTable(d), NEW h, NEW n \in Nat, NEW calls
    PROVE  Records(d, InsertTransactions(d, h, n, calls),
                   Ids(d.next_tx_id, calls \cap 1..n))
<1> DEFINE first == d.next_tx_id
           T == calls \cap 1..n
           added == Ascending(T)
           ids == [j \in DOMAIN added |-> first + added[j] - 1]
           e == InsertTransactions(d, h, n, calls)
<1>1. PICK f, cs : /\ \E as, rows : f = [EncodeAll(d, as) EXCEPT !.txs = With(@, rows)]
                   /\ e = AddTokenTransactions(f, ids, cs)
  BY DEF InsertTransactions
<1>2. DOMAIN f = Fields /\ f.token_txs = d.token_txs
  <2>1. PICK as, rows : f = [EncodeAll(d, as) EXCEPT !.txs = With(@, rows)]
    BY <1>1
  <2>2. DOMAIN EncodeAll(d, as) = Fields /\ EncodeAll(d, as).token_txs = d.token_txs
    BY DEF EncodeAll, Fields
  <2> QED BY <2>1, <2>2 DEF Fields
<1>3. Lists(added, T)
  <2>1. IsFiniteSet(1..n)
    BY SegmentFinite
  <2>2. T \in SUBSET (1..n) /\ T \in SUBSET Nat
    OBVIOUS
  <2> HIDE DEF T
  <2>3. IsFiniteSet(T)
    BY <2>1, <2>2, FS_Subset
  <2> QED BY <2>2, <2>3, AscendingLists
<1> HIDE DEF added, T, e
<1> DEFINE m == Len(added)
<1>4. /\ m \in Nat /\ DOMAIN added = 1..m
      /\ \A j \in 1..m : added[j] \in T
      /\ \A i \in T : \E j \in 1..m : added[j] = i
  BY <1>3 DEF Lists
<1> HIDE DEF m
<1>5. DOMAIN ids = 1..m /\ \A j \in 1..m : ids[j] = first + added[j] - 1
  BY <1>4
<1> HIDE DEF ids
<1>6. TokenTable(f)
  BY <1>2 DEF TokenTable
<1>7. Records(f, e, Elems(ids))
  BY <1>1, <1>2, <1>4, <1>5, <1>6, AddTokenTransactionsRecords
<1>8. Elems(ids) = Ids(first, T)
  <2>1. Len(ids) = m
    BY <1>4, <1>5, LenDomain
  <2> HIDE DEF first
  <2>2. \A x : x \in Elems(ids) <=> \E j \in 1..m : x = first + added[j] - 1
    BY <1>5, <2>1 DEF Elems
  <2>3. \A x : x \in Ids(first, T) <=> \E i \in T : x = first + i - 1
    BY DEF Ids
  <2>4. \A x : x \in Elems(ids) <=> x \in Ids(first, T)
    BY <1>4, <2>2, <2>3
  <2> QED BY <2>4
<1>9. Recorded(f) = Recorded(d)
  BY <1>2 DEF Recorded
<1> QED BY <1>7, <1>8, <1>9 DEF Records, T, e

-----------------------------------------------------------------------------
(***************************************************************************)
(* What an insertion and a deletion do to the transfers of the token.      *)
(***************************************************************************)

\* The rows of transfers.
TransferRows(d) == {t \in DOMAIN d.txs : IsTransfer(Txs[d.txs[t].tx[1]][d.txs[t].tx[2]])}

\* The transfers of the lowest blocks are recorded, and nothing else.
Downward(d) ==
    /\ TokenTable(d)
    /\ Recorded(d) \subseteq TransferRows(d)
    /\ \A s \in Recorded(d) : \A t \in TransferRows(d) :
          d.txs[t].block < d.txs[s].block => t \in Recorded(d)

\* All of them are.
Complete(d) == TokenTable(d) /\ Recorded(d) = TransferRows(d)

LEMMA CompleteDownward ==
    ASSUME NEW d, Complete(d)
    PROVE  Downward(d)
BY DEF Complete, Downward

\* Two Databases with the same transactions.
SameTokens(d, e) == e.txs = d.txs /\ e.token_txs = d.token_txs

LEMMA SameTokensKeeps ==
    ASSUME NEW d, NEW e, SameTokens(d, e)
    PROVE  (Downward(d) => Downward(e)) /\ (Complete(d) => Complete(e))
<1>1. TransferRows(e) = TransferRows(d) /\ Recorded(e) = Recorded(d)
  BY DEF SameTokens, TransferRows, Recorded
<1>2. TokenTable(d) => TokenTable(e)
  BY DEF SameTokens, TokenTable
<1> QED BY <1>1, <1>2 DEF Downward, Complete, SameTokens

\* e is d with the block h after n ones, `calls` of which are recorded.
Grown(d, e, h, n, calls) ==
    /\ \A t \in DOMAIN d.txs : /\ t \in DOMAIN e.txs /\ e.txs[t] = d.txs[t]
                               /\ d.txs[t].block \in 1..n
    /\ \A t \in DOMAIN e.txs :
          \/ t \in DOMAIN d.txs
          \/ \E i \in DOMAIN Txs[h] : t = d.next_tx_id + i - 1
    /\ \A i \in DOMAIN Txs[h] : /\ d.next_tx_id + i - 1 \in DOMAIN e.txs
                                /\ e.txs[d.next_tx_id + i - 1].block = n + 1
                                /\ e.txs[d.next_tx_id + i - 1].tx = <<h, i>>
    /\ Records(d, e, Ids(d.next_tx_id, calls))

LEMMA InsertBlockGrows ==
    ASSUME NEW d, DOMAIN d = Fields, NEW n \in Nat, NEW S, FitsRows(d, n, S),
           NEW h \in Hashes, S \subseteq {Stale(d, h)}, TokenTable(d),
           NEW calls, calls \subseteq DOMAIN Txs[h]
    PROVE  Grown(d, InsertBlock(d, h, calls), h, n, calls)
<1> DEFINE o == InsertOnlyBlock(d, h)
           l == Len(Txs[h])
           t == InsertTransactions(o, h, l, calls)
           e == InsertBlock(d, h, calls)
           m == d.next_tx_id
<1>1. RowStands(o, d, n, h)
  BY InsertOnlyBlockStands
<1>2. DOMAIN o = Fields /\ o.txs = d.txs /\ o.next_tx_id = m /\ Max(DOMAIN o.blocks) = n + 1
  BY <1>1 DEF RowStands
<1>3. o.token_txs = d.token_txs
  BY DEF InsertOnlyBlock, Encode, EncodeAll, Fields
<1>4. l \in Nat /\ DOMAIN Txs[h] = 1..l
  <2>1. Txs[h] \in Seq(Tx)
    BY EthAssumption DEF EthAssumption
  <2> QED BY <2>1, LenProperties
<1>5. PICK rows : /\ NewRows(rows, m, l, n + 1, h)
                  /\ t.txs = With(d.txs, rows)
  <2> HIDE DEF o
  <2> QED BY <1>2, InsertTransactionsRows
<1>6. DOMAIN t = Fields
  <2> HIDE DEF o, l
  <2> QED BY <1>2, InsertTransactionsFrame DEF SameChain
<1>7. Records(o, t, Ids(m, calls))
  <2>1. calls \cap 1..l = calls
    BY <1>4
  <2>2. TokenTable(o)
    BY <1>3 DEF TokenTable
  <2> HIDE DEF o, l
  <2>3. Records(o, t, Ids(o.next_tx_id, calls \cap 1..l))
    BY <1>2, <1>4, <2>2, InsertTransactionsRecords
  <2> QED BY <1>2, <2>1, <2>3
<1>8. e.txs = With(d.txs, rows) /\ e.token_txs = t.token_txs
  <2>1. e = AddNewBlock([t EXCEPT !.next_tx_id = @ + l], h, Max(DOMAIN t.blocks))
    BY DEF InsertBlock
  <2> HIDE DEF o, t, e
  <2> QED BY <1>5, <1>6, <2>1 DEF AddNewBlock, Fields
<1>9. Records(d, e, Ids(m, calls))
  <2>1. Recorded(o) = Recorded(d)
    BY <1>3 DEF Recorded
  <2>2. Recorded(e) = Recorded(t) /\ (TokenTable(t) => TokenTable(e))
    <3> HIDE DEF t, e
    <3> QED BY <1>8 DEF Recorded, TokenTable
  <2> HIDE DEF o, t, e
  <2> QED BY <1>7, <2>1, <2>2 DEF Records
<1>10. /\ m \in Nat \ {0} /\ DOMAIN d.txs = 1..(m - 1)
       /\ \A x \in 1..(m - 1) : d.txs[x].block \in 1..n
  <2>1. /\ Consecutive(d.blocks, n) /\ Filled(d.blocks, d.txs, n) /\ m = NextId(d.blocks, n)
    BY DEF FitsRows
  <2>2. n \in 0..n
    OBVIOUS
  <2>3. NextId(d.blocks, n) \in Nat \ {0}
    BY <2>1, <2>2, NextIdFacts
  <2>4. DOMAIN d.txs = 1..(m - 1)
    BY <2>1 DEF Filled
  <2>5. ASSUME NEW x \in 1..(m - 1) PROVE d.txs[x].block \in 1..n
    BY <2>1 DEF Filled, Placed
  <2> QED BY <2>1, <2>3, <2>4, <2>5
<1>11. /\ DOMAIN rows = m..(m + l - 1)
       /\ \A x \in m..(m + l - 1) : rows[x].block = n + 1 /\ rows[x].tx = <<h, x - m + 1>>
  BY <1>5 DEF NewRows
<1> HIDE DEF o, t, e, l, m
<1>12. ASSUME NEW x \in DOMAIN d.txs
       PROVE  x \in DOMAIN e.txs /\ e.txs[x] = d.txs[x] /\ d.txs[x].block \in 1..n
  BY <1>8, <1>10 DEF With
<1>13. ASSUME NEW x \in DOMAIN e.txs
       PROVE  x \in DOMAIN d.txs \/ \E i \in DOMAIN Txs[h] : x = m + i - 1
  <2>1. x \in DOMAIN d.txs \/ x \in m..(m + l - 1)
    BY <1>8, <1>11 DEF With
  <2>2. ASSUME x \in m..(m + l - 1) PROVE \E i \in DOMAIN Txs[h] : x = m + i - 1
    <3>1. x - m + 1 \in 1..l /\ x = m + (x - m + 1) - 1
      BY <1>4, <1>10, <2>2
    <3> QED BY <1>4, <3>1
  <2> QED BY <2>1, <2>2
<1>14. ASSUME NEW i \in DOMAIN Txs[h]
       PROVE  /\ m + i - 1 \in DOMAIN e.txs
              /\ e.txs[m + i - 1].block = n + 1 /\ e.txs[m + i - 1].tx = <<h, i>>
  <2> DEFINE x == m + i - 1
  <2>1. i \in 1..l
    BY <1>4
  <2>2. x \in m..(m + l - 1) /\ x \notin 1..(m - 1) /\ x - m + 1 = i
    BY <1>4, <1>10, <2>1
  <2> HIDE DEF x
  <2>3. x \in DOMAIN e.txs /\ e.txs[x] = rows[x]
    BY <1>8, <1>10, <1>11, <2>2 DEF With
  <2>4. rows[x].block = n + 1 /\ rows[x].tx = <<h, i>>
    BY <1>11, <2>2
  <2>5. x \in DOMAIN e.txs /\ e.txs[x].block = n + 1 /\ e.txs[x].tx = <<h, i>>
    BY <2>3, <2>4
  <2> QED BY <2>5 DEF x
<1> QED BY <1>9, <1>12, <1>13, <1>14 DEF Grown, e, m

\* The rows of transfers of a Database with one more block.
LEMMA GrownTransfers ==
    ASSUME NEW d, NEW e, NEW h, NEW n, NEW calls, Grown(d, e, h, n, calls), NEW x
    PROVE  /\ x \in TransferRows(e) <=> \/ x \in TransferRows(d)
                                        \/ x \in Ids(d.next_tx_id, Transfers(h))
           /\ x \in TransferRows(d) => /\ e.txs[x] = d.txs[x] /\ d.txs[x].block \in 1..n
           /\ x \in Ids(d.next_tx_id, Transfers(h)) => e.txs[x].block = n + 1
<1> DEFINE m == d.next_tx_id
<1>1. ASSUME x \in TransferRows(d)
      PROVE  x \in TransferRows(e) /\ e.txs[x] = d.txs[x] /\ d.txs[x].block \in 1..n
  BY <1>1 DEF Grown, TransferRows
<1>2. ASSUME x \in Ids(m, Transfers(h))
      PROVE  x \in TransferRows(e) /\ e.txs[x].block = n + 1
  <2>1. PICK i \in Transfers(h) : x = m + i - 1
    BY <1>2 DEF Ids
  <2>2. i \in DOMAIN Txs[h] /\ IsTransfer(Txs[h][i])
    BY DEF Transfers
  <2>3. x \in DOMAIN e.txs /\ e.txs[x].block = n + 1 /\ e.txs[x].tx = <<h, i>>
    BY <2>1, <2>2 DEF Grown
  <2>4. e.txs[x].tx[1] = h /\ e.txs[x].tx[2] = i
    BY <2>3
  <2> QED BY <2>2, <2>3, <2>4 DEF TransferRows
<1>3. ASSUME x \in TransferRows(e), x \notin TransferRows(d)
      PROVE  x \in Ids(m, Transfers(h))
  <2>1. x \in DOMAIN e.txs /\ IsTransfer(Txs[e.txs[x].tx[1]][e.txs[x].tx[2]])
    BY <1>3 DEF TransferRows
  <2>2. x \notin DOMAIN d.txs
    BY <1>3, <2>1 DEF TransferRows, Grown
  <2>3. PICK i \in DOMAIN Txs[h] : x = m + i - 1
    BY <2>1, <2>2 DEF Grown
  <2>4. e.txs[x].tx = <<h, i>>
    BY <2>3 DEF Grown
  <2>5. e.txs[x].tx[1] = h /\ e.txs[x].tx[2] = i
    BY <2>4
  <2>6. i \in Transfers(h)
    BY <2>1, <2>5 DEF Transfers
  <2> QED BY <2>3, <2>6 DEF Ids
<1> QED BY <1>1, <1>2, <1>3

\* A block above what is recorded, none of which is.
LEMMA GrownDownward ==
    ASSUME NEW d, NEW e, NEW h, NEW n \in Nat, Grown(d, e, h, n, {}), Downward(d)
    PROVE  Downward(e)
<1>1. TokenTable(e) /\ Recorded(e) = Recorded(d)
  <2>1. \A x : x \notin Ids(d.next_tx_id, {})
    BY DEF Ids
  <2>2. TokenTable(e) /\ \A x : x \in Recorded(e) <=> x \in Recorded(d)
    BY <2>1 DEF Grown, Records
  <2> QED BY <2>2
<1>2. Recorded(e) \subseteq TransferRows(e)
  BY <1>1, GrownTransfers DEF Downward
<1>3. ASSUME NEW s \in Recorded(e), NEW t \in TransferRows(e), e.txs[t].block < e.txs[s].block
      PROVE  t \in Recorded(e)
  <2>1. s \in Recorded(d) /\ s \in TransferRows(d)
    BY <1>1 DEF Downward
  <2>2. e.txs[s] = d.txs[s] /\ d.txs[s].block \in 1..n
    BY <2>1, GrownTransfers
  <2>3. t \in TransferRows(d)
    <3>1. CASE t \in Ids(d.next_tx_id, Transfers(h))
      <4>1. e.txs[t].block = n + 1
        BY <3>1, GrownTransfers
      <4> QED BY <1>3, <2>2, <4>1
    <3> QED BY <3>1, GrownTransfers
  <2>4. e.txs[t] = d.txs[t]
    BY <2>3, GrownTransfers
  <2>5. d.txs[t].block < d.txs[s].block
    BY <1>3, <2>2, <2>4
  <2> QED BY <1>1, <2>1, <2>3, <2>5 DEF Downward
<1> QED BY <1>1, <1>2, <1>3 DEF Downward

\* A block all of whose transfers are recorded.
LEMMA GrownComplete ==
    ASSUME NEW d, NEW e, NEW h, NEW n, NEW calls, calls = Transfers(h),
           Grown(d, e, h, n, calls), Complete(d)
    PROVE  Complete(e)
<1>1. TokenTable(e) /\ \A x : x \in Recorded(e) <=> \/ x \in Recorded(d)
                                                    \/ x \in Ids(d.next_tx_id, calls)
  BY DEF Grown, Records
<1>2. \A x : x \in Recorded(e) <=> x \in TransferRows(e)
  BY <1>1, GrownTransfers DEF Complete
<1> QED BY <1>1, <1>2 DEF Complete

\* e is d without the blocks above k.
Trimmed(d, e, k) ==
    /\ \A t : t \in DOMAIN e.txs <=> t \in DOMAIN d.txs /\ d.txs[t].block <= k
    /\ \A t \in DOMAIN e.txs : e.txs[t] = d.txs[t]
    /\ TokenTable(e)
    /\ \A x : x \in Recorded(e) <=> x \in Recorded(d) /\ x \in DOMAIN e.txs

LEMMA TrimmedKeeps ==
    ASSUME NEW d, NEW e, NEW k, Trimmed(d, e, k)
    PROVE  (Downward(d) => Downward(e)) /\ (Complete(d) => Complete(e))
<1>1. ASSUME NEW x
      PROVE  x \in TransferRows(e) <=> x \in TransferRows(d) /\ x \in DOMAIN e.txs
  BY DEF Trimmed, TransferRows
<1>2. ASSUME Downward(d) PROVE Downward(e)
  <2>1. Recorded(e) \subseteq TransferRows(e)
    BY <1>1, <1>2 DEF Trimmed, Downward
  <2>2. ASSUME NEW s \in Recorded(e), NEW t \in TransferRows(e), e.txs[t].block < e.txs[s].block
        PROVE  t \in Recorded(e)
    <3>1. /\ s \in Recorded(d) /\ s \in DOMAIN e.txs
          /\ t \in TransferRows(d) /\ t \in DOMAIN e.txs
      BY <1>1 DEF Trimmed
    <3>2. e.txs[t] = d.txs[t] /\ e.txs[s] = d.txs[s]
      BY <3>1 DEF Trimmed
    <3>3. t \in Recorded(d)
      BY <1>2, <2>2, <3>1, <3>2 DEF Downward
    <3> QED BY <3>1, <3>3 DEF Trimmed
  <2> QED BY <2>1, <2>2 DEF Trimmed, Downward
<1>3. ASSUME Complete(d) PROVE Complete(e)
  <2>1. \A x : x \in Recorded(e) <=> x \in TransferRows(e)
    BY <1>1, <1>3 DEF Trimmed, Complete
  <2> QED BY <2>1 DEF Trimmed, Complete
<1> QED BY <1>2, <1>3

\* The ids in the ranges of the blocks after k are those of their transactions.
Ranges(bs, ids) ==
    UNION {bs[i].first..(bs[i].first + bs[i].count - 1) : i \in ids \cap DOMAIN bs}

LEMMA RangesAbove ==
    ASSUME NEW n \in Nat, NEW bs, DOMAIN bs = 1..n, NEW txs,
           Consecutive(bs, n), Filled(bs, txs, n),
           NEW k \in 0..n, NEW ids, ids = (k + 1)..n, NEW t \in DOMAIN txs
    PROVE  /\ t \in Ranges(bs, ids) <=> ~(txs[t].block <= k)
           /\ txs[t].block \in 1..n
<1> DEFINE b == txs[t].block
           at(i) == bs[i].first
           len(i) == bs[i].count
<1>1. t \in 1..(NextId(bs, n) - 1)
  BY DEF Filled
<1>2. t \in Nat /\ b \in 1..n /\ at(b) <= t /\ t < at(b) + len(b)
  BY <1>1 DEF Filled, Placed, EndOf
<1>3. t < NextId(bs, k) <=> b <= k
  BY <1>1, BelowNextId
<1>4. \A i \in (k + 1)..n : NextId(bs, k) <= at(i) /\ NextId(bs, k) \in Nat
  BY NextIdFacts
<1>5. ASSUME NEW i \in 1..n PROVE at(i) \in Nat /\ len(i) \in Nat
  BY DEF Consecutive
<1>6. t \in Ranges(bs, ids) <=> \E i \in (k + 1)..n : t \in at(i)..(at(i) + len(i) - 1)
  <2>1. ids \cap DOMAIN bs = (k + 1)..n
    OBVIOUS
  <2> QED BY <2>1 DEF Ranges
<1> HIDE DEF b, at, len
<1>7. ASSUME NEW i \in (k + 1)..n, t \in at(i)..(at(i) + len(i) - 1) PROVE ~(b <= k)
  <2>1. i \in 1..n
    OBVIOUS
  <2>2. at(i) \in Nat /\ len(i) \in Nat /\ NextId(bs, k) \in Nat /\ NextId(bs, k) <= at(i)
    BY <1>4, <1>5, <2>1
  <2>3. at(i) <= t
    BY <1>2, <1>7, <2>2
  <2>4. ~(t < NextId(bs, k))
    BY <1>2, <2>2, <2>3
  <2> QED BY <1>3, <2>4
<1>8. ASSUME ~(b <= k) PROVE \E i \in (k + 1)..n : t \in at(i)..(at(i) + len(i) - 1)
  <2>1. b \in (k + 1)..n
    BY <1>2, <1>8
  <2>2. at(b) \in Nat /\ len(b) \in Nat
    BY <1>2, <1>5
  <2>3. t \in at(b)..(at(b) + len(b) - 1)
    BY <1>2, <2>2
  <2> QED BY <2>1, <2>3
<1>9. t \in Ranges(bs, ids) <=> ~(b <= k)
  BY <1>6, <1>7, <1>8
<1> QED BY <1>2, <1>9 DEF b

\* DeleteBlocks deletes the token transactions of the blocks it deletes.
LEMMA DeleteBlocksTrims ==
    ASSUME NEW d, NEW f \in Nat, Holds(d, f), NEW S, Fits(d, S), Downward(d),
           NEW k \in 1..Len(d.chain),
           NEW e, e = DeleteBlocks(d, Above(d, k))
    PROVE  Trimmed(d, e, k)
<1> DEFINE n == Len(d.chain)
           revert == Above(d, k)
           ids == {revert[i].id : i \in DOMAIN revert}
           gone == {t \in DOMAIN d.txs : d.txs[t].block \in ids}
           R == Ranges(d.blocks, ids)
           K == {x \in DOMAIN d.token_txs : d.token_txs[x].tx \in R}
<1>1. n \in Nat /\ DOMAIN d = Fields /\ DOMAIN d.blocks = 1..n
  BY ChainIsSeq DEF Holds
<1>2. Consecutive(d.blocks, n) /\ Filled(d.blocks, d.txs, n)
  <2>1. PICK m \in Nat : FitsRows(d, m, S)
    BY DEF Fits
  <2>2. DOMAIN d.blocks = 1..m
    BY <2>1 DEF FitsRows
  <2>3. m = n
    <3> HIDE DEF n
    <3>1. 1..m = 1..n
      BY <1>1, <2>2
    <3>2. Cardinality(1..m) = m /\ Cardinality(1..n) = n
      BY <1>1, FS_Interval
    <3> QED BY <3>1, <3>2
  <2> QED BY <2>1, <2>3 DEF FitsRows
<1>3. /\ TokenTable(d)
      /\ \A x \in Recorded(d) : x \in DOMAIN d.txs
  BY DEF Downward, TransferRows
<1>4. ids = (k + 1)..n
  <2>1. revert = Above(d, k)
    OBVIOUS
  <2> HIDE DEF revert
  <2>2. \A i \in DOMAIN revert : revert[i].id \in (k + 1)..n
    BY <2>1, RevertIds
  <2>3. \A j \in (k + 1)..n : n - j + 1 \in DOMAIN revert /\ revert[n - j + 1].id = j
    BY <2>1, RevertIds
  <2> HIDE DEF n
  <2> QED BY <2>2, <2>3
<1>5. k \in 0..n /\ k \in Nat
  BY <1>1
<1>6. CASE revert = <<>>
  <2>1. e = d
    BY <1>6 DEF DeleteBlocks
  <2>2. k = n
    <3>1. revert = Above(d, k)
      OBVIOUS
    <3> HIDE DEF revert
    <3> QED BY <1>6, <3>1, RevertIds
  <2>3. \A t \in DOMAIN d.txs : d.txs[t].block <= k
    <3>1. ASSUME NEW t \in DOMAIN d.txs PROVE d.txs[t].block \in 1..n
      BY <1>2 DEF Filled, Placed
    <3> HIDE DEF n
    <3> QED BY <2>2, <3>1
  <2> QED BY <1>3, <2>1, <2>3 DEF Trimmed
<1>7. CASE revert # <<>>
  <2>1. e.txs = Without(d.txs, gone) /\ e.token_txs = Without(d.token_txs, K)
    <3>1. \E bs, ch, id, ix : e = [d EXCEPT !.blocks = bs, !.txs = Without(d.txs, gone),
                !.token_txs = Without(d.token_txs, K), !.chain = ch,
                !.next_tx_id = id, !.index = ix]
      BY <1>7 DEF DeleteBlocks, Ranges
    <3> HIDE DEF revert, ids, gone, K
    <3> QED BY <1>1, <3>1 DEF Fields
  <2>2. ASSUME NEW t \in DOMAIN d.txs
        PROVE  (t \in gone <=> ~(d.txs[t].block <= k)) /\ (t \in R <=> ~(d.txs[t].block <= k))
    <3> HIDE DEF ids
    <3>1. (t \in R <=> ~(d.txs[t].block <= k)) /\ d.txs[t].block \in 1..n
      <4> HIDE DEF n
      <4> QED BY <1>1, <1>2, <1>4, <1>5, RangesAbove
    <3>2. t \in gone <=> d.txs[t].block \in (k + 1)..n
      BY <1>4
    <3> HIDE DEF n, R, gone
    <3> QED BY <1>1, <1>5, <3>1, <3>2
  <2> HIDE DEF revert, ids, R, gone, n
  <2>3. \A t : t \in DOMAIN e.txs <=> t \in DOMAIN d.txs /\ t \notin gone
    BY <2>1 DEF Without
  <2>4. \A t \in DOMAIN e.txs : e.txs[t] = d.txs[t]
    BY <2>1 DEF Without
  <2>5. TokenTable(e)
    <3> DEFINE D == DOMAIN d.token_txs
               us == e.token_txs
    <3>1. DOMAIN us \in SUBSET D /\ us = [x \in DOMAIN us |-> us[x]]
      BY <2>1 DEF Without
    <3>2. D \in SUBSET Nat /\ IsFiniteSet(D)
      BY <1>3 DEF TokenTable
    <3> HIDE DEF D, us
    <3>3. IsFiniteSet(DOMAIN us)
      BY <3>1, <3>2, FS_Subset
    <3>4. DOMAIN us \in SUBSET Nat
      BY <3>1, <3>2
    <3> QED BY <3>1, <3>3, <3>4 DEF TokenTable, us
  <2>6. ASSUME NEW x PROVE x \in Recorded(e) <=> x \in Recorded(d) /\ x \in DOMAIN e.txs
    <3>1. x \in Recorded(e) <=> x \in Recorded(d) /\ x \notin R
      <4>1. x \in Recorded(e) <=> \E j \in DOMAIN e.token_txs : x = e.token_txs[j].tx
        BY DEF Recorded
      <4>2. \A j : j \in DOMAIN e.token_txs <=> j \in DOMAIN d.token_txs /\ d.token_txs[j].tx \notin R
        BY <2>1 DEF Without
      <4>3. \A j \in DOMAIN e.token_txs : e.token_txs[j] = d.token_txs[j]
        BY <2>1 DEF Without
      <4>4. x \in Recorded(d) <=> \E j \in DOMAIN d.token_txs : x = d.token_txs[j].tx
        BY DEF Recorded
      <4> HIDE DEF K
      <4> QED BY <4>1, <4>2, <4>3, <4>4
    <3>2. x \in Recorded(d) => x \in DOMAIN d.txs
      BY <1>3
    <3> QED BY <2>2, <2>3, <3>1, <3>2
  <2> QED BY <2>2, <2>3, <2>4, <2>5, <2>6 DEF Trimmed
<1> QED BY <1>6, <1>7

\* What is recorded when the blocks above the parent of h are deleted.
LEMMA RevertTokens ==
    ASSUME NEW d, NEW f \in Nat, Holds(d, f), NEW S, Fits(d, S), Downward(d),
           NEW h \in Hashes, ~BlockRequired(d, h),
           NEW c, c = DeleteBlocks(d, BlocksToRevert(d, h))
    PROVE  Downward(c) /\ (Complete(d) => Complete(c))
<1>1. CASE BlocksToRevert(d, h) = <<>>
  <2>1. c = d
    BY <1>1 DEF DeleteBlocks
  <2> QED BY <2>1
<1>2. CASE BlocksToRevert(d, h) # <<>>
  <2>1. d.chain # <<>>
    BY <1>2 DEF BlocksToRevert
  <2>2. PICK k \in 1..Len(d.chain) : BlocksToRevert(d, h) = Above(d, k)
    BY <2>1, ParentIsHeld
  <2>3. Trimmed(d, c, k)
    BY <2>2, DeleteBlocksTrims
  <2> QED BY <2>3, TrimmedKeeps
<1> QED BY <1>1, <1>2

\* A push of a block: with none of its transfers, or with all.
LEMMA PushTokens ==
    ASSUME NEW d, NEW f \in Nat, Holds(d, f), NEW S, Fits(d, S), Downward(d),
           NEW h \in Hashes, S \subseteq {Stale(d, h)},
           S # {} => BlocksToRevert(d, h) = <<>>,
           ~BlockRequired(d, h), NEW calls,
           NEW e, e = InsertBlock(DeleteBlocks(d, BlocksToRevert(d, h)), h, calls)
    PROVE  /\ calls = {} => Downward(e)
           /\ calls = Transfers(h) /\ Complete(d) => Complete(e)
<1> DEFINE c == DeleteBlocks(d, BlocksToRevert(d, h))
<1>1. DOMAIN c = Fields /\ Fits(c, S) /\ S \subseteq {Stale(c, h)}
  BY RevertFits
<1>2. Downward(c) /\ (Complete(d) => Complete(c))
  BY RevertTokens
<1>3. e = InsertBlock(c, h, calls)
  OBVIOUS
<1> HIDE DEF c
<1>4. PICK n \in Nat : FitsRows(c, n, S)
  BY <1>1 DEF Fits
<1>5. TokenTable(c)
  BY <1>2 DEF Downward
<1>6. ASSUME calls \subseteq DOMAIN Txs[h] PROVE Grown(c, e, h, n, calls)
  BY <1>1, <1>3, <1>4, <1>5, <1>6, InsertBlockGrows
<1>7. ASSUME calls = {} PROVE Downward(e)
  <2>1. calls \subseteq DOMAIN Txs[h]
    BY <1>7
  <2>2. Grown(c, e, h, n, {})
    BY <1>6, <1>7, <2>1
  <2> QED BY <1>2, <2>2, GrownDownward
<1>8. ASSUME calls = Transfers(h), Complete(d) PROVE Complete(e)
  <2>1. calls \subseteq DOMAIN Txs[h]
    BY <1>8 DEF Transfers
  <2> QED BY <1>2, <1>6, <1>8, <2>1, GrownComplete
<1> QED BY <1>7, <1>8

LEMMA OpenTokens ==
    ASSUME NEW d, DOMAIN d = Fields
    PROVE  SameTokens(d, Open(d)) /\ SameTokens(d, Forget(d))
BY DEF SameTokens, Open, Forget, Fields

LEMMA EncodeTokens ==
    ASSUME NEW d, DOMAIN d = Fields, NEW a
    PROVE  SameTokens(d, Encode(d, a))
BY DEF SameTokens, Encode, EncodeAll, Fields

-----------------------------------------------------------------------------
(***************************************************************************)
(* What the token update has still to do.                                  *)
(***************************************************************************)

\* Every transfer that is not recorded is among `calls`, or of a block of
\* `blocks`, which are in ascending order and above those of `calls`.
Pending(d, calls, blocks) ==
    /\ \A t \in TransferRows(d) :
          t \in Recorded(d) \/ t \in Elems(calls) \/ d.txs[t].block \in Elems(blocks)
    /\ \A i, j \in 1..Len(blocks) : i < j => blocks[i] < blocks[j]
    /\ \A t \in Elems(calls) : \A j \in 1..Len(blocks) : d.txs[t].block < blocks[j]

\* Rows of blocks of numbers.
Numbered(d) == \A t \in DOMAIN d.txs : d.txs[t].block \in Nat

\* When `calls` are recorded, what is recorded is still of the lowest blocks.
LEMMA RecordsPending ==
    ASSUME NEW d, Downward(d), Numbered(d), NEW calls, NEW blocks \in Seq(Nat),
           Pending(d, calls, blocks), Elems(calls) \subseteq TransferRows(d),
           NEW e, e.txs = d.txs, Records(d, e, Elems(calls))
    PROVE  /\ Downward(e) /\ Pending(e, <<>>, blocks)
           /\ blocks = <<>> => Complete(e)
<1> DEFINE L == Len(blocks)
<1>1. TokenTable(e) /\ \A x : x \in Recorded(e) <=> x \in Recorded(d) \/ x \in Elems(calls)
  BY DEF Records
<1>2. TransferRows(e) = TransferRows(d)
  BY DEF TransferRows
<1>3. Recorded(e) \subseteq TransferRows(e)
  BY <1>1, <1>2 DEF Downward
<1>4. L \in Nat /\ \A j \in 1..L : blocks[j] \in Nat
  BY LenProperties, ElementOfSeq
<1>5. \A x : x \in Elems(blocks) <=> \E j \in 1..L : x = blocks[j]
  BY DEF Elems
<1>6. \A x : x \notin Elems(<<>>)
  BY DEF Elems
<1>7. ASSUME NEW s \in Recorded(e), NEW t \in TransferRows(e), e.txs[t].block < e.txs[s].block
      PROVE  t \in Recorded(e)
  <2>1. d.txs[t].block \in Nat /\ d.txs[s].block \in Nat /\ d.txs[t].block < d.txs[s].block
    BY <1>2, <1>3, <1>7 DEF Numbered, TransferRows
  <2>2. CASE s \in Recorded(d)
    BY <1>1, <1>2, <2>1, <2>2 DEF Downward
  <2>3. CASE s \in Elems(calls)
    <3>1. ASSUME d.txs[t].block \in Elems(blocks) PROVE FALSE
      <4>1. PICK j \in 1..L : d.txs[t].block = blocks[j]
        BY <1>5, <3>1
      <4>2. d.txs[s].block < blocks[j]
        BY <2>3 DEF Pending
      <4> HIDE DEF L
      <4> QED BY <2>1, <4>1, <4>2
    <3> QED BY <1>1, <1>2, <3>1 DEF Pending
  <2> QED BY <1>1, <2>2, <2>3
<1>8. Downward(e)
  BY <1>1, <1>3, <1>7 DEF Downward
<1>9. Pending(e, <<>>, blocks)
  BY <1>1, <1>2, <1>6 DEF Pending
<1>10. ASSUME blocks = <<>> PROVE Complete(e)
  <2>1. TransferRows(e) \subseteq Recorded(e)
    BY <1>6, <1>9, <1>10 DEF Pending
  <2> QED BY <1>1, <1>3, <2>1 DEF Complete
<1> QED BY <1>8, <1>9, <1>10

\* The transfers of the first block are found.
LEMMA PendingNext ==
    ASSUME NEW d, NEW A, NEW calls \in Seq(A), NEW found \in Seq(A),
           NEW blocks \in Seq(Nat), blocks # <<>>, Pending(d, calls, blocks),
           \A t : t \in Elems(found) <=> t \in TransferRows(d) /\ d.txs[t].block = Head(blocks)
    PROVE  Pending(d, calls \o found, Tail(blocks))
<1> DEFINE all == calls \o found
           rest == Tail(blocks)
           L == Len(blocks)
           m == Len(calls)
           n == Len(found)
<1>1. /\ L \in Nat \ {0} /\ \A j \in 1..L : blocks[j] \in Nat
      /\ Head(blocks) = blocks[1]
  BY LenProperties, ElementOfSeq, EmptySeq, HeadTailProperties
<1>2. Len(rest) = L - 1 /\ \A j \in 1..(L - 1) : rest[j] = blocks[j + 1]
  BY HeadTailProperties
<1>3. \A x : x \in Elems(all) <=> x \in Elems(calls) \/ x \in Elems(found)
  <2> SUFFICES ASSUME NEW x
               PROVE  x \in Elems(all) <=> x \in Elems(calls) \/ x \in Elems(found)
    OBVIOUS
  <2>1. /\ m \in Nat /\ n \in Nat /\ Len(all) = m + n
        /\ \A i \in 1..(m + n) : all[i] = IF i <= m THEN calls[i] ELSE found[i - m]
    BY LenProperties, ConcatProperties
  <2>2. /\ x \in Elems(all) <=> \E i \in 1..(m + n) : x = all[i]
        /\ x \in Elems(calls) <=> \E i \in 1..m : x = calls[i]
        /\ x \in Elems(found) <=> \E i \in 1..n : x = found[i]
    BY <2>1 DEF Elems
  <2> HIDE DEF all, m, n
  <2>3. ASSUME NEW i \in 1..(m + n) PROVE i \in 1..m \/ i - m \in 1..n
    BY <2>1
  <2>4. (\E i \in 1..(m + n) : x = all[i]) =>
           (\E i \in 1..m : x = calls[i]) \/ (\E i \in 1..n : x = found[i])
    <3> SUFFICES ASSUME NEW i \in 1..(m + n), x = all[i]
                 PROVE  (\E j \in 1..m : x = calls[j]) \/ (\E j \in 1..n : x = found[j])
      OBVIOUS
    <3>1. CASE i \in 1..m
      <4>1. all[i] = calls[i]
        BY <2>1, <3>1
      <4> QED BY <3>1, <4>1
    <3>2. CASE i - m \in 1..n
      <4>1. ~(i <= m)
        BY <2>1, <3>2
      <4>2. all[i] = found[i - m]
        BY <2>1, <4>1
      <4> QED BY <3>2, <4>2
    <3> QED BY <2>3, <3>1, <3>2
  <2>5. ASSUME NEW i \in 1..m PROVE i \in 1..(m + n) /\ all[i] = calls[i]
    BY <2>1
  <2>6. ASSUME NEW i \in 1..n PROVE i + m \in 1..(m + n) /\ all[i + m] = found[i]
    BY <2>1
  <2> QED BY <2>2, <2>4, <2>5, <2>6
<1> HIDE DEF all, rest, L, m, n
<1>4. ASSUME NEW t \in TransferRows(d)
      PROVE  t \in Recorded(d) \/ t \in Elems(all) \/ d.txs[t].block \in Elems(rest)
  <2>1. CASE d.txs[t].block \in Elems(blocks)
    <3>1. PICK j \in 1..L : d.txs[t].block = blocks[j]
      BY <2>1 DEF Elems, L
    <3>2. CASE j = 1
      BY <1>1, <1>3, <3>1, <3>2
    <3>3. CASE j # 1
      <4>1. j - 1 \in 1..(L - 1) /\ (j - 1) + 1 = j
        BY <1>1, <3>3
      <4>2. d.txs[t].block = rest[j - 1]
        BY <1>2, <3>1, <4>1
      <4> QED BY <1>2, <4>1, <4>2 DEF Elems
    <3> QED BY <3>2, <3>3
  <2> QED BY <1>3, <2>1 DEF Pending
<1>5. ASSUME NEW i \in 1..(L - 1), NEW j \in 1..(L - 1), i < j PROVE rest[i] < rest[j]
  <2>1. i + 1 \in 1..L /\ j + 1 \in 1..L /\ i + 1 < j + 1
    BY <1>1, <1>5
  <2> QED BY <1>2, <2>1 DEF Pending, L
<1>6. ASSUME NEW t \in Elems(all), NEW j \in 1..(L - 1)
      PROVE  d.txs[t].block < rest[j]
  <2>1. 1 \in 1..L /\ j + 1 \in 1..L /\ 1 < j + 1
    BY <1>1
  <2>2. CASE t \in Elems(calls)
    BY <1>2, <2>1, <2>2 DEF Pending, L
  <2>3. CASE t \in Elems(found)
    <3>1. d.txs[t].block = blocks[1]
      BY <1>1, <2>3
    <3> QED BY <1>2, <2>1, <3>1 DEF Pending, L
  <2> QED BY <1>3, <2>2, <2>3
<1> QED BY <1>2, <1>4, <1>5, <1>6 DEF Pending, all, rest

=============================================================================
