----------------------- MODULE IndexerReaders_proofs -----------------------
(***************************************************************************)
(* What the readers of an index find, for an index that starts on an       *)
(* empty database.  It follows from TablesInv, the invariant of module     *)
(* IndexerTables_proofs: each theorem of the first part is one lemma about *)
(* tables that hold the transactions of a chain.                           *)
(*                                                                         *)
(* The other parts are about what is stored besides: the average fee of    *)
(* every block, for which FeesInv adds to TablesInv that each row has the  *)
(* fee of its own block, and the types of all columns, where FeesInv is    *)
(* what tells that no fee is negative.                                     *)
(***************************************************************************)
EXTENDS IndexerTables_proofs, FunctionTheorems

\* Between calls the tables are those of the chain being served.
LEMMA IdleFacts ==
    ASSUME TablesInv, pc = "idle"
    PROVE  /\ Linear(blockchain) /\ rows = RowsOf(blockchain)
           /\ rows \in SUBSET Row
           /\ Held(db, rows) /\ Consistent(db)
           /\ timestamp_index = ReloadedIndex(db, rows)
           /\ Inverts(block_map, blockchain)
BY DEF TablesInv, FreshInv, IInv, TypeOK, Timed, Held

\* The spender a row of `outputs` shows is the one input that spends it, and
\* an output without a spender has none: for every history of pushes,
\* reorganizations, failures and restarts.
THEOREM SpentByRight ==
    InitRows = {} /\ InitTables = NoTables /\ IndexSpec => []SpentByMatchesInputs
<1>1. TablesInv => SpentByMatchesInputs
  <2> SUFFICES ASSUME TablesInv, pc = "idle", NEW o \in db.outputs
               PROVE  {i.id : i \in {x \in db.inputs : x.output = o.id}}
                         = IF o.spent_by = 0 THEN {} ELSE {o.spent_by}
    BY DEF SpentByMatchesInputs
  <2>1. Marked(db) /\ InputsKeyed(db)
    BY IdleFacts DEF Consistent
  <2>2. \A i \in db.inputs : i.id # 0
    BY <2>1 DEF InputsKeyed, InRecord
  <2>3. CASE o.spent_by = 0
    BY <2>1, <2>2, <2>3 DEF Marked
  <2>4. CASE o.spent_by # 0
    BY <2>1, <2>4 DEF Marked
  <2> QED BY <2>3, <2>4
<1> QED BY <1>1, TablesSpec, PTL

\* Block::insert never fails for an output it does not find or an id that is
\* taken: the tables it inserts into are those of the chain below the block.
THEOREM InsertsNeverFail ==
    InitRows = {} /\ InitTables = NoTables /\ IndexSpec => []InsertsSucceed
<1>1. TablesInv => InsertsSucceed
  <2> SUFFICES ASSUME TablesInv, pc = "insert", call.reverts = <<>>
               PROVE  Insertable(db, call.block, next_tx_id,
                                 Len(BlockTxs[call.block]))
    BY DEF InsertsSucceed
  <2> QED BY PushingFacts, NextIsInsertable
<1> QED BY <1>1, TablesSpec, PTL

\* A reader finds the transaction of every output, on the tables of a push
\* that failed half way too: `assert(false)` in get_utxo is never reached.
THEOREM OutputsHaveTxs ==
    InitRows = {} /\ InitTables = NoTables /\ IndexSpec => []UtxoTxExists
<1>1. TablesInv => UtxoTxExists
  <2> SUFFICES ASSUME TablesInv, Readable, NEW o \in db.outputs
               PROVE  TxRow(o.tx) # {}
    BY DEF UtxoTxExists, GetUtxo
  <2>1. Owned(db)
    <3>1. CASE pc = "idle"
      BY <3>1, IdleFacts, HeldIsOwned
    <3>2. CASE pc = "failed"
      BY <3>2 DEF TablesInv
    <3> QED BY <3>1, <3>2 DEF Readable
  <2> QED BY <2>1 DEF Owned, TxRow
<1> QED BY <1>1, TablesSpec, PTL

(***************************************************************************)
(* The timestamps.                                                         *)
(***************************************************************************)

\* The row of the block a transaction is in.
LEMMA RowOfTx ==
    ASSUME NEW c, Linear(c), NEW d, Held(d, RowsOf(c)), NEW t \in d.txs
    PROVE  \E r \in RowsOf(c) :
              /\ r \in Row /\ t \in TxRecord
              /\ {q \in RowsOf(c) : q.id = t.block} = {r}
              /\ t.index + 1 \in 1..Len(BlockTxs[r.hash])
              /\ t.id = d.spans[r.id].first + t.index
              /\ t.hash = BlockTxs[r.hash][t.index + 1]
<1>1. RowsOf(c) \in SUBSET Row
  BY ChainFacts DEF Linear, RowsOf
<1>2. \A r, q \in RowsOf(c) : r.id = q.id => r = q
  BY DEF Linear, RowsOf
<1>3. t \in TxRecord
  BY DEF Held, Consistent, TxsKeyed
<1>4. PICK r \in RowsOf(c) : /\ t.block = r.id
                             /\ t.index + 1 \in 1..Len(BlockTxs[r.hash])
                             /\ t.id = d.spans[r.id].first + t.index
                             /\ t.hash = BlockTxs[r.hash][t.index + 1]
  BY <1>1, HeldOnly
<1>5. {q \in RowsOf(c) : q.id = t.block} = {r}
  BY <1>2, <1>4
<1> QED BY <1>1, <1>3, <1>4, <1>5

\* Of the spans that end above the id of a transaction, the first is that of
\* its block.
LEMMA SpansApart ==
    ASSUME NEW c, Linear(c), NEW d, Held(d, RowsOf(c)), NEW t \in d.txs,
           NEW r \in RowsOf(c), r.id = t.block,
           NEW q \in RowsOf(c), q # r,
           d.spans[q.id].first + d.spans[q.id].count > t.id
    PROVE  d.spans[q.id].first + d.spans[q.id].count
              > d.spans[r.id].first + d.spans[r.id].count
<1> DEFINE fq == d.spans[q.id].first
           nq == Len(BlockTxs[q.hash])
           fr == d.spans[r.id].first
           nr == Len(BlockTxs[r.hash])
<1>1. RowsOf(c) \in SUBSET Row
  BY ChainFacts DEF Linear, RowsOf
<1>2. \A p, s \in RowsOf(c) : p.id = s.id => p = s
  BY DEF Linear, RowsOf
<1>3. /\ fq \in Nat /\ fr \in Nat /\ nq \in Nat \ {0} /\ nr \in Nat \ {0}
      /\ d.spans[q.id].count = nq /\ d.spans[r.id].count = nr
  BY <1>1, BlockTxsFacts DEF Held, Row
<1>4. t.id \in Nat /\ t.id >= fr
  <2>1. t \in TxRecord
    BY DEF Held, Consistent, TxsKeyed
  <2>2. t.id \in LastIds(d.spans[r.id], d.spans[r.id].count)
    BY IdsOfBlock
  <2>3. t.id \in fr..(fr + nr - 1)
    BY <2>2, IdsOfBlock
  <2> HIDE DEF fr, nr
  <2> QED BY <1>3, <2>1, <2>3 DEF TxRecord
<1>5. PICK u \in d.txs : u.id = fq + nq - 1 /\ u.block = q.id
  <2>1. nq \in 1..Len(BlockTxs[q.hash])
    BY <1>3
  <2> QED BY <1>1, <2>1, HeldHas
<1>6. u.id \notin fr..(fr + nr - 1)
  <2>1. LastIds(d.spans[r.id], d.spans[r.id].count) = fr..(fr + nr - 1)
    BY IdsOfBlock
  <2>2. u.block # r.id
    BY <1>2, <1>5
  <2> QED BY <2>1, <2>2, IdsOfBlock
<1> HIDE DEF fq, nq, fr, nr
<1>7. fq + nq > t.id
  BY <1>3 DEF fq
<1>8. fq + nq > fr + nr
  BY <1>3, <1>4, <1>5, <1>6, <1>7
<1> QED BY <1>3, <1>8 DEF fq, fr

\* get_timestamp answers the timestamp of the block a transaction is in.
THEOREM TimestampsRight ==
    InitRows = {} /\ InitTables = NoTables /\ IndexSpec => []TimestampsMatchChain
<1>1. TablesInv => TimestampsMatchChain
  <2> SUFFICES ASSUME TablesInv, pc = "idle", NEW t \in db.txs
               PROVE  GetTimestamp(t.id) = BlockOfTx(t) \X {t.index}
    BY DEF TimestampsMatchChain
  <2> DEFINE c == blockchain
             End(q) == db.spans[q.id].first + db.spans[q.id].count
             above == {s \in timestamp_index : s.end > t.id}
             first == {s \in above : \A q \in above : s.end <= q.end}
  <2>1. /\ Linear(c) /\ rows = RowsOf(c) /\ Held(db, RowsOf(c))
        /\ timestamp_index = ReloadedIndex(db, RowsOf(c))
    BY IdleFacts
  <2> HIDE DEF c
  <2>2. PICK r \in RowsOf(c) :
              /\ r \in Row /\ t \in TxRecord
              /\ {q \in RowsOf(c) : q.id = t.block} = {r}
              /\ t.index + 1 \in 1..Len(BlockTxs[r.hash])
              /\ t.id = db.spans[r.id].first + t.index
    BY <2>1, RowOfTx
  <2>3. BlockOfTx(t) = {r.hash}
    BY <2>1, <2>2 DEF BlockOfTx
  <2>4. \A q \in RowsOf(c) : End(q) \in Nat
    <3>1. RowsOf(c) \in SUBSET Row
      BY <2>1, ChainFacts DEF Linear, RowsOf
    <3> QED BY <2>1, <3>1, BlockTxsFacts DEF Held, Row
  <2>5. /\ db.spans[r.id].first \in Nat
        /\ db.spans[r.id].count = Len(BlockTxs[r.hash])
        /\ Len(BlockTxs[r.hash]) \in Nat /\ t.index \in Nat
    BY <2>1, <2>2, BlockTxsFacts DEF Held, Row, TxRecord
  <2>6. End(r) > t.id /\ t.id - db.spans[r.id].first = t.index
        /\ db.spans[r.id].first <= t.id
    BY <2>2, <2>5
  <2>7. ASSUME NEW q \in RowsOf(c), q # r, End(q) > t.id
        PROVE  End(q) > End(r)
    <3>1. r.id = t.block
      BY <2>2
    <3> QED BY <2>1, <2>7, <3>1, SpansApart
  <2>8. \A s \in timestamp_index :
           \E q \in RowsOf(c) : s = Span(db, q) /\ s.end = End(q)
    BY <2>1 DEF ReloadedIndex, Span
  <2>9. /\ Span(db, r) \in timestamp_index
        /\ Span(db, r).end = End(r)
        /\ Span(db, r).begin = db.spans[r.id].first
        /\ Span(db, r).block = r.hash
    BY <2>1 DEF ReloadedIndex, Span
  <2> HIDE DEF End
  <2>10. Span(db, r) \in above
    BY <2>6, <2>9
  <2>11. first = {Span(db, r)}
    <3>1. ASSUME NEW s \in above, s # Span(db, r) PROVE s.end > End(r)
      <4>1. PICK q \in RowsOf(c) : s = Span(db, q) /\ s.end = End(q)
        BY <2>8
      <4>2. q # r /\ End(q) > t.id
        BY <3>1, <4>1
      <4> QED BY <2>7, <4>1, <4>2
    <3>2. \A s \in above : s.end \in Nat
      BY <2>4, <2>8
    <3>3. End(r) \in Nat
      BY <2>4
    <3> HIDE DEF above
    <3>4. Span(db, r) \in first
      BY <2>9, <2>10, <3>1, <3>2, <3>3
    <3>5. ASSUME NEW s \in first PROVE s = Span(db, r)
      BY <2>9, <2>10, <3>1, <3>2, <3>3, <3>5
    <3> QED BY <3>4, <3>5
  <2>12. GetTimestamp(t.id) =
            {IF s.begin <= t.id THEN <<s.block, t.id - s.begin>>
             ELSE <<NoBlock, 0>> : s \in first}
    BY DEF GetTimestamp
  <2> HIDE DEF above, first
  <2>13. GetTimestamp(t.id) = {<<r.hash, t.index>>}
    BY <2>6, <2>9, <2>11, <2>12
  <2> QED BY <2>3, <2>13
<1> QED BY <1>1, TablesSpec, PTL

(***************************************************************************)
(* The histories and the unspent outputs.                                  *)
(***************************************************************************)

\* The transactions of the chain are those of the tables.
LEMMA LedgerTxsFacts ==
    ASSUME Linear(blockchain), Held(db, RowsOf(blockchain))
    PROVE  LedgerTxs = {t.hash : t \in db.txs}
<1> DEFINE c == blockchain
<1>1. /\ c \in Seq(Row) /\ RowsOf(c) \in SUBSET Row
      /\ DOMAIN c = 1..Len(c)
  BY ChainFacts DEF Linear, RowsOf
<1>2. \A r \in RowsOf(c) : r \in Row /\ DOMAIN BlockTxs[r.hash] = 1..Len(BlockTxs[r.hash])
  BY <1>1, BlockTxsFacts DEF Row
<1>3. LedgerTxs = UNION {Range(BlockTxs[r.hash]) : r \in RowsOf(c)}
  BY <1>1 DEF LedgerTxs, RowsOf
<1> HIDE DEF c
<1>4. ASSUME NEW t \in LedgerTxs PROVE \E u \in db.txs : u.hash = t
  <2>1. PICK r \in RowsOf(c) : t \in Range(BlockTxs[r.hash])
    BY <1>3
  <2>2. PICK i \in 1..Len(BlockTxs[r.hash]) : t = BlockTxs[r.hash][i]
    BY <1>2, <2>1 DEF Range
  <2> QED BY <1>1, <2>2, HeldHas DEF c
<1>5. ASSUME NEW u \in db.txs PROVE u.hash \in LedgerTxs
  <2>1. PICK r \in RowsOf(c) : /\ u.index + 1 \in 1..Len(BlockTxs[r.hash])
                               /\ u.hash = BlockTxs[r.hash][u.index + 1]
    BY <1>1, HeldOnly DEF c
  <2>2. u.hash \in Range(BlockTxs[r.hash])
    BY <1>2, <2>1 DEF Range
  <2> QED BY <1>3, <2>2
<1> QED BY <1>4, <1>5

\* What a transaction of the tables spends is there.
LEMMA SpentIsHeld ==
    ASSUME NEW d, Consistent(d), NEW t \in d.txs, NEW k \in DOMAIN Inputs[t.hash],
           Inputs[t.hash][k] # NullInput
    PROVE  \E i \in d.inputs : \E o \in d.outputs : \E u \in d.txs :
              /\ i.output = o.id
              /\ u.id = o.tx
              /\ Inputs[t.hash][k] = [tx |-> u.hash, n |-> o.n]
              /\ o.n \in DOMAIN Outputs[u.hash]
<1>1. TxsKeyed(d) /\ OutputsKeyed(d) /\ InputsKeyed(d)
  BY DEF Consistent
<1>2. PICK i \in d.inputs : i.tx = t.id /\ i.n = k
  BY <1>1 DEF InputsKeyed
<1>3. PICK s \in d.txs : s.id = i.tx /\ Names(d, i, Inputs[s.hash][i.n])
  BY <1>1 DEF InputsKeyed
<1>4. s = t
  BY <1>1, <1>2, <1>3 DEF TxsKeyed
<1>5. PICK o \in d.outputs : \E u \in d.txs :
         /\ o.id = i.output
         /\ u.id = o.tx
         /\ Inputs[t.hash][k] = [tx |-> u.hash, n |-> o.n]
  BY <1>2, <1>3, <1>4 DEF Names
<1>6. PICK u \in d.txs :
         /\ o.id = i.output
         /\ u.id = o.tx
         /\ Inputs[t.hash][k] = [tx |-> u.hash, n |-> o.n]
  BY <1>5
<1>7. PICK v \in d.txs : v.id = o.tx /\ o.n \in DOMAIN Outputs[v.hash]
  BY <1>1 DEF OutputsKeyed
<1>8. v = u
  BY <1>1, <1>6, <1>7 DEF TxsKeyed
<1> QED BY <1>6, <1>7, <1>8

\* The ledger's own word for a transaction that touches an address.
LEMMA LedgerTouches ==
    ASSUME Linear(blockchain), Held(db, RowsOf(blockchain)), NEW a
    PROVE  LedgerHistory(a) = {t \in LedgerTxs : Touches(t, a)}
<1>1. LedgerTxs = {t.hash : t \in db.txs}
  BY LedgerTxsFacts
<1>2. Consistent(db) /\ TxsKeyed(db)
  BY DEF Held, Consistent
<1> DEFINE Pays(t) == \E n \in DOMAIN Outputs[t] : a \in Outputs[t][n].addrs
           Takes(t) == \E u \in LedgerTxs : \E n \in DOMAIN Outputs[u] :
                          Spends(t, u, n) /\ a \in Outputs[u][n].addrs
           Draws(t) == \E k \in DOMAIN Inputs[t] :
                          /\ Inputs[t][k] # NullInput
                          /\ a \in Outputs[Inputs[t][k].tx][Inputs[t][k].n].addrs
<1>3. ASSUME NEW t \in LedgerTxs, Takes(t) PROVE Draws(t)
  <2>0. PICK u \in LedgerTxs : \E n \in DOMAIN Outputs[u] :
           Spends(t, u, n) /\ a \in Outputs[u][n].addrs
    BY <1>3
  <2>1. PICK n \in DOMAIN Outputs[u] :
           Spends(t, u, n) /\ a \in Outputs[u][n].addrs
    BY <2>0
  <2>2. PICK k \in DOMAIN Inputs[t] : Inputs[t][k] = [tx |-> u, n |-> n]
    BY <2>1 DEF Spends
  <2>3. u \in DOMAIN Inputs /\ n \in Nat
    <3>1. u \in DOMAIN Inputs
      BY <1>1, <1>2 DEF TxsKeyed, TxRecord
    <3>2. Outputs[u] \in Seq([addrs : SUBSET Addresses, value : Nat])
      BY <3>1, LedgerTypeAssumption DEF LedgerTypeAssumption
    <3> QED BY <3>1, <3>2
  <2>4. Inputs[t][k] # NullInput
    BY <2>2, <2>3, LedgerTypeAssumption DEF LedgerTypeAssumption
  <2> QED BY <2>1, <2>2, <2>4
<1>4. ASSUME NEW t \in LedgerTxs, Draws(t) PROVE Takes(t)
  <2>1. PICK k \in DOMAIN Inputs[t] :
           /\ Inputs[t][k] # NullInput
           /\ a \in Outputs[Inputs[t][k].tx][Inputs[t][k].n].addrs
    BY <1>4
  <2>2. PICK s \in db.txs : s.hash = t
    BY <1>1
  <2>3. PICK o \in db.outputs, u \in db.txs :
           /\ Inputs[t][k] = [tx |-> u.hash, n |-> o.n]
           /\ o.n \in DOMAIN Outputs[u.hash]
    BY <1>2, <2>1, <2>2, SpentIsHeld
  <2>4. u.hash \in LedgerTxs
    BY <1>1
  <2>5. Spends(t, u.hash, o.n)
    BY <2>3 DEF Spends
  <2>6. a \in Outputs[u.hash][o.n].addrs
    BY <2>1, <2>3
  <2> QED BY <2>3, <2>4, <2>5, <2>6
<1>5. LedgerHistory(a) = {t \in LedgerTxs : Pays(t) \/ Takes(t)}
  BY DEF LedgerHistory
<1>6. \A t : Touches(t, a) <=> Pays(t) \/ Draws(t)
  BY DEF Touches
<1> HIDE DEF Pays, Takes, Draws
<1> QED BY <1>3, <1>4, <1>5, <1>6

\* The ids read_txs finds for an address are those of the ledger's history.
LEMMA ReadTxsFacts ==
    ASSUME Linear(blockchain), Held(db, RowsOf(blockchain)), NEW a \in Addresses
    PROVE  /\ GetTxIds(a) = {t.id : t \in {u \in db.txs : Touches(u.hash, a)}}
           /\ LedgerHistory(a) =
                 {t.hash : t \in {u \in db.txs : Touches(u.hash, a)}}
           /\ IsFiniteSet(db.txs)
           /\ \A t, u \in db.txs : t.id = u.id => t = u
           /\ \A t, u \in db.txs : t.hash = u.hash => t = u
<1>1. TxsKeyed(db) /\ Recorded(db)
  BY DEF Held, Consistent
<1>2. GetTxIds(a) = {t.id : t \in {u \in db.txs : Touches(u.hash, a)}}
  <2>1. ASSUME NEW r \in db.addresses_txs, r[1] = a
        PROVE  \E t \in db.txs : t.id = r[2] /\ Touches(t.hash, a)
    <3>1. PICK t \in db.txs : t.id = r[2]
      BY <1>1 DEF Recorded
    <3>2. r = <<a, t.id>>
      BY <1>1, <2>1, <3>1 DEF Recorded
    <3> QED BY <1>1, <3>1, <3>2 DEF Recorded
  <2>2. ASSUME NEW t \in db.txs, Touches(t.hash, a)
        PROVE  \E r \in db.addresses_txs : r[1] = a /\ r[2] = t.id
    <3>1. <<a, t.id>> \in db.addresses_txs
      BY <1>1, <2>2 DEF Recorded
    <3> QED BY <3>1
  <2> QED BY <2>1, <2>2 DEF GetTxIds
<1>3. LedgerHistory(a) =
         {t.hash : t \in {u \in db.txs : Touches(u.hash, a)}}
  BY LedgerTxsFacts, LedgerTouches
<1> QED BY <1>1, <1>2, <1>3 DEF TxsKeyed

\* Naming the elements of a finite set by different values.
LEMMA NumberOfNames ==
    ASSUME NEW S, IsFiniteSet(S), NEW f, DOMAIN f = S,
           \A x, y \in S : f[x] = f[y] => x = y
    PROVE  Cardinality({f[x] : x \in S}) = Cardinality(S)
<1> DEFINE F == {f[x] : x \in S}
           g == [x \in S |-> f[x]]
<1>1. g \in [S -> F] /\ \A x \in S : g[x] = f[x]
  OBVIOUS
<1>2. \A v \in F : \E x \in S : g[x] = v
  BY <1>1
<1> HIDE DEF F, g
<1>3. \A x, y \in S : g[x] = g[y] => x = y
  BY <1>1
<1>4. g \in Bijection(S, F)
  BY <1>1, <1>2, <1>3, Fun_IsBij
<1>5. ExistsBijection(S, F)
  BY <1>4 DEF ExistsBijection
<1>6. Cardinality(F) = Cardinality(S)
  BY <1>5, FS_Bijection
<1> QED BY <1>6 DEF F

\* get_history lists exactly the transactions of the chain that touch an
\* address, each once, and shows each at its place in a block of the chain.
THEOREM HistoryRight ==
    InitRows = {} /\ InitTables = NoTables /\ IndexSpec => []HistoryMatchesChain
<1>1. ASSUME TablesInv, pc = "idle", NEW a \in Addresses
      PROVE  /\ UNION {{t.hash : t \in TxRow(id)} : id \in GetTxIds(a)}
                   = LedgerHistory(a)
             /\ Cardinality(GetTxIds(a)) = Cardinality(LedgerHistory(a))
  <2> DEFINE S == {u \in db.txs : Touches(u.hash, a)}
  <2>1. Linear(blockchain) /\ Held(db, RowsOf(blockchain))
    BY <1>1, IdleFacts
  <2>2. /\ GetTxIds(a) = {t.id : t \in S} /\ LedgerHistory(a) = {t.hash : t \in S}
        /\ IsFiniteSet(db.txs)
        /\ \A t, u \in db.txs : t.id = u.id => t = u
        /\ \A t, u \in db.txs : t.hash = u.hash => t = u
    BY <2>1, ReadTxsFacts
  <2>3. S \subseteq db.txs
    OBVIOUS
  <2> HIDE DEF S
  <2>4. \A t \in S : TxRow(t.id) = {t}
    BY <2>2, <2>3 DEF TxRow
  <2>5. UNION {{t.hash : t \in TxRow(id)} : id \in GetTxIds(a)} = {t.hash : t \in S}
    BY <2>2, <2>4
  <2>6. Cardinality({t.id : t \in S}) = Cardinality({t.hash : t \in S})
    <3> DEFINE f == [t \in S |-> t.id]
               g == [t \in S |-> t.hash]
    <3>1. IsFiniteSet(S)
      BY <2>2, <2>3, FS_Subset
    <3>2. /\ DOMAIN f = S /\ DOMAIN g = S
          /\ \A t \in S : f[t] = t.id /\ g[t] = t.hash
      OBVIOUS
    <3> HIDE DEF f, g
    <3>3. /\ \A x, y \in S : f[x] = f[y] => x = y
          /\ \A x, y \in S : g[x] = g[y] => x = y
      BY <2>2, <2>3, <3>2
    <3>4. /\ Cardinality({f[x] : x \in S}) = Cardinality(S)
          /\ Cardinality({g[x] : x \in S}) = Cardinality(S)
      BY <3>1, <3>2, <3>3, NumberOfNames
    <3>5. {f[x] : x \in S} = {t.id : t \in S} /\ {g[x] : x \in S} = {t.hash : t \in S}
      BY <3>2
    <3> QED BY <3>4, <3>5
  <2> QED BY <2>2, <2>5, <2>6
<1>2. ASSUME TablesInv, pc = "idle", NEW t \in db.txs, NEW b \in BlockOfTx(t)
      PROVE  /\ b \in DOMAIN block_map
             /\ BlockTxs[b][t.index + 1] = t.hash
  <2>1. /\ Linear(blockchain) /\ Held(db, RowsOf(blockchain))
        /\ rows = RowsOf(blockchain) /\ Inverts(block_map, blockchain)
    BY <1>2, IdleFacts
  <2>2. PICK r \in RowsOf(blockchain) :
           /\ {q \in RowsOf(blockchain) : q.id = t.block} = {r}
           /\ t.hash = BlockTxs[r.hash][t.index + 1]
    BY <2>1, RowOfTx
  <2>3. b = r.hash
    BY <1>2, <2>1, <2>2 DEF BlockOfTx
  <2>4. r.hash \in DOMAIN block_map
    BY <2>1, <2>2 DEF Inverts, RowsOf
  <2> QED BY <2>2, <2>3, <2>4
<1>3. TablesInv => HistoryMatchesChain
  BY <1>1, <1>2 DEF HistoryMatchesChain
<1> QED BY <1>3, TablesSpec, PTL

\* An output is marked exactly when a transaction of the tables spends it.
LEMMA MarkedIsSpent ==
    ASSUME NEW d, Consistent(d), NEW o \in d.outputs,
           NEW t \in d.txs, t.id = o.tx
    PROVE  o.spent_by = 0 <=> \A s \in d.txs : ~Spends(s.hash, t.hash, o.n)
<1>1. TxsKeyed(d) /\ OutputsKeyed(d) /\ InputsKeyed(d) /\ Marked(d)
  BY DEF Consistent
<1>2. ASSUME NEW s \in d.txs, Spends(s.hash, t.hash, o.n)
      PROVE  o.spent_by # 0
  <2>1. PICK k \in DOMAIN Inputs[s.hash] :
           Inputs[s.hash][k] = [tx |-> t.hash, n |-> o.n]
    BY <1>2 DEF Spends
  <2>2. Inputs[s.hash][k] # NullInput
    <3>1. t.hash \in DOMAIN Inputs /\ o.n \in Nat
      BY <1>1 DEF TxsKeyed, TxRecord, OutputsKeyed, OutRecord
    <3> QED BY <2>1, <3>1, LedgerTypeAssumption DEF LedgerTypeAssumption
  <2>3. PICK i \in d.inputs, p \in d.outputs, u \in d.txs :
           /\ i.output = p.id
           /\ u.id = p.tx
           /\ Inputs[s.hash][k] = [tx |-> u.hash, n |-> p.n]
    BY <2>2, SpentIsHeld
  <2>4. u.hash = t.hash /\ p.n = o.n
    BY <2>1, <2>3
  <2>5. u = t
    BY <1>1, <2>4 DEF TxsKeyed
  <2>6. p = o
    BY <1>1, <2>3, <2>4, <2>5 DEF OutputsKeyed
  <2>7. i.id = o.spent_by
    BY <1>1, <2>3, <2>6 DEF Marked
  <2> QED BY <1>1, <2>7 DEF InputsKeyed, InRecord
<1>3. ASSUME o.spent_by # 0
      PROVE  \E s \in d.txs : Spends(s.hash, t.hash, o.n)
  <2>1. PICK i \in d.inputs : i.output = o.id
    BY <1>1, <1>3 DEF Marked
  <2>2. PICK s \in d.txs : /\ i.n \in DOMAIN Inputs[s.hash]
                           /\ Names(d, i, Inputs[s.hash][i.n])
    BY <1>1 DEF InputsKeyed
  <2>3. i.output # 0
    BY <1>1, <2>1 DEF OutputsKeyed, OutRecord
  <2>4. PICK p \in d.outputs : \E u \in d.txs :
           /\ p.id = i.output
           /\ u.id = p.tx
           /\ Inputs[s.hash][i.n] = [tx |-> u.hash, n |-> p.n]
    BY <2>2, <2>3 DEF Names
  <2>5. p = o
    BY <1>1, <2>1, <2>4 DEF OutputsKeyed
  <2>6. PICK u \in d.txs : /\ u.id = o.tx
                           /\ Inputs[s.hash][i.n] = [tx |-> u.hash, n |-> o.n]
    BY <2>4, <2>5
  <2>7. u = t
    BY <1>1, <2>6 DEF TxsKeyed
  <2> QED BY <2>2, <2>6, <2>7 DEF Spends
<1> QED BY <1>2, <1>3

\* What an output is called in the ledger.
NameIn(d, o) == <<(CHOOSE t \in d.txs : t.id = o.tx).hash, o.n, o.value>>

LEMMA NameInFacts ==
    ASSUME NEW d, Consistent(d), NEW o \in d.outputs
    PROVE  \E t \in d.txs :
              /\ t.id = o.tx
              /\ \A u \in d.txs : u.id = o.tx => u = t
              /\ o.n \in DOMAIN Outputs[t.hash]
              /\ NameIn(d, o) = <<t.hash, o.n, o.value>>
              /\ o.value = Outputs[t.hash][o.n].value
<1>1. TxsKeyed(d) /\ OutputsKeyed(d)
  BY DEF Consistent
<1>2. PICK t \in d.txs : /\ t.id = o.tx
                         /\ o.n \in DOMAIN Outputs[t.hash]
                         /\ o.value = Outputs[t.hash][o.n].value
  BY <1>1 DEF OutputsKeyed
<1>3. \A u \in d.txs : u.id = o.tx => u = t
  BY <1>1, <1>2 DEF TxsKeyed
<1>4. (CHOOSE u \in d.txs : u.id = o.tx) = t
  <2> DEFINE v == CHOOSE u \in d.txs : u.id = o.tx
  <2>1. v \in d.txs /\ v.id = o.tx
    BY <1>2
  <2> HIDE DEF v
  <2>2. v = t
    BY <1>3, <2>1
  <2> QED BY <2>2 DEF v
<1> QED BY <1>2, <1>3, <1>4 DEF NameIn

LEMMA NamesDiffer ==
    ASSUME NEW d, Consistent(d), NEW o \in d.outputs, NEW p \in d.outputs,
           NameIn(d, o) = NameIn(d, p)
    PROVE  o = p
<1>1. TxsKeyed(d) /\ OutputsKeyed(d)
  BY DEF Consistent
<1>2. PICK t \in d.txs : /\ t.id = o.tx
                         /\ NameIn(d, o) = <<t.hash, o.n, o.value>>
  BY NameInFacts
<1>3. PICK u \in d.txs : /\ u.id = p.tx
                         /\ NameIn(d, p) = <<u.hash, p.n, p.value>>
  BY NameInFacts
<1>4. t.hash = u.hash /\ o.n = p.n
  <2>1. <<t.hash, o.n, o.value>> = <<u.hash, p.n, p.value>>
    BY <1>2, <1>3, Zenon
  <2> QED BY <2>1
<1>5. t = u
  BY <1>1, <1>4 DEF TxsKeyed
<1> QED BY <1>1, <1>2, <1>3, <1>4, <1>5 DEF OutputsKeyed

\* The unspent outputs of an address are those of the ledger.
LEMMA UtxoFacts ==
    ASSUME Linear(blockchain), Held(db, RowsOf(blockchain)), NEW a \in Addresses
    PROVE  LedgerUtxo(a) = {NameIn(db, o) : o \in GetUtxo(a)}
<1>1. /\ Consistent(db) /\ TxsKeyed(db) /\ OutputsKeyed(db) /\ Related(db)
      /\ LedgerTxs = {t.hash : t \in db.txs}
  BY LedgerTxsFacts DEF Held, Consistent
<1> DEFINE Free(t, k) == /\ a \in Outputs[t][k].addrs
                         /\ \A s \in LedgerTxs : ~Spends(s, t, k)
<1>2. \A x : x \in LedgerUtxo(a) <=>
         \E t \in LedgerTxs : \E n \in DOMAIN Outputs[t] :
            Free(t, n) /\ x = <<t, n, Outputs[t][n].value>>
  BY DEF LedgerUtxo
<1>3. ASSUME NEW o \in db.outputs, NEW t \in db.txs, t.id = o.tx
      PROVE  o \in GetUtxo(a) <=> Free(t.hash, o.n)
  <2>1. <<a, o.id>> \in db.addresses_outputs <=> a \in Outputs[t.hash][o.n].addrs
    BY <1>1, <1>3 DEF Related
  <2>2. o.spent_by = 0 <=> \A s \in LedgerTxs : ~Spends(s, t.hash, o.n)
    <3>1. o.spent_by = 0 <=> \A s \in db.txs : ~Spends(s.hash, t.hash, o.n)
      BY <1>1, <1>3, MarkedIsSpent
    <3> QED BY <1>1, <3>1
  <2> QED BY <2>1, <2>2 DEF GetUtxo
<1> HIDE DEF Free
<1>4. ASSUME NEW x \in LedgerUtxo(a)
      PROVE  \E o \in GetUtxo(a) : x = NameIn(db, o)
  <2>1. PICK h \in LedgerTxs : \E n \in DOMAIN Outputs[h] :
           Free(h, n) /\ x = <<h, n, Outputs[h][n].value>>
    BY <1>2
  <2>2. PICK n \in DOMAIN Outputs[h] :
           Free(h, n) /\ x = <<h, n, Outputs[h][n].value>>
    BY <2>1
  <2>3. PICK t \in db.txs : t.hash = h
    BY <1>1
  <2>4. PICK o \in db.outputs : o.tx = t.id /\ o.n = n
    BY <1>1, <2>2, <2>3 DEF OutputsKeyed
  <2>5. o \in GetUtxo(a)
    BY <1>3, <2>2, <2>3, <2>4
  <2>6. /\ NameIn(db, o) = <<t.hash, o.n, o.value>>
        /\ o.value = Outputs[t.hash][o.n].value
    BY <1>1, <2>4, NameInFacts
  <2> QED BY <2>2, <2>3, <2>4, <2>5, <2>6
<1>5. ASSUME NEW o \in GetUtxo(a) PROVE NameIn(db, o) \in LedgerUtxo(a)
  <2>1. o \in db.outputs
    BY DEF GetUtxo
  <2>2. PICK t \in db.txs : /\ t.id = o.tx
                            /\ o.n \in DOMAIN Outputs[t.hash]
                            /\ NameIn(db, o) = <<t.hash, o.n, o.value>>
                            /\ o.value = Outputs[t.hash][o.n].value
    BY <1>1, <2>1, NameInFacts
  <2>3. Free(t.hash, o.n)
    BY <1>3, <2>1, <2>2
  <2> QED BY <1>1, <1>2, <2>2, <2>3
<1> QED BY <1>4, <1>5

\* get_utxo answers exactly the unspent outputs of the chain being served,
\* each once: after every history of pushes, reorganizations, failures,
\* crashes and restarts.
THEOREM UtxosRight ==
    InitRows = {} /\ InitTables = NoTables /\ IndexSpec => []UtxosMatchChain
<1>1. ASSUME TablesInv, pc = "idle", NEW a \in Addresses
      PROVE  /\ UNION {{<<t.hash, o.n, o.value>> :
                           o \in {x \in GetUtxo(a) : x.tx = t.id}} :
                       t \in db.txs} = LedgerUtxo(a)
             /\ Cardinality(GetUtxo(a)) = Cardinality(LedgerUtxo(a))
  <2> DEFINE S == GetUtxo(a)
             f == [o \in S |-> NameIn(db, o)]
             Of(t) == {<<t.hash, o.n, o.value>> : o \in {x \in S : x.tx = t.id}}
  <2>1. /\ Linear(blockchain) /\ Held(db, RowsOf(blockchain)) /\ Consistent(db)
        /\ IsFiniteSet(db.outputs)
    BY <1>1, IdleFacts DEF Consistent, OutputsKeyed
  <2>2. LedgerUtxo(a) = {NameIn(db, o) : o \in S}
    BY <2>1, UtxoFacts
  <2>3. S \subseteq db.outputs /\ IsFiniteSet(S)
    BY <2>1, FS_Subset DEF GetUtxo
  <2> HIDE DEF S
  <2>4. UNION {Of(t) : t \in db.txs} = {NameIn(db, o) : o \in S}
    <3>1. ASSUME NEW o \in S
          PROVE  \E t \in db.txs : NameIn(db, o) \in Of(t)
      <4>1. PICK t \in db.txs : /\ t.id = o.tx
                                /\ NameIn(db, o) = <<t.hash, o.n, o.value>>
        BY <2>1, <2>3, NameInFacts
      <4> QED BY <4>1
    <3>2. ASSUME NEW t \in db.txs, NEW x \in Of(t)
          PROVE  \E o \in S : x = NameIn(db, o)
      <4>1. PICK o \in S : o.tx = t.id /\ x = <<t.hash, o.n, o.value>>
        OBVIOUS
      <4>2. PICK u \in db.txs : /\ \A v \in db.txs : v.id = o.tx => v = u
                                /\ NameIn(db, o) = <<u.hash, o.n, o.value>>
        BY <2>1, <2>3, NameInFacts
      <4> QED BY <4>1, <4>2
    <3> HIDE DEF Of
    <3> QED BY <3>1, <3>2
  <2>5. Cardinality({f[o] : o \in S}) = Cardinality(S)
    <3>1. DOMAIN f = S /\ \A o \in S : f[o] = NameIn(db, o)
      OBVIOUS
    <3> HIDE DEF f
    <3>2. \A o, p \in S : f[o] = f[p] => o = p
      BY <2>1, <2>3, <3>1, NamesDiffer
    <3> QED BY <2>3, <3>1, <3>2, NumberOfNames
  <2>6. {f[o] : o \in S} = {NameIn(db, o) : o \in S}
    OBVIOUS
  <2> HIDE DEF f, Of
  <2>7. /\ UNION {Of(t) : t \in db.txs} = LedgerUtxo(a)
        /\ Cardinality(S) = Cardinality(LedgerUtxo(a))
    BY <2>2, <2>4, <2>5, <2>6
  <2> QED BY <2>7 DEF Of, S
<1>2. TablesInv => UtxosMatchChain
  BY <1>1 DEF UtxosMatchChain
<1> QED BY <1>2, TablesSpec, PTL

(***************************************************************************)
(* The fees of a block, from the rows of its transactions.                 *)
(***************************************************************************)

\* Block b is in the tables, its transactions at `first` and up, and no other
\* transaction is in its row.
Placed(d, id, first, b) ==
    /\ first \in Nat
    /\ \A j \in 1..Len(BlockTxs[b]) : \E t \in d.txs :
          /\ t.id = first + j - 1 /\ t.hash = BlockTxs[b][j]
          /\ t.block = id /\ t.index = j - 1
    /\ \A t \in d.txs : t.block = id =>
          \E j \in 1..Len(BlockTxs[b]) :
             /\ t.id = first + j - 1 /\ t.hash = BlockTxs[b][j]
             /\ t.index = j - 1

\* The transactions of a row that is held are so placed.
LEMMA HeldIsPlaced ==
    ASSUME NEW d, NEW rs \in SUBSET Row, Held(d, rs), NEW r \in rs,
           \A q \in rs : q.id = r.id => q = r
    PROVE  Placed(d, r.id, d.spans[r.id].first, r.hash)
<1> DEFINE first == d.spans[r.id].first
           n == Len(BlockTxs[r.hash])
<1>1. first \in Nat
  BY DEF Held
<1>2. ASSUME NEW t \in d.txs, t.block = r.id
      PROVE  /\ t.index + 1 \in 1..n /\ t.id = first + t.index
             /\ t.hash = BlockTxs[r.hash][t.index + 1]
             /\ t.index \in Nat
  <2>1. PICK q \in rs : /\ t.block = q.id
                        /\ t.index + 1 \in 1..Len(BlockTxs[q.hash])
                        /\ t.id = d.spans[q.id].first + t.index
                        /\ t.hash = BlockTxs[q.hash][t.index + 1]
    BY HeldOnly
  <2>2. q = r
    BY <1>2, <2>1
  <2>3. t.index \in Nat
    BY DEF Held, Consistent, TxsKeyed, TxRecord
  <2> QED BY <2>1, <2>2, <2>3
<1>3. ASSUME NEW j \in 1..n
      PROVE  \E t \in d.txs : /\ t.id = first + j - 1 /\ t.hash = BlockTxs[r.hash][j]
                              /\ t.block = r.id /\ t.index = j - 1
  <2>1. PICK t \in d.txs : /\ t.id = first + j - 1
                           /\ t.hash = BlockTxs[r.hash][j]
                           /\ t.block = r.id
    BY HeldHas
  <2>2. t.id = first + t.index /\ t.index \in Nat
    BY <1>2, <2>1
  <2> HIDE DEF first, n
  <2>3. t.index = j - 1
    <3>1. j \in Int
      <4>1. n \in Nat
        BY BlockTxsFacts DEF n, Row
      <4> QED BY <4>1
    <3> QED BY <1>1, <2>1, <2>2, <3>1
  <2> QED BY <2>1, <2>3
<1>4. ASSUME NEW t \in d.txs, t.block = r.id
      PROVE  \E j \in 1..n : /\ t.id = first + j - 1 /\ t.hash = BlockTxs[r.hash][j]
                             /\ t.index = j - 1
  <2> DEFINE j == t.index + 1
  <2>1. /\ j \in 1..n /\ t.id = first + t.index /\ t.hash = BlockTxs[r.hash][j]
        /\ t.index \in Nat
    BY <1>2, <1>4
  <2>2. t.id = first + j - 1 /\ t.index = j - 1
    <3> HIDE DEF first
    <3> QED BY <1>1, <2>1
  <2> HIDE DEF j, first, n
  <2> QED BY <2>1, <2>2
<1> QED BY <1>1, <1>3, <1>4 DEF Placed

\* All transactions of a block but the coinbase pay a fee.
LEMMA PayersAre ==
    ASSUME NEW d, NEW id, NEW first, NEW b \in Blocks, Placed(d, id, first, b)
    PROVE  \A x : x \in FeePayers(d, id) <=>
                      \E j \in 2..Len(BlockTxs[b]) : x = first + j - 1
<1> DEFINE n == Len(BlockTxs[b])
<1>1. n \in Nat
  BY BlockTxsFacts
<1>2. ASSUME NEW x \in FeePayers(d, id)
      PROVE  \E j \in 2..n : x = first + j - 1
  <2>1. PICK t \in d.txs : t.block = id /\ t.index > 0 /\ x = t.id
    BY DEF FeePayers
  <2>2. PICK j \in 1..n : t.id = first + j - 1 /\ t.index = j - 1
    BY <2>1 DEF Placed
  <2> HIDE DEF n
  <2>3. j \in 2..n
    BY <1>1, <2>1, <2>2
  <2> QED BY <2>1, <2>2, <2>3
<1>3. ASSUME NEW j \in 2..n PROVE first + j - 1 \in FeePayers(d, id)
  <2>1. j \in 1..n /\ j - 1 > 0
    <3> HIDE DEF n
    <3> QED BY <1>1
  <2>2. PICK t \in d.txs : t.id = first + j - 1 /\ t.block = id /\ t.index = j - 1
    BY <2>1 DEF Placed
  <2> QED BY <2>1, <2>2 DEF FeePayers
<1> QED BY <1>2, <1>3

\* A transaction that is not the coinbase, and its row.
LEMMA PayerFacts ==
    ASSUME NEW d, NEW id, NEW first, NEW b \in Blocks, Placed(d, id, first, b),
           TxsKeyed(d), NEW j \in 2..Len(BlockTxs[b])
    PROVE  /\ BlockTxs[b][j] \in DOMAIN Inputs
           /\ \A t \in d.txs : t.id = first + j - 1 => t.hash = BlockTxs[b][j]
           /\ \E t \in d.txs : t.id = first + j - 1 /\ t.hash = BlockTxs[b][j]
           /\ \A k \in DOMAIN Inputs[BlockTxs[b][j]] :
                 Inputs[BlockTxs[b][j]][k] # NullInput
           /\ PaidValue(BlockTxs[b][j]) <= SpentValue(BlockTxs[b][j])
<1>1. Len(BlockTxs[b]) \in Nat
  BY BlockTxsFacts
<1>2. j \in 1..Len(BlockTxs[b]) /\ j > 1
  BY <1>1
<1>3. j \in DOMAIN BlockTxs[b] /\ BlockTxs[b][j] \in DOMAIN Inputs
  BY <1>2, BlockTxsFacts
<1>4. PICK t \in d.txs : t.id = first + j - 1 /\ t.hash = BlockTxs[b][j]
  BY <1>2 DEF Placed
<1>5. \A u \in d.txs : u.id = first + j - 1 => u.hash = BlockTxs[b][j]
  BY <1>4 DEF TxsKeyed
<1>6. /\ \A k \in DOMAIN Inputs[BlockTxs[b][j]] :
            Inputs[BlockTxs[b][j]][k] # NullInput
      /\ PaidValue(BlockTxs[b][j]) <= SpentValue(BlockTxs[b][j])
  BY <1>2, <1>3, LedgerAssumption DEF LedgerAssumption
<1> QED BY <1>3, <1>4, <1>5, <1>6

\* The values a block's transactions pay out and spend.
LEMMA ValueFacts ==
    ASSUME NEW t \in DOMAIN Inputs
    PROVE  /\ IsFiniteSet(DOMAIN Outputs[t]) /\ IsFiniteSet(DOMAIN Inputs[t])
           /\ PaidValue(t) \in Nat
           /\ PaidValue(t) = SumFunctionOnSet(
                 [k \in DOMAIN Outputs[t] |-> Outputs[t][k].value], DOMAIN Outputs[t])
           /\ SpentValue(t) = SumFunctionOnSet(
                 [k \in DOMAIN Inputs[t] |->
                     Outputs[Inputs[t][k].tx][Inputs[t][k].n].value], DOMAIN Inputs[t])
<1> DEFINE f == [k \in DOMAIN Outputs[t] |-> Outputs[t][k].value]
           g == [k \in DOMAIN Inputs[t] |->
                    Outputs[Inputs[t][k].tx][Inputs[t][k].n].value]
<1>1. /\ Len(Inputs[t]) \in Nat /\ DOMAIN Inputs[t] = 1..Len(Inputs[t])
      /\ Len(Outputs[t]) \in Nat /\ DOMAIN Outputs[t] = 1..Len(Outputs[t])
      /\ \A n \in DOMAIN Outputs[t] : Outputs[t][n].value \in Nat
  BY TxFacts
<1>2. IsFiniteSet(DOMAIN Outputs[t]) /\ IsFiniteSet(DOMAIN Inputs[t])
  BY <1>1, FS_Interval
<1>3. PaidValue(t) = SumFunctionOnSet(f, DOMAIN Outputs[t])
  BY DEF PaidValue, SumFunction
<1>4. SpentValue(t) = SumFunctionOnSet(g, DOMAIN Inputs[t])
  BY DEF SpentValue, SumFunction
<1>5. \A n \in DOMAIN Outputs[t] : f[n] \in Nat
  BY <1>1
<1>6. SumFunctionOnSet(f, DOMAIN Outputs[t]) \in Nat
  <2> HIDE DEF f
  <2> QED BY <1>2, <1>5, SumNat
<1> QED BY <1>2, <1>3, <1>4, <1>6

\* get_outputs_total_for_block: what the transactions pay out.
LEMMA OutputsTotalIs ==
    ASSUME NEW d, OutputsKeyed(d), TxsKeyed(d), NEW id, NEW first,
           NEW b \in Blocks, Placed(d, id, first, b),
           NEW g, \A j \in 2..Len(BlockTxs[b]) : g[j] = PaidValue(BlockTxs[b][j])
    PROVE  OutputsTotal(d, id) = SumFunctionOnSet(g, 2..Len(BlockTxs[b]))
<1> DEFINE A == 2..Len(BlockTxs[b])
           S == {p \in d.outputs : p.tx \in FeePayers(d, id)}
           f == [o \in S |-> o.value]
           at == [o \in S |-> o.tx - first + 1]
           part == [j \in A |-> {o \in S : o.tx = first + j - 1}]
<1>1. OutputsTotal(d, id) = SumFunctionOnSet(f, S)
  BY DEF OutputsTotal, SumFunction
<1>2. IsFiniteSet(A) /\ first \in Nat /\ \A j \in A : j \in Nat
  <2>1. Len(BlockTxs[b]) \in Nat
    BY BlockTxsFacts
  <2>2. IsFiniteSet(A)
    BY <2>1, FS_Interval
  <2> QED BY <2>1, <2>2 DEF Placed
<1>3. IsFiniteSet(S) /\ \A o \in S : o \in OutRecord
  <2>1. S \in SUBSET d.outputs /\ IsFiniteSet(d.outputs)
    BY DEF OutputsKeyed
  <2>2. IsFiniteSet(S)
    <3> HIDE DEF S
    <3> QED BY <2>1, FS_Subset
  <2> QED BY <2>1, <2>2 DEF OutputsKeyed
<1>4. \A o \in S : \E j \in A : o.tx = first + j - 1
  BY PayersAre
<1>5. \A o \in S : f[o] = o.value /\ at[o] = o.tx - first + 1 /\ f[o] \in Int
  BY <1>3 DEF OutRecord
<1>6. \A o \in S : at[o] \in A
  <2> SUFFICES ASSUME NEW o \in S PROVE at[o] \in A
    OBVIOUS
  <2>1. PICK j \in A : o.tx = first + j - 1
    BY <1>4
  <2>2. at[o] = o.tx - first + 1
    OBVIOUS
  <2> HIDE DEF at, A, S
  <2>3. o.tx - first + 1 = j
    BY <1>2, <2>1
  <2> QED BY <2>1, <2>2, <2>3
<1>7. \A j \in A : part[j] \subseteq S
  OBVIOUS
<1>8. \A j \in A : \A o \in S : o \in part[j] <=> at[o] = j
  <2> SUFFICES ASSUME NEW j \in A, NEW o \in S
               PROVE  o \in part[j] <=> at[o] = j
    OBVIOUS
  <2>1. o \in part[j] <=> o.tx = first + j - 1
    OBVIOUS
  <2>2. at[o] = o.tx - first + 1 /\ o.tx \in Nat /\ j \in Nat
    BY <1>2, <1>3 DEF OutRecord
  <2> HIDE DEF at, part, S, A
  <2> QED BY <1>2, <2>1, <2>2
<1>9. ASSUME NEW j \in A PROVE g[j] = SumFunctionOnSet(f, part[j])
  <2> DEFINE t == BlockTxs[b][j]
             T == part[j]
             R == DOMAIN Outputs[t]
             h == [o \in T |-> o.n]
             v == [k \in R |-> Outputs[t][k].value]
  <2>0. /\ t \in DOMAIN Inputs
        /\ \A u \in d.txs : u.id = first + j - 1 => u.hash = t
        /\ \E u \in d.txs : u.id = first + j - 1 /\ u.hash = t
    BY PayerFacts
  <2>1. IsFiniteSet(T)
    <3> HIDE DEF S, part
    <3>1. T \in SUBSET S
      BY <1>7
    <3> QED BY <1>3, <3>1, FS_Subset
  <2>2. \A o \in T : /\ o \in S /\ o \in d.outputs /\ o.tx = first + j - 1
                     /\ h[o] = o.n /\ f[o] = o.value
    OBVIOUS
  <2>3. ASSUME NEW o \in T PROVE o.n \in R /\ o.value = Outputs[t][o.n].value
    <3>1. PICK u \in d.txs : /\ u.id = o.tx /\ o.n \in DOMAIN Outputs[u.hash]
                             /\ o.value = Outputs[u.hash][o.n].value
      BY <2>2 DEF OutputsKeyed
    <3>2. u.hash = t
      BY <2>0, <2>2, <3>1
    <3> HIDE DEF t, T
    <3> QED BY <3>1, <3>2
  <2>4. ASSUME NEW k \in R PROVE \E o \in T : o.n = k
    <3>1. PICK u \in d.txs : u.id = first + j - 1 /\ u.hash = t
      BY <2>0
    <3>2. PICK o \in d.outputs : o.tx = u.id /\ o.n = k
      <4> HIDE DEF t
      <4> QED BY <3>1 DEF OutputsKeyed
    <3>3. o.tx \in FeePayers(d, id)
      BY <3>1, <3>2, PayersAre
    <3>4. o \in T
      BY <3>1, <3>2, <3>3
    <3> QED BY <3>2, <3>4
  <2>5. \A o, p \in T : h[o] = h[p] => o = p
    <3> SUFFICES ASSUME NEW o \in T, NEW p \in T, h[o] = h[p] PROVE o = p
      OBVIOUS
    <3>1. o \in d.outputs /\ p \in d.outputs /\ o.tx = p.tx /\ o.n = p.n
      BY <2>2
    <3> QED BY <3>1 DEF OutputsKeyed
  <2>6. \A o \in T : h[o] \in R /\ v[h[o]] = f[o]
    <3> SUFFICES ASSUME NEW o \in T PROVE h[o] \in R /\ v[h[o]] = f[o]
      OBVIOUS
    <3>1. h[o] = o.n /\ f[o] = o.value /\ o.n \in R /\ o.value = Outputs[t][o.n].value
      BY <2>2, <2>3
    <3>2. v[o.n] = Outputs[t][o.n].value
      BY <3>1
    <3> HIDE DEF h, f, T, v, R, t
    <3> QED BY <3>1, <3>2
  <2>7. \A k \in R : \E o \in T : h[o] = k
    <3> HIDE DEF T, h, R
    <3> QED BY <2>2, <2>4
  <2>8. \A o \in T : f[o] \in Int
    BY <1>5, <2>2
  <2>9. g[j] = SumFunctionOnSet(v, R)
    BY <2>0, ValueFacts
  <2> HIDE DEF T, h, R, v, f, t
  <2>10. SumFunctionOnSet(v, R) = SumFunctionOnSet(f, T)
    BY <2>1, <2>5, <2>6, <2>7, <2>8, SumRename
  <2> QED BY <2>9, <2>10 DEF T
<1> HIDE DEF A, S, f, at, part
<1>10. /\ IsFiniteSet(S) /\ IsFiniteSet(A)
       /\ \A o \in S : f[o] \in Int
       /\ \A o \in S : at[o] \in A
       /\ \A j \in A : /\ part[j] \subseteq S
                      /\ \A o \in S : o \in part[j] <=> at[o] = j
       /\ \A j \in A : g[j] = SumFunctionOnSet(f, part[j])
  BY <1>2, <1>3, <1>5, <1>6, <1>7, <1>8, <1>9
<1>11. SumFunctionOnSet(f, S) = SumFunctionOnSet(g, A)
  BY <1>10, SumByPart
<1> QED BY <1>1, <1>11 DEF A

\* An input row of a transaction that is not a coinbase names one output, which
\* has the value the ledger says, and no other row of the transaction has its
\* number.
LEMMA InputFacts ==
    ASSUME NEW d, OutputsKeyed(d), TxsKeyed(d), InputsKeyed(d), Marked(d),
           NEW u \in d.txs, NEW i \in d.inputs, i.tx = u.id,
           \A k \in DOMAIN Inputs[u.hash] : Inputs[u.hash][k] # NullInput
    PROVE  /\ i.n \in DOMAIN Inputs[u.hash]
           /\ \E o \in d.outputs : o.id = i.output
           /\ \A o \in d.outputs : o.id = i.output =>
                 o.value = Outputs[Inputs[u.hash][i.n].tx][Inputs[u.hash][i.n].n].value
           /\ \A j \in d.inputs : j.tx = i.tx /\ j.n = i.n => j = i
<1> DEFINE prev == Inputs[u.hash][i.n]
<1>1. ASSUME NEW j \in d.inputs, j.tx = u.id
      PROVE  j.n \in DOMAIN Inputs[u.hash] /\ Names(d, j, Inputs[u.hash][j.n])
  <2>1. PICK t \in d.txs : /\ t.id = j.tx /\ j.n \in DOMAIN Inputs[t.hash]
                           /\ Names(d, j, Inputs[t.hash][j.n])
    BY DEF InputsKeyed
  <2>2. t = u
    BY <1>1, <2>1 DEF TxsKeyed
  <2> QED BY <2>1, <2>2
<1>2. i.n \in DOMAIN Inputs[u.hash] /\ Names(d, i, prev) /\ prev # NullInput
  BY <1>1
<1> HIDE DEF prev
<1>3. PICK o \in d.outputs : \E w \in d.txs :
         /\ o.id = i.output /\ w.id = o.tx /\ prev = [tx |-> w.hash, n |-> o.n]
  BY <1>2 DEF Names
<1>4. PICK w \in d.txs :
         /\ o.id = i.output /\ w.id = o.tx /\ prev = [tx |-> w.hash, n |-> o.n]
  BY <1>3
<1>5. prev.tx = w.hash /\ prev.n = o.n
  BY <1>4
<1>6. o.value = Outputs[prev.tx][prev.n].value
  <2>1. PICK t \in d.txs : /\ t.id = o.tx /\ o.n \in DOMAIN Outputs[t.hash]
                           /\ o.value = Outputs[t.hash][o.n].value
    BY DEF OutputsKeyed
  <2>2. t = w
    BY <1>4, <2>1 DEF TxsKeyed
  <2> QED BY <1>5, <2>1, <2>2
<1>7. \A p \in d.outputs : p.id = i.output => p = o
  BY <1>4 DEF OutputsKeyed
<1>8. ASSUME NEW j \in d.inputs, j.tx = i.tx, j.n = i.n PROVE j = i
  <2>1. Names(d, j, prev)
    BY <1>1, <1>8 DEF prev
  <2>2. PICK p \in d.outputs : \E q \in d.txs :
           /\ p.id = j.output /\ q.id = p.tx /\ prev = [tx |-> q.hash, n |-> p.n]
    BY <1>2, <2>1 DEF Names
  <2>3. PICK q \in d.txs :
           /\ p.id = j.output /\ q.id = p.tx /\ prev = [tx |-> q.hash, n |-> p.n]
    BY <2>2
  <2>4. prev.tx = q.hash /\ prev.n = p.n
    BY <2>3
  <2>5. q = w
    BY <1>5, <2>4 DEF TxsKeyed
  <2>6. p.tx = o.tx /\ p.n = o.n
    BY <1>4, <1>5, <2>3, <2>4, <2>5
  <2>7. p = o
    BY <2>6 DEF OutputsKeyed
  <2>8. j.id = o.spent_by /\ i.id = o.spent_by
    BY <1>4, <2>3, <2>7 DEF Marked
  <2> QED BY <2>8 DEF InputsKeyed
<1> QED BY <1>2, <1>4, <1>6, <1>7, <1>8 DEF prev

\* get_inputs_total_for_block: what the transactions spend.
LEMMA InputsTotalIs ==
    ASSUME NEW d, Consistent(d), NEW id, NEW first,
           NEW b \in Blocks, Placed(d, id, first, b),
           NEW g, \A j \in 2..Len(BlockTxs[b]) : g[j] = SpentValue(BlockTxs[b][j])
    PROVE  /\ InputsTotal(d, id) = SumFunctionOnSet(g, 2..Len(BlockTxs[b]))
           /\ \A j \in 2..Len(BlockTxs[b]) : g[j] \in Nat
<1> DEFINE A == 2..Len(BlockTxs[b])
           S == {q \in d.inputs \X d.outputs : /\ q[1].tx \in FeePayers(d, id)
                                               /\ q[1].output = q[2].id}
           f == [p \in S |-> p[2].value]
           at == [p \in S |-> p[1].tx - first + 1]
           part == [j \in A |-> {p \in S : p[1].tx = first + j - 1}]
<1>0. OutputsKeyed(d) /\ TxsKeyed(d) /\ InputsKeyed(d) /\ Marked(d)
  BY DEF Consistent
<1>1. InputsTotal(d, id) = SumFunctionOnSet(f, S)
  BY DEF InputsTotal, SumFunction
<1>2. IsFiniteSet(A) /\ first \in Nat /\ \A j \in A : j \in Nat
  <2>1. Len(BlockTxs[b]) \in Nat
    BY BlockTxsFacts
  <2>2. IsFiniteSet(A)
    BY <2>1, FS_Interval
  <2> QED BY <2>1, <2>2 DEF Placed
<1>3. IsFiniteSet(S)
  <2>1. S \in SUBSET (d.inputs \X d.outputs)
    OBVIOUS
  <2>2. IsFiniteSet(d.inputs \X d.outputs)
    BY <1>0, FS_Product DEF OutputsKeyed, InputsKeyed
  <2> HIDE DEF S
  <2> QED BY <2>1, <2>2, FS_Subset
<1>4. \A p \in S : /\ p[1] \in d.inputs /\ p[2] \in d.outputs
                   /\ p = <<p[1], p[2]>>
                   /\ p[1].tx \in FeePayers(d, id) /\ p[1].output = p[2].id
  OBVIOUS
<1>5. \A p \in S : p[1].tx \in Nat /\ p[2].value \in Nat
  <2> HIDE DEF S
  <2> QED BY <1>0, <1>4 DEF OutputsKeyed, InputsKeyed, OutRecord, InRecord
<1>6. \A p \in S : \E j \in A : p[1].tx = first + j - 1
  <2> HIDE DEF S
  <2> QED BY <1>4, PayersAre
<1>7. \A p \in S : f[p] = p[2].value /\ at[p] = p[1].tx - first + 1 /\ f[p] \in Nat
  <2>1. \A p \in S : f[p] = p[2].value /\ at[p] = p[1].tx - first + 1
    OBVIOUS
  <2> HIDE DEF f, at, S
  <2> QED BY <1>5, <2>1
<1>8. \A p \in S : at[p] \in A
  <2> SUFFICES ASSUME NEW p \in S PROVE at[p] \in A
    OBVIOUS
  <2>1. PICK j \in A : p[1].tx = first + j - 1
    BY <1>6
  <2>2. at[p] = p[1].tx - first + 1
    BY <1>7
  <2> HIDE DEF at, A, S
  <2>3. p[1].tx - first + 1 = j
    BY <1>2, <2>1
  <2> QED BY <2>1, <2>2, <2>3
<1>9. \A j \in A : /\ part[j] \subseteq S
                   /\ \A p \in S : p \in part[j] <=> p[1].tx = first + j - 1
  OBVIOUS
<1>10. \A j \in A : /\ part[j] \subseteq S
                    /\ \A p \in S : p \in part[j] <=> at[p] = j
  <2> SUFFICES ASSUME NEW j \in A, NEW p \in S
               PROVE  p \in part[j] <=> at[p] = j
    BY <1>9
  <2>1. p \in part[j] <=> p[1].tx = first + j - 1
    BY <1>9
  <2>2. at[p] = p[1].tx - first + 1 /\ p[1].tx \in Nat /\ j \in Nat
    BY <1>2, <1>5, <1>7
  <2> HIDE DEF at, part, S, A
  <2> QED BY <1>2, <2>1, <2>2
<1>11. ASSUME NEW j \in A PROVE g[j] = SumFunctionOnSet(f, part[j]) /\ g[j] \in Nat
  <2> DEFINE t == BlockTxs[b][j]
             T == part[j]
             R == DOMAIN Inputs[t]
             h == [p \in T |-> p[1].n]
             v == [k \in R |-> Outputs[Inputs[t][k].tx][Inputs[t][k].n].value]
  <2>0. /\ t \in DOMAIN Inputs
        /\ \E u \in d.txs : u.id = first + j - 1 /\ u.hash = t
        /\ \A k \in DOMAIN Inputs[t] : Inputs[t][k] # NullInput
    BY <1>0, PayerFacts
  <2>a. PICK u \in d.txs : u.id = first + j - 1 /\ u.hash = t
    BY <2>0
  <2>1. T \in SUBSET S /\ IsFiniteSet(T)
    <3>1. T \in SUBSET S
      BY <1>9
    <3> HIDE DEF S, part
    <3> QED BY <1>3, <3>1, FS_Subset
  <2>b. \A p \in T : h[p] = p[1].n
    OBVIOUS
  <2>c. \A k \in R : v[k] = Outputs[Inputs[t][k].tx][Inputs[t][k].n].value
    OBVIOUS
  <2>d. g[j] = SumFunctionOnSet(v, R)
    BY <2>0, ValueFacts
  <2>2. \A p \in T : /\ p[1] \in d.inputs /\ p[2] \in d.outputs
                     /\ p = <<p[1], p[2]>> /\ p[1].output = p[2].id
                     /\ p[1].tx = u.id /\ f[p] = p[2].value /\ f[p] \in Nat
    <3> HIDE DEF f, S, part, t
    <3> QED BY <1>4, <1>7, <1>9, <2>1, <2>a
  <2> HIDE DEF v, h, f
  <2>3. ASSUME NEW p \in T
        PROVE  /\ h[p] \in R /\ v[h[p]] = f[p]
               /\ \A q \in T : h[p] = h[q] => p = q
    <3> DEFINE i == p[1]
    <3>1. i \in d.inputs /\ i.tx = u.id /\ p[2] \in d.outputs /\ p[2].id = i.output
      BY <2>2
    <3>2. /\ i.n \in DOMAIN Inputs[u.hash]
          /\ \A o \in d.outputs : o.id = i.output =>
                o.value = Outputs[Inputs[u.hash][i.n].tx][Inputs[u.hash][i.n].n].value
          /\ \A k \in d.inputs : k.tx = i.tx /\ k.n = i.n => k = i
      <4>1. \A k \in DOMAIN Inputs[u.hash] : Inputs[u.hash][k] # NullInput
        <5> HIDE DEF t
        <5> QED BY <2>0, <2>a
      <4> HIDE DEF i, T, R, t
      <4> QED BY <1>0, <3>1, <4>1, InputFacts
    <3>3. h[p] \in R /\ v[h[p]] = f[p]
      <4> HIDE DEF T, R, t
      <4>1. h[p] = i.n /\ i.n \in DOMAIN Inputs[t] /\ f[p] = p[2].value
        BY <2>2, <2>a, <2>b, <3>2
      <4>2. p[2].value = Outputs[Inputs[t][i.n].tx][Inputs[t][i.n].n].value
        BY <2>a, <3>1, <3>2
      <4> QED BY <2>c, <4>1, <4>2 DEF R
    <3>4. ASSUME NEW q \in T, h[p] = h[q] PROVE p = q
      <4>1. /\ q[1] \in d.inputs /\ q[1].tx = u.id /\ q[1].n = i.n
            /\ q[2] \in d.outputs /\ q[1].output = q[2].id /\ q = <<q[1], q[2]>>
            /\ p = <<p[1], p[2]>>
        BY <2>2, <2>b, <3>4
      <4> HIDE DEF T
      <4>2. q[1] = p[1]
        BY <3>1, <3>2, <4>1
      <4>3. q[2] = p[2]
        BY <1>0, <3>1, <4>1, <4>2 DEF OutputsKeyed
      <4> QED BY <4>1, <4>2, <4>3
    <3> QED BY <3>3, <3>4
  <2>4. ASSUME NEW k \in R PROVE \E p \in T : h[p] = k
    <3>1. PICK i \in d.inputs : i.tx = u.id /\ i.n = k
      <4> HIDE DEF t
      <4> QED BY <1>0, <2>a DEF InputsKeyed
    <3>2. PICK o \in d.outputs : o.id = i.output
      <4>1. \A m \in DOMAIN Inputs[u.hash] : Inputs[u.hash][m] # NullInput
        <5> HIDE DEF t
        <5> QED BY <2>0, <2>a
      <4> HIDE DEF T, R, t
      <4> QED BY <1>0, <3>1, <4>1, InputFacts
    <3> DEFINE p == <<i, o>>
    <3>3. p[1] = i /\ p[2] = o /\ p \in d.inputs \X d.outputs
      OBVIOUS
    <3>4. i.tx \in FeePayers(d, id)
      BY <2>a, <3>1, PayersAre
    <3> HIDE DEF p
    <3>5. p \in S
      BY <3>2, <3>3, <3>4
    <3>6. p \in T
      <4> HIDE DEF S, part
      <4> QED BY <1>9, <2>a, <3>1, <3>3, <3>5
    <3> HIDE DEF T
    <3> QED BY <2>b, <3>1, <3>3, <3>6
  <2>5. \A p \in T : f[p] \in Int
    BY <2>2
  <2>6. /\ \A p, q \in T : h[p] = h[q] => p = q
        /\ \A p \in T : h[p] \in R
        /\ \A p \in T : v[h[p]] = f[p]
    <3> HIDE DEF T, R
    <3> QED BY <2>3
  <2>7. \A k \in R : v[k] \in Nat
    <3> SUFFICES ASSUME NEW k \in R PROVE v[k] \in Nat
      OBVIOUS
    <3>1. PICK p \in T : h[p] = k
      BY <2>4
    <3> HIDE DEF T, R
    <3> QED BY <2>2, <2>6, <3>1
  <2>8. IsFiniteSet(R)
    BY <2>0, ValueFacts
  <2> HIDE DEF T, R, t
  <2>9. SumFunctionOnSet(v, R) = SumFunctionOnSet(f, T)
    BY <2>1, <2>4, <2>5, <2>6, SumRename
  <2>10. SumFunctionOnSet(v, R) \in Nat
    BY <2>7, <2>8, SumNat
  <2> QED BY <2>d, <2>9, <2>10 DEF T
<1> HIDE DEF A, S, f, at, part
<1>12. /\ IsFiniteSet(S) /\ IsFiniteSet(A)
       /\ \A p \in S : f[p] \in Int
       /\ \A p \in S : at[p] \in A
       /\ \A j \in A : /\ part[j] \subseteq S
                       /\ \A p \in S : p \in part[j] <=> at[p] = j
       /\ \A j \in A : g[j] = SumFunctionOnSet(f, part[j])
  BY <1>2, <1>3, <1>7, <1>8, <1>10, <1>11
<1>13. SumFunctionOnSet(f, S) = SumFunctionOnSet(g, A)
  BY <1>12, SumByPart
<1> QED BY <1>1, <1>11, <1>13 DEF A

\* The average size of transactions is a size: it is not rounded down to zero.
LEMMA AverageSizeFacts ==
    ASSUME NEW b \in Blocks
    PROVE  /\ AverageSize(b) \in Nat
           /\ 2..Len(BlockTxs[b]) # {} => AverageSize(b) # 0
<1> DEFINE n == Len(BlockTxs[b])
           A == 2..n
           f == [i \in A |-> Size[BlockTxs[b][i]]]
           total == SumFunctionOnSet(f, A)
<1>1. n \in Nat \ {0} /\ \A j \in 1..n : BlockTxs[b][j] \in DOMAIN Inputs
  BY BlockTxsFacts
<1>2. IsFiniteSet(A) /\ Cardinality(A) = n - 1
  <2> HIDE DEF n
  <2>1. IsFiniteSet(2..n) /\ Cardinality(2..n) = IF 2 > n THEN 0 ELSE n - 2 + 1
    BY <1>1, FS_Interval
  <2> QED BY <1>1, <2>1
<1>3. \A i \in A : f[i] \in Nat \ {0}
  <2> SUFFICES ASSUME NEW i \in A PROVE f[i] \in Nat \ {0}
    OBVIOUS
  <2>1. i \in 1..n
    <3> HIDE DEF n
    <3> QED BY <1>1
  <2>2. BlockTxs[b][i] \in DOMAIN Inputs
    BY <1>1, <2>1
  <2>3. Size[BlockTxs[b][i]] \in Nat \ {0}
    BY <2>2, LedgerTypeAssumption DEF LedgerTypeAssumption
  <2> QED BY <2>3
<1>4. AverageSize(b) = IF n = 1 THEN 0 ELSE total \div (n - 1)
  BY DEF AverageSize, SumFunction
<1> HIDE DEF n, A, f
<1>5. total \in Nat /\ total >= n - 1
  <2>1. \A i \in A : f[i] \in Nat
    BY <1>3
  <2> QED BY <1>2, <1>3, <2>1, SumNat, SumAtLeast
<1> HIDE DEF total
<1>6. CASE n = 1
  <2>1. A = {}
    BY <1>6 DEF A
  <2> QED BY <1>4, <1>6, <2>1 DEF A, n
<1>7. CASE n # 1
  <2> DEFINE m == n - 1
  <2>1. m \in Nat \ {0} /\ total >= m
    BY <1>1, <1>5, <1>7
  <2> HIDE DEF m
  <2>2. total \div m \in Nat /\ total \div m # 0
    BY <1>5, <2>1
  <2>3. AverageSize(b) = total \div m
    BY <1>4, <1>7 DEF m
  <2> QED BY <2>2, <2>3
<1> QED BY <1>6, <1>7

\* What the transactions of a block leave for whoever mines it.
LedgerTotal(b) ==
    SumFunction([k \in 2..Len(BlockTxs[b]) |->
                    SpentValue(BlockTxs[b][k]) - PaidValue(BlockTxs[b][k])])

\* The fee FeesMatchChain asks for.
LedgerFee(b) ==
    IF 2..Len(BlockTxs[b]) = {} THEN 0 ELSE LedgerTotal(b) \div AverageSize(b)

\* set_fee_for_block finds that fee in the tables.
LEMMA AverageFeeIs ==
    ASSUME NEW d, Consistent(d), NEW id, NEW first,
           NEW b \in Blocks, Placed(d, id, first, b)
    PROVE  /\ AverageFee(d, id, AverageSize(b)) = LedgerFee(b)
           /\ LedgerFee(b) \in Nat
<1> DEFINE A == 2..Len(BlockTxs[b])
           f == [j \in A |-> SpentValue(BlockTxs[b][j])]
           g == [j \in A |-> PaidValue(BlockTxs[b][j])]
           h == [j \in A |-> SpentValue(BlockTxs[b][j]) - PaidValue(BlockTxs[b][j])]
           total == SumFunctionOnSet(h, A)
           size == AverageSize(b)
<1>0. OutputsKeyed(d) /\ TxsKeyed(d)
  BY DEF Consistent
<1>1. InputsTotal(d, id) = SumFunctionOnSet(f, A) /\ \A j \in A : f[j] \in Nat
  <2>1. \A j \in A : f[j] = SpentValue(BlockTxs[b][j])
    OBVIOUS
  <2> HIDE DEF f
  <2> QED BY <2>1, InputsTotalIs
<1>2. OutputsTotal(d, id) = SumFunctionOnSet(g, A)
  <2>1. \A j \in A : g[j] = PaidValue(BlockTxs[b][j])
    OBVIOUS
  <2> HIDE DEF g
  <2> QED BY <1>0, <2>1, OutputsTotalIs
<1>3. LedgerTotal(b) = total
  BY DEF LedgerTotal, SumFunction
<1>4. \A j \in A : g[j] \in Nat /\ g[j] <= f[j] /\ h[j] = f[j] - g[j]
  <2> SUFFICES ASSUME NEW j \in A
               PROVE  g[j] \in Nat /\ g[j] <= f[j] /\ h[j] = f[j] - g[j]
    OBVIOUS
  <2>1. /\ BlockTxs[b][j] \in DOMAIN Inputs
        /\ PaidValue(BlockTxs[b][j]) <= SpentValue(BlockTxs[b][j])
    BY <1>0, PayerFacts
  <2>2. PaidValue(BlockTxs[b][j]) \in Nat
    BY <2>1, ValueFacts
  <2> QED BY <2>1, <2>2
<1>5. IsFiniteSet(A)
  <2>1. Len(BlockTxs[b]) \in Nat
    BY BlockTxsFacts
  <2> QED BY <2>1, FS_Interval
<1>6. size \in Nat /\ (A # {} => size # 0)
  BY AverageSizeFacts
<1> HIDE DEF f, g, h, A
<1>7. \A j \in A : f[j] \in Int /\ g[j] \in Int /\ h[j] = f[j] - g[j] /\ h[j] \in Nat
  BY <1>1, <1>4
<1>8. total = SumFunctionOnSet(f, A) - SumFunctionOnSet(g, A) /\ total \in Nat
  <2>1. \A j \in A : h[j] \in Nat
    BY <1>7
  <2>2. \A j \in A : f[j] \in Int /\ g[j] \in Int /\ h[j] = f[j] - g[j]
    BY <1>7
  <2> QED BY <1>5, <2>1, <2>2, SumMinus, SumNat
<1>9. AverageFee(d, id, size) = IF total # 0 /\ size # 0 THEN total \div size ELSE 0
  BY <1>1, <1>2, <1>8 DEF AverageFee
<1>10. LedgerFee(b) = IF A = {} THEN 0 ELSE total \div size
  BY <1>3 DEF LedgerFee, A
<1> HIDE DEF size
<1>11. CASE A = {}
  <2>1. total = 0
    BY <1>11, SumEmpty
  <2> QED BY <1>9, <1>10, <1>11, <2>1 DEF size
<1>12. CASE A # {}
  <2> HIDE DEF total
  <2>1. size \in Nat \ {0}
    BY <1>6, <1>12
  <2>2. total \div size \in Nat /\ (total = 0 => total \div size = 0)
    BY <1>8, <2>1
  <2> QED BY <1>9, <1>10, <1>12, <2>1, <2>2 DEF size
<1> QED BY <1>11, <1>12

(***************************************************************************)
(* The fees of the chain.                                                  *)
(***************************************************************************)

\* Every row has the fee of its block, and no fee is negative.
FeesHeld(d, rs) ==
    \A r \in rs : /\ r.id \in DOMAIN d.block_fees
                  /\ d.block_fees[r.id] = LedgerFee(r.hash)
                  /\ LedgerFee(r.hash) \in Nat

\* A revert leaves the fees alone.
LEMMA RevertTablesFees ==
    ASSUME NEW d, Shape(d), NEW id
    PROVE  /\ RevertTables(d, id).block_fees = d.block_fees
           /\ RevertTables(d, id).spans =
                 [j \in DOMAIN d.spans \ {id} |-> d.spans[j]]
<1> DEFINE undone == RevertTxs(d, id, d.spans[id].count)
           left == {t \in undone.txs : t.block # id}
           spans == [j \in DOMAIN undone.spans \ {id} |-> undone.spans[j]]
           e == RevertTables(d, id)
<1>1. /\ Shape(undone) /\ undone.spans = d.spans
      /\ undone.block_fees = d.block_fees
  BY RevertTxFields DEF RevertTxs
<1>2. e = [undone EXCEPT !.txs = left, !.spans = spans]
  BY DEF RevertTables
<1> HIDE DEF undone, e, left
<1>3. spans = [j \in DOMAIN d.spans \ {id} |-> d.spans[j]]
  BY <1>1
<1> HIDE DEF spans
<1>4. e = [txs |-> left, outputs |-> undone.outputs, inputs |-> undone.inputs,
           addresses_outputs |-> undone.addresses_outputs,
           addresses_txs |-> undone.addresses_txs,
           block_fees |-> undone.block_fees, spans |-> spans]
  <2>1. undone = [txs |-> undone.txs, outputs |-> undone.outputs,
                  inputs |-> undone.inputs,
                  addresses_outputs |-> undone.addresses_outputs,
                  addresses_txs |-> undone.addresses_txs,
                  block_fees |-> undone.block_fees, spans |-> undone.spans]
    BY <1>1 DEF Shape
  <2> QED BY <1>2, <2>1
<1>5. e.block_fees = undone.block_fees /\ e.spans = spans
  BY <1>4
<1> QED BY <1>1, <1>3, <1>5 DEF e

\* Nor does inserting the transactions of a block change a fee.
LEMMA InsertTxsFees ==
    ASSUME NEW c, Linear(c), NEW d, Held(d, RowsOf(c)), NEW b \in Blocks,
           c = <<>> => Parent(b) = NoBlock,
           c # <<>> => Parent(b) = Top(c).hash,
           NEW first, Above(d, first), NEW id \in Nat,
           NEW k \in 0..Len(BlockTxs[b])
    PROVE  LET e == InsertTxs(d, id, b, first, k) IN
           /\ Consistent(e)
           /\ e.spans = Opened(d, id, b, first).spans
           /\ e.block_fees = d.block_fees
<1> DEFINE row == [id |-> id, hash |-> b]
<1> HIDE DEF row
<1>1. Consistent(d)
  BY DEF Held
<1>2. \A t : t \in Earlier(b, 1) <=> \E u \in d.txs : u.hash = t
  BY HeldIsEarlier
<1>3. LET e == InsertTxs(d, id, b, first, k) IN
      /\ Consistent(e)
      /\ e.txs = d.txs \cup TxsOf(row, first, k)
      /\ e.spans = Opened(d, id, b, first).spans
      /\ e.block_fees = d.block_fees
  BY <1>1, <1>2, InsertTxsFacts DEF row
<1> QED BY <1>3

\* The fees of the committed rows, and of the rows a push has got to.
FeesInv ==
    /\ TablesInv
    /\ FeesHeld(disk_db, disk.rows)
    /\ pc \in {"idle", "insert", "add", "head"} => FeesHeld(db, rows)

\* What the rows that are left say of the fees stays true.
LEMMA StillFees ==
    ASSUME FeesInv, TablesInv', disk'.rows = disk.rows, UNCHANGED disk_db,
           \/ pc' \notin {"idle", "insert", "add", "head"}
           \/ /\ pc \in {"idle", "insert", "add", "head"}
              /\ rows' \subseteq rows /\ db'.block_fees = db.block_fees
    PROVE  FeesInv'
BY DEF FeesInv, FeesHeld

\* The new row gets its fee, under an id whose old fee is overwritten.
LEMMA InsertFees ==
    ASSUME FeesInv, InsertNewBlock, TablesInv'
    PROVE  FeesInv'
<1> DEFINE b   == call.block
           id  == FreshId(rows)
           row == [id |-> id, hash |-> b]
           n   == Len(BlockTxs[b])
           e   == InsertTxs(db, id, b, next_tx_id, n)
<1>1. pc = "insert" /\ call.reverts = <<>> /\ TablesInv /\ FeesHeld(db, rows)
  BY DEF FeesInv, InsertNewBlock, InsertBlock
<1>2. /\ Linear(blockchain) /\ rows = RowsOf(blockchain)
      /\ Held(db, RowsOf(blockchain)) /\ Above(db, next_tx_id)
      /\ b \in Blocks
      /\ blockchain = <<>> => Parent(b) = NoBlock
      /\ blockchain # <<>> => Parent(b) = Top(blockchain).hash
      /\ rows \in SUBSET Row /\ id \in Nat
      /\ \A r \in rows : r.id < id /\ r.id \in Nat
  BY <1>1, PushingFacts
<1>3. /\ rows' = rows \cup {row}
      /\ disk' = Commit(rows', head)
      /\ pc' = "add"
      /\ db' = SetFee(e, id, AverageSize(b)) /\ disk_db' = db'
  BY DEF InsertNewBlock, InsertBlock
<1>4. disk'.rows = rows'
  BY <1>3 DEF Commit
<1>5. /\ row \in Row /\ row.id = id /\ row.hash = b
      /\ \A r \in rows : r.id # id
  BY <1>2 DEF Row
<1> HIDE DEF row
<1>6. Held(e, rows \cup {row})
  <2> DEFINE c == blockchain
             f == InsertTxs(db, row.id, b, next_tx_id, Len(BlockTxs[b]))
  <2>1. \A r \in RowsOf(c) : r.id # row.id
    BY <1>2, <1>5
  <2> HIDE DEF b, id, c
  <2>2. /\ Linear(c) /\ Held(db, RowsOf(c)) /\ b \in Blocks
        /\ c = <<>> => Parent(b) = NoBlock
        /\ c # <<>> => Parent(b) = Top(c).hash
        /\ Above(db, next_tx_id)
    BY <1>2 DEF b, c
  <2>3. row \in Row /\ row.hash = b /\ row.id \in Nat
    BY <1>5 DEF Row
  <2>4. Held(f, RowsOf(c) \cup {row})
    BY <2>1, <2>2, <2>3, InsertHeld
  <2>5. f = e /\ RowsOf(c) = rows
    BY <1>2, <1>5 DEF c
  <2> QED BY <2>4, <2>5
<1>7. e.block_fees = db.block_fees
  <2>1. n \in 0..Len(BlockTxs[b])
    BY <1>2, BlockTxsFacts
  <2> HIDE DEF b, id, n
  <2> QED BY <1>2, <2>1, InsertTxsFees
<1>8. /\ AverageFee(e, id, AverageSize(b)) = LedgerFee(b)
      /\ LedgerFee(b) \in Nat
      /\ Shape(e)
  <2> DEFINE rs == rows \cup {row}
  <2>1. /\ rs \in SUBSET Row /\ row \in rs
        /\ \A q \in rs : q.id = row.id => q = row
    BY <1>2, <1>5
  <2> HIDE DEF rs, e, b, id
  <2>2. Placed(e, row.id, e.spans[row.id].first, row.hash)
    BY <1>6, <2>1, HeldIsPlaced DEF rs
  <2>3. Consistent(e)
    BY <1>6 DEF Held
  <2> QED BY <1>2, <1>5, <2>2, <2>3, AverageFeeIs DEF Consistent
<1> HIDE DEF e, b, id
<1>9. /\ id \in DOMAIN db'.block_fees
      /\ db'.block_fees[id] = LedgerFee(b)
      /\ \A i \in DOMAIN db.block_fees \ {id} :
            i \in DOMAIN db'.block_fees /\ db'.block_fees[i] = db.block_fees[i]
  <2> DEFINE f == SetFee(e, id, AverageSize(b))
  <2>1. /\ Shape(f)
        /\ f.txs = e.txs /\ f.outputs = e.outputs /\ f.inputs = e.inputs
        /\ f.addresses_outputs = e.addresses_outputs
        /\ f.addresses_txs = e.addresses_txs
        /\ f.spans = e.spans
        /\ DOMAIN f.block_fees = DOMAIN e.block_fees \cup {id}
        /\ f.block_fees = [i \in DOMAIN f.block_fees |-> f.block_fees[i]]
        /\ f.block_fees[id] = AverageFee(e, id, AverageSize(b))
        /\ \A i \in DOMAIN e.block_fees \ {id} : f.block_fees[i] = e.block_fees[i]
    BY <1>8, SetFeeFields
  <2> HIDE DEF f
  <2>2. db' = f
    BY <1>3 DEF f
  <2> QED BY <1>7, <1>8, <2>1, <2>2
<1>10. FeesHeld(db', rows')
  <2> SUFFICES ASSUME NEW r \in rows'
               PROVE  /\ r.id \in DOMAIN db'.block_fees
                      /\ db'.block_fees[r.id] = LedgerFee(r.hash)
                      /\ LedgerFee(r.hash) \in Nat
    BY DEF FeesHeld
  <2>1. CASE r = row
    BY <1>5, <1>8, <1>9, <2>1
  <2>2. CASE r \in rows
    <3>1. /\ r.id \in DOMAIN db.block_fees /\ r.id # id
          /\ db.block_fees[r.id] = LedgerFee(r.hash)
          /\ LedgerFee(r.hash) \in Nat
      BY <1>1, <1>5, <2>2 DEF FeesHeld
    <3> QED BY <1>9, <3>1
  <2> QED BY <1>3, <2>1, <2>2
<1> QED BY <1>3, <1>4, <1>10 DEF FeesInv

\* The constructor reads what is on the disk.
LEMMA OpenFees ==
    ASSUME FeesInv, Open, TablesInv'
    PROVE  FeesInv'
<1>1. /\ rows = disk.rows /\ db = disk_db
      /\ disk \in [rows : SUBSET Row, head : SUBSET Blocks]
      /\ FeesHeld(disk_db, disk.rows)
  BY DEF FeesInv, TablesInv, FreshInv, IInv, TypeOK, Open, StartEmpty, StartLoad
<1>2. /\ disk' = [disk EXCEPT !.head = {}]
      /\ UNCHANGED <<rows, db, disk_db>>
  BY DEF Open, StartEmpty, StartLoad, tableVars
<1>3. disk'.rows = disk.rows
  BY <1>1, <1>2
<1> QED BY <1>1, <1>2, <1>3 DEF FeesInv

LEMMA RevertFees ==
    ASSUME FeesInv, RevertTopBlock, TablesInv'
    PROVE  FeesInv'
<1>1. pc = "insert" /\ Held(db, rows) /\ TablesInv
  BY DEF FeesInv, TablesInv, RevertTopBlock, RevertBlock
<1>2. /\ rows' = DeleteRow(rows, Top(call.reverts).id)
      /\ db' = RevertTables(db, Top(call.reverts).id)
      /\ UNCHANGED <<disk, disk_db>>
  BY DEF RevertTopBlock, RevertBlock
<1>3. rows' \subseteq rows
  BY <1>2 DEF DeleteRow
<1>4. db'.block_fees = db.block_fees
  BY <1>1, <1>2, RevertTablesFees DEF Held, Consistent
<1> QED BY <1>1, <1>2, <1>3, <1>4, StillFees

\* No other step of a push, and no failure, changes a fee.
LEMMA OtherFees ==
    ASSUME FeesInv, TablesInv',
           \/ AddToChain \/ FinishPush \/ FinishOpen \/ PushFails \/ InsertFails
           \/ Ends
    PROVE  FeesInv'
<1>1. disk \in [rows : SUBSET Row, head : SUBSET Blocks] /\ TablesInv /\ IInv
  BY DEF FeesInv, TablesInv, FreshInv, IInv, TypeOK
<1>2. CASE AddToChain
  <2>1. pc = "add" /\ UNCHANGED <<rows, db, disk_db>>
    BY <1>2 DEF AddToChain, AddNewBlock, tableVars
  <2>2. pc' = "head" /\ disk' = [disk EXCEPT !.head = {}]
    BY <1>1, <1>2, AddIsAppend DEF AddToChain, TablesInv
  <2>3. disk'.rows = disk.rows
    BY <1>1, <2>2
  <2> QED BY <2>1, <2>2, <2>3, StillFees
<1>3. CASE FinishPush \/ FinishOpen
  <2>1. /\ pc = "head" /\ disk' = [disk EXCEPT !.head = head']
        /\ UNCHANGED <<rows, db, disk_db>>
    BY <1>3 DEF FinishPush, FinishOpen, InsertHead, tableVars, cacheVars
  <2>2. disk'.rows = disk.rows
    BY <1>1, <2>1
  <2> QED BY <2>1, <2>2, StillFees
<1>4. CASE PushFails \/ InsertFails
  <2>1. pc' = "failed" /\ UNCHANGED <<disk, disk_db>>
    BY <1>4 DEF PushFails, Fail, InsertFails, FailInsert
  <2> QED BY <2>1, StillFees
<1>5. CASE Ends
  <2>1. pc' = "down" /\ UNCHANGED <<disk, disk_db>>
    BY <1>5 DEF Ends, Exit, Stop, Crash, Die, Forget
  <2> QED BY <2>1, StillFees
<1> QED BY <1>2, <1>3, <1>4, <1>5

LEMMA FeesStep == FeesInv /\ [IndexNext]_vars => FeesInv'
<1> SUFFICES ASSUME FeesInv, [IndexNext]_vars PROVE FeesInv'
  OBVIOUS
<1>1. TablesInv'
  BY TablesStep DEF FeesInv
<1>2. CASE Open
  BY <1>1, <1>2, OpenFees
<1>3. CASE OpenRefused
  <2>1. pc' = "refused"
    BY <1>3 DEF OpenRefused, StartRefused
  <2> QED BY <1>1, <2>1 DEF TablesInv, FreshInv
<1>4. ASSUME NEW b \in Blocks, PushAccepted(b) PROVE FeesInv'
  <2>1. pc = "idle" /\ UNCHANGED <<rows, disk, db, disk_db>>
    BY <1>4 DEF PushAccepted, PushBegin, tableVars
  <2> QED BY <1>1, <2>1, StillFees
<1>5. CASE RevertTopBlock
  BY <1>1, <1>5, RevertFees
<1>6. CASE InsertNewBlock
  BY <1>1, <1>6, InsertFees
<1>7. CASE \/ AddToChain \/ FinishPush \/ FinishOpen \/ PushFails \/ InsertFails
           \/ Ends
  BY <1>1, <1>7, OtherFees
<1>8. CASE GetFees \/ (\E b \in Blocks : PushRefused(b)) \/ UNCHANGED vars
  <2>1. UNCHANGED <<rows, disk, pc, db, disk_db>>
    BY <1>8 DEF GetFees, PushRefused, vars, chainVars, tableVars
  <2> QED BY <1>1, <2>1, StillFees
<1> QED BY <1>2, <1>3, <1>4, <1>5, <1>6, <1>7, <1>8 DEF IndexNext

LEMMA FeesSpec ==
    InitRows = {} /\ InitTables = NoTables /\ IndexSpec => []FeesInv
<1>1. InitRows = {} /\ InitTables = NoTables /\ IndexInit => FeesInv
  <2> SUFFICES ASSUME InitRows = {}, InitTables = NoTables, IndexInit
               PROVE  FeesInv
    OBVIOUS
  <2>1. disk.rows = {} /\ pc = "down"
    BY DEF IndexInit, Init
  <2> QED BY <2>1, TablesInit DEF FeesInv, FeesHeld
<1> QED BY <1>1, FeesStep, PTL DEF IndexSpec

\* Every served block has its own average fee: the one a reader of the blocks
\* would compute from what their transactions spend and pay, although the
\* table still has the fees of blocks that were reverted, under ids that are
\* handed out again.
THEOREM FeesRight ==
    InitRows = {} /\ InitTables = NoTables /\ IndexSpec => []FeesMatchChain
<1> SUFFICES ASSUME InitRows = {}
             PROVE  InitTables = NoTables /\ IndexSpec => []FeesMatchChain
  OBVIOUS
<1>1. FeesInv => FeesMatchChain
  <2> SUFFICES ASSUME FeesInv, pc = "idle", NEW i \in DOMAIN blockchain
               PROVE  db.block_fees[blockchain[i].id] = LedgerFee(blockchain[i].hash)
    BY DEF FeesMatchChain, LedgerFee, LedgerTotal
  <2>1. rows = RowsOf(blockchain) /\ FeesHeld(db, rows)
    BY IdleFacts DEF FeesInv
  <2>2. blockchain[i] \in rows
    BY <2>1 DEF RowsOf
  <2> QED BY <2>1, <2>2 DEF FeesHeld
<1>2. InitRows = {}
  OBVIOUS
<1> QED BY <1>1, <1>2, FeesSpec, PTL

(***************************************************************************)
(* The types of the tables and the caches.                                 *)
(***************************************************************************)

\* The conjuncts of IndexTypeOK about one value of db, those about rows and
\* those about the fees and the spans.
RowsTyped(d) ==
    /\ d.txs \subseteq [id : Nat, hash : DOMAIN Inputs, block : Nat, index : Nat]
    /\ d.outputs \subseteq [id : Nat, tx : Nat, n : Nat, value : Nat,
                           spent_by : Nat]
    /\ d.inputs \subseteq [id : Nat, tx : Nat, n : Nat, output : Nat]
    /\ d.addresses_outputs \subseteq Addresses \X Nat
    /\ d.addresses_txs \subseteq Addresses \X Nat

MapsTyped(d) ==
    /\ d.block_fees \in [DOMAIN d.block_fees -> Nat]
    /\ d.spans \in [DOMAIN d.spans -> [first : Nat, count : Nat]]

TypesInv ==
    /\ FeesInv
    /\ \A d \in {db, disk_db} : RowsTyped(d) /\ MapsTyped(d)
    /\ next_tx_id \in Nat
    /\ timestamp_index \subseteq [begin : Nat, end : Nat, block : Blocks]
    /\ fee_cache \in Nat \cup {NoFee}
    /\ hung \in BOOLEAN

\* Tables that are consistent have rows of their types.
LEMMA ConsistentIsTyped ==
    ASSUME NEW d, Consistent(d)
    PROVE  RowsTyped(d)
<1>1. /\ d.txs \subseteq TxRecord /\ d.outputs \subseteq OutRecord
      /\ d.inputs \subseteq InRecord
      /\ d.addresses_outputs \subseteq Addresses \X Nat
      /\ d.addresses_txs \subseteq Addresses \X Nat
  BY DEF Consistent, TxsKeyed, OutputsKeyed, InputsKeyed, Related, Recorded
<1>2. OutRecord \subseteq [id : Nat, tx : Nat, n : Nat, value : Nat, spent_by : Nat]
  BY DEF OutRecord
<1>3. InRecord \subseteq [id : Nat, tx : Nat, n : Nat, output : Nat]
  BY DEF InRecord
<1> QED BY <1>1, <1>2, <1>3 DEF RowsTyped, TxRecord

\* A revert that stops half way leaves rows of the same types.
LEMMA RevertIsTyped ==
    ASSUME NEW d, Consistent(d), MapsTyped(d), NEW ids
    PROVE  RowsTyped(RevertTx(d, ids)) /\ MapsTyped(RevertTx(d, ids))
<1> DEFINE e     == RevertTx(d, ids)
           made  == {o.id : o \in {x \in d.outputs : x.tx \in ids}}
           spent == {i.output : i \in {x \in d.inputs : x.tx \in ids}}
           kept  == {o \in d.outputs : o.id \notin made}
           Out   == [id : Nat, tx : Nat, n : Nat, value : Nat, spent_by : Nat]
<1>1. /\ e.txs = d.txs /\ e.outputs = Unspend(kept, spent)
      /\ e.inputs \subseteq d.inputs
      /\ e.addresses_outputs \subseteq d.addresses_outputs
      /\ e.addresses_txs \subseteq d.addresses_txs
      /\ e.block_fees = d.block_fees /\ e.spans = d.spans
  <2>1. /\ Shape(e)
        /\ e.txs = d.txs
        /\ e.outputs = Unspend(kept, spent)
        /\ e.inputs = {i \in d.inputs : i.tx \notin ids}
        /\ e.addresses_outputs = {r \in d.addresses_outputs : r[2] \notin made}
        /\ e.addresses_txs = {r \in d.addresses_txs : r[2] \notin ids}
        /\ e.block_fees = d.block_fees
        /\ e.spans = d.spans
    BY RevertTxFields DEF Consistent
  <2> HIDE DEF e, made
  <2> QED BY <2>1
<1>2. RowsTyped(d)
  BY ConsistentIsTyped
<1> HIDE DEF e, made, spent
<1>3. ASSUME NEW o \in Unspend(kept, spent) PROVE o \in Out
  <2>1. PICK p \in kept :
            o = IF p.id \in spent THEN [p EXCEPT !.spent_by = 0] ELSE p
    BY DEF Unspend
  <2>2. p \in Out
    BY <1>2 DEF RowsTyped
  <2> QED BY <2>1, <2>2
<1>4. RowsTyped(e)
  BY <1>1, <1>2, <1>3 DEF RowsTyped
<1>5. MapsTyped(e)
  BY <1>1 DEF MapsTyped
<1> QED BY <1>4, <1>5 DEF e

\* The spans of a block that is inserted, whole or in part.
LEMMA OpenedTyped ==
    ASSUME NEW d, Shape(d), MapsTyped(d), NEW id, NEW b \in Blocks,
           NEW first \in Nat
    PROVE  LET spans == Opened(d, id, b, first).spans IN
           spans \in [DOMAIN spans -> [first : Nat, count : Nat]]
<1> DEFINE spans == [j \in DOMAIN d.spans \cup {id} |->
                        IF j = id
                        THEN [first |-> first, count |-> Len(BlockTxs[b])]
                        ELSE d.spans[j]]
           e == Opened(d, id, b, first)
<1>1. [first |-> first, count |-> Len(BlockTxs[b])] \in [first : Nat, count : Nat]
  BY BlockTxsFacts
<1>2. \A j \in DOMAIN d.spans : d.spans[j] \in [first : Nat, count : Nat]
  BY DEF MapsTyped
<1>3. spans \in [DOMAIN spans -> [first : Nat, count : Nat]]
  BY <1>1, <1>2
<1>4. e.spans = spans
  <2>1. e = [txs |-> d.txs, outputs |-> d.outputs, inputs |-> d.inputs,
             addresses_outputs |-> d.addresses_outputs,
             addresses_txs |-> d.addresses_txs,
             block_fees |-> d.block_fees, spans |-> spans]
    BY OpenedIs
  <2> HIDE DEF spans, e
  <2> QED BY <2>1
<1> HIDE DEF spans, e
<1>5. e.spans \in [DOMAIN e.spans -> [first : Nat, count : Nat]]
  BY <1>3, <1>4
<1> QED BY <1>5 DEF e

\* The timestamps of rows that are held.
LEMMA ReloadedTyped ==
    ASSUME NEW d, NEW rs \in SUBSET Row, Held(d, rs), MapsTyped(d)
    PROVE  ReloadedIndex(d, rs) \subseteq [begin : Nat, end : Nat, block : Blocks]
<1>1. ASSUME NEW r \in rs
      PROVE  Span(d, r) \in [begin : Nat, end : Nat, block : Blocks]
  <2>1. r.id \in DOMAIN d.spans /\ r.hash \in Blocks
    BY DEF Held, Row
  <2>2. d.spans[r.id] \in [first : Nat, count : Nat]
    BY <2>1 DEF MapsTyped
  <2>3. d.spans[r.id].first \in Nat /\ d.spans[r.id].count \in Nat
    BY <2>2
  <2> QED BY <2>1, <2>3 DEF Span
<1> QED BY <1>1 DEF ReloadedIndex

\* The normal fee of a chain that is not empty.
LEMMA NormalFeeTyped ==
    ASSUME NEW chain \in Seq(Row), chain # <<>>, NEW d, MapsTyped(d)
    PROVE  NormalFee(chain, d) \in Nat
<1> DEFINE height == Len(chain) - 1
           lowest == IF height > FeeWindow THEN height - FeeWindow ELSE 0
           known  == {h \in lowest..height :
                         chain[h + 1].id \in DOMAIN d.block_fees}
           f      == [h \in known |-> d.block_fees[chain[h + 1].id]]
           total  == SumFunctionOnSet(f, known)
<1>1. height \in Nat /\ lowest \in Nat
  BY FeeWindowAssumption DEF FeeWindowAssumption
<1>2. NormalFee(chain, d) = IF known = {} THEN 0 ELSE total \div Cardinality(known)
  BY DEF NormalFee, SumFunction
<1>3. \A h \in known : f[h] \in Nat
  BY DEF MapsTyped
<1> HIDE DEF height, lowest
<1>4. IsFiniteSet(known)
  <2>1. IsFiniteSet(lowest..height) /\ known \subseteq lowest..height
    BY <1>1, FS_Interval
  <2> HIDE DEF known
  <2> QED BY <2>1, FS_Subset
<1> HIDE DEF f, known
<1>5. total \in Nat
  BY <1>3, <1>4, SumNat
<1>6. Cardinality(known) \in Nat /\ (known # {} => Cardinality(known) # 0)
  BY <1>4, FS_CardinalityType, FS_EmptySet
<1> HIDE DEF total
<1> QED BY <1>2, <1>5, <1>6

\* Between calls the next id and the timestamps are what TablesInv says.
LEMMA TypesFollow ==
    ASSUME TypesInv, FeesInv', MapsTyped(db)', UNCHANGED disk_db,
           pc' \in {"idle", "insert", "add", "head"},
           pc' = "idle" \/ (pc' = "head" /\ call' = NoCall)
              \/ UNCHANGED timestamp_index,
           UNCHANGED hung, fee_cache' \in {fee_cache, NoFee}
    PROVE  TypesInv'
<1>1. /\ TablesInv' /\ Held(db', rows') /\ Above(db', next_tx_id')
      /\ rows' \in SUBSET Row
  BY DEF FeesInv, TablesInv, FreshInv, IInv, TypeOK
<1>2. RowsTyped(db')
  BY <1>1, ConsistentIsTyped DEF Held
<1>3. next_tx_id' \in Nat
  BY <1>1 DEF Above
<1>4. timestamp_index' \subseteq [begin : Nat, end : Nat, block : Blocks]
  <2>1. CASE UNCHANGED timestamp_index
    BY <2>1 DEF TypesInv
  <2>2. CASE pc' = "idle" \/ (pc' = "head" /\ call' = NoCall)
    <3>1. timestamp_index' = ReloadedIndex(db', rows')
      BY <1>1, <2>2 DEF TablesInv, Timed
    <3>2. MapsTyped(db')
      OBVIOUS
    <3> QED BY <1>1, <3>1, <3>2, ReloadedTyped
  <2> QED BY <2>1, <2>2
<1>5. fee_cache' \in Nat \cup {NoFee} /\ hung' \in BOOLEAN
  BY DEF TypesInv
<1>6. \A d \in {db', disk_db'} : RowsTyped(d) /\ MapsTyped(d)
  BY <1>2 DEF TypesInv
<1> QED BY <1>3, <1>4, <1>5, <1>6 DEF TypesInv

\* The new block's span, and its fee, which is not negative.
LEMMA InsertTypes ==
    ASSUME TypesInv, InsertNewBlock, FeesInv'
    PROVE  TypesInv'
<1> DEFINE b   == call.block
           id  == FreshId(rows)
           n   == Len(BlockTxs[b])
           e   == InsertTxs(db, id, b, next_tx_id, n)
           f   == SetFee(e, id, AverageSize(b))
<1>1. pc = "insert" /\ call.reverts = <<>> /\ TablesInv /\ MapsTyped(db)
  BY DEF TypesInv, FeesInv, InsertNewBlock, InsertBlock
<1>2. /\ Linear(blockchain) /\ rows = RowsOf(blockchain)
      /\ Held(db, RowsOf(blockchain)) /\ Above(db, next_tx_id)
      /\ b \in Blocks
      /\ blockchain = <<>> => Parent(b) = NoBlock
      /\ blockchain # <<>> => Parent(b) = Top(blockchain).hash
      /\ id \in Nat
  BY <1>1, PushingFacts
<1>3. /\ rows' = rows \cup {[id |-> id, hash |-> b]}
      /\ pc' = "add" /\ db' = f /\ disk_db' = db'
      /\ UNCHANGED <<timestamp_index, fee_cache, hung>>
  BY DEF InsertNewBlock, InsertBlock
<1>4. n \in 0..n /\ next_tx_id \in Nat /\ Shape(db)
  BY <1>2, BlockTxsFacts DEF Above, Held, Consistent
<1>5. id \in DOMAIN db'.block_fees /\ db'.block_fees[id] \in Nat
  <2> DEFINE row == [id |-> id, hash |-> b]
  <2>1. row \in rows' /\ row.id = id
    BY <1>3
  <2>2. FeesHeld(db, rows)'
    BY <1>3 DEF FeesInv
  <2> HIDE DEF row, id, f
  <2> QED BY <2>1, <2>2 DEF FeesHeld
<1>6. /\ Shape(e) /\ e.block_fees = db.block_fees
      /\ e.spans \in [DOMAIN e.spans -> [first : Nat, count : Nat]]
  <2> HIDE DEF b, id, n
  <2>1. n \in 0..Len(BlockTxs[b])
    BY <1>4 DEF n
  <2>2. /\ Consistent(e) /\ e.block_fees = db.block_fees
        /\ e.spans = Opened(db, id, b, next_tx_id).spans
    BY <1>2, <2>1, InsertTxsFees
  <2> DEFINE spans == Opened(db, id, b, next_tx_id).spans
  <2>3. spans \in [DOMAIN spans -> [first : Nat, count : Nat]]
    BY <1>1, <1>2, <1>4, OpenedTyped
  <2> HIDE DEF e, spans
  <2>4. e.spans = spans
    BY <2>2 DEF spans
  <2> QED BY <2>2, <2>3, <2>4 DEF Consistent
<1> HIDE DEF e, b, id
<1>7. MapsTyped(db')
  <2>1. /\ Shape(f)
        /\ f.txs = e.txs /\ f.outputs = e.outputs /\ f.inputs = e.inputs
        /\ f.addresses_outputs = e.addresses_outputs
        /\ f.addresses_txs = e.addresses_txs
        /\ f.spans = e.spans
        /\ DOMAIN f.block_fees = DOMAIN e.block_fees \cup {id}
        /\ f.block_fees = [i \in DOMAIN f.block_fees |-> f.block_fees[i]]
        /\ f.block_fees[id] = AverageFee(e, id, AverageSize(b))
        /\ \A i \in DOMAIN e.block_fees \ {id} : f.block_fees[i] = e.block_fees[i]
    BY <1>6, SetFeeFields
  <2> HIDE DEF f
  <2>2. \A i \in DOMAIN db.block_fees : db.block_fees[i] \in Nat
    BY <1>1 DEF MapsTyped
  <2>3. \A i \in DOMAIN f.block_fees : f.block_fees[i] \in Nat
    BY <1>3, <1>5, <1>6, <2>1, <2>2
  <2>4. f.block_fees \in [DOMAIN f.block_fees -> Nat]
    BY <2>1, <2>3
  <2> QED BY <1>3, <1>6, <2>1, <2>4 DEF MapsTyped
<1>8. RowsTyped(db')
  <2>1. Held(db', rows')
    BY <1>3 DEF FeesInv, TablesInv
  <2> QED BY <2>1, ConsistentIsTyped DEF Held
<1>9. next_tx_id' \in Nat
  BY <1>3 DEF FeesInv, TablesInv, Above
<1> HIDE DEF f
<1> QED BY <1>3, <1>7, <1>8, <1>9 DEF TypesInv

\* A push that fails leaves tables, reverted or filled in part, and a next id
\* of the same types.
LEMMA FailTypes ==
    ASSUME TypesInv, PushFails, FeesInv'
    PROVE  TypesInv'
<1>1. /\ pc \in {"insert", "add", "head"} /\ Consistent(db)
      /\ MapsTyped(db) /\ MapsTyped(disk_db) /\ RowsTyped(db) /\ RowsTyped(disk_db)
      /\ UNCHANGED <<disk_db, next_tx_id, timestamp_index, fee_cache, hung>>
  BY InitAssumption DEF PushFails, Fail, TypesInv, FeesInv, TablesInv,
                        InitAssumption, Held, cacheVars
<1>2. RowsTyped(db') /\ MapsTyped(db')
  <2>1. CASE db' = db
    BY <1>1, <2>1
  <2>2. CASE db' = disk_db
    BY <1>1, <2>2
  <2>3. ASSUME NEW k, db' = RevertTxs(db, Top(call.reverts).id, k)
        PROVE  RowsTyped(db') /\ MapsTyped(db')
    BY <1>1, <2>3, RevertIsTyped DEF RevertTxs
  <2> QED BY <2>1, <2>2, <2>3 DEF PushFails
<1> QED BY <1>1, <1>2 DEF TypesInv

LEMMA InsertFailsTypes ==
    ASSUME TypesInv, InsertFails, FeesInv'
    PROVE  TypesInv'
<1> DEFINE b  == call.block
           id == FreshId(rows)
<1>1. /\ pc = "insert" /\ call.reverts = <<>> /\ TablesInv
      /\ MapsTyped(db) /\ MapsTyped(disk_db) /\ RowsTyped(disk_db)
      /\ UNCHANGED <<disk_db, timestamp_index, fee_cache, hung>>
  BY DEF InsertFails, FailInsert, TypesInv, FeesInv
<1>2. /\ Linear(blockchain) /\ Held(db, RowsOf(blockchain))
      /\ Above(db, next_tx_id) /\ b \in Blocks
      /\ blockchain = <<>> => Parent(b) = NoBlock
      /\ blockchain # <<>> => Parent(b) = Top(blockchain).hash
      /\ id \in Nat
  BY <1>1, PushingFacts
<1>3. PICK k \in 0..Len(BlockTxs[b]) :
          /\ db' = InsertTxs(db, id, b, next_tx_id, k)
          /\ next_tx_id' \in {next_tx_id + k, next_tx_id + k + 1}
  BY DEF InsertFails
<1> HIDE DEF b, id
<1>4. next_tx_id \in Nat /\ k \in Nat /\ Shape(db)
  BY <1>2, <1>3, BlockTxsFacts DEF Above, Held, Consistent
<1>5. /\ Consistent(db') /\ db'.block_fees = db.block_fees
      /\ db'.spans \in [DOMAIN db'.spans -> [first : Nat, count : Nat]]
  <2> DEFINE e == InsertTxs(db, id, b, next_tx_id, k)
             spans == Opened(db, id, b, next_tx_id).spans
  <2>1. /\ Consistent(e) /\ e.block_fees = db.block_fees
        /\ e.spans = Opened(db, id, b, next_tx_id).spans
    BY <1>2, <1>3, InsertTxsFees
  <2>2. spans \in [DOMAIN spans -> [first : Nat, count : Nat]]
    BY <1>1, <1>2, <1>4, OpenedTyped
  <2>3. e.spans = spans /\ db' = e
    BY <1>3, <2>1
  <2> HIDE DEF e, spans
  <2> QED BY <2>1, <2>2, <2>3
<1>6. RowsTyped(db') /\ MapsTyped(db')
  BY <1>1, <1>5, ConsistentIsTyped DEF MapsTyped
<1>7. next_tx_id' \in Nat
  BY <1>3, <1>4
<1> QED BY <1>1, <1>6, <1>7 DEF TypesInv

\* get_fees computes a natural number, or never returns.
LEMMA GetFeesTypes ==
    ASSUME TypesInv, GetFees, FeesInv'
    PROVE  TypesInv'
<1>1. /\ UNCHANGED <<db, disk_db, next_tx_id, timestamp_index>>
      /\ MapsTyped(db) /\ blockchain \in Seq(Row)
  BY DEF GetFees, tableVars, TypesInv, FeesInv, TablesInv, FreshInv, IInv, TypeOK
<1>2. fee_cache' \in Nat \cup {NoFee} /\ hung' \in BOOLEAN
  <2>1. CASE blockchain = <<>>
    BY <2>1 DEF GetFees, TypesInv
  <2>2. CASE blockchain # <<>>
    BY <1>1, <2>2, NormalFeeTyped DEF GetFees, TypesInv
  <2> QED BY <2>1, <2>2
<1> QED BY <1>1, <1>2 DEF TypesInv

LEMMA TypesStep == TypesInv /\ [IndexNext]_vars => TypesInv'
<1> SUFFICES ASSUME TypesInv, [IndexNext]_vars PROVE TypesInv'
  OBVIOUS
<1>1. FeesInv' /\ TablesInv' /\ TablesInv
  BY FeesStep DEF TypesInv, FeesInv
<1>2. CASE Open
  <2>1. /\ pc' \in {"idle", "head"} /\ call = NoCall
        /\ UNCHANGED <<call, db, disk_db, fee_cache, hung>>
    BY <1>1, <1>2 DEF Open, StartEmpty, StartLoad, tableVars, TablesInv
  <2>2. MapsTyped(db')
    BY <2>1 DEF TypesInv
  <2> QED BY <1>1, <2>1, <2>2, TypesFollow
<1>3. CASE OpenRefused
  <2>1. pc' = "refused"
    BY <1>3 DEF OpenRefused, StartRefused
  <2> QED BY <1>1, <2>1 DEF TablesInv, FreshInv
<1>4. CASE \E b \in Blocks : PushRefused(b) \/ PushAccepted(b)
  <2>1. /\ UNCHANGED <<db, disk_db, next_tx_id, timestamp_index, hung>>
        /\ fee_cache' \in {fee_cache, NoFee}
    BY <1>4 DEF PushRefused, PushAccepted, tableVars, cacheVars
  <2> QED BY <1>1, <2>1 DEF TypesInv
<1>5. CASE RevertTopBlock
  <2> DEFINE id == Top(call.reverts).id
  <2>1. /\ pc = "insert" /\ db' = RevertTables(db, id)
        /\ UNCHANGED <<disk_db, next_tx_id, timestamp_index, fee_cache, hung>>
    BY <1>5 DEF RevertTopBlock, RevertBlock, cacheVars
  <2>2. pc' = "insert"
    <3>1. pc' \in {"insert", "logic_error"}
      BY <1>5 DEF RevertTopBlock, RevertBlock
    <3> QED BY <1>1, <3>1 DEF TablesInv, FreshInv, IInv
  <2>3. Shape(db) /\ MapsTyped(db)
    BY <1>1, <2>1 DEF TablesInv, Held, Consistent, TypesInv
  <2> HIDE DEF id
  <2>4. /\ db'.block_fees = db.block_fees
        /\ db'.spans = [j \in DOMAIN db.spans \ {id} |-> db.spans[j]]
    BY <2>1, <2>3, RevertTablesFees
  <2>5. MapsTyped(db')
    BY <2>3, <2>4 DEF MapsTyped
  <2> QED BY <1>1, <2>1, <2>2, <2>5, TypesFollow
<1>6. CASE InsertNewBlock
  BY <1>1, <1>6, InsertTypes
<1>7. CASE AddToChain
  <2>1. UNCHANGED <<db, disk_db, next_tx_id, timestamp_index, fee_cache, hung>>
    BY <1>7 DEF AddToChain, tableVars, cacheVars
  <2> QED BY <1>1, <2>1 DEF TypesInv
<1>8. CASE FinishPush \/ FinishOpen
  <2>1. /\ pc' = "idle" /\ fee_cache' \in {fee_cache, NoFee}
        /\ UNCHANGED <<db, disk_db, hung>>
    BY <1>8 DEF FinishPush, FinishOpen, InsertHead, tableVars, cacheVars
  <2>2. MapsTyped(db')
    BY <2>1 DEF TypesInv
  <2> QED BY <1>1, <2>1, <2>2, TypesFollow
<1>9. CASE PushFails
  BY <1>1, <1>9, FailTypes
<1>10. CASE InsertFails
  BY <1>1, <1>10, InsertFailsTypes
<1>11. CASE Ends
  <2>1. /\ db' = disk_db /\ disk_db' = disk_db /\ next_tx_id' = 0
        /\ timestamp_index' = {} /\ fee_cache' = NoFee /\ hung' = FALSE
    BY <1>11 DEF Ends, Forget
  <2> QED BY <1>1, <2>1 DEF TypesInv
<1>12. CASE GetFees
  BY <1>1, <1>12, GetFeesTypes
<1>13. CASE UNCHANGED vars
  <2>1. UNCHANGED <<db, disk_db, next_tx_id, timestamp_index, fee_cache, hung>>
    BY <1>13 DEF vars, tableVars, cacheVars
  <2> QED BY <1>1, <2>1 DEF TypesInv
<1> QED BY <1>2, <1>3, <1>4, <1>5, <1>6, <1>7, <1>8, <1>9, <1>10, <1>11, <1>12,
           <1>13 DEF IndexNext

\* The tables and the caches keep the types of their columns, on a connection
\* whose push failed half way too; above all, no fee that is stored or cached
\* is negative: no block in the tables pays out more than it spends.
THEOREM IndexTypesRight ==
    InitRows = {} /\ InitTables = NoTables /\ IndexSpec => []IndexTypeOK
<1>1. InitRows = {} /\ InitTables = NoTables /\ IndexInit => TypesInv
  <2> SUFFICES ASSUME InitRows = {}, InitTables = NoTables, IndexInit
               PROVE  TypesInv
    OBVIOUS
  <2>1. /\ TablesInv /\ disk.rows = {} /\ pc = "down"
        /\ db = NoTables /\ disk_db = NoTables /\ next_tx_id = 0
        /\ timestamp_index = {} /\ fee_cache = NoFee /\ hung = FALSE
    BY TablesInit DEF IndexInit, Init
  <2>2. FeesInv
    BY <2>1 DEF FeesInv, FeesHeld
  <2>3. NoTables.block_fees = EmptyMap /\ NoTables.spans = EmptyMap
    BY DEF NoTables
  <2>4. RowsTyped(NoTables)
    BY EmptyHeld, ConsistentIsTyped DEF Held
  <2> HIDE DEF NoTables
  <2>5. MapsTyped(NoTables)
    BY <2>3 DEF MapsTyped, EmptyMap
  <2> QED BY <2>1, <2>2, <2>4, <2>5 DEF TypesInv
<1>2. TypesInv => IndexTypeOK
  BY DEF TypesInv, RowsTyped, MapsTyped, IndexTypeOK
<1> QED BY <1>1, <1>2, TypesStep, PTL DEF IndexSpec

=============================================================================
