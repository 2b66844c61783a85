------------------------------- MODULE Indexer -------------------------------
(***************************************************************************)
(* libbtcindex's Indexer: the transaction tables behind the chain of       *)
(* module Blockchain, how push_new_block fills and reverts them, the       *)
(* indexes it keeps in memory, and what a reader is answered.              *)
(*                                                                         *)
(* Every action here is an action of Blockchain together with what the     *)
(* same code does to the tables, so an Indexer behaviour is a Blockchain   *)
(* behaviour.  `blocks` is split: id, hash and previous_hash are `rows` of *)
(* Blockchain; first_transaction_id and transaction_count are db.spans.    *)
(***************************************************************************)
EXTENDS Blockchain, SequencesExt

CONSTANTS
    Addresses,
    BlockTxs,    \* BlockTxs[b]: the sequence of the transactions of block b
    Inputs,      \* Inputs[t]: sequence of [tx, n], or NullInput in a coinbase
    Outputs,     \* Outputs[t]: sequence of [addrs, value]
    Size,        \* Size[t]: the size get_average_transaction_size averages
    NullInput,   \* an input whose previous transaction is all zeroes
    NoFee,       \* value of fee_cache when low_fee has no value
    FeeWindow,   \* 50 in get_fees: how far below the top fees are averaged
    InitTables,  \* the transaction tables of the database first opened
    MaxTxId      \* bound of the model: no push starts above this id

Spends(t, u, n) ==
    \E i \in DOMAIN Inputs[t] : Inputs[t][i] = [tx |-> u, n |-> n]

\* The transactions before number j of block b in the history of b.
Earlier(b, j) ==
    (UNION {Range(BlockTxs[Lineage[b][i]]) : i \in 1..(Len(Lineage[b]) - 1)})
        \cup {BlockTxs[b][i] : i \in 1..(j - 1)}

\* What transaction t spends, when it is not a coinbase, and what it pays out.
SpentValue(t) ==
    SumFunction([k \in DOMAIN Inputs[t] |->
                    Outputs[Inputs[t][k].tx][Inputs[t][k].n].value])
PaidValue(t) == SumFunction([k \in DOMAIN Outputs[t] |-> Outputs[t][k].value])

\* The shape of a block, in which the coinbase comes first.
ASSUME LedgerTypeAssumption ==
    /\ BlockTxs \in [Blocks -> Seq(DOMAIN Inputs) \ {<<>>}]
    /\ DOMAIN Outputs = DOMAIN Inputs
    /\ NullInput \notin [tx : DOMAIN Inputs, n : Nat]
    /\ Size \in [DOMAIN Inputs -> Nat \ {0}]
    /\ \A t \in DOMAIN Inputs :
          /\ Inputs[t] \in Seq([tx : DOMAIN Inputs, n : Nat] \cup {NullInput})
          /\ Outputs[t] \in Seq([addrs : SUBSET Addresses, value : Nat])

\* What the node has validated before it serves a block: in the history of a
\* block no transaction comes twice, and each spends outputs of earlier ones
\* that nothing has spent yet.  Only the coinbase spends nothing, and no other
\* transaction pays out more than it spends.
ASSUME LedgerAssumption ==
    \A b \in Blocks : \A j \in DOMAIN BlockTxs[b] :
        LET t == BlockTxs[b][j] IN
        /\ t \notin Earlier(b, j)
        /\ \A k \in DOMAIN Inputs[t] :
              LET prev == Inputs[t][k] IN
              prev # NullInput =>
                  /\ prev.tx \in Earlier(b, j)
                  /\ prev.n \in DOMAIN Outputs[prev.tx]
                  /\ \A s \in Earlier(b, j) : ~Spends(s, prev.tx, prev.n)
                  /\ \A l \in DOMAIN Inputs[t] : Inputs[t][l] = prev => l = k
        /\ j > 1 => /\ \A k \in DOMAIN Inputs[t] : Inputs[t][k] # NullInput
                    /\ PaidValue(t) <= SpentValue(t)

ASSUME FeeWindowAssumption == FeeWindow \in Nat

VARIABLES
    db,               \* the tables as this connection reads them
    disk_db,          \* the tables as last committed
    next_tx_id,       \* InsertState::next_transaction_id
    timestamp_index,  \* TimestampIndex::data
    fee_cache,        \* Indexer::low_fee, normal_fee and high_fee
    hung              \* get_fees is looping forever with the mutex held

tableVars == <<db, disk_db>>
cacheVars == <<next_tx_id, timestamp_index, fee_cache>>
vars == <<chainVars, tableVars, cacheVars, hung>>

NoTables ==
    [txs |-> {}, outputs |-> {}, inputs |-> {}, addresses_outputs |-> {},
     addresses_txs |-> {}, block_fees |-> EmptyMap, spans |-> EmptyMap]

(***************************************************************************)
(* Block::insert and what it calls.                                        *)
(***************************************************************************)

\* InsertState::insert_input's two lookups: the transaction with this hash
\* (the first the index finds), then its output number n.
FindOutput(d, prev) ==
    LET named == {t \in d.txs : t.hash = prev.tx}
        first == CHOOSE t \in named : \A u \in named : t.id <= u.id
    IN  IF named = {} THEN {}
        ELSE {o \in d.outputs : o.tx = first.id /\ o.n = prev.n}

\* A mutation of AddressesOf: spending does not touch an address.
NoAddresses(d, output_id) == {}

AddressesOf(d, output_id) ==
    {a \in Addresses : <<a, output_id>> \in d.addresses_outputs}

\* The output an input names in the table, 0 for NULL in a coinbase.
SpentId(d, prev) ==
    IF prev = NullInput THEN 0 ELSE (CHOOSE o \in FindOutput(d, prev) : TRUE).id

\* InsertState::insert_input, for the inputs of a transaction in their order.
InputRows(d, tx_id, t) ==
    {[id |-> FreshId(d.inputs) + n - 1, tx |-> tx_id, n |-> n,
      output |-> SpentId(d, Inputs[t][n])] : n \in DOMAIN Inputs[t]}

\* Its update_output_stmt, for output o: of several inputs the last one is
\* the spender.
Spent(o, ins) ==
    LET by == {i \in ins : i.output = o.id} IN
    IF by = {} THEN o
    ELSE [o EXCEPT !.spent_by =
             (CHOOSE i \in by : \A j \in by : j.id <= i.id).id]

\* TxOutput::insert, for the outputs of a transaction in their order.
OutputRows(d, tx_id, t) ==
    {[id |-> FreshId(d.outputs) + n - 1, tx |-> tx_id, n |-> n,
      value |-> Outputs[t][n].value, spent_by |-> 0] : n \in DOMAIN Outputs[t]}

\* Transaction::insert: its row, its inputs, its outputs, and the addresses of
\* the outputs it spends and makes.
InsertTx(d, tx_id, block_id, index, t) ==
    LET ins  == InputRows(d, tx_id, t)
        outs == OutputRows(d, tx_id, t)
        pays == UNION {Outputs[t][o.n].addrs \X {o.id} : o \in outs}
        touched == (UNION {AddressesOf(d, i.output) : i \in ins})
                       \cup {r[1] : r \in pays}
    IN  [d EXCEPT
            !.txs = @ \cup {[id |-> tx_id, hash |-> t, block |-> block_id,
                             index |-> index]},
            !.inputs = @ \cup ins,
            !.outputs = {Spent(o, ins) : o \in @} \cup outs,
            !.addresses_outputs = @ \cup pays,
            !.addresses_txs = @ \cup (touched \X {tx_id})]

\* Block::insert, as far as its first k transactions.
InsertTxs(d, block_id, b, first, k) ==
    LET span   == [first |-> first, count |-> Len(BlockTxs[b])]
        opened == [d EXCEPT !.spans =
                      [id \in DOMAIN @ \cup {block_id} |->
                          IF id = block_id THEN span ELSE @[id]]]
        after[i \in 0..k] ==
            IF i = 0 THEN opened
            ELSE InsertTx(after[i - 1], first + i - 1, block_id, i - 1,
                          BlockTxs[b][i])
    IN  after[k]

\* Whether every insert of the first k transactions succeeds: an input that
\* names an unknown output, or a transaction id already taken, throws.
Insertable(d, b, first, k) ==
    \A i \in 1..k :
        LET t == BlockTxs[b][i] IN
        /\ \A u \in d.txs : u.id # first + i - 1
        /\ \A p \in Range(Inputs[t]) \ {NullInput} :
              \/ FindOutput(d, p) # {}
              \/ \E e \in 1..(i - 1) : /\ BlockTxs[b][e] = p.tx
                                       /\ p.n \in DOMAIN Outputs[p.tx]

(***************************************************************************)
(* Fees.                                                                   *)
(***************************************************************************)

\* A mutation of FeePayers: the coinbase counts.
AllPay(d, block_id) == {t.id : t \in {u \in d.txs : u.block = block_id}}

\* Indexer::get_outputs_total_for_block and get_inputs_total_for_block: the
\* coinbase (index_in_block = 0) is left out.
FeePayers(d, block_id) ==
    {t.id : t \in {u \in d.txs : u.block = block_id /\ u.index > 0}}

OutputsTotal(d, block_id) ==
    SumFunction([o \in {p \in d.outputs : p.tx \in FeePayers(d, block_id)} |->
                    o.value])

InputsTotal(d, block_id) ==
    SumFunction([p \in {q \in d.inputs \X d.outputs :
                           /\ q[1].tx \in FeePayers(d, block_id)
                           /\ q[1].output = q[2].id} |->
                    p[2].value])

\* Block::get_average_transaction_size, the coinbase left out.
AverageSize(b) ==
    LET n == Len(BlockTxs[b]) IN
    IF n = 1 THEN 0
    ELSE SumFunction([i \in 2..n |-> Size[BlockTxs[b][i]]]) \div (n - 1)

\* The average fee of set_fee_for_block.
AverageFee(d, block_id, size) ==
    LET total == InputsTotal(d, block_id) - OutputsTotal(d, block_id) IN
    IF total # 0 /\ size # 0 THEN total \div size ELSE 0

\* A mutation of SetFee: a conflict does nothing.
SetFeeOnce(d, block_id, size) ==
    [d EXCEPT !.block_fees =
        [id \in DOMAIN @ \cup {block_id} |->
            IF id \in DOMAIN @ THEN @[id] ELSE AverageFee(d, block_id, size)]]

\* Indexer::set_fee_for_block: on conflict do update.
SetFee(d, block_id, size) ==
    [d EXCEPT !.block_fees =
        [id \in DOMAIN @ \cup {block_id} |->
            IF id = block_id THEN AverageFee(d, block_id, size) ELSE @[id]]]

\* Indexer::get_fees: the average over the top FeeWindow + 1 blocks, of those
\* that have a row in block_fees.
NormalFee(chain, d) ==
    LET height == Len(chain) - 1
        lowest == IF height > FeeWindow THEN height - FeeWindow ELSE 0
        known  == {h \in lowest..height :
                      chain[h + 1].id \in DOMAIN d.block_fees}
    IN  IF known = {} THEN 0
        ELSE SumFunction([h \in known |-> d.block_fees[chain[h + 1].id]])
                \div Cardinality(known)

(***************************************************************************)
(* Indexer::revert_block and revert_tx.                                    *)
(***************************************************************************)

\* A mutation of Unspend: a reverted spender stays in spent_by.
StaySpent(outputs, ids) == outputs

\* The unspend_output statement, for each of the ids.
Unspend(outputs, ids) ==
    {IF o.id \in ids THEN [o EXCEPT !.spent_by = 0] ELSE o : o \in outputs}

\* revert_tx, for each of the ids: the outputs it made and their relations go,
\* the outputs it spent are unspent, its inputs and its relations go.  No order
\* matters: an output made by one of them is gone whoever spent it.
RevertTx(d, ids) ==
    LET made  == {o.id : o \in {x \in d.outputs : x.tx \in ids}}
        spent == {i.output : i \in {x \in d.inputs : x.tx \in ids}}
    IN  [d EXCEPT
            !.outputs = Unspend({o \in @ : o.id \notin made}, spent),
            !.addresses_outputs = {r \in @ : r[2] \notin made},
            !.inputs = {i \in @ : i.tx \notin ids},
            !.addresses_txs = {r \in @ : r[2] \notin ids}]

\* The ids of the last k transactions of a block.
LastIds(span, k) == (span.first + span.count - k)..(span.first + span.count - 1)

\* A mutation of RevertTxs: the loop ends above the block's coinbase.
RevertTxsButFirst(d, block_id, k) ==
    LET span == d.spans[block_id] IN
    RevertTx(d, LastIds(span, IF k = span.count THEN k - 1 ELSE k))

\* The transactions of a block, newest first, as far as the first k of them.
RevertTxs(d, block_id, k) == RevertTx(d, LastIds(d.spans[block_id], k))

\* revert_block: all of them, then their rows and the row of the block.
\* block_fees keeps its row.
RevertTables(d, block_id) ==
    LET undone == RevertTxs(d, block_id, d.spans[block_id].count) IN
    [undone EXCEPT
        !.txs = {t \in @ : t.block # block_id},
        !.spans = [i \in DOMAIN @ \ {block_id} |-> @[i]]]

(***************************************************************************)
(* Actions.                                                                *)
(***************************************************************************)

\* TimestampIndex::reload_data.  A timestamp is named by its block.
Span(d, r) ==
    [begin |-> d.spans[r.id].first,
     end   |-> d.spans[r.id].first + d.spans[r.id].count,
     block |-> r.hash]

ReloadedIndex(d, rs) == {Span(d, r) : r \in rs}

Forget ==
    /\ db' = disk_db
    /\ next_tx_id' = 0
    /\ timestamp_index' = {}
    /\ fee_cache' = NoFee
    /\ hung' = FALSE
    /\ UNCHANGED disk_db

IndexInit ==
    /\ Init
    /\ db = InitTables
    /\ disk_db = InitTables
    /\ next_tx_id = 0
    /\ timestamp_index = {}
    /\ fee_cache = NoFee
    /\ hung = FALSE

\* A mutation of Open: the largest transaction id is given out again.
OpenAtLargestId ==
    /\ StartEmpty \/ StartLoad
    /\ next_tx_id' = IF db.txs = {} THEN 1 ELSE FreshId(db.txs) - 1
    /\ timestamp_index' = ReloadedIndex(db, rows)
    /\ UNCHANGED <<tableVars, fee_cache, hung>>

\* Indexer::Indexer: InsertState, TimestampIndex, then Blockchain.
Open ==
    /\ StartEmpty \/ StartLoad
    /\ next_tx_id' = FreshId(db.txs)
    /\ timestamp_index' = ReloadedIndex(db, rows)
    /\ UNCHANGED <<tableVars, fee_cache, hung>>

OpenRefused == StartRefused /\ UNCHANGED <<tableVars, cacheVars, hung>>

\* push_new_block, when the previous block is unknown: `block_required`.
PushRefused(b) ==
    /\ pc = "idle"
    /\ ~hung
    /\ BlockRequired(Parent(b))
    /\ fee_cache' = NoFee
    /\ UNCHANGED <<chainVars, tableVars, next_tx_id, timestamp_index, hung>>

PushAccepted(b) ==
    /\ ~hung
    /\ next_tx_id <= MaxTxId
    /\ PushBegin(b)
    /\ UNCHANGED <<tableVars, cacheVars, hung>>

RevertTopBlock ==
    /\ RevertBlock
    /\ db' = RevertTables(db, Top(call.reverts).id)
    /\ UNCHANGED <<disk_db, cacheVars, hung>>

\* Block::insert, set_fee_for_block and the commit.
InsertNewBlock ==
    LET b  == call.block
        id == FreshId(rows)
        n  == Len(BlockTxs[b])
    IN  /\ InsertBlock
        /\ Insertable(db, b, next_tx_id, n)
        /\ db' = SetFee(InsertTxs(db, id, b, next_tx_id, n),
                        id, AverageSize(b))
        /\ disk_db' = db'
        /\ next_tx_id' = next_tx_id + n
        /\ UNCHANGED <<timestamp_index, fee_cache, hung>>

AddToChain == AddNewBlock /\ UNCHANGED <<tableVars, cacheVars, hung>>

\* Mutations of FinishPush: only a reorganization updates the timestamps; the
\* cached fees are kept.
FinishPushNoAdd ==
    /\ call # NoCall
    /\ InsertHead
    /\ timestamp_index' = IF call.reorg THEN ReloadedIndex(db, rows)
                          ELSE timestamp_index
    /\ fee_cache' = NoFee
    /\ UNCHANGED <<tableVars, next_tx_id, hung>>
FinishPushKeepFees ==
    /\ call # NoCall
    /\ InsertHead
    /\ timestamp_index' = ReloadedIndex(db, rows)
    /\ UNCHANGED <<tableVars, next_tx_id, fee_cache, hung>>

\* The saved head.  After a push, the timestamp index follows the tables and
\* the cached fees are dropped; after the constructor there is nothing more.
FinishPush ==
    /\ call # NoCall
    /\ InsertHead
    /\ timestamp_index' =
          IF call.reorg THEN ReloadedIndex(db, rows)
          ELSE timestamp_index \cup
                  {Span(db, [id |-> call.id, hash |-> call.block])}
    /\ fee_cache' = NoFee
    /\ UNCHANGED <<tableVars, next_tx_id, hung>>

FinishOpen ==
    /\ call = NoCall
    /\ InsertHead
    /\ UNCHANGED <<tableVars, cacheVars, hung>>

\* A statement of the push throws.  Inside revert_block and Block::insert the
\* statements before it have taken effect on this connection, unless sqlite
\* rolled the transaction back.
PushFails ==
    /\ Fail
    /\ \/ rows' = rows /\ UNCHANGED db
       \/ rows' = disk.rows /\ db' = disk_db
       \/ /\ pc = "insert" /\ call.reverts # <<>>
          /\ rows' = rows
          /\ LET id == Top(call.reverts).id IN
             \E k \in 1..db.spans[id].count : db' = RevertTxs(db, id, k)
    /\ UNCHANGED <<disk_db, cacheVars, hung>>

\* A statement of Block::insert or set_fee_for_block throws after k whole
\* transactions; insert_tx may have taken the id of the next one.
InsertFails ==
    LET b == call.block IN
    /\ FailInsert
    /\ \E k \in 0..Len(BlockTxs[b]) :
          /\ Insertable(db, b, next_tx_id, k)
          /\ db' = InsertTxs(db, FreshId(rows), b, next_tx_id, k)
          /\ next_tx_id' \in {next_tx_id + k, next_tx_id + k + 1}
    /\ UNCHANGED <<disk_db, timestamp_index, fee_cache, hung>>

\* The process ends; with get_fees looping it has to be killed.
Ends == (Exit \/ Stop \/ Crash) /\ Forget

\* get_fees takes the mutex.  On an empty chain get_height() is 2^64 - 1 and
\* its loop over the heights never ends.
GetFees ==
    /\ pc \in {"idle", "failed"}
    /\ ~hung
    /\ fee_cache = NoFee
    /\ IF blockchain = <<>>
       THEN hung' = TRUE /\ UNCHANGED fee_cache
       ELSE fee_cache' = NormalFee(blockchain, db) /\ UNCHANGED hung
    /\ UNCHANGED <<chainVars, tableVars, next_tx_id, timestamp_index>>

IndexNext ==
    \/ Open
    \/ OpenRefused
    \/ \E b \in Blocks : PushRefused(b)
    \/ \E b \in Blocks : Pushable(b) /\ PushAccepted(b)
    \/ RevertTopBlock
    \/ InsertNewBlock
    \/ AddToChain
    \/ FinishPush
    \/ FinishOpen
    \/ PushFails
    \/ InsertFails
    \/ Ends
    \/ GetFees

IndexSpec == IndexInit /\ [][IndexNext]_vars

(***************************************************************************)
(* What a reader is answered.                                              *)
(***************************************************************************)

\* The mutex is free, so a reader may run.
Readable == pc \in {"idle", "failed"} /\ ~hung

\* get_utxo_internal, for one address.
GetUtxo(a) ==
    {o \in db.outputs : /\ <<a, o.id>> \in db.addresses_outputs
                        /\ o.spent_by = 0}

\* The row of a transaction, as a set.
TxRow(id) == {t \in db.txs : t.id = id}

\* TxFetcher::get_tx joins txs with blocks: the hash of the block.
BlockOfTx(t) == {r.hash : r \in {q \in rows : q.id = t.block}}

\* read_txs, for one address.
GetTxIds(a) == {r[2] : r \in {q \in db.addresses_txs : q[1] = a}}

\* TimestampIndex::get_timestamp.  The vector is sorted by end, so the first
\* span that ends above the id decides; equal ends may come in any order.
GetTimestamp(id) ==
    LET above == {s \in timestamp_index : s.end > id}
        first == {s \in above : \A q \in above : s.end <= q.end}
    IN  {IF s.begin <= id THEN <<s.block, id - s.begin>> ELSE <<NoBlock, 0>> :
            s \in first}

(***************************************************************************)
(* The ledger: what the chain itself says, from its blocks alone.          *)
(***************************************************************************)

LedgerTxs ==
    UNION {Range(BlockTxs[blockchain[i].hash]) : i \in DOMAIN blockchain}

\* The outputs that pay a and that no transaction of the chain spends.
LedgerUtxo(a) ==
    UNION {{<<t, n, Outputs[t][n].value>> :
                n \in {k \in DOMAIN Outputs[t] :
                          /\ a \in Outputs[t][k].addrs
                          /\ \A s \in LedgerTxs : ~Spends(s, t, k)}} :
           t \in LedgerTxs}

\* The transactions that pay a or spend what paid a.
LedgerHistory(a) ==
    {t \in LedgerTxs :
        \/ \E n \in DOMAIN Outputs[t] : a \in Outputs[t][n].addrs
        \/ \E u \in LedgerTxs : \E n \in DOMAIN Outputs[u] :
              Spends(t, u, n) /\ a \in Outputs[u][n].addrs}

(***************************************************************************)
(* Properties.                                                             *)
(***************************************************************************)

\* The tables and the caches keep the columns of their C++ and SQL types.
IndexTypeOK ==
    /\ \A d \in {db, disk_db} :
          /\ d.txs \subseteq [id : Nat, hash : DOMAIN Inputs, block : Nat,
                             index : Nat]
          /\ d.outputs \subseteq [id : Nat, tx : Nat, n : Nat, value : Nat,
                                 spent_by : Nat]
          /\ d.inputs \subseteq [id : Nat, tx : Nat, n : Nat, output : Nat]
          /\ d.addresses_outputs \subseteq Addresses \X Nat
          /\ d.addresses_txs \subseteq Addresses \X Nat
          /\ d.block_fees \in [DOMAIN d.block_fees -> Nat]
          /\ d.spans \in [DOMAIN d.spans -> [first : Nat, count : Nat]]
    /\ next_tx_id \in Nat
    /\ timestamp_index \subseteq [begin : Nat, end : Nat, block : Blocks]
    /\ fee_cache \in Nat \cup {NoFee}
    /\ hung \in BOOLEAN

\* Between calls, get_utxo answers for every address exactly the unspent
\* outputs of the chain being served, each once: reverting blocks restores the
\* outputs they spent, and ids that sqlite hands out again after a revert carry
\* no relation of their former owners.
UtxosMatchChain ==
    pc = "idle" =>
        \A a \in Addresses :
            /\ UNION {{<<t.hash, o.n, o.value>> :
                           o \in {x \in GetUtxo(a) : x.tx = t.id}} :
                      t \in db.txs} = LedgerUtxo(a)
            /\ Cardinality(GetUtxo(a)) = Cardinality(LedgerUtxo(a))

\* Between calls, get_history lists for every address exactly the transactions
\* of the chain that touch it, each once, each in the block that holds it and
\* at the index it has there.
HistoryMatchesChain ==
    pc = "idle" =>
        /\ \A a \in Addresses :
              /\ UNION {{t.hash : t \in TxRow(id)} : id \in GetTxIds(a)}
                    = LedgerHistory(a)
              /\ Cardinality(GetTxIds(a)) = Cardinality(LedgerHistory(a))
        /\ \A t \in db.txs : \A b \in BlockOfTx(t) :
              /\ b \in DOMAIN block_map
              /\ BlockTxs[b][t.index + 1] = t.hash

\* spent_by and the inputs table point at each other: an output is marked
\* exactly when an input that is still there spends it (insert_input,
\* revert_tx), so get_tx never shows a spender that was reverted.
SpentByMatchesInputs ==
    pc = "idle" =>
        \A o \in db.outputs :
            {i.id : i \in {x \in db.inputs : x.output = o.id}}
                = IF o.spent_by = 0 THEN {} ELSE {o.spent_by}

\* The timestamp get_history sorts by is that of the block the transaction is
\* in, after any sequence of pushes, reorganizations and restarts.
TimestampsMatchChain ==
    pc = "idle" =>
        \A t \in db.txs :
            GetTimestamp(t.id) = BlockOfTx(t) \X {t.index}

\* Every served block that was pushed has its own average fee in block_fees,
\* although a revert leaves the row of a block whose id the next block takes
\* over.
FeesMatchChain ==
    pc = "idle" =>
        \A i \in {j \in DOMAIN blockchain : blockchain[j] \notin InitRows} :
            LET b      == blockchain[i].hash
                paying == 2..Len(BlockTxs[b])
                total  == SumFunction([k \in paying |->
                              SpentValue(BlockTxs[b][k]) - PaidValue(BlockTxs[b][k])])
            IN  db.block_fees[blockchain[i].id] =
                    IF paying = {} THEN 0 ELSE total \div AverageSize(b)

\* A cached fee is the fee a fresh computation would give: every push that
\* changed the chain dropped the cache.
FeeCacheIsFresh ==
    pc = "idle" /\ fee_cache # NoFee =>
        fee_cache = NormalFee(blockchain, db)

\* When the transactions of a pushed block are inserted, every output they
\* spend is found and no transaction id is taken: the tables are those of the
\* chain the block was mined on, whatever was reverted or lost before.
InsertsSucceed ==
    pc = "insert" /\ call.reverts = <<>> =>
        Insertable(db, call.block, next_tx_id, Len(BlockTxs[call.block]))

\* A reader never meets an unspent output whose transaction has no row
\* (`assert(false)` in get_utxo), not even on the tables of a push that failed
\* half way and was neither committed nor rolled back.
UtxoTxExists ==
    Readable => \A a \in Addresses : \A o \in GetUtxo(a) : TxRow(o.tx) # {}

\* A reader never meets a transaction whose block is not in the served chain
\* ("Internal error (implementation bug?)" in TxFetcher::get_tx).
TxBelongsToChain ==
    Readable => \A t \in db.txs : BlockOfTx(t) \subseteq DOMAIN block_map

\* The same between calls only, restarts included.
IdleTxBelongsToChain ==
    pc = "idle" => \A t \in db.txs : BlockOfTx(t) \subseteq DOMAIN block_map

=============================================================================
