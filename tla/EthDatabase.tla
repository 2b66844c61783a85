---------------------------- MODULE EthDatabase ----------------------------
(***************************************************************************)
(* The Database object of the ETH indexer: its sqlite tables and the four  *)
(* things it keeps in memory beside them, the chain (CppBlockchain), the   *)
(* address cache (BigintCache), the timestamp index and the next           *)
(* transaction id.  A value of Database holds all of them; the operators   *)
(* are its methods, from the object before to the object after.            *)
(*                                                                         *)
(* Every write of the program is in one sqlite transaction per call, so    *)
(* the tables of a Database between two calls are the committed ones.  A   *)
(* call that throws leaves the tables as they were (Rollback) and the      *)
(* memory as the call had left it.                                         *)
(***************************************************************************)
EXTENDS Integers, Sequences, FiniteSets, SequencesExt, TLC

CONSTANTS
    Hashes,      \* the block hashes
    Lineage,     \* Lineage[h]: the hashes from the genesis block to h
    Miner,       \* Miner[h]: the address that mined block h
    Txs,         \* Txs[h]: the transactions of block h, in order
    Addresses,   \* the addresses
    Token        \* the contract address of the one row of `tokens`

\* A transaction: `args` are the address arguments of the ERC-20 function
\* `fn` it calls, if `to` is the token; `ok` is the status of its receipt.
Tx == [from : Addresses, to : Addresses, args : Seq(Addresses), ok : BOOLEAN,
       fn : {"none", "transfer", "transferFrom", "approve"}]

ASSUME EthAssumption ==
    /\ Lineage \in [Hashes -> Seq(Hashes)]
    /\ \A h \in Hashes :
          /\ Lineage[h] # <<>>
          /\ Last(Lineage[h]) = h
          /\ \A i \in 1..Len(Lineage[h]) :
                Lineage[Lineage[h][i]] = SubSeq(Lineage[h], 1, i)
    /\ Miner \in [Hashes -> Addresses]
    /\ DOMAIN Txs = Hashes
    /\ \A h \in Hashes :
          /\ Txs[h] \in Seq(Tx)
          /\ \A i \in DOMAIN Txs[h] :
                Txs[h][i].fn \in {"transfer", "transferFrom"} => Txs[h][i].args # <<>>
    /\ Token \in Addresses

\* Height of a block on the node, and the hash of its parent.
Number(h) == Len(Lineage[h]) - 1
ParentOf(h) == Lineage[h][Number(h)]

\* The members of a set of numbers, in ascending order.
Ascending(S) ==
    [k \in 1..Cardinality(S) |-> CHOOSE i \in S : Cardinality({j \in S : j < i}) = k - 1]

\* sqlite's choice for an integer primary key that is not given.
NextKey(table) == IF table = <<>> THEN 1 ELSE Max(DOMAIN table) + 1

Without(table, keys) == [k \in DOMAIN table \ keys |-> table[k]]
With(table, rows) ==
    [k \in DOMAIN table \cup DOMAIN rows |->
        IF k \in DOMAIN table THEN table[k] ELSE rows[k]]

\* GetNextTxId.
GetNextTxId(txs) == NextKey(txs)

EmptyDatabase ==
    [blocks |-> <<>>, txs |-> <<>>, token_txs |-> <<>>, bigints |-> <<>>,
     chain |-> <<>>, cache |-> <<>>, next_tx_id |-> 1, index |-> <<>>]

\* The tables of d with the memory of nothing: what a dead process leaves.
Forget(d) ==
    [d EXCEPT !.chain = <<>>, !.cache = <<>>, !.next_tx_id = 1, !.index = <<>>]

\* The transaction around the step from `old` to `new` is disposed uncommitted.
Rollback(new, old) ==
    [new EXCEPT !.blocks = old.blocks, !.txs = old.txs,
                !.token_txs = old.token_txs, !.bigints = old.bigints]

(***************************************************************************)
(* The address cache.  The id of an address is its place in reverse_map.   *)
(***************************************************************************)

Known(d, a) == \E i \in DOMAIN d.cache : d.cache[i] = a
AddressId(d, a) == (CHOOSE i \in DOMAIN d.cache : d.cache[i] = a) - 1

\* A mutation of EncodeAll: the rows are written when the cache is next loaded.
EncodeInMemory(d, as) ==
    LET new == Ascending({i \in DOMAIN as : /\ ~Known(d, as[i])
                                           /\ \A j \in 1..(i - 1) : as[j] # as[i]})
    IN  [d EXCEPT !.cache = @ \o [k \in DOMAIN new |-> as[new[k]]]]

\* Encode of each address of `as`: one that is new to the memory, and only
\* such a one, gets a row.
EncodeAll(d, as) ==
    LET new == Ascending({i \in DOMAIN as : /\ ~Known(d, as[i])
                                           /\ \A j \in 1..(i - 1) : as[j] # as[i]})
        all == d.cache \o [k \in DOMAIN new |-> as[new[k]]]
    IN  [d EXCEPT !.cache = all,
                  !.bigints = With(@, [id \in Len(d.cache)..(Len(all) - 1) |-> all[id + 1]])]

Encode(d, a) == EncodeAll(d, <<a>>)

\* BigintCache(): row number n must have been given id n, counting from 0.
ConsistentlyEncoded(d) == DOMAIN d.bigints = 0..(Cardinality(DOMAIN d.bigints) - 1)

\* InconsistentAddressEncodingException.LastGood; -1 is its null.
LastGood(d) == CHOOSE n \in -1..Cardinality(DOMAIN d.bigints) :
                  /\ 0..n \subseteq DOMAIN d.bigints
                  /\ n + 1 \notin DOMAIN d.bigints

(***************************************************************************)
(* The timestamp index: spans of transaction ids, sorted by their ends.    *)
(***************************************************************************)

Span(row) == [begin |-> row.first, end |-> row.first + row.count, block |-> row.hash]

\* reload_data: every span that holds a transaction, and all of them again.
ReloadIndex(blocks) ==
    LET ids == Ascending({i \in DOMAIN blocks : blocks[i].count # 0})
    IN  [k \in 1..(2 * Len(ids)) |-> Span(blocks[ids[(k + 1) \div 2]])]

\* add_block: sorted again only if the new span ends before the last one.
AddSpan(index, span) ==
    IF index # <<>> /\ span.end < Last(index).end
    THEN SortSeq(Append(index, span), LAMBDA s, t : s.end < t.end)
    ELSE Append(index, span)

\* find_first_true over places 1..n, where the predicate is true of those in
\* `yes`; n + 1 is `end`.
FindFirstTrue(n, yes) ==
    LET bisect[r \in (1..n) \X (1..(n + 1))] ==
            LET pivot == r[1] + (r[2] - r[1]) \div 2
            IN  IF r[2] - r[1] <= 1 THEN r[2]
                ELSE bisect[IF pivot \in yes THEN <<r[1], pivot>> ELSE <<pivot, r[2]>>]
    IN  IF n = 0 \/ 1 \in yes THEN 1 ELSE bisect[<<1, n + 1>>]

\* get_timestamp: the block (its timestamp) and the place in it, or {}.
GetTimestamp(index, t) ==
    LET i == FindFirstTrue(Len(index), {k \in DOMAIN index : index[k].end > t})
    IN  IF i \in DOMAIN index /\ index[i].begin <= t
        THEN {<<index[i].block, t - index[i].begin + 1>>} ELSE {}

(***************************************************************************)
(* The chain in memory: Block objects [hash, id], lowest first.            *)
(***************************************************************************)

\* TryAddNewBlock.BlockRequired for block h.
BlockRequired(d, h) == d.chain # <<>> /\
    \A i \in DOMAIN d.chain : Number(h) = 0 \/ d.chain[i].hash # ParentOf(h)

\* TryAddNewBlock.BlocksToRevert, sorted highest first by the C# side.
BlocksToRevert(d, h) ==
    IF d.chain = <<>> \/ BlockRequired(d, h) THEN <<>>
    ELSE LET at == CHOOSE i \in DOMAIN d.chain : d.chain[i].hash = ParentOf(h)
         IN  Reverse(SubSeq(d.chain, at + 1, Len(d.chain)))

\* A mutation of AddNewBlock: the height is taken for the id.
AddNewBlockAtHeight(d, h, id) == [d EXCEPT !.chain = Append(@, [hash |-> h, id |-> Number(h)])]

\* AddNewBlock, called once what has to be reverted is.
AddNewBlock(d, h, id) == [d EXCEPT !.chain = Append(@, [hash |-> h, id |-> id])]

\* The tables name one block that no other block follows: the constructor of
\* CppBlockchain gets no saved head (its callback always answers false).
HeadRows(d) ==
    {i \in DOMAIN d.blocks : \A j \in DOMAIN d.blocks :
        Number(d.blocks[j].hash) = 0 \/ ParentOf(d.blocks[j].hash) # d.blocks[i].hash}
Loadable(d) == d.blocks = <<>> \/ Cardinality(HeadRows(d)) = 1

\* CppBlockchain(): from the head down to a block that has no row.
LoadChain(d) ==
    IF d.blocks = <<>> THEN <<>>
    ELSE LET L == Lineage[d.blocks[CHOOSE i \in HeadRows(d) : TRUE].hash]
             row(h) == {i \in DOMAIN d.blocks : d.blocks[i].hash = h}
             root == CHOOSE k \in DOMAIN L :
                        /\ \A j \in k..Len(L) : row(L[j]) # {}
                        /\ k = 1 \/ row(L[k - 1]) = {}
         IN  [i \in 1..(Len(L) - root + 1) |->
                 [hash |-> L[root + i - 1], id |-> Max(row(L[root + i - 1]))]]

(***************************************************************************)
(* Blocks and transactions.                                                *)
(***************************************************************************)

\* ParseInput for the functions asked for, transfer and transferFrom; the
\* receiver of the latter is read from the offset of its sender.
IsTransfer(tx) == tx.to = Token /\ tx.fn \in {"transfer", "transferFrom"}
ParseInput(tx) ==
    [sender |-> IF tx.fn = "transfer" THEN tx.from ELSE tx.args[1],
     receiver |-> tx.args[1]]

\* ProcessTokenTransaction: Rsk takes every transfer for a success.
Counts(tx, network) == IsTransfer(tx) /\ (network = "Rsk" \/ tx.ok)

\* AddTokenTransaction of each call, of the transactions with the ids `ids`.
AddTokenTransactions(d, ids, calls) ==
    LET e == EncodeAll(d, FlattenSeq([i \in DOMAIN ids |->
                                          <<calls[i].sender, calls[i].receiver>>]))
        key == NextKey(d.token_txs)
        row(i) == [tx |-> ids[i], sender |-> AddressId(e, calls[i].sender),
                                  receiver |-> AddressId(e, calls[i].receiver)]
    IN  [e EXCEPT !.token_txs = With(@, [k \in key..(key + Len(ids) - 1) |-> row(k - key + 1)])]

\* InsertOnlyBlock.
InsertOnlyBlock(d, h) ==
    LET e == Encode(d, Miner[h])
        row == [hash |-> h, miner |-> AddressId(e, Miner[h]),
                first |-> e.next_tx_id, count |-> Len(Txs[h])]
    IN  [e EXCEPT !.blocks = With(@, [k \in {NextKey(@)} |-> row]), !.index = AddSpan(@, Span(row))]

\* InsertTransactions of 1..n; `calls` are the transactions for which the
\* callback PostprocessTransaction, after each, adds a token transaction.
InsertTransactions(d, h, n, calls) ==
    LET block == Max(DOMAIN d.blocks)
        first == d.next_tx_id
        added == Ascending(calls \cap 1..n)
        call(i) == ParseInput(Txs[h][i])
        e == EncodeAll(d, FlattenSeq([i \in 1..n |->
                 <<Txs[h][i].from, Txs[h][i].to>> \o
                 IF i \in calls THEN <<call(i).sender, call(i).receiver>> ELSE <<>>]))
        row(i) == [tx |-> <<h, i>>, block |-> block,
                   sender |-> AddressId(e, Txs[h][i].from),
                   receiver |-> AddressId(e, Txs[h][i].to)]
    IN  AddTokenTransactions(
            [e EXCEPT !.txs = With(@, [t \in first..(first + n - 1) |-> row(t - first + 1)])],
            [j \in DOMAIN added |-> first + added[j] - 1],
            [j \in DOMAIN added |-> call(added[j])])

\* InsertBlock and AddNewBlock.
InsertBlock(d, h, calls) ==
    LET n == Len(Txs[h])
        e == InsertTransactions(InsertOnlyBlock(d, h), h, n, calls)
    IN  AddNewBlock([e EXCEPT !.next_tx_id = @ + n], h, Max(DOMAIN e.blocks))

\* A mutation of DeleteBlocks: the timestamp index is not loaded again.
DeleteBlocksKeepIndex(d, revert) ==
    LET ids == {revert[i].id : i \in DOMAIN revert}
        txs == Without(d.txs, {t \in DOMAIN d.txs : d.txs[t].block \in ids})
        gone == DOMAIN d.txs \ DOMAIN txs
    IN  IF revert = <<>> THEN d
        ELSE [d EXCEPT !.blocks = Without(@, ids), !.txs = txs,
                       !.token_txs = Without(@, {k \in DOMAIN @ : @[k].tx \in gone}),
                       !.chain = SubSeq(@, 1, Len(@) - Len(revert)),
                       !.next_tx_id = GetNextTxId(txs)]

\* DeleteBlocks, in memory too: the rows of the blocks, their transactions and
\* the token transactions whose ids lie in the ranges of the blocks.
DeleteBlocks(d, revert) ==
    LET ids == {revert[i].id : i \in DOMAIN revert}
        blocks == Without(d.blocks, ids)
        txs == Without(d.txs, {t \in DOMAIN d.txs : d.txs[t].block \in ids})
        gone == UNION {d.blocks[i].first..(d.blocks[i].first + d.blocks[i].count - 1) :
                          i \in ids \cap DOMAIN d.blocks}
    IN  IF revert = <<>> THEN d
        ELSE [d EXCEPT !.blocks = blocks, !.txs = txs,
                       !.token_txs = Without(@, {k \in DOMAIN @ : @[k].tx \in gone}),
                       !.chain = SubSeq(@, 1, Len(@) - Len(revert)),
                       !.next_tx_id = GetNextTxId(txs),
                       !.index = ReloadIndex(blocks)]

(***************************************************************************)
(* Opening the database.                                                   *)
(***************************************************************************)

\* Database(), once the addresses are consistently encoded.
Open(d) ==
    [d EXCEPT !.cache = [i \in 1..Cardinality(DOMAIN d.bigints) |-> d.bigints[i - 1]],
              !.chain = LoadChain(d),
              !.index = ReloadIndex(d.blocks),
              !.next_tx_id = GetNextTxId(d.txs)]

\* The ids CleanUpDatabase takes the minimum of.  It casts a minimum over no
\* rows to a number, which throws, so every one of these sets must be filled.
TxsWith(d, ids) == {t \in DOMAIN d.txs : {d.txs[t].sender, d.txs[t].receiver} \cap ids # {}}
BadTxSets(d, good) ==
    LET from == TxsWith(d, {good})
    IN  << {d.blocks[i].first : i \in {j \in DOMAIN d.blocks : d.blocks[j].miner > good}},
           {t \in DOMAIN d.txs : /\ from # {}
                                 /\ t >= Min(from)
                                 /\ \/ d.txs[t].sender > good
                                    \/ d.txs[t].receiver > good},
           {d.token_txs[k].tx : k \in {j \in DOMAIN d.token_txs :
                d.token_txs[j].sender > good \/ d.token_txs[j].receiver > good}} >>

\* The block from which CleanUpDatabase deletes, as a set.
CleanUpFrom(d) ==
    LET sets == BadTxSets(d, LastGood(d))
        bad == Min({Min(sets[i]) : i \in 1..3})
    IN  IF LastGood(d) < 0 \/ \E i \in 1..3 : sets[i] = {} THEN {}
        ELSE {i \in DOMAIN d.blocks : /\ d.blocks[i].first <= bad
                                      /\ bad < d.blocks[i].first + d.blocks[i].count}

\* CleanUpDatabase: token_txs are deleted by their own ids.
CleanUpDatabase(d, block) ==
    LET first == d.blocks[block].first
    IN  [d EXCEPT !.blocks = Without(@, {i \in DOMAIN @ : i >= block}),
                  !.txs = Without(@, {t \in DOMAIN @ : t >= first}),
                  !.token_txs = Without(@, {k \in DOMAIN @ : k >= first}),
                  !.bigints = Without(@, {a \in DOMAIN @ : a > LastGood(d)})]

(***************************************************************************)
(* Requests.                                                               *)
(***************************************************************************)

\* GetHistory of one address: hash, sender, receiver, block and order of the
\* transactions found by its id.  An id that does not decode gives a null.
Decode(d, id) == IF id + 1 \in DOMAIN d.cache THEN d.cache[id + 1] ELSE "null"
GetHistory(d, a) ==
    IF ~Known(d, a) THEN {}
    ELSE {[tx |-> d.txs[t].tx, sender |-> Decode(d, d.txs[t].sender),
           receiver |-> Decode(d, d.txs[t].receiver),
           order |-> GetTimestamp(d.index, t)] :
             t \in TxsWith(d, {AddressId(d, a)})}

=============================================================================
