# A TLA+ model of the MelloWallet indexers

The repository holds two blockchain indexing servers for a wallet. The BTC
server (`BTC/`) is C++ libraries under a C# service: it follows a bitcoin node,
keeps the chain in memory and in sqlite, and answers balance, history and fee
queries. The ETH server (`ETH/`) is C# with two small C++ libraries: it follows
an Ethereum or Rsk node and answers the history of addresses and of tokens.

What both have to get right is the same: a node changes its mind about the
chain at any moment, and the process can die at any statement; between two calls
the memory, the tables and what a query answers must still describe one and the
same chain. This directory models that, checks it with TLC and proves parts of
it with TLAPS.

Line numbers below are of the files under `src/`; `PROJECT.json` maps every
definition to the lines it translates.

## Inventory

### BTC

**`libbtcparser` Blockchain** (`BTC/libbtcparser/Blockchain.cpp`). State: the
vector `blockchain`, its inverse `block_map`, and, in sqlite, `blocks` and
`blockchain_head`. Operations: construction (build the block graph, select a
head, walk down to the root), `try_add_new_block` (which block is required, or
which blocks must be reverted), `add_new_block`, `revert_block`, `update_db`.
Called by Indexer under its mutex. Hard: the head is saved by a delete and an
insert that commit separately; the table may have several heads and several rows
per hash; the list of blocks to revert is computed once and consumed later.
Correct if: the map inverts the vector; the vector is the history of its last
block; a restart finds the served chain; the internal-error exceptions are
unreachable.

**`libbtcparser` insertion** (`InsertState.cpp`, `Block.cpp`, `Transaction.cpp`,
`TxInput.cpp`, `TxOutput.cpp`, `scripts.cpp`). State: `next_transaction_id` and
the tables `txs`, `inputs`, `outputs`, `addresses_outputs`, `addresses_txs`.
Operations: parse a block, insert it with everything in it. Hard: ids are
computed from what is in the tables, and `next_transaction_id` only at start;
an input finds the output it spends by hash and number. Correct if every output
is found, no id clashes, and `spent_by` and `inputs` agree.

**`libbtcindex` Indexer** (`BTC/libbtcindex/Indexer.cpp`, `TimestampIndex.cpp`).
State: the timestamp index, the cached fees, `block_fees`, the mutex.
Operations: `push_new_block` (parse, lock, plan, revert inside a transaction,
insert, commit, extend the chain, update the timestamps, drop cached fees) and
the readers `get_history`, `get_utxo`, `get_tx`, `get_fees`, `get_balance`,
`get_blockchain_height`. Hard: the statement order of a push, exceptions in the
middle of it, caches over tables that a reorganization rewrites. Correct if the
readers answer what the blocks of the served chain say.

**NktBtcIndex update thread** (`BtcIndex.cs`, `BtcRpc.cs`). State: the thread's
`latestBlock` and node height, and the recursion of `UpdateToHash`. Operations:
`DoInitialUpdate`, `UpdateThreadFunction`, `UpdateToHash`, `Dispose`. Interacts
with the node by RPC and with Indexer by `index_push_new_block`. Hard: the node
reorganizes between any two calls; a height cached in a local; no answer of the
second push is looked at; five retries, then the process exits; a request for
fees on an empty chain never returns the mutex. Correct if it only ever pushes
what Indexer can take and ends up at the node's height, at its tip where blocks
weigh the same.

**NktBtcIndex REST service** (`Program.cs`, `BtcIndex.cs`). HTTP requests
calling the readers on pool threads; stops by disposing the index.

**blockchain_parser** (`BTC/blockchain_parser`). Fills an empty database from
bitcoind's block files and is run again after Ctrl+C. State: the queue of files,
the flag a failed thread clears, the position of the second pass, the flag the
signal handler clears. Operations: the first pass (one row per block, several
threads, one transaction), the choice of a head, the second pass (each block of
the chain again, with its transactions, 100 blocks per transaction), the resume.
Hard: threads fail independently and the rest is committed; the resume goes by
row ids that exist twice per block. Correct if, however often it was
interrupted, every block of the chain is in the tables once, and the index can
open them.

**sqlitepp**: statements, and `Transaction`, which commits on a normal exit of
its scope and does nothing on an exceptional one.

Not the program's own logic: `BitcoinLib` and `RpcTest` (RPC client),
`libhash`, `bech32`, `xxHash`, `sparsepp`, json and sqlite (third party),
`change_structure`, `LibraryTest`, `*.js` (one-off and test clients).

### ETH

**EthIndex** (`EthIndex.cs`, `AbstractBlockchain.cs`, `CppBlockchain.cs`). State:
the position of the update thread, its queue of fetched blocks, the token calls
it accumulates, the lock. Operations: the initial update up to 100 blocks below
the node, in batches that a task commits; the initial token update; then block
by block, `UpdateToBlock` and `PushNewBlock`, which is repeated when the node
has no receipt yet; requests. Hard: the node reorganizes at any time, to a higher
chain or not; heights are compared, hashes never; a batch may be cut short; what
a repeated push undoes and what not. Correct if the answers are those of the
chain, and the chain ends up as high as the node's.

**Database** (`EthereumClasses/Database.cs`). State: tables `blocks`, `txs`,
`token_txs`, `bigints`, `tokens`, and `_nextTxId`. Operations: insertion and
deletion of blocks, `CleanUpDatabase` when the addresses read at start are not
numbered without gaps, history. Hard: the tables are transactional, the objects
beside them are not.

**bigint_cache** (`BigintCache.h`, `Blockchain.cpp`, `TimestampIndex.cpp` and
their C# sides). The map from addresses to the ids the tables use; the chain in
memory; the spans of transaction ids, searched by bisection for the block of a
transaction.

**Tokens** (`Erc20CallParser.cs`, `EthIndex.cs`, `Database.cs`): which calls are
transfers, and from which block the token's transactions are read at a start.

**REST service, RPC**: transport.

## Plan

The modules, in the order they were built:

1. `Blockchain` and its abstraction `ChainIndex`; `Blockchain_proofs`.
2. `Indexer`, the tables and caches on top of `Blockchain`.
3. `UpdateThread`, the only writer, composed with `Blockchain` and a node.
4. `BlockchainParser`, on top of `Blockchain`.
5. `EthDatabase`, the ETH tables and the memory beside them, and `EthIndex`, the
   thread that drives them, with a node.
6. The proofs, each in a module beside the one it is about.

```
ChainIndex <-refined by- Blockchain <- Indexer
                                    <- UpdateThread
                                    <- BlockchainParser
EthDatabase <- EthIndex

Blockchain_proofs <- UpdateThread_proofs
                  <- BlockchainParser_proofs
                  <- Indexer_proofs <- IndexerTables_proofs <- IndexerReaders_proofs
EthDatabase_proofs <- EthIndex_proofs
```

Left: the shutdown of the REST services against requests in flight; the script
matcher of `TxOutput`; gas prices. Proofs left: recovery and the transaction
tables on the parser's database. With the two rows per block it leaves they are
false in general (see Findings), so what is left to find is the condition
on its blocks, and on where the process may end, under which they are true.

## Modules

### Blockchain

A block is named by its hash, and `Lineage[b]` is the history that hash commits
to; `Parent(b)` is `previous_hash`. The tables are sets of rows. `rows` and
`head` are what the process's connection reads, `disk` what was committed: they
differ only while a transaction is open or was left open.

| Action | Code |
| --- | --- |
| `StartEmpty`, `StartLoad`, `StartRefused` | the constructor: no blocks; a selected head; `select_head` throws |
| `PushBegin` | parsing, the lock, `try_add_new_block` |
| `RevertBlock` | one turn of the loop of `insert_new_block`: the row, then `revert_block` in memory |
| `InsertBlock` | `Block::insert` and the commit |
| `AddNewBlock` | `add_new_block` up to the delete of `update_db` |
| `InsertHead` | the insert of `update_db`, for a push and for the constructor |
| `Fail`, `FailInsert` | a statement throws; the lock is released with the transaction open, or rolled back by sqlite |
| `Exit`, `Stop`, `Crash` | the catch block of the update thread; `Dispose`; a kill |

`Next` lets a caller push exactly the blocks satisfying `Pushable`; that the
update thread keeps to this is a checked property (`DrivesBlockchain`).

A crash is offered where committed state changes: within the transaction
(`insert`), after its commit (`add`) and between the two statements of
`update_db` (`head`). Between other statements a crash is the same as at one of
these, because memory and uncommitted statements are lost.

### ChainIndex

What a restart can rely on: the durable chain is one block, standing for its
history, and it changes only by one new block attached to a block of that
history. `DurableChain` maps it to the block `select_head` would choose from
`disk` (`TipOf`).

### Indexer

Every action conjoins one of `Blockchain` with what the same code does to the
transaction tables (`db`, `disk_db`) and the caches. Inserting and reverting a
block are functions from tables to tables. `InsertTxs` is recursive in the
number of transactions inserted so far, because a transaction may spend outputs
of the one before it; within one transaction the rows are given at once
(`InputRows`, `OutputRows`), since no input finds an output of its own
transaction and ids are handed out in order. `RevertTxs` gives what is left
after the last `k` transactions were reverted, newest first; their order does
not show in the result. So a statement that throws after `k` transactions leaves
exactly the prefix (`PushFails`, `InsertFails`). Values are small integers, a
script is the set of addresses it pays, a timestamp is the block that carries
it. The readers are operators (`GetUtxo`, `GetTxIds`, `GetTimestamp`), and the
properties compare them with a ledger computed from the blocks of the chain
alone (`LedgerUtxo`, `LedgerHistory`).

`LedgerAssumption` is what the node has validated before it serves a block: in
the history of a block no transaction comes twice, each input spends an
output of an earlier transaction that nothing has spent yet, only the coinbase
has an input without one, and no other transaction pays out more than it spends.
`LedgerTypeAssumption` adds that no transaction has size 0. The bitcoin main
chain has two exceptions to the first part, coinbases of 2010 that repeat an
earlier one; there `find_tx` answers whichever row sqlite finds first, and
nothing here speaks about them.

### UpdateThread

The thread's program counter (`thread`), its locals and its recursion (`stack`)
over `Blockchain`'s steps and a node that adopts any chain with more work
between any two of them, also in the middle of a push. `getblockhash` for a
height the node has given up is retried five times and then exits the process
(`AskFails`); so does any other RPC (`RpcFails`).

One request is an action here, because it can stop the thread: `GetFees` on an
empty chain, where the height 2^64 - 1 makes its loop endless, keeps the mutex
(`hung`). The steps that take the mutex (`StartThread`, the reading of the height
in `Check`, `Push`, `PushRefused`) are then not possible any more.

### BlockchainParser

Extends `Blockchain` with the program that runs before the index: `rows`,
`head`, `disk` and the constructor (`StartEmpty`, `StartLoad`, `SelectHead`) are
the same, since the program uses the same class. `txs` has one entry per
inserted block, naming the row its transactions belong to; `pc` says where
`main` is.

| Action | Code |
| --- | --- |
| `OpenDatabase`, `SaveHead` | the first `Blockchain` of `initialize_blockchain`, and the insert of its `update_db` |
| `BeginFirstPass` | the constructor gave an empty chain or threw, and the exception was dropped |
| `TakeFile`, `AddBlock`, `ThreadFails` | `thread_func` of each thread, `BlockAdder::on_block`, its catch block |
| `EndFirstPass` | the joins, the second `Blockchain` with `head_selector`, the commit |
| `BeginBatch`, `ParseBlock`, `EndBatch`, `Finish` | the loops of `main` |
| `NoFile`, `MissingInput` | the exceptions of the second pass: a row without a file, an input of an unknown transaction |
| `CtrlC`, `Killed` | the signal handler, any other death |

Every death puts the user in front of the program again, who runs it.

### EthDatabase and EthIndex

A value of `EthDatabase` is the `Database` object: tables `blocks`, `txs`,
`token_txs`, `bigints`, and in memory the chain, the address cache, the next
transaction id and the timestamp index. Its methods are operators from the
object before a call to the object after it (`InsertBlock`, `DeleteBlocks`,
`CleanUpDatabase`, `GetHistory`...). Every write is in one sqlite transaction
per call, so the tables between two calls are the committed ones; `Rollback` is
what a call that throws leaves (old tables, new memory), `Forget` what a dead
process leaves. A block's hash stands for its content (`Miner`, `Txs`); a
timestamp is the block that carries it. A loop that adds one row per turn is the
table after it (`EncodeAll`, `InsertTransactions`, `AddTokenTransactions`): ids
are handed out in the order of the loop. `Ascending` and `With` are definitions
of the module, and not `SetToSortSeq` and `@@`, because tlapm cannot expand the
operators of module TLC.

`EthIndex` has the thread's position (`pc`), its locals and the recursion of
`UpdateToBlock` (`stack`). The node goes to any chain of greater total
difficulty (`Weight`), which may be higher, a sibling of its head, or lower;
`goal` is the height it last gave, which may be stale. The network is chosen
once: heights count from 0 on Ethereum, from 1 on Rsk, and receipts are asked
for on Ethereum only.

| Action | Code |
| --- | --- |
| `Start`, `CleanUp`, `StartRefused` | the constructors; the catch block around `BigintCache`; an exception that ends `Main` |
| `LoadTokens` | the first use of `Tokens`, on whichever thread comes first |
| `Plan`, `Fetch`, `Commit` | the loops of `DoInitialUpdate` and its batches, with `RestartException` |
| `TokenPlan`, `TokenBlock`, `TokenBlockMissing`, `TokensDone` | `ProcessToken` and `AddAccum` |
| `Poll`, `FollowNode` | the loops of `UpdateThreadFunction` |
| `PushRequires`, `Push` | `UpdateToBlock`, the two answers of `PushNewBlock` |
| `BlockMissing` | the node has become lower than the height it gave: the next block is null, and the process ends |
| `ReceiptMissing` | `NullReceiptException`: rolled back tables, kept memory, the next retry |
| `StopInitial`, `Crash` | a stop inside the initial update, which commits; any other stop, kill or failed request |

The commit of a batch runs in a task while the thread fetches the next blocks.
Fetching touches nothing of the database, so the model takes the two one after
the other. `InsertBlocks` is a recursive function over the blocks of the batch,
since a block that does not follow reverts what the batch inserted before it.

`EthAssumption` says that the input of a transfer holds its arguments;
`ForkAssumption` that all chains of a node share the block the index starts
with: the genesis block, and on Rsk, where it starts with block 1, that one too.
A chain that forks below it could only be followed by reverting the whole index.
A node is past `InitialLag`, when the index starts and after every change of
chain: the initial update on a shorter one would insert nothing, and the token
update would ask an empty chain for its first block.

## Runs

| Run | Instance | What it shows |
| --- | --- | --- |
| `blockchain_fresh` | 11 blocks, three branches, empty database, 3 deaths | all of `Blockchain`'s properties and the refinement of `ChainIndex` |
| `blockchain_parsed_crash` | the same blocks on the parser's database | a restart between calls gives back the chain, as long as the stale block keeps a second head in the table (`NoLogicError` is proved for any database) |
| `indexer_fresh` | 6 blocks, 11 transactions, 2 deaths | tables and caches answer what the chain says |
| `indexer_parsed` | the same on the parser's database, deaths inside the transaction and inside `update_db` | UTXO and history still match |
| `update_equal_work` | 8 blocks of one difficulty, empty database | the thread keeps its contract, and ends at the node's tip or waits for ever for a `get_fees` that came before the first block |
| `update_unequal_work` | a lower branch with more work, parser's database | the thread reaches at least the node's height |
| `indexer_failed_push` | as `indexer_fresh` | violation, finding 1 |
| `indexer_parsed_crash` | as `indexer_parsed`, deaths at every point | violation, finding 2 |
| `parser_resume` | 5 blocks with a stale one, one or two files, 2 threads, batches of 2; one Ctrl+C, one failed thread, one kill | each block once and in order, a database the index opens, and completion |
| `parser_rerun` | the same with Ctrl+C only | violation, finding 4 |
| `eth_index` | 9 blocks in three branches, 10 transactions, both networks; 2 null receipts, 2 deaths | one chain in the tables, never empty where the thread reads its ends, memory and answers that agree with it, progress |
| `eth_history` | the same on Ethereum | violation, finding 3 |

The bounds. `MaxCrashes` limits deaths, failed statements included: two suffice
for a crash during the recovery from a crash, and `blockchain_fresh` has three.
The trees fork at two heights and have branches of two and three blocks, so
that reorganizations revert one, two and three blocks, replace the saved head by
a lower block, and return to a branch left before. The transactions of
`MCIndexer` include a spend inside a block, a transaction present in both
branches, one output spent differently in the two, one output with two
addresses and one with none. `FeeWindow` is 1 for the code's 50, so that the
window both covers and misses blocks. `MaxTxId` stops pushes once ids are far
past the longest chain's.

`MCBlockchainParser` puts the blocks out of order over two files, with a branch
whose head has to be chosen. A chain of four blocks and batches of two give a
stop or a kill before, inside and after a batch. Properties with `passes <= 1`
leave out the case in which the kill between the two statements of `update_db`
makes the next run repeat the first pass; those with `~skipped` the case in
which a thread failed.

`MCEthIndex` forks with branches of two and three blocks, below the point
to which the initial update goes (`InitialLag` is 1 for 100, `BatchTxs` 2 for
50000), so that a batch, a push and a token update can each meet the
reorganization. One of its blocks brings the addresses whose rows a null
receipt rolls back, and later blocks bring others. `FlushCalls` is 2 for 4096
and `MaxRetries` 1 for 5. By `MCWeight` the node can go to a sibling (`b3` to
`a3`), one block down (`b4` to `a3`), two blocks down (`a4` to `c2`), and leave a
branch for another twice (`b3`, `a4`, `b5`). Two blocks down is what `InitialLag`
1 needs for `BlockMissing` in the initial update.

The parser's database (`ParserRows`, `ParserTables`) has a first row per block
found in the block files, a stale block included, and a second row per block of
the chain, as the two passes of `blockchain_parser` write them. `LinearRows` and
`LinearTables` are the same without a stale block. Some properties
of `blockchain_fresh` do not hold there and are not listed for it: a stale row
is an orphan from the start, and several heads are what finding 2 is about.
What passes on `ParserRows` passes because the stale block, on a branch of its
own, keeps a second head in the table; the end of Findings says what happens
without it.

Deadlock is checked in every run: a process that may not start any more repeats
`StartRefused`, an ETH thread with nothing to do polls (`Poll`), and the others can
always be pushed to, stopped or run again.

## Fairness

`UpdateThread`: the thread is a loop that waits for its own calls, which return
or throw, and for the mutex, which every other call gives back, so one of its
steps must come as long as one is possible: `WF(ThreadStep)`. The one call that
keeps the mutex is `get_fees` on an empty chain; after it (`hung`) the steps that
take the mutex are not possible, and the fairness asks nothing of them. So
`FollowsNode` has two outcomes, the node's tip, or an index that is still empty
behind such a call. Requests are not fair. `HeightCatchesUp` is about a first
database with blocks, where no call can hang. A statement that threw
reaches the thread's catch block, which exits: `WF(Exit)`. Adopting a block,
restarting the process, failing RPCs and crashes are not fair. The properties
assume that the process eventually stays up; a node must run out of blocks to
adopt, which the finite tree gives.

`BlockchainParser`: `WF(Step)`. The threads and the main loop wait for nothing,
and the user runs the program again after it ended, which is what README.txt
tells him to do. `Completes` therefore says that repeating the program is
enough. Stops, kills and failures are not fair and are bounded.

`EthIndex`: the process is started again (`WF(Start)`), the main thread reads
the tokens (`WF(LoadTokens)`), and the thread goes on (`ThreadRuns`, which is
`WF(ThreadStep)` with what enables it written out so that TLC evaluates it
faster: the thread waits only if the process is down, if the tokens are not
read, or if it has the node's height and read it last). The node need not change
its chain. `CatchesUp` is stated for Rsk, where no receipt can be missing and
heights and row ids agree. On Ethereum the process may fail at every start, in
`TokenBlockMissing`.

`CatchesUp` is about heights, as `HeightCatchesUp` is for BTC: `EthIndex.cs:449`
compares nothing else. A node that chose a sibling of its head, or a lower chain
of greater difficulty, leaves the index on the block it gave up until it is
higher than the index; in `eth_index` the index can stay there for good, two
blocks above the node. What is lower costs more when it comes between the poll
and the fetch: the block asked for does not exist, and the process has to be
started again (`BlockMissing`).

## Proofs

Eight modules prove theorems with TLAPS, for every value of the constants that
satisfies the named assumptions of the modules: every set of blocks, tree,
ledger, number of crashes, threads and files. The bounds of the runs
(`MaxCrashes`, `MaxTxId`, ...) are parameters of the theorems as well.

`Blockchain_proofs`:

| Theorem | From | States |
| --- | --- | --- |
| `TypeCorrect` | any database | `[]TypeOK` |
| `MapInverts` | any database | `[]MapIsInverse` |
| `NoInternalError` | any database | `[]NoLogicError` |
| `OneLineage` | `InitRows = {}` | `[]ServesOneLineage` |
| `RestartRestores` | `InitRows = {}` | `[]RestartRestoresChain` |
| `NoOrphans` | `InitRows = {}` | `[]NoOrphanRows` |
| `AlwaysStarts` | `InitRows = {}` | `[]StartupNeverRefused` |
| `ImplementsChainIndex` | `InitRows = {}` | `DurableChain`, the refinement |

`LineageAssumption` says that a hash commits to its history: the prefix of a
lineage ending at a block is that block's lineage. `InitAssumption` says that
the first database is finite, its ids are unique and its saved heads have rows.

*Part 1, any database.* None of the three is inductive. `IInv` adds:

- the tables are finite, so a largest id exists for `FreshId`, and `RowOf` has
  something to choose (`LargestNatural`, proved from the well-foundedness of the
  subset ordering);
- while the transaction is open (`Pushing`), the blocks left to revert are the
  blocks of the vector above the new block's parent, in order. This is what
  makes the last of them the head each time `revert_block` is called
  (`RevertIsOfTheHead`);
- when they are exhausted, the parent is the head, so that `add_new_block` is
  an append and an extension of the map (`AddIsAppend`);
- the vector is not empty when the head is about to be saved.

`Inverts(map, chain)` is `MapIsInverse` over any map and chain; it implies that
no hash is at two places. The constructor's chain has this because a lineage
does (`LineageFacts`, `AssembleFacts`). There is one lemma per action and
`NextIInv` collects them.

*Part 2, an empty database.* `FreshInv` adds to `IInv` that the committed rows
are the rows of one `Linear` chain (different ids, each block at its own height
on its own history), and how memory, `rows` and `disk` relate at each value of
`pc`. The heart is `Loading`: a table holding one linear chain has exactly one
head, and the constructor assembles exactly that chain from it, whatever the
saved head is. `LinearPop` and `LinearPush` say that a revert and an insertion
keep a chain linear. The hypothesis is needed: finding 2 is a database with
several heads on which a crash between the commit and the saved head loses the
block.

*Part 3.* `DiskInv` adds that inside the transaction the chain in memory is a
lower part of the committed one, which does not hold the new block; so the
commit of `InsertBlock` is a step `Accept` of `ChainIndex` (`CommitAccepts`) and
every other step leaves the durable tip alone (`DurableNext`).

`UpdateThread_proofs`, all from `InitRows = {}`:

| Theorem | States |
| --- | --- |
| `ThreadTypeCorrect` | `[]UpdateTypeOK` |
| `ThreadDrivesBlockchain` | `DrivesBlockchain`: every step is one of `Blockchain` |
| `ThreadKeepsIndexRight` | so the theorems above hold of the index the thread drives |
| `SecondPushAttaches` | `[]SecondPushAccepted` |
| `CachedHeightCurrent` | `[]CachedHeightIsCurrent` |
| `InitialUpdateShallow` | `[]InitialUpdateIsShallow` |

`UpdateInv` adds to `FreshInv` what the thread knows of the index: its push is
the block of the innermost frame (`Waiting`); the height it cached is the
index's whenever a loop compares it (`Heights`); the stack walks down the
history of the block of the outermost frame, no frame's block is served, and at
the second turn of a frame the parent it fetched is the head (`Frames`). The
node may do anything between two steps: nothing in the invariant is about it.
`GenesisAssumption`, that all blocks have one genesis block, is needed where the
recursion reaches it: a genesis block that is not the served one would have to
revert the whole chain.

`BlockchainParser_proofs`, from the empty database the program creates:

| Theorem | States |
| --- | --- |
| `ParserTypeCorrect` | `[]ParserTypeOK` |
| `BlocksOnce` | `[]EachBlockOnce` |
| `Resumes` | `[]ResumesInPlace` |
| `FinishedServes` | `[]FinishedIsServable` |

`ParserInv` names, once a first pass was committed, its last row, the chosen tip
and the height from which the chain is complete: the rows up to the last one are
those of the first pass, the rows above it are those of the second, one for each
entry of `txs`, which are a prefix of the chain in order (`TablesOf`); the
committed tables say the same with a shorter prefix. Of a block's two rows the
constructor therefore takes the one with transactions exactly for the blocks
that are inserted, which is what makes the resume by row id right
(`ChainOf`). `FilesAssumption` says that the block files of a node hold, with a
block, all blocks it builds on; without it no chain of the table reaches the
genesis block.

`Indexer_proofs`, from any database:

| Theorem | States |
| --- | --- |
| `IndexerIsBlockchain` | `IndexSpec => Spec` |
| `IndexerKeepsChainRight` | so the theorems of `Blockchain_proofs` hold of the index |
| `FeeCacheFresh` | `[]FeeCacheIsFresh` |

`IndexerTables_proofs` and `IndexerReaders_proofs`, from `InitRows = {}` and
`InitTables = NoTables`:

| Theorem | States |
| --- | --- |
| `UtxosRight` | `[]UtxosMatchChain` |
| `HistoryRight` | `[]HistoryMatchesChain` |
| `SpentByRight` | `[]SpentByMatchesInputs` |
| `TimestampsRight` | `[]TimestampsMatchChain` |
| `InsertsNeverFail` | `[]InsertsSucceed` |
| `OutputsHaveTxs` | `[]UtxoTxExists` |
| `FeesRight` | `[]FeesMatchChain` |
| `IndexTypesRight` | `[]IndexTypeOK` |

The argument has three parts. *Tables.* `Consistent(d)` is what makes tables
right for whatever transactions they hold: ids and hashes are keys; outputs and
inputs are those of the transactions, each once; each input names the output it
spends; an output is marked by the one input that names it; the relations with
addresses are those of the scripts. `InsertTxConsistent` keeps it for a
transaction that spends what is there and free (`Spendable`), `RevertConsistent`
for transactions nothing left in the tables spends. Neither holds without the
other parts: unspending restores `Marked` only because one input names an
output, and an id that sqlite hands out again is harmless only because every
relation of its former owner is gone (`FreshAbove`).

*Chain.* `Held(d, rs)` says that the transactions are those of the blocks in
`rs`, each block at its span of ids. `LedgerAssumption` gives that a block of
the node is `Spendable` on the tables of its parent (`HeldIsEarlier`,
`LedgerSpendable`) and that nothing below the head spends what the head made
(`SpendsBelow`); so a revert and an insertion take `Held` from one chain to the
next (`RevertHeld`, `InsertHeld`). `CountingUp` replaces induction over the
transactions of a block: a set of numbers that has 0 and with each its successor
has all of them.

*Index.* `TablesInv` is the inductive invariant: `Held(db, rows)` while a push
may go on, `Held(disk_db, disk.rows)` always, the next id above every id in use,
the timestamp index behind by exactly the row of the push in progress (`Timed`),
and, when a statement has thrown, only that every output still has its
transaction (`Owned`). It was checked with TLC on the instance of
`indexer_fresh` before it was proved. The hypotheses on the first database are
needed: on the parser's tables with a stale block, finding 2 loses the match,
and the spans of the first pass answer wrong timestamps.

*Fees.* `FeesInv` adds to `TablesInv` that every row has the fee of its block in
`block_fees` (`FeesHeld`), in the committed tables and in those of the push; it
says nothing of ids without a row, since a revert leaves their fees, and so it
needs that the insertion overwrites what it finds (`SetFeeFields`). The fee is
computed from the tables by two sums over joins (`OutputsTotal`, `InputsTotal`),
and `FeesMatchChain` by sums over the ledger. `Placed` says where the rows of one
block are; the sum over its output rows is split by transaction (`SumByPart`),
and in each part the rows are renamed to output numbers (`SumRename`), which is
`OutputsTotalIs`. `InputsTotalIs` does the same with pairs of an input and the
output it names, of which there is exactly one for each input number
(`InputFacts`, from `InputsKeyed` and `Marked`). With `LedgerAssumption` no
transaction but the coinbase has a negative share, so that the fees are natural
numbers and the unsigned subtraction of the code does not wrap (`AverageFeeIs`).
That is also all that `IndexTypesRight` needs beyond `TablesInv`: `TypesInv` is
`FeesInv` and `IndexTypeOK`.

The sums are the folds of the library, whose recursion is over finite sets. The
last part of `Indexer_proofs` proves what is needed of them: the equation of the
recursion (`SumEquation`), that any term can be taken out first (`SumTake`),
renaming, splitting, differences. `SubsetInduction` takes a set of subsets where
an induction rule would take a predicate: if every subset of `S` whose proper
subsets are all good is good, then `S` is; it follows from the strict inclusion
of subsets being well-founded.

`EthDatabase_proofs` has the lemmas about the methods of `Database`,
`EthIndex_proofs` the theorems:

| Theorem | States |
| --- | --- |
| `EthInvariant` | `[]EthInv`, the invariant below |
| `OneChainKept` | `[]TablesHoldOneChain` |
| `ChainNeverEmpty` | `[]ChainIsNotEmpty` |
| `MemoryAgrees` | `[]MemoryMatchesTables` |
| `SecondPushFindsParent` | `ParentArrives` |
| `EthTypeCorrect` | `[]EthTypeOK` |
| `EthHistoryRight` | `[]EthHistoryMatchesChain` |
| `TokenHistoryRight` | `[]TokenHistoryMatchesChain` |

Here nothing is refined: the tables between two calls are the committed ones,
and what has to be carried from one call to the next is a condition on the
object. `Holds(d, f)` says of an open one that its rows are one chain starting
at height `f` (`OneChain`) and that the chain in memory is those rows;
`Stored(d, f)` is what is left of it in the tables when the process is gone.
Both are needed, since `CleanUpDatabase` works on tables nobody holds in memory.
`PushEndsWith` is the heart: a push whose parent is held deletes from the row
above the parent (`DeleteBlocksTruncates`) and appends (`InsertBlockExtends`),
so the result is one chain that ends with the pushed block, on the id that the
deleted rows freed. `LoadChainFinds` gives `Start`: one chain of rows has one
head, and the walk down from it is that chain.

`EthInv` adds what the thread knows. `TablesHoldOneChain` alone is not
inductive: a block pushed on an empty chain is accepted whatever its height. So
`BatchStarts` says that the first block of a batch is the first of the index as
long as nothing is in the tables, and `ChainIsNotEmpty` that nothing else starts
on an empty chain; the latter needs that the node stays past the lag,
`Number(node) > InitialLag`, so that an initial update that finds nothing to do
finds an index that is not empty. `StackDescends` says that each running
`UpdateToBlock` is for the parent of the one before it and above the first block
of the index, where `ForkAssumption` puts every fork; so the block that ends the
recursion is the parent the second push asks for. `InsertBlocksSound` does the
induction over the blocks of a batch with `SegmentInduction`, on the set of
places up to which the recursive function is right.

`MemoryFits` is the part of it for `MemoryMatchesTables`. `Fits(d, S)` says that
the rows of `blocks` have consecutive ranges of transaction ids, that the rows
of `txs` fill them in the order of the blocks, that `next_tx_id` is the id after
the last range, and that the timestamp index is sorted by the ends of its spans
and holds the spans of the blocks with transactions, perhaps twice
(`ReloadIndex`), and beyond them only those of `S`. `S` is what makes it
inductive: a push that is rolled back leaves the span of its block in the index,
with ids that are not in the tables. The span is harmless only because the next
push is of the same block with the same next id, and has nothing to revert
either (`Left`): otherwise the retry throws, or the memory dies with the
process. With `S = {}` throughout, TLC finds the invariant violated.
`TimestampFound` shows that the bisection then answers the block and the place
of every transaction: `FindsFirst` is its correctness, by `SegmentInduction` on
the length of the range; `PushFits`, `DeleteBlocksFits`, `RollbackFits`,
`OpenFits` and `CleanUpTabled` are the methods' shares. `EthInv` was checked
with TLC on the instance of `eth_index` before it was proved.

`EthTyped` is inductive on top of `EthInv`, and is what the three remaining
theorems need. `IdsOK`, its heart, is about the ids of addresses: as long as no
push was rolled back, the cache and the rows of `bigints` give the same,
distinct ids from 0 on (`Codes`), and sender and receiver of every row of `txs`
name, through the cache, the addresses of its transaction (`Names`); of a dead
process the rows of `bigints` are those of such a cache (`CodedTables`), which
is why `Start` then never needs `CleanUp` (`CodedConsistent`) and gives every
address its old id (`OpenAddressed`). `Keeps(d, e)` says that a call only adds
ids and rows with right ids; it is transitive, holds of every method that
commits (`PushKeeps`, `InsertBlocksKeeps`, `AddAccumKeeps`), and is false of
`Rollback`: that is finding 3, and the reason for `nulls = 0` in
`EthHistoryMatchesChain`. With the ids right, `RowsAreChain` (the rows of `txs` are
the transactions of the chain, from `Fits`) and `TimestampFound` give the
answer of `GetHistory` (`HistoryTold`). `ListsOK` says that what the token
update has still to read are rows, and that what it found are transfers, so that
`ParseInput` finds its arguments. `SmallOK`, `IdsOK` and `ListsOK` were checked
with TLC on the instance of `eth_index` as well.

`TokensOK` is inductive on top of both. The initial update inserts blocks and
records none of their transfers, the token update catches up with them in chunks
of `FlushCalls`, and either may be stopped, so no state but the last has the
transfers of the chain recorded. What every state of an Rsk index has is
`Downward`: if a transfer is recorded, so are all those of lower blocks. This is
what `ProcessToken` relies on when it resumes after the highest block with a
recorded transfer (`TokenPlanTokens`). During the token update `Pending` accounts
for the rest: a transfer is recorded, or held in `accum`, or of a block in `work`,
whose ids ascend and lie above those of `accum`; hence writing `accum` out at any
block keeps `Downward` (`RecordsPending`), and with `work` empty `Complete` holds:
what is recorded are the transfers of the rows. A push keeps `Complete`, as the
ids of the transactions it records are new (`GrownComplete`) and the id ranges
by which `DeleteBlocks` deletes from `token_txs` are those of the deleted blocks
(`RangesAbove`). That the receivers' ids in `txs` find all transfers of the token
(`RskFacts`) is `IdsOK` again. On Ethereum a height is not a row id and
`Downward` fails, which is why the property is about Rsk. `TokensOK` was checked
with TLC on the instance of `eth_index` before it was proved.

Only model-checked:

- every liveness property: the prover has no rules for fairness;
- `UtxosMatchChain`, `HistoryMatchesChain` and `RestartRestoresChain` on the
  parser's database with a stale block, the first two without the crash of
  finding 2. Without a stale block they are false (see the end of Findings), so
  no theorem can have them for any `InitRows`.

## Findings

1. `indexer_failed_push` (`sqlitepp.h:89`). When a statement throws inside
   `insert_new_block`, `~Transaction` neither commits nor rolls back, and the
   mutex is released. Until the update thread exits the process, a reader sees
   the half-done transaction: the rows of a block that is not served, which
   `TxFetcher::get_tx` calls "Internal error (implementation bug?)"
   (`Indexer.cpp:498`). The database recovers at the next start.
2. `indexer_parsed_crash` (`Indexer.cpp:359`). The block is committed before
   the new head is saved. In a database the index built itself this is harmless:
   the table has one head, that of the committed chain, and `select_head` finds
   it by itself (`RestartRestores` and `ImplementsChainIndex` prove it). If the
   block files held a stale block, there are several heads, and a crash in
   between restarts from the old head: the committed block is an orphan that is
   inserted again, and the same internal error is reported between calls.
3. `eth_history` (`EthIndex.cs:419`). When the node has no receipt yet,
   `PushNewBlock` rolls its transaction back and repeats. The rows of the
   addresses it met for the first time are rolled back too, but the cache keeps
   their ids, and `Encode` writes a row only for an address new to the cache
   (`BigintCache.cs:139`). Nothing shows until the process restarts: then the
   addresses have no id, and `GetHistory` misses transactions of the chain. If
   addresses with higher ids were written since, the numbering has a gap, which
   the constructor answers with `CleanUpDatabase`, or by not starting at all
   (`StartRefused`). `EthHistoryMatchesChain` shows that without a repeated push
   the answers are right.
4. `parser_rerun` (`main.cpp:169`). README.txt promises that a run after Ctrl+C
   resumes where the last one stopped. If that was the end, no block follows the
   last one, `find_next_processing_block` answers 0 as for an empty table, and
   the run ends with an error at the first row, which names no file.
   `EachBlockOnce` shows that nothing is inserted twice.

One more state is shown by a configuration that is not among the runs,
`indexer_parsed_restart.cfg` of `MCIndexer`: TLC finds `UtxosMatchChain` violated
there, with no death inside a call. The parser leaves two rows per block, and a
revert deletes only the second. After the node left the parsed chain and came
back, its blocks get a second row again one push at a time. Until the last of
them is back, the first-pass row of the highest can be the only row without a
child, and `select_head` takes a single head without a look at the saved one
(`Blockchain.cpp:59`). A process that ends between two of these pushes, as a
failing RPC call inside `UpdateToHash` makes it, comes back serving that block,
whose transactions are not in the tables; the thread goes on with the block above
it, and they are never inserted. A stale block in the block files hides this, as
it keeps a second head in the table. `RestartRestoresChain` and
`UtxosMatchChain` say what is lost; on the empty database they are proved.

## Not modelled

Parsing of the wire format, hashing, the script matcher, base58 and bech32,
JSON, HTTP and RPC transport; `cached_balances`, which is only ever updated and
never filled; sqlite's own durability; memory limits. Readers hold the mutex, or
run on the connection of the writer, so they see the state between two of the
model's steps in which the mutex is free (`Readable`).

On the ETH side: gas prices and the stores of inputs and logs; the decoding of
call data (`fn` and `args` are its outcome); the split of the address cache into
a sorted vector and a hash map; two threads inside `Encode` at once, and
requests during the initial update, which takes no lock; `GetHistory` of a token
and the trimming of answers. A block of the initial update that cannot be
fetched ends the process, as the `break` behind the catch block makes it do.
