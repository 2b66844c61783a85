------------------------------ MODULE EthIndex ------------------------------
(***************************************************************************)
(* The ETH indexer: the update thread of EthIndex over its Database, a     *)
(* node that changes to heavier chains, higher or not, receipts the node   *)
(* does not have yet, and a process that dies and starts again.            *)
(*                                                                         *)
(* The thread first inserts blocks in batches up to InitialLag below the   *)
(* node's height, then reads the token transactions of what is indexed,    *)
(* then follows the node block by block under the lock that requests take. *)
(***************************************************************************)
EXTENDS EthDatabase

CONSTANTS
    Weight,      \* the total difficulty of a block's chain, which nodes compare
    Networks,    \* the values of Configuration.Network to consider
    InitialLag,  \* how far below the node the initial update stops: 100
    BatchTxs,    \* queued transactions that make a batch: 50000
    FlushCalls,  \* token transactions AddAccum waits for: 4096
    MaxRetries,  \* PushNewBlock gives up after so many null receipts: 5
    MaxNulls,    \* bound of the model: null receipts
    MaxCrashes   \* bound of the model: kills, clean stops and failed requests

ASSUME EthIndexAssumption ==
    /\ Weight \in [Hashes -> Nat]
    /\ Networks \subseteq {"Ethereum", "Rsk"}
    /\ {InitialLag, BatchTxs, FlushCalls, MaxRetries, MaxNulls, MaxCrashes} \subseteq Nat

\* The node stays on one network: its chains fork above the genesis block and,
\* where the index starts with block 1, above that block.
ASSUME ForkAssumption ==
    \A g, h \in Hashes : \A i \in 1..(IF "Rsk" \in Networks THEN 2 ELSE 1) :
        i <= Len(Lineage[g]) /\ i <= Len(Lineage[h]) => Lineage[g][i] = Lineage[h][i]

VARIABLES
    network,  \* Configuration.Network; Ropsten is as Ethereum
    node,     \* the head of the node's chain
    db,       \* the Database object: committed tables, and memory
    tokens,   \* _db.Tokens has been read
    pc,       \* where the update thread is
    latest,   \* blockNo - 1, later latestIndexedBlock
    goal,     \* the initial update's lastestPublicBlock, later latestPublicBlock
    queued,   \* queuedData
    work,     \* ProcessToken's blockIds, those still to be read
    accum,    \* DoInitialTokenUpdate's accum
    stack,    \* the blocks of the running UpdateToBlock calls
    retries,  \* of the running PushNewBlock
    nulls, crashes

locals == <<latest, goal, queued, work, accum, stack, retries>>
world == <<network, node, nulls, crashes>>
vars == <<world, db, tokens, pc, locals>>

\* FirstBlockHeight, and the offset of NetworkIsEthereum.
FirstBlockHeight == IF network = "Rsk" THEN 1 ELSE 0

\* A mutation of Height: the number of blocks.
HeightFromOne(d) == Len(d.chain) + FirstBlockHeight

\* AbstractBlockchain.Height: the number of the last block indexed.
Height(d) == Len(d.chain) - 1 + FirstBlockHeight

\* The block the node returns for a number up to its height.
BlockByNumber(n) == Lineage[node][n + 1]

Init ==
    /\ network \in Networks
    /\ node \in {h \in Hashes : Number(h) = InitialLag + 1}
    /\ db = EmptyDatabase
    /\ tokens = FALSE
    /\ pc = "down"
    /\ latest = 0 /\ goal = 0 /\ retries = 0
    /\ queued = <<>> /\ work = <<>> /\ accum = <<>> /\ stack = <<>>
    /\ nulls = 0 /\ crashes = 0

(***************************************************************************)
(* Startup and death of the process.                                       *)
(***************************************************************************)

\* The constructors of EthIndex and Database.
Start ==
    /\ pc = "down"
    /\ ConsistentlyEncoded(db)
    /\ Loadable(db)
    /\ db' = Open(db)
    /\ pc' = "plan"
    /\ UNCHANGED <<world, tokens, locals>>

\* Database() catches InconsistentAddressEncodingException and tries again.
CleanUp ==
    /\ pc = "down"
    /\ ~ConsistentlyEncoded(db)
    /\ \E block \in CleanUpFrom(db) : db' = CleanUpDatabase(db, block)
    /\ UNCHANGED <<world, tokens, pc, locals>>

\* CleanUpDatabase throws or finds no block, and Main ends; or the
\* constructor of CppBlockchain throws.
StartRefused ==
    /\ pc = "down"
    /\ IF ConsistentlyEncoded(db) THEN ~Loadable(db) ELSE CleanUpFrom(db) = {}
    /\ UNCHANGED vars

\* RestService() reads the tokens on the main thread, or the update thread does
\* when it needs them; a new token's address is encoded outside any transaction.
LoadTokens ==
    /\ pc # "down"
    /\ ~tokens
    /\ tokens' = TRUE
    /\ db' = Encode(db, Token)
    /\ UNCHANGED <<world, pc, locals>>

\* The process is gone; d holds the tables it committed.
Die(d) ==
    /\ db' = Forget(d)
    /\ tokens' = FALSE
    /\ pc' = "down"
    /\ latest' = 0 /\ goal' = 0 /\ retries' = 0
    /\ queued' = <<>> /\ work' = <<>> /\ accum' = <<>> /\ stack' = <<>>

\* A kill, a stop outside the initial update, or a request to the node that
\* fails: nothing catches that exception in the thread.
Crash ==
    /\ pc # "down"
    /\ crashes < MaxCrashes
    /\ crashes' = crashes + 1
    /\ Die(db)
    /\ UNCHANGED <<network, node, nulls>>

(***************************************************************************)
(* DoInitialUpdate.                                                        *)
(***************************************************************************)

\* A mutation of InsertBlocks: a block is inserted whatever its parent.
InsertAnyBlocks(d, hs) ==
    [db |-> FoldLeft(LAMBDA e, h : InsertBlock(e, h, {}), d, hs),
     restart |-> FALSE]

\* One turn of InsertBlocks; an exception makes the loop skip what is left.
InsertNext(r, h) ==
    IF r.restart \/ BlockRequired(r.db, h) THEN [r EXCEPT !.restart = TRUE]
    ELSE [r EXCEPT !.db = InsertBlock(DeleteBlocks(@, BlocksToRevert(@, h)), h, {})]

\* InsertBlocks up to its end, its commit or its RestartException.
InsertBlocks(d, hs) ==
    LET done[i \in 0..Len(hs)] ==
            IF i = 0 THEN [db |-> d, restart |-> FALSE]
            ELSE InsertNext(done[i - 1], hs[i])
    IN  done[Len(hs)]

\* Top of the while loop.
Plan ==
    /\ pc = "plan"
    /\ goal' = Number(node) - InitialLag
    /\ latest' = Height(db)
    /\ pc' = IF goal' <= latest' THEN "tokens" ELSE "fetch"
    /\ UNCHANGED <<world, db, tokens, queued, work, accum, stack, retries>>

\* The batch is committed by a task while the next blocks are fetched, which
\* touches nothing the task does: the two are taken one after the other.
QueuedTxs == FoldLeft(LAMBDA n, h : n + Len(Txs[h]), 0, queued)

\* One turn of the for loop.
Fetch ==
    /\ pc = "fetch"
    /\ latest < goal
    /\ latest < Number(node)
    /\ QueuedTxs < BatchTxs
    /\ queued' = Append(queued, BlockByNumber(latest + 1))
    /\ latest' = latest + 1
    /\ UNCHANGED <<world, db, tokens, pc, goal, work, accum, stack, retries>>

\* A mutation of Commit: the initial update goes on after a RestartException.
CommitAndRetry ==
    /\ pc = "fetch"
    /\ QueuedTxs >= BatchTxs \/ latest >= goal
    /\ LET r == InsertBlocks(db, queued)
       IN  /\ db' = r.db
           /\ pc' = IF latest < goal /\ ~r.restart THEN "fetch" ELSE "plan"
    /\ queued' = <<>>
    /\ UNCHANGED <<world, tokens, latest, goal, work, accum, stack, retries>>

\* CommitData, for a full batch or after the for loop.  DoInitialUpdate
\* catches RestartException and returns.
Commit ==
    /\ pc = "fetch"
    /\ QueuedTxs >= BatchTxs \/ latest >= goal
    /\ LET r == InsertBlocks(db, queued)
       IN  /\ db' = r.db
           /\ pc' = IF r.restart THEN "tokens" ELSE IF latest < goal THEN "fetch" ELSE "plan"
    /\ queued' = <<>>
    /\ UNCHANGED <<world, tokens, latest, goal, work, accum, stack, retries>>

\* Ctrl+C ends both loops, and the queue is committed.
StopInitial ==
    /\ pc = "fetch"
    /\ crashes < MaxCrashes
    /\ crashes' = crashes + 1
    /\ Die(InsertBlocks(db, queued).db)
    /\ UNCHANGED <<network, node, nulls>>

(***************************************************************************)
(* DoInitialTokenUpdate.                                                   *)
(***************************************************************************)

\* GetLatestBlockForToken: a height from GetBlockByHash, which counts from 0
\* on every network; as a set.
LatestBlockForToken ==
    {i - 1 : i \in {j \in DOMAIN db.chain : \E k \in DOMAIN db.token_txs :
        /\ db.token_txs[k].tx \in DOMAIN db.txs
        /\ db.blocks[db.txs[db.token_txs[k].tx].block].hash = db.chain[j].hash}}

\* GetBlocksWithTransactions of the token.
TokenTxs == {t \in DOMAIN db.txs : db.txs[t].receiver = AddressId(db, Token)}
BlocksWithTransactions(min) ==
    Ascending({db.txs[t].block : t \in {u \in TokenTxs : db.txs[u].block >= min}})

\* ProcessToken up to its loop: a height and a row id are used as one.
TokenPlan ==
    /\ pc = "tokens"
    /\ tokens
    /\ LET seen == LatestBlockForToken
       IN  work' = BlocksWithTransactions(IF seen = {} THEN db.chain[1].id
                                          ELSE Max(seen) + 1)
    /\ pc' = "token"
    /\ UNCHANGED <<world, db, tokens, latest, goal, queued, accum, stack, retries>>

\* GetBlockByHeight of a row id.
BlockAtHeight(n) == {db.chain[i] : i \in {n - FirstBlockHeight + 1} \cap DOMAIN db.chain}

\* The calls ProcessToken finds in a block.
TokenCalls(block) ==
    LET found == {t \in TokenTxs : /\ db.txs[t].block = block.id
                                   /\ LET n == db.txs[t].tx
                                      IN  Counts(Txs[n[1]][n[2]], network)}
    IN  Ascending(found)

\* A mutation of AddAccum: only a full list is written.
AddFullAccum(d, calls, min) ==
    IF Len(calls) < FlushCalls THEN d
    ELSE AddTokenTransactions(d, calls, [i \in DOMAIN calls |->
             ParseInput(LET n == d.txs[calls[i]].tx IN Txs[n[1]][n[2]])])

\* AddAccum, one transaction.
AddAccum(d, calls, min) ==
    IF Len(calls) < min THEN d
    ELSE AddTokenTransactions(d, calls, [i \in DOMAIN calls |->
             ParseInput(LET n == d.txs[calls[i]].tx IN Txs[n[1]][n[2]])])

TokenBlock ==
    /\ pc = "token"
    /\ work # <<>>
    /\ work' = Tail(work)
    /\ \E block \in BlockAtHeight(Head(work)) :
          LET calls == accum \o TokenCalls(block)
          IN  /\ db' = AddAccum(db, calls, FlushCalls)
              /\ accum' = IF Len(calls) < FlushCalls THEN calls ELSE <<>>
    /\ UNCHANGED <<world, tokens, pc, latest, goal, queued, stack, retries>>

\* There is no block at that height: a null reference.
TokenBlockMissing ==
    /\ pc = "token"
    /\ work # <<>>
    /\ BlockAtHeight(Head(work)) = {}
    /\ Die(db)
    /\ UNCHANGED world

\* The last AddAccum, and the head of UpdateThreadFunction's loop.
TokensDone ==
    /\ pc = "token"
    /\ work = <<>>
    /\ db' = AddAccum(db, accum, 1)
    /\ accum' = <<>>
    /\ latest' = Height(db)
    /\ goal' = 0
    /\ pc' = "loop"
    /\ UNCHANGED <<world, tokens, queued, work, stack, retries>>

(***************************************************************************)
(* UpdateThreadFunction's loop, UpdateToBlock and PushNewBlock.            *)
(***************************************************************************)

\* GetLatestPublicBlock, once the index has the height of the last answer.
Poll ==
    /\ pc = "loop"
    /\ latest >= goal
    /\ goal' = Number(node)
    /\ UNCHANGED <<world, db, tokens, pc, latest, queued, work, accum, stack, retries>>

\* The node was above: fetch the next block, take the lock.
FollowNode ==
    /\ pc = "loop"
    /\ latest < goal
    /\ latest < Number(node)
    /\ stack' = <<BlockByNumber(latest + 1)>>
    /\ pc' = "push"
    /\ UNCHANGED <<world, db, tokens, latest, goal, queued, work, accum, retries>>

\* The node has become lower since goal was read, and has no block of the next
\* number: a null reference, here or in the for loop of DoInitialUpdate.
BlockMissing ==
    /\ pc \in {"fetch", "loop"}
    /\ latest < goal
    /\ latest >= Number(node)
    /\ pc = "fetch" => QueuedTxs < BatchTxs
    /\ Die(db)
    /\ UNCHANGED world

\* The block being pushed, and what PostprocessTransaction records of it.
Pushed == Last(stack)
Processed == {i \in DOMAIN Txs[Pushed] : Counts(Txs[Pushed][i], network)}

\* A mutation of PushRequires: the parent is taken from the node's chain.
PushRequiresByNumber ==
    /\ pc = "push"
    /\ BlockRequired(db, Pushed)
    /\ Number(Pushed) - 1 <= Number(node)
    /\ stack' = Append(stack, BlockByNumber(Number(Pushed) - 1))
    /\ UNCHANGED <<world, db, tokens, pc, latest, goal, queued, work, accum, retries>>

\* TryAddNewBlock answers BlockRequired: UpdateToBlock of that hash first.
PushRequires ==
    /\ pc = "push"
    /\ BlockRequired(db, Pushed)
    /\ stack' = Append(stack, ParentOf(Pushed))
    /\ UNCHANGED <<world, db, tokens, pc, latest, goal, queued, work, accum, retries>>

\* The transaction of PushNewBlock.  InsertBlock's check for a block the chain
\* holds comes after everything above its parent was deleted.
Push ==
    /\ pc = "push"
    /\ ~BlockRequired(db, Pushed)
    /\ db' = InsertBlock(DeleteBlocks(db, BlocksToRevert(db, Pushed)), Pushed, Processed)
    /\ stack' = Front(stack)
    /\ retries' = 0
    /\ latest' = IF stack' = <<>> THEN Height(db') ELSE latest
    /\ pc' = IF stack' = <<>> THEN "loop" ELSE "push"
    /\ UNCHANGED <<world, tokens, goal, queued, work, accum>>

\* The receipt of transaction k is null: NullReceiptException leaves the
\* transaction, which rolls the tables back; the memory stays.  Reverted
\* blocks are reverted again by the retry, which throws in RevertBlock.
ReceiptMissing(k) ==
    /\ pc = "push"
    /\ network = "Ethereum"
    /\ nulls < MaxNulls
    /\ ~BlockRequired(db, Pushed)
    /\ tokens
    /\ Txs[Pushed][k].to = Token
    /\ nulls' = nulls + 1
    /\ IF BlocksToRevert(db, Pushed) # <<>> \/ retries = MaxRetries
       THEN Die(db)
       ELSE LET d == InsertTransactions(InsertOnlyBlock(db, Pushed), Pushed, k,
                                        Processed \ {k})
            IN  /\ db' = Rollback(d, db)
                /\ retries' = retries + 1
                /\ UNCHANGED <<tokens, pc, latest, goal, queued, work, accum, stack>>
    /\ UNCHANGED <<network, node, crashes>>

(***************************************************************************)
(* The node, and the specification.                                        *)
(***************************************************************************)

\* The node adopts a chain of greater total difficulty: its head may be higher,
\* a sibling of the old one, or lower.  The chain stays past InitialLag.
NodeAdopts(h) ==
    /\ Weight[h] > Weight[node]
    /\ Number(h) > InitialLag
    /\ node' = h
    /\ UNCHANGED <<network, nulls, crashes, db, tokens, pc, locals>>

ThreadStep ==
    \/ Plan \/ Fetch \/ Commit
    \/ TokenPlan \/ TokenBlock \/ TokenBlockMissing \/ TokensDone
    \/ Poll \/ FollowNode \/ BlockMissing \/ PushRequires \/ Push

\* What the thread may wait for: the tokens, or a height it has not read yet.
ThreadWaits ==
    \/ pc = "down"
    \/ pc = "tokens" /\ ~tokens
    \/ pc = "loop" /\ latest >= goal /\ goal = Number(node)

Next ==
    \/ Start \/ CleanUp \/ StartRefused \/ LoadTokens
    \/ Crash \/ StopInitial
    \/ ThreadStep
    \/ pc = "push" /\ \E k \in DOMAIN Txs[Pushed] : ReceiptMissing(k)
    \/ \E h \in Hashes : NodeAdopts(h)

\* The thread goes on: WF_vars(ThreadStep), with what enables a step of it
\* written out, which TLC evaluates far sooner.
ThreadRuns == []<>ThreadWaits \/ []<><<ThreadStep>>_vars

Spec == Init /\ [][Next]_vars /\ WF_vars(Start) /\ WF_vars(LoadTokens) /\ ThreadRuns

(***************************************************************************)
(* Properties.                                                             *)
(***************************************************************************)

\* The variables have their types.
EthTypeOK ==
    /\ network \in Networks /\ node \in Hashes /\ tokens \in BOOLEAN
    /\ pc \in {"down", "plan", "fetch", "tokens", "token", "loop", "push"}
    /\ {latest + 1, goal, retries, nulls, crashes, db.next_tx_id} \subseteq Nat
    /\ queued \in Seq(Hashes) /\ stack \in Seq(Hashes)
    /\ work \in Seq(DOMAIN db.blocks) /\ accum \in Seq(DOMAIN db.txs)
    /\ db.chain \in Seq([hash : Hashes, id : DOMAIN db.blocks])
    /\ db.cache \in Seq(Addresses)

\* Requests see the state between two calls: not while PushNewBlock, with its
\* retries, has the lock.
Readable == pc \notin {"down", "push"}

\* The rows of `blocks` are, in the order of their ids, one chain of blocks:
\* no reorganization, stop, batch cut short by RestartException or clean-up
\* leaves a second head, of which CppBlockchain() could not choose one.
TablesHoldOneChain ==
    LET n == Cardinality(DOMAIN db.blocks)
    IN  /\ DOMAIN db.blocks = 1..n
        /\ \A i \in 1..n :
              /\ Number(db.blocks[i].hash) = i - 1 + FirstBlockHeight
              /\ i > 1 => db.blocks[i - 1].hash = ParentOf(db.blocks[i].hash)

\* DoInitialTokenUpdate asks the chain for its first block, and UpdateToBlock
\* for the parent of a block: whatever the node did during the initial update,
\* and wherever a batch of it stopped, neither meets an empty chain.
ChainIsNotEmpty == pc \in {"tokens", "token", "loop", "push"} => db.chain # <<>>

\* Between two calls the memory describes the tables: the chain is the rows,
\* the next id is free and the one a restart computes, and every transaction
\* finds its block and its place in it, also after a push that was rolled
\* back and repeated.
MemoryMatchesTables ==
    Readable =>
        /\ Len(db.chain) = Cardinality(DOMAIN db.blocks)
        /\ \A i \in DOMAIN db.chain : db.blocks[db.chain[i].id].hash = db.chain[i].hash
        /\ db.next_tx_id = GetNextTxId(db.txs)
        /\ \A t \in DOMAIN db.txs : GetTimestamp(db.index, t) = {db.txs[t].tx}

\* What the chain says of address a.
ChainHistory(a) ==
    LET names == UNION {{<<db.chain[i].hash, k>> : k \in DOMAIN Txs[db.chain[i].hash]} :
                            i \in DOMAIN db.chain}
        tx(n) == Txs[n[1]][n[2]]
    IN  {[tx |-> n, sender |-> tx(n).from, receiver |-> tx(n).to, order |-> {n}] :
            n \in {m \in names : a \in {tx(m).from, tx(m).to}}}

\* GetHistory answers, for every address, exactly the transactions of the
\* chain that it sent or received, with sender, receiver and order.
HistoryIsOfTheChain == Readable => \A a \in Addresses : GetHistory(db, a) = ChainHistory(a)

\* The same, as long as PushNewBlock never had to repeat a push: through
\* reorganizations, batches, restarts and ids that are given again.
EthHistoryMatchesChain == nulls = 0 => HistoryIsOfTheChain

\* On Rsk, once the initial token update is done, the transactions recorded
\* for the token are those of the chain's blocks: none is missing after a
\* stop between two AddAccum, none of a reverted block is left.
TokenHistoryMatchesChain ==
    network = "Rsk" /\ pc = "loop" =>
        {db.txs[db.token_txs[k].tx].tx : k \in DOMAIN db.token_txs} =
        UNION {{<<db.chain[i].hash, k>> : k \in {j \in DOMAIN Txs[db.chain[i].hash] :
                   Counts(Txs[db.chain[i].hash][j], network)}} : i \in DOMAIN db.chain}

\* UpdateToBlock pushes a block a second time after its parent's update: the
\* second PushNewBlock is not answered BlockRequired.
ParentArrives ==
    [][Len(stack') < Len(stack) /\ stack' # <<>> => ~BlockRequired(db', Last(stack'))]_vars

\* On Rsk, where no receipt is asked for, the index ends up with a chain that
\* is at least as high as the node's, whenever the node and the process settle,
\* also after the node went to a lower chain while blocks were being fetched.
\* The loop compares heights only: whether it is the node's chain, it never asks.
CatchesUp ==
    network = "Rsk" =>
        <>[](pc = "loop" /\ db.chain # <<>> /\ Height(db) >= Number(node))

=============================================================================
