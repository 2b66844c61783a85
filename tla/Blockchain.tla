----------------------------- MODULE Blockchain -----------------------------
(***************************************************************************)
(* The chain a BTC index serves: the in-memory `Blockchain` object of      *)
(* libbtcparser, the two tables that persist it (`blocks` and              *)
(* `blockchain_head`), and the order in which Indexer::push_new_block      *)
(* updates them.  A process crash is possible between any two steps; it    *)
(* loses the memory and every statement that was not committed.            *)
(*                                                                         *)
(* A block is named by its hash, and a hash commits to the whole history   *)
(* of its block: Lineage[b] is that history, from the genesis block to b.  *)
(***************************************************************************)
EXTENDS Integers, Sequences, FiniteSets

CONSTANTS
    Blocks,      \* the block hashes
    NoBlock,     \* the all-zero hash: previous_hash of the genesis block
    NoCall,      \* value of `call` while no push_new_block is running
    Lineage,     \* Lineage[b]: the hashes from the genesis block to b
    InitRows,    \* rows of `blocks` in the database the index first opens
    InitHead,    \* rows of `blockchain_head` in that database
    MaxCrashes,  \* bound of the model: how many times the process may die
    CrashPoints  \* the values of pc at which it may: see Crash and Fail

\* A row of `blocks`; the in-memory Blockchain::Block keeps the same columns.
Row == [id : Nat, hash : Blocks]

ASSUME LineageAssumption ==
    /\ NoBlock \notin Blocks
    /\ Lineage \in [Blocks -> Seq(Blocks)]
    /\ \A b \in Blocks :
          /\ Len(Lineage[b]) > 0
          /\ Lineage[b][Len(Lineage[b])] = b
          /\ \A i \in 1..Len(Lineage[b]) :
                Lineage[Lineage[b][i]] = SubSeq(Lineage[b], 1, i)

ASSUME InitAssumption ==
    /\ InitRows \in SUBSET Row
    /\ IsFiniteSet(InitRows)
    /\ \A r, q \in InitRows : r.id = q.id => r = q
    /\ InitHead \subseteq {r.hash : r \in InitRows}
    /\ MaxCrashes \in Nat
    /\ CrashPoints \subseteq {"insert", "add", "head"}

ASSUME NoCallAssumption ==
    NoCall \notin [block : Blocks, id : Nat, reverts : Seq(Row), reorg : BOOLEAN]

VARIABLES
    blockchain,  \* vector<Block> Blockchain::blockchain; height h is at h + 1
    block_map,   \* map<SHA256, size_t> Blockchain::block_map
    rows,        \* table `blocks`, as this connection reads it
    head,        \* table `blockchain_head`, as this connection reads it
    disk,        \* both tables as last committed
    call,        \* the push_new_block in progress, or NoCall
    pc,          \* where the process is
    crashes      \* how many times it died so far

memory == <<blockchain, block_map>>
chainVars == <<blockchain, block_map, rows, head, disk, call, pc, crashes>>

(***************************************************************************)
(* Reading the tables.                                                     *)
(***************************************************************************)

\* previous_hash of a block.
Parent(b) ==
    LET L == Lineage[b] IN IF Len(L) = 1 THEN NoBlock ELSE L[Len(L) - 1]

Hashes(rs) == {r.hash : r \in rs}

\* A mutation of RowOf: build_blocks keeps the first row of a hash.
FirstRowOf(rs, h) ==
    CHOOSE r \in rs : /\ r.hash = h
                      /\ \A q \in rs : q.hash = h => q.id >= r.id

\* build_blocks: block_map is keyed by hash and a later row overwrites an
\* earlier one, so the row that counts is the one with the largest id.
RowOf(rs, h) ==
    CHOOSE r \in rs : /\ r.hash = h
                      /\ \A q \in rs : q.hash = h => q.id <= r.id

\* select_head: the rows no other row names as its previous block.  A hash
\* with two rows is counted twice, because `blocks` has a pointer per row.
Heads(rs) == {r \in rs : \A q \in rs : Parent(q.hash) # r.hash}

\* The hash select_head returns, as a set: empty where it throws.
SelectHead(rs, hd) ==
    IF Cardinality(Heads(rs)) = 1 THEN Hashes(Heads(rs))
                                  ELSE hd \cap Hashes(rs)

\* assemble_blockchain: from the head down `previous` until a block that is
\* not in the table, then reversed.
AssembleBlockchain(rs, h) ==
    LET L == Lineage[h]
        root == CHOOSE k \in 1..Len(L) :
                    /\ \A j \in k..Len(L) : L[j] \in Hashes(rs)
                    /\ k = 1 \/ L[k - 1] \notin Hashes(rs)
    IN  [i \in 1..(Len(L) - root + 1) |-> RowOf(rs, L[root + i - 1])]

(***************************************************************************)
(* The in-memory chain.                                                    *)
(***************************************************************************)

EmptyMap == [h \in {} |-> 0]

\* The block_map the constructor builds while it copies the chain.
MapOf(chain) ==
    [h \in {chain[i].hash : i \in DOMAIN chain} |->
        (CHOOSE i \in DOMAIN chain : chain[i].hash = h) - 1]

Top(chain) == chain[Len(chain)]

\* block_map.erase.
Unmap(m, hs) == [h \in DOMAIN m \ hs |-> m[h]]

\* A mutation of BlockRequired: an empty chain requires a previous block too.
AlwaysRequired(p) == p \notin DOMAIN block_map

\* try_add_new_block: `block_required` is the unknown previous hash.
BlockRequired(p) == blockchain # <<>> /\ p \notin DOMAIN block_map

\* Mutations of BlocksToRevert: the lowest block is kept; highest first.
TooFewToRevert(p) ==
    IF blockchain = <<>> THEN <<>>
    ELSE SubSeq(blockchain, block_map[p] + 3, Len(blockchain))
HighestFirstToRevert(p) ==
    IF blockchain = <<>> THEN <<>>
    ELSE LET n == Len(blockchain) IN
         [i \in 1..(n - block_map[p] - 1) |-> blockchain[n + 1 - i]]

\* try_add_new_block: everything above the previous block, lowest first.
BlocksToRevert(p) ==
    IF blockchain = <<>> THEN <<>>
    ELSE SubSeq(blockchain, block_map[p] + 2, Len(blockchain))

(***************************************************************************)
(* Startup and death of the process.                                       *)
(***************************************************************************)

Init ==
    /\ blockchain = <<>>
    /\ block_map = EmptyMap
    /\ rows = InitRows
    /\ head = InitHead
    /\ disk = [rows |-> InitRows, head |-> InitHead]
    /\ call = NoCall
    /\ pc = "down"
    /\ crashes = 0

\* Blockchain::Blockchain on a table without blocks: update_db only deletes.
StartEmpty ==
    /\ pc = "down"
    /\ rows = {}
    /\ head' = {}
    /\ disk' = [disk EXCEPT !.head = {}]
    /\ pc' = "idle"
    /\ UNCHANGED <<memory, rows, call, crashes>>

\* Blockchain::Blockchain: the chain under the selected head is loaded and
\* update_db has executed its first statement, the delete.
StartLoad ==
    /\ pc = "down"
    /\ rows # {}
    /\ \E h \in SelectHead(rows, head) :
          /\ blockchain' = AssembleBlockchain(rows, h)
          /\ block_map' = MapOf(blockchain')
    /\ head' = {}
    /\ disk' = [disk EXCEPT !.head = {}]
    /\ pc' = "head"
    /\ UNCHANGED <<rows, call, crashes>>

\* select_head throws: there are several heads and the saved one is missing
\* or unknown.  The index does not start, now or at any later attempt.
StartRefused ==
    /\ pc \in {"down", "refused"}
    /\ rows # {}
    /\ SelectHead(rows, head) = {}
    /\ pc' = "refused"
    /\ UNCHANGED <<memory, rows, head, disk, call, crashes>>

Die ==
    /\ blockchain' = <<>>
    /\ block_map' = EmptyMap
    /\ rows' = disk.rows
    /\ head' = disk.head
    /\ call' = NoCall
    /\ pc' = "down"
    /\ UNCHANGED disk

\* BtcIndex.Dispose: the update thread is joined, so no call is running.
Stop ==
    /\ pc = "idle"
    /\ UNCHANGED crashes
    /\ Die

\* The process is killed in the middle of a push or of the startup.
Crash ==
    /\ pc \in CrashPoints
    /\ crashes < MaxCrashes
    /\ crashes' = crashes + 1
    /\ Die

(***************************************************************************)
(* push_new_block, step by step.  Its mutex is held from PushBegin until   *)
(* pc is "idle" or "failed" again: no reader runs in between.              *)
(***************************************************************************)

\* The block is parsed, the lock taken, and the reorganization computed once.
PushBegin(b) ==
    /\ pc = "idle"
    /\ ~BlockRequired(Parent(b))
    /\ LET above == BlocksToRevert(Parent(b)) IN
          call' = [block |-> b, id |-> 0, reverts |-> above,
                   reorg |-> above # <<>>]
    /\ pc' = "insert"
    /\ UNCHANGED <<memory, rows, head, disk, crashes>>

\* Whether Blockchain::revert_block answers Success.
RevertSucceeds(h) ==
    /\ blockchain # <<>>
    /\ Top(blockchain).hash = h
    /\ h \in DOMAIN block_map

\* A mutation of DeleteRow: the row stays.
KeepRow(rs, id) == rs

\* The delete_block statement.
DeleteRow(rs, id) == {r \in rs : r.id # id}

\* A mutation of Unmapped: the reverted block stays in block_map.
StillMapped(h) == block_map

\* What Blockchain::revert_block leaves of block_map.
Unmapped(h) == Unmap(block_map, {h})

\* One turn of insert_new_block's loop, inside the transaction: the row of
\* the highest block still to revert goes, then the in-memory head.
RevertBlock ==
    /\ pc = "insert"
    /\ call.reverts # <<>>
    /\ LET last == Top(call.reverts)
           left == SubSeq(blockchain, 1, Len(blockchain) - 1)
       IN  /\ rows' = DeleteRow(rows, last.id)
           /\ IF RevertSucceeds(last.hash)
              THEN /\ blockchain' = left
                   /\ block_map' = Unmapped(last.hash)
                   /\ head' = IF left = <<>> THEN {} ELSE {Top(left).hash}
                   /\ call' = [call EXCEPT !.reverts =
                                  SubSeq(@, 1, Len(@) - 1)]
                   /\ pc' = "insert"
              ELSE /\ pc' = "logic_error"
                   /\ UNCHANGED <<memory, head, call>>
    /\ UNCHANGED <<disk, crashes>>

\* sqlite gives a new row the largest id in the table plus one.
FreshId(rs) ==
    IF rs = {} THEN 1
    ELSE (CHOOSE r \in rs : \A q \in rs : q.id <= r.id).id + 1

\* A mutation of Commit: the transaction is not committed.
ForgetCommit(rs, hd) == disk

\* ~Transaction at the end of insert_new_block.
Commit(rs, hd) == [rows |-> rs, head |-> hd]

\* Block::insert and the end of insert_new_block.
InsertBlock ==
    /\ pc = "insert"
    /\ call.reverts = <<>>
    /\ rows' = rows \cup {[id |-> FreshId(rows), hash |-> call.block]}
    /\ disk' = Commit(rows', head)
    /\ call' = [call EXCEPT !.id = FreshId(rows)]
    /\ pc' = "add"
    /\ UNCHANGED <<memory, head, crashes>>

\* Blockchain::add_new_block, up to the delete in update_db, which is
\* committed on its own.
AddNewBlock ==
    /\ pc = "add"
    /\ LET p == Parent(call.block)
           height == IF blockchain = <<>> THEN 0
                     ELSE Len(blockchain) - Len(BlocksToRevert(p))
           reverted == {BlocksToRevert(p)[i].hash :
                           i \in DOMAIN BlocksToRevert(p)}
           kept == Unmap(block_map, reverted)
       IN  IF BlockRequired(p)
           THEN /\ pc' = "logic_error"
                /\ UNCHANGED <<memory, head, disk>>
           ELSE /\ blockchain' =
                     Append(SubSeq(blockchain, 1, height),
                            [id |-> call.id, hash |-> call.block])
                /\ block_map' =
                     [h \in DOMAIN kept \cup {call.block} |->
                         IF h = call.block THEN height ELSE kept[h]]
                /\ head' = {}
                /\ disk' = [disk EXCEPT !.head = {}]
                /\ pc' = "head"
    /\ UNCHANGED <<rows, call, crashes>>

\* Mutations of InsertHead: the id is saved instead of the hash; nothing is.
InsertHeadId ==
    /\ pc = "head"
    /\ head' = head \cup {Top(blockchain).id}
    /\ disk' = [disk EXCEPT !.head = head']
    /\ call' = NoCall
    /\ pc' = "idle"
    /\ UNCHANGED <<memory, rows, crashes>>
InsertNoHead ==
    /\ pc = "head"
    /\ call' = NoCall
    /\ pc' = "idle"
    /\ UNCHANGED <<memory, rows, head, disk, crashes>>

\* The insert of update_db, for the constructor and for add_new_block; the
\* call, if there was one, returns.
InsertHead ==
    /\ pc = "head"
    /\ head' = head \cup {Top(blockchain).hash}
    /\ disk' = [disk EXCEPT !.head = head']
    /\ call' = NoCall
    /\ pc' = "idle"
    /\ UNCHANGED <<memory, rows, crashes>>

\* A statement throws (the disk is full, say).  The lock is released by the
\* unwinding.  ~Transaction neither commits nor rolls back, so an open
\* transaction stays open unless sqlite rolled it back by itself.  Readers run
\* until the update thread exits.
Fail ==
    /\ pc \in CrashPoints
    /\ call # NoCall
    /\ crashes < MaxCrashes
    /\ \/ UNCHANGED <<rows, head>>
       \/ rows' = disk.rows /\ head' = disk.head
    /\ pc' = "failed"
    /\ UNCHANGED <<memory, disk, call, crashes>>

\* The same inside Block::insert, after the row of the block was inserted.
FailInsert ==
    /\ pc = "insert"
    /\ call.reverts = <<>>
    /\ pc \in CrashPoints
    /\ crashes < MaxCrashes
    /\ rows' = rows \cup {[id |-> FreshId(rows), hash |-> call.block]}
    /\ pc' = "failed"
    /\ UNCHANGED <<memory, head, disk, call, crashes>>

\* The update thread's catch block: Environment.Exit(-1).
Exit ==
    /\ pc \in {"failed", "logic_error"}
    /\ crashes' = crashes + 1
    /\ Die

\* What the update thread may push (UpdateThread checks that it does so):
\* a block that is not served yet, the genesis block first.
Pushable(b) ==
    /\ b \notin DOMAIN block_map
    /\ blockchain = <<>> => Parent(b) = NoBlock

Next ==
    \/ StartEmpty
    \/ StartLoad
    \/ StartRefused
    \/ \E b \in Blocks : Pushable(b) /\ PushBegin(b)
    \/ RevertBlock
    \/ InsertBlock
    \/ AddNewBlock
    \/ InsertHead
    \/ Fail
    \/ FailInsert
    \/ Exit
    \/ Stop
    \/ Crash

Spec == Init /\ [][Next]_chainVars

(***************************************************************************)
(* Properties.                                                             *)
(***************************************************************************)

\* Every variable keeps the shape its C++ type or table gives it.
TypeOK ==
    /\ blockchain \in Seq(Row)
    /\ DOMAIN block_map \subseteq Blocks
    /\ block_map \in [DOMAIN block_map -> Nat]
    /\ rows \in SUBSET Row
    /\ head \in SUBSET Blocks
    /\ disk \in [rows : SUBSET Row, head : SUBSET Blocks]
    /\ call \in [block : Blocks, id : Nat, reverts : Seq(Row),
                reorg : BOOLEAN] \cup {NoCall}
    /\ pc \in {"down", "refused", "idle", "insert", "add", "head", "failed",
              "logic_error"}
    /\ crashes \in Nat

\* block_map is the inverse of the chain vector, in every state, the middle of
\* a reorganization included: try_add_new_block and TxFetcher::get_tx look a
\* block up in the map and then index the vector with what they found.
MapIsInverse ==
    /\ DOMAIN block_map = Hashes({blockchain[i] : i \in DOMAIN blockchain})
    /\ \A i \in DOMAIN blockchain : block_map[blockchain[i].hash] = i - 1

\* The vector is the history of its last block, from the genesis block on, so
\* the height the index reports for a block is the block's own height.
ServesOneLineage ==
    blockchain # <<>> =>
        [i \in DOMAIN blockchain |-> blockchain[i].hash]
            = Lineage[Top(blockchain).hash]

\* The exceptions for "a block other than the head", "an empty blockchain" and
\* "incorrect usage" are never thrown: the list of blocks to revert computed
\* before the transaction is still right when each of them is reverted.
NoLogicError == pc # "logic_error"

\* What a constructor would load from committed tables.
Recovered(d) ==
    IF d.rows = {} THEN {<<>>}
    ELSE {AssembleBlockchain(d.rows, h) : h \in SelectHead(d.rows, d.head)}

\* Between calls, stopping and starting the process gives back the chain being
\* served, with the same database ids.
RestartRestoresChain == pc = "idle" => Recovered(disk) = {blockchain}

\* Between calls, a block row that the first database did not hold belongs to
\* the served chain: no push leaves the row of a block behind that is not
\* served, whatever the crashes and reorganizations before it.
NoOrphanRows ==
    pc = "idle" => rows \ InitRows \subseteq
                       {blockchain[i] : i \in DOMAIN blockchain}

\* No crash leaves tables the constructor refuses to start from.
StartupNeverRefused == pc # "refused"

\* The block a restart from committed tables would select, or NoBlock.
TipOf(d) ==
    LET selected == SelectHead(d.rows, d.head) IN
    IF selected = {} THEN NoBlock ELSE CHOOSE h \in selected : TRUE

Durable == INSTANCE ChainIndex WITH tip <- TipOf(disk)

\* Blockchain implements ChainIndex: the committed tables change only by one
\* block at a time, attached to the chain that was there before, through every
\* crash and every failure (Blockchain.cpp, Indexer::push_new_block).
DurableChain == Durable!Spec

=============================================================================
