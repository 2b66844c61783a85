-------------------------- MODULE BlockchainParser --------------------------
(***************************************************************************)
(* blockchain_parser: the program that fills a BTC database from the block *)
(* files of bitcoind before the index first opens it.                      *)
(*                                                                         *)
(* The first pass adds one row per block of the files, by threads that     *)
(* share a queue of files, in one sqlite transaction; the chain of a head  *)
(* the user may have to choose is kept.  The second pass parses the blocks *)
(* of that chain in order and inserts them with their transactions, which  *)
(* gives each of them a second row, in transactions of BatchBlocks blocks. *)
(* The program can be stopped with Ctrl+C, may die, and is run again.      *)
(*                                                                         *)
(* `rows`, `head`, `disk`, the constructor and its update_db are those of  *)
(* module Blockchain.                                                      *)
(***************************************************************************)
EXTENDS Blockchain

CONSTANTS
    FileSets,     \* what the block files may hold: sequences of files
    Workers,      \* the threads of the first pass
    BatchBlocks,  \* blocks per transaction of the second pass: 100
    MaxStops,     \* bound of the model: Ctrl+C
    MaxFailures   \* bound of the model: exceptions in a thread

ASSUME ParserAssumption ==
    /\ InitRows = {} /\ InitHead = {}
    /\ \A files \in FileSets : files \in Seq(Seq(Blocks))
    /\ BatchBlocks \in Nat \ {0}
    /\ {MaxStops, MaxFailures} \subseteq Nat

\* The blocks of the files.
FileBlocks(fs) ==
    {b \in Blocks : \E f \in DOMAIN fs : \E i \in DOMAIN fs[f] : fs[f][i] = b}

\* The files are those of a node that has all blocks its own blocks build on.
ASSUME FilesAssumption ==
    \A fs \in FileSets : \A b \in FileBlocks(fs) :
        \A i \in DOMAIN Lineage[b] : Lineage[b][i] \in FileBlocks(fs)

VARIABLES
    files,     \* the block files
    queue,     \* ParallelBlockProcessor::queue
    reading,   \* reading[w]: the blocks of its file thread w has yet to add
    run,       \* ParallelBlockProcessor::run: no thread failed
    txs,       \* table `txs`, one entry [hash, block] per block in id order
    disk_txs,  \* the same as last committed
    next,      \* `i` of the second pass
    batch,     \* `j`: blocks the open transaction may still take
    continue_running,  \* cleared by the signal handler
    stops, failures,
    passes,    \* history: first passes committed with rows
    skipped    \* history: the last of them had a thread that failed

threads == <<queue, reading, run>>
second == <<txs, disk_txs, next, batch>>
history == <<files, stops, failures, passes, skipped>>
parserVars == <<chainVars, threads, second, continue_running, history>>

Idle == [w \in Workers |-> <<>>]

ParserInit ==
    /\ Init
    /\ files \in FileSets
    /\ queue = <<>> /\ reading = Idle /\ run = TRUE
    /\ txs = <<>> /\ disk_txs = <<>> /\ next = 0 /\ batch = 0
    /\ continue_running = TRUE
    /\ stops = 0 /\ failures = 0 /\ passes = 0 /\ skipped = FALSE

(***************************************************************************)
(* initialize_blockchain.                                                  *)
(***************************************************************************)

\* What the program has in memory is gone.
DieParser ==
    /\ Die
    /\ txs' = disk_txs /\ next' = 0 /\ batch' = 0
    /\ queue' = <<>> /\ reading' = Idle /\ run' = TRUE
    /\ continue_running' = TRUE
    /\ UNCHANGED <<disk_txs, files, passes, skipped>>

\* The first constructor: on an empty table, or over the rows of a first pass.
OpenDatabase ==
    /\ StartEmpty \/ StartLoad
    /\ UNCHANGED <<threads, second, continue_running, history>>

\* Mutations of FindNext: the last block itself; one block too far.
FindLast(chain, table) ==
    LET found == {i \in DOMAIN chain : table # <<>> /\ chain[i].id = Top(table).block}
    IN  IF found = {} THEN 0 ELSE (CHOOSE i \in found : TRUE) - 1
FindBeyond(chain, table) ==
    LET found == {i \in DOMAIN chain : /\ i > 1 /\ table # <<>>
                                       /\ chain[i - 1].id = Top(table).block}
    IN  IF found = {} THEN 0 ELSE CHOOSE i \in found : TRUE

\* find_next_processing_block: the block after the one the last transaction
\* is of, found by its previous_block_id; 0 if there is none.
FindNext(chain, table) ==
    LET found == {i \in DOMAIN chain : /\ i > 1 /\ table # <<>>
                                       /\ chain[i - 1].id = Top(table).block}
    IN  IF found = {} THEN 0 ELSE (CHOOSE i \in found : TRUE) - 1

\* update_db's second statement ends the constructor.
SaveHead ==
    /\ call = NoCall
    /\ pc = "head"
    /\ head' = {Top(blockchain).hash}
    /\ disk' = [disk EXCEPT !.head = head']
    /\ next' = FindNext(blockchain, txs)
    /\ pc' = "batch"
    /\ UNCHANGED <<memory, rows, call, crashes, txs, disk_txs, batch>>
    /\ UNCHANGED <<threads, continue_running, history>>

\* The constructor gave an empty chain, or threw in select_head: whatever it
\* was, the exception is dropped and the first pass starts.
BeginFirstPass ==
    /\ \/ pc = "idle"
       \/ pc = "down" /\ rows # {} /\ SelectHead(rows, head) = {}
    /\ pc' = "first"
    /\ queue' = files
    /\ run' = TRUE
    /\ UNCHANGED <<memory, rows, head, disk, call, crashes, reading>>
    /\ UNCHANGED <<second, continue_running, history>>

\* thread_func: the next file.
TakeFile(w) ==
    /\ pc = "first"
    /\ reading[w] = <<>>
    /\ run /\ queue # <<>>
    /\ reading' = [reading EXCEPT ![w] = queue[1]]
    /\ queue' = SubSeq(queue, 2, Len(queue))
    /\ UNCHANGED <<chainVars, run, second, continue_running, history>>

\* BlockAdder::on_block, under output_mutex.
AddBlock(w) ==
    /\ pc = "first"
    /\ reading[w] # <<>>
    /\ rows' = rows \cup {[id |-> FreshId(rows), hash |-> reading[w][1]]}
    /\ reading' = [reading EXCEPT ![w] = SubSeq(@, 2, Len(@))]
    /\ UNCHANGED <<memory, head, disk, call, pc, crashes, queue, run>>
    /\ UNCHANGED <<second, continue_running, history>>

\* A file cannot be read to its end: the thread ends, and the others take no
\* further file but finish theirs.
ThreadFails(w) ==
    /\ pc = "first"
    /\ reading[w] # <<>>
    /\ failures < MaxFailures
    /\ failures' = failures + 1
    /\ reading' = [reading EXCEPT ![w] = <<>>]
    /\ run' = FALSE
    /\ UNCHANGED <<chainVars, queue, second, continue_running, files, stops, passes, skipped>>

\* select_head when head_selector can ask: the user picks one of the heads.
AskHead(rs, hd) ==
    IF Cardinality(Heads(rs)) = 1 \/ hd = {} THEN Hashes(Heads(rs)) ELSE hd

\* All threads have returned: the second constructor, and the commit of what
\* was added, failures or not.
EndFirstPass ==
    /\ pc = "first"
    /\ reading = Idle
    /\ queue = <<>> \/ ~run
    /\ IF rows = {}
       THEN /\ head' = {}
            /\ next' = 0
            /\ UNCHANGED <<memory, passes>>
       ELSE \E h \in AskHead(rows, head) :
            /\ blockchain' = AssembleBlockchain(rows, h)
            /\ block_map' = MapOf(blockchain')
            /\ head' = {h}
            /\ next' = FindNext(blockchain', txs)
            /\ passes' = passes + 1
    /\ disk' = Commit(rows, head')
    /\ skipped' = ~run
    /\ pc' = "batch"
    /\ UNCHANGED <<rows, call, crashes, threads, txs, disk_txs, batch>>
    /\ UNCHANGED <<continue_running, files, stops, failures>>

(***************************************************************************)
(* The second pass.                                                        *)
(***************************************************************************)

\* Head of the outer loop.
BeginBatch ==
    /\ pc = "batch"
    /\ continue_running
    /\ next < Len(blockchain)
    /\ batch' = BatchBlocks
    /\ pc' = "parse"
    /\ UNCHANGED <<memory, rows, head, disk, call, crashes, threads, txs, disk_txs, next>>
    /\ UNCHANGED <<continue_running, history>>

\* Only the first pass writes file_name, file_offset and size_in_file.
HasFile(id) == \A k \in DOMAIN txs : txs[k].block # id

InBatch == pc = "parse" /\ batch > 0 /\ continue_running /\ next < Len(blockchain)

\* The blocks whose outputs the transactions of block b may spend.
Ancestors(b) == {Lineage[b][i] : i \in 1..(Len(Lineage[b]) - 1)}

\* One turn of the inner loop: Block::insert adds a row and the transactions.
ParseBlock ==
    /\ InBatch
    /\ LET block == blockchain[next + 1]
       IN  /\ HasFile(block.id)
           /\ rows' = rows \cup {[id |-> FreshId(rows), hash |-> block.hash]}
           /\ txs' = Append(txs, [hash |-> block.hash, block |-> FreshId(rows)])
    /\ next' = next + 1
    /\ batch' = batch - 1
    /\ UNCHANGED <<memory, head, disk, call, pc, crashes, disk_txs, threads>>
    /\ UNCHANGED <<continue_running, history>>

\* The row has no file: opening it or parsing nothing throws, and main ends.
\* This is how the program answers when it is run on a finished database.
NoFile ==
    /\ InBatch
    /\ ~HasFile(blockchain[next + 1].id)
    /\ DieParser
    /\ UNCHANGED <<crashes, stops, failures>>

\* A thread failed, and an input of the block spends a transaction of a block
\* that no file gave: find_tx finds nothing, which throws.
MissingInput ==
    /\ InBatch
    /\ \E h \in Ancestors(blockchain[next + 1].hash) :
          \A k \in DOMAIN txs : txs[k].hash # h
    /\ DieParser
    /\ UNCHANGED <<crashes, stops, failures>>

\* A mutation of EndBatch: the block rows are left out of the transaction.
EndBatchOfTxs ==
    /\ pc = "parse"
    /\ ~InBatch
    /\ disk_txs' = txs
    /\ pc' = "batch"
    /\ UNCHANGED <<memory, rows, head, disk, call, crashes, threads, txs, next, batch>>
    /\ UNCHANGED <<continue_running, history>>

\* ~Transaction at the end of the inner loop.
EndBatch ==
    /\ pc = "parse"
    /\ ~InBatch
    /\ disk' = Commit(rows, head)
    /\ disk_txs' = txs
    /\ pc' = "batch"
    /\ UNCHANGED <<memory, rows, head, call, crashes, threads, txs, next, batch>>
    /\ UNCHANGED <<continue_running, history>>

\* The outer loop is over, and main returns.
Finish ==
    /\ pc = "batch"
    /\ ~continue_running \/ next >= Len(blockchain)
    /\ DieParser
    /\ UNCHANGED <<crashes, stops, failures>>

(***************************************************************************)
(* Signals and death.                                                      *)
(***************************************************************************)

\* The handler only clears the flag, which the first pass never reads.
CtrlC ==
    /\ pc # "down"
    /\ continue_running
    /\ stops < MaxStops
    /\ stops' = stops + 1
    /\ continue_running' = FALSE
    /\ UNCHANGED <<chainVars, threads, second, files, failures, passes, skipped>>

\* A kill, or an exception: ~Transaction does not commit while one unwinds.
\* Between the two statements of update_db only if CrashPoints says so.
Killed ==
    /\ pc # "down"
    /\ pc = "head" => "head" \in CrashPoints
    /\ crashes < MaxCrashes
    /\ crashes' = crashes + 1
    /\ DieParser
    /\ UNCHANGED <<stops, failures>>

\* The threads, the main thread and the user who runs the program again.
Step ==
    \/ OpenDatabase \/ SaveHead \/ BeginFirstPass \/ EndFirstPass
    \/ \E w \in Workers : TakeFile(w) \/ AddBlock(w)
    \/ BeginBatch \/ ParseBlock \/ NoFile \/ MissingInput \/ EndBatch \/ Finish

ParserNext ==
    \/ Step
    \/ \E w \in Workers : ThreadFails(w)
    \/ CtrlC
    \/ Killed

ParserSpec == ParserInit /\ [][ParserNext]_parserVars /\ WF_parserVars(Step)

(***************************************************************************)
(* Properties.                                                             *)
(***************************************************************************)

\* The variables have their types.
ParserTypeOK ==
    /\ pc \in {"down", "idle", "head", "first", "batch", "parse"}
    /\ rows \in SUBSET Row /\ head \in SUBSET Blocks /\ blockchain \in Seq(rows)
    /\ queue \in Seq(Seq(Blocks)) /\ reading \in [Workers -> Seq(Blocks)]
    /\ {txs, disk_txs} \subseteq Seq([hash : Blocks, block : {r.id : r \in rows}])
    /\ next \in 0..Len(blockchain) /\ batch \in 0..BatchBlocks
    /\ {run, continue_running, skipped} \subseteq BOOLEAN

\* Whatever was stopped, killed or failed, and however often the program was
\* run: the blocks whose transactions are in the tables are the lowest blocks
\* of one chain, each of them once and in order.  (The resume of main.cpp
\* goes by row ids; a repeated first pass is told apart by `passes`.)
EachBlockOnce ==
    passes <= 1 /\ ~skipped /\ txs # <<>> =>
        [k \in DOMAIN txs |-> txs[k].hash] = Lineage[Top(txs).hash]

\* While the second pass runs it is at the block after the last one inserted:
\* a run resumes neither before nor after it, except on a finished database.
ResumesInPlace ==
    passes <= 1 /\ pc \in {"batch", "parse"} =>
        \/ next = Len(txs)
        \/ next = 0 /\ Len(txs) = Len(blockchain)

\* README.txt: after a Ctrl+C the next run resumes from where the program
\* stopped, which for a run that was through is its end.
RerunResumes == stops > 0 /\ passes <= 1 /\ pc \in {"batch", "parse"} => next = Len(txs)

\* A database on which the second pass is through is one the index serves
\* right: its constructor selects a head without asking, loads the whole
\* history of that block, and finds for each block the row that has its
\* transactions, not the row of the first pass.  (A kill inside update_db may
\* lose the saved head.)
FinishedIsServable ==
    LET tip == Top(disk_txs).hash
        chain == AssembleBlockchain(disk.rows, tip)
    IN  passes <= 1 /\ ~skipped /\ disk_txs # <<>> /\ disk.head = {tip} =>
            /\ SelectHead(disk.rows, disk.head) = {tip}
            /\ [i \in DOMAIN chain |-> chain[i].hash] = Lineage[tip]
            /\ [i \in DOMAIN chain |-> chain[i].id] = [k \in DOMAIN disk_txs |-> disk_txs[k].block]

\* The committed tables have the transactions of the whole chain of a head.
Finished ==
    \E r \in Heads(disk.rows) :
        Hashes({AssembleBlockchain(disk.rows, r.hash)[i] :
                   i \in DOMAIN AssembleBlockchain(disk.rows, r.hash)})
            \subseteq {disk_txs[k].hash : k \in DOMAIN disk_txs}

\* However it is interrupted, a program that is run again and again inserts
\* the whole chain, once the interruptions end, unless a thread failed.
Completes == <>[](skipped \/ Finished)

=============================================================================
