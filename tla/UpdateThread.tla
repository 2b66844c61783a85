---------------------------- MODULE UpdateThread ----------------------------
(***************************************************************************)
(* BtcIndex's update thread: the only caller of push_new_block.  It polls  *)
(* a bitcoin node, which changes its mind between any two calls, and walks *)
(* a missing branch down by recursion until a block attaches.              *)
(*                                                                         *)
(* The pushes are those of module Blockchain, step by step, so the node    *)
(* moves on in the middle of them too.                                     *)
(***************************************************************************)
EXTENDS Blockchain

CONSTANT Work   \* Work[b]: the accumulated work a node compares chains by

ASSUME WorkAssumption == Work \in [Blocks -> Nat]

\* The node's chains are those of one network: they share the genesis block.
ASSUME GenesisAssumption == \A b, c \in Blocks : Lineage[b][1] = Lineage[c][1]

VARIABLES
    node,    \* the tip of the node's active chain
    thread,  \* where the thread is: see the actions
    phase,   \* "initial" in DoInitialUpdate, "following" in the loop after it
    latest,  \* latestBlock
    target,  \* latestBlockInBlockChain
    stack,   \* the frames of UpdateToHash, the innermost last
    hung     \* a get_fees call that never ends has the mutex

threadVars == <<thread, phase, latest, target, stack>>
updateVars == <<chainVars, node, threadVars, hung>>

(***************************************************************************)
(* The node (external).                                                    *)
(***************************************************************************)

\* Heights count from the genesis block's 0.
Height(b) == Len(Lineage[b]) - 1

\* getblockhash, for a height up to the node's own.
BlockHashAt(h) == Lineage[node][h + 1]

\* The node adopts a chain with more work; its height may be lower.
NodeAdopts(b) ==
    /\ Work[b] > Work[node]
    /\ node' = b
    /\ UNCHANGED <<chainVars, threadVars, hung>>

(***************************************************************************)
(* The thread.                                                             *)
(***************************************************************************)

\* index_get_blockchain_height: size() - 1, which on an empty chain is
\* 2^64 - 1 and read as a C# long is -1.
IndexedHeight == Len(blockchain) - 1

NoThread ==
    /\ thread' = "off"
    /\ phase' = "initial"
    /\ latest' = 0
    /\ target' = 0
    /\ stack' = <<>>
    /\ hung' = FALSE
    /\ UNCHANGED node

UpdateInit ==
    /\ Init
    /\ node \in Blocks
    /\ thread = "off"
    /\ phase = "initial"
    /\ latest = 0
    /\ target = 0
    /\ stack = <<>>
    /\ hung = FALSE

\* BtcIndex's constructor: initialize_index.
OpenIndex ==
    /\ StartEmpty \/ StartLoad \/ StartRefused
    /\ UNCHANGED <<node, threadVars, hung>>

FinishOpenIndex ==
    /\ call = NoCall
    /\ InsertHead
    /\ UNCHANGED <<node, threadVars, hung>>

\* A mutation of StartThread: it starts at the genesis block.
StartThreadAtZero ==
    /\ pc = "idle"
    /\ ~hung
    /\ thread = "off"
    /\ latest' = 0
    /\ thread' = "poll"
    /\ UNCHANGED <<chainVars, node, phase, target, stack, hung>>

\* The thread starts and reads the height of the index.
StartThread ==
    /\ pc = "idle"
    /\ ~hung
    /\ thread = "off"
    /\ latest' = IndexedHeight
    /\ thread' = "poll"
    /\ UNCHANGED <<chainVars, node, phase, target, stack, hung>>

\* GetLatestBlock.
Poll ==
    /\ thread = "poll"
    /\ target' = Height(node)
    /\ thread' = "check"
    /\ UNCHANGED <<chainVars, node, phase, latest, stack, hung>>

\* A mutation of Behind: the loop after the initial update is off by one.
FarBehind ==
    IF phase = "initial" THEN latest < target ELSE latest + 1 < target

Behind == latest < target

\* The condition of either loop; DoInitialUpdate returns when it is false and
\* the height is read again.
Check ==
    /\ thread = "check"
    /\ IF Behind
       THEN /\ thread' = "ask"
            /\ UNCHANGED <<phase, latest>>
       ELSE /\ phase = "initial" => ~hung
            /\ thread' = "poll"
            /\ phase' = "following"
            /\ latest' = IF phase = "initial" THEN IndexedHeight ELSE latest
    /\ UNCHANGED <<chainVars, node, target, stack, hung>>

\* A mutation of Wanted: the node's height in both loops.
WantedTip == target

\* The height whose block is asked for: the next one while catching up, the
\* node's last known height afterwards.
Wanted == IF phase = "initial" THEN latest + 1 ELSE target

\* GetBlockHash and the call of UpdateToHash.
Ask ==
    /\ thread = "ask"
    /\ Wanted <= Height(node)
    /\ stack' = <<[block |-> BlockHashAt(Wanted), second |-> FALSE]>>
    /\ thread' = "push"
    /\ UNCHANGED <<chainVars, node, phase, latest, target, hung>>

Frame == stack[Len(stack)]

\* UpdateToHash returns: the caller pushes its own block a second time, or the
\* loop goes on with the height returned.
Return(new_height) ==
    /\ stack' = SubSeq(stack, 1, Len(stack) - 1)
    /\ IF Len(stack) > 1
       THEN /\ thread' = "push"
            /\ UNCHANGED latest
       ELSE /\ thread' = IF phase = "initial" THEN "poll" ELSE "check"
            /\ latest' = new_height

\* GetRawBlock and push_new_block, when the block attaches.
Push ==
    /\ thread = "push"
    /\ ~hung
    /\ PushBegin(Frame.block)
    /\ thread' = "wait"
    /\ UNCHANGED <<node, phase, latest, target, stack, hung>>

\* A mutation of Required: the block the node now has at that height.
RequiredByHeight ==
    LET h == Height(Frame.block) - 1 IN
    IF h <= Height(node) THEN BlockHashAt(h) ELSE Parent(Frame.block)

\* `block_required`.
Required == Parent(Frame.block)

\* push_new_block answers `block_required`.  The first time, UpdateToHash calls
\* itself; the second time it returns a result that has no new_height, where
\* NewHeight keeps its default.
PushRefused ==
    /\ thread = "push"
    /\ pc = "idle"
    /\ ~hung
    /\ BlockRequired(Parent(Frame.block))
    /\ IF Frame.second
       THEN Return(0)
       ELSE /\ stack' = [stack EXCEPT ![Len(stack)].second = TRUE] \o
                          <<[block |-> Required, second |-> FALSE]>>
            /\ UNCHANGED <<thread, latest>>
    /\ UNCHANGED <<chainVars, node, phase, target, hung>>

\* The steps of the push in progress.
PushStep ==
    /\ RevertBlock \/ InsertBlock \/ AddNewBlock \/ Fail \/ FailInsert
    /\ UNCHANGED <<node, threadVars, hung>>

\* A mutation of FinishPush: every push is taken to add one block.
FinishPushCounting ==
    /\ thread = "wait"
    /\ InsertHead
    /\ Return(latest + 1)
    /\ UNCHANGED <<node, phase, target, hung>>

FinishPush ==
    /\ thread = "wait"
    /\ InsertHead
    /\ Return(IndexedHeight)
    /\ UNCHANGED <<node, phase, target, hung>>

\* The thread's catch block exits the process between two pushes.
ThreadExits == Stop /\ NoThread

\* getblockhash is asked for a height the node does not have any more, and not
\* again before the fifth retry.
AskFails ==
    /\ thread = "ask"
    /\ Wanted > Height(node)
    /\ ThreadExits

\* An RPC still fails at the fifth retry: the node is down.
RpcFails ==
    /\ thread \in {"poll", "ask", "push"}
    /\ ThreadExits

\* Dispose: the thread leaves its loops where they test _continueRunning.  The
\* loop over the missing blocks of "following" does not.
StopThread ==
    /\ \/ thread = "check" /\ phase = "initial"
       \/ thread = "poll" /\ phase = "following"
    /\ ThreadExits

Dies == (Exit \/ Crash) /\ NoThread

(***************************************************************************)
(* A request.                                                              *)
(***************************************************************************)

\* index_get_fees on an empty chain: get_height() is 2^64 - 1, the loop over the
\* heights never ends, and it has the mutex that every call into the index
\* takes.  On any other chain the call returns and changes nothing here.
GetFees ==
    /\ pc \in {"idle", "failed"}
    /\ blockchain = <<>>
    /\ hung' = TRUE
    /\ UNCHANGED <<chainVars, node, threadVars>>

ThreadStep ==
    \/ FinishOpenIndex
    \/ StartThread
    \/ Poll
    \/ Check
    \/ Ask
    \/ AskFails
    \/ Push
    \/ PushRefused
    \/ PushStep
    \/ FinishPush

UpdateNext ==
    \/ \E b \in Blocks : NodeAdopts(b)
    \/ OpenIndex
    \/ ThreadStep
    \/ RpcFails
    \/ StopThread
    \/ Dies
    \/ GetFees

\* The thread is fair: requests to the node are answered or end the process, and
\* the mutex comes free after each call but a get_fees that hangs, where the
\* steps that take the mutex are not enabled.  Opening the index, adopting
\* blocks, requests and failing are not fair.
Fairness ==
    /\ WF_updateVars(ThreadStep)
    /\ WF_updateVars(Exit /\ NoThread)

UpdateSpec == UpdateInit /\ [][UpdateNext]_updateVars /\ Fairness

(***************************************************************************)
(* Properties.                                                             *)
(***************************************************************************)

UpdateTypeOK ==
    /\ node \in Blocks
    /\ thread \in {"off", "poll", "check", "ask", "push", "wait"}
    /\ phase \in {"initial", "following"}
    /\ latest \in Nat \cup {-1}
    /\ target \in Nat
    /\ stack \in Seq([block : Blocks, second : BOOLEAN])
    /\ hung \in BOOLEAN

\* The thread drives the index only the way Blockchain's Next allows: it never
\* pushes a block that is served already, nor starts a chain anywhere but at
\* the genesis block, whatever the node does between two calls.
DrivesBlockchain == Spec

\* After UpdateToHash has pushed the required block, its second push of the
\* block itself attaches: the result of the second push, which is not looked
\* at, always carries a height (BtcIndex.UpdateToHash).
SecondPushAccepted ==
    thread = "push" /\ Frame.second => ~BlockRequired(Parent(Frame.block))

\* Between pushes latestBlock, which the loops never read again, is the height
\* of the index, reorganizations to lower heights included.
CachedHeightIsCurrent ==
    thread \in {"poll", "check", "ask"} => latest = IndexedHeight

\* While catching up, a missing block takes the recursion of UpdateToHash no
\* deeper than the number of served blocks the node has abandoned.
InitialUpdateIsShallow ==
    thread = "push" /\ phase = "initial" /\ ~Frame.second =>
        Len(stack) <= 1 + Cardinality(
            {i \in DOMAIN blockchain :
                ~\E k \in DOMAIN Lineage[stack[1].block] :
                    Lineage[stack[1].block][k] = blockchain[i].hash})

Running == pc \notin {"down", "refused"}

\* If the process stays up, the index ends up serving the node's own tip (where
\* more work means a higher block), unless a get_fees call that came before the
\* first block was pushed keeps that push waiting for ever.
FollowsNode ==
    <>[]Running =>
        \/ <>[](blockchain # <<>> /\ Top(blockchain).hash = node)
        \/ <>[](hung /\ blockchain = <<>>)

\* If the process stays up, the index gets at least as high as the node,
\* whatever the node's chains weigh and whenever fees are asked for, if the
\* first database holds a block.
HeightCatchesUp ==
    InitRows # {} /\ <>[]Running => <>[](IndexedHeight >= Height(node))

=============================================================================
