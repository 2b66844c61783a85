------------------------ MODULE UpdateThread_proofs ------------------------
(***************************************************************************)
(* Proofs about UpdateThread, for an index that starts on an empty         *)
(* database: the thread drives the index only the way Blockchain allows,   *)
(* so everything proved of Blockchain holds of the two together, and what  *)
(* the thread believes about the index between two pushes is true.         *)
(***************************************************************************)
EXTENDS UpdateThread, Blockchain_proofs

(***************************************************************************)
(* The inductive invariant.                                                *)
(***************************************************************************)

\* The thread waits exactly while a push is in progress, and what is being
\* pushed is the block of the innermost frame.
Waiting ==
    /\ pc \in {"down", "refused", "idle"} => call = NoCall
    /\ pc \in {"insert", "add"} => thread = "wait"
    /\ thread \in {"poll", "check", "ask", "push"} => pc = "idle"
    /\ thread = "off" => call = NoCall
    /\ thread = "wait" => /\ pc \in {"insert", "add", "head", "failed"}
                          /\ call \in Call
                          /\ call.block = Frame.block
                          /\ pc = "head" => Top(blockchain).hash = call.block

\* What the loops know of the height of the index.
Heights ==
    /\ thread = "off" => phase = "initial"
    /\ thread \in {"poll", "check", "ask"} => latest = IndexedHeight
    /\ thread = "ask" => latest < target
    /\ phase = "following" /\ thread \in {"poll", "check", "ask", "push"} =>
          blockchain # <<>>

\* The frames walk down the history of the block of the outermost one.
Descends(s) ==
    LET L == Lineage[s[1].block] IN
    /\ Len(s) <= Len(L)
    /\ \A i \in 1..Len(s) : s[i].block = L[Len(L) + 1 - i]
    /\ \A i \in 1..Len(s) : i < Len(s) => s[i].second

\* Before a push no frame's block is served, the innermost one's can be
\* attached if it is its second turn, and the chain starts at the genesis.
\* While the index catches up, the outermost frame is of the next height.
Frames ==
    /\ stack # <<>> <=> thread \in {"push", "wait"}
    /\ stack # <<>> => Descends(stack)
    /\ thread = "push" =>
          /\ \A i \in 1..Len(stack) : stack[i].block \notin DOMAIN block_map
          /\ blockchain = <<>> => Parent(Frame.block) = NoBlock
          /\ Frame.second => /\ blockchain # <<>>
                             /\ Top(blockchain).hash = Parent(Frame.block)
          /\ phase = "initial" /\ ~Frame.second =>
                Len(Lineage[stack[1].block]) = Len(blockchain) + 1

ThreadInv ==
    /\ UpdateTypeOK
    /\ Waiting
    /\ Heights
    /\ Frames

UpdateInv == FreshInv /\ ThreadInv

(***************************************************************************)
(* Lemmas about lineages and the served chain.                             *)
(***************************************************************************)

\* The previous block of a block of a lineage is the one below it.
LEMMA ParentInLineage ==
    ASSUME NEW b \in Blocks, NEW k \in 1..Len(Lineage[b])
    PROVE  /\ k = 1 => Parent(Lineage[b][k]) = NoBlock
           /\ k # 1 => /\ k - 1 \in 1..Len(Lineage[b])
                       /\ Parent(Lineage[b][k]) = Lineage[b][k - 1]
<1> DEFINE L == Lineage[b]
<1>1. /\ L \in Seq(Blocks) /\ Len(L) \in Nat \ {0}
      /\ L[k] \in Blocks
      /\ Lineage[L[k]] = SubSeq(L, 1, k)
      /\ Len(Lineage[L[k]]) = k
  BY LineageFacts
<1>2. k \in 1..Len(L)
  OBVIOUS
<1> HIDE DEF L
<1>3. CASE k = 1
  <2>1. Parent(L[k]) = NoBlock
    BY <1>1, <1>3 DEF Parent
  <2> QED BY <1>3, <2>1 DEF L
<1>4. CASE k # 1
  <2>1. k - 1 \in 1..Len(L) /\ k - 1 \in 1..(k - 1 + 1) /\ k \in 0..Len(L)
    BY <1>1, <1>2, <1>4
  <2>2. 1 \in Nat \ {0}
    OBVIOUS
  <2>3. \A i \in 1..(k - 1 + 1) : SubSeq(L, 1, k)[i] = L[1 + i - 1]
    BY <1>1, <2>1, <2>2, SubSeqFacts
  <2>4. 1 + (k - 1) - 1 = k - 1
    BY <1>2
  <2>5. SubSeq(L, 1, k)[k - 1] = L[k - 1]
    BY <2>1, <2>3, <2>4
  <2>6. Parent(L[k]) = L[k - 1]
    BY <1>1, <1>4, <2>5 DEF Parent
  <2> QED BY <1>4, <2>1, <2>6 DEF L
<1> QED BY <1>3, <1>4

\* The first block of a lineage has no parent; others have, one place lower.
LEMMA ParentOfBlock ==
    ASSUME NEW b \in Blocks
    PROVE  /\ Len(Lineage[b]) = 1 <=> Parent(b) = NoBlock
           /\ Parent(b) # NoBlock =>
                 /\ Len(Lineage[b]) - 1 \in 1..Len(Lineage[b])
                 /\ Parent(b) = Lineage[b][Len(Lineage[b]) - 1]
                 /\ Parent(b) \in Blocks
                 /\ Len(Lineage[Parent(b)]) = Len(Lineage[b]) - 1
<1> DEFINE n == Len(Lineage[b])
<1>1. /\ n \in Nat \ {0} /\ Lineage[b][n] = b
      /\ \A i \in 1..n : /\ Lineage[b][i] \in Blocks
                         /\ Len(Lineage[Lineage[b][i]]) = i
  BY LineageFacts
<1>2. n \in 1..n /\ (n # 1 => n - 1 \in 1..n)
  <2>1. n \in Nat \ {0}
    BY <1>1
  <2> HIDE DEF n
  <2> QED BY <2>1
<1>3. NoBlock \notin Blocks
  BY LineageAssumption DEF LineageAssumption
<1> QED BY <1>1, <1>2, <1>3 DEF Parent

\* What the map knows is served, at the height of its own lineage.
LEMMA ServedFacts ==
    ASSUME FreshInv
    PROVE  /\ blockchain \in Seq(Row)
           /\ Len(blockchain) \in Nat
           /\ \A i \in 1..Len(blockchain) :
                 /\ blockchain[i].hash \in DOMAIN block_map
                 /\ blockchain[i].hash \in Blocks
                 /\ Len(Lineage[blockchain[i].hash]) = i
           /\ \A h \in DOMAIN block_map :
                 /\ h \in Blocks
                 /\ Len(Lineage[h]) \in 1..Len(blockchain)
                 /\ blockchain[Len(Lineage[h])].hash = h
<1>1. /\ blockchain \in Seq(Row) /\ Inverts(block_map, blockchain)
      /\ Linear(blockchain)
  BY DEF FreshInv, IInv, TypeOK
<1>2. /\ Len(blockchain) \in Nat
      /\ \A i \in 1..Len(blockchain) : blockchain[i].hash \in Blocks
  BY <1>1, ChainFacts
<1>3. \A i \in 1..Len(blockchain) : Len(Lineage[blockchain[i].hash]) = i
  BY <1>1 DEF Linear
<1>4. DOMAIN block_map = {blockchain[i].hash : i \in 1..Len(blockchain)}
  BY <1>1 DEF Inverts
<1> QED BY <1>1, <1>2, <1>3, <1>4

\* A block above the top of the chain is not served.
LEMMA HigherIsNotServed ==
    ASSUME FreshInv, NEW b \in Blocks, Len(Lineage[b]) > Len(blockchain)
    PROVE  b \notin DOMAIN block_map
<1>1. Len(Lineage[b]) \notin 1..Len(blockchain)
  BY LineageFacts, ServedFacts
<1> QED BY <1>1, ServedFacts

\* The genesis block is the first of every chain that is not empty.
LEMMA GenesisIsServed ==
    ASSUME FreshInv, blockchain # <<>>,
           NEW b \in Blocks, Parent(b) = NoBlock
    PROVE  b \in DOMAIN block_map
<1>1. 1 \in 1..Len(blockchain)
  BY ServedFacts, FrontFacts
<1> DEFINE g == blockchain[1].hash
<1>2. g \in DOMAIN block_map /\ g \in Blocks /\ Len(Lineage[g]) = 1
  BY <1>1, ServedFacts
<1>3. Lineage[g][1] = g
  BY <1>2, LineageFacts
<1>4. Len(Lineage[b]) = 1 /\ Lineage[b][1] = b
  BY ParentOfBlock, LineageFacts
<1>5. b = g
  BY <1>2, <1>3, <1>4, GenesisAssumption DEF GenesisAssumption
<1> QED BY <1>2, <1>5

\* The frames of UpdateToHash, from the outermost to the innermost.
LEMMA FrameFacts ==
    ASSUME NEW s \in Seq([block : Blocks, second : BOOLEAN]), s # <<>>,
           Descends(s)
    PROVE  LET n == Len(Lineage[s[1].block]) IN
           /\ Len(s) \in Nat \ {0} /\ n \in Nat /\ Len(s) <= n
           /\ s[1].block \in Blocks
           /\ \A i \in 1..Len(s) :
                 /\ s[i] \in [block : Blocks, second : BOOLEAN]
                 /\ s[i].block \in Blocks
                 /\ s[i].block = Lineage[s[1].block][n + 1 - i]
                 /\ n + 1 - i \in 1..n
                 /\ Len(Lineage[s[i].block]) = n + 1 - i
           /\ \A i \in 1..Len(s) : i < Len(s) =>
                 /\ s[i].second
                 /\ Parent(s[i].block) = s[i + 1].block
<1> DEFINE b == s[1].block
           n == Len(Lineage[b])
<1>1. /\ Len(s) \in Nat \ {0}
      /\ \A i \in 1..Len(s) : s[i] \in [block : Blocks, second : BOOLEAN]
  BY EmptySeq, LenProperties, ElementOfSeq
<1>2. b \in Blocks
  BY <1>1
<1>3. /\ n \in Nat
      /\ \A j \in 1..n : Len(Lineage[Lineage[b][j]]) = j
  BY <1>2, LineageFacts
<1>4. /\ Len(s) <= n
      /\ \A i \in 1..Len(s) : s[i].block = Lineage[b][n + 1 - i]
      /\ \A i \in 1..Len(s) : i < Len(s) => s[i].second
  BY DEF Descends
<1>5. \A j \in 1..n : j # 1 => Parent(Lineage[b][j]) = Lineage[b][j - 1]
  BY <1>2, ParentInLineage
<1> HIDE DEF b, n
<1>6. ASSUME NEW i \in 1..Len(s)
      PROVE  n + 1 - i \in 1..n /\ Len(Lineage[s[i].block]) = n + 1 - i
  <2>1. n + 1 - i \in 1..n
    BY <1>1, <1>3, <1>4
  <2> QED BY <1>3, <1>4, <2>1
<1>7. ASSUME NEW i \in 1..Len(s), i < Len(s)
      PROVE  Parent(s[i].block) = s[i + 1].block
  <2> DEFINE j == n + 1 - i
  <2>1. /\ j \in 1..n /\ j # 1 /\ j - 1 = n + 1 - (i + 1)
        /\ i + 1 \in 1..Len(s)
    BY <1>1, <1>3, <1>4, <1>7
  <2> HIDE DEF j
  <2>2. Parent(Lineage[b][j]) = Lineage[b][n + 1 - (i + 1)]
    BY <1>5, <2>1
  <2> QED BY <1>4, <2>1, <2>2 DEF j
<1> QED BY <1>1, <1>2, <1>3, <1>4, <1>6, <1>7 DEF b, n

(***************************************************************************)
(* The thread's steps.                                                     *)
(***************************************************************************)

\* While the process has no thread, there is nothing the thread could get wrong.
LEMMA OffInv ==
    ASSUME UpdateTypeOK, node' = node, thread' = "off", phase' = "initial",
           latest' \in Nat \cup {-1}, target' \in Nat, stack' = <<>>,
           hung' \in BOOLEAN,
           call' = NoCall, pc' \notin {"insert", "add"}
    PROVE  ThreadInv'
<1>1. UpdateTypeOK'
  BY EmptySeq DEF UpdateTypeOK
<1>2. Waiting'
  BY DEF Waiting
<1>3. Heights'
  BY DEF Heights
<1>4. Frames'
  BY DEF Frames
<1> QED BY <1>1, <1>2, <1>3, <1>4 DEF ThreadInv

LEMMA InitThreadInv == UpdateInit => ThreadInv
<1> SUFFICES ASSUME UpdateInit PROVE ThreadInv
  OBVIOUS
<1> USE DEF UpdateInit, Init
<1>1. UpdateTypeOK
  BY EmptySeq DEF UpdateTypeOK
<1>2. Waiting
  BY DEF Waiting
<1>3. Heights
  BY DEF Heights
<1>4. Frames
  BY DEF Frames
<1> QED BY <1>1, <1>2, <1>3, <1>4 DEF ThreadInv

\* Who holds the index: the thread runs only on an opened index, and waits
\* when a push is in progress.
LEMMA WaitingFacts ==
    ASSUME ThreadInv
    PROVE  /\ pc \in {"down", "refused"} => thread = "off"
           /\ pc \in {"insert", "add"} => thread = "wait"
           /\ pc = "head" => (call = NoCall <=> thread = "off")
           /\ pc = "head" => (call # NoCall <=> thread = "wait")
           /\ thread = "off" => stack = <<>> /\ call = NoCall /\ phase = "initial"
           /\ thread \in {"poll", "check", "ask"} => stack = <<>>
<1>1. thread \in {"off", "poll", "check", "ask", "push", "wait"}
  BY DEF ThreadInv, UpdateTypeOK
<1>2. call \in Call => call # NoCall
  BY NoCallAssumption DEF NoCallAssumption, Call
<1> QED BY <1>1, <1>2 DEF ThreadInv, Waiting, Heights, Frames

\* Opening the index is over before the thread starts.
LEMMA OpenInv ==
    ASSUME UpdateInv, OpenIndex \/ FinishOpenIndex
    PROVE  [Next]_chainVars /\ ThreadInv'
<1>1. /\ ThreadInv
      /\ UNCHANGED <<node, thread, phase, latest, target, stack, hung>>
      /\ UpdateTypeOK
  BY DEF UpdateInv, OpenIndex, FinishOpenIndex, threadVars, ThreadInv
<1>2. CASE OpenIndex
  <2>1. thread = "off" /\ call' = call /\ pc' \in {"idle", "head", "refused"}
    BY <1>1, <1>2, WaitingFacts DEF OpenIndex, StartEmpty, StartLoad, StartRefused
  <2>2. ThreadInv'
    BY <1>1, <2>1, WaitingFacts, OffInv DEF UpdateTypeOK
  <2> QED BY <1>2, <2>2 DEF OpenIndex, Next
<1>3. CASE FinishOpenIndex
  <2>1. thread = "off" /\ call' = NoCall /\ pc' = "idle"
    BY <1>1, <1>3, WaitingFacts DEF FinishOpenIndex, InsertHead
  <2>2. ThreadInv'
    BY <1>1, <2>1, WaitingFacts, OffInv DEF UpdateTypeOK
  <2> QED BY <1>3, <2>2 DEF FinishOpenIndex, Next
<1> QED BY <1>2, <1>3

\* The process ends, and the thread with it.
LEMMA EndsInv ==
    ASSUME UpdateInv, AskFails \/ RpcFails \/ StopThread \/ Dies
    PROVE  [Next]_chainVars /\ ThreadInv'
<1>1. (Stop \/ Exit \/ Crash) /\ NoThread
  BY DEF AskFails, RpcFails, StopThread, Dies, ThreadExits
<1>2. call' = NoCall /\ pc' = "down"
  BY <1>1 DEF Stop, Exit, Crash, Die
<1>3. ThreadInv'
  BY <1>1, <1>2, OffInv DEF NoThread, UpdateInv, ThreadInv
<1> QED BY <1>1, <1>3 DEF Next

\* The node's mind is no concern of the invariant.
LEMMA NodeInv ==
    ASSUME UpdateInv, node' \in Blocks, hung' \in BOOLEAN,
           UNCHANGED <<chainVars, threadVars>>
    PROVE  [Next]_chainVars /\ ThreadInv'
BY DEF UpdateInv, ThreadInv, chainVars, threadVars, UpdateTypeOK, Waiting,
       Heights, IndexedHeight, Frames, Frame, BlockRequired

\* The steps between two pushes that only read: the height the thread starts
\* from is the index's, and it still is when the loop looks at it.
LEMMA ReadsInv ==
    ASSUME UpdateInv, StartThread \/ Poll \/ Check
    PROVE  [Next]_chainVars /\ ThreadInv'
<1>1. /\ UpdateTypeOK /\ Waiting /\ Heights /\ Frames
      /\ UNCHANGED <<blockchain, block_map, call, pc, node, stack, hung>>
      /\ UNCHANGED chainVars
      /\ Len(blockchain) \in Nat /\ blockchain \in Seq(Row)
  BY ServedFacts
     DEF UpdateInv, ThreadInv, StartThread, Poll, Check, chainVars
<1>2. stack = <<>>
  BY WaitingFacts DEF UpdateInv, StartThread, Poll, Check
<1>3. pc = "idle" /\ thread' \in {"poll", "check", "ask"}
  BY <1>1 DEF Waiting, StartThread, Poll, Check
<1>4. UpdateTypeOK' /\ latest' = IndexedHeight
  <2>1. CASE StartThread
    BY <1>1, <2>1 DEF StartThread, UpdateTypeOK, IndexedHeight
  <2>2. CASE Poll
    <3>1. Height(node) \in Nat
      BY <1>1, LineageFacts DEF Height, UpdateTypeOK
    <3> QED BY <1>1, <2>2, <3>1 DEF Poll, UpdateTypeOK, Heights
  <2>3. CASE Check
    BY <1>1, <2>3 DEF Check, UpdateTypeOK, IndexedHeight, Heights
  <2> QED BY <2>1, <2>2, <2>3
<1>5. IndexedHeight' = IndexedHeight
  BY <1>1 DEF IndexedHeight
<1>6. phase' = "following" => blockchain # <<>>
  <2>1. CASE Check /\ ~Behind
    <3>1. latest = Len(blockchain) - 1 /\ latest >= 0
      BY <1>1, <2>1
         DEF Check, Behind, Heights, IndexedHeight, UpdateTypeOK
    <3> QED BY <1>1, <3>1, EmptySeq
  <2>2. CASE ~(Check /\ ~Behind)
    BY <1>1, <2>2 DEF StartThread, Poll, Check, Heights
  <2> QED BY <2>1, <2>2
<1>7. thread' = "ask" => latest' < target'
  BY DEF StartThread, Poll, Check, Behind
<1>8. Heights'
  BY <1>1, <1>3, <1>4, <1>5, <1>6, <1>7 DEF Heights
<1>9. Waiting'
  BY <1>1, <1>3 DEF Waiting
<1>10. Frames'
  BY <1>1, <1>2, <1>3 DEF Frames
<1> QED BY <1>1, <1>4, <1>8, <1>9, <1>10 DEF ThreadInv

\* The block asked for is above the chain, and a genesis block if there is none.
LEMMA AskInv ==
    ASSUME UpdateInv, Ask
    PROVE  [Next]_chainVars /\ ThreadInv'
<1> DEFINE b == BlockHashAt(Wanted)
<1>1. /\ UpdateTypeOK /\ Waiting /\ Heights /\ FreshInv
      /\ thread = "ask" /\ thread' = "push" /\ pc = "idle"
      /\ UNCHANGED <<blockchain, block_map, call, pc, node, phase, latest, target,
                  hung>>
      /\ UNCHANGED chainVars
      /\ Wanted <= Height(node)
      /\ stack' = <<[block |-> b, second |-> FALSE]>>
  BY DEF UpdateInv, ThreadInv, Ask, chainVars, Waiting
<1>2. Len(blockchain) \in Nat /\ blockchain \in Seq(Row)
  BY <1>1, ServedFacts
<1>3. /\ Wanted \in Nat /\ Wanted + 1 > Len(blockchain)
      /\ phase = "initial" => Wanted = Len(blockchain)
      /\ phase = "following" => blockchain # <<>>
  BY <1>1, <1>2 DEF Heights, IndexedHeight, Wanted, UpdateTypeOK
<1>4. /\ Wanted + 1 \in 1..Len(Lineage[node])
      /\ node \in Blocks
  <2>1. node \in Blocks /\ Len(Lineage[node]) \in Nat
    BY <1>1, LineageFacts DEF UpdateTypeOK
  <2> QED BY <1>1, <1>3, <2>1 DEF Height
<1>5. b \in Blocks /\ Len(Lineage[b]) = Wanted + 1
  BY <1>4, LineageFacts DEF BlockHashAt
<1> HIDE DEF b
<1>6. b \notin DOMAIN block_map
  BY <1>1, <1>3, <1>5, HigherIsNotServed
<1>7. blockchain = <<>> => Parent(b) = NoBlock
  <2>1. blockchain = <<>> => Wanted = 0
    BY <1>1, <1>3, EmptySeq DEF UpdateTypeOK
  <2> QED BY <1>3, <1>5, <2>1, ParentOfBlock
<1>8. /\ Len(stack') = 1 /\ stack'[1] = [block |-> b, second |-> FALSE]
      /\ stack' \in Seq([block : Blocks, second : BOOLEAN])
      /\ stack' # <<>>
  BY <1>1, <1>5
<1>9. Descends(stack')
  <2>1. Len(Lineage[b]) \in Nat \ {0} /\ Lineage[b][Len(Lineage[b])] = b
    BY <1>5, LineageFacts
  <2>2. Len(Lineage[b]) + 1 - 1 = Len(Lineage[b]) /\ 1 <= Len(Lineage[b])
    BY <2>1
  <2> QED BY <1>8, <2>1, <2>2 DEF Descends
<1>10. Frame' = [block |-> b, second |-> FALSE]
  BY <1>8 DEF Frame
<1>11. UpdateTypeOK'
  BY <1>1, <1>8 DEF UpdateTypeOK
<1>12. Waiting'
  BY <1>1 DEF Waiting
<1>13. Heights'
  BY <1>1 DEF Heights
<1>14. Frames'
  BY <1>1, <1>3, <1>5, <1>6, <1>7, <1>8, <1>9, <1>10 DEF Frames
<1> QED BY <1>1, <1>11, <1>12, <1>13, <1>14 DEF ThreadInv

\* What a push finds: its block is not served, and it attaches where Blockchain
\* allows a push.
LEMMA PushInv ==
    ASSUME UpdateInv, Push
    PROVE  [Next]_chainVars /\ ThreadInv'
<1>1. /\ UpdateTypeOK /\ Waiting /\ Heights /\ Frames /\ FreshInv
      /\ thread = "push" /\ thread' = "wait"
      /\ PushBegin(Frame.block)
      /\ UNCHANGED <<node, phase, latest, target, stack, hung>>
  BY DEF UpdateInv, ThreadInv, Push
<1>2. /\ stack # <<>> /\ Descends(stack)
      /\ stack \in Seq([block : Blocks, second : BOOLEAN])
  BY <1>1 DEF Frames, UpdateTypeOK
<1>3. Frame.block \in Blocks /\ Pushable(Frame.block)
  <2>1. Len(stack) \in 1..Len(stack)
    BY <1>2, EmptySeq, LenProperties
  <2> QED BY <1>1, <1>2, <2>1, FrameFacts DEF Frame, Frames, Pushable
<1>4. Next
  BY <1>1, <1>3 DEF Next
<1>5. /\ pc' = "insert" /\ call'.block = Frame.block
      /\ Frame' = Frame
  BY <1>1 DEF PushBegin, Frame
<1>6. call' \in Call
  BY <1>1, <1>4, <1>5, FreshNext DEF FreshInv, IInv, Pushing
<1>7. UpdateTypeOK'
  BY <1>1 DEF UpdateTypeOK
<1>8. Waiting'
  BY <1>1, <1>5, <1>6 DEF Waiting
<1>9. Heights'
  BY <1>1 DEF Heights
<1>10. Frames'
  BY <1>1, <1>2 DEF Frames
<1> QED BY <1>4, <1>7, <1>8, <1>9, <1>10 DEF ThreadInv

\* A second push is never refused.
LEMMA SecondAttaches ==
    ASSUME UpdateInv, thread = "push", Frame.second
    PROVE  ~BlockRequired(Parent(Frame.block))
<1>1. /\ FreshInv /\ blockchain # <<>>
      /\ Top(blockchain).hash = Parent(Frame.block)
  BY DEF UpdateInv, ThreadInv, Frames
<1>2. Len(blockchain) \in 1..Len(blockchain)
  BY <1>1, ServedFacts, TopFacts
<1>3. Top(blockchain).hash \in DOMAIN block_map
  BY <1>1, <1>2, ServedFacts DEF Top
<1> QED BY <1>1, <1>3 DEF BlockRequired

\* The recursion goes one block down the same history.
LEMMA RefusedInv ==
    ASSUME UpdateInv, PushRefused
    PROVE  [Next]_chainVars /\ ThreadInv'
<1> DEFINE m == Len(stack)
           p == Parent(Frame.block)
           b == stack[1].block
           n == Len(Lineage[b])
<1>1. /\ UpdateTypeOK /\ Waiting /\ Heights /\ Frames /\ FreshInv
      /\ thread = "push" /\ pc = "idle"
      /\ BlockRequired(p)
      /\ ~Frame.second
      /\ stack' = [stack EXCEPT ![m].second = TRUE] \o
                      <<[block |-> p, second |-> FALSE]>>
      /\ UNCHANGED <<chainVars, node, thread, phase, latest, target, hung>>
  BY SecondAttaches DEF UpdateInv, ThreadInv, PushRefused, Required
<1>2. /\ stack # <<>> /\ Descends(stack)
      /\ stack \in Seq([block : Blocks, second : BOOLEAN])
  BY <1>1 DEF Frames, UpdateTypeOK
<1>3. /\ m \in Nat \ {0} /\ n \in Nat /\ m <= n
      /\ b \in Blocks
      /\ \A i \in 1..m :
            /\ stack[i] \in [block : Blocks, second : BOOLEAN]
            /\ stack[i].block \in Blocks
            /\ stack[i].block = Lineage[b][n + 1 - i]
            /\ n + 1 - i \in 1..n
            /\ Len(Lineage[stack[i].block]) = n + 1 - i
      /\ \A i \in 1..m : i < m => stack[i].second
  BY <1>2, FrameFacts
<1>4. m \in 1..m /\ Frame = stack[m]
  BY <1>3 DEF Frame
<1>5. p # NoBlock
  <2>1. blockchain # <<>> /\ Frame.block \notin DOMAIN block_map
    BY <1>1, <1>4 DEF BlockRequired, Frames
  <2> QED BY <1>1, <1>3, <1>4, <2>1, GenesisIsServed
<1>6. /\ p \in Blocks
      /\ p \notin DOMAIN block_map /\ blockchain # <<>>
      /\ n + 1 - m # 1
      /\ p = Lineage[b][n + 1 - m - 1]
  <2>1. p \notin DOMAIN block_map /\ blockchain # <<>>
    BY <1>1 DEF BlockRequired
  <2>2. Len(Lineage[Frame.block]) = n + 1 - m /\ Frame.block \in Blocks
    BY <1>3, <1>4
  <2>3. p \in Blocks /\ n + 1 - m # 1
    BY <1>5, <2>2, ParentOfBlock
  <2>4. n + 1 - m \in 1..n /\ Frame.block = Lineage[b][n + 1 - m]
    BY <1>3, <1>4
  <2>5. p = Lineage[b][n + 1 - m - 1]
    <3> DEFINE k == n + 1 - m
    <3>1. b \in Blocks /\ k \in 1..Len(Lineage[b]) /\ k # 1
      BY <1>3, <2>3, <2>4
    <3>2. p = Parent(Lineage[b][k])
      BY <2>4
    <3> HIDE DEF k, p, b
    <3>3. Parent(Lineage[b][k]) = Lineage[b][k - 1]
      BY <3>1, ParentInLineage
    <3> QED BY <3>2, <3>3 DEF k
  <2> QED BY <2>1, <2>3, <2>5
<1> HIDE DEF p
<1>7. /\ stack' \in Seq([block : Blocks, second : BOOLEAN])
      /\ Len(stack') = m + 1 /\ stack' # <<>>
      /\ \A i \in 1..m : stack'[i].block = stack[i].block
      /\ \A i \in 1..m : stack'[i].second
      /\ stack'[m + 1] = [block |-> p, second |-> FALSE]
  <2> DEFINE Frm == [block : Blocks, second : BOOLEAN]
             s == [stack EXCEPT ![m].second = TRUE]
             t == <<[block |-> p, second |-> FALSE]>>
  <2>1. /\ s \in Seq(Frm) /\ Len(s) = m
        /\ \A i \in 1..m : s[i] = IF i = m THEN [stack[m] EXCEPT !.second = TRUE]
                                           ELSE stack[i]
    <3>1. DOMAIN stack = 1..m /\ stack = [i \in 1..m |-> stack[i]]
      BY <1>2, LenProperties
    <3>2. s = [i \in 1..m |-> IF i = m THEN [stack[m] EXCEPT !.second = TRUE]
                                       ELSE stack[i]]
      BY <3>1
    <3>3. [stack[m] EXCEPT !.second = TRUE] \in Frm
      BY <1>3, <1>4
    <3>4. \A i \in 1..m : stack[i] \in Frm
      BY <1>3
    <3> HIDE DEF s, Frm
    <3>5. s \in [1..m -> Frm]
      BY <3>2, <3>3, <3>4
    <3>6. s \in Seq(Frm)
      BY <1>3, <3>5, SeqDef
    <3>7. Len(s) = m
      BY <1>3, <3>2, <3>6, LenProperties
    <3> QED BY <3>2, <3>6, <3>7
  <2>2. t \in Seq(Frm) /\ Len(t) = 1 /\ t[1] = [block |-> p, second |-> FALSE]
    BY <1>6
  <2>3. stack' = s \o t
    BY <1>1
  <2>4. /\ \A i \in 1..m : s[i].block = stack[i].block
        /\ \A i \in 1..m : s[i].second
    <3>1. /\ [stack[m] EXCEPT !.second = TRUE].block = stack[m].block
          /\ [stack[m] EXCEPT !.second = TRUE].second
      BY <1>3, <1>4
    <3> HIDE DEF s
    <3>2. ASSUME NEW i \in 1..m
          PROVE  s[i].block = stack[i].block /\ s[i].second
      <4>1. CASE i = m
        BY <2>1, <3>1, <4>1
      <4>2. CASE i # m
        <5>1. i < m
          BY <1>3, <4>2
        <5> QED BY <1>3, <2>1, <4>2, <5>1
      <4> QED BY <4>1, <4>2
    <3> QED BY <3>2
  <2> HIDE DEF s, t, Frm
  <2>5. /\ stack' \in Seq(Frm)
        /\ Len(stack') = m + 1
        /\ \A i \in 1..(m + 1) :
              stack'[i] = IF i <= m THEN s[i] ELSE t[i - m]
    BY <2>1, <2>2, <2>3, ConcatProperties
  <2>6. \A i \in 1..m : i \in 1..(m + 1) /\ i <= m
    BY <1>3
  <2>7. m + 1 \in 1..(m + 1) /\ ~(m + 1 <= m) /\ m + 1 - m = 1
    BY <1>3
  <2>8. \A i \in 1..m : stack'[i] = s[i]
    BY <2>5, <2>6
  <2>9. stack'[m + 1] = t[1]
    BY <2>5, <2>7
  <2>10. stack' # <<>>
    BY <1>3, <2>5
  <2> QED BY <2>2, <2>4, <2>5, <2>8, <2>9, <2>10 DEF Frm
<1>8. 1 \in 1..m /\ stack'[1].block = b
  BY <1>3, <1>7
<1>9. ASSUME NEW i \in 1..(m + 1)
      PROVE  i \in 1..m \/ i = m + 1
  BY <1>3
<1>10. n + 1 - (m + 1) = n + 1 - m - 1 /\ m + 1 <= n
  BY <1>3, <1>6
<1> HIDE DEF b, n, m
<1>11. Descends(stack')
  <2>1. \A i \in 1..(m + 1) : stack'[i].block = Lineage[b][n + 1 - i]
    BY <1>3, <1>6, <1>7, <1>9, <1>10
  <2>2. \A i \in 1..(m + 1) : i < m + 1 => stack'[i].second
    BY <1>3, <1>7, <1>9
  <2>3. Len(stack') <= Len(Lineage[stack'[1].block])
    BY <1>7, <1>8, <1>10 DEF n
  <2> QED BY <1>7, <1>8, <2>1, <2>2, <2>3 DEF Descends, n
<1>12. Frame' = [block |-> p, second |-> FALSE]
  BY <1>7 DEF Frame
<1>13. UNCHANGED <<blockchain, block_map, call, pc>>
  BY <1>1 DEF chainVars
<1>14. UpdateTypeOK'
  BY <1>1, <1>7 DEF UpdateTypeOK
<1>15. Waiting'
  BY <1>1, <1>13 DEF Waiting
<1>16. Heights'
  BY <1>1, <1>6, <1>13 DEF Heights
<1>17. Frames'
  <2>1. \A i \in 1..Len(stack') : stack'[i].block \notin DOMAIN block_map
    <3>1. \A i \in 1..m : stack[i].block \notin DOMAIN block_map
      BY <1>1 DEF Frames, m
    <3> QED BY <1>6, <1>7, <1>9, <3>1
  <2>2. phase = "initial" => n = Len(blockchain) + 1
    BY <1>1 DEF Frames, n, b
  <2> QED
    BY <1>1, <1>6, <1>7, <1>8, <1>11, <1>12, <1>13, <2>1, <2>2 DEF Frames, n
<1> QED BY <1>1, <1>14, <1>15, <1>16, <1>17 DEF ThreadInv

\* While a push is in progress the thread waits for it, and what it pushes is
\* on top when only the head is left to save.
LEMMA PushStepInv ==
    ASSUME UpdateInv, PushStep
    PROVE  [Next]_chainVars /\ ThreadInv'
<1>1. /\ UpdateTypeOK /\ Waiting /\ Heights /\ Frames /\ ThreadInv
      /\ FreshInv /\ IInv
      /\ UNCHANGED <<node, thread, phase, latest, target, stack, hung>>
  BY DEF UpdateInv, ThreadInv, PushStep, threadVars, FreshInv
<1>2. Next
  BY DEF PushStep, Next
<1>3. IInv'
  BY <1>1, <1>2, NextIInv
<1>4. thread = "wait"
  <2>1. CASE RevertBlock \/ InsertBlock \/ AddNewBlock \/ FailInsert
    BY <1>1, <2>1
       DEF Waiting, RevertBlock, InsertBlock, AddNewBlock, FailInsert
  <2>2. CASE Fail
    <3>1. pc \in {"insert", "add", "head"} /\ call # NoCall
      BY <2>2, InitAssumption DEF Fail, InitAssumption
    <3> QED BY <1>1, <3>1, WaitingFacts
  <2> QED BY <2>1, <2>2 DEF PushStep
<1>5. call \in Call /\ call.block = Frame.block
  BY <1>1, <1>4 DEF Waiting
<1>6. /\ pc' \in {"insert", "add", "head", "failed"}
      /\ call' \in Call /\ call'.block = call.block
      /\ pc' = "head" => Top(blockchain').hash = call.block
  <2>1. CASE RevertBlock
    <3>1. pc' = "insert" /\ call' = [call EXCEPT !.reverts =
                                        SubSeq(@, 1, Len(@) - 1)]
      BY <1>1, <2>1, RevertIsOfTheHead DEF RevertBlock
    <3>2. call' \in Call
      BY <1>3, <3>1 DEF IInv, Pushing
    <3> QED BY <1>5, <3>1, <3>2 DEF Call
  <2>2. CASE InsertBlock
    <3>1. pc' = "add" /\ call' = [call EXCEPT !.id = FreshId(rows)]
      BY <2>2 DEF InsertBlock
    <3>2. call' \in Call
      BY <1>3, <3>1 DEF IInv, Pushing
    <3> QED BY <1>5, <3>1, <3>2 DEF Call
  <2>3. CASE AddNewBlock
    <3>1. /\ pc' = "head" /\ call' = call
          /\ blockchain' = Append(blockchain, [id |-> call.id, hash |-> call.block])
      BY <1>1, <2>3, AddIsAppend
    <3>2. blockchain \in Seq(Row) /\ [id |-> call.id, hash |-> call.block] \in Row
      BY <1>1, <1>5 DEF IInv, TypeOK, Row, Call
    <3>3. Top(blockchain') = [id |-> call.id, hash |-> call.block]
      BY <3>1, <3>2, AppendProperties DEF Top
    <3> QED BY <1>5, <3>1, <3>3
  <2>4. CASE Fail \/ FailInsert
    BY <1>5, <2>4 DEF Fail, FailInsert
  <2> QED BY <2>1, <2>2, <2>3, <2>4 DEF PushStep
<1>7. Frame' = Frame
  BY <1>1 DEF Frame
<1>8. UpdateTypeOK'
  BY <1>1 DEF UpdateTypeOK
<1>9. Waiting'
  BY <1>1, <1>4, <1>5, <1>6, <1>7 DEF Waiting
<1>10. Heights'
  BY <1>1, <1>4 DEF Heights
<1>11. Frames'
  BY <1>1, <1>4 DEF Frames
<1> QED BY <1>2, <1>8, <1>9, <1>10, <1>11 DEF ThreadInv

\* UpdateToHash returns with the block of its frame on top: the frames above
\* are of higher blocks, the next one of the block that attaches to it.
LEMMA FinishPushInv ==
    ASSUME UpdateInv, FinishPush
    PROVE  [Next]_chainVars /\ ThreadInv'
<1> DEFINE m == Len(stack)
           n == Len(Lineage[stack[1].block])
<1>1. /\ UpdateTypeOK /\ Waiting /\ Heights /\ Frames /\ FreshInv
      /\ thread = "wait" /\ pc = "head" /\ pc' = "idle" /\ call' = NoCall
      /\ UNCHANGED <<blockchain, block_map, node, phase, target, hung>>
      /\ Top(blockchain).hash = Frame.block
      /\ Return(IndexedHeight)
      /\ InsertHead
  BY DEF UpdateInv, ThreadInv, FinishPush, InsertHead, memory, Waiting
<1>2. /\ stack # <<>> /\ Descends(stack)
      /\ stack \in Seq([block : Blocks, second : BOOLEAN])
  BY <1>1 DEF Frames, UpdateTypeOK
<1>3. /\ m \in Nat \ {0} /\ n \in Nat /\ m <= n
      /\ \A i \in 1..m :
            /\ stack[i] \in [block : Blocks, second : BOOLEAN]
            /\ stack[i].block \in Blocks
            /\ stack[i].block = Lineage[stack[1].block][n + 1 - i]
            /\ n + 1 - i \in 1..n
            /\ Len(Lineage[stack[i].block]) = n + 1 - i
      /\ \A i \in 1..m : i < m => /\ stack[i].second
                                  /\ Parent(stack[i].block) = stack[i + 1].block
  BY <1>2, FrameFacts
<1>4. /\ stack' = SubSeq(stack, 1, m - 1)
      /\ stack' \in Seq([block : Blocks, second : BOOLEAN])
      /\ Len(stack') = m - 1
      /\ \A i \in 1..(m - 1) : stack'[i] = stack[i]
  BY <1>1, <1>2, FrontFacts DEF Return
<1>5. /\ blockchain # <<>> /\ blockchain \in Seq(Row)
      /\ Len(blockchain) = n + 1 - m
      /\ Len(blockchain) \in Nat
  <2>1. blockchain # <<>> /\ blockchain \in Seq(Row)
    BY <1>1 DEF FreshInv, IInv, TypeOK
  <2>2. Len(blockchain) \in 1..Len(blockchain)
    BY <2>1, TopFacts
  <2>3. Len(Lineage[Top(blockchain).hash]) = Len(blockchain)
    BY <1>1, <2>2, ServedFacts DEF Top
  <2>4. Len(Lineage[Frame.block]) = n + 1 - m
    <3>1. m \in 1..m
      BY <1>3
    <3> QED BY <1>3, <3>1 DEF Frame
  <2> QED BY <1>1, <2>1, <2>2, <2>3, <2>4, ServedFacts
<1>6. IndexedHeight' = IndexedHeight /\ IndexedHeight \in Nat \cup {-1}
  BY <1>1, <1>5 DEF IndexedHeight
<1>7. Next
  BY <1>1 DEF Next
<1>8. CASE m > 1
  <2>1. thread' = "push" /\ latest' = latest
    BY <1>1, <1>8 DEF Return
  <2>2. /\ m - 1 \in 1..(m - 1) /\ 1 \in 1..(m - 1) /\ m - 1 \in 1..m
        /\ m - 1 < m /\ m - 1 + 1 = m
    BY <1>3, <1>8
  <2>3. \A i \in 1..(m - 1) : i \in 1..m /\ i < m
    BY <1>3
  <2>4. stack' # <<>> /\ stack'[1].block = stack[1].block
    <3>1. Len(stack') # 0 /\ stack'[1] = stack[1]
      BY <1>3, <1>4, <1>8, <2>2
    <3> QED BY <3>1, EmptySeq
  <2>5. Frame' = stack[m - 1]
    BY <1>4, <2>2 DEF Frame
  <2>6. /\ Frame.block = stack[m].block
        /\ Frame'.second
        /\ Parent(Frame'.block) = Top(blockchain).hash
    BY <1>1, <1>3, <2>2, <2>5 DEF Frame
  <2>7. Descends(stack')
    <3>1. \A i \in 1..(m - 1) :
              stack'[i].block = Lineage[stack'[1].block][n + 1 - i]
      BY <1>3, <1>4, <2>3, <2>4
    <3>2. \A i \in 1..(m - 1) : stack'[i].second
      BY <1>3, <1>4, <2>3
    <3>3. Len(stack') <= Len(Lineage[stack'[1].block])
      BY <1>3, <1>4, <2>4
    <3> QED BY <1>4, <2>4, <3>1, <3>2, <3>3 DEF Descends
  <2>8. ASSUME NEW i \in 1..Len(stack')
        PROVE  stack'[i].block \notin DOMAIN block_map
    <3>1. i \in 1..m /\ i < m /\ stack'[i] = stack[i]
      BY <1>4, <2>3
    <3>2. /\ stack[i].block \in Blocks
          /\ Len(Lineage[stack[i].block]) = n + 1 - i
      BY <1>3, <3>1
    <3>3. n + 1 - i > n + 1 - m
      BY <1>3, <3>1
    <3> HIDE DEF n, m
    <3>4. Len(Lineage[stack[i].block]) > Len(blockchain)
      BY <1>5, <3>2, <3>3
    <3> QED BY <1>1, <3>1, <3>2, <3>4, HigherIsNotServed
  <2>9. UpdateTypeOK'
    BY <1>1, <1>4, <2>1 DEF UpdateTypeOK
  <2>10. Waiting'
    BY <1>1, <2>1 DEF Waiting
  <2>11. Heights'
    BY <1>1, <1>5, <2>1 DEF Heights
  <2>12. Frames'
    BY <1>1, <1>5, <2>1, <2>4, <2>6, <2>7, <2>8 DEF Frames
  <2> QED BY <1>7, <2>9, <2>10, <2>11, <2>12 DEF ThreadInv
<1>9. CASE m = 1
  <2>1. thread' \in {"poll", "check"} /\ latest' = IndexedHeight
    BY <1>1, <1>9 DEF Return
  <2>2. stack' = <<>>
    BY <1>4, <1>9, EmptySeq
  <2>3. UpdateTypeOK'
    BY <1>1, <1>4, <1>6, <2>1 DEF UpdateTypeOK
  <2>4. Waiting'
    BY <1>1, <2>1 DEF Waiting
  <2>5. Heights'
    BY <1>1, <1>5, <1>6, <2>1 DEF Heights
  <2>6. Frames'
    BY <2>1, <2>2 DEF Frames
  <2> QED BY <1>7, <2>3, <2>4, <2>5, <2>6 DEF ThreadInv
<1>10. m = 1 \/ m > 1
  <2>1. m \in Nat \ {0}
    BY <1>3
  <2> HIDE DEF m
  <2> QED BY <2>1
<1> QED BY <1>8, <1>9, <1>10

\* Every step of the two together is a step of the index, or none.
LEMMA UpdateStep ==
    UpdateInv /\ [UpdateNext]_updateVars => [Next]_chainVars /\ UpdateInv'
<1> SUFFICES ASSUME UpdateInv, [UpdateNext]_updateVars
             PROVE  [Next]_chainVars /\ ThreadInv'
  BY FreshNext DEF UpdateInv
<1>1. ASSUME NEW b \in Blocks, NodeAdopts(b)
      PROVE  [Next]_chainVars /\ ThreadInv'
  BY <1>1, NodeInv DEF NodeAdopts, UpdateInv, ThreadInv, UpdateTypeOK
<1>2. CASE OpenIndex \/ FinishOpenIndex
  BY <1>2, OpenInv
<1>3. CASE StartThread \/ Poll \/ Check
  BY <1>3, ReadsInv
<1>4. CASE Ask
  BY <1>4, AskInv
<1>5. CASE Push
  BY <1>5, PushInv
<1>6. CASE PushRefused
  BY <1>6, RefusedInv
<1>7. CASE PushStep
  BY <1>7, PushStepInv
<1>8. CASE FinishPush
  BY <1>8, FinishPushInv
<1>9. CASE AskFails \/ RpcFails \/ StopThread \/ Dies
  BY <1>9, EndsInv
<1>10. CASE UNCHANGED updateVars
  <2>1. node' \in Blocks /\ hung' \in BOOLEAN
    BY <1>10 DEF UpdateInv, ThreadInv, UpdateTypeOK, updateVars
  <2> QED BY <1>10, <2>1, NodeInv DEF updateVars
<1>11. CASE GetFees
  BY <1>11, NodeInv DEF GetFees, UpdateInv, ThreadInv, UpdateTypeOK
<1> QED
  BY <1>1, <1>2, <1>3, <1>4, <1>5, <1>6, <1>7, <1>8, <1>9, <1>10, <1>11
     DEF UpdateNext, ThreadStep

LEMMA UpdateSpecInv == InitRows = {} /\ UpdateSpec => []UpdateInv
<1>1. InitRows = {} /\ UpdateInit => UpdateInv
  BY InitThreadInv, FreshInit DEF UpdateInit, UpdateInv
<1> QED BY <1>1, UpdateStep, PTL DEF UpdateSpec

(***************************************************************************)
(* Theorems.                                                               *)
(***************************************************************************)

\* The thread's variables keep their types; -1 is the only negative height.
THEOREM ThreadTypeCorrect == InitRows = {} /\ UpdateSpec => []UpdateTypeOK
<1>1. UpdateInv => UpdateTypeOK
  BY DEF UpdateInv, ThreadInv
<1> QED BY <1>1, UpdateSpecInv, PTL

\* Whatever the node answers between two calls, and whenever the process dies,
\* the update thread drives the index only as Blockchain allows.
THEOREM ThreadDrivesBlockchain ==
    InitRows = {} /\ UpdateSpec => DrivesBlockchain
<1>1. UpdateInit => Init
  BY DEF UpdateInit
<1>2. InitRows = {} /\ UpdateSpec => Spec
  BY <1>1, UpdateSpecInv, UpdateStep, PTL DEF UpdateSpec, Spec
<1> QED BY <1>2 DEF DrivesBlockchain

\* What Blockchain promises is therefore true of the index under its thread.
THEOREM ThreadKeepsIndexRight ==
    InitRows = {} /\ UpdateSpec =>
        /\ []MapIsInverse
        /\ []ServesOneLineage
        /\ []NoLogicError
        /\ []RestartRestoresChain
        /\ []NoOrphanRows
        /\ []StartupNeverRefused
        /\ DurableChain
BY ThreadDrivesBlockchain, MapInverts, OneLineage, NoInternalError,
   RestartRestores, NoOrphans, AlwaysStarts, ImplementsChainIndex, PTL
   DEF DrivesBlockchain

\* The second push of UpdateToHash, whose result nobody looks at, always
\* attaches its block, however deep the recursion was.
THEOREM SecondPushAttaches == InitRows = {} /\ UpdateSpec => []SecondPushAccepted
<1>1. UpdateInv => SecondPushAccepted
  BY SecondAttaches DEF SecondPushAccepted
<1> QED BY <1>1, UpdateSpecInv, PTL

\* latestBlock is the height of the index whenever a loop compares it.
THEOREM CachedHeightCurrent ==
    InitRows = {} /\ UpdateSpec => []CachedHeightIsCurrent
<1>1. UpdateInv => CachedHeightIsCurrent
  BY DEF UpdateInv, ThreadInv, Heights, CachedHeightIsCurrent
<1> QED BY <1>1, UpdateSpecInv, PTL

\* While the index catches up, the recursion is no deeper than the number of
\* served blocks that the node has abandoned: each frame above the first is
\* the one block of its height that the node has in place of a served one.
THEOREM InitialUpdateShallow ==
    InitRows = {} /\ UpdateSpec => []InitialUpdateIsShallow
<1>1. ASSUME UpdateInv, thread = "push", phase = "initial", ~Frame.second
      PROVE  Len(stack) <= 1 + Cardinality(
                 {i \in DOMAIN blockchain :
                     ~\E k \in DOMAIN Lineage[stack[1].block] :
                         Lineage[stack[1].block][k] = blockchain[i].hash})
  <2> DEFINE m == Len(stack)
             b == stack[1].block
             n == Len(Lineage[b])
             c == Len(blockchain)
             gone == {i \in DOMAIN blockchain :
                         ~\E k \in DOMAIN Lineage[b] :
                             Lineage[b][k] = blockchain[i].hash}
  <2>1. /\ FreshInv /\ stack # <<>> /\ Descends(stack)
        /\ stack \in Seq([block : Blocks, second : BOOLEAN])
        /\ \A i \in 1..m : stack[i].block \notin DOMAIN block_map
        /\ n = c + 1
    BY <1>1 DEF UpdateInv, ThreadInv, UpdateTypeOK, Frames
  <2>2. /\ m \in Nat \ {0} /\ n \in Nat /\ m <= n
        /\ b \in Blocks
        /\ \A i \in 1..m :
              /\ stack[i] \in [block : Blocks, second : BOOLEAN]
              /\ stack[i].block \in Blocks
              /\ stack[i].block = Lineage[b][n + 1 - i]
              /\ n + 1 - i \in 1..n
              /\ Len(Lineage[stack[i].block]) = n + 1 - i
    BY <2>1, FrameFacts
  <2>3. /\ c \in Nat /\ DOMAIN blockchain = 1..c
        /\ \A i \in 1..c : /\ Len(Lineage[blockchain[i].hash]) = i
                           /\ blockchain[i].hash \in DOMAIN block_map
    BY <2>1, ServedFacts, LenProperties
  <2>4. /\ DOMAIN Lineage[b] = 1..n
        /\ \A k \in 1..n : Len(Lineage[Lineage[b][k]]) = k
    <3> HIDE DEF b, m, c, gone
    <3>1. b \in Blocks
      BY <2>2
    <3>2. /\ Lineage[b] \in Seq(Blocks)
          /\ \A k \in 1..Len(Lineage[b]) : Len(Lineage[Lineage[b][k]]) = k
      BY <3>1, LineageFacts, Zenon
    <3>3. DOMAIN Lineage[b] = 1..Len(Lineage[b])
      BY <3>2, LenProperties, Zenon
    <3> QED BY <3>2, <3>3 DEF n
  <2> HIDE DEF m, n, c, b
  <2>5. ASSUME NEW j \in (n + 1 - m)..c
        PROVE  j \in gone
    <3> DEFINE i == n + 1 - j
    <3>1. i \in 1..m /\ j \in 1..c /\ n + 1 - i = j
      BY <2>1, <2>2, <2>3
    <3>2. Lineage[b][j] \notin DOMAIN block_map
      <4> HIDE DEF i
      <4> QED BY <2>1, <2>2, <3>1
    <3>3. ASSUME NEW k \in 1..n, Lineage[b][k] = blockchain[j].hash
          PROVE  FALSE
      <4>1. k = j
        BY <2>3, <2>4, <3>1, <3>3
      <4> QED BY <2>3, <3>1, <3>2, <3>3, <4>1
    <3> QED BY <2>3, <2>4, <3>1, <3>3
  <2>6. IsFiniteSet(gone)
    <3>1. IsFiniteSet(1..c)
      BY <2>3, FS_Interval
    <3>2. gone \in SUBSET (1..c)
      BY <2>3
    <3> QED BY <3>1, <3>2, FS_Subset
  <2> HIDE DEF gone
  <2>7. Cardinality((n + 1 - m)..c) = m - 1
    <3>1. /\ n + 1 - m \in Int /\ c \in Int
          /\ n + 1 - m <= c + 1
          /\ c - (n + 1 - m) + 1 = m - 1
      BY <2>1, <2>2, <2>3
    <3>2. Cardinality((n + 1 - m)..c) =
              IF n + 1 - m > c THEN 0 ELSE c - (n + 1 - m) + 1
      BY <3>1, FS_Interval
    <3>3. n + 1 - m > c => m - 1 = 0
      BY <2>1, <2>2, <2>3
    <3> QED BY <3>1, <3>2, <3>3
  <2>8. Cardinality((n + 1 - m)..c) <= Cardinality(gone)
    <3> DEFINE above == (n + 1 - m)..c
    <3>1. above \in SUBSET gone
      BY <2>5
    <3> HIDE DEF above
    <3>2. Cardinality(above) <= Cardinality(gone)
      BY <2>6, <3>1, FS_Subset
    <3> QED BY <3>2 DEF above
  <2>9. m <= 1 + Cardinality(gone)
    <3>1. Cardinality(gone) \in Nat
      BY <2>6, FS_CardinalityType
    <3> QED BY <2>2, <2>7, <2>8, <3>1
  <2> QED BY <2>9 DEF m, gone, b
<1>2. UpdateInv => InitialUpdateIsShallow
  BY <1>1 DEF InitialUpdateIsShallow
<1> QED BY <1>2, UpdateSpecInv, PTL

=============================================================================
