-------------------------- MODULE EthIndex_proofs --------------------------
(***************************************************************************)
(* Proofs about EthIndex: whatever the node, the receipts, the stops and   *)
(* the restarts do, the tables hold one chain of blocks, the same as the   *)
(* memory, the thread never asks an empty chain for a block, requests are  *)
(* answered from the chain, and on Rsk the transfers recorded are its own. *)
(***************************************************************************)
EXTENDS EthIndex, EthDatabase_proofs

\* The chain of blocks is what every call keeps.
Sound(d) == Holds(d, FirstBlockHeight)

\* The blocks of the running UpdateToBlock calls: each above the first one of
\* the index, and each the parent of the one before it.
StackDescends ==
    /\ stack \in Seq(Hashes)
    /\ stack # <<>> <=> pc = "push"
    /\ \A i \in 1..Len(stack) :
          /\ Number(stack[i]) > FirstBlockHeight
          /\ i < Len(stack) => stack[i + 1] = ParentOf(stack[i])

\* The first block of a batch goes on an empty chain only if it is the first
\* of the index.
BatchStarts ==
    /\ queued \in Seq(Hashes)
    /\ pc # "fetch" => queued = <<>>
    /\ pc = "fetch" /\ db.chain = <<>> =>
          IF queued = <<>> THEN latest = FirstBlockHeight - 1
          ELSE Number(queued[1]) = FirstBlockHeight

\* What the thread counts with.
Counters ==
    /\ latest \in Int /\ latest >= -1
    /\ pc = "fetch" => goal \in Int
    /\ pc = "loop" => latest = Height(db)

\* The next id and the timestamp index fit the tables, but for the span of
\* the block being pushed, which a push that was rolled back has left there
\* and the push that repeats it adds again: nothing was reverted for it.
Left(S) ==
    S # {} => /\ pc = "push" /\ ~BlockRequired(db, Pushed)
              /\ BlocksToRevert(db, Pushed) = <<>> /\ S = {Stale(db, Pushed)}
MemoryFits ==
    IF pc = "down" THEN Tabled(db) ELSE \E S : Fits(db, S) /\ Left(S)

EthInv ==
    /\ network \in Networks
    /\ node \in Hashes /\ Number(node) > InitialLag
    /\ IF pc = "down" THEN Stored(db, FirstBlockHeight) ELSE Sound(db)
    /\ ChainIsNotEmpty
    /\ StackDescends
    /\ BatchStarts
    /\ Counters
    /\ MemoryFits

-----------------------------------------------------------------------------
(***************************************************************************)
(* InsertBlocks: a batch of the initial update.                            *)
(***************************************************************************)

\* What is so after i blocks of a batch.
BatchSound(r, i) ==
    /\ DOMAIN r = {"db", "restart"}
    /\ Sound(r.db) /\ Fits(r.db, {})
    /\ r.db.chain = <<>> => i = 0 /\ r.restart = FALSE

LEMMA FirstBlockHeightType == FirstBlockHeight \in {0, 1} /\ FirstBlockHeight \in Nat
BY DEF FirstBlockHeight

LEMMA InsertNextSound ==
    ASSUME NEW i \in Nat, NEW r, BatchSound(r, i), NEW h \in Hashes,
           i = 0 /\ r.db.chain = <<>> => Number(h) = FirstBlockHeight
    PROVE  BatchSound(InsertNext(r, h), i + 1)
<1>1. CASE r.restart \/ BlockRequired(r.db, h)
  <2>1. r.db.chain # <<>>
    BY <1>1 DEF BatchSound, BlockRequired
  <2>2. InsertNext(r, h) = [r EXCEPT !.restart = TRUE]
    BY <1>1 DEF InsertNext
  <2> QED BY <2>1, <2>2 DEF BatchSound
<1>2. CASE ~(r.restart \/ BlockRequired(r.db, h))
  <2> DEFINE e == InsertBlock(DeleteBlocks(r.db, BlocksToRevert(r.db, h)), h, {})
  <2>1. InsertNext(r, h) = [r EXCEPT !.db = e]
    BY <1>2 DEF InsertNext
  <2>2. r.db.chain = <<>> => Number(h) = FirstBlockHeight
    BY DEF BatchSound
  <2>3. /\ Sound(e) /\ Len(e.chain) \in Nat \ {0}
    BY <1>2, <2>2, PushEndsWith, FirstBlockHeightType DEF BatchSound, Sound
  <2>4. e.chain # <<>>
    BY <2>3, FirstBlockHeightType, ChainIsSeq DEF Sound
  <2>5. Fits(e, {})
    <3>1. Holds(r.db, FirstBlockHeight) /\ Fits(r.db, {}) /\ FirstBlockHeight \in Nat
          /\ {} \subseteq {Stale(r.db, h)} /\ ~BlockRequired(r.db, h)
      BY <1>2, FirstBlockHeightType DEF BatchSound, Sound
    <3> QED BY <3>1, PushFits
  <2> HIDE DEF e
  <2> QED BY <2>1, <2>3, <2>4, <2>5 DEF BatchSound
<1> QED BY <1>1, <1>2

\* What InsertBlocks has after each block of hs.
Batch(done, d, hs) ==
    /\ done[0] = [db |-> d, restart |-> FALSE]
    /\ \A i \in 1..Len(hs) : done[i] = InsertNext(done[i - 1], hs[i])

LEMMA InsertBlocksRuns ==
    ASSUME NEW d, NEW hs \in Seq(Hashes), NEW r, r = InsertBlocks(d, hs)
    PROVE  \E done : Batch(done, d, hs) /\ r = done[Len(hs)]
<1> DEFINE n == Len(hs)
           x == [db |-> d, restart |-> FALSE]
           Runs(g, k) == g = [i \in 0..k |-> IF i = 0 THEN x ELSE InsertNext(g[i - 1], hs[i])]
           S == {k \in 0..n : \E g : Runs(g, k)}
<1>1. n \in Nat /\ hs = [i \in 1..n |-> hs[i]] /\ \A i \in 1..n : hs[i] \in Hashes
  BY LenProperties, ElementOfSeq
<1>2. 0 \in S
  <2>1. Runs([i \in 0..0 |-> x], 0)
    OBVIOUS
  <2>2. 0 \in 0..n
    BY <1>1
  <2> HIDE DEF Runs
  <2> QED BY <2>1, <2>2
<1>3. ASSUME NEW k \in 0..(n - 1), k \in S
      PROVE  k + 1 \in S
  <2>1. PICK g : Runs(g, k)
    BY <1>3
  <2> DEFINE h == [i \in 0..(k + 1) |-> IF i = k + 1 THEN InsertNext(g[k], hs[k + 1]) ELSE g[i]]
  <2>2. ASSUME NEW i \in 0..(k + 1)
        PROVE  h[i] = IF i = 0 THEN x ELSE InsertNext(h[i - 1], hs[i])
    <3>1. CASE i = k + 1
      <4>1. i # 0 /\ i - 1 \in 0..(k + 1) /\ i - 1 = k /\ k # k + 1
        BY <1>1, <3>1
      <4>2. h[i - 1] = g[k]
        BY <4>1
      <4>3. h[i] = InsertNext(g[k], hs[k + 1])
        BY <3>1
      <4> HIDE DEF h
      <4> QED BY <3>1, <4>1, <4>2, <4>3
    <3>2. CASE i # k + 1
      <4>1. i \in 0..k
        BY <1>1, <3>2
      <4>2. h[i] = g[i]
        BY <3>2
      <4>3. g[i] = IF i = 0 THEN x ELSE InsertNext(g[i - 1], hs[i])
        BY <2>1, <4>1
      <4>4. i # 0 => h[i - 1] = g[i - 1]
        BY <1>1, <4>1
      <4> HIDE DEF h, x
      <4> QED BY <4>2, <4>3, <4>4
    <3> QED BY <3>1, <3>2
  <2>3. Runs(h, k + 1)
    <3>1. h = [i \in 0..(k + 1) |-> h[i]]
      OBVIOUS
    <3> HIDE DEF h, x
    <3> QED BY <2>2, <3>1
  <2>4. k + 1 \in 0..n
    BY <1>1
  <2> HIDE DEF Runs
  <2> QED BY <2>3, <2>4
<1>4. PICK g : Runs(g, n)
  <2> HIDE DEF S
  <2>1. n \in S
    BY <1>1, <1>2, <1>3, SegmentInduction
  <2> QED BY <2>1 DEF S
<1> DEFINE done == CHOOSE f : Runs(f, n)
<1>5. Runs(done, n)
  <2> HIDE DEF Runs
  <2> QED BY <1>4
<1>6. r = done[n]
  BY DEF InsertBlocks
<1> HIDE DEF done
<1>7. done[0] = x
  BY <1>1, <1>5
<1>8. \A i \in 1..n : done[i] = InsertNext(done[i - 1], hs[i])
  <2> SUFFICES ASSUME NEW i \in 1..n PROVE done[i] = InsertNext(done[i - 1], hs[i])
    OBVIOUS
  <2>1. i \in 0..n /\ i # 0
    BY <1>1
  <2> HIDE DEF x
  <2> QED BY <1>5, <2>1
<1> HIDE DEF Runs
<1> QED BY <1>6, <1>7, <1>8 DEF Batch

\* A batch, on an empty chain only from the first block of the index on.
LEMMA BatchStaysSound ==
    ASSUME NEW d, Sound(d), Fits(d, {}), NEW hs \in Seq(Hashes),
           d.chain = <<>> /\ hs # <<>> => Number(hs[1]) = FirstBlockHeight,
           NEW done, Batch(done, d, hs)
    PROVE  \A i \in 0..Len(hs) : BatchSound(done[i], i)
<1> DEFINE n == Len(hs)
           x == [db |-> d, restart |-> FALSE]
           T == {i \in 0..n : BatchSound(done[i], i)}
<1>1. n \in Nat /\ hs = [i \in 1..n |-> hs[i]] /\ \A i \in 1..n : hs[i] \in Hashes
  BY LenProperties, ElementOfSeq
<1>2. done[0] = x
  BY DEF Batch
<1>3. 0 \in T
  <2>1. x.db = d /\ x.restart = FALSE /\ DOMAIN x = {"db", "restart"}
    OBVIOUS
  <2> HIDE DEF x
  <2>2. Fits(d, {})
    OBVIOUS
  <2> QED BY <1>1, <1>2, <2>1, <2>2 DEF BatchSound
<1>4. ASSUME NEW i \in 0..(n - 1), i \in T
      PROVE  i + 1 \in T
  <2>1. i + 1 \in 0..n /\ i + 1 # 0 /\ (i + 1) - 1 = i /\ i + 1 \in 1..n /\ i \in Nat
    BY <1>1
  <2>2. done[i + 1] = InsertNext(done[i], hs[i + 1])
    BY <2>1 DEF Batch
  <2>3. i = 0 /\ done[i].db.chain = <<>> => Number(hs[i + 1]) = FirstBlockHeight
    <3>1. i = 0 => done[i].db = d /\ hs # <<>> /\ hs[i + 1] = hs[1]
      BY <1>1, <1>2, <2>1
    <3> QED BY <3>1
  <2>4. hs[i + 1] \in Hashes
    BY <1>1, <2>1
  <2>5. BatchSound(done[i + 1], i + 1)
    BY <1>4, <2>1, <2>2, <2>3, <2>4, InsertNextSound
  <2> QED BY <2>1, <2>5
<1>5. \A i \in 0..n : i \in T
  <2> HIDE DEF T
  <2> QED BY <1>1, <1>3, <1>4, SegmentInduction
<1> QED BY <1>5

LEMMA InsertBlocksSound ==
    ASSUME NEW d, Sound(d), Fits(d, {}), NEW hs \in Seq(Hashes),
           d.chain = <<>> /\ hs # <<>> => Number(hs[1]) = FirstBlockHeight,
           NEW r, r = InsertBlocks(d, hs)
    PROVE  /\ BatchSound(r, Len(hs))
           /\ hs = <<>> => r = [db |-> d, restart |-> FALSE]
<1>1. PICK done : Batch(done, d, hs) /\ r = done[Len(hs)]
  BY InsertBlocksRuns
<1>2. Len(hs) \in 0..Len(hs)
  BY LenProperties
<1>3. BatchSound(r, Len(hs))
  BY <1>1, <1>2, BatchStaysSound
<1>4. hs = <<>> => r = [db |-> d, restart |-> FALSE]
  <2>1. hs = <<>> => Len(hs) = 0
    OBVIOUS
  <2> QED BY <1>1, <2>1 DEF Batch
<1> QED BY <1>3, <1>4

-----------------------------------------------------------------------------
(***************************************************************************)
(* What the thread's calls do to a sound Database.                         *)
(***************************************************************************)

\* A call that leaves blocks and chain alone keeps it sound.
LEMMA SameChainSound ==
    ASSUME NEW d, NEW e, Sound(d), SameChain(d, e)
    PROVE  Sound(e) /\ e.chain = d.chain
BY DEF Sound, Holds, InMemory, SameChain

LEMMA AddAccumSound ==
    ASSUME NEW d, Sound(d), NEW calls, NEW min
    PROVE  Sound(AddAccum(d, calls, min)) /\ AddAccum(d, calls, min).chain = d.chain
<1>1. CASE Len(calls) < min
  BY <1>1 DEF AddAccum
<1>2. CASE ~(Len(calls) < min)
  <2>1. PICK cs : AddAccum(d, calls, min) = AddTokenTransactions(d, calls, cs)
    BY <1>2 DEF AddAccum
  <2>2. SameChain(d, AddTokenTransactions(d, calls, cs))
    BY AddTokenTransactionsFrame DEF Sound, Holds
  <2> QED BY <2>1, <2>2, SameChainSound
<1> QED BY <1>1, <1>2

LEMMA AddAccumFits ==
    ASSUME NEW d, DOMAIN d = Fields, NEW S, Fits(d, S), NEW calls, NEW min
    PROVE  Fits(AddAccum(d, calls, min), S)
<1>1. CASE Len(calls) < min
  BY <1>1 DEF AddAccum
<1>2. CASE ~(Len(calls) < min)
  <2>1. PICK cs : AddAccum(d, calls, min) = AddTokenTransactions(d, calls, cs)
    BY <1>2 DEF AddAccum
  <2>2. SameRows(d, AddTokenTransactions(d, calls, cs))
    BY AddTokenTransactionsRows
  <2> QED BY <2>1, <2>2, SameRowsFits
<1> QED BY <1>1, <1>2

\* Between two pushes the memory fits the tables as they are.
LEMMA SettledFits ==
    ASSUME EthInv, pc \notin {"down", "push"}
    PROVE  Fits(db, {})
<1>1. PICK S : Fits(db, S) /\ Left(S)
  BY DEF EthInv, MemoryFits
<1>2. S = {}
  BY <1>1 DEF Left
<1> QED BY <1>1, <1>2

\* The rows of a push that was rolled back: the chain is untouched.
LEMMA RollbackSound ==
    ASSUME NEW d, Sound(d), NEW h, NEW n, NEW calls
    PROVE  LET e == Rollback(InsertTransactions(InsertOnlyBlock(d, h), h, n, calls), d)
           IN  Sound(e) /\ e.chain = d.chain
<1> DEFINE o == InsertOnlyBlock(d, h)
           t == InsertTransactions(o, h, n, calls)
           e == Rollback(t, d)
<1>1. DOMAIN d = Fields
  BY DEF Sound, Holds
<1>2. DOMAIN o = Fields /\ o.chain = d.chain
  BY <1>1, InsertOnlyBlockAdds
<1>3. DOMAIN t = Fields /\ t.chain = d.chain
  BY <1>2, InsertTransactionsFrame DEF SameChain
<1>4. DOMAIN e = Fields /\ e.chain = d.chain /\ e.blocks = d.blocks
  <2> HIDE DEF t
  <2> QED BY <1>3 DEF Rollback, Fields
<1>5. Sound(e)
  <2> HIDE DEF e
  <2> QED BY <1>4 DEF Sound, Holds, InMemory
<1> QED BY <1>4, <1>5

\* A block the node returns for a number between its first and its head.
LEMMA BlockByNumberFacts ==
    ASSUME node \in Hashes, NEW n \in Nat, n <= Number(node)
    PROVE  BlockByNumber(n) \in Hashes /\ Number(BlockByNumber(n)) = n
<1>1. n + 1 \in 1..(Number(node) + 1)
  BY BlockFacts
<1> QED BY <1>1, BlockFacts DEF BlockByNumber

\* A block above the first one of the index stands on it.
LEMMA CommonFirst ==
    ASSUME network \in Networks, NEW g \in Hashes, NEW h \in Hashes,
           Number(g) = FirstBlockHeight, Number(h) = FirstBlockHeight
    PROVE  g = h
<1> DEFINE i == FirstBlockHeight + 1
<1>1. /\ i \in 1..(IF "Rsk" \in Networks THEN 2 ELSE 1)
  BY DEF FirstBlockHeight
<1>2. Len(Lineage[g]) = i /\ Len(Lineage[h]) = i /\ Lineage[g][i] = g /\ Lineage[h][i] = h
  BY BlockFacts
<1> QED BY <1>1, <1>2, ForkAssumption DEF ForkAssumption

\* A block that TryAddNewBlock refuses has a parent above the index's first.
LEMMA RequiredParent ==
    ASSUME network \in Networks, Sound(db), db.chain # <<>>,
           NEW h \in Hashes, Number(h) > FirstBlockHeight, BlockRequired(db, h)
    PROVE  /\ ParentOf(h) \in Hashes
           /\ Number(ParentOf(h)) > FirstBlockHeight
<1>1. /\ FirstBlockHeight \in Nat /\ Number(h) \in Nat /\ Number(h) # 0
  BY FirstBlockHeightType, BlockFacts
<1>2. ParentOf(h) \in Hashes /\ Number(ParentOf(h)) = Number(h) - 1
  BY <1>1, ParentFacts
<1>3. /\ 1 \in DOMAIN db.chain
      /\ db.chain[1].hash \in Hashes /\ Number(db.chain[1].hash) = FirstBlockHeight
  <2>1. Len(db.chain) \in Nat \ {0} /\ 1 \in 1..Len(db.chain) /\ DOMAIN db.chain = 1..Len(db.chain)
    BY <1>1, ChainIsSeq DEF Sound, Holds
  <2>2. db.chain[1].hash \in Hashes /\ Number(db.chain[1].hash) = 1 - 1 + FirstBlockHeight
    BY <1>1, <2>1, ChainIsSeq DEF Sound
  <2> QED BY <1>1, <2>1, <2>2
<1>4. db.chain[1].hash # ParentOf(h)
  BY <1>1, <1>3 DEF BlockRequired
<1>5. Number(ParentOf(h)) # FirstBlockHeight
  BY <1>2, <1>3, <1>4, CommonFirst
<1> QED BY <1>1, <1>2, <1>5

\* Height of a sound chain.
LEMMA HeightType ==
    ASSUME NEW d, Sound(d)
    PROVE  /\ Height(d) \in Int /\ Height(d) >= FirstBlockHeight - 1
           /\ d.chain = <<>> <=> Height(d) = FirstBlockHeight - 1
<1>1. Len(d.chain) \in Nat /\ FirstBlockHeight \in Nat
  BY FirstBlockHeightType DEF Sound, Holds
<1>2. d.chain = <<>> <=> Len(d.chain) = 0
  BY <1>1, ChainIsSeq DEF Sound
<1> QED BY <1>1, <1>2 DEF Height

-----------------------------------------------------------------------------
(***************************************************************************)
(* EthInv is inductive.                                                    *)
(***************************************************************************)

LEMMA InitInv == Init => EthInv
<1> SUFFICES ASSUME Init PROVE EthInv
  OBVIOUS
<1>1. Stored(db, FirstBlockHeight)
  <2>1. /\ DOMAIN EmptyDatabase = Fields /\ EmptyDatabase.chain = <<>>
        /\ EmptyDatabase.blocks = <<>>
    BY DEF EmptyDatabase, Fields
  <2>2. OneChain(<<>>, 0, FirstBlockHeight)
    BY DEF OneChain
  <2> QED BY <2>1, <2>2 DEF Init, Stored
<1>2. node \in Hashes /\ Number(node) > InitialLag
  BY EthIndexAssumption DEF Init, EthIndexAssumption
<1>3. ChainIsNotEmpty /\ StackDescends /\ BatchStarts /\ Counters
  BY DEF Init, ChainIsNotEmpty, StackDescends, BatchStarts, Counters
<1>4. MemoryFits
  <2> DEFINE d == EmptyDatabase
  <2>1. d.blocks = <<>> /\ d.txs = <<>>
    BY DEF EmptyDatabase
  <2> HIDE DEF d
  <2>2. /\ d.blocks = [i \in 1..0 |-> d.blocks[i]]
        /\ Consecutive(d.blocks, 0) /\ NextId(d.blocks, 0) = 1
    BY <2>1 DEF Consecutive, NextId
  <2>3. Filled(d.blocks, d.txs, 0)
    BY <2>1, <2>2 DEF Filled
  <2>4. Tabled(d)
    BY <2>2, <2>3 DEF Tabled
  <2> QED BY <2>4 DEF Init, MemoryFits, d
<1> QED BY <1>1, <1>2, <1>3, <1>4 DEF EthInv, Init

\* A death of the process that leaves the tables of a sound Database.
LEMMA DieInv ==
    ASSUME EthInv, NEW d, Sound(d), NEW S, Fits(d, S), Die(d), UNCHANGED <<network, node>>
    PROVE  EthInv'
<1>1. Stored(db', FirstBlockHeight)
  BY ForgetStores, FirstBlockHeightType DEF Die, Sound
<1>2. FirstBlockHeight' = FirstBlockHeight
  BY DEF FirstBlockHeight
<1>3. /\ pc' = "down" /\ stack' = <<>> /\ queued' = <<>> /\ latest' = 0
  BY DEF Die
<1>4. Stored(db, FirstBlockHeight)'
  BY <1>1, <1>2 DEF Stored
<1>5. /\ network' \in Networks /\ node' \in Hashes /\ Number(node') > InitialLag
  BY DEF EthInv
<1>6. ChainIsNotEmpty' /\ StackDescends' /\ BatchStarts' /\ Counters'
  BY <1>3 DEF ChainIsNotEmpty, StackDescends, BatchStarts, Counters
<1>7. MemoryFits'
  <2>1. Tabled(db')
    BY ForgetTabled DEF Die, Sound, Holds
  <2> QED BY <1>3, <2>1 DEF MemoryFits, Tabled
<1> QED BY <1>3, <1>4, <1>5, <1>6, <1>7 DEF EthInv

\* A step that leaves the node alone keeps what is said of it.
LEMMA StepLeaves ==
    ASSUME EthInv, UNCHANGED <<network, node>>, pc' # "down",
           Sound(db'), NEW S, Fits(db', S), Left(S)',
           (ChainIsNotEmpty /\ StackDescends /\ BatchStarts /\ Counters)'
    PROVE  EthInv'
<1>1. FirstBlockHeight' = FirstBlockHeight
  BY DEF FirstBlockHeight
<1>2. Sound(db)'
  BY <1>1 DEF Sound
<1>3. Fits(db, S)'
  BY DEF Fits, FitsRows
<1>4. MemoryFits'
  BY <1>3 DEF MemoryFits
<1> QED BY <1>2, <1>4 DEF EthInv

\* The same, where no span is left.
LEMMA StepOfThread ==
    ASSUME EthInv, UNCHANGED <<network, node>>, pc' # "down",
           Sound(db'), Fits(db', {}),
           (ChainIsNotEmpty /\ StackDescends /\ BatchStarts /\ Counters)'
    PROVE  EthInv'
<1>1. Left({})'
  BY DEF Left
<1> QED BY <1>1, StepLeaves

\* Start, and what the main thread does.
LEMMA StartInv ==
    ASSUME EthInv, Start
    PROVE  EthInv'
<1>1. FirstBlockHeight' = FirstBlockHeight
  BY DEF FirstBlockHeight, Start, world
<1>2. Sound(db')
  BY OpenHolds, FirstBlockHeightType DEF Start, EthInv, Sound
<1>3. (ChainIsNotEmpty /\ StackDescends /\ BatchStarts /\ Counters)'
  BY <1>1 DEF EthInv, Start, locals, world, ChainIsNotEmpty, StackDescends, BatchStarts,
              Counters
<1>4. Fits(db', {})
  BY OpenFits DEF Start, EthInv, MemoryFits, Stored
<1> QED BY <1>2, <1>3, <1>4, StepOfThread DEF Start, world

LEMMA CleanUpInv ==
    ASSUME EthInv, CleanUp
    PROVE  EthInv'
<1>1. FirstBlockHeight' = FirstBlockHeight
  BY DEF FirstBlockHeight, CleanUp, world
<1>2. PICK block \in CleanUpFrom(db) : db' = CleanUpDatabase(db, block)
  BY DEF CleanUp
<1>3. block \in DOMAIN db.blocks
  BY DEF CleanUpFrom
<1>4. Stored(db', FirstBlockHeight)
  BY <1>2, <1>3, CleanUpStores, FirstBlockHeightType DEF CleanUp, EthInv
<1>5. Stored(db, FirstBlockHeight)'
  BY <1>1, <1>4 DEF Stored
<1>6. (ChainIsNotEmpty /\ StackDescends /\ BatchStarts /\ Counters)'
  BY <1>1 DEF EthInv, CleanUp, locals, world, ChainIsNotEmpty, StackDescends, BatchStarts,
              Counters
<1>7. MemoryFits'
  <2>1. Tabled(db')
    BY <1>2, <1>3, CleanUpTabled DEF CleanUp, EthInv, MemoryFits, Stored
  <2> QED BY <2>1 DEF CleanUp, MemoryFits, Tabled
<1> QED BY <1>5, <1>6, <1>7 DEF EthInv, CleanUp, world

LEMMA LoadTokensInv ==
    ASSUME EthInv, LoadTokens
    PROVE  EthInv'
<1>1. FirstBlockHeight' = FirstBlockHeight
  BY DEF FirstBlockHeight, LoadTokens, world
<1>2. Sound(db') /\ db'.chain = db.chain
  <2>1. Sound(db)
    BY DEF EthInv, LoadTokens
  <2>2. SameChain(db, db')
    BY <2>1, EncodeFrame DEF LoadTokens, Sound, Holds
  <2> QED BY <2>1, <2>2, SameChainSound
<1>3. (ChainIsNotEmpty /\ StackDescends /\ BatchStarts /\ Counters)'
  BY <1>1, <1>2 DEF EthInv, LoadTokens, locals, world, ChainIsNotEmpty, StackDescends,
              BatchStarts, Counters, Height
<1>4. PICK S : Fits(db, S) /\ Left(S)
  BY DEF EthInv, MemoryFits, LoadTokens
<1>5. SameRows(db, db')
  BY EncodeRows DEF LoadTokens, EthInv, Sound, Holds
<1>6. Fits(db', S)
  BY <1>4, <1>5, SameRowsFits
<1>7. Left(S)'
  BY <1>4, <1>5 DEF Left, LoadTokens, locals, SameRows, SameChain, BlockRequired,
                    BlocksToRevert, Stale, Pushed, Last
<1> QED BY <1>2, <1>3, <1>6, <1>7, StepLeaves DEF LoadTokens, world

\* The initial update.
LEMMA PlanInv ==
    ASSUME EthInv, Plan
    PROVE  EthInv'
<1>1. FirstBlockHeight' = FirstBlockHeight /\ FirstBlockHeight \in {0, 1}
  BY FirstBlockHeightType DEF FirstBlockHeight, Plan, world
<1>2. Sound(db) /\ db' = db /\ queued = <<>> /\ queued' = <<>> /\ stack' = <<>>
  BY DEF EthInv, Plan, BatchStarts, StackDescends
<1>3. /\ Height(db) \in Int /\ Height(db) >= FirstBlockHeight - 1
      /\ db.chain = <<>> <=> Height(db) = FirstBlockHeight - 1
  BY <1>2, HeightType
<1>4. Number(node) - InitialLag >= 1 /\ Number(node) - InitialLag \in Int
  BY BlockFacts, EthIndexAssumption DEF EthInv, EthIndexAssumption
<1>5. ChainIsNotEmpty'
  <2>1. pc' = "tokens" => Height(db) >= 1
    BY <1>3, <1>4 DEF Plan
  <2> QED BY <1>1, <1>2, <1>3, <2>1 DEF ChainIsNotEmpty, Plan
<1>6. StackDescends'
  BY <1>2 DEF StackDescends, Plan
<1>7. BatchStarts'
  BY <1>1, <1>2, <1>3 DEF BatchStarts, Plan
<1>8. Counters'
  BY <1>1, <1>3, <1>4 DEF Counters, Plan, world
<1>9. Fits(db', {})
  BY <1>2, SettledFits DEF Plan
<1> QED BY <1>2, <1>5, <1>6, <1>7, <1>8, <1>9, StepOfThread DEF Plan, world

LEMMA FetchInv ==
    ASSUME EthInv, Fetch
    PROVE  EthInv'
<1>1. FirstBlockHeight' = FirstBlockHeight /\ FirstBlockHeight \in {0, 1}
  BY FirstBlockHeightType DEF FirstBlockHeight, Fetch, world
<1> DEFINE h == BlockByNumber(latest + 1)
<1>2. /\ latest \in Int /\ latest >= -1 /\ latest < Number(node) /\ goal \in Int
      /\ Number(node) \in Nat /\ node \in Hashes
  BY BlockFacts DEF EthInv, Counters, Fetch
<1>3. h \in Hashes /\ Number(h) = latest + 1
  BY <1>2, BlockByNumberFacts
<1>4. Sound(db) /\ db' = db /\ stack = <<>> /\ queued \in Seq(Hashes)
  BY DEF EthInv, Fetch, BatchStarts, StackDescends
<1>5. /\ queued' \in Seq(Hashes) /\ queued' # <<>>
      /\ queued'[1] = IF queued = <<>> THEN h ELSE queued[1]
  <2>1. queued' = Append(queued, h)
    BY DEF Fetch
  <2>2. queued = <<>> <=> Len(queued) = 0
    BY <1>4, EmptySeq
  <2> HIDE DEF h
  <2> QED BY <1>3, <1>4, <2>1, <2>2, AppendProperties, LenProperties
<1>6. ChainIsNotEmpty' /\ StackDescends'
  BY <1>4 DEF ChainIsNotEmpty, StackDescends, Fetch
<1>7. BatchStarts'
  BY <1>1, <1>2, <1>3, <1>4, <1>5 DEF EthInv, BatchStarts, Fetch
<1>8. Counters'
  BY <1>2 DEF EthInv, Counters, Fetch, world
<1>9. Fits(db', {})
  BY <1>4, SettledFits DEF Fetch
<1> QED BY <1>4, <1>6, <1>7, <1>8, <1>9, StepOfThread DEF Fetch, world

\* A batch, committed or at a stop.
LEMMA BatchCommits ==
    ASSUME EthInv, pc = "fetch", NEW r, r = InsertBlocks(db, queued)
    PROVE  BatchSound(r, Len(queued)) /\ (queued = <<>> => r = [db |-> db, restart |-> FALSE])
<1>1. /\ Sound(db) /\ queued \in Seq(Hashes)
      /\ db.chain = <<>> /\ queued # <<>> => Number(queued[1]) = FirstBlockHeight
  BY DEF EthInv, BatchStarts
<1> QED BY <1>1, SettledFits, InsertBlocksSound

LEMMA CommitInv ==
    ASSUME EthInv, Commit
    PROVE  EthInv'
<1>1. FirstBlockHeight' = FirstBlockHeight /\ FirstBlockHeight \in {0, 1}
  BY FirstBlockHeightType DEF FirstBlockHeight, Commit, world
<1> DEFINE r == InsertBlocks(db, queued)
<1>2. /\ db' = r.db
      /\ pc' = IF r.restart THEN "tokens" ELSE IF latest < goal THEN "fetch" ELSE "plan"
  BY DEF Commit
<1>3. BatchSound(r, Len(queued)) /\ (queued = <<>> => r = [db |-> db, restart |-> FALSE])
  BY BatchCommits DEF Commit
<1> HIDE DEF r
<1>4. Sound(db') /\ queued' = <<>> /\ stack = <<>> /\ queued \in Seq(Hashes)
  BY <1>2, <1>3 DEF EthInv, Commit, BatchSound, StackDescends, BatchStarts
<1>5. db'.chain = <<>> => queued = <<>> /\ db' = db /\ ~r.restart
  <2>1. db'.chain = <<>> => Len(queued) = 0 /\ r.restart = FALSE
    BY <1>2, <1>3 DEF BatchSound
  <2>2. Len(queued) = 0 => queued = <<>>
    BY <1>4, EmptySeq
  <2> QED BY <1>2, <1>3, <2>1, <2>2
<1>6. ChainIsNotEmpty'
  BY <1>2, <1>5 DEF ChainIsNotEmpty
<1>7. StackDescends'
  BY <1>2, <1>4 DEF StackDescends, Commit
<1>8. BatchStarts'
  <2>1. pc' = "fetch" /\ db'.chain = <<>> => latest = FirstBlockHeight - 1
    BY <1>5 DEF EthInv, BatchStarts, Commit
  <2> QED BY <1>1, <1>4, <2>1 DEF BatchStarts, Commit
<1>9. Counters'
  BY <1>2 DEF EthInv, Counters, Commit, world
<1>10. Fits(db', {})
  BY <1>2, <1>3 DEF BatchSound
<1> QED BY <1>2, <1>4, <1>6, <1>7, <1>8, <1>9, <1>10, StepOfThread DEF Commit, world

LEMMA StopInitialInv ==
    ASSUME EthInv, StopInitial
    PROVE  EthInv'
<1>1. Sound(InsertBlocks(db, queued).db) /\ Fits(InsertBlocks(db, queued).db, {})
  BY BatchCommits DEF StopInitial, BatchSound
<1> QED BY <1>1, DieInv DEF StopInitial

LEMMA CrashInv ==
    ASSUME EthInv, Crash
    PROVE  EthInv'
<1>1. PICK S : Sound(db) /\ Fits(db, S)
  BY DEF EthInv, Crash, MemoryFits
<1> QED BY <1>1, DieInv DEF Crash

\* The token update.
LEMMA TokenInv ==
    ASSUME EthInv, TokenPlan \/ TokenBlock \/ TokenBlockMissing \/ TokensDone
    PROVE  EthInv'
<1>1. Sound(db) /\ db.chain # <<>> /\ stack = <<>> /\ queued = <<>>
  BY DEF EthInv, TokenPlan, TokenBlock, TokenBlockMissing, TokensDone, ChainIsNotEmpty,
         StackDescends, BatchStarts
<1>2. CASE TokenBlockMissing
  <2>1. Fits(db, {})
    BY <1>2, SettledFits DEF TokenBlockMissing
  <2> QED BY <1>1, <1>2, <2>1, DieInv DEF TokenBlockMissing, world
<1>3. CASE TokenPlan \/ TokenBlock \/ TokensDone
  <2>1. Sound(db') /\ db'.chain = db.chain
    BY <1>1, <1>3, AddAccumSound DEF TokenPlan, TokenBlock, TokensDone
  <2>2. /\ pc' \in {"token", "loop"} /\ stack' = <<>> /\ queued' = <<>>
        /\ UNCHANGED <<network, node>>
    BY <1>1, <1>3 DEF TokenPlan, TokenBlock, TokensDone, world
  <2>3. ChainIsNotEmpty' /\ StackDescends' /\ BatchStarts'
    BY <1>1, <2>1, <2>2 DEF ChainIsNotEmpty, StackDescends, BatchStarts
  <2>4. Counters'
    <3>1. CASE TokenPlan \/ TokenBlock
      BY <3>1 DEF TokenPlan, TokenBlock, Counters, EthInv
    <3>2. CASE TokensDone
      <4>1. latest' = Height(db)
        BY <3>2 DEF TokensDone
      <4>2. Height(db)' = Height(db)
        BY <2>1, <2>2 DEF Height, FirstBlockHeight
      <4>3. latest' \in Int /\ latest' >= -1
        BY <1>1, <4>1, HeightType, FirstBlockHeightType
      <4> QED BY <3>2, <4>1, <4>2, <4>3 DEF TokensDone, Counters
    <3> QED BY <1>3, <3>1, <3>2
  <2>5. Fits(db', {})
    <3>1. Fits(db, {}) /\ DOMAIN db = Fields
      BY <1>1, <1>3, SettledFits DEF TokenPlan, TokenBlock, TokensDone, Sound, Holds
    <3> QED BY <1>3, <3>1, AddAccumFits DEF TokenPlan, TokenBlock, TokensDone
  <2> QED BY <2>1, <2>2, <2>3, <2>4, <2>5, StepOfThread
<1> QED BY <1>2, <1>3

\* The node has no block of the next number.
LEMMA BlockMissingInv ==
    ASSUME EthInv, BlockMissing
    PROVE  EthInv'
<1>1. Sound(db) /\ Fits(db, {})
  BY SettledFits DEF EthInv, BlockMissing
<1> QED BY <1>1, DieInv DEF BlockMissing, world

\* GetLatestPublicBlock.
LEMMA PollInv ==
    ASSUME EthInv, Poll
    PROVE  EthInv'
<1>1. /\ Sound(db) /\ db' = db /\ queued' = <<>> /\ stack' = <<>> /\ pc' = "loop"
      /\ UNCHANGED <<network, node, latest>>
  BY DEF EthInv, Poll, world, BatchStarts, StackDescends
<1>2. FirstBlockHeight' = FirstBlockHeight /\ Height(db)' = Height(db)
  BY <1>1 DEF FirstBlockHeight, Height
<1>3. ChainIsNotEmpty' /\ StackDescends' /\ BatchStarts' /\ Counters'
  BY <1>1, <1>2 DEF EthInv, Poll, ChainIsNotEmpty, StackDescends, BatchStarts, Counters
<1>4. Fits(db', {})
  BY <1>1, SettledFits DEF Poll
<1> QED BY <1>1, <1>3, <1>4, StepOfThread

\* UpdateToBlock.
LEMMA FollowNodeInv ==
    ASSUME EthInv, FollowNode
    PROVE  EthInv'
<1>1. FirstBlockHeight' = FirstBlockHeight /\ FirstBlockHeight \in {0, 1}
  BY FirstBlockHeightType DEF FirstBlockHeight, FollowNode, world
<1> DEFINE h == BlockByNumber(latest + 1)
<1>2. /\ Sound(db) /\ db' = db /\ db.chain # <<>> /\ queued = <<>> /\ latest = Height(db)
  BY DEF EthInv, FollowNode, ChainIsNotEmpty, BatchStarts, Counters
<1>3. /\ latest \in Int /\ latest >= FirstBlockHeight /\ Number(node) \in Nat
      /\ node \in Hashes
  BY <1>1, <1>2, HeightType, BlockFacts DEF EthInv
<1>4. h \in Hashes /\ Number(h) = latest + 1
  <2>1. latest + 1 \in Nat /\ latest + 1 <= Number(node)
    BY <1>1, <1>3 DEF FollowNode
  <2> QED BY <1>3, <2>1, BlockByNumberFacts
<1>5. stack' = <<h>>
  BY DEF FollowNode
<1>6. StackDescends'
  <2> HIDE DEF h
  <2> QED BY <1>1, <1>3, <1>4, <1>5 DEF FollowNode, StackDescends
<1>7. ChainIsNotEmpty' /\ BatchStarts' /\ Counters'
  BY <1>2 DEF EthInv, ChainIsNotEmpty, BatchStarts, Counters, FollowNode
<1>8. Fits(db', {})
  BY <1>2, SettledFits DEF FollowNode
<1> QED BY <1>2, <1>6, <1>7, <1>8, StepOfThread DEF FollowNode, world

\* The block being pushed.
LEMMA PushedFacts ==
    ASSUME EthInv, pc = "push"
    PROVE  /\ Len(stack) \in Nat \ {0}
           /\ Pushed = stack[Len(stack)]
           /\ Pushed \in Hashes /\ Number(Pushed) > FirstBlockHeight
           /\ Sound(db) /\ db.chain # <<>> /\ queued = <<>>
<1>1. stack \in Seq(Hashes) /\ stack # <<>>
  BY DEF EthInv, StackDescends
<1>2. Len(stack) \in Nat \ {0} /\ Pushed = stack[Len(stack)]
  BY <1>1, LenProperties, EmptySeq DEF Pushed, Last
<1>3. Len(stack) \in 1..Len(stack)
  BY <1>2
<1>4. Pushed \in Hashes
  BY <1>1, <1>2, <1>3, ElementOfSeq
<1>5. Number(Pushed) > FirstBlockHeight
  BY <1>2, <1>3 DEF EthInv, StackDescends
<1> QED BY <1>2, <1>4, <1>5 DEF EthInv, ChainIsNotEmpty, BatchStarts

LEMMA PushRequiresInv ==
    ASSUME EthInv, PushRequires
    PROVE  EthInv'
<1>1. FirstBlockHeight' = FirstBlockHeight /\ FirstBlockHeight \in {0, 1}
  BY FirstBlockHeightType DEF FirstBlockHeight, PushRequires, world
<1> DEFINE n == Len(stack)
           p == ParentOf(Pushed)
<1>2. /\ n \in Nat \ {0} /\ Pushed = stack[n]
      /\ Pushed \in Hashes /\ Number(Pushed) > FirstBlockHeight
      /\ Sound(db) /\ db' = db /\ db.chain # <<>> /\ queued = <<>>
      /\ BlockRequired(db, Pushed) /\ network \in Networks
      /\ stack' = Append(stack, p) /\ stack \in Seq(Hashes)
      /\ \A i \in 1..n : /\ Number(stack[i]) > FirstBlockHeight
                         /\ i < n => stack[i + 1] = ParentOf(stack[i])
  BY PushedFacts DEF PushRequires, EthInv, StackDescends
<1>3. p \in Hashes /\ Number(p) > FirstBlockHeight
  BY <1>2, RequiredParent
<1>4. /\ stack' \in Seq(Hashes) /\ Len(stack') = n + 1 /\ stack'[n + 1] = p
      /\ \A i \in 1..n : stack'[i] = stack[i]
  <2> HIDE DEF p
  <2> QED BY <1>2, <1>3, AppendProperties
<1>5. StackDescends'
  <2>1. stack' # <<>> /\ pc' = "push"
    BY <1>2, <1>4 DEF PushRequires
  <2>2. ASSUME NEW i \in 1..(n + 1)
        PROVE  /\ Number(stack'[i]) > FirstBlockHeight
               /\ i < n + 1 => stack'[i + 1] = ParentOf(stack'[i])
    <3>1. CASE i = n + 1
      BY <1>2, <1>3, <1>4, <3>1
    <3>2. CASE i = n
      <4>1. i \in 1..n /\ stack'[i] = Pushed /\ stack'[i + 1] = p
        BY <1>2, <1>4, <3>2
      <4> QED BY <1>2, <4>1
    <3>3. CASE i \notin {n, n + 1}
      <4>1. i \in 1..n /\ i + 1 \in 1..n /\ i < n
        BY <1>2, <3>3
      <4> HIDE DEF n, p
      <4> QED BY <1>2, <1>4, <4>1
    <3> QED BY <3>1, <3>2, <3>3
  <2> HIDE DEF n
  <2> QED BY <1>1, <1>4, <2>1, <2>2 DEF StackDescends
<1>6. ChainIsNotEmpty' /\ BatchStarts' /\ Counters'
  BY <1>2 DEF EthInv, ChainIsNotEmpty, BatchStarts, Counters, PushRequires
<1>7. Fits(db', {})
  <2>1. PICK S : Fits(db, S) /\ Left(S)
    BY DEF EthInv, MemoryFits, PushRequires
  <2>2. S = {}
    BY <1>2, <2>1 DEF Left
  <2> QED BY <1>2, <2>1, <2>2
<1> QED BY <1>2, <1>5, <1>6, <1>7, StepOfThread DEF PushRequires, world

\* A push leaves a chain that ends with the block pushed.
LEMMA PushFacts ==
    ASSUME EthInv, Push
    PROVE  /\ Sound(db') /\ Len(db'.chain) \in Nat \ {0} /\ db'.chain # <<>>
           /\ db'.chain[Len(db'.chain)].hash = Pushed
<1>1. /\ Pushed \in Hashes /\ Sound(db) /\ db.chain # <<>> /\ ~BlockRequired(db, Pushed)
  BY PushedFacts DEF Push
<1>2. /\ Sound(db') /\ Len(db'.chain) \in Nat \ {0}
      /\ db'.chain[Len(db'.chain)].hash = Pushed
  BY <1>1, PushEndsWith, FirstBlockHeightType DEF Push, Sound
<1>3. db'.chain # <<>>
  BY <1>2, ChainIsSeq, FirstBlockHeightType DEF Sound
<1> QED BY <1>2, <1>3

\* The stack without its last block.
LEMMA FrontFacts ==
    ASSUME EthInv, pc = "push"
    PROVE  /\ Front(stack) \in Seq(Hashes)
           /\ Len(Front(stack)) = Len(stack) - 1
           /\ \A i \in 1..(Len(stack) - 1) : Front(stack)[i] = stack[i]
           /\ Front(stack) = <<>> <=> Len(stack) = 1
<1> DEFINE n == Len(stack)
<1>1. stack \in Seq(Hashes) /\ n \in Nat \ {0}
  BY PushedFacts DEF EthInv, StackDescends
<1>2. \A i \in 1..(n - 1) : stack[i] \in Hashes
  <2>1. \A i \in 1..(n - 1) : i \in 1..n
    BY <1>1
  <2> QED BY <1>1, <2>1, ElementOfSeq
<1>3. Front(stack) = SubSeq(stack, 1, n - 1)
  BY DEF Front
<1>4. /\ Front(stack) \in Seq(Hashes)
      /\ Len(Front(stack)) = n - 1
      /\ \A i \in 1..(n - 1) : Front(stack)[i] = stack[i]
  <2> HIDE DEF n
  <2>1. /\ SubSeq(stack, 1, n - 1) \in Seq(Hashes)
        /\ Len(SubSeq(stack, 1, n - 1)) = IF 1 <= n - 1 THEN (n - 1) - 1 + 1 ELSE 0
        /\ \A i \in 1..((n - 1) - 1 + 1) : SubSeq(stack, 1, n - 1)[i] = stack[1 + i - 1]
    BY <1>1, <1>2, SubSeqProperties
  <2> QED BY <1>1, <1>3, <2>1
<1>5. Front(stack) = <<>> <=> n = 1
  BY <1>1, <1>4, EmptySeq
<1> QED BY <1>4, <1>5

LEMMA PushInv ==
    ASSUME EthInv, Push
    PROVE  EthInv'
<1>1. FirstBlockHeight' = FirstBlockHeight /\ FirstBlockHeight \in {0, 1}
  BY FirstBlockHeightType DEF FirstBlockHeight, Push, world
<1>2. Sound(db') /\ db'.chain # <<>> /\ queued = <<>> /\ queued' = <<>>
  BY PushFacts, PushedFacts DEF Push
<1>3. StackDescends'
  <2> DEFINE n == Len(stack)
  <2>1. /\ stack' \in Seq(Hashes) /\ Len(stack') = n - 1 /\ n \in Nat \ {0}
        /\ \A i \in 1..(n - 1) : stack'[i] = stack[i]
        /\ stack' # <<>> <=> pc' = "push"
    BY FrontFacts, PushedFacts DEF Push
  <2>2. ASSUME NEW i \in 1..(n - 1)
        PROVE  /\ Number(stack'[i]) > FirstBlockHeight
               /\ i < n - 1 => stack'[i + 1] = ParentOf(stack'[i])
    <3>1. /\ i \in 1..n /\ i < n
          /\ i < n - 1 => i + 1 \in 1..(n - 1)
      BY <2>1
    <3>2. /\ Number(stack[i]) > FirstBlockHeight
          /\ stack[i + 1] = ParentOf(stack[i])
      BY <3>1 DEF EthInv, StackDescends
    <3> HIDE DEF n
    <3> QED BY <2>1, <3>1, <3>2
  <2> HIDE DEF n
  <2> QED BY <1>1, <2>1, <2>2 DEF StackDescends
<1>4. ChainIsNotEmpty' /\ BatchStarts'
  BY <1>2 DEF ChainIsNotEmpty, BatchStarts, Push
<1>5. Counters'
  <2>1. pc' = "loop" => latest' = Height(db') /\ Height(db)' = Height(db')
    BY <1>1 DEF Push, Height
  <2>2. latest' \in Int /\ latest' >= -1
    <3>1. Height(db') \in Int /\ Height(db') >= -1
      BY <1>1, <1>2, HeightType
    <3> QED BY <3>1 DEF Push, EthInv, Counters
  <2> QED BY <2>1, <2>2 DEF Counters, Push
<1>6. Fits(db', {})
  <2>1. PICK S : Fits(db, S) /\ Left(S)
    BY DEF EthInv, MemoryFits, Push
  <2>2. Fits(db, S) /\ S \subseteq {Stale(db, Pushed)} /\ (S # {} => BlocksToRevert(db, Pushed) = <<>>)
    BY <2>1 DEF Left
  <2>3. /\ Pushed \in Hashes /\ ~BlockRequired(db, Pushed)
        /\ Holds(db, FirstBlockHeight) /\ FirstBlockHeight \in Nat
    BY PushedFacts, FirstBlockHeightType DEF Push, Sound
  <2>4. db' = InsertBlock(DeleteBlocks(db, BlocksToRevert(db, Pushed)), Pushed, Processed)
    BY DEF Push
  <2> QED BY <2>2, <2>3, <2>4, PushFits
<1> QED BY <1>2, <1>3, <1>4, <1>5, <1>6, StepOfThread DEF Push, world

LEMMA ReceiptMissingInv ==
    ASSUME EthInv, NEW k, ReceiptMissing(k)
    PROVE  EthInv'
<1>1. Sound(db) /\ UNCHANGED <<network, node>> /\ pc = "push"
  BY DEF EthInv, ReceiptMissing
<1> PICK S : Fits(db, S) /\ Left(S)
  BY <1>1 DEF EthInv, MemoryFits
<1>2. CASE BlocksToRevert(db, Pushed) # <<>> \/ retries = MaxRetries
  BY <1>1, <1>2, DieInv DEF ReceiptMissing
<1>3. CASE ~(BlocksToRevert(db, Pushed) # <<>> \/ retries = MaxRetries)
  <2>1. /\ db' = Rollback(InsertTransactions(InsertOnlyBlock(db, Pushed), Pushed, k,
                                             Processed \ {k}), db)
        /\ UNCHANGED <<tokens, pc, latest, goal, queued, work, accum, stack>>
    BY <1>3 DEF ReceiptMissing
  <2>2. Sound(db') /\ db'.chain = db.chain
    BY <1>1, <2>1, RollbackSound
  <2>3. (ChainIsNotEmpty /\ StackDescends /\ BatchStarts /\ Counters)'
    BY <1>1, <2>1, <2>2 DEF EthInv, ChainIsNotEmpty, StackDescends, BatchStarts, Counters,
                         FirstBlockHeight
  <2> PICK T : T = {Stale(db, Pushed)}
    OBVIOUS
  <2>4. S \subseteq T /\ DOMAIN db = Fields /\ Pushed \in Hashes
    BY <1>1, PushedFacts DEF Left, Sound, Holds
  <2>5. Fits(db', T) /\ Stale(db', Pushed) = Stale(db, Pushed)
    BY <2>1, <2>4, RollbackFits
  <2>6. Pushed' = Pushed /\ pc' = "push"
    BY <1>1, <2>1 DEF Pushed, Last
  <2>7. ~BlockRequired(db', Pushed) /\ BlocksToRevert(db', Pushed) = <<>>
    <3>1. ~BlockRequired(db, Pushed) /\ BlocksToRevert(db, Pushed) = <<>>
      BY <1>3 DEF ReceiptMissing
    <3> QED BY <2>2, <3>1 DEF BlockRequired, BlocksToRevert
  <2>8. Left(T)'
    BY <2>5, <2>6, <2>7 DEF Left, BlockRequired, BlocksToRevert, Stale
  <2>9. pc' # "down" /\ UNCHANGED <<network, node>>
    BY <1>1, <2>6
  <2> QED BY <2>2, <2>3, <2>5, <2>8, <2>9, StepLeaves
<1> QED BY <1>2, <1>3

LEMMA NodeAdoptsInv ==
    ASSUME EthInv, NEW h \in Hashes, NodeAdopts(h)
    PROVE  EthInv'
<1>1. FirstBlockHeight' = FirstBlockHeight
  BY DEF FirstBlockHeight, NodeAdopts
<1>2. node' \in Hashes
  BY DEF NodeAdopts
<1>3. Number(node') > InitialLag
  BY DEF NodeAdopts
<1>4. IF pc' = "down" THEN Stored(db', FirstBlockHeight') ELSE Sound(db)'
  BY <1>1 DEF NodeAdopts, EthInv, Sound
<1>5. (ChainIsNotEmpty /\ StackDescends /\ BatchStarts)'
  BY <1>1 DEF NodeAdopts, EthInv, locals, ChainIsNotEmpty, StackDescends, BatchStarts
<1>6. Counters'
  <2>1. Height(db)' = Height(db)
    BY <1>1 DEF NodeAdopts, Height
  <2> QED BY <2>1 DEF NodeAdopts, EthInv, locals, Counters
<1>7. Stored(db', FirstBlockHeight') <=> Stored(db, FirstBlockHeight)'
  BY DEF Stored
<1>8. MemoryFits'
  BY DEF NodeAdopts, locals, EthInv, MemoryFits, Fits, FitsRows, Tabled, Left, Pushed, Last,
         BlockRequired, BlocksToRevert, Stale
<1> QED BY <1>2, <1>3, <1>4, <1>5, <1>6, <1>7, <1>8 DEF EthInv, NodeAdopts

LEMMA StutterInv ==
    ASSUME EthInv, UNCHANGED vars
    PROVE  EthInv'
<1>1. FirstBlockHeight' = FirstBlockHeight /\ Height(db)' = Height(db)
  BY DEF FirstBlockHeight, Height, vars, world
<1>2. MemoryFits'
  BY DEF vars, world, locals, EthInv, MemoryFits, Fits, FitsRows, Tabled, Left, Pushed, Last,
         BlockRequired, BlocksToRevert, Stale
<1> QED BY <1>1, <1>2 DEF vars, world, locals, EthInv, Stored, Sound, ChainIsNotEmpty,
                          StackDescends, BatchStarts, Counters

LEMMA NextInv == EthInv /\ [Next]_vars => EthInv'
<1> SUFFICES ASSUME EthInv, [Next]_vars PROVE EthInv'
  OBVIOUS
<1>1. CASE Start \/ CleanUp \/ StartRefused \/ LoadTokens
  BY <1>1, StartInv, CleanUpInv, LoadTokensInv, StutterInv DEF StartRefused
<1>2. CASE Crash \/ StopInitial
  BY <1>2, CrashInv, StopInitialInv
<1>3. CASE ThreadStep
  BY <1>3, PlanInv, FetchInv, CommitInv, TokenInv, PollInv, FollowNodeInv, BlockMissingInv,
     PushRequiresInv, PushInv DEF ThreadStep
<1>4. CASE pc = "push" /\ \E k \in DOMAIN Txs[Pushed] : ReceiptMissing(k)
  BY <1>4, ReceiptMissingInv
<1>5. CASE \E h \in Hashes : NodeAdopts(h)
  BY <1>5, NodeAdoptsInv
<1>6. CASE UNCHANGED vars
  BY <1>6, StutterInv
<1> QED BY <1>1, <1>2, <1>3, <1>4, <1>5, <1>6 DEF Next

\* EthInv always holds.
THEOREM EthInvariant == Spec => []EthInv
<1> QED BY InitInv, NextInv, PTL DEF Spec

-----------------------------------------------------------------------------
(***************************************************************************)
(* What follows.                                                           *)
(***************************************************************************)

\* The rows of `blocks` are one chain after every step of the thread, after
\* every stop, rolled-back push and clean-up: the constructor of
\* CppBlockchain always finds one head.
THEOREM OneChainKept == Spec => []TablesHoldOneChain
<1>1. EthInv => TablesHoldOneChain
  <2> SUFFICES ASSUME EthInv PROVE TablesHoldOneChain
    OBVIOUS
  <2>1. PICK n \in Nat : OneChain(db.blocks, n, FirstBlockHeight)
    BY DEF EthInv, Stored, Sound, Holds
  <2>2. DOMAIN db.blocks = 1..n
    BY <2>1 DEF OneChain
  <2>3. Cardinality(DOMAIN db.blocks) = n
    <3>1. Cardinality(1..n) = n
      BY FS_Interval
    <3> QED BY <2>2, <3>1
  <2>4. ASSUME NEW i \in 1..n
        PROVE  /\ Number(db.blocks[i].hash) = i - 1 + FirstBlockHeight
               /\ i > 1 => db.blocks[i - 1].hash = ParentOf(db.blocks[i].hash)
    <3>1. Number(db.blocks[i].hash) = i - 1 + FirstBlockHeight
      BY <2>1 DEF OneChain
    <3>2. CASE i > 1
      <4>1. i - 1 \in 1..n /\ i \in (i - 1)..n
        BY <3>2
      <4>2. db.blocks[i - 1].hash = Lineage[db.blocks[i].hash][i - 1 + FirstBlockHeight]
        BY <2>1, <4>1 DEF OneChain
      <4> QED BY <3>1, <4>2 DEF ParentOf
    <3> QED BY <3>1, <3>2
  <2> QED BY <2>2, <2>3, <2>4 DEF TablesHoldOneChain
<1> QED BY <1>1, EthInvariant, PTL

\* The token update and UpdateToBlock never meet an empty chain, whatever the
\* node adopted since the initial update looked at it.
THEOREM ChainNeverEmpty == Spec => []ChainIsNotEmpty
<1>1. EthInv => ChainIsNotEmpty
  BY DEF EthInv
<1> QED BY <1>1, EthInvariant, PTL

\* Between two calls the memory describes the tables: the chain is the rows
\* of `blocks`, the next transaction id is the one GetNextTxId would give, and
\* get_timestamp finds the block and the place of every transaction, whatever
\* pushes were rolled back and repeated before.
THEOREM MemoryAgrees == Spec => []MemoryMatchesTables
<1>1. EthInv => MemoryMatchesTables
  <2> SUFFICES ASSUME EthInv, Readable PROVE MemoryMatchesTables
    BY DEF MemoryMatchesTables
  <2>1. /\ Holds(db, FirstBlockHeight) /\ FirstBlockHeight \in Nat
        /\ Fits(db, {})
    BY SettledFits, FirstBlockHeightType DEF EthInv, Readable, Sound
  <2>2. /\ Len(db.chain) = Cardinality(DOMAIN db.blocks)
        /\ \A i \in DOMAIN db.chain : db.blocks[db.chain[i].id].hash = db.chain[i].hash
        /\ db.next_tx_id = GetNextTxId(db.txs)
        /\ \A t \in DOMAIN db.txs : GetTimestamp(db.index, t) = {db.txs[t].tx}
    BY <2>1, FitsMatches
  <2> QED BY <2>2 DEF MemoryMatchesTables
<1> QED BY <1>1, EthInvariant, PTL

\* The second PushNewBlock of a block, after its parent's update, is never
\* answered BlockRequired.
THEOREM SecondPushFindsParent == Spec => ParentArrives
<1>1. ASSUME EthInv, [Next]_vars, Len(stack') < Len(stack), stack' # <<>>
      PROVE  ~BlockRequired(db', Last(stack'))
  <2>1. stack \in Seq(Hashes) /\ Len(stack) \in Nat
    BY <1>1, LenProperties DEF EthInv, StackDescends
  <2>2. Push
    <3>1. stack' # stack
      BY <1>1, <2>1
    <3>2. CASE UNCHANGED vars
      BY <3>1, <3>2 DEF vars, locals
    <3>3. CASE Start \/ CleanUp \/ StartRefused \/ LoadTokens
      BY <3>1, <3>3 DEF Start, CleanUp, StartRefused, LoadTokens, locals, vars
    <3>4. CASE Crash \/ StopInitial
      BY <1>1, <3>4 DEF Crash, StopInitial, Die
    <3>5. CASE Plan \/ Fetch \/ Commit \/ TokenPlan \/ TokenBlock \/ TokensDone
      BY <3>1, <3>5 DEF Plan, Fetch, Commit, TokenPlan, TokenBlock, TokensDone
    <3>6. CASE TokenBlockMissing \/ BlockMissing
      BY <1>1, <3>6 DEF TokenBlockMissing, BlockMissing, Die
    <3>7. CASE FollowNode
      <4>1. stack = <<>>
        BY <1>1, <3>7 DEF FollowNode, EthInv, StackDescends
      <4>2. Len(stack) = 0
        BY <4>1
      <4>3. Len(stack') = 1
        BY <3>7 DEF FollowNode
      <4> QED BY <1>1, <4>2, <4>3
    <3>8. CASE PushRequires
      <4>1. ParentOf(Pushed) \in Hashes
        BY <1>1, <3>8, PushedFacts, RequiredParent DEF PushRequires, EthInv
      <4>2. Len(stack') = Len(stack) + 1
        BY <2>1, <3>8, <4>1, AppendProperties DEF PushRequires
      <4> QED BY <1>1, <2>1, <4>2
    <3>9. CASE \E k \in DOMAIN Txs[Pushed] : ReceiptMissing(k)
      BY <1>1, <3>1, <3>9 DEF ReceiptMissing, Die
    <3>10. CASE Poll \/ \E h \in Hashes : NodeAdopts(h)
      BY <3>1, <3>10 DEF Poll, NodeAdopts, vars, locals
    <3> QED BY <1>1, <3>2, <3>3, <3>4, <3>5, <3>6, <3>7, <3>8, <3>9, <3>10
            DEF Next, ThreadStep
  <2> DEFINE n == Len(stack)
             m == Len(db'.chain)
  <2>3. /\ n \in Nat \ {0} /\ Pushed = stack[n]
        /\ stack' = Front(stack) /\ Len(stack') = n - 1
        /\ \A i \in 1..(n - 1) : stack'[i] = stack[i]
        /\ n # 1
    BY <1>1, <2>2, FrontFacts, PushedFacts DEF Push
  <2>4. /\ n - 1 \in 1..n /\ n - 1 < n /\ (n - 1) + 1 = n /\ n - 1 \in 1..(n - 1)
    BY <2>3
  <2>5. /\ Last(stack') = stack[n - 1]
        /\ Number(stack[n - 1]) > FirstBlockHeight
        /\ Pushed = ParentOf(stack[n - 1])
    <3>1. /\ Number(stack[n - 1]) > FirstBlockHeight
          /\ stack[(n - 1) + 1] = ParentOf(stack[n - 1])
      BY <1>1, <2>4 DEF EthInv, StackDescends
    <3>2. Last(stack') = stack[n - 1]
      BY <2>3, <2>4 DEF Last
    <3> HIDE DEF n
    <3> QED BY <2>3, <2>4, <3>1, <3>2
  <2>6. stack[n - 1] \in Hashes /\ Number(stack[n - 1]) # 0
    <3>1. stack[n - 1] \in Hashes
      BY <2>1, <2>4, ElementOfSeq
    <3> QED BY <2>5, <3>1, BlockFacts, FirstBlockHeightType
  <2>7. /\ m \in 1..m /\ DOMAIN db'.chain = 1..m
        /\ db'.chain[m].hash = Pushed
    BY <1>1, <2>2, PushFacts, ChainIsSeq, FirstBlockHeightType DEF Sound
  <2> HIDE DEF m, n
  <2> QED BY <2>5, <2>6, <2>7 DEF BlockRequired
<1>2. EthInv /\ [Next]_vars
      => [Len(stack') < Len(stack) /\ stack' # <<>> => ~BlockRequired(db', Last(stack'))]_vars
  BY <1>1
<1> QED BY <1>2, EthInvariant, PTL DEF Spec, ParentArrives

-----------------------------------------------------------------------------
(***************************************************************************)
(* The ids of addresses, through a batch.                                  *)
(***************************************************************************)

LEMMA InsertNextKeeps ==
    ASSUME NEW i \in Nat, NEW r, BatchSound(r, i), Addressed(r.db), NEW h \in Hashes
    PROVE  Keeps(r.db, InsertNext(r, h).db)
<1>1. CASE r.restart \/ BlockRequired(r.db, h)
  <2>1. InsertNext(r, h).db = r.db
    BY <1>1 DEF InsertNext, BatchSound
  <2> QED BY <2>1, SameIdsKeeps DEF BatchSound, Sound, Holds
<1>2. CASE ~(r.restart \/ BlockRequired(r.db, h))
  <2> DEFINE d == r.db
             e == InsertBlock(DeleteBlocks(d, BlocksToRevert(d, h)), h, {})
  <2>1. InsertNext(r, h).db = e
    BY <1>2 DEF InsertNext, BatchSound
  <2>2. /\ Holds(d, FirstBlockHeight) /\ FirstBlockHeight \in Nat /\ Fits(d, {})
        /\ {} \subseteq {Stale(d, h)} /\ {} \subseteq Transfers(h)
        /\ ~BlockRequired(d, h) /\ Addressed(d)
    BY <1>2, FirstBlockHeightType DEF BatchSound, Sound
  <2>3. Keeps(d, e)
    <3> HIDE DEF d
    <3> QED BY <2>2, PushKeeps
  <2> QED BY <2>1, <2>3
<1> QED BY <1>1, <1>2

\* A batch adds ids, and rows with the right ones.
LEMMA InsertBlocksKeeps ==
    ASSUME NEW d, Sound(d), Fits(d, {}), Addressed(d), NEW hs \in Seq(Hashes),
           d.chain = <<>> /\ hs # <<>> => Number(hs[1]) = FirstBlockHeight,
           NEW r, r = InsertBlocks(d, hs)
    PROVE  Keeps(d, r.db)
<1> DEFINE n == Len(hs)
<1>1. PICK done : Batch(done, d, hs) /\ r = done[n]
  BY InsertBlocksRuns
<1>2. n \in Nat /\ \A i \in 1..n : hs[i] \in Hashes
  BY LenProperties, ElementOfSeq
<1>3. \A i \in 0..n : BatchSound(done[i], i)
  BY <1>1, BatchStaysSound
<1> DEFINE T == {i \in 0..n : Keeps(d, done[i].db)}
<1>4. 0 \in T
  <2>1. done[0].db = d
    BY <1>1 DEF Batch
  <2>2. Keeps(d, d)
    BY SameIdsKeeps DEF Sound, Holds
  <2> QED BY <1>2, <2>1, <2>2
<1>5. ASSUME NEW i \in 0..(n - 1), i \in T
      PROVE  i + 1 \in T
  <2>1. i + 1 \in 0..n /\ i + 1 \in 1..n /\ (i + 1) - 1 = i /\ i \in Nat /\ i \in 0..n
    BY <1>2
  <2>2. done[i + 1] = InsertNext(done[i], hs[i + 1])
    BY <1>1, <2>1 DEF Batch
  <2>3. Keeps(d, done[i].db) /\ BatchSound(done[i], i)
    BY <1>3, <1>5, <2>1
  <2>4. Keeps(done[i].db, done[i + 1].db)
    BY <1>2, <2>1, <2>2, <2>3, InsertNextKeeps DEF Keeps, Encodes
  <2>5. Keeps(d, done[i + 1].db)
    BY <2>3, <2>4, KeepsTransitive
  <2> QED BY <2>1, <2>5
<1>6. n \in 0..n
  BY <1>2
<1>7. n \in T
  <2> HIDE DEF T
  <2> QED BY <1>2, <1>4, <1>5, <1>6, SegmentInduction
<1> QED BY <1>1, <1>7

-----------------------------------------------------------------------------
(***************************************************************************)
(* Types, and the ids of addresses.                                        *)
(***************************************************************************)

SmallOK ==
    /\ tokens \in BOOLEAN
    /\ pc \in {"down", "plan", "fetch", "tokens", "token", "loop", "push"}
    /\ goal \in Nat /\ retries \in Nat /\ nulls \in Nat /\ crashes \in Nat

\* As long as no push was rolled back, every id is in the table.
IdsOK ==
    /\ Addressed(db)
    /\ pc = "down" => db.next_tx_id = 1
    /\ nulls = 0 => IF pc = "down" THEN CodedTables(db) ELSE Coded(db)

\* What the token update has still to read, and what it found.
ListsOK ==
    /\ work \in Seq(DOMAIN db.blocks)
    /\ accum \in Seq(TransferRows(db))
    /\ pc # "token" => work = <<>> /\ accum = <<>>

EthTyped == SmallOK /\ IdsOK /\ ListsOK

\* The transaction of a row.
LEMMA RowFacts ==
    ASSUME NEW d, Sound(d), NEW S, Fits(d, S), NEW t \in DOMAIN d.txs
    PROVE  /\ t \in Nat
           /\ d.txs[t].block \in DOMAIN d.blocks /\ d.txs[t].block \in Nat
           /\ d.txs[t].tx[1] \in Hashes
           /\ d.txs[t].tx[2] \in DOMAIN Txs[d.txs[t].tx[1]]
<1> DEFINE b == d.txs[t].block
           row == d.blocks[b]
<1>1. PICK n \in Nat : FitsRows(d, n, S)
  BY DEF Fits
<1>2. /\ DOMAIN d.blocks = 1..n /\ Consecutive(d.blocks, n) /\ Filled(d.blocks, d.txs, n)
  BY <1>1 DEF FitsRows
<1>3. DOMAIN d.txs = 1..(NextId(d.blocks, n) - 1)
  BY <1>2 DEF Filled
<1>4. t \in Nat /\ Placed(d.blocks, n, t, d.txs[t])
  <2>1. t \in 1..(NextId(d.blocks, n) - 1)
    BY <1>3
  <2> QED BY <1>2, <2>1 DEF Filled
<1>5. b \in 1..n /\ row.first <= t /\ t < row.first + row.count
      /\ d.txs[t].tx = <<row.hash, t - row.first + 1>>
  BY <1>4 DEF Placed, EndOf
<1>6. row.first \in Nat /\ row.count \in Nat /\ row.count = Len(Txs[row.hash])
  BY <1>2, <1>5 DEF Consecutive
<1>7. row.hash \in Hashes
  BY <1>2, <1>5 DEF Sound, Holds, OneChain
<1> HIDE DEF row
<1>8. DOMAIN Txs[row.hash] = 1..row.count
  <2>1. Txs[row.hash] \in Seq(Tx)
    BY <1>7, EthAssumption DEF EthAssumption
  <2> QED BY <1>6, <2>1, LenProperties
<1>9. t - row.first + 1 \in 1..row.count
  BY <1>4, <1>5, <1>6
<1>11. b \in DOMAIN d.blocks /\ b \in Nat
  BY <1>2, <1>5
<1> HIDE DEF b
<1>10. d.txs[t].tx[1] = row.hash /\ d.txs[t].tx[2] = t - row.first + 1
  BY <1>5
<1>12. d.txs[t].tx[1] \in Hashes
  BY <1>7, <1>10
<1>13. d.txs[t].tx[2] \in DOMAIN Txs[d.txs[t].tx[1]]
  BY <1>8, <1>9, <1>10
<1> QED BY <1>4, <1>11, <1>12, <1>13 DEF b

LEMMA AddAccumKeeps ==
    ASSUME NEW d, Sound(d), NEW S, Fits(d, S), Addressed(d),
           NEW calls \in Seq(TransferRows(d)), NEW min
    PROVE  Keeps(d, AddAccum(d, calls, min))
<1>1. CASE Len(calls) < min
  BY <1>1, SameIdsKeeps DEF AddAccum, Sound, Holds
<1>2. CASE ~(Len(calls) < min)
  <2> DEFINE n == Len(calls)
             cs == [i \in DOMAIN calls |->
                       ParseInput(LET m == d.txs[calls[i]].tx IN Txs[m[1]][m[2]])]
  <2>1. AddAccum(d, calls, min) = AddTokenTransactions(d, calls, cs)
    BY <1>2 DEF AddAccum
  <2>2. n \in Nat /\ DOMAIN calls = 1..n
    BY LenProperties
  <2>3. ASSUME NEW i \in 1..n
        PROVE  cs[i].sender \in Addresses /\ cs[i].receiver \in Addresses
    <3> DEFINE m == d.txs[calls[i]].tx
    <3>1. calls[i] \in TransferRows(d)
      BY <2>2, ElementOfSeq
    <3>2. calls[i] \in DOMAIN d.txs /\ IsTransfer(Txs[m[1]][m[2]])
      BY <3>1 DEF TransferRows
    <3>3. m[1] \in Hashes /\ m[2] \in DOMAIN Txs[m[1]]
      BY <3>2, RowFacts
    <3>4. cs[i] = ParseInput(Txs[m[1]][m[2]])
      BY <2>2
    <3> HIDE DEF cs, m
    <3> QED BY <3>2, <3>3, <3>4, TxFacts
  <2> HIDE DEF n, cs
  <2>4. DOMAIN d = Fields
    BY DEF Sound, Holds
  <2> QED BY <2>1, <2>2, <2>3, <2>4, AddTokenTransactionsKeeps
<1> QED BY <1>1, <1>2

-----------------------------------------------------------------------------
(***************************************************************************)
(* EthTyped is inductive.                                                  *)
(***************************************************************************)

\* IdsOK of the next state.
LEMMA IdsPrimed ==
    /\ Addressed(db)' <=> Addressed(db')
    /\ Coded(db)' <=> Coded(db')
    /\ CodedTables(db)' <=> CodedTables(db')
BY DEF Addressed, Coded, CodedTables, Codes, Names, RowNames, IsId

\* A step of a live process that only adds ids.
LEMMA IdsKept ==
    ASSUME IdsOK, pc # "down", pc' # "down", nulls' = nulls, Keeps(db, db')
    PROVE  IdsOK'
<1>1. Addressed(db') /\ (Coded(db) => Coded(db'))
  BY KeepsCoded
<1> QED BY <1>1, IdsPrimed DEF IdsOK

\* A death that leaves the tables of d.
LEMMA IdsDie ==
    ASSUME IdsOK, pc # "down", NEW d, Keeps(db, d), Die(d), nulls' = 0 => nulls = 0
    PROVE  IdsOK'
<1>1. Addressed(d) /\ (Coded(db) => Coded(d)) /\ DOMAIN d = Fields
  BY KeepsCoded DEF Keeps
<1>2. Addressed(db') /\ (Coded(d) => CodedTables(db'))
  BY <1>1, ForgetAddressed DEF Die
<1>3. db'.next_tx_id = 1 /\ pc' = "down"
  BY <1>1 DEF Die, Forget, Fields
<1> QED BY <1>1, <1>2, <1>3, IdsPrimed DEF IdsOK

LEMMA ListsPrimed ==
    TransferRows(db)' = TransferRows(db')
BY DEF TransferRows

\* Nothing is left to read.
LEMMA ListsEmpty ==
    ASSUME work' = <<>>, accum' = <<>>
    PROVE  ListsOK'
BY DEF ListsOK

LEMMA ListsSame ==
    ASSUME ListsOK, UNCHANGED <<work, accum, pc>>, db'.blocks = db.blocks, db'.txs = db.txs
    PROVE  ListsOK'
<1>1. TransferRows(db') = TransferRows(db)
  BY DEF TransferRows
<1> QED BY <1>1, ListsPrimed DEF ListsOK

\* A step outside the token update.
LEMMA ListsOutside ==
    ASSUME ListsOK, pc # "token", UNCHANGED <<work, accum>>
    PROVE  ListsOK'
BY ListsEmpty DEF ListsOK

LEMMA StartTyped ==
    ASSUME EthInv, EthTyped, Start
    PROVE  EthTyped'
<1>1. SmallOK' /\ ListsOK'
  BY ListsOutside DEF EthTyped, SmallOK, Start, world, locals
<1>2. Addressed(db') /\ (CodedTables(db) => Coded(db'))
  BY OpenAddressed DEF EthInv, Stored, EthTyped, IdsOK, Start
<1>3. IdsOK'
  BY <1>2, IdsPrimed DEF EthTyped, IdsOK, Start, world
<1> QED BY <1>1, <1>3 DEF EthTyped

LEMMA CleanUpTyped ==
    ASSUME EthInv, EthTyped, CleanUp
    PROVE  EthTyped'
<1>1. SmallOK' /\ ListsOK'
  BY ListsOutside DEF EthTyped, SmallOK, CleanUp, world, locals
<1>2. PICK block : db' = CleanUpDatabase(db, block)
  BY DEF CleanUp
<1>3. DOMAIN db = Fields /\ Addressed(db) /\ db.next_tx_id = 1
  BY DEF EthInv, Stored, EthTyped, IdsOK, CleanUp
<1>4. Addressed(db')
  BY <1>2, <1>3, CleanUpAddressed
<1>5. db'.next_tx_id = 1
  BY <1>2, <1>3 DEF CleanUpDatabase, Fields
<1>6. nulls' # 0
  BY CodedConsistent DEF EthTyped, IdsOK, CleanUp, world
<1>7. IdsOK'
  BY <1>4, <1>5, <1>6, IdsPrimed DEF IdsOK
<1> QED BY <1>1, <1>7 DEF EthTyped

LEMMA LoadTokensTyped ==
    ASSUME EthInv, EthTyped, LoadTokens
    PROVE  EthTyped'
<1>1. Token \in Addresses /\ DOMAIN db = Fields /\ Addressed(db)
  BY EthAssumption DEF EthAssumption, EthInv, Sound, Holds, EthTyped, IdsOK, LoadTokens
<1>2. Keeps(db, db') /\ SameRows(db, db')
  BY <1>1, EncodeKeeps, EncodeRows DEF LoadTokens
<1>3. SmallOK'
  BY DEF EthTyped, SmallOK, LoadTokens, world, locals
<1>4. IdsOK'
  BY <1>2, IdsKept DEF EthTyped, LoadTokens, world
<1>5. ListsOK'
  BY <1>2, ListsSame DEF EthTyped, LoadTokens, locals, SameRows, SameChain
<1> QED BY <1>3, <1>4, <1>5 DEF EthTyped

\* A step that leaves the Database alone.
LEMMA IdsUnchanged ==
    ASSUME IdsOK, pc = "down" <=> pc' = "down", nulls' = nulls, db' = db
    PROVE  IdsOK'
BY IdsPrimed DEF IdsOK

LEMMA QuietTyped ==
    ASSUME EthInv, EthTyped,
           Plan \/ Fetch \/ Poll \/ FollowNode \/ PushRequires
    PROVE  EthTyped'
<1>1. Number(node) - InitialLag \in Nat /\ Number(node) \in Nat
  BY BlockFacts, EthIndexAssumption DEF EthInv, EthIndexAssumption
<1>2. SmallOK'
  BY <1>1 DEF EthTyped, SmallOK, Plan, Fetch, Poll, FollowNode, PushRequires, world
<1>3. IdsOK'
  BY IdsUnchanged DEF EthTyped, Plan, Fetch, Poll, FollowNode, PushRequires, world
<1>4. ListsOK'
  BY ListsOutside DEF EthTyped, Plan, Fetch, Poll, FollowNode, PushRequires
<1> QED BY <1>2, <1>3, <1>4 DEF EthTyped

\* A batch.
LEMMA BatchKeeps ==
    ASSUME EthInv, IdsOK, pc = "fetch"
    PROVE  Keeps(db, InsertBlocks(db, queued).db)
<1>1. /\ Sound(db) /\ queued \in Seq(Hashes) /\ Addressed(db)
      /\ db.chain = <<>> /\ queued # <<>> => Number(queued[1]) = FirstBlockHeight
  BY DEF EthInv, BatchStarts, IdsOK
<1>2. Fits(db, {})
  BY SettledFits
<1> QED BY <1>1, <1>2, InsertBlocksKeeps

LEMMA CommitTyped ==
    ASSUME EthInv, EthTyped, Commit
    PROVE  EthTyped'
<1>1. SmallOK'
  BY DEF EthTyped, SmallOK, Commit, world
<1>2. Keeps(db, db')
  BY BatchKeeps DEF EthTyped, Commit
<1>3. IdsOK'
  BY <1>2, IdsKept DEF EthTyped, Commit, world
<1>4. ListsOK'
  BY ListsOutside DEF EthTyped, Commit
<1> QED BY <1>1, <1>3, <1>4 DEF EthTyped

\* The process dies.
LEMMA DieTyped ==
    ASSUME EthTyped, pc # "down", NEW d, Keeps(db, d), Die(d), nulls' = 0 => nulls = 0,
           nulls' \in Nat, crashes' \in Nat
    PROVE  EthTyped'
<1>1. SmallOK'
  BY DEF Die, SmallOK
<1>2. IdsOK'
  BY IdsDie DEF EthTyped
<1>3. ListsOK'
  BY ListsEmpty DEF Die
<1> QED BY <1>1, <1>2, <1>3 DEF EthTyped

LEMMA LiveKeeps ==
    ASSUME EthInv, IdsOK, pc # "down"
    PROVE  DOMAIN db = Fields /\ Addressed(db) /\ Keeps(db, db)
<1>1. DOMAIN db = Fields /\ Addressed(db)
  BY DEF EthInv, Sound, Holds, IdsOK
<1> QED BY <1>1, SameIdsKeeps

LEMMA StopTyped ==
    ASSUME EthInv, EthTyped, Crash \/ StopInitial \/ TokenBlockMissing \/ BlockMissing
    PROVE  EthTyped'
<1>1. nulls' = nulls /\ nulls \in Nat /\ crashes' \in Nat
  BY DEF EthTyped, SmallOK, Crash, StopInitial, TokenBlockMissing, BlockMissing, world
<1>2. CASE Crash \/ TokenBlockMissing \/ BlockMissing
  <2>1. Keeps(db, db) /\ Die(db) /\ pc # "down"
    BY <1>2, LiveKeeps DEF EthTyped, Crash, TokenBlockMissing, BlockMissing
  <2> QED BY <1>1, <2>1, DieTyped
<1>3. CASE StopInitial
  <2>1. pc = "fetch" /\ Die(InsertBlocks(db, queued).db)
    BY <1>3 DEF StopInitial
  <2>2. Keeps(db, InsertBlocks(db, queued).db)
    BY <2>1, BatchKeeps DEF EthTyped
  <2> QED BY <1>1, <2>1, <2>2, DieTyped
<1> QED BY <1>2, <1>3

\* The blocks with transactions of the token.
LEMMA TokenPlanTyped ==
    ASSUME EthInv, EthTyped, TokenPlan
    PROVE  EthTyped'
<1>1. SmallOK'
  BY DEF EthTyped, SmallOK, TokenPlan, world
<1>2. IdsOK'
  BY IdsUnchanged DEF EthTyped, TokenPlan, world
<1>3. Sound(db) /\ Fits(db, {})
  BY SettledFits DEF EthInv, TokenPlan
<1> DEFINE found(m) == {db.txs[t].block : t \in {u \in TokenTxs : db.txs[u].block >= m}}
<1>4. PICK m : work' = Ascending(found(m))
  BY DEF TokenPlan, BlocksWithTransactions
<1> PICK T : T = found(m)
  OBVIOUS
<1>5. T \in SUBSET DOMAIN db.blocks /\ T \in SUBSET Nat
  <2>1. \A t \in TokenTxs : db.txs[t].block \in DOMAIN db.blocks /\ db.txs[t].block \in Nat
    BY <1>3, RowFacts DEF TokenTxs
  <2> QED BY <2>1
<1>6. IsFiniteSet(T)
  <2>1. PICK n \in Nat : DOMAIN db.blocks = 1..n
    BY <1>3 DEF Fits, FitsRows
  <2>2. IsFiniteSet(DOMAIN db.blocks)
    BY <2>1, SegmentFinite
  <2> QED BY <1>5, <2>2, FS_Subset
<1>7. Lists(work', T)
  BY <1>4, <1>5, <1>6, AscendingLists
<1>8. work' \in Seq(DOMAIN db.blocks)
  <2> DEFINE L == Len(work')
  <2>1. L \in Nat /\ work' = [k \in 1..L |-> work'[k]] /\ \A k \in 1..L : work'[k] \in T
    BY <1>7 DEF Lists
  <2> HIDE DEF L
  <2>2. work' \in [1..L -> DOMAIN db.blocks]
    BY <1>5, <2>1
  <2> QED BY <2>1, <2>2, SeqDef
<1>9. ListsOK'
  BY <1>8 DEF EthTyped, ListsOK, TokenPlan, TransferRows
<1> QED BY <1>1, <1>2, <1>9 DEF EthTyped

\* The transfers of a block.
LEMMA TokenCallsType ==
    ASSUME EthInv, pc = "token", NEW block
    PROVE  TokenCalls(block) \in Seq(TransferRows(db))
<1>1. Sound(db) /\ Fits(db, {})
  BY SettledFits DEF EthInv
<1> PICK T : T = {t \in TokenTxs : /\ db.txs[t].block = block.id
                                   /\ LET n == db.txs[t].tx
                                      IN  Counts(Txs[n[1]][n[2]], network)}
  OBVIOUS
<1>2. TokenCalls(block) = Ascending(T)
  BY DEF TokenCalls
<1>3. T \in SUBSET TransferRows(db)
  BY DEF TokenTxs, Counts, TransferRows
<1>4. T \in SUBSET DOMAIN db.txs /\ T \in SUBSET Nat
  BY <1>1, <1>3, RowFacts DEF TransferRows
<1>5. IsFiniteSet(T)
  <2>1. PICK n \in Nat : Consecutive(db.blocks, n) /\ Filled(db.blocks, db.txs, n)
    BY <1>1 DEF Fits, FitsRows
  <2> DEFINE m == NextId(db.blocks, n) - 1
  <2>2. m \in Nat
    <3>1. n \in 0..n
      OBVIOUS
    <3>2. NextId(db.blocks, n) \in Nat \ {0}
      BY <2>1, <3>1, NextIdFacts
    <3> QED BY <3>2
  <2>3. DOMAIN db.txs = 1..m
    BY <2>1 DEF Filled
  <2> HIDE DEF m
  <2>4. IsFiniteSet(DOMAIN db.txs)
    BY <2>2, <2>3, SegmentFinite
  <2> QED BY <1>4, <2>4, FS_Subset
<1> DEFINE a == TokenCalls(block)
           L == Len(a)
<1>6. Lists(a, T)
  BY <1>2, <1>4, <1>5, AscendingLists
<1> HIDE DEF a
<1>7. L \in Nat /\ a = [k \in 1..L |-> a[k]] /\ \A k \in 1..L : a[k] \in T
  BY <1>6 DEF Lists
<1> HIDE DEF L
<1>8. a \in [1..L -> TransferRows(db)]
  BY <1>3, <1>7
<1>9. a \in Seq(TransferRows(db))
  BY <1>7, <1>8, SeqDef
<1> QED BY <1>9 DEF a

LEMMA AddAccumRows ==
    ASSUME NEW d, DOMAIN d = Fields, NEW calls, NEW min
    PROVE  SameRows(d, AddAccum(d, calls, min))
<1>1. CASE Len(calls) < min
  BY <1>1 DEF AddAccum, SameRows, SameChain
<1>2. CASE ~(Len(calls) < min)
  <2>1. PICK cs : AddAccum(d, calls, min) = AddTokenTransactions(d, calls, cs)
    BY <1>2 DEF AddAccum
  <2> QED BY <2>1, AddTokenTransactionsRows
<1> QED BY <1>1, <1>2

LEMMA TokenBlockTyped ==
    ASSUME EthInv, EthTyped, TokenBlock \/ TokensDone
    PROVE  EthTyped'
<1>1. /\ Sound(db) /\ Fits(db, {}) /\ Addressed(db) /\ DOMAIN db = Fields /\ pc = "token"
      /\ work \in Seq(DOMAIN db.blocks) /\ accum \in Seq(TransferRows(db))
  BY SettledFits, LiveKeeps DEF EthInv, EthTyped, ListsOK, IdsOK, TokenBlock, TokensDone
<1>2. SmallOK' /\ nulls' = nulls /\ pc' # "down"
  BY DEF EthTyped, SmallOK, TokenBlock, TokensDone, world
<1>3. PICK calls, min :
         /\ calls \in Seq(TransferRows(db))
         /\ db' = AddAccum(db, calls, min)
         /\ accum' = calls \/ accum' = <<>>
  <2>1. CASE TokenBlock
    <3>1. PICK block : /\ db' = AddAccum(db, accum \o TokenCalls(block), FlushCalls)
                       /\ accum' = accum \o TokenCalls(block) \/ accum' = <<>>
      BY <2>1 DEF TokenBlock
    <3>2. TokenCalls(block) \in Seq(TransferRows(db))
      BY <1>1, TokenCallsType
    <3>3. accum \o TokenCalls(block) \in Seq(TransferRows(db))
      BY <1>1, <3>2, ConcatProperties
    <3> QED BY <3>1, <3>3
  <2>2. CASE TokensDone
    BY <1>1, <2>2 DEF TokensDone
  <2> QED BY <2>1, <2>2
<1>4. Keeps(db, db') /\ SameRows(db, db')
  BY <1>1, <1>3, AddAccumKeeps, AddAccumRows
<1>5. IdsOK'
  BY <1>1, <1>2, <1>4, IdsKept DEF EthTyped
<1>6. db'.blocks = db.blocks /\ TransferRows(db)' = TransferRows(db)
  BY <1>4 DEF SameRows, SameChain, TransferRows
<1>7. work' \in Seq(DOMAIN db.blocks)
  <2>1. CASE TokenBlock
    <3>1. work' = Tail(work) /\ work # <<>>
      BY <2>1 DEF TokenBlock
    <3> DEFINE D == DOMAIN db.blocks
    <3>2. work \in Seq(D)
      BY <1>1
    <3> HIDE DEF D
    <3>3. work' \in Seq(D)
      BY <3>1, <3>2, HeadTailProperties
    <3> QED BY <3>3 DEF D
  <2>2. CASE TokensDone
    BY <1>1, <2>2 DEF TokensDone
  <2> QED BY <2>1, <2>2
<1>8. accum' \in Seq(TransferRows(db))
  BY <1>3, EmptySeq
<1>9. pc' # "token" => work' = <<>> /\ accum' = <<>>
  BY DEF TokenBlock, TokensDone
<1>10. ListsOK'
  BY <1>6, <1>7, <1>8, <1>9 DEF ListsOK
<1> QED BY <1>2, <1>5, <1>10 DEF EthTyped

\* What PostprocessTransaction records is of transfers.
LEMMA ProcessedTransfers == Processed \subseteq Transfers(Pushed)
BY DEF Processed, Transfers, Counts

LEMMA PushTyped ==
    ASSUME EthInv, EthTyped, Push
    PROVE  EthTyped'
<1>1. SmallOK' /\ nulls' = nulls /\ pc = "push" /\ pc' # "down"
  BY DEF EthTyped, SmallOK, Push, world
<1>2. PICK S : Fits(db, S) /\ Left(S)
  BY DEF EthInv, MemoryFits, Push
<1>3. S \subseteq {Stale(db, Pushed)} /\ (S # {} => BlocksToRevert(db, Pushed) = <<>>)
  BY <1>2 DEF Left
<1>4. /\ Pushed \in Hashes /\ ~BlockRequired(db, Pushed) /\ Addressed(db)
      /\ Holds(db, FirstBlockHeight) /\ FirstBlockHeight \in Nat
  BY PushedFacts, FirstBlockHeightType DEF Push, Sound, EthTyped, IdsOK
<1>5. db' = InsertBlock(DeleteBlocks(db, BlocksToRevert(db, Pushed)), Pushed, Processed)
  BY DEF Push
<1>6. Keeps(db, db')
  BY <1>2, <1>3, <1>4, <1>5, ProcessedTransfers, PushKeeps
<1>7. IdsOK'
  BY <1>1, <1>6, IdsKept DEF EthTyped
<1>8. ListsOK'
  BY <1>1, ListsOutside DEF EthTyped, Push
<1> QED BY <1>1, <1>7, <1>8 DEF EthTyped

LEMMA ReceiptMissingTyped ==
    ASSUME EthInv, EthTyped, NEW k \in DOMAIN Txs[Pushed], ReceiptMissing(k)
    PROVE  EthTyped'
<1>1. /\ pc = "push" /\ nulls' \in Nat /\ nulls' # 0 /\ crashes' \in Nat
      /\ Pushed \in Hashes
  BY PushedFacts DEF EthTyped, SmallOK, ReceiptMissing
<1>2. CASE BlocksToRevert(db, Pushed) # <<>> \/ retries = MaxRetries
  <2>1. Keeps(db, db) /\ Die(db)
    BY <1>1, <1>2, LiveKeeps DEF EthTyped, ReceiptMissing
  <2> QED BY <1>1, <2>1, DieTyped
<1>3. CASE ~(BlocksToRevert(db, Pushed) # <<>> \/ retries = MaxRetries)
  <2>1. /\ db' = Rollback(InsertTransactions(InsertOnlyBlock(db, Pushed), Pushed, k,
                                             Processed \ {k}), db)
        /\ retries' = retries + 1
        /\ UNCHANGED <<tokens, pc, latest, goal, queued, work, accum, stack>>
    BY <1>3 DEF ReceiptMissing
  <2>2. SmallOK'
    BY <1>1, <2>1 DEF EthTyped, SmallOK
  <2>3. DOMAIN db = Fields /\ Addressed(db) /\ db.next_tx_id \in Nat
    <3>1. PICK S : Fits(db, S)
      BY <1>1 DEF EthInv, MemoryFits
    <3> QED BY <1>1, <3>1, LiveKeeps, FitsNextId DEF EthTyped
  <2>4. Processed \ {k} \subseteq Transfers(Pushed)
    BY ProcessedTransfers
  <2>5. Addressed(db')
    BY <1>1, <2>1, <2>3, <2>4, RollbackAddressed
  <2>6. IdsOK'
    BY <1>1, <2>1, <2>5, IdsPrimed DEF IdsOK
  <2>7. ListsOK'
    BY <1>1, <2>1, ListsOutside DEF EthTyped
  <2> QED BY <2>2, <2>6, <2>7 DEF EthTyped
<1> QED BY <1>2, <1>3

LEMMA UnchangedTyped ==
    ASSUME EthTyped, UNCHANGED <<db, tokens, pc, goal, retries, nulls, crashes, work, accum>>
    PROVE  EthTyped'
<1>1. SmallOK'
  BY DEF EthTyped, SmallOK
<1>2. IdsOK' /\ ListsOK'
  BY IdsUnchanged, ListsSame DEF EthTyped
<1> QED BY <1>1, <1>2 DEF EthTyped

LEMMA InitTyped == Init => EthTyped
<1> SUFFICES ASSUME Init PROVE EthTyped
  OBVIOUS
<1>1. SmallOK
  BY DEF Init, SmallOK
<1>2. ListsOK
  BY DEF Init, ListsOK
<1>3. /\ db.cache = <<>> /\ db.bigints = <<>> /\ db.txs = <<>> /\ db.next_tx_id = 1
  BY DEF Init, EmptyDatabase
<1>4. Addressed(db)
  <2>1. IsFiniteSet(DOMAIN db.bigints) /\ DOMAIN db.bigints = {}
    BY <1>3, FS_EmptySet
  <2> QED BY <1>3, <2>1, EmptySeq DEF Addressed
<1>5. CodedTables(db)
  <2>1. db.bigints = [i \in 0..(0 - 1) |-> <<>>[i + 1]] /\ Len(<<>>) = 0
    BY <1>3
  <2>2. Codes(<<>>, db.bigints)
    BY <2>1 DEF Codes
  <2>3. Names(<<>>, db.txs)
    BY <1>3 DEF Names
  <2> QED BY <2>2, <2>3, EmptySeq DEF CodedTables
<1>6. IdsOK
  BY <1>3, <1>4, <1>5 DEF Init, IdsOK
<1> QED BY <1>1, <1>2, <1>6 DEF EthTyped

LEMMA NextTyped == EthInv /\ EthTyped /\ [Next]_vars => EthTyped'
<1> SUFFICES ASSUME EthInv, EthTyped, [Next]_vars PROVE EthTyped'
  OBVIOUS
<1>1. CASE StartRefused \/ UNCHANGED vars
  BY <1>1, UnchangedTyped DEF StartRefused, vars, world, locals
<1>2. CASE \E h \in Hashes : NodeAdopts(h)
  BY <1>2, UnchangedTyped DEF NodeAdopts, locals
<1>3. CASE Start \/ CleanUp \/ LoadTokens
  BY <1>3, StartTyped, CleanUpTyped, LoadTokensTyped
<1>4. CASE Crash \/ StopInitial
  BY <1>4, StopTyped
<1>5. CASE ThreadStep
  BY <1>5, QuietTyped, CommitTyped, TokenPlanTyped, TokenBlockTyped, StopTyped, PushTyped
     DEF ThreadStep
<1>6. CASE pc = "push" /\ \E k \in DOMAIN Txs[Pushed] : ReceiptMissing(k)
  BY <1>6, ReceiptMissingTyped
<1> QED BY <1>1, <1>2, <1>3, <1>4, <1>5, <1>6 DEF Next

-----------------------------------------------------------------------------
(***************************************************************************)
(* What follows of the types and the ids.                                  *)
(***************************************************************************)

\* Every variable of the thread and of its Database keeps its type, of all
\* that happens to them: what is queued are blocks, what the token update has
\* left to read are rows of `blocks` and of `txs`, and a repeated push leaves
\* addresses in the cache.
THEOREM EthTypeCorrect == Spec => []EthTypeOK
<1>1. EthInv /\ EthTyped => EthTypeOK
  <2> SUFFICES ASSUME EthInv, EthTyped PROVE EthTypeOK
    OBVIOUS
  <2>1. /\ network \in Networks /\ node \in Hashes /\ tokens \in BOOLEAN
        /\ pc \in {"down", "plan", "fetch", "tokens", "token", "loop", "push"}
        /\ goal \in Nat /\ retries \in Nat /\ nulls \in Nat /\ crashes \in Nat
        /\ queued \in Seq(Hashes) /\ stack \in Seq(Hashes)
        /\ work \in Seq(DOMAIN db.blocks) /\ db.cache \in Seq(Addresses)
    BY DEF EthInv, EthTyped, SmallOK, BatchStarts, StackDescends, ListsOK, IdsOK, Addressed
  <2>2. latest + 1 \in Nat
    BY DEF EthInv, Counters
  <2>3. db.next_tx_id \in Nat
    <3>1. CASE pc = "down"
      BY <3>1 DEF EthTyped, IdsOK
    <3>2. CASE pc # "down"
      BY <3>2, FitsNextId DEF EthInv, MemoryFits
    <3> QED BY <3>1, <3>2
  <2>4. accum \in Seq(DOMAIN db.txs)
    <3> DEFINE A == TransferRows(db)
               B == DOMAIN db.txs
               L == Len(accum)
    <3>1. accum \in Seq(A) /\ A \subseteq B
      BY DEF EthTyped, ListsOK, TransferRows
    <3> HIDE DEF A, B
    <3>2. L \in Nat /\ DOMAIN accum = 1..L /\ \A i \in 1..L : accum[i] \in A
      BY <3>1, LenProperties, ElementOfSeq
    <3>3. accum = [i \in 1..L |-> accum[i]]
      BY <3>1
    <3> HIDE DEF L
    <3>4. accum \in [1..L -> B]
      BY <3>1, <3>2, <3>3
    <3>5. accum \in Seq(B)
      BY <3>2, <3>4, SeqDef
    <3> QED BY <3>5 DEF B
  <2>5. db.chain \in Seq([hash : Hashes, id : DOMAIN db.blocks])
    <3> DEFINE B == [hash : Hashes, id : DOMAIN db.blocks]
    <3>1. CASE pc = "down"
      <4>1. db.chain = <<>>
        BY <3>1 DEF EthInv, Stored
      <4> HIDE DEF B
      <4>2. db.chain \in Seq(B)
        BY <4>1, EmptySeq
      <4> QED BY <4>2 DEF B
    <3>2. CASE pc # "down"
      <4> DEFINE n == Len(db.chain)
      <4>1. Holds(db, FirstBlockHeight) /\ FirstBlockHeight \in Nat
        BY <3>2, FirstBlockHeightType DEF EthInv, Sound
      <4>2. n \in Nat
        BY <4>1 DEF Holds
      <4>3. /\ DOMAIN db.chain = 1..n /\ DOMAIN db.blocks = 1..n
            /\ \A i \in 1..n : /\ db.chain[i] = [hash |-> db.blocks[i].hash, id |-> i]
                               /\ db.chain[i].hash \in Hashes
        BY <4>1, ChainIsSeq
      <4>4. db.chain \in Seq([hash : Hashes, id : Nat])
        BY <4>1, ChainIsSeq
      <4>5. db.chain = [i \in 1..n |-> db.chain[i]]
        BY <4>3, <4>4
      <4>6. \A i \in 1..n : db.chain[i] \in B
        <5> SUFFICES ASSUME NEW i \in 1..n PROVE db.chain[i] \in B
          OBVIOUS
        <5>1. db.chain[i] = [hash |-> db.blocks[i].hash, id |-> i] /\ db.chain[i].hash \in Hashes
          BY <4>3
        <5>2. db.blocks[i].hash \in Hashes
          BY <5>1
        <5>3. i \in DOMAIN db.blocks
          BY <4>3
        <5> HIDE DEF n
        <5> QED BY <5>1, <5>2, <5>3
      <4> HIDE DEF n, B
      <4>7. db.chain \in [1..n -> B]
        BY <4>5, <4>6
      <4>8. db.chain \in Seq(B)
        BY <4>2, <4>7, SeqDef
      <4> QED BY <4>8 DEF B
    <3> QED BY <3>1, <3>2
  <2> QED BY <2>1, <2>2, <2>3, <2>4, <2>5 DEF EthTypeOK
<1> QED BY <1>1, InitInv, NextInv, InitTyped, NextTyped, PTL DEF Spec

\* As long as no push was rolled back, GetHistory answers, for every address,
\* exactly the transactions of the chain that it sent or received, with
\* sender, receiver and order: through reorganizations, batches, stops,
\* restarts and transaction ids that are given again.
THEOREM EthHistoryRight == Spec => []EthHistoryMatchesChain
<1>1. EthInv /\ EthTyped => EthHistoryMatchesChain
  <2> SUFFICES ASSUME EthInv, EthTyped, nulls = 0, Readable, NEW a \in Addresses
               PROVE  GetHistory(db, a) = ChainHistory(a)
    BY DEF EthHistoryMatchesChain, HistoryIsOfTheChain
  <2>1. /\ Holds(db, FirstBlockHeight) /\ FirstBlockHeight \in Nat
        /\ Fits(db, {}) /\ Addressed(db) /\ Coded(db)
    BY SettledFits, FirstBlockHeightType DEF EthInv, EthTyped, IdsOK, Readable, Sound
  <2> DEFINE names == UNION {{<<db.chain[i].hash, k>> : k \in DOMAIN Txs[db.chain[i].hash]} :
                                i \in DOMAIN db.chain}
  <2>2. \A n : n \in names <=> OnChain(db, n)
    BY DEF OnChain
  <2>3. ChainHistory(a) = {Entry(n) : n \in {m \in names : Party(a, m)}}
    BY DEF ChainHistory, Entry, Party
  <2> HIDE DEF names
  <2>4. \A e : e \in ChainHistory(a) <=> \E n : OnChain(db, n) /\ Party(a, n) /\ e = Entry(n)
    BY <2>2, <2>3
  <2>5. \A e : e \in GetHistory(db, a) <=> \E n : OnChain(db, n) /\ Party(a, n) /\ e = Entry(n)
    BY <2>1, HistoryTold
  <2>6. \A e : e \in GetHistory(db, a) <=> e \in ChainHistory(a)
    BY <2>4, <2>5
  <2> QED BY <2>6
<1> QED BY <1>1, InitInv, NextInv, InitTyped, NextTyped, PTL DEF Spec

-----------------------------------------------------------------------------
(***************************************************************************)
(* The transfers of the token, on Rsk.                                     *)
(***************************************************************************)

LEMMA InsertNextTokens ==
    ASSUME NEW i \in Nat, NEW r, BatchSound(r, i), Downward(r.db), NEW h \in Hashes
    PROVE  Downward(InsertNext(r, h).db)
<1>1. CASE r.restart \/ BlockRequired(r.db, h)
  BY <1>1 DEF InsertNext, BatchSound
<1>2. CASE ~(r.restart \/ BlockRequired(r.db, h))
  <2> DEFINE d == r.db
             e == InsertBlock(DeleteBlocks(d, BlocksToRevert(d, h)), h, {})
  <2>1. InsertNext(r, h).db = e
    BY <1>2 DEF InsertNext, BatchSound
  <2>2. /\ Holds(d, FirstBlockHeight) /\ FirstBlockHeight \in Nat /\ Fits(d, {})
        /\ {} \subseteq {Stale(d, h)}
        /\ ~BlockRequired(d, h) /\ Downward(d)
    BY <1>2, FirstBlockHeightType DEF BatchSound, Sound
  <2>3. Downward(e)
    <3> HIDE DEF d
    <3> QED BY <2>2, PushTokens
  <2> QED BY <2>1, <2>3
<1> QED BY <1>1, <1>2

\* A batch records nothing, above what is recorded.
LEMMA InsertBlocksTokens ==
    ASSUME NEW d, Sound(d), Fits(d, {}), Downward(d), NEW hs \in Seq(Hashes),
           d.chain = <<>> /\ hs # <<>> => Number(hs[1]) = FirstBlockHeight,
           NEW r, r = InsertBlocks(d, hs)
    PROVE  Downward(r.db)
<1> DEFINE n == Len(hs)
<1>1. PICK done : Batch(done, d, hs) /\ r = done[n]
  BY InsertBlocksRuns
<1>2. n \in Nat /\ \A i \in 1..n : hs[i] \in Hashes
  BY LenProperties, ElementOfSeq
<1>3. \A i \in 0..n : BatchSound(done[i], i)
  BY <1>1, BatchStaysSound
<1> DEFINE T == {i \in 0..n : Downward(done[i].db)}
<1>4. 0 \in T
  <2>1. done[0].db = d
    BY <1>1 DEF Batch
  <2> QED BY <1>2, <2>1
<1>5. ASSUME NEW i \in 0..(n - 1), i \in T
      PROVE  i + 1 \in T
  <2>1. i + 1 \in 0..n /\ i + 1 \in 1..n /\ (i + 1) - 1 = i /\ i \in Nat /\ i \in 0..n
    BY <1>2
  <2>2. done[i + 1] = InsertNext(done[i], hs[i + 1])
    BY <1>1, <2>1 DEF Batch
  <2>3. Downward(done[i + 1].db)
    BY <1>2, <1>3, <1>5, <2>1, <2>2, InsertNextTokens
  <2> QED BY <2>1, <2>3
<1>6. n \in 0..n
  BY <1>2
<1>7. n \in T
  <2> HIDE DEF T
  <2> QED BY <1>2, <1>4, <1>5, <1>6, SegmentInduction
<1> QED BY <1>1, <1>7

\* AddAccum records the calls it does not keep.
LEMMA AddAccumRecords ==
    ASSUME NEW d, DOMAIN d = Fields, TokenTable(d), NEW A, NEW calls \in Seq(A), NEW min,
           ~(Len(calls) < min)
    PROVE  Records(d, AddAccum(d, calls, min), Elems(calls))
<1>1. PICK cs : AddAccum(d, calls, min) = AddTokenTransactions(d, calls, cs)
  BY DEF AddAccum
<1>2. Len(calls) \in Nat /\ DOMAIN calls = 1..Len(calls)
  BY LenProperties
<1> QED BY <1>1, <1>2, AddTokenTransactionsRecords

\* What is recorded is of the lowest blocks, of all once the token update is
\* done; until then what it still reads makes up for the rest.
TokensOK ==
    network = "Rsk" =>
        /\ nulls = 0
        /\ Downward(db)
        /\ pc \in {"loop", "push"} => Complete(db)
        /\ pc = "token" => Pending(db, accum, work)

LEMMA TokensPrimed ==
    /\ Downward(db)' <=> Downward(db')
    /\ Complete(db)' <=> Complete(db')
    /\ Pending(db, accum, work)' <=> Pending(db', accum', work')
BY DEF Downward, Complete, Pending, TokenTable, Recorded, TransferRows, Elems

LEMMA TokensLater ==
    ASSUME TokensOK, network' = network, nulls' = nulls,
           network = "Rsk" =>
               /\ Downward(db')
               /\ pc' \in {"loop", "push"} => Complete(db')
               /\ pc' = "token" => Pending(db', accum', work')
    PROVE  TokensOK'
BY TokensPrimed DEF TokensOK

\* A step that leaves the rows alone.
LEMMA TokensSame ==
    ASSUME TokensOK, network' = network, nulls' = nulls, SameTokens(db, db'),
           pc' \in {"loop", "push"} => pc \in {"loop", "push"},
           pc' = "token" => pc = "token" /\ UNCHANGED <<accum, work>>
    PROVE  TokensOK'
<1>1. (Downward(db) => Downward(db')) /\ (Complete(db) => Complete(db'))
  BY SameTokensKeeps
<1>2. ASSUME Pending(db, accum, work), UNCHANGED <<accum, work>>
      PROVE  Pending(db', accum', work')
  <2>1. Pending(db', accum, work)
    BY <1>2 DEF Pending, SameTokens, TransferRows, Recorded
  <2> QED BY <1>2, <2>1
<1> QED BY <1>1, <1>2, TokensLater DEF TokensOK

\* On Rsk every transfer counts.
LEMMA RskCounts ==
    ASSUME network = "Rsk", NEW tx
    PROVE  Counts(tx, network) <=> IsTransfer(tx)
BY DEF Counts

LEMMA RskFacts ==
    ASSUME EthInv, EthTyped, TokensOK, network = "Rsk", pc \in {"tokens", "token"}
    PROVE  /\ Holds(db, 1) /\ Sound(db) /\ Fits(db, {}) /\ DOMAIN db = Fields
           /\ Addressed(db) /\ Coded(db) /\ Downward(db) /\ Numbered(db)
           /\ FirstBlockHeight = 1
           /\ \A t \in TransferRows(db) : db.txs[t].block \in DOMAIN db.blocks
           /\ TransferRows(db) \subseteq TokenTxs
<1>1. Sound(db) /\ Fits(db, {}) /\ FirstBlockHeight = 1
  BY SettledFits DEF EthInv, FirstBlockHeight
<1>2. Addressed(db) /\ Coded(db) /\ Downward(db)
  BY DEF EthTyped, IdsOK, TokensOK
<1>3. Numbered(db) /\ \A t \in TransferRows(db) : db.txs[t].block \in DOMAIN db.blocks
  BY <1>1, RowFacts DEF Numbered, TransferRows
<1>4. ASSUME NEW t \in TransferRows(db) PROVE t \in TokenTxs
  <2> DEFINE c == db.cache
             a == Txs[db.txs[t].tx[1]][db.txs[t].tx[2]].to
             id == db.txs[t].receiver
  <2>1. t \in DOMAIN db.txs /\ a = Token
    BY DEF TransferRows, IsTransfer
  <2>2. IsId(c, id, a)
    BY <1>2, <2>1 DEF Coded, Names, RowNames
  <2> HIDE DEF id, a
  <2>3. IsId(c, AddressId(db, Token), Token)
    <3>1. Known(db, Token)
      BY <1>2, <2>1, <2>2, DecodeNames
    <3> QED BY <1>2, <3>1, AddressIdNames
  <2>4. id = AddressId(db, Token)
    BY <1>2, <2>1, <2>2, <2>3, IdUnique DEF Coded
  <2> QED BY <2>1, <2>4 DEF TokenTxs, id
<1> QED BY <1>1, <1>2, <1>3, <1>4 DEF Sound, Holds

\* ProcessToken finds the transfers of a block.
LEMMA TokenCallsFound ==
    ASSUME EthInv, EthTyped, TokensOK, network = "Rsk", pc = "token", NEW block
    PROVE  /\ TokenCalls(block) \in Seq(TransferRows(db))
           /\ \A t : t \in Elems(TokenCalls(block)) <=>
                        t \in TransferRows(db) /\ db.txs[t].block = block.id
<1>1. /\ Sound(db) /\ Fits(db, {}) /\ TransferRows(db) \subseteq TokenTxs
  BY RskFacts
<1> PICK T : T = {t \in TokenTxs : /\ db.txs[t].block = block.id
                                   /\ LET n == db.txs[t].tx
                                      IN  Counts(Txs[n[1]][n[2]], network)}
  OBVIOUS
<1>2. TokenCalls(block) = Ascending(T)
  BY DEF TokenCalls
<1>3. \A t : t \in T <=> t \in TransferRows(db) /\ db.txs[t].block = block.id
  BY <1>1, RskCounts DEF TokenTxs, TransferRows
<1>4. TokenCalls(block) \in Seq(TransferRows(db))
  BY TokenCallsType
<1> DEFINE a == TokenCalls(block)
<1>5. Lists(a, T)
  <2>1. T \in SUBSET DOMAIN db.txs /\ T \in SUBSET Nat
    BY <1>1, <1>3, RowFacts DEF TransferRows
  <2>2. IsFiniteSet(DOMAIN db.txs)
    <3>1. PICK n \in Nat : Consecutive(db.blocks, n) /\ Filled(db.blocks, db.txs, n)
      BY <1>1 DEF Fits, FitsRows
    <3> DEFINE m == NextId(db.blocks, n) - 1
    <3>2. n \in 0..n
      OBVIOUS
    <3>3. m \in Nat
      BY <3>1, <3>2, NextIdFacts
    <3>4. DOMAIN db.txs = 1..m
      BY <3>1 DEF Filled
    <3> HIDE DEF m
    <3> QED BY <3>3, <3>4, SegmentFinite
  <2>3. IsFiniteSet(T)
    BY <2>1, <2>2, FS_Subset
  <2> QED BY <1>2, <2>1, <2>3, AscendingLists
<1> HIDE DEF a
<1>6. \A t : t \in Elems(a) <=> t \in T
  BY <1>5 DEF Lists, Elems
<1> QED BY <1>3, <1>4, <1>6 DEF a

LEMMA ElemsOfSeq ==
    ASSUME NEW A, NEW s \in Seq(A)
    PROVE  Elems(s) \subseteq A
<1>1. \A i \in 1..Len(s) : s[i] \in A
  BY ElementOfSeq
<1> QED BY <1>1 DEF Elems

\* A live process that dies.
LEMMA TokensDie ==
    ASSUME TokensOK, network' = network, nulls' = nulls,
           NEW d, DOMAIN d = Fields, Die(d), network = "Rsk" => Downward(d)
    PROVE  TokensOK'
<1>1. pc' = "down" /\ SameTokens(d, db')
  BY OpenTokens DEF Die
<1>2. network = "Rsk" => Downward(db')
  BY <1>1, SameTokensKeeps
<1> QED BY <1>1, <1>2, TokensLater

\* ProcessToken starts where an earlier one stopped.
LEMMA TokenPlanTokens ==
    ASSUME EthInv, EthTyped, TokensOK, TokenPlan
    PROVE  TokensOK'
<1>1. /\ pc = "tokens" /\ pc' = "token" /\ db' = db /\ accum' = accum
      /\ network' = network /\ nulls' = nulls
  BY DEF TokenPlan, world
<1>2. SUFFICES ASSUME network = "Rsk"
               PROVE  Downward(db) /\ Pending(db, accum', work')
  BY <1>1, TokensLater
<1>3. /\ Holds(db, 1) /\ Sound(db) /\ Fits(db, {})
      /\ Downward(db) /\ Numbered(db)
      /\ \A t \in TransferRows(db) : db.txs[t].block \in DOMAIN db.blocks
      /\ TransferRows(db) \subseteq TokenTxs
  BY <1>1, <1>2, RskFacts
<1> DEFINE n == Len(db.chain)
           seen == LatestBlockForToken
           m == IF seen = {} THEN db.chain[1].id ELSE Max(seen) + 1
           blk(t) == db.txs[t].block
<1> PICK T : T = {db.txs[t].block : t \in {u \in TokenTxs : db.txs[u].block >= m}}
  OBVIOUS
<1>4. work' = Ascending(T)
  BY DEF TokenPlan, BlocksWithTransactions
<1>5. accum' = <<>>
  BY <1>1 DEF EthTyped, ListsOK
<1>6. /\ n \in Nat \ {0} /\ DOMAIN db.blocks = 1..n /\ DOMAIN db.chain = 1..n
      /\ \A i \in 1..n : /\ db.chain[i] = [hash |-> db.blocks[i].hash, id |-> i]
                         /\ db.chain[i].id = i
                         /\ db.chain[i].hash = db.blocks[i].hash
                         /\ Number(db.blocks[i].hash) = i
  <2>1. /\ n \in Nat /\ DOMAIN db.blocks = 1..n /\ DOMAIN db.chain = 1..n
        /\ (db.chain = <<>> <=> n = 0)
        /\ \A i \in 1..n : /\ db.chain[i] = [hash |-> db.blocks[i].hash, id |-> i]
                           /\ db.chain[i].id = i
                           /\ Number(db.chain[i].hash) = i - 1 + 1
    <3>1. n \in Nat
      BY <1>3 DEF Holds
    <3> QED BY <1>3, <3>1, ChainIsSeq
  <2>2. db.chain # <<>>
    BY <1>1 DEF EthInv, ChainIsNotEmpty
  <2>3. ASSUME NEW i \in 1..n
        PROVE  db.chain[i].hash = db.blocks[i].hash /\ Number(db.blocks[i].hash) = i
    <3> HIDE DEF n
    <3>1. /\ db.chain[i] = [hash |-> db.blocks[i].hash, id |-> i]
          /\ Number(db.chain[i].hash) = i - 1 + 1
      BY <2>1
    <3>2. i - 1 + 1 = i
      BY <2>1
    <3>3. db.chain[i].hash = db.blocks[i].hash
      BY <3>1
    <3> QED BY <3>1, <3>2, <3>3
  <2> HIDE DEF n
  <2> QED BY <2>1, <2>2, <2>3
<1>7. m \in Nat
      /\ \A t \in TransferRows(db) : t \in Recorded(db) \/ db.txs[t].block >= m
  <2>1. ASSUME NEW x \in seen
        PROVE  \E s \in Recorded(db) : blk(s) \in 1..n /\ x = blk(s) - 1
    <3>1. PICK i \in DOMAIN db.chain : /\ x = i - 1
             /\ \E k \in DOMAIN db.token_txs :
                  /\ db.token_txs[k].tx \in DOMAIN db.txs
                  /\ db.blocks[db.txs[db.token_txs[k].tx].block].hash = db.chain[i].hash
      BY <2>1 DEF LatestBlockForToken
    <3>2. PICK k \in DOMAIN db.token_txs :
             db.blocks[db.txs[db.token_txs[k].tx].block].hash = db.chain[i].hash
      BY <3>1
    <3>3. PICK s : s = db.token_txs[k].tx
      OBVIOUS
    <3>4. s \in Recorded(db) /\ s \in TransferRows(db)
      BY <1>3, <3>3 DEF Recorded, Downward
    <3>5. blk(s) \in 1..n /\ db.blocks[blk(s)].hash = db.chain[i].hash
      BY <1>3, <1>6, <3>2, <3>3, <3>4
    <3>6. blk(s) = i
      <4>1. i \in 1..n
        BY <1>6
      <4>2. Number(db.blocks[blk(s)].hash) = blk(s) /\ Number(db.blocks[i].hash) = i
            /\ db.chain[i].hash = db.blocks[i].hash
        BY <1>6, <3>5, <4>1
      <4> HIDE DEF blk
      <4> QED BY <3>5, <4>2
    <3> QED BY <3>1, <3>4, <3>5, <3>6
  <2>2. CASE seen = {}
    <3>1. m = 1
      <4>1. m = db.chain[1].id
        BY <2>2
      <4>2. 1 \in 1..n
        <5> HIDE DEF n
        <5> QED BY <1>6
      <4> HIDE DEF m
      <4> QED BY <1>6, <4>1, <4>2
    <3>2. ASSUME NEW t \in TransferRows(db) PROVE blk(t) >= 1
      <4>1. blk(t) \in 1..n
        BY <1>3, <1>6
      <4> HIDE DEF blk, n
      <4> QED BY <1>6, <4>1
    <3> QED BY <3>1, <3>2
  <2>3. CASE seen # {}
    <3>1. \A x \in seen : x \in 0..(n - 1)
      <4> SUFFICES ASSUME NEW x \in seen PROVE x \in 0..(n - 1)
        OBVIOUS
      <4>1. PICK s \in Recorded(db) : blk(s) \in 1..n /\ x = blk(s) - 1
        BY <2>1
      <4> HIDE DEF blk, n, seen
      <4> QED BY <1>6, <4>1
    <3>2. IsFiniteSet(0..(n - 1))
      <4> HIDE DEF n
      <4>1. n - 1 \in Int
        BY <1>6
      <4> QED BY <4>1, FS_Interval
    <3> HIDE DEF seen
    <3>3. seen \in SUBSET Nat /\ seen \subseteq 0..(n - 1)
      BY <3>1
    <3>4. IsFiniteSet(seen)
      BY <3>2, <3>3, FS_Subset
    <3>5. Max(seen) \in seen
      BY <2>3, <3>3, <3>4, LargestIsMax
    <3>6. PICK s \in Recorded(db) : blk(s) \in 1..n /\ Max(seen) = blk(s) - 1
      BY <2>1, <3>5
    <3>7. m = blk(s) /\ m \in Nat
      <4>1. m = Max(seen) + 1
        BY <2>3
      <4>2. blk(s) \in Nat /\ blk(s) \in Int
        BY <1>6, <3>6
      <4> HIDE DEF m, blk
      <4> QED BY <3>6, <4>1, <4>2
    <3>8. ASSUME NEW t \in TransferRows(db), t \notin Recorded(db) PROVE blk(t) >= m
      <4>1. ~(blk(t) < blk(s))
        BY <1>3, <3>8 DEF Downward
      <4>2. blk(t) \in Nat
        BY <1>3, <1>6, <3>8
      <4> HIDE DEF m, blk
      <4> QED BY <3>7, <4>1, <4>2
    <3> QED BY <3>7, <3>8
  <2> QED BY <2>2, <2>3
<1> HIDE DEF m
<1>8. Lists(work', T)
  <2>1. T \in SUBSET DOMAIN db.blocks /\ T \in SUBSET Nat
    <3>1. \A t \in TokenTxs : db.txs[t].block \in DOMAIN db.blocks /\ db.txs[t].block \in Nat
      BY <1>3, RowFacts DEF TokenTxs
    <3> QED BY <3>1
  <2>2. IsFiniteSet(DOMAIN db.blocks)
    <3> HIDE DEF n
    <3> QED BY <1>6, SegmentFinite
  <2>3. IsFiniteSet(T)
    BY <2>1, <2>2, FS_Subset
  <2> QED BY <1>4, <2>1, <2>3, AscendingLists
<1>9. Pending(db, accum', work')
  <2>1. ASSUME NEW t \in TransferRows(db), t \notin Recorded(db)
        PROVE  db.txs[t].block \in Elems(work')
    <3>1. db.txs[t].block \in T
      BY <1>3, <1>7, <2>1
    <3> QED BY <1>8, <3>1 DEF Lists, Elems
  <2>2. \A i, j \in 1..Len(work') : i < j => work'[i] < work'[j]
    BY <1>8 DEF Lists
  <2>3. \A t : t \notin Elems(accum')
    BY <1>5 DEF Elems
  <2> QED BY <2>1, <2>2, <2>3 DEF Pending
<1> QED BY <1>3, <1>9

LEMMA WorkIsNumbers ==
    ASSUME EthInv, EthTyped, network = "Rsk", TokensOK, pc = "token"
    PROVE  work \in Seq(Nat) /\ \A i \in 1..Len(work) : work[i] \in DOMAIN db.blocks
<1>1. work \in Seq(DOMAIN db.blocks)
  BY DEF EthTyped, ListsOK
<1>2. DOMAIN db.blocks \subseteq Nat
  <2>1. Fits(db, {})
    BY RskFacts
  <2> QED BY <2>1 DEF Fits, FitsRows
<1> DEFINE L == Len(work)
           D == DOMAIN db.blocks
<1>3. L \in Nat /\ work = [i \in 1..L |-> work[i]] /\ \A i \in 1..L : work[i] \in D
  <2>1. work \in Seq(D)
    BY <1>1
  <2> HIDE DEF D
  <2> QED BY <2>1, LenProperties, ElementOfSeq
<1> HIDE DEF D
<1>4. D \subseteq Nat
  BY <1>2 DEF D
<1> HIDE DEF L
<1>5. work \in [1..L -> Nat]
  BY <1>3, <1>4
<1>6. work \in Seq(Nat)
  BY <1>3, <1>5, SeqDef
<1> QED BY <1>3, <1>6 DEF D, L

\* A block of ProcessToken: its calls are kept, or all are recorded.
LEMMA TokenBlockTokens ==
    ASSUME EthInv, EthTyped, TokensOK, TokenBlock
    PROVE  TokensOK'
<1>1. /\ pc = "token" /\ pc' = pc /\ work # <<>> /\ work' = Tail(work)
      /\ network' = network /\ nulls' = nulls
  BY DEF TokenBlock, world
<1>2. SUFFICES ASSUME network = "Rsk"
               PROVE  Downward(db') /\ Pending(db', accum', work')
  BY <1>1, TokensLater
<1>3. PICK block \in BlockAtHeight(Head(work)) :
        /\ db' = AddAccum(db, accum \o TokenCalls(block), FlushCalls)
        /\ accum' = IF Len(accum \o TokenCalls(block)) < FlushCalls
                    THEN accum \o TokenCalls(block) ELSE <<>>
  BY DEF TokenBlock
<1> DEFINE found == TokenCalls(block)
           calls == accum \o found
           A == TransferRows(db)
<1>4. /\ Downward(db) /\ Numbered(db) /\ DOMAIN db = Fields /\ FirstBlockHeight = 1
      /\ Holds(db, 1)
  BY <1>1, <1>2, RskFacts
<1>5. work \in Seq(Nat) /\ \A i \in 1..Len(work) : work[i] \in DOMAIN db.blocks
  BY <1>1, <1>2, WorkIsNumbers
<1>6. block.id = Head(work)
  <2>1. PICK i \in {Head(work) - FirstBlockHeight + 1} \cap DOMAIN db.chain : block = db.chain[i]
    BY DEF BlockAtHeight
  <2>2. Head(work) \in Nat
    BY <1>1, <1>5, HeadTailProperties
  <2>3. i = Head(work)
    BY <1>4, <2>1, <2>2
  <2>4. db.chain[i].id = i
    <3>1. i \in 1..Len(db.chain)
      BY <1>4, <2>1, ChainIsSeq
    <3> QED BY <1>4, <3>1, ChainIsSeq
  <2> QED BY <2>1, <2>3, <2>4
<1>7. /\ found \in Seq(A)
      /\ \A t : t \in Elems(found) <=> t \in A /\ db.txs[t].block = Head(work)
  BY <1>1, <1>2, <1>6, TokenCallsFound
<1>8. accum \in Seq(A) /\ Pending(db, accum, work)
  BY <1>1, <1>2 DEF EthTyped, ListsOK, TokensOK
<1> HIDE DEF found
<1>9. Pending(db, calls, work')
  <2>1. \A t : t \in Elems(found) <=> t \in TransferRows(db) /\ db.txs[t].block = Head(work)
    BY <1>7
  <2>2. Pending(db, accum \o found, Tail(work))
    <3> HIDE DEF A
    <3> QED BY <1>1, <1>5, <1>7, <1>8, <2>1, PendingNext
  <2> QED BY <1>1, <2>2
<1>10. calls \in Seq(A)
  BY <1>7, <1>8, ConcatProperties
<1>11. work' \in Seq(Nat)
  BY <1>1, <1>5, HeadTailProperties
<1>12. db' = AddAccum(db, calls, FlushCalls)
       /\ accum' = IF Len(calls) < FlushCalls THEN calls ELSE <<>>
  BY <1>3 DEF found
<1> HIDE DEF calls
<1>13. CASE Len(calls) < FlushCalls
  <2>1. db' = db /\ accum' = calls
    BY <1>12, <1>13 DEF AddAccum
  <2> QED BY <1>4, <1>9, <2>1
<1>14. CASE ~(Len(calls) < FlushCalls)
  <2>1. Records(db, db', Elems(calls))
    <3>1. TokenTable(db)
      BY <1>4 DEF Downward
    <3> HIDE DEF A
    <3> QED BY <1>4, <1>10, <1>12, <1>14, <3>1, AddAccumRecords
  <2>2. db'.txs = db.txs
    BY <1>4, <1>12, AddAccumRows DEF SameRows
  <2>3. Elems(calls) \subseteq TransferRows(db)
    BY <1>10, ElemsOfSeq
  <2>4. Downward(db') /\ Pending(db', <<>>, work')
    BY <1>4, <1>9, <1>11, <2>1, <2>2, <2>3, RecordsPending
  <2> QED BY <1>12, <1>14, <2>4
<1> QED BY <1>13, <1>14

\* The last calls are recorded: nothing is missing.
LEMMA TokensDoneTokens ==
    ASSUME EthInv, EthTyped, TokensOK, TokensDone
    PROVE  TokensOK'
<1>1. /\ pc = "token" /\ pc' = "loop" /\ work = <<>>
      /\ network' = network /\ nulls' = nulls
      /\ db' = AddAccum(db, accum, 1)
  BY DEF TokensDone, world
<1>2. SUFFICES ASSUME network = "Rsk"
               PROVE  Complete(db')
  BY <1>1, CompleteDownward, TokensLater
<1>3. /\ Downward(db) /\ Numbered(db) /\ DOMAIN db = Fields
  BY <1>1, <1>2, RskFacts
<1>4. accum \in Seq(TransferRows(db)) /\ Pending(db, accum, <<>>)
  BY <1>1, <1>2 DEF EthTyped, ListsOK, TokensOK
<1>5. CASE Len(accum) < 1
  <2>1. db' = db
    BY <1>1, <1>5 DEF AddAccum
  <2>2. \A t : t \notin Elems(accum) /\ t \notin Elems(<<>>)
    <3>1. Len(accum) \in Nat
      BY <1>4, LenProperties
    <3>2. 1..Len(accum) = {}
      BY <1>5, <3>1
    <3> QED BY <3>2 DEF Elems
  <2>3. TransferRows(db) \subseteq Recorded(db)
    BY <1>4, <2>2 DEF Pending
  <2> QED BY <1>3, <2>1, <2>3 DEF Complete, Downward
<1>6. CASE ~(Len(accum) < 1)
  <2>1. TokenTable(db)
    BY <1>3 DEF Downward
  <2> DEFINE A == TransferRows(db)
  <2>2. accum \in Seq(A)
    BY <1>4
  <2>3. Records(db, db', Elems(accum))
    <3> HIDE DEF A
    <3> QED BY <1>1, <1>3, <1>6, <2>1, <2>2, AddAccumRecords
  <2>4. db'.txs = db.txs
    BY <1>1, <1>3, AddAccumRows DEF SameRows
  <2>5. Elems(accum) \subseteq TransferRows(db)
    BY <2>2, ElemsOfSeq
  <2>6. <<>> \in Seq(Nat)
    OBVIOUS
  <2> QED BY <1>3, <1>4, <2>3, <2>4, <2>5, <2>6, RecordsPending
<1> QED BY <1>5, <1>6

LEMMA PushedTokens ==
    ASSUME EthInv, EthTyped, TokensOK, Push
    PROVE  TokensOK'
<1>1. /\ pc = "push" /\ pc' # "token" /\ network' = network /\ nulls' = nulls
  BY DEF Push, world
<1>2. SUFFICES ASSUME network = "Rsk"
               PROVE  Complete(db')
  BY <1>1, CompleteDownward, TokensLater
<1>3. PICK S : Fits(db, S) /\ Left(S)
  BY DEF EthInv, MemoryFits, Push
<1>4. S \subseteq {Stale(db, Pushed)} /\ (S # {} => BlocksToRevert(db, Pushed) = <<>>)
  BY <1>3 DEF Left
<1>5. /\ Pushed \in Hashes /\ ~BlockRequired(db, Pushed)
      /\ Holds(db, FirstBlockHeight) /\ FirstBlockHeight \in Nat
  BY PushedFacts, FirstBlockHeightType DEF Push, Sound
<1>6. db' = InsertBlock(DeleteBlocks(db, BlocksToRevert(db, Pushed)), Pushed, Processed)
  BY DEF Push
<1>7. Processed = Transfers(Pushed)
  BY <1>2, RskCounts DEF Processed, Transfers
<1>8. Downward(db) /\ Complete(db)
  BY <1>1, <1>2 DEF TokensOK
<1> QED BY <1>3, <1>4, <1>5, <1>6, <1>7, <1>8, PushTokens

\* A batch.
LEMMA BatchTokens ==
    ASSUME EthInv, TokensOK, pc = "fetch", network = "Rsk"
    PROVE  Downward(InsertBlocks(db, queued).db)
<1>1. /\ Sound(db) /\ queued \in Seq(Hashes) /\ Downward(db)
      /\ db.chain = <<>> /\ queued # <<>> => Number(queued[1]) = FirstBlockHeight
  BY DEF EthInv, BatchStarts, TokensOK
<1>2. Fits(db, {})
  BY SettledFits
<1> QED BY <1>1, <1>2, InsertBlocksTokens

LEMMA InitTokens == Init => TokensOK
<1> SUFFICES ASSUME Init PROVE TokensOK
  OBVIOUS
<1>1. db.token_txs = <<>> /\ db.txs = <<>> /\ nulls = 0 /\ pc = "down"
  BY DEF Init, EmptyDatabase
<1>2. Recorded(db) = {} /\ TransferRows(db) = {}
  BY <1>1 DEF Recorded, TransferRows
<1>3. TokenTable(db)
  <2>1. DOMAIN db.token_txs = {} /\ IsFiniteSet({})
    BY <1>1, FS_EmptySet
  <2> QED BY <1>1, <2>1 DEF TokenTable
<1> QED BY <1>1, <1>2, <1>3 DEF TokensOK, Downward

LEMMA NextTokens == EthInv /\ EthTyped /\ TokensOK /\ [Next]_vars => TokensOK'
<1> SUFFICES ASSUME EthInv, EthTyped, TokensOK, [Next]_vars PROVE TokensOK'
  OBVIOUS
<1>1. CASE StartRefused \/ Poll \/ UNCHANGED vars \/ \E h \in Hashes : NodeAdopts(h)
  <2>1. /\ network' = network /\ nulls' = nulls /\ pc' = pc /\ db' = db
        /\ UNCHANGED <<accum, work>>
    BY <1>1 DEF StartRefused, Poll, NodeAdopts, vars, world, locals
  <2>2. SameTokens(db, db')
    BY <2>1 DEF SameTokens
  <2> QED BY <2>1, <2>2, TokensSame
<1>2. CASE Start
  <2>1. pc' = "plan" /\ network' = network /\ nulls' = nulls /\ SameTokens(db, db')
    BY <1>2, OpenTokens DEF Start, world, EthInv, Stored
  <2> QED BY <2>1, TokensSame
<1>3. CASE CleanUp
  <2>1. network # "Rsk" /\ network' = network
    BY <1>3, CodedConsistent DEF CleanUp, world, TokensOK, EthTyped, IdsOK
  <2> QED BY <2>1 DEF TokensOK
<1>4. CASE LoadTokens
  <2>1. /\ network' = network /\ nulls' = nulls /\ pc' = pc /\ UNCHANGED <<accum, work>>
        /\ SameTokens(db, db')
    BY <1>4, EncodeTokens DEF LoadTokens, world, locals, EthInv, Sound, Holds
  <2> QED BY <2>1, TokensSame
<1>5. CASE Crash \/ TokenBlockMissing \/ BlockMissing
  <2>1. /\ network' = network /\ nulls' = nulls /\ pc # "down" /\ Die(db)
    BY <1>5 DEF Crash, TokenBlockMissing, BlockMissing, world
  <2>2. DOMAIN db = Fields /\ (network = "Rsk" => Downward(db))
    BY <2>1 DEF EthInv, Sound, Holds, TokensOK
  <2> QED BY <2>1, <2>2, TokensDie
<1>6. CASE StopInitial
  <2> DEFINE d == InsertBlocks(db, queued).db
  <2>1. /\ network' = network /\ nulls' = nulls /\ pc = "fetch" /\ Die(d)
    BY <1>6 DEF StopInitial
  <2>2. DOMAIN d = Fields /\ (network = "Rsk" => Downward(d))
    BY <2>1, BatchKeeps, BatchTokens DEF EthTyped, Keeps
  <2> HIDE DEF d
  <2> QED BY <2>1, <2>2, TokensDie
<1>7. CASE Commit
  <2>1. /\ network' = network /\ nulls' = nulls /\ pc = "fetch"
        /\ pc' \in {"tokens", "fetch", "plan"} /\ db' = InsertBlocks(db, queued).db
    BY <1>7 DEF Commit, world
  <2> QED BY <2>1, BatchTokens, TokensLater
<1>8. CASE Plan \/ Fetch \/ FollowNode \/ PushRequires
  <2>1. /\ network' = network /\ nulls' = nulls /\ pc' # "token" /\ db' = db
        /\ pc' \in {"loop", "push"} => pc \in {"loop", "push"}
    BY <1>8 DEF Plan, Fetch, FollowNode, PushRequires, world
  <2>2. SameTokens(db, db')
    BY <2>1 DEF SameTokens
  <2> QED BY <2>1, <2>2, TokensSame
<1>9. CASE TokenPlan \/ TokenBlock \/ TokensDone \/ Push
  BY <1>9, TokenPlanTokens, TokenBlockTokens, TokensDoneTokens, PushedTokens
<1>10. CASE pc = "push" /\ \E k \in DOMAIN Txs[Pushed] : ReceiptMissing(k)
  <2>1. network # "Rsk" /\ network' = network
    BY <1>10 DEF ReceiptMissing
  <2> QED BY <2>1 DEF TokensOK
<1> QED
  BY <1>1, <1>2, <1>3, <1>4, <1>5, <1>6, <1>7, <1>8, <1>9, <1>10 DEF Next, ThreadStep

\* On Rsk, once the initial token update is done, what is recorded for the
\* token are the transfers of the chain's blocks: whatever batch or AddAccum a
\* stop cut short, the next one goes on from there, and no reorganization
\* leaves a transfer of a block it deleted.
THEOREM TokenHistoryRight == Spec => []TokenHistoryMatchesChain
<1>1. EthInv /\ TokensOK => TokenHistoryMatchesChain
  <2> SUFFICES ASSUME EthInv, TokensOK, network = "Rsk", pc = "loop"
               PROVE  TokenHistoryMatchesChain
    BY DEF TokenHistoryMatchesChain
  <2> DEFINE left == {db.txs[db.token_txs[k].tx].tx : k \in DOMAIN db.token_txs}
             right == UNION {{<<db.chain[i].hash, k>> : k \in {j \in DOMAIN Txs[db.chain[i].hash] :
                   Counts(Txs[db.chain[i].hash][j], network)}} : i \in DOMAIN db.chain}
  <2>1. /\ Holds(db, FirstBlockHeight) /\ FirstBlockHeight \in Nat /\ Fits(db, {})
        /\ Recorded(db) = TransferRows(db)
    BY SettledFits, FirstBlockHeightType DEF EthInv, TokensOK, Sound, Complete
  <2>2. \A n : OnChain(db, n) <=> InRows(db.txs, n)
    BY <2>1, RowsAreChain
  <2>3. ASSUME NEW n
        PROVE  n \in left <=> \E t \in DOMAIN db.txs : n = db.txs[t].tx /\ IsTransfer(Txs[n[1]][n[2]])
    <3>1. n \in left <=> \E t \in Recorded(db) : n = db.txs[t].tx
      BY DEF Recorded
    <3> HIDE DEF left
    <3> QED BY <2>1, <3>1 DEF TransferRows
  <2>4. ASSUME NEW n
        PROVE  n \in right <=> OnChain(db, n) /\ IsTransfer(Txs[n[1]][n[2]])
    <3>1. n \in right <=> \E i \in DOMAIN db.chain : \E k \in DOMAIN Txs[db.chain[i].hash] :
             n = <<db.chain[i].hash, k>> /\ Counts(Txs[db.chain[i].hash][k], network)
      OBVIOUS
    <3> HIDE DEF right
    <3>2. ASSUME NEW i, NEW k, n = <<db.chain[i].hash, k>>
          PROVE  Counts(Txs[db.chain[i].hash][k], network) <=> IsTransfer(Txs[n[1]][n[2]])
      BY <3>2, RskCounts
    <3> QED BY <3>1, <3>2 DEF OnChain
  <2> HIDE DEF left, right
  <2>5. \A n : n \in left <=> n \in right
    BY <2>2, <2>3, <2>4 DEF InRows
  <2>6. left = right
    BY <2>5
  <2> QED BY <2>6 DEF TokenHistoryMatchesChain, left, right
<1> QED BY <1>1, InitInv, NextInv, InitTyped, NextTyped, InitTokens, NextTokens, PTL DEF Spec

=============================================================================
