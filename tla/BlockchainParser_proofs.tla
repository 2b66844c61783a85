----------------------- MODULE BlockchainParser_proofs -----------------------
(***************************************************************************)
(* Proofs about BlockchainParser.                                          *)
(***************************************************************************)
EXTENDS BlockchainParser, Blockchain_proofs

(***************************************************************************)
(* The inductive invariant.                                                *)
(***************************************************************************)

TxOf(rs) == [hash : Blocks, block : {r.id : r \in rs}]

\* The committed tables are part of those in memory, ids are given once, and a
\* saved head is in the table.
Tables ==
    /\ rows \in SUBSET Row /\ IsFiniteSet(rows)
    /\ \A r, q \in rows : r.id = q.id => r = q
    /\ disk.rows \subseteq rows
    /\ disk \in [rows : SUBSET Row, head : SUBSET Blocks]
    /\ head \subseteq Hashes(rows) /\ disk.head \subseteq Hashes(disk.rows)
    /\ txs \in Seq(TxOf(rows)) /\ disk_txs \in Seq(TxOf(disk.rows))
    /\ pc \in {"down", "idle", "head", "first"} => txs = disk_txs
    /\ pc \in {"down", "idle", "head"} => rows = disk.rows
    /\ pc = "down" => head = disk.head
    /\ pc \in {"idle", "first"} => head = {}

\* What the program has read, and where it is.
Reading ==
    /\ files \in FileSets
    /\ pc \in {"down", "idle", "head", "first", "batch", "parse"}
    /\ call = NoCall
    /\ blockchain \in Seq(rows)
    /\ pc \in {"down", "idle", "first"} => blockchain = <<>>
    /\ pc = "head" => blockchain # <<>>
    /\ queue \in Seq(Seq(Blocks)) /\ reading \in [Workers -> Seq(Blocks)]
    /\ pc # "first" => reading = Idle
    /\ next \in 0..Len(blockchain) /\ batch \in 0..BatchBlocks
    /\ {run, continue_running, skipped} \subseteq BOOLEAN
    /\ passes \in Nat

\* A block of the files that the first pass has still to add.
Pending(b) ==
    \/ \E f \in DOMAIN queue : \E i \in DOMAIN queue[f] : queue[f][i] = b
    \/ \E w \in Workers : \E i \in DOMAIN reading[w] : reading[w][i] = b

\* The first pass adds the blocks of the files and no others, and all of them
\* unless a thread fails.
Complete ==
    /\ Hashes(rows) \subseteq FileBlocks(files)
    /\ pc = "first" => \A b \in Blocks : Pending(b) => b \in FileBlocks(files)
    /\ pc = "first" /\ run =>
          \A b \in FileBlocks(files) : b \in Hashes(rows) \/ Pending(b)

\* The tables of a first pass that chose `tip` and added `last` last, and of as
\* many blocks of the chain of `tip`, from place `root` on, as `table` has: one
\* more row each, with ids above those of the first pass.
TablesOf(rs, table, tip, last, root) ==
    LET L == Lineage[tip] IN
    /\ last \in rs
    /\ root \in 1..Len(L)
    /\ \A j \in root..Len(L) : \E r \in rs : r.hash = L[j] /\ r.id <= last.id
    /\ root = 1 \/ L[root - 1] \notin Hashes(rs)
    /\ \A r \in rs : Parent(r.hash) # tip
    /\ Len(table) <= Len(L) + 1 - root
    /\ \A k \in 1..Len(table) : /\ table[k].hash = L[root + k - 1]
                                /\ table[k].block > last.id
    /\ \A k \in 1..Len(table) :
          [id |-> table[k].block, hash |-> table[k].hash] \in rs
    /\ \A r \in rs : r.id > last.id =>
          \E k \in 1..Len(table) :
              r = [id |-> table[k].block, hash |-> table[k].hash]

\* The chain in memory is the chain of `tip`; the blocks that are still to be
\* parsed are known by their rows of the first pass.
ChainOf(tip, last, root) ==
    LET L == Lineage[tip] IN
    /\ Len(blockchain) = Len(L) + 1 - root
    /\ \A i \in 1..Len(blockchain) : blockchain[i].hash = L[root + i - 1]
    /\ pc = "head" =>
          \A i \in 1..Len(blockchain) : blockchain[i] = RowOf(rows, L[root + i - 1])
    /\ pc \in {"batch", "parse"} =>
          \/ /\ next = Len(txs)
             /\ \A i \in 1..Len(blockchain) : i > next => blockchain[i].id <= last.id
          \/ /\ next = 0
             /\ Len(txs) = Len(blockchain)
             /\ blockchain[1].id = txs[1].block

\* Where the second pass is, once one first pass was committed.
Resumable(tip, last, root) ==
    /\ TablesOf(disk.rows, disk_txs, tip, last, root)
    /\ disk.head \subseteq {tip}
    /\ ~skipped => root = 1
    /\ pc # "first" => TablesOf(rows, txs, tip, last, root) /\ head \subseteq {tip}
    /\ pc \in {"head", "batch", "parse"} => ChainOf(tip, last, root)
    /\ pc # "idle"

Progress ==
    /\ passes = 0 => /\ disk.rows = {} /\ disk_txs = <<>>
                     /\ pc # "head"
                     /\ pc # "first" => rows = {}
                     /\ pc \in {"batch", "parse"} => blockchain = <<>> /\ txs = <<>>
    /\ passes = 1 => \E tip \in Blocks, last \in disk.rows :
                        \E root \in 1..Len(Lineage[tip]) : Resumable(tip, last, root)

ParserInv == Tables /\ Reading /\ Complete /\ Progress


(***************************************************************************)
(* Lemmas about the operators.                                             *)
(***************************************************************************)

\* A sequence over a set is one over a larger set.
LEMMA SeqMonotone ==
    ASSUME NEW S, NEW T, S \subseteq T, NEW s \in Seq(S)
    PROVE  s \in Seq(T)
<1>1. Len(s) \in Nat /\ s \in [1..Len(s) -> S]
  BY LenProperties
<1>2. s \in [1..Len(s) -> T]
  BY <1>1
<1> QED BY <1>1, <1>2, SeqDef

\* The row that counts for a hash is the last of its rows.
LEMMA RowOfIsLast ==
    ASSUME NEW rs \in SUBSET Row, IsFiniteSet(rs), NEW h \in Hashes(rs)
    PROVE  \A q \in rs : q.hash = h => q.id <= RowOf(rs, h).id
<1> DEFINE mine == {r \in rs : r.hash = h}
           ids == {r.id : r \in mine}
           f == [r \in mine |-> r.id]
<1>1. IsFiniteSet(mine)
  BY FS_Subset
<1>2. f \in Surjection(mine, ids)
  BY DEF Surjection
<1>3. IsFiniteSet(ids)
  BY <1>1, <1>2, FS_Surjection
<1>4. ids \in SUBSET Nat /\ ids # {}
  BY DEF Row, Hashes
<1>5. PICK m \in ids : \A n \in ids : n <= m
  BY <1>3, <1>4, LargestNatural
<1>6. \E r \in rs : r.hash = h /\ \A q \in rs : q.hash = h => q.id <= r.id
  BY <1>5
<1> QED BY <1>6 DEF RowOf

\* A table with rows has one that was added last.
LEMMA LastRow ==
    ASSUME NEW rs \in SUBSET Row, IsFiniteSet(rs), rs # {}
    PROVE  \E last \in rs : \A r \in rs : r.id <= last.id
<1> DEFINE ids == {r.id : r \in rs}
           f == [r \in rs |-> r.id]
<1>1. f \in Surjection(rs, ids)
  BY DEF Surjection
<1>2. IsFiniteSet(ids)
  BY <1>1, FS_Surjection
<1>3. ids \in SUBSET Nat /\ ids # {}
  BY DEF Row
<1>4. PICK m \in ids : \A n \in ids : n <= m
  BY <1>2, <1>3, LargestNatural
<1> QED BY <1>4

\* The table has the blocks of the lineage of `h` from place `root` up, and
\* not the one below.
RootOf(rs, h, root) ==
    /\ root \in 1..Len(Lineage[h])
    /\ \A j \in root..Len(Lineage[h]) : Lineage[h][j] \in Hashes(rs)
    /\ root = 1 \/ Lineage[h][root - 1] \notin Hashes(rs)

\* Such a place exists, and there is only one.
LEMMA RootExists ==
    ASSUME NEW rs \in SUBSET Row, NEW h \in Blocks, h \in Hashes(rs)
    PROVE  \E root \in 1..Len(Lineage[h]) : RootOf(rs, h, root)
<1> DEFINE L == Lineage[h]
           n == Len(L)
           M == {j \in 0..(n - 1) : j = 0 \/ L[j] \notin Hashes(rs)}
<1>1. n \in Nat \ {0} /\ L[n] = h
  BY LineageFacts
<1>2. M \in SUBSET Nat /\ M # {}
  <2>1. 0 \in 0..(n - 1) /\ 0..(n - 1) \subseteq Nat
    BY <1>1
  <2> QED BY <2>1
<1>3. IsFiniteSet(M)
  <2>1. n - 1 \in Int /\ 0 \in Int
    BY <1>1
  <2>2. IsFiniteSet(0..(n - 1))
    <3> HIDE DEF n
    <3> QED BY <2>1, FS_Interval
  <2>3. M \in SUBSET (0..(n - 1))
    OBVIOUS
  <2> HIDE DEF M
  <2> QED BY <2>2, <2>3, FS_Subset
<1>4. PICK m \in M : \A j \in M : j <= m
  BY <1>2, <1>3, LargestNatural
<1>5. ASSUME NEW j \in (m + 1)..n PROVE L[j] \in Hashes(rs)
  <2>1. j \in 1..n /\ j \notin M
    BY <1>1, <1>4
  <2> QED BY <1>1, <2>1
<1>6. m + 1 \in 1..n /\ (m + 1) - 1 = m
  BY <1>1, <1>4
<1> QED BY <1>4, <1>5, <1>6 DEF RootOf

LEMMA RootUnique ==
    ASSUME NEW rs, NEW h \in Blocks,
           NEW r \in Nat, RootOf(rs, h, r), NEW q \in Nat, RootOf(rs, h, q)
    PROVE  r = q
<1>1. Len(Lineage[h]) \in Nat
  BY LineageFacts
<1>2. ASSUME NEW a \in Nat, NEW b \in Nat, RootOf(rs, h, a), RootOf(rs, h, b), a < b
      PROVE  FALSE
  <2>1. b - 1 \in a..Len(Lineage[h]) /\ b # 1
    BY <1>1, <1>2 DEF RootOf
  <2> QED BY <1>2, <2>1 DEF RootOf
<1> QED BY <1>2

\* The chain the constructor loads under `h`.
LEMMA AssembleAt ==
    ASSUME NEW rs \in SUBSET Row, IsFiniteSet(rs), NEW h \in Blocks,
           NEW root \in Nat, RootOf(rs, h, root)
    PROVE  LET A == AssembleBlockchain(rs, h)
               L == Lineage[h]
           IN  /\ A \in Seq(rs)
               /\ Len(A) = Len(L) + 1 - root
               /\ \A i \in 1..Len(A) : A[i] = RowOf(rs, L[root + i - 1])
               /\ \A i \in 1..Len(A) : A[i].hash = L[root + i - 1]
<1> DEFINE L == Lineage[h]
           Root(k) == /\ \A j \in k..Len(L) : L[j] \in Hashes(rs)
                      /\ k = 1 \/ L[k - 1] \notin Hashes(rs)
           at == CHOOSE k \in 1..Len(L) : Root(k)
           n == Len(L) - root + 1
           A == [i \in 1..n |-> RowOf(rs, L[root + i - 1])]
<1>1. Len(L) \in Nat \ {0} /\ root \in 1..Len(L)
  BY LineageFacts DEF RootOf
<1>2. at = root
  <2>1. Root(root)
    BY DEF RootOf
  <2>2. at \in 1..Len(L) /\ Root(at)
    <3> HIDE DEF Root
    <3> QED BY <1>1, <2>1
  <2>3. RootOf(rs, h, at) /\ at \in Nat
    <3> HIDE DEF at
    <3> QED BY <1>1, <2>2 DEF RootOf
  <2> HIDE DEF at
  <2> QED BY <2>3, RootUnique
<1>3. AssembleBlockchain(rs, h) = A
  <2>1. AssembleBlockchain(rs, h)
            = [i \in 1..(Len(L) - at + 1) |-> RowOf(rs, L[at + i - 1])]
    BY DEF AssembleBlockchain
  <2> HIDE DEF at
  <2> QED BY <1>2, <2>1
<1>4. n \in Nat \ {0} /\ n = Len(L) + 1 - root
  BY <1>1
<1>5. ASSUME NEW i \in 1..n
      PROVE  A[i] \in rs /\ A[i].hash = L[root + i - 1]
  <2>1. root + i - 1 \in root..Len(L)
    BY <1>1
  <2>2. L[root + i - 1] \in Hashes(rs)
    BY <2>1 DEF RootOf
  <2> QED BY <2>2, RowOfFacts
<1>6. A \in [1..n -> rs]
  BY <1>5
<1>7. A \in Seq(rs) /\ Len(A) = n
  <2>1. A \in Seq(rs)
    BY <1>4, <1>6, SeqDef
  <2>2. DOMAIN A = 1..n
    OBVIOUS
  <2> QED BY <1>4, <2>1, <2>2, LenProperties
<1>8. \A i \in 1..n : A[i] = RowOf(rs, L[root + i - 1])
  OBVIOUS
<1>9. n = Len(AssembleBlockchain(rs, h))
  BY <1>3, <1>7
<1> HIDE DEF A, n
<1>10. Len(A) = Len(L) + 1 - root
  BY <1>4, <1>7
<1> QED BY <1>3, <1>5, <1>7, <1>8, <1>9, <1>10

(***************************************************************************)
(* What the tables of a first pass and of a part of the second tell.       *)
(***************************************************************************)

\* The tables have the chain of `tip` from `root` up, and `tip` is a head.
LEMMA TablesRoot ==
    ASSUME NEW rs \in SUBSET Row, NEW table, NEW tip \in Blocks, NEW last, NEW root,
           TablesOf(rs, table, tip, last, root)
    PROVE  /\ root \in Nat /\ RootOf(rs, tip, root)
           /\ tip \in Hashes(rs)
           /\ tip \in Hashes(Heads(rs))
<1> DEFINE L == Lineage[tip]
<1>1. Len(L) \in Nat \ {0} /\ L[Len(L)] = tip
  BY LineageFacts
<1>2. /\ root \in 1..Len(L)
      /\ \A j \in root..Len(L) : \E r \in rs : r.hash = L[j]
      /\ root = 1 \/ L[root - 1] \notin Hashes(rs)
      /\ \A r \in rs : Parent(r.hash) # tip
  BY DEF TablesOf
<1>3. root \in Nat /\ Len(L) \in root..Len(L)
  BY <1>1, <1>2
<1>4. PICK r \in rs : r.hash = tip
  BY <1>1, <1>2, <1>3
<1>5. r \in Heads(rs)
  BY <1>2, <1>4 DEF Heads
<1> QED BY <1>2, <1>3, <1>4, <1>5 DEF RootOf, Hashes

\* select_head answers `tip` when the saved head is `tip`, and nothing else
\* when no head is saved.
LEMMA TipSelected ==
    ASSUME NEW rs \in SUBSET Row, IsFiniteSet(rs), NEW hd,
           NEW tip \in Blocks, tip \in Hashes(Heads(rs)), hd \subseteq {tip}
    PROVE  /\ SelectHead(rs, hd) \subseteq {tip}
           /\ hd = {tip} => SelectHead(rs, hd) = {tip}
<1>1. Heads(rs) \subseteq rs /\ IsFiniteSet(Heads(rs))
  BY FS_Subset DEF Heads
<1>2. PICK r \in Heads(rs) : r.hash = tip
  BY DEF Hashes
<1>3. CASE Cardinality(Heads(rs)) = 1
  <2>1. PICK q : Heads(rs) = {q}
    BY <1>1, <1>3, FS_Singleton
  <2>2. Hashes(Heads(rs)) = {tip}
    BY <1>2, <2>1 DEF Hashes
  <2> QED BY <1>3, <2>2 DEF SelectHead
<1>4. CASE Cardinality(Heads(rs)) # 1
  <2>1. tip \in Hashes(rs)
    BY <1>1, <1>2 DEF Hashes
  <2> QED BY <1>4, <2>1 DEF SelectHead
<1> QED BY <1>3, <1>4

\* Of the blocks that are parsed, the row that counts is the one with their
\* transactions; of the others, a row of the first pass.
LEMMA ParsedRows ==
    ASSUME NEW rs \in SUBSET Row, IsFiniteSet(rs),
           \A r, q \in rs : r.id = q.id => r = q,
           NEW table \in Seq(TxOf(rs)), NEW tip \in Blocks, NEW last, NEW root,
           TablesOf(rs, table, tip, last, root),
           NEW i \in 1..(Len(Lineage[tip]) + 1 - root)
    PROVE  LET r == RowOf(rs, Lineage[tip][root + i - 1]) IN
           /\ r \in rs /\ r.hash = Lineage[tip][root + i - 1]
           /\ i <= Len(table) => r.id = table[i].block
           /\ i > Len(table) => r.id <= last.id
<1> DEFINE L == Lineage[tip]
           h == L[root + i - 1]
           r == RowOf(rs, h)
<1>1. /\ Len(L) \in Nat \ {0}
      /\ \A j, k \in 1..Len(L) : L[j] = L[k] => j = k
  BY LineageFacts
<1>2. Len(table) \in Nat
  BY LenProperties
<1>3. /\ last \in rs
      /\ root \in 1..Len(L)
      /\ Len(table) <= Len(L) + 1 - root
      /\ \A k \in 1..Len(table) : table[k].hash = L[root + k - 1] /\ table[k].block > last.id
      /\ \A k \in 1..Len(table) : [id |-> table[k].block, hash |-> table[k].hash] \in rs
      /\ \A q \in rs : q.id > last.id =>
            \E k \in 1..Len(table) : q = [id |-> table[k].block, hash |-> table[k].hash]
  BY DEF TablesOf
<1>4. RootOf(rs, tip, root)
  BY TablesRoot
<1>5. root + i - 1 \in root..Len(L) /\ root + i - 1 \in 1..Len(L)
  BY <1>1, <1>3
<1>6. h \in Hashes(rs)
  BY <1>4, <1>5 DEF RootOf
<1>7. r \in rs /\ r.hash = h /\ \A q \in rs : q.hash = h => q.id <= r.id
  BY <1>6, RowOfFacts, RowOfIsLast
<1> HIDE DEF r
<1>8. r.id \in Nat /\ last.id \in Nat
  BY <1>3, <1>7 DEF Row
<1>9. ASSUME r.id > last.id
      PROVE  i \in 1..Len(table) /\ r.id = table[i].block
  <2>1. PICK k \in 1..Len(table) : r = [id |-> table[k].block, hash |-> table[k].hash]
    BY <1>3, <1>7, <1>9
  <2>2. table[k].hash = h /\ table[k].hash = L[root + k - 1]
    BY <1>3, <1>7, <2>1
  <2>3. root + k - 1 \in 1..Len(L)
    BY <1>1, <1>2, <1>3
  <2>4. root + k - 1 = root + i - 1
    BY <1>1, <1>5, <2>2, <2>3
  <2>5. k = i
    BY <1>3, <2>4
  <2> QED BY <2>1, <2>5
<1>10. ASSUME i <= Len(table)
       PROVE  r.id > last.id
  <2>1. i \in 1..Len(table)
    BY <1>2, <1>10
  <2> DEFINE q == [id |-> table[i].block, hash |-> table[i].hash]
  <2>2. q \in rs /\ q.hash = h /\ q.id > last.id
    BY <1>3, <2>1
  <2>3. q.id <= r.id /\ q.id \in Nat
    BY <1>7, <2>2 DEF Row
  <2> QED BY <1>8, <2>2, <2>3
<1>11. i <= Len(table) => r.id = table[i].block
  BY <1>9, <1>10
<1>12. i > Len(table) => r.id <= last.id
  BY <1>2, <1>8, <1>9
<1> QED BY <1>7, <1>11, <1>12 DEF r

\* find_next_processing_block gives a place of the chain, and the first one
\* when nothing is parsed.
LEMMA FindNextRange ==
    ASSUME NEW S, NEW chain \in Seq(S), NEW table
    PROVE  /\ FindNext(chain, table) \in 0..Len(chain)
           /\ FindNext(chain, <<>>) = 0
<1> DEFINE found(t) == {i \in DOMAIN chain : /\ i > 1 /\ t # <<>>
                                             /\ chain[i - 1].id = Top(t).block}
           i(t) == CHOOSE j \in found(t) : TRUE
<1>1. Len(chain) \in Nat /\ DOMAIN chain = 1..Len(chain)
  BY LenProperties
<1>2. FindNext(chain, table) = IF found(table) = {} THEN 0 ELSE i(table) - 1
  BY DEF FindNext
<1>3. found(table) # {} => i(table) \in 1..Len(chain)
  <2>1. found(table) # {} => i(table) \in found(table)
    <3> HIDE DEF found
    <3> QED OBVIOUS
  <2>2. found(table) \subseteq 1..Len(chain)
    BY <1>1
  <2> HIDE DEF found, i
  <2> QED BY <2>1, <2>2
<1>4. FindNext(chain, <<>>) = 0
  BY DEF FindNext
<1> HIDE DEF found, i
<1> QED BY <1>1, <1>2, <1>3, <1>4

\* The chain is the one the rows that count give from `root` up.
LoadedFrom(rs, tip, root, chain) ==
    /\ Len(chain) = Len(Lineage[tip]) + 1 - root
    /\ \A i \in 1..Len(chain) : chain[i] = RowOf(rs, Lineage[tip][root + i - 1])

\* The second pass resumes behind the last parsed block; on a database where
\* all blocks of the chain are parsed it starts over, at a row without a file.
LEMMA FindNextFacts ==
    ASSUME NEW rs \in SUBSET Row, IsFiniteSet(rs),
           \A r, q \in rs : r.id = q.id => r = q,
           NEW table \in Seq(TxOf(rs)), NEW tip \in Blocks, NEW last, NEW root,
           TablesOf(rs, table, tip, last, root),
           NEW chain \in Seq(rs), LoadedFrom(rs, tip, root, chain)
    PROVE  LET m == FindNext(chain, table) IN
           \/ /\ m = Len(table)
              /\ \A i \in 1..Len(chain) : i > m => chain[i].id <= last.id
           \/ /\ m = 0
              /\ Len(table) = Len(chain)
              /\ chain[1].id = table[1].block
<1> DEFINE L == Lineage[tip]
           n == Len(chain)
           m == Len(table)
           found == {i \in DOMAIN chain : /\ i > 1 /\ table # <<>>
                                          /\ chain[i - 1].id = Top(table).block}
<1>1. /\ n \in Nat \ {0} /\ m \in 0..n /\ root \in 1..Len(L)
      /\ DOMAIN chain = 1..n /\ n = Len(L) + 1 - root
      /\ \A i, j \in 1..Len(L) : L[i] = L[j] => i = j
  <2>1. Len(L) \in Nat \ {0} /\ \A i, j \in 1..Len(L) : L[i] = L[j] => i = j
    BY LineageFacts
  <2>2. root \in 1..Len(L) /\ m <= Len(L) + 1 - root
    BY DEF TablesOf
  <2>3. m \in Nat /\ n \in Nat /\ DOMAIN chain = 1..n
    BY LenProperties
  <2>4. n = Len(L) + 1 - root
    BY DEF LoadedFrom
  <2> HIDE DEF n, m, L
  <2> QED BY <2>1, <2>2, <2>3, <2>4
<1>2. ASSUME NEW i \in 1..n
      PROVE  /\ chain[i] \in rs /\ chain[i].hash = L[root + i - 1]
             /\ i <= m => chain[i].id = table[i].block
             /\ i > m => chain[i].id <= last.id
  <2>1. /\ i \in 1..(Len(Lineage[tip]) + 1 - root)
        /\ chain[i] = RowOf(rs, Lineage[tip][root + i - 1])
    BY DEF LoadedFrom
  <2> QED BY <2>1, ParsedRows
<1>3. FindNext(chain, table) = IF found = {} THEN 0 ELSE (CHOOSE i \in found : TRUE) - 1
  BY DEF FindNext
<1> HIDE DEF L
<1>4. CASE m = 0
  <2>1. table = <<>>
    BY <1>4, EmptySeq
  <2>2. FindNext(chain, table) = 0
    BY <2>1, FindNextRange
  <2> QED BY <1>1, <1>2, <1>4, <2>2
<1>5. CASE m > 0
  <2>1. m \in 1..n /\ table # <<>> /\ Top(table) = table[m]
    BY <1>1, <1>5, EmptySeq DEF Top
  <2>2. ASSUME NEW i \in 1..n, i > 1, chain[i - 1].id = table[m].block
        PROVE  i = m + 1
    <3>1. i - 1 \in 1..n
      BY <1>1, <2>2
    <3>2. chain[i - 1].id = chain[m].id
      BY <1>1, <1>2, <2>1, <2>2
    <3>3. chain[i - 1] = chain[m]
      BY <1>2, <2>1, <3>1, <3>2
    <3>4. L[root + (i - 1) - 1] = L[root + m - 1]
      BY <1>2, <2>1, <3>1, <3>3
    <3>5. root + (i - 1) - 1 \in 1..Len(L) /\ root + m - 1 \in 1..Len(L)
      <4> HIDE DEF n, m
      <4> QED BY <1>1, <2>1, <3>1
    <3>6. root + (i - 1) - 1 = root + m - 1
      BY <1>1, <3>4, <3>5
    <3> HIDE DEF n, m
    <3> QED BY <1>1, <2>1, <3>6
  <2>3. found \subseteq {m + 1}
    BY <1>1, <2>1, <2>2
  <2>4. CASE m = n
    <3>1. m + 1 \notin 1..n
      <4> HIDE DEF n, m
      <4> QED BY <1>1, <2>4
    <3>2. found = {}
      BY <1>1, <2>3, <3>1
    <3>3. 1 \in 1..n /\ 1 <= m
      BY <1>1, <1>5
    <3> QED BY <1>2, <1>3, <2>4, <3>2, <3>3
  <2>5. CASE m # n
    <3>1. m + 1 \in 1..n /\ m + 1 > 1 /\ (m + 1) - 1 = m
      <4>1. m \in Nat /\ n \in Nat /\ m <= n
        BY <1>1
      <4> HIDE DEF n, m
      <4> QED BY <4>1, <1>5, <2>5
    <3>2. m + 1 \in found
      <4>1. chain[m].id = table[m].block
        <5>1. m \in 1..n /\ m <= m
          BY <1>1, <2>1
        <5> HIDE DEF n, m
        <5> QED BY <1>2, <5>1
      <4>2. chain[(m + 1) - 1].id = Top(table).block
        <5>1. (m + 1) - 1 = m
          BY <3>1
        <5> QED BY <2>1, <4>1, <5>1
      <4> QED BY <1>1, <2>1, <3>1, <4>2
    <3>3. found = {m + 1}
      BY <2>3, <3>2
    <3>4. found # {} /\ (CHOOSE i \in found : TRUE) = m + 1
      <4> HIDE DEF found, m
      <4> QED BY <3>3
    <3>5. FindNext(chain, table) = (m + 1) - 1
      <4> HIDE DEF found, m
      <4> QED BY <1>3, <3>4
    <3>6. FindNext(chain, table) = m
      BY <3>1, <3>5
    <3> QED BY <1>2, <3>6
  <2> QED BY <2>4, <2>5
<1> QED BY <1>1, <1>4, <1>5

(***************************************************************************)
(* The invariant is inductive.                                             *)
(***************************************************************************)

LEMMA ParserInvInit == ParserInit => ParserInv
<1> SUFFICES ASSUME ParserInit PROVE ParserInv
  OBVIOUS
<1>1. /\ rows = {} /\ head = {} /\ disk = [rows |-> {}, head |-> {}]
      /\ blockchain = <<>> /\ call = NoCall /\ pc = "down"
      /\ files \in FileSets /\ queue = <<>> /\ reading = Idle /\ run = TRUE
      /\ txs = <<>> /\ disk_txs = <<>> /\ next = 0 /\ batch = 0
      /\ continue_running = TRUE /\ passes = 0 /\ skipped = FALSE
  BY ParserAssumption DEF ParserInit, Init, ParserAssumption
<1>2. Tables
  <2>1. IsFiniteSet({})
    BY FS_EmptySet
  <2>2. disk.rows = {} /\ disk.head = {} /\ disk \in [rows : SUBSET Row, head : SUBSET Blocks]
    BY <1>1
  <2>3. txs \in Seq(TxOf(rows)) /\ disk_txs \in Seq(TxOf(disk.rows))
    BY <1>1, EmptySeq
  <2> QED BY <1>1, <2>1, <2>2, <2>3 DEF Tables, Hashes
<1>3. Reading
  <2>1. BatchBlocks \in Nat
    BY ParserAssumption DEF ParserAssumption
  <2>2. reading \in [Workers -> Seq(Blocks)]
    BY <1>1 DEF Idle
  <2>3. Len(blockchain) = 0 /\ blockchain \in Seq(rows) /\ queue \in Seq(Seq(Blocks))
    BY <1>1, EmptySeq
  <2>4. next \in 0..Len(blockchain) /\ batch \in 0..BatchBlocks
    BY <1>1, <2>1, <2>3
  <2>5. {run, continue_running, skipped} \subseteq BOOLEAN
    BY <1>1
  <2> QED BY <1>1, <2>2, <2>3, <2>4, <2>5 DEF Reading
<1>4. Complete
  BY <1>1 DEF Complete, Hashes
<1>5. Progress
  BY <1>1 DEF Progress
<1> QED BY <1>2, <1>3, <1>4, <1>5 DEF ParserInv

\* What every action that ends the program does.
LEMMA ParserInvDie == ParserInv /\ DieParser => ParserInv'
<1> SUFFICES ASSUME ParserInv, DieParser PROVE ParserInv'
  OBVIOUS
<1>1. /\ blockchain' = <<>> /\ rows' = disk.rows /\ head' = disk.head
      /\ call' = NoCall /\ pc' = "down" /\ disk' = disk
      /\ txs' = disk_txs /\ next' = 0 /\ batch' = 0
      /\ queue' = <<>> /\ reading' = Idle /\ run' = TRUE
      /\ continue_running' = TRUE
      /\ UNCHANGED <<disk_txs, files, passes, skipped>>
  BY DEF DieParser, Die
<1>2. Tables'
  <2>1. disk.rows \in SUBSET Row /\ IsFiniteSet(disk.rows)
    BY FS_Subset DEF ParserInv, Tables
  <2> QED BY <1>1, <2>1 DEF ParserInv, Tables
<1>3. Reading'
  <2>1. BatchBlocks \in Nat
    BY ParserAssumption DEF ParserAssumption
  <2>2. reading' \in [Workers -> Seq(Blocks)]
    BY <1>1 DEF Idle
  <2>3. Len(blockchain') = 0 /\ blockchain' \in Seq(rows')
    BY <1>1
  <2> QED BY <1>1, <2>1, <2>2, <2>3 DEF ParserInv, Reading
<1>4. Complete'
  BY <1>1 DEF ParserInv, Tables, Complete, Hashes
<1>5. Progress'
  <2>1. CASE passes = 1
    <3>1. PICK tip \in Blocks, last \in disk.rows :
             \E root \in 1..Len(Lineage[tip]) : Resumable(tip, last, root)
      BY <2>1 DEF ParserInv, Progress
    <3>2. PICK root \in 1..Len(Lineage[tip]) : Resumable(tip, last, root)
      BY <3>1
    <3>3. Resumable(tip, last, root)'
      BY <1>1, <3>2 DEF Resumable
    <3> QED BY <1>1, <2>1, <3>3 DEF Progress
  <2>2. CASE passes # 1
    BY <1>1, <2>2 DEF ParserInv, Progress
  <2> QED BY <2>1, <2>2
<1> QED BY <1>2, <1>3, <1>4, <1>5 DEF ParserInv

LEMMA ParserInvStartEmpty ==
    ASSUME ParserInv, StartEmpty,
           UNCHANGED <<threads, second, continue_running, history>>
    PROVE  ParserInv'
<1>1. /\ pc = "down" /\ rows = {} /\ head' = {} /\ disk' = [disk EXCEPT !.head = {}]
      /\ pc' = "idle"
      /\ UNCHANGED <<blockchain, rows, call, queue, reading, run, txs, disk_txs, next,
                     batch, continue_running, files, passes, skipped>>
  BY DEF StartEmpty, memory, threads, second, history
<1>2. disk'.rows = disk.rows /\ disk'.head = {} /\ disk' \in [rows : SUBSET Row, head : SUBSET Blocks]
  BY <1>1 DEF ParserInv, Tables
<1>3. Tables'
  BY <1>1, <1>2 DEF ParserInv, Tables
<1>4. Reading'
  BY <1>1 DEF ParserInv, Reading
<1>5. Complete'
  BY <1>1 DEF ParserInv, Complete
<1>6. Progress'
  <2>1. passes # 1
    BY <1>1 DEF ParserInv, Progress, Tables
  <2> QED BY <1>1, <1>2, <2>1 DEF ParserInv, Progress
<1> QED BY <1>3, <1>4, <1>5, <1>6 DEF ParserInv

LEMMA ParserInvStartLoad ==
    ASSUME ParserInv, StartLoad,
           UNCHANGED <<threads, second, continue_running, history>>
    PROVE  ParserInv'
<1>1. /\ pc = "down" /\ rows # {} /\ head' = {} /\ disk' = [disk EXCEPT !.head = {}]
      /\ pc' = "head"
      /\ UNCHANGED <<rows, call, queue, reading, run, txs, disk_txs, next,
                     batch, continue_running, files, passes, skipped>>
  BY DEF StartLoad, memory, threads, second, history
<1>2. PICK h \in SelectHead(rows, head) : blockchain' = AssembleBlockchain(rows, h)
  BY DEF StartLoad
<1>3. disk'.rows = disk.rows /\ disk'.head = {} /\ disk' \in [rows : SUBSET Row, head : SUBSET Blocks]
  BY <1>1 DEF ParserInv, Tables
<1>4. rows \in SUBSET Row /\ IsFiniteSet(rows) /\ head = disk.head /\ txs = disk_txs
      /\ rows = disk.rows /\ txs \in Seq(TxOf(rows)) /\ blockchain = <<>>
      /\ \A r, q \in rows : r.id = q.id => r = q
  BY <1>1 DEF ParserInv, Tables, Reading
<1>5. h \in Hashes(rows) /\ h \in Blocks
  BY <1>4 DEF SelectHead, Hashes, Heads, Row
<1>6. PICK root \in 1..Len(Lineage[h]) : RootOf(rows, h, root)
  BY <1>4, <1>5, RootExists
<1>7. root \in Nat /\ Len(Lineage[h]) \in Nat
  BY <1>5, <1>6, LineageFacts
<1>8. blockchain' \in Seq(rows) /\ blockchain' # <<>> /\ Len(blockchain') \in Nat
  <2>1. blockchain' \in Seq(rows) /\ Len(blockchain') = Len(Lineage[h]) + 1 - root
    BY <1>2, <1>4, <1>5, <1>6, <1>7, AssembleAt
  <2>2. Len(blockchain') # 0
    BY <1>6, <1>7, <2>1
  <2> QED BY <2>1, <2>2, EmptySeq, LenProperties
<1>9. Tables'
  BY <1>1, <1>3 DEF ParserInv, Tables
<1>10. Reading'
  <2>1. next = 0
    BY <1>4 DEF ParserInv, Reading
  <2> QED BY <1>1, <1>8, <2>1 DEF ParserInv, Reading
<1>11. Complete'
  BY <1>1 DEF ParserInv, Complete
<1>12. Progress'
  <2>1. passes # 0
    BY <1>1, <1>4 DEF ParserInv, Progress
  <2>2. CASE passes = 1
    <3>1. PICK tip \in Blocks, last \in disk.rows :
             \E k \in 1..Len(Lineage[tip]) : Resumable(tip, last, k)
      BY <2>2 DEF ParserInv, Progress
    <3>2. PICK k \in 1..Len(Lineage[tip]) : Resumable(tip, last, k)
      BY <3>1
    <3>3. /\ TablesOf(rows, txs, tip, last, k) /\ head \subseteq {tip}
          /\ ~skipped => k = 1
      BY <1>1, <3>2 DEF Resumable
    <3>4. k \in Nat /\ RootOf(rows, tip, k) /\ tip \in Hashes(Heads(rows))
      BY <1>4, <3>3, TablesRoot
    <3>5. h = tip
      <4>1. SelectHead(rows, head) \subseteq {tip}
        BY <1>4, <3>3, <3>4, TipSelected
      <4> QED BY <4>1
    <3>6. /\ Len(blockchain') = Len(Lineage[tip]) + 1 - k
          /\ \A i \in 1..Len(blockchain') :
                /\ blockchain'[i] = RowOf(rows, Lineage[tip][k + i - 1])
                /\ blockchain'[i].hash = Lineage[tip][k + i - 1]
      BY <1>2, <1>4, <3>4, <3>5, AssembleAt
    <3>7. ChainOf(tip, last, k)'
      BY <1>1, <3>6 DEF ChainOf
    <3>8. Resumable(tip, last, k)'
      BY <1>1, <1>3, <1>4, <3>3, <3>7 DEF Resumable
    <3> QED BY <1>1, <1>3, <2>2, <3>8 DEF Progress
  <2> QED BY <1>1, <2>1, <2>2 DEF ParserInv, Progress
<1> QED BY <1>9, <1>10, <1>11, <1>12 DEF ParserInv

LEMMA ParserInvSaveHead == ParserInv /\ SaveHead => ParserInv'
<1> SUFFICES ASSUME ParserInv, SaveHead PROVE ParserInv'
  OBVIOUS
<1>1. /\ pc = "head" /\ pc' = "batch"
      /\ head' = {Top(blockchain).hash} /\ disk' = [disk EXCEPT !.head = head']
      /\ next' = FindNext(blockchain, txs)
      /\ UNCHANGED <<blockchain, rows, call, txs, disk_txs, batch, queue, reading, run,
                     continue_running, files, passes, skipped>>
  BY DEF SaveHead, memory, threads, history
<1>2. blockchain \in Seq(rows) /\ blockchain # <<>> /\ rows = disk.rows
      /\ rows \in SUBSET Row /\ IsFiniteSet(rows) /\ txs = disk_txs
      /\ txs \in Seq(TxOf(rows)) /\ \A r, q \in rows : r.id = q.id => r = q
  BY <1>1 DEF ParserInv, Tables, Reading
<1>3. /\ Len(blockchain) \in Nat \ {0}
      /\ Top(blockchain) = blockchain[Len(blockchain)] /\ Top(blockchain) \in rows
  <2>1. Len(blockchain) \in Nat \ {0}
    BY <1>2, EmptySeq, LenProperties
  <2> QED BY <1>2, <2>1, ElementOfSeq DEF Top
<1>4. disk'.rows = disk.rows /\ disk'.head = head'
      /\ head' \subseteq Hashes(rows) /\ head' \in SUBSET Blocks
      /\ disk' \in [rows : SUBSET Row, head : SUBSET Blocks]
  <2>1. Top(blockchain).hash \in Hashes(rows) /\ Top(blockchain).hash \in Blocks
    BY <1>2, <1>3 DEF Hashes, Row
  <2> QED BY <1>1, <2>1 DEF ParserInv, Tables
<1>5. Tables'
  BY <1>1, <1>2, <1>4 DEF ParserInv, Tables
<1>6. Reading'
  <2>1. next' \in 0..Len(blockchain)
    BY <1>1, <1>2, FindNextRange
  <2> QED BY <1>1, <2>1 DEF ParserInv, Reading
<1>7. Complete'
  BY <1>1 DEF ParserInv, Complete
<1>8. Progress'
  <2>1. passes # 0
    BY <1>1 DEF ParserInv, Progress
  <2>2. CASE passes = 1
    <3>1. PICK tip \in Blocks, last \in disk.rows :
             \E k \in 1..Len(Lineage[tip]) : Resumable(tip, last, k)
      BY <2>2 DEF ParserInv, Progress
    <3>2. PICK k \in 1..Len(Lineage[tip]) : Resumable(tip, last, k)
      BY <3>1
    <3>3. /\ TablesOf(rows, txs, tip, last, k) /\ ChainOf(tip, last, k)
          /\ ~skipped => k = 1
      BY <1>1, <3>2 DEF Resumable
    <3>4. /\ Len(blockchain) = Len(Lineage[tip]) + 1 - k
          /\ \A i \in 1..Len(blockchain) :
                /\ blockchain[i] = RowOf(rows, Lineage[tip][k + i - 1])
                /\ blockchain[i].hash = Lineage[tip][k + i - 1]
      BY <1>1, <3>3 DEF ChainOf
    <3>5. \/ /\ next' = Len(txs)
             /\ \A i \in 1..Len(blockchain) : i > next' => blockchain[i].id <= last.id
          \/ /\ next' = 0
             /\ Len(txs) = Len(blockchain)
             /\ blockchain[1].id = txs[1].block
      <4>1. LoadedFrom(rows, tip, k, blockchain)
        BY <3>4 DEF LoadedFrom
      <4>2. \/ /\ FindNext(blockchain, txs) = Len(txs)
               /\ \A i \in 1..Len(blockchain) :
                     i > FindNext(blockchain, txs) => blockchain[i].id <= last.id
            \/ /\ FindNext(blockchain, txs) = 0
               /\ Len(txs) = Len(blockchain)
               /\ blockchain[1].id = txs[1].block
        <5>1. /\ rows \in SUBSET Row /\ IsFiniteSet(rows)
              /\ \A r, q \in rows : r.id = q.id => r = q
              /\ txs \in Seq(TxOf(rows)) /\ blockchain \in Seq(rows)
          BY <1>2
        <5>2. TablesOf(rows, txs, tip, last, k)
          BY <3>3
        <5> QED BY <4>1, <5>1, <5>2, FindNextFacts
      <4> QED BY <1>1, <4>2
    <3>6. ChainOf(tip, last, k)'
      BY <1>1, <3>4, <3>5 DEF ChainOf
    <3>7. Top(blockchain).hash = tip
      <4>1. Len(Lineage[tip]) \in Nat \ {0} /\ Lineage[tip][Len(Lineage[tip])] = tip
        BY LineageFacts
      <4>2. Len(blockchain) \in 1..Len(blockchain) /\ k + Len(blockchain) - 1 = Len(Lineage[tip])
        BY <1>3, <3>4, <4>1
      <4> QED BY <1>3, <3>4, <4>1, <4>2
    <3>8. Resumable(tip, last, k)'
      BY <1>1, <1>2, <1>4, <3>3, <3>6, <3>7 DEF Resumable
    <3> QED BY <1>1, <1>4, <2>2, <3>8 DEF Progress
  <2> QED BY <1>1, <2>1, <2>2 DEF ParserInv, Progress
<1> QED BY <1>5, <1>6, <1>7, <1>8 DEF ParserInv

LEMMA ParserInvBeginFirstPass == ParserInv /\ BeginFirstPass => ParserInv'
<1> SUFFICES ASSUME ParserInv, BeginFirstPass PROVE ParserInv'
  OBVIOUS
<1>1. /\ \/ pc = "idle"
         \/ pc = "down" /\ rows # {} /\ SelectHead(rows, head) = {}
      /\ pc' = "first" /\ queue' = files /\ run' = TRUE
      /\ UNCHANGED <<blockchain, rows, head, disk, call, reading, txs, disk_txs, next, batch,
                     continue_running, files, passes, skipped>>
  BY DEF BeginFirstPass, memory, second, history
<1>2. head = {}
  <2>1. CASE pc = "idle"
    BY <2>1 DEF ParserInv, Tables
  <2>2. CASE pc = "down" /\ SelectHead(rows, head) = {}
    <3>1. head \subseteq Hashes(rows) /\ IsFiniteSet(rows)
      BY DEF ParserInv, Tables
    <3>2. CASE Cardinality(Heads(rows)) = 1
      <4>1. Heads(rows) # {}
        BY <3>2, FS_EmptySet
      <4> QED BY <2>2, <3>2, <4>1 DEF SelectHead, Hashes
    <3>3. CASE Cardinality(Heads(rows)) # 1
      BY <2>2, <3>1, <3>3 DEF SelectHead
    <3> QED BY <3>2, <3>3
  <2> QED BY <1>1, <2>1, <2>2
<1>3. files \in Seq(Seq(Blocks)) /\ reading = Idle
  BY <1>1, ParserAssumption DEF ParserAssumption, ParserInv, Reading
<1>4. Tables'
  BY <1>1, <1>2 DEF ParserInv, Tables
<1>5. Reading'
  BY <1>1, <1>3 DEF ParserInv, Reading
<1>6. Complete'
  <2>1. \A b \in Blocks : Pending(b)' <=> b \in FileBlocks(files)
    <3> SUFFICES ASSUME NEW b \in Blocks PROVE Pending(b)' <=> b \in FileBlocks(files)
      OBVIOUS
    <3>1. \A w \in Workers : reading'[w] = <<>>
      BY <1>1, <1>3 DEF Idle
    <3>2. \A w \in Workers : \A i \in DOMAIN reading'[w] : FALSE
      BY <3>1
    <3> QED BY <1>1, <3>2 DEF Pending, FileBlocks
  <2>2. FileBlocks(files) \subseteq Blocks
    BY DEF FileBlocks
  <2> QED BY <1>1, <2>1, <2>2 DEF ParserInv, Complete
<1>7. Progress'
  <2>1. CASE passes = 1
    <3>1. PICK tip \in Blocks, last \in disk.rows :
             \E k \in 1..Len(Lineage[tip]) : Resumable(tip, last, k)
      BY <2>1 DEF ParserInv, Progress
    <3>2. PICK k \in 1..Len(Lineage[tip]) : Resumable(tip, last, k)
      BY <3>1
    <3>3. Resumable(tip, last, k)'
      BY <1>1, <3>2 DEF Resumable
    <3> QED BY <1>1, <2>1, <3>3 DEF Progress
  <2>2. CASE passes # 1
    BY <1>1, <2>2 DEF ParserInv, Progress
  <2> QED BY <2>1, <2>2
<1> QED BY <1>4, <1>5, <1>6, <1>7 DEF ParserInv

\* The threads are through without a failure: all blocks are in the table.
LEMMA FirstPassWhole ==
    ASSUME ParserInv, pc = "first", reading = Idle, run, queue = <<>>,
           NEW h \in Hashes(rows), h \in Blocks,
           NEW root \in Nat, RootOf(rows, h, root)
    PROVE  root = 1
<1> DEFINE L == Lineage[h]
<1>1. Hashes(rows) = FileBlocks(files)
  <2>1. ASSUME NEW b \in Blocks PROVE ~Pending(b)
    <3>1. DOMAIN queue = {} /\ \A w \in Workers : DOMAIN reading[w] = {}
      BY DEF Idle
    <3> QED BY <3>1 DEF Pending
  <2>2. FileBlocks(files) \subseteq Hashes(rows)
    BY <2>1 DEF ParserInv, Complete, FileBlocks
  <2> QED BY <2>2 DEF ParserInv, Complete
<1>2. files \in FileSets
  BY DEF ParserInv, Reading
<1>3. \A i \in DOMAIN L : L[i] \in Hashes(rows)
  BY <1>1, <1>2, FilesAssumption DEF FilesAssumption
<1>4. Len(L) \in Nat /\ DOMAIN L = 1..Len(L) /\ root \in 1..Len(L)
  BY LineageFacts, LenProperties DEF RootOf
<1>5. ASSUME root # 1 PROVE FALSE
  <2>1. root - 1 \in 1..Len(L)
    BY <1>4, <1>5
  <2> QED BY <1>3, <1>4, <1>5, <2>1 DEF RootOf
<1> QED BY <1>5

LEMMA ParserInvEndFirstPass == ParserInv /\ EndFirstPass => ParserInv'
<1> SUFFICES ASSUME ParserInv, EndFirstPass PROVE ParserInv'
  OBVIOUS
<1>1. /\ pc = "first" /\ pc' = "batch" /\ reading = Idle
      /\ queue = <<>> \/ ~run
      /\ disk' = Commit(rows, head') /\ skipped' = ~run
      /\ UNCHANGED <<rows, call, queue, reading, run, txs, disk_txs, batch,
                     continue_running, files>>
  BY DEF EndFirstPass, threads
<1>2. /\ rows \in SUBSET Row /\ IsFiniteSet(rows) /\ disk.rows \subseteq rows
      /\ txs = disk_txs /\ head = {} /\ blockchain = <<>>
      /\ \A r, q \in rows : r.id = q.id => r = q
  BY <1>1 DEF ParserInv, Tables, Reading
<1>3. disk'.rows = rows /\ disk'.head = head'
  BY <1>1 DEF Commit
<1>4. Complete'
  BY <1>1 DEF ParserInv, Complete
<1>5. CASE rows = {}
  <2>1. head' = {} /\ next' = 0 /\ UNCHANGED <<blockchain, passes>>
    BY <1>5 DEF EndFirstPass, memory
  <2>2. disk.rows = {} /\ disk' = [rows |-> {}, head |-> {}]
    BY <1>1, <1>2, <1>5, <2>1 DEF Commit
  <2>3. Tables'
    BY <1>1, <1>3, <1>5, <2>1, <2>2 DEF ParserInv, Tables
  <2>4. Reading'
    BY <1>1, <1>2, <1>5, <2>1 DEF ParserInv, Reading
  <2>5. passes # 1
    BY <2>2 DEF ParserInv, Progress
  <2>6. Progress'
    BY <1>1, <1>2, <1>5, <2>1, <2>2, <2>5 DEF ParserInv, Progress
  <2> QED BY <1>4, <2>3, <2>4, <2>6 DEF ParserInv
<1>6. CASE rows # {}
  <2>1. PICK h \in AskHead(rows, head) :
           /\ blockchain' = AssembleBlockchain(rows, h)
           /\ head' = {h} /\ next' = FindNext(blockchain', txs) /\ passes' = passes + 1
    BY <1>6 DEF EndFirstPass
  <2>2. h \in Hashes(Heads(rows)) /\ h \in Hashes(rows) /\ h \in Blocks
    BY <1>2 DEF AskHead, Hashes, Heads, Row
  <2>3. PICK root \in 1..Len(Lineage[h]) : RootOf(rows, h, root)
    BY <1>2, <2>2, RootExists
  <2>4. root \in Nat /\ Len(Lineage[h]) \in Nat
    BY <2>2, <2>3, LineageFacts
  <2>5. /\ blockchain' \in Seq(rows) /\ Len(blockchain') = Len(Lineage[h]) + 1 - root
        /\ \A i \in 1..Len(blockchain') : blockchain'[i].hash = Lineage[h][root + i - 1]
    BY <1>2, <2>1, <2>2, <2>3, <2>4, AssembleAt
  <2>6. disk' = [rows |-> rows, head |-> {h}] /\ disk' \in [rows : SUBSET Row, head : SUBSET Blocks]
    BY <1>1, <1>2, <2>1, <2>2 DEF Commit
  <2>7. txs \in Seq(TxOf(rows)) /\ disk_txs \in Seq(TxOf(rows))
    BY <1>2 DEF ParserInv, Tables
  <2>8. Tables'
    BY <1>1, <1>2, <1>3, <2>1, <2>2, <2>6, <2>7 DEF ParserInv, Tables
  <2>9. Reading'
    <3>1. next' \in 0..Len(blockchain')
      BY <2>1, <2>5, FindNextRange
    <3>2. passes' \in Nat
      BY <2>1 DEF ParserInv, Reading
    <3>3. skipped' \in BOOLEAN
      BY <1>1
    <3> QED BY <1>1, <2>5, <3>1, <3>2, <3>3 DEF ParserInv, Reading
  <2>10. Progress'
    <3>1. passes' # 0 /\ (passes' = 1 => passes = 0)
      BY <2>1 DEF ParserInv, Reading
    <3>2. CASE passes' = 1
      <4>1. txs = <<>> /\ disk_txs = <<>>
        BY <1>2, <3>1, <3>2 DEF ParserInv, Progress
      <4>2. PICK last \in rows : \A r \in rows : r.id <= last.id
        BY <1>2, <1>6, LastRow
      <4>3. TablesOf(rows, <<>>, h, last, root)
        <5>1. \A r \in rows : Parent(r.hash) # h
          BY <2>2 DEF Heads, Hashes
        <5>2. \A j \in root..Len(Lineage[h]) : \E r \in rows : r.hash = Lineage[h][j] /\ r.id <= last.id
          BY <2>3, <4>2 DEF RootOf, Hashes
        <5>3. Len(<<>>) = 0 /\ 1..0 = {} /\ 0 <= Len(Lineage[h]) + 1 - root
          BY <2>4
        <5>4. \A r \in rows : ~(r.id > last.id)
          BY <1>2, <4>2 DEF Row
        <5> QED BY <2>3, <4>2, <5>1, <5>2, <5>3, <5>4 DEF TablesOf, RootOf
      <4>4. next' = 0 /\ Len(txs) = 0
        BY <2>1, <2>5, <4>1, FindNextRange
      <4>5. \A i \in 1..Len(blockchain') : blockchain'[i].id <= last.id
        BY <2>5, <4>2, LenProperties, ElementOfSeq
      <4>6. ChainOf(h, last, root)'
        BY <1>1, <2>5, <4>4, <4>5 DEF ChainOf
      <4>7. ~skipped' => root = 1
        <5>1. CASE run
          BY <1>1, <2>2, <2>3, <2>4, <5>1, FirstPassWhole
        <5>2. CASE ~run
          BY <1>1, <5>2
        <5> QED BY <5>1, <5>2
      <4>8. Resumable(h, last, root)'
        BY <1>1, <1>3, <2>1, <4>1, <4>3, <4>6, <4>7 DEF Resumable
      <4>9. last \in disk'.rows
        BY <1>3
      <4> QED BY <2>2, <3>2, <4>8, <4>9 DEF Progress
    <3>3. CASE passes' # 1
      BY <3>1, <3>3 DEF Progress
    <3> QED BY <3>2, <3>3
  <2> QED BY <1>4, <2>8, <2>9, <2>10 DEF ParserInv
<1> QED BY <1>5, <1>6

\* Taking the first element off a sequence.
LEMMA RestFacts ==
    ASSUME NEW S, NEW s \in Seq(S), s # <<>>
    PROVE  /\ SubSeq(s, 2, Len(s)) \in Seq(S)
           /\ s[1] \in S
           /\ \A x : (\E i \in DOMAIN s : s[i] = x) <=>
                        \/ s[1] = x
                        \/ \E i \in DOMAIN SubSeq(s, 2, Len(s)) :
                              SubSeq(s, 2, Len(s))[i] = x
<1> DEFINE n == Len(s)
           t == SubSeq(s, 2, n)
<1>1. n \in Nat \ {0} /\ DOMAIN s = 1..n
  BY EmptySeq, LenProperties
<1>2. /\ t \in Seq(S)
      /\ Len(t) = IF 2 <= n THEN n - 2 + 1 ELSE 0
      /\ \A i \in 1..(n - 2 + 1) : t[i] = s[2 + i - 1]
  <2>1. n \in 0..Len(s) /\ 2 \in Nat \ {0}
    BY <1>1
  <2> QED BY <2>1, SubSeqFacts
<1> HIDE DEF t, n
<1>3. Len(t) = n - 1 /\ DOMAIN t = 1..(n - 1)
  <2>1. Len(t) = n - 1
    BY <1>1, <1>2
  <2> QED BY <1>2, <2>1, LenProperties
<1>4. \A i \in 1..(n - 1) : t[i] = s[i + 1]
  BY <1>1, <1>2
<1>5. s[1] \in S
  BY <1>1, ElementOfSeq DEF n
<1>6. ASSUME NEW x
      PROVE  (\E i \in 1..n : s[i] = x) <=>
                 s[1] = x \/ \E i \in 1..(n - 1) : t[i] = x
  <2>1. ASSUME NEW i \in 1..n, s[i] = x, i # 1
        PROVE  \E j \in 1..(n - 1) : t[j] = x
    <3>1. i - 1 \in 1..(n - 1) /\ (i - 1) + 1 = i
      BY <1>1, <2>1
    <3> QED BY <1>4, <2>1, <3>1
  <2>2. ASSUME NEW i \in 1..(n - 1), t[i] = x
        PROVE  \E j \in 1..n : s[j] = x
    <3>1. i + 1 \in 1..n
      BY <1>1
    <3> QED BY <1>4, <2>2, <3>1
  <2>3. 1 \in 1..n
    BY <1>1
  <2> QED BY <2>1, <2>2, <2>3
<1> QED BY <1>1, <1>2, <1>3, <1>5, <1>6 DEF t, n

\* In the first pass nothing but the threads moves.
LEMMA FirstPassProgress ==
    ASSUME ParserInv, pc = "first", pc' = "first",
           UNCHANGED <<disk, disk_txs, passes, skipped>>
    PROVE  Progress'
<1>1. CASE passes = 1
  <2>1. PICK tip \in Blocks, last \in disk.rows :
           \E k \in 1..Len(Lineage[tip]) : Resumable(tip, last, k)
    BY <1>1 DEF ParserInv, Progress
  <2>2. PICK k \in 1..Len(Lineage[tip]) : Resumable(tip, last, k)
    BY <2>1
  <2>3. Resumable(tip, last, k)'
    BY <2>2 DEF Resumable
  <2> QED BY <1>1, <2>3 DEF Progress
<1>2. CASE passes # 1
  BY <1>2 DEF ParserInv, Progress
<1> QED BY <1>1, <1>2

LEMMA ParserInvTakeFile ==
    ASSUME ParserInv, NEW w \in Workers, TakeFile(w) PROVE ParserInv'
<1>1. /\ pc = "first" /\ reading[w] = <<>> /\ run /\ queue # <<>>
      /\ reading' = [reading EXCEPT ![w] = queue[1]]
      /\ queue' = SubSeq(queue, 2, Len(queue))
      /\ UNCHANGED <<blockchain, rows, head, disk, call, pc, run, txs, disk_txs, next, batch,
                     continue_running, files, passes, skipped>>
  BY DEF TakeFile, chainVars, second, history
<1>2. queue \in Seq(Seq(Blocks)) /\ reading \in [Workers -> Seq(Blocks)]
  BY DEF ParserInv, Reading
<1>3. /\ queue' \in Seq(Seq(Blocks)) /\ queue[1] \in Seq(Blocks)
      /\ \A x : (\E i \in DOMAIN queue : queue[i] = x) <=>
                    queue[1] = x \/ \E i \in DOMAIN queue' : queue'[i] = x
  <2> DEFINE t == SubSeq(queue, 2, Len(queue))
  <2>1. /\ t \in Seq(Seq(Blocks)) /\ queue[1] \in Seq(Blocks)
        /\ \A x : (\E i \in DOMAIN queue : queue[i] = x) <=>
                      queue[1] = x \/ \E i \in DOMAIN t : t[i] = x
    BY <1>1, <1>2, RestFacts
  <2>2. queue' = t
    BY <1>1
  <2> HIDE DEF t
  <2> QED BY <2>1, <2>2
<1>4. reading' \in [Workers -> Seq(Blocks)]
  BY <1>1, <1>2, <1>3
<1>5. Tables'
  BY <1>1 DEF ParserInv, Tables
<1>6. Reading'
  BY <1>1, <1>3, <1>4 DEF ParserInv, Reading
<1>7. ASSUME NEW b \in Blocks
      PROVE  Pending(b)' <=> Pending(b)
  <2> DEFINE Has(f) == \E i \in DOMAIN f : f[i] = b
  <2>1. Pending(b) <=> (\E x : Has(x) /\ \E f \in DOMAIN queue : queue[f] = x)
                           \/ \E v \in Workers : Has(reading[v])
    BY DEF Pending
  <2>2. Pending(b)' <=> (\E x : Has(x) /\ \E f \in DOMAIN queue' : queue'[f] = x)
                            \/ \E v \in Workers : Has(reading'[v])
    BY DEF Pending
  <2>3. ~Has(reading[w])
    BY <1>1
  <2>4. reading'[w] = queue[1] /\ \A v \in Workers : v # w => reading'[v] = reading[v]
    BY <1>1, <1>2
  <2>5. (\E v \in Workers : Has(reading'[v])) <=>
            Has(queue[1]) \/ \E v \in Workers : Has(reading[v])
    <3> HIDE DEF Has
    <3> QED BY <2>3, <2>4
  <2> HIDE DEF Has
  <2> QED BY <1>3, <2>1, <2>2, <2>5
<1>8. Complete'
  <2>1. FileBlocks(files) \subseteq Blocks
    BY DEF FileBlocks
  <2> QED BY <1>1, <1>7, <2>1 DEF ParserInv, Complete
<1>9. Progress'
  BY <1>1, FirstPassProgress
<1> QED BY <1>5, <1>6, <1>8, <1>9 DEF ParserInv

\* A row with a new id keeps ids unique and all that refers to the table.
LEMMA NewRowTables ==
    ASSUME ParserInv, NEW h \in Blocks,
           rows' = rows \cup {[id |-> FreshId(rows), hash |-> h]}
    PROVE  /\ rows' \in SUBSET Row /\ IsFiniteSet(rows') /\ rows \subseteq rows'
           /\ \A r, q \in rows' : r.id = q.id => r = q
           /\ Hashes(rows') = Hashes(rows) \cup {h}
           /\ FreshId(rows) \in Nat /\ \A r \in rows : r.id < FreshId(rows)
           /\ \A s \in Seq(TxOf(rows)) : s \in Seq(TxOf(rows'))
           /\ \A s \in Seq(rows) : s \in Seq(rows')
<1> DEFINE new == [id |-> FreshId(rows), hash |-> h]
<1>1. /\ rows \in SUBSET Row /\ IsFiniteSet(rows)
      /\ \A r, q \in rows : r.id = q.id => r = q
  BY DEF ParserInv, Tables
<1>2. FreshId(rows) \in Nat /\ \A r \in rows : r.id < FreshId(rows)
  BY <1>1, FreshIdFacts
<1>3. new \in Row /\ \A r \in rows : r.id \in Nat /\ r.id # new.id
  BY <1>1, <1>2 DEF Row
<1>4. rows' \in SUBSET Row /\ IsFiniteSet(rows') /\ rows \subseteq rows'
  BY <1>1, <1>3, FS_AddElement
<1>5. \A r, q \in rows' : r.id = q.id => r = q
  BY <1>1, <1>3
<1>6. Hashes(rows') = Hashes(rows) \cup {h}
  <2>1. rows' = rows \cup {new} /\ new.hash = h
    OBVIOUS
  <2> HIDE DEF new
  <2> QED BY <2>1 DEF Hashes
<1>7. TxOf(rows) \subseteq TxOf(rows')
  BY <1>4 DEF TxOf
<1> HIDE DEF new
<1> QED BY <1>2, <1>4, <1>5, <1>6, <1>7, SeqMonotone

LEMMA ParserInvAddBlock ==
    ASSUME ParserInv, NEW w \in Workers, AddBlock(w) PROVE ParserInv'
<1> DEFINE h == reading[w][1]
           t == SubSeq(reading[w], 2, Len(reading[w]))
<1>1. /\ pc = "first" /\ reading[w] # <<>>
      /\ rows' = rows \cup {[id |-> FreshId(rows), hash |-> h]}
      /\ reading' = [reading EXCEPT ![w] = t]
      /\ UNCHANGED <<blockchain, head, disk, call, pc, queue, run, txs, disk_txs, next, batch,
                     continue_running, files, passes, skipped>>
  BY DEF AddBlock, memory, second, history
<1>2. reading \in [Workers -> Seq(Blocks)]
  BY DEF ParserInv, Reading
<1>3. /\ t \in Seq(Blocks) /\ h \in Blocks
      /\ \A x : (\E i \in DOMAIN reading[w] : reading[w][i] = x) <=>
                    h = x \/ \E i \in DOMAIN t : t[i] = x
  <2>1. reading[w] \in Seq(Blocks)
    BY <1>2
  <2> QED BY <1>1, <2>1, RestFacts
<1> HIDE DEF h, t
<1>4. /\ reading' \in [Workers -> Seq(Blocks)] /\ reading'[w] = t
      /\ \A v \in Workers : v # w => reading'[v] = reading[v]
  BY <1>1, <1>2, <1>3
<1>5. /\ rows' \in SUBSET Row /\ IsFiniteSet(rows') /\ rows \subseteq rows'
      /\ \A r, q \in rows' : r.id = q.id => r = q
      /\ Hashes(rows') = Hashes(rows) \cup {h}
      /\ \A s \in Seq(TxOf(rows)) : s \in Seq(TxOf(rows'))
      /\ \A s \in Seq(rows) : s \in Seq(rows')
  BY <1>1, <1>3, NewRowTables
<1>6. Tables'
  BY <1>1, <1>5 DEF ParserInv, Tables
<1>7. Reading'
  BY <1>1, <1>4, <1>5 DEF ParserInv, Reading
<1>8. ASSUME NEW b \in Blocks
      PROVE  Pending(b) <=> Pending(b)' \/ b = h
  <2> DEFINE Has(f) == \E i \in DOMAIN f : f[i] = b
  <2>1. Has(reading[w]) <=> Has(t) \/ b = h
    BY <1>3
  <2>2. (\E v \in Workers : Has(reading[v])) <=>
            (\E v \in Workers : Has(reading'[v])) \/ b = h
    <3> HIDE DEF Has
    <3> QED BY <1>4, <2>1
  <2>3. Pending(b) <=> (\E f \in DOMAIN queue : Has(queue[f]))
                           \/ \E v \in Workers : Has(reading[v])
    BY DEF Pending
  <2>4. Pending(b)' <=> (\E f \in DOMAIN queue : Has(queue[f]))
                            \/ \E v \in Workers : Has(reading'[v])
    BY <1>1 DEF Pending
  <2> HIDE DEF Has
  <2> QED BY <2>2, <2>3, <2>4
<1>9. Complete'
  <2>1. FileBlocks(files) \subseteq Blocks
    BY DEF FileBlocks
  <2>2. h \in FileBlocks(files)
    BY <1>1, <1>3, <1>8 DEF ParserInv, Complete
  <2>3. Hashes(rows)' \subseteq FileBlocks(files)'
    BY <1>1, <1>5, <2>2 DEF ParserInv, Complete
  <2> QED BY <1>1, <1>5, <1>8, <2>1, <2>3 DEF ParserInv, Complete
<1>10. Progress'
  BY <1>1, FirstPassProgress
<1> QED BY <1>6, <1>7, <1>9, <1>10 DEF ParserInv

LEMMA ParserInvThreadFails ==
    ASSUME ParserInv, NEW w \in Workers, ThreadFails(w) PROVE ParserInv'
<1>1. /\ pc = "first" /\ reading' = [reading EXCEPT ![w] = <<>>] /\ run' = FALSE
      /\ UNCHANGED <<blockchain, rows, head, disk, call, pc, queue, txs, disk_txs, next, batch,
                     continue_running, files, passes, skipped>>
  BY DEF ThreadFails, chainVars, second
<1>2. reading \in [Workers -> Seq(Blocks)] /\ <<>> \in Seq(Blocks)
  BY EmptySeq DEF ParserInv, Reading
<1>3. reading' \in [Workers -> Seq(Blocks)]
  BY <1>1, <1>2
<1>4. Tables'
  BY <1>1 DEF ParserInv, Tables
<1>5. Reading'
  BY <1>1, <1>3 DEF ParserInv, Reading
<1>6. ASSUME NEW b \in Blocks, Pending(b)' PROVE Pending(b)
  <2>1. \A v \in Workers : \A i \in DOMAIN reading'[v] : reading'[v] = reading[v]
    BY <1>1, <1>2
  <2> QED BY <1>1, <1>6, <2>1 DEF Pending
<1>7. Complete'
  BY <1>1, <1>6 DEF ParserInv, Complete
<1>8. Progress'
  BY <1>1, FirstPassProgress
<1> QED BY <1>4, <1>5, <1>7, <1>8 DEF ParserInv

LEMMA ParserInvBeginBatch == ParserInv /\ BeginBatch => ParserInv'
<1> SUFFICES ASSUME ParserInv, BeginBatch PROVE ParserInv'
  OBVIOUS
<1>1. /\ pc = "batch" /\ pc' = "parse" /\ batch' = BatchBlocks
      /\ UNCHANGED <<blockchain, rows, head, disk, call, queue, reading, run, txs, disk_txs,
                     next, continue_running, files, passes, skipped>>
  BY DEF BeginBatch, memory, threads, history
<1>2. Tables'
  BY <1>1 DEF ParserInv, Tables
<1>3. Reading'
  <2>1. batch' \in 0..BatchBlocks
    BY <1>1, ParserAssumption DEF ParserAssumption
  <2> QED BY <1>1, <2>1 DEF ParserInv, Reading
<1>4. Complete'
  BY <1>1 DEF ParserInv, Complete
<1>5. Progress'
  <2>1. CASE passes = 1
    <3>1. PICK tip \in Blocks, last \in disk.rows :
             \E k \in 1..Len(Lineage[tip]) : Resumable(tip, last, k)
      BY <2>1 DEF ParserInv, Progress
    <3>2. PICK k \in 1..Len(Lineage[tip]) : Resumable(tip, last, k)
      BY <3>1
    <3>3. ChainOf(tip, last, k)'
      BY <1>1, <3>2 DEF Resumable, ChainOf
    <3>4. Resumable(tip, last, k)'
      BY <1>1, <3>2, <3>3 DEF Resumable
    <3> QED BY <1>1, <2>1, <3>4 DEF Progress
  <2>2. CASE passes # 1
    BY <1>1, <2>2 DEF ParserInv, Progress
  <2> QED BY <2>1, <2>2
<1> QED BY <1>2, <1>3, <1>4, <1>5 DEF ParserInv

LEMMA ParserInvEndBatch == ParserInv /\ EndBatch => ParserInv'
<1> SUFFICES ASSUME ParserInv, EndBatch PROVE ParserInv'
  OBVIOUS
<1>1. /\ pc = "parse" /\ pc' = "batch" /\ disk' = Commit(rows, head) /\ disk_txs' = txs
      /\ UNCHANGED <<blockchain, rows, head, call, queue, reading, run, txs,
                     next, batch, continue_running, files, passes, skipped>>
  BY DEF EndBatch, memory, threads, history
<1>2. disk'.rows = rows /\ disk'.head = head /\ disk' = [rows |-> rows, head |-> head]
  BY <1>1 DEF Commit
<1>3. Tables'
  <2>1. head \in SUBSET Blocks /\ rows \in SUBSET Row
    BY DEF ParserInv, Tables, Hashes, Row
  <2>2. disk' \in [rows : SUBSET Row, head : SUBSET Blocks]
    BY <1>2, <2>1
  <2> QED BY <1>1, <1>2, <2>2 DEF ParserInv, Tables
<1>4. Reading'
  BY <1>1 DEF ParserInv, Reading
<1>5. Complete'
  BY <1>1 DEF ParserInv, Complete
<1>6. Progress'
  <2>1. CASE passes = 1
    <3>1. PICK tip \in Blocks, last \in disk.rows :
             \E k \in 1..Len(Lineage[tip]) : Resumable(tip, last, k)
      BY <2>1 DEF ParserInv, Progress
    <3>2. PICK k \in 1..Len(Lineage[tip]) : Resumable(tip, last, k)
      BY <3>1
    <3>3. ChainOf(tip, last, k)'
      BY <1>1, <3>2 DEF Resumable, ChainOf
    <3>4. Resumable(tip, last, k)'
      BY <1>1, <1>2, <3>2, <3>3 DEF Resumable
    <3>5. last \in disk'.rows
      BY <1>2 DEF ParserInv, Tables
    <3> QED BY <1>1, <2>1, <3>4, <3>5 DEF Progress
  <2>2. CASE passes = 0
    BY <1>1, <1>2, <2>2 DEF ParserInv, Progress
  <2>3. CASE passes # 1 /\ passes # 0
    BY <1>1, <2>3 DEF Progress
  <2> QED BY <2>1, <2>2, <2>3
<1> QED BY <1>3, <1>4, <1>5, <1>6 DEF ParserInv

LEMMA ParserInvStutter ==
    ASSUME ParserInv,
           UNCHANGED <<blockchain, rows, head, disk, call, pc, threads, second,
                       files, passes, skipped>>,
           continue_running' \in BOOLEAN
    PROVE  ParserInv'
<1>1. UNCHANGED <<queue, reading, run, txs, disk_txs, next, batch>>
  BY DEF threads, second
<1>2. Tables'
  BY <1>1 DEF ParserInv, Tables
<1>3. Reading'
  BY <1>1 DEF ParserInv, Reading
<1>4. Complete'
  <2>1. \A b : Pending(b)' <=> Pending(b)
    BY <1>1 DEF Pending
  <2> QED BY <1>1, <2>1 DEF ParserInv, Complete
<1>5. Progress'
  <2>1. CASE passes = 1
    <3>1. PICK tip \in Blocks, last \in disk.rows :
             \E k \in 1..Len(Lineage[tip]) : Resumable(tip, last, k)
      BY <2>1 DEF ParserInv, Progress
    <3>2. PICK k \in 1..Len(Lineage[tip]) : Resumable(tip, last, k)
      BY <3>1
    <3>3. Resumable(tip, last, k)'
      BY <1>1, <3>2 DEF Resumable, ChainOf
    <3> QED BY <2>1, <3>3 DEF Progress
  <2>2. CASE passes # 1
    BY <1>1, <2>2 DEF ParserInv, Progress
  <2> QED BY <2>1, <2>2
<1> QED BY <1>2, <1>3, <1>4, <1>5 DEF ParserInv

\* One more block parsed: its new row is above those of the first pass.
LEMMA TablesGrow ==
    ASSUME NEW rs, NEW qs, NEW table \in Seq(TxOf(rs)), NEW tip \in Blocks, NEW last, NEW root,
           TablesOf(rs, table, tip, last, root),
           Len(table) < Len(Lineage[tip]) + 1 - root,
           NEW id \in Nat, id > last.id, NEW h,
           h = Lineage[tip][root + Len(table)], h \in Hashes(rs),
           qs = rs \cup {[id |-> id, hash |-> h]}
    PROVE  TablesOf(qs, Append(table, [hash |-> h, block |-> id]), tip, last, root)
<1> DEFINE L == Lineage[tip]
           m == Len(table)
           entry == [hash |-> h, block |-> id]
           more == Append(table, entry)
           new == [id |-> id, hash |-> h]
<1>1. /\ last \in rs
      /\ root \in 1..Len(L)
      /\ \A j \in root..Len(L) : \E r \in rs : r.hash = L[j] /\ r.id <= last.id
      /\ root = 1 \/ L[root - 1] \notin Hashes(rs)
      /\ \A r \in rs : Parent(r.hash) # tip
      /\ m <= Len(L) + 1 - root
      /\ \A k \in 1..m : table[k].hash = L[root + k - 1] /\ table[k].block > last.id
      /\ \A k \in 1..m : [id |-> table[k].block, hash |-> table[k].hash] \in rs
      /\ \A r \in rs : r.id > last.id =>
            \E k \in 1..m : r = [id |-> table[k].block, hash |-> table[k].hash]
  BY DEF TablesOf
<1>2. Len(L) \in Nat /\ m \in Nat
  BY LineageFacts, LenProperties
<1>3. /\ Len(more) = m + 1 /\ more[m + 1] = entry
      /\ \A k \in 1..m : more[k] = table[k]
  BY AppendProperties
<1>4. entry.hash = h /\ entry.block = id /\ new.id = id /\ new.hash = h
  OBVIOUS
<1>5. qs = rs \cup {new} /\ new = [id |-> entry.block, hash |-> entry.hash]
  OBVIOUS
<1>6. Hashes(qs) = Hashes(rs)
  <2> HIDE DEF new
  <2> QED BY <1>4, <1>5 DEF Hashes
<1>7. \A r \in qs : Parent(r.hash) # tip
  <2>1. PICK r \in rs : r.hash = h
    BY DEF Hashes
  <2> HIDE DEF new
  <2> QED BY <1>1, <1>4, <1>5, <2>1
<1> HIDE DEF m, L, new, entry, more
<1>8. root + (m + 1) - 1 = root + m /\ m + 1 <= Len(L) + 1 - root
  BY <1>1, <1>2 DEF m, L
<1>9. ASSUME NEW k \in 1..(m + 1)
      PROVE  /\ more[k].hash = L[root + k - 1] /\ more[k].block > last.id
             /\ [id |-> more[k].block, hash |-> more[k].hash] \in qs
  <2>1. CASE k \in 1..m
    BY <1>1, <1>3, <1>5, <2>1
  <2>2. CASE k = m + 1
    <3>1. more[k] = entry /\ L[root + k - 1] = h
      BY <1>3, <1>8, <2>2 DEF m, L
    <3> QED BY <1>4, <1>5, <3>1
  <2> QED BY <1>2, <2>1, <2>2
<1>10. ASSUME NEW r \in qs, r.id > last.id
       PROVE  \E k \in 1..(m + 1) : r = [id |-> more[k].block, hash |-> more[k].hash]
  <2>1. CASE r \in rs
    <3>1. PICK k \in 1..m : r = [id |-> table[k].block, hash |-> table[k].hash]
      BY <1>1, <1>10, <2>1
    <3>2. k \in 1..(m + 1)
      BY <1>2
    <3> QED BY <1>3, <3>1, <3>2
  <2>2. CASE r = new
    <3>1. m + 1 \in 1..(m + 1)
      BY <1>2
    <3> QED BY <1>3, <1>5, <2>2, <3>1
  <2> QED BY <1>5, <2>1, <2>2
<1>11. \A j \in root..Len(L) : \E r \in qs : r.hash = L[j] /\ r.id <= last.id
  BY <1>1, <1>5
<1>12. last \in qs
  BY <1>1, <1>5
<1>13. TablesOf(qs, more, tip, last, root)
  <2>1. /\ \A k \in 1..Len(more) : more[k].hash = L[root + k - 1] /\ more[k].block > last.id
        /\ \A k \in 1..Len(more) : [id |-> more[k].block, hash |-> more[k].hash] \in qs
    BY <1>3, <1>9
  <2>2. \A r \in qs : r.id > last.id =>
           \E k \in 1..Len(more) : r = [id |-> more[k].block, hash |-> more[k].hash]
    BY <1>3, <1>10
  <2>3. Len(more) <= Len(L) + 1 - root
    BY <1>3, <1>8
  <2>4. root \in 1..Len(L) /\ (root = 1 \/ L[root - 1] \notin Hashes(qs))
    BY <1>1, <1>6
  <2> QED BY <1>7, <1>11, <1>12, <2>1, <2>2, <2>3, <2>4 DEF TablesOf, L
<1> QED BY <1>13 DEF more, entry

LEMMA ParserInvParseBlock == ParserInv /\ ParseBlock => ParserInv'
<1> SUFFICES ASSUME ParserInv, ParseBlock PROVE ParserInv'
  OBVIOUS
<1> DEFINE block == blockchain[next + 1]
           entry == [hash |-> block.hash, block |-> FreshId(rows)]
<1>1. /\ pc = "parse" /\ pc' = "parse" /\ batch > 0 /\ next < Len(blockchain)
      /\ HasFile(block.id)
      /\ rows' = rows \cup {[id |-> FreshId(rows), hash |-> block.hash]}
      /\ txs' = Append(txs, entry)
      /\ next' = next + 1 /\ batch' = batch - 1
      /\ UNCHANGED <<blockchain, head, disk, call, disk_txs, queue, reading, run,
                     continue_running, files, passes, skipped>>
  BY DEF ParseBlock, InBatch, memory, threads, history
<1>2. /\ rows \in SUBSET Row /\ disk.rows \subseteq rows
      /\ blockchain \in Seq(rows) /\ next \in 0..Len(blockchain)
      /\ Len(blockchain) \in Nat /\ batch \in 0..BatchBlocks /\ BatchBlocks \in Nat
      /\ txs \in Seq(TxOf(rows))
  BY ParserAssumption, LenProperties DEF ParserAssumption, ParserInv, Tables, Reading
<1>3. next + 1 \in 1..Len(blockchain)
  BY <1>1, <1>2
<1>4. block \in rows /\ block.hash \in Blocks /\ block.hash \in Hashes(rows)
  <2>1. block \in rows
    BY <1>2, <1>3, ElementOfSeq
  <2> QED BY <1>2, <2>1 DEF Row, Hashes
<1> HIDE DEF block
<1>5. /\ rows' \in SUBSET Row /\ IsFiniteSet(rows') /\ rows \subseteq rows'
      /\ \A r, q \in rows' : r.id = q.id => r = q
      /\ Hashes(rows') = Hashes(rows) \cup {block.hash}
      /\ FreshId(rows) \in Nat /\ \A r \in rows : r.id < FreshId(rows)
      /\ \A s \in Seq(TxOf(rows)) : s \in Seq(TxOf(rows'))
      /\ \A s \in Seq(rows) : s \in Seq(rows')
  BY <1>1, <1>4, NewRowTables
<1>6. entry \in TxOf(rows') /\ entry.hash = block.hash /\ entry.block = FreshId(rows)
  <2> DEFINE new == [id |-> FreshId(rows), hash |-> block.hash]
  <2>1. new \in rows' /\ new.id = FreshId(rows)
    BY <1>1
  <2>2. FreshId(rows) \in {r.id : r \in rows'}
    <3> HIDE DEF new
    <3> QED BY <2>1
  <2> QED BY <1>4, <2>2 DEF TxOf
<1>7. Tables'
  <2>1. txs' \in Seq(TxOf(rows'))
    <3>1. txs \in Seq(TxOf(rows'))
      BY <1>2, <1>5
    <3> HIDE DEF entry
    <3> QED BY <1>1, <1>6, <3>1, AppendProperties
  <2> QED BY <1>1, <1>5, <2>1 DEF ParserInv, Tables
<1>8. Reading'
  <2>1. next' \in 0..Len(blockchain) /\ batch' \in 0..BatchBlocks
    BY <1>1, <1>2
  <2> QED BY <1>1, <1>5, <2>1 DEF ParserInv, Reading
<1>9. Complete'
  <2>1. Hashes(rows)' = Hashes(rows)
    BY <1>4, <1>5
  <2> QED BY <1>1, <2>1 DEF ParserInv, Complete
<1>10. Progress'
  <2>1. passes # 0
    <3>1. passes = 0 => blockchain = <<>>
      BY <1>1 DEF ParserInv, Progress
    <3> QED BY <1>3, <3>1
  <2>2. CASE passes = 1
    <3>1. PICK tip \in Blocks, last \in disk.rows :
             \E k \in 1..Len(Lineage[tip]) : Resumable(tip, last, k)
      BY <2>2 DEF ParserInv, Progress
    <3>2. PICK k \in 1..Len(Lineage[tip]) : Resumable(tip, last, k)
      BY <3>1
    <3>3. TablesOf(rows, txs, tip, last, k) /\ ChainOf(tip, last, k)
      BY <1>1, <3>2 DEF Resumable
    <3>4. /\ Len(blockchain) = Len(Lineage[tip]) + 1 - k
          /\ \A i \in 1..Len(blockchain) : blockchain[i].hash = Lineage[tip][k + i - 1]
          /\ \/ /\ next = Len(txs)
                /\ \A i \in 1..Len(blockchain) : i > next => blockchain[i].id <= last.id
             \/ /\ next = 0
                /\ Len(txs) = Len(blockchain)
                /\ blockchain[1].id = txs[1].block
      BY <1>1, <3>3 DEF ChainOf
    <3>5. next = Len(txs)
      <4>1. ASSUME next = 0, Len(txs) = Len(blockchain), blockchain[1].id = txs[1].block
            PROVE  FALSE
        <5>1. 1 \in DOMAIN txs
          BY <1>2, <1>3, <4>1, LenProperties
        <5>2. block.id = blockchain[1].id
          BY <4>1 DEF block
        <5> QED BY <1>1, <4>1, <5>1, <5>2 DEF HasFile
      <4> QED BY <3>4, <4>1
    <3>6. k \in Nat /\ Len(Lineage[tip]) \in Nat /\ last \in rows
      BY <1>2, LineageFacts
    <3>7. k + Len(txs) = k + (next + 1) - 1
      BY <1>2, <3>5, <3>6
    <3>8. block.hash = Lineage[tip][k + Len(txs)]
      BY <1>3, <3>4, <3>7 DEF block
    <3>9. FreshId(rows) > last.id
      BY <1>2, <1>5, <3>6 DEF Row
    <3>10. Len(txs) < Len(Lineage[tip]) + 1 - k
      BY <1>1, <3>4, <3>5
    <3>11. TablesOf(rows', txs', tip, last, k)
      BY <1>1, <1>2, <1>4, <1>5, <3>3, <3>8, <3>9, <3>10, TablesGrow
    <3>12. next' = Len(txs')
      <4>1. Len(txs') = Len(txs) + 1
        <5> HIDE DEF entry
        <5> QED BY <1>1, <1>2
      <4> QED BY <1>1, <3>5, <4>1
    <3>13. \A i \in 1..Len(blockchain) : i > next' => blockchain[i].id <= last.id
      <4> SUFFICES ASSUME NEW i \in 1..Len(blockchain), i > next'
                   PROVE  blockchain[i].id <= last.id
        OBVIOUS
      <4>1. i > next
        BY <1>1, <1>2
      <4>2. ~(next = 0 /\ Len(txs) = Len(blockchain))
        BY <1>1, <3>5
      <4> QED BY <3>4, <4>1, <4>2
    <3>14. ChainOf(tip, last, k)'
      BY <1>1, <3>4, <3>12, <3>13 DEF ChainOf
    <3>15. Resumable(tip, last, k)'
      BY <1>1, <3>2, <3>11, <3>14 DEF Resumable
    <3> QED BY <1>1, <2>2, <3>15 DEF Progress
  <2> QED BY <1>1, <2>1, <2>2 DEF Progress
<1> QED BY <1>7, <1>8, <1>9, <1>10 DEF ParserInv

LEMMA ParserInvNext == ParserInv /\ [ParserNext]_parserVars => ParserInv'
<1> SUFFICES ASSUME ParserInv, [ParserNext]_parserVars PROVE ParserInv'
  OBVIOUS
<1>1. CASE OpenDatabase
  BY <1>1, ParserInvStartEmpty, ParserInvStartLoad DEF OpenDatabase
<1>2. CASE SaveHead
  BY <1>2, ParserInvSaveHead
<1>3. CASE BeginFirstPass
  BY <1>3, ParserInvBeginFirstPass
<1>4. CASE EndFirstPass
  BY <1>4, ParserInvEndFirstPass
<1>5. CASE \E w \in Workers : TakeFile(w) \/ AddBlock(w)
  BY <1>5, ParserInvTakeFile, ParserInvAddBlock
<1>6. CASE BeginBatch
  BY <1>6, ParserInvBeginBatch
<1>7. CASE ParseBlock
  BY <1>7, ParserInvParseBlock
<1>8. CASE EndBatch
  BY <1>8, ParserInvEndBatch
<1>9. CASE NoFile \/ MissingInput \/ Finish \/ Killed
  <2>1. DieParser
    BY <1>9 DEF NoFile, MissingInput, Finish, Killed
  <2> QED BY <2>1, ParserInvDie
<1>10. CASE \E w \in Workers : ThreadFails(w)
  BY <1>10, ParserInvThreadFails
<1>11. CASE CtrlC \/ UNCHANGED parserVars
  <2>1. /\ UNCHANGED <<blockchain, rows, head, disk, call, pc, threads, second,
                       files, passes, skipped>>
        /\ continue_running' \in BOOLEAN
    BY <1>11 DEF CtrlC, parserVars, chainVars, history, ParserInv, Reading
  <2> QED BY <2>1, ParserInvStutter
<1> QED
  BY <1>1, <1>2, <1>3, <1>4, <1>5, <1>6, <1>7, <1>8, <1>9, <1>10, <1>11
     DEF ParserNext, Step

LEMMA ParserInvSpec == ParserSpec => []ParserInv
BY ParserInvInit, ParserInvNext, PTL DEF ParserSpec

(***************************************************************************)
(* The theorems.                                                           *)
(***************************************************************************)

\* Where the parser is, for the properties about the one first pass.
LEMMA AfterFirstPass ==
    ASSUME ParserInv, passes <= 1, disk_txs # <<>> \/ txs # <<>>
    PROVE  \E tip \in Blocks, last \in disk.rows :
              \E k \in 1..Len(Lineage[tip]) :
                 /\ Resumable(tip, last, k)
                 /\ \E rs : TablesOf(rs, txs, tip, last, k)
<1>1. passes \in Nat /\ pc \in {"down", "idle", "head", "first", "batch", "parse"}
  BY DEF ParserInv, Reading
<1>2. passes # 0
  <2> SUFFICES ASSUME passes = 0 PROVE FALSE
    OBVIOUS
  <2>1. disk_txs = <<>>
    BY DEF ParserInv, Progress
  <2>2. txs = <<>>
    BY <1>1, <2>1 DEF ParserInv, Progress, Tables
  <2> QED BY <2>1, <2>2
<1>3. passes = 1
  BY <1>1, <1>2
<1>4. PICK tip \in Blocks, last \in disk.rows :
         \E k \in 1..Len(Lineage[tip]) : Resumable(tip, last, k)
  BY <1>3 DEF ParserInv, Progress
<1>5. PICK k \in 1..Len(Lineage[tip]) : Resumable(tip, last, k)
  BY <1>4
<1>6. \E rs : TablesOf(rs, txs, tip, last, k)
  <2>1. CASE pc = "first"
    <3>1. txs = disk_txs
      BY <2>1 DEF ParserInv, Tables
    <3> QED BY <1>5, <3>1 DEF Resumable
  <2>2. CASE pc # "first"
    BY <1>5, <2>2 DEF Resumable
  <2> QED BY <2>1, <2>2
<1> QED BY <1>5, <1>6

\* The variables of the parser keep their types, whatever stops it.
THEOREM ParserTypeCorrect == ParserSpec => []ParserTypeOK
<1>1. ParserInv => ParserTypeOK
  <2> SUFFICES ASSUME ParserInv PROVE ParserTypeOK
    OBVIOUS
  <2>1. {txs, disk_txs} \subseteq Seq(TxOf(rows))
    <3>1. TxOf(disk.rows) \subseteq TxOf(rows)
      BY DEF TxOf, ParserInv, Tables
    <3> QED BY <3>1, SeqMonotone DEF ParserInv, Tables
  <2>2. head \in SUBSET Blocks
    BY DEF ParserInv, Tables, Hashes, Row
  <2> QED BY <2>1, <2>2 DEF ParserTypeOK, ParserInv, Tables, Reading, TxOf
<1> QED BY <1>1, ParserInvSpec, PTL

\* With one first pass in which no thread failed, the blocks whose transactions
\* are in the tables are the lowest blocks of one chain, each of them once,
\* wherever the second pass was stopped or killed and however often it resumed.
THEOREM BlocksOnce == ParserSpec => []EachBlockOnce
<1>1. ParserInv => EachBlockOnce
  <2> SUFFICES ASSUME ParserInv, passes <= 1, ~skipped, txs # <<>>
               PROVE  [k \in DOMAIN txs |-> txs[k].hash] = Lineage[Top(txs).hash]
    BY DEF EachBlockOnce
  <2> DEFINE m == Len(txs)
  <2>1. PICK tip \in Blocks, last \in disk.rows :
           \E k \in 1..Len(Lineage[tip]) :
              /\ Resumable(tip, last, k)
              /\ \E rs : TablesOf(rs, txs, tip, last, k)
    BY AfterFirstPass
  <2> DEFINE L == Lineage[tip]
  <2>2. PICK rs : TablesOf(rs, txs, tip, last, 1)
    BY <2>1 DEF Resumable
  <2>3. m \in Nat \ {0} /\ DOMAIN txs = 1..m
    BY EmptySeq, LenProperties DEF ParserInv, Tables
  <2>4. m <= Len(L) /\ \A k \in 1..m : txs[k].hash = L[k]
    <3>1. m <= Len(L) + 1 - 1 /\ \A k \in 1..m : txs[k].hash = L[1 + k - 1]
      BY <2>2 DEF TablesOf
    <3>2. Len(L) \in Nat
      BY LineageFacts
    <3> HIDE DEF L
    <3> QED BY <2>3, <3>1, <3>2
  <2>5. m \in 1..Len(L) /\ L \in Seq(Blocks)
    BY <2>3, <2>4, LineageFacts
  <2>6. Lineage[Top(txs).hash] = SubSeq(L, 1, m)
    BY <2>3, <2>4, <2>5, LineageFacts DEF Top
  <2>7. SubSeq(L, 1, m) = [k \in 1..m |-> L[k]]
    <3>1. /\ SubSeq(L, 1, m) \in Seq(Blocks) /\ Len(SubSeq(L, 1, m)) = m
          /\ \A i \in 1..m : SubSeq(L, 1, m)[i] = L[i]
      <4>1. 1 \in Nat \ {0} /\ m \in 0..Len(L) /\ m - 1 + 1 = m /\ 1 <= m
        BY <2>3, <2>5
      <4>2. \A i \in 1..m : 1 + i - 1 = i
        BY <2>3
      <4> HIDE DEF m, L
      <4> QED BY <2>5, <4>1, <4>2, SubSeqFacts
    <3> HIDE DEF m, L
    <3> QED BY <3>1, LenProperties
  <2> HIDE DEF m, L
  <2> QED BY <2>3, <2>4, <2>6, <2>7
<1> QED BY <1>1, ParserInvSpec, PTL

\* Every run of the second pass goes on at the block behind the last inserted
\* one; only on a finished database does it start over.
THEOREM Resumes == ParserSpec => []ResumesInPlace
<1>1. ParserInv => ResumesInPlace
  <2> SUFFICES ASSUME ParserInv, passes <= 1, pc \in {"batch", "parse"}
               PROVE  \/ next = Len(txs)
                      \/ next = 0 /\ Len(txs) = Len(blockchain)
    BY DEF ResumesInPlace
  <2>1. passes \in Nat /\ next \in 0..Len(blockchain)
    BY DEF ParserInv, Reading
  <2>2. CASE passes = 0
    <3>1. blockchain = <<>> /\ txs = <<>>
      BY <2>2 DEF ParserInv, Progress
    <3> QED BY <2>1, <3>1
  <2>3. CASE passes = 1
    <3>1. PICK tip \in Blocks, last \in disk.rows :
             \E k \in 1..Len(Lineage[tip]) : Resumable(tip, last, k)
      BY <2>3 DEF ParserInv, Progress
    <3>2. PICK k \in 1..Len(Lineage[tip]) : Resumable(tip, last, k)
      BY <3>1
    <3>3. ChainOf(tip, last, k)
      BY <3>2 DEF Resumable
    <3> QED BY <3>3 DEF ChainOf
  <2> QED BY <2>1, <2>2, <2>3
<1> QED BY <1>1, ParserInvSpec, PTL

\* From a database on which the second pass is through, the index selects the
\* saved head, loads its whole history, and finds for each block the row that
\* has its transactions.
THEOREM FinishedServes == ParserSpec => []FinishedIsServable
<1>1. ParserInv => FinishedIsServable
  <2> DEFINE top == Top(disk_txs).hash
             chain == AssembleBlockchain(disk.rows, top)
  <2> SUFFICES ASSUME ParserInv, passes <= 1, ~skipped, disk_txs # <<>>,
                      disk.head = {top}
               PROVE  /\ SelectHead(disk.rows, disk.head) = {top}
                      /\ [i \in DOMAIN chain |-> chain[i].hash] = Lineage[top]
                      /\ [i \in DOMAIN chain |-> chain[i].id]
                             = [k \in DOMAIN disk_txs |-> disk_txs[k].block]
    BY DEF FinishedIsServable
  <2>1. PICK tip \in Blocks, last \in disk.rows :
           \E k \in 1..Len(Lineage[tip]) : Resumable(tip, last, k)
    <3> HIDE DEF top
    <3> QED BY AfterFirstPass
  <2> DEFINE L == Lineage[tip]
             m == Len(disk_txs)
  <2>2. TablesOf(disk.rows, disk_txs, tip, last, 1) /\ top = tip
    BY <2>1 DEF Resumable
  <2>3. /\ disk.rows \in SUBSET Row /\ IsFiniteSet(disk.rows)
        /\ \A r, q \in disk.rows : r.id = q.id => r = q
        /\ disk_txs \in Seq(TxOf(disk.rows))
    BY FS_Subset DEF ParserInv, Tables
  <2>4. RootOf(disk.rows, tip, 1) /\ tip \in Hashes(Heads(disk.rows))
    BY <2>2, <2>3, TablesRoot
  <2>5. SelectHead(disk.rows, disk.head) = {tip}
    BY <2>2, <2>3, <2>4, TipSelected
  <2>6. m \in Nat \ {0} /\ DOMAIN disk_txs = 1..m
    BY <2>3, EmptySeq, LenProperties
  <2>7. /\ Len(L) \in Nat \ {0} /\ L[Len(L)] = tip /\ L \in Seq(Blocks)
        /\ \A i, j \in 1..Len(L) : L[i] = L[j] => i = j
    BY LineageFacts
  <2>8. m = Len(L)
    <3>1. m <= Len(L) + 1 - 1 /\ disk_txs[m].hash = L[1 + m - 1]
      BY <2>2, <2>6 DEF TablesOf
    <3>2. L[m] = tip /\ m \in 1..Len(L) /\ Len(L) \in 1..Len(L)
      <4>1. disk_txs[m].hash = tip
        BY <2>2 DEF Top
      <4>2. m \in Nat /\ m # 0 /\ Len(L) \in Nat /\ Len(L) # 0
        BY <2>6, <2>7
      <4> HIDE DEF L, m
      <4>3. 1 + m - 1 = m /\ Len(L) + 1 - 1 = Len(L)
        BY <4>2
      <4>4. m \in 1..Len(L) /\ Len(L) \in 1..Len(L)
        BY <3>1, <4>2, <4>3
      <4> QED BY <3>1, <4>1, <4>3, <4>4
    <3> HIDE DEF L, m
    <3> QED BY <2>7, <3>2
  <2>9. /\ chain \in Seq(disk.rows)
        /\ Len(chain) = Len(L) + 1 - 1
        /\ \A i \in 1..Len(chain) : chain[i] = RowOf(disk.rows, L[1 + i - 1])
    BY <2>2, <2>3, <2>4, AssembleAt
  <2>10. DOMAIN chain = 1..m
    <3>1. DOMAIN chain = 1..Len(chain)
      BY <2>9, LenProperties
    <3> HIDE DEF chain, L, m
    <3> QED BY <2>7, <2>8, <2>9, <3>1
  <2>11. ASSUME NEW i \in 1..m
         PROVE  chain[i].hash = L[i] /\ chain[i].id = disk_txs[i].block
    <3>1. i \in 1..(Len(L) + 1 - 1) /\ i <= Len(disk_txs) /\ 1 + i - 1 = i
          /\ i \in 1..Len(chain)
      <4>1. i \in Nat /\ m = Len(disk_txs) /\ i <= m
        BY <2>6
      <4> HIDE DEF chain, L, m
      <4> QED BY <2>6, <2>7, <2>8, <2>9, <4>1
    <3>2. chain[i] = RowOf(disk.rows, L[1 + i - 1])
      BY <2>9, <3>1
    <3> HIDE DEF chain
    <3>3. /\ RowOf(disk.rows, L[1 + i - 1]).hash = L[1 + i - 1]
          /\ RowOf(disk.rows, L[1 + i - 1]).id = disk_txs[i].block
      <4>1. i \in 1..(Len(Lineage[tip]) + 1 - 1)
        BY <3>1
      <4>2. LET r == RowOf(disk.rows, Lineage[tip][1 + i - 1]) IN
            /\ r \in disk.rows /\ r.hash = Lineage[tip][1 + i - 1]
            /\ i <= Len(disk_txs) => r.id = disk_txs[i].block
            /\ i > Len(disk_txs) => r.id <= last.id
        <5> HIDE DEF L, m, top
        <5> QED BY <2>2, <2>3, <4>1, ParsedRows
      <4> QED BY <3>1, <4>2
    <3> HIDE DEF L
    <3> QED BY <3>1, <3>2, <3>3
  <2>12. L = [i \in 1..m |-> L[i]]
    <3> HIDE DEF L, m
    <3> QED BY <2>7, <2>8, LenProperties
  <2>13. top = tip /\ Lineage[top] = L
    BY <2>2
  <2> HIDE DEF chain, L, m, top
  <2> QED BY <2>5, <2>6, <2>10, <2>11, <2>12, <2>13
<1> QED BY <1>1, ParserInvSpec, PTL

=============================================================================
