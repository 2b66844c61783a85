------------------------- MODULE Blockchain_proofs -------------------------
(***************************************************************************)
(* Proofs about Blockchain.                                                *)
(*                                                                         *)
(* Part 1 is about any database the index may open: types, the map that    *)
(* inverts the chain vector, and the absence of internal errors.  Part 2   *)
(* is about an index that starts on an empty database: it serves one       *)
(* lineage, its tables hold exactly that lineage, and a restart finds it   *)
(* again, whatever crashes and failures happened.  Part 3 proves that such *)
(* an index implements ChainIndex.                                         *)
(***************************************************************************)
EXTENDS Blockchain, FiniteSetTheorems, SequenceTheorems, TLAPS

(***************************************************************************)
(* Lemmas about the operators.                                             *)
(***************************************************************************)

\* A hash names its whole history: the block at place i of a lineage has a
\* lineage of length i, so no block is at two places.
LEMMA LineageFacts ==
    ASSUME NEW b \in Blocks
    PROVE  /\ Lineage[b] \in Seq(Blocks)
           /\ Len(Lineage[b]) \in Nat \ {0}
           /\ Lineage[b][Len(Lineage[b])] = b
           /\ \A i \in 1..Len(Lineage[b]) :
                 /\ Lineage[b][i] \in Blocks
                 /\ Lineage[Lineage[b][i]] = SubSeq(Lineage[b], 1, i)
                 /\ Len(Lineage[Lineage[b][i]]) = i
                 /\ \A j \in 1..Len(Lineage[b]) :
                       Lineage[b][i] = Lineage[b][j] => i = j
<1> DEFINE L == Lineage[b]
<1>1. /\ L \in Seq(Blocks)
      /\ Len(L) > 0
      /\ L[Len(L)] = b
      /\ \A i \in 1..Len(L) : Lineage[L[i]] = SubSeq(L, 1, i)
  BY LineageAssumption DEF LineageAssumption
<1>2. Len(L) \in Nat \ {0}
  BY <1>1, LenProperties
<1>3. ASSUME NEW i \in 1..Len(L)
      PROVE  L[i] \in Blocks /\ Len(Lineage[L[i]]) = i
  <2>1. \A j \in 1..i : L[j] \in Blocks
    BY <1>1, <1>2, ElementOfSeq
  <2>2. Len(SubSeq(L, 1, i)) = i
    BY <2>1, <1>2, SubSeqProperties
  <2> QED
    BY <1>1, <1>2, <2>1, <2>2
<1> QED
  BY <1>1, <1>2, <1>3

\* A non-empty finite set of naturals has a largest element.
LEMMA LargestNatural ==
    ASSUME NEW S \in SUBSET Nat, IsFiniteSet(S), S # {}
    PROVE  \E m \in S : \A n \in S : n <= m
<1> DEFINE HasLargest(T) == T = {} \/ \E m \in T : \A n \in T : n <= m
           Bad == {T \in FiniteSubsetsOf(S) : ~HasLargest(T)}
<1>1. SUFFICES ASSUME Bad # {} PROVE FALSE
  BY FS_FiniteSubsetsOfFinite
<1>2. IsWellFoundedOn(StrictSubsetOrdering(S), FiniteSubsetsOf(S))
  BY FS_StrictSubsetOrderingWellFounded
<1>3. PICK T \in Bad : \A U \in Bad : <<U, T>> \notin StrictSubsetOrdering(S)
  <2> HIDE DEF HasLargest
  <2> QED BY <1>1, <1>2, WFMin
<1>4. T \in SUBSET S /\ T # {} /\ ~\E m \in T : \A n \in T : n <= m
  BY FS_FiniteSubsetsOfFinite
<1>5. PICK x \in T : TRUE
  BY <1>4
<1> DEFINE U == T \ {x}
<1>6. U \in FiniteSubsetsOf(S)
  BY <1>4, FS_FiniteSubsetsOfFinite
<1>7. <<U, T>> \in StrictSubsetOrdering(S)
  BY <1>4, <1>5 DEF StrictSubsetOrdering
<1>8. HasLargest(U)
  BY <1>3, <1>6, <1>7
<1>9. CASE U = {}
  BY <1>4, <1>5, <1>9
<1>10. CASE U # {}
  <2>1. PICK m \in U : \A n \in U : n <= m
    BY <1>8, <1>10
  <2>2. CASE x <= m
    BY <1>4, <2>1, <2>2
  <2>3. CASE ~(x <= m)
    BY <1>4, <1>5, <2>1, <2>3
  <2> QED BY <2>2, <2>3
<1> QED BY <1>9, <1>10

\* A new row takes an id above all others.
LEMMA FreshIdFacts ==
    ASSUME NEW rs \in SUBSET Row, IsFiniteSet(rs)
    PROVE  /\ FreshId(rs) \in Nat
           /\ \A r \in rs : r.id < FreshId(rs)
<1>1. CASE rs = {}
  BY <1>1 DEF FreshId
<1>2. CASE rs # {}
  <2> DEFINE ids == {r.id : r \in rs}
             f == [r \in rs |-> r.id]
  <2>1. f \in Surjection(rs, ids)
    BY DEF Surjection
  <2>2. IsFiniteSet(ids)
    BY <2>1, FS_Surjection
  <2>3. ids \in SUBSET Nat /\ ids # {}
    BY <1>2 DEF Row
  <2>4. PICK m \in ids : \A n \in ids : n <= m
    BY <2>2, <2>3, LargestNatural
  <2>5. \E r \in rs : \A q \in rs : q.id <= r.id
    BY <2>4
  <2> DEFINE top == CHOOSE r \in rs : \A q \in rs : q.id <= r.id
  <2>6. top \in rs /\ \A q \in rs : q.id <= top.id
    BY <2>5
  <2>7. top.id \in Nat /\ \A q \in rs : q.id \in Nat
    BY <2>6 DEF Row
  <2>8. FreshId(rs) = top.id + 1
    BY <1>2 DEF FreshId
  <2> HIDE DEF top
  <2> QED BY <2>6, <2>7, <2>8
<1> QED BY <1>1, <1>2

\* The row that counts for a hash is one of its rows.
LEMMA RowOfFacts ==
    ASSUME NEW rs \in SUBSET Row, IsFiniteSet(rs), NEW h \in Hashes(rs)
    PROVE  RowOf(rs, h) \in rs /\ RowOf(rs, h).hash = h
<1> DEFINE mine == {r \in rs : r.hash = h}
           ids == {r.id : r \in mine}
           f == [r \in mine |-> r.id]
<1>1. IsFiniteSet(mine)
  BY FS_Subset
<1>2. f \in Surjection(mine, ids)
  BY DEF Surjection
<1>3. IsFiniteSet(ids)
  BY <1>1, <1>2, FS_Surjection
<1>4. ids \in SUBSET Nat /\ ids # {}
  BY DEF Row, Hashes
<1>5. PICK m \in ids : \A n \in ids : n <= m
  BY <1>3, <1>4, LargestNatural
<1>6. \E r \in rs : r.hash = h /\ \A q \in rs : q.hash = h => q.id <= r.id
  BY <1>5
<1> QED BY <1>6 DEF RowOf

\* The hashes of the chain are at one place each.
Distinct(chain) ==
    \A i, j \in 1..Len(chain) : chain[i].hash = chain[j].hash => i = j

\* The chain the constructor loads consists of rows of the table, has no block
\* twice, is linked by the previous hashes, and ends at the selected head.
LEMMA AssembleFacts ==
    ASSUME NEW rs \in SUBSET Row, IsFiniteSet(rs),
           NEW h \in Hashes(rs), h \in Blocks
    PROVE  LET A == AssembleBlockchain(rs, h) IN
           /\ A \in Seq(Row)
           /\ A # <<>>
           /\ \A i \in 1..Len(A) : A[i] \in rs
           /\ Distinct(A)
<1> DEFINE L == Lineage[h]
           InTable(k) == \A j \in k..Len(L) : L[j] \in Hashes(rs)
           Root(k) == InTable(k) /\ (k = 1 \/ L[k - 1] \notin Hashes(rs))
<1>1. /\ Len(L) \in Nat \ {0}
      /\ L[Len(L)] = h
      /\ \A i, j \in 1..Len(L) : L[i] = L[j] => i = j
  BY LineageFacts
<1>2. \E k \in 1..Len(L) : Root(k)
  <2> DEFINE M == {j \in 0..(Len(L) - 1) : j = 0 \/ L[j] \notin Hashes(rs)}
  <2>1. M \in SUBSET Nat /\ M # {}
    <3>1. 0 \in 0..(Len(L) - 1) /\ 0..(Len(L) - 1) \subseteq Nat
      BY <1>1
    <3> QED BY <3>1
  <2>2. IsFiniteSet(M)
    <3>1. IsFiniteSet(0..(Len(L) - 1)) /\ M \in SUBSET (0..(Len(L) - 1))
      BY <1>1, FS_Interval
    <3> QED BY <3>1, FS_Subset
  <2>3. PICK m \in M : \A n \in M : n <= m
    BY <2>1, <2>2, LargestNatural
  <2>4. ASSUME NEW j \in (m + 1)..Len(L) PROVE L[j] \in Hashes(rs)
    <3>1. j \in 1..Len(L) /\ j \notin M
      BY <1>1, <2>3
    <3> QED BY <1>1, <3>1
  <2> QED BY <1>1, <2>3, <2>4
<1> DEFINE root == CHOOSE k \in 1..Len(L) : Root(k)
           n == Len(L) - root + 1
           A == [i \in 1..n |-> RowOf(rs, L[root + i - 1])]
<1>3. root \in 1..Len(L) /\ Root(root)
  BY <1>2
<1>4. A = AssembleBlockchain(rs, h)
  BY DEF AssembleBlockchain
<1> HIDE DEF root
<1>5. n \in Nat \ {0}
  BY <1>1, <1>3
<1>6. ASSUME NEW i \in 1..n
      PROVE  /\ root + i - 1 \in 1..Len(L)
             /\ L[root + i - 1] \in Hashes(rs)
             /\ A[i] \in rs
             /\ A[i].hash = L[root + i - 1]
  <2>1. root + i - 1 \in root..Len(L) /\ root + i - 1 \in 1..Len(L)
    BY <1>1, <1>3
  <2>2. L[root + i - 1] \in Hashes(rs)
    BY <1>3, <2>1
  <2> QED BY <2>1, <2>2, RowOfFacts
<1>7. A \in [1..n -> Row]
  BY <1>6
<1>8. A \in Seq(Row) /\ Len(A) = n
  <2>1. A \in Seq(Row)
    BY <1>5, <1>7, SeqDef
  <2>2. DOMAIN A = 1..n
    OBVIOUS
  <2> QED BY <1>5, <2>1, <2>2, LenProperties
<1>9. Distinct(A)
  <2> SUFFICES ASSUME NEW i \in 1..n, NEW j \in 1..n, A[i].hash = A[j].hash
               PROVE  i = j
    BY <1>8 DEF Distinct
  <2>1. root + i - 1 = root + j - 1
    BY <1>1, <1>6
  <2> QED BY <1>3, <2>1
<1>10. A # <<>>
  BY <1>5, <1>8
<1> QED BY <1>4, <1>6, <1>8, <1>9, <1>10

\* The map built from a chain with distinct hashes inverts it.
Inverts(map, chain) ==
    /\ DOMAIN map = {chain[i].hash : i \in 1..Len(chain)}
    /\ \A i \in 1..Len(chain) : map[chain[i].hash] = i - 1

LEMMA MapOfFacts ==
    ASSUME NEW chain \in Seq(Row), Distinct(chain)
    PROVE  /\ Inverts(MapOf(chain), chain)
           /\ MapOf(chain) \in [DOMAIN MapOf(chain) -> Nat]
<1>1. DOMAIN chain = 1..Len(chain)
  BY LenProperties
<1>2. ASSUME NEW i \in 1..Len(chain)
      PROVE  MapOf(chain)[chain[i].hash] = i - 1
  <2>1. (CHOOSE j \in DOMAIN chain : chain[j].hash = chain[i].hash) = i
    BY <1>1 DEF Distinct
  <2> QED BY <1>1, <2>1 DEF MapOf
<1>3. Inverts(MapOf(chain), chain)
  BY <1>1, <1>2 DEF MapOf, Inverts
<1>4. MapOf(chain) \in [DOMAIN MapOf(chain) -> Nat]
  <2> DEFINE hs == {chain[i].hash : i \in DOMAIN chain}
             At(h) == (CHOOSE i \in DOMAIN chain : chain[i].hash = h) - 1
  <2>1. \A h \in hs : At(h) \in Nat
    <3> SUFFICES ASSUME NEW i \in 1..Len(chain) PROVE At(chain[i].hash) \in Nat
      BY <1>1
    <3>1. At(chain[i].hash) = i - 1
      BY <1>1, <1>2 DEF MapOf
    <3> QED BY <3>1, LenProperties
  <2>2. MapOf(chain) = [h \in hs |-> At(h)]
    BY DEF MapOf
  <2> HIDE DEF At, hs
  <2> QED BY <2>1, <2>2
<1> QED BY <1>3, <1>4

\* What SubSeq returns inside a sequence.
LEMMA SubSeqFacts ==
    ASSUME NEW S, NEW s \in Seq(S), NEW m \in Nat \ {0}, NEW n \in 0..Len(s)
    PROVE  /\ SubSeq(s, m, n) \in Seq(S)
           /\ Len(SubSeq(s, m, n)) = IF m <= n THEN n - m + 1 ELSE 0
           /\ \A i \in 1..(n - m + 1) : SubSeq(s, m, n)[i] = s[m + i - 1]
<1>1. m \in Int /\ n \in Int
  BY LenProperties
<1>2. \A i \in m..n : s[i] \in S
  <2> SUFFICES ASSUME NEW i \in m..n PROVE s[i] \in S
    OBVIOUS
  <2>1. i \in 1..Len(s)
    BY LenProperties
  <2> QED BY <2>1, ElementOfSeq
<1> QED BY <1>1, <1>2, SubSeqProperties

\* Taking all of a sequence.
LEMMA SubSeqWhole ==
    ASSUME NEW S, NEW s \in Seq(S)
    PROVE  SubSeq(s, 1, Len(s)) = s
<1> DEFINE n == Len(s)
           t == SubSeq(s, 1, n)
<1>1. n \in Nat
  BY LenProperties
<1>2. 1 \in Nat \ {0} /\ n \in 0..Len(s)
  BY <1>1
<1>3. /\ t \in Seq(S)
      /\ Len(t) = IF 1 <= n THEN n - 1 + 1 ELSE 0
      /\ \A i \in 1..(n - 1 + 1) : t[i] = s[1 + i - 1]
  BY <1>2, SubSeqFacts
<1> HIDE DEF t, n
<1>4. Len(t) = n
  <2>1. CASE n = 0
    BY <1>3, <2>1
  <2>2. CASE n > 0
    BY <1>1, <1>3, <2>2
  <2> QED BY <1>1, <2>1, <2>2
<1>5. ASSUME NEW i \in 1..n PROVE t[i] = s[i]
  <2>1. i \in 1..(n - 1 + 1) /\ 1 + i - 1 = i
    BY <1>1
  <2> QED BY <1>3, <2>1
<1>6. Len(t) = Len(s) /\ \A i \in 1..Len(t) : t[i] = s[i]
  BY <1>4, <1>5 DEF n
<1>7. t = s
  BY <1>3, <1>6, SeqEqual
<1> QED BY <1>7 DEF t, n

\* The blocks of a chain are rows and their hashes are hashes.
LEMMA ChainFacts ==
    ASSUME NEW chain \in Seq(Row)
    PROVE  /\ Len(chain) \in Nat
           /\ \A i \in 1..Len(chain) : chain[i] \in Row
           /\ \A i \in 1..Len(chain) : chain[i].hash \in Blocks
<1>1. Len(chain) \in Nat /\ \A i \in 1..Len(chain) : chain[i] \in Row
  BY LenProperties, ElementOfSeq
<1> QED BY <1>1 DEF Row

\* Dropping the last element of a sequence.
LEMMA FrontFacts ==
    ASSUME NEW S, NEW s \in Seq(S), s # <<>>
    PROVE  /\ Len(s) \in Nat \ {0}
           /\ SubSeq(s, 1, Len(s) - 1) \in Seq(S)
           /\ Len(SubSeq(s, 1, Len(s) - 1)) = Len(s) - 1
           /\ \A i \in 1..(Len(s) - 1) : SubSeq(s, 1, Len(s) - 1)[i] = s[i]
<1> DEFINE n == Len(s)
           left == SubSeq(s, 1, n - 1)
<1>1. n \in Nat \ {0}
  BY EmptySeq, LenProperties
<1>2. 1 \in Nat \ {0} /\ n - 1 \in 0..Len(s)
  BY <1>1
<1>3. /\ left \in Seq(S)
      /\ Len(left) = IF 1 <= n - 1 THEN (n - 1) - 1 + 1 ELSE 0
      /\ \A i \in 1..((n - 1) - 1 + 1) : left[i] = s[1 + i - 1]
  BY <1>2, SubSeqFacts
<1> HIDE DEF left, n
<1>4. Len(left) = n - 1
  <2>1. CASE n = 1
    BY <1>3, <2>1
  <2>2. CASE n > 1
    BY <1>1, <1>3, <2>2
  <2> QED BY <1>1, <2>1, <2>2
<1>5. ASSUME NEW i \in 1..(n - 1) PROVE left[i] = s[i]
  <2>1. i \in 1..((n - 1) - 1 + 1) /\ 1 + i - 1 = i
    BY <1>1
  <2> QED BY <1>3, <2>1
<1> QED BY <1>1, <1>3, <1>4, <1>5 DEF left, n

(***************************************************************************)
(* Part 1: any database.                                                   *)
(***************************************************************************)

Call == [block : Blocks, id : Nat, reverts : Seq(Row), reorg : BOOLEAN]

\* While the transaction is open, the blocks left to revert are the blocks of
\* the chain above the parent of the new block, in their order.
Pushing ==
    /\ call \in Call
    /\ call.block \notin DOMAIN block_map
    /\ \/ blockchain = <<>> /\ call.reverts = <<>>
       \/ \E k \in 1..Len(blockchain) :
             /\ blockchain[k].hash = Parent(call.block)
             /\ Len(call.reverts) = Len(blockchain) - k
             /\ \A i \in 1..Len(call.reverts) :
                   call.reverts[i] = blockchain[k + i]

\* The inductive invariant of part 1.
IInv ==
    /\ TypeOK
    /\ IsFiniteSet(rows)
    /\ IsFiniteSet(disk.rows)
    /\ Inverts(block_map, blockchain)
    /\ pc \in {"insert", "add"} => Pushing
    /\ pc = "add" => call.reverts = <<>>
    /\ pc = "head" => blockchain # <<>>
    /\ pc # "logic_error"

LEMMA InvertsIsDistinct ==
    ASSUME NEW map, NEW chain \in Seq(Row), Inverts(map, chain)
    PROVE  Distinct(chain)
<1> SUFFICES ASSUME NEW i \in 1..Len(chain), NEW j \in 1..Len(chain),
                    chain[i].hash = chain[j].hash
             PROVE  i = j
  BY DEF Distinct
<1>1. i - 1 = j - 1
  BY DEF Inverts
<1> QED BY <1>1, LenProperties

LEMMA MapIsInverseIsInverts ==
    ASSUME TypeOK
    PROVE  MapIsInverse <=> Inverts(block_map, blockchain)
<1>1. DOMAIN blockchain = 1..Len(blockchain)
  BY LenProperties DEF TypeOK
<1>2. Hashes({blockchain[i] : i \in DOMAIN blockchain})
          = {blockchain[i].hash : i \in 1..Len(blockchain)}
  BY <1>1 DEF Hashes
<1> QED BY <1>1, <1>2 DEF MapIsInverse, Inverts

\* Dropping the last block from the chain and from the map.
LEMMA PopFacts ==
    ASSUME NEW chain \in Seq(Row), chain # <<>>,
           NEW map, map \in [DOMAIN map -> Nat], Inverts(map, chain)
    PROVE  LET left == SubSeq(chain, 1, Len(chain) - 1)
               gone == Unmap(map, {Top(chain).hash})
           IN  /\ left \in Seq(Row)
               /\ Len(left) = Len(chain) - 1
               /\ \A i \in 1..(Len(chain) - 1) : left[i] = chain[i]
               /\ Top(chain) \in Row
               /\ gone \in [DOMAIN gone -> Nat]
               /\ DOMAIN gone \subseteq DOMAIN map
               /\ Inverts(gone, left)
<1> DEFINE n == Len(chain)
           left == SubSeq(chain, 1, n - 1)
           gone == Unmap(map, {Top(chain).hash})
<1>1. n \in Nat \ {0} /\ \A i \in 1..n : chain[i] \in Row
  BY EmptySeq, LenProperties, ElementOfSeq
<1>2. /\ left \in Seq(Row)
      /\ Len(left) = n - 1
      /\ \A i \in 1..(n - 1) : left[i] = chain[i]
  BY FrontFacts
<1>3. Distinct(chain)
  BY InvertsIsDistinct
<1>4. DOMAIN gone = DOMAIN map \ {chain[n].hash}
  BY DEF Unmap, Top
<1>5. \A h \in DOMAIN gone : gone[h] = map[h]
  BY DEF Unmap
<1>6. gone \in [DOMAIN gone -> Nat]
  BY <1>4 DEF Unmap
<1> HIDE DEF left, gone
<1>7. Inverts(gone, left)
  <2>1. \A i \in 1..(n - 1) : chain[i].hash # chain[n].hash
    BY <1>1, <1>3 DEF Distinct
  <2>2. DOMAIN map = {chain[i].hash : i \in 1..n}
    BY DEF Inverts
  <2>3. {left[i].hash : i \in 1..Len(left)} = {chain[i].hash : i \in 1..(n - 1)}
    BY <1>2
  <2>4. DOMAIN gone = {chain[i].hash : i \in 1..(n - 1)}
    <3>1. 1..n = 1..(n - 1) \cup {n}
      BY <1>1
    <3>2. DOMAIN map = {chain[i].hash : i \in 1..(n - 1)} \cup {chain[n].hash}
      BY <2>2, <3>1
    <3>3. chain[n].hash \notin {chain[i].hash : i \in 1..(n - 1)}
      BY <2>1
    <3> QED BY <1>4, <3>2, <3>3
  <2>5. \A i \in 1..(n - 1) : gone[left[i].hash] = i - 1
    <3> SUFFICES ASSUME NEW i \in 1..(n - 1) PROVE gone[left[i].hash] = i - 1
      OBVIOUS
    <3>1. left[i].hash = chain[i].hash /\ chain[i].hash \in DOMAIN gone
      BY <1>2, <2>4
    <3>2. map[chain[i].hash] = i - 1
      BY <1>1 DEF Inverts
    <3> QED BY <1>5, <3>1, <3>2
  <2> QED BY <1>2, <2>3, <2>4, <2>5 DEF Inverts
<1>8. Top(chain) \in Row
  BY <1>1 DEF Top
<1>9. DOMAIN gone \subseteq DOMAIN map
  BY <1>4
<1> QED BY <1>2, <1>6, <1>7, <1>8, <1>9 DEF left, gone

LEMMA InitIInv == Init => IInv
<1> SUFFICES ASSUME Init PROVE IInv
  OBVIOUS
<1> USE DEF Init
<1>1. TypeOK
  <2>1. InitRows \in SUBSET Row /\ InitHead \in SUBSET Blocks
    BY InitAssumption DEF InitAssumption, Row
  <2>2. block_map \in [DOMAIN block_map -> Nat] /\ DOMAIN block_map = {}
    BY DEF EmptyMap
  <2> QED BY <2>1, <2>2 DEF TypeOK
<1>2. Inverts(block_map, blockchain)
  BY DEF Inverts, EmptyMap
<1>3. IsFiniteSet(rows) /\ IsFiniteSet(disk.rows)
  BY InitAssumption DEF InitAssumption
<1> QED BY <1>1, <1>2, <1>3 DEF IInv

(***************************************************************************)
(* Each action keeps the invariant.                                        *)
(***************************************************************************)

\* The process that dies leaves what was committed and an empty memory.
LEMMA DieIInv ==
    ASSUME IInv, Die, crashes' \in Nat
    PROVE  IInv'
<1>1. TypeOK'
  <2>1. block_map' \in [DOMAIN block_map' -> Nat] /\ DOMAIN block_map' = {}
    BY DEF Die, EmptyMap
  <2>2. disk.rows \in SUBSET Row /\ disk.head \in SUBSET Blocks
    BY DEF IInv, TypeOK
  <2>3. disk' \in [rows : SUBSET Row, head : SUBSET Blocks]
    BY DEF IInv, TypeOK, Die
  <2>4. <<>> \in Seq(Row)
    BY EmptySeq
  <2>5. /\ blockchain' \in Seq(Row)
        /\ rows' \in SUBSET Row
        /\ head' \in SUBSET Blocks
        /\ call' = NoCall
        /\ pc' = "down"
    BY <2>2, <2>4 DEF Die
  <2> QED BY <2>1, <2>3, <2>5 DEF TypeOK
<1>2. Inverts(block_map', blockchain')
  BY DEF Inverts, Die, EmptyMap
<1>3. IsFiniteSet(rows') /\ IsFiniteSet(disk.rows')
  BY DEF IInv, Die
<1> QED BY <1>1, <1>2, <1>3 DEF IInv, Die

LEMMA StartEmptyIInv ==
    ASSUME IInv, StartEmpty
    PROVE  IInv'
<1> USE DEF IInv, StartEmpty, memory
<1>1. TypeOK'
  BY DEF TypeOK
<1>2. disk'.rows = disk.rows
  BY DEF TypeOK
<1> QED BY <1>1, <1>2

LEMMA StartLoadIInv ==
    ASSUME IInv, StartLoad
    PROVE  IInv'
<1>1. PICK h \in SelectHead(rows, head) :
          /\ blockchain' = AssembleBlockchain(rows, h)
          /\ block_map' = MapOf(blockchain')
  BY DEF StartLoad
<1>2. rows \in SUBSET Row /\ IsFiniteSet(rows)
  BY DEF IInv, TypeOK
<1>3. h \in Hashes(rows)
  BY <1>1 DEF SelectHead, Heads, Hashes
<1>4. h \in Blocks
  BY <1>2, <1>3 DEF Hashes, Row
<1>5. blockchain' \in Seq(Row) /\ blockchain' # <<>> /\ Distinct(blockchain')
  BY <1>1, <1>2, <1>3, <1>4, AssembleFacts
<1>6. Inverts(block_map', blockchain')
  BY <1>1, <1>5, MapOfFacts
<1>7. block_map' \in [DOMAIN block_map' -> Nat] /\ DOMAIN block_map' \subseteq Blocks
  <2>1. \A i \in 1..Len(blockchain') : blockchain'[i].hash \in Blocks
    BY <1>5, ChainFacts
  <2>2. block_map' \in [DOMAIN block_map' -> Nat]
    BY <1>1, <1>5, MapOfFacts
  <2>3. DOMAIN block_map' = {blockchain'[i].hash : i \in 1..Len(blockchain')}
    BY <1>6 DEF Inverts
  <2> QED BY <2>1, <2>2, <2>3
<1>8. /\ rows' = rows /\ head' = {} /\ disk' = [disk EXCEPT !.head = {}]
      /\ pc' = "head" /\ call' = call /\ crashes' = crashes
  BY DEF StartLoad
<1>9. /\ disk' \in [rows : SUBSET Row, head : SUBSET Blocks]
      /\ disk'.rows = disk.rows
  BY <1>8 DEF IInv, TypeOK
<1>10. TypeOK'
  BY <1>5, <1>7, <1>8, <1>9 DEF IInv, TypeOK
<1> QED BY <1>5, <1>6, <1>8, <1>9, <1>10 DEF IInv

\* The reorganization is computed from the map; the map inverts the chain.
LEMMA PushBeginIInv ==
    ASSUME IInv, NEW b \in Blocks, Pushable(b), PushBegin(b)
    PROVE  IInv'
<1> DEFINE p == Parent(b)
           above == BlocksToRevert(p)
<1>1. /\ UNCHANGED <<blockchain, block_map, rows, head, disk, crashes>>
      /\ call' = [block |-> b, id |-> 0, reverts |-> above,
                  reorg |-> above # <<>>]
      /\ pc' = "insert"
      /\ ~BlockRequired(p)
  BY DEF PushBegin, memory
<1>2. blockchain \in Seq(Row) /\ Inverts(block_map, blockchain)
  BY DEF IInv, TypeOK
<1>3. /\ above \in Seq(Row)
      /\ \/ blockchain = <<>> /\ above = <<>>
         \/ \E k \in 1..Len(blockchain) :
               /\ blockchain[k].hash = p
               /\ Len(above) = Len(blockchain) - k
               /\ \A i \in 1..Len(above) : above[i] = blockchain[k + i]
  <2>1. CASE blockchain = <<>>
    BY <2>1, EmptySeq DEF BlocksToRevert
  <2>2. CASE blockchain # <<>>
    <3>1. p \in DOMAIN block_map
      BY <1>1, <2>2 DEF BlockRequired
    <3>2. PICK k \in 1..Len(blockchain) : blockchain[k].hash = p
      BY <1>2, <3>1 DEF Inverts
    <3>3. block_map[p] = k - 1
      BY <1>2, <3>2 DEF Inverts
    <3>4. Len(blockchain) \in Nat
      BY <1>2, LenProperties
    <3>5. block_map[p] + 2 = k + 1 /\ k + 1 \in Nat \ {0}
      BY <3>2, <3>3, <3>4
    <3>6. above = SubSeq(blockchain, k + 1, Len(blockchain))
      BY <2>2, <3>5 DEF BlocksToRevert
    <3> HIDE DEF p, above
    <3> DEFINE n == Len(blockchain)
    <3>7. n \in 0..Len(blockchain)
      BY <3>4
    <3>8. /\ above \in Seq(Row)
          /\ Len(above) = IF k + 1 <= n THEN n - (k + 1) + 1 ELSE 0
          /\ \A i \in 1..(n - (k + 1) + 1) :
                above[i] = blockchain[k + 1 + i - 1]
      BY <1>2, <3>5, <3>6, <3>7, SubSeqFacts
    <3>9. n \in Nat /\ k \in 1..n
      BY <3>2, <3>4
    <3> HIDE DEF n
    <3>10. Len(above) = n - k
      <4>1. CASE k = n
        BY <3>8, <3>9, <4>1
      <4>2. CASE k < n
        BY <3>8, <3>9, <4>2
      <4> QED BY <3>9, <4>1, <4>2
    <3>11. ASSUME NEW i \in 1..(n - k) PROVE above[i] = blockchain[k + i]
      <4>1. i \in 1..(n - (k + 1) + 1) /\ k + 1 + i - 1 = k + i
        BY <3>9
      <4> QED BY <3>8, <4>1
    <3> QED BY <3>2, <3>8, <3>10, <3>11 DEF n
  <2> QED BY <2>1, <2>2
<1> HIDE DEF p, above
<1>4. call' \in Call
  BY <1>1, <1>3 DEF Call
<1>5. /\ call'.block = b
      /\ call'.reverts = above
  BY <1>1
<1>6. Pushing'
  BY <1>1, <1>3, <1>4, <1>5 DEF Pushing, Pushable, p
<1>7. TypeOK'
  BY <1>1, <1>4 DEF IInv, TypeOK, Call
<1> QED BY <1>1, <1>6, <1>7 DEF IInv, Inverts

\* The highest block left to revert is the head of the chain: revert_block
\* never answers that it is not.
LEMMA RevertIsOfTheHead ==
    ASSUME IInv, pc = "insert", call.reverts # <<>>
    PROVE  /\ blockchain # <<>>
           /\ Top(call.reverts) = Top(blockchain)
           /\ RevertSucceeds(Top(call.reverts).hash)
<1>1. /\ call.reverts \in Seq(Row) /\ blockchain \in Seq(Row)
      /\ Pushing /\ Inverts(block_map, blockchain)
  BY DEF IInv, TypeOK, Pushing, Call
<1>2. PICK k \in 1..Len(blockchain) :
          /\ Len(call.reverts) = Len(blockchain) - k
          /\ \A i \in 1..Len(call.reverts) : call.reverts[i] = blockchain[k + i]
  BY <1>1 DEF Pushing
<1> DEFINE n == Len(blockchain)
           m == Len(call.reverts)
<1>3. n \in Nat \ {0} /\ m \in Nat \ {0} /\ m = n - k
  BY <1>1, <1>2, EmptySeq, LenProperties
<1>4. call.reverts[m] = blockchain[n]
  <2>1. m \in 1..m /\ k + m = n
    BY <1>2, <1>3
  <2> QED BY <1>2, <2>1
<1>5. blockchain # <<>>
  BY <1>3
<1>6. blockchain[n].hash \in DOMAIN block_map
  BY <1>1, <1>3 DEF Inverts
<1> QED BY <1>4, <1>5, <1>6 DEF RevertSucceeds, Top

LEMMA RevertBlockIInv ==
    ASSUME IInv, RevertBlock
    PROVE  IInv'
<1> DEFINE left == SubSeq(blockchain, 1, Len(blockchain) - 1)
           gone == Unmap(block_map, {Top(blockchain).hash})
           fewer == SubSeq(call.reverts, 1, Len(call.reverts) - 1)
<1>1. /\ pc = "insert" /\ call.reverts # <<>>
      /\ blockchain \in Seq(Row) /\ rows \in SUBSET Row
      /\ call \in Call /\ call.reverts \in Seq(Row)
      /\ Pushing /\ Inverts(block_map, blockchain)
      /\ block_map \in [DOMAIN block_map -> Nat]
      /\ DOMAIN block_map \subseteq Blocks
  BY DEF IInv, TypeOK, Pushing, Call, RevertBlock
<1>2. /\ blockchain # <<>>
      /\ Top(call.reverts) = Top(blockchain)
      /\ RevertSucceeds(Top(call.reverts).hash)
  BY <1>1, RevertIsOfTheHead
<1>3. /\ left \in Seq(Row)
      /\ Len(left) = Len(blockchain) - 1
      /\ \A i \in 1..(Len(blockchain) - 1) : left[i] = blockchain[i]
      /\ gone \in [DOMAIN gone -> Nat]
      /\ DOMAIN gone \subseteq DOMAIN block_map
      /\ Inverts(gone, left)
  BY <1>1, <1>2, PopFacts
<1>4. /\ rows' = DeleteRow(rows, Top(blockchain).id)
      /\ blockchain' = left
      /\ block_map' = gone
      /\ head' = IF left = <<>> THEN {} ELSE {Top(left).hash}
      /\ call' = [call EXCEPT !.reverts = fewer]
      /\ pc' = "insert"
      /\ disk' = disk /\ crashes' = crashes
  BY <1>2 DEF RevertBlock, Unmapped
<1> HIDE DEF left, gone
<1>5. rows' \in SUBSET Row /\ IsFiniteSet(rows')
  BY <1>1, <1>4, FS_Subset DEF DeleteRow, IInv
<1>6. head' \in SUBSET Blocks
  <2>1. CASE left = <<>>
    BY <1>4, <2>1
  <2>2. CASE left # <<>>
    <3>1. Top(left) \in Row
      BY <1>3, <2>2, EmptySeq, LenProperties, ElementOfSeq DEF Top
    <3> QED BY <1>4, <2>2, <3>1 DEF Row
  <2> QED BY <2>1, <2>2
<1>7. /\ Len(call.reverts) \in Nat \ {0}
      /\ fewer \in Seq(Row)
      /\ Len(fewer) = Len(call.reverts) - 1
      /\ \A i \in 1..(Len(call.reverts) - 1) : fewer[i] = call.reverts[i]
  BY <1>1, FrontFacts
<1> HIDE DEF fewer
<1>8. /\ call' \in Call
      /\ call'.reverts = fewer
      /\ call'.block = call.block
  BY <1>1, <1>4, <1>7 DEF Call
<1>9. Pushing'
  <2>1. call'.block \notin DOMAIN block_map'
    BY <1>1, <1>3, <1>4, <1>8 DEF Pushing
  <2>2. PICK k \in 1..Len(blockchain) :
            /\ blockchain[k].hash = Parent(call.block)
            /\ Len(call.reverts) = Len(blockchain) - k
            /\ \A i \in 1..Len(call.reverts) :
                  call.reverts[i] = blockchain[k + i]
    BY <1>1 DEF Pushing
  <2> DEFINE n == Len(blockchain)
             m == Len(call.reverts)
  <2>3. n \in Nat /\ m \in Nat \ {0} /\ m = n - k /\ k \in 1..n
    BY <1>1, <1>7, <2>2, LenProperties
  <2>4. /\ Len(left) = n - 1 /\ Len(fewer) = m - 1
        /\ k \in 1..(n - 1) /\ m - 1 = (n - 1) - k
    BY <1>3, <1>7, <2>3
  <2>5. left[k].hash = Parent(call'.block)
    BY <1>3, <1>8, <2>2, <2>4
  <2>6. ASSUME NEW i \in 1..(m - 1) PROVE fewer[i] = left[k + i]
    <3>1. i \in 1..m /\ k + i \in 1..(n - 1)
      BY <2>3
    <3> QED BY <1>3, <1>7, <2>2, <3>1
  <2> HIDE DEF n, m
  <2>7. \E j \in 1..Len(left) :
            /\ left[j].hash = Parent(call'.block)
            /\ Len(fewer) = Len(left) - j
            /\ \A i \in 1..Len(fewer) : fewer[i] = left[j + i]
    BY <2>4, <2>5, <2>6
  <2> QED BY <1>4, <1>8, <2>1, <2>7 DEF Pushing
<1>10. TypeOK'
  BY <1>1, <1>3, <1>4, <1>5, <1>6, <1>8 DEF IInv, TypeOK, Call
<1> QED BY <1>3, <1>4, <1>5, <1>9, <1>10 DEF IInv

LEMMA InsertBlockIInv ==
    ASSUME IInv, InsertBlock
    PROVE  IInv'
<1> DEFINE new == [id |-> FreshId(rows), hash |-> call.block]
<1>1. /\ rows \in SUBSET Row /\ IsFiniteSet(rows) /\ Pushing
      /\ call \in Call /\ call.reverts = <<>> /\ head \in SUBSET Blocks
  BY DEF IInv, TypeOK, InsertBlock, Pushing
<1>2. new \in Row
  BY <1>1, FreshIdFacts DEF Row, Call
<1>3. rows' \in SUBSET Row /\ IsFiniteSet(rows')
  BY <1>1, <1>2, FS_AddElement DEF InsertBlock
<1>4. /\ disk' = [rows |-> rows', head |-> head]
      /\ call' = [call EXCEPT !.id = FreshId(rows)]
      /\ pc' = "add"
      /\ UNCHANGED <<blockchain, block_map, head, crashes>>
  BY DEF InsertBlock, Commit, memory
<1>5. /\ call' \in Call /\ call'.block = call.block
      /\ call'.reverts = call.reverts
  BY <1>1, <1>4, FreshIdFacts DEF Call
<1>6. Pushing'
  BY <1>1, <1>4, <1>5 DEF Pushing
<1>7. TypeOK'
  BY <1>1, <1>3, <1>4, <1>5 DEF IInv, TypeOK, Call
<1>8. IsFiniteSet(disk'.rows)
  BY <1>3, <1>4
<1> QED BY <1>1, <1>3, <1>4, <1>5, <1>6, <1>7, <1>8 DEF IInv, Inverts

\* add_new_block finds the previous block at the head of the chain, where
\* insert_new_block left it: it appends one block and drops none.
LEMMA AddIsAppend ==
    ASSUME IInv, AddNewBlock
    PROVE  /\ blockchain' = Append(blockchain,
                                   [id |-> call.id, hash |-> call.block])
           /\ block_map' =
                [h \in DOMAIN block_map \cup {call.block} |->
                    IF h = call.block THEN Len(blockchain) ELSE block_map[h]]
           /\ head' = {}
           /\ disk' = [disk EXCEPT !.head = {}]
           /\ pc' = "head"
           /\ UNCHANGED <<rows, call, crashes>>
<1> DEFINE p == Parent(call.block)
           n == Len(blockchain)
           above == BlocksToRevert(p)
           height == IF blockchain = <<>> THEN 0 ELSE n - Len(above)
           reverted == {above[i].hash : i \in DOMAIN above}
           kept == Unmap(block_map, reverted)
<1>1. /\ blockchain \in Seq(Row) /\ Inverts(block_map, blockchain)
      /\ block_map \in [DOMAIN block_map -> Nat]
      /\ Pushing /\ call.reverts = <<>>
  BY DEF IInv, TypeOK, AddNewBlock
<1>2. n \in Nat
  BY <1>1, ChainFacts
<1>3. blockchain # <<>> => n # 0 /\ blockchain[n].hash = p
  <2> SUFFICES ASSUME blockchain # <<>> PROVE n # 0 /\ blockchain[n].hash = p
    OBVIOUS
  <2>1. PICK k \in 1..n : blockchain[k].hash = p /\ Len(call.reverts) = n - k
    BY <1>1 DEF Pushing
  <2>2. Len(call.reverts) = 0
    BY <1>1, EmptySeq
  <2>3. k = n /\ n # 0
    BY <1>2, <2>1, <2>2
  <2> QED BY <2>1, <2>3
<1>4. ~BlockRequired(p)
  <2>1. CASE blockchain = <<>>
    BY <2>1 DEF BlockRequired
  <2>2. CASE blockchain # <<>>
    <3>1. n \in 1..n
      BY <1>2, <1>3, <2>2
    <3>2. p \in DOMAIN block_map
      BY <1>1, <1>3, <2>2, <3>1 DEF Inverts
    <3> QED BY <3>2 DEF BlockRequired
  <2> QED BY <2>1, <2>2
<1>5. above = <<>>
  <2>1. CASE blockchain = <<>>
    BY <2>1 DEF BlocksToRevert
  <2>2. CASE blockchain # <<>>
    <3>1. n \in 1..n
      BY <1>2, <1>3, <2>2
    <3>2. block_map[p] = n - 1
      BY <1>1, <1>3, <2>2, <3>1 DEF Inverts
    <3>3. block_map[p] + 2 = n + 1 /\ n + 1 \in Nat \ {0} /\ n \in 0..n
      BY <1>2, <3>2
    <3>4. above = SubSeq(blockchain, n + 1, n)
      BY <2>2, <3>3 DEF BlocksToRevert
    <3> HIDE DEF above
    <3>5. above \in Seq(Row) /\ Len(above) = IF n + 1 <= n THEN n - (n + 1) + 1
                                                           ELSE 0
      BY <1>1, <3>3, <3>4, SubSeqFacts
    <3>6. Len(above) = 0
      BY <1>2, <3>5
    <3> QED BY <3>5, <3>6, EmptySeq
  <2> QED BY <2>1, <2>2
<1>6. DOMAIN above = {} /\ Len(above) = 0
  BY <1>5, EmptySeq
<1>7. height = n
  <2>1. blockchain = <<>> => n = 0
    BY EmptySeq
  <2> QED BY <1>2, <1>6, <2>1
<1>8. kept = block_map
  BY <1>1, <1>6 DEF Unmap
<1>9. SubSeq(blockchain, 1, height) = blockchain
  <2>1. \A s \in Seq(Row) : SubSeq(s, 1, Len(s)) = s
    BY SubSeqWhole
  <2> QED BY <1>1, <1>7, <2>1
<1>10. /\ blockchain' = Append(SubSeq(blockchain, 1, height),
                               [id |-> call.id, hash |-> call.block])
       /\ block_map' = [h \in DOMAIN kept \cup {call.block} |->
                           IF h = call.block THEN height ELSE kept[h]]
       /\ head' = {}
       /\ disk' = [disk EXCEPT !.head = {}]
       /\ pc' = "head"
       /\ UNCHANGED <<rows, call, crashes>>
  BY <1>4 DEF AddNewBlock
<1> HIDE DEF above, height, reverted, kept
<1> QED BY <1>7, <1>8, <1>9, <1>10

\* Adding a block on top of the chain and to the map.
LEMMA PushFacts ==
    ASSUME NEW chain \in Seq(Row), NEW row \in Row,
           NEW map, map \in [DOMAIN map -> Nat], Inverts(map, chain),
           row.hash \notin DOMAIN map
    PROVE  LET more == Append(chain, row)
               known == [h \in DOMAIN map \cup {row.hash} |->
                            IF h = row.hash THEN Len(chain) ELSE map[h]]
           IN  /\ more \in Seq(Row)
               /\ more # <<>>
               /\ known \in [DOMAIN known -> Nat]
               /\ DOMAIN known = DOMAIN map \cup {row.hash}
               /\ Inverts(known, more)
<1> DEFINE n == Len(chain)
           more == Append(chain, row)
           known == [h \in DOMAIN map \cup {row.hash} |->
                        IF h = row.hash THEN n ELSE map[h]]
<1>1. n \in Nat
  BY ChainFacts
<1>2. /\ more \in Seq(Row) /\ more # <<>>
      /\ Len(more) = n + 1
      /\ \A i \in 1..n : more[i] = chain[i]
      /\ more[n + 1] = row
  BY AppendProperties
<1>3. DOMAIN map = {chain[i].hash : i \in 1..n}
      /\ \A i \in 1..n : map[chain[i].hash] = i - 1
  BY DEF Inverts
<1>4. /\ DOMAIN known = DOMAIN map \cup {row.hash}
      /\ known[row.hash] = n
      /\ \A h \in DOMAIN map : known[h] = map[h]
  OBVIOUS
<1>5. known \in [DOMAIN known -> Nat]
  BY <1>1
<1> HIDE DEF more, known, n
<1>6. \A i \in 1..(n + 1) : known[more[i].hash] = i - 1
  <2> SUFFICES ASSUME NEW i \in 1..(n + 1) PROVE known[more[i].hash] = i - 1
    OBVIOUS
  <2>1. CASE i = n + 1
    <3>1. i - 1 = n
      BY <1>1, <2>1
    <3>2. more[i] = row
      BY <1>2, <2>1
    <3> QED BY <1>4, <3>1, <3>2
  <2>2. CASE i # n + 1
    <3>1. i \in 1..n
      BY <1>1, <2>2
    <3>2. more[i] = chain[i]
      BY <1>2, <3>1
    <3>3. chain[i].hash \in DOMAIN map /\ map[chain[i].hash] = i - 1
      BY <1>3, <3>1
    <3> QED BY <1>4, <3>2, <3>3
  <2> QED BY <2>1, <2>2
<1>7. {more[i].hash : i \in 1..(n + 1)} = DOMAIN known
  <2>1. 1..(n + 1) = 1..n \cup {n + 1}
    BY <1>1
  <2>2. {more[i].hash : i \in 1..(n + 1)}
            = {more[i].hash : i \in 1..n} \cup {more[n + 1].hash}
    BY <2>1
  <2>3. {more[i].hash : i \in 1..n} = {chain[i].hash : i \in 1..n}
    BY <1>2
  <2> QED BY <1>2, <1>3, <1>4, <2>2, <2>3
<1>8. Inverts(known, more)
  BY <1>2, <1>6, <1>7 DEF Inverts
<1> QED BY <1>2, <1>4, <1>5, <1>8 DEF more, known, n

LEMMA AddNewBlockIInv ==
    ASSUME IInv, AddNewBlock
    PROVE  IInv'
<1> DEFINE row == [id |-> call.id, hash |-> call.block]
<1>1. /\ blockchain \in Seq(Row) /\ Inverts(block_map, blockchain)
      /\ block_map \in [DOMAIN block_map -> Nat]
      /\ DOMAIN block_map \subseteq Blocks
      /\ call \in Call /\ call.block \notin DOMAIN block_map
  BY DEF IInv, TypeOK, AddNewBlock, Pushing
<1>2. row \in Row /\ row.hash = call.block
  BY <1>1 DEF Row, Call
<1>3. /\ blockchain' = Append(blockchain, row)
      /\ block_map' =
           [h \in DOMAIN block_map \cup {row.hash} |->
               IF h = row.hash THEN Len(blockchain) ELSE block_map[h]]
  BY <1>2, AddIsAppend
<1>4. row.hash \notin DOMAIN block_map
  BY <1>1, <1>2
<1> HIDE DEF row
<1>5. /\ blockchain' \in Seq(Row)
      /\ blockchain' # <<>>
      /\ block_map' \in [DOMAIN block_map' -> Nat]
      /\ DOMAIN block_map' = DOMAIN block_map \cup {row.hash}
      /\ Inverts(block_map', blockchain')
  BY <1>1, <1>2, <1>3, <1>4, PushFacts
<1>6. /\ head' = {} /\ disk' = [disk EXCEPT !.head = {}] /\ pc' = "head"
      /\ UNCHANGED <<rows, call, crashes>>
  BY AddIsAppend
<1>7. DOMAIN block_map' \subseteq Blocks
  BY <1>1, <1>2, <1>5 DEF Row
<1>8. /\ disk' \in [rows : SUBSET Row, head : SUBSET Blocks]
      /\ disk'.rows = disk.rows
  BY <1>6 DEF IInv, TypeOK
<1>9. TypeOK'
  BY <1>5, <1>6, <1>7, <1>8 DEF IInv, TypeOK
<1> QED BY <1>5, <1>6, <1>8, <1>9 DEF IInv

LEMMA InsertHeadIInv ==
    ASSUME IInv, InsertHead
    PROVE  IInv'
<1>1. /\ blockchain \in Seq(Row) /\ blockchain # <<>>
  BY DEF IInv, TypeOK, InsertHead
<1>2. Top(blockchain).hash \in Blocks
  <2>1. Len(blockchain) \in 1..Len(blockchain)
    BY <1>1, FrontFacts
  <2> QED BY <1>1, <2>1, ChainFacts DEF Top
<1>3. /\ head' = head \cup {Top(blockchain).hash}
      /\ disk' = [disk EXCEPT !.head = head']
      /\ call' = NoCall /\ pc' = "idle"
      /\ UNCHANGED <<blockchain, block_map, rows, crashes>>
  BY DEF InsertHead, memory
<1>4. head' \in SUBSET Blocks
  BY <1>2, <1>3 DEF IInv, TypeOK
<1>5. /\ disk' \in [rows : SUBSET Row, head : SUBSET Blocks]
      /\ disk'.rows = disk.rows
  BY <1>3, <1>4 DEF IInv, TypeOK
<1>6. TypeOK'
  BY <1>3, <1>4, <1>5 DEF IInv, TypeOK
<1> QED BY <1>3, <1>5, <1>6 DEF IInv, Inverts

LEMMA FailIInv ==
    ASSUME IInv, Fail \/ FailInsert
    PROVE  IInv'
<1>1. CASE Fail
  <2>1. /\ pc' = "failed"
        /\ UNCHANGED <<blockchain, block_map, disk, call, crashes>>
        /\ \/ UNCHANGED <<rows, head>>
           \/ rows' = disk.rows /\ head' = disk.head
    BY <1>1 DEF Fail, memory
  <2>2. /\ rows' \in SUBSET Row /\ head' \in SUBSET Blocks
        /\ IsFiniteSet(rows')
    BY <2>1 DEF IInv, TypeOK
  <2>3. TypeOK'
    BY <2>1, <2>2 DEF IInv, TypeOK
  <2> QED BY <2>1, <2>2, <2>3 DEF IInv, Inverts
<1>2. CASE FailInsert
  <2>1. /\ pc = "insert" /\ pc' = "failed"
        /\ rows' = rows \cup {[id |-> FreshId(rows), hash |-> call.block]}
        /\ UNCHANGED <<blockchain, block_map, head, disk, call, crashes>>
    BY <1>2 DEF FailInsert, memory
  <2>2. /\ rows \in SUBSET Row /\ IsFiniteSet(rows) /\ call \in Call
    BY <2>1 DEF IInv, TypeOK, Pushing
  <2>3. [id |-> FreshId(rows), hash |-> call.block] \in Row
    BY <2>2, FreshIdFacts DEF Row, Call
  <2>4. rows' \in SUBSET Row /\ IsFiniteSet(rows')
    BY <2>1, <2>2, <2>3, FS_AddElement
  <2>5. TypeOK'
    BY <2>1, <2>4 DEF IInv, TypeOK
  <2> QED BY <2>1, <2>4, <2>5 DEF IInv, Inverts
<1> QED BY <1>1, <1>2

LEMMA NextIInv == IInv /\ [Next]_chainVars => IInv'
<1> SUFFICES ASSUME IInv, [Next]_chainVars PROVE IInv'
  OBVIOUS
<1>1. CASE StartEmpty
  BY <1>1, StartEmptyIInv
<1>2. CASE StartLoad
  BY <1>2, StartLoadIInv
<1>3. CASE StartRefused
  BY <1>3 DEF IInv, TypeOK, StartRefused, memory, Inverts
<1>4. ASSUME NEW b \in Blocks, Pushable(b), PushBegin(b) PROVE IInv'
  BY <1>4, PushBeginIInv
<1>5. CASE RevertBlock
  BY <1>5, RevertBlockIInv
<1>6. CASE InsertBlock
  BY <1>6, InsertBlockIInv
<1>7. CASE AddNewBlock
  BY <1>7, AddNewBlockIInv
<1>8. CASE InsertHead
  BY <1>8, InsertHeadIInv
<1>9. CASE Fail \/ FailInsert
  BY <1>9, FailIInv
<1>10. CASE Exit \/ Stop \/ Crash
  <2>1. Die /\ crashes' \in Nat
    BY <1>10 DEF Exit, Stop, Crash, IInv, TypeOK
  <2> QED BY <2>1, DieIInv
<1>11. CASE UNCHANGED chainVars
  BY <1>11 DEF chainVars, IInv, TypeOK, Inverts, Pushing
<1> QED
  BY <1>1, <1>2, <1>3, <1>4, <1>5, <1>6, <1>7, <1>8, <1>9, <1>10, <1>11 DEF Next

LEMMA SpecIInv == Spec => []IInv
BY InitIInv, NextIInv, PTL DEF Spec

\* Every variable keeps its shape, from whatever database the index opens.
THEOREM TypeCorrect == Spec => []TypeOK
<1>1. IInv => TypeOK
  BY DEF IInv
<1> QED BY <1>1, SpecIInv, PTL

\* block_map inverts the chain vector in every state of a push, a reorganization
\* or a restart: a block that is looked up in the map is where the map says.
THEOREM MapInverts == Spec => []MapIsInverse
<1>1. IInv => MapIsInverse
  BY MapIsInverseIsInverts DEF IInv
<1> QED BY <1>1, SpecIInv, PTL

\* No push ends in one of the exceptions for incorrect usage: revert_block is
\* always called for the head of the chain and add_new_block always finds the
\* previous block, whatever the table held and whatever crashed before.
THEOREM NoInternalError == Spec => []NoLogicError
<1>1. IInv => NoLogicError
  BY DEF IInv, NoLogicError
<1> QED BY <1>1, SpecIInv, PTL

(***************************************************************************)
(* Part 2: an index that starts on an empty database.                      *)
(***************************************************************************)

RowsOf(chain) == {chain[i] : i \in 1..Len(chain)}

\* A chain of rows with different ids, each block at its own height with its
\* own history below it.
Linear(chain) ==
    /\ chain \in Seq(Row)
    /\ \A i, j \in 1..Len(chain) : chain[i].id = chain[j].id => i = j
    /\ \A i \in 1..Len(chain) :
          /\ Len(Lineage[chain[i].hash]) = i
          /\ \A j \in 1..i : Lineage[chain[i].hash][j] = chain[j].hash

NewRow == [id |-> call.id, hash |-> call.block]

\* The inductive invariant of part 2.
FreshInv ==
    /\ IInv
    /\ Linear(blockchain)
    /\ \E c \in Seq(Row) : Linear(c) /\ disk.rows = RowsOf(c)
    /\ pc # "refused"
    /\ pc = "down" => blockchain = <<>> /\ rows = disk.rows
    /\ pc \in {"idle", "insert", "head"} => rows = RowsOf(blockchain)
    /\ pc \in {"idle", "head", "add"} => disk.rows = rows
    /\ pc \in {"insert", "add"} /\ blockchain = <<>> =>
          Parent(call.block) = NoBlock
    /\ pc = "add" => /\ Linear(Append(blockchain, NewRow))
                     /\ rows = RowsOf(Append(blockchain, NewRow))

LEMMA LinearIsDistinct ==
    ASSUME NEW chain, Linear(chain)
    PROVE  Distinct(chain)
<1>1. \A i \in 1..Len(chain) : Len(Lineage[chain[i].hash]) = i
  BY DEF Linear
<1> QED BY <1>1 DEF Distinct

LEMMA EmptyIsLinear == Linear(<<>>) /\ RowsOf(<<>>) = {}
<1>1. <<>> \in Seq(Row) /\ Len(<<>>) = 0
  BY EmptySeq
<1>2. 1..0 = {}
  OBVIOUS
<1> QED BY <1>1, <1>2 DEF Linear, RowsOf

\* The last block of a chain.
LEMMA TopFacts ==
    ASSUME NEW chain \in Seq(Row), chain # <<>>
    PROVE  /\ Len(chain) \in Nat \ {0}
           /\ Len(chain) \in 1..Len(chain)
           /\ Top(chain) = chain[Len(chain)]
           /\ Top(chain) \in Row
           /\ Top(chain).hash \in Blocks
<1>1. Len(chain) \in Nat \ {0} /\ Len(chain) \in 1..Len(chain)
  BY FrontFacts
<1> QED BY <1>1, ChainFacts DEF Top

\* The previous block of a block of a linear chain is the one below it.
LEMMA ParentFacts ==
    ASSUME NEW chain, Linear(chain), NEW i \in 1..Len(chain)
    PROVE  /\ i = 1 => Parent(chain[i].hash) = NoBlock
           /\ i # 1 => /\ i - 1 \in 1..Len(chain)
                       /\ Parent(chain[i].hash) = chain[i - 1].hash
<1>1. Len(chain) \in Nat
  BY ChainFacts DEF Linear
<1>2. /\ Len(Lineage[chain[i].hash]) = i
      /\ \A j \in 1..i : Lineage[chain[i].hash][j] = chain[j].hash
  BY DEF Linear
<1>3. CASE i = 1
  BY <1>2, <1>3 DEF Parent
<1>4. CASE i # 1
  <2>1. i - 1 \in 1..Len(chain) /\ i - 1 \in 1..i
    BY <1>1, <1>4
  <2> QED BY <1>2, <1>4, <2>1 DEF Parent
<1> QED BY <1>3, <1>4

\* A table that holds one linear chain has one head, the last block, and the
\* constructor loads exactly that chain from it, whatever head was saved.
LEMMA Loading ==
    ASSUME NEW c, Linear(c), c # <<>>, NEW hd
    PROVE  /\ RowsOf(c) # {}
           /\ SelectHead(RowsOf(c), hd) = {Top(c).hash}
           /\ AssembleBlockchain(RowsOf(c), Top(c).hash) = c
<1> DEFINE rs == RowsOf(c)
           n == Len(c)
<1>1. c \in Seq(Row) /\ Distinct(c)
  BY LinearIsDistinct DEF Linear
<1>2. /\ n \in Nat \ {0} /\ n \in 1..n
      /\ Top(c) = c[n] /\ \A i \in 1..n : c[i] \in Row /\ c[i].hash \in Blocks
  BY <1>1, TopFacts, ChainFacts
<1>3. rs = {c[i] : i \in 1..n}
  BY DEF RowsOf
<1>4. Heads(rs) = {c[n]}
  <2>1. ASSUME NEW i \in 1..n, i # n PROVE c[i] \notin Heads(rs)
    <3>1. i + 1 \in 1..n /\ i + 1 # 1 /\ (i + 1) - 1 = i
      BY <1>2, <2>1
    <3>2. Parent(c[i + 1].hash) = c[i].hash
      BY <3>1, ParentFacts
    <3>3. c[i + 1] \in rs
      BY <1>3, <3>1
    <3> QED BY <3>2, <3>3 DEF Heads
  <2>2. ASSUME NEW i \in 1..n PROVE Parent(c[i].hash) # c[n].hash
    <3>1. CASE i = 1
      <4>1. Parent(c[i].hash) = NoBlock /\ c[n].hash \in Blocks
        BY <1>2, <3>1, ParentFacts
      <4> QED BY <4>1, LineageAssumption DEF LineageAssumption
    <3>2. CASE i # 1
      <4>1. i - 1 \in 1..n /\ Parent(c[i].hash) = c[i - 1].hash
        BY <3>2, ParentFacts
      <4>2. i - 1 # n
        BY <1>2
      <4> QED BY <1>1, <1>2, <4>1, <4>2 DEF Distinct
    <3> QED BY <3>1, <3>2
  <2>3. c[n] \in Heads(rs)
    BY <1>2, <1>3, <2>2 DEF Heads
  <2>4. \A r \in Heads(rs) : r \in rs
    BY DEF Heads
  <2> QED BY <1>3, <2>1, <2>3, <2>4
<1>5. SelectHead(rs, hd) = {Top(c).hash}
  <2>1. Cardinality(Heads(rs)) = 1
    BY <1>4, FS_Singleton
  <2>2. Hashes(Heads(rs)) = {c[n].hash}
    BY <1>4 DEF Hashes
  <2> QED BY <1>2, <2>1, <2>2 DEF SelectHead
<1>6. ASSUME NEW i \in 1..n PROVE RowOf(rs, c[i].hash) = c[i]
  <2>1. \A q \in rs : q.hash = c[i].hash => q = c[i]
    BY <1>1, <1>3 DEF Distinct
  <2>2. c[i] \in rs /\ c[i].id <= c[i].id
    BY <1>2, <1>3 DEF Row
  <2>3. /\ c[i] \in rs /\ c[i].hash = c[i].hash
        /\ \A q \in rs : q.hash = c[i].hash => q.id <= c[i].id
    BY <2>1, <2>2
  <2>4. \A r \in rs : r.hash = c[i].hash => r = c[i]
    BY <2>1
  <2> HIDE DEF rs
  <2> QED BY <2>3, <2>4 DEF RowOf
<1> DEFINE L == Lineage[c[n].hash]
<1>7. Len(L) = n /\ \A j \in 1..n : L[j] = c[j].hash
  BY <1>2 DEF Linear
<1>8. \A j \in 1..n : L[j] \in Hashes(rs)
  BY <1>3, <1>7 DEF Hashes
<1> DEFINE Root(k) == /\ \A j \in k..Len(L) : L[j] \in Hashes(rs)
                      /\ k = 1 \/ L[k - 1] \notin Hashes(rs)
           root == CHOOSE k \in 1..Len(L) : Root(k)
<1>9. root = 1
  <2>1. 1 \in 1..Len(L) /\ Root(1)
    BY <1>2, <1>7, <1>8
  <2>2. ASSUME NEW k \in 1..Len(L), Root(k) PROVE k = 1
    <3>1. k # 1 => k - 1 \in 1..n
      BY <1>2, <1>7
    <3> QED BY <1>8, <2>2, <3>1
  <2> HIDE DEF Root, L
  <2> QED BY <2>1, <2>2
<1>10. AssembleBlockchain(rs, c[n].hash)
           = [i \in 1..(Len(L) - root + 1) |-> RowOf(rs, L[root + i - 1])]
  BY DEF AssembleBlockchain
<1> HIDE DEF root, L, rs
<1>11. AssembleBlockchain(rs, c[n].hash) = [i \in 1..n |-> c[i]]
  <2>1. Len(L) - root + 1 = n
    BY <1>2, <1>7, <1>9
  <2>2. \A i \in 1..n : RowOf(rs, L[root + i - 1]) = c[i]
    <3> SUFFICES ASSUME NEW i \in 1..n
                 PROVE  RowOf(rs, L[root + i - 1]) = c[i]
      OBVIOUS
    <3>1. root + i - 1 = i
      BY <1>2, <1>9
    <3> QED BY <1>6, <1>7, <3>1
  <2> QED BY <1>10, <2>1, <2>2
<1>12. c = [i \in 1..n |-> c[i]]
  BY <1>1, LenProperties
<1>13. rs # {}
  BY <1>2, <1>3
<1> QED BY <1>2, <1>5, <1>11, <1>12, <1>13 DEF rs

\* Taking the last block off a linear chain, and its row out of the table.
LEMMA LinearPop ==
    ASSUME NEW c, Linear(c), c # <<>>
    PROVE  LET left == SubSeq(c, 1, Len(c) - 1) IN
           /\ Linear(left)
           /\ DeleteRow(RowsOf(c), Top(c).id) = RowsOf(left)
<1> DEFINE n == Len(c)
           left == SubSeq(c, 1, n - 1)
<1>1. /\ c \in Seq(Row) /\ n \in Nat \ {0}
      /\ left \in Seq(Row) /\ Len(left) = n - 1
      /\ \A i \in 1..(n - 1) : left[i] = c[i]
  BY FrontFacts DEF Linear
<1> HIDE DEF left
<1>2. \A i \in 1..(n - 1) : i \in 1..n /\ \A j \in 1..i : j \in 1..(n - 1)
  BY <1>1
<1>3. Linear(left)
  <2>1. \A i, j \in 1..(n - 1) : left[i].id = left[j].id => i = j
    BY <1>1, <1>2 DEF Linear
  <2>2. ASSUME NEW i \in 1..(n - 1)
        PROVE  /\ Len(Lineage[left[i].hash]) = i
               /\ \A j \in 1..i : Lineage[left[i].hash][j] = left[j].hash
    <3>1. left[i] = c[i] /\ i \in 1..n /\ \A j \in 1..i : left[j] = c[j]
      BY <1>1, <1>2
    <3> QED BY <3>1 DEF Linear
  <2> QED BY <1>1, <2>1, <2>2 DEF Linear
<1>4. DeleteRow(RowsOf(c), Top(c).id) = RowsOf(left)
  <2>1. 1..n = 1..(n - 1) \cup {n} /\ n \notin 1..(n - 1) /\ n \in 1..n
    BY <1>1
  <2>2. \A i \in 1..n : c[i].id = c[n].id <=> i = n
    BY <2>1 DEF Linear
  <2>3. DeleteRow(RowsOf(c), Top(c).id) = {c[i] : i \in 1..(n - 1)}
    <3>1. \A i \in 1..(n - 1) : c[i] \in RowsOf(c) /\ c[i].id # c[n].id
      BY <1>2, <2>1, <2>2 DEF RowsOf
    <3>2. ASSUME NEW r \in RowsOf(c), r.id # c[n].id
          PROVE  r \in {c[i] : i \in 1..(n - 1)}
      <4>1. PICK i \in 1..n : r = c[i]
        BY DEF RowsOf
      <4>2. i \in 1..(n - 1)
        BY <2>1, <3>2, <4>1
      <4> QED BY <4>1, <4>2
    <3> QED BY <3>1, <3>2 DEF DeleteRow, Top
  <2>4. RowsOf(left) = {c[i] : i \in 1..(n - 1)}
    BY <1>1 DEF RowsOf
  <2> QED BY <2>3, <2>4
<1> QED BY <1>3, <1>4 DEF left

\* Putting a new block, with an id above all others, on top of its parent.
LEMMA LinearPush ==
    ASSUME NEW c, Linear(c), NEW row \in Row,
           \A r \in RowsOf(c) : r.id # row.id,
           c = <<>> => Parent(row.hash) = NoBlock,
           c # <<>> => Parent(row.hash) = Top(c).hash
    PROVE  /\ Linear(Append(c, row))
           /\ RowsOf(Append(c, row)) = RowsOf(c) \cup {row}
<1> DEFINE n == Len(c)
           more == Append(c, row)
           L == Lineage[row.hash]
<1>1. /\ c \in Seq(Row) /\ n \in Nat
      /\ more \in Seq(Row) /\ Len(more) = n + 1
      /\ \A i \in 1..n : more[i] = c[i]
      /\ more[n + 1] = row
  BY AppendProperties, ChainFacts DEF Linear
<1>2. /\ row.hash \in Blocks /\ NoBlock \notin Blocks
  BY LineageAssumption DEF Row, LineageAssumption
<1>3. /\ Len(L) \in Nat \ {0} /\ L[Len(L)] = row.hash
      /\ \A i \in 1..Len(L) : L[i] \in Blocks /\ Len(Lineage[L[i]]) = i
      /\ \A i \in 1..Len(L) : Lineage[L[i]] = SubSeq(L, 1, i)
      /\ L \in Seq(Blocks)
  BY <1>2, LineageFacts
<1>3a. ASSUME Len(L) # 1 PROVE Len(L) - 1 \in 1..Len(L)
  <2>1. \A k \in Nat \ {0} : k # 1 => k - 1 \in 1..k
    OBVIOUS
  <2>2. Len(L) \in Nat \ {0}
    BY <1>3
  <2> HIDE DEF L
  <2> QED BY <1>3a, <2>1, <2>2
<1>4. Len(L) = n + 1 /\ \A j \in 1..n : L[j] = c[j].hash
  <2>1. CASE c = <<>>
    <3>1. Len(L) = 1
      <4> SUFFICES ASSUME Len(L) # 1 PROVE FALSE
        OBVIOUS
      <4>1. Len(L) - 1 \in 1..Len(L)
        BY <1>3a
      <4>2. Parent(row.hash) = L[Len(L) - 1]
        BY DEF Parent
      <4> QED BY <1>2, <1>3, <2>1, <4>1, <4>2
    <3>2. n = 0
      BY <2>1, EmptySeq
    <3> QED BY <3>1, <3>2
  <2>2. CASE c # <<>>
    <3>1. n \in 1..n /\ Top(c) = c[n] /\ c[n].hash \in Blocks
      BY <1>1, <2>2, TopFacts
    <3>2. Len(L) # 1
      BY <1>2, <2>2, <3>1 DEF Parent
    <3>3. Len(L) - 1 \in 1..Len(L) /\ L[Len(L) - 1] = c[n].hash
      BY <1>3a, <2>2, <3>1, <3>2 DEF Parent
    <3>4. Len(Lineage[c[n].hash]) = n
          /\ \A j \in 1..n : Lineage[c[n].hash][j] = c[j].hash
      BY <3>1 DEF Linear
    <3>5. Len(L) - 1 = n
      BY <1>3, <3>3, <3>4
    <3>6. Lineage[c[n].hash] = SubSeq(L, 1, n)
      BY <1>3, <3>3, <3>5
    <3>7. 1 \in Nat \ {0} /\ n \in 0..Len(L)
      BY <1>1, <1>3, <3>5
    <3>8. \A i \in 1..(n - 1 + 1) : SubSeq(L, 1, n)[i] = L[1 + i - 1]
      BY <1>3, <3>7, SubSeqFacts
    <3> HIDE DEF L, n
    <3>9. ASSUME NEW j \in 1..n PROVE L[j] = c[j].hash
      <4>1. j \in 1..(n - 1 + 1) /\ 1 + j - 1 = j
        BY <1>1
      <4>2. SubSeq(L, 1, n)[j] = L[j]
        BY <3>8, <4>1
      <4> QED BY <3>4, <3>6, <4>2
    <3>10. Len(L) = n + 1
      BY <1>1, <1>3, <3>5
    <3> QED BY <3>9, <3>10
  <2> QED BY <2>1, <2>2
<1>5. 1..(n + 1) = 1..n \cup {n + 1} /\ n + 1 \notin 1..n
  BY <1>1
<1> HIDE DEF more
<1>6. RowsOf(more) = RowsOf(c) \cup {row}
  BY <1>1, <1>5 DEF RowsOf
<1>7. \A i, j \in 1..(n + 1) : more[i].id = more[j].id => i = j
  <2>1. \A i \in 1..n : c[i].id # row.id
    BY DEF RowsOf
  <2>2. \A i, j \in 1..n : c[i].id = c[j].id => i = j
    BY DEF Linear
  <2> HIDE DEF n
  <2> QED BY <1>1, <1>5, <2>1, <2>2
<1>8. ASSUME NEW i \in 1..(n + 1)
      PROVE  /\ Len(Lineage[more[i].hash]) = i
             /\ \A j \in 1..i : Lineage[more[i].hash][j] = more[j].hash
  <2>1. CASE i \in 1..n
    <3>1. more[i] = c[i] /\ \A j \in 1..i : j \in 1..n /\ more[j] = c[j]
      BY <1>1, <2>1
    <3> QED BY <2>1, <3>1 DEF Linear
  <2>2. CASE i = n + 1
    <3>1. more[i] = row /\ Len(L) = i
      BY <1>1, <1>4, <2>2
    <3>2. \A j \in 1..n : L[j] = more[j].hash
      BY <1>1, <1>4
    <3>3. L[n + 1] = more[n + 1].hash
      BY <1>1, <1>3, <1>4
    <3> HIDE DEF L, n
    <3>4. \A j \in 1..i : L[j] = more[j].hash
      BY <1>5, <2>2, <3>2, <3>3
    <3> QED BY <3>1, <3>4 DEF L
  <2> QED BY <1>5, <2>1, <2>2
<1>9. Linear(more)
  BY <1>1, <1>7, <1>8 DEF Linear
<1> QED BY <1>6, <1>9 DEF more

LEMMA FreshInit == InitRows = {} /\ Init => FreshInv
<1> SUFFICES ASSUME InitRows = {}, Init PROVE FreshInv
  OBVIOUS
<1>1. IInv
  BY InitIInv
<1>2. Linear(blockchain) /\ disk.rows = RowsOf(<<>>) /\ Linear(<<>>)
  BY EmptyIsLinear DEF Init
<1>3. <<>> \in Seq(Row)
  BY EmptySeq
<1> QED BY <1>1, <1>2, <1>3 DEF FreshInv, Init

\* Starting never fails and gives back the committed chain.
LEMMA FreshStart ==
    ASSUME FreshInv, StartEmpty \/ StartLoad \/ StartRefused
    PROVE  FreshInv'
<1>1. PICK c \in Seq(Row) : Linear(c) /\ disk.rows = RowsOf(c)
  BY DEF FreshInv
<1>2. /\ pc = "down" /\ blockchain = <<>> /\ rows = RowsOf(c)
  BY <1>1 DEF FreshInv, StartEmpty, StartLoad, StartRefused
<1>3. IInv'
  BY StartEmptyIInv, StartLoadIInv, NextIInv DEF FreshInv, Next
<1>4. rows = {} <=> c = <<>>
  BY <1>1, <1>2, EmptyIsLinear, Loading
<1>5. CASE StartEmpty
  <2>1. /\ pc' = "idle" /\ rows' = rows /\ disk' = [disk EXCEPT !.head = {}]
        /\ blockchain' = <<>> /\ rows = {}
    BY <1>2, <1>5 DEF StartEmpty, memory
  <2>2. disk'.rows = disk.rows
    BY <2>1 DEF FreshInv, IInv, TypeOK
  <2>3. Linear(blockchain') /\ rows' = RowsOf(blockchain')
    BY <2>1, EmptyIsLinear
  <2> QED BY <1>1, <1>2, <1>3, <2>1, <2>2, <2>3 DEF FreshInv
<1>6. CASE StartLoad
  <2>1. PICK h \in SelectHead(rows, head) :
            blockchain' = AssembleBlockchain(rows, h)
    BY <1>6 DEF StartLoad
  <2>2. /\ pc' = "head" /\ rows' = rows /\ disk' = [disk EXCEPT !.head = {}]
        /\ rows # {}
    BY <1>6 DEF StartLoad
  <2>3. c # <<>>
    BY <1>4, <2>2
  <2>4. blockchain' = c
    BY <1>1, <1>2, <2>1, <2>3, Loading
  <2>5. disk'.rows = disk.rows
    BY <2>2 DEF FreshInv, IInv, TypeOK
  <2> QED BY <1>1, <1>2, <1>3, <2>2, <2>4, <2>5 DEF FreshInv
<1>7. CASE StartRefused
  <2>1. rows # {} /\ SelectHead(rows, head) = {}
    BY <1>7 DEF StartRefused
  <2>2. SelectHead(rows, head) = {Top(c).hash}
    BY <1>1, <1>2, <1>4, <2>1, Loading
  <2> QED BY <2>1, <2>2
<1> QED BY <1>5, <1>6, <1>7

LEMMA FreshDie ==
    ASSUME FreshInv, Die, IInv'
    PROVE  FreshInv'
<1>1. /\ disk' = disk /\ rows' = disk.rows /\ blockchain' = <<>> /\ pc' = "down"
  BY DEF Die
<1>2. Linear(blockchain')
  BY <1>1, EmptyIsLinear
<1> QED BY <1>1, <1>2 DEF FreshInv

\* A reorganization stops at the parent of the new block.
LEMMA ParentIsNeverReverted ==
    ASSUME IInv, pc = "insert", call.reverts # <<>>
    PROVE  SubSeq(blockchain, 1, Len(blockchain) - 1) # <<>>
<1> DEFINE left == SubSeq(blockchain, 1, Len(blockchain) - 1)
<1>1. /\ Pushing /\ blockchain \in Seq(Row) /\ blockchain # <<>>
      /\ call.reverts \in Seq(Row)
  BY RevertIsOfTheHead DEF IInv, TypeOK, Pushing, Call
<1>2. PICK k \in 1..Len(blockchain) : Len(call.reverts) = Len(blockchain) - k
  BY <1>1 DEF Pushing
<1>3. /\ Len(blockchain) \in Nat \ {0} /\ Len(left) = Len(blockchain) - 1
      /\ Len(call.reverts) \in Nat \ {0}
  BY <1>1, FrontFacts
<1>4. Len(blockchain) - 1 # 0
  <2>1. \A n, m \in Nat \ {0} : \A j \in 1..n : m = n - j => n - 1 # 0
    OBVIOUS
  <2> QED BY <1>2, <1>3, <2>1
<1>5. Len(left) # 0
  BY <1>3, <1>4
<1> QED BY <1>5, EmptySeq

\* When nothing is left to revert, the parent of the new block is on top.
LEMMA ParentIsTop ==
    ASSUME IInv, pc = "insert", call.reverts = <<>>, blockchain # <<>>
    PROVE  Parent(call.block) = Top(blockchain).hash
<1>1. Pushing /\ blockchain \in Seq(Row)
  BY DEF IInv, TypeOK
<1>2. PICK k \in 1..Len(blockchain) :
          /\ blockchain[k].hash = Parent(call.block)
          /\ Len(call.reverts) = Len(blockchain) - k
  BY <1>1 DEF Pushing
<1>3. Len(call.reverts) = 0
  BY EmptySeq
<1>4. Len(blockchain) \in Nat
  BY <1>1, ChainFacts
<1>5. k = Len(blockchain)
  BY <1>2, <1>3, <1>4
<1> QED BY <1>2, <1>5 DEF Top

LEMMA FreshRevert ==
    ASSUME FreshInv, RevertBlock
    PROVE  FreshInv'
<1>1. IInv'
  BY RevertBlockIInv DEF FreshInv
<1>2. pc = "insert" /\ call.reverts # <<>>
  BY DEF RevertBlock
<1>3. /\ blockchain # <<>>
      /\ Top(call.reverts) = Top(blockchain)
      /\ RevertSucceeds(Top(call.reverts).hash)
  BY <1>2, RevertIsOfTheHead DEF FreshInv
<1> DEFINE left == SubSeq(blockchain, 1, Len(blockchain) - 1)
<1>4. /\ rows' = DeleteRow(rows, Top(blockchain).id)
      /\ blockchain' = left
      /\ pc' = "insert"
      /\ disk' = disk
      /\ call' = [call EXCEPT !.reverts = SubSeq(@, 1, Len(@) - 1)]
  BY <1>3 DEF RevertBlock
<1>5. Linear(left) /\ DeleteRow(RowsOf(blockchain), Top(blockchain).id) = RowsOf(left)
  BY <1>3, LinearPop DEF FreshInv
<1>6. rows = RowsOf(blockchain)
  BY <1>2 DEF FreshInv
<1>7. left # <<>>
  BY <1>2, ParentIsNeverReverted DEF FreshInv
<1> HIDE DEF left
<1> QED BY <1>1, <1>4, <1>5, <1>6, <1>7 DEF FreshInv

LEMMA FreshInsert ==
    ASSUME FreshInv, InsertBlock
    PROVE  FreshInv'
<1>1. IInv'
  BY InsertBlockIInv DEF FreshInv
<1>2. /\ pc = "insert" /\ call.reverts = <<>>
      /\ rows' = rows \cup {[id |-> FreshId(rows), hash |-> call.block]}
      /\ disk' = [rows |-> rows', head |-> head]
      /\ call' = [call EXCEPT !.id = FreshId(rows)]
      /\ pc' = "add"
      /\ blockchain' = blockchain
  BY DEF InsertBlock, Commit, memory
<1>3. /\ Pushing /\ call \in Call /\ rows \in SUBSET Row /\ IsFiniteSet(rows)
      /\ blockchain \in Seq(Row) /\ Linear(blockchain)
      /\ rows = RowsOf(blockchain)
      /\ blockchain = <<>> => Parent(call.block) = NoBlock
  BY <1>2 DEF FreshInv, IInv, TypeOK, Pushing
<1> DEFINE row == [id |-> FreshId(rows), hash |-> call.block]
<1>4. row \in Row /\ \A r \in rows : r.id # row.id
  <2>1. FreshId(rows) \in Nat /\ \A r \in rows : r.id < FreshId(rows)
    BY <1>3, FreshIdFacts
  <2>2. \A r \in rows : r.id \in Nat
    BY <1>3 DEF Row
  <2>3. \A r \in rows : r.id # FreshId(rows)
    BY <2>1, <2>2
  <2> QED BY <1>3, <2>1, <2>3 DEF Row, Call
<1>5. blockchain # <<>> => Parent(call.block) = Top(blockchain).hash
  BY <1>2, ParentIsTop DEF FreshInv
<1>6. row.hash = call.block
  OBVIOUS
<1>7. NewRow' = row /\ call'.block = call.block
  BY <1>2, <1>3 DEF NewRow, Call
<1>8. rows' = rows \cup {row}
  BY <1>2
<1> HIDE DEF row
<1>9. /\ Linear(Append(blockchain, row))
      /\ RowsOf(Append(blockchain, row)) = rows \cup {row}
  BY <1>3, <1>4, <1>5, <1>6, LinearPush
<1>10. Append(blockchain, row) \in Seq(Row)
  BY <1>9 DEF Linear
<1>11. disk'.rows = rows'
  BY <1>2
<1> QED
  BY <1>1, <1>2, <1>3, <1>7, <1>8, <1>9, <1>10, <1>11 DEF FreshInv

LEMMA FreshAdd ==
    ASSUME FreshInv, AddNewBlock
    PROVE  FreshInv'
<1>1. IInv'
  BY AddNewBlockIInv DEF FreshInv
<1>2. /\ blockchain' = Append(blockchain, NewRow)
      /\ disk' = [disk EXCEPT !.head = {}]
      /\ pc' = "head" /\ rows' = rows
  BY AddIsAppend DEF NewRow, FreshInv
<1>3. disk'.rows = disk.rows
  BY <1>2 DEF FreshInv, IInv, TypeOK
<1>4. pc = "add"
  BY DEF AddNewBlock
<1> QED BY <1>1, <1>2, <1>3, <1>4 DEF FreshInv

LEMMA FreshNext == FreshInv /\ [Next]_chainVars => FreshInv'
<1> SUFFICES ASSUME FreshInv, [Next]_chainVars PROVE FreshInv'
  OBVIOUS
<1>1. IInv'
  BY NextIInv DEF FreshInv
<1>2. CASE StartEmpty \/ StartLoad \/ StartRefused
  BY <1>2, FreshStart
<1>3. ASSUME NEW b \in Blocks, Pushable(b), PushBegin(b) PROVE FreshInv'
  <2>1. /\ UNCHANGED <<blockchain, rows, disk>>
        /\ pc = "idle" /\ pc' = "insert" /\ call'.block = b
    BY <1>3 DEF PushBegin, memory
  <2> QED BY <1>1, <1>3, <2>1 DEF FreshInv, Pushable
<1>4. CASE RevertBlock
  BY <1>4, FreshRevert
<1>5. CASE InsertBlock
  BY <1>5, FreshInsert
<1>6. CASE AddNewBlock
  BY <1>6, FreshAdd
<1>7. CASE InsertHead
  <2>1. /\ UNCHANGED <<blockchain, rows>> /\ pc = "head" /\ pc' = "idle"
        /\ disk' = [disk EXCEPT !.head = head']
    BY <1>7 DEF InsertHead, memory
  <2>2. disk'.rows = disk.rows
    BY <2>1 DEF FreshInv, IInv, TypeOK
  <2> QED BY <1>1, <2>1, <2>2 DEF FreshInv
<1>8. CASE Fail \/ FailInsert
  <2>1. UNCHANGED <<blockchain, disk>> /\ pc' = "failed"
    BY <1>8 DEF Fail, FailInsert, memory
  <2> QED BY <1>1, <2>1 DEF FreshInv
<1>9. CASE Exit \/ Stop \/ Crash
  <2>1. Die
    BY <1>9 DEF Exit, Stop, Crash
  <2> QED BY <1>1, <2>1, FreshDie
<1>10. CASE UNCHANGED chainVars
  BY <1>1, <1>10 DEF chainVars, FreshInv, NewRow
<1> QED
  BY <1>2, <1>3, <1>4, <1>5, <1>6, <1>7, <1>8, <1>9, <1>10 DEF Next

LEMMA FreshSpec == InitRows = {} /\ Spec => []FreshInv
BY FreshInit, FreshNext, PTL DEF Spec

\* An index that starts on an empty database serves, in every state, the whole
\* history of its last block: heights are right through every reorganization.
THEOREM OneLineage == InitRows = {} /\ Spec => []ServesOneLineage
<1>1. FreshInv => ServesOneLineage
  <2> SUFFICES ASSUME FreshInv, blockchain # <<>>
               PROVE  [i \in DOMAIN blockchain |-> blockchain[i].hash]
                          = Lineage[Top(blockchain).hash]
    BY DEF ServesOneLineage
  <2> DEFINE n == Len(blockchain)
             L == Lineage[blockchain[n].hash]
  <2>1. blockchain \in Seq(Row) /\ Linear(blockchain)
    BY DEF FreshInv, Linear
  <2>2. /\ n \in 1..n /\ Top(blockchain) = blockchain[n]
        /\ blockchain[n].hash \in Blocks /\ DOMAIN blockchain = 1..n
    BY <2>1, TopFacts, LenProperties
  <2>3. Len(L) = n /\ \A j \in 1..n : L[j] = blockchain[j].hash
    BY <2>1, <2>2 DEF Linear
  <2>4. L \in Seq(Blocks)
    BY <2>2, LineageFacts
  <2>5. L = [j \in 1..n |-> L[j]]
    BY <2>3, <2>4, LenProperties
  <2> HIDE DEF L, n
  <2>6. [i \in 1..n |-> blockchain[i].hash] = L
    BY <2>3, <2>5
  <2> QED BY <2>2, <2>6 DEF L
<1> QED BY <1>1, FreshSpec, PTL

\* Its tables, between two calls, make the next start load the very chain it
\* serves, whatever head was saved and whatever crashed before.
THEOREM RestartRestores == InitRows = {} /\ Spec => []RestartRestoresChain
<1>1. FreshInv => RestartRestoresChain
  <2> SUFFICES ASSUME FreshInv, pc = "idle"
               PROVE  Recovered(disk) = {blockchain}
    BY DEF RestartRestoresChain
  <2>1. Linear(blockchain) /\ disk.rows = RowsOf(blockchain)
    BY DEF FreshInv
  <2>2. CASE blockchain = <<>>
    BY <2>1, <2>2, EmptyIsLinear DEF Recovered
  <2>3. CASE blockchain # <<>>
    <3>1. /\ disk.rows # {}
          /\ SelectHead(disk.rows, disk.head) = {Top(blockchain).hash}
          /\ AssembleBlockchain(disk.rows, Top(blockchain).hash) = blockchain
      BY <2>1, <2>3, Loading
    <3> QED BY <3>1 DEF Recovered
  <2> QED BY <2>2, <2>3
<1> QED BY <1>1, FreshSpec, PTL

\* Between two calls its block table holds the served chain and nothing else.
THEOREM NoOrphans == InitRows = {} /\ Spec => []NoOrphanRows
<1>1. FreshInv => NoOrphanRows
  <2> SUFFICES ASSUME FreshInv, pc = "idle"
               PROVE  rows \ InitRows \subseteq
                          {blockchain[i] : i \in DOMAIN blockchain}
    BY DEF NoOrphanRows
  <2>1. rows = RowsOf(blockchain) /\ blockchain \in Seq(Row)
    BY DEF FreshInv, Linear
  <2>2. DOMAIN blockchain = 1..Len(blockchain)
    BY <2>1, LenProperties
  <2> QED BY <2>1, <2>2 DEF RowsOf
<1> QED BY <1>1, FreshSpec, PTL

\* No crash leaves it tables the constructor refuses to start from.
THEOREM AlwaysStarts == InitRows = {} /\ Spec => []StartupNeverRefused
<1>1. FreshInv => StartupNeverRefused
  BY DEF FreshInv, StartupNeverRefused
<1> QED BY <1>1, FreshSpec, PTL

(***************************************************************************)
(* Part 3: on an empty database, the implementation of ChainIndex.         *)
(***************************************************************************)

\* While the transaction is open, the chain in memory is a lower part of the
\* chain on disk, which does not hold the new block.
DiskInv ==
    pc = "insert" =>
        \E c \in Seq(Row) :
            /\ Linear(c)
            /\ disk.rows = RowsOf(c)
            /\ Len(blockchain) <= Len(c)
            /\ \A i \in 1..Len(blockchain) : blockchain[i] = c[i]
            /\ \A i \in 1..Len(c) : c[i].hash # call.block
            /\ blockchain = <<>> => c = <<>>

LEMMA DiskNext == FreshInv /\ DiskInv /\ [Next]_chainVars => DiskInv'
<1> SUFFICES ASSUME FreshInv, DiskInv, [Next]_chainVars, pc' = "insert"
             PROVE  DiskInv'
  BY DEF DiskInv
<1>1. CASE \E b \in Blocks : Pushable(b) /\ PushBegin(b)
  <2>1. PICK b \in Blocks : Pushable(b) /\ PushBegin(b)
    BY <1>1
  <2>2. /\ UNCHANGED <<blockchain, disk>> /\ call'.block = b
        /\ pc = "idle" /\ b \notin DOMAIN block_map
    BY <2>1 DEF PushBegin, Pushable, memory
  <2>3. /\ Linear(blockchain) /\ disk.rows = RowsOf(blockchain)
        /\ blockchain \in Seq(Row) /\ Inverts(block_map, blockchain)
    BY <2>2 DEF FreshInv, IInv, TypeOK
  <2>4. \A i \in 1..Len(blockchain) : blockchain[i].hash # b
    BY <2>2, <2>3 DEF Inverts
  <2>5. Len(blockchain) <= Len(blockchain)
    BY <2>3, ChainFacts
  <2> QED BY <2>2, <2>3, <2>4, <2>5 DEF DiskInv
<1>2. CASE RevertBlock
  <2> DEFINE left == SubSeq(blockchain, 1, Len(blockchain) - 1)
  <2>1. pc = "insert" /\ call.reverts # <<>> /\ IInv
    BY <1>2 DEF RevertBlock, FreshInv
  <2>2. /\ blockchain # <<>> /\ blockchain \in Seq(Row) /\ call \in Call
        /\ RevertSucceeds(Top(call.reverts).hash)
    BY <2>1, RevertIsOfTheHead DEF IInv, TypeOK, Pushing
  <2>3. /\ blockchain' = left /\ disk' = disk
        /\ call' = [call EXCEPT !.reverts = SubSeq(@, 1, Len(@) - 1)]
    BY <1>2, <2>2 DEF RevertBlock
  <2>4. call'.block = call.block
    BY <2>2, <2>3 DEF Call
  <2>5. left # <<>>
    BY <2>1, ParentIsNeverReverted
  <2>6. /\ Len(blockchain) \in Nat /\ Len(left) = Len(blockchain) - 1
        /\ \A i \in 1..(Len(blockchain) - 1) : left[i] = blockchain[i]
    BY <2>2, FrontFacts
  <2> HIDE DEF left
  <2>7. PICK c \in Seq(Row) :
            /\ Linear(c)
            /\ disk.rows = RowsOf(c)
            /\ Len(blockchain) <= Len(c)
            /\ \A i \in 1..Len(blockchain) : blockchain[i] = c[i]
            /\ \A i \in 1..Len(c) : c[i].hash # call.block
    BY <2>1 DEF DiskInv
  <2>8. Len(c) \in Nat
    BY ChainFacts
  <2>9. Len(left) <= Len(c)
    BY <2>6, <2>7, <2>8
  <2>10. ASSUME NEW i \in 1..Len(left) PROVE left[i] = c[i]
    <3>1. i \in 1..(Len(blockchain) - 1) /\ i \in 1..Len(blockchain)
      BY <2>6
    <3> QED BY <2>6, <2>7, <3>1
  <2> QED BY <2>3, <2>4, <2>5, <2>7, <2>9, <2>10 DEF DiskInv
<1>3. CASE UNCHANGED chainVars
  BY <1>3 DEF chainVars, DiskInv
<1>4. CASE \/ StartEmpty \/ StartLoad \/ StartRefused \/ InsertBlock
           \/ AddNewBlock \/ InsertHead \/ Fail \/ FailInsert
           \/ Exit \/ Stop \/ Crash
  BY <1>4 DEF StartEmpty, StartLoad, StartRefused, InsertBlock, AddNewBlock,
              InsertHead, Fail, FailInsert, Exit, Stop, Crash, Die
<1> QED BY <1>1, <1>2, <1>3, <1>4 DEF Next

\* The durable tip of a table that holds one linear chain.
LEMMA TipFacts ==
    ASSUME NEW c, Linear(c), NEW d, d.rows = RowsOf(c)
    PROVE  TipOf(d) = IF c = <<>> THEN NoBlock ELSE Top(c).hash
<1>1. CASE c = <<>>
  <2>1. d.rows = {}
    BY <1>1, EmptyIsLinear
  <2>2. Heads({}) = {} /\ Hashes({}) = {}
    BY DEF Heads, Hashes
  <2>3. Cardinality({}) # 1
    BY FS_EmptySet
  <2>4. SelectHead(d.rows, d.head) = {}
    BY <2>1, <2>2, <2>3 DEF SelectHead
  <2> QED BY <1>1, <2>4 DEF TipOf
<1>2. CASE c # <<>>
  <2>1. SelectHead(d.rows, d.head) = {Top(c).hash}
    BY <1>2, Loading
  <2> QED BY <1>2, <2>1 DEF TipOf
<1> QED BY <1>1, <1>2

\* The history of a tip is its chain.
LEMMA HistoryFacts ==
    ASSUME NEW c, Linear(c)
    PROVE  Durable!History(IF c = <<>> THEN NoBlock ELSE Top(c).hash)
               = {c[i].hash : i \in 1..Len(c)}
<1>1. CASE c = <<>>
  <2>1. 1..Len(c) = {}
    BY <1>1, EmptySeq
  <2> QED BY <1>1, <2>1 DEF Durable!History
<1>2. CASE c # <<>>
  <2> DEFINE n == Len(c)
             L == Lineage[c[n].hash]
  <2>1. /\ c \in Seq(Row) /\ n \in 1..n /\ Top(c) = c[n]
        /\ c[n].hash \in Blocks
    BY <1>2, TopFacts DEF Linear
  <2>2. Len(L) = n /\ \A j \in 1..n : L[j] = c[j].hash
    BY <2>1 DEF Linear
  <2>3. DOMAIN L = 1..n
    BY <2>1, <2>2, LineageFacts, LenProperties
  <2>4. c[n].hash # NoBlock
    BY <2>1, LineageAssumption DEF LineageAssumption
  <2>5. Durable!History(c[n].hash) = {L[i] : i \in 1..n}
    BY <2>3, <2>4 DEF Durable!History
  <2> HIDE DEF L, n
  <2>6. {L[i] : i \in 1..n} = {c[i].hash : i \in 1..n}
    BY <2>2
  <2> QED BY <1>2, <2>1, <2>5, <2>6 DEF n
<1> QED BY <1>1, <1>2

\* The commit of a push is the step Accept of the abstract index.
LEMMA CommitAccepts ==
    ASSUME FreshInv, DiskInv, FreshInv', InsertBlock
    PROVE  Durable!Accept(call.block)
<1> DEFINE b == call.block
           L == Lineage[b]
<1>1. /\ pc = "insert" /\ call.reverts = <<>> /\ pc' = "add"
      /\ call' = [call EXCEPT !.id = FreshId(rows)]
      /\ UNCHANGED blockchain
  BY DEF InsertBlock, memory
<1>2. PICK c \in Seq(Row) :
          /\ Linear(c)
          /\ disk.rows = RowsOf(c)
          /\ Len(blockchain) <= Len(c)
          /\ \A i \in 1..Len(blockchain) : blockchain[i] = c[i]
          /\ \A i \in 1..Len(c) : c[i].hash # b
          /\ blockchain = <<>> => c = <<>>
  BY <1>1 DEF DiskInv
<1>3. /\ IInv /\ call \in Call /\ blockchain \in Seq(Row) /\ b \in Blocks
      /\ blockchain = <<>> => Parent(b) = NoBlock
  BY <1>1 DEF FreshInv, IInv, TypeOK, Pushing, Call
<1>4. TipOf(disk) = IF c = <<>> THEN NoBlock ELSE Top(c).hash
  BY <1>2, TipFacts
<1>5. Durable!History(TipOf(disk)) = {c[i].hash : i \in 1..Len(c)}
  BY <1>2, <1>4, HistoryFacts
<1>6. b \notin Durable!History(TipOf(disk))
  BY <1>2, <1>5
<1>7. TipOf(disk') = b
  <2> DEFINE more == Append(blockchain, NewRow')
  <2>1. Linear(more) /\ disk'.rows = RowsOf(more)
    BY <1>1 DEF FreshInv
  <2>2. NewRow' \in Row /\ NewRow'.hash = b
    <3>1. call' \in Call /\ call'.block = b
      BY <1>1, <1>3, FreshIdFacts DEF Call, IInv, TypeOK
    <3> QED BY <3>1 DEF NewRow, Row, Call
  <2>3. more # <<>> /\ Len(more) = Len(blockchain) + 1
        /\ more[Len(blockchain) + 1] = NewRow'
    BY <1>3, <2>2, AppendProperties
  <2> HIDE DEF more
  <2>4. TipOf(disk') = Top(more).hash
    BY <2>1, <2>3, TipFacts
  <2> QED BY <2>2, <2>3, <2>4 DEF Top
<1>8. /\ NoBlock \notin Blocks
      /\ Len(L) \in Nat \ {0}
      /\ \A i \in 1..Len(L) : L[i] \in Blocks
  BY <1>3, LineageFacts, LineageAssumption DEF LineageAssumption
<1>9. Parent(b) = IF Len(L) = 1 THEN NoBlock ELSE L[Len(L) - 1]
  BY DEF Parent
<1>10. \A k \in Nat \ {0} : k # 1 => k - 1 \in 1..k /\ k > 1
  OBVIOUS
<1>11. CASE blockchain = <<>>
  <2>1. TipOf(disk) = NoBlock
    BY <1>2, <1>4, <1>11
  <2>2. Len(L) = 1
    <3> HIDE DEF L, b
    <3> QED BY <1>3, <1>8, <1>9, <1>10, <1>11
  <2> QED BY <1>6, <1>7, <2>1, <2>2 DEF Durable!Accept
<1>12. CASE blockchain # <<>>
  <2> DEFINE n == Len(blockchain)
  <2>1. /\ n \in Nat /\ n \in 1..n /\ Top(blockchain) = blockchain[n]
        /\ blockchain[n].hash \in Blocks
    BY <1>3, <1>12, TopFacts
  <2>2. Len(c) \in Nat /\ n \in 1..Len(c)
    BY <1>2, <2>1, ChainFacts
  <2>3. Parent(b) = c[n].hash /\ Parent(b) \in Blocks
    BY <1>1, <1>2, <1>3, <1>12, <2>1, ParentIsTop
  <2>4. Len(L) # 1 /\ L[Len(L) - 1] = c[n].hash
    BY <1>8, <1>9, <2>3
  <2>5. Len(L) > 1
    BY <1>8, <1>10, <2>4
  <2>6. L[Len(L) - 1] \in Durable!History(TipOf(disk))
    BY <1>5, <2>2, <2>4
  <2>7. TipOf(disk) # NoBlock
    <3>1. c # <<>>
      BY <2>2, EmptySeq
    <3>2. Top(c).hash \in Blocks
      BY <3>1, TopFacts
    <3> QED BY <1>4, <1>8, <3>1, <3>2
  <2> QED BY <1>6, <1>7, <2>5, <2>6, <2>7 DEF Durable!Accept
<1> QED BY <1>11, <1>12

LEMMA DurableNext ==
    FreshInv /\ DiskInv /\ FreshInv' /\ [Next]_chainVars
        => [Durable!Next]_(TipOf(disk))
<1> SUFFICES ASSUME FreshInv, DiskInv, FreshInv', [Next]_chainVars
             PROVE  [Durable!Next]_(TipOf(disk))
  OBVIOUS
<1>1. PICK c \in Seq(Row) : Linear(c) /\ disk.rows = RowsOf(c)
  BY DEF FreshInv
<1>2. ASSUME disk'.rows = disk.rows PROVE TipOf(disk') = TipOf(disk)
  BY <1>1, <1>2, TipFacts
<1>3. CASE InsertBlock
  <2>1. call.block \in Blocks
    BY <1>3 DEF InsertBlock, FreshInv, IInv, Pushing, Call
  <2> QED BY <1>3, <2>1, CommitAccepts DEF Durable!Next
<1>4. CASE StartEmpty \/ StartLoad \/ AddNewBlock \/ InsertHead
  <2>1. disk' = [disk EXCEPT !.head = disk'.head]
    BY <1>4, AddIsAppend DEF StartEmpty, StartLoad, InsertHead, FreshInv, IInv,
                             TypeOK
  <2>2. disk'.rows = disk.rows
    BY <2>1 DEF FreshInv, IInv, TypeOK
  <2> QED BY <1>2, <2>2
<1>5. CASE \/ StartRefused \/ RevertBlock \/ Fail \/ FailInsert
           \/ Exit \/ Stop \/ Crash \/ UNCHANGED chainVars
           \/ \E b \in Blocks : Pushable(b) /\ PushBegin(b)
  <2>1. disk' = disk
    BY <1>5 DEF StartRefused, RevertBlock, Fail, FailInsert, Exit, Stop, Crash,
                Die, PushBegin, chainVars
  <2> QED BY <1>2, <2>1
<1> QED BY <1>3, <1>4, <1>5 DEF Next

\* On an empty database, the committed tables implement ChainIndex: no order of
\* pushes, reorganizations, failures and crashes changes them but by one block
\* attached to the chain they held.
THEOREM ImplementsChainIndex == InitRows = {} /\ Spec => DurableChain
<1>1. InitRows = {} /\ Init => Durable!Init
  <2> SUFFICES ASSUME InitRows = {}, Init PROVE Durable!Init
    OBVIOUS
  <2>1. Linear(<<>>) /\ disk.rows = RowsOf(<<>>)
    BY EmptyIsLinear DEF Init
  <2>2. TipOf(disk) = NoBlock
    BY <2>1, TipFacts
  <2> QED BY <2>2 DEF Durable!Init
<1>2. Init => DiskInv
  BY DEF Init, DiskInv
<1> QED
  BY <1>1, <1>2, FreshSpec, DiskNext, DurableNext, PTL
     DEF Spec, DurableChain, Durable!Spec

=============================================================================
