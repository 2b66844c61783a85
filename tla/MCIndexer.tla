----------------------------- MODULE MCIndexer -----------------------------
(***************************************************************************)
(* A small instance of Indexer.  The tree                                  *)
(*                                                                         *)
(*      g -- a1 -- a2 -- a3                                                *)
(*             \-- b2 -- b3                                                *)
(*                                                                         *)
(* has a spend inside a block (t3 spends t2 in a2), a transaction that is  *)
(* in both branches (t2), one output spent by different transactions in    *)
(* the two (t1's second output, by t4 and t5), and an output with two      *)
(* addresses (t3's).                                                       *)
(***************************************************************************)
EXTENDS Indexer

CONSTANTS g, a1, a2, a3, b2, b3,                        \* blocks
          cg, ca1, ca2, ca3, cb2, cb3, t1, t2, t3, t4, t5, \* transactions
          A, B                                          \* addresses

MCBlocks == {g, a1, a2, a3, b2, b3}

MCLineage ==
    [b \in MCBlocks |->
        CASE b = g  -> <<g>>
          [] b = a1 -> <<g, a1>>
          [] b = a2 -> <<g, a1, a2>>
          [] b = a3 -> <<g, a1, a2, a3>>
          [] b = b2 -> <<g, a1, b2>>
          [] b = b3 -> <<g, a1, b2, b3>>]

MCBlockTxs ==
    [b \in MCBlocks |->
        CASE b = g  -> <<cg>>
          [] b = a1 -> <<ca1, t1>>
          [] b = a2 -> <<ca2, t2, t3>>
          [] b = a3 -> <<ca3, t4>>
          [] b = b2 -> <<cb2, t5>>
          [] b = b3 -> <<cb3, t2>>]

Coinbases == {cg, ca1, ca2, ca3, cb2, cb3}
MCTxs == Coinbases \cup {t1, t2, t3, t4, t5}

MCInputs ==
    [t \in MCTxs |->
        CASE t \in Coinbases -> <<NullInput>>
          [] t = t1 -> <<[tx |-> cg, n |-> 1]>>
          [] t = t2 -> <<[tx |-> t1, n |-> 1]>>
          [] t = t3 -> <<[tx |-> t2, n |-> 1]>>
          [] t = t4 -> <<[tx |-> t1, n |-> 2], [tx |-> ca2, n |-> 1]>>
          [] t = t5 -> <<[tx |-> t1, n |-> 2]>>]

MCOutputs ==
    [t \in MCTxs |->
        CASE t \in {cg, ca2} -> <<[addrs |-> {A}, value |-> 9]>>
          [] t \in {ca1, ca3, cb2, cb3} -> <<[addrs |-> {B}, value |-> 9]>>
          [] t = t1 -> <<[addrs |-> {A}, value |-> 4], [addrs |-> {B}, value |-> 3]>>
          [] t = t2 -> <<[addrs |-> {B}, value |-> 3]>>
          [] t = t3 -> <<[addrs |-> {A, B}, value |-> 1]>>
          [] t = t4 -> <<[addrs |-> {A}, value |-> 7]>>
          [] t = t5 -> <<[addrs |-> {}, value |-> 2]>>]

MCSize == [t \in MCTxs |-> IF t = t4 THEN 2 ELSE 1]

NoRows == {}

\* The database blockchain_parser leaves for the chain a2 when the block files
\* also held the stale b2: a first row per block, whose first_transaction_id
\* is NULL (read as 0), then the blocks of the chain again with their
\* transactions.  The parser writes no fees.
Found  == <<g, a1, b2, a2>>
Second == <<g, a1, a2>>

ParserRows ==
    {[id |-> i, hash |-> Found[i]] : i \in DOMAIN Found}
        \cup {[id |-> i + 4, hash |-> Second[i]] : i \in DOMAIN Second}

ParserHead == {a2}

ParserTables ==
    LET found == [NoTables EXCEPT !.spans =
                     [i \in DOMAIN Found |->
                         [first |-> 0, count |-> Len(BlockTxs[Found[i]])]]]
    IN  InsertTxs(InsertTxs(InsertTxs(found, 5, g, 1, 1), 6, a1, 2, 2),
                  7, a2, 4, 3)

\* The database the parser leaves when the block files hold the chain a3 and
\* no other block: both passes wrote a row per block, and the table has one head.
LinearChain == <<g, a1, a2, a3>>

LinearRows ==
    {[id |-> i, hash |-> LinearChain[i]] : i \in 1..4}
        \cup {[id |-> i + 4, hash |-> LinearChain[i]] : i \in 1..4}

LinearHead == {a3}

LinearTables ==
    LET found == [NoTables EXCEPT !.spans =
                     [i \in 1..4 |->
                         [first |-> 0, count |-> Len(BlockTxs[LinearChain[i]])]]]
    IN  InsertTxs(InsertTxs(InsertTxs(InsertTxs(found,
            5, g, 1, 1), 6, a1, 2, 2), 7, a2, 4, 3), 8, a3, 7, 2)

=============================================================================
