---------------------------- MODULE MCBlockchain ----------------------------
(***************************************************************************)
(* Small instances of Blockchain: a block tree with forks at two heights,  *)
(*                                                                         *)
(*      g -- a1 -- a2 -- a3 -- a4                                          *)
(*       \     \-- b2 -- b3 -- b4                                          *)
(*        \-- c1 -- c2 -- c3                                               *)
(*                                                                         *)
(* and a database the way blockchain_parser leaves it: a first row per     *)
(* block found in the block files, the stale b2 included, and a second row *)
(* per block of the chain a2.                                              *)
(***************************************************************************)
EXTENDS Blockchain

CONSTANTS g, a1, a2, a3, a4, b2, b3, b4, c1, c2, c3

MCBlocks == {g, a1, a2, a3, a4, b2, b3, b4, c1, c2, c3}

MCLineage ==
    [b \in MCBlocks |->
        CASE b = g  -> <<g>>
          [] b = a1 -> <<g, a1>>
          [] b = a2 -> <<g, a1, a2>>
          [] b = a3 -> <<g, a1, a2, a3>>
          [] b = a4 -> <<g, a1, a2, a3, a4>>
          [] b = b2 -> <<g, a1, b2>>
          [] b = b3 -> <<g, a1, b2, b3>>
          [] b = b4 -> <<g, a1, b2, b3, b4>>
          [] b = c1 -> <<g, c1>>
          [] b = c2 -> <<g, c1, c2>>
          [] b = c3 -> <<g, c1, c2, c3>>]

NoRows == {}

ParserRows ==
    LET found  == <<g, a1, b2, a2>>
        second == <<g, a1, a2>>
    IN  {[id |-> i, hash |-> found[i]] : i \in 1..4}
            \cup {[id |-> i + 4, hash |-> second[i]] : i \in 1..3}

ParserHead == {a2}

=============================================================================
