--------------------------- MODULE MCUpdateThread ---------------------------
(***************************************************************************)
(* A small instance of UpdateThread, on the tree                           *)
(*                                                                         *)
(*      g -- a1 -- a2 -- a3                                                *)
(*       \     \-- b2 -- b3                                                *)
(*        \-- c1 -- c2                                                     *)
(***************************************************************************)
EXTENDS UpdateThread

CONSTANTS g, a1, a2, a3, b2, b3, c1, c2

MCBlocks == {g, a1, a2, a3, b2, b3, c1, c2}

MCLineage ==
    [b \in MCBlocks |->
        CASE b = g  -> <<g>>
          [] b = a1 -> <<g, a1>>
          [] b = a2 -> <<g, a1, a2>>
          [] b = a3 -> <<g, a1, a2, a3>>
          [] b = b2 -> <<g, a1, b2>>
          [] b = b3 -> <<g, a1, b2, b3>>
          [] b = c1 -> <<g, c1>>
          [] b = c2 -> <<g, c1, c2>>]

NoRows == {}

\* The database blockchain_parser leaves for the chain a1 and a stale c1.
Found  == <<g, c1, a1>>
Second == <<g, a1>>

ParserRows ==
    {[id |-> i, hash |-> Found[i]] : i \in DOMAIN Found}
        \cup {[id |-> i + 3, hash |-> Second[i]] : i \in DOMAIN Second}

ParserHead == {a1}

\* Every block of the same difficulty.
EqualWork == [b \in MCBlocks |-> Len(MCLineage[b])]

\* The blocks of the c branch are the hardest: c2 outweighs a3 and b3, which
\* are higher, and b2 outweighs a2, which is as high.
UnequalWork ==
    [b \in MCBlocks |->
        CASE b = g  -> 1
          [] b = a1 -> 2
          [] b = a2 -> 3
          [] b = b2 -> 4
          [] b = a3 -> 5
          [] b = b3 -> 6
          [] b = c1 -> 4
          [] b = c2 -> 7]

=============================================================================
