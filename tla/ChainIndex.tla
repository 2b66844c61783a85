----------------------------- MODULE ChainIndex -----------------------------
(***************************************************************************)
(* What the index promises to whoever restarts it: the durable state is    *)
(* one block, standing for its whole history, and it changes only by one   *)
(* new block at a time, attached to a block of that history.  Nothing else *)
(* happens to it: no crash loses a committed block or tears a              *)
(* reorganization in two.                                                  *)
(***************************************************************************)
EXTENDS Naturals, Sequences

CONSTANTS Blocks, NoBlock, Lineage

VARIABLE tip   \* the last block of the durable chain, or NoBlock

\* The blocks of the history of b.
History(b) ==
    IF b = NoBlock THEN {} ELSE {Lineage[b][i] : i \in DOMAIN Lineage[b]}

\* Block b replaces everything above its parent.
Accept(b) ==
    /\ b \notin History(tip)
    /\ IF tip = NoBlock
       THEN Len(Lineage[b]) = 1
       ELSE /\ Len(Lineage[b]) > 1
            /\ Lineage[b][Len(Lineage[b]) - 1] \in History(tip)
    /\ tip' = b

Init == tip = NoBlock

Next == \E b \in Blocks : Accept(b)

Spec == Init /\ [][Next]_tip

=============================================================================
