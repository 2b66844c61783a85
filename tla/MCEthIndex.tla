----------------------------- MODULE MCEthIndex -----------------------------
(***************************************************************************)
(* Instance of EthIndex.  Two branches fork above "t2", and "c2" is a      *)
(* sibling of "t2":                                                        *)
(*     g - t1 - t2 - a3 - a4                                               *)
(*          |     \- b3 - b4 - b5                                          *)
(*           \- c2                                                         *)
(* By their weights the node may go from "b3" to its sibling "a3", from    *)
(* "b4" to the lower "a3", and from "a4" to "c2", two blocks lower.        *)
(* Block a3 brings a miner and a token receiver no block named before, so  *)
(* that a receipt missing in it loses an address; "a4" and "b5" bring      *)
(* addresses after it.  "t1" and "b4" hold two transactions, "g" none, and *)
(* "t2" none of the token: Ethereum reads the block after a token's block. *)
(***************************************************************************)
EXTENDS EthIndex

MCHashes == {"g", "t1", "t2", "c2", "a3", "a4", "b3", "b4", "b5"}
MCLineage ==
    [g |-> <<"g">>, t1 |-> <<"g", "t1">>, t2 |-> <<"g", "t1", "t2">>,
     c2 |-> <<"g", "t1", "c2">>,
     a3 |-> <<"g", "t1", "t2", "a3">>, a4 |-> <<"g", "t1", "t2", "a3", "a4">>,
     b3 |-> <<"g", "t1", "t2", "b3">>, b4 |-> <<"g", "t1", "t2", "b3", "b4">>,
     b5 |-> <<"g", "t1", "t2", "b3", "b4", "b5">>]

MCWeight ==
    [g |-> 1, t1 |-> 2, t2 |-> 3, b3 |-> 4, b4 |-> 5, a3 |-> 6, a4 |-> 7,
     c2 |-> 8, b5 |-> 9]

MCAddresses == {"token", "m1", "m2", "u1", "u2", "u3", "u4"}
MCMiner ==
    [h \in MCHashes |-> IF h = "a3" THEN "m2" ELSE "m1"]

Pay(from, to) == [from |-> from, to |-> to, args |-> <<>>, ok |-> TRUE, fn |-> "none"]
Call(from, fn, args, ok) ==
    [from |-> from, to |-> "token", args |-> args, ok |-> ok, fn |-> fn]

MCTxs ==
    [g |-> <<>>,
     t1 |-> <<Call("u1", "transfer", <<"u2">>, TRUE), Pay("u1", "u2")>>,
     t2 |-> <<Pay("u2", "u1")>>,
     c2 |-> <<Pay("u1", "u2")>>,
     a3 |-> <<Call("u1", "transfer", <<"u3">>, TRUE)>>,
     a4 |-> <<Pay("u3", "u4")>>,
     b3 |-> <<Call("u2", "transfer", <<"u1">>, FALSE)>>,
     b4 |-> <<Pay("u3", "u1"), Call("u3", "transferFrom", <<"u1", "u2">>, TRUE)>>,
     b5 |-> <<Call("u4", "approve", <<"u1">>, TRUE)>>]

=============================================================================
