------------------------- MODULE MCBlockchainParser -------------------------
(***************************************************************************)
(* Instance of BlockchainParser.  Blocks a1 to a3 follow g; b2 is a stale  *)
(* block above a1.  The block files hold the chain alone in one file, or   *)
(* all five blocks out of order in two.                                    *)
(***************************************************************************)
EXTENDS BlockchainParser

MCBlocks == {"g", "a1", "a2", "a3", "b2"}
MCLineage ==
    [g |-> <<"g">>, a1 |-> <<"g", "a1">>,
     a2 |-> <<"g", "a1", "a2">>, a3 |-> <<"g", "a1", "a2", "a3">>,
     b2 |-> <<"g", "a1", "b2">>]

MCFileSets ==
    { << <<"g", "a1", "a2", "a3">> >>,
      << <<"g", "a3", "a1">>, <<"b2", "a2">> >> }

=============================================================================
