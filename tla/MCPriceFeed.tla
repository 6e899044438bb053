---------------------------- MODULE MCPriceFeed ----------------------------
(***************************************************************************)
(* An instance of PriceFeed for TLC: the limits keep their order, and a    *)
(* request is shorter than the time to live.                               *)
(***************************************************************************)
EXTENDS PriceFeed

MCOffsets == {-2, 0, 2}

=============================================================================
