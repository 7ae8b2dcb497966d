------------------------------- MODULE MCGateway -------------------------------
(* Batches of two bids: of different amounts, or alike.                        *)
EXTENDS Gateway

CONSTANT a1

TwoBids == {<<1, 2>>, <<1, 1>>}
=============================================================================
