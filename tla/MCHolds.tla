------------------------------ MODULE MCHolds ------------------------------
(* Two bids on one account with three shillings, and three requests in flight: *)
(* enough for two overlapping adjusts and a place that spends between them.    *)
EXTENDS Holds, TLC

CONSTANTS r1, r2, acct, c1, c2, c3

MCAccountOf == [r \in {r1, r2} |-> acct]
MCLedger == [a \in {acct} |-> 3]
Symmetric == Permutations({c1, c2, c3}) \cup Permutations({r1, r2})
=============================================================================
