------------------------------- MODULE MCBids -------------------------------
(* One investor with two shillings and three requests: two places racing, or  *)
(* a place followed by two changes of its bid.  Each request may carry any of *)
(* the approvals: to place a bid up to one shilling, to amend it up to two.   *)
EXTENDS Bids, TLC

CONSTANTS q1, q2, q3, investor, bank, p1, p2, a1, a2, k

MCInvestorOf == [r \in {q1, q2, q3} |-> investor]
MCBankOf == [i \in {investor} |-> bank]
MCLedger == [a \in {bank} |-> 2]
MCScopeOf == (p1 :> "place") @@ (p2 :> "place") @@ (a1 :> "amend") @@ (a2 :> "amend")
MCCeiling == (p1 :> 1) @@ (p2 :> 1) @@ (a1 :> 2) @@ (a2 :> 2)
\* Approvals of one scope are of one amount, hence interchangeable.
Symmetric ==
  Permutations({q1, q2, q3}) \cup Permutations({p1, p2}) \cup Permutations({a1, a2})
=============================================================================
