----------------------------- MODULE MCBatches -----------------------------
(* Two bids, two batch references, two members of staff and three of their   *)
(* requests: prepare, approve and a resend, or two of any.                   *)
EXTENDS Batches, TLC

CONSTANTS b1, b2, n1, n2, s1, s2, t1, t2, t3

Symmetric ==
  Permutations({b1, b2}) \cup Permutations({n1, n2})
    \cup Permutations({s1, s2}) \cup Permutations({t1, t2, t3})
=============================================================================
