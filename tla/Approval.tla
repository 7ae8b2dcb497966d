------------------------------ MODULE Approval ------------------------------
(***************************************************************************)
(* What a PIN approval promises, and no more: each one authorises at most  *)
(* one use, for good.  StepUp.tla implements it.                           *)
(***************************************************************************)
CONSTANTS
  Grants,  \* approvals
  Uses,    \* actions that may spend one
  NoUse    \* the use of an approval that was not spent

VARIABLE usedBy

Init == usedBy = [g \in Grants |-> NoUse]

Use(g, u) ==
  /\ usedBy[g] = NoUse
  /\ usedBy' = [usedBy EXCEPT ![g] = u]

Next == \E g \in Grants, u \in Uses : Use(g, u)

Spec == Init /\ [][Next]_usedBy
=============================================================================
