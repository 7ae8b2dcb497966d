----------------------------- MODULE MCOnboarding -----------------------------
(* A customer's way to bidding: the two numbers and the screens that register one, or  *)
(* the application of one investor.  The two share no state, so that a behaviour is    *)
(* about one of them and the other waits.  Juma is a customer whose name differs, the  *)
(* newcomer somebody whom all checks clear (after the fixtures of                      *)
(* stub-core-banking.ts).                                                              *)
EXTENDS Onboarding, Enrol, TLC

CONSTANTS t1, t2, s1, s2, n1, n2, juma, newcomer, ph1, ph2

Symmetric == Permutations(Tasks) \cup Permutations(Staff) \cup Permutations(Numbers)

VARIABLE part  \* which of the two the behaviour is about

MCInit ==
  /\ part \in {"enrol", "onboarding"}
  /\ Init /\ EnrolInit
  /\ acct[ph2].is = "missing"
  /\ part = "onboarding" => acct[ph1].is = "missing"

MCNext ==
  \/ part = "enrol" /\ EnrolNext /\ UNCHANGED <<part, vars>>
  \/ part = "onboarding" /\ Next /\ UNCHANGED <<part, enrolVars>>

MCSpec == MCInit /\ [][MCNext]_<<part, vars, enrolVars>>
=============================================================================
