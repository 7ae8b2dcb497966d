----------------------------- MODULE MCResults -----------------------------
(* Two bids of the same terms, so that either may be either of BoT's two requests; *)
(* a reconciliation that finds one of them and one that finds both.  BoT accepts   *)
(* and then allots the first request, and turns the second down.                   *)
EXTENDS Results, TLC, SequencesExt, FiniteSets

CONSTANTS b1, b2, q1, q2, h1, h2

MCLike == [q \in {q1, q2} |-> {b1, b2}]

Verdict(q, outcome, keeps, at) == [request |-> q, outcome |-> outcome, keeps |-> keeps, at |-> at]

MCCallbacks == {Verdict(q1, "accepted", 0, 1), Verdict(q1, "allotted", 1, 2)}

\* An allotment above what the bid held: a non-competitive bid allotted above par.
MCDearCallbacks == {Verdict(q1, "accepted", 0, 1), Verdict(q1, "allotted", 3, 2)}

Found(bids, rejected) == [bids |-> bids, rejected |-> rejected, matched |-> FALSE]

\* The second request is found only when it was turned down already.
MCReconciliations == {Found({q1}, {}), Found({q1, q2}, {q2})}

\* The second request is found first, and turned down between the two runs.
MCLateRejection == {Found({q2}, {}), Found({q1, q2}, {q2})}

Orders == {s \in [1..Cardinality(Messages) -> Messages] : IsInjective(s)}

\* The run that found all, and the one or the other that found one, in any order with the
\* callbacks.
MCEither == MCReconciliations \cup MCLateRejection

EitherOrders ==
  {s \in [1..Cardinality(Messages) - 1 -> Messages] :
     /\ IsInjective(s)
     /\ \E q \in {q1, q2} : Messages \ Range(s) = {Found({q}, {})}}

\* Where two handlers run, either may take its message long after the other: these are
\* the orders of queueing in which the callbacks are in the order BoT sent them.
CallbacksInOrder ==
  {s \in Orders : \A i, j \in DOMAIN s :
     s[i] \in Callbacks /\ s[j] \in Callbacks /\ s[i].at < s[j].at => i < j}

Symmetric == Permutations({b1, b2}) \cup Permutations({h1, h2})
=============================================================================
