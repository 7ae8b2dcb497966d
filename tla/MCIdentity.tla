------------------------------ MODULE MCIdentity ------------------------------
(* A customer and a staff user, two secrets each, two attempts before the     *)
(* lockout; three requests, so that two may race and a third change what      *)
(* they read.  The requests are about one account at a time: accounts share   *)
(* nothing but the table they are in.                                         *)
EXTENDS Identity, TLC

CONSTANTS cust, staff, s1, s2, s3, q1, q2, q3, p1, p2, officer, supervisor

Symmetric == Permutations({q1, q2, q3}) \cup Permutations({p1, p2})
               \cup Permutations({officer, supervisor})

OneAccount == \A q, r \in Reqs : req[q] = Waiting \/ req[r] = Waiting \/ req[q].a = req[r].a
=============================================================================
