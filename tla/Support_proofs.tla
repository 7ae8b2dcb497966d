----------------------------- MODULE Support_proofs -----------------------------
(* Proofs about the parts that stand by themselves: the approvals of identity      *)
(* (their inductive invariant, single use, and that they implement the abstract   *)
(* promise of Approval), the check character of the references, the settings of   *)
(* a service, the receipt of BoT's callbacks, the link to the bank, the messages, *)
(* the terms on the wire, and the checks of an applicant.                         *)
EXTENDS StepUp, References, Settings, Callbacks, BankLink, Messages, Wire, Verify,
        FiniteSetTheorems, WellFoundedInduction, TLAPS

----------------------------------------------------------------------------
(* The approvals.                                                           *)

\* Initially nothing is issued and nothing was asked.
LEMMA StepUpInitInv == StepUpInit => StepUpInv
BY DEF StepUpInit, StepUpInv, StepUpTypeOK, SingleUse, RedeemedBy, Unused, NotIssued,
       GrantRow, RedemptionRow

\* Issuing a grant keeps the invariant: no redemption refers to a grant that was
\* not issued once it is past its check.
LEMMA IssueInv ==
  ASSUME NEW g \in Grants, NEW a \in Principals, NEW s \in Scopes,
         NEW max \in Amounts \cup {NoLimit}, StepUpInv, Issue(g, a, s, max)
  PROVE  StepUpInv'
<1>1. StepUpTypeOK'
  BY DEF StepUpInv, StepUpTypeOK, Issue, GrantRow
<1>2. SingleUse'
  BY DEF StepUpInv, SingleUse, RedeemedBy, Issue
<1>3. QED
  BY <1>1, <1>2 DEF StepUpInv, StepUpTypeOK, Issue, NotIssued, Covers, RedemptionRow, Unused

\* A grant's terms outlive its expiry.
LEMMA ExpireInv ==
  ASSUME NEW g \in Grants, StepUpInv, Expire(g)
  PROVE  StepUpInv'
<1>1. grant[g] \in GrantRow
  BY DEF StepUpInv, StepUpTypeOK, Expire
<1>2. grant'[g] \in GrantRow /\ grant'[g] # NotIssued
  BY <1>1 DEF StepUpInv, StepUpTypeOK, Expire, GrantRow, NotIssued
<1>3. StepUpTypeOK'
  BY <1>2 DEF StepUpInv, StepUpTypeOK, Expire
<1>4. SingleUse'
  BY DEF StepUpInv, SingleUse, RedeemedBy, Expire
<1>5. \A req : Covers(grant[g], req) => Covers(grant'[g], req)
  BY <1>1 DEF StepUpInv, StepUpTypeOK, Expire, GrantRow, Covers
<1>6. grant'[g].consumed = grant[g].consumed
  BY <1>1 DEF StepUpInv, StepUpTypeOK, Expire, GrantRow
<1>7. QED
  BY <1>2, <1>3, <1>4, <1>5, <1>6 DEF StepUpInv, StepUpTypeOK, Expire, RedemptionRow, Unused

\* A request that has only arrived claims nothing yet.
LEMMA ReceiveInv ==
  ASSUME NEW k \in Redemptions, NEW g \in Grants, NEW a \in Principals, NEW s \in Scopes,
         NEW amount \in Amounts \cup {NoLimit}, StepUpInv, Receive(k, g, a, s, amount)
  PROVE  StepUpInv'
<1>1. StepUpTypeOK'
  BY DEF StepUpInv, StepUpTypeOK, Receive, RedemptionRow
<1>2. SingleUse'
  BY DEF StepUpInv, StepUpTypeOK, SingleUse, RedeemedBy, Receive
<1>3. QED
  BY <1>1, <1>2 DEF StepUpInv, StepUpTypeOK, Receive, Unused, RedemptionRow

\* What moving a handler to another step leaves as it was.
LEMMA ToStepFacts ==
  ASSUME StepUpTypeOK, NEW k \in Redemptions, redemption[k] # Unused,
         NEW step \in {"checked", "redeemed", "refused"}, ToStep(k, step)
  PROVE  /\ redemption' \in [Redemptions -> RedemptionRow \cup {Unused}]
         /\ redemption'[k] # Unused
         /\ redemption'[k].step = step
         /\ redemption'[k].grant = redemption[k].grant
         /\ redemption[k].grant \in Grants
         /\ \A terms : Covers(terms, redemption[k]) => Covers(terms, redemption'[k])
         /\ \A j \in Redemptions \ {k} : redemption'[j] = redemption[j]
<1>1. redemption[k] \in RedemptionRow
  BY DEF StepUpTypeOK
<1>2. redemption'[k] \in RedemptionRow /\ redemption'[k].step = step
  BY <1>1 DEF ToStep, RedemptionRow, StepUpTypeOK
<1>3. redemption'[k] # Unused
  BY <1>2 DEF RedemptionRow, Unused
<1>4. /\ redemption'[k].grant = redemption[k].grant
      /\ redemption'[k].owner = redemption[k].owner
      /\ redemption'[k].scope = redemption[k].scope
      /\ redemption'[k].amount = redemption[k].amount
  BY <1>1 DEF ToStep, RedemptionRow, StepUpTypeOK
<1>5. \A j \in Redemptions \ {k} : redemption'[j] = redemption[j]
  BY DEF ToStep, StepUpTypeOK
<1>6. redemption' \in [Redemptions -> RedemptionRow \cup {Unused}]
  BY <1>2, <1>5 DEF ToStep, StepUpTypeOK
<1>7. QED
  BY <1>1, <1>2, <1>3, <1>4, <1>5, <1>6 DEF Covers, RedemptionRow

\* The check only lets through a redemption its grant covers.
LEMMA CheckInv ==
  ASSUME NEW k \in Redemptions, StepUpInv, Check(k)
  PROVE  StepUpInv'
<1>1. redemption[k] # Unused /\ redemption[k].step = "received" /\ StepUpTypeOK /\ UNCHANGED grant
  BY DEF Check, StepUpInv
<1>2. PICK step \in {"checked", "refused"} :
        /\ ToStep(k, step)
        /\ step = "checked" => Redeemable(grant[redemption[k].grant], redemption[k])
  BY DEF Check
<1>3. /\ redemption' \in [Redemptions -> RedemptionRow \cup {Unused}]
      /\ redemption'[k] # Unused
      /\ redemption'[k].step = step
      /\ redemption'[k].grant = redemption[k].grant
      /\ \A terms : Covers(terms, redemption[k]) => Covers(terms, redemption'[k])
      /\ \A j \in Redemptions \ {k} : redemption'[j] = redemption[j]
  BY <1>1, <1>2, ToStepFacts
<1>4. StepUpTypeOK'
  BY <1>1, <1>3 DEF StepUpTypeOK
<1>5. SingleUse'
  BY <1>2, <1>3 DEF StepUpInv, SingleUse, RedeemedBy
<1>6. ASSUME NEW j \in Redemptions, redemption'[j] # Unused
      PROVE  /\ redemption'[j].step \in {"checked", "redeemed"} =>
                  /\ grant'[redemption'[j].grant] # NotIssued
                  /\ Covers(grant'[redemption'[j].grant], redemption'[j])
             /\ redemption'[j].step = "redeemed" => grant'[redemption'[j].grant].consumed
  <2>1. CASE j = k
    BY <1>1, <1>2, <1>3, <2>1 DEF Redeemable
  <2>2. CASE j # k
    BY <1>1, <1>3, <1>6, <2>2 DEF StepUpInv
  <2>3. QED
    BY <2>1, <2>2
<1>7. QED
  BY <1>4, <1>5, <1>6 DEF StepUpInv

\* The conditional update lets at most one redemption of a grant through.
LEMMA ClaimInv ==
  ASSUME NEW k \in Redemptions, StepUpInv, Claim(k)
  PROVE  StepUpInv'
<1> DEFINE g == redemption[k].grant
<1>1. redemption[k] # Unused /\ redemption[k].step = "checked" /\ StepUpTypeOK
  BY DEF Claim, StepUpInv
<1>2. grant[g] # NotIssued /\ Covers(grant[g], redemption[k])
  BY <1>1 DEF StepUpInv
<1>3. CASE grant[g].consumed
  <2>1. ToStep(k, "refused") /\ UNCHANGED grant
    BY <1>3 DEF Claim
  <2>2. /\ redemption' \in [Redemptions -> RedemptionRow \cup {Unused}]
        /\ redemption'[k].step = "refused"
        /\ \A j \in Redemptions \ {k} : redemption'[j] = redemption[j]
    BY <1>1, <2>1, ToStepFacts
  <2>3. StepUpTypeOK'
    BY <1>1, <2>1, <2>2 DEF StepUpTypeOK
  <2>4. SingleUse'
    BY <2>2 DEF StepUpInv, SingleUse, RedeemedBy
  <2>5. QED
    BY <2>1, <2>2, <2>3, <2>4 DEF StepUpInv
<1>4. CASE ~grant[g].consumed
  <2>1. ToStep(k, "redeemed") /\ grant' = [grant EXCEPT ![g].consumed = TRUE]
    BY <1>4 DEF Claim
  <2>2. /\ redemption' \in [Redemptions -> RedemptionRow \cup {Unused}]
        /\ redemption'[k] # Unused
        /\ redemption'[k].step = "redeemed"
        /\ redemption'[k].grant = g
        /\ g \in Grants
        /\ \A terms : Covers(terms, redemption[k]) => Covers(terms, redemption'[k])
        /\ \A j \in Redemptions \ {k} : redemption'[j] = redemption[j]
    BY <1>1, <2>1, ToStepFacts
  <2>3. grant[g] \in GrantRow
    BY <1>1, <1>2, <2>2 DEF StepUpTypeOK
  <2>4. grant'[g] \in GrantRow /\ grant'[g] # NotIssued /\ grant'[g].consumed
    BY <1>1, <2>1, <2>2, <2>3 DEF StepUpTypeOK, GrantRow, NotIssued
  <2>5. \A req : Covers(grant[g], req) => Covers(grant'[g], req)
    BY <1>1, <2>1, <2>2, <2>3 DEF StepUpTypeOK, GrantRow, Covers
  <2>6. \A h \in Grants \ {g} : grant'[h] = grant[h]
    BY <1>1, <2>1 DEF StepUpTypeOK
  <2>7. StepUpTypeOK'
    BY <1>1, <2>1, <2>2, <2>4, <2>6 DEF StepUpTypeOK
  <2>8. \A j \in Redemptions : ~RedeemedBy(j, g)
    BY <1>4 DEF StepUpInv, RedeemedBy
  <2>9. SingleUse'
    BY <2>2, <2>8 DEF StepUpInv, SingleUse, RedeemedBy
  <2>10. ASSUME NEW j \in Redemptions, redemption'[j] # Unused
         PROVE  /\ redemption'[j].step \in {"checked", "redeemed"} =>
                     /\ grant'[redemption'[j].grant] # NotIssued
                     /\ Covers(grant'[redemption'[j].grant], redemption'[j])
                /\ redemption'[j].step = "redeemed" => grant'[redemption'[j].grant].consumed
    <3>1. CASE j = k
      BY <1>2, <2>2, <2>4, <2>5, <3>1
    <3>2. CASE j # k
      <4>1. redemption'[j] = redemption[j] /\ redemption[j].grant \in Grants
        BY <1>1, <2>2, <2>10, <3>2 DEF StepUpTypeOK, RedemptionRow, Unused
      <4>2. CASE redemption[j].grant = g
        BY <2>4, <2>5, <2>10, <4>1, <4>2 DEF StepUpInv
      <4>3. CASE redemption[j].grant # g
        BY <2>6, <2>10, <4>1, <4>3 DEF StepUpInv
      <4>4. QED
        BY <4>2, <4>3
    <3>3. QED
      BY <3>1, <3>2
  <2>11. QED
    BY <2>7, <2>9, <2>10 DEF StepUpInv
<1>5. QED
  BY <1>3, <1>4

\* Every step keeps the inductive invariant.
LEMMA StepUpNextInv == StepUpInv /\ [StepUpNext]_vars => StepUpInv'
<1> SUFFICES ASSUME StepUpInv, [StepUpNext]_vars PROVE StepUpInv'
  OBVIOUS
<1>1. CASE StepUpNext
  BY <1>1, IssueInv, ExpireInv, ReceiveInv, CheckInv, ClaimInv DEF StepUpNext
<1>2. CASE UNCHANGED vars
  BY <1>2 DEF vars, StepUpInv, StepUpTypeOK, SingleUse, RedeemedBy, Covers
<1>3. QED
  BY <1>1, <1>2

\* The inductive invariant, and with it type correctness, holds of every behaviour.
THEOREM StepUpInvariance == StepUpSpec => []StepUpInv
BY StepUpInitInv, StepUpNextInv, PTL DEF StepUpSpec

\* Whatever the number of grants and of services racing to redeem them, no grant
\* is redeemed twice: the conditional update of redeem is a single-use guarantee.
THEOREM SingleUseHolds == StepUpSpec => []SingleUse
<1>1. StepUpInv => SingleUse
  BY DEF StepUpInv
<1>2. QED
  BY <1>1, StepUpInvariance, PTL

\* A redeemed grant was issued to the redeeming account, for its scope and amount.
THEOREM RedeemedAsApprovedHolds == StepUpSpec => []RedeemedAsApproved
<1>1. StepUpInv => RedeemedAsApproved
  BY DEF StepUpInv, RedeemedAsApproved, RedeemedBy
<1>2. QED
  BY <1>1, StepUpInvariance, PTL

----------------------------------------------------------------------------

\* A step that redeems nothing new leaves every approval used as it was.
LEMMA SameUses ==
  ASSUME \A k \in Redemptions, g \in Grants : RedeemedBy(k, g)' <=> RedeemedBy(k, g)
  PROVE  UsedBy' = UsedBy
<1>1. ASSUME NEW g \in Grants
      PROVE  UsedBy'[g] = UsedBy[g]
  <2>1. (\E k \in Redemptions : RedeemedBy(k, g)') <=> (\E k \in Redemptions : RedeemedBy(k, g))
    OBVIOUS
  <2>2. (CHOOSE k \in Redemptions : RedeemedBy(k, g)') = (CHOOSE k \in Redemptions : RedeemedBy(k, g))
    OBVIOUS
  <2>3. QED
    BY <2>1, <2>2 DEF UsedBy
<1>2. QED
  BY <1>1 DEF UsedBy

\* A claim either spends an approval that was unspent, or changes nothing.
LEMMA ClaimUses ==
  ASSUME StepUpInv, NEW k \in Redemptions, Claim(k)
  PROVE  Promise!Next \/ UsedBy' = UsedBy
<1> DEFINE g == redemption[k].grant
<1>1. redemption[k] # Unused /\ redemption[k].step = "checked" /\ StepUpTypeOK
  BY DEF Claim, StepUpInv
<1>2. CASE grant[g].consumed
  <2>1. ToStep(k, "refused")
    BY <1>2 DEF Claim
  <2>2. /\ redemption'[k].step = "refused"
        /\ \A j \in Redemptions \ {k} : redemption'[j] = redemption[j]
    BY <1>1, <2>1, ToStepFacts
  <2>3. \A j \in Redemptions, h \in Grants : RedeemedBy(j, h)' <=> RedeemedBy(j, h)
    BY <1>1, <2>2 DEF RedeemedBy
  <2>4. QED
    BY <2>3, SameUses
<1>3. CASE ~grant[g].consumed
  <2>1. ToStep(k, "redeemed")
    BY <1>3 DEF Claim
  <2>2. /\ redemption'[k] # Unused
        /\ redemption'[k].step = "redeemed"
        /\ redemption'[k].grant = g
        /\ g \in Grants
        /\ \A j \in Redemptions \ {k} : redemption'[j] = redemption[j]
    BY <1>1, <2>1, ToStepFacts
  <2>3. \A j \in Redemptions : ~RedeemedBy(j, g)
    BY <1>3 DEF StepUpInv, RedeemedBy
  <2>4. \A j \in Redemptions : RedeemedBy(j, g)' <=> j = k
    BY <2>2, <2>3 DEF RedeemedBy
  <2>5. \A j \in Redemptions, h \in Grants \ {g} : RedeemedBy(j, h)' <=> RedeemedBy(j, h)
    BY <1>1, <2>2 DEF RedeemedBy
  <2>6. UsedBy[g] = NoLimit
    BY <2>2, <2>3 DEF UsedBy
  <2>7. (CHOOSE j \in Redemptions : RedeemedBy(j, g)') = k
    BY <2>4
  <2>8. UsedBy'[g] = k
    BY <2>2, <2>4, <2>7 DEF UsedBy
  <2>9. ASSUME NEW h \in Grants \ {g}
        PROVE  UsedBy'[h] = UsedBy[h]
    <3>1. (\E j \in Redemptions : RedeemedBy(j, h)') <=> (\E j \in Redemptions : RedeemedBy(j, h))
      BY <2>5
    <3>2. (CHOOSE j \in Redemptions : RedeemedBy(j, h)') = (CHOOSE j \in Redemptions : RedeemedBy(j, h))
      BY <2>5
    <3>3. QED
      BY <3>1, <3>2 DEF UsedBy
  <2>10. UsedBy' = [UsedBy EXCEPT ![g] = k]
    BY <2>2, <2>8, <2>9 DEF UsedBy
  <2>11. QED
    BY <2>2, <2>6, <2>10 DEF Promise!Next, Promise!Use
<1>4. QED
  BY <1>2, <1>3

\* Every step of identity is a use of an approval, or invisible to its user.
LEMMA StepImplementsApproval ==
  ASSUME StepUpInv, [StepUpNext]_vars
  PROVE  [Promise!Next]_UsedBy
<1>1. ASSUME NEW g \in Grants, NEW a \in Principals, NEW s \in Scopes,
             NEW max \in Amounts \cup {NoLimit}, Issue(g, a, s, max)
      PROVE  UsedBy' = UsedBy
  <2>1. \A k \in Redemptions, h \in Grants : RedeemedBy(k, h)' <=> RedeemedBy(k, h)
    BY <1>1 DEF Issue, RedeemedBy
  <2>2. QED
    BY <2>1, SameUses
<1>2. ASSUME NEW g \in Grants, Expire(g)
      PROVE  UsedBy' = UsedBy
  <2>1. \A k \in Redemptions, h \in Grants : RedeemedBy(k, h)' <=> RedeemedBy(k, h)
    BY <1>2 DEF Expire, RedeemedBy
  <2>2. QED
    BY <2>1, SameUses
<1>3. ASSUME NEW k \in Redemptions, NEW g \in Grants, NEW a \in Principals, NEW s \in Scopes,
             NEW amount \in Amounts \cup {NoLimit}, Receive(k, g, a, s, amount)
      PROVE  UsedBy' = UsedBy
  <2>1. \A j \in Redemptions, h \in Grants : RedeemedBy(j, h)' <=> RedeemedBy(j, h)
    BY <1>3 DEF StepUpInv, StepUpTypeOK, Receive, RedeemedBy, Unused
  <2>2. QED
    BY <2>1, SameUses
<1>4. ASSUME NEW k \in Redemptions, Check(k)
      PROVE  UsedBy' = UsedBy
  <2>1. redemption[k] # Unused /\ redemption[k].step = "received" /\ StepUpTypeOK
    BY <1>4 DEF Check, StepUpInv
  <2>2. PICK step \in {"checked", "refused"} : ToStep(k, step)
    BY <1>4 DEF Check
  <2>3. /\ redemption'[k].step = step
        /\ \A j \in Redemptions \ {k} : redemption'[j] = redemption[j]
    BY <2>1, <2>2, ToStepFacts
  <2>4. \A j \in Redemptions, h \in Grants : RedeemedBy(j, h)' <=> RedeemedBy(j, h)
    BY <2>1, <2>3 DEF RedeemedBy
  <2>5. QED
    BY <2>4, SameUses
<1>5. CASE UNCHANGED vars
  <2>1. \A k \in Redemptions, h \in Grants : RedeemedBy(k, h)' <=> RedeemedBy(k, h)
    BY <1>5 DEF vars, RedeemedBy
  <2>2. QED
    BY <2>1, SameUses
<1>6. CASE StepUpNext
  BY <1>1, <1>2, <1>3, <1>4, <1>6, ClaimUses DEF StepUpNext
<1>7. QED
  BY <1>5, <1>6

\* identity's grants implement the promise of an approval: at most one use each,
\* for good, for any number of grants and redemptions.
THEOREM StepUpImplementsApproval == StepUpSpec => ImplementsApproval
<1>1. StepUpInit => Promise!Init
  BY DEF StepUpInit, Promise!Init, UsedBy, RedeemedBy, Unused
<1>2. StepUpInv /\ [StepUpNext]_vars => [Promise!Next]_UsedBy
  BY StepImplementsApproval
<1>3. QED
  BY <1>1, <1>2, StepUpInvariance, PTL DEF StepUpSpec, ImplementsApproval, Promise!Spec

----------------------------------------------------------------------------
(* The references.                                                          *)

\* The values of characters; those above 31 are only ever written.
Value == 0..31

\* What was issued checks.
Issued == meant \in [Places -> Value] /\ meant[8] = CheckCharacter(meant)

\* What was written differs from what was issued by the slip alone.
Slipped ==
  \/ slip = NoSlip /\ typed = meant
  \/ \E i \in Body :
       /\ slip = [kind |-> "swap", at |-> i]
       /\ typed = [meant EXCEPT ![i] = meant[i + 1], ![i + 1] = meant[i]]
  \/ \E i \in Places, c \in Written :
       /\ slip = [kind |-> "character", at |-> i]
       /\ typed = [meant EXCEPT ![i] = c]

\* What was found tells of what was written.
Telling ==
  /\ found = "another" => IsValid(typed) /\ Normalised(typed) # meant
  /\ found = "refused" => ~IsValid(typed)
  /\ found = "nothing" => IF way = "as written" THEN typed # meant ELSE Normalised(typed) # meant

ReferencesInv ==
  /\ Issued /\ Slipped /\ typed \in [Places -> 0..35]
  /\ Telling

\* The check character of numbers is a character.
LEMMA CheckIsValue ==
  ASSUME NEW f, \A i \in Body : f[i] \in Value
  PROVE  Weighted(f) \in Int /\ CheckCharacter(f) \in Value
<1>1. /\ f[1] \in Int /\ f[2] \in Int /\ f[3] \in Int /\ f[4] \in Int
      /\ f[5] \in Int /\ f[6] \in Int /\ f[7] \in Int
  BY DEF Body, Value
<1>2. Weighted(f) \in Int
  BY <1>1 DEF Weighted
<1>3. QED
  BY <1>2 DEF CheckCharacter, Value

\* A factor that is odd tells two characters apart modulo 32.
LEMMA OddCounts ==
  ASSUME NEW n \in Int, NEW x \in Value, NEW y \in Value
  PROVE  /\ (n + x) % 32 = (n + y) % 32 => x = y
         /\ (n + 3 * x) % 32 = (n + 3 * y) % 32 => x = y
         /\ (n + 5 * x) % 32 = (n + 5 * y) % 32 => x = y
         /\ (n + 7 * x) % 32 = (n + 7 * y) % 32 => x = y
<1>1. (n + x) % 32 = (n + y) % 32 => x = y
  BY DEF Value
<1>2. (n + 3 * x) % 32 = (n + 3 * y) % 32 => x = y
  BY DEF Value
<1>3. (n + 5 * x) % 32 = (n + 5 * y) % 32 => x = y
  BY DEF Value
<1>4. (n + 7 * x) % 32 = (n + 7 * y) % 32 => x = y
  BY DEF Value
<1>5. QED
  BY <1>1, <1>2, <1>3, <1>4

\* One that is even tells them apart as far as they weigh different modulo 32.
LEMMA EvenCounts ==
  ASSUME NEW n \in Int, NEW x \in Value, NEW y \in Value
  PROVE  /\ (n + 2 * x) % 32 = (n + 2 * y) % 32 <=> (y - x) % 16 = 0
         /\ (n + 4 * x) % 32 = (n + 4 * y) % 32 <=> (y - x) % 8 = 0
         /\ (n + 6 * x) % 32 = (n + 6 * y) % 32 <=> (y - x) % 16 = 0
         /\ (n + 8 * x) % 32 = (n + 8 * y) % 32 <=> (y - x) % 4 = 0
<1>1. (n + 2 * x) % 32 = (n + 2 * y) % 32 <=> (y - x) % 16 = 0
  BY DEF Value
<1>2. (n + 4 * x) % 32 = (n + 4 * y) % 32 <=> (y - x) % 8 = 0
  BY DEF Value
<1>3. (n + 6 * x) % 32 = (n + 6 * y) % 32 <=> (y - x) % 16 = 0
  BY DEF Value
<1>4. (n + 8 * x) % 32 = (n + 8 * y) % 32 <=> (y - x) % 4 = 0
  BY DEF Value
<1>5. QED
  BY <1>1, <1>2, <1>3, <1>4

\* Two characters each of which is what eight times the other leaves are the same.
LEMMA NineTell ==
  ASSUME NEW n \in Int, NEW x \in Value, NEW y \in Value,
         y = (n + 8 * x) % 32, x = (n + 8 * y) % 32
  PROVE  x = y
<1>1. PICK a \in Int : n + 8 * x = 32 * a + y
  BY DEF Value
<1>2. PICK b \in Int : n + 8 * y = 32 * b + x
  BY DEF Value
<1>3. 9 * (x - y) = 32 * (a - b)
  BY <1>1, <1>2 DEF Value
<1>4. x - y \in -31..31
  BY DEF Value
<1>5. QED
  BY <1>3, <1>4 DEF Value

\* Characters that only look different are read alike, and all others as themselves.
LEMMA NormalFacts ==
  ASSUME NEW c \in 0..35
  PROVE  Normal(c) \in Value /\ (c \in Value => Normal(c) = c)
BY DEF Normal, Value

\* A normalised reference holds values, and keeps the values it had.
LEMMA NormalisedFacts ==
  ASSUME NEW p \in [Places -> 0..35]
  PROVE  /\ Normalised(p) \in [Places -> Value]
         /\ \A i \in Places : p[i] \in Value => Normalised(p)[i] = p[i]
BY NormalFacts DEF Normalised

\* What was issued passes the check.
LEMMA IssuedChecks == ReferencesInit => ReferencesInv
<1> SUFFICES ASSUME ReferencesInit
             PROVE  ReferencesInv
  OBVIOUS
<1>1. PICK b \in [Body -> Drawn] :
        meant = [i \in Places |-> IF i \in Body THEN b[i] ELSE CheckCharacter(b)]
  BY DEF ReferencesInit
<1>2. \A i \in Body : b[i] \in Value /\ meant[i] = b[i]
  <2>1. Body \subseteq Places /\ Drawn \subseteq Value
    BY ReferencesAssumption DEF Body, Places, Value
  <2>2. QED
    BY <1>1, <2>1
<1>3. meant[8] = CheckCharacter(b)
  BY <1>1 DEF Body, Places
<1>4. /\ meant[1] = b[1] /\ meant[2] = b[2] /\ meant[3] = b[3] /\ meant[4] = b[4]
      /\ meant[5] = b[5] /\ meant[6] = b[6] /\ meant[7] = b[7]
  BY <1>2 DEF Body
<1>5. CheckCharacter(meant) = CheckCharacter(b)
  BY <1>4 DEF CheckCharacter, Weighted
<1>6. CheckCharacter(b) \in Value
  BY <1>2, CheckIsValue
<1>7. meant \in [Places -> Value]
  BY <1>1, <1>2, <1>6 DEF Body, Places
<1>8. meant \in [Places -> 0..35]
  BY <1>7 DEF Value
<1>9. QED
  BY <1>3, <1>5, <1>7, <1>8 DEF ReferencesInit, ReferencesInv, Issued, Slipped, Telling

\* A query finds another row only for a reference that checks and is not the one meant, and
\* each of the three ways passes on what its query finds.
LEMMA FoundIsTold ==
  ASSUME Issued, typed \in [Places -> 0..35], LookUp \/ Search \/ Find
  PROVE  Telling'
<1>1. typed' = typed /\ meant' = meant
  BY DEF LookUp, Search, Find
<1>2. \/ found' = "meant"
      \/ found' = "another" /\ IsValid(typed) /\ Normalised(typed) # meant
      \/ found' = "refused" /\ ~IsValid(typed)
      \/ found' = "nothing" /\ way' = "as written" /\ typed # meant
      \/ found' = "nothing" /\ way' # "as written" /\ Normalised(typed) # meant
  <2>1. /\ Normalised(typed) \in [Places -> Value]
        /\ \A i \in Places : typed[i] \in Value => Normalised(typed)[i] = typed[i]
    BY NormalisedFacts
  <2>2. typed \in [Places -> Value] => Normalised(typed) = typed
    BY <2>1
  <2>3. meant \in [Places -> Value] /\ meant[8] = CheckCharacter(meant)
    BY DEF Issued
  <2>4. (typed = meant \/ Issuable(typed)) => (IsValid(typed) /\ Normalised(typed) = typed)
    <3>1. typed = meant \/ Issuable(typed) =>
            typed \in [Places -> Value] /\ typed[8] = CheckCharacter(typed)
      BY <2>3 DEF Issuable, Value
    <3>2. QED
      BY <2>2, <3>1 DEF IsValid
  <2>5. Normalised(typed) = meant => IsValid(typed)
    BY <2>3 DEF IsValid
  <2>6. \A q : \A r \in Rows(q) :
          \/ r = "meant"
          \/ r = "another" /\ q # meant /\ Issuable(q)
          \/ r = "nothing" /\ q # meant
    BY DEF Rows
  <2>7. CASE LookUp
    <3>1. /\ way' = "checked"
          /\ \/ IsValid(typed) /\ found' \in Rows(Normalised(typed))
             \/ ~IsValid(typed) /\ found' = "refused"
      BY <2>7 DEF LookUp
    <3>2. QED
      BY <2>6, <3>1
  <2>8. CASE Search
    <3>1. /\ way' = "search"
          /\ \/ IsValid(typed) /\ found' \in Rows(Normalised(typed))
             \/ ~IsValid(typed) /\ found' \in Rows(typed)
      BY <2>8 DEF Search
    <3>2. CASE IsValid(typed) /\ found' \in Rows(Normalised(typed))
      BY <2>6, <3>1, <3>2
    <3>3. CASE ~IsValid(typed) /\ found' \in Rows(typed)
      BY <2>4, <2>5, <2>6, <3>1, <3>3
    <3>4. QED
      BY <3>1, <3>2, <3>3
  <2>9. CASE Find
    <3>1. way' = "as written" /\ found' \in Rows(typed)
      BY <2>9 DEF Find
    <3>2. CASE found' = "another" /\ typed # meant /\ Issuable(typed)
      <4>1. IsValid(typed) /\ Normalised(typed) = typed
        BY <2>4, <3>2
      <4>2. Normalised(typed) # meant
        BY <3>2, <4>1
      <4>3. QED
        BY <3>2, <4>1, <4>2
    <3>3. CASE found' = "meant" \/ (found' = "nothing" /\ typed # meant)
      BY <3>1, <3>3
    <3>4. QED
      BY <2>6, <3>1, <3>2, <3>3
  <2>10. QED
    BY <2>7, <2>8, <2>9
<1>3. (IsValid(typed)' <=> IsValid(typed)) /\ (Normalised(typed) # meant)' = (Normalised(typed) # meant)
  BY <1>1 DEF IsValid, Normalised
<1>4. QED
  BY <1>1, <1>2, <1>3 DEF Telling

\* A slip is of one kind, and what was found tells of it.
LEMMA ReferencesNextInv == ReferencesInv /\ [ReferencesNext]_referenceVars => ReferencesInv'
<1> SUFFICES ASSUME ReferencesInv, [ReferencesNext]_referenceVars
             PROVE  ReferencesInv'
  OBVIOUS
<1>1. ASSUME NEW i \in Body, Swap(i) PROVE ReferencesInv'
  <2>1. /\ meant' = meant /\ found' = "none" /\ slip = NoSlip /\ i \in Places /\ i + 1 \in Places
        /\ slip' = [kind |-> "swap", at |-> i]
    BY <1>1 DEF Swap, Body, Places
  <2>2. typed = meant
    BY <2>1 DEF ReferencesInv, Slipped, NoSlip
  <2>3. typed' = [meant EXCEPT ![i] = meant[i + 1], ![i + 1] = meant[i]]
    BY <1>1, <2>2 DEF Swap
  <2>4. typed' \in [Places -> 0..35]
    BY <2>1, <2>2, <2>3 DEF ReferencesInv
  <2>5. Issued' /\ Slipped'
    BY <2>1, <2>3 DEF ReferencesInv, Issued, Slipped
  <2>6. QED
    BY <2>1, <2>4, <2>5 DEF ReferencesInv, Telling
<1>2. ASSUME NEW i \in Places, NEW c \in Written, Mistype(i, c) PROVE ReferencesInv'
  <2>1. /\ meant' = meant /\ found' = "none" /\ slip = NoSlip
        /\ slip' = [kind |-> "character", at |-> i]
    BY <1>2 DEF Mistype
  <2>2. typed = meant
    BY <2>1 DEF ReferencesInv, Slipped, NoSlip
  <2>3. typed' = [meant EXCEPT ![i] = c]
    BY <1>2, <2>2 DEF Mistype
  <2>4. typed' \in [Places -> 0..35]
    BY <2>2, <2>3, ReferencesAssumption DEF ReferencesInv
  <2>5. Issued' /\ Slipped'
    BY <2>1, <2>3 DEF ReferencesInv, Issued, Slipped
  <2>6. QED
    BY <2>1, <2>4, <2>5 DEF ReferencesInv, Telling
<1>3. ASSUME LookUp \/ Search \/ Find, UNCHANGED <<meant, slip, typed>> PROVE ReferencesInv'
  <2>1. Telling'
    BY <1>3, FoundIsTold DEF ReferencesInv
  <2>2. QED
    BY <1>3, <2>1 DEF ReferencesInv, Issued, Slipped
<1>4. CASE UNCHANGED referenceVars
  <2>1. /\ Issued' /\ Slipped' /\ (IsValid(typed)' <=> IsValid(typed))
        /\ typed' = typed /\ way' = way /\ found' = found /\ meant' = meant
    BY <1>4 DEF referenceVars, ReferencesInv, Issued, Slipped
  <2>2. Telling'
    BY <1>4 DEF referenceVars, ReferencesInv, Telling, IsValid, Normalised
  <2>3. QED
    BY <2>1, <2>2 DEF ReferencesInv
<1>5. (LookUp \/ Search \/ Find) => UNCHANGED <<meant, slip, typed>>
  BY DEF LookUp, Search, Find
<1>6. QED
  BY <1>1, <1>2, <1>3, <1>4, <1>5 DEF ReferencesNext

\* Two neighbours that change places and still check are the same character: each
\* counts once more than the one before.
LEMMA SwapShows ==
  ASSUME NEW f \in [Places -> Value], f[8] = CheckCharacter(f), NEW i \in 1..6,
         NEW g \in [Places -> Value], g = [f EXCEPT ![i] = f[i + 1], ![i + 1] = f[i]],
         g[8] = CheckCharacter(g)
  PROVE  g = f
<1>1. /\ f[1] \in Int /\ f[2] \in Int /\ f[3] \in Int /\ f[4] \in Int
      /\ f[5] \in Int /\ f[6] \in Int /\ f[7] \in Int
  BY DEF Places, Value
<1>2. i \in Places /\ i + 1 \in Places /\ i + 1 # i
  BY DEF Places
<1>3. g[i] = f[i + 1] /\ g[i + 1] = f[i] /\ \A j \in Places \ {i, i + 1} : g[j] = f[j]
  BY <1>2
<1>4. PICK n \in Int : Weighted(f) = n + f[i + 1] /\ Weighted(g) = n + f[i]
  <2>1. CASE i = 1
    <3> DEFINE m == 2 * f[1] + 2 * f[2] + 4 * f[3] + 5 * f[4] + 6 * f[5] + 7 * f[6] + 8 * f[7]
    <3>1. /\ g[1] = f[2] /\ g[2] = f[1] /\ g[3] = f[3] /\ g[4] = f[4]
          /\ g[5] = f[5] /\ g[6] = f[6] /\ g[7] = f[7]
      BY <1>3, <2>1 DEF Places
    <3>2. m \in Int /\ Weighted(f) = m + f[2]
      BY <1>1 DEF Weighted
    <3>3. Weighted(g) = 2 * f[2] + 3 * f[1] + 4 * f[3] + 5 * f[4] + 6 * f[5] + 7 * f[6] + 8 * f[7]
      BY <3>1 DEF Weighted
    <3>4. Weighted(g) = m + f[1]
      BY <1>1, <3>3
    <3> HIDE DEF m
    <3>5. QED
      BY <2>1, <3>2, <3>4
  <2>2. CASE i = 2
    <3> DEFINE m == 2 * f[1] + 3 * f[2] + 3 * f[3] + 5 * f[4] + 6 * f[5] + 7 * f[6] + 8 * f[7]
    <3>1. /\ g[1] = f[1] /\ g[2] = f[3] /\ g[3] = f[2] /\ g[4] = f[4]
          /\ g[5] = f[5] /\ g[6] = f[6] /\ g[7] = f[7]
      BY <1>3, <2>2 DEF Places
    <3>2. m \in Int /\ Weighted(f) = m + f[3]
      BY <1>1 DEF Weighted
    <3>3. Weighted(g) = 2 * f[1] + 3 * f[3] + 4 * f[2] + 5 * f[4] + 6 * f[5] + 7 * f[6] + 8 * f[7]
      BY <3>1 DEF Weighted
    <3>4. Weighted(g) = m + f[2]
      BY <1>1, <3>3
    <3> HIDE DEF m
    <3>5. QED
      BY <2>2, <3>2, <3>4
  <2>3. CASE i = 3
    <3> DEFINE m == 2 * f[1] + 3 * f[2] + 4 * f[3] + 4 * f[4] + 6 * f[5] + 7 * f[6] + 8 * f[7]
    <3>1. /\ g[1] = f[1] /\ g[2] = f[2] /\ g[3] = f[4] /\ g[4] = f[3]
          /\ g[5] = f[5] /\ g[6] = f[6] /\ g[7] = f[7]
      BY <1>3, <2>3 DEF Places
    <3>2. m \in Int /\ Weighted(f) = m + f[4]
      BY <1>1 DEF Weighted
    <3>3. Weighted(g) = 2 * f[1] + 3 * f[2] + 4 * f[4] + 5 * f[3] + 6 * f[5] + 7 * f[6] + 8 * f[7]
      BY <3>1 DEF Weighted
    <3>4. Weighted(g) = m + f[3]
      BY <1>1, <3>3
    <3> HIDE DEF m
    <3>5. QED
      BY <2>3, <3>2, <3>4
  <2>4. CASE i = 4
    <3> DEFINE m == 2 * f[1] + 3 * f[2] + 4 * f[3] + 5 * f[4] + 5 * f[5] + 7 * f[6] + 8 * f[7]
    <3>1. /\ g[1] = f[1] /\ g[2] = f[2] /\ g[3] = f[3] /\ g[4] = f[5]
          /\ g[5] = f[4] /\ g[6] = f[6] /\ g[7] = f[7]
      BY <1>3, <2>4 DEF Places
    <3>2. m \in Int /\ Weighted(f) = m + f[5]
      BY <1>1 DEF Weighted
    <3>3. Weighted(g) = 2 * f[1] + 3 * f[2] + 4 * f[3] + 5 * f[5] + 6 * f[4] + 7 * f[6] + 8 * f[7]
      BY <3>1 DEF Weighted
    <3>4. Weighted(g) = m + f[4]
      BY <1>1, <3>3
    <3> HIDE DEF m
    <3>5. QED
      BY <2>4, <3>2, <3>4
  <2>5. CASE i = 5
    <3> DEFINE m == 2 * f[1] + 3 * f[2] + 4 * f[3] + 5 * f[4] + 6 * f[5] + 6 * f[6] + 8 * f[7]
    <3>1. /\ g[1] = f[1] /\ g[2] = f[2] /\ g[3] = f[3] /\ g[4] = f[4]
          /\ g[5] = f[6] /\ g[6] = f[5] /\ g[7] = f[7]
      BY <1>3, <2>5 DEF Places
    <3>2. m \in Int /\ Weighted(f) = m + f[6]
      BY <1>1 DEF Weighted
    <3>3. Weighted(g) = 2 * f[1] + 3 * f[2] + 4 * f[3] + 5 * f[4] + 6 * f[6] + 7 * f[5] + 8 * f[7]
      BY <3>1 DEF Weighted
    <3>4. Weighted(g) = m + f[5]
      BY <1>1, <3>3
    <3> HIDE DEF m
    <3>5. QED
      BY <2>5, <3>2, <3>4
  <2>6. CASE i = 6
    <3> DEFINE m == 2 * f[1] + 3 * f[2] + 4 * f[3] + 5 * f[4] + 6 * f[5] + 7 * f[6] + 7 * f[7]
    <3>1. /\ g[1] = f[1] /\ g[2] = f[2] /\ g[3] = f[3] /\ g[4] = f[4]
          /\ g[5] = f[5] /\ g[6] = f[7] /\ g[7] = f[6]
      BY <1>3, <2>6 DEF Places
    <3>2. m \in Int /\ Weighted(f) = m + f[7]
      BY <1>1 DEF Weighted
    <3>3. Weighted(g) = 2 * f[1] + 3 * f[2] + 4 * f[3] + 5 * f[4] + 6 * f[5] + 7 * f[7] + 8 * f[6]
      BY <3>1 DEF Weighted
    <3>4. Weighted(g) = m + f[6]
      BY <1>1, <3>3
    <3> HIDE DEF m
    <3>5. QED
      BY <2>6, <3>2, <3>4
  <2>7. i = 1 \/ i = 2 \/ i = 3 \/ i = 4 \/ i = 5 \/ i = 6
    OBVIOUS
  <2>8. QED
    BY <2>1, <2>2, <2>3, <2>4, <2>5, <2>6, <2>7
<1>5. (n + f[i + 1]) % 32 = (n + f[i]) % 32
  <2>1. g[8] = f[8]
    BY <1>2, <1>3 DEF Places
  <2>2. QED
    BY <1>4, <2>1 DEF CheckCharacter
<1>6. f[i] = f[i + 1]
  BY <1>2, <1>5, OddCounts
<1>7. QED
  BY <1>2, <1>3, <1>6

\* So are the last character and the check character.
LEMMA LastSwapShows ==
  ASSUME NEW f \in [Places -> Value], f[8] = CheckCharacter(f),
         NEW g \in [Places -> Value], g = [f EXCEPT ![7] = f[8], ![8] = f[7]],
         g[8] = CheckCharacter(g)
  PROVE  g = f
<1> DEFINE m == 2 * f[1] + 3 * f[2] + 4 * f[3] + 5 * f[4] + 6 * f[5] + 7 * f[6]
<1>1. /\ f[1] \in Int /\ f[2] \in Int /\ f[3] \in Int /\ f[4] \in Int
      /\ f[5] \in Int /\ f[6] \in Int /\ f[7] \in Value /\ f[8] \in Value
  BY DEF Places, Value
<1>2. /\ g[1] = f[1] /\ g[2] = f[2] /\ g[3] = f[3] /\ g[4] = f[4]
      /\ g[5] = f[5] /\ g[6] = f[6] /\ g[7] = f[8] /\ g[8] = f[7]
  BY DEF Places
<1>3. m \in Int /\ Weighted(f) = m + 8 * f[7] /\ Weighted(g) = m + 8 * f[8]
  BY <1>1, <1>2 DEF Weighted, Value
<1>4. f[8] = (m + 8 * f[7]) % 32 /\ f[7] = (m + 8 * f[8]) % 32
  BY <1>2, <1>3 DEF CheckCharacter
<1> HIDE DEF m
<1>5. f[7] = f[8]
  BY <1>1, <1>3, <1>4, NineTell
<1>6. \A j \in Places : g[j] = f[j]
  BY <1>2, <1>5 DEF Places
<1>7. QED
  BY <1>6

\* What one place adds to the rest.
LEMMA OnePlace ==
  ASSUME NEW f \in [Places -> Value], NEW g \in [Places -> Value], NEW i \in Body,
         \A j \in Places \ {i} : g[j] = f[j]
  PROVE  \E n \in Int : Weighted(f) = n + (i + 1) * f[i] /\ Weighted(g) = n + (i + 1) * g[i]
<1>1. /\ f[1] \in Int /\ f[2] \in Int /\ f[3] \in Int /\ f[4] \in Int
      /\ f[5] \in Int /\ f[6] \in Int /\ f[7] \in Int
      /\ g[1] \in Int /\ g[2] \in Int /\ g[3] \in Int /\ g[4] \in Int
      /\ g[5] \in Int /\ g[6] \in Int /\ g[7] \in Int
  BY DEF Places, Value
<1>2. \A j \in Body \ {i} : g[j] = f[j]
  BY DEF Body, Places
<1> DEFINE n == Weighted(f) - (i + 1) * f[i]
<1>3. i = 1 \/ i = 2 \/ i = 3 \/ i = 4 \/ i = 5 \/ i = 6 \/ i = 7
  BY DEF Body
<1>4. n \in Int
  BY <1>1, <1>3 DEF Weighted
<1>5. Weighted(f) = n + (i + 1) * f[i]
  BY <1>1, <1>3 DEF Weighted
<1>6. Weighted(g) = n + (i + 1) * g[i]
  <2>1. CASE i = 1
    <3>1. g[2] = f[2] /\ g[3] = f[3] /\ g[4] = f[4] /\ g[5] = f[5] /\ g[6] = f[6] /\ g[7] = f[7]
      BY <1>2, <2>1 DEF Body
    <3>2. QED
      BY <1>1, <2>1, <3>1 DEF Weighted
  <2>2. CASE i = 2
    <3>1. g[1] = f[1] /\ g[3] = f[3] /\ g[4] = f[4] /\ g[5] = f[5] /\ g[6] = f[6] /\ g[7] = f[7]
      BY <1>2, <2>2 DEF Body
    <3>2. QED
      BY <1>1, <2>2, <3>1 DEF Weighted
  <2>3. CASE i = 3
    <3>1. g[1] = f[1] /\ g[2] = f[2] /\ g[4] = f[4] /\ g[5] = f[5] /\ g[6] = f[6] /\ g[7] = f[7]
      BY <1>2, <2>3 DEF Body
    <3>2. QED
      BY <1>1, <2>3, <3>1 DEF Weighted
  <2>4. CASE i = 4
    <3>1. g[1] = f[1] /\ g[2] = f[2] /\ g[3] = f[3] /\ g[5] = f[5] /\ g[6] = f[6] /\ g[7] = f[7]
      BY <1>2, <2>4 DEF Body
    <3>2. QED
      BY <1>1, <2>4, <3>1 DEF Weighted
  <2>5. CASE i = 5
    <3>1. g[1] = f[1] /\ g[2] = f[2] /\ g[3] = f[3] /\ g[4] = f[4] /\ g[6] = f[6] /\ g[7] = f[7]
      BY <1>2, <2>5 DEF Body
    <3>2. QED
      BY <1>1, <2>5, <3>1 DEF Weighted
  <2>6. CASE i = 6
    <3>1. g[1] = f[1] /\ g[2] = f[2] /\ g[3] = f[3] /\ g[4] = f[4] /\ g[5] = f[5] /\ g[7] = f[7]
      BY <1>2, <2>6 DEF Body
    <3>2. QED
      BY <1>1, <2>6, <3>1 DEF Weighted
  <2>7. CASE i = 7
    <3>1. g[1] = f[1] /\ g[2] = f[2] /\ g[3] = f[3] /\ g[4] = f[4] /\ g[5] = f[5] /\ g[6] = f[6]
      BY <1>2, <2>7 DEF Body
    <3>2. QED
      BY <1>1, <2>7, <3>1 DEF Weighted
  <2>8. QED
    BY <1>3, <2>1, <2>2, <2>3, <2>4, <2>5, <2>6, <2>7
<1>7. QED
  BY <1>4, <1>5, <1>6

\* A reference with one other character passes just where the two weigh the same.
LEMMA ReplacementShows ==
  ASSUME NEW f \in [Places -> Value], f[8] = CheckCharacter(f), NEW i \in Places,
         NEW g \in [Places -> Value], \A j \in Places \ {i} : g[j] = f[j]
  PROVE  g[8] = CheckCharacter(g) <=>
           g = f \/ (i \in {1, 3, 5, 7} /\ (g[i] - f[i]) % Alike(i) = 0)
<1>1. f[i] \in Value /\ g[i] \in Value
  OBVIOUS
<1>2. g = f <=> g[i] = f[i]
  BY <1>1
<1>3. CASE i = 8
  <2>1. /\ g[1] = f[1] /\ g[2] = f[2] /\ g[3] = f[3] /\ g[4] = f[4]
        /\ g[5] = f[5] /\ g[6] = f[6] /\ g[7] = f[7]
    BY <1>3 DEF Places
  <2>2. CheckCharacter(g) = CheckCharacter(f)
    BY <2>1 DEF CheckCharacter, Weighted
  <2>3. QED
    BY <1>2, <1>3, <2>2
<1>4. CASE i \in Body
  <2>1. PICK n \in Int : Weighted(f) = n + (i + 1) * f[i] /\ Weighted(g) = n + (i + 1) * g[i]
    BY <1>4, OnePlace
  <2>2. g[8] = f[8]
    BY <1>4 DEF Body, Places
  <2>3. g[8] = CheckCharacter(g) <=> (n + (i + 1) * f[i]) % 32 = (n + (i + 1) * g[i]) % 32
    BY <2>1, <2>2 DEF CheckCharacter
  <2>4. CASE i \in {2, 4, 6}
    <3>1. (n + (i + 1) * f[i]) % 32 = (n + (i + 1) * g[i]) % 32 <=> f[i] = g[i]
      BY <1>1, <2>4, OddCounts
    <3>2. QED
      BY <1>2, <2>3, <2>4, <3>1
  <2>5. CASE i \in {1, 3, 5, 7}
    <3>1. (n + (i + 1) * f[i]) % 32 = (n + (i + 1) * g[i]) % 32 <=> (g[i] - f[i]) % Alike(i) = 0
      BY <1>1, <2>5, EvenCounts DEF Alike
    <3>2. g = f => (n + (i + 1) * f[i]) % 32 = (n + (i + 1) * g[i]) % 32
      OBVIOUS
    <3>3. QED
      BY <2>3, <2>5, <3>1, <3>2
  <2>6. i \in {2, 4, 6} \/ i \in {1, 3, 5, 7}
    BY <1>4 DEF Body
  <2>7. QED
    BY <2>4, <2>5, <2>6
<1>5. QED
  BY <1>3, <1>4 DEF Body, Places

\* For every reference and every slip, what passes the check is the reference that was
\* meant or one that the weights cannot tell from it (reference.ts:150-157), no other row
\* is found, also by a search that does not check (kyc.service.ts:135, bids.service.ts:232),
\* and what was meant is found but where it is searched as it is written.
THEOREM MeantIsLookedUp == ReferencesSpec => []OnlyMeantIsLookedUp
<1>1. ReferencesInv => OnlyMeantIsLookedUp
  <2> SUFFICES ASSUME ReferencesInv
               PROVE  OnlyMeantIsLookedUp
    OBVIOUS
  <2> DEFINE g == Normalised(typed)
  <2>1. /\ meant \in [Places -> Value] /\ meant[8] = CheckCharacter(meant)
        /\ typed \in [Places -> 0..35] /\ g \in [Places -> Value]
        /\ \A i \in Places : typed[i] \in Value => g[i] = typed[i]
    BY NormalisedFacts DEF ReferencesInv, Issued
  <2>2. IsValid(typed) <=> g[8] = CheckCharacter(g)
    BY DEF IsValid
  <2>3. IsValid(typed) <=> g = meant \/ Blind
    <3>1. CASE slip = NoSlip /\ typed = meant
      <4>1. g = meant
        BY <2>1, <3>1
      <4>2. QED
        BY <2>1, <2>2, <4>1
    <3>2. ASSUME NEW i \in Body, slip = [kind |-> "swap", at |-> i],
                 typed = [meant EXCEPT ![i] = meant[i + 1], ![i + 1] = meant[i]]
          PROVE  IsValid(typed) <=> g = meant \/ Blind
      <4>1. i \in Places /\ i + 1 \in Places /\ (i \in 1..6 \/ i = 7)
        BY DEF Body, Places
      <4>2. \A j \in Places : typed[j] \in Value
        BY <2>1, <3>2, <4>1
      <4>3. g = typed
        BY <2>1, <4>2
      <4>4. g[8] = CheckCharacter(g) => g = meant
        <5>1. CASE i \in 1..6
          BY <2>1, <3>2, <4>3, <5>1, SwapShows
        <5>2. CASE i = 7
          <6>1. g = [meant EXCEPT ![7] = meant[8], ![8] = meant[7]]
            BY <3>2, <4>3, <5>2
          <6>2. QED
            BY <2>1, <6>1, LastSwapShows
        <5>3. QED
          BY <4>1, <5>1, <5>2
      <4>5. ~Blind
        BY <3>2 DEF Blind
      <4>6. QED
        BY <2>1, <2>2, <4>4, <4>5
    <3>3. ASSUME NEW i \in Places, NEW c \in Written, slip = [kind |-> "character", at |-> i],
                 typed = [meant EXCEPT ![i] = c]
          PROVE  IsValid(typed) <=> g = meant \/ Blind
      <4>1. \A j \in Places \ {i} : g[j] = meant[j]
        BY <2>1, <3>3
      <4>2. g[8] = CheckCharacter(g) <=> g = meant \/ (i \in {1, 3, 5, 7} /\ (g[i] - meant[i]) % Alike(i) = 0)
        BY <2>1, <4>1, ReplacementShows
      <4>3. Blind <=> i \in {1, 3, 5, 7} /\ g[i] # meant[i] /\ (g[i] - meant[i]) % Alike(i) = 0
        BY <3>3 DEF Blind
      <4>4. g = meant <=> g[i] = meant[i]
        BY <2>1, <4>1
      <4>5. QED
        BY <2>2, <4>2, <4>3, <4>4
    <3>4. QED
      BY <3>1, <3>2, <3>3 DEF ReferencesInv, Slipped
  <2>4. Telling
    BY DEF ReferencesInv
  <2>5. QED
    BY <2>3, <2>4 DEF OnlyMeantIsLookedUp, Telling
<1>2. QED
  BY <1>1, IssuedChecks, ReferencesNextInv, PTL DEF ReferencesSpec

----------------------------------------------------------------------------
(* The settings.                                                            *)

\* A reader waits at the database or has its answer, and knows what it has to.
Reader(g) ==
  \/ g = Resting
  \/ /\ g \in [pc : {"read", "returned"}, p : Processes, v : Nat, must : Nat]
     /\ g.v >= g.must \/ (g.pc = "returned" /\ g.p \in raced)

\* A writer knows the last change before its own, or has made one.
Writer(s) ==
  \/ s = Resting
  \/ /\ s \in [pc : {"read"}, p : Processes, previous : Nat, seen : Nat]
     /\ s.previous = s.seen
  \/ s \in [pc : {"written"}, p : Processes, v : Nat] /\ s.v <= row

\* The row is the number of changes; no process was answered a change that is not there,
\* and what it keeps is not older than its own changes, unless it was raced.
SettingsInv ==
  /\ changes \in Seq([from : Nat, overlapped : BOOLEAN]) /\ row = Len(changes)
  /\ own \in [Processes -> Nat] /\ \A p \in Processes : own[p] <= row
  /\ cache \in [Processes -> Nat \cup {NotCached}]
  /\ \A p \in Processes : cache[p] # NotCached => cache[p] >= own[p] \/ p \in raced
  /\ reading \in [Readers -> {reading[r] : r \in Readers}] /\ \A r \in Readers : Reader(reading[r])
  /\ writing \in [Writers -> {writing[w] : w \in Writers}] /\ \A w \in Writers : Writer(writing[w])
  /\ HistoryChains

\* The settings start as they stay.
LEMMA SettingsInitInv == SettingsInit => SettingsInv
<1>1. SUFFICES ASSUME SettingsInit PROVE SettingsInv
  OBVIOUS
<1>2. changes \in Seq([from : Nat, overlapped : BOOLEAN]) /\ Len(changes) = 0 /\ row = Len(changes)
  BY <1>1 DEF SettingsInit
<1>3. HistoryChains
  BY <1>1 DEF SettingsInit, HistoryChains
<1>4. QED
  BY <1>1, <1>2, <1>3 DEF SettingsInit, SettingsInv, Reader, Writer

\* A step of a get.
LEMMA GetKeeps ==
  ASSUME SettingsInv, NEW r \in Readers, NEW p \in Processes,
         GetCached(r, p) \/ GetStored(r, p) \/ KeepRead(r) \/ GetEnds(r)
  PROVE  SettingsInv'
<1>1. /\ changes' = changes /\ row' = row /\ own' = own /\ writing' = writing
      /\ \A q \in Processes : q \in raced => q \in raced'
  BY DEF GetCached, GetStored, KeepRead, GetEnds
<1>2. /\ reading' \in [Readers -> {reading'[q] : q \in Readers}]
      /\ \A q \in Readers \ {r} : reading'[q] = reading[q]
  BY DEF SettingsInv, GetCached, GetStored, KeepRead, GetEnds
<1>3. /\ cache' \in [Processes -> Nat \cup {NotCached}]
      /\ \A q \in Processes : cache'[q] # NotCached => cache'[q] >= own[q] \/ q \in raced'
      /\ Reader(reading[r])' 
  <2>1. CASE GetCached(r, p)
    BY <2>1 DEF SettingsInv, GetCached, Reader
  <2>2. CASE GetStored(r, p)
    BY <2>2 DEF SettingsInv, GetStored, Reader
  <2>3. CASE KeepRead(r)
    <3> DEFINE g == reading[r]
    <3>1. /\ g \in [pc : {"read", "returned"}, p : Processes, v : Nat, must : Nat]
          /\ g.pc = "read" /\ g.v >= g.must
      BY <2>3 DEF SettingsInv, KeepRead, Reader, Resting
    <3>2. /\ cache' = [cache EXCEPT ![g.p] = g.v] /\ own' = own
          /\ raced' = IF g.v < own[g.p] THEN raced \cup {g.p} ELSE raced
      BY <2>3 DEF KeepRead
    <3>3. reading'[r] = [g EXCEPT !.pc = "returned"]
      BY <2>3 DEF SettingsInv, KeepRead
    <3> HIDE DEF g
    <3>4. /\ cache' \in [Processes -> Nat \cup {NotCached}]
          /\ \A q \in Processes : cache'[q] # NotCached => cache'[q] >= own[q] \/ q \in raced'
      BY <3>1, <3>2 DEF SettingsInv
    <3>5. Reader(reading[r])'
      BY <3>1, <3>3 DEF Reader
    <3>6. QED
      BY <3>4, <3>5
  <2>4. CASE GetEnds(r)
    BY <2>4 DEF SettingsInv, GetEnds, Reader
  <2>5. QED
    BY <2>1, <2>2, <2>3, <2>4
<1>4. \A q \in Readers \ {r} : Reader(reading[q])'
  BY <1>1, <1>2 DEF SettingsInv, Reader
<1>5. \A w \in Writers : Writer(writing[w])'
  BY <1>1 DEF SettingsInv, Writer
<1>6. HistoryChains'
  BY <1>1 DEF SettingsInv, HistoryChains
<1>7. QED
  BY <1>1, <1>2, <1>3, <1>4, <1>5, <1>6 DEF SettingsInv

\* A cached value expires.
LEMMA ExpiryKeeps ==
  ASSUME SettingsInv, NEW p \in Processes, Expires(p)
  PROVE  SettingsInv'
<1>1. /\ cache' \in [Processes -> Nat \cup {NotCached}]
      /\ \A q \in Processes : cache'[q] # NotCached => cache'[q] >= own[q] \/ q \in raced
  BY DEF SettingsInv, Expires
<1>2. UNCHANGED <<row, changes, reading, writing, own, raced>>
  BY DEF Expires
<1>3. (\A r \in Readers : Reader(reading[r])') /\ \A w \in Writers : Writer(writing[w])'
  BY <1>2 DEF SettingsInv, Reader, Writer
<1>4. HistoryChains'
  BY <1>2 DEF SettingsInv, HistoryChains
<1>5. QED
  BY <1>1, <1>2, <1>3, <1>4 DEF SettingsInv

\* A set looks at what it replaces.
LEMMA SetReadsKeeps ==
  ASSUME SettingsInv, NEW w \in Writers, NEW p \in Processes, SetReads(w, p)
  PROVE  SettingsInv'
<1>1. UNCHANGED <<row, changes, cache, reading, own, raced>>
  BY DEF SetReads
<1>2. /\ writing' \in [Writers -> {writing'[x] : x \in Writers}]
      /\ \A x \in Writers \ {w} : writing'[x] = writing[x]
      /\ writing'[w] = [pc |-> "read", p |-> p, previous |-> row, seen |-> Len(changes)]
  BY DEF SettingsInv, SetReads, Previous
<1>3. row \in Nat /\ row = Len(changes)
  BY DEF SettingsInv
<1>4. \A x \in Writers : Writer(writing[x])'
  <2>1. Writer(writing[w])'
    BY <1>2, <1>3 DEF Writer
  <2>2. ASSUME NEW x \in Writers \ {w} PROVE Writer(writing[x])'
    BY <1>1, <1>2 DEF SettingsInv, Writer
  <2>3. QED
    BY <2>1, <2>2
<1>5. \A r \in Readers : Reader(reading[r])'
  BY <1>1 DEF SettingsInv, Reader
<1>6. HistoryChains'
  BY <1>1 DEF SettingsInv, HistoryChains
<1>7. QED
  BY <1>1, <1>2, <1>4, <1>5, <1>6 DEF SettingsInv

\* A set writes the row and its history.  Another may have written since it looked: then
\* its change says so.
LEMMA SetWritesKeeps ==
  ASSUME SettingsInv, NEW w \in Writers, SetWrites(w)
  PROVE  SettingsInv'
<1> DEFINE s == writing[w]
           c == [from |-> s.previous, overlapped |-> s.seen # Len(changes)]
<1>1. UNCHANGED <<cache, reading, own, raced>>
  BY DEF SetWrites
<1>2. /\ s \in [pc : {"read"}, p : Processes, previous : Nat, seen : Nat]
      /\ s.previous = s.seen
  BY DEF SettingsInv, SetWrites, Writer, Resting
<1>3. /\ changes \in Seq([from : Nat, overlapped : BOOLEAN])
      /\ row = Len(changes) /\ row \in Nat
  BY DEF SettingsInv
<1>4. changes' = Append(changes, c) /\ row' = row + 1
  BY <1>3 DEF SetWrites
<1>5. c \in [from : Nat, overlapped : BOOLEAN] /\ (c.overlapped \/ c.from = Len(changes))
  BY <1>2, <1>3
<1>6. /\ writing' \in [Writers -> {writing'[x] : x \in Writers}]
      /\ \A x \in Writers \ {w} : writing'[x] = writing[x]
      /\ writing'[w] = [pc |-> "written", p |-> s.p, v |-> row + 1]
  BY <1>3 DEF SettingsInv, SetWrites
<1> HIDE DEF c
<1>7. /\ changes' \in Seq([from : Nat, overlapped : BOOLEAN]) /\ Len(changes') = row'
      /\ \A i \in 1..Len(changes) : changes'[i] = changes[i]
      /\ changes'[Len(changes) + 1] = c
  BY <1>3, <1>4, <1>5
<1>8. HistoryChains'
  <2>1. \A i \in 1..Len(changes) : changes'[i].overlapped \/ changes'[i].from = i - 1
    BY <1>3, <1>7 DEF SettingsInv, HistoryChains
  <2>2. DOMAIN changes' = 1..(Len(changes) + 1)
    BY <1>3, <1>4, <1>7
  <2>3. changes'[Len(changes) + 1].overlapped \/ changes'[Len(changes) + 1].from = (Len(changes) + 1) - 1
    BY <1>3, <1>5, <1>7
  <2>4. ASSUME NEW i \in DOMAIN changes'
        PROVE  i \in 1..Len(changes) \/ i = Len(changes) + 1
    BY <1>3, <2>2
  <2>5. QED
    BY <2>1, <2>3, <2>4 DEF HistoryChains
<1>9. \A x \in Writers : Writer(writing[x])'
  <2>1. Writer(writing[w])'
    BY <1>2, <1>3, <1>4, <1>6 DEF Writer
  <2>2. ASSUME NEW x \in Writers \ {w} PROVE Writer(writing[x])'
    BY <1>3, <1>4, <1>6 DEF SettingsInv, Writer
  <2>3. QED
    BY <2>1, <2>2
<1>10. \A r \in Readers : Reader(reading[r])'
  BY <1>1 DEF SettingsInv, Reader
<1>11. QED
  BY <1>1, <1>3, <1>4, <1>6, <1>7, <1>8, <1>9, <1>10 DEF SettingsInv

\* A set returns, having emptied the cache: the process owes its readers this change.
LEMMA SetReturnsKeeps ==
  ASSUME SettingsInv, NEW w \in Writers, SetReturns(w)
  PROVE  SettingsInv'
<1> DEFINE s == writing[w]
<1>1. UNCHANGED <<row, changes, reading, raced>>
  BY DEF SetReturns, Return
<1>2. s \in [pc : {"written"}, p : Processes, v : Nat] /\ s.v <= row
  BY DEF SettingsInv, SetReturns, Return, Writer, Resting
<1>3. /\ cache' = [cache EXCEPT ![s.p] = NotCached]
      /\ own' = [own EXCEPT ![s.p] = IF s.v > @ THEN s.v ELSE @]
      /\ writing' = [writing EXCEPT ![w] = Resting]
  BY DEF SetReturns, Return
<1> HIDE DEF s
<1>4. own' \in [Processes -> Nat] /\ \A p \in Processes : own'[p] <= row
  BY <1>2, <1>3 DEF SettingsInv
<1>5. /\ cache' \in [Processes -> Nat \cup {NotCached}]
      /\ \A p \in Processes : cache'[p] # NotCached => cache'[p] >= own'[p] \/ p \in raced
  BY <1>2, <1>3 DEF SettingsInv
<1>6. /\ writing' \in [Writers -> {writing'[x] : x \in Writers}]
      /\ \A x \in Writers : Writer(writing[x])'
  BY <1>1, <1>3 DEF SettingsInv, Writer
<1>7. \A r \in Readers : Reader(reading[r])'
  BY <1>1 DEF SettingsInv, Reader
<1>8. HistoryChains'
  BY <1>1 DEF SettingsInv, HistoryChains
<1>9. QED
  BY <1>1, <1>4, <1>5, <1>6, <1>7, <1>8 DEF SettingsInv

\* Whatever is done with the setting, it stays as it is kept.
LEMMA SettingsNextInv == SettingsInv /\ [SettingsNext]_settingsVars => SettingsInv'
<1>1. SUFFICES ASSUME SettingsInv, [SettingsNext]_settingsVars PROVE SettingsInv'
  OBVIOUS
<1>2. ASSUME NEW r \in Readers, NEW p \in Processes, GetCached(r, p) \/ GetStored(r, p)
      PROVE  SettingsInv'
  BY <1>1, <1>2, GetKeeps
<1>3. ASSUME NEW r \in Readers, KeepRead(r) \/ GetEnds(r)
      PROVE  SettingsInv'
  <2>1. Processes # {}
    BY <1>1, <1>3 DEF SettingsInv, KeepRead, GetEnds, Reader, Resting
  <2>2. QED
    BY <1>1, <1>3, <2>1, GetKeeps
<1>4. ASSUME NEW p \in Processes, Expires(p)
      PROVE  SettingsInv'
  BY <1>1, <1>4, ExpiryKeeps
<1>5. ASSUME NEW w \in Writers, NEW p \in Processes, SetReads(w, p)
      PROVE  SettingsInv'
  BY <1>1, <1>5, SetReadsKeeps
<1>6. ASSUME NEW w \in Writers, SetWrites(w) \/ SetReturns(w)
      PROVE  SettingsInv'
  BY <1>1, <1>6, SetWritesKeeps, SetReturnsKeeps
<1>7. ASSUME UNCHANGED settingsVars
      PROVE  SettingsInv'
  BY <1>1, <1>7 DEF settingsVars, SettingsInv, Reader, Writer, HistoryChains
<1>8. QED
  BY <1>1, <1>2, <1>3, <1>4, <1>5, <1>6, <1>7 DEF SettingsNext

\* Whoever changed a setting sees that change or a later one in the same process, unless
\* a read overlapped it, and the history of changes has no gap but where two overlapped:
\* for any number of processes, readers, writers and changes.
THEOREM OwnChangesAreSeen == SettingsSpec => []ChangesAreKept
<1>1. SettingsInv => ChangesAreKept
  BY DEF SettingsInv, Reader, Resting, ChangesAreKept, OwnChangeSeenUnlessRaced
<1>2. QED
  BY <1>1, SettingsInitInv, SettingsNextInv, PTL DEF SettingsSpec

----------------------------------------------------------------------------
(* BoT's callbacks.                                                         *)

Announcements == {EventOf(b) : b \in Bodies}

\* What is kept has been announced, once, and nothing else has: an event names the bytes
\* it was made of.
Announces ==
  /\ outbox \in Seq(Announcements)
  /\ \A b \in inbox : \E i \in 1..Len(outbox) : outbox[i] = EventOf(b)
  /\ \A i \in 1..Len(outbox) : outbox[i].key \in inbox
  /\ \A i, j \in 1..Len(outbox) : i # j => outbox[i] # outbox[j]

\* What is answered has been kept.
CallbacksInv ==
  /\ \A p \in posts : p.body \in Bodies
  /\ receiver \in [Receivers -> {Free} \cup [pc : {"saving", "answering"}, body : Bodies]]
  /\ inbox \subseteq Bodies /\ heard \subseteq inbox
  /\ \A w \in Receivers : receiver[w].pc = "answering" => receiver[w].body \in inbox
  /\ Announces

\* The first event of some bytes joins those of others.
LEMMA OneMoreAnnounced ==
  ASSUME Announces, inbox \subseteq Bodies, NEW b \in Bodies \ inbox,
         inbox' = inbox \cup {b}, outbox' = Append(outbox, EventOf(b))
  PROVE  Announces'
<1> DEFINE e == EventOf(b)
           n == Len(outbox)
<1>1. e \in Announcements /\ e.key = b
  BY DEF Announcements, EventOf, DedupeKey
<1>2. outbox \in Seq(Announcements) /\ n \in Nat
  BY DEF Announces
<1> HIDE DEF e
<1>3. /\ outbox' \in Seq(Announcements) /\ Len(outbox') = n + 1
      /\ \A i \in 1..n : outbox'[i] = outbox[i]
      /\ outbox'[n + 1] = e
  BY <1>1, <1>2 DEF e
<1> HIDE DEF n
<1>4. 1..Len(outbox') = 1..n \cup {n + 1} /\ n + 1 \in 1..Len(outbox')
  BY <1>2, <1>3
<1>5. ASSUME NEW c \in inbox'
      PROVE  \E i \in 1..Len(outbox') : outbox'[i] = EventOf(c)
  <2>1. CASE c = b
    BY <2>1, <1>3, <1>4 DEF e
  <2>2. CASE c \in inbox
    <3>1. PICK i \in 1..n : outbox[i] = EventOf(c)
      BY <2>2 DEF Announces, n
    <3>2. QED
      BY <3>1, <1>3, <1>4
  <2>3. QED
    BY <2>1, <2>2
<1>6. \A i \in 1..n : outbox'[i].key \in inbox
  BY <1>3 DEF Announces, n
<1>7. \A i \in 1..n : outbox'[i] # e
  BY <1>1, <1>6
<1>8. \A i \in 1..Len(outbox') : outbox'[i].key \in inbox'
  BY <1>1, <1>3, <1>4, <1>6
<1>9. ASSUME NEW i \in 1..Len(outbox'), NEW j \in 1..Len(outbox'), i # j
      PROVE  outbox'[i] # outbox'[j]
  <2>1. CASE i \in 1..n /\ j \in 1..n
    BY <2>1, <1>3, <1>9 DEF Announces, n
  <2>2. CASE i = n + 1 /\ j \in 1..n
    BY <2>2, <1>3, <1>7
  <2>3. CASE j = n + 1 /\ i \in 1..n
    BY <2>3, <1>3, <1>7
  <2>4. QED
    BY <2>1, <2>2, <2>3, <1>4, <1>9
<1>10. QED
  BY <1>3, <1>5, <1>8, <1>9 DEF Announces

\* What was posted or is refused changes nothing of what is kept.
LEMMA PostsKeep ==
  ASSUME CallbacksInv, UNCHANGED <<receiver, inbox, outbox, heard>>,
         \A p \in posts' : p.body \in Bodies
  PROVE  CallbacksInv'
BY DEF CallbacksInv, Announces

\* A callback is taken in: its body is one of BoT's.
LEMMA TakeInKeeps ==
  ASSUME CallbacksInv, NEW w \in Receivers, NEW p \in posts, NEW again \in BOOLEAN, TakeIn(w, p, again)
  PROVE  CallbacksInv'
<1>1. p.body \in Bodies /\ UNCHANGED <<inbox, outbox, heard>>
  BY DEF CallbacksInv, TakeIn
<1>2. receiver' = [receiver EXCEPT ![w] = [pc |-> "saving", body |-> p.body]]
  BY DEF TakeIn, Become
<1>3. \A q \in posts' : q.body \in Bodies
  BY DEF CallbacksInv, TakeIn
<1>4. receiver' \in [Receivers -> {Free} \cup [pc : {"saving", "answering"}, body : Bodies]]
  BY <1>1, <1>2 DEF CallbacksInv
<1>5. \A v \in Receivers : receiver'[v].pc = "answering" => receiver'[v].body \in inbox
  BY <1>1, <1>2 DEF CallbacksInv
<1>6. QED
  BY <1>1, <1>3, <1>4, <1>5 DEF CallbacksInv, Announces

\* Callback and event are committed together, or were there.
LEMMA SaveOnceKeeps ==
  ASSUME CallbacksInv, NEW w \in Receivers, SaveOnce(w)
  PROVE  CallbacksInv'
<1> DEFINE b == receiver[w].body
<1>1. b \in Bodies
  BY DEF CallbacksInv, SaveOnce, Free
<1>2. /\ receiver' = [receiver EXCEPT ![w] = [pc |-> "answering", body |-> b]]
      /\ UNCHANGED <<posts, heard>>
  BY DEF SaveOnce, Become
<1>3. \/ b \in inbox /\ UNCHANGED <<inbox, outbox>>
      \/ b \notin inbox /\ inbox' = inbox \cup {b} /\ outbox' = Append(outbox, EventOf(b))
  BY DEF SaveOnce, DedupeKey
<1> HIDE DEF b
<1>4. Announces'
  <2>1. CASE b \in inbox /\ UNCHANGED <<inbox, outbox>>
    BY <2>1 DEF CallbacksInv, Announces
  <2>2. CASE b \notin inbox /\ inbox' = inbox \cup {b} /\ outbox' = Append(outbox, EventOf(b))
    BY <1>1, <2>2, OneMoreAnnounced DEF CallbacksInv
  <2>3. QED
    BY <1>3, <2>1, <2>2
<1>5. inbox' \subseteq Bodies /\ inbox \subseteq inbox' /\ b \in inbox'
  BY <1>1, <1>3 DEF CallbacksInv
<1>6. receiver' \in [Receivers -> {Free} \cup [pc : {"saving", "answering"}, body : Bodies]]
  BY <1>1, <1>2 DEF CallbacksInv
<1>7. \A v \in Receivers : receiver'[v].pc = "answering" => receiver'[v].body \in inbox'
  BY <1>2, <1>5 DEF CallbacksInv
<1>8. QED
  BY <1>2, <1>4, <1>5, <1>6, <1>7 DEF CallbacksInv

\* BoT hears what was kept.
LEMMA AcknowledgeKeeps ==
  ASSUME CallbacksInv, NEW w \in Receivers, Acknowledge(w)
  PROVE  CallbacksInv'
<1>1. receiver' = [receiver EXCEPT ![w] = Free] /\ UNCHANGED <<posts, inbox, outbox>>
  BY DEF Acknowledge, Become
<1>2. heard' \subseteq inbox
  BY DEF Acknowledge, CallbacksInv
<1>3. receiver' \in [Receivers -> {Free} \cup [pc : {"saving", "answering"}, body : Bodies]]
  BY <1>1 DEF CallbacksInv
<1>4. \A v \in Receivers : receiver'[v].pc = "answering" => receiver'[v].body \in inbox
  BY <1>1 DEF CallbacksInv, Free
<1>5. QED
  BY <1>1, <1>2, <1>3, <1>4 DEF CallbacksInv, Announces

\* Whatever a process had in hand when it died was not kept, or was.
LEMMA DieKeeps ==
  ASSUME CallbacksInv, Die
  PROVE  CallbacksInv'
<1>1. receiver' = [w \in Receivers |-> Free] /\ UNCHANGED <<posts, inbox, outbox, heard>>
  BY DEF Die
<1>2. QED
  BY <1>1 DEF CallbacksInv, Announces, Free

\* Every step keeps what is kept announced.
LEMMA CallbacksNextInv == CallbacksInv /\ [CallbacksNext]_callbackVars => CallbacksInv'
<1>1. SUFFICES ASSUME CallbacksInv, [CallbacksNext]_callbackVars PROVE CallbacksInv'
  OBVIOUS
<1>2. CASE TimePasses \/ UNCHANGED callbackVars
  <2>1. UNCHANGED <<receiver, inbox, outbox, heard>> /\ \A p \in posts' : p.body \in Bodies
    BY <1>1, <1>2 DEF TimePasses, callbackVars, CallbacksInv
  <2>2. QED
    BY <1>1, <2>1, PostsKeep
<1>3. ASSUME NEW b \in Bodies, NEW intact \in BOOLEAN, Post(b, intact)
      PROVE  CallbacksInv'
  <2>1. UNCHANGED <<receiver, inbox, outbox, heard>> /\ \A p \in posts' : p.body \in Bodies
    BY <1>1, <1>3 DEF Post, CallbacksInv
  <2>2. QED
    BY <1>1, <2>1, PostsKeep
<1>4. ASSUME NEW p \in posts, Refuse(p)
      PROVE  CallbacksInv'
  <2>1. UNCHANGED <<receiver, inbox, outbox, heard>> /\ \A q \in posts' : q.body \in Bodies
    BY <1>1, <1>4 DEF Refuse, CallbacksInv
  <2>2. QED
    BY <1>1, <2>1, PostsKeep
<1>5. CASE \E w \in Receivers, p \in posts, again \in BOOLEAN : TakeIn(w, p, again)
  BY <1>1, <1>5, TakeInKeeps
<1>6. CASE \E w \in Receivers : SaveOnce(w) \/ Acknowledge(w)
  BY <1>1, <1>6, SaveOnceKeeps, AcknowledgeKeeps
<1>7. CASE Die
  BY <1>1, <1>7, DieKeeps
<1>8. QED
  BY <1>1, <1>2, <1>3, <1>4, <1>5, <1>6, <1>7 DEF CallbacksNext

\* A callback BoT holds for delivered has been announced, and none was announced twice:
\* for any bodies, receivers, clocks, repetitions and deaths.
THEOREM AcknowledgedCallbacks == CallbacksSpec => []AcknowledgedIsAnnounced
<1>1. CallbacksInit => CallbacksInv
  BY DEF CallbacksInit, CallbacksInv, Announces, Free
<1>2. CallbacksInv => AcknowledgedIsAnnounced
  BY DEF CallbacksInv, Announces, AcknowledgedIsAnnounced
<1>3. QED
  BY <1>1, <1>2, CallbacksNextInv, PTL DEF CallbacksSpec

----------------------------------------------------------------------------
(* The client of the Bank of Tanzania.                                      *)

\* What sending does to a call.
LEMMA SentWithFields ==
  ASSUME LinkTypeOK, NEW k \in Call, NEW token \in Token
  PROVE  /\ SentWith(k, token) \in Call
         /\ SentWith(k, token).pc = "out"
         /\ SentWith(k, token).token = token
         /\ SentWith(k, token).sent = now
         /\ SentWith(k, token).got = k.got
         /\ SentWith(k, token).again = k.again
         /\ SentWith(k, token).joined = k.joined
         /\ SentWith(k, token).first = k.first
         /\ SentWith(k, token).last = k.last
<1>1. SentWith(k, token) \in Call
  BY DEF LinkTypeOK, SentWith, Call
<1>2. QED
  BY <1>1 DEF SentWith, Call

\* What the end of a call does to it.
LEMMA EndedFields ==
  ASSUME NEW k \in Call,
         NEW reply \in {"unavailable", "broken", "unauthorised", "submitted", "already", "conflict"}
  PROVE  /\ Ended(k, reply) \in Call
         /\ Ended(k, reply).pc = "ended"
         /\ Ended(k, reply).got = reply
         /\ Ended(k, reply).again = k.again
         /\ Ended(k, reply).joined = k.joined
         /\ Ended(k, reply).first = k.first
         /\ Ended(k, reply).last = k.last
<1>1. Ended(k, reply) \in Call
  BY DEF Ended, Call, Answers
<1>2. QED
  BY <1>1 DEF Ended, Call

\* A call that was not answered ends or sleeps, its refusal forgotten.
LEMMA UnansweredFields ==
  ASSUME NEW k \in Call
  PROVE  /\ Unanswered(k) \in Call
         /\ \/ /\ Unanswered(k).pc = "ended" /\ Unanswered(k).got = "unavailable"
               /\ Unanswered(k).again = k.again /\ Unanswered(k).first = k.first
            \/ /\ Unanswered(k).pc = "asleep" /\ Unanswered(k).got = None
               /\ Unanswered(k).again = FALSE
<1>1. CASE k.attempt >= MaxRetries
  BY <1>1, EndedFields DEF Unanswered
<1>2. CASE ~(k.attempt >= MaxRetries)
  <2>1. PICK n \in Nat : n = k.attempt + 1
    BY DEF Call
  <2>2. PICK w : w = [k EXCEPT !.pc = "asleep", !.attempt = n, !.again = FALSE, !.joined = FALSE,
                               !.token = None, !.sent = 0, !.got = None]
    OBVIOUS
  <2>3. Unanswered(k) = w
    BY <1>2, <2>1, <2>2 DEF Unanswered
  <2>4. w \in Call
    BY <2>2 DEF Call
  <2>5. w.pc = "asleep" /\ w.got = None /\ w.again = FALSE
    BY <2>2, <2>4 DEF Call
  <2>6. QED
    BY <2>3, <2>4, <2>5
<1>3. QED
  BY <1>1, <1>2

\* What a step leaves of a call it does not touch, when the clock stands: the tokens
\* only get older, the bank only closes, and who waits goes on waiting for a sign-in
\* as young as before.
LEMMA CallStays ==
  ASSUME LinkInv, LinkTypeOK', NEW c \in Callers, call'[c] = call[c], now' = now,
         bank.epoch <= bank'.epoch,
         bank.held \subseteq bank'.held,
         ~bank.open => ~bank'.open /\ bank'.held = bank.held,
         call[c].pc = "waiting" =>
           /\ manager'.signIn # None
           /\ \/ manager'.signIn = manager.signIn
              \/ manager'.signIn.got = None
              \/ bank.epoch <= manager'.signIn.got.epoch
  PROVE  CallIsTrue(c)'
<1>1. /\ call[c] \in Call /\ bank.epoch \in Nat /\ bank'.epoch \in Nat /\ now \in Nat
      /\ manager.signIn \in SignIn \cup {None}
      /\ manager'.signIn \in SignIn \cup {None}
  BY DEF LinkInv, LinkTypeOK
<1>2. AnswersFit(c)'
  BY DEF LinkInv, CallIsTrue, AnswersFit
<1>3. InFlight(c)'
  BY <1>1 DEF LinkInv, CallIsTrue, InFlight, Call, Token
<1>4. FirstRefusal(c)'
  BY <1>1 DEF LinkInv, CallIsTrue, FirstRefusal, SigningIn, Call, Token, SignIn
<1>5. BankKeepsIts(c)'
  BY <1>1 DEF LinkInv, CallIsTrue, BankKeepsIts
<1>6. QED
  BY <1>2, <1>3, <1>4, <1>5 DEF CallIsTrue

\* What asking for a token comes to: it is sent at once, or waits for a sign-in.
LEMMA RequestFacts ==
  ASSUME LinkInv, NEW c \in Callers, NEW k \in Call, NEW m,
         m \in [token: Token \cup {None}, renewAt: Nat, signIn: SignIn \cup {None}],
         Request(c, k, m)
  PROVE  /\ call' \in [Callers -> Call]
         /\ \A d \in Callers \ {c} : call'[d] = call[d]
         /\ \/ /\ m.token # None /\ now < m.renewAt /\ manager' = m
               /\ call'[c] = SentWith(k, m.token)
            \/ /\ call'[c].pc = "waiting" /\ call'[c].got = k.got
               /\ call'[c].again = k.again /\ call'[c].first = k.first
               /\ call'[c].joined = (k.again /\ m.signIn # None)
               /\ manager'.token = m.token /\ manager'.renewAt = m.renewAt
               /\ m.signIn # None => manager' = m
               /\ m.signIn = None => manager'.signIn = [sent |-> now, got |-> None]
         /\ manager' \in [token: Token \cup {None}, renewAt: Nat, signIn: SignIn \cup {None}]
<1>1. now \in Nat /\ call \in [Callers -> Call]
  BY DEF LinkInv, LinkTypeOK
<1>2. CASE m.token # None /\ now < m.renewAt
  <2>1. m.token \in Token
    BY <1>2
  <2>2. SentWith(k, m.token) \in Call
    BY <2>1, SentWithFields DEF LinkInv
  <2>3. call' = [call EXCEPT ![c] = SentWith(k, m.token)] /\ manager' = m
    BY <1>2 DEF Request
  <2>4. QED
    BY <1>1, <1>2, <2>2, <2>3
<1>3. CASE ~(m.token # None /\ now < m.renewAt)
  <2>1. PICK joins \in BOOLEAN : joins = (k.again /\ m.signIn # None)
    OBVIOUS
  <2>2. PICK w : w = [k EXCEPT !.pc = "waiting", !.joined = joins]
    OBVIOUS
  <2>3. w \in Call
    BY <2>2 DEF Call
  <2>4. call' = [call EXCEPT ![c] = w]
    BY <1>3, <2>1, <2>2 DEF Request
  <2>5. [sent |-> now, got |-> None] \in SignIn
    BY <1>1 DEF SignIn
  <2>6. manager' = IF m.signIn # None THEN m ELSE [m EXCEPT !.signIn = [sent |-> now, got |-> None]]
    BY <1>3 DEF Request
  <2>7. /\ manager'.token = m.token /\ manager'.renewAt = m.renewAt
        /\ m.signIn # None => manager' = m
        /\ m.signIn = None => manager'.signIn = [sent |-> now, got |-> None]
        /\ manager' \in [token: Token \cup {None}, renewAt: Nat, signIn: SignIn \cup {None}]
    BY <2>5, <2>6
  <2>8. call'[c] = w /\ \A d \in Callers \ {c} : call'[d] = call[d]
    BY <1>1, <2>4
  <2>9. call' \in [Callers -> Call]
    BY <1>1, <2>3, <2>4
  <2>10. /\ w.pc = "waiting" /\ w.got = k.got /\ w.again = k.again /\ w.first = k.first
         /\ w.joined = joins
    BY <2>2, <2>3 DEF Call
  <2>11. QED
    BY <2>1, <2>7, <2>8, <2>9, <2>10
<1>4. QED
  BY <1>2, <1>3

\* No answer is no string.
LEMMA NoAnswer ==
  None \notin {"refused", "taken", "duplicate", "late", "unavailable", "broken",
                "unauthorised", "submitted", "already", "conflict"}
BY LinkAssumption DEF Answers

\* Initially nothing is asked for.
LEMMA LinkInitInv == LinkInit => LinkInv
<1> SUFFICES ASSUME LinkInit PROVE LinkInv
  OBVIOUS
<1>1. LinkTypeOK
  BY LinkAssumption DEF LinkInit, LinkTypeOK, Call
<1>2. SignInIsOwn /\ TokenLasts
  BY DEF LinkInit, SignInIsOwn, SigningIn, TokenLasts
<1>3. ASSUME NEW c \in Callers
      PROVE  /\ call[c].pc = "idle" /\ call[c].got = None /\ ~call[c].again
             /\ call[c].joined = FALSE
  BY DEF LinkInit
<1>4. ASSUME NEW c \in Callers PROVE CallIsTrue(c)
  BY <1>3, NoAnswer DEF CallIsTrue, AnswersFit, InFlight, FirstRefusal, BankKeepsIts
<1>5. QED
  BY <1>1, <1>2, <1>4 DEF LinkInv

\* The request of a call, a first or another attempt, keeps the invariant.
LEMMA AskInv ==
  ASSUME LinkInv, NEW c \in Callers, call[c].pc \in {"idle", "asleep"},
         Request(c, call[c], manager), UNCHANGED <<now, bank, strays, reachable, losses>>
  PROVE  LinkInv'
<1>1. /\ call[c] \in Call /\ call[c].got = None /\ ~call[c].again
      /\ manager \in [token: Token \cup {None}, renewAt: Nat, signIn: SignIn \cup {None}]
      /\ now \in Nat /\ bank.epoch \in Nat
  BY DEF LinkInv, LinkTypeOK, CallIsTrue, AnswersFit
<1>2. /\ call' \in [Callers -> Call]
      /\ \A d \in Callers \ {c} : call'[d] = call[d]
      /\ \/ /\ manager.token # None /\ now < manager.renewAt /\ manager' = manager
            /\ call'[c] = SentWith(call[c], manager.token)
         \/ /\ call'[c].pc = "waiting" /\ call'[c].got = None /\ ~call'[c].again
            /\ manager'.token = manager.token /\ manager'.renewAt = manager.renewAt
            /\ manager.signIn # None => manager' = manager
            /\ manager.signIn = None => manager'.signIn = [sent |-> now, got |-> None]
      /\ manager' \in [token: Token \cup {None}, renewAt: Nat, signIn: SignIn \cup {None}]
  BY <1>1, RequestFacts
<1>3. LinkTypeOK'
  BY <1>2 DEF LinkInv, LinkTypeOK
<1>4. manager'.signIn = manager.signIn
        \/ (manager.signIn = None /\ manager'.signIn = [sent |-> now, got |-> None])
  BY <1>2
<1>5. manager'.signIn # None => manager'.signIn # None /\ manager'.signIn \in SignIn
  BY <1>2
<1>6. SignInIsOwn'
  BY <1>1, <1>4, LinkAssumption DEF LinkInv, SignInIsOwn, SigningIn, SignIn
<1>7. TokenLasts'
  BY <1>2 DEF LinkInv, TokenLasts
<1>8. ASSUME NEW d \in Callers, d # c PROVE CallIsTrue(d)'
  <2>1. call'[d] = call[d]
    BY <1>2, <1>8
  <2>2. call[d].pc = "waiting" => manager.signIn # None
    BY DEF LinkInv, CallIsTrue, FirstRefusal, SigningIn
  <2>3. QED
    BY <1>1, <1>3, <1>4, <2>1, <2>2, CallStays
<1>9. CallIsTrue(c)'
  <2>1. CASE /\ manager.token # None /\ now < manager.renewAt /\ manager' = manager
             /\ call'[c] = SentWith(call[c], manager.token)
    <3>1. manager.token \in Token /\ manager.renewAt \in Nat /\ manager.token.expires \in Nat
      BY <1>1, <2>1 DEF Token
    <3>2. /\ call'[c].pc = "out" /\ call'[c].token = manager.token /\ call'[c].sent = now
          /\ call'[c].got = None /\ ~call'[c].again
      BY <1>1, <2>1, <3>1, SentWithFields DEF LinkInv
    <3>3. manager.renewAt + Timeout <= manager.token.expires /\ manager.token.epoch <= bank.epoch
      BY <2>1 DEF LinkInv, TokenLasts
    <3>4. InFlight(c)'
      BY <1>1, <2>1, <3>1, <3>2, <3>3, LinkAssumption DEF InFlight
    <3>5. QED
      BY <3>2, <3>4, NoAnswer DEF CallIsTrue, AnswersFit, FirstRefusal, BankKeepsIts
  <2>2. CASE /\ call'[c].pc = "waiting" /\ call'[c].got = None /\ ~call'[c].again
             /\ manager.signIn # None => manager' = manager
             /\ manager.signIn = None => manager'.signIn = [sent |-> now, got |-> None]
    <3>a. [sent |-> now, got |-> None] \in SignIn
      BY <1>1 DEF SignIn
    <3>1. manager'.signIn # None
      BY <2>2, <3>a, LinkAssumption
    <3>2. QED
      BY <2>2, <3>1, NoAnswer
      DEF CallIsTrue, AnswersFit, InFlight, FirstRefusal, BankKeepsIts, SigningIn
  <2>3. QED
    BY <1>2, <2>1, <2>2
<1>10. QED
  BY <1>3, <1>6, <1>7, <1>8, <1>9 DEF LinkInv

\* A submission, and another attempt.
LEMMA SubmitInv ==
  ASSUME LinkInv, NEW c \in Callers, Submit(c) \/ Retry(c)
  PROVE  LinkInv'
BY AskInv DEF Submit, Retry

\* What a step that ends or suspends one call, or takes its answer, has to show: the
\* sign-in, the token, the clock and the bank being left as they are.
LEMMA OneCallInv ==
  ASSUME LinkInv, NEW c \in Callers, NEW k \in Call, call' = [call EXCEPT ![c] = k],
         UNCHANGED <<now, manager, bank>>, strays' \subseteq Callers \X Token, losses' \in Nat,
         CallIsTrue(c)'
  PROVE  LinkInv'
<1>1. call \in [Callers -> Call] /\ bank.epoch \in Nat
  BY DEF LinkInv, LinkTypeOK
<1>2. LinkTypeOK'
  BY <1>1 DEF LinkInv, LinkTypeOK
<1>3. SignInIsOwn' /\ TokenLasts'
  BY DEF LinkInv, SignInIsOwn, SigningIn, TokenLasts
<1>4. ASSUME NEW d \in Callers, d # c PROVE CallIsTrue(d)'
  <2>1. call'[d] = call[d]
    BY <1>1, <1>4
  <2>2. call[d].pc = "waiting" => manager'.signIn # None
    BY DEF LinkInv, CallIsTrue, FirstRefusal, SigningIn
  <2>3. QED
    BY <1>1, <1>2, <2>1, <2>2, CallStays
<1>5. QED
  BY <1>2, <1>3, <1>4 DEF LinkInv

\* A call that went unanswered, or broke off, was told nothing of its batch.
LEMMA LoseCallInv ==
  ASSUME LinkInv, NEW c \in Callers, LoseCall(c)
  PROVE  LinkInv'
<1>1. /\ call \in [Callers -> Call] /\ call[c] \in Call /\ losses' \in Nat
      /\ strays \subseteq Callers \X Token
  BY DEF LinkInv, LinkTypeOK, LoseCall, Lose
<1>2. PICK k : k = Unanswered(call[c])
  OBVIOUS
<1>3. /\ k \in Call
      /\ \/ /\ k.pc = "ended" /\ k.got = "unavailable"
            /\ k.again = call[c].again /\ k.first = call[c].first
         \/ k.pc = "asleep" /\ k.got = None /\ k.again = FALSE
  BY <1>1, <1>2, UnansweredFields
<1>4. call' = [call EXCEPT ![c] = k] /\ call'[c] = k /\ UNCHANGED <<now, manager, bank>>
  BY <1>1, <1>2 DEF LoseCall
<1>5. strays' \subseteq Callers \X Token
  <2>1. call[c].pc = "out" => call[c].token \in Token
    BY <1>1 DEF LinkInv, CallIsTrue, InFlight, Call
  <2>2. QED
    BY <1>1, <2>1 DEF LoseCall, OnTheWay
<1>6. CallIsTrue(c)'
  BY <1>3, <1>4, NoAnswer
  DEF LinkInv, CallIsTrue, AnswersFit, InFlight, FirstRefusal, BankKeepsIts
<1>7. QED
  BY <1>1, <1>3, <1>4, <1>5, <1>6, OneCallInv

LEMMA BreakCallInv ==
  ASSUME LinkInv, NEW c \in Callers, BreakCall(c)
  PROVE  LinkInv'
<1>1. /\ call \in [Callers -> Call] /\ call[c] \in Call /\ losses' \in Nat
      /\ strays \subseteq Callers \X Token /\ UNCHANGED strays
  BY DEF LinkInv, LinkTypeOK, BreakCall, Lose
<1>2. PICK k : k = Ended(call[c], "broken")
  OBVIOUS
<1>3. /\ k \in Call /\ k.pc = "ended" /\ k.got = "broken"
      /\ k.again = call[c].again /\ k.first = call[c].first
  BY <1>1, <1>2, EndedFields
<1>4. call' = [call EXCEPT ![c] = k] /\ call'[c] = k /\ UNCHANGED <<now, manager, bank>>
  BY <1>1, <1>2 DEF BreakCall
<1>5. CallIsTrue(c)'
  BY <1>3, <1>4, NoAnswer
  DEF LinkInv, CallIsTrue, AnswersFit, InFlight, FirstRefusal, BankKeepsIts
<1>6. QED
  BY <1>1, <1>3, <1>4, <1>5, OneCallInv

\* What the caller is told is what the bank answered.
LEMMA AnsweredCallInv ==
  ASSUME LinkInv, NEW c \in Callers, AnsweredCall(c)
  PROVE  LinkInv'
<1>1. /\ call \in [Callers -> Call] /\ call[c] \in Call /\ losses' \in Nat
      /\ strays \subseteq Callers \X Token /\ UNCHANGED strays
  BY DEF LinkInv, LinkTypeOK, AnsweredCall
<1>2. call[c].got \in {"taken", "duplicate", "late"}
  BY DEF AnsweredCall, LinkInv, CallIsTrue, AnswersFit
<1>3. PICK reply \in {"submitted", "already", "conflict"} :
        /\ reply = Told(call[c].got)
        /\ reply \in {"submitted", "already"} => call[c].got \in {"taken", "duplicate"}
        /\ reply = "conflict" => call[c].got = "late"
  BY <1>2 DEF Told
<1>4. PICK k : k = Ended(call[c], reply)
  OBVIOUS
<1>5. /\ k \in Call /\ k.pc = "ended" /\ k.got = reply
      /\ k.again = call[c].again /\ k.first = call[c].first
  BY <1>1, <1>4, EndedFields
<1>6. call' = [call EXCEPT ![c] = k] /\ call'[c] = k /\ UNCHANGED <<now, manager, bank>>
  BY <1>1, <1>3, <1>4 DEF AnsweredCall
<1>7. CallIsTrue(c)'
  BY <1>3, <1>5, <1>6 DEF LinkInv, CallIsTrue, AnswersFit, InFlight, FirstRefusal, BankKeepsIts
<1>8. QED
  BY <1>1, <1>5, <1>6, <1>7, OneCallInv

\* A second refusal ends the call; a first throws the token away, and sends for another,
\* or joins a sign-in under way.
LEMMA Refused401Inv ==
  ASSUME LinkInv, NEW c \in Callers, Refused401(c)
  PROVE  LinkInv'
<1>1. /\ call \in [Callers -> Call] /\ call[c] \in Call /\ losses' \in Nat
      /\ strays \subseteq Callers \X Token /\ UNCHANGED strays
      /\ manager \in [token: Token \cup {None}, renewAt: Nat, signIn: SignIn \cup {None}]
      /\ now \in Nat /\ bank.epoch \in Nat /\ UNCHANGED <<now, bank>>
  BY DEF LinkInv, LinkTypeOK, Refused401
<1>2. /\ call[c].pc = "back" /\ call[c].got = "refused"
      /\ call[c].first # None /\ call[c].first <= bank.epoch
  BY DEF Refused401, LinkInv, CallIsTrue, FirstRefusal
<1>3. CASE call[c].again
  <2>1. PICK k : k = Ended(call[c], "unauthorised")
    OBVIOUS
  <2>2. /\ k \in Call /\ k.pc = "ended" /\ k.got = "unauthorised"
        /\ k.again = call[c].again /\ k.first = call[c].first /\ k.last = call[c].last
        /\ k.joined = call[c].joined
    BY <1>1, <2>1, EndedFields
  <2>3. call' = [call EXCEPT ![c] = k] /\ call'[c] = k /\ UNCHANGED manager
    BY <1>1, <1>3, <2>1 DEF Refused401
  <2>4. CallIsTrue(c)'
    BY <1>1, <1>2, <1>3, <2>2, <2>3
    DEF LinkInv, CallIsTrue, AnswersFit, InFlight, FirstRefusal, BankKeepsIts
  <2>5. QED
    BY <1>1, <2>2, <2>3, <2>4, OneCallInv
<1>4. CASE ~call[c].again
  <2>1. PICK m : m = Invalidated(manager)
    OBVIOUS
  <2>2. /\ m \in [token: Token \cup {None}, renewAt: Nat, signIn: SignIn \cup {None}]
        /\ m.token = None /\ m.signIn = manager.signIn
    BY <1>1, <2>1 DEF Invalidated
  <2>3. PICK k : k = [call[c] EXCEPT !.again = TRUE]
    OBVIOUS
  <2>4. k \in Call /\ k.got = "refused" /\ k.again = TRUE /\ k.first = call[c].first
    BY <1>1, <1>2, <2>3 DEF Call
  <2>5. Request(c, k, m)
    BY <1>4, <2>1, <2>3 DEF Refused401
  <2>6. /\ call' \in [Callers -> Call]
        /\ \A d \in Callers \ {c} : call'[d] = call[d]
        /\ call'[c].pc = "waiting" /\ call'[c].got = "refused"
        /\ call'[c].again = TRUE /\ call'[c].first = call[c].first
        /\ call'[c].joined = (manager.signIn # None)
        /\ manager'.token = None
        /\ manager.signIn # None => manager'.signIn = manager.signIn
        /\ manager.signIn = None => manager'.signIn = [sent |-> now, got |-> None]
        /\ manager' \in [token: Token \cup {None}, renewAt: Nat, signIn: SignIn \cup {None}]
    BY <2>2, <2>4, <2>5, RequestFacts
  <2>7. LinkTypeOK'
    BY <1>1, <2>6 DEF LinkInv, LinkTypeOK
  <2>8. [sent |-> now, got |-> None] \in SignIn
    BY <1>1 DEF SignIn
  <2>9. manager'.signIn # None
    BY <2>6, <2>8, LinkAssumption
  <2>10. SignInIsOwn' /\ TokenLasts'
    BY <1>1, <2>6, <2>8, LinkAssumption DEF LinkInv, SignInIsOwn, SigningIn, TokenLasts, SignIn
  <2>11. ASSUME NEW d \in Callers, d # c PROVE CallIsTrue(d)'
    <3>1. call'[d] = call[d]
      BY <2>6, <2>11
    <3>2. manager'.signIn = manager.signIn \/ manager'.signIn.got = None
      BY <2>6
    <3>3. QED
      BY <1>1, <2>7, <2>9, <3>1, <3>2, CallStays
  <2>12. CallIsTrue(c)'
    <3>a. manager.signIn = None => manager'.signIn.got = None
      BY <2>6
    <3>b. call'[c].joined = (manager.signIn # None)
      BY <2>6
    <3>1. call'[c].joined \/ manager'.signIn.got = None
      BY <3>a, <3>b, Zenon
    <3>2. AnswersFit(c)' /\ InFlight(c)' /\ BankKeepsIts(c)'
      BY <2>6, NoAnswer DEF AnswersFit, InFlight, BankKeepsIts
    <3>3. FirstRefusal(c)'
      BY <1>1, <1>2, <2>6, <2>9, <3>1 DEF FirstRefusal, SigningIn
    <3>4. QED
      BY <3>2, <3>3 DEF CallIsTrue
  <2>13. QED
    BY <2>7, <2>10, <2>11, <2>12 DEF LinkInv
<1>5. QED
  BY <1>3, <1>4

\* The bank says what it holds, and refuses only a token it has ended.
LEMMA VerdictFacts ==
  ASSUME LinkInv, NEW c \in Callers, NEW token
  PROVE  /\ Verdict(c, token) \in {"refused", "duplicate", "taken", "late"}
         /\ Verdict(c, token) = "refused" => ~Good(token)
         /\ Taking(c, Verdict(c, token)) \in [epoch: Nat, open: BOOLEAN, held: SUBSET Callers]
         /\ Taking(c, Verdict(c, token)).epoch = bank.epoch
         /\ Taking(c, Verdict(c, token)).open = bank.open
         /\ bank.held \subseteq Taking(c, Verdict(c, token)).held
         /\ ~bank.open => Taking(c, Verdict(c, token)).held = bank.held
         /\ Taking(c, Verdict(c, token)).held \subseteq bank.held \cup {c}
         /\ Verdict(c, token) \in {"taken", "duplicate"} =>
              c \in Taking(c, Verdict(c, token)).held
         /\ Verdict(c, token) = "late" =>
              ~bank.open /\ c \notin Taking(c, Verdict(c, token)).held
<1>1. bank \in [epoch: Nat, open: BOOLEAN, held: SUBSET Callers]
  BY DEF LinkInv, LinkTypeOK
<1>2. PICK said \in {"refused", "duplicate", "taken", "late"} :
        /\ said = Verdict(c, token)
        /\ said = "refused" => ~Good(token)
        /\ said = "duplicate" => c \in bank.held
        /\ said = "taken" => bank.open
        /\ said = "late" => ~bank.open /\ c \notin bank.held
  BY DEF Verdict
<1>3. CASE said = "taken"
  BY <1>1, <1>2, <1>3 DEF Taking
<1>4. CASE said # "taken"
  BY <1>1, <1>2, <1>4 DEF Taking
<1>5. QED
  BY <1>3, <1>4

LEMMA BankAnswersInv ==
  ASSUME LinkInv, NEW c \in Callers, BankAnswers(c)
  PROVE  LinkInv'
<1>1. /\ call \in [Callers -> Call] /\ call[c] \in Call /\ now \in Nat /\ bank.epoch \in Nat
      /\ UNCHANGED <<now, manager, strays, losses>>
  BY DEF LinkInv, LinkTypeOK, BankAnswers
<1>2. /\ call[c].pc = "out" /\ call[c].token \in Token
      /\ now < call[c].token.expires /\ call[c].token.epoch <= bank.epoch
      /\ now <= call[c].sent + Timeout
      /\ call[c].again /\ ~call[c].joined => call[c].first <= call[c].token.epoch
      /\ call[c].again => call[c].first # None /\ call[c].first <= bank.epoch
  BY <1>1, LinkAssumption
  DEF BankAnswers, LinkInv, CallIsTrue, InFlight, FirstRefusal, Call, Token
<1>3. PICK said : said = Verdict(c, call[c].token)
  OBVIOUS
<1>4. bank' = Taking(c, said)
  BY <1>3 DEF BankAnswers
<1>5. /\ said \in {"refused", "duplicate", "taken", "late"}
      /\ said = "refused" => ~Good(call[c].token)
      /\ bank' \in [epoch: Nat, open: BOOLEAN, held: SUBSET Callers]
      /\ bank'.epoch = bank.epoch /\ bank'.open = bank.open
      /\ bank.held \subseteq bank'.held
      /\ ~bank.open => bank'.held = bank.held
      /\ said \in {"taken", "duplicate"} => c \in bank'.held
      /\ said = "late" => ~bank.open /\ c \notin bank'.held
  BY <1>3, <1>4, VerdictFacts
<1>6. said = "refused" => call[c].token.epoch < bank.epoch
  BY <1>1, <1>2, <1>5 DEF Good, Token
<1>7. PICK first, last :
        /\ first = IF said = "refused" /\ ~call[c].again THEN bank.epoch ELSE call[c].first
        /\ last = IF said = "refused" THEN bank.epoch ELSE call[c].last
        /\ call' = [call EXCEPT ![c] = [call[c] EXCEPT !.pc = "back", !.got = said,
                                                     !.first = first, !.last = last]]
  BY <1>3 DEF BankAnswers
<1>8. PICK k : k = [call[c] EXCEPT !.pc = "back", !.got = said, !.first = first, !.last = last]
  OBVIOUS
<1>9. first \in Nat \cup {None} /\ last \in Nat \cup {None}
  BY <1>1, <1>7 DEF Call
<1>10. k \in Call
  BY <1>1, <1>5, <1>8, <1>9 DEF Call, Answers
<1>11. /\ k.pc = "back" /\ k.got = said /\ k.first = first /\ k.last = last
       /\ k.again = call[c].again /\ k.joined = call[c].joined /\ k.sent = call[c].sent
  BY <1>1, <1>8 DEF Call
<1>12. call'[c] = k /\ \A d \in Callers \ {c} : call'[d] = call[d]
  BY <1>1, <1>7, <1>8
<1>13. LinkTypeOK'
  BY <1>1, <1>5, <1>7, <1>8, <1>10 DEF LinkInv, LinkTypeOK
<1>14. SignInIsOwn' /\ TokenLasts'
  BY <1>1, <1>5 DEF LinkInv, SignInIsOwn, SigningIn, TokenLasts
<1>15. ASSUME NEW d \in Callers, d # c PROVE CallIsTrue(d)'
  <2>1. call'[d] = call[d]
    BY <1>12, <1>15
  <2>2. call[d].pc = "waiting" => manager'.signIn # None
    BY <1>1 DEF LinkInv, CallIsTrue, FirstRefusal, SigningIn
  <2>3. QED
    BY <1>1, <1>5, <1>13, <2>1, <2>2, CallStays
<1>16. CallIsTrue(c)'
  <2>1. AnswersFit(c)' /\ InFlight(c)' /\ BankKeepsIts(c)'
    BY <1>1, <1>2, <1>5, <1>11, <1>12 DEF AnswersFit, InFlight, BankKeepsIts
  <2>2. k.again \/ said = "refused" => k.first # None /\ k.first <= bank.epoch
    BY <1>1, <1>2, <1>7, <1>11, LinkAssumption
  <2>3. said = "refused" /\ k.again =>
          k.joined \/ (k.first # None /\ k.last # None /\ k.first < k.last)
    <3>1. SUFFICES ASSUME said = "refused", k.again, ~k.joined
                   PROVE  k.first # None /\ k.last # None /\ k.first < k.last
      OBVIOUS
    <3>2. /\ k.first = call[c].first /\ k.last = bank.epoch /\ call[c].first # None
          /\ call[c].first <= call[c].token.epoch /\ call[c].token.epoch < bank.epoch
      BY <1>2, <1>6, <1>7, <1>11, <3>1
    <3>3. QED
      BY <1>1, <1>2, <3>2, LinkAssumption DEF Call, Token
  <2>4. FirstRefusal(c)'
    BY <1>5, <1>11, <1>12, <2>2, <2>3 DEF FirstRefusal
  <2>5. QED
    BY <2>1, <2>4 DEF CallIsTrue
<1>17. QED
  BY <1>13, <1>14, <1>15, <1>16 DEF LinkInv

\* What a step of the bank, or of time, that touches no call has to show.
LEMMA NoCallInv ==
  ASSUME LinkInv, UNCHANGED <<now, call, losses>>, strays' \subseteq Callers \X Token,
         bank' \in [epoch: Nat, open: BOOLEAN, held: SUBSET Callers],
         bank.epoch <= bank'.epoch,
         bank.held \subseteq bank'.held,
         ~bank.open => ~bank'.open /\ bank'.held = bank.held,
         UNCHANGED manager
  PROVE  LinkInv'
<1>1. bank.epoch \in Nat /\ bank'.epoch \in Nat
  BY DEF LinkInv, LinkTypeOK
<1>2. LinkTypeOK'
  BY DEF LinkInv, LinkTypeOK
<1>3. manager.token # None => manager.token.epoch \in Nat
  BY DEF LinkInv, LinkTypeOK, Token
<1>4. SigningIn /\ manager.signIn.got # None => manager.signIn.got.epoch \in Nat
  BY DEF LinkInv, LinkTypeOK, SigningIn, SignIn, Token
<1>5. SignInIsOwn' /\ TokenLasts'
  BY <1>1, <1>3, <1>4 DEF LinkInv, SignInIsOwn, SigningIn, TokenLasts
<1>6. ASSUME NEW c \in Callers PROVE CallIsTrue(c)'
  <2>1. call[c].pc = "waiting" => manager'.signIn # None
    BY DEF LinkInv, CallIsTrue, FirstRefusal, SigningIn
  <2>2. QED
    BY <1>1, <1>2, <2>1, CallStays
<1>7. QED
  BY <1>2, <1>5, <1>6 DEF LinkInv

\* A request nobody waits for is taken or turned down like any other; all tokens end;
\* the auction closes.
LEMMA BankInv ==
  ASSUME LinkInv, (\E s \in strays : BankSeesStray(s)) \/ EndTokens \/ CutOff
  PROVE  LinkInv'
<1>1. /\ bank \in [epoch: Nat, open: BOOLEAN, held: SUBSET Callers]
      /\ strays \subseteq Callers \X Token
  BY DEF LinkInv, LinkTypeOK
<1>2. ASSUME NEW s \in strays, BankSeesStray(s) PROVE LinkInv'
  <2>1. s[1] \in Callers /\ s[2] \in Token
    BY <1>1
  <2>2. PICK c \in Callers, token \in Token : bank' = Taking(c, Verdict(c, token))
    BY <1>2, <2>1 DEF BankSeesStray
  <2>3. /\ bank' \in [epoch: Nat, open: BOOLEAN, held: SUBSET Callers]
        /\ bank'.epoch = bank.epoch /\ bank'.open = bank.open
        /\ bank.held \subseteq bank'.held
        /\ ~bank.open => bank'.held = bank.held
    BY <2>2, VerdictFacts
  <2>4. strays' \subseteq Callers \X Token /\ UNCHANGED <<now, manager, call, losses>>
    BY <1>1, <1>2 DEF BankSeesStray
  <2>5. QED
    BY <1>1, <2>3, <2>4, NoCallInv
<1>3. ASSUME EndTokens PROVE LinkInv'
  <2>1. /\ bank' \in [epoch: Nat, open: BOOLEAN, held: SUBSET Callers]
        /\ bank'.epoch = bank.epoch + 1 /\ bank'.open = bank.open /\ bank'.held = bank.held
    BY <1>1, <1>3 DEF EndTokens
  <2>2. QED
    BY <1>1, <1>3, <2>1, NoCallInv DEF EndTokens
<1>4. ASSUME CutOff PROVE LinkInv'
  <2>1. /\ bank' \in [epoch: Nat, open: BOOLEAN, held: SUBSET Callers]
        /\ bank'.epoch = bank.epoch /\ bank'.open = FALSE /\ bank'.held = bank.held /\ bank.open
    BY <1>1, <1>4 DEF CutOff
  <2>2. QED
    BY <1>1, <1>4, <2>1, NoCallInv DEF CutOff
<1>5. QED
  BY <1>2, <1>3, <1>4

\* The token is made while the sign-in is on its way, and lives from then.
LEMMA BankSignsInInv ==
  ASSUME LinkInv, BankSignsIn
  PROVE  LinkInv'
<1>1. /\ now \in Nat /\ bank.epoch \in Nat
      /\ manager \in [token: Token \cup {None}, renewAt: Nat, signIn: SignIn \cup {None}]
      /\ manager.signIn \in SignIn /\ manager.signIn.got = None
      /\ {Lifetime, Timeout} \subseteq Nat
      /\ UNCHANGED <<now, call, bank, strays, losses>>
  BY LinkAssumption DEF LinkInv, LinkTypeOK, BankSignsIn, SigningIn
<1>2. PICK token : token = [epoch |-> bank.epoch, expires |-> now + Lifetime]
  OBVIOUS
<1>3. token \in Token /\ token # None /\ token.epoch = bank.epoch /\ token.expires = now + Lifetime
  BY <1>1, <1>2, LinkAssumption DEF Token
<1>4. PICK s : s = [manager.signIn EXCEPT !.got = token]
  OBVIOUS
<1>5. s \in SignIn /\ s # None /\ s.sent = manager.signIn.sent /\ s.got = token
  BY <1>1, <1>3, <1>4, LinkAssumption DEF SignIn
<1>6. manager' = [manager EXCEPT !.signIn = s]
  BY <1>2, <1>4 DEF BankSignsIn
<1>7. /\ manager' \in [token: Token \cup {None}, renewAt: Nat, signIn: SignIn \cup {None}]
      /\ manager'.token = manager.token /\ manager'.renewAt = manager.renewAt
      /\ manager'.signIn = s
  BY <1>1, <1>5, <1>6
<1>8. LinkTypeOK'
  BY <1>1, <1>7 DEF LinkInv, LinkTypeOK
<1>9. TokenLasts'
  BY <1>1, <1>7 DEF LinkInv, TokenLasts
<1>10. SignInIsOwn'
  <2>1. /\ manager.signIn.sent <= now /\ now <= manager.signIn.sent + Timeout
        /\ manager.signIn.sent \in Nat
    BY <1>1, LinkAssumption DEF LinkInv, SignInIsOwn, SigningIn, SignIn
  <2>2. QED
    BY <1>1, <1>3, <1>5, <1>7, <2>1 DEF SignInIsOwn, SigningIn
<1>11. ASSUME NEW c \in Callers PROVE CallIsTrue(c)'
  BY <1>1, <1>3, <1>5, <1>7, <1>8, CallStays
<1>12. QED
  BY <1>8, <1>9, <1>10, <1>11 DEF LinkInv

\* Everybody who waited is sent on with a token that outlives the request, and that is
\* younger than the refusal it follows.
LEMMA SignedInInv ==
  ASSUME LinkInv, SignedInAtBank
  PROVE  LinkInv'
<1>1. PICK token : token = manager.signIn.got
  OBVIOUS
<1>2. /\ now \in Nat /\ bank.epoch \in Nat /\ manager.signIn \in SignIn /\ token \in Token
      /\ call \in [Callers -> Call] /\ {Lifetime, RenewAfter, Timeout} \subseteq Nat
      /\ token # None
      /\ UNCHANGED <<now, bank, strays, losses>>
  BY <1>1, LinkAssumption DEF LinkInv, LinkTypeOK, SignedInAtBank, SigningIn, SignIn
<1>3. /\ manager.signIn.sent \in Nat /\ token.expires \in Nat /\ token.epoch \in Nat
      /\ now <= manager.signIn.sent + Timeout
      /\ manager.signIn.sent + Lifetime <= token.expires /\ token.epoch <= bank.epoch
  BY <1>1, <1>2 DEF LinkInv, SignInIsOwn, SignedInAtBank, SigningIn, SignIn, Token
<1>4. now + Timeout < token.expires /\ now + RenewAfter + Timeout <= token.expires
  BY <1>2, <1>3, LinkAssumption
<1>5. manager' = [token |-> token, renewAt |-> now + RenewAfter, signIn |-> None]
  BY <1>1 DEF SignedInAtBank, RenewAt
<1>6. call' = [c \in Callers |-> IF call[c].pc = "waiting" THEN SentWith(call[c], token) ELSE call[c]]
  BY <1>1 DEF SignedInAtBank, Waiting
<1>7. \A c \in Callers : SentWith(call[c], token) \in Call
  BY <1>2, SentWithFields DEF LinkInv
<1>8. LinkTypeOK'
  BY <1>2, <1>5, <1>6, <1>7 DEF LinkInv, LinkTypeOK
<1>9. SignInIsOwn' /\ TokenLasts'
  BY <1>2, <1>3, <1>4, <1>5 DEF SignInIsOwn, SigningIn, TokenLasts
<1>10. ASSUME NEW c \in Callers, call[c].pc # "waiting" PROVE CallIsTrue(c)'
  BY <1>2, <1>6, <1>8, <1>10, CallStays
<1>11. ASSUME NEW c \in Callers, call[c].pc = "waiting" PROVE CallIsTrue(c)'
  <2>1. call[c] \in Call /\ call'[c] = SentWith(call[c], token)
    BY <1>2, <1>6, <1>11
  <2>2. /\ call'[c].pc = "out" /\ call'[c].token = token /\ call'[c].sent = now
        /\ call'[c].got = call[c].got /\ call'[c].again = call[c].again
        /\ call'[c].joined = call[c].joined /\ call'[c].first = call[c].first
    BY <1>2, <2>1, SentWithFields DEF LinkInv
  <2>3. call[c].got \in {None, "refused"}
    BY <1>11 DEF LinkInv, CallIsTrue, AnswersFit
  <2>4. /\ call[c].again => call[c].first # None /\ call[c].first <= bank.epoch
        /\ call[c].again /\ ~call[c].joined => call[c].first <= token.epoch
    BY <1>1, <1>2, <1>11 DEF LinkInv, CallIsTrue, FirstRefusal
  <2>5. AnswersFit(c)' /\ BankKeepsIts(c)'
    BY <2>2, <2>3, NoAnswer DEF AnswersFit, BankKeepsIts
  <2>6. InFlight(c)'
    BY <1>2, <1>3, <1>4, <2>2 DEF InFlight
  <2>7. FirstRefusal(c)'
    BY <1>2, <2>2, <2>3, <2>4, NoAnswer DEF FirstRefusal
  <2>8. QED
    BY <2>5, <2>6, <2>7 DEF CallIsTrue
<1>12. QED
  BY <1>8, <1>9, <1>10, <1>11 DEF LinkInv

\* A sign-in that fails leaves nobody waiting.
LEMMA LoseSignInInv ==
  ASSUME LinkInv, LoseSignIn
  PROVE  LinkInv'
<1>1. /\ call \in [Callers -> Call] /\ losses' \in Nat /\ bank.epoch \in Nat
      /\ manager \in [token: Token \cup {None}, renewAt: Nat, signIn: SignIn \cup {None}]
      /\ UNCHANGED <<now, bank, strays>>
  BY DEF LinkInv, LinkTypeOK, LoseSignIn, Lose
<1>2. manager' = [manager EXCEPT !.signIn = None]
  BY DEF LoseSignIn
<1>3. /\ manager' \in [token: Token \cup {None}, renewAt: Nat, signIn: SignIn \cup {None}]
      /\ manager'.token = manager.token /\ manager'.renewAt = manager.renewAt
      /\ manager'.signIn = None
  BY <1>1, <1>2
<1>4. call' = [c \in Callers |-> IF call[c].pc = "waiting" THEN Unanswered(call[c]) ELSE call[c]]
  BY DEF LoseSignIn, Waiting
<1>5. \A c \in Callers : Unanswered(call[c]) \in Call
  BY <1>1, UnansweredFields
<1>6. LinkTypeOK'
  BY <1>1, <1>3, <1>4, <1>5 DEF LinkInv, LinkTypeOK
<1>7. SignInIsOwn' /\ TokenLasts'
  BY <1>1, <1>3 DEF LinkInv, SignInIsOwn, SigningIn, TokenLasts
<1>8. ASSUME NEW c \in Callers, call[c].pc # "waiting" PROVE CallIsTrue(c)'
  BY <1>1, <1>4, <1>6, <1>8, CallStays
<1>9. ASSUME NEW c \in Callers, call[c].pc = "waiting" PROVE CallIsTrue(c)'
  <2>1. /\ \/ /\ call'[c].pc = "ended" /\ call'[c].got = "unavailable"
              /\ call'[c].again = call[c].again /\ call'[c].first = call[c].first
           \/ call'[c].pc = "asleep" /\ call'[c].got = None /\ call'[c].again = FALSE
    BY <1>1, <1>4, <1>9, UnansweredFields
  <2>2. QED
    BY <1>1, <1>9, <2>1, NoAnswer
    DEF LinkInv, CallIsTrue, AnswersFit, InFlight, FirstRefusal, BankKeepsIts
<1>10. QED
  BY <1>6, <1>7, <1>8, <1>9 DEF LinkInv

\* Time stands while a request that has run out has not been given up.
LEMMA TickLinkInv ==
  ASSUME LinkInv, TickLink
  PROVE  LinkInv'
<1>1. /\ now \in Nat /\ now' = now + 1 /\ InTime /\ Timeout \in Nat
      /\ call \in [Callers -> Call]
      /\ UNCHANGED <<manager, call, bank, strays, losses>>
  BY LinkAssumption DEF LinkInv, LinkTypeOK, TickLink
<1>2. LinkTypeOK'
  BY <1>1 DEF LinkInv, LinkTypeOK
<1>3. SigningIn => manager.signIn.sent \in Nat
  BY DEF LinkInv, LinkTypeOK, SigningIn, SignIn
<1>4. SignInIsOwn' /\ TokenLasts'
  BY <1>1, <1>3 DEF LinkInv, SignInIsOwn, SigningIn, TokenLasts, InTime
<1>5. ASSUME NEW c \in Callers PROVE CallIsTrue(c)'
  <2>1. call[c].sent \in Nat /\ call[c].pc \in {"out", "back"} => now < call[c].sent + Timeout
    BY <1>1 DEF InTime, Call
  <2>2. InFlight(c)'
    BY <1>1, <2>1 DEF LinkInv, CallIsTrue, InFlight, InTime, Call
  <2>3. AnswersFit(c)' /\ FirstRefusal(c)' /\ BankKeepsIts(c)'
    BY <1>1 DEF LinkInv, CallIsTrue, AnswersFit, FirstRefusal, BankKeepsIts, SigningIn
  <2>4. QED
    BY <2>2, <2>3 DEF CallIsTrue
<1>6. QED
  BY <1>2, <1>4, <1>5 DEF LinkInv

LEMMA LinkNextInv == LinkInv /\ [LinkNext]_linkVars => LinkInv'
<1> SUFFICES ASSUME LinkInv, [LinkNext]_linkVars PROVE LinkInv'
  OBVIOUS
<1>1. ASSUME NEW c \in Callers,
             \/ Submit(c) \/ LoseCall(c) \/ BreakCall(c) \/ Retry(c)
             \/ Refused401(c) \/ AnsweredCall(c) \/ BankAnswers(c)
      PROVE  LinkInv'
  BY <1>1, SubmitInv, LoseCallInv, BreakCallInv, Refused401Inv, AnsweredCallInv, BankAnswersInv
<1>2. CASE UNCHANGED linkVars
  BY <1>2 DEF linkVars, LinkInv, LinkTypeOK, SignInIsOwn, SigningIn, TokenLasts, CallIsTrue,
              AnswersFit, InFlight, FirstRefusal, BankKeepsIts
<1>3. QED
  BY <1>1, <1>2, BankInv, BankSignsInInv, SignedInInv, LoseSignInInv, TickLinkInv DEF LinkNext

\* Whatever is lost, repeated or late on the way to the bank, however often it ends all
\* tokens and whenever it closes: a request is on its way with a token that outlives it
\* (bot-token.manager.ts renews at 80% of the token's life), a second refusal means that
\* the tokens were ended again or a sign-in joined, and a caller told of its batch was
\* told what the bank holds.
THEOREM LinkIsTrueAlways == LinkSpec => []LinkIsTrue
<1>1. LinkInit => LinkInv
  BY LinkInitInv
<1>2. LinkInv /\ [LinkNext]_linkVars => LinkInv'
  BY LinkNextInv
<1>3. LinkInv => LinkIsTrue
  <2> SUFFICES ASSUME LinkInv PROVE LinkIsTrue
    OBVIOUS
  <2>1. ASSUME NEW c \in Callers, call[c].pc = "out" PROVE call[c].token.expires > now
    <3>1. call[c].token \in Token /\ call[c].sent \in Nat /\ now \in Nat /\ Timeout \in Nat
      BY <2>1, LinkAssumption DEF LinkInv, LinkTypeOK, CallIsTrue, InFlight, Call
    <3>2. now <= call[c].sent + Timeout /\ call[c].sent + Timeout < call[c].token.expires
      BY <2>1 DEF LinkInv, CallIsTrue, InFlight
    <3>3. QED
      BY <3>1, <3>2 DEF Token
  <2>2. RefusedOnlyIfOvertaken
    BY DEF RefusedOnlyIfOvertaken, LinkInv, CallIsTrue, FirstRefusal
  <2>3. VerdictIsTrue
    BY DEF VerdictIsTrue, LinkInv, CallIsTrue, BankKeepsIts
  <2>4. QED
    BY <2>1, <2>2, <2>3 DEF LinkIsTrue, NeverExpiredInFlight
<1>4. QED
  BY <1>1, <1>2, <1>3, PTL DEF LinkSpec

----------------------------------------------------------------------------
(* The messages.                                                            *)

\* Every sender fills in what its template leaves open.
LEMMA SendersFillIn ==
  ASSUME NEW m \in Senders \cup ResultSenders
  PROVE  Placeholders[m.key] \subseteq m.vars
<1>1. CASE m \in Senders
  <2>1. PICK from, key, filled : m = [from |-> from, key |-> key, vars |-> filled]
    BY <1>1 DEF Senders, Message
  <2>2. /\ key \in Templates \ Results
        /\ key \in {"otp.registration", "otp.login"} => filled = {"code", "minutes"}
        /\ key \in {"onboarding.submitted", "kyc.under_review", "kyc.approved", "kyc.rejected"} =>
             filled = {"name"}
        /\ key = "cds.opened" => filled = {"name", "cds"}
        /\ key = "bid.placed" => filled = {"reference", "amount", "security", "held"}
    BY <1>1, <2>1 DEF Senders, Message, Templates, Results
  <2>3. QED
    BY <2>1, <2>2 DEF Placeholders, Templates, Results
<1>2. CASE m \in ResultSenders
  <2>1. PICK key \in Results : m = Message("auction", key, ResultVars(key))
    BY <1>2 DEF ResultSenders
  <2>2. m.key = key /\ m.vars = ResultVars(key)
    BY <2>1 DEF Message
  <2>3. QED
    BY <2>2 DEF Placeholders, Templates, Results, ResultVars
<1>3. QED
  BY <1>1, <1>2

LEMMA MessagesInitInv == MessagesInit => MessagesInv
BY DEF MessagesInit, MessagesInv, Results

LEMMA MessagesNextInv == MessagesInv /\ [MessagesNext]_messageVars => MessagesInv'
<1> SUFFICES ASSUME MessagesInv, [MessagesNext]_messageVars PROVE MessagesInv'
  OBVIOUS
<1>1. CASE MoneyBack
  BY <1>1 DEF MoneyBack, Onward, MessagesInv
<1>2. CASE Send
  BY <1>2 DEF Send, Onward, MessagesInv
<1>3. CASE NotSent
  BY <1>3 DEF NotSent, MessagesInv
<1>4. CASE Deliver
  BY <1>4 DEF Deliver, Onward, MessagesInv
<1>5. CASE Undelivered
  BY <1>5 DEF Undelivered, Onward, MessagesInv
<1>6. CASE Log
  BY <1>6 DEF Log, MessagesInv
<1>7. CASE LogFails
  BY <1>7 DEF LogFails, MessagesInv
<1>8. CASE UNCHANGED messageVars
  BY <1>8 DEF messageVars, MessagesInv
<1>9. QED
  BY <1>1, <1>2, <1>3, <1>4, <1>5, <1>6, <1>7, <1>8 DEF MessagesNext

\* What a customer reads is whole, money it calls released is no longer held unless
\* releasing it failed, and it is on record unless the service died before
\* (results.service.ts tells the investor after the money; notification.service.ts logs).
THEOREM MessageIsTrueAlways == MessagesSpec => []MessageIsTrue
<1>1. MessagesInv => MessageIsTrue
  BY SendersFillIn DEF MessagesInv, MessageIsTrue, SaysReleased, Results
<1>2. QED
  BY <1>1, MessagesInitInv, MessagesNextInv, PTL DEF MessagesSpec

----------------------------------------------------------------------------
(* The terms on the wire.                                                   *)

LEMMA NoTextIsNone == NoText \notin Texts
BY WireAssumption

\* A number of hundredths as it is written, without division.
Written2(n, a, b, c) ==
  /\ n = 100 * a + 10 * b + c
  /\ TwoPlaces(n) = Text(a, <<b, c>>)
  /\ n % 100 = 10 * b + c /\ n % 10 = c

LEMMA TwoPlacesShape ==
  ASSUME NEW n \in Nat
  PROVE  \E a \in Nat, b \in Digits, c \in Digits : Written2(n, a, b, c)
<1>1. /\ n \div 100 \in Nat /\ n % 100 \in 0..99 /\ (n % 100) \div 10 \in Digits /\ n % 10 \in Digits
      /\ n = 100 * (n \div 100) + 10 * ((n % 100) \div 10) + (n % 10)
      /\ n % 100 = 10 * ((n % 100) \div 10) + (n % 10)
  BY DEF Digits
<1>2. QED
  BY <1>1 DEF TwoPlaces, Written2

\* How texts read, of two, one and no places.
ReadsAs(t, whole, places, n) ==
  t \in Texts /\ t.whole = whole /\ Len(t.frac) = places /\ Hundredths(t) = n

LEMMA TwoRead ==
  ASSUME NEW a \in Nat, NEW b \in Digits, NEW c \in Digits
  PROVE  ReadsAs(Text(a, <<b, c>>), a, 2, 100 * a + 10 * b + c)
<1>1. PICK t : t = Text(a, <<b, c>>)
  OBVIOUS
<1>2. /\ <<b, c>> \in Seq(Digits) /\ Len(<<b, c>>) = 2 /\ <<b, c>>[1] = b /\ <<b, c>>[2] = c
      /\ DOMAIN <<b, c>> = 1..2
  BY DEF Digits
<1>3. t \in Texts /\ t.whole = a /\ t.frac = <<b, c>>
  BY <1>1, <1>2 DEF Text, Texts, Digits
<1>4. Digit(t, 1) = b /\ Digit(t, 2) = c
  BY <1>2, <1>3 DEF Digit, Digits
<1>5. Hundredths(t) = 100 * a + 10 * b + c
  BY <1>3, <1>4 DEF Hundredths, Digits
<1>6. ReadsAs(t, a, 2, 100 * a + 10 * b + c)
  BY <1>2, <1>3, <1>5 DEF ReadsAs
<1>7. QED
  BY <1>1, <1>6

LEMMA OneRead ==
  ASSUME NEW a \in Nat, NEW b \in Digits
  PROVE  ReadsAs(Text(a, <<b>>), a, 1, 100 * a + 10 * b)
<1>1. PICK t : t = Text(a, <<b>>)
  OBVIOUS
<1>2. <<b>> \in Seq(Digits) /\ Len(<<b>>) = 1 /\ <<b>>[1] = b /\ DOMAIN <<b>> = 1..1
  BY DEF Digits
<1>3. t \in Texts /\ t.whole = a /\ t.frac = <<b>>
  BY <1>1, <1>2 DEF Text, Texts, Digits
<1>4. Digit(t, 1) = b /\ Digit(t, 2) = 0
  BY <1>2, <1>3 DEF Digit, Digits
<1>5. Hundredths(t) = 100 * a + 10 * b
  BY <1>3, <1>4 DEF Hundredths, Digits
<1>6. ReadsAs(t, a, 1, 100 * a + 10 * b)
  BY <1>2, <1>3, <1>5 DEF ReadsAs
<1>7. QED
  BY <1>1, <1>6

LEMMA WholeRead ==
  ASSUME NEW a \in Nat
  PROVE  ReadsAs(Text(a, <<>>), a, 0, 100 * a)
<1>1. PICK t : t = Text(a, <<>>)
  OBVIOUS
<1>2. <<>> \in Seq(Digits) /\ Len(<<>>) = 0 /\ DOMAIN <<>> = 1..0
  OBVIOUS
<1>3. t \in Texts /\ t.whole = a /\ t.frac = <<>>
  BY <1>1, <1>2 DEF Text, Texts, Digits
<1>4. Digit(t, 1) = 0 /\ Digit(t, 2) = 0
  BY <1>2, <1>3 DEF Digit, Digits
<1>5. Hundredths(t) = 100 * a
  BY <1>3, <1>4 DEF Hundredths, Digits
<1>6. ReadsAs(t, a, 0, 100 * a)
  BY <1>2, <1>3, <1>5 DEF ReadsAs
<1>7. QED
  BY <1>1, <1>6

\* A price in the range, in a text of at most two places, is read by every reader.
LEMMA PriceOf ==
  ASSUME NEW t, NEW whole \in Nat, NEW places \in 0..2, NEW n \in Nat, 0 < n, n < TooHigh,
         ReadsAs(t, whole, places, n), whole < 1000
  PROVE  /\ t # NoText /\ IsPrice(t, 2) /\ IsPrice(t, 4) /\ PriceWritable(t)
         /\ PriceToHundredths(t) = <<n>>
<1>1. t \in Texts /\ t.whole < 1000 /\ Len(t.frac) <= 2 /\ Len(t.frac) \in Nat /\ Hundredths(t) = n
  BY DEF ReadsAs, Texts
<1>2. IsPrice(t, 2) /\ IsPrice(t, 4)
  BY <1>1, NoTextIsNone DEF IsPrice
<1>3. PriceToHundredths(t) = <<n>>
  BY <1>1, <1>2 DEF PriceToHundredths
<1>4. PriceWritable(t)
  BY <1>1, <1>2 DEF PriceWritable
<1>5. QED
  BY <1>1, <1>2, <1>3, <1>4, NoTextIsNone

\* A price written with two places ...
LEMMA PriceRead ==
  ASSUME NEW n \in Nat, 0 < n, n < TooHigh
  PROVE  /\ TwoPlaces(n) # NoText /\ IsPrice(TwoPlaces(n), 2) /\ PriceWritable(TwoPlaces(n))
         /\ PriceToHundredths(TwoPlaces(n)) = <<n>>
         /\ Hundredths(TwoPlaces(n)) = n
<1>1. PICK a \in Nat, b \in Digits, c \in Digits : Written2(n, a, b, c)
  BY TwoPlacesShape
<1>2. n = 100 * a + 10 * b + c
  BY <1>1 DEF Written2
<1>3. a < 1000
  BY <1>2 DEF Digits, TooHigh
<1>4. ReadsAs(Text(a, <<b, c>>), a, 2, 100 * a + 10 * b + c)
  BY <1>1, TwoRead
<1>5. ReadsAs(TwoPlaces(n), a, 2, n)
  BY <1>1, <1>4 DEF Written2
<1>6. QED
  BY <1>3, <1>5, PriceOf DEF ReadsAs

\* ... and as the shortest number.
LEMMA JsonRead ==
  ASSUME NEW n \in Nat, 0 < n, n < TooHigh
  PROVE  IsPrice(Json(n), 4) /\ Json(n) # NoText /\ PriceToHundredths(Json(n)) = <<n>>
<1>1. PICK a \in Nat, b \in Digits, c \in Digits : Written2(n, a, b, c)
  BY TwoPlacesShape
<1>2. n = 100 * a + 10 * b + c /\ n % 100 = 10 * b + c /\ n % 10 = c
  BY <1>1 DEF Written2
<1>3. a < 1000
  BY <1>2 DEF Digits, TooHigh
<1>4. TwoPlaces(n) = Text(a, <<b, c>>) /\ Text(a, <<b, c>>).whole = a /\ Text(a, <<b, c>>).frac[1] = b
  BY <1>1 DEF Written2, Text
<1>5. ASSUME NEW t, NEW places \in 0..2, ReadsAs(t, a, places, n), Json(n) = t
      PROVE  IsPrice(Json(n), 4) /\ Json(n) # NoText /\ PriceToHundredths(Json(n)) = <<n>>
  BY <1>3, <1>5, PriceOf
<1>6. CASE n % 100 = 0
  <2>1. b = 0 /\ c = 0
    BY <1>2, <1>6 DEF Digits
  <2>2. Json(n) = Text(a, <<>>)
    BY <1>4, <1>6 DEF Json
  <2>3. n = 100 * a
    BY <1>2, <2>1 DEF Digits
  <2>4. ReadsAs(Text(a, <<>>), a, 0, n)
    BY <1>1, <2>3, WholeRead
  <2>5. QED
    BY <1>5, <2>2, <2>4
<1>7. CASE n % 100 # 0 /\ n % 10 = 0
  <2>1. c = 0
    BY <1>2, <1>7 DEF Digits
  <2>2. Json(n) = Text(a, <<b>>)
    BY <1>4, <1>7 DEF Json
  <2>3. n = 100 * a + 10 * b
    BY <1>2, <2>1 DEF Digits
  <2>4. ReadsAs(Text(a, <<b>>), a, 1, n)
    BY <1>1, <2>3, OneRead
  <2>5. QED
    BY <1>5, <2>2, <2>4
<1>8. CASE n % 100 # 0 /\ n % 10 # 0
  <2>1. Json(n) = Text(a, <<b, c>>)
    BY <1>4, <1>8 DEF Json
  <2>2. ReadsAs(Text(a, <<b, c>>), a, 2, n)
    BY <1>1, <1>2, TwoRead
  <2>3. QED
    BY <1>5, <2>1, <2>2
<1>9. QED
  BY <1>6, <1>7, <1>8

\* A whole number of shillings is written with two zeros.
LEMMA MoneyOfShillings ==
  ASSUME NEW n \in Nat
  PROVE  /\ MoneyText(n * 100) = Text(n, <<0, 0>>)
         /\ ReadsAs(MoneyText(n * 100), n, 2, 100 * n)
<1>1. PICK m \in Nat : m = n * 100
  OBVIOUS
<1>2. PICK a \in Nat, b \in Digits, c \in Digits : Written2(m, a, b, c)
  BY TwoPlacesShape
<1>3. m = 100 * a + 10 * b + c /\ TwoPlaces(m) = Text(a, <<b, c>>)
  BY <1>2 DEF Written2
<1>4. a = n /\ b = 0 /\ c = 0
  BY <1>1, <1>3 DEF Digits
<1>5. TwoPlaces(m) = Text(n, <<0, 0>>)
  BY <1>3, <1>4
<1>6. ReadsAs(Text(n, <<0, 0>>), n, 2, 100 * n + 10 * 0 + 0)
  BY <1>1, <1>4, TwoRead DEF Digits
<1>7. 100 * n + 10 * 0 + 0 = 100 * n
  OBVIOUS
<1>8. QED
  BY <1>1, <1>5, <1>6, <1>7 DEF MoneyText

LEMMA WireInitInv == WireInit => WireInv
BY DEF WireInit, WireInv

\* What depends on our row alone stays with it.
LEMMA OursStays ==
  ASSUME ours' = ours
  PROVE  /\ OursIsTaken => OursIsTaken'
         /\ PriceAllotted' = PriceAllotted
         /\ sent' = sent => (SentIsOurs => SentIsOurs')
         /\ record' = record => (RecordIsOurs => RecordIsOurs')
<1>1. OursIsTaken => OursIsTaken'
  BY DEF OursIsTaken
<1>2. PriceAllotted' = PriceAllotted
  BY DEF PriceAllotted
<1>3. sent' = sent => (SentIsOurs => SentIsOurs')
  BY DEF SentIsOurs
<1>4. record' = record => (RecordIsOurs => RecordIsOurs')
  BY DEF RecordIsOurs
<1>5. QED
  BY <1>1, <1>2, <1>3, <1>4

LEMMA InPriceRange ==
  ASSUME NEW n
  PROVE  n \in PriceRange <=> n \in Int /\ 0 < n /\ n < TooHigh
<1>1. TooHigh \in Int
  BY DEF TooHigh
<1>2. QED
  BY <1>1 DEF PriceRange

\* A price the auction service takes is a number of hundredths in its range.
LEMMA PriceTaken ==
  ASSUME NEW t \in TypedPrices, PriceToHundredths(t) # <<>>
  PROVE  \E n \in PriceRange : PriceToHundredths(t) = <<n>>
<1>1. /\ IsPrice(t, 2) /\ 0 < Hundredths(t) /\ Hundredths(t) < TooHigh
      /\ PriceToHundredths(t) = <<Hundredths(t)>>
  BY DEF PriceToHundredths
<1>2. t \in Texts
  BY <1>1, WireAssumption DEF IsPrice
<1>3. t.whole \in Nat /\ t.frac \in Seq(Digits)
  BY <1>2 DEF Texts
<1>4. Digit(t, 1) \in Nat /\ Digit(t, 2) \in Nat
  <2>1. ASSUME NEW i PROVE Digit(t, i) \in Digits
    BY <1>3 DEF Digit, Digits
  <2>2. Digits \subseteq Nat
    BY DEF Digits
  <2>3. QED
    BY <2>1, <2>2
<1>5. Hundredths(t) \in Nat
  BY <1>3, <1>4 DEF Hundredths
<1>6. PICK n : n = Hundredths(t)
  OBVIOUS
<1>7. n \in Int /\ 0 < n /\ n < TooHigh
  BY <1>1, <1>5, <1>6
<1>8. n \in PriceRange
  BY <1>7, InPriceRange
<1>9. QED
  BY <1>1, <1>6, <1>8

\* The auction service keeps a bid within its rules, its price in hundredths.
LEMMA PlaceInv ==
  ASSUME WireInv, Place
  PROVE  WireInv'
<1>1. /\ form' = form /\ sent' = sent /\ record' = record /\ allotment' = allotment /\ outcome' = outcome
      /\ leg = "typed" /\ record = <<>>
  BY DEF Place, WireInv
<1>2. form \in [face: TypedFaces, competitive: BOOLEAN, price: TypedPrices]
  BY DEF WireInv
<1>3. PICK face, price : face = form.face /\ price = PriceToHundredths(form.price) /\ face \in Texts
  BY <1>2, WireAssumption
<1>4. form.price \in TypedPrices /\ (form.competitive = TRUE \/ form.competitive = FALSE)
  BY <1>2
<1>5. CASE FaceTaken(face) /\ (form.competitive => price # <<>>)
  <2>1. /\ leg' = "placed"
        /\ ours' = [face |-> face.whole, competitive |-> form.competitive,
                    price |-> IF form.competitive THEN price ELSE <<>>]
    BY <1>3, <1>5 DEF Place
  <2>2. face.whole \in Nat /\ face.whole >= LeastBid /\ face.whole <= MaxFace
    BY <1>3, <1>5, WireAssumption DEF FaceTaken, Texts
  <2>3. OursIsTaken'
    <3>1. CASE form.competitive = TRUE
      <4>1. price # <<>>
        BY <1>5, <3>1
      <4>2. PICK n \in PriceRange : price = <<n>>
        BY <1>3, <1>4, <4>1, PriceTaken
      <4>3. ours' = [face |-> face.whole, competitive |-> TRUE, price |-> price]
        BY <2>1, <3>1
      <4>4. QED
        BY <2>2, <4>2, <4>3 DEF OursIsTaken
    <3>2. CASE form.competitive = FALSE
      <4>1. ours' = [face |-> face.whole, competitive |-> FALSE, price |-> <<>>]
        BY <2>1, <3>2
      <4>2. QED
        BY <2>2, <4>1 DEF OursIsTaken
    <3>3. QED
      BY <1>4, <3>1, <3>2
  <2>4. QED
    BY <1>1, <1>2, <2>1, <2>3 DEF WireInv
<1>6. CASE ~(FaceTaken(face) /\ (form.competitive => price # <<>>))
  <2>1. leg' = "not placed"
    BY <1>3, <1>6 DEF Place
  <2>2. QED
    BY <1>1, <1>2, <2>1 DEF WireInv
<1>7. QED
  BY <1>5, <1>6

LEMMA HandOverInv ==
  ASSUME WireInv, HandOver
  PROVE  WireInv'
<1>1. /\ form' = form /\ ours' = ours /\ record' = record
      /\ leg = "placed" /\ leg' = "handed over" /\ OursIsTaken /\ record = <<>>
  BY DEF HandOver, WireInv
<1>2. OursIsTaken'
  BY <1>1, OursStays
<1>3. SentIsOurs'
  BY <1>1 DEF HandOver, SentIsOurs
<1>4. form' \in [face: TypedFaces, competitive: BOOLEAN, price: TypedPrices]
  BY <1>1 DEF WireInv
<1>5. QED
  BY <1>1, <1>2, <1>3, <1>4 DEF WireInv

\* What of a bid handed over the later legs rely on: its face value ...
Shillings(f) ==
  /\ f \in Nat /\ f <= MaxSafe /\ f >= BotMinimum
  /\ ours.face = f /\ sent.face = Text(f, <<>>) /\ ReadsAs(sent.face, f, 0, 100 * f)

\* ... and its price, when it has one.
Competes(n) ==
  /\ n \in Nat /\ 0 < n /\ n < TooHigh
  /\ ours.competitive = TRUE /\ sent.competitive = TRUE
  /\ ours.price = <<n>> /\ sent.price = TwoPlaces(n)

Stands ==
  /\ ours.competitive = FALSE /\ sent.competitive = FALSE
  /\ ours.price = <<>> /\ sent.price = NoText

LEMMA OursFacts ==
  ASSUME OursIsTaken, SentIsOurs
  PROVE  (\E f : Shillings(f)) /\ ((\E n : Competes(n)) \/ Stands)
<1>1. /\ sent.face = Text(ours.face, <<>>) /\ sent.competitive = ours.competitive
      /\ sent.price = IF ours.price = <<>> THEN NoText ELSE TwoPlaces(ours.price[1])
  BY DEF SentIsOurs
<1>2. ours.face \in Nat /\ ours.face <= MaxSafe /\ ours.face >= BotMinimum
  BY WireAssumption DEF OursIsTaken
<1>3. ReadsAs(sent.face, ours.face, 0, 100 * ours.face)
  BY <1>1, <1>2, WholeRead
<1>4. \E f : Shillings(f)
  BY <1>1, <1>2, <1>3 DEF Shillings
<1>5. CASE ours.competitive = TRUE
  <2>1. PICK n \in PriceRange : ours.price = <<n>>
    BY <1>5 DEF OursIsTaken
  <2>2. ours.price # <<>> /\ ours.price[1] = n
    BY <2>1
  <2>3. Competes(n)
    BY <1>1, <1>5, <2>1, <2>2, InPriceRange DEF Competes
  <2>4. QED
    BY <1>4, <2>3
<1>6. CASE ours.competitive = FALSE
  <2>1. ours.price = <<>>
    BY <1>6 DEF OursIsTaken
  <2>2. Stands
    BY <1>1, <1>6, <2>1 DEF Stands
  <2>3. QED
    BY <1>4, <2>2
<1>7. ours.competitive = TRUE \/ ours.competitive = FALSE
  BY DEF OursIsTaken
<1>8. QED
  BY <1>5, <1>6, <1>7

\* Neither bot-gateway nor BoT refuses it, and BoT keeps its terms.
LEMMA SendBidInv ==
  ASSUME WireInv, SendBid
  PROVE  WireInv'
<1>1. /\ form' = form /\ ours' = ours /\ sent' = sent
      /\ leg = "handed over" /\ OursIsTaken /\ SentIsOurs
  BY DEF SendBid, WireInv
<1>2. PICK f : Shillings(f)
  BY <1>1, OursFacts
<1>3. PICK w : w = OnTheWire(sent)
  OBVIOUS
<1>4. /\ f \in Nat /\ f <= MaxSafe /\ f >= BotMinimum
      /\ sent.face.frac = <<>> /\ Hundredths(sent.face) = 100 * f
  BY <1>2 DEF Shillings, ReadsAs, Text
<1>5. (100 * f) % 100 = 0 /\ (100 * f) \div 100 = f /\ 100 * f >= BotMinimum * 100
  BY <1>4, WireAssumption
<1>6. Hundredths(sent.face) >= BotMinimum * 100 /\ Writable(Hundredths(sent.face))
  BY <1>4, <1>5 DEF Writable
<1>7. w.amount = f
  BY <1>3, <1>4, <1>5 DEF OnTheWire
<1>8. (\E n : Competes(n)) \/ Stands
  BY <1>1, OursFacts
<1>9. ASSUME NEW n, GatewaySends(sent), IsPrice(w.price, 2), Hundredths(w.price) = n,
             NEW flag, w.flag = flag,
             flag = IF ours.competitive = TRUE THEN "Y" ELSE "N",
             n = IF ours.competitive = TRUE THEN ours.price[1] ELSE 0
      PROVE  WireInv'
  <2>1. BankTakesIt(w)
    BY <1>4, <1>7, <1>9 DEF BankTakesIt
  <2>2. leg' = "at BoT" /\ record' = [amount |-> w.amount, price |-> Hundredths(w.price), flag |-> w.flag]
    BY <1>3, <1>9, <2>1 DEF SendBid
  <2>3. record' = [amount |-> f, price |-> n, flag |-> flag]
    BY <1>7, <1>9, <2>2
  <2>4. ours'.face = f
    BY <1>1, <1>2 DEF Shillings
  <2>5. RecordIsOurs'
    BY <1>1, <1>9, <2>3, <2>4 DEF RecordIsOurs
  <2>6. OursIsTaken' /\ SentIsOurs'
    BY <1>1, OursStays
  <2>7. form' \in [face: TypedFaces, competitive: BOOLEAN, price: TypedPrices]
    BY <1>1 DEF WireInv
  <2>8. QED
    BY <2>2, <2>5, <2>6, <2>7 DEF WireInv
<1>10. ASSUME NEW n, Competes(n) PROVE WireInv'
  <2>1. /\ n \in Nat /\ 0 < n /\ n < TooHigh
        /\ ours.competitive = TRUE /\ sent.competitive = TRUE
        /\ ours.price = <<n>> /\ sent.price = TwoPlaces(n)
    BY <1>10 DEF Competes
  <2>2. /\ sent.price # NoText /\ IsPrice(sent.price, 2) /\ PriceWritable(sent.price)
        /\ Hundredths(sent.price) = n
    BY <2>1, PriceRead
  <2>3. GatewaySends(sent)
    BY <1>4, <1>6, <2>2 DEF GatewaySends, BidDto
  <2>4. w.price = TwoPlaces(n) /\ w.flag = "Y"
    BY <1>3, <2>1, <2>2 DEF OnTheWire
  <2>5. IsPrice(w.price, 2) /\ Hundredths(w.price) = n
    BY <2>1, <2>2, <2>4
  <2>6. n = IF ours.competitive = TRUE THEN ours.price[1] ELSE 0
    BY <2>1
  <2>7. "Y" = IF ours.competitive = TRUE THEN "Y" ELSE "N"
    BY <2>1
  <2>8. QED
    BY <1>9, <2>3, <2>4, <2>5, <2>6, <2>7
<1>11. CASE Stands
  <2>1. ours.competitive = FALSE /\ sent.competitive = FALSE /\ sent.price = NoText
    BY <1>11 DEF Stands
  <2>2. GatewaySends(sent)
    BY <1>4, <1>6, <2>1 DEF GatewaySends, BidDto
  <2>3. w.price = Text(0, <<0, 0>>) /\ w.flag = "N"
    BY <1>3, <2>1 DEF OnTheWire
  <2>4. ReadsAs(Text(0, <<0, 0>>), 0, 2, 100 * 0 + 10 * 0 + 0)
    BY TwoRead DEF Digits
  <2>5. w.price \in Texts /\ w.price.whole = 0 /\ Len(w.price.frac) = 2 /\ Hundredths(w.price) = 0
    BY <2>3, <2>4 DEF ReadsAs
  <2>6. IsPrice(w.price, 2)
    BY <2>5, NoTextIsNone DEF IsPrice
  <2>7. 0 = IF ours.competitive = TRUE THEN ours.price[1] ELSE 0
    BY <2>1
  <2>8. "N" = IF ours.competitive = TRUE THEN "Y" ELSE "N"
    BY <2>1
  <2>9. QED
    BY <1>9, <2>2, <2>3, <2>5, <2>6, <2>7, <2>8
<1>12. QED
  BY <1>8, <1>10, <1>11

\* Our bid is found by the terms BoT has.
LEMMA ReconcileWireInv ==
  ASSUME WireInv, Reconcile
  PROVE  WireInv'
<1>1. /\ form' = form /\ ours' = ours /\ sent' = sent /\ record' = record
      /\ leg = "at BoT" /\ OursIsTaken /\ SentIsOurs /\ RecordIsOurs
  BY DEF Reconcile, WireInv
<1>2. PICK f : Shillings(f)
  BY <1>1, OursFacts
<1>3. f \in Nat /\ ours.face = f /\ sent.face = Text(f, <<>>)
  BY <1>2 DEF Shillings
<1>4. record.amount = f
  BY <1>1, <1>3 DEF RecordIsOurs
<1>5. FaceAtBot = Text(f, <<0, 0>>)
  BY <1>3, <1>4, MoneyOfShillings DEF FaceAtBot
<1>6. NormaliseFace(sent.face) = Text(f, <<0, 0>>)
  BY <1>3 DEF NormaliseFace, Text
<1>7. FaceAtBot.frac = <<0, 0>> /\ FaceAtBot.whole = f
  BY <1>5 DEF Text
<1>8. sent.competitive = ours.competitive
  BY <1>1 DEF SentIsOurs
<1>9. PriceToHundredths(sent.price) = ours.price
  <2>1. ASSUME NEW n, Competes(n) PROVE PriceToHundredths(sent.price) = ours.price
    BY <2>1, PriceRead DEF Competes
  <2>2. CASE Stands
    BY <2>2 DEF Stands, PriceToHundredths, IsPrice
  <2>3. QED
    BY <1>1, <2>1, <2>2, OursFacts
<1>10. leg' = "matched"
  BY <1>3, <1>5, <1>6, <1>7, <1>8, <1>9 DEF Reconcile
<1>11. OursIsTaken' /\ SentIsOurs' /\ RecordIsOurs'
  BY <1>1, OursStays
<1>12. form' \in [face: TypedFaces, competitive: BOOLEAN, price: TypedPrices]
  BY <1>1 DEF WireInv
<1>13. QED
  BY <1>10, <1>11, <1>12 DEF WireInv

\* BoT allots a part, at the price it has or the average.
LEMMA AllotInv ==
  ASSUME WireInv, NEW amount \in 1..record.amount, Allot(amount)
  PROVE  WireInv'
<1>1. /\ form' = form /\ ours' = ours /\ sent' = sent /\ record' = record
      /\ leg = "matched" /\ leg' = "allotted" /\ OursIsTaken /\ SentIsOurs /\ RecordIsOurs
  BY DEF Allot, WireInv
<1>2. (IF record.flag = "Y" THEN record.price ELSE Average) = PriceAllotted
  BY <1>1 DEF RecordIsOurs, PriceAllotted
<1>3. record.amount = ours.face
  BY <1>1 DEF RecordIsOurs
<1>4. allotment' = [amount |-> Text(amount, <<>>), price |-> Json(PriceAllotted)]
  BY <1>2 DEF Allot
<1>5. PriceAllotted' = PriceAllotted
  BY <1>1, OursStays
<1>6. AllotmentIsBots'
  BY <1>1, <1>3, <1>4, <1>5 DEF AllotmentIsBots
<1>7. OursIsTaken' /\ SentIsOurs' /\ RecordIsOurs'
  BY <1>1, OursStays
<1>8. form' \in [face: TypedFaces, competitive: BOOLEAN, price: TypedPrices]
  BY <1>1 DEF WireInv
<1>9. QED
  BY <1>1, <1>6, <1>7, <1>8 DEF WireInv

\* What is told is what is recorded.
LEMMA RecordInv ==
  ASSUME WireInv, Record
  PROVE  WireInv'
<1>1. /\ form' = form /\ ours' = ours /\ sent' = sent /\ record' = record /\ allotment' = allotment
      /\ leg = "allotted" /\ leg' = "recorded" /\ OursIsTaken /\ SentIsOurs /\ RecordIsOurs
      /\ AllotmentIsBots
  BY DEF Record, WireInv
<1>2. PICK n : n \in Nat /\ 0 < n /\ n < TooHigh /\ n = PriceAllotted
  <2>1. ASSUME NEW n, Competes(n) PROVE n \in Nat /\ 0 < n /\ n < TooHigh /\ n = PriceAllotted
    BY <2>1 DEF Competes, PriceAllotted
  <2>2. ASSUME Stands PROVE Average \in Nat /\ 0 < Average /\ Average < TooHigh /\ Average = PriceAllotted
    BY <2>2, WireAssumption, InPriceRange DEF Stands, PriceAllotted
  <2>3. QED
    BY <1>1, <2>1, <2>2, OursFacts
<1>3. PICK f : Shillings(f)
  BY <1>1, OursFacts
<1>4. f \in Nat /\ f <= MaxSafe /\ ours.face = f
  BY <1>3 DEF Shillings
<1>5. PICK amount : /\ amount \in 1..f
                    /\ allotment = [amount |-> Text(amount, <<>>), price |-> Json(n)]
  BY <1>1, <1>2, <1>4 DEF AllotmentIsBots
<1>6. amount \in Nat /\ amount <= MaxSafe
  BY <1>4, <1>5, WireAssumption
<1>7. PICK face, price : face = AmountTold(allotment.amount) /\ price = PriceTold(allotment.price)
  OBVIOUS
<1>8. face = MoneyText(amount * 100)
  BY <1>5, <1>6, <1>7 DEF AmountTold, Text
<1>9. ReadsAs(face, amount, 2, 100 * amount)
  BY <1>6, <1>8, MoneyOfShillings
<1>10. face # NoText /\ Hundredths(face) = 100 * amount
  BY <1>9, NoTextIsNone DEF ReadsAs
<1>11. Hundredths(face) \div 100 = amount
  BY <1>6, <1>10
<1>12. allotment.price = Json(n)
  BY <1>5
<1>13. price # NoText /\ PriceToHundredths(price) = <<n>>
  BY <1>2, <1>7, <1>12, JsonRead DEF PriceTold
<1>14. outcome' = [face |-> IF face = NoText THEN ours.face ELSE Hundredths(face) \div 100,
                   price |-> IF price = NoText THEN ours.price ELSE PriceToHundredths(price)]
  BY <1>7 DEF Record
<1>15. outcome'.face = amount /\ outcome'.price = <<n>>
  BY <1>10, <1>11, <1>13, <1>14
<1>16. PriceAllotted' = PriceAllotted
  BY <1>1, OursStays
<1>17. allotment'.amount.whole = amount
  BY <1>1, <1>5 DEF Text
<1>18. OutcomeIsBots'
  BY <1>2, <1>15, <1>16, <1>17 DEF OutcomeIsBots
<1>19. AllotmentIsBots'
  BY <1>1, <1>16 DEF AllotmentIsBots
<1>20. OursIsTaken' /\ SentIsOurs' /\ RecordIsOurs'
  BY <1>1, OursStays
<1>21. form' \in [face: TypedFaces, competitive: BOOLEAN, price: TypedPrices]
  BY <1>1 DEF WireInv
<1>22. QED
  BY <1>1, <1>18, <1>19, <1>20, <1>21 DEF WireInv

LEMMA WireNextInv == WireInv /\ [WireNext]_wireVars => WireInv'
<1> SUFFICES ASSUME WireInv, [WireNext]_wireVars PROVE WireInv'
  OBVIOUS
<1>1. CASE UNCHANGED wireVars
  <2>1. /\ leg' = leg /\ form' = form /\ ours' = ours /\ sent' = sent /\ record' = record
        /\ allotment' = allotment /\ outcome' = outcome
    BY <1>1 DEF wireVars
  <2>2. PriceAllotted' = PriceAllotted
    BY <2>1, OursStays
  <2>3. /\ OursIsTaken => OursIsTaken'
        /\ SentIsOurs => SentIsOurs'
        /\ RecordIsOurs => RecordIsOurs'
    BY <2>1, OursStays
  <2>4. (AllotmentIsBots => AllotmentIsBots') /\ (OutcomeIsBots => OutcomeIsBots')
    BY <2>1, <2>2 DEF AllotmentIsBots, OutcomeIsBots
  <2>5. QED
    BY <2>1, <2>3, <2>4 DEF WireInv
<1>2. QED
  BY <1>1, PlaceInv, HandOverInv, SendBidInv, ReconcileWireInv, AllotInv, RecordInv DEF WireNext

\* Whatever face value and price are typed, and whatever the rules of the auction within
\* BoT's: a bid the auction service takes is refused by nobody on the way, its terms at BoT
\* are our row's, it is found again by them, and its allotment is recorded as BoT told it
\* (amounts.ts, bot.mapper.ts, reconciliation.service.ts, results.service.ts).
THEOREM TermsArriveAlways == WireSpec => []TermsArrive
<1>1. WireInv => TermsArrive
  <2> SUFFICES ASSUME WireInv PROVE TermsArrive
    OBVIOUS
  <2>1. leg \notin {"stuck at the gateway", "refused by BoT", "lost"}
    BY DEF WireInv
  <2>2. ASSUME record # <<>>
        PROVE  /\ record.amount = ours.face /\ (record.flag = "Y") = ours.competitive
               /\ ours.competitive => <<record.price>> = ours.price
    <3>1. RecordIsOurs /\ OursIsTaken
      BY <2>2 DEF WireInv
    <3>2. CASE ours.competitive = TRUE
      <4>1. PICK n : ours.price = <<n>>
        BY <3>1, <3>2 DEF OursIsTaken
      <4>2. record.amount = ours.face /\ record.flag = "Y" /\ record.price = n
        BY <3>1, <3>2, <4>1 DEF RecordIsOurs
      <4>3. QED
        BY <3>2, <4>1, <4>2
    <3>3. CASE ours.competitive = FALSE
      <4>1. record.amount = ours.face /\ record.flag = "N"
        BY <3>1, <3>3 DEF RecordIsOurs
      <4>2. "N" # "Y"
        OBVIOUS
      <4>3. QED
        BY <3>3, <4>1, <4>2
    <3>4. ours.competitive = TRUE \/ ours.competitive = FALSE
      BY <3>1 DEF OursIsTaken
    <3>5. QED
      BY <3>2, <3>3, <3>4
  <2>3. ASSUME leg = "recorded"
        PROVE  /\ outcome.face = allotment.amount.whole
               /\ outcome.price = <<IF ours.competitive THEN ours.price[1] ELSE Average>>
    <3>1. OutcomeIsBots /\ OursIsTaken
      BY <2>3 DEF WireInv
    <3>2. ours.competitive = TRUE \/ ours.competitive = FALSE
      BY <3>1 DEF OursIsTaken
    <3>3. PriceAllotted = IF ours.competitive THEN ours.price[1] ELSE Average
      BY <3>2 DEF PriceAllotted
    <3>4. QED
      BY <3>1, <3>3 DEF OutcomeIsBots
  <2>4. QED
    BY <2>1, <2>2, <2>3 DEF TermsArrive
<1>2. QED
  BY <1>1, WireInitInv, WireNextInv, PTL DEF WireSpec

----------------------------------------------------------------------------
(* The checks of an applicant.                                              *)

IsWords(name) == Len(name) \in Nat \ {0} /\ DOMAIN name = 1..Len(name)

\* The words of one name are those of the other, each once.
Pairs(p, a, b) ==
  /\ p \in [DOMAIN a -> DOMAIN b]
  /\ \A i, j \in DOMAIN a : p[i] = p[j] => i = j
  /\ \A k \in DOMAIN b : \E i \in DOMAIN a : p[i] = k
  /\ \A i \in DOMAIN a : a[i] = b[p[i]]

LEMMA UpToWords ==
  ASSUME NEW n \in Nat
  PROVE  IsFiniteSet(1..n) /\ Cardinality(1..n) = n
<1>1. 1 \in Int /\ n \in Int
  OBVIOUS
<1>2. Cardinality(1..n) = IF 1 > n THEN 0 ELSE n - 1 + 1
  BY <1>1, FS_Interval
<1> QED
  BY <1>1, <1>2, FS_Interval

LEMMA SameWordsPair ==
  ASSUME NEW a, NEW b, IsWords(a), IsWords(b), SameWords(a, b)
  PROVE  Len(a) = Len(b) /\ \E p : Pairs(p, a, b)
<1>1. PICK p \in [DOMAIN a -> DOMAIN b] :
        Len(a) = Len(b) /\ {p[i] : i \in DOMAIN a} = DOMAIN b /\ \A i \in DOMAIN a : a[i] = b[p[i]]
  BY DEF SameWords
<1>2. \A k \in DOMAIN b : \E i \in DOMAIN a : p[i] = k
  BY <1>1
<1>3. p \in Surjection(DOMAIN a, DOMAIN b)
  BY <1>2 DEF Surjection
<1>4. IsFiniteSet(DOMAIN a) /\ Cardinality(DOMAIN a) = Cardinality(DOMAIN b)
  BY <1>1, UpToWords DEF IsWords
<1>5. p \in Injection(DOMAIN a, DOMAIN b)
  BY <1>3, <1>4, FS_Surjection
<1>6. \A i, j \in DOMAIN a : p[i] = p[j] => i = j
  BY <1>5 DEF Injection, IsInjective
<1>7. Pairs(p, a, b)
  BY <1>1, <1>2, <1>6 DEF Pairs
<1> QED
  BY <1>1, <1>7

LEMMA PairsAreSameWords ==
  ASSUME NEW a, NEW b, IsWords(a), Len(a) = Len(b), NEW p, Pairs(p, a, b)
  PROVE  SameWords(a, b)
<1>1. Len(a) > 0
  BY DEF IsWords
<1>2. {p[i] : i \in DOMAIN a} = DOMAIN b
  BY DEF Pairs
<1> QED
  BY <1>1, <1>2 DEF SameWords, Pairs

LEMMA PairsBack ==
  ASSUME NEW a, NEW b, NEW p, Pairs(p, a, b)
  PROVE  \E q : Pairs(q, b, a)
<1> DEFINE q == [k \in DOMAIN b |-> CHOOSE i \in DOMAIN a : p[i] = k]
<1>1. \A k \in DOMAIN b : q[k] \in DOMAIN a /\ p[q[k]] = k
  BY DEF Pairs
<1>2. q \in [DOMAIN b -> DOMAIN a]
  BY <1>1
<1> HIDE DEF q
<1>3. \A k, l \in DOMAIN b : q[k] = q[l] => k = l
  BY <1>1
<1>4. \A i \in DOMAIN a : \E k \in DOMAIN b : q[k] = i
  <2>1. ASSUME NEW i \in DOMAIN a PROVE p[i] \in DOMAIN b /\ q[p[i]] = i
    BY <1>1 DEF Pairs
  <2> QED
    BY <2>1
<1>5. \A k \in DOMAIN b : b[k] = a[q[k]]
  BY <1>1 DEF Pairs
<1> QED
  BY <1>2, <1>3, <1>4, <1>5, Zenon DEF Pairs

LEMMA PairsOn ==
  ASSUME NEW a, NEW b, NEW c, NEW p, NEW q, Pairs(p, a, b), Pairs(q, b, c)
  PROVE  \E r : Pairs(r, a, c)
<1> DEFINE r == [i \in DOMAIN a |-> q[p[i]]]
<1>1. \A i \in DOMAIN a : p[i] \in DOMAIN b /\ r[i] = q[p[i]] /\ r[i] \in DOMAIN c
  BY DEF Pairs
<1>2. r \in [DOMAIN a -> DOMAIN c]
  BY <1>1
<1> HIDE DEF r
<1>3. \A i, j \in DOMAIN a : r[i] = r[j] => i = j
  BY <1>1 DEF Pairs
<1>4. \A k \in DOMAIN c : \E i \in DOMAIN a : r[i] = k
  BY <1>1 DEF Pairs
<1>5. \A i \in DOMAIN a : a[i] = c[r[i]]
  BY <1>1 DEF Pairs
<1> QED
  BY <1>2, <1>3, <1>4, <1>5, Zenon DEF Pairs

LEMMA SameWordsBack ==
  ASSUME NEW a, NEW b, IsWords(a), IsWords(b), SameWords(a, b)
  PROVE  SameWords(b, a)
BY SameWordsPair, PairsBack, PairsAreSameWords

LEMMA SameWordsOn ==
  ASSUME NEW a, NEW b, NEW c, IsWords(a), IsWords(b), IsWords(c), SameWords(a, b), SameWords(b, c)
  PROVE  SameWords(a, c)
<1>1. Len(a) = Len(b) /\ Len(b) = Len(c)
  BY SameWordsPair
<1>2. PICK p : Pairs(p, a, b)
  BY SameWordsPair
<1>3. PICK q : Pairs(q, b, c)
  BY SameWordsPair
<1>4. PICK r : Pairs(r, a, c)
  BY <1>2, <1>3, PairsOn
<1> QED
  BY <1>1, <1>4, PairsAreSameWords

----------------------------------------------------------------------------
\* Every word of the list has one of the name, and no word of the name two choices.
Clearly(p, needles, name) ==
  /\ p \in [DOMAIN needles -> DOMAIN name]
  /\ \A i, j \in DOMAIN needles : i # j => p[i] # p[j]
  /\ \A i \in DOMAIN needles, h \in DOMAIN name : TokensAgree(needles[i], name[h], 2) <=> h = p[i]

LEMMA LeastWord ==
  ASSUME NEW S, S # {}, S \subseteq Nat
  PROVE  \E x \in S : \A y \in S : x <= y
<1> DEFINE Below == {ss \in Nat \X Nat : ss[1] < ss[2]}
<1>1. IsWellFoundedOn(Below, Nat)
  BY NatLessThanWellFounded, Zenon DEF OpToRel
<1>2. PICK x \in S : \A y \in S : ~(<<y, x>> \in Below)
  <2> HIDE DEF Below
  <2>1. QED
    BY <1>1, WFMin, Zenon
<1>3. ASSUME NEW y \in S PROVE x <= y
  <2>1. y \in Nat /\ x \in Nat
    OBVIOUS
  <2>2. y < x => <<y, x>> \in Below
    BY <2>1
  <2> QED
    BY <1>2, <2>1, <2>2
<1> QED
  BY <1>3

\* Where the next needle goes: to the first word left that agrees with it.
TakeNext(used, needle, name) ==
  LET fits == {h \in DOMAIN name \ used : TokensAgree(needle, name[h], 2)}
  IN IF fits = {} THEN used ELSE used \cup {CHOOSE h \in fits : \A g \in fits : h <= g}

TakesTo(f, N, needles, name) ==
  f = [n \in 0..N |-> IF n = 0 THEN {} ELSE TakeNext(f[n - 1], needles[n], name)]

LEMMA TakingExists ==
  ASSUME NEW needles, NEW name, NEW N \in Nat
  PROVE  \E f : TakesTo(f, N, needles, name)
<1> DEFINE bad == {n \in Nat : ~\E f : TakesTo(f, n, needles, name)}
<1>1. SUFFICES ASSUME bad # {} PROVE FALSE
  OBVIOUS
<1>2. PICK n \in bad : \A y \in bad : n <= y
  <2>1. bad \subseteq Nat
    OBVIOUS
  <2> HIDE DEF bad
  <2> QED
    BY <1>1, <2>1, LeastWord
<1>3. CASE n = 0
  <2>1. TakesTo([k \in 0..0 |-> {}], 0, needles, name)
    BY DEF TakesTo
  <2> QED
    BY <1>2, <1>3, <2>1
<1>4. CASE n # 0
  <2>1. n - 1 \in Nat /\ n - 1 \notin bad
    BY <1>2, <1>4
  <2>2. PICK f : TakesTo(f, n - 1, needles, name)
    BY <2>1
  <2> DEFINE g == [k \in 0..n |-> IF k = 0 THEN {} ELSE TakeNext(f[k - 1], needles[k], name)]
  <2>3. \A k \in 0..(n - 1) : g[k] = f[k]
    <3>1. \A k \in 0..(n - 1) : k \in 0..n
      BY <1>2
    <3>2. \A k \in 0..(n - 1) :
            f[k] = IF k = 0 THEN {} ELSE TakeNext(f[k - 1], needles[k], name)
      BY <2>2, Zenon DEF TakesTo
    <3> QED
      BY <3>1, <3>2, Zenon
  <2>4. \A k \in 0..n : k # 0 => k - 1 \in 0..(n - 1)
    BY <1>2
  <2>5. TakesTo(g, n, needles, name)
    BY <2>3, <2>4 DEF TakesTo
  <2> QED
    BY <1>2, <2>5
<1> QED
  BY <1>3, <1>4

\* A listed name that is found without a doubt is found in full.
LEMMA ClearlyCovered ==
  ASSUME NEW needles, NEW name, NEW p, IsWords(needles), IsWords(name), Clearly(p, needles, name)
  PROVE  Covered(needles, name, 2) = Len(needles)
<1> DEFINE f == CHOOSE g : TakesTo(g, Len(needles), needles, name)
           Taken(n) == {p[i] : i \in 1..n}
<1>1. Len(needles) \in Nat /\ DOMAIN needles = 1..Len(needles) /\ DOMAIN name \subseteq Nat
  BY DEF IsWords
<1>2. TakesTo(f, Len(needles), needles, name)
  BY <1>1, TakingExists
<1>3. Covered(needles, name, 2) = Cardinality(f[Len(needles)])
  BY DEF Covered, TakesTo, TakeNext
<1> HIDE DEF f
<1> DEFINE bad == {n \in 0..Len(needles) : f[n] # Taken(n)}
<1>4. bad = {}
  <2>1. SUFFICES ASSUME bad # {} PROVE FALSE
    OBVIOUS
  <2>2. PICK n \in bad : \A y \in bad : n <= y
    <3>1. bad \subseteq Nat
      BY <1>1
    <3> HIDE DEF bad
    <3> QED
      BY <2>1, <3>1, LeastWord
  <2>3. CASE n = 0
    <3>1. f[n] = {} /\ Taken(n) = {}
      BY <1>1, <1>2, <2>3 DEF TakesTo
    <3> QED
      BY <2>2, <3>1
  <2>4. CASE n # 0
    <3>1. n \in 1..Len(needles) /\ n - 1 \in 0..Len(needles) /\ n - 1 \notin bad
      BY <1>1, <2>2, <2>4
    <3>2. f[n - 1] = Taken(n - 1)
      BY <3>1
    <3>3. f[n] = TakeNext(f[n - 1], needles[n], name)
      BY <1>2, <2>4, <3>1 DEF TakesTo
    <3>4. p[n] \in DOMAIN name /\ p[n] \notin Taken(n - 1)
      BY <1>1, <3>1 DEF Clearly
    <3>5. {h \in DOMAIN name \ Taken(n - 1) : TokensAgree(needles[n], name[h], 2)} = {p[n]}
      BY <1>1, <3>1, <3>4 DEF Clearly
    <3>6. (CHOOSE h \in {p[n]} : \A g \in {p[n]} : h <= g) = p[n]
      <4>1. p[n] <= p[n]
        BY <1>1, <3>4
      <4> QED
        BY <4>1
    <3>7. TakeNext(Taken(n - 1), needles[n], name) = Taken(n - 1) \cup {p[n]}
      <4> HIDE DEF Taken
      <4> QED
        BY <3>5, <3>6, Zenon DEF TakeNext
    <3>8. Taken(n) = Taken(n - 1) \cup {p[n]}
      <4>1. 1..n = (1..(n - 1)) \cup {n}
        BY <1>1, <3>1
      <4> QED
        BY <4>1
    <3> HIDE DEF Taken
    <3>9. f[n] = Taken(n)
      BY <3>2, <3>3, <3>7, <3>8
    <3> QED
      BY <2>2, <3>9
  <2> QED
    BY <2>3, <2>4
<1>5. f[Len(needles)] = Taken(Len(needles))
  BY <1>1, <1>4
<1>6. Cardinality(Taken(Len(needles))) = Len(needles)
  <2> DEFINE S == 1..Len(needles)
             T == Taken(Len(needles))
  <2>1. p \in [S -> T]
    BY <1>1 DEF Clearly
  <2>2. p \in Bijection(S, T)
    BY <1>1, <2>1 DEF Clearly, Bijection, Injection, Surjection, IsInjective
  <2>3. Cardinality(T) = Cardinality(S)
    <3>1. ExistsBijection(S, T) /\ IsFiniteSet(S)
      BY <1>1, <2>2, UpToWords DEF ExistsBijection
    <3> HIDE DEF S, T
    <3> QED
      BY <3>1, FS_Bijection
  <2> QED
    BY <1>1, <2>3, UpToWords
<1> QED
  BY <1>3, <1>5, <1>6

\* A listed name goes with its words, in whatever order they come.
LEMMA ListedAreHit ==
  ASSUME NEW a, NEW b, IsWords(a), IsWords(b), IsWords(Listed), SameWords(a, b),
         IsListed(a), ~Ambiguous(a)
  PROVE  Hit(b, Listed)
<1>1. PICK p \in [DOMAIN Listed -> DOMAIN a] :
        /\ \A i, j \in DOMAIN Listed : i # j => p[i] # p[j]
        /\ \A i \in DOMAIN Listed : TokensAgree(Listed[i], a[p[i]], 2)
  BY DEF IsListed
<1>2. \A i \in DOMAIN Listed, h \in DOMAIN a : TokensAgree(Listed[i], a[h], 2) => h = p[i]
  BY <1>1 DEF Ambiguous
<1>3. PICK q : Pairs(q, a, b)
  BY SameWordsPair
<1> DEFINE r == [i \in DOMAIN Listed |-> q[p[i]]]
<1>4. \A i \in DOMAIN Listed : p[i] \in DOMAIN a /\ r[i] = q[p[i]] /\ r[i] \in DOMAIN b
  BY <1>1, <1>3 DEF Pairs
<1>5. r \in [DOMAIN Listed -> DOMAIN b]
  BY <1>4
<1> HIDE DEF r
<1>6. \A i, j \in DOMAIN Listed : i # j => r[i] # r[j]
  BY <1>1, <1>3, <1>4 DEF Pairs
<1>7. ASSUME NEW i \in DOMAIN Listed, NEW h \in DOMAIN b
      PROVE  TokensAgree(Listed[i], b[h], 2) <=> h = r[i]
  <2>1. PICK k \in DOMAIN a : q[k] = h /\ a[k] = b[h]
    BY <1>3 DEF Pairs
  <2>2. TokensAgree(Listed[i], b[h], 2) <=> k = p[i]
    BY <1>1, <1>2, <2>1
  <2>3. k = p[i] <=> h = r[i]
    BY <1>3, <1>4, <2>1 DEF Pairs
  <2> QED
    BY <2>2, <2>3
<1>8. Clearly(r, Listed, b)
  BY <1>5, <1>6, <1>7, Zenon DEF Clearly
<1>9. Covered(Listed, b, 2) = Len(Listed)
  BY <1>8, ClearlyCovered
<1>10. Len(Listed) \in Nat /\ Len(Listed) > 0
  BY DEF IsWords
<1> QED
  BY <1>9, <1>10 DEF Hit

----------------------------------------------------------------------------
LEMMA NamesAreWords ==
  /\ IsWords(Listed) /\ \A name \in Names : IsWords(name)
  /\ NoRecord \notin Customers /\ NoRecord \notin Registered
BY VerifyAssumption DEF IsWords

LEMMA VerifyInitHolds == VerifyInit => VerifyInv
<1> SUFFICES ASSUME VerifyInit PROVE VerifyInv
  OBVIOUS
<1>1. result = <<>> /\ Len(result) = 0 /\ answer.byNida = <<>> /\ answer.byAccount = <<>> /\ link = "none"
  BY DEF VerifyInit
<1>2. VerifyTypeOK
  BY <1>1 DEF VerifyInit, VerifyTypeOK
<1>3. AnswersStand
  BY <1>1 DEF AnswersStand
<1> QED
  BY <1>1, <1>2, <1>3 DEF VerifyInv

Checked == [source : {"nida", "cbs", "list"}, outcome : {"clear", "review", "unavailable"}]

\* A check adds its upshot behind those there are.
LEMMA OutcomeAdds ==
  ASSUME VerifyTypeOK, NEW source \in {"nida", "cbs", "list"},
         NEW upshot \in {"clear", "review", "unavailable"},
         Outcome(source, upshot), Len(result) < 3
  PROVE  /\ result' \in Seq(Checked) /\ Len(result') \in 0..3 /\ Len(result') = Len(result) + 1
         /\ \A i \in 1..Len(result) : result'[i] = result[i]
         /\ result'[Len(result) + 1].outcome = upshot
<1>1. result \in Seq(Checked) /\ Len(result) \in Nat
  BY DEF VerifyTypeOK, Checked
<1>2. [source |-> source, outcome |-> upshot] \in Checked
  BY DEF Checked
<1> DEFINE added == [source |-> source, outcome |-> upshot]
<1>3. result' = Append(result, added) /\ added.outcome = upshot
  BY DEF Outcome
<1> HIDE DEF added
<1> QED
  BY <1>1, <1>2, <1>3 DEF added

\* A check that is not clear claims nothing.
LEMMA UnavailableHolds ==
  ASSUME VerifyInv, NEW source \in {"nida", "cbs", "list"}, Unavailable(source), Len(result) < 3
  PROVE  VerifyInv'
<1>1. /\ UNCHANGED <<declared, registry, customer, account, answer, link, appeared>>
      /\ Outcome(source, "unavailable") /\ VerifyTypeOK
  BY DEF Unavailable, VerifyInv
<1>2. /\ result' \in Seq(Checked) /\ Len(result') \in 0..3 /\ Len(result') = Len(result) + 1
      /\ \A i \in 1..Len(result) : result'[i] = result[i]
      /\ result'[Len(result) + 1].outcome = "unavailable" /\ Len(result) \in Nat
  BY <1>1, OutcomeAdds DEF VerifyTypeOK
<1>3. VerifyTypeOK'
  BY <1>1, <1>2 DEF VerifyTypeOK, Checked
<1>4. AnswersStand'
  BY <1>1, <1>2 DEF VerifyInv, AnswersStand, AccountGood
<1>5. (Len(result) >= 1 /\ result[1].outcome = "clear" => NidaConfirms)'
  BY <1>1, <1>2 DEF VerifyInv, NidaConfirms, RegistryName
<1>6. (Len(result) >= 2 /\ result[2].outcome = "clear" => CbsConfirms)'
  <2>1. ASSUME Len(result') >= 2, result'[2].outcome = "clear"
        PROVE  CbsConfirms /\ result'[1] = result[1]
    BY <1>2, <2>1 DEF VerifyInv
  <2> QED
    BY <1>1, <2>1 DEF CbsConfirms, Identity, RegistryName
<1>7. (Len(result) >= 3 /\ result[3].outcome = "clear" => ~Hit(Identity.name, Listed))'
  BY <1>1, <1>2
<1> QED
  BY <1>3, <1>4, <1>5, <1>6, <1>7 DEF VerifyInv

LEMMA CheckNidaHolds ==
  ASSUME VerifyInv, CheckNida
  PROVE  VerifyInv'
<1> DEFINE confirmed == /\ registry # NoRecord
                    /\ SameWords(declared.name, RegistryName)
                    /\ declared.birth = registry.birth
<1>1. /\ UNCHANGED <<declared, registry, customer, account, answer, link, appeared>>
      /\ Outcome("nida", ClearIf(confirmed)) /\ VerifyTypeOK /\ result = <<>> /\ Len(result) = 0
  BY DEF CheckNida, VerifyInv
<1>2. ClearIf(confirmed) \in {"clear", "review", "unavailable"} /\ (ClearIf(confirmed) = "clear" => confirmed)
  BY DEF ClearIf
<1> HIDE DEF confirmed
<1>3. /\ result' \in Seq(Checked) /\ Len(result') \in 0..3 /\ Len(result') = 1
      /\ result'[1].outcome = ClearIf(confirmed)
  BY <1>1, <1>2, OutcomeAdds
<1>4. VerifyTypeOK'
  BY <1>1, <1>3 DEF VerifyTypeOK, Checked
<1>5. AnswersStand'
  BY <1>1, <1>3 DEF VerifyInv, AnswersStand, AccountGood
<1>6. (Len(result) >= 1 /\ result[1].outcome = "clear" => NidaConfirms)'
  BY <1>1, <1>2, <1>3 DEF confirmed, NidaConfirms, RegistryName
<1>7. /\ (Len(result) >= 2 /\ result[2].outcome = "clear" => CbsConfirms)'
      /\ (Len(result) >= 3 /\ result[3].outcome = "clear" => ~Hit(Identity.name, Listed))'
  BY <1>3
<1> QED
  BY <1>4, <1>5, <1>6, <1>7 DEF VerifyInv

LEMMA ScreenHolds ==
  ASSUME VerifyInv, Screen
  PROVE  VerifyInv'
<1> DEFINE free == ~Hit(Identity.name, Listed)
<1>1. /\ UNCHANGED <<declared, registry, customer, account, answer, link, appeared>>
      /\ Outcome("list", ClearIf(free)) /\ VerifyTypeOK /\ Len(result) = 2
  BY DEF Screen, VerifyInv
<1>2. ClearIf(free) \in {"clear", "review", "unavailable"} /\ (ClearIf(free) = "clear" => free)
  BY DEF ClearIf
<1> HIDE DEF free
<1>3. /\ result' \in Seq(Checked) /\ Len(result') \in 0..3 /\ Len(result') = 3
      /\ result'[1] = result[1] /\ result'[2] = result[2]
      /\ result'[3].outcome = ClearIf(free)
  BY <1>1, <1>2, OutcomeAdds
<1>4. VerifyTypeOK'
  BY <1>1, <1>3 DEF VerifyTypeOK, Checked
<1>5. AnswersStand'
  BY <1>1, <1>3 DEF VerifyInv, AnswersStand, AccountGood
<1>6. (Len(result) >= 1 /\ result[1].outcome = "clear" => NidaConfirms)'
  BY <1>1, <1>3 DEF VerifyInv, NidaConfirms, RegistryName
<1>7. (Len(result) >= 2 /\ result[2].outcome = "clear" => CbsConfirms)'
  <2>1. ASSUME result'[2].outcome = "clear"
        PROVE  CbsConfirms
    BY <1>1, <1>3, <2>1 DEF VerifyInv
  <2> QED
    BY <1>1, <1>3, <2>1 DEF CbsConfirms, Identity, RegistryName
<1>8. (Len(result) >= 3 /\ result[3].outcome = "clear" => ~Hit(Identity.name, Listed))'
  <2>1. ASSUME result'[3].outcome = "clear"
        PROVE  ~Hit(Identity.name, Listed)
    BY <1>2, <1>3, <2>1 DEF free
  <2>2. Identity' = Identity
    BY <1>1, <1>3 DEF Identity, RegistryName
  <2> QED
    BY <2>1, <2>2
<1> QED
  BY <1>4, <1>5, <1>6, <1>7, <1>8 DEF VerifyInv

LEMMA AskByNidaHolds ==
  ASSUME VerifyInv, AskByNida
  PROVE  VerifyInv'
<1>1. /\ UNCHANGED <<declared, registry, customer, account, result, link, appeared>>
      /\ answer' = [answer EXCEPT !.byNida = <<customer>>] /\ Len(result) = 1
  BY DEF AskByNida
<1>2. answer'.byNida = <<customer>> /\ answer'.byAccount = answer.byAccount
  BY <1>1 DEF VerifyInv, AnswersStand
<1>3. VerifyTypeOK'
  BY <1>1 DEF VerifyInv, VerifyTypeOK
<1>4. AnswersStand'
  BY <1>1, <1>2 DEF VerifyInv, AnswersStand, AccountGood
<1>5. (Len(result) >= 1 /\ result[1].outcome = "clear" => NidaConfirms)'
  BY <1>1 DEF VerifyInv, NidaConfirms, RegistryName
<1> QED
  BY <1>1, <1>3, <1>4, <1>5 DEF VerifyInv

LEMMA AskByAccountHolds ==
  ASSUME VerifyInv, AskByAccount
  PROVE  VerifyInv'
<1> DEFINE seen == [owner |-> account, funded |-> IF account = "own" THEN customer.funded ELSE account = "another"]
<1>1. /\ UNCHANGED <<declared, registry, customer, account, result, link, appeared>>
      /\ answer' = [answer EXCEPT !.byAccount = <<seen>>] /\ Len(result) = 1
  BY DEF AskByAccount
<1>2. seen.owner = "own" => account = "own" /\ seen.funded = customer.funded
  OBVIOUS
<1> HIDE DEF seen
<1>3. answer'.byAccount = <<seen>> /\ answer'.byNida = answer.byNida
  BY <1>1 DEF VerifyInv, AnswersStand
<1>4. VerifyTypeOK'
  BY <1>1 DEF VerifyInv, VerifyTypeOK
<1>5. AnswersStand'
  BY <1>1, <1>2, <1>3 DEF VerifyInv, AnswersStand, AccountGood
<1>6. (Len(result) >= 1 /\ result[1].outcome = "clear" => NidaConfirms)'
  BY <1>1 DEF VerifyInv, NidaConfirms, RegistryName
<1> QED
  BY <1>1, <1>4, <1>5, <1>6 DEF VerifyInv

LEMMA BecomeCustomerHolds ==
  ASSUME VerifyInv, BecomeCustomer
  PROVE  VerifyInv'
<1>1. /\ UNCHANGED <<declared, registry, answer, result, link>> /\ appeared' = TRUE
      /\ customer = NoRecord /\ Len(result) = 1 /\ customer' \in Customers /\ customer' # NoRecord
      /\ account' = account \/ account' = "own"
  BY NamesAreWords DEF BecomeCustomer
<1>2. VerifyTypeOK'
  BY <1>1 DEF VerifyInv, VerifyTypeOK
<1>3. account # "own"
  BY <1>1 DEF VerifyInv, VerifyTypeOK
<1>4. AnswersStand'
  <2>1. answer.byNida # <<>> => answer.byNida[1] = NoRecord
    BY <1>1 DEF VerifyInv, AnswersStand
  <2>2. ~(answer.byAccount # <<>> /\ AccountGood)
    BY <1>3 DEF VerifyInv, AnswersStand
  <2> QED
    BY <1>1, <2>1, <2>2 DEF VerifyInv, AnswersStand, AccountGood
<1>5. (Len(result) >= 1 /\ result[1].outcome = "clear" => NidaConfirms)'
  BY <1>1 DEF VerifyInv, NidaConfirms, RegistryName
<1> QED
  BY <1>1, <1>2, <1>4, <1>5 DEF VerifyInv

LEMMA CheckCbsFacts ==
  ASSUME VerifyInv, CheckCbs
  PROVE  /\ UNCHANGED <<declared, registry, customer, account, answer, appeared>> /\ Len(result) = 1
         /\ \E upshot \in {"clear", "review", "unavailable"} :
              /\ Outcome("cbs", upshot)
              /\ upshot = "clear" =>
                   /\ declared.account => account = "own" /\ customer.funded
                   /\ link' = "existing" => /\ customer # NoRecord /\ Identity.birth = customer.birth
                                          /\ SameWords(Identity.name, customer.name)
                   /\ link' = "new" => customer = NoRecord \/ appeared
<1> DEFINE known == answer.byNida[1]
           good == declared.account => AccountGood
           funded == good /\ (declared.account \/ known.funded)
           same == /\ funded
                   /\ SameWords(Identity.name, known.name)
                   /\ Identity.birth = known.birth
<1>1. /\ UNCHANGED <<declared, registry, customer, account, answer, appeared>> /\ Len(result) = 1
      /\ answer.byNida # <<>> /\ (declared.account => answer.byAccount # <<>>)
      /\ \/ /\ known = NoRecord /\ Outcome("cbs", ClearIf(good))
            /\ link' = IF good THEN "new" ELSE "unresolved"
         \/ /\ known # NoRecord /\ Outcome("cbs", ClearIf(same))
            /\ link' = IF funded THEN "existing" ELSE "unresolved"
  BY DEF CheckCbs
<1>2. known = customer \/ (known = NoRecord /\ appeared)
  BY <1>1 DEF VerifyInv, AnswersStand
<1>3. good /\ declared.account => account = "own" /\ customer.funded
  BY <1>1 DEF VerifyInv, AnswersStand
<1>4. /\ ClearIf(good) \in {"clear", "review", "unavailable"} /\ (ClearIf(good) = "clear" => good)
      /\ ClearIf(same) \in {"clear", "review", "unavailable"}
      /\ (ClearIf(same) = "clear" => same)
  BY DEF ClearIf
<1>5. same => /\ good
              /\ SameWords(Identity.name, known.name)
              /\ Identity.birth = known.birth
  OBVIOUS
<1> HIDE DEF known, good, funded, same
<1>6. CASE known = NoRecord
  <2>1. Outcome("cbs", ClearIf(good)) /\ link' # "existing"
    BY <1>1, <1>6
  <2>2. customer = NoRecord \/ appeared
    BY <1>2, <1>6
  <2> QED
    BY <1>1, <1>3, <1>4, <2>1, <2>2
<1>7. CASE known # NoRecord
  <2>1. Outcome("cbs", ClearIf(same)) /\ link' # "new" /\ known = customer
    BY <1>1, <1>2, <1>7
  <2> QED
    BY <1>1, <1>3, <1>4, <1>5, <2>1
<1> QED
  BY <1>6, <1>7

LEMMA CheckCbsHolds ==
  ASSUME VerifyInv, CheckCbs
  PROVE  VerifyInv'
<1>1. /\ UNCHANGED <<declared, registry, customer, account, answer, appeared>> /\ Len(result) = 1
      /\ VerifyTypeOK
  BY CheckCbsFacts DEF VerifyInv
<1>2. PICK upshot \in {"clear", "review", "unavailable"} :
        /\ Outcome("cbs", upshot)
        /\ upshot = "clear" =>
             /\ declared.account => account = "own" /\ customer.funded
             /\ link' = "existing" => /\ customer # NoRecord /\ Identity.birth = customer.birth
                                          /\ SameWords(Identity.name, customer.name)
             /\ link' = "new" => customer = NoRecord \/ appeared
  BY CheckCbsFacts
<1>3. /\ result' \in Seq(Checked) /\ Len(result') \in 0..3 /\ Len(result') = 2
      /\ result'[1] = result[1] /\ result'[2].outcome = upshot
  BY <1>1, <1>2, OutcomeAdds
<1>4. VerifyTypeOK'
  BY <1>1, <1>3 DEF VerifyTypeOK, Checked
<1>5. AnswersStand'
  BY <1>1, <1>3 DEF VerifyInv, AnswersStand, AccountGood
<1>6. (Len(result) >= 1 /\ result[1].outcome = "clear" => NidaConfirms)'
  BY <1>1, <1>3 DEF VerifyInv, NidaConfirms, RegistryName
<1>7. Identity' = Identity
  BY <1>1, <1>3 DEF Identity, RegistryName
<1>8. (Len(result) >= 2 /\ result[2].outcome = "clear" => CbsConfirms)'
  BY <1>1, <1>2, <1>3, <1>7 DEF CbsConfirms
<1>9. (Len(result) >= 3 /\ result[3].outcome = "clear" => ~Hit(Identity.name, Listed))'
  BY <1>3
<1> QED
  BY <1>4, <1>5, <1>6, <1>8, <1>9 DEF VerifyInv

LEMMA VerifyInvStays == VerifyInv /\ [VerifyNext]_verifyVars => VerifyInv'
<1> SUFFICES ASSUME VerifyInv, [VerifyNext]_verifyVars PROVE VerifyInv'
  OBVIOUS
<1>1. CASE BecomeCustomer \/ CheckNida \/ AskByNida \/ AskByAccount \/ CheckCbs \/ Screen
  BY <1>1, BecomeCustomerHolds, CheckNidaHolds, AskByNidaHolds, AskByAccountHolds, CheckCbsHolds, ScreenHolds
<1>2. CASE NidaUnavailable \/ CbsUnavailable \/ ListUnavailable
  <2>1. CASE NidaUnavailable
    BY <2>1, UnavailableHolds DEF NidaUnavailable
  <2>2. CASE CbsUnavailable
    BY <2>2, UnavailableHolds DEF CbsUnavailable
  <2>3. CASE ListUnavailable
    BY <2>3, UnavailableHolds DEF ListUnavailable
  <2> QED
    BY <1>2, <2>1, <2>2, <2>3
<1>3. CASE UNCHANGED verifyVars
  BY <1>3 DEF verifyVars, VerifyInv, VerifyTypeOK, AnswersStand, AccountGood, NidaConfirms, CbsConfirms,
     Identity, RegistryName
<1> QED
  BY <1>1, <1>2, <1>3 DEF VerifyNext

LEMMA VerifyInvTells == VerifyInv => AutoApprovedIsVerified
<1> SUFFICES ASSUME VerifyInv, CanAutoApprove PROVE
      /\ registry # NoRecord /\ registry.birth = declared.birth
      /\ registry.name # <<>> => SameWords(registry.name, declared.name)
      /\ declared.account => account = "own" /\ customer.funded
      /\ link = "existing" => /\ customer.birth = declared.birth
                              /\ SameWords(customer.name, declared.name)
      /\ link = "new" => customer = NoRecord \/ appeared
      /\ IsListed(declared.name) => Ambiguous(declared.name)
  BY DEF AutoApprovedIsVerified
<1>1. /\ Len(result) = 3 /\ result[1].outcome = "clear" /\ result[2].outcome = "clear"
      /\ result[3].outcome = "clear"
  BY DEF CanAutoApprove, VerifyInv, VerifyTypeOK
<1>2. NidaConfirms /\ CbsConfirms /\ ~Hit(Identity.name, Listed) /\ VerifyTypeOK
  BY <1>1 DEF VerifyInv
<1>3. /\ registry # NoRecord /\ SameWords(declared.name, RegistryName)
      /\ declared.birth = registry.birth
  BY <1>2 DEF NidaConfirms
<1>4. Identity.name = RegistryName /\ Identity.birth = registry.birth
  BY <1>1, <1>3 DEF Identity
<1>5. IsWords(declared.name) /\ IsWords(RegistryName) /\ IsWords(Listed)
  <2>1. declared.name \in Names /\ (registry.name \in Names \/ registry.name = <<>>)
    BY <1>2, <1>3 DEF VerifyTypeOK, Registered
  <2> QED
    BY <2>1, NamesAreWords DEF RegistryName
<1>6. registry.name # <<>> => SameWords(registry.name, declared.name)
  BY <1>3, <1>5, SameWordsBack DEF RegistryName
<1>7. ASSUME link = "existing"
      PROVE  customer.birth = declared.birth /\ SameWords(customer.name, declared.name)
  <2>1. SameWords(RegistryName, customer.name) /\ registry.birth = customer.birth
    BY <1>2, <1>4, <1>7 DEF CbsConfirms
  <2>2. IsWords(customer.name)
    <3>1. customer \in Customers
      BY <1>2, <1>7 DEF VerifyTypeOK, CbsConfirms
    <3> QED
      BY <3>1, NamesAreWords DEF Customers
  <2>3. SameWords(declared.name, customer.name)
    BY <1>3, <1>5, <2>1, <2>2, SameWordsOn
  <2> QED
    BY <1>3, <1>5, <2>1, <2>2, <2>3, SameWordsBack
<1>8. IsListed(declared.name) => Ambiguous(declared.name)
  BY <1>2, <1>3, <1>4, <1>5, ListedAreHit
<1> QED
  BY <1>2, <1>3, <1>6, <1>7, <1>8 DEF CbsConfirms

\* What is said of an application that may be approved without a reviewer holds
\* (autoApprove after service/checks.ts): a record of the registry confirms the name
\* and the birth, the account is the applicant's own, the customer it is linked to is
\* the same person, and a listed name never passed unless its words were in doubt.
THEOREM AutoApprovedIsVerifiedAlways == VerifySpec => []AutoApprovedIsVerified
BY VerifyInitHolds, VerifyInvStays, VerifyInvTells, PTL DEF VerifySpec

==============================================================================
