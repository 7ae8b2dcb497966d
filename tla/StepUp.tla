------------------------------- MODULE StepUp -------------------------------
(***************************************************************************)
(* Step-up grants (identity, auth/step-up.service.ts): a PIN (or, for      *)
(* staff, a password) approves one action; the service performing the      *)
(* action redeems the grant over HTTP.                                     *)
(*                                                                         *)
(* redeem reads the grant, checks it, and claims it with a conditional     *)
(* update.  Any number of redemptions, of the same grant too, may be       *)
(* between their read and their claim.                                     *)
(***************************************************************************)
EXTENDS Integers

CONSTANTS
  Grants,       \* grant ids
  Principals,   \* accounts
  Scopes,       \* permissions that need an approval
  Amounts,      \* amounts, in minor units
  NoLimit,      \* maxAmount null; amountMinor absent
  Redemptions,  \* redeem requests, each made once
  Permitted     \* <<account, scope>> pairs the account's role grants

ASSUME StepUpAssumption ==
  /\ Amounts \subseteq Nat
  /\ NoLimit \notin Nat
  /\ Permitted \subseteq Principals \X Scopes

VARIABLES
  grant,        \* the step_up_grants table
  redemption    \* the redeem handlers

vars == <<grant, redemption>>

----------------------------------------------------------------------------

GrantRow ==
  [owner: Principals, scope: Scopes, max: Amounts \cup {NoLimit},
   consumed: BOOLEAN, expired: BOOLEAN]

NotIssued == [consumed |-> FALSE]

Unused == [step |-> "unused"]

RedemptionRow ==
  [grant: Grants, owner: Principals, scope: Scopes, amount: Amounts \cup {NoLimit},
   step: {"received", "checked", "redeemed", "refused"}]

StepUpTypeOK ==
  /\ grant \in [Grants -> GrantRow \cup {NotIssued}]
  /\ redemption \in [Redemptions -> RedemptionRow \cup {Unused}]

StepUpInit ==
  /\ grant = [g \in Grants |-> NotIssued]
  /\ redemption = [k \in Redemptions |-> Unused]

----------------------------------------------------------------------------

\* grant / grantStaff: the role must permit the action; the row is written only
\* after the PIN or password was verified.  A wrong PIN changes nothing here.
Issue(g, a, s, max) ==
  /\ <<a, s>> \in Permitted
  /\ max # 0
  /\ grant[g] = NotIssued
  /\ grant' = [grant EXCEPT ![g] =
                 [owner |-> a, scope |-> s, max |-> max, consumed |-> FALSE, expired |-> FALSE]]
  /\ UNCHANGED redemption

\* The clock passes expiresAt.
Expire(g) ==
  /\ grant[g] # NotIssued
  /\ ~grant[g].expired
  /\ grant' = [grant EXCEPT ![g].expired = TRUE]
  /\ UNCHANGED redemption

\* A service asks to spend a grant: whatever ids, scope and amount it likes.
Receive(k, g, a, s, amount) ==
  /\ redemption[k] = Unused
  /\ redemption' = [redemption EXCEPT ![k] =
       [grant |-> g, owner |-> a, scope |-> s, amount |-> amount, step |-> "received"]]
  /\ UNCHANGED grant

Covers(row, req) ==
  /\ row.owner = req.owner
  /\ row.scope = req.scope
  /\ row.max # NoLimit => req.amount # NoLimit /\ req.amount <= row.max

Redeemable(row, req) ==
  /\ row # NotIssued
  /\ Covers(row, req)
  /\ ~row.consumed
  /\ ~row.expired

ToStep(k, step) == redemption' = [redemption EXCEPT ![k].step = step]

\* redeem up to the update: every refusal but the last.
Check(k) ==
  /\ redemption[k] # Unused
  /\ redemption[k].step = "received"
  /\ \/ Redeemable(grant[redemption[k].grant], redemption[k]) /\ ToStep(k, "checked")
     \/ ~Redeemable(grant[redemption[k].grant], redemption[k]) /\ ToStep(k, "refused")
  /\ UNCHANGED grant

\* Mutants: the update is not conditional; the update is forgotten.
ClaimUnconditionally(k) ==
  /\ redemption[k] # Unused
  /\ redemption[k].step = "checked"
  /\ grant' = [grant EXCEPT ![redemption[k].grant].consumed = TRUE]
  /\ ToStep(k, "redeemed")

\* UPDATE ... WHERE consumed_at IS NULL: one row claimed, or none and a refusal.
Claim(k) ==
  LET g == redemption[k].grant IN
  /\ redemption[k] # Unused
  /\ redemption[k].step = "checked"
  /\ \/ /\ ~grant[g].consumed
        /\ grant' = [grant EXCEPT ![g].consumed = TRUE]
        /\ ToStep(k, "redeemed")
     \/ /\ grant[g].consumed
        /\ ToStep(k, "refused")
        /\ UNCHANGED grant

StepUpNext ==
  \/ \E g \in Grants, a \in Principals, s \in Scopes, max \in Amounts \cup {NoLimit} :
       Issue(g, a, s, max)
  \/ \E g \in Grants : Expire(g)
  \/ \E k \in Redemptions, g \in Grants, a \in Principals, s \in Scopes,
        amount \in Amounts \cup {NoLimit} : Receive(k, g, a, s, amount)
  \/ \E k \in Redemptions : Check(k) \/ Claim(k)

StepUpSpec == StepUpInit /\ [][StepUpNext]_vars

----------------------------------------------------------------------------
(* Properties                                                              *)

RedeemedBy(k, g) ==
  /\ redemption[k] # Unused
  /\ redemption[k].step = "redeemed"
  /\ redemption[k].grant = g

\* A grant is redeemed at most once, however many services and retries race to
\* spend it (the single-use guarantee of step-up.service.ts:100-101).
SingleUse ==
  \A j, k \in Redemptions, g \in Grants :
    RedeemedBy(j, g) /\ RedeemedBy(k, g) => j = k

\* What was redeemed is what was approved: this account, this scope, and no more
\* than the amount the PIN was entered for, though the check and the claim are
\* two statements.
RedeemedAsApproved ==
  \A k \in Redemptions, g \in Grants :
    RedeemedBy(k, g) => /\ grant[g] # NotIssued
                        /\ grant[g].consumed
                        /\ Covers(grant[g], redemption[k])

\* The inductive invariant: a redeemed grant is consumed, and a redemption past
\* its check is covered by the row it read (rows never lose their terms).
StepUpInv ==
  /\ StepUpTypeOK
  /\ SingleUse
  /\ \A k \in Redemptions :
       redemption[k] # Unused =>
         /\ redemption[k].step \in {"checked", "redeemed"} =>
              /\ grant[redemption[k].grant] # NotIssued
              /\ Covers(grant[redemption[k].grant], redemption[k])
         /\ redemption[k].step = "redeemed" => grant[redemption[k].grant].consumed

\* The use each approval was spent on, as the abstract specification sees it.
UsedBy ==
  [g \in Grants |-> IF \E k \in Redemptions : RedeemedBy(k, g)
                    THEN CHOOSE k \in Redemptions : RedeemedBy(k, g)
                    ELSE NoLimit]

Promise == INSTANCE Approval WITH Uses <- Redemptions, NoUse <- NoLimit, usedBy <- UsedBy

\* identity implements the promise of an approval (Approval.tla).
ImplementsApproval == Promise!Spec
=============================================================================
