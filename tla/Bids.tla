-------------------------------- MODULE Bids --------------------------------
(***************************************************************************)
(* Placing, amending and withdrawing a bid (auction, bids/bids.service.ts) *)
(* together with the services each step calls: identity spends the PIN     *)
(* approval (Approval.tla), cbs-gateway keeps the hold (Holds.tla).        *)
(*                                                                         *)
(* Every await of a handler is a step of its own.  A call to cbs-gateway   *)
(* is sent, handled there at its own pace, and answered; the caller may    *)
(* time out or die in between, and the call goes on without it.            *)
(***************************************************************************)
EXTENDS Integers, FiniteSets

CONSTANTS
  Reqs,        \* HTTP requests of investors; a place request names the bid it makes
  Investors, InvestorOf,   \* who sends each request
  Accounts, BankOf,        \* TCB bank accounts, and each investor's
  Ledger, Amounts,         \* see Holds
  Keys, NoKey,             \* Idempotency-Key values, and its absence
  Grants, ScopeOf, Ceiling, \* PIN approvals: what each is for and up to how much
  NoReq,
  Faults       \* TRUE: handlers and transactions may fail, answers may be lost

ASSUME BidsAssumption ==
  /\ InvestorOf \in [Reqs -> Investors]
  /\ BankOf \in [Investors -> Accounts]
  /\ Ledger \in [Accounts -> Nat]
  /\ Amounts \subseteq Nat
  /\ ScopeOf \in [Grants -> {"place", "amend"}]
  /\ Ceiling \in [Grants -> Amounts]
  /\ NoKey \notin Keys
  /\ NoReq \notin Reqs
  /\ Faults \in BOOLEAN

VARIABLES
  open,        \* the auction takes bids: assertOpen passes
  bid,         \* the bids table, by reference
  req,         \* the handlers
  usedBy,      \* the request each PIN approval was spent on
  announced,   \* bid events committed to the outbox
  trouble,     \* history: what befell the requests on each bid, see Troubles
  hold, call, overlapped   \* cbs-gateway

auctionVars == <<open, bid, req, usedBy, announced, trouble>>
cbsVars == <<hold, call, overlapped>>
vars == <<open, bid, req, usedBy, announced, trouble, hold, call, overlapped>>

AccountOf == [r \in Reqs |-> BankOf[InvestorOf[r]]]

Cbs == INSTANCE Holds WITH Refs <- Reqs, Calls <- Reqs

Identity == INSTANCE Approval WITH Uses <- Reqs, NoUse <- NoReq

----------------------------------------------------------------------------

NoBid == [status |-> "none", held |-> 0, by |-> NoReq]

NewReq == [kind |-> "none", pc |-> "new"]

\* Handlers: "validated" (may spend the approval, or mark the bid withdrawn),
\* "holding" (waiting for placeHold or adjustHold), "undoing" and "releasing"
\* (waiting for releaseHold), then "done" or "failed".
Waiting == {"validated", "holding", "undoing", "releasing"}
Over == {"new", "done", "failed"}

\* "raced": two requests worked on the bid at once; "cut": a handler stopped half-way;
\* "unsure": the bid was inserted and its handler never learnt it.
Troubles == {"raced", "cut", "unsure"}

BidsTypeOK ==
  /\ open \in BOOLEAN
  /\ bid \in [Reqs -> [status: {"none", "placed", "withdrawn"},
                       held: Amounts \cup {0}, by: Reqs \cup {NoReq}]]
  /\ req \in [Reqs ->
       [kind: {"place"}, pc: Waiting \cup Over, ref: Reqs, amount: Amounts,
        key: Keys \cup {NoKey}, grant: Grants]
       \cup [kind: {"amend"}, pc: Waiting \cup Over, ref: Reqs, amount: Amounts, grant: Grants]
       \cup [kind: {"withdraw"}, pc: Waiting \cup Over, ref: Reqs]
       \cup {NewReq}]
  /\ usedBy \in [Grants -> Reqs \cup {NoReq}]
  /\ announced \subseteq Reqs \X {"bid.placed", "bid.amended", "bid.withdrawn"}
  /\ trouble \in [Reqs -> SUBSET Troubles]
  /\ Cbs!HoldsTypeOK

BidsInit ==
  /\ open = TRUE
  /\ bid = [r \in Reqs |-> NoBid]
  /\ req = [r \in Reqs |-> NewReq]
  /\ announced = {}
  /\ trouble = [r \in Reqs |-> {}]
  /\ Identity!Init
  /\ Cbs!HoldsInit

----------------------------------------------------------------------------

Goto(r, pc) == req' = [req EXCEPT ![r].pc = pc]

\* The call of r was answered, with a.
Replied(r, a) == call[r].step = "answered" /\ call[r].answer = a

Refused(r) == call[r].step = "answered" /\ call[r].answer # "ok"

\* The bid that carries this investor's idempotency key: at most one row, by the
\* unique index on (account, key).
Keyed(r, key) ==
  {b \in Reqs : /\ key # NoKey
                /\ bid[b].status # "none"
                /\ InvestorOf[b] = InvestorOf[r]
                /\ req[b].key = key}

\* Requests still running on a bid.
Active(b) == {r \in Reqs : req[r].kind # "none" /\ req[r].ref = b /\ req[r].pc \in Waiting}

Trouble(b, what) == trouble' = [trouble EXCEPT ![b] = @ \cup {what}]

\* A request starts to work on bid b.
Joins(b) == IF Active(b) = {} THEN UNCHANGED trouble ELSE Trouble(b, "raced")

----------------------------------------------------------------------------
(* place                                                                   *)

\* A repeated key answers with the bid it made; otherwise bidding must be open.
StartPlace(r, amount, key, g) ==
  LET start(pc) == req' = [req EXCEPT ![r] = [kind |-> "place", pc |-> pc, ref |-> r,
                                              amount |-> amount, key |-> key, grant |-> g]]
  IN
  /\ req[r] = NewReq
  /\ \/ Keyed(r, key) # {} /\ start("done")
     \/ Keyed(r, key) = {} /\ ~open /\ start("failed")
     \/ Keyed(r, key) = {} /\ open /\ start("validated")
  /\ UNCHANGED <<open, bid, usedBy, announced, trouble, cbsVars>>

\* Mutant: the ceiling of the approval is not compared with the amount.
SpendUncapped(r) ==
  LET g == req[r].grant
      op == IF req[r].kind = "place" THEN "place" ELSE "adjust"
  IN
  /\ req[r].kind \in {"place", "amend"}
  /\ req[r].pc = "validated"
  /\ \/ /\ ScopeOf[g] = req[r].kind
        /\ Identity!Use(g, r)
        /\ Goto(r, "holding")
        /\ call' = Cbs!Sent(r, op, req[r].ref, req[r].amount)
     \/ /\ ScopeOf[g] # req[r].kind \/ usedBy[g] # NoReq
        /\ Goto(r, "failed")
        /\ UNCHANGED <<usedBy, call>>
  /\ UNCHANGED <<open, bid, announced, trouble, hold, overlapped>>

\* spend: the approval must cover the amount, and is spent BEFORE the hold is
\* asked for.  The next thing place does is placeHold; amend, adjustHold.
Spend(r) ==
  LET g == req[r].grant
      covered == ScopeOf[g] = req[r].kind /\ req[r].amount <= Ceiling[g]
      op == IF req[r].kind = "place" THEN "place" ELSE "adjust"
  IN
  /\ req[r].kind \in {"place", "amend"}
  /\ req[r].pc = "validated"
  /\ \/ /\ covered
        /\ Identity!Use(g, r)
        /\ Goto(r, "holding")
        /\ call' = Cbs!Sent(r, op, req[r].ref, req[r].amount)
     \/ /\ ~covered \/ usedBy[g] # NoReq
        /\ Goto(r, "failed")
        /\ UNCHANGED <<usedBy, call>>
  /\ UNCHANGED <<open, bid, announced, trouble, hold, overlapped>>

\* Mutants of the transaction below: it does not wait for the hold; nothing makes the
\* key unique; a failure is answered without giving the hold back.
InsertBid(r) ==
  /\ bid' = [bid EXCEPT ![r] = [status |-> "placed", held |-> req[r].amount, by |-> r]]
  /\ announced' = announced \cup {<<r, "bid.placed">>}
  /\ Goto(r, "done")
  /\ UNCHANGED <<open, usedBy, trouble, cbsVars>>

CreateBidTwice(r) ==
  /\ req[r].kind = "place" /\ req[r].pc = "holding"
  /\ Replied(r, "ok")
  /\ InsertBid(r)

\* The transaction that inserts the bid and its event.  It fails on the unique
\* index of the key, or with the database; then the hold is released, best effort.
\* So it is when the transaction committed and the handler never learnt it.
CreateBid(r) ==
  LET insert ==
        /\ Keyed(r, req[r].key) = {}
        /\ bid' = [bid EXCEPT ![r] = [status |-> "placed", held |-> req[r].amount, by |-> r]]
        /\ announced' = announced \cup {<<r, "bid.placed">>}
      giveBack ==
        /\ call' = Cbs!Sent(r, "release", r, 0)
        /\ Goto(r, "undoing")
  IN
  /\ req[r].kind = "place"
  /\ req[r].pc = "holding"
  /\ Replied(r, "ok")
  /\ \/ insert /\ Goto(r, "done") /\ UNCHANGED <<call, trouble>>
     \/ Keyed(r, req[r].key) # {} /\ giveBack /\ UNCHANGED <<bid, announced, trouble>>
     \/ Faults /\ giveBack /\ UNCHANGED <<bid, announced, trouble>>
     \/ Faults /\ insert /\ giveBack /\ Trouble(r, "unsure")
  /\ UNCHANGED <<open, usedBy, hold, overlapped>>

\* Whatever releaseHold answered is swallowed; the request fails.
GivenBack(r) ==
  /\ req[r].pc = "undoing"
  /\ call[r].step = "answered"
  /\ Goto(r, "failed")
  /\ UNCHANGED <<open, bid, usedBy, announced, trouble, cbsVars>>

----------------------------------------------------------------------------
(* amend                                                                   *)

StartAmend(r, b, amount, g) ==
  LET start(pc) == req' = [req EXCEPT ![r] = [kind |-> "amend", pc |-> pc, ref |-> b,
                                              amount |-> amount, grant |-> g]]
  IN
  /\ req[r] = NewReq
  /\ bid[b].status # "none" /\ InvestorOf[b] = InvestorOf[r]
  /\ \/ (bid[b].status # "placed" \/ ~open) /\ start("failed") /\ UNCHANGED trouble
     \/ bid[b].status = "placed" /\ open /\ start("validated") /\ Joins(b)
  /\ UNCHANGED <<open, bid, usedBy, announced, cbsVars>>

\* Mutants: the new amount is added to the old; the new amount is not written.
AmendBidTo(r, held) ==
  /\ req[r].kind = "amend"
  /\ req[r].pc = "holding"
  /\ Replied(r, "ok")
  /\ bid' = [bid EXCEPT ![req[r].ref].held = held, ![req[r].ref].by = r]
  /\ announced' = announced \cup {<<req[r].ref, "bid.amended">>}
  /\ Goto(r, "done")
  /\ UNCHANGED <<open, usedBy, trouble, cbsVars>>

AmendBidAdds(r) == AmendBidTo(r, bid[req[r].ref].held + req[r].amount)

\* The update names the bid by its reference alone: it has no guard on the status.
AmendBid(r) ==
  LET b == req[r].ref IN
  /\ req[r].kind = "amend"
  /\ req[r].pc = "holding"
  /\ Replied(r, "ok")
  /\ bid' = [bid EXCEPT ![b].held = req[r].amount, ![b].by = r]
  /\ announced' = announced \cup {<<b, "bid.amended">>}
  /\ Goto(r, "done")
  /\ UNCHANGED <<open, usedBy, trouble, cbsVars>>

\* insufficient_funds, hold_closed, not_found or an error: the request fails.
HoldRefused(r) ==
  /\ req[r].pc = "holding"
  /\ Refused(r)
  /\ Goto(r, "failed")
  /\ UNCHANGED <<open, bid, usedBy, announced, trouble, cbsVars>>

----------------------------------------------------------------------------
(* withdraw                                                                *)

StartWithdraw(r, b) ==
  LET start(pc) == req' = [req EXCEPT ![r] = [kind |-> "withdraw", pc |-> pc, ref |-> b]]
  IN
  /\ req[r] = NewReq
  /\ bid[b].status # "none" /\ InvestorOf[b] = InvestorOf[r]
  /\ \/ (bid[b].status # "placed" \/ ~open) /\ start("failed") /\ UNCHANGED trouble
     \/ bid[b].status = "placed" /\ open /\ start("validated") /\ Joins(b)
  /\ UNCHANGED <<open, bid, usedBy, announced, cbsVars>>

\* Mutant: the bid is marked and the hold forgotten.
MarkWithdrawnOnly(r) ==
  LET b == req[r].ref IN
  /\ req[r].kind = "withdraw"
  /\ req[r].pc = "validated"
  /\ bid' = [bid EXCEPT ![b].status = "withdrawn"]
  /\ announced' = announced \cup {<<b, "bid.withdrawn">>}
  /\ Goto(r, "done")
  /\ UNCHANGED <<open, usedBy, trouble, cbsVars>>

\* The conditional update placed -> withdrawn, then releaseHold is sent.
MarkWithdrawn(r) ==
  LET b == req[r].ref IN
  /\ req[r].kind = "withdraw"
  /\ req[r].pc = "validated"
  /\ \/ /\ bid[b].status = "placed"
        /\ bid' = [bid EXCEPT ![b].status = "withdrawn"]
        /\ call' = Cbs!Sent(r, "release", b, 0)
        /\ Goto(r, "releasing")
     \/ /\ bid[b].status # "placed"
        /\ Goto(r, "failed")
        /\ UNCHANGED <<bid, call>>
  /\ UNCHANGED <<open, usedBy, announced, trouble, hold, overlapped>>

\* The event is written on its own, after the release.
Withdrawn(r) ==
  /\ req[r].pc = "releasing"
  /\ Replied(r, "ok")
  /\ announced' = announced \cup {<<req[r].ref, "bid.withdrawn">>}
  /\ Goto(r, "done")
  /\ UNCHANGED <<open, bid, usedBy, trouble, cbsVars>>

----------------------------------------------------------------------------
(* The world                                                               *)

\* The cut-off passes, or staff close bidding early.
CloseBidding ==
  /\ open
  /\ open' = FALSE
  /\ UNCHANGED <<bid, req, usedBy, announced, trouble, cbsVars>>

\* A handler stops: its process dies, its call times out (15 s), or its answer
\* or its transaction is lost.  A call not yet received may never be.
Abandon(r) ==
  /\ Faults
  /\ req[r].pc \in Waiting
  /\ Goto(r, "failed")
  /\ Trouble(req[r].ref, "cut")
  /\ \/ UNCHANGED call
     \/ call[r].step = "sent" /\ call' = [call EXCEPT ![r] = Cbs!Idle]
  /\ UNCHANGED <<open, bid, usedBy, announced, hold, overlapped>>

\* The redemption took effect and its answer was lost.
SpendLost(r) ==
  /\ Faults
  /\ req[r].kind \in {"place", "amend"}
  /\ req[r].pc = "validated"
  /\ ScopeOf[req[r].grant] = req[r].kind
  /\ req[r].amount <= Ceiling[req[r].grant]
  /\ Identity!Use(req[r].grant, r)
  /\ Goto(r, "failed")
  /\ UNCHANGED <<open, bid, announced, trouble, cbsVars>>

Start(r) ==
  \/ \E m \in Amounts, k \in Keys \cup {NoKey}, g \in Grants : StartPlace(r, m, k, g)
  \/ \E b \in Reqs, m \in Amounts, g \in Grants : StartAmend(r, b, m, g)
  \/ \E b \in Reqs : StartWithdraw(r, b)

\* What the auction service does next for a request it is serving.
Serve(r) ==
  \/ Spend(r) \/ CreateBid(r) \/ GivenBack(r) \/ AmendBid(r)
  \/ HoldRefused(r) \/ MarkWithdrawn(r) \/ Withdrawn(r)

Handle(r) == Cbs!Handle(r) /\ UNCHANGED auctionVars

BidsNext ==
  \/ \E r \in Reqs : Start(r) \/ Serve(r) \/ Handle(r) \/ Abandon(r) \/ SpendLost(r)
  \/ CloseBidding

BidsSpec == BidsInit /\ [][BidsNext]_vars

----------------------------------------------------------------------------
(* Properties                                                              *)

\* Nothing is under way for bid b, in the auction service or in cbs-gateway.
AtRest(b) ==
  /\ req[b].pc \in Over
  /\ Active(b) = {}
  /\ \A c \in Reqs : call[c].step \in {"sent", "looked"} => call[c].ref # b

\* A bid that stands is always backed by a hold that stands: the hold is placed
\* before the bid exists and released only after the bid no longer stands, whatever
\* times out, dies or races in between.  The one way out is an insert that committed
\* without its handler learning it, whose hold is given back (bids.service.ts:97 takes
\* every failure to mean that "no bid exists").
BidIsFunded ==
  \A b \in Reqs :
    bid[b].status = "placed" /\ "unsure" \notin trouble[b] => hold[b].status = "held"

\* An investor's idempotency key makes at most one bid, however the retries race.
OneBidPerKey ==
  \A b, c \in Reqs :
    /\ bid[b].status # "none" /\ bid[c].status # "none"
    /\ InvestorOf[b] = InvestorOf[c]
    /\ req[b].key = req[c].key /\ req[b].key # NoKey
    => b = c

\* The terms every bid stands on were approved with a PIN: the request that wrote
\* them spent an approval of that kind, for at least that amount, and no other
\* request ever spends the same one.
BidIsApproved ==
  \A b \in Reqs : bid[b].status # "none" =>
    LET by == req[bid[b].by] IN
    /\ usedBy[by.grant] = bid[b].by
    /\ ScopeOf[by.grant] = by.kind
    /\ bid[b].held <= Ceiling[by.grant]

\* Once nothing is under way, what is held for a bid is what the bid says
\* (bids.service.ts:119-128 changes the hold and then the bid), unless two requests worked
\* on the bid at once or one stopped between the two changes.
HoldMatchesQuietBid ==
  \A b \in Reqs :
    AtRest(b) /\ bid[b].status = "placed" /\ trouble[b] = {} => hold[b].amount = bid[b].held

\* Once nothing is under way, no money is held without a bid, whatever raced, and
\* though any transaction may have failed: place gives back what it held
\* (bids.service.ts:97).  Only a handler that stopped half-way leaves such a hold.
NoOrphanHold ==
  \A b \in Reqs :
    AtRest(b) /\ hold[b].status = "held" /\ "cut" \notin trouble[b] =>
      bid[b].status # "none"

\* Once nothing is under way, a withdrawn bid holds nothing and the withdrawal was
\* announced (bids.controller.ts:108, "the hold is released"), though an amend of the
\* same bid raced it; unless a handler stopped half-way, for nobody takes it up again.
WithdrawalReleases ==
  \A b \in Reqs :
    AtRest(b) /\ bid[b].status = "withdrawn" /\ "cut" \notin trouble[b] =>
      hold[b].status = "released" /\ <<b, "bid.withdrawn">> \in announced

\* The funds of a bid through its life: what is held for whom, in flight and at rest.
HoldsFollowBids == BidsTypeOK /\ BidIsFunded /\ HoldMatchesQuietBid /\ NoOrphanHold /\ WithdrawalReleases

=============================================================================
