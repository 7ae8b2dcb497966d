------------------------------- MODULE Portfolio -------------------------------
(***************************************************************************)
(* What the portal shows an investor of their money and bids: the store    *)
(* behind the dashboard and "My bids", which is read once at the start and *)
(* again after every bid and withdrawal, by three requests side by side,   *)
(* while the auction service and core banking go on.  Several bids and     *)
(* withdrawals may be under way in the portal at once: only the row being  *)
(* withdrawn is locked, and the screen may be left.                        *)
(*                                                                         *)
(* A bid holds Stake; of an allotment Part or all of it stays held.        *)
(***************************************************************************)
EXTENDS Integers, Sequences, FiniteSetsExt

CONSTANTS
  MyBids,      \* the bids the investor may come to make
  Funds,       \* on the account
  Stake, Part,
  MaxErrands,  \* bound: the portal's loads, bids and withdrawals
  MaxMoves,    \* bound: steps towards a result
  MaxSlips     \* bound: lost answers and holds not released

ASSUME PortfolioAssumption ==
  /\ IsFiniteSet(MyBids) /\ Funds \in Nat /\ Stake \in Nat /\ Part \in 0..Stake /\ MaxErrands \in Nat
  /\ MaxMoves \in Nat /\ MaxSlips \in Nat

Errands == 1..MaxErrands

VARIABLES
  stands,   \* the status of every bid at the auction service
  onHold,   \* what core banking holds for it
  requests,    \* the requests the auction service works on
  bidding,  \* the auction is open
  store,    \* what the portal shows, and how it came by it
  errand,   \* the portal's tasks
  locked,   \* the row of "My bids" being withdrawn, if any
  told,     \* the bids whose withdrawal was said to be done
  moves, slips

services == <<stands, onHold, requests, bidding, moves>>
screen == <<store, errand, locked, told>>
portfolioVars == <<services, screen, slips>>

Held == MapThenSumSet(LAMBDA b : onHold[b], MyBids)

----------------------------------------------------------------------------
(* What the portal makes of what it is sent                                *)

Label == [ placed |-> "Pending submission", in_batch |-> "Submitted", submitted |-> "Submitted",
           accepted |-> "Submitted", allotted |-> "Allotted", partially_allotted |-> "Partially allotted",
           unsuccessful |-> "Unsuccessful", rejected |-> "Rejected", withdrawn |-> "Withdrawn" ]

\* myBids: a row for each bid made.
Rows == [b \in {b \in MyBids : stands[b] # "none"} |-> Label[stands[b]]]

OpenStates == {"placed", "in_batch", "submitted", "accepted"}

\* summary: the balance core banking gives, and the number of open bids.
Balances == [available |-> Funds - Held, onHold |-> Held]
OpenCount == Cardinality({b \in MyBids : stands[b] \in OpenStates})

Withdrawable == {b \in DOMAIN store.rows : store.rows[b] = "Pending submission"}

----------------------------------------------------------------------------
(* The services                                                            *)

Order(do, b, t) == [do |-> do, bid |-> b, by |-> t, half |-> FALSE]

\* What a bid of a status asks to be held.
Due(s) ==
  CASE s \in {"placed", "in_batch", "submitted", "accepted", "allotted"} -> Stake
    [] s = "partially_allotted" -> Part
    [] OTHER -> 0

\* No request is half done, and every hold is what its bid asks for.
AtRest == (\A r \in requests : ~r.half) /\ \A b \in MyBids : onHold[b] = Due(stands[b])

\* Tasks that read while the services move see a part before and a part after.
ServiceStep ==
  /\ errand' = [t \in Errands |-> [errand[t] EXCEPT !.calm = FALSE]]
  /\ UNCHANGED <<bidding, store, locked, told, moves, slips>>

\* A step of the bids' way to a result.
Move ==
  /\ moves < MaxMoves /\ moves' = moves + 1
  /\ errand' = [t \in Errands |-> [errand[t] EXCEPT !.calm = FALSE]]
  /\ UNCHANGED <<requests, bidding, store, locked, told, slips>>

Halfway(r) == requests' = (requests \ {r}) \cup {[r EXCEPT !.half = TRUE]}

\* place: the hold first ...
TakeHold(r) ==
  /\ r.do = "place" /\ ~r.half /\ bidding /\ Held + Stake <= Funds
  /\ onHold' = [onHold EXCEPT ![r.bid] = Stake]
  /\ Halfway(r) /\ UNCHANGED stands /\ ServiceStep

\* ... then the bid.
CreateBid(r) ==
  /\ r.do = "place" /\ r.half
  /\ stands' = [stands EXCEPT ![r.bid] = "placed"]
  /\ requests' = requests \ {r} /\ UNCHANGED onHold /\ ServiceStep

\* withdraw: the status first ...
WithdrawBid(r) ==
  /\ r.do = "withdraw" /\ ~r.half /\ stands[r.bid] = "placed" /\ bidding
  /\ stands' = [stands EXCEPT ![r.bid] = "withdrawn"]
  /\ Halfway(r) /\ UNCHANGED onHold /\ ServiceStep

\* ... then the hold.
ReleaseWithdrawn(r) ==
  /\ r.do = "withdraw" /\ r.half
  /\ onHold' = [onHold EXCEPT ![r.bid] = 0]
  /\ requests' = requests \ {r} /\ UNCHANGED stands /\ ServiceStep

\* After the cut-off: into a batch, to BoT, and the result.
NextStands == [ placed |-> {"in_batch"}, in_batch |-> {"submitted"}, submitted |-> {"accepted", "rejected"},
             accepted |-> {"allotted", "partially_allotted", "unsuccessful"} ]

Progress(b) ==
  /\ ~bidding /\ stands[b] \in DOMAIN NextStands
  /\ \E s \in NextStands[stands[b]] : stands' = [stands EXCEPT ![b] = s]
  /\ UNCHANGED onHold /\ Move

\* The hold follows a result.
SettleHold(b) ==
  /\ stands[b] \in {"partially_allotted", "unsuccessful", "rejected"} /\ onHold[b] # Due(stands[b])
  /\ onHold' = [onHold EXCEPT ![b] = Due(stands[b])]
  /\ UNCHANGED stands /\ Move

CutOff == bidding /\ bidding' = FALSE /\ UNCHANGED <<stands, onHold, requests, moves, screen, slips>>

----------------------------------------------------------------------------
(* The store                                                               *)

\* The three answers of a refresh, each as it was when it was read.
Nothing == [funds |-> <<>>, count |-> <<>>, rows |-> <<>>]

Task(pc, for, calm) == [pc |-> pc, for |-> for, got |-> Nothing, calm |-> calm, passed |-> FALSE]
NoTask == Task("none", <<>>, FALSE)
Over == Task("over", <<>>, FALSE)

\* Tasks are taken in turn.
Unused(t) == errand[t] = NoTask /\ \A u \in 1..t - 1 : errand[u] # NoTask

\* A task that reads without having asked for anything before.
Unprompted == <<>>

\* Bids the investor has made before, come as far as each other.
PortfolioInit ==
  /\ \E had \in SUBSET MyBids, s \in DOMAIN Label :
       /\ stands = [b \in MyBids |-> IF b \in had THEN s ELSE "none"]
       /\ bidding = (s = "placed")
  /\ onHold = [b \in MyBids |-> Due(stands[b])] /\ requests = {}
  /\ store = [available |-> Funds - Held, onHold |-> Held, count |-> OpenCount, rows |-> Rows,
              calm |-> TRUE, overtaken |-> FALSE]
  /\ errand = [t \in Errands |-> NoTask]
  /\ locked = {} /\ told = {} /\ moves = 0 /\ slips = 0

SendOff(t, r) ==
  /\ Unused(t)
  /\ requests' = requests \cup {r}
  /\ errand' = [errand EXCEPT ![t] = Task("waiting", <<r.do, r.bid>>, FALSE)]
  /\ UNCHANGED <<stands, onHold, bidding, moves, store, told, slips>>

\* Any bid is a new one (see BidForm).
AskBid(t, b) ==
  /\ stands[b] = "none" /\ onHold[b] = 0 /\ \A r \in requests : r.bid # b
  /\ SendOff(t, Order("place", b, t)) /\ UNCHANGED locked

\* A row that is not being withdrawn as far as the screen knows: it remembers one.
AskWithdrawal(t, b) ==
  /\ b \in Withdrawable \ locked
  /\ SendOff(t, Order("withdraw", b, t)) /\ locked' = {b}

IsWithdrawal(t) == errand[t].for # Unprompted /\ errand[t].for[1] = "withdraw"

\* withdrawing is cleared, whichever row it is by now.
Unlock(t) == locked' = IF IsWithdrawal(t) THEN {} ELSE locked

Drops(t) ==
  /\ errand' = [errand EXCEPT ![t] = Over] /\ Unlock(t)
  /\ UNCHANGED <<stands, onHold, bidding, moves, store, told>>

Awaited(t) == errand[t].pc = "waiting"

StartReading(t) ==
  /\ errand' = [errand EXCEPT ![t] = Task("reading", errand[t].for, AtRest)]
  /\ UNCHANGED <<services, store, locked, told, slips>>

\* The account is read at once.
RepliedOrNot(t) == Awaited(t) /\ StartReading(t)

\* The account is read again once the answer has come.
Replied(t) == Awaited(t) /\ (\A r \in requests : r.by # t) /\ StartReading(t)

\* Closed, out of funds or no longer withdrawable: nothing is read again.
TurnedDown(r) ==
  /\ ~r.half
  /\ \/ ~bidding
     \/ r.do = "place" /\ Held + Stake > Funds
     \/ r.do = "withdraw" /\ stands[r.bid] # "placed"
  /\ requests' = requests \ {r} /\ UNCHANGED slips
  /\ IF Awaited(r.by) THEN Drops(r.by) ELSE UNCHANGED <<stands, onHold, bidding, moves, screen>>

\* The hold of a withdrawn bid could not be released.
ReleaseFails(r) ==
  /\ r.do = "withdraw" /\ r.half /\ slips < MaxSlips /\ slips' = slips + 1
  /\ requests' = requests \ {r}
  /\ IF Awaited(r.by) THEN Drops(r.by) ELSE UNCHANGED <<stands, onHold, bidding, moves, screen>>

\* The answer is lost while the service goes on, or one of the three of a refresh.
Lost(t) ==
  /\ errand[t].pc \in {"waiting", "reading"} /\ slips < MaxSlips /\ slips' = slips + 1
  /\ Drops(t) /\ UNCHANGED requests

Read(t, what) ==
  /\ errand[t].pc = "reading" /\ errand[t].got[what] = <<>>
  /\ errand' = [errand EXCEPT ![t].got[what] =
       CASE what = "funds" -> <<Balances>> [] what = "count" -> <<OpenCount>> [] what = "rows" -> <<Rows>>]
  /\ UNCHANGED <<services, store, locked, told, slips>>

\* summary and bids are replaced together; tasks that have read already are passed.
Shows(t) ==
  LET got == errand[t].got IN
  /\ errand[t].pc = "reading" /\ \A what \in DOMAIN Nothing : got[what] # <<>>
  /\ store' = [available |-> got.funds[1].available, onHold |-> got.funds[1].onHold,
               count |-> got.count[1], rows |-> got.rows[1],
               calm |-> errand[t].calm, overtaken |-> errand[t].passed]
  /\ errand' = [u \in Errands |-> IF u = t THEN Over
                  ELSE [errand[u] EXCEPT !.passed = @ \/ errand[u].got.rows # <<>>]]
  /\ told' = IF IsWithdrawal(t) THEN told \cup {errand[t].for[2]} ELSE told
  /\ Unlock(t)
  /\ UNCHANGED <<services, slips>>

\* load: the portal opens again.
OpenAgain(t) ==
  /\ Unused(t) /\ \A u \in Errands : errand[u] \in {NoTask, Over}
  /\ errand' = [errand EXCEPT ![t] = Task("reading", Unprompted, AtRest)]
  /\ locked' = {}
  /\ UNCHANGED <<services, store, told, slips>>

PortfolioNext ==
  \/ CutOff
  \/ \E r \in requests :
       TakeHold(r) \/ CreateBid(r) \/ WithdrawBid(r) \/ ReleaseWithdrawn(r) \/ TurnedDown(r) \/ ReleaseFails(r)
  \/ \E b \in MyBids :
       \/ SettleHold(b) \/ Progress(b)
       \/ \E t \in Errands : AskBid(t, b) \/ AskWithdrawal(t, b)
  \/ \E t \in Errands :
       \/ Replied(t) \/ Lost(t) \/ Shows(t) \/ OpenAgain(t)
       \/ \E what \in DOMAIN Nothing : Read(t, what)

PortfolioSpec == PortfolioInit /\ [][PortfolioNext]_portfolioVars

----------------------------------------------------------------------------
(* Properties                                                              *)

\* A bid whose withdrawal the investor was told is done is shown withdrawn and not
\* offered for withdrawal again, unless two refreshes crossed and the answers of the
\* earlier came last: nothing orders them (investor.ts:62-75).
WithdrawnIsShown ==
  \A b \in told : store.overtaken \/ (b \in DOMAIN store.rows /\ store.rows[b] = "Withdrawn")

\* The tiles of the dashboard and the rows of "My bids" agree, though they come from two
\* services and three reads that nothing holds together: as long as neither service
\* moved between the reads, what is on hold is what the rows ask for, and the number of
\* open bids beside it (DashboardView.vue:45-48) is that of the rows that are open.
FundsAgree ==
  store.calm =>
    /\ store.count = Cardinality({b \in DOMAIN store.rows : store.rows[b] \in {"Pending submission", "Submitted"}})
    /\ store.onHold = Stake * Cardinality({b \in DOMAIN store.rows :
                                  store.rows[b] \in {"Pending submission", "Submitted", "Allotted"}})
                      + Part * Cardinality({b \in DOMAIN store.rows : store.rows[b] = "Partially allotted"})
    /\ store.available + store.onHold = Funds

\* What the investor is shown of their money and bids holds together.
StoreIsTrue == WithdrawnIsShown /\ FundsAgree

----------------------------------------------------------------------------
(* The inductive invariant                                                 *)

Labels == {Label[s] : s \in DOMAIN Label}
RowTables == UNION {[S -> Labels] : S \in SUBSET MyBids}

Orders == [do : {"place", "withdraw"}, bid : MyBids, by : Errands, half : BOOLEAN]
Readings == [funds : Seq([available : Int, onHold : Nat]), count : Seq(Nat), rows : Seq(RowTables)]
ErrandRows ==
  [pc : {"none", "waiting", "reading", "over"}, for : {<<>>} \cup ({"place", "withdraw"} \X MyBids),
   got : Readings, calm : BOOLEAN, passed : BOOLEAN]

PortfolioTypeOK ==
  /\ stands \in [MyBids -> {"none"} \cup DOMAIN Label] /\ onHold \in [MyBids -> Nat]
  /\ requests \in SUBSET Orders /\ errand \in [Errands -> ErrandRows] /\ bidding \in BOOLEAN
  /\ store \in [available : Int, onHold : Nat, count : Nat, rows : RowTables,
                calm : BOOLEAN, overtaken : BOOLEAN]
  /\ locked \in SUBSET MyBids /\ told \in SUBSET MyBids /\ moves \in Nat /\ slips \in Nat

Made(rows) == \A b \in DOMAIN rows : stands[b] # "none"

HasRows(t) == errand[t].got.rows # <<>>
ReadAs(t, b, label) == b \in DOMAIN errand[t].got.rows[1] /\ errand[t].got.rows[1][b] = label

\* Who waits has asked for that bid; a bid being made is asked for once.
OrdersStand ==
  \A r \in requests :
    /\ r.do = "place" => stands[r.bid] = "none" /\ \A x \in requests : x.bid = r.bid => x = r
    /\ r.do = "withdraw" => stands[r.bid] # "none" /\ (r.half => stands[r.bid] = "withdrawn")
    /\ errand[r.by].pc \in {"waiting", "over"}
    /\ errand[r.by].pc = "waiting" => errand[r.by].for = <<r.do, r.bid>>

\* What was read calmly is how things are.
CalmReads ==
  \A t \in Errands : errand[t].calm =>
    /\ AtRest
    /\ errand[t].got.funds # <<>> => errand[t].got.funds[1] = Balances
    /\ errand[t].got.count # <<>> => errand[t].got.count[1] = OpenCount
    /\ HasRows(t) => errand[t].got.rows[1] = Rows

\* Who reads after a withdrawal reads it as done.
WithdrawalsStand ==
  \A t \in Errands : IsWithdrawal(t) =>
    /\ errand[t].pc = "waiting" =>
         (\E r \in requests : r.by = t) \/ stands[errand[t].for[2]] = "withdrawn"
    /\ errand[t].pc = "reading" =>
         /\ stands[errand[t].for[2]] = "withdrawn"
         /\ HasRows(t) => ReadAs(t, errand[t].for[2], "Withdrawn")

ToldStands ==
  \A b \in told :
    /\ stands[b] = "withdrawn"
    /\ \A t \in Errands : HasRows(t) /\ ~errand[t].passed => ReadAs(t, b, "Withdrawn")

PortfolioInv ==
  /\ PortfolioTypeOK /\ OrdersStand /\ CalmReads /\ WithdrawalsStand /\ ToldStands
  /\ Made(store.rows) /\ \A t \in Errands : HasRows(t) => Made(errand[t].got.rows[1])
  /\ WithdrawnIsShown /\ FundsAgree
=============================================================================
