------------------------------- MODULE Batches -------------------------------
(***************************************************************************)
(* Batches of bids for one auction, with maker-checker, and their way to   *)
(* the Bank of Tanzania: auction batches/batches.service.ts, bot-gateway   *)
(* batches/batch-submission.service.ts, and BoT as bot.service.ts uses it. *)
(*                                                                         *)
(* A task is one staff request (prepare, approve, submit).  A submitting   *)
(* task waits for bot-gateway, whose handler runs on after the task timed  *)
(* out or died.  Investors' requests that passed assertOpen before the     *)
(* cut-off may still write after it.                                       *)
(***************************************************************************)
EXTENDS Integers

CONSTANTS
  Bids,     \* bids of the auction
  Faces,    \* face values
  Staff, NoOne,
  Refs, NoRef,  \* batch references
  Tasks,    \* requests of staff
  Faults    \* TRUE: calls time out, processes die, answers are lost

ASSUME BatchesAssumption ==
  /\ Faces \subseteq Nat
  /\ NoOne \notin Staff
  /\ NoRef \notin Refs
  /\ Faults \in BOOLEAN

VARIABLES
  phase,     \* "open", "closed_for_bids" (TCB's cut-off passed) or "closed" (by BoT)
  bid,       \* the bids table
  write,     \* the write an investor's request has been cleared to make
  batch,     \* the batches table
  task,      \* staff requests, and the gateway call each is waiting for
  gateway,   \* batch_submissions of bot-gateway: what it recorded as sent
  bot,       \* what BoT accepted under each reference
  submitted  \* references whose auction.batch.submitted event is in the outbox

vars == <<phase, bid, write, batch, task, gateway, bot, submitted>>

----------------------------------------------------------------------------

Statuses == {"none", "placed", "withdrawn", "in_batch", "submitted", "accepted"}

Phases == {"open", "closed_for_bids", "closed"}

Packages == SUBSET (Bids \X Faces)

NoWrite == [op |-> "none", face |-> 0]

NewTask == [kind |-> "none", actor |-> NoOne, ref |-> NoRef, pc |-> "new",
            seen |-> {}, gw |-> "idle"]

BidRow == [status: Statuses, face: Faces \cup {0}, batch: Refs \cup {NoRef}]

BatchRow ==
  [status: {"none", "prepared", "approved", "submitted", "failed", "reconciled"},
   maker: Staff \cup {NoOne}, checker: Staff \cup {NoOne}]

TaskRow ==
  [kind: {"none", "prepare", "approve", "submit"},
   actor: Staff \cup {NoOne},
   ref: Refs \cup {NoRef},
   pc: {"new", "read", "approving", "submitting", "sending", "over"},
   seen: Packages,
   gw: {"idle", "received", "calling", "saving", "ok", "error"}]

BatchesTypeOK ==
  /\ phase \in Phases
  /\ bid \in [Bids -> BidRow]
  /\ write \in [Bids -> [op: {"none", "place", "amend", "withdraw"}, face: Faces \cup {0}]]
  /\ batch \in [Refs -> BatchRow]
  /\ task \in [Tasks -> TaskRow]
  /\ gateway \in [Refs -> Packages]
  /\ bot \in [Refs -> Packages]
  /\ submitted \subseteq Refs

BatchesInit ==
  /\ phase = "open"
  /\ bid = [b \in Bids |-> [status |-> "none", face |-> 0, batch |-> NoRef]]
  /\ write = [b \in Bids |-> NoWrite]
  /\ batch = [n \in Refs |-> [status |-> "none", maker |-> NoOne, checker |-> NoOne]]
  /\ task = [t \in Tasks |-> NewTask]
  /\ gateway = [n \in Refs |-> {}]
  /\ bot = [n \in Refs |-> {}]
  /\ submitted = {}

----------------------------------------------------------------------------
(* Investors: the checks of a request, and later its write (Bids.tla has   *)
(* the steps between, which touch no batch).                               *)

MayWrite(b, op, f) ==
  /\ phase = "open"
  /\ write[b] = NoWrite
  /\ write' = [write EXCEPT ![b] = [op |-> op, face |-> f]]
  /\ UNCHANGED <<phase, bid, batch, task, gateway, bot, submitted>>

ClearPlace(b, f) == bid[b].status = "none" /\ MayWrite(b, "place", f)

ClearAmend(b, f) == bid[b].status = "placed" /\ MayWrite(b, "amend", f)

ClearWithdraw(b) == bid[b].status = "placed" /\ MayWrite(b, "withdraw", 0)

Wrote(b) ==
  /\ write' = [write EXCEPT ![b] = NoWrite]
  /\ UNCHANGED <<phase, batch, task, gateway, bot, submitted>>

PlaceBid(b) ==
  /\ write[b].op = "place"
  /\ bid' = [bid EXCEPT ![b].status = "placed", ![b].face = write[b].face]
  /\ Wrote(b)

\* Mutant: the face value is added to.
AmendBidAdds(b) ==
  /\ write[b].op = "amend"
  /\ bid' = [bid EXCEPT ![b].face = bid[b].face + write[b].face]
  /\ Wrote(b)

\* amend's update has no guard on the status.
AmendBid(b) ==
  /\ write[b].op = "amend"
  /\ bid' = [bid EXCEPT ![b].face = write[b].face]
  /\ Wrote(b)

\* withdraw's update is conditional on "placed".
WithdrawBid(b) ==
  /\ write[b].op = "withdraw"
  /\ bid' = IF bid[b].status = "placed" THEN [bid EXCEPT ![b].status = "withdrawn"] ELSE bid
  /\ Wrote(b)

\* The request failed between its checks and its write.
DropWrite(b) ==
  /\ write[b] # NoWrite
  /\ UNCHANGED bid
  /\ Wrote(b)

\* The cut-off passes or staff bring it forward, BoT closes the auction, or BoT's next
\* word on it moves its date or status, backwards too (upsertFromBot compares nothing).
ChangePhase ==
  /\ \E p \in Phases \ {phase} : phase' = p
  /\ UNCHANGED <<bid, write, batch, task, gateway, bot, submitted>>

----------------------------------------------------------------------------
(* prepare                                                                 *)

\* Bids with the terms they have at this moment.
Rows(bids) == {<<b, bid[b].face>> : b \in bids}

Goto(t, pc) == task' = [task EXCEPT ![t].pc = pc]

\* Up to the read of the placed bids, inside the transaction.
PrepareRead(t, s) ==
  LET placed == Rows({b \in Bids : bid[b].status = "placed"}) IN
  /\ task[t] = NewTask
  /\ phase = "closed_for_bids"
  /\ placed # {}
  /\ task' = [task EXCEPT ![t] = [NewTask EXCEPT !.kind = "prepare", !.actor = s,
                                                 !.pc = "read", !.seen = placed]]
  /\ UNCHANGED <<phase, bid, write, batch, gateway, bot, submitted>>

\* Mutant: the bids read move into the batch whatever became of them.
PrepareCommitUnchecked(t, n) ==
  LET chosen == {b \in Bids : \E f \in Faces : <<b, f>> \in task[t].seen} IN
  /\ task[t].kind = "prepare" /\ task[t].pc = "read"
  /\ batch[n].status = "none"
  /\ batch' = [batch EXCEPT ![n].status = "prepared", ![n].maker = task[t].actor]
  /\ bid' = [b \in Bids |-> IF b \in chosen
                            THEN [bid[b] EXCEPT !.status = "in_batch", !.batch = n]
                            ELSE bid[b]]
  /\ Goto(t, "over")
  /\ UNCHANGED <<phase, write, gateway, bot, submitted>>

\* The batch gets the day's next reference (the column is unique, so one nobody has);
\* the bids read move into it if every one of them is still placed, or all is undone.
PrepareCommit(t, n) ==
  LET chosen == {b \in Bids : \E f \in Faces : <<b, f>> \in task[t].seen} IN
  /\ task[t].kind = "prepare" /\ task[t].pc = "read"
  /\ batch[n].status = "none"
  /\ \/ /\ \A b \in chosen : bid[b].status = "placed"
        /\ batch' = [batch EXCEPT ![n].status = "prepared", ![n].maker = task[t].actor]
        /\ bid' = [b \in Bids |-> IF b \in chosen
                                  THEN [bid[b] EXCEPT !.status = "in_batch", !.batch = n]
                                  ELSE bid[b]]
     \/ /\ \E b \in chosen : bid[b].status # "placed"
        /\ UNCHANGED <<batch, bid>>
  /\ Goto(t, "over")
  /\ UNCHANGED <<phase, write, gateway, bot, submitted>>

----------------------------------------------------------------------------
(* approve                                                                 *)

\* The checks before the approver's own approval is redeemed.
ApproveStart(t, s, n) ==
  /\ task[t] = NewTask
  /\ batch[n].status = "prepared"
  /\ batch[n].maker # s
  /\ task' = [task EXCEPT ![t] = [NewTask EXCEPT !.kind = "approve", !.actor = s,
                                                 !.ref = n, !.pc = "approving"]]
  /\ UNCHANGED <<phase, bid, write, batch, gateway, bot, submitted>>

\* The conditional update prepared -> approved; then the batch is submitted.
ApproveCommit(t) ==
  LET n == task[t].ref IN
  /\ task[t].pc = "approving"
  /\ \/ /\ batch[n].status = "prepared"
        /\ batch' = [batch EXCEPT ![n].status = "approved", ![n].checker = task[t].actor]
        /\ Goto(t, "submitting")
     \/ /\ batch[n].status # "prepared"
        /\ Goto(t, "over")
        /\ UNCHANGED batch
  /\ UNCHANGED <<phase, bid, write, gateway, bot, submitted>>

----------------------------------------------------------------------------
(* submit: after an approval, or again by staff                            *)

\* What a batch sends: its bids not yet decided, with their terms of this moment.
Outgoing(n) == Rows({b \in Bids : bid[b].batch = n /\ bid[b].status \in {"in_batch", "submitted"}})

Sendable(n) == batch[n].status \in {"approved", "failed"}

\* Staff send the batch (again): it is read, and bot-gateway is called.
Resubmit(t, s, n) ==
  /\ task[t] = NewTask
  /\ Sendable(n)
  /\ task' = [task EXCEPT ![t] = [kind |-> "submit", actor |-> s, ref |-> n, pc |-> "sending",
                                  seen |-> Outgoing(n), gw |-> "received"]]
  /\ UNCHANGED <<phase, bid, write, batch, gateway, bot, submitted>>

\* The same after the batch was approved, unless somebody sent it first.
SubmitApproved(t) ==
  LET n == task[t].ref IN
  /\ task[t].pc = "submitting"
  /\ \/ /\ Sendable(n)
        /\ task' = [task EXCEPT ![t].pc = "sending", ![t].seen = Outgoing(n), ![t].gw = "received"]
     \/ ~Sendable(n) /\ Goto(t, "over")
  /\ UNCHANGED <<phase, bid, write, batch, gateway, bot, submitted>>

\* The gateway accepted: one transaction writes the batch, its bids, and an event
\* whose key is unique, so a second success is undone and the request fails.
SubmitSucceeds(t) ==
  LET n == task[t].ref IN
  /\ task[t].pc = "sending" /\ task[t].gw = "ok"
  /\ \/ /\ n \notin submitted
        /\ batch' = [batch EXCEPT ![n].status = "submitted"]
        /\ bid' = [b \in Bids |-> IF bid[b].batch = n /\ bid[b].status = "in_batch"
                                  THEN [bid[b] EXCEPT !.status = "submitted"] ELSE bid[b]]
        /\ submitted' = submitted \cup {n}
     \/ /\ n \in submitted
        /\ UNCHANGED <<batch, bid, submitted>>
  /\ Goto(t, "over")
  /\ UNCHANGED <<phase, write, gateway, bot>>

\* The gateway refused, or (60 s) did not answer in time: the batch is marked failed,
\* whatever it has become meanwhile.
SubmitFails(t) ==
  /\ task[t].pc = "sending"
  /\ task[t].gw = "error" \/ Faults
  /\ batch' = [batch EXCEPT ![task[t].ref].status = "failed"]
  /\ Goto(t, "over")
  /\ UNCHANGED <<phase, bid, write, gateway, bot, submitted>>

\* The auction service died, its database failed, or the approval was refused.
Abandon(t) ==
  /\ task[t].pc = "approving" \/ (Faults /\ task[t].pc \in {"read", "submitting", "sending"})
  /\ Goto(t, "over")
  /\ UNCHANGED <<phase, bid, write, batch, gateway, bot, submitted>>

----------------------------------------------------------------------------
(* bot-gateway, on behalf of task t                                        *)

GatewayGoes(t, gw) == task' = [task EXCEPT ![t].gw = gw]

\* Mutant: the record is written before BoT is called.
GatewayFindRecordsFirst(t) ==
  LET n == task[t].ref IN
  /\ task[t].gw = "received"
  /\ \/ task[t].seen = {} /\ GatewayGoes(t, "error") /\ UNCHANGED gateway
     \/ /\ task[t].seen # {}
        /\ GatewayGoes(t, IF gateway[n] = {} THEN "calling" ELSE "ok")
        /\ gateway' = [gateway EXCEPT ![n] = IF gateway[n] = {} THEN task[t].seen ELSE @]
  /\ UNCHANGED <<phase, bid, write, batch, bot, submitted>>

\* The body needs at least one bid; a reference already recorded is answered at once.
GatewayFind(t) ==
  /\ task[t].gw = "received"
  /\ \/ task[t].seen = {} /\ GatewayGoes(t, "error")
     \/ task[t].seen # {} /\ gateway[task[t].ref] # {} /\ GatewayGoes(t, "ok")
     \/ task[t].seen # {} /\ gateway[task[t].ref] = {} /\ GatewayGoes(t, "calling")
  /\ UNCHANGED <<phase, bid, write, batch, gateway, bot, submitted>>

\* POST to BoT, which takes a reference once and answers 409 the next time; the
\* gateway takes that 409 for a success.  The answer may be lost on the way back.
BotAccepts(t) ==
  LET n == task[t].ref IN
  /\ task[t].gw = "calling"
  /\ bot' = IF bot[n] = {} THEN [bot EXCEPT ![n] = task[t].seen] ELSE bot
  /\ GatewayGoes(t, "saving") \/ (Faults /\ GatewayGoes(t, "error"))
  /\ UNCHANGED <<phase, bid, write, batch, gateway, submitted>>

\* BoT unreachable or its circuit open: nothing was taken.
BotRefuses(t) ==
  /\ Faults
  /\ task[t].gw = "calling"
  /\ GatewayGoes(t, "error")
  /\ UNCHANGED <<phase, bid, write, batch, gateway, bot, submitted>>

\* The record and its event; the reference is the primary key.
GatewaySave(t) ==
  LET n == task[t].ref IN
  /\ task[t].gw = "saving"
  /\ \/ /\ gateway[n] = {}
        /\ gateway' = [gateway EXCEPT ![n] = task[t].seen]
        /\ GatewayGoes(t, "ok")
     \/ /\ gateway[n] # {}
        /\ GatewayGoes(t, "error")
        /\ UNCHANGED gateway
  /\ UNCHANGED <<phase, bid, write, batch, bot, submitted>>

\* bot-gateway dies between BoT's answer and its own record.
GatewayDies(t) ==
  /\ Faults
  /\ task[t].gw = "saving"
  /\ GatewayGoes(t, "error")
  /\ UNCHANGED <<phase, bid, write, batch, gateway, bot, submitted>>

----------------------------------------------------------------------------
(* What the results of a batch do to it (results.service.ts)               *)

\* bot.batch.reconciled, which bot-gateway publishes of batches it recorded.
Reconcile(n) ==
  /\ gateway[n] # {}
  /\ batch' = [batch EXCEPT ![n].status = "reconciled"]
  /\ UNCHANGED <<phase, bid, write, task, gateway, bot, submitted>>

\* BoT accepted a bid of a batch that bot-gateway matched.
AcceptBid(b) ==
  /\ bid[b].batch # NoRef
  /\ bid[b].status \in {"in_batch", "submitted"}
  /\ gateway[bid[b].batch] # {}
  /\ bid' = [bid EXCEPT ![b].status = "accepted"]
  /\ UNCHANGED <<phase, write, batch, task, gateway, bot, submitted>>

----------------------------------------------------------------------------

Investor(b) ==
  \/ \E f \in Faces : ClearPlace(b, f) \/ ClearAmend(b, f)
  \/ ClearWithdraw(b)
  \/ PlaceBid(b) \/ AmendBid(b) \/ WithdrawBid(b) \/ DropWrite(b)

Auction(t) ==
  \/ \E s \in Staff : PrepareRead(t, s)
  \/ \E n \in Refs : PrepareCommit(t, n)
  \/ \E s \in Staff, n \in Refs : ApproveStart(t, s, n) \/ Resubmit(t, s, n)
  \/ ApproveCommit(t) \/ SubmitApproved(t) \/ SubmitSucceeds(t) \/ SubmitFails(t) \/ Abandon(t)

Gateway(t) ==
  \/ GatewayFind(t) \/ BotAccepts(t) \/ BotRefuses(t) \/ GatewaySave(t) \/ GatewayDies(t)

BatchesNext ==
  \/ \E b \in Bids : Investor(b) \/ AcceptBid(b)
  \/ \E t \in Tasks : Auction(t) \/ Gateway(t)
  \/ \E n \in Refs : Reconcile(n)
  \/ ChangePhase

BatchesSpec == BatchesInit /\ [][BatchesNext]_vars

----------------------------------------------------------------------------
(* Properties                                                              *)

BidsIn(package) == {b \in Bids : \E f \in Faces : <<b, f>> \in package}

\* No batch gets past "prepared", and nothing of it reaches BoT, unless somebody
\* other than its maker approved it, whoever acts at once and whatever fails.
MakerChecker ==
  \A n \in Refs :
    batch[n].status \notin {"none", "prepared"} \/ bot[n] # {} =>
      /\ batch[n].checker \in Staff
      /\ batch[n].checker # batch[n].maker

\* BoT never holds a bid under two references (batches.service.ts:18-20, "a resend
\* never submits the bids twice"), and never one its investor withdrew.
SentOnce ==
  \A n \in Refs : \A b \in BidsIn(bot[n]) :
    /\ bid[b].batch = n
    /\ bid[b].status # "withdrawn"
    /\ \A m \in Refs \ {n} : b \notin BidsIn(bot[m])

\* What reaches BoT was approved by a second person and reaches it once.
BatchesAreSafe == MakerChecker /\ SentOnce

\* A bid we call submitted or accepted is one BoT holds under its batch's reference:
\* the gateway's record never runs ahead of BoT, nor ours ahead of the gateway's.
SubmittedIsAtBot ==
  \A b \in Bids :
    bid[b].status \in {"submitted", "accepted"} => b \in BidsIn(bot[bid[b].batch])

----------------------------------------------------------------------------
(* The inductive invariant behind the three, proved in Batches_proofs.tla. *)

Past(n) == batch[n].status \notin {"none", "prepared"}

Swept == {"in_batch", "submitted", "accepted"}

\* A bid has a batch from the moment it is swept into one, and only then.
BidsAreSwept ==
  \A b \in Bids :
    /\ bid[b].status \in Swept <=> bid[b].batch # NoRef
    /\ bid[b].batch # NoRef => batch[bid[b].batch].status # "none"
    /\ bid[b].status # "none" => bid[b].face \in Faces
    /\ bid[b].status \in {"submitted", "accepted"} => bot[bid[b].batch] # {}

\* A request was cleared to write a face value; only one that places a bid creates it.
WritesAreCleared ==
  \A b \in Bids :
    /\ write[b].op = "place" => bid[b].status = "none"
    /\ write[b].op \in {"place", "amend"} => write[b].face \in Faces
    /\ write[b].op = "amend" => bid[b].status # "none"

\* An approval under way is by somebody other than the maker of a prepared batch.
ApproversDiffer ==
  \A t \in Tasks : task[t].pc = "approving" =>
    /\ task[t].ref \in Refs /\ task[t].actor \in Staff
    /\ batch[task[t].ref].status # "none"
    /\ batch[task[t].ref].maker # task[t].actor

CheckedPast == \A n \in Refs : Past(n) => batch[n].checker \in Staff /\ batch[n].checker # batch[n].maker

\* A prepare has an actor; a task that submits, or that the gateway works for, is about
\* a batch that was approved.
TasksArePast ==
  \A t \in Tasks :
    /\ task[t].pc = "read" => task[t].actor \in Staff
    /\ task[t].pc \in {"submitting", "sending"} \/ task[t].gw \notin {"idle", "error"} =>
         task[t].ref \in Refs /\ Past(task[t].ref)

\* What a task carries is bids of its batch; all of them, unless BoT has the batch.
Carried ==
  \A t \in Tasks : task[t].gw \in {"received", "calling"} =>
    /\ \A b \in BidsIn(task[t].seen) : bid[b].batch = task[t].ref
    /\ \/ bot[task[t].ref] # {}
       \/ \A b \in Bids : bid[b].batch = task[t].ref => b \in BidsIn(task[t].seen)
    /\ task[t].gw = "calling" => task[t].seen # {}

\* BoT has a batch before the gateway records it or answers, and then all of its bids.
AtBot ==
  /\ \A t \in Tasks : task[t].gw \in {"saving", "ok"} => bot[task[t].ref] # {}
  /\ \A n \in Refs :
       /\ gateway[n] # {} => bot[n] # {}
       /\ bot[n] # {} => Past(n)
       /\ \A b \in BidsIn(bot[n]) : bid[b].batch = n
       /\ bot[n] # {} => \A b \in Bids : bid[b].batch = n => b \in BidsIn(bot[n])

BatchesInv ==
  /\ BatchesTypeOK /\ BidsAreSwept /\ WritesAreCleared /\ ApproversDiffer
  /\ CheckedPast /\ TasksArePast /\ Carried /\ AtBot

=============================================================================
