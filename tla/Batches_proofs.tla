---------------------------- MODULE Batches_proofs ----------------------------
(* Proofs about Batches.tla: the inductive invariant, maker-checker, that a bid *)
(* reaches BoT under one reference, and that our record never runs ahead.       *)
EXTENDS Batches, TLAPS

----------------------------------------------------------------------------
(* What a change leaves alone.  Each lemma names all that a part of the      *)
(* invariant depends on, so that an action need only say what it changes.    *)

\* Carried survives when no bid changes batch, BoT takes nothing, and no task starts
\* or changes what it carries.
LEMMA CarriedFrame ==
  ASSUME Carried, bot' = bot,
         \A c \in Bids : bid'[c].batch = bid[c].batch,
         \A u \in Tasks : task'[u].gw \in {"received", "calling"} =>
           /\ task'[u].gw = task[u].gw
           /\ task'[u].ref = task[u].ref
           /\ task'[u].seen = task[u].seen
  PROVE  Carried'
BY DEF Carried, BidsIn

\* AtBot survives when no bid changes batch, nothing is recorded or taken, and the
\* gateway answers only for batches BoT has.
LEMMA AtBotFrame ==
  ASSUME AtBot, bot' = bot, gateway' = gateway,
         \A c \in Bids : bid'[c].batch = bid[c].batch,
         \A m \in Refs : Past(m) => Past(m)',
         \A u \in Tasks : task'[u].gw \in {"saving", "ok"} => bot[task'[u].ref] # {}
  PROVE  AtBot'
BY DEF AtBot, BidsIn

\* TasksArePast survives when no batch goes back and no task starts to submit.
LEMMA TasksFrame ==
  ASSUME TasksArePast,
         \A m \in Refs : Past(m) => Past(m)',
         \A u \in Tasks :
           /\ task'[u].pc = "read" => task'[u].actor \in Staff
           /\ task'[u].pc \in {"submitting", "sending"} \/ task'[u].gw \notin {"idle", "error"} =>
                /\ task'[u].ref = task[u].ref
                /\ task[u].pc \in {"submitting", "sending"} \/ task[u].gw \notin {"idle", "error"}
  PROVE  TasksArePast'
BY DEF TasksArePast

\* ApproversDiffer survives when batches keep their makers and no approval starts.
LEMMA ApproversFrame ==
  ASSUME ApproversDiffer,
         \A m \in Refs : batch[m].status # "none" =>
           batch'[m].status # "none" /\ batch'[m].maker = batch[m].maker,
         \A u \in Tasks : task'[u].pc = "approving" =>
           /\ task[u].pc = "approving"
           /\ task'[u].ref = task[u].ref
           /\ task'[u].actor = task[u].actor
  PROVE  ApproversDiffer'
BY DEF ApproversDiffer

\* A task that moves on keeps all but its place in the code.
LEMMA GotoFacts ==
  ASSUME BatchesTypeOK, NEW t \in Tasks,
         NEW pc \in {"read", "approving", "submitting", "sending", "over"}, Goto(t, pc)
  PROVE  /\ task' \in [Tasks -> TaskRow]
         /\ task'[t].pc = pc
         /\ \A u \in Tasks :
              /\ u # t => task'[u].pc = task[u].pc
              /\ task'[u].ref = task[u].ref
              /\ task'[u].actor = task[u].actor
              /\ task'[u].seen = task[u].seen
              /\ task'[u].gw = task[u].gw
<1>1. task[t] \in TaskRow
  BY DEF BatchesTypeOK
<1>2. [task[t] EXCEPT !.pc = pc] \in TaskRow
  BY <1>1 DEF TaskRow
<1>3. QED
  BY <1>1, <1>2 DEF BatchesTypeOK, Goto, TaskRow

\* The gateway's progress on a task keeps the rest of the task.
LEMMA GatewayGoesFacts ==
  ASSUME BatchesTypeOK, NEW t \in Tasks,
         NEW gw \in {"calling", "saving", "ok", "error"}, GatewayGoes(t, gw)
  PROVE  /\ task' \in [Tasks -> TaskRow]
         /\ task'[t].gw = gw
         /\ \A u \in Tasks :
              /\ u # t => task'[u].gw = task[u].gw
              /\ task'[u].ref = task[u].ref
              /\ task'[u].actor = task[u].actor
              /\ task'[u].seen = task[u].seen
              /\ task'[u].pc = task[u].pc
<1>1. task[t] \in TaskRow
  BY DEF BatchesTypeOK
<1>2. [task[t] EXCEPT !.gw = gw] \in TaskRow
  BY <1>1 DEF TaskRow
<1>3. QED
  BY <1>1, <1>2 DEF BatchesTypeOK, GatewayGoes, TaskRow

\* A task that starts replaces a row and no other.
LEMMA StartFacts ==
  ASSUME BatchesTypeOK, NEW t \in Tasks, NEW row \in TaskRow, task' = [task EXCEPT ![t] = row]
  PROVE  /\ task' \in [Tasks -> TaskRow]
         /\ task'[t] = row
         /\ \A u \in Tasks : u # t => task'[u] = task[u]
BY DEF BatchesTypeOK

\* A batch that changes status keeps its maker and checker.
LEMMA StatusFacts ==
  ASSUME BatchesTypeOK, NEW n \in Refs,
         NEW status \in {"approved", "submitted", "failed", "reconciled"},
         batch' = [batch EXCEPT ![n].status = status]
  PROVE  /\ batch' \in [Refs -> BatchRow]
         /\ batch'[n].status = status
         /\ \A m \in Refs :
              /\ m # n => batch'[m].status = batch[m].status
              /\ batch'[m].maker = batch[m].maker
              /\ batch'[m].checker = batch[m].checker
<1>1. batch[n] \in BatchRow
  BY DEF BatchesTypeOK
<1>2. [batch[n] EXCEPT !.status = status] \in BatchRow
  BY <1>1 DEF BatchRow
<1>3. QED
  BY <1>1, <1>2 DEF BatchesTypeOK, BatchRow

----------------------------------------------------------------------------
(* Each action keeps the invariant.                                        *)

\* Initially there is nothing.
LEMMA BatchesInitInv == BatchesInit => BatchesInv
BY BatchesAssumption
DEF BatchesInit, BatchesInv, BatchesTypeOK, BidsAreSwept, WritesAreCleared, ApproversDiffer,
    CheckedPast, TasksArePast, Carried, AtBot, Statuses, Phases, Packages, BidRow, BatchRow,
    TaskRow, NoWrite, NewTask, Past, Swept, BidsIn

\* A bid is placed only once: its reference is new.
LEMMA ClearPlaceInv ==
  ASSUME NEW b \in Bids, NEW f \in Faces, BatchesInv, ClearPlace(b, f)
  PROVE  BatchesInv'
<1>1. BatchesTypeOK'
  BY DEF BatchesInv, BatchesTypeOK, ClearPlace, MayWrite, NoWrite
<1>2. BidsAreSwept'
  BY DEF BatchesInv, BidsAreSwept, ClearPlace, MayWrite
<1>3. WritesAreCleared'
  BY DEF BatchesInv, BatchesTypeOK, WritesAreCleared, ClearPlace, MayWrite, NoWrite
<1>4. ApproversDiffer'
  BY DEF BatchesInv, ApproversDiffer, ClearPlace, MayWrite
<1>5. CheckedPast'
  BY DEF BatchesInv, CheckedPast, Past, ClearPlace, MayWrite
<1>6. TasksArePast'
  BY DEF BatchesInv, TasksArePast, Past, ClearPlace, MayWrite
<1>7. Carried'
  BY DEF BatchesInv, Carried, BidsIn, ClearPlace, MayWrite
<1>8. AtBot'
  BY DEF BatchesInv, AtBot, BidsIn, Past, ClearPlace, MayWrite
<1>9. QED
  BY <1>1, <1>2, <1>3, <1>4, <1>5, <1>6, <1>7, <1>8 DEF BatchesInv

\* An amend is cleared for a bid that exists.
LEMMA ClearAmendInv ==
  ASSUME NEW b \in Bids, NEW f \in Faces, BatchesInv, ClearAmend(b, f)
  PROVE  BatchesInv'
<1>1. BatchesTypeOK'
  BY DEF BatchesInv, BatchesTypeOK, ClearAmend, MayWrite, NoWrite
<1>2. BidsAreSwept'
  BY DEF BatchesInv, BidsAreSwept, ClearAmend, MayWrite
<1>3. WritesAreCleared'
  BY DEF BatchesInv, BatchesTypeOK, WritesAreCleared, ClearAmend, MayWrite, NoWrite
<1>4. ApproversDiffer'
  BY DEF BatchesInv, ApproversDiffer, ClearAmend, MayWrite
<1>5. CheckedPast'
  BY DEF BatchesInv, CheckedPast, Past, ClearAmend, MayWrite
<1>6. TasksArePast'
  BY DEF BatchesInv, TasksArePast, Past, ClearAmend, MayWrite
<1>7. Carried'
  BY DEF BatchesInv, Carried, BidsIn, ClearAmend, MayWrite
<1>8. AtBot'
  BY DEF BatchesInv, AtBot, BidsIn, Past, ClearAmend, MayWrite
<1>9. QED
  BY <1>1, <1>2, <1>3, <1>4, <1>5, <1>6, <1>7, <1>8 DEF BatchesInv

\* A withdrawal writes no face value.
LEMMA ClearWithdrawInv ==
  ASSUME NEW b \in Bids, BatchesInv, ClearWithdraw(b)
  PROVE  BatchesInv'
<1>1. BatchesTypeOK'
  BY DEF BatchesInv, BatchesTypeOK, ClearWithdraw, MayWrite, NoWrite
<1>2. BidsAreSwept'
  BY DEF BatchesInv, BidsAreSwept, ClearWithdraw, MayWrite
<1>3. WritesAreCleared'
  BY DEF BatchesInv, BatchesTypeOK, WritesAreCleared, ClearWithdraw, MayWrite, NoWrite
<1>4. ApproversDiffer'
  BY DEF BatchesInv, ApproversDiffer, ClearWithdraw, MayWrite
<1>5. CheckedPast'
  BY DEF BatchesInv, CheckedPast, Past, ClearWithdraw, MayWrite
<1>6. TasksArePast'
  BY DEF BatchesInv, TasksArePast, Past, ClearWithdraw, MayWrite
<1>7. Carried'
  BY DEF BatchesInv, Carried, BidsIn, ClearWithdraw, MayWrite
<1>8. AtBot'
  BY DEF BatchesInv, AtBot, BidsIn, Past, ClearWithdraw, MayWrite
<1>9. QED
  BY <1>1, <1>2, <1>3, <1>4, <1>5, <1>6, <1>7, <1>8 DEF BatchesInv

\* The bid placed is new, so it belongs to no batch.
LEMMA PlaceBidInv ==
  ASSUME NEW b \in Bids, BatchesInv, PlaceBid(b)
  PROVE  BatchesInv'
<1>w. /\ write' \in [Bids -> [op: {"none", "place", "amend", "withdraw"}, face: Faces \cup {0}]]
      /\ write'[b] = NoWrite
      /\ \A c \in Bids : c # b => write'[c] = write[c]
  BY DEF BatchesInv, BatchesTypeOK, PlaceBid, Wrote, NoWrite
<1>b. bid[b] \in BidRow /\ bid[b].status = "none" /\ write[b].face \in Faces /\ bid[b].batch = NoRef
  BY DEF BatchesInv, BatchesTypeOK, WritesAreCleared, BidsAreSwept, Swept, PlaceBid
<1>0. /\ bid' \in [Bids -> BidRow]
      /\ bid'[b].status = "placed" /\ bid'[b].face \in Faces /\ bid'[b].batch = NoRef
      /\ \A c \in Bids : bid'[c].batch = bid[c].batch
      /\ \A c \in Bids : c # b => bid'[c] = bid[c]
  BY <1>b DEF BatchesInv, BatchesTypeOK, PlaceBid, BidRow, Statuses
<1>1. BatchesTypeOK'
  BY <1>0, <1>w DEF BatchesInv, BatchesTypeOK, PlaceBid, Wrote
<1>2. BidsAreSwept'
  BY <1>0 DEF BatchesInv, BidsAreSwept, Swept, PlaceBid, Wrote
<1>3. WritesAreCleared'
  BY <1>0, <1>w DEF BatchesInv, WritesAreCleared, NoWrite
<1>4. ApproversDiffer'
  BY DEF BatchesInv, ApproversDiffer, PlaceBid, Wrote
<1>5. CheckedPast'
  BY DEF BatchesInv, CheckedPast, Past, PlaceBid, Wrote
<1>6. TasksArePast'
  BY DEF BatchesInv, TasksArePast, Past, PlaceBid, Wrote
<1>7. Carried'
  BY <1>0, CarriedFrame DEF BatchesInv, PlaceBid, Wrote
<1>8. AtBot'
  BY <1>0, AtBotFrame DEF BatchesInv, AtBot, Past, PlaceBid, Wrote
<1>9. QED
  BY <1>1, <1>2, <1>3, <1>4, <1>5, <1>6, <1>7, <1>8 DEF BatchesInv

\* An amend changes the face value alone, whatever the status of the bid.
LEMMA AmendBidInv ==
  ASSUME NEW b \in Bids, BatchesInv, AmendBid(b)
  PROVE  BatchesInv'
<1>w. /\ write' \in [Bids -> [op: {"none", "place", "amend", "withdraw"}, face: Faces \cup {0}]]
      /\ write'[b] = NoWrite
      /\ \A c \in Bids : c # b => write'[c] = write[c]
  BY DEF BatchesInv, BatchesTypeOK, AmendBid, Wrote, NoWrite
<1>b. bid[b] \in BidRow /\ bid[b].status # "none" /\ write[b].face \in Faces
  BY DEF BatchesInv, BatchesTypeOK, WritesAreCleared, AmendBid
<1>0. /\ bid' \in [Bids -> BidRow]
      /\ bid'[b].status = bid[b].status /\ bid[b].status # "none" /\ bid'[b].face \in Faces
      /\ \A c \in Bids : bid'[c].batch = bid[c].batch
      /\ \A c \in Bids : c # b => bid'[c] = bid[c]
  BY <1>b DEF BatchesInv, BatchesTypeOK, AmendBid, BidRow
<1>1. BatchesTypeOK'
  BY <1>0, <1>w DEF BatchesInv, BatchesTypeOK, AmendBid, Wrote
<1>2. BidsAreSwept'
  BY <1>0 DEF BatchesInv, BidsAreSwept, Swept, AmendBid, Wrote
<1>3. WritesAreCleared'
  BY <1>0, <1>w DEF BatchesInv, WritesAreCleared, NoWrite
<1>4. ApproversDiffer'
  BY DEF BatchesInv, ApproversDiffer, AmendBid, Wrote
<1>5. CheckedPast'
  BY DEF BatchesInv, CheckedPast, Past, AmendBid, Wrote
<1>6. TasksArePast'
  BY DEF BatchesInv, TasksArePast, Past, AmendBid, Wrote
<1>7. Carried'
  BY <1>0, CarriedFrame DEF BatchesInv, AmendBid, Wrote
<1>8. AtBot'
  BY <1>0, AtBotFrame DEF BatchesInv, AtBot, Past, AmendBid, Wrote
<1>9. QED
  BY <1>1, <1>2, <1>3, <1>4, <1>5, <1>6, <1>7, <1>8 DEF BatchesInv

\* Only a placed bid, of no batch, is withdrawn.
LEMMA WithdrawBidInv ==
  ASSUME NEW b \in Bids, BatchesInv, WithdrawBid(b)
  PROVE  BatchesInv'
<1>w. /\ write' \in [Bids -> [op: {"none", "place", "amend", "withdraw"}, face: Faces \cup {0}]]
      /\ write'[b] = NoWrite
      /\ \A c \in Bids : c # b => write'[c] = write[c]
  BY DEF BatchesInv, BatchesTypeOK, WithdrawBid, Wrote, NoWrite
<1>b. bid[b] \in BidRow
  BY DEF BatchesInv, BatchesTypeOK
<1>0. /\ bid' \in [Bids -> BidRow]
      /\ \/ bid'[b] = bid[b]
         \/ bid'[b].status = "withdrawn" /\ bid[b].status = "placed" /\ bid'[b].face = bid[b].face
      /\ \A c \in Bids : bid'[c].batch = bid[c].batch
      /\ \A c \in Bids : c # b => bid'[c] = bid[c]
  BY <1>b DEF BatchesInv, BatchesTypeOK, WithdrawBid, BidRow, Statuses
<1>1. BatchesTypeOK'
  BY <1>0, <1>w DEF BatchesInv, BatchesTypeOK, WithdrawBid, Wrote
<1>2. BidsAreSwept'
  BY <1>0 DEF BatchesInv, BidsAreSwept, Swept, WithdrawBid, Wrote
<1>3. WritesAreCleared'
  BY <1>0, <1>w DEF BatchesInv, WritesAreCleared, NoWrite
<1>4. ApproversDiffer'
  BY DEF BatchesInv, ApproversDiffer, WithdrawBid, Wrote
<1>5. CheckedPast'
  BY DEF BatchesInv, CheckedPast, Past, WithdrawBid, Wrote
<1>6. TasksArePast'
  BY DEF BatchesInv, TasksArePast, Past, WithdrawBid, Wrote
<1>7. Carried'
  BY <1>0, CarriedFrame DEF BatchesInv, WithdrawBid, Wrote
<1>8. AtBot'
  BY <1>0, AtBotFrame DEF BatchesInv, AtBot, Past, WithdrawBid, Wrote
<1>9. QED
  BY <1>1, <1>2, <1>3, <1>4, <1>5, <1>6, <1>7, <1>8 DEF BatchesInv

\* A request that gives up leaves the bids alone.
LEMMA DropWriteInv ==
  ASSUME NEW b \in Bids, BatchesInv, DropWrite(b)
  PROVE  BatchesInv'
<1>1. BatchesTypeOK'
  BY DEF BatchesInv, BatchesTypeOK, DropWrite, Wrote, NoWrite
<1>2. BidsAreSwept'
  BY DEF BatchesInv, BidsAreSwept, DropWrite, Wrote
<1>3. WritesAreCleared'
  BY DEF BatchesInv, BatchesTypeOK, WritesAreCleared, DropWrite, Wrote, NoWrite
<1>4. ApproversDiffer'
  BY DEF BatchesInv, ApproversDiffer, DropWrite, Wrote
<1>5. CheckedPast'
  BY DEF BatchesInv, CheckedPast, Past, DropWrite, Wrote
<1>6. TasksArePast'
  BY DEF BatchesInv, TasksArePast, Past, DropWrite, Wrote
<1>7. Carried'
  BY DEF BatchesInv, Carried, BidsIn, DropWrite, Wrote
<1>8. AtBot'
  BY DEF BatchesInv, AtBot, BidsIn, Past, DropWrite, Wrote
<1>9. QED
  BY <1>1, <1>2, <1>3, <1>4, <1>5, <1>6, <1>7, <1>8 DEF BatchesInv

\* No part of the invariant depends on the phase.
LEMMA ChangePhaseInv ==
  ASSUME BatchesInv, ChangePhase
  PROVE  BatchesInv'
<1>1. BatchesTypeOK'
  BY DEF BatchesInv, BatchesTypeOK, ChangePhase
<1>2. BidsAreSwept'
  BY DEF BatchesInv, BidsAreSwept, ChangePhase
<1>3. WritesAreCleared'
  BY DEF BatchesInv, WritesAreCleared, ChangePhase
<1>4. ApproversDiffer'
  BY DEF BatchesInv, ApproversDiffer, ChangePhase
<1>5. CheckedPast'
  BY DEF BatchesInv, CheckedPast, Past, ChangePhase
<1>6. TasksArePast'
  BY DEF BatchesInv, TasksArePast, Past, ChangePhase
<1>7. Carried'
  BY DEF BatchesInv, Carried, BidsIn, ChangePhase
<1>8. AtBot'
  BY DEF BatchesInv, AtBot, BidsIn, Past, ChangePhase
<1>9. QED
  BY <1>1, <1>2, <1>3, <1>4, <1>5, <1>6, <1>7, <1>8 DEF BatchesInv

\* A task that has read the placed bids carries them nowhere yet.
LEMMA PrepareReadInv ==
  ASSUME NEW t \in Tasks, NEW s \in Staff, BatchesInv, PrepareRead(t, s)
  PROVE  BatchesInv'
<1>d. DEFINE placed == Rows({b \in Bids : bid[b].status = "placed"})
             row == [NewTask EXCEPT !.kind = "prepare", !.actor = s, !.pc = "read", !.seen = placed]
<1>p. placed \in Packages
  BY DEF BatchesInv, BidsAreSwept, Rows, Packages
<1>r. row \in TaskRow /\ row.pc = "read" /\ row.gw = "idle" /\ row.actor = s
  BY <1>p DEF NewTask, TaskRow
<1>0. /\ task' \in [Tasks -> TaskRow] /\ task'[t].pc = "read" /\ task'[t].gw = "idle"
      /\ task'[t].actor = s /\ \A u \in Tasks : u # t => task'[u] = task[u]
  BY <1>r, StartFacts DEF BatchesInv, PrepareRead
<1>1. BatchesTypeOK'
  BY <1>0 DEF BatchesInv, BatchesTypeOK, PrepareRead
<1>2. BidsAreSwept'
  BY DEF BatchesInv, BidsAreSwept, PrepareRead
<1>3. WritesAreCleared'
  BY DEF BatchesInv, WritesAreCleared, PrepareRead
<1>4. ApproversDiffer'
  BY <1>0, ApproversFrame DEF BatchesInv, PrepareRead
<1>5. CheckedPast'
  BY DEF BatchesInv, CheckedPast, Past, PrepareRead
<1>6. TasksArePast'
  BY <1>0, TasksFrame DEF BatchesInv, TasksArePast, Past, PrepareRead
<1>7. Carried'
  BY <1>0, CarriedFrame DEF BatchesInv, PrepareRead
<1>8. AtBot'
  BY <1>0, AtBotFrame DEF BatchesInv, AtBot, Past, PrepareRead
<1>9. QED
  BY <1>1, <1>2, <1>3, <1>4, <1>5, <1>6, <1>7, <1>8 DEF BatchesInv

\* A new batch takes bids that were in none, and nobody works on it yet.
LEMMA PrepareCommitInv ==
  ASSUME NEW t \in Tasks, NEW n \in Refs, BatchesInv, PrepareCommit(t, n)
  PROVE  BatchesInv'
<1>g. Goto(t, "over")
  BY DEF PrepareCommit
<1>0. /\ task' \in [Tasks -> TaskRow] /\ task'[t].pc = "over"
      /\ \A u \in Tasks : /\ u # t => task'[u].pc = task[u].pc
                          /\ task'[u].ref = task[u].ref /\ task'[u].actor = task[u].actor
                          /\ task'[u].seen = task[u].seen /\ task'[u].gw = task[u].gw
  BY <1>g, GotoFacts DEF BatchesInv
<1>n. /\ batch[n].status = "none" /\ ~Past(n) /\ bot[n] = {} /\ gateway[n] = {} /\ n # NoRef
      /\ task[t].actor \in Staff
      /\ \A c \in Bids : bid[c].batch # n
  BY BatchesAssumption DEF PrepareCommit, Past, BatchesInv, AtBot, BidsAreSwept, TasksArePast
<1>p. /\ batch' \in [Refs -> BatchRow]
      /\ \A m \in Refs : m # n => batch'[m] = batch[m]
      /\ batch'[n].status \in {"none", "prepared"}
  <2>1. batch[n] \in BatchRow /\ batch \in [Refs -> BatchRow]
    BY DEF BatchesInv, BatchesTypeOK
  <2>2. [batch[n] EXCEPT !.status = "prepared", !.maker = task[t].actor] \in BatchRow
    BY <1>n, <2>1 DEF BatchRow
  <2>3. CASE batch' = [batch EXCEPT ![n].status = "prepared", ![n].maker = task[t].actor]
    <3>1. batch' = [batch EXCEPT ![n] = [batch[n] EXCEPT !.status = "prepared", !.maker = task[t].actor]]
      BY <2>1, <2>3
    <3>2. batch'[n] = [batch[n] EXCEPT !.status = "prepared", !.maker = task[t].actor]
      BY <2>1, <3>1
    <3>3. batch'[n].status = "prepared"
      BY <2>1, <3>2 DEF BatchRow
    <3>4. QED
      BY <2>1, <2>2, <3>1, <3>3
  <2>4. CASE UNCHANGED batch
    BY <1>n, <2>1, <2>4
  <2>5. QED
    BY <2>3, <2>4 DEF PrepareCommit
<1>b. /\ bid' \in [Bids -> BidRow]
      /\ \A c \in Bids : \/ bid'[c] = bid[c]
                         \/ /\ bid[c].status = "placed" /\ bid'[c].status = "in_batch"
                            /\ bid'[c].batch = n /\ batch'[n].status = "prepared"
                            /\ bid'[c].face = bid[c].face
  <2>1. \A c \in Bids : bid[c] \in BidRow /\ [bid[c] EXCEPT !.status = "in_batch", !.batch = n] \in BidRow
    BY DEF BatchesInv, BatchesTypeOK, BidRow, Statuses
  <2>2. batch \in [Refs -> BatchRow] /\ bid \in [Bids -> BidRow]
    BY DEF BatchesInv, BatchesTypeOK
  <2>3. CASE UNCHANGED <<batch, bid>>
    BY <2>2, <2>3
  <2>c. DEFINE chosen == {c \in Bids : \E f \in Faces : <<c, f>> \in task[t].seen}
  <2>4. CASE /\ \A c \in chosen : bid[c].status = "placed"
             /\ batch' = [batch EXCEPT ![n].status = "prepared", ![n].maker = task[t].actor]
             /\ bid' = [c \in Bids |-> IF c \in chosen
                                       THEN [bid[c] EXCEPT !.status = "in_batch", !.batch = n]
                                       ELSE bid[c]]
    <3>1. batch[n] \in BatchRow
      BY <2>2
    <3>2. batch'[n].status = "prepared"
      BY <2>2, <2>4, <3>1 DEF BatchRow
    <3>3. bid' \in [Bids -> BidRow]
      BY <2>1, <2>4
    <3>4. ASSUME NEW c \in Bids
          PROVE  \/ bid'[c] = bid[c]
                 \/ /\ bid[c].status = "placed" /\ bid'[c].status = "in_batch"
                    /\ bid'[c].batch = n /\ bid'[c].face = bid[c].face
      BY <2>1, <2>4 DEF BidRow
    <3>5. QED
      BY <3>2, <3>3, <3>4
  <2>5. QED
    BY <2>3, <2>4 DEF PrepareCommit
<1>s. \A c \in Bids : bid[c].batch \in Refs => bid'[c].batch = bid[c].batch
  BY <1>b, BatchesAssumption DEF BatchesInv, BidsAreSwept, Swept
<1>1. BatchesTypeOK'
  BY <1>0, <1>p, <1>b DEF BatchesInv, BatchesTypeOK, PrepareCommit
<1>2. BidsAreSwept'
  <2>1. \A c \in Bids : bid[c].batch # NoRef => bid[c].batch \in Refs
    BY DEF BatchesInv, BatchesTypeOK, BidRow
  <2>2. SUFFICES ASSUME NEW c \in Bids
                 PROVE  /\ bid'[c].status \in Swept <=> bid'[c].batch # NoRef
                        /\ bid'[c].batch # NoRef => batch'[bid'[c].batch].status # "none"
                        /\ bid'[c].status # "none" => bid'[c].face \in Faces
                        /\ bid'[c].status \in {"submitted", "accepted"} => bot[bid'[c].batch] # {}
    BY DEF BidsAreSwept, Swept, PrepareCommit
  <2>3. CASE bid'[c] = bid[c]
    BY <1>n, <1>p, <2>1, <2>3 DEF BatchesInv, BidsAreSwept
  <2>4. CASE bid'[c] # bid[c]
    BY <1>n, <1>b, <2>4 DEF BatchesInv, BidsAreSwept, Swept
  <2>5. QED
    BY <2>3, <2>4
<1>3. WritesAreCleared'
  BY <1>b DEF BatchesInv, WritesAreCleared, PrepareCommit
<1>4. ApproversDiffer'
  BY <1>0, <1>n, <1>p, ApproversFrame DEF BatchesInv
<1>5. CheckedPast'
  BY <1>n, <1>p DEF BatchesInv, CheckedPast, Past
<1>6. TasksArePast'
  BY <1>0, <1>n, <1>p, TasksFrame DEF BatchesInv, TasksArePast, Past
<1>7. Carried'
  <2>1. SUFFICES ASSUME NEW u \in Tasks, task[u].gw \in {"received", "calling"}
                 PROVE  /\ \A c \in BidsIn(task[u].seen) : bid'[c].batch = task[u].ref
                        /\ \/ bot[task[u].ref] # {}
                           \/ \A c \in Bids : bid'[c].batch = task[u].ref => c \in BidsIn(task[u].seen)
                        /\ task[u].gw = "calling" => task[u].seen # {}
    BY <1>0 DEF Carried, BidsIn, PrepareCommit
  <2>2. task[u].ref \in Refs /\ task[u].ref # n
    BY <1>n, <2>1 DEF BatchesInv, TasksArePast
  <2>3. \A c \in Bids : bid'[c].batch = task[u].ref <=> bid[c].batch = task[u].ref
    BY <1>b, <1>s, <2>2
  <2>4. QED
    BY <2>1, <2>3 DEF BatchesInv, Carried, BidsIn
<1>8. AtBot'
  <2>1. \A m \in Refs : Past(m) => Past(m)'
    BY <1>n, <1>p DEF Past
  <2>2. ASSUME NEW m \in Refs, bot[m] # {}
        PROVE  \A c \in Bids : bid'[c].batch = m <=> bid[c].batch = m
    BY <1>n, <1>b, <1>s, <2>2
  <2>3. UNCHANGED <<bot, gateway>>
    BY DEF PrepareCommit
  <2>4. ASSUME NEW m \in Refs
        PROVE  /\ gateway[m] # {} => bot[m] # {}
               /\ bot[m] # {} => Past(m)'
               /\ \A c \in BidsIn(bot[m]) : bid'[c].batch = m
               /\ bot[m] # {} => \A c \in Bids : bid'[c].batch = m => c \in BidsIn(bot[m])
    BY <2>1, <2>2, <2>4 DEF BatchesInv, AtBot, BidsIn
  <2>5. \A u \in Tasks : task'[u].gw \in {"saving", "ok"} => bot[task'[u].ref] # {}
    BY <1>0 DEF BatchesInv, AtBot
  <2>6. QED
    BY <2>3, <2>4, <2>5 DEF AtBot, BidsIn
<1>9. QED
  BY <1>1, <1>2, <1>3, <1>4, <1>5, <1>6, <1>7, <1>8 DEF BatchesInv

\* The check before the approval: the approver is not the maker.
LEMMA ApproveStartInv ==
  ASSUME NEW t \in Tasks, NEW s \in Staff, NEW n \in Refs, BatchesInv, ApproveStart(t, s, n)
  PROVE  BatchesInv'
<1>d. DEFINE row == [NewTask EXCEPT !.kind = "approve", !.actor = s, !.ref = n, !.pc = "approving"]
<1>r. row \in TaskRow /\ row.pc = "approving" /\ row.gw = "idle" /\ row.actor = s /\ row.ref = n
  BY DEF NewTask, TaskRow, Packages
<1>0. /\ task' \in [Tasks -> TaskRow] /\ task'[t].pc = "approving" /\ task'[t].gw = "idle"
      /\ task'[t].actor = s /\ task'[t].ref = n /\ \A u \in Tasks : u # t => task'[u] = task[u]
  BY <1>r, StartFacts DEF BatchesInv, ApproveStart
<1>1. BatchesTypeOK'
  BY <1>0 DEF BatchesInv, BatchesTypeOK, ApproveStart
<1>2. BidsAreSwept'
  BY DEF BatchesInv, BidsAreSwept, ApproveStart
<1>3. WritesAreCleared'
  BY DEF BatchesInv, WritesAreCleared, ApproveStart
<1>4. ApproversDiffer'
  BY <1>0 DEF BatchesInv, ApproversDiffer, ApproveStart
<1>5. CheckedPast'
  BY DEF BatchesInv, CheckedPast, Past, ApproveStart
<1>6. TasksArePast'
  BY <1>0, TasksFrame DEF BatchesInv, TasksArePast, Past, ApproveStart
<1>7. Carried'
  BY <1>0, CarriedFrame DEF BatchesInv, ApproveStart
<1>8. AtBot'
  BY <1>0, AtBotFrame DEF BatchesInv, AtBot, Past, ApproveStart
<1>9. QED
  BY <1>1, <1>2, <1>3, <1>4, <1>5, <1>6, <1>7, <1>8 DEF BatchesInv

\* The conditional update: the batch is still prepared, so its maker is still not the approver.
LEMMA ApproveCommitInv ==
  ASSUME NEW t \in Tasks, BatchesInv, ApproveCommit(t)
  PROVE  BatchesInv'
<1>t. /\ task[t].pc = "approving" /\ task[t].ref \in Refs /\ task[t].actor \in Staff
      /\ batch[task[t].ref].maker # task[t].actor /\ batch[task[t].ref].status # "none"
  BY DEF ApproveCommit, BatchesInv, ApproversDiffer
<1>g. PICK pc \in {"submitting", "over"} : Goto(t, pc)
  BY DEF ApproveCommit
<1>0. /\ task' \in [Tasks -> TaskRow] /\ task'[t].pc \in {"submitting", "over"}
      /\ \A u \in Tasks : /\ u # t => task'[u].pc = task[u].pc
                          /\ task'[u].ref = task[u].ref /\ task'[u].actor = task[u].actor
                          /\ task'[u].seen = task[u].seen /\ task'[u].gw = task[u].gw
  BY <1>g, GotoFacts DEF BatchesInv
<1>p. /\ batch' \in [Refs -> BatchRow]
      /\ \A m \in Refs : /\ batch'[m].maker = batch[m].maker
                         /\ \/ batch'[m] = batch[m]
                            \/ /\ m = task[t].ref /\ batch'[m].status = "approved"
                               /\ batch[m].status = "prepared" /\ batch'[m].checker = task[t].actor
      /\ task'[t].pc = "submitting" => Past(task[t].ref)'
  <2>1. batch[task[t].ref] \in BatchRow /\ batch \in [Refs -> BatchRow]
    BY <1>t DEF BatchesInv, BatchesTypeOK
  <2>2. [batch[task[t].ref] EXCEPT !.status = "approved", !.checker = task[t].actor] \in BatchRow
    BY <1>t, <2>1 DEF BatchRow
  <2>3. CASE batch' = [batch EXCEPT ![task[t].ref].status = "approved",
                                    ![task[t].ref].checker = task[t].actor]
             /\ batch[task[t].ref].status = "prepared"
    <3>1. batch' = [batch EXCEPT ![task[t].ref] = [batch[task[t].ref] EXCEPT
                                   !.status = "approved", !.checker = task[t].actor]]
      BY <1>t, <2>1, <2>3
    <3>2. /\ batch'[task[t].ref].status = "approved"
          /\ batch'[task[t].ref].maker = batch[task[t].ref].maker
          /\ batch'[task[t].ref].checker = task[t].actor
      BY <1>t, <2>1, <3>1 DEF BatchRow
    <3>3. batch' \in [Refs -> BatchRow]
      BY <2>1, <2>2, <3>1
    <3>4. \A m \in Refs : m # task[t].ref => batch'[m] = batch[m]
      BY <2>1, <3>1
    <3>5. QED
      BY <1>0, <1>t, <2>3, <3>2, <3>3, <3>4 DEF Past
  <2>4. CASE Goto(t, "over") /\ UNCHANGED batch
    <3>1. task'[t].pc = "over"
      BY <2>4, GotoFacts DEF BatchesInv
    <3>2. QED
      BY <2>1, <2>4, <3>1
  <2>5. QED
    BY <2>3, <2>4 DEF ApproveCommit
<1>1. BatchesTypeOK'
  BY <1>0, <1>p DEF BatchesInv, BatchesTypeOK, ApproveCommit
<1>2. BidsAreSwept'
  <2>1. \A c \in Bids : bid[c].batch # NoRef => bid[c].batch \in Refs
    BY DEF BatchesInv, BatchesTypeOK, BidRow
  <2>2. QED
    BY <1>p, <2>1 DEF BatchesInv, BidsAreSwept, ApproveCommit
<1>3. WritesAreCleared'
  BY DEF BatchesInv, WritesAreCleared, ApproveCommit
<1>4. ApproversDiffer'
  BY <1>0, <1>p, ApproversFrame DEF BatchesInv
<1>5. CheckedPast'
  BY <1>t, <1>p DEF BatchesInv, CheckedPast, Past
<1>6. TasksArePast'
  BY <1>0, <1>t, <1>p DEF BatchesInv, TasksArePast, Past
<1>7. Carried'
  BY <1>0, CarriedFrame DEF BatchesInv, ApproveCommit
<1>8. AtBot'
  BY <1>0, <1>p, AtBotFrame DEF BatchesInv, AtBot, Past, ApproveCommit
<1>9. QED
  BY <1>1, <1>2, <1>3, <1>4, <1>5, <1>6, <1>7, <1>8 DEF BatchesInv

\* What is sent of a batch is bids of that batch; all of them, unless BoT has it already,
\* since a bid is decided only at BoT.
LEMMA OutgoingFacts ==
  ASSUME BatchesInv, NEW n \in Refs
  PROVE  /\ Outgoing(n) \in Packages
         /\ \A c \in BidsIn(Outgoing(n)) : bid[c].batch = n
         /\ \/ bot[n] # {}
            \/ \A c \in Bids : bid[c].batch = n => c \in BidsIn(Outgoing(n))
<1>1. \A c \in Bids : bid[c].status # "none" => bid[c].face \in Faces
  BY DEF BatchesInv, BidsAreSwept
<1>2. \A c \in Bids : bid[c].batch = n => bid[c].status \in Swept
  BY BatchesAssumption DEF BatchesInv, BidsAreSwept
<1>3. \A c \in Bids : bid[c].batch = n /\ bid[c].status = "accepted" => bot[n] # {}
  BY DEF BatchesInv, BidsAreSwept
<1>4. Outgoing(n) \in Packages
  BY <1>1 DEF Outgoing, Rows, Packages
<1>5. \A c \in BidsIn(Outgoing(n)) : bid[c].batch = n
  BY DEF Outgoing, Rows, BidsIn
<1>6. \A c \in Bids : bid[c].batch = n /\ bid[c].status \in {"in_batch", "submitted"} =>
        c \in BidsIn(Outgoing(n))
  BY <1>1 DEF Outgoing, Rows, BidsIn
<1>7. QED
  BY <1>2, <1>3, <1>4, <1>5, <1>6 DEF Swept

\* A resend carries what the batch has at this moment.
LEMMA ResubmitInv ==
  ASSUME NEW t \in Tasks, NEW s \in Staff, NEW n \in Refs, BatchesInv, Resubmit(t, s, n)
  PROVE  BatchesInv'
<1>o. /\ Outgoing(n) \in Packages
      /\ \A c \in BidsIn(Outgoing(n)) : bid[c].batch = n
      /\ \/ bot[n] # {}
         \/ \A c \in Bids : bid[c].batch = n => c \in BidsIn(Outgoing(n))
  BY OutgoingFacts
<1>r. [kind |-> "submit", actor |-> s, ref |-> n, pc |-> "sending", seen |-> Outgoing(n),
       gw |-> "received"] \in TaskRow
  BY <1>o DEF TaskRow
<1>0. /\ task' \in [Tasks -> TaskRow] /\ task'[t].pc = "sending" /\ task'[t].gw = "received"
      /\ task'[t].actor = s /\ task'[t].ref = n /\ task'[t].seen = Outgoing(n)
      /\ \A u \in Tasks : u # t => task'[u] = task[u]
  BY <1>r, StartFacts DEF BatchesInv, Resubmit
<1>p. Past(n)
  BY DEF Resubmit, Sendable, Past
<1>1. BatchesTypeOK'
  BY <1>0 DEF BatchesInv, BatchesTypeOK, Resubmit
<1>2. BidsAreSwept'
  BY DEF BatchesInv, BidsAreSwept, Resubmit
<1>3. WritesAreCleared'
  BY DEF BatchesInv, WritesAreCleared, Resubmit
<1>4. ApproversDiffer'
  BY <1>0, ApproversFrame DEF BatchesInv, Resubmit
<1>5. CheckedPast'
  BY DEF BatchesInv, CheckedPast, Past, Resubmit
<1>6. TasksArePast'
  BY <1>0, <1>p DEF BatchesInv, TasksArePast, Past, Resubmit
<1>7. Carried'
  BY <1>0, <1>o DEF BatchesInv, Carried, BidsIn, Resubmit
<1>8. AtBot'
  BY <1>0, AtBotFrame DEF BatchesInv, AtBot, Past, Resubmit
<1>9. QED
  BY <1>1, <1>2, <1>3, <1>4, <1>5, <1>6, <1>7, <1>8 DEF BatchesInv

\* The same after an approval.
LEMMA SubmitApprovedInv ==
  ASSUME NEW t \in Tasks, BatchesInv, SubmitApproved(t)
  PROVE  BatchesInv'
<1>t. task[t].ref \in Refs /\ Past(task[t].ref) /\ task[t] \in TaskRow
  BY DEF SubmitApproved, BatchesInv, TasksArePast, BatchesTypeOK
<1>o. /\ Outgoing(task[t].ref) \in Packages
      /\ \A c \in BidsIn(Outgoing(task[t].ref)) : bid[c].batch = task[t].ref
      /\ \/ bot[task[t].ref] # {}
         \/ \A c \in Bids : bid[c].batch = task[t].ref => c \in BidsIn(Outgoing(task[t].ref))
  BY <1>t, OutgoingFacts
<1>0. /\ task' \in [Tasks -> TaskRow]
      /\ \A u \in Tasks : u # t => task'[u] = task[u]
      /\ task'[t].ref = task[t].ref /\ task'[t].actor = task[t].actor
      /\ \/ /\ task'[t].pc = "sending" /\ task'[t].gw = "received"
            /\ task'[t].seen = Outgoing(task[t].ref)
         \/ /\ task'[t].pc = "over" /\ task'[t].gw = task[t].gw /\ task'[t].seen = task[t].seen
  <2>1. CASE task' = [task EXCEPT ![t].pc = "sending", ![t].seen = Outgoing(task[t].ref),
                                  ![t].gw = "received"]
    <3>1. [task[t] EXCEPT !.pc = "sending", !.seen = Outgoing(task[t].ref), !.gw = "received"] \in TaskRow
      BY <1>t, <1>o DEF TaskRow
    <3>2. QED
      BY <1>t, <2>1, <3>1 DEF BatchesInv, BatchesTypeOK, TaskRow
  <2>2. CASE Goto(t, "over")
    <3>1. [task[t] EXCEPT !.pc = "over"] \in TaskRow
      BY <1>t DEF TaskRow
    <3>2. QED
      BY <1>t, <2>2, <3>1 DEF BatchesInv, BatchesTypeOK, Goto, TaskRow
  <2>3. QED
    BY <2>1, <2>2 DEF SubmitApproved
<1>1. BatchesTypeOK'
  BY <1>0 DEF BatchesInv, BatchesTypeOK, SubmitApproved
<1>2. BidsAreSwept'
  BY DEF BatchesInv, BidsAreSwept, SubmitApproved
<1>3. WritesAreCleared'
  BY DEF BatchesInv, WritesAreCleared, SubmitApproved
<1>4. ApproversDiffer'
  BY <1>0, ApproversFrame DEF BatchesInv, SubmitApproved
<1>5. CheckedPast'
  BY DEF BatchesInv, CheckedPast, Past, SubmitApproved
<1>6. TasksArePast'
  BY <1>0, <1>t DEF BatchesInv, TasksArePast, Past, SubmitApproved
<1>7. Carried'
  <2>1. CASE task'[t].gw = "received" /\ task'[t].seen = Outgoing(task[t].ref)
    <3>1. SUFFICES ASSUME NEW u \in Tasks, task'[u].gw \in {"received", "calling"}
                   PROVE  /\ \A c \in BidsIn(task'[u].seen) : bid[c].batch = task'[u].ref
                          /\ \/ bot[task'[u].ref] # {}
                             \/ \A c \in Bids : bid[c].batch = task'[u].ref =>
                                                c \in BidsIn(task'[u].seen)
                          /\ task'[u].gw = "calling" => task'[u].seen # {}
      BY DEF Carried, BidsIn, SubmitApproved
    <3>2. CASE u = t
      BY <1>0, <1>o, <2>1, <3>2
    <3>3. CASE u # t
      <4>1. task'[u] = task[u]
        BY <1>0, <3>3
      <4>2. QED
        BY <3>1, <4>1 DEF BatchesInv, Carried
    <3>4. QED
      BY <3>2, <3>3
  <2>2. CASE task'[t].gw = task[t].gw /\ task'[t].seen = task[t].seen
    <3>1. \A u \in Tasks : /\ task'[u].gw = task[u].gw
                           /\ task'[u].ref = task[u].ref
                           /\ task'[u].seen = task[u].seen
      BY <1>0, <2>2
    <3>2. UNCHANGED <<bid, bot>>
      BY DEF SubmitApproved
    <3>3. QED
      BY <3>1, <3>2, CarriedFrame DEF BatchesInv
  <2>3. QED
    BY <1>0, <2>1, <2>2
<1>8. AtBot'
  <2>1. \A u \in Tasks : task'[u].gw \in {"saving", "ok"} =>
                            task'[u].gw = task[u].gw /\ task'[u].ref = task[u].ref
    BY <1>0
  <2>2. \A u \in Tasks : task'[u].gw \in {"saving", "ok"} => bot[task'[u].ref] # {}
    BY <2>1 DEF BatchesInv, AtBot
  <2>3. UNCHANGED <<bid, bot, gateway, batch>>
    BY DEF SubmitApproved
  <2>4. QED
    BY <2>2, <2>3, AtBotFrame DEF BatchesInv, Past
<1>9. QED
  BY <1>1, <1>2, <1>3, <1>4, <1>5, <1>6, <1>7, <1>8 DEF BatchesInv

\* The gateway answers "ok" only for a batch BoT has, with every bid of it.
LEMMA SubmitSucceedsInv ==
  ASSUME NEW t \in Tasks, BatchesInv, SubmitSucceeds(t)
  PROVE  BatchesInv'
<1>t. task[t].ref \in Refs /\ Past(task[t].ref)
  BY DEF SubmitSucceeds, BatchesInv, TasksArePast
<1>a. bot[task[t].ref] # {}
  BY DEF SubmitSucceeds, BatchesInv, AtBot
<1>g. Goto(t, "over")
  BY DEF SubmitSucceeds
<1>0. /\ task' \in [Tasks -> TaskRow] /\ task'[t].pc = "over"
      /\ \A u \in Tasks : /\ u # t => task'[u].pc = task[u].pc
                          /\ task'[u].ref = task[u].ref /\ task'[u].actor = task[u].actor
                          /\ task'[u].seen = task[u].seen /\ task'[u].gw = task[u].gw
  BY <1>g, GotoFacts DEF BatchesInv
<1>p. /\ batch' \in [Refs -> BatchRow]
      /\ \A m \in Refs : /\ batch'[m].maker = batch[m].maker /\ batch'[m].checker = batch[m].checker
                         /\ batch'[m].status = batch[m].status
                            \/ (m = task[t].ref /\ batch'[m].status = "submitted")
  <2>1. CASE batch' = [batch EXCEPT ![task[t].ref].status = "submitted"]
    BY <1>t, <2>1, StatusFacts DEF BatchesInv
  <2>2. CASE UNCHANGED batch
    BY <2>2 DEF BatchesInv, BatchesTypeOK
  <2>3. QED
    BY <2>1, <2>2 DEF SubmitSucceeds
<1>b. /\ bid' \in [Bids -> BidRow]
      /\ \A c \in Bids : /\ bid'[c].batch = bid[c].batch /\ bid'[c].face = bid[c].face
                         /\ bid'[c].status = bid[c].status
                            \/ (/\ bid[c].status = "in_batch" /\ bid'[c].status = "submitted"
                                /\ bid[c].batch = task[t].ref)
  <2>1. \A c \in Bids : bid[c] \in BidRow /\ [bid[c] EXCEPT !.status = "submitted"] \in BidRow
    BY DEF BatchesInv, BatchesTypeOK, BidRow, Statuses
  <2>2. bid \in [Bids -> BidRow]
    BY DEF BatchesInv, BatchesTypeOK
  <2>3. CASE UNCHANGED bid
    BY <2>2, <2>3
  <2>4. CASE bid' = [c \in Bids |-> IF bid[c].batch = task[t].ref /\ bid[c].status = "in_batch"
                                    THEN [bid[c] EXCEPT !.status = "submitted"] ELSE bid[c]]
    BY <2>1, <2>2, <2>4 DEF BidRow
  <2>5. QED
    BY <2>3, <2>4 DEF SubmitSucceeds
<1>1. BatchesTypeOK'
  BY <1>0, <1>p, <1>b, <1>t DEF BatchesInv, BatchesTypeOK, SubmitSucceeds
<1>2. BidsAreSwept'
  <2>1. \A c \in Bids : bid[c].batch # NoRef => bid[c].batch \in Refs
    BY DEF BatchesInv, BatchesTypeOK, BidRow
  <2>2. QED
    BY <1>a, <1>p, <1>b, <2>1 DEF BatchesInv, BidsAreSwept, Swept, SubmitSucceeds
<1>3. WritesAreCleared'
  BY <1>b DEF BatchesInv, WritesAreCleared, SubmitSucceeds
<1>4. ApproversDiffer'
  BY <1>0, <1>p, ApproversFrame DEF BatchesInv
<1>5. CheckedPast'
  BY <1>t, <1>p DEF BatchesInv, CheckedPast, Past
<1>6. TasksArePast'
  BY <1>0, <1>p, TasksFrame DEF BatchesInv, TasksArePast, Past
<1>7. Carried'
  BY <1>0, <1>b, CarriedFrame DEF BatchesInv, SubmitSucceeds
<1>8. AtBot'
  BY <1>0, <1>b, <1>p, AtBotFrame DEF BatchesInv, AtBot, Past, SubmitSucceeds
<1>9. QED
  BY <1>1, <1>2, <1>3, <1>4, <1>5, <1>6, <1>7, <1>8 DEF BatchesInv

\* A batch marked failed was approved; it keeps its maker and checker.
LEMMA SubmitFailsInv ==
  ASSUME NEW t \in Tasks, BatchesInv, SubmitFails(t)
  PROVE  BatchesInv'
<1>t. task[t].ref \in Refs /\ Past(task[t].ref)
  BY DEF SubmitFails, BatchesInv, TasksArePast
<1>g. PICK pc \in {"over"} : Goto(t, pc)
  BY DEF SubmitFails
<1>0. /\ task' \in [Tasks -> TaskRow] /\ task'[t].pc \in {"over"}
      /\ \A u \in Tasks : /\ u # t => task'[u].pc = task[u].pc
                          /\ task'[u].ref = task[u].ref /\ task'[u].actor = task[u].actor
                          /\ task'[u].seen = task[u].seen /\ task'[u].gw = task[u].gw
  BY <1>g, GotoFacts DEF BatchesInv
<1>p. /\ batch' \in [Refs -> BatchRow]
      /\ \A m \in Refs : /\ batch'[m].maker = batch[m].maker /\ batch'[m].checker = batch[m].checker
                         /\ batch'[m].status = batch[m].status
                            \/ (m = task[t].ref /\ batch'[m].status = "failed")
  BY <1>t, StatusFacts DEF BatchesInv, SubmitFails
<1>1. BatchesTypeOK'
  BY <1>0, <1>p DEF BatchesInv, BatchesTypeOK, SubmitFails
<1>2. BidsAreSwept'
  <2>1. \A c \in Bids : bid[c].batch # NoRef => bid[c].batch \in Refs
    BY DEF BatchesInv, BatchesTypeOK, BidRow
  <2>2. QED
    BY <1>p, <2>1 DEF BatchesInv, BidsAreSwept, SubmitFails
<1>3. WritesAreCleared'
  BY DEF BatchesInv, WritesAreCleared, SubmitFails
<1>4. ApproversDiffer'
  BY <1>0, <1>p, ApproversFrame DEF BatchesInv
<1>5. CheckedPast'
  BY <1>t, <1>p DEF BatchesInv, CheckedPast, Past
<1>6. TasksArePast'
  BY <1>0, <1>p, TasksFrame DEF BatchesInv, TasksArePast, Past
<1>7. Carried'
  BY <1>0, CarriedFrame DEF BatchesInv, SubmitFails
<1>8. AtBot'
  BY <1>0, <1>p, AtBotFrame DEF BatchesInv, AtBot, Past, SubmitFails
<1>9. QED
  BY <1>1, <1>2, <1>3, <1>4, <1>5, <1>6, <1>7, <1>8 DEF BatchesInv

\* A task that ends leaves what the gateway does for it.
LEMMA AbandonInv ==
  ASSUME NEW t \in Tasks, BatchesInv, Abandon(t)
  PROVE  BatchesInv'
<1>g. PICK pc \in {"over"} : Goto(t, pc)
  BY DEF Abandon
<1>0. /\ task' \in [Tasks -> TaskRow] /\ task'[t].pc \in {"over"}
      /\ \A u \in Tasks : /\ u # t => task'[u].pc = task[u].pc
                          /\ task'[u].ref = task[u].ref /\ task'[u].actor = task[u].actor
                          /\ task'[u].seen = task[u].seen /\ task'[u].gw = task[u].gw
  BY <1>g, GotoFacts DEF BatchesInv
<1>1. BatchesTypeOK'
  BY <1>0 DEF BatchesInv, BatchesTypeOK, Abandon
<1>2. BidsAreSwept'
  BY DEF BatchesInv, BidsAreSwept, Abandon
<1>3. WritesAreCleared'
  BY DEF BatchesInv, WritesAreCleared, Abandon
<1>4. ApproversDiffer'
  BY <1>0, ApproversFrame DEF BatchesInv, Abandon
<1>5. CheckedPast'
  BY DEF BatchesInv, CheckedPast, Past, Abandon
<1>6. TasksArePast'
  BY <1>0, TasksFrame DEF BatchesInv, TasksArePast, Past, Abandon
<1>7. Carried'
  BY <1>0, CarriedFrame DEF BatchesInv, Abandon
<1>8. AtBot'
  BY <1>0, AtBotFrame DEF BatchesInv, AtBot, Past, Abandon
<1>9. QED
  BY <1>1, <1>2, <1>3, <1>4, <1>5, <1>6, <1>7, <1>8 DEF BatchesInv

\* A reference the gateway has recorded is one BoT has.
LEMMA GatewayFindInv ==
  ASSUME NEW t \in Tasks, BatchesInv, GatewayFind(t)
  PROVE  BatchesInv'
<1>t. task[t].ref \in Refs /\ Past(task[t].ref)
  BY DEF GatewayFind, BatchesInv, TasksArePast
<1>g. PICK gw \in {"calling", "ok", "error"} : GatewayGoes(t, gw)
  BY DEF GatewayFind
<1>0. /\ task' \in [Tasks -> TaskRow] /\ task'[t].gw \in {"calling", "ok", "error"}
      /\ \A u \in Tasks : /\ u # t => task'[u].gw = task[u].gw
                          /\ task'[u].ref = task[u].ref /\ task'[u].actor = task[u].actor
                          /\ task'[u].seen = task[u].seen /\ task'[u].pc = task[u].pc
  BY <1>g, GatewayGoesFacts DEF BatchesInv
<1>f. /\ task[t].gw = "received"
      /\ task'[t].gw = "calling" => task[t].seen # {}
      /\ task'[t].gw = "ok" => bot[task[t].ref] # {}
  <2>1. CASE GatewayGoes(t, "error")
    BY <2>1, GatewayGoesFacts DEF BatchesInv, GatewayFind
  <2>2. CASE gateway[task[t].ref] # {} /\ GatewayGoes(t, "ok")
    BY <1>t, <2>2, GatewayGoesFacts DEF BatchesInv, GatewayFind, AtBot
  <2>3. CASE task[t].seen # {} /\ GatewayGoes(t, "calling")
    BY <2>3, GatewayGoesFacts DEF BatchesInv, GatewayFind
  <2>4. QED
    BY <2>1, <2>2, <2>3 DEF GatewayFind
<1>1. BatchesTypeOK'
  BY <1>0 DEF BatchesInv, BatchesTypeOK, GatewayFind
<1>2. BidsAreSwept'
  BY DEF BatchesInv, BidsAreSwept, GatewayFind
<1>3. WritesAreCleared'
  BY DEF BatchesInv, WritesAreCleared, GatewayFind
<1>4. ApproversDiffer'
  BY <1>0, ApproversFrame DEF BatchesInv, GatewayFind
<1>5. CheckedPast'
  BY DEF BatchesInv, CheckedPast, Past, GatewayFind
<1>6. TasksArePast'
  BY <1>0, <1>f, TasksFrame DEF BatchesInv, TasksArePast, Past, GatewayFind
<1>7. Carried'
  BY <1>0, <1>f DEF BatchesInv, Carried, BidsIn, GatewayFind
<1>8. AtBot'
  BY <1>0, <1>f, AtBotFrame DEF BatchesInv, AtBot, Past, GatewayFind
<1>9. QED
  BY <1>1, <1>2, <1>3, <1>4, <1>5, <1>6, <1>7, <1>8 DEF BatchesInv

\* BoT takes all the bids of a batch at once, or has it already.
LEMMA BotAcceptsInv ==
  ASSUME NEW t \in Tasks, BatchesInv, BotAccepts(t)
  PROVE  BatchesInv'
<1>t. task[t].ref \in Refs /\ Past(task[t].ref)
  BY DEF BotAccepts, BatchesInv, TasksArePast
<1>g. PICK gw \in {"saving", "error"} : GatewayGoes(t, gw)
  BY DEF BotAccepts
<1>0. /\ task' \in [Tasks -> TaskRow] /\ task'[t].gw \in {"saving", "error"}
      /\ \A u \in Tasks : /\ u # t => task'[u].gw = task[u].gw
                          /\ task'[u].ref = task[u].ref /\ task'[u].actor = task[u].actor
                          /\ task'[u].seen = task[u].seen /\ task'[u].pc = task[u].pc
  BY <1>g, GatewayGoesFacts DEF BatchesInv
<1>a. /\ bot' \in [Refs -> Packages]
      /\ \A m \in Refs : m # task[t].ref => bot'[m] = bot[m]
      /\ bot'[task[t].ref] # {}
      /\ \A c \in BidsIn(bot'[task[t].ref]) : bid[c].batch = task[t].ref
      /\ \A c \in Bids : bid[c].batch = task[t].ref => c \in BidsIn(bot'[task[t].ref])
      /\ \A m \in Refs : bot[m] # {} => bot'[m] # {}
  <2>1. /\ task[t].gw = "calling" /\ task[t].seen \in Packages /\ task[t].seen # {}
        /\ bot \in [Refs -> Packages]
    BY DEF BotAccepts, BatchesInv, BatchesTypeOK, TaskRow, Carried
  <2>2. CASE bot[task[t].ref] = {}
    BY <1>t, <2>1, <2>2 DEF BotAccepts, BatchesInv, Carried
  <2>3. CASE bot[task[t].ref] # {}
    BY <1>t, <2>1, <2>3 DEF BotAccepts, BatchesInv, AtBot
  <2>4. QED
    BY <2>2, <2>3
<1>1. BatchesTypeOK'
  BY <1>0, <1>a DEF BatchesInv, BatchesTypeOK, BotAccepts
<1>2. BidsAreSwept'
  <2>1. \A c \in Bids : bid[c].batch # NoRef => bid[c].batch \in Refs
    BY DEF BatchesInv, BatchesTypeOK, BidRow
  <2>2. \A c \in Bids : bid[c].status \in {"submitted", "accepted"} => bid[c].batch # NoRef
    BY DEF BatchesInv, BidsAreSwept, Swept
  <2>3. QED
    BY <1>a, <2>1, <2>2 DEF BatchesInv, BidsAreSwept, BotAccepts
<1>3. WritesAreCleared'
  BY DEF BatchesInv, WritesAreCleared, BotAccepts
<1>4. ApproversDiffer'
  BY <1>0, ApproversFrame DEF BatchesInv, BotAccepts
<1>5. CheckedPast'
  BY DEF BatchesInv, CheckedPast, Past, BotAccepts
<1>6. TasksArePast'
  BY <1>0, <1>t, TasksFrame DEF BatchesInv, TasksArePast, Past, BotAccepts
<1>7. Carried'
  <2>1. SUFFICES ASSUME NEW u \in Tasks, task'[u].gw \in {"received", "calling"}
                 PROVE  /\ \A c \in BidsIn(task'[u].seen) : bid[c].batch = task'[u].ref
                        /\ \/ bot'[task'[u].ref] # {}
                           \/ \A c \in Bids : bid[c].batch = task'[u].ref => c \in BidsIn(task'[u].seen)
                        /\ task'[u].gw = "calling" => task'[u].seen # {}
    BY DEF Carried, BidsIn, BotAccepts
  <2>2. /\ task[u].gw = task'[u].gw /\ task[u].ref = task'[u].ref /\ task[u].seen = task'[u].seen
        /\ task[u].ref \in Refs
    BY <1>0, <2>1 DEF BatchesInv, TasksArePast
  <2>3. bot[task[u].ref] # {} => bot'[task[u].ref] # {}
    BY <1>a, <2>2
  <2>4. QED
    BY <2>1, <2>2, <2>3 DEF BatchesInv, Carried
<1>8. AtBot'
  <2>1. \A u \in Tasks : task'[u].gw \in {"saving", "ok"} => task[u].ref \in Refs
    BY <1>0, <1>t DEF BatchesInv, TasksArePast
  <2>2. \A u \in Tasks : task'[u].gw \in {"saving", "ok"} => bot'[task'[u].ref] # {}
    BY <1>0, <1>a, <2>1 DEF BatchesInv, AtBot
  <2>3. ASSUME NEW m \in Refs
        PROVE  /\ gateway[m] # {} => bot'[m] # {}
               /\ bot'[m] # {} => Past(m)
               /\ \A c \in BidsIn(bot'[m]) : bid[c].batch = m
               /\ bot'[m] # {} => \A c \in Bids : bid[c].batch = m => c \in BidsIn(bot'[m])
    BY <1>t, <1>a, <2>3 DEF BatchesInv, AtBot
  <2>4. UNCHANGED <<gateway, batch, bid>>
    BY DEF BotAccepts
  <2>5. QED
    BY <2>2, <2>3, <2>4 DEF AtBot, BidsIn, Past
<1>9. QED
  BY <1>1, <1>2, <1>3, <1>4, <1>5, <1>6, <1>7, <1>8 DEF BatchesInv

\* Nothing was taken.
LEMMA BotRefusesInv ==
  ASSUME NEW t \in Tasks, BatchesInv, BotRefuses(t)
  PROVE  BatchesInv'
<1>t. task[t].ref \in Refs /\ Past(task[t].ref)
  BY DEF BotRefuses, BatchesInv, TasksArePast
<1>g. PICK gw \in {"error"} : GatewayGoes(t, gw)
  BY DEF BotRefuses
<1>0. /\ task' \in [Tasks -> TaskRow] /\ task'[t].gw \in {"error"}
      /\ \A u \in Tasks : /\ u # t => task'[u].gw = task[u].gw
                          /\ task'[u].ref = task[u].ref /\ task'[u].actor = task[u].actor
                          /\ task'[u].seen = task[u].seen /\ task'[u].pc = task[u].pc
  BY <1>g, GatewayGoesFacts DEF BatchesInv
<1>1. BatchesTypeOK'
  BY <1>0 DEF BatchesInv, BatchesTypeOK, BotRefuses
<1>2. BidsAreSwept'
  BY DEF BatchesInv, BidsAreSwept, BotRefuses
<1>3. WritesAreCleared'
  BY DEF BatchesInv, WritesAreCleared, BotRefuses
<1>4. ApproversDiffer'
  BY <1>0, ApproversFrame DEF BatchesInv, BotRefuses
<1>5. CheckedPast'
  BY DEF BatchesInv, CheckedPast, Past, BotRefuses
<1>6. TasksArePast'
  BY <1>0, TasksFrame DEF BatchesInv, TasksArePast, Past, BotRefuses
<1>7. Carried'
  BY <1>0, CarriedFrame DEF BatchesInv, BotRefuses
<1>8. AtBot'
  BY <1>0, AtBotFrame DEF BatchesInv, AtBot, Past, BotRefuses
<1>9. QED
  BY <1>1, <1>2, <1>3, <1>4, <1>5, <1>6, <1>7, <1>8 DEF BatchesInv

\* The gateway records what BoT took before.
LEMMA GatewaySaveInv ==
  ASSUME NEW t \in Tasks, BatchesInv, GatewaySave(t)
  PROVE  BatchesInv'
<1>t. task[t].ref \in Refs /\ Past(task[t].ref)
  BY DEF GatewaySave, BatchesInv, TasksArePast
<1>g. PICK gw \in {"ok", "error"} : GatewayGoes(t, gw)
  BY DEF GatewaySave
<1>0. /\ task' \in [Tasks -> TaskRow] /\ task'[t].gw \in {"ok", "error"}
      /\ \A u \in Tasks : /\ u # t => task'[u].gw = task[u].gw
                          /\ task'[u].ref = task[u].ref /\ task'[u].actor = task[u].actor
                          /\ task'[u].seen = task[u].seen /\ task'[u].pc = task[u].pc
  BY <1>g, GatewayGoesFacts DEF BatchesInv
<1>a. /\ gateway' \in [Refs -> Packages]
      /\ bot[task[t].ref] # {}
      /\ \A m \in Refs : m # task[t].ref => gateway'[m] = gateway[m]
  BY <1>t DEF GatewaySave, BatchesInv, BatchesTypeOK, AtBot, TaskRow
<1>1. BatchesTypeOK'
  BY <1>0, <1>a DEF BatchesInv, BatchesTypeOK, GatewaySave
<1>2. BidsAreSwept'
  BY DEF BatchesInv, BidsAreSwept, GatewaySave
<1>3. WritesAreCleared'
  BY DEF BatchesInv, WritesAreCleared, GatewaySave
<1>4. ApproversDiffer'
  BY <1>0, ApproversFrame DEF BatchesInv, GatewaySave
<1>5. CheckedPast'
  BY DEF BatchesInv, CheckedPast, Past, GatewaySave
<1>6. TasksArePast'
  BY <1>0, <1>t, TasksFrame DEF BatchesInv, TasksArePast, Past, GatewaySave
<1>7. Carried'
  BY <1>0, CarriedFrame DEF BatchesInv, GatewaySave
<1>8. AtBot'
  <2>1. \A u \in Tasks : task'[u].gw \in {"saving", "ok"} => bot[task'[u].ref] # {}
    BY <1>0, <1>a DEF BatchesInv, AtBot
  <2>2. \A m \in Refs : gateway'[m] # {} => bot[m] # {}
    BY <1>a DEF BatchesInv, AtBot
  <2>3. UNCHANGED <<bot, batch, bid>>
    BY DEF GatewaySave
  <2>4. QED
    BY <2>1, <2>2, <2>3 DEF BatchesInv, AtBot, BidsIn, Past
<1>9. QED
  BY <1>1, <1>2, <1>3, <1>4, <1>5, <1>6, <1>7, <1>8 DEF BatchesInv

\* BoT keeps what it took.
LEMMA GatewayDiesInv ==
  ASSUME NEW t \in Tasks, BatchesInv, GatewayDies(t)
  PROVE  BatchesInv'
<1>t. task[t].ref \in Refs /\ Past(task[t].ref)
  BY DEF GatewayDies, BatchesInv, TasksArePast
<1>g. PICK gw \in {"error"} : GatewayGoes(t, gw)
  BY DEF GatewayDies
<1>0. /\ task' \in [Tasks -> TaskRow] /\ task'[t].gw \in {"error"}
      /\ \A u \in Tasks : /\ u # t => task'[u].gw = task[u].gw
                          /\ task'[u].ref = task[u].ref /\ task'[u].actor = task[u].actor
                          /\ task'[u].seen = task[u].seen /\ task'[u].pc = task[u].pc
  BY <1>g, GatewayGoesFacts DEF BatchesInv
<1>1. BatchesTypeOK'
  BY <1>0 DEF BatchesInv, BatchesTypeOK, GatewayDies
<1>2. BidsAreSwept'
  BY DEF BatchesInv, BidsAreSwept, GatewayDies
<1>3. WritesAreCleared'
  BY DEF BatchesInv, WritesAreCleared, GatewayDies
<1>4. ApproversDiffer'
  BY <1>0, ApproversFrame DEF BatchesInv, GatewayDies
<1>5. CheckedPast'
  BY DEF BatchesInv, CheckedPast, Past, GatewayDies
<1>6. TasksArePast'
  BY <1>0, TasksFrame DEF BatchesInv, TasksArePast, Past, GatewayDies
<1>7. Carried'
  BY <1>0, CarriedFrame DEF BatchesInv, GatewayDies
<1>8. AtBot'
  BY <1>0, AtBotFrame DEF BatchesInv, AtBot, Past, GatewayDies
<1>9. QED
  BY <1>1, <1>2, <1>3, <1>4, <1>5, <1>6, <1>7, <1>8 DEF BatchesInv

\* Only a batch the gateway recorded, which was approved, is reconciled.
LEMMA ReconcileInv ==
  ASSUME NEW n \in Refs, BatchesInv, Reconcile(n)
  PROVE  BatchesInv'
<1>t. Past(n)
  BY DEF Reconcile, BatchesInv, AtBot
<1>p. /\ batch' \in [Refs -> BatchRow]
      /\ \A m \in Refs : /\ batch'[m].maker = batch[m].maker /\ batch'[m].checker = batch[m].checker
                         /\ batch'[m].status = batch[m].status \/ (m = n /\ batch'[m].status = "reconciled")
  BY StatusFacts DEF BatchesInv, Reconcile
<1>1. BatchesTypeOK'
  BY <1>p DEF BatchesInv, BatchesTypeOK, Reconcile
<1>2. BidsAreSwept'
  <2>1. \A c \in Bids : bid[c].batch # NoRef => bid[c].batch \in Refs
    BY DEF BatchesInv, BatchesTypeOK, BidRow
  <2>2. QED
    BY <1>p, <2>1 DEF BatchesInv, BidsAreSwept, Reconcile
<1>3. WritesAreCleared'
  BY DEF BatchesInv, WritesAreCleared, Reconcile
<1>4. ApproversDiffer'
  BY <1>p, ApproversFrame DEF BatchesInv, Reconcile
<1>5. CheckedPast'
  BY <1>t, <1>p DEF BatchesInv, CheckedPast, Past
<1>6. TasksArePast'
  BY <1>p DEF BatchesInv, TasksArePast, Past, Reconcile
<1>7. Carried'
  BY DEF BatchesInv, Carried, BidsIn, Reconcile
<1>8. AtBot'
  BY <1>p, AtBotFrame DEF BatchesInv, AtBot, Past, Reconcile
<1>9. QED
  BY <1>1, <1>2, <1>3, <1>4, <1>5, <1>6, <1>7, <1>8 DEF BatchesInv

\* Only a bid of a batch BoT has is accepted.
LEMMA AcceptBidInv ==
  ASSUME NEW b \in Bids, BatchesInv, AcceptBid(b)
  PROVE  BatchesInv'
<1>b. bid[b] \in BidRow /\ bid[b].batch \in Refs /\ bot[bid[b].batch] # {}
  BY DEF BatchesInv, BatchesTypeOK, BidRow, AcceptBid, AtBot
<1>0. /\ bid' \in [Bids -> BidRow]
      /\ bid'[b].status = "accepted" /\ bid'[b].face = bid[b].face
      /\ bid[b].status \in {"in_batch", "submitted"}
      /\ \A c \in Bids : bid'[c].batch = bid[c].batch
      /\ \A c \in Bids : c # b => bid'[c] = bid[c]
  BY <1>b DEF BatchesInv, BatchesTypeOK, AcceptBid, BidRow, Statuses
<1>1. BatchesTypeOK'
  BY <1>0 DEF BatchesInv, BatchesTypeOK, AcceptBid
<1>2. BidsAreSwept'
  BY <1>0, <1>b DEF BatchesInv, BidsAreSwept, Swept, AcceptBid
<1>3. WritesAreCleared'
  BY <1>0 DEF BatchesInv, WritesAreCleared, AcceptBid
<1>4. ApproversDiffer'
  BY DEF BatchesInv, ApproversDiffer, AcceptBid
<1>5. CheckedPast'
  BY DEF BatchesInv, CheckedPast, Past, AcceptBid
<1>6. TasksArePast'
  BY DEF BatchesInv, TasksArePast, Past, AcceptBid
<1>7. Carried'
  BY <1>0, CarriedFrame DEF BatchesInv, AcceptBid
<1>8. AtBot'
  BY <1>0, AtBotFrame DEF BatchesInv, AtBot, Past, AcceptBid
<1>9. QED
  BY <1>1, <1>2, <1>3, <1>4, <1>5, <1>6, <1>7, <1>8 DEF BatchesInv

----------------------------------------------------------------------------
(* The theorems                                                            *)

\* Every reachable state satisfies the inductive invariant.
THEOREM BatchesInvariance == BatchesSpec => []BatchesInv
<1>1. ASSUME BatchesInv, [BatchesNext]_vars
      PROVE  BatchesInv'
  <2>1. ASSUME NEW b \in Bids, Investor(b)
        PROVE  BatchesInv'
    BY <1>1, <2>1, ClearPlaceInv, ClearAmendInv, ClearWithdrawInv, PlaceBidInv, AmendBidInv,
       WithdrawBidInv, DropWriteInv DEF Investor
  <2>2. ASSUME NEW t \in Tasks, Auction(t)
        PROVE  BatchesInv'
    BY <1>1, <2>2, PrepareReadInv, PrepareCommitInv, ApproveStartInv, ApproveCommitInv,
       ResubmitInv, SubmitApprovedInv, SubmitSucceedsInv, SubmitFailsInv, AbandonInv DEF Auction
  <2>3. ASSUME NEW t \in Tasks, Gateway(t)
        PROVE  BatchesInv'
    BY <1>1, <2>3, GatewayFindInv, BotAcceptsInv, BotRefusesInv, GatewaySaveInv, GatewayDiesInv
    DEF Gateway
  <2>4. ASSUME NEW b \in Bids, AcceptBid(b)
        PROVE  BatchesInv'
    BY <1>1, <2>4, AcceptBidInv
  <2>5. ASSUME NEW n \in Refs, Reconcile(n)
        PROVE  BatchesInv'
    BY <1>1, <2>5, ReconcileInv
  <2>6. CASE ChangePhase
    BY <1>1, <2>6, ChangePhaseInv
  <2>7. CASE UNCHANGED vars
    BY <1>1, <2>7
    DEF vars, BatchesInv, BatchesTypeOK, BidsAreSwept, WritesAreCleared, ApproversDiffer,
        CheckedPast, TasksArePast, Carried, AtBot, Past, BidsIn
  <2>8. QED
    BY <1>1, <2>1, <2>2, <2>3, <2>4, <2>5, <2>6, <2>7 DEF BatchesNext
<1>2. QED
  BY <1>1, BatchesInitInv, PTL DEF BatchesSpec

\* Type correctness of the batches, the tasks and the gateway.
THEOREM BatchesTypeCorrect == BatchesSpec => []BatchesTypeOK
<1>1. BatchesInv => BatchesTypeOK
  BY DEF BatchesInv
<1>2. QED
  BY <1>1, BatchesInvariance, PTL

\* No batch is sent, and nothing of it reaches BoT, without a checker who is not its
\* maker, for any number of staff, batches and requests.
THEOREM MakerCheckerHolds == BatchesSpec => []MakerChecker
<1>1. BatchesInv => MakerChecker
  BY DEF BatchesInv, AtBot, CheckedPast, Past, MakerChecker
<1>2. QED
  BY <1>1, BatchesInvariance, PTL

\* BoT never holds a bid under two references, nor one that was withdrawn, however often
\* and by whomever batches are prepared and sent again.
THEOREM SentOnceHolds == BatchesSpec => []SentOnce
<1>1. ASSUME BatchesInv
      PROVE  SentOnce
  <2>1. ASSUME NEW n \in Refs, NEW b \in BidsIn(bot[n])
        PROVE  b \in Bids /\ bid[b].batch = n /\ bid[b].status # "withdrawn"
    BY <1>1, <2>1, BatchesAssumption DEF BatchesInv, AtBot, BidsIn, BidsAreSwept, Swept
  <2>2. QED
    BY <2>1 DEF SentOnce
<1>2. QED
  BY <1>1, BatchesInvariance, PTL

\* What the run checks of maker-checker and of sending once, together.
THEOREM BatchesAreSafeHolds == BatchesSpec => []BatchesAreSafe
<1>1. MakerChecker /\ SentOnce => BatchesAreSafe
  BY DEF BatchesAreSafe
<1>2. QED
  BY <1>1, MakerCheckerHolds, SentOnceHolds, PTL

\* A bid we call submitted or accepted is one BoT holds, whatever dies or times out
\* between the three services.
THEOREM SubmittedIsAtBotHolds == BatchesSpec => []SubmittedIsAtBot
<1>1. ASSUME BatchesInv
      PROVE  SubmittedIsAtBot
  <2>1. ASSUME NEW b \in Bids, bid[b].status \in {"submitted", "accepted"}
        PROVE  b \in BidsIn(bot[bid[b].batch])
    <3>1. bid[b].batch \in Refs /\ bot[bid[b].batch] # {}
      BY <1>1, <2>1 DEF BatchesInv, BatchesTypeOK, BidRow, BidsAreSwept, Swept
    <3>2. QED
      BY <1>1, <3>1 DEF BatchesInv, AtBot
  <2>2. QED
    BY <2>1 DEF SubmittedIsAtBot
<1>2. QED
  BY <1>1, BatchesInvariance, PTL
=============================================================================
