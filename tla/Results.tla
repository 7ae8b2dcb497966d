------------------------------- MODULE Results -------------------------------
(***************************************************************************)
(* BoT's verdicts, applied to our bids (auction, results/results.service.ts *)
(* and results/bot-results.consumer.ts).                                   *)
(*                                                                         *)
(* A callback carries a verdict on one of BoT's request ids; a             *)
(* reconciliation says which bids those ids are.  Both come through one    *)
(* queue, in any order.  The broker hands messages to as many handlers as  *)
(* its prefetch allows, and every await of a handler is a step.  A message *)
(* whose handler failed is delivered again, a bounded number of times.     *)
(***************************************************************************)
EXTENDS Integers, Sequences

CONSTANTS
  Bids,             \* the bids of one submitted batch
  Requests, NoReq,  \* BoT's ids of bids
  Like,             \* the bids that have the terms of each request
  Callbacks,        \* [request, outcome, keeps, at]: keeps is the cost of an allotment
  Reconciliations,  \* [bids, rejected, matched]: sets of requests
  Held,             \* what each bid holds when it is sent to BoT
  Arrivals,         \* the orders in which the messages may be queued
  Handlers,
  Deliveries,       \* x-delivery-limit
  MaxFaults         \* how often a handler dies or a call of it fails

ASSUME ResultsAssumption ==
  /\ NoReq \notin Requests /\ <<>> \notin Bids
  /\ Callbacks \cap Reconciliations = {}
  /\ Like \in [Requests -> SUBSET Bids]
  /\ Held \in Nat \ {0}
  /\ Deliveries \in Nat \ {0}
  /\ \A c \in Callbacks :
       /\ c.request \in Requests
       /\ c.outcome \in {"accepted", "rejected", "allotted", "unsuccessful"}
       /\ c.keeps \in Nat /\ c.at \in Nat \ {0}
  /\ \A m \in Reconciliations : m.bids \subseteq Requests /\ m.rejected \subseteq m.bids
  /\ \A s \in Arrivals : s \in Seq(Callbacks \cup Reconciliations)
  /\ MaxFaults \in Nat

VARIABLES
  queue,      \* messages waiting for a handler
  delivered,  \* how many times each message was handed to one
  handler,    \* the consumers at work
  bid,        \* the bids table
  batch,      \* the batch: "submitted" or "reconciled"
  stored,     \* the bid_outcomes table
  applied,    \* its rows with an appliedAt
  announced,  \* how many result events of each bid were committed to the outbox
  hold,       \* the holds of cbs-gateway; 0 when released
  faults,     \* faults so far
  dropped,    \* history: ids mapped by a handler that died before it asked for their verdicts
  unpaid,     \* history: bids decided whose hold was left as it was
  raced       \* history: bids that two handlers worked on at once

calm == <<faults, dropped, unpaid>>
vars == <<queue, delivered, handler, bid, batch, stored, applied, announced, hold, calm, raced>>

----------------------------------------------------------------------------

Messages == Callbacks \cup Reconciliations

FINAL == {"rejected", "allotted", "unsuccessful"}

\* The row of a rejection learnt from a reconciliation: one per request, dated by this
\* service's clock and not BoT's (at = 0).
Rejection(q) == [request |-> q, outcome |-> "rejected", keeps |-> 0, at |-> 0]

Rows == Callbacks \cup {Rejection(q) : q \in Requests}

Amounts == {0, Held} \cup {c.keeps : c \in Callbacks}

\* pc: "received", "mapping", "updating", "rejecting", "closing" (reconciliations only),
\* then "looking" for the verdicts of the requests asked for, and for each of them
\* "applying", "accepting" or "deciding", "paying", "marking".
Idle == [pc |-> "idle"]

Working ==
  [pc: {"received", "mapping", "updating", "rejecting", "closing", "looking", "applying",
        "accepting", "deciding", "paying", "marking"},
   msg: Messages,
   todo: SUBSET Requests,  \* ids still to be mapped, or rejections still to be recorded
   free: SUBSET Bids,      \* bids without an id, as read and then matched
   pair: {<<>>} \cup (Requests \X Bids),
   asked: SUBSET Requests, \* ids whose verdicts are to be applied
   pending: SUBSET Rows,   \* the verdicts read of the id at hand
   row: Rows \cup {<<>>},  \* the verdict at hand
   bid: Bids \cup {<<>>},
   was: Amounts]           \* the bid's amount, as read

ResultsTypeOK ==
  /\ queue \in Seq(Messages)
  /\ delivered \in [Messages -> Nat]
  /\ handler \in [Handlers -> Working \cup {Idle}]
  /\ bid \in [Bids -> [status: {"submitted", "accepted"} \cup FINAL,
                       request: Requests \cup {NoReq}, held: Amounts]]
  /\ batch \in {"submitted", "reconciled"}
  /\ stored \subseteq Rows
  /\ applied \subseteq stored
  /\ announced \in [Bids -> Nat]
  /\ hold \in [Bids -> Amounts]
  /\ faults \in 0..MaxFaults
  /\ dropped \subseteq Requests
  /\ unpaid \subseteq Bids
  /\ raced \subseteq Bids

ResultsInit ==
  /\ queue \in Arrivals
  /\ delivered = [m \in Messages |-> 0]
  /\ handler = [h \in Handlers |-> Idle]
  /\ bid = [b \in Bids |-> [status |-> "submitted", request |-> NoReq, held |-> Held]]
  /\ batch = "submitted"
  /\ stored = {} /\ applied = {}
  /\ announced = [b \in Bids |-> 0]
  /\ hold = [b \in Bids |-> Held]
  /\ faults = 0 /\ dropped = {} /\ unpaid = {} /\ raced = {}

----------------------------------------------------------------------------

At(h, pc) == handler[h].pc = pc

Become(h, row) == handler' = [handler EXCEPT ![h] = row]

Goto(h, pc) == Become(h, [handler[h] EXCEPT !.pc = pc])

Fault == faults < MaxFaults /\ faults' = faults + 1

\* The bid a request is known to be: none or one, the column is unique.
Known(q) == {b \in Bids : bid[b].request = q}

\* The requests whose verdicts nobody asks for any more if h throws: a callback asks for
\* its own as often as it is delivered; a reconciliation delivered again finds its ids
\* mapped, and leaves them alone.
Drops(h) ==
  LET m == handler[h].msg IN
  IF m \in Callbacks
  THEN {q \in {m.request} : delivered[m] >= Deliveries}
  ELSE handler[h].asked
       \cup {q \in Requests : handler[h].bid # <<>> /\ bid[handler[h].bid].request = q}

\* The handler throws: the message goes back to the queue, or to the dead letters.
Throw(h) ==
  LET m == handler[h].msg IN
  /\ queue' = IF delivered[m] < Deliveries THEN <<m>> \o queue ELSE queue
  /\ Become(h, Idle)
  /\ dropped' = dropped \cup Drops(h)

----------------------------------------------------------------------------

Receive(h) ==
  /\ At(h, "idle")
  /\ queue # <<>>
  /\ queue' = Tail(queue)
  /\ delivered' = [delivered EXCEPT ![Head(queue)] = @ + 1]
  /\ Become(h, [pc |-> "received", msg |-> Head(queue), todo |-> {}, free |-> {}, pair |-> <<>>,
                asked |-> {}, pending |-> {}, row |-> <<>>, bid |-> <<>>, was |-> 0])
  /\ UNCHANGED <<bid, batch, stored, applied, announced, hold, calm>>

\* onOutcome: the verdict is stored first; storing it again is a no-op.
RecordOutcome(h) ==
  /\ At(h, "received") /\ handler[h].msg \in Callbacks
  /\ stored' = stored \cup {handler[h].msg}
  /\ Become(h, [handler[h] EXCEPT !.pc = "looking", !.asked = {handler[h].msg.request}])
  /\ UNCHANGED <<queue, delivered, bid, batch, applied, announced, hold, calm>>

----------------------------------------------------------------------------
(* onReconciled                                                            *)

ReadBatch(h) ==
  LET m == handler[h].msg IN
  /\ At(h, "received") /\ m \in Reconciliations
  /\ Become(h, [handler[h] EXCEPT !.pc = "mapping", !.todo = m.bids,
                                  !.free = {b \in Bids : bid[b].request = NoReq}])
  /\ UNCHANGED <<queue, delivered, bid, batch, stored, applied, announced, hold, calm>>

\* An id already known is skipped, and so is one that matches no bid left.
FindRequest(h, q) ==
  LET same == handler[h].free \cap Like[q]
      rest == handler[h].todo \ {q}
  IN
  /\ At(h, "mapping") /\ q \in handler[h].todo
  /\ \/ /\ Known(q) # {} \/ same = {}
        /\ Become(h, [handler[h] EXCEPT !.todo = rest])
     \/ /\ Known(q) = {}
        /\ \E b \in same :
             Become(h, [handler[h] EXCEPT !.pc = "updating", !.todo = rest,
                                          !.free = @ \ {b}, !.pair = <<q, b>>])
  /\ UNCHANGED <<queue, delivered, bid, batch, stored, applied, announced, hold, calm>>

\* Mutant: the id is not remembered among those whose verdicts are to be applied.
MapRequestOnly(h) ==
  LET q == handler[h].pair[1]
      b == handler[h].pair[2]
  IN
  /\ At(h, "updating")
  /\ \/ /\ Known(q) \subseteq {b}
        /\ bid' = [bid EXCEPT ![b].request = q]
        /\ Become(h, [handler[h] EXCEPT !.pc = "mapping", !.pair = <<>>])
        /\ UNCHANGED <<queue, dropped>>
     \/ ~(Known(q) \subseteq {b}) /\ Throw(h) /\ UNCHANGED bid
  /\ UNCHANGED <<delivered, batch, stored, applied, announced, hold, faults, unpaid>>

\* The id is written on the bid, by the bid's key alone; an id two bids would share
\* fails the unique index.
MapRequest(h) ==
  LET q == handler[h].pair[1]
      b == handler[h].pair[2]
  IN
  /\ At(h, "updating")
  /\ \/ /\ Known(q) \subseteq {b}
        /\ bid' = [bid EXCEPT ![b].request = q]
        /\ Become(h, [handler[h] EXCEPT !.pc = "mapping", !.pair = <<>>, !.asked = @ \cup {q}])
        /\ UNCHANGED <<queue, dropped>>
     \/ ~(Known(q) \subseteq {b}) /\ Throw(h) /\ UNCHANGED bid
  /\ UNCHANGED <<delivered, batch, stored, applied, announced, hold, faults, unpaid>>

Mapped(h) ==
  /\ At(h, "mapping") /\ handler[h].todo = {}
  /\ Become(h, [handler[h] EXCEPT !.pc = "rejecting", !.todo = handler[h].msg.rejected])
  /\ UNCHANGED <<queue, delivered, bid, batch, stored, applied, announced, hold, calm>>

\* Its verdict is not asked for if another delivery had mapped the id already.
RecordRejection(h, q) ==
  /\ At(h, "rejecting") /\ q \in handler[h].todo
  /\ stored' = stored \cup {Rejection(q)}
  /\ dropped' = IF q \in handler[h].asked \/ Known(q) = {} THEN dropped ELSE dropped \cup {q}
  /\ Become(h, [handler[h] EXCEPT !.todo = @ \ {q}])
  /\ UNCHANGED <<queue, delivered, bid, batch, applied, announced, hold, faults, unpaid>>

CloseBatch(h) ==
  /\ At(h, "rejecting") /\ handler[h].todo = {}
  /\ batch' = IF handler[h].msg.matched \/ handler[h].free = {} THEN "reconciled" ELSE batch
  /\ Goto(h, "looking")
  /\ UNCHANGED <<queue, delivered, bid, stored, applied, announced, hold, calm>>

----------------------------------------------------------------------------
(* applyPending and apply, for each request asked for                      *)

\* The stored verdicts of q that were not applied, once its bid is known.
LookUp(h, q) ==
  /\ At(h, "looking") /\ q \in handler[h].asked
  /\ \/ /\ Known(q) = {}
        /\ Become(h, [handler[h] EXCEPT !.asked = @ \ {q}])
     \/ \E b \in Known(q) :
          Become(h, [handler[h] EXCEPT !.pc = "applying", !.asked = @ \ {q}, !.bid = b,
                       !.pending = {x \in stored \ applied : x.request = q}])
  /\ UNCHANGED <<queue, delivered, bid, batch, stored, applied, announced, hold, calm>>

\* In the order of receivedAt, which the rows of a reconciliation take from another clock.
Before(x, y) == x.at # 0 /\ y.at # 0 /\ x.at < y.at

\* Mutants: the status is not looked at before an acceptance, or before a decision.
ReadBidThen(h, x, next) ==
  /\ At(h, "applying")
  /\ x \in handler[h].pending
  /\ \A y \in handler[h].pending : ~Before(y, x)
  /\ Become(h, [handler[h] EXCEPT !.pc = next, !.row = x, !.was = bid[handler[h].bid].held])
  /\ UNCHANGED <<queue, delivered, bid, batch, stored, applied, announced, hold, calm>>

ReadBidAccepting(h, x) ==
  ReadBidThen(h, x, IF x.outcome = "accepted" THEN "accepting"
                    ELSE IF bid[handler[h].bid].status \in FINAL THEN "marking" ELSE "deciding")

\* apply reads the bid, and returns at once if its status is final.
ReadBid(h, x) ==
  LET row == bid[handler[h].bid]
      next == IF row.status \in FINAL THEN "marking"
              ELSE IF x.outcome # "accepted" THEN "deciding"
              ELSE IF row.status = "submitted" THEN "accepting" ELSE "marking"
  IN
  /\ At(h, "applying")
  /\ x \in handler[h].pending
  /\ \A y \in handler[h].pending : ~Before(y, x)
  /\ Become(h, [handler[h] EXCEPT !.pc = next, !.row = x, !.was = row.held])
  /\ UNCHANGED <<queue, delivered, bid, batch, stored, applied, announced, hold, calm>>

\* Neither update has a guard on the status the bid has by now.
Accept(h) ==
  /\ At(h, "accepting")
  /\ bid' = [bid EXCEPT ![handler[h].bid].status = "accepted"]
  /\ Goto(h, "marking")
  /\ UNCHANGED <<queue, delivered, batch, stored, applied, announced, hold, calm>>

Decide(h) ==
  LET b == handler[h].bid
      x == handler[h].row
  IN
  /\ At(h, "deciding")
  /\ bid' = [bid EXCEPT ![b].status = x.outcome,
                        ![b].held = IF x.outcome = "allotted" THEN x.keeps ELSE @]
  /\ announced' = [announced EXCEPT ![b] = @ + 1]
  /\ Goto(h, "paying")
  /\ UNCHANGED <<queue, delivered, batch, stored, applied, hold, calm>>

\* Mutant: the cost is compared with the amount of the updated row, which is the cost.
PayUpdated(h) ==
  LET b == handler[h].bid
      x == handler[h].row
      paid == IF x.outcome # "allotted" THEN [hold EXCEPT ![b] = 0]
              ELSE IF x.keeps < bid[b].held THEN [hold EXCEPT ![b] = x.keeps]
              ELSE hold
  IN
  /\ At(h, "paying")
  /\ hold' = paid
  /\ Goto(h, "marking")
  /\ UNCHANGED <<queue, delivered, bid, batch, stored, applied, announced, calm>>

\* After the commit: the hold is released, or reduced if the allotment costs less than the
\* bid held.  A call that fails is logged and forgotten.
Pay(h) ==
  LET b == handler[h].bid
      x == handler[h].row
      paid == IF x.outcome # "allotted" THEN [hold EXCEPT ![b] = 0]
              ELSE IF x.keeps < handler[h].was /\ hold[b] # 0 THEN [hold EXCEPT ![b] = x.keeps]
              ELSE hold
  IN
  /\ At(h, "paying")
  /\ \/ hold' = paid /\ UNCHANGED <<faults, unpaid>>
     \/ Fault /\ UNCHANGED hold /\ unpaid' = unpaid \cup {b}
  /\ Goto(h, "marking")
  /\ UNCHANGED <<queue, delivered, bid, batch, stored, applied, announced, dropped>>

MarkApplied(h) ==
  /\ At(h, "marking")
  /\ applied' = applied \cup {handler[h].row}
  /\ Become(h, [handler[h] EXCEPT !.pc = "applying", !.pending = @ \ {handler[h].row},
                                  !.row = <<>>, !.was = 0])
  /\ UNCHANGED <<queue, delivered, bid, batch, stored, announced, hold, calm>>

NextRequest(h) ==
  /\ At(h, "applying") /\ handler[h].pending = {}
  /\ Become(h, [handler[h] EXCEPT !.pc = "looking", !.bid = <<>>])
  /\ UNCHANGED <<queue, delivered, bid, batch, stored, applied, announced, hold, calm>>

\* Every request is done: the message is acknowledged.
Acknowledge(h) ==
  /\ At(h, "looking") /\ handler[h].asked = {}
  /\ Become(h, Idle)
  /\ UNCHANGED <<queue, delivered, bid, batch, stored, applied, announced, hold, calm>>

\* The process dies or its database fails, between any two steps.
Die(h) ==
  /\ Fault
  /\ ~At(h, "idle")
  /\ Throw(h)
  /\ unpaid' = IF At(h, "paying") THEN unpaid \cup {handler[h].bid} ELSE unpaid
  /\ UNCHANGED <<delivered, bid, batch, stored, applied, announced, hold>>

----------------------------------------------------------------------------

\* The bids a handler has read, in order to write them.
Using(state) ==
  CASE state.pc \in {"mapping", "updating"} -> state.free \cup {state.pair[i] : i \in DOMAIN state.pair \ {1}}
    [] state.pc \in {"accepting", "deciding", "paying"} -> {state.bid}
    [] OTHER -> {}

Watch ==
  raced' = raced \cup
    {b \in Bids : \E g, h \in Handlers :
       g # h /\ b \in Using(handler'[g]) /\ b \in Using(handler'[h])}

Work(h) ==
  \/ Receive(h) \/ RecordOutcome(h) \/ ReadBatch(h)
  \/ \E q \in Requests : FindRequest(h, q) \/ RecordRejection(h, q) \/ LookUp(h, q)
  \/ MapRequest(h) \/ Mapped(h) \/ CloseBatch(h)
  \/ \E x \in Rows : ReadBid(h, x)
  \/ Accept(h) \/ Decide(h) \/ Pay(h) \/ MarkApplied(h) \/ NextRequest(h) \/ Acknowledge(h)

Consume(h) == Work(h) /\ Watch

ResultsNext == \E h \in Handlers : Consume(h) \/ (Die(h) /\ Watch)

ResultsSpec == ResultsInit /\ [][ResultsNext]_vars

\* The broker delivers what is queued, and handlers run on.
FairResultsSpec == ResultsSpec /\ \A h \in Handlers : WF_vars(Consume(h))

----------------------------------------------------------------------------
(* Properties                                                              *)

\* Nothing is queued and nobody is at work.
AtRest == queue = <<>> /\ \A h \in Handlers : At(h, "idle")

\* No verdict on a known request is left unapplied (results.service.ts:67): a callback and a
\* reconciliation that race each other both write before they look, so one sees the other.  What is left pending is of ids
\* mapped by one delivery of a reconciliation and asked for by none: see Throw and
\* RecordRejection.
PendingOnlyIfDropped ==
  AtRest => \A x \in stored : Known(x.request) # {} => x \in applied \/ x.request \in dropped

\* A final bid stays as it was decided (results.service.ts:114), unless two handlers had
\* read the bid to write it at once.  A handler that died and verdicts in the wrong order never change a final bid.
FinalUnlessRaced ==
  [][\A b \in Bids :
       bid[b].status \in FINAL => bid'[b].status = bid[b].status \/ b \in raced]_bid

\* The request id of a bid is found once: a later reconciliation, or the same one
\* delivered again, never moves it to another bid of the same terms; unless both were
\* being mapped at once.
RequestStays ==
  [][\A b \in Bids :
       bid[b].request # NoReq => bid'[b].request = bid[b].request \/ b \in raced]_bid

\* What is final of a bid, its status and its id at BoT, stays.
FinalIsKept == FinalUnlessRaced /\ RequestStays

\* At rest, what is held for a decided bid is what it owes: nothing, or exactly what the
\* allotment costs (results.service.ts:127, "Keep exactly what the allotment will cost;
\* release the rest now").  The exceptions: the one call that pays was lost, which
\* nothing repeats; two handlers raced; and an allotment that costs more than the bid
\* held, for which the hold is not raised.
HoldIsWhatIsOwed ==
  AtRest => \A b \in Bids :
    bid[b].status \in FINAL /\ b \notin unpaid \cup raced =>
      hold[b] = IF bid[b].status # "allotted" THEN 0
                ELSE IF bid[b].held < Held THEN bid[b].held ELSE Held

\* The result of a bid is announced once, though a handler that dies after it was
\* committed and before the verdict was marked applied leaves it to be applied again.
AnnouncedOnce == \A b \in Bids : announced[b] > 1 => b \in raced

\* At rest, every verdict that can be applied was, and every decided bid was paid for and
\* announced.
VerdictsAreSettled == ResultsTypeOK /\ PendingOnlyIfDropped /\ HoldIsWhatIsOwed /\ AnnouncedOnce

\* Every bid whose verdict BoT sent reaches a final status and stays there, "whichever order
\* the two arrive in" (results.service.ts:22); except one that BoT turned down after an
\* earlier reconciliation had found it, whose rejection is stored and never applied
\* (results.service.ts:45, :62, :67).
EveryBidIsDecided == \A b \in Bids : <>[](bid[b].status \in FINAL \/ bid[b].request \in dropped)
=============================================================================
