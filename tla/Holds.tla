------------------------------- MODULE Holds -------------------------------
(***************************************************************************)
(* The funds holds of cbs-gateway (core-banking/holds.service.ts): the     *)
(* money an investor's TCB account keeps aside for each bid.               *)
(*                                                                         *)
(* A request is one HTTP call from the auction service.  Its handler reads *)
(* the hold, waits for the database, and writes; between the two, other    *)
(* handlers run.  Only the write of place and of adjust is under the       *)
(* per-account advisory lock, so the read of adjust may be stale.          *)
(***************************************************************************)
EXTENDS Integers, FiniteSetsExt

CONSTANTS
  Refs,       \* bid references, which are also the hold references
  Accounts,   \* TCB bank accounts
  AccountOf,  \* the account each reference is held on, copied at bid time
  Ledger,     \* ledger balance of each account (the stub's is constant)
  Amounts,    \* amounts that may be held
  Calls       \* requests in flight

ASSUME HoldsAssumption ==
  /\ AccountOf \in [Refs -> Accounts]
  /\ Ledger \in [Accounts -> Nat]
  /\ Amounts \subseteq Nat

VARIABLES
  hold,       \* the funds_holds table
  call,       \* the handlers of the requests in flight
  overlapped  \* history: references two of whose adjusts were in flight together

holdVars == <<hold, call, overlapped>>

----------------------------------------------------------------------------

Ops == {"place", "adjust", "release"}

NoHold == [status |-> "none", amount |-> 0]

Idle == [op |-> "none", step |-> "idle"]

\* A request is "sent", then "looked" (the handler has read the hold; seen is the
\* amount it read), then "answered".  A release carries no amount.
InFlight ==
  [op: Ops, ref: Refs, amount: Amounts \cup {0}, seen: Amounts \cup {0},
   step: {"sent", "looked"}]

Answered ==
  [op: {"none"}, step: {"answered"},
   answer: {"ok", "insufficient_funds", "not_found", "hold_closed", "error"}]

HoldsTypeOK ==
  /\ hold \in [Refs -> [status: {"none", "held", "released"}, amount: Amounts \cup {0}]]
  /\ call \in [Calls -> InFlight \cup Answered \cup {Idle}]
  /\ overlapped \subseteq Refs

HeldOn(a) ==
  MapThenSumSet(LAMBDA r : hold[r].amount,
                {r \in Refs : AccountOf[r] = a /\ hold[r].status = "held"})

Available(a) == Ledger[a] - HeldOn(a)

Request(op, r, amount) ==
  [op |-> op, ref |-> r, amount |-> amount, seen |-> 0, step |-> "sent"]

\* The state of calls after the caller of c sends a request.
Sent(c, op, r, amount) == [call EXCEPT ![c] = Request(op, r, amount)]

At(c, op, step) == call[c].op = op /\ call[c].step = step

Answer(c, a) == call' = [call EXCEPT ![c] = [op |-> "none", step |-> "answered", answer |-> a]]

Looked(c) == call' = [call EXCEPT ![c].step = "looked", ![c].seen = hold[call[c].ref].amount]

----------------------------------------------------------------------------
(* place: idempotent on the reference; the balance is read and the hold    *)
(* created under the account's advisory lock.                              *)

PlaceLookUp(c) ==
  /\ At(c, "place", "sent")
  /\ \/ hold[call[c].ref] # NoHold /\ Answer(c, "ok")
     \/ hold[call[c].ref] = NoHold /\ Looked(c)
  /\ UNCHANGED <<hold, overlapped>>

PlaceCommit(c) ==
  LET r == call[c].ref
      enough == call[c].amount <= Available(AccountOf[r])
  IN
  /\ At(c, "place", "looked")
  /\ \/ /\ ~enough
        /\ Answer(c, "insufficient_funds")
        /\ UNCHANGED hold
     \/ /\ enough
        /\ hold[r] = NoHold
        /\ hold' = [hold EXCEPT ![r] = [status |-> "held", amount |-> call[c].amount]]
        /\ Answer(c, "ok")
     \/ /\ enough                    \* the reference is unique: the insert fails
        /\ hold[r] # NoHold
        /\ Answer(c, "error")
        /\ UNCHANGED hold
  /\ UNCHANGED overlapped

----------------------------------------------------------------------------
(* adjust: the hold is read BEFORE the lock is taken, only an increase over *)
(* what was read is checked, and the update has no guard on the status.    *)

AdjustLookUp(c) ==
  LET r == call[c].ref IN
  /\ At(c, "adjust", "sent")
  /\ \/ hold[r].status = "none" /\ Answer(c, "not_found")
     \/ hold[r].status = "released" /\ Answer(c, "hold_closed")
     \/ hold[r].status = "held" /\ Looked(c)
  /\ overlapped' = IF \E d \in Calls \ {c} : At(d, "adjust", "looked") /\ call[d].ref = r
                   THEN overlapped \cup {r} ELSE overlapped
  /\ UNCHANGED hold

\* Mutants: the balance is not asked for; the row is written whole, status too; the
\* amount grows by the difference to what was read.
AdjustTo(c, row) ==
  /\ At(c, "adjust", "looked")
  /\ hold' = [hold EXCEPT ![call[c].ref] = row]
  /\ Answer(c, "ok")
  /\ UNCHANGED overlapped

AdjustCommitUnchecked(c) ==
  AdjustTo(c, [status |-> hold[call[c].ref].status, amount |-> call[c].amount])

AdjustCommitRevives(c) == AdjustTo(c, [status |-> "held", amount |-> call[c].amount])

AdjustCommit(c) ==
  LET r == call[c].ref
      increase == call[c].amount - call[c].seen
      refused == increase > 0 /\ increase > Available(AccountOf[r])
  IN
  /\ At(c, "adjust", "looked")
  /\ \/ refused /\ Answer(c, "insufficient_funds") /\ UNCHANGED hold
     \/ /\ ~refused
        /\ hold' = [hold EXCEPT ![r].amount = call[c].amount]
        /\ Answer(c, "ok")
  /\ UNCHANGED overlapped

----------------------------------------------------------------------------
(* release: no lock; releasing a released hold is a no-op.                 *)

ReleaseLookUp(c) ==
  LET r == call[c].ref IN
  /\ At(c, "release", "sent")
  /\ \/ hold[r].status = "none" /\ Answer(c, "not_found")
     \/ hold[r].status = "released" /\ Answer(c, "ok")
     \/ hold[r].status = "held" /\ Looked(c)
  /\ UNCHANGED <<hold, overlapped>>

ReleaseCommit(c) ==
  /\ At(c, "release", "looked")
  /\ hold' = [hold EXCEPT ![call[c].ref].status = "released"]
  /\ Answer(c, "ok")
  /\ UNCHANGED overlapped

----------------------------------------------------------------------------

\* One step of the handler of c, inside cbs-gateway.
Handle(c) ==
  \/ PlaceLookUp(c)   \/ PlaceCommit(c)
  \/ AdjustLookUp(c)  \/ AdjustCommit(c)
  \/ ReleaseLookUp(c) \/ ReleaseCommit(c)

\* Any caller: cbs-gateway on its own makes no assumption on the order of requests.
Send(c) ==
  /\ call[c].step \in {"idle", "answered"}
  /\ \E r \in Refs :
       \/ \E op \in {"place", "adjust"}, m \in Amounts : call' = Sent(c, op, r, m)
       \/ call' = Sent(c, "release", r, 0)
  /\ UNCHANGED <<hold, overlapped>>

HoldsInit ==
  /\ hold = [r \in Refs |-> NoHold]
  /\ call = [c \in Calls |-> Idle]
  /\ overlapped = {}

HoldsNext == \E c \in Calls : Send(c) \/ Handle(c)

HoldsSpec == HoldsInit /\ [][HoldsNext]_holdVars

----------------------------------------------------------------------------
(* Properties                                                              *)

\* The holds of an account never exceed its ledger balance, unless two adjusts
\* of one of its holds were in flight together: the advisory lock makes the
\* read of the balance and the write of the hold one step for place ("two bids at
\* once cannot both spend the same balance", holds.service.ts:45), and the stale read
\* of adjust is the only hole.
WithinLedgerUnlessOverlapped ==
  \A a \in Accounts :
    \/ HeldOn(a) <= Ledger[a]
    \/ \E r \in overlapped : AccountOf[r] = a

\* A hold that was given back never keeps money again, whatever adjust or place
\* was in flight when it was released (adjust's update has no status guard).
ReleasedIsFinal ==
  [][\A r \in Refs : hold[r].status = "released" => hold'[r].status = "released"]_hold

\* A place that found a hold for its reference leaves its amount alone: only an
\* adjust whose handler is between its read and its write changes an amount.
OnlyAdjustChangesAmount ==
  [][\A r \in Refs : hold[r] # NoHold /\ hold'[r].amount # hold[r].amount =>
       \E c \in Calls : /\ At(c, "adjust", "looked")
                        /\ call[c].ref = r
                        /\ hold'[r].amount = call[c].amount
                        /\ call'[c].step = "answered"]_hold
=============================================================================
