------------------------------ MODULE Bids_proofs ------------------------------
(* Proofs about Bids.tla: an idempotency key makes one bid, every bid was approved *)
(* with a PIN, and what is held for a bid follows it through its life.  Then       *)
(* Gateway.tla: what bot-gateway has on record of a batch, and announces, is true. *)
EXTENDS Bids, Gateway, FiniteSetTheorems, WellFoundedInduction, TLAPS

----------------------------------------------------------------------------
(* What a step does to the rows it touches.                                 *)

PlaceRow ==
  [kind: {"place"}, pc: Waiting \cup Over, ref: Reqs, amount: Amounts,
   key: Keys \cup {NoKey}, grant: Grants]

AmendRow ==
  [kind: {"amend"}, pc: Waiting \cup Over, ref: Reqs, amount: Amounts, grant: Grants]

WithdrawRow == [kind: {"withdraw"}, pc: Waiting \cup Over, ref: Reqs]

ReqRow == PlaceRow \cup AmendRow \cup WithdrawRow \cup {NewReq}

CallRow == Cbs!InFlight \cup Cbs!Answered \cup {Cbs!Idle}

BidRow ==
  [status: {"none", "placed", "withdrawn"}, held: Amounts \cup {0}, by: Reqs \cup {NoReq}]

HoldRow == [status: {"none", "held", "released"}, amount: Amounts \cup {0}]

\* The rows of the requests, by kind.
LEMMA TypeOfReq == BidsTypeOK => req \in [Reqs -> ReqRow]
BY DEF BidsTypeOK, ReqRow, PlaceRow, AmendRow, WithdrawRow

\* The rows of cbs-gateway.
LEMMA TypeOfCall ==
  BidsTypeOK => call \in [Reqs -> CallRow] /\ hold \in [Reqs -> HoldRow] /\ overlapped \subseteq Reqs
BY DEF BidsTypeOK, Cbs!HoldsTypeOK, CallRow, HoldRow

\* A request that moves on keeps all but its place in the code.
LEMMA GotoFacts ==
  ASSUME BidsTypeOK, NEW r \in Reqs, req[r].kind # "none",
         NEW pc \in Waiting \cup Over, Goto(r, pc)
  PROVE  /\ req' \in [Reqs -> ReqRow]
         /\ req'[r].pc = pc
         /\ req'[r].kind = req[r].kind
         /\ req'[r].ref = req[r].ref
         /\ req[r].kind \in {"place", "amend"} =>
              req'[r].amount = req[r].amount /\ req'[r].grant = req[r].grant
         /\ req[r].kind = "place" => req'[r].key = req[r].key
         /\ \A u \in Reqs : u # r => req'[u] = req[u]
<1> DEFINE new == [req[r] EXCEPT !.pc = pc]
<1>1. req \in [Reqs -> ReqRow]
  BY TypeOfReq
<1>2. req' = [req EXCEPT ![r] = new]
  BY <1>1 DEF Goto
<1>3. CASE req[r] \in PlaceRow
  <2>1. new \in PlaceRow
    BY <1>3 DEF PlaceRow
  <2>2. QED
    BY <1>1, <1>2, <1>3, <2>1 DEF PlaceRow, ReqRow
<1>4. CASE req[r] \in AmendRow
  <2>1. new \in AmendRow
    BY <1>4 DEF AmendRow
  <2>2. QED
    BY <1>1, <1>2, <1>4, <2>1 DEF AmendRow, ReqRow
<1>5. CASE req[r] \in WithdrawRow
  <2>1. new \in WithdrawRow
    BY <1>5 DEF WithdrawRow
  <2>2. QED
    BY <1>1, <1>2, <1>5, <2>1 DEF WithdrawRow, ReqRow
<1>6. req[r] # NewReq
  BY DEF NewReq
<1>7. QED
  BY <1>1, <1>3, <1>4, <1>5, <1>6 DEF ReqRow

\* A request sent replaces the call of its sender.
LEMMA SentFacts ==
  ASSUME BidsTypeOK, NEW c \in Reqs, NEW op \in {"place", "adjust", "release"},
         NEW b \in Reqs, NEW m \in Amounts \cup {0}, call' = Cbs!Sent(c, op, b, m)
  PROVE  /\ call' \in [Reqs -> CallRow]
         /\ call'[c].op = op /\ call'[c].step = "sent" /\ call'[c].ref = b /\ call'[c].amount = m
         /\ \A u \in Reqs : u # c => call'[u] = call[u]
<1> DEFINE row == Cbs!Request(op, b, m)
<1>1. call \in [Reqs -> CallRow]
  BY TypeOfCall
<1>2. call' = [call EXCEPT ![c] = row]
  BY DEF Cbs!Sent
<1>3. row.op = op /\ row.step = "sent" /\ row.ref = b /\ row.amount = m
  BY DEF Cbs!Request
<1>4. row \in CallRow
  BY DEF Cbs!Request, CallRow, Cbs!InFlight, Cbs!Ops
<1>5. QED
  BY <1>1, <1>2, <1>3, <1>4

\* An answer replaces the call it answers.
LEMMA AnswerFacts ==
  ASSUME BidsTypeOK, NEW c \in Reqs,
         NEW a \in {"ok", "insufficient_funds", "not_found", "hold_closed", "error"},
         Cbs!Answer(c, a)
  PROVE  /\ call' \in [Reqs -> CallRow]
         /\ call'[c].op = "none" /\ call'[c].step = "answered" /\ call'[c].answer = a
         /\ \A u \in Reqs : u # c => call'[u] = call[u]
<1> DEFINE row == [op |-> "none", step |-> "answered", answer |-> a]
<1>1. call \in [Reqs -> CallRow]
  BY TypeOfCall
<1>2. call' = [call EXCEPT ![c] = row]
  BY DEF Cbs!Answer
<1>3. row \in CallRow
  BY DEF CallRow, Cbs!Answered
<1>4. QED
  BY <1>1, <1>2, <1>3

\* A handler that has looked keeps what it was asked.
LEMMA LookedFacts ==
  ASSUME BidsTypeOK, NEW c \in Reqs, call[c].step = "sent", Cbs!Looked(c)
  PROVE  /\ call' \in [Reqs -> CallRow]
         /\ call'[c].op = call[c].op /\ call'[c].step = "looked"
         /\ call'[c].ref = call[c].ref /\ call'[c].amount = call[c].amount
         /\ \A u \in Reqs : u # c => call'[u] = call[u]
<1> DEFINE row == [call[c] EXCEPT !.step = "looked", !.seen = hold[call[c].ref].amount]
<1>1. call \in [Reqs -> CallRow] /\ hold \in [Reqs -> HoldRow]
  BY TypeOfCall
<1>2. call[c] \in Cbs!InFlight
  BY <1>1 DEF CallRow, Cbs!Answered, Cbs!Idle
<1>3. hold[call[c].ref].amount \in Amounts \cup {0}
  BY <1>1, <1>2 DEF Cbs!InFlight, HoldRow
<1>4. row \in Cbs!InFlight
  BY <1>2, <1>3 DEF Cbs!InFlight
<1>5. /\ row.op = call[c].op /\ row.step = "looked"
      /\ row.ref = call[c].ref /\ row.amount = call[c].amount
  BY <1>2 DEF Cbs!InFlight
<1>6. call' = [call EXCEPT ![c] = row]
  BY <1>1 DEF Cbs!Looked
<1>7. QED
  BY <1>1, <1>4, <1>5, <1>6 DEF CallRow

\* A request that starts replaces a row and no other.
LEMMA StartFacts ==
  ASSUME BidsTypeOK, NEW r \in Reqs, NEW row \in ReqRow, req' = [req EXCEPT ![r] = row]
  PROVE  /\ req' \in [Reqs -> ReqRow]
         /\ req'[r] = row
         /\ \A u \in Reqs : u # r => req'[u] = req[u]
BY TypeOfReq

\* Trouble is only ever added.
LEMMA TroubleFacts ==
  ASSUME BidsTypeOK, NEW b \in Reqs, NEW what \in Troubles, Trouble(b, what)
  PROVE  /\ trouble' \in [Reqs -> SUBSET Troubles]
         /\ trouble'[b] = trouble[b] \cup {what}
         /\ \A u \in Reqs : u # b => trouble'[u] = trouble[u]
BY DEF BidsTypeOK, Trouble

\* A request that finds another at work on the bid makes it raced.
LEMMA JoinsFacts ==
  ASSUME BidsTypeOK, NEW b \in Reqs, Joins(b)
  PROVE  /\ trouble' \in [Reqs -> SUBSET Troubles]
         /\ trouble'[b] = {} => Active(b) = {}
         /\ \A u \in Reqs : trouble'[u] = {} => trouble[u] = {}
         /\ \A u \in Reqs : "unsure" \in trouble'[u] <=> "unsure" \in trouble[u]
         /\ \A u \in Reqs : "cut" \in trouble'[u] <=> "cut" \in trouble[u]
<1>1. CASE Active(b) = {}
  BY <1>1 DEF Joins, BidsTypeOK
<1>2. CASE Active(b) # {}
  <2>1. Trouble(b, "raced")
    BY <1>2 DEF Joins
  <2>2. QED
    BY <1>2, <2>1, TroubleFacts DEF Troubles
<1>3. QED
  BY <1>1, <1>2

\* The hold of one reference is written.
LEMMA HoldFacts ==
  ASSUME BidsTypeOK, NEW b \in Reqs, NEW row \in HoldRow, hold' = [hold EXCEPT ![b] = row]
  PROVE  /\ hold' \in [Reqs -> HoldRow]
         /\ hold'[b] = row
         /\ \A u \in Reqs : u # b => hold'[u] = hold[u]
BY TypeOfCall

\* A request is about a bid of the same investor that exists, or that it makes.
RequestsAreAbout ==
  \A r \in Reqs :
    /\ req[r].kind = "place" => req[r].ref = r
    /\ req[r].kind \in {"amend", "withdraw"} => bid[req[r].ref].status # "none"
    /\ req[r].pc \in {"holding"} => req[r].kind \in {"place", "amend"}
    /\ req[r].pc = "undoing" => req[r].kind = "place"
    /\ req[r].pc = "releasing" => req[r].kind = "withdraw"
    /\ req[r].kind = "none" => req[r].pc = "new"

\* A bid is there because its place request inserted it, and if the request did not
\* end well after that, it never learnt it.
BidsAreMade ==
  \A b \in Reqs :
    /\ bid[b].status # "none" =>
         /\ req[b].kind = "place"
         /\ req[b].pc = "done" \/ (req[b].pc \in {"undoing", "failed"} /\ "unsure" \in trouble[b])
    /\ "unsure" \in trouble[b] => req[b].kind = "place" /\ req[b].pc \in {"undoing", "failed"}

\* The request spent an approval of its kind for at least its amount.
Approved(r) ==
  /\ usedBy[req[r].grant] = r
  /\ ScopeOf[req[r].grant] = req[r].kind
  /\ req[r].amount <= Ceiling[req[r].grant]

HoldersAreApproved ==
  \A r \in Reqs : req[r].pc \in {"holding", "undoing"} => Approved(r)

TermsAreApproved ==
  \A b \in Reqs : bid[b].status # "none" =>
    /\ bid[b].by \in Reqs
    /\ req[bid[b].by].kind \in {"place", "amend"}
    /\ Approved(bid[b].by)
    /\ bid[b].held = req[bid[b].by].amount

\* A call in flight is the last its request made; a request that stopped waiting for
\* it was cut, but for the release of a bid that was not to be.
CallsAreMeant ==
  \A c \in Reqs :
    /\ req[c].pc \in {"new", "validated"} => call[c] = Cbs!Idle
    /\ call[c].op = "place" =>
         /\ req[c].kind = "place" /\ call[c].ref = c /\ call[c].amount = req[c].amount
         /\ req[c].pc = "holding" \/ (req[c].pc = "failed" /\ "cut" \in trouble[c])
    /\ call[c].op = "adjust" =>
         /\ req[c].kind = "amend" /\ call[c].ref = req[c].ref /\ call[c].amount = req[c].amount
         /\ req[c].pc = "holding" \/ (req[c].pc = "failed" /\ "cut" \in trouble[req[c].ref])
    /\ call[c].op = "release" =>
         \/ /\ req[c].kind = "place" /\ call[c].ref = c /\ req[c].pc \in {"undoing", "failed"}
            /\ bid[c].status = "none" \/ "unsure" \in trouble[c]
         \/ /\ req[c].kind = "withdraw" /\ call[c].ref = req[c].ref
            /\ bid[req[c].ref].status = "withdrawn"
            /\ req[c].pc = "releasing" \/ (req[c].pc = "failed" /\ "cut" \in trouble[req[c].ref])

\* What the handlers of cbs-gateway read is still so, up to a release.
HandlersSaw ==
  /\ \A b \in Reqs : hold[b].status = "none" => hold[b] = Cbs!NoHold
  /\ \A c \in Reqs : call[c].op \in {"adjust", "release"} /\ call[c].step = "looked" =>
       hold[call[c].ref].status # "none"

\* A place that was answered well finds its hold there, with its amount.
HeldForPlace ==
  \A b \in Reqs :
    /\ req[b].kind = "place" /\ req[b].pc = "holding" /\ Replied(b, "ok") => hold[b].status # "none"
    /\ req[b].kind = "place" /\ req[b].pc = "holding" /\ Refused(b) => hold[b].status = "none"
    /\ req[b].pc = "undoing" => hold[b].status # "none"
    /\ bid[b].status = "none" /\ hold[b].status # "none" =>
         req[b].kind = "place" /\ hold[b].amount = req[b].amount
    /\ req[b].pc = "validated" => hold[b].status = "none" \/ req[b].kind # "place"
    /\ bid[b].status # "none" => hold[b].status # "none"
    /\ call[b].op = "place" => hold[b].status = "none"

\* A hold is given back for a bid withdrawn, or never to be, or that nobody learnt of.
ReleasedWhy ==
  \A b \in Reqs : hold[b].status = "released" =>
    \/ bid[b].status = "withdrawn"
    \/ "unsure" \in trouble[b]
    \/ bid[b].status = "none" /\ req[b].kind = "place" /\ req[b].pc \in {"undoing", "failed"}

\* Money held without a bid is about to be a bid's or to be given back.
OrphansAreWatched ==
  \A b \in Reqs :
    hold[b].status = "held" /\ bid[b].status = "none" /\ "cut" \notin trouble[b] =>
      /\ req[b].kind = "place"
      /\ req[b].pc = "holding" \/ (req[b].pc = "undoing" /\ call[b].op = "release")

\* A withdrawn bid whose withdrawal was not cut is given back and announced, or will be.
WithdrawalsGoOn ==
  \A b \in Reqs : bid[b].status = "withdrawn" /\ "cut" \notin trouble[b] =>
    \E w \in Reqs :
      /\ req[w].kind = "withdraw" /\ req[w].ref = b
      /\ \/ req[w].pc = "releasing" /\ (call[w].op = "release" \/ hold[b].status = "released")
         \/ hold[b].status = "released" /\ <<b, "bid.withdrawn">> \in announced

\* An undisturbed bid has one request at work at most, and what is held differs from
\* what it says only between the two writes of an amend.
Busy(a, b) == req[a].kind # "none" /\ req[a].ref = b /\ req[a].pc \in Waiting

AloneAtWork ==
  \A a, b, c \in Reqs : trouble[b] = {} /\ Busy(a, b) /\ Busy(c, b) => a = c

Amending(a, b) ==
  req[a].kind = "amend" /\ req[a].ref = b /\ req[a].pc = "holding" /\ Replied(a, "ok")

HeldAsSaid ==
  \A b \in Reqs : trouble[b] = {} /\ bid[b].status = "placed" =>
    /\ \A a \in Reqs : Amending(a, b) => hold[b].amount = req[a].amount
    /\ (\A a \in Reqs : ~Amending(a, b)) => hold[b].amount = bid[b].held

\* The inductive invariant.
BidsInv ==
  /\ BidsTypeOK
  /\ RequestsAreAbout /\ BidsAreMade /\ HoldersAreApproved /\ TermsAreApproved
  /\ CallsAreMeant /\ HandlersSaw /\ HeldForPlace /\ ReleasedWhy /\ OrphansAreWatched
  /\ WithdrawalsGoOn /\ AloneAtWork /\ HeldAsSaid

\* The types of the variables, as the lemmas below use them.
LEMMA Types ==
  BidsTypeOK =>
    /\ req \in [Reqs -> ReqRow] /\ bid \in [Reqs -> BidRow] /\ hold \in [Reqs -> HoldRow]
    /\ call \in [Reqs -> CallRow] /\ trouble \in [Reqs -> SUBSET Troubles]
    /\ usedBy \in [Grants -> Reqs \cup {NoReq}] /\ open \in BOOLEAN /\ overlapped \subseteq Reqs
    /\ announced \subseteq Reqs \X {"bid.placed", "bid.amended", "bid.withdrawn"}
BY TypeOfReq, TypeOfCall DEF BidsTypeOK, BidRow

\* The fields of a request that its kind gives it.
LEMMA ReqFields ==
  ASSUME BidsTypeOK, NEW r \in Reqs
  PROVE  /\ req[r].kind \in {"none", "place", "amend", "withdraw"}
         /\ req[r].pc \in Waiting \cup Over
         /\ req[r].kind # "none" => req[r].ref \in Reqs
         /\ req[r].kind \in {"place", "amend"} => req[r].amount \in Amounts /\ req[r].grant \in Grants
         /\ req[r].kind = "place" => req[r].key \in Keys \cup {NoKey}
BY TypeOfReq DEF ReqRow, PlaceRow, AmendRow, WithdrawRow, NewReq, Waiting, Over

\* The fields of a call in flight.
LEMMA CallFields ==
  ASSUME BidsTypeOK, NEW c \in Reqs
  PROVE  /\ call[c].op \in {"none", "place", "adjust", "release"}
         /\ call[c].op # "none" =>
              /\ call[c].ref \in Reqs /\ call[c].amount \in Amounts \cup {0}
              /\ call[c].step \in {"sent", "looked"}
         /\ call[c].op = "none" => call[c].step \in {"idle", "answered"}
BY TypeOfCall DEF CallRow, Cbs!InFlight, Cbs!Answered, Cbs!Idle, Cbs!Ops

----------------------------------------------------------------------------
(* What a change leaves alone.                                              *)

\* AloneAtWork survives when no request starts to work.
LEMMA AloneFrame ==
  ASSUME AloneAtWork, \A b \in Reqs : trouble'[b] = {} => trouble[b] = {},
         \A u \in Reqs : req'[u].kind # "none" /\ req'[u].pc \in Waiting =>
           /\ req[u].kind # "none" /\ req[u].pc \in Waiting
           /\ req'[u].ref = req[u].ref
  PROVE  AloneAtWork'
BY DEF AloneAtWork, Busy

\* HeldAsSaid survives when the terms and what is held stay, and no amend is answered
\* or leaves.
LEMMA HeldFrame ==
  ASSUME HeldAsSaid, \A b \in Reqs : trouble'[b] = {} => trouble[b] = {},
         \A b \in Reqs : trouble'[b] = {} /\ bid'[b].status = "placed" =>
           /\ bid[b].status = "placed" /\ bid'[b].held = bid[b].held
           /\ hold'[b].amount = hold[b].amount,
         \A a, b \in Reqs : trouble'[b] = {} => (Amending(a, b)' <=> Amending(a, b)),
         \A a \in Reqs : req[a].kind = "amend" => req'[a].amount = req[a].amount
  PROVE  HeldAsSaid'
BY DEF HeldAsSaid, Amending

\* An approval stays spent on the request it was spent on.
LEMMA ApprovedFrame ==
  ASSUME BidsTypeOK, NEW u \in Reqs, req[u].kind \in {"place", "amend"}, Approved(u),
         req'[u].kind = req[u].kind, req'[u].amount = req[u].amount, req'[u].grant = req[u].grant,
         \A g \in Grants : usedBy[g] # NoReq => usedBy'[g] = usedBy[g]
  PROVE  Approved(u)'
<1>1. req[u].grant \in Grants /\ u # NoReq
  BY ReqFields, BidsAssumption
<1>2. QED
  BY <1>1 DEF Approved

\* TermsAreApproved survives when no bid is written and approvals stay spent.
LEMMA TermsFrame ==
  ASSUME BidsTypeOK, TermsAreApproved,
         \A b \in Reqs : bid'[b].status # "none" =>
           bid[b].status # "none" /\ bid'[b].by = bid[b].by /\ bid'[b].held = bid[b].held,
         \A u \in Reqs : req[u].kind \in {"place", "amend"} =>
           req'[u].kind = req[u].kind /\ req'[u].amount = req[u].amount /\ req'[u].grant = req[u].grant,
         \A g \in Grants : usedBy[g] # NoReq => usedBy'[g] = usedBy[g]
  PROVE  TermsAreApproved'
<1> SUFFICES ASSUME NEW b \in Reqs, bid'[b].status # "none"
             PROVE  /\ bid'[b].by \in Reqs
                    /\ req'[bid'[b].by].kind \in {"place", "amend"}
                    /\ Approved(bid[b].by)'
                    /\ bid'[b].by = bid[b].by
                    /\ bid'[b].held = req'[bid'[b].by].amount
  BY DEF TermsAreApproved, Approved
<1> DEFINE u == bid[b].by
<1>1. /\ u \in Reqs /\ req[u].kind \in {"place", "amend"} /\ Approved(u)
      /\ bid'[b].by = u /\ bid'[b].held = req[u].amount
  BY DEF TermsAreApproved
<1>2. QED
  BY <1>1, ApprovedFrame

\* TermsAreApproved survives a write of the terms of a request that is approved.
LEMMA TermsWritten ==
  ASSUME BidsTypeOK, TermsAreApproved, NEW r \in Reqs, req[r].kind \in {"place", "amend"},
         Approved(r), NEW b \in Reqs, bid'[b].by = r, bid'[b].held = req[r].amount,
         \A u \in Reqs : u # b => bid'[u] = bid[u],
         \A u \in Reqs : req[u].kind \in {"place", "amend"} =>
           req'[u].kind = req[u].kind /\ req'[u].amount = req[u].amount /\ req'[u].grant = req[u].grant,
         usedBy' = usedBy
  PROVE  TermsAreApproved'
<1>1. \A u \in Reqs : req[u].kind \in {"place", "amend"} /\ Approved(u) => Approved(u)'
  BY ApprovedFrame
<1> SUFFICES ASSUME NEW c \in Reqs, bid'[c].status # "none"
             PROVE  /\ bid'[c].by \in Reqs
                    /\ req'[bid'[c].by].kind \in {"place", "amend"}
                    /\ Approved(bid[c].by)'
                    /\ bid'[c].held = req'[bid'[c].by].amount
  BY DEF TermsAreApproved, Approved
<1>2. CASE c = b
  <2>1. Approved(r)'
    BY <1>1
  <2>2. QED
    BY <1>2, <2>1 DEF Approved
<1>3. CASE c # b
  <2>1. PICK u \in Reqs : /\ u = bid[c].by /\ req[u].kind \in {"place", "amend"}
                         /\ Approved(u) /\ bid[c].held = req[u].amount
    BY <1>3 DEF TermsAreApproved
  <2>2. Approved(u)'
    BY <1>1, <2>1
  <2>3. QED
    BY <1>3, <2>1, <2>2 DEF Approved
<1>4. QED
  BY <1>2, <1>3

\* HoldersAreApproved survives when no request starts to wait for a hold.
LEMMA HoldersFrame ==
  ASSUME BidsTypeOK, HoldersAreApproved, RequestsAreAbout,
         \A u \in Reqs : req'[u].pc \in {"holding", "undoing"} =>
           /\ req[u].pc \in {"holding", "undoing"} /\ req'[u].kind = req[u].kind
           /\ req'[u].amount = req[u].amount /\ req'[u].grant = req[u].grant,
         \A g \in Grants : usedBy[g] # NoReq => usedBy'[g] = usedBy[g]
  PROVE  HoldersAreApproved'
BY ApprovedFrame DEF HoldersAreApproved, RequestsAreAbout

\* The type invariant, from the types of the variables.
LEMMA TypesBack ==
  ASSUME open' \in BOOLEAN, bid' \in [Reqs -> BidRow], req' \in [Reqs -> ReqRow],
         usedBy' \in [Grants -> Reqs \cup {NoReq}],
         announced' \subseteq Reqs \X {"bid.placed", "bid.amended", "bid.withdrawn"},
         trouble' \in [Reqs -> SUBSET Troubles], hold' \in [Reqs -> HoldRow],
         call' \in [Reqs -> CallRow], overlapped' \subseteq Reqs
  PROVE  BidsTypeOK'
BY DEF BidsTypeOK, BidRow, ReqRow, PlaceRow, AmendRow, WithdrawRow, HoldRow, CallRow,
       Cbs!HoldsTypeOK

----------------------------------------------------------------------------
(* The auction service.                                                     *)

\* A place request that starts: it has no bid, no hold and no call yet.
LEMMA StartPlaceKeeps ==
  ASSUME BidsInv, NEW r \in Reqs, NEW m \in Amounts, NEW k \in Keys \cup {NoKey}, NEW g \in Grants,
         StartPlace(r, m, k, g)
  PROVE  BidsInv'
<1>1. PICK pc \in {"done", "failed", "validated"} :
        req' = [req EXCEPT ![r] = [kind |-> "place", pc |-> pc, ref |-> r, amount |-> m,
                                   key |-> k, grant |-> g]]
  BY DEF StartPlace
<1> DEFINE row == [kind |-> "place", pc |-> pc, ref |-> r, amount |-> m, key |-> k, grant |-> g]
<1>2. /\ bid' = bid /\ trouble' = trouble /\ announced' = announced /\ usedBy' = usedBy
      /\ open' = open /\ hold' = hold /\ call' = call /\ overlapped' = overlapped
  BY DEF StartPlace, cbsVars
<1>3. /\ BidsTypeOK /\ req[r].kind = "none" /\ req[r].pc = "new" /\ bid[r].status = "none"
      /\ hold[r].status = "none" /\ call[r] = Cbs!Idle /\ trouble[r] \subseteq Troubles
  BY Types DEF BidsInv, StartPlace, NewReq, BidsAreMade, HeldForPlace, CallsAreMeant, HoldRow
<1>4. /\ row \in ReqRow /\ row.kind = "place" /\ row.ref = r /\ row.amount = m /\ row.key = k
      /\ row.grant = g /\ row.pc = pc
  BY DEF ReqRow, PlaceRow, Waiting, Over
<1>5. /\ req' \in [Reqs -> ReqRow] /\ req'[r].kind = "place" /\ req'[r].ref = r
      /\ req'[r].amount = m /\ req'[r].pc = pc
      /\ \A u \in Reqs : u # r => req'[u] = req[u]
  BY <1>1, <1>3, <1>4, StartFacts
<1>6. \A u \in Reqs : ~Busy(u, r)
  BY <1>3, ReqFields DEF BidsInv, RequestsAreAbout, Busy, Waiting
<1>7. BidsTypeOK'
  BY <1>2, <1>3, <1>5, Types, TypesBack DEF BidsInv
<1>8. RequestsAreAbout'
  BY <1>2, <1>3, <1>5, ReqFields, CallFields DEF BidsInv, RequestsAreAbout
<1>9. BidsAreMade'
  BY <1>2, <1>3, <1>5, ReqFields, CallFields DEF BidsInv, BidsAreMade
<1>10. HoldersAreApproved'
  BY <1>2, <1>3, <1>5, HoldersFrame DEF BidsInv
<1>11. TermsAreApproved'
  BY <1>2, <1>3, <1>5, TermsFrame DEF BidsInv
<1>12. CallsAreMeant'
  BY <1>2, <1>3, <1>5, ReqFields, CallFields DEF BidsInv, CallsAreMeant, Cbs!Idle
<1>13. HandlersSaw'
  BY <1>2, <1>3, <1>5, ReqFields, CallFields DEF BidsInv, HandlersSaw, Cbs!NoHold
<1>14. HeldForPlace'
  BY <1>2, <1>3, <1>5, ReqFields, CallFields DEF BidsInv, HeldForPlace, Replied, Refused
<1>15. ReleasedWhy'
  BY <1>2, <1>3, <1>5, ReqFields, CallFields DEF BidsInv, ReleasedWhy
<1>16. OrphansAreWatched'
  BY <1>2, <1>3, <1>5, ReqFields, CallFields DEF BidsInv, OrphansAreWatched
<1>17. WithdrawalsGoOn'
  BY <1>2, <1>3, <1>5, ReqFields, CallFields DEF BidsInv, WithdrawalsGoOn
<1>18. AloneAtWork'
  BY <1>2, <1>3, <1>5, <1>6 DEF BidsInv, AloneAtWork, Busy
<1>19. HeldAsSaid'
  BY <1>2, <1>3, <1>5, HeldFrame DEF BidsInv, Amending, Replied, Cbs!Idle
<1>20. QED
  BY <1>7, <1>8, <1>9, <1>10, <1>11, <1>12, <1>13, <1>14, <1>15, <1>16, <1>17, <1>18, <1>19 DEF BidsInv


\* An amend request that starts: whoever is at work on the bid is noticed.
LEMMA StartAmendKeeps ==
  ASSUME BidsInv, NEW r \in Reqs, NEW b \in Reqs, NEW m \in Amounts, NEW g \in Grants,
         StartAmend(r, b, m, g)
  PROVE  BidsInv'
<1>1. PICK pc \in {"failed", "validated"} :
        /\ req' = [req EXCEPT ![r] = [kind |-> "amend", pc |-> pc, ref |-> b, amount |-> m, grant |-> g]]
        /\ \/ pc = "failed" /\ UNCHANGED trouble
           \/ pc = "validated" /\ Joins(b)
  BY DEF StartAmend
<1> DEFINE row == [kind |-> "amend", pc |-> pc, ref |-> b, amount |-> m, grant |-> g]
<1>2. /\ bid' = bid /\ announced' = announced /\ usedBy' = usedBy /\ open' = open
      /\ hold' = hold /\ call' = call /\ overlapped' = overlapped /\ bid[b].status # "none"
  BY DEF StartAmend, cbsVars
<1>3. /\ BidsTypeOK /\ req[r].kind = "none" /\ req[r].pc = "new" /\ bid[r].status = "none"
      /\ hold[r].status = "none" /\ call[r] = Cbs!Idle /\ "unsure" \notin trouble[r]
  BY Types DEF BidsInv, StartAmend, NewReq, BidsAreMade, HeldForPlace, CallsAreMeant, HoldRow
<1>4. /\ row \in ReqRow /\ row.kind = "amend" /\ row.ref = b /\ row.pc = pc
  BY DEF ReqRow, AmendRow, Waiting, Over
<1>5. /\ req' \in [Reqs -> ReqRow] /\ req'[r].kind = "amend" /\ req'[r].ref = b
      /\ req'[r].pc = pc
      /\ \A u \in Reqs : u # r => req'[u] = req[u]
  BY <1>1, <1>3, <1>4, StartFacts
<1>6. /\ trouble' \in [Reqs -> SUBSET Troubles]
      /\ pc = "validated" /\ trouble'[b] = {} => Active(b) = {}
      /\ \A u \in Reqs : /\ trouble'[u] = {} => trouble[u] = {}
                         /\ "unsure" \in trouble'[u] <=> "unsure" \in trouble[u]
                         /\ "cut" \in trouble'[u] <=> "cut" \in trouble[u]
  BY <1>1, <1>3, JoinsFacts, Types
<1>7. BidsTypeOK'
  BY <1>2, <1>3, <1>5, <1>6, Types, TypesBack DEF BidsInv
<1>8. RequestsAreAbout'
  BY <1>2, <1>3, <1>5, <1>6, ReqFields, CallFields DEF BidsInv, RequestsAreAbout
<1>9. BidsAreMade'
  BY <1>2, <1>3, <1>5, <1>6, ReqFields, CallFields DEF BidsInv, BidsAreMade
<1>10. HoldersAreApproved'
  BY <1>2, <1>3, <1>5, HoldersFrame DEF BidsInv
<1>11. TermsAreApproved'
  BY <1>2, <1>3, <1>5, TermsFrame DEF BidsInv
<1>12. CallsAreMeant'
  BY <1>2, <1>3, <1>5, <1>6, ReqFields, CallFields DEF BidsInv, CallsAreMeant, Cbs!Idle
<1>13. HandlersSaw'
  BY <1>2, <1>3, <1>5, <1>6, ReqFields, CallFields DEF BidsInv, HandlersSaw, Cbs!NoHold
<1>14. HeldForPlace'
  BY <1>2, <1>3, <1>5, <1>6, ReqFields, CallFields DEF BidsInv, HeldForPlace, Replied, Refused
<1>15. ReleasedWhy'
  BY <1>2, <1>3, <1>5, <1>6, ReqFields, CallFields DEF BidsInv, ReleasedWhy
<1>16. OrphansAreWatched'
  BY <1>2, <1>3, <1>5, <1>6, ReqFields, CallFields DEF BidsInv, OrphansAreWatched
<1>17. WithdrawalsGoOn'
  BY <1>2, <1>3, <1>5, <1>6, ReqFields, CallFields DEF BidsInv, WithdrawalsGoOn
<1>18. AloneAtWork'
  BY <1>3, <1>5, <1>6 DEF BidsInv, AloneAtWork, Busy, Active, Waiting
<1>19. HeldAsSaid'
  BY <1>2, <1>3, <1>5, <1>6, HeldFrame DEF BidsInv, Amending, Replied, Cbs!Idle
<1>20. QED
  BY <1>7, <1>8, <1>9, <1>10, <1>11, <1>12, <1>13, <1>14, <1>15, <1>16, <1>17, <1>18, <1>19 DEF BidsInv


\* A withdraw request that starts: whoever is at work on the bid is noticed.
LEMMA StartWithdrawKeeps ==
  ASSUME BidsInv, NEW r \in Reqs, NEW b \in Reqs, 
         StartWithdraw(r, b)
  PROVE  BidsInv'
<1>1. PICK pc \in {"failed", "validated"} :
        /\ req' = [req EXCEPT ![r] = [kind |-> "withdraw", pc |-> pc, ref |-> b]]
        /\ \/ pc = "failed" /\ UNCHANGED trouble
           \/ pc = "validated" /\ Joins(b)
  BY DEF StartWithdraw
<1> DEFINE row == [kind |-> "withdraw", pc |-> pc, ref |-> b]
<1>2. /\ bid' = bid /\ announced' = announced /\ usedBy' = usedBy /\ open' = open
      /\ hold' = hold /\ call' = call /\ overlapped' = overlapped /\ bid[b].status # "none"
  BY DEF StartWithdraw, cbsVars
<1>3. /\ BidsTypeOK /\ req[r].kind = "none" /\ req[r].pc = "new" /\ bid[r].status = "none"
      /\ hold[r].status = "none" /\ call[r] = Cbs!Idle /\ "unsure" \notin trouble[r]
  BY Types DEF BidsInv, StartWithdraw, NewReq, BidsAreMade, HeldForPlace, CallsAreMeant, HoldRow
<1>4. /\ row \in ReqRow /\ row.kind = "withdraw" /\ row.ref = b /\ row.pc = pc
  BY DEF ReqRow, WithdrawRow, Waiting, Over
<1>5. /\ req' \in [Reqs -> ReqRow] /\ req'[r].kind = "withdraw" /\ req'[r].ref = b
      /\ req'[r].pc = pc
      /\ \A u \in Reqs : u # r => req'[u] = req[u]
  BY <1>1, <1>3, <1>4, StartFacts
<1>6. /\ trouble' \in [Reqs -> SUBSET Troubles]
      /\ pc = "validated" /\ trouble'[b] = {} => Active(b) = {}
      /\ \A u \in Reqs : /\ trouble'[u] = {} => trouble[u] = {}
                         /\ "unsure" \in trouble'[u] <=> "unsure" \in trouble[u]
                         /\ "cut" \in trouble'[u] <=> "cut" \in trouble[u]
  BY <1>1, <1>3, JoinsFacts, Types
<1>7. BidsTypeOK'
  BY <1>2, <1>3, <1>5, <1>6, Types, TypesBack DEF BidsInv
<1>8. RequestsAreAbout'
  BY <1>2, <1>3, <1>5, <1>6, ReqFields, CallFields DEF BidsInv, RequestsAreAbout
<1>9. BidsAreMade'
  BY <1>2, <1>3, <1>5, <1>6, ReqFields, CallFields DEF BidsInv, BidsAreMade
<1>10. HoldersAreApproved'
  BY <1>2, <1>3, <1>5, HoldersFrame DEF BidsInv
<1>11. TermsAreApproved'
  BY <1>2, <1>3, <1>5, TermsFrame DEF BidsInv
<1>12. CallsAreMeant'
  BY <1>2, <1>3, <1>5, <1>6, ReqFields, CallFields DEF BidsInv, CallsAreMeant, Cbs!Idle
<1>13. HandlersSaw'
  BY <1>2, <1>3, <1>5, <1>6, ReqFields, CallFields DEF BidsInv, HandlersSaw, Cbs!NoHold
<1>14. HeldForPlace'
  BY <1>2, <1>3, <1>5, <1>6, ReqFields, CallFields DEF BidsInv, HeldForPlace, Replied, Refused
<1>15. ReleasedWhy'
  BY <1>2, <1>3, <1>5, <1>6, ReqFields, CallFields DEF BidsInv, ReleasedWhy
<1>16. OrphansAreWatched'
  BY <1>2, <1>3, <1>5, <1>6, ReqFields, CallFields DEF BidsInv, OrphansAreWatched
<1>17. WithdrawalsGoOn'
  BY <1>2, <1>3, <1>5, <1>6, ReqFields, CallFields DEF BidsInv, WithdrawalsGoOn
<1>18. AloneAtWork'
  BY <1>3, <1>5, <1>6 DEF BidsInv, AloneAtWork, Busy, Active, Waiting
<1>19. HeldAsSaid'
  BY <1>2, <1>3, <1>5, <1>6, HeldFrame DEF BidsInv, Amending, Replied, Cbs!Idle
<1>20. QED
  BY <1>7, <1>8, <1>9, <1>10, <1>11, <1>12, <1>13, <1>14, <1>15, <1>16, <1>17, <1>18, <1>19 DEF BidsInv


\* The approval is spent and the hold asked for, or the request fails.
LEMMA SpendKeeps ==
  ASSUME BidsInv, NEW r \in Reqs, Spend(r)
  PROVE  BidsInv'
<1> DEFINE op == IF req[r].kind = "place" THEN "place" ELSE "adjust"
<1>1. /\ BidsTypeOK /\ req[r].kind \in {"place", "amend"} /\ req[r].pc = "validated"
      /\ bid' = bid /\ hold' = hold /\ trouble' = trouble /\ announced' = announced
      /\ open' = open /\ overlapped' = overlapped
      /\ req[r].ref \in Reqs /\ req[r].amount \in Amounts /\ req[r].grant \in Grants
      /\ call[r] = Cbs!Idle
  BY ReqFields DEF BidsInv, Spend, CallsAreMeant
<1>2. CASE /\ ScopeOf[req[r].grant] = req[r].kind /\ req[r].amount <= Ceiling[req[r].grant]
           /\ Identity!Use(req[r].grant, r) /\ Goto(r, "holding")
           /\ call' = Cbs!Sent(r, op, req[r].ref, req[r].amount)
  <2>1. /\ req' \in [Reqs -> ReqRow] /\ req'[r].pc = "holding" /\ req'[r].kind = req[r].kind
        /\ req'[r].ref = req[r].ref
        /\ req[r].kind \in {"place", "amend"} =>
             req'[r].amount = req[r].amount /\ req'[r].grant = req[r].grant
        /\ \A u \in Reqs : u # r => req'[u] = req[u]
    BY <1>1, <1>2, GotoFacts DEF Waiting
  <2>2. /\ call' \in [Reqs -> CallRow] /\ call'[r].op = op /\ call'[r].step = "sent"
        /\ call'[r].ref = req[r].ref /\ call'[r].amount = req[r].amount
        /\ \A u \in Reqs : u # r => call'[u] = call[u]
    BY <1>1, <1>2, SentFacts
  <2>3. /\ usedBy' \in [Grants -> Reqs \cup {NoReq}] /\ usedBy'[req[r].grant] = r
        /\ \A g \in Grants : usedBy[g] # NoReq => usedBy'[g] = usedBy[g]
    BY <1>1, <1>2, Types DEF Identity!Use
  <2>4. BidsTypeOK'
    BY <1>1, <2>1, <2>2, <2>3, Types, TypesBack
  <2>5. RequestsAreAbout'
    BY <1>1, <2>1, <2>2, ReqFields, CallFields DEF BidsInv, RequestsAreAbout
  <2>6. BidsAreMade'
    BY <1>1, <2>1, <2>2, ReqFields, CallFields DEF BidsInv, BidsAreMade
  <2>7. HoldersAreApproved'
    BY <1>1, <1>2, <2>1, <2>3, ApprovedFrame DEF BidsInv, HoldersAreApproved, RequestsAreAbout, Approved
  <2>8. TermsAreApproved'
    BY <1>1, <2>1, <2>3, TermsFrame DEF BidsInv
  <2>9. CallsAreMeant'
    BY <1>1, <2>1, <2>2, ReqFields, CallFields DEF BidsInv, CallsAreMeant, RequestsAreAbout, Cbs!Idle
  <2>10. HandlersSaw'
    BY <1>1, <2>2 DEF BidsInv, HandlersSaw, Cbs!NoHold
  <2>11. HeldForPlace'
    BY <1>1, <2>1, <2>2, ReqFields, CallFields DEF BidsInv, HeldForPlace, Replied, Refused
  <2>12. ReleasedWhy'
    BY <1>1, <2>1, <2>2, ReqFields, CallFields DEF BidsInv, ReleasedWhy
  <2>13. OrphansAreWatched'
    BY <1>1, <2>1, <2>2, ReqFields, CallFields DEF BidsInv, OrphansAreWatched
  <2>14. WithdrawalsGoOn'
    BY <1>1, <2>1, <2>2, ReqFields, CallFields DEF BidsInv, WithdrawalsGoOn
  <2>15. AloneAtWork'
    BY <1>1, <2>1, AloneFrame DEF BidsInv, Waiting
  <2>16. HeldAsSaid'
    BY <1>1, <2>1, <2>2, HeldFrame DEF BidsInv, Amending, Replied, Cbs!Idle
  <2>17. QED
    BY <2>4, <2>5, <2>6, <2>7, <2>8, <2>9, <2>10, <2>11, <2>12, <2>13, <2>14, <2>15, <2>16 DEF BidsInv
<1>3. CASE Goto(r, "failed") /\ UNCHANGED <<usedBy, call>>
  <2>1. /\ req' \in [Reqs -> ReqRow] /\ req'[r].pc = "failed" /\ req'[r].kind = req[r].kind
        /\ req'[r].ref = req[r].ref
        /\ req[r].kind \in {"place", "amend"} =>
             req'[r].amount = req[r].amount /\ req'[r].grant = req[r].grant
        /\ \A u \in Reqs : u # r => req'[u] = req[u]
    BY <1>1, <1>3, GotoFacts DEF Over
  <2>2. usedBy' = usedBy /\ call' = call
    BY <1>3
  <2>3. BidsTypeOK'
    BY <1>1, <2>1, <2>2, Types, TypesBack DEF BidsInv
  <2>4. RequestsAreAbout'
    BY <1>1, <2>1, <2>2, ReqFields, CallFields DEF BidsInv, RequestsAreAbout
  <2>5. BidsAreMade'
    BY <1>1, <2>1, <2>2, ReqFields, CallFields DEF BidsInv, BidsAreMade
  <2>6. HoldersAreApproved'
    BY <1>1, <2>1, <2>2, HoldersFrame DEF BidsInv
  <2>7. TermsAreApproved'
    BY <1>1, <2>1, <2>2, TermsFrame DEF BidsInv
  <2>8. CallsAreMeant'
    BY <1>1, <2>1, <2>2, ReqFields, CallFields DEF BidsInv, CallsAreMeant, Cbs!Idle
  <2>9. HandlersSaw'
    BY <1>1, <2>1, <2>2, ReqFields, CallFields DEF BidsInv, HandlersSaw, Cbs!NoHold
  <2>10. HeldForPlace'
    BY <1>1, <2>1, <2>2, ReqFields, CallFields DEF BidsInv, HeldForPlace, Replied, Refused
  <2>11. ReleasedWhy'
    BY <1>1, <2>1, <2>2, ReqFields, CallFields DEF BidsInv, ReleasedWhy
  <2>12. OrphansAreWatched'
    BY <1>1, <2>1, <2>2, ReqFields, CallFields DEF BidsInv, OrphansAreWatched
  <2>13. WithdrawalsGoOn'
    BY <1>1, <2>1, <2>2, ReqFields, CallFields DEF BidsInv, WithdrawalsGoOn
  <2>14. AloneAtWork'
    BY <1>1, <2>1, AloneFrame DEF BidsInv, Waiting
  <2>15. HeldAsSaid'
    BY <1>1, <2>1, <2>2, HeldFrame DEF BidsInv, Amending, Replied
  <2>16. QED
    BY <2>3, <2>4, <2>5, <2>6, <2>7, <2>8, <2>9, <2>10, <2>11, <2>12, <2>13, <2>14, <2>15 DEF BidsInv
<1>4. QED
  BY <1>2, <1>3 DEF Spend


\* The approval is spent and its request never learns it.
LEMMA SpendLostKeeps ==
  ASSUME BidsInv, NEW r \in Reqs, SpendLost(r)
  PROVE  BidsInv'
<1>1. /\ BidsTypeOK /\ req[r].kind \in {"place", "amend"} /\ req[r].pc = "validated"
      /\ bid' = bid /\ hold' = hold /\ trouble' = trouble /\ announced' = announced
      /\ open' = open /\ overlapped' = overlapped /\ call' = call /\ req[r].grant \in Grants
      /\ call[r] = Cbs!Idle
  BY ReqFields DEF BidsInv, SpendLost, CallsAreMeant, cbsVars
<1>2. /\ req' \in [Reqs -> ReqRow] /\ req'[r].pc = "failed" /\ req'[r].kind = req[r].kind
      /\ req'[r].ref = req[r].ref
      /\ req[r].kind \in {"place", "amend"} =>
           req'[r].amount = req[r].amount /\ req'[r].grant = req[r].grant
      /\ \A u \in Reqs : u # r => req'[u] = req[u]
  BY <1>1, GotoFacts DEF Over, SpendLost
<1>3. /\ usedBy' \in [Grants -> Reqs \cup {NoReq}]
      /\ \A g \in Grants : usedBy[g] # NoReq => usedBy'[g] = usedBy[g]
  BY <1>1, Types DEF Identity!Use, SpendLost
<1>4. BidsTypeOK'
  BY <1>1, <1>2, <1>3, Types, TypesBack
<1>5. RequestsAreAbout'
  BY <1>1, <1>2, ReqFields, CallFields DEF BidsInv, RequestsAreAbout
<1>6. BidsAreMade'
  BY <1>1, <1>2, ReqFields, CallFields DEF BidsInv, BidsAreMade
<1>7. HoldersAreApproved'
  BY <1>1, <1>2, <1>3, HoldersFrame DEF BidsInv
<1>8. TermsAreApproved'
  BY <1>1, <1>2, <1>3, TermsFrame DEF BidsInv
<1>9. CallsAreMeant'
  BY <1>1, <1>2, ReqFields, CallFields DEF BidsInv, CallsAreMeant, Cbs!Idle
<1>10. HandlersSaw'
  BY <1>1, <1>2, ReqFields, CallFields DEF BidsInv, HandlersSaw, Cbs!NoHold
<1>11. HeldForPlace'
  BY <1>1, <1>2, ReqFields, CallFields DEF BidsInv, HeldForPlace, Replied, Refused
<1>12. ReleasedWhy'
  BY <1>1, <1>2, ReqFields, CallFields DEF BidsInv, ReleasedWhy
<1>13. OrphansAreWatched'
  BY <1>1, <1>2, ReqFields, CallFields DEF BidsInv, OrphansAreWatched
<1>14. WithdrawalsGoOn'
  BY <1>1, <1>2, ReqFields, CallFields DEF BidsInv, WithdrawalsGoOn
<1>15. AloneAtWork'
  BY <1>1, <1>2, AloneFrame DEF BidsInv, Waiting
<1>16. HeldAsSaid'
  BY <1>1, <1>2, HeldFrame DEF BidsInv, Amending, Replied
<1>17. QED
  BY <1>4, <1>5, <1>6, <1>7, <1>8, <1>9, <1>10, <1>11, <1>12, <1>13, <1>14, <1>15, <1>16 DEF BidsInv


\* The hold was asked back, whatever the answer.
LEMMA GivenBackKeeps ==
  ASSUME BidsInv, NEW r \in Reqs, GivenBack(r)
  PROVE  BidsInv'
<1>1. /\ BidsTypeOK /\ req[r].kind \in {"place", "amend"} /\ req[r].pc = "undoing"
      /\ bid' = bid /\ hold' = hold /\ trouble' = trouble /\ announced' = announced
      /\ open' = open /\ overlapped' = overlapped /\ call' = call /\ usedBy' = usedBy
      /\ call[r].step = "answered"
  BY ReqFields DEF BidsInv, GivenBack, RequestsAreAbout, cbsVars
<1>2. /\ req' \in [Reqs -> ReqRow] /\ req'[r].pc = "failed" /\ req'[r].kind = req[r].kind
      /\ req'[r].ref = req[r].ref
      /\ req[r].kind \in {"place", "amend"} =>
           req'[r].amount = req[r].amount /\ req'[r].grant = req[r].grant
      /\ \A u \in Reqs : u # r => req'[u] = req[u]
  BY <1>1, GotoFacts DEF Over, GivenBack
<1>3. BidsTypeOK'
  BY <1>1, <1>2, Types, TypesBack DEF BidsInv
<1>4. RequestsAreAbout'
  BY <1>1, <1>2, ReqFields, CallFields DEF BidsInv, RequestsAreAbout
<1>5. BidsAreMade'
  BY <1>1, <1>2, ReqFields, CallFields DEF BidsInv, BidsAreMade
<1>6. HoldersAreApproved'
  BY <1>1, <1>2, HoldersFrame DEF BidsInv
<1>7. TermsAreApproved'
  BY <1>1, <1>2, TermsFrame DEF BidsInv
<1>8. CallsAreMeant'
  BY <1>1, <1>2, ReqFields, CallFields DEF BidsInv, CallsAreMeant
<1>9. HandlersSaw'
  BY <1>1, <1>2, ReqFields, CallFields DEF BidsInv, HandlersSaw, Cbs!NoHold
<1>10. HeldForPlace'
  BY <1>1, <1>2, ReqFields, CallFields DEF BidsInv, HeldForPlace, Replied, Refused
<1>11. ReleasedWhy'
  BY <1>1, <1>2, ReqFields, CallFields DEF BidsInv, ReleasedWhy
<1>12. OrphansAreWatched'
  BY <1>1, <1>2, ReqFields, CallFields DEF BidsInv, OrphansAreWatched, HeldForPlace, Refused, RequestsAreAbout
<1>13. WithdrawalsGoOn'
  BY <1>1, <1>2, ReqFields, CallFields DEF BidsInv, WithdrawalsGoOn
<1>14. AloneAtWork'
  BY <1>1, <1>2, AloneFrame DEF BidsInv, Waiting
<1>15. HeldAsSaid'
  BY <1>1, <1>2, HeldFrame DEF BidsInv, Amending, Replied, Refused
<1>16. QED
  BY <1>3, <1>4, <1>5, <1>6, <1>7, <1>8, <1>9, <1>10, <1>11, <1>12, <1>13, <1>14, <1>15 DEF BidsInv


\* cbs-gateway refused: for a place there is no hold.
LEMMA HoldRefusedKeeps ==
  ASSUME BidsInv, NEW r \in Reqs, HoldRefused(r)
  PROVE  BidsInv'
<1>1. /\ BidsTypeOK /\ req[r].kind \in {"place", "amend"} /\ req[r].pc = "holding"
      /\ bid' = bid /\ hold' = hold /\ trouble' = trouble /\ announced' = announced
      /\ open' = open /\ overlapped' = overlapped /\ call' = call /\ usedBy' = usedBy
      /\ call[r].step = "answered" /\ Refused(r)
  BY ReqFields DEF BidsInv, HoldRefused, RequestsAreAbout, cbsVars, Refused
<1>2. /\ req' \in [Reqs -> ReqRow] /\ req'[r].pc = "failed" /\ req'[r].kind = req[r].kind
      /\ req'[r].ref = req[r].ref
      /\ req[r].kind \in {"place", "amend"} =>
           req'[r].amount = req[r].amount /\ req'[r].grant = req[r].grant
      /\ \A u \in Reqs : u # r => req'[u] = req[u]
  BY <1>1, GotoFacts DEF Over, HoldRefused
<1>3. BidsTypeOK'
  BY <1>1, <1>2, Types, TypesBack DEF BidsInv
<1>4. RequestsAreAbout'
  BY <1>1, <1>2, ReqFields, CallFields DEF BidsInv, RequestsAreAbout
<1>5. BidsAreMade'
  BY <1>1, <1>2, ReqFields, CallFields DEF BidsInv, BidsAreMade
<1>6. HoldersAreApproved'
  BY <1>1, <1>2, HoldersFrame DEF BidsInv
<1>7. TermsAreApproved'
  BY <1>1, <1>2, TermsFrame DEF BidsInv
<1>8. CallsAreMeant'
  BY <1>1, <1>2, ReqFields, CallFields DEF BidsInv, CallsAreMeant
<1>9. HandlersSaw'
  BY <1>1, <1>2, ReqFields, CallFields DEF BidsInv, HandlersSaw, Cbs!NoHold
<1>10. HeldForPlace'
  BY <1>1, <1>2, ReqFields, CallFields DEF BidsInv, HeldForPlace, Replied, Refused
<1>11. ReleasedWhy'
  BY <1>1, <1>2, ReqFields, CallFields DEF BidsInv, ReleasedWhy
<1>12. OrphansAreWatched'
  BY <1>1, <1>2, ReqFields, CallFields DEF BidsInv, OrphansAreWatched, HeldForPlace, Refused, RequestsAreAbout
<1>13. WithdrawalsGoOn'
  BY <1>1, <1>2, ReqFields, CallFields DEF BidsInv, WithdrawalsGoOn
<1>14. AloneAtWork'
  BY <1>1, <1>2, AloneFrame DEF BidsInv, Waiting
<1>15. HeldAsSaid'
  BY <1>1, <1>2, HeldFrame DEF BidsInv, Amending, Replied, Refused
<1>16. QED
  BY <1>3, <1>4, <1>5, <1>6, <1>7, <1>8, <1>9, <1>10, <1>11, <1>12, <1>13, <1>14, <1>15 DEF BidsInv


\* A handler stops half-way; its call may go on without it.
LEMMA AbandonKeeps ==
  ASSUME BidsInv, NEW r \in Reqs, Abandon(r)
  PROVE  BidsInv'
<1>1. /\ BidsTypeOK /\ req[r].kind # "none" /\ req[r].pc \in Waiting /\ req[r].ref \in Reqs
      /\ bid' = bid /\ hold' = hold /\ announced' = announced
      /\ open' = open /\ overlapped' = overlapped /\ usedBy' = usedBy
  BY ReqFields DEF BidsInv, Abandon, RequestsAreAbout, Waiting
<1>2. /\ req' \in [Reqs -> ReqRow] /\ req'[r].pc = "failed" /\ req'[r].kind = req[r].kind
      /\ req'[r].ref = req[r].ref
      /\ req[r].kind \in {"place", "amend"} =>
           req'[r].amount = req[r].amount /\ req'[r].grant = req[r].grant
      /\ \A u \in Reqs : u # r => req'[u] = req[u]
  BY <1>1, GotoFacts DEF Over, Abandon
<1>3. /\ trouble' \in [Reqs -> SUBSET Troubles]
      /\ "cut" \in trouble'[req[r].ref]
      /\ \A u \in Reqs : /\ trouble'[u] = {} => trouble[u] = {}
                         /\ "cut" \in trouble[u] => "cut" \in trouble'[u]
                         /\ "unsure" \in trouble'[u] <=> "unsure" \in trouble[u]
  BY <1>1, TroubleFacts DEF Abandon, Troubles
<1>4. /\ call' \in [Reqs -> CallRow]
      /\ call'[r] = call[r] \/ call'[r] = Cbs!Idle
      /\ \A u \in Reqs : u # r => call'[u] = call[u]
  BY <1>1, Types DEF Abandon, CallRow
<1>5. BidsTypeOK'
  BY <1>1, <1>2, <1>3, <1>4, Types, TypesBack DEF BidsInv
<1>6. RequestsAreAbout'
  BY <1>1, <1>2, <1>3, <1>4, ReqFields, CallFields DEF BidsInv, RequestsAreAbout
<1>7. BidsAreMade'
  BY <1>1, <1>2, <1>3 DEF BidsInv, BidsAreMade, Waiting
<1>8. HoldersAreApproved'
  BY <1>1, <1>2, HoldersFrame DEF BidsInv
<1>9. TermsAreApproved'
  BY <1>1, <1>2, TermsFrame DEF BidsInv
<1>10. CallsAreMeant'
  BY <1>1, <1>2, <1>3, <1>4, ReqFields, CallFields DEF BidsInv, CallsAreMeant, RequestsAreAbout, Waiting, Cbs!Idle
<1>11. HandlersSaw'
  BY <1>1, <1>4 DEF BidsInv, HandlersSaw, Cbs!Idle
<1>12. HeldForPlace'
  BY <1>1, <1>2, <1>4 DEF BidsInv, HeldForPlace, Replied, Refused, Cbs!Idle
<1>13. ReleasedWhy'
  BY <1>1, <1>2, <1>3, <1>4, ReqFields, CallFields DEF BidsInv, ReleasedWhy
<1>14. OrphansAreWatched'
  BY <1>1, <1>2, <1>3, <1>4, ReqFields DEF BidsInv, OrphansAreWatched, RequestsAreAbout
<1>15. WithdrawalsGoOn'
  BY <1>1, <1>2, <1>3, <1>4, ReqFields, CallFields DEF BidsInv, WithdrawalsGoOn
<1>16. AloneAtWork'
  BY <1>1, <1>2, <1>3, AloneFrame DEF BidsInv, Waiting
<1>17. HeldAsSaid'
  BY <1>1, <1>2, <1>3, <1>4, HeldFrame DEF BidsInv, Amending, Replied
<1>18. QED
  BY <1>5, <1>6, <1>7, <1>8, <1>9, <1>10, <1>11, <1>12, <1>13, <1>14, <1>15, <1>16, <1>17 DEF BidsInv


\* The bid is inserted, or the hold is asked back, or both.
LEMMA CreateBidKeeps ==
  ASSUME BidsInv, NEW r \in Reqs, CreateBid(r)
  PROVE  BidsInv'
<1> DEFINE row == [status |-> "placed", held |-> req[r].amount, by |-> r]
           insert == /\ bid' = [bid EXCEPT ![r] = row]
                     /\ announced' = announced \cup {<<r, "bid.placed">>}
           giveBack == /\ call' = Cbs!Sent(r, "release", r, 0)
                       /\ Goto(r, "undoing")
<1>1. /\ BidsTypeOK /\ req[r].kind = "place" /\ req[r].pc = "holding" /\ req[r].ref = r
      /\ call[r].step = "answered" /\ hold[r].status # "none" /\ hold' = hold
      /\ open' = open /\ overlapped' = overlapped /\ usedBy' = usedBy /\ req[r].amount \in Amounts
      /\ bid[r].status = "none" /\ hold[r].amount = req[r].amount /\ "unsure" \notin trouble[r]
      /\ call[r].op = "none"
  BY ReqFields, CallFields DEF BidsInv, CreateBid, RequestsAreAbout, HeldForPlace, BidsAreMade, Replied
<1>2. \A u \in Reqs : req[u].kind # "place" /\ req[u].kind # "none" => req[u].ref # r
  BY <1>1, ReqFields DEF BidsInv, RequestsAreAbout
<1>3. Approved(r)
  BY <1>1 DEF BidsInv, HoldersAreApproved
<1>5. CASE insert /\ Goto(r, "done") /\ UNCHANGED <<call, trouble>>
  <2>1. /\ req' \in [Reqs -> ReqRow] /\ req'[r].pc = "done" /\ req'[r].kind = req[r].kind
        /\ req'[r].ref = req[r].ref
        /\ req[r].kind \in {"place", "amend"} =>
             req'[r].amount = req[r].amount /\ req'[r].grant = req[r].grant
        /\ \A u \in Reqs : u # r => req'[u] = req[u]
    BY <1>1, <1>5, GotoFacts DEF Over
  <2>2. /\ bid' \in [Reqs -> BidRow] /\ bid'[r].status = "placed" /\ bid'[r].by = r
        /\ bid'[r].held = req[r].amount
        /\ \A u \in Reqs : u # r => bid'[u] = bid[u]
        /\ announced \subseteq announced'
        /\ announced' \subseteq Reqs \X {"bid.placed", "bid.amended", "bid.withdrawn"}
    BY <1>1, <1>5, Types DEF BidRow
  <2>3. call' = call /\ trouble' = trouble
    BY <1>5
  <2>4. BidsTypeOK'
    BY <1>1, <1>2, <2>1, <2>2, <2>3, Types, TypesBack DEF BidsInv
  <2>5. RequestsAreAbout'
    BY <1>1, <1>2, <2>1, <2>2, <2>3, ReqFields, CallFields DEF BidsInv, RequestsAreAbout
  <2>6. BidsAreMade'
    BY <1>1, <1>2, <2>1, <2>2, <2>3, ReqFields, CallFields DEF BidsInv, BidsAreMade
  <2>7. HoldersAreApproved'
    BY <1>1, <2>1, HoldersFrame DEF BidsInv
  <2>8. TermsAreApproved'
    BY <1>1, <1>3, <2>1, <2>2, TermsWritten DEF BidsInv
  <2>9. CallsAreMeant'
    BY <1>1, <1>2, <2>1, <2>2, <2>3, ReqFields, CallFields DEF BidsInv, CallsAreMeant, Cbs!Idle
  <2>10. HandlersSaw'
    BY <1>1, <1>2, <2>1, <2>2, <2>3, ReqFields, CallFields DEF BidsInv, HandlersSaw, Cbs!NoHold
  <2>11. HeldForPlace'
    BY <1>1, <1>2, <2>1, <2>2, <2>3, ReqFields, CallFields DEF BidsInv, HeldForPlace, Replied, Refused
  <2>12. ReleasedWhy'
    BY <1>1, <1>2, <2>1, <2>2, <2>3, ReqFields, CallFields DEF BidsInv, ReleasedWhy
  <2>13. OrphansAreWatched'
    BY <1>1, <1>2, <2>1, <2>2, <2>3, ReqFields, CallFields DEF BidsInv, OrphansAreWatched
  <2>14. WithdrawalsGoOn'
    BY <1>1, <1>2, <2>1, <2>2, <2>3, ReqFields, CallFields DEF BidsInv, WithdrawalsGoOn
  <2>15. AloneAtWork'
    BY <1>1, <2>1, <2>3, AloneFrame DEF BidsInv, Waiting
  <2>16. HeldAsSaid'
    BY <1>1, <1>2, <2>1, <2>2, <2>3, ReqFields, CallFields DEF BidsInv, HeldAsSaid, Amending, Replied, Waiting
  <2>17. QED
    BY <2>4, <2>5, <2>6, <2>7, <2>8, <2>9, <2>10, <2>11, <2>12, <2>13, <2>14, <2>15, <2>16 DEF BidsInv
<1>6. CASE giveBack /\ UNCHANGED <<bid, announced, trouble>>
  <2>1. /\ req' \in [Reqs -> ReqRow] /\ req'[r].pc = "undoing" /\ req'[r].kind = req[r].kind
        /\ req'[r].ref = req[r].ref
        /\ req[r].kind \in {"place", "amend"} =>
             req'[r].amount = req[r].amount /\ req'[r].grant = req[r].grant
        /\ \A u \in Reqs : u # r => req'[u] = req[u]
    BY <1>1, <1>6, GotoFacts DEF Waiting
  <2>2. /\ call' \in [Reqs -> CallRow] /\ call'[r].op = "release" /\ call'[r].step = "sent"
        /\ call'[r].ref = r
        /\ \A u \in Reqs : u # r => call'[u] = call[u]
    BY <1>1, <1>6, SentFacts
  <2>3. bid' = bid /\ announced' = announced /\ trouble' = trouble
    BY <1>6
  <2>4. BidsTypeOK'
    BY <1>1, <2>1, <2>2, <2>3, Types, TypesBack DEF BidsInv
  <2>5. RequestsAreAbout'
    BY <1>1, <2>1, <2>2, <2>3, ReqFields, CallFields DEF BidsInv, RequestsAreAbout
  <2>6. BidsAreMade'
    BY <1>1, <2>1, <2>2, <2>3, ReqFields, CallFields DEF BidsInv, BidsAreMade
  <2>7. HoldersAreApproved'
    BY <1>1, <2>1, HoldersFrame DEF BidsInv
  <2>8. TermsAreApproved'
    BY <1>1, <2>1, <2>3, TermsFrame DEF BidsInv
  <2>9. CallsAreMeant'
    BY <1>1, <2>1, <2>2, <2>3, ReqFields, CallFields DEF BidsInv, CallsAreMeant, Cbs!Idle
  <2>10. HandlersSaw'
    BY <1>1, <2>1, <2>2, <2>3, ReqFields, CallFields DEF BidsInv, HandlersSaw, Cbs!NoHold
  <2>11. HeldForPlace'
    BY <1>1, <2>1, <2>2, <2>3, ReqFields, CallFields DEF BidsInv, HeldForPlace, Replied, Refused
  <2>12. ReleasedWhy'
    BY <1>1, <2>1, <2>2, <2>3, ReqFields, CallFields DEF BidsInv, ReleasedWhy
  <2>13. OrphansAreWatched'
    BY <1>1, <2>1, <2>2, <2>3, ReqFields, CallFields DEF BidsInv, OrphansAreWatched
  <2>14. WithdrawalsGoOn'
    BY <1>1, <2>1, <2>2, <2>3, ReqFields, CallFields DEF BidsInv, WithdrawalsGoOn
  <2>15. AloneAtWork'
    BY <1>1, <2>1, <2>3, AloneFrame DEF BidsInv, Waiting
  <2>16. HeldAsSaid'
    BY <1>1, <2>1, <2>2, <2>3, HeldFrame DEF BidsInv, Amending, Replied
  <2>17. QED
    BY <2>4, <2>5, <2>6, <2>7, <2>8, <2>9, <2>10, <2>11, <2>12, <2>13, <2>14, <2>15, <2>16 DEF BidsInv
<1>7. CASE insert /\ giveBack /\ Trouble(r, "unsure")
  <2>1. /\ req' \in [Reqs -> ReqRow] /\ req'[r].pc = "undoing" /\ req'[r].kind = req[r].kind
        /\ req'[r].ref = req[r].ref
        /\ req[r].kind \in {"place", "amend"} =>
             req'[r].amount = req[r].amount /\ req'[r].grant = req[r].grant
        /\ \A u \in Reqs : u # r => req'[u] = req[u]
    BY <1>1, <1>7, GotoFacts DEF Waiting
  <2>2. /\ call' \in [Reqs -> CallRow] /\ call'[r].op = "release" /\ call'[r].step = "sent"
        /\ call'[r].ref = r
        /\ \A u \in Reqs : u # r => call'[u] = call[u]
    BY <1>1, <1>7, SentFacts
  <2>3. /\ bid' \in [Reqs -> BidRow] /\ bid'[r].status = "placed" /\ bid'[r].by = r
        /\ bid'[r].held = req[r].amount
        /\ \A u \in Reqs : u # r => bid'[u] = bid[u]
        /\ announced \subseteq announced'
        /\ announced' \subseteq Reqs \X {"bid.placed", "bid.amended", "bid.withdrawn"}
    BY <1>1, <1>7, Types DEF BidRow
  <2>4. /\ trouble' \in [Reqs -> SUBSET Troubles] /\ "unsure" \in trouble'[r]
        /\ \A u \in Reqs : /\ trouble'[u] = {} => trouble[u] = {}
                           /\ "cut" \in trouble'[u] <=> "cut" \in trouble[u]
                           /\ u # r => trouble'[u] = trouble[u]
    BY <1>1, <1>7, TroubleFacts DEF Troubles
  <2>5. BidsTypeOK'
    BY <1>1, <1>2, <2>1, <2>2, <2>3, <2>4, Types, TypesBack DEF BidsInv
  <2>6. RequestsAreAbout'
    BY <1>1, <1>2, <2>1, <2>2, <2>3, <2>4, ReqFields, CallFields DEF BidsInv, RequestsAreAbout
  <2>7. BidsAreMade'
    BY <1>1, <1>2, <2>1, <2>2, <2>3, <2>4, ReqFields, CallFields DEF BidsInv, BidsAreMade
  <2>8. HoldersAreApproved'
    BY <1>1, <2>1, HoldersFrame DEF BidsInv
  <2>9. TermsAreApproved'
    BY <1>1, <1>3, <2>1, <2>3, TermsWritten DEF BidsInv
  <2>10. CallsAreMeant'
    BY <1>1, <1>2, <2>1, <2>2, <2>3, <2>4, ReqFields, CallFields DEF BidsInv, CallsAreMeant, Cbs!Idle
  <2>11. HandlersSaw'
    BY <1>1, <1>2, <2>1, <2>2, <2>3, <2>4, ReqFields, CallFields DEF BidsInv, HandlersSaw, Cbs!NoHold
  <2>12. HeldForPlace'
    BY <1>1, <1>2, <2>1, <2>2, <2>3, <2>4, ReqFields, CallFields DEF BidsInv, HeldForPlace, Replied, Refused
  <2>13. ReleasedWhy'
    BY <1>1, <1>2, <2>1, <2>2, <2>3, <2>4, ReqFields, CallFields DEF BidsInv, ReleasedWhy
  <2>14. OrphansAreWatched'
    BY <1>1, <1>2, <2>1, <2>2, <2>3, <2>4, ReqFields, CallFields DEF BidsInv, OrphansAreWatched
  <2>15. WithdrawalsGoOn'
    BY <1>1, <1>2, <2>1, <2>2, <2>3, <2>4, ReqFields, CallFields DEF BidsInv, WithdrawalsGoOn
  <2>16. AloneAtWork'
    BY <1>1, <2>1, <2>4, AloneFrame DEF BidsInv, Waiting
  <2>17. HeldAsSaid'
    BY <1>1, <2>1, <2>2, <2>3, <2>4, HeldFrame DEF BidsInv, Amending, Replied
  <2>18. QED
    BY <2>5, <2>6, <2>7, <2>8, <2>9, <2>10, <2>11, <2>12, <2>13, <2>14, <2>15, <2>16, <2>17 DEF BidsInv
<1>8. QED
  BY <1>5, <1>6, <1>7 DEF CreateBid


\* The terms are written after the hold was changed.
LEMMA AmendBidKeeps ==
  ASSUME BidsInv, NEW r \in Reqs, AmendBid(r)
  PROVE  BidsInv'
<1> DEFINE b == req[r].ref
           row == [bid[b] EXCEPT !.held = req[r].amount, !.by = r]
<1>1. /\ BidsTypeOK /\ req[r].kind = "amend" /\ req[r].pc = "holding" /\ b \in Reqs
      /\ call[r].step = "answered" /\ call[r].answer = "ok" /\ hold' = hold /\ call' = call
      /\ open' = open /\ overlapped' = overlapped /\ usedBy' = usedBy /\ trouble' = trouble
      /\ req[r].amount \in Amounts /\ bid[b].status # "none"
  BY ReqFields DEF BidsInv, AmendBid, RequestsAreAbout, cbsVars, Replied
<1>2. /\ req' \in [Reqs -> ReqRow] /\ req'[r].pc = "done" /\ req'[r].kind = req[r].kind
      /\ req'[r].ref = req[r].ref
      /\ req[r].kind \in {"place", "amend"} =>
           req'[r].amount = req[r].amount /\ req'[r].grant = req[r].grant
      /\ \A u \in Reqs : u # r => req'[u] = req[u]
  BY <1>1, GotoFacts DEF Over, AmendBid
<1>3. bid \in [Reqs -> BidRow] /\ bid[b] \in BidRow
  BY <1>1, Types
<1>4. row \in BidRow /\ row.status = bid[b].status /\ row.held = req[r].amount /\ row.by = r
  BY <1>1, <1>3 DEF BidRow
<1>5. bid' = [bid EXCEPT ![b] = row]
  BY <1>3 DEF AmendBid
<1>6. /\ bid' \in [Reqs -> BidRow]
      /\ bid'[b].status = bid[b].status /\ bid'[b].by = r /\ bid'[b].held = req[r].amount
      /\ \A u \in Reqs : u # b => bid'[u] = bid[u]
  BY <1>1, <1>3, <1>4, <1>5
<1>7. /\ announced \subseteq announced'
      /\ announced' \subseteq Reqs \X {"bid.placed", "bid.amended", "bid.withdrawn"}
  BY <1>1, Types DEF AmendBid
<1>8. BidsTypeOK'
  BY <1>1, <1>2, <1>6, <1>7, Types, TypesBack DEF BidsInv
<1>9. RequestsAreAbout'
  BY <1>1, <1>2, <1>6, <1>7, ReqFields, CallFields DEF BidsInv, RequestsAreAbout
<1>10. BidsAreMade'
  BY <1>1, <1>2, <1>6, <1>7, ReqFields, CallFields DEF BidsInv, BidsAreMade
<1>11. HoldersAreApproved'
  BY <1>1, <1>2, HoldersFrame DEF BidsInv
<1>12. TermsAreApproved'
  BY <1>1, <1>2, <1>6, TermsWritten DEF BidsInv, HoldersAreApproved
<1>13. CallsAreMeant'
  BY <1>1, <1>2, <1>6, <1>7, ReqFields, CallFields DEF BidsInv, CallsAreMeant, Cbs!Idle
<1>14. HandlersSaw'
  BY <1>1, <1>2, <1>6, <1>7, ReqFields, CallFields DEF BidsInv, HandlersSaw, Cbs!NoHold
<1>15. HeldForPlace'
  BY <1>1, <1>2, <1>6, <1>7, ReqFields, CallFields DEF BidsInv, HeldForPlace, Replied, Refused
<1>16. ReleasedWhy'
  BY <1>1, <1>2, <1>6, <1>7, ReqFields, CallFields DEF BidsInv, ReleasedWhy
<1>17. OrphansAreWatched'
  BY <1>1, <1>2, <1>6, <1>7, ReqFields, CallFields DEF BidsInv, OrphansAreWatched
<1>18. WithdrawalsGoOn'
  BY <1>1, <1>2, <1>6, <1>7, ReqFields, CallFields DEF BidsInv, WithdrawalsGoOn
<1>19. AloneAtWork'
  BY <1>1, <1>2, AloneFrame DEF BidsInv, Waiting
<1>20. HeldAsSaid'
  BY <1>1, <1>2, <1>6 DEF BidsInv, HeldAsSaid, AloneAtWork, Busy, Amending, Replied, Waiting
<1>21. QED
  BY <1>8, <1>9, <1>10, <1>11, <1>12, <1>13, <1>14, <1>15, <1>16, <1>17, <1>18, <1>19, <1>20 DEF BidsInv


\* The bid is marked withdrawn and its hold asked back, or the request fails.
LEMMA MarkWithdrawnKeeps ==
  ASSUME BidsInv, NEW r \in Reqs, MarkWithdrawn(r)
  PROVE  BidsInv'
<1> DEFINE b == req[r].ref
           row == [bid[b] EXCEPT !.status = "withdrawn"]
<1>1. /\ BidsTypeOK /\ req[r].kind = "withdraw" /\ req[r].pc = "validated" /\ b \in Reqs
      /\ hold' = hold /\ announced' = announced /\ call[r] = Cbs!Idle
      /\ open' = open /\ overlapped' = overlapped /\ usedBy' = usedBy /\ trouble' = trouble
  BY ReqFields DEF BidsInv, MarkWithdrawn, CallsAreMeant
<1>2. CASE /\ bid[b].status = "placed"
           /\ bid' = [bid EXCEPT ![b].status = "withdrawn"]
           /\ call' = Cbs!Sent(r, "release", b, 0)
           /\ Goto(r, "releasing")
  <2>1. /\ req' \in [Reqs -> ReqRow] /\ req'[r].pc = "releasing" /\ req'[r].kind = req[r].kind
        /\ req'[r].ref = req[r].ref
        /\ req[r].kind \in {"place", "amend"} =>
             req'[r].amount = req[r].amount /\ req'[r].grant = req[r].grant
        /\ \A u \in Reqs : u # r => req'[u] = req[u]
    BY <1>1, <1>2, GotoFacts DEF Waiting
  <2>2. /\ call' \in [Reqs -> CallRow] /\ call'[r].op = "release" /\ call'[r].step = "sent"
        /\ call'[r].ref = b
        /\ \A u \in Reqs : u # r => call'[u] = call[u]
    BY <1>1, <1>2, SentFacts
  <2>3. bid \in [Reqs -> BidRow] /\ bid[b] \in BidRow /\ bid' = [bid EXCEPT ![b] = row]
    BY <1>1, <1>2, Types
  <2>4. row \in BidRow /\ row.status = "withdrawn" /\ row.held = bid[b].held /\ row.by = bid[b].by
    BY <2>3 DEF BidRow
  <2>5. /\ bid' \in [Reqs -> BidRow]
        /\ bid'[b].status = "withdrawn" /\ bid'[b].by = bid[b].by /\ bid'[b].held = bid[b].held
        /\ \A u \in Reqs : u # b => bid'[u] = bid[u]
    BY <1>1, <2>3, <2>4
  <2>6. BidsTypeOK'
    BY <1>1, <2>1, <2>2, <2>5, Types, TypesBack
  <2>7. RequestsAreAbout'
    BY <1>1, <1>2, <2>1, <2>2, <2>5, ReqFields, CallFields DEF BidsInv, RequestsAreAbout
  <2>8. BidsAreMade'
    BY <1>1, <1>2, <2>1, <2>2, <2>5, ReqFields, CallFields DEF BidsInv, BidsAreMade
  <2>9. HoldersAreApproved'
    BY <1>1, <2>1, HoldersFrame DEF BidsInv
  <2>10. TermsAreApproved'
    BY <1>1, <1>2, <2>1, <2>5, TermsFrame DEF BidsInv
  <2>11. CallsAreMeant'
    BY <1>1, <1>2, <2>1, <2>2, <2>5, ReqFields, CallFields DEF BidsInv, CallsAreMeant, Cbs!Idle
  <2>12. HandlersSaw'
    BY <1>1, <1>2, <2>1, <2>2, <2>5, ReqFields, CallFields DEF BidsInv, HandlersSaw, Cbs!NoHold
  <2>13. HeldForPlace'
    BY <1>1, <1>2, <2>1, <2>2, <2>5, ReqFields, CallFields DEF BidsInv, HeldForPlace, Replied, Refused
  <2>14. ReleasedWhy'
    BY <1>1, <1>2, <2>1, <2>2, <2>5, ReqFields, CallFields DEF BidsInv, ReleasedWhy
  <2>15. OrphansAreWatched'
    BY <1>1, <1>2, <2>1, <2>2, <2>5, ReqFields, CallFields DEF BidsInv, OrphansAreWatched
  <2>16. WithdrawalsGoOn'
    BY <1>1, <1>2, <2>1, <2>2, <2>5, ReqFields, CallFields DEF BidsInv, WithdrawalsGoOn
  <2>17. AloneAtWork'
    BY <1>1, <2>1, AloneFrame DEF BidsInv, Waiting
  <2>18. HeldAsSaid'
    BY <1>1, <2>1, <2>2, <2>5, HeldFrame DEF BidsInv, Amending, Replied, Cbs!Idle
  <2>19. QED
    BY <2>6, <2>7, <2>8, <2>9, <2>10, <2>11, <2>12, <2>13, <2>14, <2>15, <2>16, <2>17, <2>18 DEF BidsInv
<1>3. CASE Goto(r, "failed") /\ UNCHANGED <<bid, call>>
  <2>1. /\ req' \in [Reqs -> ReqRow] /\ req'[r].pc = "failed" /\ req'[r].kind = req[r].kind
        /\ req'[r].ref = req[r].ref
        /\ req[r].kind \in {"place", "amend"} =>
             req'[r].amount = req[r].amount /\ req'[r].grant = req[r].grant
        /\ \A u \in Reqs : u # r => req'[u] = req[u]
    BY <1>1, <1>3, GotoFacts DEF Over
  <2>2. bid' = bid /\ call' = call
    BY <1>3
  <2>3. BidsTypeOK'
    BY <1>1, <2>1, <2>2, Types, TypesBack DEF BidsInv
  <2>4. RequestsAreAbout'
    BY <1>1, <2>1, <2>2, ReqFields, CallFields DEF BidsInv, RequestsAreAbout
  <2>5. BidsAreMade'
    BY <1>1, <2>1, <2>2, ReqFields, CallFields DEF BidsInv, BidsAreMade
  <2>6. HoldersAreApproved'
    BY <1>1, <2>1, <2>2, HoldersFrame DEF BidsInv
  <2>7. TermsAreApproved'
    BY <1>1, <2>1, <2>2, TermsFrame DEF BidsInv
  <2>8. CallsAreMeant'
    BY <1>1, <2>1, <2>2, ReqFields, CallFields DEF BidsInv, CallsAreMeant, Cbs!Idle
  <2>9. HandlersSaw'
    BY <1>1, <2>1, <2>2, ReqFields, CallFields DEF BidsInv, HandlersSaw, Cbs!NoHold
  <2>10. HeldForPlace'
    BY <1>1, <2>1, <2>2, ReqFields, CallFields DEF BidsInv, HeldForPlace, Replied, Refused
  <2>11. ReleasedWhy'
    BY <1>1, <2>1, <2>2, ReqFields, CallFields DEF BidsInv, ReleasedWhy
  <2>12. OrphansAreWatched'
    BY <1>1, <2>1, <2>2, ReqFields, CallFields DEF BidsInv, OrphansAreWatched
  <2>13. WithdrawalsGoOn'
    BY <1>1, <2>1, <2>2, ReqFields, CallFields DEF BidsInv, WithdrawalsGoOn
  <2>14. AloneAtWork'
    BY <1>1, <2>1, AloneFrame DEF BidsInv, Waiting
  <2>15. HeldAsSaid'
    BY <1>1, <2>1, <2>2, HeldFrame DEF BidsInv, Amending, Replied
  <2>16. QED
    BY <2>3, <2>4, <2>5, <2>6, <2>7, <2>8, <2>9, <2>10, <2>11, <2>12, <2>13, <2>14, <2>15 DEF BidsInv
<1>4. QED
  BY <1>2, <1>3 DEF MarkWithdrawn


\* The withdrawal is announced after the release.
LEMMA WithdrawnKeeps ==
  ASSUME BidsInv, NEW r \in Reqs, Withdrawn(r)
  PROVE  BidsInv'
<1>1. /\ BidsTypeOK /\ req[r].kind = "withdraw" /\ req[r].pc = "releasing" /\ req[r].ref \in Reqs
      /\ hold' = hold /\ bid' = bid /\ call' = call /\ call[r].step = "answered"
      /\ open' = open /\ overlapped' = overlapped /\ usedBy' = usedBy /\ trouble' = trouble
      /\ call[r].op = "none"
  BY ReqFields, CallFields DEF BidsInv, Withdrawn, RequestsAreAbout, cbsVars, Replied
<1>2. /\ req' \in [Reqs -> ReqRow] /\ req'[r].pc = "done" /\ req'[r].kind = req[r].kind
      /\ req'[r].ref = req[r].ref
      /\ req[r].kind \in {"place", "amend"} =>
           req'[r].amount = req[r].amount /\ req'[r].grant = req[r].grant
      /\ \A u \in Reqs : u # r => req'[u] = req[u]
  BY <1>1, GotoFacts DEF Over, Withdrawn
<1>3. /\ announced \subseteq announced' /\ <<req[r].ref, "bid.withdrawn">> \in announced'
      /\ announced' \subseteq Reqs \X {"bid.placed", "bid.amended", "bid.withdrawn"}
  BY <1>1, Types DEF Withdrawn
<1>4. BidsTypeOK'
  BY <1>1, <1>2, <1>3, Types, TypesBack DEF BidsInv
<1>5. RequestsAreAbout'
  BY <1>1, <1>2, <1>3, ReqFields, CallFields DEF BidsInv, RequestsAreAbout
<1>6. BidsAreMade'
  BY <1>1, <1>2, <1>3, ReqFields, CallFields DEF BidsInv, BidsAreMade
<1>7. HoldersAreApproved'
  BY <1>1, <1>2, HoldersFrame DEF BidsInv
<1>8. TermsAreApproved'
  BY <1>1, <1>2, TermsFrame DEF BidsInv
<1>9. CallsAreMeant'
  BY <1>1, <1>2, <1>3, ReqFields, CallFields DEF BidsInv, CallsAreMeant, Cbs!Idle
<1>10. HandlersSaw'
  BY <1>1, <1>2, <1>3, ReqFields, CallFields DEF BidsInv, HandlersSaw, Cbs!NoHold
<1>11. HeldForPlace'
  BY <1>1, <1>2, <1>3, ReqFields, CallFields DEF BidsInv, HeldForPlace, Replied, Refused
<1>12. ReleasedWhy'
  BY <1>1, <1>2, <1>3, ReqFields, CallFields DEF BidsInv, ReleasedWhy
<1>13. OrphansAreWatched'
  BY <1>1, <1>2, <1>3, ReqFields, CallFields DEF BidsInv, OrphansAreWatched
<1>14. WithdrawalsGoOn'
  BY <1>1, <1>2, <1>3, ReqFields, CallFields DEF BidsInv, WithdrawalsGoOn
<1>15. AloneAtWork'
  BY <1>1, <1>2, AloneFrame DEF BidsInv, Waiting
<1>16. HeldAsSaid'
  BY <1>1, <1>2, HeldFrame DEF BidsInv, Amending, Replied
<1>17. QED
  BY <1>4, <1>5, <1>6, <1>7, <1>8, <1>9, <1>10, <1>11, <1>12, <1>13, <1>14, <1>15, <1>16 DEF BidsInv


\* Closing the auction and stuttering leave the invariant alone.
LEMMA UnchangedKeeps ==
  ASSUME BidsInv, open' \in BOOLEAN,
         UNCHANGED <<bid, req, usedBy, announced, trouble, hold, call, overlapped>>
  PROVE  BidsInv'
<1>1. BidsTypeOK'
  BY Types, TypesBack DEF BidsInv
<1>2. RequestsAreAbout'
  BY ReqFields, CallFields DEF BidsInv, RequestsAreAbout
<1>3. BidsAreMade'
  BY ReqFields, CallFields DEF BidsInv, BidsAreMade
<1>4. HoldersAreApproved'
  BY ReqFields, CallFields DEF BidsInv, HoldersAreApproved, Approved
<1>5. TermsAreApproved'
  BY ReqFields, CallFields DEF BidsInv, TermsAreApproved, Approved
<1>6. CallsAreMeant'
  BY ReqFields, CallFields DEF BidsInv, CallsAreMeant, Cbs!Idle
<1>7. HandlersSaw'
  BY ReqFields, CallFields DEF BidsInv, HandlersSaw, Cbs!NoHold
<1>8. HeldForPlace'
  BY ReqFields, CallFields DEF BidsInv, HeldForPlace, Replied, Refused
<1>9. ReleasedWhy'
  BY ReqFields, CallFields DEF BidsInv, ReleasedWhy
<1>10. OrphansAreWatched'
  BY ReqFields, CallFields DEF BidsInv, OrphansAreWatched
<1>11. WithdrawalsGoOn'
  BY ReqFields, CallFields DEF BidsInv, WithdrawalsGoOn
<1>12. AloneAtWork'
  BY ReqFields, CallFields DEF BidsInv, AloneAtWork, Busy, Waiting
<1>13. HeldAsSaid'
  BY ReqFields, CallFields DEF BidsInv, HeldAsSaid, Amending, Replied, Waiting
<1>14. QED
  BY <1>1, <1>2, <1>3, <1>4, <1>5, <1>6, <1>7, <1>8, <1>9, <1>10, <1>11, <1>12, <1>13 DEF BidsInv


----------------------------------------------------------------------------
(* cbs-gateway.                                                             *)

\* A handler reads the hold.
LEMMA LookedKeeps ==
  ASSUME BidsInv, NEW c \in Reqs, call[c].op # "none", call[c].step = "sent", Cbs!Looked(c),
         hold' = hold, overlapped' \subseteq Reqs, UNCHANGED auctionVars,
         call[c].op # "place" => hold[call[c].ref].status # "none"
  PROVE  BidsInv'
<1>1. /\ BidsTypeOK /\ call[c].ref \in Reqs /\ bid' = bid /\ req' = req /\ trouble' = trouble
      /\ announced' = announced /\ usedBy' = usedBy /\ open' = open
  BY CallFields DEF BidsInv, auctionVars
<1>2. /\ call' \in [Reqs -> CallRow]
      /\ call'[c].op = call[c].op /\ call'[c].step = "looked"
      /\ call'[c].ref = call[c].ref /\ call'[c].amount = call[c].amount
      /\ \A u \in Reqs : u # c => call'[u] = call[u]
  BY <1>1, LookedFacts
<1>3. BidsTypeOK'
  BY <1>1, <1>2, Types, TypesBack DEF BidsInv
<1>4. RequestsAreAbout'
  BY <1>1, <1>2, ReqFields, CallFields DEF BidsInv, RequestsAreAbout
<1>5. BidsAreMade'
  BY <1>1, <1>2, ReqFields, CallFields DEF BidsInv, BidsAreMade
<1>6. HoldersAreApproved'
  BY <1>1 DEF BidsInv, HoldersAreApproved, Approved
<1>7. TermsAreApproved'
  BY <1>1 DEF BidsInv, TermsAreApproved, Approved
<1>8. CallsAreMeant'
  BY <1>1, <1>2 DEF BidsInv, CallsAreMeant, Cbs!Idle
<1>9. HandlersSaw'
  BY <1>1, <1>2, ReqFields, CallFields DEF BidsInv, HandlersSaw, Cbs!NoHold
<1>10. HeldForPlace'
  BY <1>1, <1>2, ReqFields, CallFields DEF BidsInv, HeldForPlace, Replied, Refused
<1>11. ReleasedWhy'
  BY <1>1, <1>2, ReqFields, CallFields DEF BidsInv, ReleasedWhy
<1>12. OrphansAreWatched'
  BY <1>1, <1>2, ReqFields, CallFields DEF BidsInv, OrphansAreWatched
<1>13. WithdrawalsGoOn'
  BY <1>1, <1>2, ReqFields, CallFields DEF BidsInv, WithdrawalsGoOn
<1>14. AloneAtWork'
  BY <1>1 DEF BidsInv, AloneAtWork, Busy
<1>15. HeldAsSaid'
  BY <1>1, <1>2, HeldFrame DEF BidsInv, Amending, Replied
<1>16. QED
  BY <1>3, <1>4, <1>5, <1>6, <1>7, <1>8, <1>9, <1>10, <1>11, <1>12, <1>13, <1>14, <1>15 DEF BidsInv


\* A handler answers without a write.
LEMMA AnswerKeeps ==
  ASSUME BidsInv, NEW c \in Reqs, call[c].op # "none",
         NEW a \in {"ok", "insufficient_funds", "not_found", "hold_closed", "error"},
         Cbs!Answer(c, a), hold' = hold, overlapped' \subseteq Reqs, UNCHANGED auctionVars,
         call[c].op \in {"place", "adjust"} => a # "ok",
         call[c].op = "release" => hold[call[c].ref].status # "held"
  PROVE  BidsInv'
<1>1. /\ BidsTypeOK /\ call[c].ref \in Reqs /\ bid' = bid /\ req' = req /\ trouble' = trouble
      /\ announced' = announced /\ usedBy' = usedBy /\ open' = open
  BY CallFields DEF BidsInv, auctionVars
<1>2. /\ call' \in [Reqs -> CallRow]
      /\ call'[c].op = "none" /\ call'[c].step = "answered" /\ call'[c].answer = a
      /\ \A u \in Reqs : u # c => call'[u] = call[u]
  BY <1>1, AnswerFacts
<1>3. BidsTypeOK'
  BY <1>1, <1>2, Types, TypesBack DEF BidsInv
<1>4. RequestsAreAbout'
  BY <1>1, <1>2, ReqFields, CallFields DEF BidsInv, RequestsAreAbout
<1>5. BidsAreMade'
  BY <1>1, <1>2, ReqFields, CallFields DEF BidsInv, BidsAreMade
<1>6. HoldersAreApproved'
  BY <1>1 DEF BidsInv, HoldersAreApproved, Approved
<1>7. TermsAreApproved'
  BY <1>1 DEF BidsInv, TermsAreApproved, Approved
<1>8. CallsAreMeant'
  BY <1>1, <1>2 DEF BidsInv, CallsAreMeant, Cbs!Idle
<1>9. HandlersSaw'
  BY <1>1, <1>2, ReqFields, CallFields DEF BidsInv, HandlersSaw, Cbs!NoHold
<1>10. HeldForPlace'
  BY <1>1, <1>2, CallFields DEF BidsInv, HeldForPlace, CallsAreMeant, Replied, Refused
<1>11. ReleasedWhy'
  BY <1>1, <1>2, ReqFields, CallFields DEF BidsInv, ReleasedWhy
<1>12. OrphansAreWatched'
  BY <1>1, <1>2, CallFields DEF BidsInv, OrphansAreWatched, CallsAreMeant
<1>13. WithdrawalsGoOn'
  BY <1>1, <1>2, Types, CallFields DEF BidsInv, WithdrawalsGoOn, CallsAreMeant, HeldForPlace, HoldRow
<1>14. AloneAtWork'
  BY <1>1 DEF BidsInv, AloneAtWork, Busy
<1>15. HeldAsSaid'
  BY <1>1, <1>2, CallFields, HeldFrame DEF BidsInv, Amending, Replied, CallsAreMeant
<1>16. QED
  BY <1>3, <1>4, <1>5, <1>6, <1>7, <1>8, <1>9, <1>10, <1>11, <1>12, <1>13, <1>14, <1>15 DEF BidsInv


\* The hold of a place request is created.
LEMMA HeldKeeps ==
  ASSUME BidsInv, NEW c \in Reqs, call[c].op = "place", Cbs!Answer(c, "ok"),
         hold' = [hold EXCEPT ![call[c].ref] = [status |-> "held", amount |-> call[c].amount]],
         overlapped' \subseteq Reqs, UNCHANGED auctionVars
  PROVE  BidsInv'
<1> DEFINE b == call[c].ref
           row == [status |-> "held", amount |-> call[c].amount]
<1>1. /\ BidsTypeOK /\ call[c].ref \in Reqs /\ bid' = bid /\ req' = req /\ trouble' = trouble
      /\ announced' = announced /\ usedBy' = usedBy /\ open' = open
  BY CallFields DEF BidsInv, auctionVars
<1>2. /\ call' \in [Reqs -> CallRow]
      /\ call'[c].op = "none" /\ call'[c].step = "answered" /\ call'[c].answer = "ok"
      /\ \A u \in Reqs : u # c => call'[u] = call[u]
  BY <1>1, AnswerFacts
<1>3. hold \in [Reqs -> HoldRow] /\ hold[b] \in HoldRow
  BY <1>1, Types
<1>4. /\ row \in HoldRow /\ row.status = "held" /\ row.amount = call[c].amount
      /\ b = c /\ req[c].kind = "place" /\ hold[b].status = "none"
      /\ call[c].amount = req[c].amount /\ bid[c].status = "none"
      /\ req[c].pc = "holding" \/ (req[c].pc = "failed" /\ "cut" \in trouble[c])
      /\ \A u \in Reqs : req[u].kind # "place" /\ req[u].kind # "none" => req[u].ref # b
  BY <1>1, CallFields, ReqFields DEF BidsInv, HoldRow, CallsAreMeant, HeldForPlace, BidsAreMade, RequestsAreAbout
<1>5. hold' = [hold EXCEPT ![b] = row]
  BY <1>3
<1>6. /\ hold' \in [Reqs -> HoldRow]
      /\ hold'[b].status = "held" /\ hold'[b].amount = call[c].amount
      /\ \A u \in Reqs : u # b => hold'[u] = hold[u]
  BY <1>1, <1>3, <1>4, <1>5
<1>7. BidsTypeOK'
  BY <1>1, <1>2, <1>6, Types, TypesBack
<1>8. RequestsAreAbout'
  BY <1>1, <1>2, <1>4, <1>6, ReqFields, CallFields DEF BidsInv, RequestsAreAbout
<1>9. BidsAreMade'
  BY <1>1, <1>2, <1>4, <1>6, ReqFields, CallFields DEF BidsInv, BidsAreMade
<1>10. HoldersAreApproved'
  BY <1>1 DEF BidsInv, HoldersAreApproved, Approved
<1>11. TermsAreApproved'
  BY <1>1 DEF BidsInv, TermsAreApproved, Approved
<1>12. CallsAreMeant'
  BY <1>1, <1>2 DEF BidsInv, CallsAreMeant, Cbs!Idle
<1>13. HandlersSaw'
  BY <1>1, <1>2, <1>4, <1>6, CallFields DEF BidsInv, HandlersSaw
<1>14. HeldForPlace'
  BY <1>1, <1>2, <1>4, <1>6, ReqFields, CallFields DEF BidsInv, HeldForPlace, Replied, Refused
<1>15. ReleasedWhy'
  BY <1>1, <1>2, <1>4, <1>6, ReqFields, CallFields DEF BidsInv, ReleasedWhy
<1>16. OrphansAreWatched'
  BY <1>1, <1>2, <1>4, <1>6, ReqFields, CallFields DEF BidsInv, OrphansAreWatched
<1>17. WithdrawalsGoOn'
  BY <1>1, <1>2, <1>4, <1>6, ReqFields, CallFields DEF BidsInv, WithdrawalsGoOn
<1>18. AloneAtWork'
  BY <1>1 DEF BidsInv, AloneAtWork, Busy
<1>19. HeldAsSaid'
  BY <1>1, <1>2, <1>4, <1>6, ReqFields, CallFields DEF BidsInv, HeldAsSaid, Amending, Replied, Waiting
<1>20. QED
  BY <1>7, <1>8, <1>9, <1>10, <1>11, <1>12, <1>13, <1>14, <1>15, <1>16, <1>17, <1>18, <1>19 DEF BidsInv


\* The amount of a hold is changed.
LEMMA AdjustedKeeps ==
  ASSUME BidsInv, NEW c \in Reqs, call[c].op = "adjust", call[c].step = "looked", Cbs!Answer(c, "ok"),
         hold' = [hold EXCEPT ![call[c].ref].amount = call[c].amount],
         overlapped' \subseteq Reqs, UNCHANGED auctionVars
  PROVE  BidsInv'
<1> DEFINE b == call[c].ref
           row == [hold[b] EXCEPT !.amount = call[c].amount]
<1>1. /\ BidsTypeOK /\ call[c].ref \in Reqs /\ bid' = bid /\ req' = req /\ trouble' = trouble
      /\ announced' = announced /\ usedBy' = usedBy /\ open' = open
  BY CallFields DEF BidsInv, auctionVars
<1>2. /\ call' \in [Reqs -> CallRow]
      /\ call'[c].op = "none" /\ call'[c].step = "answered" /\ call'[c].answer = "ok"
      /\ \A u \in Reqs : u # c => call'[u] = call[u]
  BY <1>1, AnswerFacts
<1>3. hold \in [Reqs -> HoldRow] /\ hold[b] \in HoldRow
  BY <1>1, Types
<1>4. /\ row \in HoldRow /\ row.status = hold[b].status /\ row.amount = call[c].amount
      /\ req[c].kind = "amend" /\ req[c].ref = b /\ call[c].amount = req[c].amount
      /\ bid[b].status # "none" /\ hold[b].status # "none"
      /\ req[c].pc = "holding" \/ (req[c].pc = "failed" /\ "cut" \in trouble[b])
  BY <1>1, <1>3, CallFields, ReqFields DEF BidsInv, HoldRow, CallsAreMeant, HandlersSaw, RequestsAreAbout
<1>5. hold' = [hold EXCEPT ![b] = row]
  BY <1>3
<1>6. /\ hold' \in [Reqs -> HoldRow]
      /\ hold'[b].status = hold[b].status /\ hold'[b].amount = call[c].amount
      /\ \A u \in Reqs : u # b => hold'[u] = hold[u]
  BY <1>1, <1>3, <1>4, <1>5
<1>7. BidsTypeOK'
  BY <1>1, <1>2, <1>6, Types, TypesBack
<1>8. RequestsAreAbout'
  BY <1>1, <1>2, <1>4, <1>6, ReqFields, CallFields DEF BidsInv, RequestsAreAbout
<1>9. BidsAreMade'
  BY <1>1, <1>2, <1>4, <1>6, ReqFields, CallFields DEF BidsInv, BidsAreMade
<1>10. HoldersAreApproved'
  BY <1>1 DEF BidsInv, HoldersAreApproved, Approved
<1>11. TermsAreApproved'
  BY <1>1 DEF BidsInv, TermsAreApproved, Approved
<1>12. CallsAreMeant'
  BY <1>1, <1>2 DEF BidsInv, CallsAreMeant, Cbs!Idle
<1>13. HandlersSaw'
  BY <1>1, <1>2, <1>4, <1>6, CallFields DEF BidsInv, HandlersSaw
<1>14. HeldForPlace'
  BY <1>1, <1>2, <1>4, <1>6, ReqFields, CallFields DEF BidsInv, HeldForPlace, Replied, Refused
<1>15. ReleasedWhy'
  BY <1>1, <1>2, <1>4, <1>6, ReqFields, CallFields DEF BidsInv, ReleasedWhy
<1>16. OrphansAreWatched'
  BY <1>1, <1>2, <1>4, <1>6, ReqFields, CallFields DEF BidsInv, OrphansAreWatched
<1>17. WithdrawalsGoOn'
  BY <1>1, <1>2, <1>4, <1>6, ReqFields, CallFields DEF BidsInv, WithdrawalsGoOn
<1>18. AloneAtWork'
  BY <1>1 DEF BidsInv, AloneAtWork, Busy
<1>19. HeldAsSaid'
  BY <1>1, <1>2, <1>4, <1>6 DEF BidsInv, HeldAsSaid, AloneAtWork, Busy, Amending, Replied, Waiting
<1>20. QED
  BY <1>7, <1>8, <1>9, <1>10, <1>11, <1>12, <1>13, <1>14, <1>15, <1>16, <1>17, <1>18, <1>19 DEF BidsInv


\* A hold is given back.
LEMMA ReleasedKeeps ==
  ASSUME BidsInv, NEW c \in Reqs, call[c].op = "release", call[c].step = "looked", Cbs!Answer(c, "ok"),
         hold' = [hold EXCEPT ![call[c].ref].status = "released"],
         overlapped' \subseteq Reqs, UNCHANGED auctionVars
  PROVE  BidsInv'
<1> DEFINE b == call[c].ref
           row == [hold[b] EXCEPT !.status = "released"]
<1>1. /\ BidsTypeOK /\ call[c].ref \in Reqs /\ bid' = bid /\ req' = req /\ trouble' = trouble
      /\ announced' = announced /\ usedBy' = usedBy /\ open' = open
  BY CallFields DEF BidsInv, auctionVars
<1>2. /\ call' \in [Reqs -> CallRow]
      /\ call'[c].op = "none" /\ call'[c].step = "answered" /\ call'[c].answer = "ok"
      /\ \A u \in Reqs : u # c => call'[u] = call[u]
  BY <1>1, AnswerFacts
<1>3. hold \in [Reqs -> HoldRow] /\ hold[b] \in HoldRow
  BY <1>1, Types
<1>4. /\ row \in HoldRow /\ row.status = "released" /\ row.amount = hold[b].amount
      /\ hold[b].status # "none"
      /\ req[c].kind \in {"place", "withdraw"} /\ req[c].ref = b
      /\ req[c].pc \notin {"validated", "holding"} /\ (req[c].kind = "place" => b = c)
      /\ \/ bid[b].status = "withdrawn" \/ "unsure" \in trouble[b]
         \/ bid[b].status = "none" /\ req[b].kind = "place" /\ req[b].pc \in {"undoing", "failed"}
  BY <1>1, <1>3, CallFields, ReqFields DEF BidsInv, HoldRow, CallsAreMeant, HandlersSaw, RequestsAreAbout
<1>5. hold' = [hold EXCEPT ![b] = row]
  BY <1>3
<1>6. /\ hold' \in [Reqs -> HoldRow]
      /\ hold'[b].status = "released" /\ hold'[b].amount = hold[b].amount
      /\ \A u \in Reqs : u # b => hold'[u] = hold[u]
  BY <1>1, <1>3, <1>4, <1>5
<1>7. BidsTypeOK'
  BY <1>1, <1>2, <1>6, Types, TypesBack
<1>8. RequestsAreAbout'
  BY <1>1, <1>2, <1>4, <1>6, ReqFields, CallFields DEF BidsInv, RequestsAreAbout
<1>9. BidsAreMade'
  BY <1>1, <1>2, <1>4, <1>6, ReqFields, CallFields DEF BidsInv, BidsAreMade
<1>10. HoldersAreApproved'
  BY <1>1 DEF BidsInv, HoldersAreApproved, Approved
<1>11. TermsAreApproved'
  BY <1>1 DEF BidsInv, TermsAreApproved, Approved
<1>12. CallsAreMeant'
  BY <1>1, <1>2 DEF BidsInv, CallsAreMeant, Cbs!Idle
<1>13. HandlersSaw'
  BY <1>1, <1>2, <1>4, <1>6, CallFields DEF BidsInv, HandlersSaw
<1>14. HeldForPlace'
  BY <1>1, <1>2, <1>4, <1>6 DEF BidsInv, HeldForPlace, Replied, Refused
<1>15. ReleasedWhy'
  BY <1>1, <1>2, <1>4, <1>6, ReqFields, CallFields DEF BidsInv, ReleasedWhy
<1>16. OrphansAreWatched'
  BY <1>1, <1>2, <1>4, <1>6 DEF BidsInv, OrphansAreWatched
<1>17. WithdrawalsGoOn'
  BY <1>1, <1>2, <1>4, <1>6, ReqFields, CallFields DEF BidsInv, WithdrawalsGoOn
<1>18. AloneAtWork'
  BY <1>1 DEF BidsInv, AloneAtWork, Busy
<1>19. HeldAsSaid'
  BY <1>1, <1>2, <1>4, <1>6, HeldFrame DEF BidsInv, Amending, Replied
<1>20. QED
  BY <1>7, <1>8, <1>9, <1>10, <1>11, <1>12, <1>13, <1>14, <1>15, <1>16, <1>17, <1>18, <1>19 DEF BidsInv


\* Every step of cbs-gateway is one of these.
LEMMA HandleKeeps ==
  ASSUME BidsInv, NEW c \in Reqs, Handle(c)
  PROVE  BidsInv'
<1> DEFINE b == call[c].ref
<1>1. /\ BidsTypeOK /\ UNCHANGED auctionVars /\ overlapped \subseteq Reqs
      /\ call[c].op # "none" => b \in Reqs
      /\ call[c].op = "place" => b = c /\ hold[b] = Cbs!NoHold
  BY Types, CallFields DEF BidsInv, Handle, CallsAreMeant, HeldForPlace, HandlersSaw
<1>2. CASE Cbs!PlaceLookUp(c)
  BY <1>1, <1>2, LookedKeeps DEF Cbs!PlaceLookUp, Cbs!At
<1>3. CASE Cbs!PlaceCommit(c)
  BY <1>1, <1>3, AnswerKeeps, HeldKeeps DEF Cbs!PlaceCommit, Cbs!At
<1>4. CASE Cbs!AdjustLookUp(c)
  <2>1. call[c].op = "adjust" /\ call[c].step = "sent" /\ hold' = hold /\ overlapped' \subseteq Reqs
    BY <1>1, <1>4 DEF Cbs!AdjustLookUp, Cbs!At
  <2>2. \/ \E a \in {"not_found", "hold_closed"} : Cbs!Answer(c, a)
        \/ hold[b].status = "held" /\ Cbs!Looked(c)
    BY <1>4 DEF Cbs!AdjustLookUp
  <2>3. QED
    BY <1>1, <2>1, <2>2, AnswerKeeps, LookedKeeps
<1>5. CASE Cbs!AdjustCommit(c)
  BY <1>1, <1>5, AnswerKeeps, AdjustedKeeps DEF Cbs!AdjustCommit, Cbs!At
<1>6. CASE Cbs!ReleaseLookUp(c)
  BY <1>1, <1>6, AnswerKeeps, LookedKeeps DEF Cbs!ReleaseLookUp, Cbs!At
<1>7. CASE Cbs!ReleaseCommit(c)
  BY <1>1, <1>7, ReleasedKeeps DEF Cbs!ReleaseCommit, Cbs!At
<1>8. QED
  BY <1>2, <1>3, <1>4, <1>5, <1>6, <1>7 DEF Handle, Cbs!Handle

----------------------------------------------------------------------------
(* The theorems.                                                            *)

\* It holds at first.
LEMMA InitInv == BidsInit => BidsInv
<1> SUFFICES ASSUME BidsInit
             PROVE  BidsInv
  OBVIOUS
<1>1. /\ open = TRUE /\ bid = [r \in Reqs |-> NoBid] /\ req = [r \in Reqs |-> NewReq]
      /\ announced = {} /\ trouble = [r \in Reqs |-> {}] /\ usedBy = [g \in Grants |-> NoReq]
      /\ hold = [r \in Reqs |-> Cbs!NoHold] /\ call = [r \in Reqs |-> Cbs!Idle] /\ overlapped = {}
  BY DEF BidsInit, Identity!Init, Cbs!HoldsInit
<1>2. BidsTypeOK
  BY <1>1 DEF BidsTypeOK, NoBid, NewReq, Cbs!NoHold, Cbs!Idle, Cbs!HoldsTypeOK
<1>3. RequestsAreAbout /\ BidsAreMade /\ HoldersAreApproved /\ TermsAreApproved
  BY <1>1 DEF RequestsAreAbout, BidsAreMade, HoldersAreApproved, TermsAreApproved, NoBid, NewReq
<1>4. CallsAreMeant /\ HandlersSaw
  BY <1>1 DEF CallsAreMeant, HandlersSaw, NewReq, Cbs!NoHold, Cbs!Idle
<1>5. HeldForPlace /\ ReleasedWhy /\ OrphansAreWatched
  BY <1>1 DEF HeldForPlace, ReleasedWhy, OrphansAreWatched, NoBid, NewReq, Cbs!NoHold, Cbs!Idle
<1>6. WithdrawalsGoOn /\ AloneAtWork /\ HeldAsSaid
  BY <1>1 DEF WithdrawalsGoOn, AloneAtWork, HeldAsSaid, Busy, NoBid, NewReq
<1>7. QED
  BY <1>2, <1>3, <1>4, <1>5, <1>6 DEF BidsInv

\* Every step keeps it.
LEMMA NextInv == BidsInv /\ [BidsNext]_vars => BidsInv'
<1> SUFFICES ASSUME BidsInv, [BidsNext]_vars
             PROVE  BidsInv'
  OBVIOUS
<1>1. ASSUME NEW r \in Reqs, Start(r) PROVE BidsInv'
  BY <1>1, StartPlaceKeeps, StartAmendKeeps, StartWithdrawKeeps DEF Start
<1>2. ASSUME NEW r \in Reqs, Serve(r) PROVE BidsInv'
  BY <1>2, SpendKeeps, CreateBidKeeps, GivenBackKeeps, AmendBidKeeps, HoldRefusedKeeps,
     MarkWithdrawnKeeps, WithdrawnKeeps DEF Serve
<1>3. ASSUME NEW r \in Reqs, Handle(r) PROVE BidsInv'
  BY <1>3, HandleKeeps
<1>4. ASSUME NEW r \in Reqs, Abandon(r) \/ SpendLost(r) PROVE BidsInv'
  BY <1>4, AbandonKeeps, SpendLostKeeps
<1>5. CASE CloseBidding
  BY <1>5, UnchangedKeeps DEF CloseBidding, cbsVars
<1>6. CASE UNCHANGED vars
  BY <1>6, UnchangedKeeps DEF vars, BidsInv, BidsTypeOK
<1>7. QED
  BY <1>1, <1>2, <1>3, <1>4, <1>5, <1>6 DEF BidsNext

\* Every reachable state satisfies the inductive invariant: each call in flight, each
\* hold and each bid is accounted for by the request it belongs to.
THEOREM BidsInvariant == BidsSpec => []BidsInv
BY InitInv, NextInv, PTL DEF BidsSpec

\* What is held for a bid follows it (bids.service.ts:77-176): a bid that stands is
\* backed, nothing is held for no bid, a withdrawn bid holds nothing, and at rest the
\* amount held is the amount of the bid, except as the parts of the property say.
THEOREM FundsFollow == BidsSpec => []HoldsFollowBids
<1>1. BidsInv => HoldsFollowBids
  <2> SUFFICES ASSUME BidsInv
               PROVE  HoldsFollowBids
    OBVIOUS
  <2>1. BidIsFunded
    BY Types DEF BidsInv, BidIsFunded, HeldForPlace, ReleasedWhy, HoldRow
  <2>2. HoldMatchesQuietBid
    BY DEF BidsInv, HoldMatchesQuietBid, HeldAsSaid, Amending, AtRest, Active, Waiting
  <2>3. NoOrphanHold
    BY DEF BidsInv, NoOrphanHold, OrphansAreWatched, AtRest, Over
  <2>4. WithdrawalReleases
    <3> SUFFICES ASSUME NEW b \in Reqs, AtRest(b), bid[b].status = "withdrawn",
                        "cut" \notin trouble[b]
                 PROVE  hold[b].status = "released" /\ <<b, "bid.withdrawn">> \in announced
      BY DEF WithdrawalReleases
    <3>1. PICK w \in Reqs :
            /\ req[w].kind = "withdraw" /\ req[w].ref = b
            /\ \/ req[w].pc = "releasing"
               \/ hold[b].status = "released" /\ <<b, "bid.withdrawn">> \in announced
      BY DEF BidsInv, WithdrawalsGoOn
    <3>2. req[w].pc # "releasing"
      BY <3>1 DEF AtRest, Active, Waiting
    <3>3. QED
      BY <3>1, <3>2
  <2>5. QED
    BY <2>1, <2>2, <2>3, <2>4 DEF BidsInv, HoldsFollowBids
<1>2. QED
  BY <1>1, BidsInvariant, PTL

\* The terms of every bid were approved with the PIN, by an approval that nothing else
\* spends (bids.service.ts:88, 118).
THEOREM ApprovedBids == BidsSpec => []BidIsApproved
<1>1. BidsInv => BidIsApproved
  BY DEF BidsInv, BidIsApproved, TermsAreApproved, Approved
<1>2. QED
  BY <1>1, BidsInvariant, PTL



\* A request keeps its key once it made a bid, and a bid that appears carries a key
\* no other bid of the investor carries.
LEMMA KeysKept ==
  ASSUME BidsInv, BidsNext, NEW b \in Reqs, bid'[b].status # "none"
  PROVE  /\ req'[b].key = req[b].key
         /\ bid[b].status # "none" \/ Keyed(b, req[b].key) = {}
         /\ \A c \in Reqs \ {b} : bid'[c].status # "none" /\ bid[b].status = "none" =>
              bid[c].status # "none"
<1>1. /\ BidsTypeOK /\ req \in [Reqs -> ReqRow] /\ bid \in [Reqs -> BidRow]
      /\ \A c \in Reqs : bid[c].status # "none" => req[c].kind = "place"
  BY Types DEF BidsInv, BidsAreMade
<1>2. ASSUME NEW r \in Reqs, Start(r) PROVE
        /\ req'[b].key = req[b].key
        /\ bid' = bid
  <2>1. bid' = bid /\ req[r].kind = "none" /\ \E row : req' = [req EXCEPT ![r] = row]
    BY <1>2 DEF Start, StartPlace, StartAmend, StartWithdraw, NewReq
  <2>2. QED
    BY <1>1, <2>1
<1>3. ASSUME NEW r \in Reqs, req[r].kind # "none", NEW pc \in Waiting \cup Over, Goto(r, pc)
      PROVE  req[b].kind = "place" => req'[b].key = req[b].key
  BY <1>1, <1>3, GotoFacts
<1>4. ASSUME NEW r \in Reqs,
             Spend(r) \/ GivenBack(r) \/ HoldRefused(r) \/ Withdrawn(r) \/ Abandon(r) \/ SpendLost(r)
      PROVE  bid' = bid /\ req'[b].key = req[b].key
  <2>1. bid' = bid /\ \E pc \in Waiting \cup Over : Goto(r, pc)
    BY <1>4 DEF Spend, GivenBack, HoldRefused, Withdrawn, Abandon, SpendLost, Waiting, Over
  <2>2. req[r].kind # "none"
    BY <1>4 DEF BidsInv, RequestsAreAbout, Spend, GivenBack, HoldRefused, Withdrawn, Abandon,
                SpendLost, Waiting
  <2>3. QED
    BY <1>1, <1>3, <2>1, <2>2
<1>5. ASSUME NEW r \in Reqs, AmendBid(r) \/ MarkWithdrawn(r)
      PROVE  /\ \A c \in Reqs : bid'[c].status # "none" => bid[c].status # "none"
             /\ req'[b].key = req[b].key
  <2>1. /\ req[r].kind \in {"amend", "withdraw"} /\ req[r].ref \in Reqs
        /\ bid[req[r].ref].status # "none"
    BY <1>1, <1>5, ReqFields DEF AmendBid, MarkWithdrawn, BidsInv, RequestsAreAbout
  <2>2. \A c \in Reqs : c # req[r].ref => bid'[c] = bid[c]
    BY <1>1, <1>5, <2>1 DEF AmendBid, MarkWithdrawn
  <2>3. \E pc \in Waiting \cup Over : Goto(r, pc)
    BY <1>5 DEF AmendBid, MarkWithdrawn, Waiting, Over
  <2>4. \A c \in Reqs : bid'[c].status # "none" => bid[c].status # "none"
    BY <2>1, <2>2
  <2>5. QED
    BY <1>1, <1>3, <2>1, <2>3, <2>4
<1>6. ASSUME NEW r \in Reqs, CreateBid(r)
      PROVE  /\ req'[b].key = req[b].key
             /\ bid[b].status # "none" \/ Keyed(b, req[b].key) = {}
             /\ \A c \in Reqs \ {b} : bid'[c].status # "none" /\ bid[b].status = "none" =>
                  bid[c].status # "none"
  <2>1. req[r].kind = "place" /\ \E pc \in Waiting \cup Over : Goto(r, pc)
    BY <1>6 DEF CreateBid, Waiting, Over
  <2>2. \/ bid' = bid
        \/ /\ \A c \in Reqs : c # r => bid'[c] = bid[c]
           /\ Keyed(r, req[r].key) = {}
    BY <1>1, <1>6 DEF CreateBid
  <2>3. req[b].kind = "place"
    BY <1>1, <2>1, <2>2
  <2>4. QED
    BY <1>3, <2>1, <2>2, <2>3
<1>7. ASSUME NEW r \in Reqs, Handle(r) PROVE bid' = bid /\ req' = req
  BY <1>7 DEF Handle, auctionVars
<1>8. CASE CloseBidding
  BY <1>8 DEF CloseBidding
<1>9. QED
  BY <1>2, <1>4, <1>5, <1>6, <1>7, <1>8 DEF BidsNext, Serve

\* An idempotency key of an investor makes at most one bid (the unique index on the
\* account and the key, and what place does when the insert fails: bids.service.ts:70-103).
THEOREM OneKeyOneBid == BidsSpec => []OneBidPerKey
<1>1. BidsInit => OneBidPerKey
  BY DEF BidsInit, OneBidPerKey, NoBid
<1>2. BidsInv /\ OneBidPerKey /\ [BidsNext]_vars => OneBidPerKey'
  <2> SUFFICES ASSUME BidsInv, OneBidPerKey, [BidsNext]_vars,
                      NEW b \in Reqs, NEW c \in Reqs,
                      bid'[b].status # "none", bid'[c].status # "none",
                      InvestorOf[b] = InvestorOf[c],
                      req'[b].key = req'[c].key, req'[b].key # NoKey
               PROVE  b = c
    BY DEF OneBidPerKey
  <2>1. CASE UNCHANGED vars
    BY <2>1 DEF vars, OneBidPerKey
  <2>2. CASE BidsNext
    <3>1. /\ req'[b].key = req[b].key /\ req'[c].key = req[c].key
          /\ bid[b].status # "none" \/ Keyed(b, req[b].key) = {}
          /\ bid[c].status # "none" \/ Keyed(c, req[c].key) = {}
          /\ b # c => bid[b].status # "none" \/ bid[c].status # "none"
      BY <2>2, KeysKept
    <3>2. CASE bid[b].status # "none" /\ bid[c].status # "none"
      BY <3>1, <3>2 DEF OneBidPerKey
    <3>3. CASE bid[b].status # "none" /\ bid[c].status = "none"
      BY <3>1, <3>3 DEF Keyed
    <3>4. CASE bid[b].status = "none" /\ bid[c].status # "none"
      BY <3>1, <3>4 DEF Keyed
    <3>5. QED
      BY <3>1, <3>2, <3>3, <3>4
  <2>3. QED
    BY <2>1, <2>2
<1>3. QED
  BY <1>1, <1>2, BidsInvariant, PTL DEF BidsSpec

----------------------------------------------------------------------------
(* Gateway.tla: the matching of a batch with what BoT holds, then what its  *)
(* record and its announcements say, through amendments, faults and the     *)
(* overlap of all three.                                                    *)
BatchOf(sent, held) ==
  sent \in Seq(Faces) /\ held \in Seq(BotBids)

\* What the matching of the first n bids sent has done.
MatchedUpTo(m, n, sent, held) ==
  /\ m \in [left: SUBSET DOMAIN held, pairs: SUBSET ((1..n) \X DOMAIN held), missing: Seq(Faces)]
  /\ \A p \in m.pairs : held[p[2]].face = sent[p[1]]
  /\ \A p, r \in m.pairs : p[1] = r[1] <=> p[2] = r[2]
  /\ Theirs(m.pairs) = DOMAIN held \ m.left
  /\ m.missing = <<>> => Ours(m.pairs) = 1..n

MatchStart(held) == [left |-> DOMAIN held, pairs |-> {}, missing |-> <<>>]

\* A set of numbers that is not empty has a least, and Min finds it.
LEMMA HasLeast ==
  ASSUME NEW S, S # {}, S \subseteq Nat
  PROVE  \E x \in S : \A y \in S : x <= y
<1> DEFINE Below == {ss \in Nat \X Nat : ss[1] < ss[2]}
<1>1. IsWellFoundedOn(Below, Nat)
  BY NatLessThanWellFounded, Zenon DEF OpToRel
<1>2. PICK x \in S : \A y \in S : ~(<<y, x>> \in Below)
  <2> HIDE DEF Below
  <2>1. QED
    BY <1>1, WFMin, Zenon
<1>3. ASSUME NEW y \in S PROVE x <= y
  <2>1. y \in Nat /\ x \in Nat
    OBVIOUS
  <2>2. y < x => <<y, x>> \in Below
    BY <2>1
  <2> QED
    BY <1>2, <2>1, <2>2
<1> QED
  BY <1>3

LEMMA MinOf ==
  ASSUME NEW S, S # {}, S \subseteq Nat
  PROVE  Min(S) \in S
BY HasLeast, Zenon DEF Min

\* Nothing is matched yet; then one bid more.
LEMMA StartMatches ==
  ASSUME NEW sent, NEW held
  PROVE  MatchedUpTo(MatchStart(held), 0, sent, held)
BY DEF MatchedUpTo, MatchStart, Theirs, Ours

LEMMA OneMorePair ==
  ASSUME NEW pairs, NEW n, NEW q
  PROVE  /\ Theirs(pairs \cup {<<n, q>>}) = Theirs(pairs) \cup {q}
         /\ Ours(pairs \cup {<<n, q>>}) = Ours(pairs) \cup {n}
<1> DEFINE new == <<n, q>>
<1>1. new[1] = n /\ new[2] = q
  OBVIOUS
<1> HIDE DEF new
<1>2. Theirs(pairs \cup {new}) = Theirs(pairs) \cup {q}
  BY <1>1, Zenon DEF Theirs
<1>3. Ours(pairs \cup {new}) = Ours(pairs) \cup {n}
  BY <1>1, Zenon DEF Ours
<1> QED
  BY <1>2, <1>3 DEF new

LEMMA NextMatches ==
  ASSUME NEW sent, NEW held, BatchOf(sent, held), NEW n \in 1..Len(sent), NEW m,
         MatchedUpTo(m, n - 1, sent, held)
  PROVE  MatchedUpTo(MatchNext(m, n, sent, held), n, sent, held)
<1> DEFINE fit == {q \in m.left : held[q].face = sent[n]}
           q == Min(fit)
           k == MatchNext(m, n, sent, held)
<1>1. m \in [left: SUBSET DOMAIN held, pairs: SUBSET ((1..(n - 1)) \X DOMAIN held), missing: Seq(Faces)]
  BY DEF MatchedUpTo
<1>2. (1..(n - 1)) \X DOMAIN held \subseteq (1..n) \X DOMAIN held /\ n \notin 1..(n - 1) /\ 1..n = (1..(n - 1)) \cup {n}
  OBVIOUS
<1>3. sent[n] \in Faces /\ Len(sent) \in Nat /\ DOMAIN held \subseteq Nat
  BY DEF BatchOf
<1> SUFFICES MatchedUpTo(k, n, sent, held)
  OBVIOUS
<1>4. CASE fit = {}
  <2>1. k = [m EXCEPT !.missing = Append(@, sent[n])]
    BY <1>4 DEF MatchNext
  <2>2. k.left = m.left /\ k.pairs = m.pairs /\ k.missing = Append(m.missing, sent[n])
    BY <1>1, <2>1
  <2>3. k.missing \in Seq(Faces) /\ k.missing # <<>>
    BY <1>1, <1>3, <2>2
  <2>4. k \in [left: SUBSET DOMAIN held, pairs: SUBSET ((1..n) \X DOMAIN held), missing: Seq(Faces)]
    BY <1>1, <1>2, <2>1, <2>3
  <2> HIDE DEF k
  <2>5. /\ \A p \in m.pairs : held[p[2]].face = sent[p[1]]
        /\ \A p, r \in m.pairs : p[1] = r[1] <=> p[2] = r[2]
        /\ Theirs(m.pairs) = DOMAIN held \ m.left
    BY DEF MatchedUpTo
  <2> QED
    BY <2>2, <2>3, <2>4, <2>5, Zenon DEF MatchedUpTo
<1>5. CASE fit # {}
  <2>1. q \in m.left /\ held[q].face = sent[n] /\ q \in DOMAIN held
    <3>1. fit \subseteq Nat
      BY <1>1, <1>3
    <3> HIDE DEF fit
    <3>2. q \in fit
      BY <1>5, <3>1, MinOf
    <3> QED
      BY <3>2, <1>1 DEF fit
  <2>2. k = [m EXCEPT !.left = m.left \ {q}, !.pairs = m.pairs \cup {<<n, q>>}]
    BY <1>5 DEF MatchNext
  <2> HIDE DEF q
  <2>3. k.left = m.left \ {q} /\ k.pairs = m.pairs \cup {<<n, q>>} /\ k.missing = m.missing
    BY <1>1, <2>2
  <2>4. k \in [left: SUBSET DOMAIN held, pairs: SUBSET ((1..n) \X DOMAIN held), missing: Seq(Faces)]
    <3>1. <<n, q>> \in (1..n) \X DOMAIN held
      BY <2>1
    <3>2. m.left \ {q} \in SUBSET DOMAIN held
      BY <1>1
    <3>3. m.pairs \cup {<<n, q>>} \in SUBSET ((1..n) \X DOMAIN held)
      BY <1>1, <1>2, <3>1
    <3> HIDE DEF k
    <3> QED
      BY <1>1, <2>2, <3>2, <3>3
  <2> HIDE DEF k
  <2>5. \A p \in m.pairs : p[1] \in 1..(n - 1) /\ p[2] \in DOMAIN held /\ p[2] \notin m.left
    <3>1. \A p \in m.pairs : p[2] \in Theirs(m.pairs)
      BY DEF Theirs
    <3> QED
      BY <1>1, <3>1 DEF MatchedUpTo
  <2>6. \A p \in k.pairs : held[p[2]].face = sent[p[1]]
    BY <2>1, <2>3 DEF MatchedUpTo
  <2>7. \A p, r \in k.pairs : p[1] = r[1] <=> p[2] = r[2]
    BY <1>2, <2>1, <2>3, <2>5 DEF MatchedUpTo
  <2>8. Theirs(k.pairs) = Theirs(m.pairs) \cup {q} /\ Ours(k.pairs) = Ours(m.pairs) \cup {n}
    <3>1. /\ Theirs(m.pairs \cup {<<n, q>>}) = Theirs(m.pairs) \cup {q}
          /\ Ours(m.pairs \cup {<<n, q>>}) = Ours(m.pairs) \cup {n}
      BY OneMorePair
    <3>2. k.pairs = m.pairs \cup {<<n, q>>}
      BY <2>3
    <3> QED
      BY <3>1, <3>2, Zenon
  <2>9. Theirs(k.pairs) = DOMAIN held \ k.left
    <3>1. Theirs(m.pairs) = DOMAIN held \ m.left /\ m.left \subseteq DOMAIN held
      BY <1>1 DEF MatchedUpTo
    <3> QED
      BY <2>1, <2>3, <2>8, <3>1
  <2>10. k.missing = <<>> => Ours(k.pairs) = 1..n
    BY <1>2, <2>3, <2>8 DEF MatchedUpTo
  <2> QED
    BY <2>4, <2>6, <2>7, <2>9, <2>10, Zenon DEF MatchedUpTo
<1> QED
  BY <1>4, <1>5

MatchesTo(f, N, sent, held) ==
  f = [n \in 0..N |-> IF n = 0 THEN MatchStart(held) ELSE MatchNext(f[n - 1], n, sent, held)]

\* The recursive definition of the matching does define it.
LEMMA MatchingExists ==
  ASSUME NEW sent, NEW held, NEW N \in Nat
  PROVE  \E f : MatchesTo(f, N, sent, held)
<1> DEFINE bad == {n \in Nat : ~\E f : MatchesTo(f, n, sent, held)}
<1>1. SUFFICES ASSUME bad # {} PROVE FALSE
  OBVIOUS
<1>2. PICK n \in bad : \A y \in bad : n <= y
  <2>1. bad \subseteq Nat
    OBVIOUS
  <2> HIDE DEF bad
  <2> QED
    BY <1>1, <2>1, HasLeast
<1>3. CASE n = 0
  <2>1. MatchesTo([k \in 0..0 |-> MatchStart(held)], 0, sent, held)
    BY DEF MatchesTo
  <2> QED
    BY <1>2, <1>3, <2>1
<1>4. CASE n # 0
  <2>1. n - 1 \in Nat /\ n - 1 \notin bad
    BY <1>2, <1>4
  <2>2. PICK f : MatchesTo(f, n - 1, sent, held)
    BY <2>1
  <2> DEFINE g == [k \in 0..n |-> IF k = 0 THEN MatchStart(held) ELSE MatchNext(f[k - 1], k, sent, held)]
  <2>3. \A k \in 0..(n - 1) : g[k] = f[k]
    BY <1>2, <2>2 DEF MatchesTo
  <2>4. \A k \in 0..n : k # 0 => k - 1 \in 0..(n - 1)
    BY <1>2
  <2>5. MatchesTo(g, n, sent, held)
    BY <2>3, <2>4 DEF MatchesTo
  <2> QED
    BY <1>2, <2>5
<1> QED
  BY <1>3, <1>4

\* What matching a batch with what BoT holds gives.
LEMMA MatchingIs ==
  ASSUME NEW sent, NEW held, BatchOf(sent, held)
  PROVE  MatchedUpTo(Matching(sent, held), Len(sent), sent, held)
<1> DEFINE f == CHOOSE g : MatchesTo(g, Len(sent), sent, held)
<1>1. Len(sent) \in Nat
  BY DEF BatchOf
<1>2. MatchesTo(f, Len(sent), sent, held)
  BY <1>1, MatchingExists
<1>3. Matching(sent, held) = f[Len(sent)]
  BY DEF Matching, MatchesTo, MatchStart
<1> HIDE DEF f
<1> DEFINE bad == {n \in 0..Len(sent) : ~MatchedUpTo(f[n], n, sent, held)}
<1>4. SUFFICES ASSUME bad # {} PROVE FALSE
  BY <1>1, <1>3
<1>5. PICK n \in bad : \A y \in bad : n <= y
  <2>1. bad \subseteq Nat
    BY <1>1
  <2> HIDE DEF bad
  <2> QED
    BY <1>4, <2>1, HasLeast
<1>6. CASE n = 0
  <2>1. f[n] = MatchStart(held)
    BY <1>1, <1>2, <1>6 DEF MatchesTo
  <2> QED
    BY <1>5, <1>6, <2>1, StartMatches
<1>7. CASE n # 0
  <2>1. n \in 1..Len(sent) /\ n - 1 \in 0..Len(sent) /\ n - 1 \notin bad
    BY <1>1, <1>5, <1>7
  <2>2. MatchedUpTo(f[n - 1], n - 1, sent, held)
    BY <2>1
  <2>3. f[n] = MatchNext(f[n - 1], n, sent, held)
    BY <1>2, <1>7, <2>1 DEF MatchesTo
  <2> QED
    BY <1>5, <2>1, <2>2, <2>3, NextMatches
<1> QED
  BY <1>6, <1>7

----------------------------------------------------------------------------
\* The first n numbers are n.
LEMMA UpTo ==
  ASSUME NEW n \in Nat
  PROVE  IsFiniteSet(1..n) /\ Cardinality(1..n) = n
<1>1. 1 \in Int /\ n \in Int
  OBVIOUS
<1>2. Cardinality(1..n) = IF 1 > n THEN 0 ELSE n - 1 + 1
  BY <1>1, FS_Interval
<1> QED
  BY <1>1, <1>2, FS_Interval

\* What is paired off is as many.
LEMMA AsMany ==
  ASSUME NEW S, NEW T, IsFiniteSet(S), NEW f \in [S -> T],
         \A x, y \in S : f[x] = f[y] => x = y,
         \A t \in T : \E x \in S : f[x] = t
  PROVE  Cardinality(T) = Cardinality(S)
<1>1. f \in Bijection(S, T)
  BY Zenon DEF Bijection, Injection, Surjection, IsInjective
<1>2. ExistsBijection(S, T)
  BY <1>1, Zenon DEF ExistsBijection
<1> QED
  BY <1>2, FS_Bijection

\* What an outcome says of a batch.
LEMMA OutcomeFacts ==
  ASSUME NEW sent, NEW held, BatchOf(sent, held)
  PROVE  /\ MatchBatch(sent, held) \in Outcomes
         /\ OneToOne(MatchBatch(sent, held))
         /\ MatchBatch(sent, held).status = "matched" => HeldAs(sent, held)
<1> DEFINE m == Matching(sent, held)
           o == MatchBatch(sent, held)
           rejected == {<<q, held[q].face>> : q \in {q \in Theirs(m.pairs) : held[q].action = "rejected"}}
           unexpected == {<<q, held[q].face>> : q \in m.left}
           status == IF m.missing = <<>> /\ rejected = {} /\ unexpected = {} THEN "matched" ELSE "breaks"
<1>1. MatchedUpTo(m, Len(sent), sent, held)
  BY MatchingIs
<1>2. m \in [left: SUBSET DOMAIN held, pairs: SUBSET ((1..Len(sent)) \X DOMAIN held), missing: Seq(Faces)]
  BY <1>1 DEF MatchedUpTo
<1>3. o = [status |-> status, pairs |-> m.pairs, missing |-> m.missing,
           rejected |-> rejected, unexpected |-> unexpected]
  BY DEF MatchBatch
<1>4. /\ Len(sent) \in Nat /\ DOMAIN sent = 1..Len(sent)
      /\ \A n \in DOMAIN sent : sent[n] \in Faces
      /\ DOMAIN held \subseteq Nat
      /\ \A q \in DOMAIN held : held[q].face \in Faces
      /\ Len(held) \in Nat /\ DOMAIN held = 1..Len(held)
  <2>1. sent \in Seq(Faces) /\ held \in Seq(BotBids)
    BY DEF BatchOf
  <2>2. \A q \in DOMAIN held : held[q] \in BotBids
    BY <2>1
  <2>3. \A q \in DOMAIN held : held[q].face \in Faces
    BY <2>2 DEF BotBids
  <2> QED
    BY <2>1, <2>3
<1>5. Theirs(m.pairs) = DOMAIN held \ m.left
  BY <1>1 DEF MatchedUpTo
<1>6. o \in Outcomes
  <2>1. m.pairs \in SUBSET (Nat \X Nat)
    BY <1>2, <1>4
  <2>2. rejected \in SUBSET (Nat \X Faces)
    BY <1>4, <1>5
  <2>3. unexpected \in SUBSET (Nat \X Faces)
    BY <1>2, <1>4
  <2>4. m.missing \in Seq(Faces) /\ status \in {"matched", "breaks"}
    BY <1>2
  <2> HIDE DEF m, o, rejected, unexpected, status
  <2> QED
    BY <1>3, <2>1, <2>2, <2>3, <2>4 DEF Outcomes
<1>7. o.pairs = m.pairs /\ o.status = status
  <2> HIDE DEF m, o, rejected, unexpected, status
  <2> QED
    BY <1>3
<1>8. \A p, r \in o.pairs : p[1] = r[1] <=> p[2] = r[2]
  BY <1>1, <1>7, Zenon DEF MatchedUpTo
<1>9. ASSUME o.status = "matched"
      PROVE  Ours(m.pairs) = DOMAIN sent /\ Theirs(m.pairs) = DOMAIN held
  <2>1. m.missing = <<>> /\ unexpected = {}
    <3> HIDE DEF m, o, rejected, unexpected
    <3> QED
      BY <1>7, <1>9
  <2>2. m.left = {}
    <3> HIDE DEF m
    <3> QED
      BY <2>1
  <2> QED
    BY <1>1, <1>4, <1>5, <2>1, <2>2 DEF MatchedUpTo
<1> HIDE DEF m, o, rejected, unexpected, status
<1> DEFINE twin == [n \in DOMAIN sent |-> CHOOSE q \in DOMAIN held : <<n, q>> \in m.pairs]
<1>10. ASSUME o.status = "matched"
       PROVE  \A n \in DOMAIN sent : twin[n] \in DOMAIN held /\ <<n, twin[n]>> \in m.pairs
  <2>1. \A n \in DOMAIN sent : \E p \in m.pairs : p[1] = n
    BY <1>9, <1>10 DEF Ours
  <2>2. \A n \in DOMAIN sent : \E q \in DOMAIN held : <<n, q>> \in m.pairs
    BY <1>2, <2>1
  <2> QED
    BY <2>2
<1>11. ASSUME o.status = "matched"
       PROVE  /\ twin \in [DOMAIN sent -> DOMAIN held]
              /\ \A i, n \in DOMAIN sent : twin[i] = twin[n] => i = n
              /\ \A q \in DOMAIN held : \E n \in DOMAIN sent : twin[n] = q
              /\ \A n \in DOMAIN sent : held[twin[n]].face = sent[n]
  <2>1. \A n \in DOMAIN sent : twin[n] \in DOMAIN held /\ <<n, twin[n]>> \in m.pairs
    BY <1>10, <1>11
  <2>2. twin \in [DOMAIN sent -> DOMAIN held]
    BY <2>1
  <2> HIDE DEF twin
  <2>3. \A p, r \in m.pairs : p[1] = r[1] <=> p[2] = r[2]
    BY <1>1 DEF MatchedUpTo
  <2>4. \A p \in m.pairs : held[p[2]].face = sent[p[1]]
    BY <1>1 DEF MatchedUpTo
  <2>5. \A i, n \in DOMAIN sent : twin[i] = twin[n] => i = n
    BY <2>1, <2>3
  <2>6. \A n \in DOMAIN sent : held[twin[n]].face = sent[n]
    BY <2>1, <2>4
  <2>7. ASSUME NEW q \in DOMAIN held
        PROVE  \E n \in DOMAIN sent : twin[n] = q
    <3>1. PICK p \in m.pairs : p[2] = q
      BY <1>9, <1>11 DEF Theirs
    <3>2. p[1] \in DOMAIN sent
      BY <1>2, <1>4, <3>1
    <3>3. <<p[1], twin[p[1]]>> \in m.pairs
      BY <2>1, <3>2
    <3> DEFINE r == <<p[1], twin[p[1]]>>
    <3>4. r[1] = p[1] /\ r[2] = twin[p[1]]
      OBVIOUS
    <3>5. r[2] = p[2]
      BY <2>3, <3>1, <3>3, <3>4
    <3> QED
      BY <3>1, <3>2, <3>4, <3>5
  <2> QED
    BY <2>2, <2>5, <2>6, <2>7
<1>12. ASSUME o.status = "matched"
       PROVE  Len(sent) = Len(held)
  <2>1. Cardinality(1..Len(sent)) = Cardinality(1..Len(held))
    <3> HIDE DEF twin
    <3>1. IsFiniteSet(DOMAIN sent)
      BY <1>4, UpTo
    <3> QED
      <4>1. /\ twin \in [DOMAIN sent -> DOMAIN held]
            /\ \A i, n \in DOMAIN sent : twin[i] = twin[n] => i = n
            /\ \A q \in DOMAIN held : \E n \in DOMAIN sent : twin[n] = q
        BY <1>11, <1>12
      <4>2. Cardinality(DOMAIN held) = Cardinality(DOMAIN sent)
        BY <3>1, <4>1, AsMany
      <4> QED
        BY <1>4, <4>2
  <2> QED
    <3>1. Cardinality(1..Len(sent)) = Len(sent) /\ Cardinality(1..Len(held)) = Len(held)
      BY <1>4, UpTo
    <3> QED
      BY <2>1, <3>1
<1>13. OneToOne(o)
  BY <1>4, <1>7, <1>8, <1>9, <1>12 DEF OneToOne
<1>14. o.status = "matched" => HeldAs(sent, held)
  <2> HIDE DEF twin
  <2> QED
    BY <1>11, Zenon DEF HeldAs
<1> QED
  BY <1>6, <1>14, <1>13 DEF o



Runs == GatewayTypeOK /\ RunsOnRecord

LEMMA NoneIsNone ==
  None \notin Packages /\ None \notin Submissions /\ None \notin Seq(BotBids)
BY GatewayAssumption, Zenon

LEMMA GatewayInitRuns == GatewayInit => Runs
BY GatewayAssumption DEF GatewayInit, BankInit, Runs, GatewayTypeOK, RunsOnRecord, Requests,
   Amendments, Reads, Idle

\* What the reconciler holds, and an amendment in flight.
LEMMA ReadIs ==
  ASSUME GatewayTypeOK
  PROVE  /\ reconcile.pc = "fetch" =>
              reconcile.sent \in Seq(Faces) /\ reconcile # Idle
         /\ reconcile.pc = "save" =>
              reconcile.sent \in Seq(Faces) /\ reconcile.outcome \in Outcomes /\ reconcile # Idle
BY DEF GatewayTypeOK, Reads, Idle

LEMMA AmendIs ==
  ASSUME GatewayTypeOK, NEW a \in Amends, amend[a].pc \in {"ask", "note"}
  PROVE  /\ amend[a] \in [pc: {"ask", "note"}, q: Requests, was: Faces, face: Faces]
         /\ amend[a].q \in Requests /\ amend[a].was \in Faces /\ amend[a].face \in Faces
BY DEF GatewayTypeOK, Amendments, Idle

LEMMA BidIs ==
  ASSUME GatewayTypeOK, NEW q \in Requests
  PROVE  /\ atBot # None /\ Requests = DOMAIN atBot /\ atBot \in Seq(BotBids)
         /\ atBot[q].face \in Faces
<1>1. atBot # None /\ Requests = DOMAIN atBot /\ atBot \in Seq(BotBids)
  BY DEF GatewayTypeOK, Requests
<1>2. atBot[q] \in BotBids
  BY <1>1
<1> QED
  BY <1>1, <1>2 DEF BotBids

\* Of the bids at BoT, no step but their reception changes how many there are.
LEMMA SameRequests ==
  ASSUME GatewayTypeOK, atBot' # None, atBot # None, DOMAIN atBot' = DOMAIN atBot
  PROVE  Requests' = Requests
BY DEF Requests

\* Each step leaves the rows of their type, and every run of the reconciler on a record.
LEMMA SendRuns ==
  ASSUME Runs, NEW p \in Packages, Send(p)
  PROVE  Runs'
<1>1. /\ atBot' \in Seq(BotBids) /\ atBot' # None
      /\ Requests \subseteq Requests'
  <2>1. CASE atBot = None
    <3>1. p \in Seq(Faces)
      BY GatewayAssumption
    <3>2. atBot' = [n \in DOMAIN p |-> [face |-> p[n], action |-> "initiated", won |-> FALSE]]
      BY <2>1 DEF Send, BankTakes
    <3>3. atBot' \in Seq(BotBids)
      <4>1. Len(p) \in Nat /\ DOMAIN p = 1..Len(p) /\ \A n \in DOMAIN p : p[n] \in Faces
        BY <3>1
      <4>2. \A n \in DOMAIN p : [face |-> p[n], action |-> "initiated", won |-> FALSE] \in BotBids
        BY <4>1 DEF BotBids
      <4>3. atBot' \in [1..Len(p) -> BotBids]
        BY <3>2, <4>1, <4>2
      <4> QED
        BY <4>1, <4>3
    <3>4. Requests = {}
      BY <2>1 DEF Requests
    <3>5. atBot' # None
      BY <3>3, NoneIsNone, Zenon
    <3> QED
      BY <3>3, <3>4, <3>5
  <2>2. CASE atBot # None
    BY <2>2 DEF Send, BankTakes, Runs, GatewayTypeOK, Requests
  <2> QED
    BY <2>1, <2>2
<1>2. /\ sending' = p /\ record = None /\ record' = None /\ told' = told /\ reconcile' = reconcile
      /\ amend' = amend /\ asked' = asked /\ callbacks' = callbacks /\ overtaken' = overtaken
  BY DEF Send, BankTakes, store, work
<1>3. amend \in [Amends -> Amendments']
  BY <1>1 DEF Runs, GatewayTypeOK, Amendments
<1>4. GatewayTypeOK'
  BY <1>1, <1>2, <1>3 DEF Runs, GatewayTypeOK, Reads, Idle
<1>5. RunsOnRecord'
  BY <1>1, <1>2 DEF Runs, RunsOnRecord
<1> QED
  BY <1>4, <1>5 DEF Runs

LEMMA RecordBatchRuns ==
  ASSUME Runs, RecordBatch
  PROVE  Runs'
<1>1. /\ sending # None /\ sending' = None /\ told' = told /\ reconcile' = reconcile
      /\ atBot' = atBot /\ Requests' = Requests
      /\ amend' = amend /\ asked' = asked /\ callbacks' = callbacks /\ overtaken' = overtaken
      /\ record' = [sent |-> sending, status |-> "pending", attempts |-> 0, outcome |-> None]
  BY DEF RecordBatch, bank, work, Requests
<1>2. record' \in Submissions
  BY <1>1, GatewayAssumption DEF Submissions, Runs, GatewayTypeOK
<1>3. GatewayTypeOK'
  BY <1>1, <1>2 DEF Runs, GatewayTypeOK, Reads, Idle, Amendments
<1>4. RunsOnRecord'
  BY <1>1 DEF Runs, RunsOnRecord
<1> QED
  BY <1>3, <1>4 DEF Runs

LEMMA SenderDiesRuns ==
  ASSUME Runs, SenderDies
  PROVE  Runs'
<1>1. /\ sending' = None /\ told' = told /\ reconcile' = reconcile /\ record' = record
      /\ atBot' = atBot /\ Requests' = Requests
      /\ amend' = amend /\ asked' = asked /\ callbacks' = callbacks /\ overtaken' = overtaken
  BY DEF SenderDies, bank, work, Requests
<1>2. GatewayTypeOK'
  BY <1>1 DEF Runs, GatewayTypeOK, Reads, Idle, Amendments
<1>3. RunsOnRecord'
  BY <1>1 DEF Runs, RunsOnRecord
<1> QED
  BY <1>2, <1>3 DEF Runs

\* What the reconciler changes, of all this, is the record, what was told and itself.
LEMMA ReconcilerFrame ==
  ASSUME GatewayTypeOK, UNCHANGED <<sending, atBot, asked, callbacks, amend>>,
         record' \in Submissions \cup {None}, told' \in Seq(Outcomes), reconcile' \in Reads
  PROVE  GatewayTypeOK'
<1>1. Requests' = Requests
  BY DEF Requests
<1>2. Amendments' = Amendments /\ Reads' = Reads
  BY <1>1 DEF Amendments, Reads, Idle
<1> QED
  BY <1>1, <1>2 DEF GatewayTypeOK

LEMMA ReadPendingRuns ==
  ASSUME Runs, ReadPending
  PROVE  Runs'
<1>1. /\ reconcile' = [pc |-> "fetch", sent |-> record.sent] /\ overtaken' = FALSE
      /\ record # None /\ record.attempts < MaxAttempts /\ reconcile = Idle
      /\ UNCHANGED <<sending, atBot, asked, callbacks, amend, record, told>>
  BY DEF ReadPending, bank, store
<1>2. record \in Submissions
  BY <1>1 DEF Runs, GatewayTypeOK
<1>3. reconcile' \in Reads
  BY <1>1, <1>2 DEF Reads, Submissions
<1>4. GatewayTypeOK'
  BY <1>1, <1>3, ReconcilerFrame DEF Runs, GatewayTypeOK
<1>5. reconcile'.sent = record.sent
  BY <1>1
<1>6. RunsOnRecord'
  BY <1>1, <1>5 DEF Runs, RunsOnRecord
<1> QED
  BY <1>4, <1>6 DEF Runs

LEMMA ReadBackRuns ==
  ASSUME Runs, ReadBack
  PROVE  /\ Runs'
         /\ OneToOne(reconcile'.outcome)
         /\ reconcile'.outcome.status = "matched" => HeldAs(reconcile'.sent, atBot)
<1> DEFINE o == MatchBatch(reconcile.sent, atBot)
<1>1. /\ reconcile.pc = "fetch" /\ reconcile # Idle /\ reconcile.sent \in Seq(Faces)
      /\ reconcile' = [pc |-> "save", sent |-> reconcile.sent, outcome |-> o]
      /\ UNCHANGED <<sending, atBot, asked, callbacks, amend, record, told, overtaken>>
  BY ReadIs DEF ReadBack, bank, store, Runs
<1>2. atBot \in Seq(BotBids)
  BY <1>1 DEF Runs, RunsOnRecord, GatewayTypeOK
<1>3. o \in Outcomes /\ OneToOne(o) /\ (o.status = "matched" => HeldAs(reconcile.sent, atBot))
  BY <1>1, <1>2, OutcomeFacts DEF BatchOf
<1> HIDE DEF o
<1>4. reconcile'.sent = reconcile.sent /\ reconcile'.outcome = o /\ reconcile' \in Reads
  BY <1>1, <1>3 DEF Reads
<1>5. GatewayTypeOK'
  BY <1>1, <1>4, ReconcilerFrame DEF Runs, GatewayTypeOK
<1>6. RunsOnRecord'
  BY <1>1, <1>4 DEF Runs, RunsOnRecord
<1> QED
  BY <1>3, <1>4, <1>5, <1>6 DEF Runs

LEMMA SaveResultRuns ==
  ASSUME Runs, SaveResult
  PROVE  /\ Runs' /\ record' \in Submissions
         /\ record'.sent = record.sent /\ record'.status = reconcile.outcome.status
         /\ record'.outcome = reconcile.outcome
         /\ \/ told' = told /\ \E n \in DOMAIN told : Fingerprint(told[n]) = Fingerprint(reconcile.outcome)
            \/ told' = Append(told, reconcile.outcome)
<1> DEFINE o == reconcile.outcome
<1>1. /\ reconcile.pc = "save" /\ reconcile # Idle /\ o \in Outcomes /\ reconcile' = Idle
      /\ record' = [record EXCEPT !.status = o.status, !.attempts = @ + 1, !.outcome = o]
      /\ told' = IF \E n \in DOMAIN told : Fingerprint(told[n]) = Fingerprint(o) THEN told ELSE Append(told, o)
      /\ UNCHANGED <<sending, atBot, asked, callbacks, amend, overtaken>>
  BY ReadIs DEF SaveResult, SaveResultBy, bank, Runs
<1>2. record \in Submissions /\ record # None /\ record.attempts < MaxAttempts
  BY <1>1 DEF Runs, RunsOnRecord, GatewayTypeOK
<1>3. o.status \in {"matched", "breaks"}
  BY <1>1 DEF Outcomes
<1> HIDE DEF o
<1>4. /\ record' \in Submissions
      /\ record'.sent = record.sent /\ record'.status = o.status /\ record'.outcome = o
  <2>1. /\ record \in [sent: Seq(Faces), status: {"pending", "matched", "breaks"},
                        attempts: 0..MaxAttempts, outcome: Outcomes \cup {None}]
        /\ MaxAttempts \in Nat
    BY <1>2, GatewayAssumption DEF Submissions
  <2>2. record.attempts + 1 \in 0..MaxAttempts
    BY <1>2, <2>1
  <2>3. record' \in [sent: Seq(Faces), status: {"pending", "matched", "breaks"},
                     attempts: 0..MaxAttempts, outcome: Outcomes \cup {None}]
    BY <1>1, <1>3, <2>1, <2>2
  <2>4. record'.sent = record.sent /\ record'.status = o.status /\ record'.outcome = o
    BY <1>1, <2>1
  <2> QED
    BY <2>3, <2>4 DEF Submissions
<1>5. told' \in Seq(Outcomes)
  BY <1>1 DEF Runs, GatewayTypeOK
<1>6. GatewayTypeOK'
  BY <1>1, <1>4, <1>5, ReconcilerFrame DEF Runs, Reads
<1>7. RunsOnRecord'
  BY <1>1, <1>2, <1>4, GatewayAssumption DEF Runs, RunsOnRecord
<1> QED
  BY <1>1, <1>4, <1>6, <1>7 DEF Runs, o

LEMMA ReconcileDiesRuns ==
  ASSUME Runs, ReconcileDies
  PROVE  Runs'
<1>1. /\ reconcile' = Idle
      /\ UNCHANGED <<sending, atBot, asked, callbacks, amend, record, told, overtaken>>
  BY DEF ReconcileDies, bank, store
<1>2. GatewayTypeOK'
  BY <1>1, ReconcilerFrame DEF Runs, GatewayTypeOK, Reads
<1>3. RunsOnRecord'
  BY <1>1 DEF Runs, RunsOnRecord
<1> QED
  BY <1>2, <1>3 DEF Runs

\* What an amendment changes, of all this, is its own row, what BoT is asked and the record.
LEMMA AmendmentFrame ==
  ASSUME GatewayTypeOK, UNCHANGED <<sending, told, reconcile, atBot, callbacks>>,
         record' \in Submissions \cup {None},
         asked' \subseteq [q: Requests, face: Faces],
         amend' \in [Amends -> Amendments]
  PROVE  GatewayTypeOK'
<1>1. Requests' = Requests
  BY DEF Requests
<1>2. Amendments' = Amendments /\ Reads' = Reads
  BY <1>1 DEF Amendments, Reads, Idle
<1> QED
  BY <1>1, <1>2 DEF GatewayTypeOK

LEMMA AmendReadRuns ==
  ASSUME Runs, NEW a \in Amends, NEW q \in Requests, NEW face \in Faces, AmendRead(a, q, face)
  PROVE  Runs'
<1>1. /\ amend' = [amend EXCEPT ![a] = [pc |-> "ask", q |-> q, was |-> atBot[q].face, face |-> face]]
      /\ UNCHANGED <<sending, told, reconcile, atBot, callbacks, record, asked, overtaken>>
  BY DEF AmendRead, bank, store
<1>2. atBot[q].face \in Faces
  BY BidIs DEF Runs
<1>3. amend' \in [Amends -> Amendments]
  BY <1>1, <1>2 DEF Runs, GatewayTypeOK, Amendments
<1>4. GatewayTypeOK'
  BY <1>1, <1>3, AmendmentFrame DEF Runs, GatewayTypeOK
<1>5. RunsOnRecord'
  BY <1>1 DEF Runs, RunsOnRecord
<1> QED
  BY <1>4, <1>5 DEF Runs

\* BoT is asked, or refuses to be.
LEMMA AskFacts ==
  ASSUME GatewayTypeOK, NEW a \in Amends, amend[a].pc = "ask",
         BankIsAsked(amend[a].q, amend[a].face) \/ UNCHANGED bank
  PROVE  /\ asked' \subseteq [q: Requests, face: Faces]
         /\ UNCHANGED <<atBot, callbacks>>
<1>1. amend[a].q \in Requests /\ amend[a].face \in Faces
  BY AmendIs
<1>2. [q |-> amend[a].q, face |-> amend[a].face] \in [q: Requests, face: Faces]
  BY <1>1
<1> QED
  BY <1>2 DEF GatewayTypeOK, BankIsAsked, bank

\* An amendment that moves on to be noted, or is over.
LEMMA MovesOn ==
  ASSUME GatewayTypeOK, NEW a \in Amends, amend[a].pc \in {"ask", "note"},
         \/ amend' = [amend EXCEPT ![a].pc = "note"]
         \/ amend' = [amend EXCEPT ![a] = [pc |-> "done"]]
  PROVE  /\ amend' \in [Amends -> Amendments]
         /\ \A b \in Amends : b # a => amend'[b] = amend[b]
         /\ \/ /\ amend'[a].pc = "note" /\ amend'[a].q = amend[a].q
               /\ amend'[a].was = amend[a].was /\ amend'[a].face = amend[a].face
            \/ amend'[a].pc = "done"
<1>1. amend \in [Amends -> Amendments]
  BY DEF GatewayTypeOK
<1>2. amend[a] \in [pc: {"ask", "note"}, q: Requests, was: Faces, face: Faces]
  BY AmendIs
<1>3. CASE amend' = [amend EXCEPT ![a].pc = "note"]
  <2>1. amend' = [amend EXCEPT ![a] = [amend[a] EXCEPT !.pc = "note"]]
    BY <1>3
  <2>2. [amend[a] EXCEPT !.pc = "note"] \in [pc: {"ask", "note"}, q: Requests, was: Faces, face: Faces]
    BY <1>2
  <2>3. amend'[a] = [amend[a] EXCEPT !.pc = "note"] /\ \A b \in Amends : b # a => amend'[b] = amend[b]
    BY <1>1, <2>1
  <2>4. amend' \in [Amends -> Amendments]
    BY <1>1, <2>1, <2>2 DEF Amendments
  <2> QED
    BY <1>2, <2>3, <2>4
<1>4. CASE amend' = [amend EXCEPT ![a] = [pc |-> "done"]]
  BY <1>1, <1>4 DEF Amendments
<1> QED
  BY <1>3, <1>4

LEMMA AmendAskRuns ==
  ASSUME Runs, NEW a \in Amends, AmendAsk(a)
  PROVE  Runs'
<1>1. /\ UNCHANGED <<sending, told, reconcile, record, overtaken>>
      /\ amend[a].pc = "ask"
      /\ \/ amend' = [amend EXCEPT ![a].pc = "note"]
         \/ amend' = [amend EXCEPT ![a] = [pc |-> "done"]]
      /\ BankIsAsked(amend[a].q, amend[a].face) \/ UNCHANGED bank
  BY DEF AmendAsk, store
<1>2. amend' \in [Amends -> Amendments]
  BY <1>1, MovesOn DEF Runs
<1>3. asked' \subseteq [q: Requests, face: Faces] /\ UNCHANGED <<atBot, callbacks>>
  BY <1>1, AskFacts DEF Runs
<1>4. GatewayTypeOK'
  BY <1>1, <1>2, <1>3, AmendmentFrame DEF Runs, GatewayTypeOK
<1>5. RunsOnRecord'
  BY <1>1, <1>3 DEF Runs, RunsOnRecord
<1> QED
  BY <1>4, <1>5 DEF Runs

LEMMA AmendCutRuns ==
  ASSUME Runs, NEW a \in Amends, AmendCut(a)
  PROVE  Runs'
<1>1. /\ UNCHANGED <<sending, told, reconcile, record, overtaken>>
      /\ amend[a].pc \in {"ask", "note"}
      /\ amend' = [amend EXCEPT ![a] = [pc |-> "done"]]
  BY DEF AmendCut, store
<1>0. UNCHANGED bank \/ (amend[a].pc = "ask" /\ BankIsAsked(amend[a].q, amend[a].face))
  BY DEF AmendCut
<1>2. amend' \in [Amends -> Amendments]
  <2>1. GatewayTypeOK
    BY DEF Runs
  <2> QED
    BY <1>1, <2>1, MovesOn
<1>3. asked' \subseteq [q: Requests, face: Faces] /\ UNCHANGED <<atBot, callbacks>>
  BY <1>0, <1>1, AskFacts DEF Runs, bank, GatewayTypeOK
<1>4. GatewayTypeOK'
  BY <1>1, <1>2, <1>3, AmendmentFrame DEF Runs, GatewayTypeOK
<1>5. RunsOnRecord'
  BY <1>1, <1>3 DEF Runs, RunsOnRecord
<1> QED
  BY <1>4, <1>5 DEF Runs

LEMMA NotedBids ==
  ASSUME NEW sent \in Seq(Faces), NEW n, NEW face \in Faces
  PROVE  [sent EXCEPT ![n] = face] \in Seq(Faces)
<1>1. Len(sent) \in Nat /\ DOMAIN sent = 1..Len(sent) /\ sent \in [1..Len(sent) -> Faces]
  OBVIOUS
<1>2. [sent EXCEPT ![n] = face] \in [1..Len(sent) -> Faces]
  BY <1>1
<1> QED
  BY <1>1, <1>2

\* The note of an amendment in the record.
LEMMA NoteFacts ==
  ASSUME Runs, NEW a \in Amends, AmendNote(a)
  PROVE  /\ amend[a].pc = "note" /\ amend' = [amend EXCEPT ![a] = [pc |-> "done"]]
         /\ UNCHANGED <<sending, told, reconcile, atBot, callbacks, asked>> /\ overtaken' = TRUE
         /\ \/ (record = None \/ Candidates(a) = {}) /\ record' = record
            \/ /\ record \in Submissions /\ record' \in Submissions
               /\ record'.outcome = record.outcome /\ record'.attempts = record.attempts
               /\ record'.status = "pending"
               /\ \E n \in Candidates(a) :
                    /\ n = Min(Candidates(a))
                    /\ record'.sent = [record.sent EXCEPT ![n] = amend[a].face]
<1>1. /\ amend[a].pc = "note" /\ amend' = [amend EXCEPT ![a] = [pc |-> "done"]]
      /\ UNCHANGED <<sending, told, reconcile, atBot, callbacks, asked>> /\ overtaken' = TRUE
      /\ record' = IF record = None \/ Candidates(a) = {} THEN record
                   ELSE [record EXCEPT !.sent[Min(Candidates(a))] = amend[a].face, !.status = "pending"]
  BY DEF AmendNote, AmendNoteWith, bank
<1>2. CASE record = None \/ Candidates(a) = {}
  BY <1>1, <1>2
<1>3. CASE ~(record = None \/ Candidates(a) = {})
  <2> DEFINE n == Min(Candidates(a))
             s == [record.sent EXCEPT ![n] = amend[a].face]
  <2>1. record \in Submissions
    BY <1>3 DEF Runs, GatewayTypeOK
  <2>2. record.sent \in Seq(Faces)
    BY <2>1 DEF Submissions
  <2>3. n \in Candidates(a)
    <3>1. Candidates(a) \subseteq Nat
      BY <2>2 DEF Candidates
    <3> QED
      BY <1>3, <3>1, MinOf
  <2>4. s \in Seq(Faces)
    <3>1. GatewayTypeOK /\ amend[a].pc \in {"ask", "note"}
      BY <1>1 DEF Runs
    <3>2. amend[a].face \in Faces
      BY <3>1, AmendIs
    <3> QED
      BY <2>2, <3>2, NotedBids
  <2>5. record' = [record EXCEPT !.sent = s, !.status = "pending"]
    BY <1>1, <1>3
  <2> HIDE DEF n, s
  <2>6. /\ record' \in Submissions /\ record'.sent = s /\ record'.status = "pending"
        /\ record'.outcome = record.outcome /\ record'.attempts = record.attempts
    BY <2>1, <2>4, <2>5 DEF Submissions
  <2> QED
    BY <1>1, <2>1, <2>3, <2>6 DEF n, s
<1> QED
  BY <1>2, <1>3

LEMMA AmendNoteRuns ==
  ASSUME Runs, NEW a \in Amends, AmendNote(a)
  PROVE  Runs'
<1>1. /\ amend[a].pc = "note" /\ amend' = [amend EXCEPT ![a] = [pc |-> "done"]]
      /\ UNCHANGED <<sending, told, reconcile, atBot, callbacks, asked>> /\ overtaken' = TRUE
      /\ \/ record' = record
         \/ /\ record \in Submissions /\ record' \in Submissions
            /\ record'.attempts = record.attempts
  BY NoteFacts
<1>2. amend' \in [Amends -> Amendments]
  BY <1>1, MovesOn DEF Runs
<1>3. record' \in Submissions \cup {None} /\ (record = None <=> record' = None)
      /\ (record # None => record'.attempts = record.attempts)
  BY <1>1, NoneIsNone DEF Runs, GatewayTypeOK
<1>4. GatewayTypeOK'
  BY <1>1, <1>2, <1>3, AmendmentFrame DEF Runs, GatewayTypeOK
<1>5. RunsOnRecord'
  BY <1>1, <1>3 DEF Runs, RunsOnRecord
<1> QED
  BY <1>4, <1>5 DEF Runs

\* What BoT changes, of all this, are its own bids, never their number.
LEMMA BankFrame ==
  ASSUME Runs, UNCHANGED <<sending, told, reconcile, record, amend, overtaken>>,
         atBot # None, atBot' \in Seq(BotBids), DOMAIN atBot' = DOMAIN atBot,
         asked' \subseteq asked, callbacks' \subseteq [q: Requests, amount: Faces]
  PROVE  Runs' /\ Requests' = Requests
<1>1. atBot' # None
  BY NoneIsNone
<1>2. Requests' = Requests
  BY <1>1 DEF Requests
<1>3. Amendments' = Amendments /\ Reads' = Reads
  BY <1>2 DEF Amendments, Reads, Idle
<1>4. GatewayTypeOK'
  BY <1>2, <1>3 DEF Runs, GatewayTypeOK
<1>5. RunsOnRecord'
  BY <1>1 DEF Runs, RunsOnRecord
<1> QED
  BY <1>2, <1>4, <1>5 DEF Runs

\* The bids at BoT after one of them was changed.
LEMMA OneBidChanged ==
  ASSUME NEW held \in Seq(BotBids), NEW q \in DOMAIN held, NEW tendered \in BotBids
  PROVE  /\ [held EXCEPT ![q] = tendered] \in Seq(BotBids)
         /\ DOMAIN [held EXCEPT ![q] = tendered] = DOMAIN held
OBVIOUS

LEMMA RejectRuns ==
  ASSUME Runs, NEW q \in Requests, Reject(q),
         UNCHANGED <<sending, told, reconcile, record, amend, overtaken>>
  PROVE  /\ Runs' /\ asked' = asked /\ DOMAIN atBot' = DOMAIN atBot
         /\ \A r \in DOMAIN atBot : atBot'[r].face = atBot[r].face
<1>1. atBot # None /\ Requests = DOMAIN atBot /\ atBot \in Seq(BotBids) /\ atBot[q] \in BotBids
  BY BidIs DEF Runs
<1>2. atBot' = [atBot EXCEPT ![q] = [atBot[q] EXCEPT !.action = "rejected"]]
      /\ asked' = asked /\ callbacks' = callbacks
  BY DEF Reject
<1> DEFINE tendered == [atBot[q] EXCEPT !.action = "rejected"]
<1>3. tendered \in BotBids /\ tendered.face = atBot[q].face
  BY <1>1 DEF BotBids
<1> HIDE DEF tendered
<1>4. atBot' = [atBot EXCEPT ![q] = tendered]
  BY <1>2 DEF tendered
<1>5. atBot' \in Seq(BotBids) /\ DOMAIN atBot' = DOMAIN atBot
  BY <1>1, <1>3, <1>4, OneBidChanged
<1>6. \A r \in DOMAIN atBot : atBot'[r].face = atBot[r].face
  BY <1>1, <1>3, <1>4
<1>7. Runs'
  BY <1>1, <1>2, <1>5, BankFrame DEF Runs, GatewayTypeOK
<1> QED
  BY <1>2, <1>5, <1>6, <1>7

LEMMA ProcessedRuns ==
  ASSUME Runs, NEW m \in asked, Processed(m),
         UNCHANGED <<sending, told, reconcile, record, amend, overtaken>>
  PROVE  /\ Runs' /\ asked' = asked \ {m} /\ DOMAIN atBot' = DOMAIN atBot
         /\ m.q \in DOMAIN atBot /\ m.face \in Faces
         /\ \/ atBot' = atBot
            \/ \A r \in DOMAIN atBot : atBot'[r].face = IF r = m.q THEN m.face ELSE atBot[r].face
<1>1. m.q \in Requests /\ m.face \in Faces
  BY DEF Runs, GatewayTypeOK
<1>2. atBot # None /\ Requests = DOMAIN atBot /\ atBot \in Seq(BotBids) /\ atBot[m.q] \in BotBids
  BY <1>1, BidIs DEF Runs
<1>3. /\ asked' = asked \ {m} /\ callbacks' = callbacks
      /\ \/ atBot' = [atBot EXCEPT ![m.q] = [atBot[m.q] EXCEPT !.face = m.face]]
         \/ atBot' = atBot
  BY DEF Processed
<1> DEFINE tendered == [atBot[m.q] EXCEPT !.face = m.face]
<1>4. tendered \in BotBids /\ tendered.face = m.face
  BY <1>1, <1>2 DEF BotBids
<1> HIDE DEF tendered
<1>5. atBot' = atBot \/ atBot' = [atBot EXCEPT ![m.q] = tendered]
  BY <1>3 DEF tendered
<1>6. atBot' \in Seq(BotBids) /\ DOMAIN atBot' = DOMAIN atBot
  BY <1>1, <1>2, <1>4, <1>5, OneBidChanged
<1>7. atBot' = atBot \/ \A r \in DOMAIN atBot : atBot'[r].face = IF r = m.q THEN m.face ELSE atBot[r].face
  BY <1>1, <1>2, <1>4, <1>5
<1>8. Runs'
  BY <1>2, <1>3, <1>6, BankFrame DEF Runs, GatewayTypeOK
<1> QED
  BY <1>1, <1>2, <1>3, <1>6, <1>7, <1>8

LEMMA CloseAuctionRuns ==
  ASSUME Runs, NEW wins \in SUBSET Requests, CloseAuction(wins),
         UNCHANGED <<sending, told, reconcile, record, amend, overtaken>>
  PROVE  /\ Runs' /\ asked' = asked /\ DOMAIN atBot' = DOMAIN atBot
         /\ \A r \in DOMAIN atBot : atBot'[r].face = atBot[r].face
<1>1. /\ atBot # None /\ asked' = asked
      /\ atBot' = [q \in Requests |-> [atBot[q] EXCEPT !.won = q \in wins]]
      /\ callbacks' = callbacks \cup {[q |-> q, amount |-> atBot[q].face] : q \in wins}
  BY DEF CloseAuction
<1>2. Requests = DOMAIN atBot /\ atBot \in Seq(BotBids)
  BY <1>1 DEF Runs, GatewayTypeOK, Requests
<1>3. \A q \in Requests : atBot[q] \in BotBids /\ atBot[q].face \in Faces
  <2>1. \A q \in Requests : atBot[q] \in BotBids
    BY <1>2
  <2> QED
    BY <2>1 DEF BotBids
<1>4. \A q \in Requests : /\ [atBot[q] EXCEPT !.won = q \in wins] \in BotBids
                          /\ [atBot[q] EXCEPT !.won = q \in wins].face = atBot[q].face
  <2>1. ASSUME NEW tendered \in BotBids, NEW b \in BOOLEAN
        PROVE  [tendered EXCEPT !.won = b] \in BotBids /\ [tendered EXCEPT !.won = b].face = tendered.face
    BY DEF BotBids
  <2>2. \A q \in Requests : (q \in wins) \in BOOLEAN
    OBVIOUS
  <2> QED
    BY <1>3, <2>1, <2>2
<1>5. atBot' \in Seq(BotBids) /\ DOMAIN atBot' = DOMAIN atBot
  <2>1. atBot' \in [DOMAIN atBot -> BotBids]
    BY <1>1, <1>2, <1>4
  <2> QED
    BY <1>2, <2>1
<1>6. \A r \in DOMAIN atBot : atBot'[r].face = atBot[r].face
  BY <1>1, <1>2, <1>4
<1>7. callbacks' \subseteq [q: Requests, amount: Faces]
  BY <1>1, <1>3 DEF Runs, GatewayTypeOK
<1>8. Runs'
  BY <1>1, <1>5, <1>7, BankFrame
<1> QED
  BY <1>1, <1>5, <1>6, <1>8

\* The callbacks and the winners change none of this but the callbacks under way.
LEMMA VerdictsRuns ==
  ASSUME Runs, UNCHANGED <<sending, told, reconcile, record, amend, overtaken, atBot, asked>>,
         callbacks' \subseteq callbacks
  PROVE  Runs'
<1>1. Requests' = Requests
  BY DEF Requests
<1>2. Amendments' = Amendments /\ Reads' = Reads
  BY <1>1 DEF Amendments, Reads, Idle
<1>3. GatewayTypeOK'
  BY <1>1, <1>2 DEF Runs, GatewayTypeOK
<1>4. RunsOnRecord'
  BY DEF Runs, RunsOnRecord
<1> QED
  BY <1>3, <1>4 DEF Runs



\* What is announced, on record or about to be announced.
Announced ==
  /\ AnnouncedOneToOne /\ OnRecordWasTold
  /\ reconcile.pc = "save" => OneToOne(reconcile.outcome)

\* Whatever does not announce leaves what was announced as it is.
LEMMA AnnouncedFrame ==
  ASSUME Announced, told' = told,
         \/ record' = None
         \/ record'.outcome = None
         \/ record # None /\ record'.outcome = record.outcome,
         reconcile' = reconcile \/ reconcile'.pc # "save" \/ OneToOne(reconcile'.outcome)
  PROVE  Announced'
<1>1. AnnouncedOneToOne'
  BY DEF Announced, AnnouncedOneToOne
<1>2. OnRecordWasTold'
  BY DEF Announced, OnRecordWasTold
<1>3. (reconcile.pc = "save" => OneToOne(reconcile.outcome))'
  BY DEF Announced
<1> QED
  BY <1>1, <1>2, <1>3 DEF Announced

LEMMA SaveResultAnnounces ==
  ASSUME Runs, Announced, SaveResult
  PROVE  Announced'
<1>1. /\ record'.outcome = reconcile.outcome
      /\ \/ told' = told /\ \E n \in DOMAIN told : Fingerprint(told[n]) = Fingerprint(reconcile.outcome)
         \/ told' = Append(told, reconcile.outcome)
  BY SaveResultRuns
<1>2. OneToOne(reconcile.outcome) /\ reconcile' = Idle /\ told \in Seq(Outcomes)
  BY DEF Announced, SaveResult, SaveResultBy, Runs, GatewayTypeOK
<1>3. CASE told' = told /\ \E n \in DOMAIN told : Fingerprint(told[n]) = Fingerprint(reconcile.outcome)
  <2>1. AnnouncedOneToOne'
    BY <1>3 DEF Announced, AnnouncedOneToOne
  <2>2. OnRecordWasTold'
    BY <1>1, <1>3 DEF OnRecordWasTold
  <2> QED
    BY <1>2, <2>1, <2>2 DEF Announced, Idle
<1>4. CASE told' = Append(told, reconcile.outcome)
  <2>1. /\ DOMAIN told' = DOMAIN told \cup {Len(told) + 1}
        /\ \A n \in DOMAIN told : told'[n] = told[n]
        /\ told'[Len(told) + 1] = reconcile.outcome
    BY <1>2, <1>4
  <2>2. AnnouncedOneToOne'
    BY <1>2, <2>1 DEF Announced, AnnouncedOneToOne
  <2>3. OnRecordWasTold'
    BY <1>1, <2>1 DEF OnRecordWasTold
  <2> QED
    BY <1>2, <2>2, <2>3 DEF Announced, Idle
<1> QED
  BY <1>1, <1>3, <1>4

----------------------------------------------------------------------------
\* What is claimed as long as no history is marked.
Clean == OneInHand /\ MatchedMeansHeld

\* Whether ours are held depends on BoT's face values alone.
LEMMA HeldAsFaces ==
  ASSUME NEW sent, NEW held, NEW after, HeldAs(sent, held), DOMAIN after = DOMAIN held,
         \A q \in DOMAIN held : after[q].face = held[q].face
  PROVE  HeldAs(sent, after)
<1>1. PICK twin \in [DOMAIN sent -> DOMAIN held] :
        /\ \A m, n \in DOMAIN sent : twin[m] = twin[n] => m = n
        /\ \A q \in DOMAIN held : \E n \in DOMAIN sent : twin[n] = q
        /\ \A n \in DOMAIN sent : held[twin[n]].face = sent[n]
  BY DEF HeldAs
<1>2. \A n \in DOMAIN sent : after[twin[n]].face = sent[n]
  BY <1>1
<1>3. twin \in [DOMAIN sent -> DOMAIN after]
  BY <1>1
<1> QED
  BY <1>1, <1>2, <1>3 DEF HeldAs

LEMMA SteadyClean ==
  ASSUME Clean, UNCHANGED <<amend, asked, atBot, record, overtaken, reconcile>>
  PROVE  Clean'
<1>1. OneInHand'
  BY DEF Clean, OneInHand, InFlight
<1>2. MatchedMeansHeld'
  BY DEF Clean, MatchedMeansHeld
<1> QED
  BY <1>1, <1>2 DEF Clean

\* The reconciler moves nothing of the amendments.
LEMMA InHandStays ==
  ASSUME OneInHand, UNCHANGED <<amend, asked, atBot>>,
         record' = record \/ (record' # None /\ record'.sent = record.sent)
  PROVE  OneInHand'
BY DEF OneInHand, InFlight

\* Before there is a record there is no amendment either.
LEMMA UnrecordedClean ==
  ASSUME Runs, Clean, record = None, UNCHANGED <<amend, asked, reconcile>>,
         record' = None \/ record'.status = "pending"
  PROVE  Clean'
<1>1. InFlight = {} /\ asked = {} /\ reconcile = Idle
  BY DEF Clean, OneInHand, Runs, RunsOnRecord
<1>2. InFlight' = {} /\ asked' = {} /\ reconcile' = Idle
  BY <1>1 DEF InFlight
<1>3. OneInHand'
  BY <1>2 DEF OneInHand
<1>4. MatchedMeansHeld'
  BY <1>2 DEF MatchedMeansHeld, Idle
<1> QED
  BY <1>3, <1>4 DEF Clean

LEMMA SendClean ==
  ASSUME Runs, Clean, NEW p, Send(p)
  PROVE  Clean'
BY UnrecordedClean DEF Send, BankTakes, work

LEMMA RecordBatchClean ==
  ASSUME Runs, Clean, RecordBatch
  PROVE  Clean'
<1>1. record = None /\ record'.status = "pending" /\ UNCHANGED <<amend, asked, reconcile>>
  BY DEF RecordBatch, bank, work, Runs, RunsOnRecord
<1> QED
  BY <1>1, UnrecordedClean

LEMMA SenderDiesClean ==
  ASSUME Clean, SenderDies
  PROVE  Clean'
BY SteadyClean DEF SenderDies, bank, work

LEMMA ReadPendingClean ==
  ASSUME Clean, ReadPending
  PROVE  Clean'
<1>1. reconcile'.pc = "fetch" /\ UNCHANGED <<amend, asked, atBot, record>>
  BY DEF ReadPending, bank, store
<1>2. OneInHand'
  BY <1>1, InHandStays DEF Clean
<1>3. MatchedMeansHeld'
  BY <1>1 DEF Clean, MatchedMeansHeld
<1> QED
  BY <1>2, <1>3 DEF Clean

LEMMA ReadBackClean ==
  ASSUME Runs, Clean, ReadBack
  PROVE  Clean'
<1>1. UNCHANGED <<amend, asked, atBot, record, overtaken>>
  BY DEF ReadBack, bank, store
<1>2. OneInHand'
  BY <1>1, InHandStays DEF Clean
<1>3. reconcile'.outcome.status = "matched" => HeldAs(reconcile'.sent, atBot)
  BY ReadBackRuns
<1>4. MatchedMeansHeld'
  BY <1>1, <1>3 DEF Clean, MatchedMeansHeld
<1> QED
  BY <1>2, <1>4 DEF Clean

LEMMA SaveResultClean ==
  ASSUME Runs, Clean, SaveResult, ~overtaken
  PROVE  Clean'
<1>1. /\ UNCHANGED <<amend, asked, atBot, overtaken>> /\ reconcile' = Idle
      /\ reconcile.pc = "save" /\ reconcile # Idle
  BY ReadIs DEF SaveResult, SaveResultBy, bank, Runs
<1>2. /\ record' # None /\ record'.sent = record.sent
      /\ record'.status = reconcile.outcome.status /\ record.sent = reconcile.sent
  <2>1. record'.sent = record.sent /\ record'.status = reconcile.outcome.status
    BY SaveResultRuns
  <2>2. record.sent = reconcile.sent /\ record \in Submissions
    BY <1>1 DEF Runs, RunsOnRecord, GatewayTypeOK
  <2>3. record' # None
    BY SaveResultRuns, NoneIsNone
  <2> QED
    BY <2>1, <2>2, <2>3
<1>3. OneInHand'
  BY <1>1, <1>2, InHandStays DEF Clean
<1>4. MatchedMeansHeld'
  BY <1>1, <1>2 DEF Clean, MatchedMeansHeld, Idle
<1> QED
  BY <1>3, <1>4 DEF Clean

LEMMA ReconcileDiesClean ==
  ASSUME Clean, ReconcileDies
  PROVE  Clean'
<1>1. reconcile' = Idle /\ UNCHANGED <<amend, asked, atBot, record, overtaken>>
  BY DEF ReconcileDies, bank, store
<1>2. OneInHand'
  BY <1>1, InHandStays DEF Clean
<1>3. MatchedMeansHeld'
  BY <1>1 DEF Clean, MatchedMeansHeld, Idle
<1> QED
  BY <1>2, <1>3 DEF Clean

LEMMA AmendReadClean ==
  ASSUME Runs, Clean, NEW a \in Amends, NEW q \in Requests, NEW face, AmendRead(a, q, face),
         record # None, InFlight = {}, asked = {}
  PROVE  Clean'
<1>1. /\ amend' = [amend EXCEPT ![a] = [pc |-> "ask", q |-> q, was |-> atBot[q].face, face |-> face]]
      /\ UNCHANGED <<asked, atBot, record, overtaken, reconcile>>
      /\ amend \in [Amends -> Amendments]
  BY DEF AmendRead, bank, store, Runs, GatewayTypeOK
<1>2. /\ \A b \in Amends : b # a => amend'[b] = amend[b]
      /\ amend'[a].pc = "ask" /\ amend'[a].q = q /\ amend'[a].was = atBot[q].face
  BY <1>1
<1>3. \A b \in Amends : amend[b].pc \notin {"ask", "note"}
  BY DEF InFlight
<1>4. InFlight' = {a}
  BY <1>2, <1>3 DEF InFlight
<1>5. OneInHand'
  BY <1>1, <1>2, <1>4 DEF OneInHand
<1>6. MatchedMeansHeld'
  BY <1>1, <1>3 DEF Clean, MatchedMeansHeld
<1> QED
  BY <1>5, <1>6 DEF Clean

LEMMA AmendAskClean ==
  ASSUME Runs, Clean, NEW a \in Amends, AmendAsk(a)
  PROVE  Clean'
<1>1. /\ UNCHANGED <<record, overtaken, reconcile>>
      /\ amend[a].pc = "ask"
      /\ \/ amend' = [amend EXCEPT ![a].pc = "note"] /\ BankIsAsked(amend[a].q, amend[a].face)
         \/ amend' = [amend EXCEPT ![a] = [pc |-> "done"]] /\ UNCHANGED bank
  BY DEF AmendAsk, store
<1>2. /\ InFlight = {a} /\ asked = {} /\ record # None
      /\ atBot[amend[a].q].face = amend[a].was
  BY <1>1 DEF Clean, OneInHand, InFlight
<1>3. \A b \in Amends : amend[b].pc # "note"
  BY <1>1, <1>2 DEF InFlight
<1>4. amend \in [Amends -> Amendments] /\ GatewayTypeOK
  BY DEF Runs, GatewayTypeOK
<1>5. CASE amend' = [amend EXCEPT ![a].pc = "note"] /\ BankIsAsked(amend[a].q, amend[a].face)
  <2>1. amend[a] \in [pc: {"ask", "note"}, q: Requests, was: Faces, face: Faces]
    BY <1>1, <1>4, AmendIs
  <2>2. /\ \A b \in Amends : b # a => amend'[b] = amend[b]
        /\ amend'[a].pc = "note" /\ amend'[a].q = amend[a].q
        /\ amend'[a].was = amend[a].was /\ amend'[a].face = amend[a].face
    BY <1>4, <1>5, <2>1
  <2>3. asked' = {[q |-> amend[a].q, face |-> amend[a].face]} /\ atBot' = atBot
    BY <1>2, <1>5 DEF BankIsAsked
  <2>4. InFlight' = {a}
    BY <1>2, <2>2 DEF InFlight
  <2>5. OneInHand'
    BY <1>1, <1>2, <2>2, <2>3, <2>4 DEF OneInHand
  <2>6. MatchedMeansHeld'
    BY <2>2 DEF MatchedMeansHeld
  <2> QED
    BY <2>5, <2>6 DEF Clean
<1>6. CASE amend' = [amend EXCEPT ![a] = [pc |-> "done"]] /\ UNCHANGED bank
  <2>1. (\A b \in Amends : b # a => amend'[b] = amend[b]) /\ amend'[a].pc = "done"
    BY <1>4, <1>6
  <2>2. InFlight' = {} /\ asked' = {} /\ atBot' = atBot
    BY <1>2, <1>6, <2>1 DEF InFlight, bank
  <2>3. OneInHand'
    BY <2>2 DEF OneInHand
  <2>4. MatchedMeansHeld'
    BY <1>1, <1>3, <2>2 DEF Clean, MatchedMeansHeld
  <2> QED
    BY <2>3, <2>4 DEF Clean
<1> QED
  BY <1>1, <1>5, <1>6

LEMMA AmendNoteClean ==
  ASSUME Runs, Clean, NEW a \in Amends, AmendNote(a), record # None,
         NEW n, Candidates(a) = {n}
  PROVE  Clean'
<1>1. /\ amend[a].pc = "note" /\ amend' = [amend EXCEPT ![a] = [pc |-> "done"]]
      /\ UNCHANGED <<reconcile, atBot, asked>> /\ overtaken' = TRUE
      /\ record \in Submissions /\ record' \in Submissions /\ record'.status = "pending"
      /\ \E k \in Candidates(a) : record'.sent = [record.sent EXCEPT ![k] = amend[a].face]
  BY NoteFacts
<1>2. record'.sent = [record.sent EXCEPT ![n] = amend[a].face] /\ record.sent \in Seq(Faces)
  BY <1>1 DEF Submissions
<1>3. \A k \in DOMAIN record.sent : k # n => record.sent[k] # amend[a].was
  BY DEF Candidates
<1>4. amend \in [Amends -> Amendments] /\ a \in InFlight
  BY <1>1 DEF Runs, GatewayTypeOK, InFlight
<1>5. \A b \in InFlight : b = a
  BY <1>4 DEF Clean, OneInHand
<1>6. InFlight' = {}
  BY <1>1, <1>4, <1>5 DEF InFlight
<1>7. \/ asked = {}
      \/ /\ asked = {[q |-> amend[a].q, face |-> amend[a].face]}
         /\ atBot[amend[a].q].face = amend[a].was
  BY <1>4 DEF Clean, OneInHand
<1>8. \A k \in DOMAIN record'.sent :
        record'.sent[k] = amend[a].face \/ record'.sent[k] # amend[a].was
  BY <1>2, <1>3
<1>9. record' # None
  BY <1>1, NoneIsNone
<1>10. \A m \in asked' :
         /\ asked' = {m}
         /\ \/ m.face = atBot'[m.q].face
            \/ \A k \in DOMAIN record'.sent : record'.sent[k] # atBot'[m.q].face
  BY <1>1, <1>7, <1>8
<1>11. OneInHand'
  BY <1>6, <1>9, <1>10 DEF OneInHand
<1>12. MatchedMeansHeld'
  BY <1>1 DEF MatchedMeansHeld
<1> QED
  BY <1>11, <1>12 DEF Clean

\* What BoT does to a bid that leaves its face value is not seen.
LEMMA SameFacesClean ==
  ASSUME Runs, Clean, UNCHANGED <<amend, asked, record, overtaken, reconcile>>,
         DOMAIN atBot' = DOMAIN atBot, \A r \in DOMAIN atBot : atBot'[r].face = atBot[r].face
  PROVE  Clean'
<1>1. \A a \in InFlight : amend[a].q \in Requests
  BY AmendIs DEF InFlight, Runs
<1>2. \A m \in asked : m.q \in Requests
  BY DEF Runs, GatewayTypeOK
<1>3. \A q \in Requests : atBot'[q].face = atBot[q].face
  BY DEF Requests
<1>4. InFlight' = InFlight
  BY DEF InFlight
<1>5. OneInHand'
  BY <1>1, <1>2, <1>3, <1>4 DEF Clean, OneInHand
<1>6. \A sent : HeldAs(sent, atBot) => HeldAs(sent, atBot')
  BY HeldAsFaces
<1>7. MatchedMeansHeld'
  BY <1>6 DEF Clean, MatchedMeansHeld
<1> QED
  BY <1>5, <1>7 DEF Clean

LEMMA ProcessedClean ==
  ASSUME Runs, Clean, NEW m \in asked, Processed(m),
         UNCHANGED <<sending, told, reconcile, record, amend, overtaken>>
  PROVE  Clean'
<1>1. /\ asked' = asked \ {m} /\ DOMAIN atBot' = DOMAIN atBot /\ m.q \in DOMAIN atBot
      /\ \/ atBot' = atBot
         \/ \A r \in DOMAIN atBot : atBot'[r].face = IF r = m.q THEN m.face ELSE atBot[r].face
  BY ProcessedRuns
<1>2. InFlight' = InFlight
  BY DEF InFlight
<1>3. record # None
  BY DEF Clean, OneInHand
<1>4. asked' = {}
  <2>1. asked = {m}
    BY DEF Clean, OneInHand
  <2> QED
    BY <1>1, <2>1
<1>5. \A a \in InFlight : amend[a].pc # "ask"
  BY DEF Clean, OneInHand
<1>6. OneInHand'
  BY <1>2, <1>3, <1>4, <1>5 DEF Clean, OneInHand
<1>7. CASE \E a \in Amends : amend[a].pc = "note"
  <2>1. MatchedMeansHeld'
    BY <1>7 DEF MatchedMeansHeld
  <2> QED
    BY <1>6, <2>1 DEF Clean
<1>8. CASE \A a \in Amends : amend[a].pc # "note"
  <2>1. InFlight = {}
    BY <1>5, <1>8 DEF InFlight
  <2>2. \/ m.face = atBot[m.q].face
        \/ \A n \in DOMAIN record.sent : record.sent[n] # atBot[m.q].face
    BY <2>1 DEF Clean, OneInHand
  <2>3. CASE m.face = atBot[m.q].face
    <3>1. \A r \in DOMAIN atBot : atBot'[r].face = atBot[r].face
      BY <1>1, <2>3
    <3>2. \A sent : HeldAs(sent, atBot) => HeldAs(sent, atBot')
      BY <1>1, <3>1, HeldAsFaces
    <3>3. MatchedMeansHeld'
      BY <1>8, <3>2 DEF Clean, MatchedMeansHeld
    <3> QED
      BY <1>6, <3>3 DEF Clean
  <2>4. CASE \A n \in DOMAIN record.sent : record.sent[n] # atBot[m.q].face
    <3>1. ~HeldAs(record.sent, atBot)
      BY <1>1, <2>4 DEF HeldAs
    <3>2. record.status # "matched"
      BY <1>3, <1>8, <3>1 DEF Clean, MatchedMeansHeld
    <3>3. ASSUME reconcile.pc = "save", reconcile.outcome.status = "matched", ~overtaken
          PROVE  FALSE
      <4>1. record.sent = reconcile.sent
        BY <3>3, ReadIs DEF Runs, RunsOnRecord
      <4> QED
        BY <1>8, <3>1, <3>3, <4>1 DEF Clean, MatchedMeansHeld
    <3>4. MatchedMeansHeld'
      BY <3>2, <3>3 DEF MatchedMeansHeld
    <3> QED
      BY <1>6, <3>4 DEF Clean
  <2> QED
    BY <2>2, <2>3, <2>4
<1> QED
  BY <1>7, <1>8

----------------------------------------------------------------------------
\* One step: what runs, what was announced, and, as long as the histories stay unmarked,
\* what the amendments leave of it.
Marked == muddled \/ hasty

StepIsTrue == Runs' /\ Announced' /\ (Marked' \/ (~Marked /\ Clean => Clean'))

LEMMA SendIsTrue ==
  ASSUME Runs, Announced, NEW p \in Packages, Send(p)
  PROVE  StepIsTrue
<1>1. Announced'
  BY AnnouncedFrame DEF Send, work, Announced, OnRecordWasTold
<1>2. Clean => Clean'
  BY SendClean
<1> QED
  BY <1>1, <1>2, SendRuns DEF StepIsTrue

LEMMA RecordBatchIsTrue ==
  ASSUME Runs, Announced, RecordBatch
  PROVE  StepIsTrue
<1>1. told' = told /\ reconcile' = reconcile /\ record'.outcome = None
  BY DEF RecordBatch, work
<1>2. Announced'
  BY <1>1, AnnouncedFrame
<1>3. Clean => Clean'
  BY RecordBatchClean
<1> QED
  BY <1>2, <1>3, RecordBatchRuns DEF StepIsTrue

\* Most steps announce nothing and put no outcome on record.
LEMMA QuietlyAnnounced ==
  ASSUME Announced, told' = told, record' = record \/ (record # None /\ record'.outcome = record.outcome),
         reconcile' = reconcile \/ reconcile'.pc # "save" \/ OneToOne(reconcile'.outcome)
  PROVE  Announced'
<1>1. \/ record' = None
      \/ record # None /\ record'.outcome = record.outcome
  OBVIOUS
<1> QED
  BY <1>1, AnnouncedFrame

LEMMA SenderDiesIsTrue ==
  ASSUME Runs, Announced, SenderDies
  PROVE  StepIsTrue
<1>1. told' = told /\ reconcile' = reconcile /\ record' = record
  BY DEF SenderDies, work
<1>2. Announced'
  BY <1>1, QuietlyAnnounced
<1>3. Clean => Clean'
  BY SenderDiesClean
<1> QED
  BY <1>2, <1>3, SenderDiesRuns DEF StepIsTrue

LEMMA ReadPendingIsTrue ==
  ASSUME Runs, Announced, ReadPending
  PROVE  StepIsTrue
<1>1. told' = told /\ reconcile'.pc = "fetch" /\ record' = record
  BY DEF ReadPending, store
<1>2. Announced'
  BY <1>1, QuietlyAnnounced
<1>3. Clean => Clean'
  BY ReadPendingClean
<1> QED
  BY <1>2, <1>3, ReadPendingRuns DEF StepIsTrue

LEMMA ReadBackIsTrue ==
  ASSUME Runs, Announced, ReadBack
  PROVE  StepIsTrue
<1>1. told' = told /\ record' = record
  BY DEF ReadBack, store
<1>2. OneToOne(reconcile'.outcome)
  BY ReadBackRuns
<1>3. Announced'
  BY <1>1, <1>2, QuietlyAnnounced
<1>4. Clean => Clean'
  BY ReadBackClean
<1> QED
  BY <1>3, <1>4, ReadBackRuns DEF StepIsTrue

LEMMA SaveResultIsTrue ==
  ASSUME Runs, Announced, SaveResult
  PROVE  StepIsTrue
<1>1. hasty' = (hasty \/ overtaken)
  BY DEF SaveResult, SaveResultBy
<1>2. Marked' \/ (Clean => Clean')
  <2>1. CASE overtaken
    BY <1>1, <2>1 DEF Marked
  <2>2. CASE ~overtaken
    BY <2>2, SaveResultClean
  <2> QED
    BY <2>1, <2>2
<1> QED
  BY <1>2, SaveResultRuns, SaveResultAnnounces DEF StepIsTrue

LEMMA ReconcileDiesIsTrue ==
  ASSUME Runs, Announced, ReconcileDies
  PROVE  StepIsTrue
<1>1. told' = told /\ record' = record /\ reconcile'.pc # "save"
  BY DEF ReconcileDies, store, Idle
<1>2. Announced'
  BY <1>1, QuietlyAnnounced
<1>3. Clean => Clean'
  BY ReconcileDiesClean
<1> QED
  BY <1>2, <1>3, ReconcileDiesRuns DEF StepIsTrue

LEMMA AmendReadIsTrue ==
  ASSUME Runs, Announced, NEW a \in Amends, NEW q \in Requests, NEW face \in Faces, AmendRead(a, q, face)
  PROVE  StepIsTrue
<1>1. told' = told /\ record' = record /\ reconcile' = reconcile
  BY DEF AmendRead, store
<1>2. Announced'
  BY <1>1, QuietlyAnnounced
<1>3. muddled' = (muddled \/ record = None \/ InFlight # {} \/ asked # {})
  BY DEF AmendRead
<1>4. Marked' \/ (Clean => Clean')
  <2>1. CASE record = None \/ InFlight # {} \/ asked # {}
    BY <1>3, <2>1 DEF Marked
  <2>2. CASE record # None /\ InFlight = {} /\ asked = {}
    BY <2>2, AmendReadClean
  <2> QED
    BY <2>1, <2>2
<1> QED
  BY <1>2, <1>4, AmendReadRuns DEF StepIsTrue

LEMMA AmendAskIsTrue ==
  ASSUME Runs, Announced, NEW a \in Amends, AmendAsk(a)
  PROVE  StepIsTrue
<1>1. told' = told /\ record' = record /\ reconcile' = reconcile
  BY DEF AmendAsk, store
<1>2. Announced'
  BY <1>1, QuietlyAnnounced
<1>3. Clean => Clean'
  BY AmendAskClean
<1> QED
  BY <1>2, <1>3, AmendAskRuns DEF StepIsTrue

LEMMA AmendNoteIsTrue ==
  ASSUME Runs, Announced, NEW a \in Amends, AmendNote(a)
  PROVE  StepIsTrue
<1>1. /\ told' = told /\ reconcile' = reconcile
      /\ record' = record \/ (record # None /\ record'.outcome = record.outcome)
  BY NoteFacts, NoneIsNone
<1>2. Announced'
  BY <1>1, QuietlyAnnounced
<1>3. muddled' = (muddled \/ record = None \/ \A n \in Candidates(a) : Candidates(a) # {n})
  BY DEF AmendNote, AmendNoteWith
<1>4. Marked' \/ (Clean => Clean')
  <2>1. CASE record = None \/ \A n \in Candidates(a) : Candidates(a) # {n}
    BY <1>3, <2>1 DEF Marked
  <2>2. CASE record # None /\ \E n \in Candidates(a) : Candidates(a) = {n}
    BY <2>2, AmendNoteClean
  <2> QED
    BY <2>1, <2>2
<1> QED
  BY <1>2, <1>4, AmendNoteRuns DEF StepIsTrue

LEMMA AmendCutIsTrue ==
  ASSUME Runs, Announced, NEW a \in Amends, AmendCut(a)
  PROVE  StepIsTrue
<1>1. told' = told /\ record' = record /\ reconcile' = reconcile /\ muddled' = TRUE
  BY DEF AmendCut, store
<1>2. Announced'
  BY <1>1, QuietlyAnnounced
<1>3. Marked'
  BY <1>1 DEF Marked
<1> QED
  BY <1>2, <1>3, AmendCutRuns DEF StepIsTrue

LEMMA BankStepIsTrue ==
  ASSUME Runs, Announced, BankStep
  PROVE  StepIsTrue
<1>1. UNCHANGED <<sending, told, reconcile, record, amend, overtaken>>
  BY DEF BankStep, store, work
<1>2. Announced'
  BY <1>1, QuietlyAnnounced
<1>3. CASE \E q \in Requests : Reject(q)
  <2>1. PICK q \in Requests : Reject(q)
    BY <1>3
  <2>2. /\ Runs' /\ asked' = asked /\ DOMAIN atBot' = DOMAIN atBot
        /\ \A r \in DOMAIN atBot : atBot'[r].face = atBot[r].face
    BY <1>1, <2>1, RejectRuns
  <2>3. Clean => Clean'
    BY <1>1, <2>2, SameFacesClean
  <2> QED
    BY <1>2, <2>2, <2>3 DEF StepIsTrue
<1>4. CASE \E m \in asked : Processed(m)
  <2>1. PICK m \in asked : Processed(m)
    BY <1>4
  <2>2. Runs'
    BY <1>1, <2>1, ProcessedRuns
  <2>3. Clean => Clean'
    BY <1>1, <2>1, ProcessedClean
  <2> QED
    BY <1>2, <2>2, <2>3 DEF StepIsTrue
<1>5. CASE \E wins \in SUBSET Requests : CloseAuction(wins)
  <2>1. PICK wins \in SUBSET Requests : CloseAuction(wins)
    BY <1>5
  <2>2. /\ Runs' /\ asked' = asked /\ DOMAIN atBot' = DOMAIN atBot
        /\ \A r \in DOMAIN atBot : atBot'[r].face = atBot[r].face
    BY <1>1, <2>1, CloseAuctionRuns
  <2>3. Clean => Clean'
    BY <1>1, <2>2, SameFacesClean
  <2> QED
    BY <1>2, <2>2, <2>3 DEF StepIsTrue
<1> QED
  BY <1>3, <1>4, <1>5 DEF BankStep

\* The callbacks and the winners leave the record of the batch alone.
LEMMA VerdictsAreTrue ==
  ASSUME Runs, Announced,
         UNCHANGED <<sending, told, reconcile, record, amend, overtaken, atBot, asked>>,
         callbacks' \subseteq callbacks
  PROVE  StepIsTrue
<1>1. Announced'
  BY QuietlyAnnounced
<1>2. Clean => Clean'
  BY SteadyClean
<1> QED
  BY <1>1, <1>2, VerdictsRuns DEF StepIsTrue

LEMMA NextIsTrue ==
  ASSUME Runs, Announced, [Next]_gatewayVars
  PROVE  StepIsTrue
<1>1. CASE BankStep
  BY <1>1, BankStepIsTrue
<1>2. CASE \E p \in Packages : Send(p)
  BY <1>2, SendIsTrue
<1>3. CASE RecordBatch \/ SenderDies
  BY <1>3, RecordBatchIsTrue, SenderDiesIsTrue
<1>4. CASE Reconciling \/ ReconcileDies
  BY <1>4, ReadPendingIsTrue, ReadBackIsTrue, SaveResultIsTrue, ReconcileDiesIsTrue DEF Reconciling
<1>5. CASE \E a \in Amends :
             \/ \E q \in Requests, f \in Faces : AmendRead(a, q, f)
             \/ AmendAsk(a) \/ AmendNote(a) \/ AmendCut(a)
  BY <1>5, AmendReadIsTrue, AmendAskIsTrue, AmendNoteIsTrue, AmendCutIsTrue
<1>6. CASE \E c \in callbacks : Receive(c) \/ CallbackAgain(c) \/ CallbackLost(c)
  <2>1. /\ UNCHANGED <<sending, told, reconcile, record, amend, overtaken, atBot, asked>>
        /\ callbacks' \subseteq callbacks
    BY <1>6 DEF Receive, CallbackAgain, CallbackLost, ReceiveIf, store, work, bank
  <2> QED
    BY <2>1, VerdictsAreTrue
<1>7. CASE Checking
  <2>1. UNCHANGED <<bank, store, work>>
    BY <1>7 DEF Checking, Check, CheckIf, SaveCheck
  <2> QED
    BY <2>1, VerdictsAreTrue DEF bank, store, work
<1>8. CASE UNCHANGED gatewayVars
  BY <1>8, VerdictsAreTrue DEF gatewayVars, bank, store, work
<1> QED
  BY <1>1, <1>2, <1>3, <1>4, <1>5, <1>6, <1>7, <1>8 DEF Next

LEMMA HistoriesStay ==
  ASSUME [Next]_gatewayVars, Marked
  PROVE  Marked'
<1>1. CASE BankStep \/ (\E p \in Packages : Send(p)) \/ RecordBatch \/ SenderDies
  BY <1>1 DEF BankStep, Send, RecordBatch, SenderDies, work, Marked
<1>2. CASE Reconciling \/ ReconcileDies
  BY <1>2 DEF Reconciling, ReadPending, ReadBack, SaveResult, SaveResultBy, ReconcileDies, Marked
<1>3. CASE \E a \in Amends :
             \/ \E q \in Requests, f \in Faces : AmendRead(a, q, f)
             \/ AmendAsk(a) \/ AmendNote(a) \/ AmendCut(a)
  <2>1. PICK a \in Amends :
               \/ \E q \in Requests, f \in Faces : AmendRead(a, q, f)
               \/ AmendAsk(a) \/ AmendNote(a) \/ AmendCut(a)
    BY <1>3
  <2>2. CASE \E q \in Requests, f \in Faces : AmendRead(a, q, f)
    <3>1. /\ muddled' = (muddled \/ record = None \/ InFlight # {} \/ asked # {})
          /\ hasty' = hasty
      BY <2>2 DEF AmendRead
    <3> QED
      BY <3>1, Zenon DEF Marked
  <2>3. CASE AmendAsk(a)
    BY <2>3 DEF AmendAsk, Marked
  <2>4. CASE AmendNote(a)
    <3>1. /\ muddled' = (muddled \/ record = None \/ \A n \in Candidates(a) : Candidates(a) # {n})
          /\ hasty' = hasty
      BY <2>4 DEF AmendNote, AmendNoteWith
    <3> QED
      BY <3>1, Zenon DEF Marked
  <2>5. CASE AmendCut(a)
    BY <2>5 DEF AmendCut, Marked
  <2> QED
    BY <2>1, <2>2, <2>3, <2>4, <2>5
<1>4. CASE \E c \in callbacks : Receive(c) \/ CallbackAgain(c) \/ CallbackLost(c)
  BY <1>4 DEF Receive, CallbackAgain, CallbackLost, ReceiveIf, work, Marked
<1>5. CASE Checking
  BY <1>5 DEF Checking, Check, CheckIf, SaveCheck, work, Marked
<1>6. CASE UNCHANGED gatewayVars
  BY <1>6 DEF gatewayVars, work, Marked
<1> QED
  BY <1>1, <1>2, <1>3, <1>4, <1>5, <1>6 DEF Next

\* What is on record, or about to be, is what BoT was sent.
Sent == SentIsHeld /\ SendingIsHeld

LEMMA SentSteady ==
  ASSUME Sent, Untouched' => Untouched /\ asked' = asked, UNCHANGED <<sending, changed>>,
         (record # None \/ sending # None) /\ Untouched => Terms(atBot)' = Terms(atBot),
         Untouched' /\ record' # None => record # None /\ record'.sent = record.sent
  PROVE  Sent'
BY DEF Sent, SentIsHeld, SendingIsHeld

LEMMA SendSent ==
  ASSUME Runs, Sent, NEW p \in Packages, Send(p)
  PROVE  Sent'
<1>1. /\ record' = None /\ sending' = p /\ UNCHANGED <<amend, asked>>
      /\ changed' = (changed \/ (atBot # None /\ Terms(atBot) # p))
  BY DEF Send, BankTakes, work
<1>2. SentIsHeld'
  BY <1>1 DEF SentIsHeld
<1>3. CASE atBot = None
  <2>1. atBot' = [n \in DOMAIN p |-> [face |-> p[n], action |-> "initiated", won |-> FALSE]]
    BY <1>3 DEF Send, BankTakes
  <2>2. p \in Seq(Faces)
    BY GatewayAssumption
  <2>3. p = [n \in DOMAIN p |-> p[n]]
    BY <2>2
  <2>4. DOMAIN atBot' = DOMAIN p /\ \A n \in DOMAIN p : atBot'[n].face = p[n]
    BY <2>1
  <2>5. p = Terms(atBot)'
    BY <2>3, <2>4 DEF Terms
  <2> QED
    BY <1>1, <1>2, <2>5 DEF Sent, SendingIsHeld, Untouched
<1>4. CASE atBot # None
  <2>1. atBot' = atBot
    BY <1>4 DEF Send, BankTakes
  <2>2. ~changed' => p = Terms(atBot)'
    <3>1. ~changed' => p = Terms(atBot)
      BY <1>1, <1>4, Zenon
    <3> QED
      BY <2>1, <3>1 DEF Terms
  <2> QED
    BY <1>1, <1>2, <2>2 DEF Sent, SendingIsHeld, Untouched
<1> QED
  BY <1>3, <1>4

LEMMA RecordBatchSent ==
  ASSUME Sent, RecordBatch
  PROVE  Sent'
<1>1. /\ sending # None /\ sending' = None /\ UNCHANGED <<amend, asked, atBot, changed>>
      /\ record'.sent = sending
  BY DEF RecordBatch, bank, work
<1> QED
  BY <1>1 DEF Sent, SentIsHeld, SendingIsHeld, Untouched, Terms

\* BoT's own steps leave the face values alone, but for an amendment.
LEMMA BankStepSent ==
  ASSUME Runs, Sent, BankStep
  PROVE  Sent'
<1>1. UNCHANGED <<sending, record, changed, amend>>
  BY DEF BankStep, store, work
<1>2. CASE \E q \in Requests : Reject(q)
  <2>1. PICK q \in Requests : Reject(q)
    BY <1>2
  <2>2. atBot' = [atBot EXCEPT ![q].action = "rejected"] /\ asked' = asked
    BY <2>1 DEF Reject
  <2>3. atBot \in Seq(BotBids) /\ q \in DOMAIN atBot
    BY BidIs DEF Runs
  <2>4. DOMAIN atBot' = DOMAIN atBot /\ \A n \in DOMAIN atBot : atBot'[n].face = atBot[n].face
    <3>1. atBot[q] \in BotBids
      BY <2>3
    <3>2. [atBot[q] EXCEPT !.action = "rejected"].face = atBot[q].face
      BY <3>1 DEF BotBids
    <3> QED
      BY <2>2, <2>3, <3>2
  <2>5. Terms(atBot)' = Terms(atBot)
    BY <2>4 DEF Terms
  <2> QED
    BY <1>1, <2>2, <2>5, SentSteady DEF Untouched
<1>3. CASE \E m \in asked : Processed(m)
  <2>1. ~Untouched /\ ~Untouched'
    BY <1>1, <1>3 DEF Sent, SendingIsHeld, Untouched
  <2> QED
    BY <2>1 DEF Sent, SentIsHeld, SendingIsHeld
<1>4. CASE \E wins \in SUBSET Requests : CloseAuction(wins)
  <2>1. PICK wins \in SUBSET Requests : CloseAuction(wins)
    BY <1>4
  <2>2. /\ atBot # None /\ Requests = DOMAIN atBot /\ asked' = asked
        /\ atBot' = [q \in Requests |-> [atBot[q] EXCEPT !.won = q \in wins]]
    BY <2>1 DEF CloseAuction, Requests
  <2>3. atBot \in Seq(BotBids)
    BY <2>2 DEF Runs, GatewayTypeOK
  <2>4. DOMAIN atBot' = DOMAIN atBot /\ \A n \in DOMAIN atBot : atBot'[n].face = atBot[n].face
    <3>1. \A n \in DOMAIN atBot : atBot[n] \in BotBids
      BY <2>3
    <3>2. \A row \in BotBids : \A w : [row EXCEPT !.won = w].face = row.face
      BY DEF BotBids
    <3> QED
      BY <2>2, <3>1, <3>2
  <2>5. Terms(atBot)' = Terms(atBot)
    BY <2>4 DEF Terms
  <2> QED
    BY <1>1, <2>2, <2>5, SentSteady DEF Untouched
<1> QED
  BY <1>2, <1>3, <1>4 DEF BankStep

LEMMA AmendmentSent ==
  ASSUME Runs, NEW a \in Amends,
         \/ \E q \in Requests, f \in Faces : AmendRead(a, q, f)
         \/ AmendAsk(a) \/ AmendNote(a) \/ AmendCut(a)
  PROVE  Sent'
<1>1. amend'[a].pc \in {"ask", "note", "done"}
  <2>1. amend \in [Amends -> Amendments]
    BY DEF Runs, GatewayTypeOK
  <2>2. CASE \E q \in Requests, f \in Faces : AmendRead(a, q, f)
    BY <2>1, <2>2 DEF AmendRead
  <2>3. CASE amend' = [amend EXCEPT ![a].pc = "note"] /\ amend[a].pc = "ask"
    <3>1. amend[a] \in [pc: {"ask", "note"}, q: Requests, was: Faces, face: Faces]
      BY <2>3, AmendIs DEF Runs
    <3> QED
      BY <2>1, <2>3, <3>1
  <2>4. CASE amend' = [amend EXCEPT ![a] = [pc |-> "done"]]
    BY <2>1, <2>4
  <2> QED
    BY <2>2, <2>3, <2>4 DEF AmendAsk, AmendNote, AmendNoteWith, AmendCut
<1>2. ~Untouched'
  BY <1>1 DEF Untouched, Idle
<1> QED
  BY <1>2 DEF Sent, SentIsHeld, SendingIsHeld

LEMMA SentStays ==
  ASSUME Runs, Sent, [Next]_gatewayVars
  PROVE  Sent'
<1>1. CASE BankStep
  BY <1>1, BankStepSent
<1>2. CASE \E p \in Packages : Send(p)
  BY <1>2, SendSent
<1>3. CASE RecordBatch
  BY <1>3, RecordBatchSent
<1>4. CASE SenderDies
  <2>1. sending' = None /\ UNCHANGED <<record, changed, amend, asked, atBot>>
    BY <1>4 DEF SenderDies, bank, work
  <2> QED
    BY <2>1 DEF Sent, SentIsHeld, SendingIsHeld, Untouched, Terms
<1>5. CASE Reconciling \/ ReconcileDies
  <2>1. UNCHANGED <<sending, changed, amend, asked, atBot>>
    BY <1>5 DEF Reconciling, ReadPending, ReadBack, SaveResult, SaveResultBy, ReconcileDies, bank, store
  <2>2. record' # None => record # None /\ record'.sent = record.sent
    <3>1. CASE SaveResult
      <4>1. record # None /\ record \in Submissions
        BY <3>1, ReadIs DEF SaveResult, SaveResultBy, Runs, RunsOnRecord, GatewayTypeOK
      <4>2. record' = [record EXCEPT !.status = reconcile.outcome.status, !.attempts = @ + 1,
                                     !.outcome = reconcile.outcome]
        BY <3>1 DEF SaveResult, SaveResultBy
      <4> QED
        BY <4>1, <4>2 DEF Submissions
    <3>2. CASE ~SaveResult
      BY <1>5, <3>2 DEF Reconciling, ReadPending, ReadBack, ReconcileDies, store
    <3> QED
      BY <3>1, <3>2
  <2> QED
    BY <2>1, <2>2, SentSteady DEF Untouched, Terms
<1>6. CASE \E a \in Amends :
             \/ \E q \in Requests, f \in Faces : AmendRead(a, q, f)
             \/ AmendAsk(a) \/ AmendNote(a) \/ AmendCut(a)
  BY <1>6, AmendmentSent
<1>7. CASE \/ \E c \in callbacks : Receive(c) \/ CallbackAgain(c) \/ CallbackLost(c)
           \/ Checking \/ UNCHANGED gatewayVars
  <2>1. UNCHANGED <<sending, record, changed, amend, asked, atBot>>
    BY <1>7 DEF Receive, CallbackAgain, CallbackLost, ReceiveIf, Checking, Check, CheckIf, SaveCheck,
       gatewayVars, store, work, bank
  <2> QED
    BY <2>1, SentSteady DEF Untouched, Terms
<1> QED
  BY <1>1, <1>2, <1>3, <1>4, <1>5, <1>6, <1>7 DEF Next

LEMMA GatewayInitHolds == GatewayInit => GatewayInv
<1>1. ASSUME GatewayInit
      PROVE  /\ OneInHand /\ MatchedMeansHeld /\ AnnouncedOneToOne /\ OnRecordWasTold
             /\ reconcile.pc # "save" /\ SentIsHeld /\ SendingIsHeld
  BY <1>1 DEF GatewayInit, BankInit, SentIsHeld, SendingIsHeld, OneInHand, InFlight, MatchedMeansHeld, AnnouncedOneToOne,
     OnRecordWasTold, Idle
<1> QED
  BY <1>1, GatewayInitRuns DEF GatewayInv, Runs

LEMMA GatewayInvIs == GatewayInv <=> Runs /\ Sent /\ Announced /\ (Marked \/ Clean)
BY Zenon DEF GatewayInv, Runs, Sent, Announced, Marked, Clean

LEMMA GatewayInvStays == GatewayInv /\ [Next]_gatewayVars => GatewayInv'
<1> SUFFICES ASSUME GatewayInv, [Next]_gatewayVars PROVE GatewayInv'
  OBVIOUS
<1>1. Runs /\ Sent /\ Announced /\ (Marked \/ Clean)
  BY GatewayInvIs
<1>2. StepIsTrue
  BY <1>1, NextIsTrue
<1>3. Runs' /\ Announced' /\ (Marked' \/ Clean')
  BY <1>1, <1>2, HistoriesStay, Zenon DEF StepIsTrue
<1>4. Sent'
  BY <1>1, SentStays
<1> QED
  BY <1>3, <1>4, Zenon DEF GatewayInv, Runs, Sent, Announced, Marked, Clean

SameCount(sent, held, f) ==
  Cardinality({n \in DOMAIN sent : sent[n] = f}) = Cardinality({q \in DOMAIN held : held[q].face = f})

\* What is held bid for bid is held amount for amount.
LEMMA HeldCounts ==
  ASSUME NEW sent, NEW held, NEW f, HeldAs(sent, held), sent \in Seq(Faces)
  PROVE  SameCount(sent, held, f)
<1>1. PICK twin \in [DOMAIN sent -> DOMAIN held] :
        /\ \A m, n \in DOMAIN sent : twin[m] = twin[n] => m = n
        /\ \A q \in DOMAIN held : \E n \in DOMAIN sent : twin[n] = q
        /\ \A n \in DOMAIN sent : held[twin[n]].face = sent[n]
  BY DEF HeldAs
<1> DEFINE S == {n \in DOMAIN sent : sent[n] = f}
           T == {q \in DOMAIN held : held[q].face = f}
           t == [n \in S |-> twin[n]]
<1>2. t \in [S -> T]
  BY <1>1
<1>3. \A x, y \in S : t[x] = t[y] => x = y
  BY <1>1
<1>4. \A q \in T : \E x \in S : t[x] = q
  BY <1>1
<1>5. IsFiniteSet(S)
  <2>1. IsFiniteSet(DOMAIN sent)
    BY UpTo
  <2> QED
    BY <2>1, FS_Subset
<1> HIDE DEF S, T, t
<1>6. Cardinality(T) = Cardinality(S)
  BY <1>2, <1>3, <1>4, <1>5, AsMany
<1> QED
  BY <1>6 DEF S, T, SameCount

LEMMA GatewayInvTells == GatewayInv => RecordIsTrue
<1> SUFFICES ASSUME GatewayInv PROVE RecordIsTrue
  OBVIOUS
<1>1. ASSUME record # None, record.status = "matched", Quiet, ~muddled, ~hasty, NEW f \in Faces
      PROVE  Cardinality({n \in DOMAIN record.sent : record.sent[n] = f})
               = Cardinality({q \in Requests : atBot[q].face = f})
  <2>1. MatchedMeansHeld /\ GatewayTypeOK /\ RunsOnRecord
    BY <1>1 DEF GatewayInv
  <2>2. \A a \in Amends : amend[a].pc # "note"
    BY <1>1 DEF Quiet, InFlight
  <2>3. HeldAs(record.sent, atBot)
    BY <1>1, <2>1, <2>2 DEF MatchedMeansHeld
  <2>4. record.sent \in Seq(Faces)
    BY <1>1, <2>1 DEF GatewayTypeOK, Submissions
  <2>5. Requests = DOMAIN atBot
    BY <1>1, <2>1 DEF RunsOnRecord, Requests
  <2> QED
    <3>1. Cardinality({n \in DOMAIN record.sent : record.sent[n] = f})
            = Cardinality({q \in DOMAIN atBot : atBot[q].face = f})
      <4>1. SameCount(record.sent, atBot, f)
        BY <2>3, <2>4, HeldCounts
      <4> QED
        BY <4>1 DEF SameCount
    <3>2. {q \in Requests : atBot[q].face = f} = {q \in DOMAIN atBot : atBot[q].face = f}
      BY <2>5
    <3> QED
      BY <3>1, <3>2
<1>2. MatchedIsHeld
  BY <1>1, Zenon DEF MatchedIsHeld
<1> QED
  BY <1>2 DEF GatewayInv, RecordIsTrue

\* What the gateway has on record of a batch stays true, however many bids and amendments
\* there are and however often it was sent: it is what BoT was sent, unless that was sent
\* again with other terms; a batch called matched is held by BoT bid for bid, what is announced is matched
\* one to one, and what is on record was announced (submission-reconciler.ts:50-128,
\* prisma-reconcile.store.ts:33-112).
THEOREM RecordIsTrueAlways == GatewaySpec => []RecordIsTrue
<1>1. GatewaySpec => GatewayInit /\ [][Next]_gatewayVars
  BY DEF GatewaySpec
<1> QED
  BY <1>1, GatewayInitHolds, GatewayInvStays, GatewayInvTells, PTL
=============================================================================
