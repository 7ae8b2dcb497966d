-------------------------------- MODULE Gateway --------------------------------
(***************************************************************************)
(* bot-gateway after a batch was sent: it reads the batch back and matches *)
(* it with its record (reconciliation/submission-reconciler.ts), passes on *)
(* staff's amendments (bids/bids.controller.ts), stores BoT's callbacks    *)
(* and checks their sum against /winners (reconciliation/winners-check.ts).*)
(*                                                                         *)
(* All bids are of one account and one ISIN: others never match them.      *)
(***************************************************************************)
EXTENDS BankOfTanzania, SequencesExt

CONSTANTS
  Amends,       \* amendment requests, each made once
  Packages,     \* what a batch may hold: sequences of face values
  MaxAttempts,  \* reconciliations of one batch
  MaxFaults     \* bound: calls cut short, callbacks lost or repeated

\* What the gateway makes of a batch: bids of ours and BoT's by number, and the faces of
\* those that have no match.
Outcomes ==
  [status: {"matched", "breaks"}, pairs: SUBSET (Nat \X Nat), missing: Seq(Faces),
   rejected: SUBSET (Nat \X Faces), unexpected: SUBSET (Nat \X Faces)]

Submissions ==
  [sent: Seq(Faces), status: {"pending", "matched", "breaks"}, attempts: 0..MaxAttempts,
   outcome: Outcomes \cup {None}]

ASSUME GatewayAssumption ==
  /\ Packages \subseteq Seq(Faces)
  /\ None \notin Packages \cup Submissions \cup Seq(BotBids)
  /\ MaxAttempts \in Nat \ {0} /\ MaxFaults \in Nat

VARIABLES
  sending,   \* the batch the submission handler has sent and not recorded yet
  record,    \* the row of batch_submissions
  told,      \* the outcomes announced, each once, in order
  reconcile, \* the reconciler
  amend,     \* the amendment handlers
  inbox,     \* bot_callbacks: a sequence, for a row might be there twice
  check,     \* the winners check under way: the sum it read
  winners,   \* the row of winners_checks
  overtaken, \* history: an amendment was recorded since the reconciler read its batch
  muddled,   \* history: an amendment the record could not follow
  hasty,     \* history: an outcome saved over an amendment recorded meanwhile
  changed,   \* history: the batch was sent again, with other terms than BoT had
  faults

store == <<sending, record, told, changed>>
work == <<reconcile, amend, overtaken, muddled, hasty>>
verdicts == <<inbox, check, winners>>
gatewayVars == <<bank, store, work, verdicts, faults>>

Idle == [pc |-> "idle"]

GatewayInit ==
  /\ BankInit
  /\ sending = None /\ record = None /\ told = <<>>
  /\ reconcile = Idle /\ amend = [a \in Amends |-> Idle]
  /\ inbox = <<>> /\ check = None /\ winners = None
  /\ overtaken = FALSE /\ muddled = FALSE /\ hasty = FALSE /\ changed = FALSE /\ faults = 0

Fault == faults < MaxFaults /\ faults' = faults + 1

----------------------------------------------------------------------------
(* Submission: call, then record.  A resend carries the bids as they are   *)
(* by then, and finds that BoT has the batch (409): nothing compares them. *)

Terms(held) == [n \in DOMAIN held |-> held[n].face]

Send(p) ==
  /\ record = None /\ sending = None
  /\ BankTakes(p) /\ sending' = p
  /\ changed' = (changed \/ (atBot # None /\ Terms(atBot) # p))
  /\ UNCHANGED <<record, told, work, verdicts, faults>>

RecordBatch ==
  /\ sending # None /\ sending' = None
  /\ record' = [sent |-> sending, status |-> "pending", attempts |-> 0, outcome |-> None]
  /\ UNCHANGED <<bank, told, changed, work, verdicts, faults>>

SenderDies ==
  /\ sending # None /\ sending' = None /\ Fault
  /\ UNCHANGED <<bank, record, told, changed, work, verdicts>>

----------------------------------------------------------------------------
(* Reconciliation, one run at a time                                       *)

\* The next bid sent takes the first of BoT's bids of its face value that is left.
MatchNext(m, n, sent, held) ==
  LET fit == {q \in m.left : held[q].face = sent[n]} IN
  IF fit = {} THEN [m EXCEPT !.missing = Append(@, sent[n])]
  ELSE [m EXCEPT !.left = @ \ {Min(fit)}, !.pairs = @ \cup {<<n, Min(fit)>>}]

Matching(sent, held) ==
  LET m[n \in 0..Len(sent)] ==
        IF n = 0 THEN [left |-> DOMAIN held, pairs |-> {}, missing |-> <<>>]
        ELSE MatchNext(m[n - 1], n, sent, held)
  IN m[Len(sent)]

Ours(pairs) == {p[1] : p \in pairs}
Theirs(pairs) == {p[2] : p \in pairs}

MatchBatch(sent, held) ==
  LET m == Matching(sent, held)
      List(qs) == {<<q, held[q].face>> : q \in qs}
      rejected == List({q \in Theirs(m.pairs) : held[q].action = "rejected"})
      unexpected == List(m.left)
  IN [status |-> IF m.missing = <<>> /\ rejected = {} /\ unexpected = {} THEN "matched" ELSE "breaks",
      pairs |-> m.pairs, missing |-> m.missing, rejected |-> rejected, unexpected |-> unexpected]

\* The key of its announcement: of the pairs, only BoT's ids.
Fingerprint(outcome) == [outcome EXCEPT !.pairs = Theirs(@)]

ReadPending ==
  /\ reconcile = Idle /\ record # None
  /\ record.status \in {"pending", "breaks"} /\ record.attempts < MaxAttempts
  /\ reconcile' = [pc |-> "fetch", sent |-> record.sent] /\ overtaken' = FALSE
  /\ UNCHANGED <<bank, store, amend, muddled, hasty, verdicts, faults>>

ReadBack ==
  /\ reconcile.pc = "fetch"
  /\ reconcile' = [pc |-> "save", sent |-> reconcile.sent, outcome |-> MatchBatch(reconcile.sent, atBot)]
  /\ UNCHANGED <<bank, store, amend, overtaken, muddled, hasty, verdicts, faults>>

\* An outcome with the key of one announced before is not announced.
SaveResultBy(Key(_)) ==
  /\ reconcile.pc = "save" /\ reconcile' = Idle
  /\ LET o == reconcile.outcome IN
     /\ record' = [record EXCEPT !.status = o.status, !.attempts = @ + 1, !.outcome = o]
     /\ told' = IF \E n \in DOMAIN told : Key(told[n]) = Key(o) THEN told ELSE Append(told, o)
  /\ hasty' = (hasty \/ overtaken)
  /\ UNCHANGED <<bank, sending, changed, amend, overtaken, muddled, verdicts, faults>>

Status(outcome) == outcome.status

\* Mutant: the key is the batch and its status.
SaveResultByStatus == SaveResultBy(Status)

SaveResult == SaveResultBy(Fingerprint)

ReconcileDies ==
  /\ reconcile # Idle /\ reconcile' = Idle /\ Fault
  /\ UNCHANGED <<bank, store, amend, overtaken, muddled, hasty, verdicts>>

----------------------------------------------------------------------------
(* Amendments: read the bid at BoT, amend it there, then in the record     *)

InFlight == {a \in Amends : amend[a].pc \in {"ask", "note"}}

AmendRead(a, q, face) ==
  /\ amend[a] = Idle
  /\ amend' = [amend EXCEPT ![a] = [pc |-> "ask", q |-> q, was |-> atBot[q].face, face |-> face]]
  /\ muddled' = (muddled \/ record = None \/ InFlight # {} \/ asked # {})
  /\ UNCHANGED <<bank, store, reconcile, overtaken, hasty, verdicts, faults>>

AmendAsk(a) ==
  /\ amend[a].pc = "ask"
  /\ \/ /\ BankIsAsked(amend[a].q, amend[a].face)
        /\ amend' = [amend EXCEPT ![a].pc = "note"]
     \/ /\ auction = "closed" /\ UNCHANGED bank
        /\ amend' = [amend EXCEPT ![a] = [pc |-> "done"]]
  /\ UNCHANGED <<store, reconcile, overtaken, muddled, hasty, verdicts, faults>>

\* The first bid of the record with the face value the amended one had.
Candidates(a) == {n \in DOMAIN record.sent : record.sent[n] = amend[a].was}

AmendNoteWith(a, status) ==
  /\ amend[a].pc = "note"
  /\ record' = IF record = None \/ Candidates(a) = {} THEN record
               ELSE [record EXCEPT !.sent[Min(Candidates(a))] = amend[a].face, !.status = status]
  /\ muddled' = (muddled \/ record = None \/ \A n \in Candidates(a) : Candidates(a) # {n}) /\ overtaken' = TRUE
  /\ amend' = [amend EXCEPT ![a] = [pc |-> "done"]]
  /\ UNCHANGED <<bank, sending, told, changed, reconcile, hasty, verdicts, faults>>

AmendNote(a) == AmendNoteWith(a, "pending")

\* The call times out, whether or not BoT was asked; or the service dies.
AmendCut(a) ==
  /\ amend[a].pc \in {"ask", "note"}
  /\ \/ UNCHANGED bank
     \/ amend[a].pc = "ask" /\ BankIsAsked(amend[a].q, amend[a].face)
  /\ amend' = [amend EXCEPT ![a] = [pc |-> "done"]]
  /\ muddled' = TRUE /\ Fault
  /\ UNCHANGED <<store, reconcile, overtaken, hasty, verdicts>>

----------------------------------------------------------------------------
(* Callbacks and winners                                                   *)

\* Callback and event in one transaction, by the hash of the body: a second one fails.
ReceiveIf(c, new) ==
  /\ c \in callbacks
  /\ inbox' = IF new THEN Append(inbox, c) ELSE inbox
  /\ UNCHANGED <<store, work, check, winners>>

Receive(c) ==
  /\ ReceiveIf(c, ~Contains(inbox, c))
  /\ callbacks' = callbacks \ {c}
  /\ UNCHANGED <<auction, atBot, asked, faults>>

\* BoT has no answer to its callback, and posts it again; or gives up.
CallbackAgain(c) ==
  /\ ReceiveIf(c, ~Contains(inbox, c)) /\ Fault /\ UNCHANGED bank

CallbackLost(c) ==
  /\ c \in callbacks /\ callbacks' = callbacks \ {c} /\ Fault
  /\ UNCHANGED <<auction, atBot, asked, store, work, verdicts>>

Received == FoldLeft(LAMBDA sum, c : sum + c.amount, 0, inbox)

Confirmed == winners # None /\ winners.status = "matched"

\* An ISIN with allotments, not confirmed yet.
CheckIf(candidate) ==
  /\ check = None /\ candidate
  /\ inbox # <<>>
  /\ check' = Received
  /\ UNCHANGED <<bank, store, work, inbox, winners, faults>>

\* Mutant: what was checked once is not checked again.
CheckOnce == CheckIf(winners = None)

Check == CheckIf(~Confirmed)

SaveCheck ==
  /\ check # None /\ check' = None
  /\ winners' = [status |-> IF check = WinnersTotal THEN "matched" ELSE "break", total |-> check]
  /\ UNCHANGED <<bank, store, work, inbox, faults>>

----------------------------------------------------------------------------

BankStep ==
  /\ \/ \E q \in Requests : Reject(q)
     \/ \E m \in asked : Processed(m)
     \/ \E wins \in SUBSET Requests : CloseAuction(wins)
  /\ UNCHANGED <<store, work, verdicts, faults>>

Reconciling == ReadPending \/ ReadBack \/ SaveResult

Checking == Check \/ SaveCheck

Next ==
  \/ BankStep
  \/ \E p \in Packages : Send(p)
  \/ RecordBatch \/ SenderDies
  \/ Reconciling \/ ReconcileDies
  \/ \E a \in Amends :
       \/ \E q \in Requests, f \in Faces : AmendRead(a, q, f)
       \/ AmendAsk(a) \/ AmendNote(a) \/ AmendCut(a)
  \/ \E c \in callbacks : Receive(c) \/ CallbackAgain(c) \/ CallbackLost(c)
  \/ Checking

\* The intervals go on, and so does BoT with what it has in hand.
Fairness ==
  /\ WF_gatewayVars(Reconciling) /\ WF_gatewayVars(Checking) /\ WF_gatewayVars(RecordBatch)
  /\ WF_gatewayVars(\E c \in callbacks : Receive(c))
  /\ WF_gatewayVars(\E m \in asked : Processed(m) /\ UNCHANGED <<store, work, verdicts, faults>>)

GatewaySpec == GatewayInit /\ [][Next]_gatewayVars /\ Fairness

----------------------------------------------------------------------------

Quiet == asked = {} /\ InFlight = {}

Reads ==
  {Idle} \cup [pc: {"fetch"}, sent: Seq(Faces)]
    \cup [pc: {"save"}, sent: Seq(Faces), outcome: Outcomes]

\* The rows of the amendments; those in flight are of a bid BoT has.
Amendments ==
  {Idle, [pc |-> "done"]} \cup [pc: {"ask", "note"}, q: Requests, was: Faces, face: Faces]

GatewayTypeOK ==
  /\ sending \in Packages \cup {None}
  /\ record \in Submissions \cup {None}
  /\ told \in Seq(Outcomes)
  /\ reconcile \in Reads
  /\ amend \in [Amends -> Amendments]
  /\ atBot \in Seq(BotBids) \cup {None}
  /\ asked \subseteq [q: Requests, face: Faces]
  /\ callbacks \subseteq [q: Requests, amount: Faces]

\* A batch called matched is one BoT holds bid for bid (submission-reconciler.ts:5-11),
\* whatever amendments went by and whatever BoT made of them; but for one the record
\* could not follow, and for an outcome saved over an amendment recorded meanwhile.
MatchedIsHeld ==
  record # None /\ record.status = "matched" /\ Quiet /\ ~muddled /\ ~hasty =>
    \A f \in Faces : Cardinality({n \in DOMAIN record.sent : record.sent[n] = f})
                      = Cardinality({q \in Requests : atBot[q].face = f})

Untouched == \A a \in Amends : amend[a] = Idle

\* Until an amendment, the record is of "exactly what was sent" (batch-submission.service.ts:15)
\* and BoT holds; except a batch sent again after a bid had changed: BoT keeps what it had
\* first (:36-40, bot.service.ts:164-175).  Such a batch may still not be called matched.
SentIsHeld == record # None /\ Untouched /\ ~changed => record.sent = Terms(atBot)

\* What an outcome pairs off, it pairs off one to one.
OneToOne(outcome) ==
  /\ \A p, r \in outcome.pairs : p[1] = r[1] <=> p[2] = r[2]
  /\ outcome.status = "matched" => Ours(outcome.pairs) = Theirs(outcome.pairs)

\* Each bid of BoT's is matched with one of ours (submission-reconciler.ts:57-58), and
\* what is announced as matched leaves none over on either side.
AnnouncedOneToOne == \A n \in DOMAIN told : OneToOne(told[n])

\* The outcome on record is one the auction service was told, status, breaks and ids alike
\* (prisma-reconcile.store.ts:37-40); not always the last one it was told: an outcome that
\* comes back after another is not announced a second time.
OnRecordWasTold ==
  record # None /\ record.outcome # None =>
    \E n \in DOMAIN told : Fingerprint(told[n]) = Fingerprint(record.outcome)

\* What the gateway has on record of a batch is at BoT, was announced, and no two of our
\* bids share one of BoT's.
RecordIsTrue == GatewayTypeOK /\ SentIsHeld /\ MatchedIsHeld /\ AnnouncedOneToOne /\ OnRecordWasTold

\* What is under way of a submission, too, is what BoT was sent.
SendingIsHeld ==
  Untouched => /\ asked = {}
               /\ sending # None /\ ~changed => sending = Terms(atBot)

\* What the truth of a record rests on.  A submission is under way only while there is no
\* record; a run of the reconciler is of a batch on record with attempts left, and has its
\* bids as they are on record but for an amendment recorded since.
RunsOnRecord ==
  /\ sending # None => record = None /\ atBot # None
  /\ record # None => atBot # None
  /\ reconcile # Idle => record # None /\ record.attempts < MaxAttempts
  /\ reconcile # Idle /\ ~overtaken => record.sent = reconcile.sent

\* Ours and BoT's can be paired off, face value by face value.
HeldAs(sent, held) ==
  \E twin \in [DOMAIN sent -> DOMAIN held] :
    /\ \A m, n \in DOMAIN sent : twin[m] = twin[n] => m = n
    /\ \A q \in DOMAIN held : \E n \in DOMAIN sent : twin[n] = q
    /\ \A n \in DOMAIN sent : held[twin[n]].face = sent[n]

\* The one amendment in hand: BoT is asked between its two steps, and once it is noted BoT
\* has done it already, or holds a bid of a face value no bid on record has any more.
OneInHand ==
  /\ InFlight # {} \/ asked # {} => record # None
  /\ \A a, b \in InFlight : a = b
  /\ \A a \in InFlight :
       /\ amend[a].pc = "ask" => asked = {} /\ atBot[amend[a].q].face = amend[a].was
       /\ asked # {} => /\ asked = {[q |-> amend[a].q, face |-> amend[a].face]}
                         /\ atBot[amend[a].q].face = amend[a].was
  /\ InFlight = {} => \A m \in asked :
       /\ asked = {m}
       /\ \/ m.face = atBot[m.q].face
          \/ \A n \in DOMAIN record.sent : record.sent[n] # atBot[m.q].face

\* While no amendment waits to be noted, what is called matched is held.
MatchedMeansHeld ==
  (\A a \in Amends : amend[a].pc # "note") =>
    /\ record # None /\ record.status = "matched" => HeldAs(record.sent, atBot)
    /\ reconcile.pc = "save" /\ reconcile.outcome.status = "matched" /\ ~overtaken =>
         HeldAs(reconcile.sent, atBot)

GatewayInv ==
  /\ GatewayTypeOK /\ RunsOnRecord /\ SentIsHeld /\ SendingIsHeld
  /\ muddled \/ hasty \/ (OneInHand /\ MatchedMeansHeld)
  /\ AnnouncedOneToOne /\ OnRecordWasTold
  /\ reconcile.pc = "save" => OneToOne(reconcile.outcome)

\* An allotment callback that was lost is raised as a break, and stays one
\* (winners-check.ts:11-12); when none was, the totals end confirmed.  It takes one
\* callback for the auction to be looked at.
LossIsRaised ==
  <>[](inbox # <<>> => winners # None /\ (winners.status = "matched" <=> Received = WinnersTotal))
=============================================================================
