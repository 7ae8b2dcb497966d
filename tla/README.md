# A TLA+ model of the TCB government-securities platform

TCB's customers bid for Treasury bills and bonds; the platform keeps their money aside,
sends the bids in batches to the Bank of Tanzania (BoT) under maker-checker, and applies
BoT's verdicts. It is eight NestJS services, each with a PostgreSQL database of its own,
that call each other over HTTP and publish events through RabbitMQ, and a Vue portal for
customers and staff. This directory models what in them changes state: TLC checks the models
on small instances, and TLAPS proves every safety property that is checked, for every
instance; liveness is TLC's alone. Paths below are relative to the repository.

## 1. Inventory

| Component | State | Operations | Talks to |
|---|---|---|---|
| auction: bids (`apps/auction/src/bids`) | `bids`, `outbox_messages` | place, amend, withdraw | identity (redeem approval), cbs-gateway (holds), investor (eligibility) |
| auction: catalogue | `auctions` | upsert from BoT, close bidding, refresh | bot-gateway (events and poll) |
| auction: batches | `batches`, `bids`, outbox | prepare, approve, submit, resend | identity, bot-gateway |
| auction: results | `bids`, `batches`, `bid_outcomes`, outbox | on outcome, on reconciled | queue from bot-gateway, cbs-gateway (release, adjust) |
| cbs-gateway: holds | `funds_holds` | balance, place, adjust, release | core banking (a stub at this commit) |
| cbs-gateway: account opening | `account_opening_requests`, outbox | request, mark opened | core banking |
| identity: approvals | `step_up_grants` | grant, grant to staff, redeem | PIN and password verification |
| identity: PIN, codes, sessions | `accounts`, `otp_challenges`, `sessions` | verify, set, change, reset, lock; issue, verify; create, rotate, revoke | notification |
| identity: administration | `unlock_requests`, `admin_actions` | request and decide unlocks, sign out, staff accounts | sessions, PIN |
| bot-gateway: submission | `batch_submissions`, outbox | submit (find, call BoT, save) | BoT |
| bot-gateway: reconciliation, winners, amendments | `batch_submissions`, `winners_checks`, outbox | match with BoT, ask for winners, on timers; amend at BoT | BoT |
| bot-gateway: callbacks | `bot_callbacks`, outbox | receive one verdict | BoT calls it |
| bot-gateway: auction sync | `auction_snapshots`, outbox | diff BoT's auctions, on a timer | BoT |
| bot-gateway: BoT client | the token, in memory | sign in, request, retry, report health | BoT |
| outbox relay (`libs/outbox`) | `outbox_messages` | append, claim, publish, mark sent or failed | RabbitMQ |
| investor: onboarding, KYC, checks, registers | `investors`, `kyc_cases`, `cds_requests`, checks, outbox | save, submit, decide, CDS and bank account | cbs-gateway, registries |
| notification | the delivery log | send an SMS | SMS provider |
| settings, references, money (`libs`) | settings and their cache; none | get and set; make and check; parse | all |
| portal | the tab's tokens, stores and forms | sign in, enrol, onboard, bid, work the queues | all |
| settlement, BoT simulator, mock API, presentation | none of interest | a skeleton, two test stand-ins, layout | |

`PROJECT.json` lists every component with what is modelled of it and why not the
rest, and every hazard at its line.

**What is hard here.** No operation is one transaction. A handler checks, awaits another
service, and writes; between any two awaits other handlers run, and a call that timed
out at its caller (15 s, 60 s to bot-gateway) goes on at its callee. Some updates are
conditional on the status they expect (withdraw, prepare, approve, redeem, a code's use)
and some are not (amend, adjust, submit's failure, apply, a change of PIN): each of the
latter is a hazard. Messages arrive at least once and in any order. A process may die
between any two awaits, and nothing on start-up takes up what it left. The portal keeps
copies of all of it, read by requests that overtake each other.

**What makes each component correct.**

- *holds*: an account is never promised beyond its ledger balance; what was given
  back stays given back; a repeated place changes nothing.
- *approvals*: one use, by the account, for the scope and within the amount approved.
- *bids*: a standing bid has its money and its approval; no money is held for
  nothing; one bid per idempotency key.
- *batches*: nobody approves a batch of their own; no bid reaches BoT twice; what we
  call submitted is at BoT.
- *results*: a verdict is applied once and for good; what is held is what is owed.
- *identity*: five guesses are five guesses under any parallelism; a code is used once; a
  replayed refresh token ends its family; a PIN is replaced by its holder or by two officers.
- *outbox*: an event committed is published, at least once. *Catalogue*: it follows BoT.
- *bot-gateway*: its record is what BoT holds; a lost allotment is raised; an acknowledged
  callback is announced once; a call is not carried out twice by its retries.
- *onboarding*: who may bid was decided on the details on record; a closed case stays
  closed; Core Banking is asked for one account; nobody who waits is on no list.
- *portal*: what is shown was so, belongs to who sees it, and what is offered is accepted;
  a second bid is only possible where the first one's fate was in doubt.

## 2. Plan

Order: the money first, then what protects it, then what feeds it, then what shows it.

| Step | Modules | Models | State |
|---|---|---|---|
| 1 | `Holds` | cbs-gateway's holds | checked, proved |
| 2 | `Approval`, `StepUp` | the promise of an approval; identity's grants | checked, proved, refinement proved |
| 3 | `Bids` | auction's bids, composing `Holds` and `Approval` | checked, proved |
| 4 | `Batches` | batches, bot-gateway's submission, BoT | checked, proved |
| 5 | `Results` | verdicts from the queue | checked, proved |
| 6 | `Sessions`, `Logins`, `Identity` | sessions, PINs, codes, unlocks, staff | checked, proved |
| 7 | `Channel`, `Outbox` | at-least-once delivery and its implementation | checked; the refinement's safety proved, its liveness checked |
| 8 | `Feed` | auction sync, outbox, catalogue | checked; its safety proved |
| 9 | `BankOfTanzania`, `Gateway` | record, reconciliation, amendments, winners | checked; the record proved |
| 10 | `BankLink`, `Callbacks`, `Wire` | the client, the callbacks and the terms on the wire | checked, proved |
| 11 | `Onboarding`, `Verify`, `Enrol` | the way to bidding | checked, proved |
| 12 | `Tab`, `Wizard`, `BidForm`, `Portfolio`, `Table`, `Desk` | the portal | checked, proved |
| 13 | `Settings`, `References`, `Messages` | the shared libraries, notification | checked, proved |

The plan is carried out. What no theorem states is liveness, which is out of the proof
system's reach (section 7).

## 3. Modules and code

| Module | State | Correspondence |
|---|---|---|
| `Holds` | `hold` (table), `call` (one handler per request in flight), `overlapped` (history) | `PlaceLookUp`/`PlaceCommit`, `AdjustLookUp`/`AdjustCommit`, `ReleaseLookUp`/`ReleaseCommit` are `holds.service.ts` before and after the await at which others may run. The transactions under the per-account advisory lock are one step from the lock on; what adjust reads before the lock is a step of its own. |
| `Approval` | `usedBy` | what a PIN approval promises: used at most once, for good |
| `StepUp` | `grant` (table), `redemption` (handlers) | `Issue` is `grant` and `grantStaff` after the verification; `Expire` is the clock; `Check` and `Claim` are `redeem` up to and from its conditional update |
| `Bids` | `open`, `bid`, `req` (handlers), `usedBy`, `announced` (outbox), `trouble` (history), and the state of `Holds` | one action per await of `bids.service.ts`. A call to cbs-gateway is a request in `Holds`, handled at its own pace by `Holds!Handle`. The redemption is one step (`Approval!Use`), for `StepUp` implements it; `SpendLost` is its lost answer. |
| `Batches` | `phase`, `bid`, `write`, `batch`, `task`, `gateway`, `bot`, `submitted` | prepare, approve and submit of `batches.service.ts`; find, call and save of bot-gateway in the same task's `gw`; BoT takes a reference once and answers 409 afterwards. `write` is an investor's request that passed `assertOpen` and has still to write: the steps between, `Bids`, touch no batch. |
| `Results` | `queue`, `delivered`, `handler`, `bid`, `batch`, `stored`, `applied`, `announced`, `hold`, and histories | one action per await of `results.service.ts`; `Throw` is the redelivery of `queueOptions`, at the head of the queue, up to `x-delivery-limit` |
| `Sessions` | `account`, `session`, `req` (handlers), `ended` (history) | `session.service.ts` and what of `auth.service.ts` opens, refreshes and ends sessions, one step per access to the database; a refresh is `committed` for a while, in which an update of all sessions that waited for it misses its successor (`EndAll`) |
| `Logins`, `Identity` | `code`, `unlock`, `now`; nothing more but histories | `pin.service.ts`, `otp.service.ts`, `auth.service.ts`, `customer-logins.service.ts` (`Logins`); `staff-auth.service.ts`, `staff-admin.service.ts` (`Identity`); all of them over the same accounts and handlers |
| `Channel`, `Outbox` | `written`, `reached`, `queue`; `row`, `relay`, `queue`, `order` | what the outbox promises; `outbox.relay.ts` and `outbox.store.ts`: insert, commit, claim with SKIP LOCKED, publish, mark |
| `Feed` | `bot`, `sync`, `snapshot`, `rows`, `catalogue`, `writer`, `closing` | `auction-sync.service.ts` and its store; the queue is `Channel`'s; `catalogue.service.ts`: the event, the poll and staff's closing, each a read and a write |
| `BankOfTanzania` | `auction`, `atBot`, `asked`, `callbacks` | the bank as bot-gateway's code and the simulator describe it (external) |
| `Gateway` | `record`, `reconcile`, `amend`, `inbox`, `check`, `winners`, `told` | `batch-submission.service.ts`, which sends the bids as they are by then, `submission-reconciler.ts`, `bids.controller.ts`, `callback.service.ts`, `winners-check.ts`, with their stores |
| `BankLink` | `manager`, `call`, `bank`, `strays`, `now` | `bot-token.manager.ts`, `bot-api.client.ts`, `bot-transport.ts`: one shared token, joined sign-ins, retries, health |
| `Callbacks` | `posts`, `receiver`, `inbox`, `outbox`, `heard` | `callback.controller.ts` and `callback.service.ts`: signature, freshness, one transaction, 200 |
| `Wire` | the terms on each leg | the conversions of a face value and a price from the form to BoT and back |
| `Onboarding` | `investor`, `profile`, `cases`, `request`, `opening`, `task` | `onboarding.service.ts`, `kyc.service.ts`, `decisions.service.ts`, `cds.service.ts`, `account-opening.service.ts`: every request is a task of a read, a transaction and what follows; the transaction of a submission is two steps, for the case it finds open may be decided before it is written (`FindOpen`, `Queue`), and holds the investor's row meanwhile (`RowIsFree`). `KycQueue`, `CdsTasks`, `CustomersIn`, `BankAccounts` and `Eligible` are the queries of `kyc`, `cds`, `registers` and `eligibility`, and the portal's counts of them |
| `Verify` | a case's declared, registry and core-banking facts | `checks.service.ts`, `names.ts`, the screening and the recommendation |
| `Enrol` | `acct`, `codes`, `scr`, `req`, `left`, `gone` | `RegisterView`, `SignInView`, `ResetPinView` against as much of identity as answers them |
| `Tab` | `session`, `tab`, `task`, `fetch` | `account.ts`, `http.ts`, the router's guard, `investor.ts`'s loading. Both awaits of `load` are steps (`MeKnown`, `OnboardingKnown`), so is the server's half of a sign-out (`EndSession`); `tab.front` is who is in front of the screen |
| `Wizard` | `row`, `known`, `fields`, `request` | `OnboardingView.vue` against the investor service |
| `BidForm` | `form`, `call`, `bid`, `available` | `bid-rules.ts` and the portal's preview; `PlaceBidView.vue` and `bidding.ts`'s placeBid |
| `Portfolio` | `stands`, `onHold`, `store`, `errand` | `investor.ts`, `MyBidsView.vue`, `DashboardView.vue` against auction and cbs-gateway |
| `Table` | `list`, `asked`, `shown`, `local` | `useTable`, `useLocalTable`, `DataTable.vue` |
| `Desk` | `kase`, `cds`, `sequel`, `auction`, `batches`; `queues`, `loads`, `op` | `operations.ts`, `session.ts`, the staff views, `roles.ts` and the guards they meet; what follows a decision on a case is a step of its own, which may fail or never come (`Follow`) |
| `Settings`, `References`, `Messages` | a row, its caches; a reference and a slip; one message | `settings.service.ts`; `reference.ts` and the look-ups by one, checked (`LookUp`), searching (`Search`) and as written (`Find`); the senders, `dispatch.service.ts`, the templates |
| `*_proofs` | | theorems, section 7 |
| `MC*` | | instances for TLC |

What is abstracted: amounts are small numbers; references, ids, PINs, codes and tokens are
model values or numbers; a validation of a body is a set of the bodies that pass; wording
is the list of a template's variables. `history` variables are read by no action; they
say when a property's exception applies. A field that nothing reads any more is dropped
(a maker once the checker has decided). Each module keeps of its neighbours what its own properties
need: `Results` has the hold as a number that `Pay` sets (the interleavings inside
cbs-gateway are in `Holds`), `Batches` has the results as `Reconcile` and `AcceptBid`, and
what the services do in several steps is one step behind the portal's screens, but for what follows
a decision on a case.

Parts that share no state are checked by one run, one at a time: `MCPortal`,
`MCOnboarding` and `MCSupport` have a variable `part` that says which of them a
behaviour is about, so that their states add up instead of multiplying.

## 4. Passing runs

| Run | Instance | Distinct states | Shows |
|---|---|---|---|
| `Holds_safety` | 2 holds, 1 account with 3, amounts 1 and 2, 3 handlers | 144 thousand | over-commitment needs two overlapping adjusts; released is final |
| `Bids_safety` | 1 investor with 2, 3 requests, 4 approvals, 1 key, all faults | 447 thousand | funding, approval, idempotency, no money held for nothing |
| `Batches_safety` | 2 bids, 2 references, 2 staff, 3 requests, all faults | 141 thousand | maker-checker, sent once, submitted is at BoT |
| `Results_safety` | 2 equal bids, 2 ids, 4 messages, 2 handlers, 2 faults, 2 deliveries | 2.0 million | finality, finding of ids, money owed, nothing left pending |
| `Results_liveness` | the same, 1 handler, no fault, an allotment above par; two callbacks, the reconciliation that found both bids and one that found a single bid, either of them, in every order | 2.8 thousand | every bid is decided, but one turned down after it was found |
| `Identity_safety` | 1 customer and 1 member of staff, 3 sessions, 3 requests, 2 secrets, 2 guesses a PIN and 2 a code, 2 instants | 317 thousand | guesses counted, sessions owed, codes used once, PINs replaced by holder or two officers |
| `Outbox_safety` | 2 relays, 3 rows, batches of 2, 1 fault | 140 thousand | refines `Channel`, its liveness included |
| `Feed_safety` | 2 auctions, 2 changes, 1 closing date, 1 handler, 1 fault | 131 thousand | snapshots are what was announced; the catalogue catches up |
| `Gateway_safety` | 1 batch of 2 bids, 1 amendment, 2 attempts, 1 fault, any resend | 183 thousand | the record is what BoT holds; a lost allotment is raised |
| `Onboarding_safety` | 2 tasks, 2 staff, 1 customer, 2 submissions, 1 fault; apart from it 2 phones, 4 requests, 2 codes, 1 mishap | 2.7 million | closed stays closed unless a submission had found it open, one account opened, ready as decided, nobody on no list, what the enrolment screens say |
| `Portal_safety` | seven parts, see below | 1.4 million | whose tokens a tab holds, what is shown, offered and sent |
| `Support_safety` | eight services, see below | 1.05 million | approvals, BoT link, callbacks, terms, settings, checks, references, messages |

The parts of `Portal_safety`: the tab has 2 people and 3 sign-ins, expiries, lost answers and
reloads in any mix; the
wizard 3 saves and 1 lost answer; the form face values below, at and above the minimum,
prices at and above par and 2 calls; the portfolio 2 bids, 2 errands, 2 moves of the market
and 1 slip; the tables 2 searches over 2 rows with one on a page; the desk 4 staff of 4
roles, one of them an observer who may see no queue, 2 shifts and 1 batch. Those of
`Support_safety`: 1 approval and 3 redemptions; 2 callers of the client, a token for 5
instants, 1 retry, 1 revocation, 1 loss; 2 receivers of 2 posts, 1 death; 2 processes and 3
writes of a setting; references of
two characters, each with every swap of neighbours and any one character replaced by one of
seven: values 4, 8, 16 and 31 apart among them, and look-alikes, looked up in three ways.

**Why the bounds are enough to be interesting.** Every race these services have is
between two handlers on one row, with a third party changing what one of them read:
hence three requests (calls, redemptions, tasks) and two rows. Amounts 1 and 2 on a
ledger of 3 (`Holds`) make one hold fit, two small ones fit and two large ones not, and
leave room for an increase that fits alone and not together; on a ledger of 2 (`Bids`)
two bids of 1 fit, and an increase of one of them only without the other. Two equal bids
are the only case in which matching by terms is ambiguous. `Results_safety` queues the two
callbacks in the order BoT sent them and the reconciliations anywhere: with two handlers,
either may take its message long after the other. Two faults allow a crash of a redelivery
of a crashed handler, and a delivery limit of two makes dead letters happen (the code's
limit is larger, which only postpones them). Two guesses and two codes make "the last
one" and "the one before" different. Three rows in batches of two leave one for a second
relay while the first has its own. Symmetry is over model values no property or
constant tells apart, and no run with a liveness property uses it.

Deadlock is checked in `Holds_safety`, where a caller can always send again. The
other instances are finite (requests are made once, BoT changes twice), so they really
stop, and their configurations say `CHECK_DEADLOCK FALSE`.

**Properties of several parts.** A run checks what one question asks; its named parts are
conjuncts in the module. `HoldsFollowBids`: a standing bid has its hold (`BidIsFunded`) of
its amount (`HoldMatchesQuietBid`), a hold has its bid (`NoOrphanHold`), and a withdrawal
gives it back. `BatchesAreSafe`: `MakerChecker` and `SentOnce`. `VerdictsAreSettled`:
nothing stored stays unapplied (`PendingOnlyIfDropped`), what is held is owed
(`HoldIsWhatIsOwed`), told once (`AnnouncedOnce`). `FinalIsKept`: `FinalUnlessRaced` and
`RequestStays`. `SessionsAreDue`: `SessionsKept`, and a token's role is its account's
(`TokensSayRole`). `HolderOrTwo`: `PinReplacedByHolder`, `OpenedWithPin`, `LiftedByTwo`.
`RecordIsTrue`: `SentIsHeld`, `MatchedIsHeld`, `AnnouncedOneToOne`, `OnRecordWasTold`. `ReadyAsDecided`:
`EligibleAsDecided`, `ReadyIsTold`. `LinkIsTrue`: `NeverExpiredInFlight`,
`RefusedOnlyIfOvertaken`, `VerdictIsTrue`. `ChangesAreKept`: `OwnChangeSeenUnlessRaced`,
`HistoryChains`. `SnapshotIsKept`: `SnapshotIsAnnounced`. `CatalogueFollows`:
`EarlyCutoffKept`, `CatalogueCatchesUp`. `MoneyIsAsShown`: `PreviewIsHeld`,
`AllotmentIsCovered`. `StoreIsTrue`: `WithdrawnIsShown`, `FundsAgree`. `TablesAreTrue`:
`RowsAreOfPage`, `QueueShowsRows`. `TabIsOwn`: `ReplayOnlyIfRaced`,
`TokensAreOwn`, `KnownIsOwn`, `ShownIsOwn`.
`WizardIsTrue`: `SubmitsKnowingly`, `ScreenFitsService`. `DeskIsOwn`: `QueuesAreOwn`,
`OfferedIsAccepted`. `DeskGuides`: `SomebodyCanGoOn`, `NotesAreTrue`, `ScreensLead`,
`UnlocksLead`, `AttentionLeads`. `EnrolmentIsAsSaid`: `PinIsAsSaid`, `StepFitsNumber`. A
type invariant, where a module has one, is the first conjunct of one of them.

**Properties with an exception.** Several properties are stated with the exact condition
under which the code keeps them, recorded in a history variable; the condition is the
divergence section 6 lists. `WithinLedgerUnlessOverlapped` excepts two overlapping adjusts
of one hold; `BidIsFunded` a commit whose acknowledgement was lost; `HoldMatchesQuietBid`
bids two requests worked on at once; `NoOrphanHold` and `WithdrawalReleases` handlers cut
short; `PendingOnlyIfDropped` ids mapped by one delivery and asked for by none;
`HoldIsWhatIsOwed` holds whose one call was lost; the last three of `Results` bids raced by
two handlers; `ReadyAsDecided` and `WaitingIsListed` applications where a task wrote over
what another wrote, or over a decision taken or under way, or that a task died over;
`EveryBidIsDecided` a bid turned down after it was found; `SessionsKept` the successor of a refresh
committed while the sessions were being ended; `ClosedStays` a decision that falls between the
two statements of a submission; `PinIsAsSaid` a reset that was held up between its code and its PIN;
`EarlyCutoffKept` a
writer that read before the close; `RefusedOnlyIfOvertaken` a joined sign-in or a token
ended again; `OwnChangeSeenUnlessRaced` and `HistoryChains` a read or a write that
overlapped a write; `OnlyMeantIsLookedUp` what the check character cannot see; `TokensAreOwn`
a refresh that was out when somebody left the tab or came to it, `KnownIsOwn` also a request;
`ShownIsOwn` these, and a load that failed or was overtaken by the one before; `RecordIsTrue` a batch sent
again after a bid had changed, an amendment the record could not follow, or an outcome saved over one;
`NotesAreTrue` a service that stopped after a decision, or a message it could not send;
`AutoApprovedIsVerified` a listed name with
a word that agrees with two, and who became a customer during the checks; `WizardIsTrue` a
write of another device, a late request or a lost answer; `DeskIsOwn` and `AttentionLeads`
what an earlier sign-in left in the tab or still brings. Each run has behaviours with and
without the exception.

**Fairness.** `FairResultsSpec` is weak fairness of each consumer: the broker hands over
what is queued and the event loop resumes each continuation whose promise settled;
`EveryBidIsDecided` is of one handler and no fault, which is what its run
says. `OutboxSpec` is weak fairness of the relays' work, which a timer starts again after
every failure. `Feed` adds the poll's timer and its consumer, `Gateway` the timers of
reconciliation and of the winners' check. Sending a request, faults, and what people or
BoT decide are never fair.

## 5. Violation runs

There is none: each place where the code does less than its comments say is part of a passing
property, as its exception, so that the run shows when exactly it happens and that nothing else
causes it. Removing an exception makes TLC print the behaviour.

## 6. Divergences and hazards met

What the models showed, or reading for them did. Those with a property behind them name it.

**Bids and holds**
- `bids.service.ts:97` "The funds are held but no bid exists: give them back." If the
  transaction committed and its answer was lost, the bid exists and loses its hold
  (`BidIsFunded` without its exception).
- `bids.service.ts:64`: a `placeHold` that takes effect after its caller's time-out
  leaves money held without a bid (`NoOrphanHold`).
- `bids.controller.ts:108` "the hold is released": not if `releaseHold` fails at
  `bids.service.ts:140`; a second withdrawal is refused (`WithdrawalReleases`).
- `bids.service.ts:119`: two amends interleave, and hold and bid keep different amounts
  (`HoldMatchesQuietBid`); `:121`: an amend cleared before the cut-off changes a bid that is
  in a batch by then.
- `clients.ts:63` says an approval is spent "as the action it authorised commits", and
  `libs/auth/src/lib/step-up.guard.ts:19-26` that burning it earlier would leave the user
  unable to retry; `spend` at `bids.service.ts:61` and `:118` comes before the hold and the write.
- `holds.service.ts:45` "so two bids at once cannot both spend the same balance": true of
  place; adjust reads the amount it compares with before taking the lock (`:70`), so two
  adjusts of one hold can over-commit the account (`WithinLedgerUnlessOverlapped`).

**Batches and results**
- `batches.service.ts:216`: a failure written late over a success makes a batch whose every
  resend fails on the unique key of its event.
- `results.service.ts:114`: an acceptance read early is written over an allotment
  (`FinalUnlessRaced`); `:67`: a rejection reported after its id was found is stored and
  never applied (`PendingOnlyIfDropped`), so that the bid stays undecided, although `:20-22` has it
  that the callback and the reconciliation are applied "whichever order the two arrive in"
  (`EveryBidIsDecided`).
- `results.service.ts:148-152`: a failed or lost call leaves the hold of a decided bid as it
  was, and the SMS says "has been released" (`:147-165`); `:150` never raises it for an allotment
  that costs more than the bid held, though `:127` says "Keep exactly what the allotment
  will cost"; `:126-128` reads an allotted price above par with more than two decimals as par.
- `results.service.ts:21` says bot-gateway matches "CDS account, face value and price";
  `submission-reconciler.ts:72-78` does not compare prices.
- `batch-submission.service.ts:15` "Exactly what was sent": after an answer was lost, the batch is
  sent again with the bids as they are by then (`batches.service.ts:211`), BoT's 409 is taken for a
  success, and what was sent last is recorded, which BoT does not hold (`SentIsHeld`). The
  reconciliation still calls such a batch matched only if BoT holds the very bids (`MatchedIsHeld`).
- `callback.service.ts:172`, `results.service.ts:124`: an allotment whose amount cannot be
  read is recorded as allotted in full. A callback without a request id or of an unknown status
  is acknowledged and changes nothing (`results.service.ts:72`).

**bot-gateway, feed, outbox**
- `prisma-reconcile.store.ts:76-80` saves its result over a `pending` set by an amendment
  meanwhile, and the amended batch is never matched again; `:37-40`: an outcome that
  recurs after another is not announced again; after an amendment at BoT
  (`bids.controller.ts:99`) the reconciliation matches none of our bids (`results.service.ts:46-52`).
- Two amendments and a run of the reconciler: it reads the bids, both amendments are recorded
  with BoT still to answer the second, which BoT refuses; the run then finds on record what
  it had read and saves a match that BoT does not hold (`MatchedIsHeld`; comparing what was
  read with what is on record does not tell, and the history marks every amendment since).
- `winners-check.ts:11-12`: if all allotment callbacks are lost the ISIN is never a candidate.
- `prisma-snapshot.store.ts:38`: contents A, B, A, B meet the unique key of the second
  announcement and stop the whole sync for good, so that `auction-sync.service.ts:6` "kept current" fails.
- `outbox.store.ts:18-21` "two relays never claim the same row": they do after a claim
  commits; `outbox.relay.ts:20` "per-aggregate emission order": ids are drawn before the commit,
  and the consumer ignores `sequence`.
- `catalogue.service.ts:47`: the early cut-off is overwritten by a writer that read before it
  (`EarlyCutoffKept`).
- `bot-transport.ts:128`: a time-out while the body is read is no `BotApiError`, so neither
  retried nor reported, though `bot-api.client.ts:16` says time-outs are. A late 401 invalidates
  a fresh token (`RefusedOnlyIfOvertaken`).
- `configuration.ts:107` checks only the bill's minimum against BoT's: a lower bond
  minimum makes the gateway refuse whole batches (`bot.service.ts:129`).

**Identity**
- `pin.service.ts:108-109`: a change of PIN in flight overrides one replaced meanwhile;
  parallel correct entries use up the attempts and lock without wrong guesses; a request that
  dies between its last reservation and the lock leaves an account shut and not locked, which
  `customer-logins.service.ts:103` answers with not_locked.
- `pin.service.ts:143-144` "Every session is revoked": the update runs at READ COMMITTED. If a
  refresh has retired the session and not committed, it waits for that row, finds it revoked and
  does not see the successor, which lives on after a reset, a lockout, a replay or a sign-out by
  staff (`session.service.ts:91-110`, `:124`; `SessionsKept` without its exception). And `:89` looks
  at the lockout of a PIN only: a member of staff locked out of their password goes on refreshing.
- `session.service.ts:116-121`: signing out with the access token of a session refreshed
  since leaves its successor alive. `auth.service.ts:237-258`: a sign-in that races a lock, a
  suspension or a change of role opens its session afterwards; `staff-admin.service.ts:126`: overlapping
  updates may leave sessions of the old role.
- `otp.service.ts:43`: two issues at once pass the rate limit and leave two live codes.
  `auth.service.ts:181-188`: a reset held up between its code and its PIN overwrites a later one.
- `customer-logins.service.ts:142-172`: an unlock left pending lifts a later lockout. Two
  administrators who disable each other at once leave none (`staff-admin.service.ts:101`).

**Investor**
- `onboarding.service.ts:167-177`: a submission reads the case that is open and then updates it by
  its id, whatever has become of it. An officer's decision committed in between, conditional on
  its status (`kyc.service.ts:69-70` "so two officers acting at once cannot both succeed"), is
  undone: the case is `new` again (`ClosedStays` without its exception).
- `onboarding.service.ts:52`: a case may be recommended while the investor edits what it is
  about. `kyc.service.ts:16-17,110-116`: maker and checker are compared with the case's last
  maker, so that a case sent back in between may be decided by who recommended it first. An
  automatically approved resubmission leaves its old case open, and acting on that one
  overwrites an approved investor (`ReadyAsDecided`). `kyc.service.ts:90-104`: so does a question put
  to the investor while another task is about to approve: they may edit and submit again, and are
  approved on what they said before. It takes three submissions, one more than the run has.
- `account-opening.service.ts:26-46`, `decisions.service.ts:137-141`: a crash between creating
  a request and handing it over leaves it unsent; a crash after the case's transaction leaves
  the investor under review with a closed case. `cds.service.ts:93-94`: two completions at
  once and neither tells the customer that bidding is open.
- The queue takes 200 rows oldest first, three days' decided ones included (`kyc.service.ts:38-40`).
- `names.ts:57,64`: coverage is greedy. If core banking is unavailable at submission, a
  staff approval can open a second account for a customer who has one.

**Libraries**
- `settings.service.ts`: a read that began before a write puts the old value back into the
  cache (`OwnChangeSeenUnlessRaced`); overlapping writes break the history's chain (`HistoryChains`).
- `reference.ts:13-15` "A mistyped character is rejected": not one 16 values apart at places 1 and 5,
  8 at place 3 or 4 at place 7, and multiples of these; every other one is, and so is every swap of
  neighbours (`OnlyMeantIsLookedUp`, exactly these). `:115` "Called before any lookup":
  `kyc.service.ts:135`,
  `cds.service.ts:47` and `bids.service.ts:232` look up what is written, neither checked nor normalised,
  so that `:11-12` "someone who writes "O" where the code has "0" still finds their bid" does not
  hold of a
  search for bids.
- `dispatch.service.ts:30` "every outcome is recorded": not if the process dies after the SMS.
  `cursorWhere` in `libs/pagination` drops rows that share the boundary's timestamp; no service uses it.

**Portal**
- `bidding.ts:147` draws a new idempotency key on every confirmation, though `:133-136`
  says a retry returns the same bid (`SecondBidOnlyInDoubt`).
- `MyBidsView.vue:66-67` says a bid can be withdrawn "until TCB submits it to BoT"; `bids.service.ts:137`
  refuses after the cut-off. Overlapping refreshes of the store are unordered (`investor.ts:62-75`).
- `account.ts:13`: `restore` goes past the shared refresh, so that a reload during one
  presents a token twice and ends every session. A refresh under way at sign-out is
  not called off (`account.ts:40-62`): it gives the tab the tokens of the one who left, and whoever
  is there next acts in their name (`TokensAreOwn` without its exception). A `load` that is half
  way (`:71-76`) when another signs in shows the one before (`KnownIsOwn`).
- `App.vue:28-36`: nothing clears the investor's store on sign-out; and a sign-in begins two
  loads, of which the first, without bids, may be answered last, which leaves the investor
  without bids and funds on the screen until something else loads them (`ShownIsOwn`).
- `RegisterView.vue`: a PIN saved whose answer was lost leaves a step where every retry is refused; a
  reload there leaves an account signed in without a PIN. A reset whose answer was lost
  says "invalid code" though the PIN changed (`PinIsAsSaid`). A screen left with a request
  running saves the PIN it was asked for while the customer is asked for one again (`StepFitsNumber`).
- `OnboardingView.vue:44`: a failed first fetch stays at "Loading…"; a submission whose answer was lost
  cannot be left without a reload; what is typed during a save is overwritten; nothing
  refreshes an open tab when the SMS says "you can now bid" (`WizardIsTrue`).
- `operations.ts:85-89`: reset keeps the batches, so the next person sees "Batches awaiting
  approval" of the previous one; `http.ts:135` "The list has been refreshed": after a refused
  action nothing is (`operations.ts:111-133`). `UsersView.vue:174,184` asks for what an
  administrator may not see, `OverviewView.vue:133` links an observer to a screen that sends
  them back (`DeskGuides`). `KycView.vue:60-62` says of a decided case that the CDS request "has been
  raised" and the investor "has been notified by SMS": a service that stops after the decision has
  done neither, for what follows is a transaction of its own (`kyc.service.ts:113-130`), and an SMS
  that fails is only logged (`status-notifier.ts:38-42`; `NotesAreTrue`). `OverviewView.vue:53-59`
  asks for no permission before it says
  "Batches awaiting approval": an observer who signs in after an officer is sent to a screen
  they may not open, until their own load ends or if an earlier one ends after it
  (`DeskIsOwn`, `AttentionLeads`). `bidding.ts:192`: "Prepare" is offered for an auction BoT has
  closed; an approved batch whose sender died has no "Send again"; makers are compared by
  display name (`SubmissionView.vue:79`).
- `useTable`: a count read before rows while a list shrinks leaves an empty page (`TablesAreTrue`).

## 7. Proofs

TLAPS checks every leaf of `*_proofs.tla`. The theorems hold for every value of the constants
that the named `ASSUME`s allow (each is beside its `CONSTANT`s, and TLC evaluates it); nothing
else is assumed. An invariant that a run checks is seldom inductive; each section below
names what has to be added to it, and TLC checked the whole on the run's instance
before it was proved. A proof has one lemma per action, which says what the step does to
the rows it touches, and lemmas that say what a part of the invariant depends on, so
that an action that leaves that alone need not be looked at again.

| Module | Proves | Property of the runs |
|---|---|---|
| `Holds_proofs` | `Holds`: types; a released hold stays released; only an adjust changes an amount; no account is promised beyond its ledger but by overlapping adjusts | `ReleasedIsFinal`, `WithinLedgerUnlessOverlapped` |
| | `Feed`: a change is recorded exactly when it is announced; an early cut-off stays | `SnapshotIsKept`, the safety half of `CatalogueFollows` |
| | `Portfolio`: what the investor sees of their money agrees | `StoreIsTrue` |
| `Bids_proofs` | `Bids`: funding, approval, one bid per key | `HoldsFollowBids`, `BidIsApproved`, `OneBidPerKey` |
| | `Gateway`: what is called matched is what BoT holds | `RecordIsTrue` |
| `Batches_proofs` | maker-checker, sent once, submitted is at BoT | `BatchesAreSafe`, `SubmittedIsAtBot` |
| `Results_proofs` | `Results`: what is final stays, verdicts are settled and paid | `FinalIsKept`, `VerdictsAreSettled` |
| | `Wizard`: what is submitted is what was reviewed | `WizardIsTrue` |
| `Identity_proofs` | lockouts, sessions, codes, whose hands a PIN changes in | `SpentIsLocked`, `SessionsAreDue`, `CodesKept`, `HolderOrTwo` |
| `Onboarding_proofs` | `Onboarding`: closed cases stay, one account, who may bid was decided on and told, nobody waits unseen | `ClosedStays`, `OneAccountIsOpened`, `ReadyAsDecided`, `WaitingIsListed` |
| | `Enrol`, `BidForm`, `Table`: a PIN is as the screen said; the money approved is the money held; a second bid needs a doubt; tables show their page | `EnrolmentIsAsSaid`, `MoneyIsAsShown`, `SecondBidOnlyInDoubt`, `TablesAreTrue` |
| `Outbox_proofs` | `Outbox`: each step of the relays is one of `Channel` or none | the safety half of `ImplementsChannel` |
| | `Tab`, `Desk`: a token is presented once, tokens and what is shown are one's own, what is offered is accepted, somebody can go on | `TabIsOwn`, `DeskIsOwn`, `DeskGuides` |
| `Support_proofs` | `StepUp` implements `Approval`; the check character; the settings; the callbacks | `ImplementsApproval`, `OnlyMeantIsLookedUp`, `ChangesAreKept`, `AcknowledgedIsAnnounced` |
| | `BankLink`, `Wire`, `Verify`, `Messages`: the token outlives its request; the terms arrive; who is approved unseen was verified; a message is complete | `LinkIsTrue`, `TermsArrive`, `AutoApprovedIsVerified`, `MessageIsTrue` |

A module of proofs holds those of several components where their variables do not meet: the
theorems are about each specification alone.

**What is assumed.** Most assumptions only say of what type a constant is, or that `None` is
no row and no token. Four say more. `LinkAssumption`: a token is renewed after it is issued,
and the age at which it is (80 % of its life) leaves room for two time-outs.
`WireAssumption`: the bounds of `configuration.ts:107` and `bid-rules.ts:42`.
`BidStepAssumption`: the commission on one step of face value is a whole number of cents,
true of every rate where bids go in steps of 100 000 (`.env.example:73`); without it the
portal, which rounds a half cent up where the service rounds down, can show a cent more than
is held. `StaffingAssumption`: there is an officer, for who recommends a case somebody else
who may decide it, and for who prepares a batch an approver with another display name;
without them the back office has work nobody is offered, which is what the service's
separation of duties means.

**Holds.** `HoldsTypeOK` is inductive. The ledger is a sum over a finite set of holds, and
nothing in the library adds: the proof takes the sum of `Holds` apart by well-founded
induction on subsets (a least counterexample), so that one hold's change changes the sum by
what it changed. `LedgerInv` adds to the property what a handler of an adjust remembers:
unless another adjust of the hold overlapped it, the amount it read is still the amount
held, and so the balance it found under the lock leaves room for the difference.

**Bids.** `BidsInv` has twelve conjuncts besides the types: what a request asks for is what
its bid and its call to cbs-gateway say (`RequestsAreAbout`, `BidsAreMade`, `CallsAreMeant`);
whoever uses an approval is covered by it (`HoldersAreApproved`, `TermsAreApproved`); what
a handler of cbs-gateway read is still so unless somebody else works on the bid
(`HandlersSaw`, `AloneAtWork`); and where a hold without a bid, or a released one, comes from
(`HeldForPlace`, `ReleasedWhy`, `OrphansAreWatched`, `WithdrawalsGoOn`, `HeldAsSaid`). The three
properties follow; none of them is inductive, for a hold is made by one service and the bid
by another, with calls in flight between them.

**Batches.** A bid may reach BoT twice in two ways, under two references or by a resend.
`BatchesInv` says why not: what a task carries was read of a batch past its approval
(`Carried`, `TasksArePast`, `CheckedPast`), prepare takes every bid away from other batches
(`BidsAreSwept`), and what BoT holds is what some batch of ours carries (`AtBot`).

**Results.** A handler reads a bid, awaits, and writes what it read. The proof's pivot is
`ReadIsStill`: of a bid no two handlers raced, what a handler has read is still so.
`VerdictsAtHand` and `HandlersFit` say what each place in the code has at hand; `IdsDiffer`
and `SharedAreRaced` that two handlers work on one bid only if the history says so;
`PayingIsDue`, `PaidOrDue` and `AnnouncedAsDecided` that a decided bid was paid for and told
of, or a handler is about to; `LeftAreSought` that a verdict left unapplied is sought by a
handler or by a callback still queued. The last four give `VerdictsAreSettled` when no
handler is at work.

**Gateway.** `MatchedIsHeld` compares counts of bids of each face value on two sides. The
invariant has a pairing instead (`HeldAs`): a one-to-one map of our bids to BoT's that keeps the
face value, which an amendment changes at one place. Two equal counts then follow from the
map's restriction to one face value, and no induction is needed. `OneInHand` says how far the
one amendment under way is: before BoT did it, after, or noted here and still to be done there, when
BoT holds a face value no bid of ours on record has any more. So nothing can be matched
meanwhile (`MatchedMeansHeld`). A batch sent again with other terms needs no exception here: the
matching compares what is on record with what BoT holds, whatever was sent; only `SentIsHeld`, that
the two agree from the first, has `changed` for one, and `SendingIsHeld` carries it from the call to
the record. Both hold until an amendment the record could not follow
(`muddled`) or an outcome saved over one (`hasty`).

**Feed.** A snapshot is the content of the last event of its auction, and both are written by
one transaction, which appends one event of every auction that changed (`NewRowsOfChanged`):
hence `SnapshotIsKept`. `SeenIsThere` says of the catalogue that a row that was read is
still there when it is written, which the action property `EarlyCutoffKept` rests on.

**Identity.** `IdentityInv` is over one table of handlers for the whole service.
`SeenIsStill` is to it what `ReadIsStill` is to `Results`: what a handler nobody overtook saw of a
PIN, and what one nobody raced saw of a role or a status, is still so; with it each step
that replaces a PIN or opens a session is justified by the row in force, which is
`HolderOrTwo` (proved of every step, as an action, from the invariant). `SpentIsLocked` needs that the
handler that took the last attempt is at its next step. `SessionsKept` needs that a
session's root is a session of the same owner and that only such roots end
(`RootsAreOpened`): a rotation retires its session in the step that opens the successor, so
two live sessions of one root need two rotations of one session; and an update of all sessions
ends every root but those of the successors it missed. Of staff, whatever was under way beside
an update is in `raced`, which accounts for the role of a successor it missed. `CodesKept` counts codes:
unless two issues overlapped, one request at a time is between its check and its code,
had room when it checked, and has retired the codes before its own (`IssuedInTurn`); the
count can only fall as the clock moves.

**Onboarding.** `OnboardingInv` has eight parts. `OneIsOpen`: one case is open at most, and it is the
one that a submission about to write has found, if there is one: so the queue counts one. As the
transaction holds the investor's row, one submission at a time is between the two (`RowIsFree`).
`HandedOnce`: who hands an account over made its request, alone.
`ApprovedOnce`, `DecidedOnRecord` and `AccountFollows` tie the investor's row, the CDS request
and the account to each other and to the tasks on their way, unless `crossed`:
who is about to be approved is under review, where details cannot be edited, and they are the ones
the decision was made on. `ToldWhenReady` and `CasesFollow` hold while no task died: the message
was sent exactly if both accounts are there, and who waits has a case in the queue, or a task
that is about to act. The run has two submissions; without faults, TLC checked this invariant with
three, and with three tasks. With three it had found the question put too late of section 6, which
the history `crossed` did not record before.

**Enrol.** `EnrolInv` follows a PIN from the request that asked for it. `Lasts`: since it was
written no earlier request for the number can write another, but a reset that had proved
its code already, and then the history says `crossed`. That rests on codes being retired in
turn (`CodesStand`): of two sent for a reset the earlier is used, so a reset that was
overtaken is refused. `ScreenStands` says what a screen may be waiting for at each step. The proof
found the request left behind of section 6; an earlier model kept too few left screens to meet it.

**Bid form and tables.** `BidFormInv` ties each call to the form it was sent from and each
bid to its call. The arithmetic is in lemmas: that rounding up and rounding down agree on
whole steps (`CommissionExact`), and that what is kept of a hold pays for an allotment at a
price that is read. `TableInv`: what the last question brought is a page of the rows it was
asked about, and a local table's page is within its rows.

**Outbox.** `Promise == INSTANCE Channel WITH written <- ...` maps the rows committed to what
was written. `OutboxInv`: a relay has only committed rows at hand. So a publication is a
`Reach` of something written, and every other step a stutter or a write. The claim takes the
lowest ids first; that there is a lowest is the well-foundedness of `<` on the naturals.

**Tab and desk.** Every refresh token is a session's and a number. `TokensStand`: of a session
one token is out at most, in the tab, in one request, or on its way back to a tab that gave up, and it
is the one identity expects. It holds until a restore overlapped a refresh or the page was
loaded again during one (`Raced`), which are the exceptions of `ReplayOnlyIfRaced`.
`OwnInv` is about persons: a refresh that is out is of the one in front of the tab (`RefreshesAreOwn`), so
is what every request will be answered with (`RequestsAreOwn`), and a load without bids is followed
by one with them (`LoadIsFollowed`), each until somebody came or left beside it. `DeskInv` says of every
load that what was asked for during a sign-in is what that sign-in may ask for
(`ReadsStand`), and of the work that who did the first step was permitted to
(`WorkStands`), and of a decided case that what follows was done, is due, or has a reason not
to be; with the staffing assumed, `DeskGuides` is a case analysis over the roles and states.

**Wizard and portfolio.** `WizardInv`: a review shows what the service took (`ReviewIsKept`), and a
request fits the screen it came from (`RequestFits`). `PortfolioInv`: what was read while
nothing moved is how things are (`CalmReads`), and who was told of a withdrawal, or reads after
one, reads it as done (`WithdrawalsStand`, `ToldStands`); the tiles agree because the sum over
the rows is taken apart as the ledger of `Holds` is.

**Support.** `StepUpInv` says that a redemption past its check is covered by the row it
read, and that rows never lose their terms; the conditional update then makes the first of
two claims the only one, and `usedBy` of `Approval` the mapping of the rows used. The
references are arithmetic modulo 32. The weighted sum changes by the weight times the
difference: never to the same where the weight is odd, and where it is even exactly for the
multiples of 16, 8 or 4 (`EvenCounts`, `ReplacementShows`); a swap of neighbours changes it by
their difference, and one of the last with the check character by nine times that (`LastSwapShows`).
The settings, the
callbacks and the messages have one invariant each, in their modules. `LinkInv`: the token
outlives by a time-out the last request it is used for (`TokenLasts`), and a call refused
once waits for a token asked for since (`FirstRefusal`), unless it joined a sign-in under
way. `WireInv` says at each leg what the terms there are of those before; each conversion is
a lemma about decimal places. `VerifyInv` says of each check that came out clear what it
confirms. What the greedy coverage of a listed name comes to is proved as sums are, by a
least counterexample along the words taken (`ClearlyCovered`): where no word of the list
agrees with two of the name, it takes exactly the words that agree. When two words agree is
left open: nothing depends on what the edit distance computes.

**Only model-checked.**
- Liveness is beyond TLAPS: `EveryBidIsDecided`, `CatalogueCatchesUp` in `CatalogueFollows`,
  `LossIsRaised`, and the delivery of `Channel`, the liveness half of `ImplementsChannel`.
- That the instances can move at all (no deadlock in `Holds_safety`), and that each exception does
  happen: a theorem says what never happens, the runs and their counterexamples that
  the rest does.

## 8. Not modelled

- Settlement is a skeleton at this commit (a health endpoint); it moves no money.
- The BoT simulator is a test double. What bot-gateway relies on of it is `BankOfTanzania`; its
  seed data, its scenario endpoints and its pages are left out. So are the portal's mock API and
  its fixtures.
- Presentation: layout, charts, translation, the wording of messages. A property about what a
  screen says is about the value it is given.
- The portal's investor lists that no action of this model changes (statements, documents).
- Hashing, encryption, signatures and tokens are what they promise: a hash matches its secret
  only, a signature its signer, a token the session it names. PIN policy is the set of secrets.
- Creating a staff user, settings' screens and the health endpoints: one write, or none.
- Database migrations and schema. A `@unique` constraint is a guard of the insert it refuses.
- PostgreSQL and RabbitMQ are taken at their word: a transaction is one step, but where it reads what
  others may change before it writes (`Onboarding`) or misses what they commit while it waits
  (`Sessions`), a conditional update
  is atomic, an advisory lock excludes, a message is redelivered until acknowledged, up to
  `x-delivery-limit`. A read outside a transaction and a later write are two steps.
- Clocks of two services are one, but for BoT's in `Callbacks` and the token's in `BankLink`.
- Limits of one query (200 rows) and of pages beyond `Table`.
