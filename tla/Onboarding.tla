------------------------------ MODULE Onboarding ------------------------------
(***************************************************************************)
(* One investor from draft to ready-to-bid: the investor service's         *)
(* onboarding, KYC review, decisions and CDS task, and cbs-gateway's       *)
(* account opening.  Every request is a task of several steps: what it     *)
(* reads, the transaction it writes, what it does after; tasks interleave, *)
(* and may die between steps.  Then what the registers show of it.         *)
(***************************************************************************)
EXTENDS Naturals, Sequences, FiniteSets

CONSTANTS
  Tasks,       \* requests under way at once
  Staff,       \* officers with kyc:review and kyc:decide
  Numbers,     \* CDS account numbers
  Profiles,    \* what an investor may declare
  Clear,       \* the profiles every check finds in order
  Customers,   \* the profiles of people with an active TCB account
  None,
  MaxSubmits,  \* bound: submissions
  MaxFaults    \* bound: tasks cut short

ASSUME OnboardingAssumption ==
  /\ None \notin Profiles \cup Staff \cup Numbers
  /\ MaxSubmits \in Nat /\ MaxFaults \in Nat

VARIABLES
  profile,   \* individual_profiles: the declared details
  investor,  \* the row of investors
  cases,     \* the investor's kyc_cases, oldest first; the maker of those that await a
             \* checker: nothing reads it later
  request,   \* the row of cds_requests: "none", "pending" or "completed"
  opening,   \* cbs-gateway's account_opening_requests: "none", "requested" or "opened"
  handed,    \* times Core Banking was asked to open an account
  task,
  told,      \* "you can now bid" messages
  seen,      \* history: the details the last approval was based on
  crossed,   \* history: a task wrote over what another wrote since it read, or over a decision
             \* taken or under way
  submits, faults

vars == <<profile, investor, cases, request, opening, handed, task, told, seen, crossed, submits, faults>>

Editable == {"draft", "info_requested"}
Decided == {"approved", "rejected"}
MakerStates == {"new", "returned", "info_requested"}
OpenStates == MakerStates \cup {"awaiting_checker"}

Idle == [pc |-> "idle"]

Init ==
  /\ profile = None
  /\ investor = [status |-> "draft", bank |-> "none", account |-> "none", cds |-> "none", number |-> None]
  /\ cases = <<>> /\ request = "none" /\ opening = "none" /\ handed = 0
  /\ task = [t \in Tasks |-> Idle]
  /\ told = 0 /\ seen = None /\ crossed = FALSE /\ submits = 0 /\ faults = 0

Starts(t, step) == task[t] = Idle /\ task' = [task EXCEPT ![t] = step]
Goes(t, pc) == task' = [task EXCEPT ![t].pc = pc]
Ends(t) == task' = [task EXCEPT ![t] = Idle]

At(t, pc) == task[t].pc = pc
CrossedIf(changed) == crossed' = (crossed \/ changed)

----------------------------------------------------------------------------
(* Details                                                                 *)

SaveReadIf(t, p, editable) ==
  /\ editable /\ p \in Profiles
  /\ Starts(t, [pc |-> "save", profile |-> p, was |-> investor.status])
  /\ UNCHANGED <<profile, investor, cases, request, opening, handed, told, seen, crossed, submits, faults>>

\* Mutant: details stay editable until the decision.
SaveReadUndecided(t, p) == SaveReadIf(t, p, investor.status \notin Decided)

SaveRead(t, p) == SaveReadIf(t, p, investor.status \in Editable)

SaveWrite(t) ==
  /\ At(t, "save") /\ Ends(t)
  /\ profile' = task[t].profile
  /\ CrossedIf(investor.status # task[t].was)
  /\ UNCHANGED <<investor, cases, request, opening, handed, told, seen, submits, faults>>

----------------------------------------------------------------------------
(* Submission                                                              *)

SubmitRead(t) ==
  /\ investor.status \in Editable /\ profile # None
  /\ submits < MaxSubmits /\ submits' = submits + 1
  /\ Starts(t, [pc |-> "record", profile |-> profile, was |-> investor.status])
  /\ UNCHANGED <<profile, investor, cases, request, opening, handed, told, seen, crossed, faults>>

\* NIDA, Core Banking and the lists; one that cannot be reached leaves it to a person.
RunChecks(p, reached) == [clear |-> reached /\ p \in Clear, existing |-> reached /\ p \in Customers]

OpenCases == {i \in DOMAIN cases : cases[i].status \in OpenStates}

\* The transaction writes the investor's row first: to its end, others that do must wait.
RowIsFree == \A t \in Tasks : ~At(t, "queue")

Submitted(t, existing) ==
  /\ investor' = [investor EXCEPT !.status = "under_review",
                    !.bank = IF existing THEN "existing" ELSE @,
                    !.account = IF existing THEN "held" ELSE @]
  /\ UNCHANGED <<profile, request, opening, handed, told, seen, submits, faults>>

Outdated(t) == investor.status # task[t].was \/ profile # task[t].profile

\* All checks are in order: no case.
Record(t) ==
  /\ At(t, "record") /\ RowIsFree
  /\ LET checks == RunChecks(task[t].profile, TRUE) IN checks.clear /\ Submitted(t, checks.existing)
  /\ task' = [task EXCEPT ![t] = [pc |-> "approve", profile |-> @.profile]]
  /\ CrossedIf(Outdated(t)) /\ UNCHANGED cases

\* Within the transaction, the case that is open is read (READ COMMITTED: it is not held) ...
FindOpen(t, reached) ==
  /\ At(t, "record") /\ RowIsFree
  /\ LET checks == RunChecks(task[t].profile, reached) IN
     /\ ~checks.clear
     /\ \E i \in IF OpenCases = {} THEN {0} ELSE OpenCases :
          task' = [task EXCEPT ![t] =
                     [pc |-> "queue", profile |-> @.profile, was |-> @.was, existing |-> checks.existing,
                      found |-> i, as |-> IF i = 0 THEN "none" ELSE cases[i].status]]
  /\ UNCHANGED <<profile, investor, cases, request, opening, handed, told, seen, crossed, submits, faults>>

\* Mutant: one who was in the queue before is left as they are.
CaseOpenedOnce(found) ==
  cases' = IF cases = <<>> THEN <<[status |-> "new", maker |-> None]>> ELSE cases

\* A resubmission goes back to the queue on the case found, whatever that has become.
CaseOpened(found) ==
  LET new == [status |-> "new", maker |-> None] IN
  cases' = IF found = 0 THEN Append(cases, new) ELSE [cases EXCEPT ![found] = new]

\* ... and then written, and all of it committed.
Queue(t) ==
  /\ At(t, "queue") /\ Ends(t)
  /\ CaseOpened(task[t].found) /\ Submitted(t, task[t].existing)
  /\ CrossedIf(Outdated(t) \/ (task[t].found # 0 /\ cases[task[t].found].status \in Decided))

----------------------------------------------------------------------------
(* The KYC queue                                                           *)

ActRead(t, s, i, action) ==
  /\ i \in DOMAIN cases
  /\ \/ action \in {"approve", "request-info", "reject"} /\ cases[i].status \in MakerStates
     \/ /\ action \in {"final-approve", "return"} /\ cases[i].status = "awaiting_checker"
        /\ cases[i].maker # s
  /\ Starts(t, [pc |-> "act", case |-> i, action |-> action, by |-> s,
                was |-> cases[i].status,
                profile |-> IF action = "final-approve" THEN profile ELSE None])
  /\ UNCHANGED <<profile, investor, cases, request, opening, handed, told, seen, crossed, submits, faults>>

Outcome == [a \in {"approve", "request-info", "reject", "final-approve", "return"} |->
  CASE a = "approve" -> [status |-> "awaiting_checker", next |-> "idle"]
    [] a = "request-info" -> [status |-> "info_requested", next |-> "ask"]
    [] a = "reject" -> [status |-> "rejected", next |-> "reject"]
    [] a = "final-approve" -> [status |-> "approved", next |-> "approve"]
    [] a = "return" -> [status |-> "returned", next |-> "idle"]]

ActIf(t, unchanged) ==
  LET a == task[t] IN
  /\ IF unchanged
     THEN /\ cases' = [cases EXCEPT ![a.case] =
                         [status |-> Outcome[a.action].status,
                          maker |-> IF a.action = "approve" THEN a.by ELSE None]]
          /\ IF Outcome[a.action].next = "idle" THEN Ends(t)
             ELSE task' = [task EXCEPT ![t] = [pc |-> Outcome[a.action].next, case |-> a.case,
                                               profile |-> a.profile]]
          /\ CrossedIf(a.action = "final-approve" /\ (profile # a.profile \/ investor.status # "under_review"))
     ELSE Ends(t) /\ UNCHANGED <<cases, crossed>>
  /\ UNCHANGED <<profile, investor, request, opening, handed, told, seen, submits, faults>>

\* Mutant: the case is updated whatever its status has become.
ActAnyhow(t) == At(t, "act") /\ ActIf(t, TRUE)

\* Conditional on the status read: the loser of two officers gets a 409.
Act(t) == At(t, "act") /\ ActIf(t, cases[task[t].case].status = task[t].was)

\* After the case: the investor, in a transaction of its own.
AskForInfo(t) ==
  /\ At(t, "ask") /\ RowIsFree /\ Ends(t)
  /\ investor' = [investor EXCEPT !.status = "info_requested"]
  /\ CrossedIf(\/ investor.status \in Decided \/ cases[task[t].case].status # "info_requested"
               \/ \E u \in Tasks : At(u, "approve"))
  /\ UNCHANGED <<profile, cases, request, opening, handed, told, seen, submits, faults>>

Reject(t) ==
  /\ At(t, "reject") /\ RowIsFree /\ Ends(t)
  /\ investor' = [investor EXCEPT !.status = "rejected"]
  /\ CrossedIf(investor.status \in Decided)
  /\ UNCHANGED <<profile, cases, request, opening, handed, told, seen, submits, faults>>

ApproveWith(t, row) ==
  /\ At(t, "approve") /\ RowIsFree
  /\ investor' = [investor EXCEPT !.status = "approved", !.cds = "requested"]
  /\ request' = row
  /\ seen' = task[t].profile
  /\ IF investor.bank # "existing" THEN task' = [task EXCEPT ![t] = [pc |-> "open"]] ELSE Ends(t)
  /\ CrossedIf(investor.status # "under_review")
  /\ UNCHANGED <<profile, cases, opening, handed, told, submits, faults>>

Approve(t) == ApproveWith(t, IF request = "none" THEN "pending" ELSE request)

----------------------------------------------------------------------------
(* The TCB account of one who has none                                     *)

\* Mutant: a request that is there already is handed over again.
RequestOpeningAgain(t) ==
  /\ At(t, "open") /\ Goes(t, "hand")
  /\ opening' = IF opening = "none" THEN "requested" ELSE opening
  /\ UNCHANGED <<profile, investor, cases, request, handed, told, seen, crossed, submits, faults>>

RequestOpening(t) ==
  /\ At(t, "open")
  /\ IF opening = "none" THEN opening' = "requested" /\ Goes(t, "hand")
     ELSE Goes(t, "mark") /\ UNCHANGED opening
  /\ UNCHANGED <<profile, investor, cases, request, handed, told, seen, crossed, submits, faults>>

SubmitOpening(t) ==
  /\ At(t, "hand") /\ Goes(t, "mark") /\ handed' = handed + 1
  /\ UNCHANGED <<profile, investor, cases, request, opening, told, seen, crossed, submits, faults>>

MarkRequested(t) ==
  /\ At(t, "mark") /\ RowIsFree /\ Ends(t)
  /\ investor' = [investor EXCEPT !.bank = "requested"]
  /\ UNCHANGED <<profile, cases, request, opening, handed, told, seen, crossed, submits, faults>>

MarkOpened ==
  /\ opening = "requested" /\ handed > 0 /\ opening' = "opened"
  /\ UNCHANGED <<profile, investor, cases, request, handed, task, told, seen, crossed, submits, faults>>

\* cbs.account.opened, delivered once or more; one that changes nothing is ignored.
LinkRead(t) ==
  /\ opening = "opened" /\ ~(investor.bank = "opened" /\ investor.account = "opened")
  /\ Starts(t, [pc |-> "link", tell |-> investor.cds = "active"])
  /\ UNCHANGED <<profile, investor, cases, request, opening, handed, told, seen, crossed, submits, faults>>

\* The message goes out after the transaction, or is lost; that undoes nothing.
TellIf(due) ==
  \/ told' = (IF due THEN told + 1 ELSE told) /\ UNCHANGED faults
  \/ due /\ faults < MaxFaults /\ faults' = faults + 1 /\ UNCHANGED told

LinkWith(t, tell) ==
  /\ At(t, "link") /\ RowIsFree
  /\ investor' = [investor EXCEPT !.bank = "opened", !.account = "opened"]
  /\ Ends(t) /\ TellIf(tell)
  /\ CrossedIf(investor.account = "opened" \/ (investor.cds = "active") # task[t].tell)
  /\ UNCHANGED <<profile, cases, request, opening, handed, seen, submits>>

Link(t) == At(t, "link") /\ LinkWith(t, task[t].tell)

----------------------------------------------------------------------------
(* The CDS account, opened by hand                                         *)

CdsRead(t, n) ==
  /\ request = "pending"
  /\ Starts(t, [pc |-> "cds", number |-> n, tell |-> investor.account # "none"])
  /\ UNCHANGED <<profile, investor, cases, request, opening, handed, told, seen, crossed, submits, faults>>

CompleteIf(t, pending) ==
  /\ Ends(t)
  /\ IF pending
     THEN /\ RowIsFree /\ request' = "completed"
          /\ investor' = [investor EXCEPT !.cds = "active", !.number = task[t].number]
          /\ TellIf(task[t].tell)
          /\ CrossedIf((investor.account # "none") # task[t].tell)
     ELSE UNCHANGED <<request, investor, told, crossed, faults>>
  /\ UNCHANGED <<profile, cases, opening, handed, seen, submits>>

Complete(t) == At(t, "cds") /\ CompleteIf(t, request = "pending")

\* The process dies, or a call of it fails for good.
Dies(t) ==
  /\ task[t] # Idle /\ Ends(t)
  /\ faults < MaxFaults /\ faults' = faults + 1
  /\ UNCHANGED <<profile, investor, cases, request, opening, handed, told, seen, crossed, submits>>

----------------------------------------------------------------------------

Next ==
  \/ MarkOpened
  \/ \E t \in Tasks :
       \/ \E p \in Profiles : SaveRead(t, p)
       \/ SaveWrite(t)
       \/ SubmitRead(t) \/ Record(t) \/ \E reached \in BOOLEAN : FindOpen(t, reached)
       \/ Queue(t)
       \/ \E s \in Staff, i \in DOMAIN cases, a \in DOMAIN Outcome : ActRead(t, s, i, a)
       \/ Act(t) \/ AskForInfo(t) \/ Reject(t) \/ Approve(t)
       \/ RequestOpening(t) \/ SubmitOpening(t) \/ MarkRequested(t) \/ LinkRead(t) \/ Link(t)
       \/ \E n \in Numbers : CdsRead(t, n)
       \/ Complete(t) \/ Dies(t)

OnboardingSpec == Init /\ [][Next]_vars

----------------------------------------------------------------------------
(* What the back office and the auction are shown of the investor: the KYC *)
(* queue, the CDS tasks, the registers, and the answer to "may this        *)
(* account bid".  Each reads the database by itself, with conditions of    *)
(* its own; the portal names and counts what it is sent with tables of its *)
(* own.                                                                    *)

(* The KYC queue                                                           *)

\* By default what is open; what was decided stays three days, or until it is gone.
KycQueue == {[case |-> i, status |-> cases[i].status] : i \in OpenCases}

\* toKycCase: a status it does not know is called new.
KycLabel == [s \in OpenStates \cup Decided |->
  CASE s = "new" -> "New" [] s = "info_requested" -> "Info requested"
    [] s = "awaiting_checker" -> "Awaiting checker" [] s = "returned" -> "Returned"
    [] s = "approved" -> "Approved" [] s = "rejected" -> "Rejected"]

\* The number beside "KYC" in the menu and on the overview.
OpenLabels == {"New", "Returned", "Awaiting checker", "Info requested"}
KycBadge == Cardinality({k \in KycQueue : KycLabel[k.status] \in OpenLabels})

\* The portal's panel: the labels under which a maker, and then a checker, is offered to act.
MakerLabels == {"New", "Returned", "Info requested"}
Actionable(k) == KycLabel[k.status] \in MakerLabels \/ KycLabel[k.status] = "Awaiting checker"

----------------------------------------------------------------------------
(* CDS accounts                                                            *)

CdsTasks == {r \in {investor} : request = "pending"}

CdsRegister == {r \in {investor} : request = "completed"}

----------------------------------------------------------------------------
(* Customers and TCB accounts                                              *)

\* statusWhere.
CustomersIn(filter) ==
  {r \in {investor} :
     CASE filter = "all" -> TRUE
       [] filter = "ready" -> r.status = "approved" /\ r.cds = "active" /\ r.account # "none"
       [] filter = "awaiting_accounts" -> r.status = "approved" /\ (r.cds # "active" \/ r.account = "none")
       [] OTHER -> r.status = filter}

\* The filters of the screen, and what they are called.
Filters == [ready |-> "Ready to bid", awaiting_accounts |-> "Awaiting accounts", under_review |-> "Under review",
            info_requested |-> "Info requested", draft |-> "Draft", rejected |-> "Rejected"]

RowCanBid(r) == r.status = "approved" /\ r.cds = "active" /\ r.account # "none"

\* customerStatusLabel.
CustomerChip(r) ==
  CASE r.status = "approved" -> IF RowCanBid(r) THEN "Ready to bid" ELSE "Awaiting accounts"
    [] r.status = "draft" -> "Draft" [] r.status = "under_review" -> "Under review"
    [] r.status = "info_requested" -> "Info requested" [] r.status = "rejected" -> "Rejected"

\* Of every status, unless one is asked for.
BankAccounts(status) ==
  {r \in {investor} : IF status = "any" THEN r.bank # "none" ELSE r.bank = status}

\* What the auction service is told on every bid.
Eligible == investor.status = "approved" /\ investor.cds = "active" /\ investor.account # "none"

----------------------------------------------------------------------------
(* Properties                                                              *)

Quiet == ~crossed /\ faults = 0 /\ \A t \in Tasks : task[t] = Idle

\* A case that was decided is not touched again, however many officers act on it and
\* whatever is submitted meanwhile (kyc.service.ts:69-70); but by a submission that read it
\* while it was open, and writes after the decision: it is back in the queue then
\* (onboarding.service.ts:167-177).
ClosedStays ==
  [][\A i \in DOMAIN cases : cases[i].status \in Decided =>
       \/ cases'[i] = cases[i]
       \/ \E t \in Tasks : Queue(t) /\ task[t].found = i /\ task[t].as \in OpenStates]_cases

\* However often an investor is approved, Core Banking is asked for one account
\* (account-opening.service.ts:16-18).
OneAccountIsOpened == handed <= 1

\* Who may bid was approved on the details on record, and has a CDS request that was
\* completed; but for tasks that overlapped (onboarding.service.ts:49-54, 99-102).
EligibleAsDecided == Eligible /\ ~crossed => profile = seen /\ request = "completed"

\* Once both accounts are there the investor is told, once: by whichever of the two came
\* last (cds.service.ts:93-94); but for tasks that overlapped or died.
ReadyIsTold == Eligible /\ Quiet => told = 1

\* Who may bid was decided on the details on record, and was told.
ReadyAsDecided == EligibleAsDecided /\ ReadyIsTold

\* Nobody waits unseen.  A customer is found under the one filter that says what their
\* chip says, and may bid if that is "ready".  Once nothing is under way, an application
\* under review has a case in the queue, counted and open to somebody's action; an
\* approved investor without a CDS account is a CDS task, one with it in the CDS register,
\* and their TCB account is listed, linked or being opened.  But for tasks that overlapped
\* or died (kyc.service.ts:28, cds.service.ts:23, registers.service.ts:205).
WaitingIsListed ==
  /\ \A f \in DOMAIN Filters : CustomersIn(f) = {investor} <=> CustomerChip(investor) = Filters[f]
  /\ Eligible <=> CustomersIn("ready") # {}
  /\ Quiet =>
       /\ investor.status = "under_review" =>
            KycBadge = 1 /\ \A k \in KycQueue : Actionable(k) /\ k.status # "info_requested"
       /\ investor.status = "info_requested" => KycQueue # {}
       /\ investor.status = "approved" =>
            /\ IF investor.cds = "active" THEN CdsRegister # {} /\ CdsTasks = {} ELSE CdsTasks # {}
            /\ BankAccounts("any") # {}
            /\ investor.account = "none" => BankAccounts("requested") # {}
=============================================================================
