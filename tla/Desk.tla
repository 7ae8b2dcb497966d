--------------------------------- MODULE Desk ---------------------------------
(***************************************************************************)
(* The back office: one tab in which staff sign in after each other, with  *)
(* the queues it keeps (a KYC case, the CDS account that follows from it,  *)
(* an auction with its batches), and the services behind it, which other   *)
(* staff use at the same time.                                             *)
(*                                                                         *)
(* The services check permissions and states of their own; what they do    *)
(* in several steps is one step here (see Onboarding and Batches), but for *)
(* what follows a decision on a case, which its notes speak of.            *)
(***************************************************************************)
EXTENDS FiniteSets, Integers, Sequences

CONSTANTS
  Staff, Nobody,
  RoleOf,      \* of every member of staff
  NameOf,      \* the name on the screen
  MaxShifts,   \* sign-ins at the tab
  MaxRounds,   \* recommendations of the case
  MaxBatches

ASSUME DeskAssumption ==
  /\ Nobody \notin Staff
  /\ MaxShifts \in Nat /\ MaxRounds \in Nat /\ MaxBatches \in Nat

VARIABLES
  kase,     \* the case: status, maker while a checker is awaited (nothing reads it
            \* later), number of recommendations
  cds,      \* the request for a CDS account
  sequel,   \* what follows the last decision on the case: "none", "due", "done", "not sent" or
            \* "cut short"
  auction,  \* its state, and whether bids wait for a batch
  batches,  \* its batches: status, who prepared one that waits for approval
  signed,   \* who is signed in at the tab
  shift,    \* the number of sign-ins
  queues,   \* what the tab shows
  loads,    \* load, by sign-in
  op,       \* the action under way, and the refresh after it
  late      \* queues written by a load or refresh of an earlier sign-in

worldVars == <<kase, cds, sequel, auction, batches>>
tabQueues == <<signed, shift, queues, loads, op, late>>
deskVars == <<worldVars, tabQueues>>

----------------------------------------------------------------------------
(* Roles                                                                   *)

Permissions ==
  [ ops_officer |->
      {"investor:read", "kyc:review", "cds:open", "customer_login:read", "customer_login:sign_out",
       "customer_login:unlock:request", "bid:read:all", "auction:manage", "batch:prepare", "report:read"},
    ops_supervisor |->
      {"investor:read", "kyc:review", "kyc:decide", "customer_login:read", "customer_login:sign_out",
       "customer_login:unlock:approve", "bid:read:all", "batch:approve", "report:read"},
    treasury_officer |-> {"investor:read", "bid:read:all", "settlement:read", "report:read"},
    compliance_officer |->
      {"investor:read", "customer_login:read", "kyc:review", "kyc:decide", "bid:read:all",
       "settlement:read", "report:read"},
    bot_observer |-> {"report:read"},
    system_admin |-> {"admin:user:manage"} ]

\* The session store: nothing is permitted to nobody.
Can(p, permission) == p \in Staff /\ permission \in Permissions[RoleOf[p]]

\* There is an officer, and for whoever needs a second pair of eyes somebody to be it, whom
\* the screens can tell from the first.
ASSUME StaffingAssumption ==
  /\ RoleOf \in [Staff -> DOMAIN Permissions]
  /\ \E p \in Staff : RoleOf[p] = "ops_officer"
  /\ \A p \in Staff : Can(p, "kyc:review") => \E o \in Staff \ {p} : Can(o, "kyc:decide")
  /\ \A p \in Staff : Can(p, "batch:prepare") =>
       \E o \in Staff : Can(o, "batch:approve") /\ NameOf[o] # NameOf[p]

----------------------------------------------------------------------------
(* The screens                                                             *)

\* What a screen needs, one of these, and its place in the sidebar, in tenths.
Screen(needs, order) == [needs |-> needs, order |-> order]
NoPlace == 0

Screens ==
  [ overview |-> Screen({"report:read"}, 10),
    customers |-> Screen({"investor:read"}, 15),
    customer |-> Screen({"investor:read"}, NoPlace),
    kyc |-> Screen({"kyc:review"}, 20),
    cds |-> Screen({"cds:open"}, 25),
    bankAccounts |-> Screen({"investor:read"}, 27),
    submission |-> Screen({"bid:read:all"}, 30),
    recon |-> Screen({"settlement:read"}, 40),
    users |-> Screen({"admin:user:manage", "customer_login:read"}, 50),
    customerLogin |-> Screen({"customer_login:read"}, NoPlace) ]

MayOpen(role, screen) == Screens[screen].needs \cap Permissions[role] # {}

Sidebar(role) == {sc \in DOMAIN Screens : Screens[sc].order # NoPlace /\ MayOpen(role, sc)}

\* landingFor: the first screen in the sidebar.
Landing(role) ==
  IF Sidebar(role) = {} THEN "overview"
  ELSE CHOOSE sc \in Sidebar(role) : \A t \in Sidebar(role) : Screens[sc].order <= Screens[t].order

\* The guard: where asking for a screen ends.
Lands(role, screen) == IF MayOpen(role, screen) THEN screen ELSE Landing(role)

\* UsersView.
Tabs(role) ==
  (IF "admin:user:manage" \in Permissions[role] THEN {"staff"} ELSE {})
    \cup (IF "customer_login:read" \in Permissions[role] THEN {"customers", "unlocks"} ELSE {})

\* Where a screen leads on to, but for what needs attention.
Links(role, screen) ==
  CASE screen = "overview" -> {"submission"}
    [] screen \in {"cds", "customers", "bankAccounts"} -> {"customer"}
    [] screen = "customer" -> {"customers"}
    [] screen = "users" -> IF "customers" \in Tabs(role) THEN {"customerLogin"} ELSE {}
    [] screen = "customerLogin" -> {"users"}
    [] OTHER -> {}

\* What the services want of whoever asks for what a screen shows; the queues, which are
\* asked for by role, and the reconciliation, which is sample data, are left out.
Wanted(role, screen) ==
  CASE screen \in {"customers", "customer", "bankAccounts", "cds"} -> {"investor:read"}
    [] screen = "customerLogin" -> {"customer_login:read"}
    [] screen = "users" ->
         {"customer_login:read"} \cup (IF "staff" \in Tabs(role) THEN {"admin:user:manage"} ELSE {})
    [] OTHER -> {}

\* A customer's sign-in whose PIN may be locked, with a request to unlock it, and what may be
\* done about it, on its screen and on UsersView.
Logins ==
  [locked : BOOLEAN, requestedBy : {Nobody} \cup {p \in Staff : Can(p, "customer_login:unlock:request")}]

LoginOffers(p, login) ==
  (IF MayOpen(RoleOf[p], "customerLogin")
     THEN {w \in {"request unlock", "sign out"} :
             IF w = "request unlock"
               THEN login.locked /\ Can(p, "customer_login:unlock:request") /\ login.requestedBy = Nobody
               ELSE Can(p, "customer_login:sign_out")}
     ELSE {})
    \cup (IF "unlocks" \in Tabs(RoleOf[p]) /\ login.requestedBy # Nobody
              /\ Can(p, "customer_login:unlock:approve")
            THEN {"decide unlock"} ELSE {})

LoginAccepts(p, login, what) ==
  CASE what = "request unlock" ->
         Can(p, "customer_login:unlock:request") /\ login.locked /\ login.requestedBy = Nobody
    [] what = "sign out" -> Can(p, "customer_login:sign_out")
    [] what = "decide unlock" ->
         Can(p, "customer_login:unlock:approve") /\ login.requestedBy \notin {Nobody, p}

----------------------------------------------------------------------------
(* The services: what they accept, and what it does                        *)

MakerStates == {"new", "returned", "info_requested"}
MakerActions == {"approve", "request-info", "reject"}
CheckerActions == {"final-approve", "return"}
CaseActions == MakerActions \cup CheckerActions
Decisions == {"final-approve", "reject"}
BatchActions == {"close", "prepare", "approve batch", "send again"}

\* An action, on a batch if it is about one.
Do(what, id) == [do |-> what, id |-> id]

Actions ==
  {Do(w, 0) : w \in CaseActions \cup {"complete", "close", "prepare"}}
    \cup {Do("approve batch", i) : i \in 1..MaxBatches}
    \cup {Do("send again", i) : i \in 1..MaxBatches}

Accepts(p, a) ==
  \/ /\ a.do \in MakerActions /\ Can(p, "kyc:review")
     /\ kase.status \in MakerStates
  \/ /\ a.do \in CheckerActions /\ Can(p, "kyc:review") /\ Can(p, "kyc:decide")
     /\ kase.status = "awaiting_checker" /\ kase.maker # p
  \/ a.do = "complete" /\ Can(p, "cds:open") /\ cds = "pending"
  \/ a.do = "close" /\ Can(p, "auction:manage") /\ auction.state = "open"
  \/ /\ a.do = "prepare" /\ Can(p, "batch:prepare")
     /\ auction.state = "closed_for_bids" /\ auction.waiting
  \/ /\ a.do = "approve batch" /\ Can(p, "batch:approve") /\ a.id \in DOMAIN batches
     /\ batches[a.id].status = "prepared" /\ batches[a.id].by # p
  \/ /\ a.do = "send again" /\ Can(p, "batch:approve") /\ a.id \in DOMAIN batches
     /\ batches[a.id].status \in {"approved", "failed"}

ActOnCase(p, w) ==
  /\ kase' =
       CASE w \in MakerActions ->
              [status |-> CASE w = "approve" -> "awaiting_checker" [] w = "reject" -> "rejected"
                            [] w = "request-info" -> "info_requested",
               maker |-> IF w = "approve" THEN p ELSE Nobody,
               rounds |-> IF w = "approve" THEN kase.rounds + 1 ELSE kase.rounds]
         [] w \in CheckerActions ->
              [kase EXCEPT !.status = IF w = "final-approve" THEN "approved" ELSE "returned",
                           !.maker = Nobody]
  /\ sequel' = IF w \in Decisions THEN "due" ELSE sequel
  /\ UNCHANGED <<cds, auction, batches>>

\* Once the decision has been committed: the CDS request, in a transaction of its own, or
\* the message that the case is rejected, which may fail; unless the service stops.
Follow ==
  /\ sequel = "due"
  /\ \/ sequel' = "done" /\ cds' = IF kase.status = "approved" THEN "pending" ELSE cds
     \/ kase.status = "rejected" /\ sequel' = "not sent" /\ UNCHANGED cds
     \/ sequel' = "cut short" /\ UNCHANGED cds
  /\ UNCHANGED <<kase, auction, batches, tabQueues>>

\* Sending a batch succeeds or fails, or the service stops before it is known.
ActOnAuction(p, a) ==
  /\ \/ /\ a.do = "close"
        /\ auction' = [auction EXCEPT !.state = "closed_for_bids"] /\ UNCHANGED batches
     \/ /\ a.do = "prepare" /\ Len(batches) < MaxBatches
        /\ auction' = [auction EXCEPT !.waiting = FALSE]
        /\ batches' = Append(batches, [status |-> "prepared", by |-> p])
     \/ /\ a.do \in {"approve batch", "send again"}
        /\ \E s \in {"submitted", "failed", "approved"} :
             /\ s = "approved" => a.do = "approve batch"
             /\ batches' = [batches EXCEPT ![a.id] = [status |-> s, by |-> Nobody]]
        /\ UNCHANGED auction
  /\ UNCHANGED <<kase, cds, sequel>>

\* What p asks is done.
Takes(p, a) ==
  /\ Accepts(p, a)
  /\ \/ /\ a.do \in CaseActions
        /\ a.do = "approve" => kase.rounds < MaxRounds
        /\ ActOnCase(p, a.do)
     \/ a.do = "complete" /\ cds' = "completed" /\ UNCHANGED <<kase, sequel, auction, batches>>
     \/ a.do \in BatchActions /\ ActOnAuction(p, a)

\* Other staff, at desks of their own.
Elsewhere(p, a) == p # signed /\ Takes(p, a) /\ UNCHANGED tabQueues

\* An investor bids; the write may come after the close that it did not see.
BidComes ==
  /\ ~auction.waiting /\ auction.state # "closed"
  /\ auction' = [auction EXCEPT !.waiting = TRUE]
  /\ UNCHANGED <<kase, cds, sequel, batches, tabQueues>>

BotCloses ==
  /\ auction.state # "closed" /\ auction' = [auction EXCEPT !.state = "closed"]
  /\ UNCHANGED <<kase, cds, sequel, batches, tabQueues>>

----------------------------------------------------------------------------
(* What the tab makes of what it shows                                     *)

\* The row of the auction, with its latest batch.
Control == [state |-> auction.state, waiting |-> auction.waiting,
            batch |-> IF batches = <<>> THEN <<>>
                      ELSE <<[status |-> batches[Len(batches)].status,
                              by |-> batches[Len(batches)].by, id |-> Len(batches)]>>]

\* A new batch is due when bids are waiting that no batch holds.
Listed(row) == IF row.batch # <<>> /\ row.waiting /\ row.batch[1].status # "prepared" THEN <<>> ELSE row.batch

\* A batch that failed counts as sent.
StageAfterFailing(row) ==
  LET b == Listed(row) IN
  CASE b = <<>> /\ row.state = "open" -> "Awaiting consolidation"
    [] b = <<>> /\ row.state # "open" -> "Awaiting maker"
    [] b # <<>> -> IF b[1].status = "prepared" THEN "Awaiting checker"
                   ELSE IF b[1].status = "approved" THEN "Submitting" ELSE "Acknowledged by BoT"

Stage(row) ==
  LET b == Listed(row) IN
  CASE b = <<>> /\ row.state = "open" -> "Awaiting consolidation"
    [] b = <<>> /\ row.state # "open" -> "Awaiting maker"
    [] b # <<>> -> IF b[1].status = "prepared" THEN "Awaiting checker"
                   ELSE IF b[1].status \in {"approved", "failed"} THEN "Submitting"
                   ELSE "Acknowledged by BoT"

\* An auction without bids is listed while it is open.
OnScreen(row) == row.waiting \/ row.batch # <<>> \/ row.state = "open"

\* SubmissionView.
BatchOffers(row, p) ==
  LET b == Listed(row) IN
  { a \in {Do("close", 0), Do("prepare", 0)}
        \cup (IF b = <<>> THEN {} ELSE {Do("approve batch", b[1].id), Do("send again", b[1].id)}) :
    /\ OnScreen(row)
    /\ \/ a.do = "close" /\ Stage(row) = "Awaiting consolidation" /\ Can(p, "auction:manage")
       \/ a.do = "prepare" /\ Stage(row) = "Awaiting maker" /\ Can(p, "batch:prepare")
       \/ /\ a.do = "approve batch" /\ Stage(row) = "Awaiting checker" /\ Can(p, "batch:approve")
          /\ NameOf[b[1].by] # NameOf[p]
       \/ /\ a.do = "send again" /\ Stage(row) = "Submitting" /\ b[1].status = "failed"
          /\ Can(p, "batch:approve") }

CanCheck(k, p) ==
  Can(p, "kyc:decide") /\ k.status = "awaiting_checker" /\ k.maker # p

\* KycView: a checker is not offered the maker's decision.
CanMake(k, p) ==
  ~Can(p, "kyc:decide") /\ Can(p, "kyc:review") /\ k.status \in MakerStates

CaseOffers(k, p) ==
  {Do(w, 0) : w \in (IF CanMake(k, p) THEN MakerActions ELSE {})
                      \cup (IF CanCheck(k, p) THEN CheckerActions ELSE {})}

\* A note says that the reader may go on, that somebody else must, or how things stand.
Note(kind, what) == [kind |-> kind, what |-> what]

\* liveNote.
BatchNote(row, p) ==
  LET b == Listed(row) IN
  CASE Stage(row) = "Awaiting consolidation" -> Note("stands", "open")
    [] Stage(row) = "Awaiting maker" -> Note(IF Can(p, "batch:prepare") THEN "yours" ELSE "another's", "prepare")
    [] Stage(row) = "Awaiting checker" ->
         Note(IF NameOf[b[1].by] # NameOf[p] /\ Can(p, "batch:approve") THEN "yours" ELSE "another's", "approve batch")
    [] Stage(row) = "Submitting" ->
         IF b[1].status = "failed" THEN Note("yours", "send again") ELSE Note("stands", "sending")
    [] OTHER -> Note("stands", "sent")

\* The five steps beside it: how many are done.
Stages == <<"Awaiting consolidation", "Awaiting maker", "Awaiting checker", "Submitting", "Acknowledged by BoT">>
StepsDone(row) ==
  LET at == CHOOSE i \in DOMAIN Stages : Stages[i] = Stage(row) IN IF at = 5 THEN 5 ELSE at - 1

\* KycView's.
CaseNote(k, p) ==
  CASE k.status = "approved" -> Note("stands", "cds raised")
    [] k.status = "rejected" -> Note("stands", "notified")
    [] k.status = "awaiting_checker" /\ (~Can(p, "kyc:decide") \/ k.maker = p) -> Note("another's", "final-approve")
    [] k.status \in MakerStates /\ Can(p, "kyc:decide") -> Note("another's", "approve")
    [] OTHER -> Note("stands", "")

\* On the screens that are theirs.
Offers(p) ==
  LET open(screen) == p \in Staff /\ MayOpen(RoleOf[p], screen) IN
  (IF queues.kyc # <<>> /\ open("kyc") THEN CaseOffers(queues.kyc[1], p) ELSE {})
    \cup (IF queues.cds = <<"pending">> /\ open("cds") THEN {Do("complete", 0)} ELSE {})
    \cup (IF queues.batches # <<>> /\ open("submission") THEN BatchOffers(queues.batches[1], p) ELSE {})

\* OverviewView: what needs the attention of whoever is signed in, and the screen for it;
\* the batches whoever it is.
Attention(p) ==
  IF ~MayOpen(RoleOf[p], "overview") THEN {} ELSE
  (IF queues.batches # <<>> /\ OnScreen(queues.batches[1])
      /\ Stage(queues.batches[1]) \in {"Awaiting maker", "Awaiting checker"}
     THEN {"submission"} ELSE {})
    \cup (IF queues.kyc # <<>> /\ queues.kyc[1].status \in MakerStates \cup {"awaiting_checker"}
              /\ Can(p, "kyc:review")
            THEN {"kyc"} ELSE {})

----------------------------------------------------------------------------
(* The tab                                                                 *)

Resting == [pc |-> "idle"]

\* A case is open or an auction is: what is over stays in its queue.
DeskInit ==
  /\ \/ /\ kase = [status |-> "new", maker |-> Nobody, rounds |-> 0]
        /\ auction = [state |-> "closed", waiting |-> FALSE] /\ sequel = "none"
     \/ /\ kase = [status |-> "rejected", maker |-> Nobody, rounds |-> 0]
        /\ auction = [state |-> "open", waiting |-> TRUE] /\ sequel = "done"
  /\ cds = "none" /\ batches = <<>>
  /\ signed = Nobody /\ shift = 0
  /\ queues = [kyc |-> <<>>, cds |-> <<>>, batches |-> <<>>]
  /\ loads = [n \in 1..MaxShifts |-> Resting] /\ op = Resting /\ late = {}

\* Which sign-in it is, if any.
Current == IF signed = Nobody THEN 0 ELSE shift

\* What somebody may ask for, now.
MayAsk(p) == {q \in {"kyc", "cds", "batches"} :
  Can(p, CASE q = "kyc" -> "kyc:review" [] q = "cds" -> "cds:open" [] q = "batches" -> "bid:read:all")}

\* The queues as the services have them, empty where they were not asked.
Queues(asked) ==
  [ kyc |-> IF "kyc" \in asked THEN <<kase>> ELSE <<>>,
    cds |-> IF "cds" \in asked THEN <<cds>> ELSE <<>>,
    batches |-> IF "batches" \in asked THEN <<Control>> ELSE <<>> ]

Fill(parts, got, during) ==
  /\ queues' = [q \in DOMAIN queues |-> IF q \in parts THEN got[q] ELSE queues[q]]
  /\ late' = IF during # Current THEN late \cup parts ELSE late \ parts

\* signIn, and load once who signed in is known.
TakeDesk(p) ==
  /\ signed = Nobody /\ shift < MaxShifts
  /\ signed' = p /\ shift' = shift + 1
  /\ loads' = [loads EXCEPT ![shift + 1] = [pc |-> "asked", asked |-> MayAsk(p)]]
  /\ UNCHANGED <<worldVars, queues, op, late>>

LoadRead(n) ==
  /\ loads[n].pc = "asked"
  /\ loads' = [loads EXCEPT ![n] = [pc |-> "read", got |-> Queues(loads[n].asked)]]
  /\ UNCHANGED <<worldVars, signed, shift, queues, op, late>>

\* Every queue by itself: one that could not be had stays as it was.
LoadEnds(n) ==
  /\ loads[n].pc = "read"
  /\ \E parts \in SUBSET {"kyc", "cds", "batches"} :
       /\ \A q \in DOMAIN queues \ parts : loads[n].got[q] # <<>>
       /\ Fill(parts, loads[n].got, n)
  /\ loads' = [loads EXCEPT ![n] = Resting]
  /\ UNCHANGED <<worldVars, signed, shift, op>>

\* Nothing is dropped.
ResetNot == queues

\* The batches are kept.
Reset == [queues EXCEPT !.kyc = <<>>, !.cds = <<>>]

LeaveDesk ==
  /\ signed # Nobody /\ signed' = Nobody
  /\ queues' = Reset /\ late' = {}
  /\ UNCHANGED <<worldVars, shift, loads, op>>

Click(a) ==
  /\ signed # Nobody /\ op = Resting /\ a \in Offers(signed)
  /\ op' = [pc |-> "asked", by |-> signed, a |-> a]
  /\ UNCHANGED <<worldVars, signed, shift, queues, loads, late>>

\* What is asked again afterwards: after a case action in any case, after the others
\* if they succeeded.
After(a, ok) ==
  IF a.do \in CaseActions THEN [pc |-> "answered", parts |-> {"kyc", "cds"}]
  ELSE IF ok THEN [pc |-> "answered", parts |-> IF a.do = "complete" THEN {"cds"} ELSE {"batches"}]
  ELSE Resting

\* The service does it ...
ClickTaken ==
  /\ op.pc = "asked" /\ Takes(op.by, op.a)
  /\ op' = [op EXCEPT !.pc = "taken"]
  /\ UNCHANGED <<signed, shift, queues, loads, late>>

\* ... and what follows, and says so, of a case with how it is by then ...
ClickAnswered ==
  /\ op.pc = "taken" /\ (op.a.do \in Decisions => sequel \in {"done", "not sent"})
  /\ op' = After(op.a, TRUE)
  /\ queues' = IF op.a.do \in CaseActions /\ queues.kyc # <<>>
                THEN [queues EXCEPT !.kyc = <<kase>>] ELSE queues
  /\ UNCHANGED <<worldVars, signed, shift, loads, late>>

\* ... or refuses it, never gets it or stops, or its answer is lost.
ClickFails ==
  /\ op.pc \in {"asked", "taken"} /\ op' = After(op.a, FALSE)
  /\ UNCHANGED <<worldVars, signed, shift, queues, loads, late>>

\* For whoever is signed in now: after a case action as far as they may see it, after
\* the others only if they may.
AskAgain ==
  /\ op.pc = "answered"
  /\ LET asked == op.parts \cap MayAsk(signed) IN
     op' = IF asked = {} /\ op.parts # {"kyc", "cds"} THEN Resting
           ELSE [pc |-> "asked again", parts |-> op.parts, asked |-> asked, during |-> Current]
  /\ UNCHANGED <<worldVars, signed, shift, queues, loads, late>>

RefreshRead ==
  /\ op.pc = "asked again"
  /\ op' = [pc |-> "read", parts |-> op.parts, during |-> op.during, got |-> Queues(op.asked)]
  /\ UNCHANGED <<worldVars, signed, shift, queues, loads, late>>

RefreshEnds ==
  /\ op.pc = "read"
  /\ Fill(op.parts, op.got, op.during)
  /\ op' = Resting
  /\ UNCHANGED <<worldVars, signed, shift, loads>>

RefreshFails ==
  /\ op.pc = "read" /\ op' = Resting
  /\ UNCHANGED <<worldVars, signed, shift, queues, loads, late>>

DeskNext ==
  \/ \E p \in Staff, a \in Actions : Elsewhere(p, a)
  \/ Follow \/ BidComes \/ BotCloses
  \/ \E p \in Staff : TakeDesk(p)
  \/ \E n \in 1..MaxShifts : LoadRead(n) \/ LoadEnds(n)
  \/ LeaveDesk
  \/ \E a \in Actions : Click(a)
  \/ ClickTaken \/ ClickAnswered \/ ClickFails \/ AskAgain \/ RefreshRead \/ RefreshEnds \/ RefreshFails

DeskSpec == DeskInit /\ [][DeskNext]_deskVars

----------------------------------------------------------------------------
(* Properties                                                              *)

\* Queues "are dropped on sign-out so the next person never sees the previous one's
\* data" (App.vue:16-17): whoever is signed in sees cases and CDS requests only with the
\* permission for them, and nobody is shown any; except what a load or a refresh under
\* way at the sign-out brings afterwards.  The batches are not dropped: the next person
\* sees them without permission until what their own sign-in loads is there.
QueuesAreOwn ==
  /\ queues.kyc # <<>> => Can(signed, "kyc:review") \/ "kyc" \in late
  /\ queues.cds # <<>> => Can(signed, "cds:open") \/ "cds" \in late
  /\ queues.batches # <<>> /\ signed # Nobody =>
       Can(signed, "bid:read:all") \/ "batches" \in late \/ loads[shift] # Resting

\* The tab is fresh where it shows what the services have.
Fresh(a) ==
  CASE a.do \in CaseActions -> queues.kyc = <<kase>>
    [] a.do = "complete" -> queues.cds = <<cds>>
    [] a.do \in BatchActions -> queues.batches = <<Control>>

\* What the tab offers, from roles and states of its own, the services accept, from
\* theirs, as long as what it shows is not out of date: except to prepare a batch once
\* BoT has closed the auction (bidding.ts:192).
OfferedIsAccepted ==
  \A a \in Offers(signed) :
    Fresh(a) => Accepts(signed, a) \/ (a.do = "prepare" /\ auction.state = "closed")

\* The desk shows and offers what the person at it may see and do.
DeskIsOwn == QueuesAreOwn /\ OfferedIsAccepted

\* Nothing gets stuck in the back office: on a fresh screen somebody is offered a step
\* for every case that is open, every CDS account to be opened, bids that wait and
\* batches not sent; except a batch whose service stopped while it was sent, which is no
\* longer "prepared" and not "failed" (SubmissionView.vue:91), and one with a later batch,
\* or with bids that wait for one, which is not listed (bidding.ts:212).
SomebodyCanGoOn ==
  /\ kase.status \notin {"approved", "rejected"} => \E p \in Staff : CaseOffers(kase, p) # {}
  /\ cds = "pending" => \E p \in Staff : Can(p, "cds:open")
  /\ auction.waiting /\ auction.state # "closed" =>
       \E p \in Staff : BatchOffers(Control, p) # {}
  /\ batches # <<>> =>
       LET b == batches[Len(batches)] IN
       b.status = "prepared" \/ (b.status = "failed" /\ ~auction.waiting) =>
         \E p \in Staff, a \in Actions : a.id = Len(batches) /\ a \in BatchOffers(Control, p)

\* What the desk says of a batch or a case is so, whoever reads it, as long as it is not
\* out of date.  Where it says that another must act, there is another who is offered
\* to; where it invites the reader to act, the reader is offered to (but to send a batch
\* again it invites everybody, SubmissionView.vue:114); a batch it calls sent has reached
\* BoT, and one with the checker's step done has been approved.  An approved case has its
\* CDS request, and of a rejected one the investor has been told by SMS, or it is under
\* way: but a service that stops after the decision (kyc.service.ts:113-130) never does
\* either, and a message that cannot be sent is only logged (status-notifier.ts:38-42).
NotesAreTrue ==
  \A p \in Staff :
    LET onBatch == BatchNote(Control, p)
        onCase == CaseNote(kase, p)
        latest == batches[Len(batches)].status
        offered(q, what) == \E a \in BatchOffers(Control, q) \cup CaseOffers(kase, q) : a.do = what
    IN  /\ OnScreen(Control) =>
             /\ onBatch.kind = "yours" =>
                  offered(p, onBatch.what) \/ (onBatch.what = "send again" /\ ~Can(p, "batch:approve"))
             /\ onBatch.kind = "another's" => \E q \in Staff \ {p} : offered(q, onBatch.what)
             /\ onBatch.what = "sent" \/ StepsDone(Control) = 5 => latest = "submitted"
             /\ StepsDone(Control) >= 3 => latest # "prepared"
        /\ onCase.kind = "another's" => \E q \in Staff \ {p} : offered(q, onCase.what)
        /\ onCase.what = "cds raised" => cds # "none" \/ sequel \in {"due", "cut short"}
        /\ onCase.what = "notified" => sequel \in {"done", "due", "not sent", "cut short"}

\* Whoever asks for a screen ends on one they may open, their own first one where that is
\* not it; its links lead to screens they may open (but the overview's table sends the
\* observer to the bids, OverviewView.vue:133), and its reads are answered, as far as it
\* shows what it reads (UsersView.vue:174 asks for the customers' sign-ins for
\* everybody).
ScreensLead ==
  \A role \in DOMAIN Permissions :
    \A sc \in DOMAIN Screens :
      LET end == Lands(role, sc) IN
      /\ MayOpen(role, end)
      /\ Lands(role, end) = end
      /\ \A to \in Links(role, end) :
            MayOpen(role, to) \/ (to = "submission" /\ role = "bot_observer")
      /\ \A w \in Wanted(role, end) \ Permissions[role] :
            w = "customer_login:read" /\ Tabs(role) = {"staff"}

\* A customer who cannot unlock the PIN by SMS is helped: somebody is offered to ask for it,
\* somebody else to decide, and what is offered is accepted.
UnlocksLead ==
  \A login \in Logins :
    /\ \A p \in Staff : \A w \in LoginOffers(p, login) : LoginAccepts(p, login, w)
    /\ login.locked /\ login.requestedBy = Nobody => \E p \in Staff : "request unlock" \in LoginOffers(p, login)
    /\ login.requestedBy # Nobody =>
         \E p \in Staff \ {login.requestedBy} : "decide unlock" \in LoginOffers(p, login)

\* What is said to need attention is on a screen the reader may open (but for batches left
\* by an earlier sign-in, or brought by it, whose line asks for no permission,
\* OverviewView.vue:53-59), and if it is a case that is not out of date, somebody is offered
\* to go on with it.
AttentionLeads ==
  signed # Nobody =>
    \A to \in Attention(signed) :
      /\ \/ Lands(RoleOf[signed], to) = to
         \/ to = "submission" /\ ("batches" \in late \/ loads[shift] # Resting)
      /\ to = "kyc" /\ queues.kyc = <<kase>> => \E p \in Staff : CaseOffers(kase, p) # {}

\* The desk leads the work on: there is somebody for every step, it says who, and it leads
\* there.
DeskGuides == SomebodyCanGoOn /\ NotesAreTrue /\ ScreensLead /\ UnlocksLead /\ AttentionLeads

----------------------------------------------------------------------------
(* The inductive invariant                                                 *)

Parts == {"kyc", "cds", "batches"}

KaseRow ==
  [status : MakerStates \cup {"awaiting_checker", "rejected", "approved"},
   maker : Staff \cup {Nobody}, rounds : Nat]

BatchRow == [status : {"prepared", "submitted", "failed", "approved"}, by : Staff \cup {Nobody}]

QueueRow ==
  [ kyc : Seq(KaseRow), cds : Seq({"none", "pending", "completed"}),
    batches : Seq([state : {"open", "closed_for_bids", "closed"}, waiting : BOOLEAN,
                     batch : Seq([status : {"prepared", "submitted", "failed", "approved"},
                                    by : Staff \cup {Nobody}, id : Nat])]) ]

LoadRow == {Resting} \cup [pc : {"asked"}, asked : SUBSET Parts] \cup [pc : {"read"}, got : QueueRow]

OpRow ==
  {Resting} \cup [pc : {"asked", "taken"}, by : Staff, a : Actions] \cup [pc : {"answered"}, parts : SUBSET Parts]
    \cup [pc : {"asked again"}, parts : SUBSET Parts, asked : SUBSET Parts, during : Nat]
    \cup [pc : {"read"}, parts : SUBSET Parts, during : Nat, got : QueueRow]

DeskTypeOK ==
  /\ kase \in KaseRow /\ cds \in {"none", "pending", "completed"}
  /\ sequel \in {"none", "due", "done", "not sent", "cut short"}
  /\ auction \in [state : {"open", "closed_for_bids", "closed"}, waiting : BOOLEAN]
  /\ batches \in Seq(BatchRow) /\ Len(batches) <= MaxBatches
  /\ signed \in Staff \cup {Nobody} /\ shift \in 0..MaxShifts /\ (signed # Nobody => shift > 0)
  /\ queues \in QueueRow /\ late \in SUBSET Parts
  /\ loads \in [1..MaxShifts -> LoadRow] /\ op \in OpRow

\* Who did the first step may do it, and what follows a decision is done, or due, or has a
\* reason not to be.
WorkStands ==
  /\ kase.status = "approved" => cds # "none" \/ sequel \in {"due", "cut short"}
  /\ kase.status \in {"approved", "rejected"} => sequel # "none"
  /\ sequel = "not sent" => kase.status = "rejected"
  /\ kase.maker # Nobody => Can(kase.maker, "kyc:review")
  /\ \A i \in DOMAIN batches : batches[i].status = "prepared" => Can(batches[i].by, "batch:prepare")

\* What was asked for during a sign-in, that sign-in may ask for: who is signed in now,
\* if it is the last.
Own(during, asked, who, last) ==
  /\ during <= last
  /\ during = 0 => asked = {}
  /\ during = (IF who = Nobody THEN 0 ELSE last) => asked \subseteq MayAsk(who)

NotEmpty(got) == {part \in Parts : got[part] # <<>>}

ReadsStand ==
  /\ \A n \in 1..MaxShifts :
       /\ loads[n].pc = "asked" => Own(n, loads[n].asked, signed, shift)
       /\ loads[n].pc = "read" => Own(n, NotEmpty(loads[n].got), signed, shift)
  /\ op.pc = "asked again" => Own(op.during, op.asked, signed, shift)
  /\ op.pc = "read" => Own(op.during, NotEmpty(op.got), signed, shift)

DeskInv == DeskTypeOK /\ WorkStands /\ ReadsStand /\ QueuesAreOwn
=============================================================================
