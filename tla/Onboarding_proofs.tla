--------------------------- MODULE Onboarding_proofs ---------------------------
(* Proofs about Onboarding.tla: a closed case stays closed, one account is     *)
(* opened, who may bid was approved on what is on record and was told, and     *)
(* nobody waits unseen; for any tasks, submissions and faults.  Beside them    *)
(* proofs about three parts of the portal: the form that places a bid          *)
(* (BidForm), its tables (Table) and the screens of registration and of a      *)
(* forgotten PIN (Enrol).                                                      *)
EXTENDS Onboarding, Enrol, BidForm, Table, FiniteSetTheorems, WellFoundedInduction, TLAPS

----------------------------------------------------------------------------
(* The inductive invariant.                                                 *)

InvestorRow ==
  [status : {"draft", "under_review", "info_requested", "rejected", "approved"},
   bank : {"none", "existing", "requested", "opened"}, account : {"none", "held", "opened"},
   cds : {"none", "requested", "active"}, number : Numbers \cup {None}]

CaseRow == [status : OpenStates \cup Decided, maker : Staff \cup {None}]

Opening == {"open", "hand", "mark"}

Places ==
  Opening \cup {"idle", "save", "record", "queue", "act", "approve", "ask", "reject", "link", "cds"}

\* What a task has at hand at its place in the code.
Fits(w) ==
  /\ w.pc \in Places
  /\ w.pc = "idle" => w = Idle
  /\ w.pc \in {"save", "record", "queue"} => w.profile \in Profiles /\ w.was \in Editable
  /\ w.pc = "queue" => w.found \in Nat /\ w.existing \in BOOLEAN
  /\ w.pc \in {"act", "approve"} => w.profile \in Profiles \cup {None}
  /\ w.pc = "act" => w.action \in DOMAIN Outcome /\ w.by \in Staff /\ w.was \in OpenStates
  /\ w.pc \in {"link", "cds"} => w.tell \in BOOLEAN
  /\ w.pc = "cds" => w.number \in Numbers
  /\ w.pc \in Opening => w = [pc |-> w.pc]

OnboardingTypeOK ==
  /\ profile \in Profiles \cup {None} /\ seen \in Profiles \cup {None}
  /\ investor \in InvestorRow
  /\ cases \in Seq(CaseRow)
  /\ request \in {"none", "pending", "completed"}
  /\ opening \in {"none", "requested", "opened"}
  /\ handed \in Nat /\ told \in Nat /\ submits \in Nat /\ faults \in Nat
  /\ crossed \in BOOLEAN
  /\ task = [t \in Tasks |-> task[t]]
  /\ \A t \in Tasks :
       Fits(task[t]) /\ (task[t].pc \in {"act", "ask"} => task[t].case \in DOMAIN cases)

\* One case is open at most: the one found by the submission that is writing, if any is.
OneIsOpen ==
  /\ \A i, j \in OpenCases : i = j
  /\ \A t \in Tasks : At(t, "queue") =>
       /\ OpenCases \subseteq {task[t].found}
       /\ task[t].found = 0 \/ (task[t].found \in DOMAIN cases /\ task[t].as \in OpenStates)
  /\ \A t, u \in Tasks : At(t, "queue") /\ At(u, "queue") => t = u

\* Whoever hands the account over made its request, and nobody did before.
HandedOnce ==
  /\ handed <= 1
  /\ opening = "none" => handed = 0
  /\ \A t \in Tasks : At(t, "hand") => opening # "none" /\ handed = 0
  /\ \A t, u \in Tasks : At(t, "hand") /\ At(u, "hand") => t = u

Somebody(places) == \E t \in Tasks : task[t].pc \in places

\* Before the approval nothing was asked for; after it the details stand, and the CDS
\* request is where the investor's row says.
ApprovedOnce ==
  ~crossed =>
    /\ request = (CASE investor.cds = "none" -> "none" [] investor.cds = "requested" -> "pending"
                    [] investor.cds = "active" -> "completed")
    /\ investor.cds = "none" <=> investor.status # "approved"
    /\ investor.cds # "none" => profile = seen
    /\ Somebody({"cds"}) => request # "none"

\* Whoever is about to be approved is under review with the details the decision was made
\* on, unless decided meanwhile.
DecidedOnRecord ==
  ~crossed => \A t \in Tasks : At(t, "approve") =>
    /\ investor.status \in {"under_review"} \cup Decided
    /\ investor.status = "under_review" => profile = task[t].profile

\* The account is one the customer had, or one that was asked for after the approval.
AccountFollows ==
  ~crossed =>
    /\ investor.bank = "existing" <=> investor.account = "held"
    /\ Somebody({"open"}) \/ opening # "none" =>
         investor.status = "approved" /\ investor.bank # "existing"
    /\ Somebody({"hand", "mark", "link"}) => opening # "none"
    /\ Somebody({"link"}) => opening = "opened"
    /\ investor.account = "opened" => opening = "opened"
    /\ investor.bank = "opened" => investor.account = "opened"
    /\ investor.bank = "requested" => opening # "none"

\* The customer was told if both accounts are there, and one without an account waits for it.
ToldWhenReady ==
  ~crossed /\ faults = 0 =>
    /\ told = (IF investor.cds = "active" /\ investor.account # "none" THEN 1 ELSE 0)
    /\ investor.status = "approved" => investor.bank # "none" \/ Somebody(Opening)

\* Who waits for a decision has a case somebody may act on, or somebody is acting.
CasesFollow ==
  ~crossed /\ faults = 0 =>
    /\ investor.status = "under_review" =>
         \/ Somebody({"approve", "ask", "reject"})
         \/ \E i \in OpenCases : cases[i].status # "info_requested"
    /\ investor.status = "info_requested" => OpenCases # {} \/ Somebody({"approve", "reject"})

OnboardingInv ==
  OnboardingTypeOK /\ OneIsOpen /\ HandedOnce /\ ApprovedOnce /\ DecidedOnRecord
    /\ AccountFollows /\ ToldWhenReady /\ CasesFollow

----------------------------------------------------------------------------
(* What a step leaves alone.                                                *)

Others(t) == \A u \in Tasks : u # t => task'[u] = task[u]

\* A task is given a new row.
LEMMA TaskMoves ==
  ASSUME OnboardingTypeOK, NEW t \in Tasks, NEW w, task' = [task EXCEPT ![t] = w]
  PROVE  task' = [u \in Tasks |-> task'[u]] /\ task'[t] = w /\ Others(t)
BY DEF OnboardingTypeOK, Others

\* A task goes on to a new place with what it had.
LEMMA TaskGoes ==
  ASSUME OnboardingTypeOK, NEW t \in Tasks, task[t].pc \in Opening, NEW pc, Goes(t, pc)
  PROVE  task' = [u \in Tasks |-> task'[u]] /\ task'[t] = [pc |-> pc] /\ Others(t)
<1>1. task[t] = [pc |-> task[t].pc]
  BY DEF OnboardingTypeOK, Fits
<1>2. PICK old : old = task[t].pc /\ task[t] = [pc |-> old]
  BY <1>1
<1>3. [[pc |-> old] EXCEPT !.pc = pc] = [pc |-> pc]
  OBVIOUS
<1>4. task' = [task EXCEPT ![t] = [pc |-> pc]]
  BY <1>2, <1>3 DEF Goes
<1>5. QED
  BY <1>4, TaskMoves

\* The rows of the tasks still fit when one of them moves and no case goes away.
LEMMA RowsFit ==
  ASSUME OnboardingTypeOK, NEW t \in Tasks, Others(t), Fits(task'[t]),
         DOMAIN cases \subseteq DOMAIN cases',
         task'[t].pc \in {"act", "ask"} => task'[t].case \in DOMAIN cases'
  PROVE  \A u \in Tasks :
           Fits(task'[u]) /\ (task'[u].pc \in {"act", "ask"} => task'[u].case \in DOMAIN cases')
BY DEF OnboardingTypeOK, Others

\* OneIsOpen depends on the cases that are open, and on the submission that is writing.
LEMMA OpenFewer ==
  ASSUME OneIsOpen, NEW t \in Tasks, Others(t), task'[t].pc # "queue",
         DOMAIN cases \subseteq DOMAIN cases', OpenCases' \subseteq OpenCases
  PROVE  OneIsOpen'
BY DEF OneIsOpen, Others, At

LEMMA OpenSame ==
  ASSUME OneIsOpen, NEW t \in Tasks, Others(t), task'[t].pc # "queue", UNCHANGED cases
  PROVE  OneIsOpen'
BY OpenFewer DEF OpenCases

LEMMA SomebodyStays ==
  ASSUME NEW t \in Tasks, Others(t), NEW places, task[t].pc \notin places, Somebody(places)
  PROVE  Somebody(places)'
BY DEF Somebody, Others

LEMMA SomebodyCame ==
  ASSUME NEW t \in Tasks, Others(t), NEW places, task'[t].pc \notin places, Somebody(places)'
  PROVE  Somebody(places)
BY DEF Somebody, Others

LEMMA IdleFits ==
  Fits(Idle) /\ Idle.pc = "idle"
BY DEF Fits, Idle, Places, Opening

\* HandedOnce depends on the account request, and on who is about to hand it over.
LEMMA HandedSame ==
  ASSUME HandedOnce, NEW t \in Tasks, Others(t), task'[t].pc # "hand", UNCHANGED <<opening, handed>>
  PROVE  HandedOnce'
BY DEF HandedOnce, Others, At

\* ApprovedOnce depends on the investor's row, the CDS request and the details.
LEMMA ApprovedSame ==
  ASSUME ApprovedOnce, NEW t \in Tasks, Others(t), UNCHANGED <<profile, request, seen>>,
         crossed => crossed',
         ~crossed' => UNCHANGED <<investor.cds, investor.status>>,
         task'[t].pc = "cds" => request # "none"
  PROVE  ApprovedOnce'
<1> SUFFICES ASSUME ~crossed'
             PROVE  ApprovedOnce'
  BY DEF ApprovedOnce
<1>1. Somebody({"cds"})' => request # "none"
  <2>1. CASE task'[t].pc = "cds"
    BY <2>1
  <2>2. CASE task'[t].pc # "cds"
    BY <2>2, SomebodyCame DEF ApprovedOnce
  <2>3. QED
    BY <2>1, <2>2
<1>2. QED
  BY <1>1 DEF ApprovedOnce

\* DecidedOnRecord depends on the investor's status, the details, and who is about to approve.
LEMMA DecidedSame ==
  ASSUME DecidedOnRecord, NEW t \in Tasks, Others(t), crossed => crossed', task'[t].pc # "approve",
         ~crossed' => UNCHANGED <<profile, investor.status>> \/ investor'.status \in Decided
  PROVE  DecidedOnRecord'
<1> SUFFICES ASSUME ~crossed', NEW u \in Tasks, task'[u].pc = "approve"
             PROVE  /\ investor'.status \in {"under_review"} \cup Decided
                    /\ investor'.status = "under_review" => profile' = task'[u].profile
  BY DEF DecidedOnRecord, At
<1>1. ~crossed /\ task'[u] = task[u]
  BY DEF Others
<1>2. QED
  BY <1>1 DEF DecidedOnRecord, At, Decided

\* Nobody is about to be approved while the details may change.
LEMMA NobodyIsDeciding ==
  ASSUME DecidedOnRecord, ~crossed, investor.status \in Editable
  PROVE  \A u \in Tasks : task[u].pc # "approve"
BY DEF DecidedOnRecord, At, Editable, Decided

\* AccountFollows depends on the account, and on the tasks that open it.
LEMMA AccountSame ==
  ASSUME AccountFollows, NEW t \in Tasks, Others(t), UNCHANGED opening, crossed => crossed',
         ~crossed' => UNCHANGED <<investor.bank, investor.account, investor.status>>,
         task'[t].pc \notin Opening, task'[t].pc = "link" => opening = "opened"
  PROVE  AccountFollows'
<1> SUFFICES ASSUME ~crossed'
             PROVE  AccountFollows'
  BY DEF AccountFollows
<1>1. ~crossed /\ task'[t].pc \notin {"open", "hand", "mark"}
  BY DEF Opening
<1>2. Somebody({"open"})' => Somebody({"open"})
  BY <1>1, SomebodyCame
<1>3. Somebody({"link"})' => opening = "opened"
  <2>1. CASE task'[t].pc = "link"
    BY <2>1
  <2>2. CASE task'[t].pc # "link"
    BY <1>1, <2>2, SomebodyCame DEF AccountFollows
  <2>3. QED
    BY <2>1, <2>2
<1>4. Somebody({"hand", "mark", "link"})' => opening # "none"
  <2>1. CASE task'[t].pc = "link"
    BY <2>1
  <2>2. CASE task'[t].pc # "link"
    <3>1. task'[t].pc \notin {"hand", "mark", "link"}
      BY <1>1, <2>2
    <3>2. QED
      BY <1>1, <3>1, SomebodyCame DEF AccountFollows
  <2>3. QED
    BY <2>1, <2>2
<1>5. QED
  BY <1>1, <1>2, <1>3, <1>4 DEF AccountFollows

\* ToldWhenReady depends on the messages, and on who opens the account.
LEMMA ToldSame ==
  ASSUME ToldWhenReady, NEW t \in Tasks, Others(t), crossed => crossed', faults' = 0 => faults = 0,
         ~crossed' => UNCHANGED <<told, investor.cds, investor.account, investor.bank, investor.status>>,
         task[t].pc \in Opening => task'[t].pc \in Opening \/ faults' # 0
  PROVE  ToldWhenReady'
<1> SUFFICES ASSUME ~crossed', faults' = 0
             PROVE  ToldWhenReady'
  BY DEF ToldWhenReady
<1>1. Somebody(Opening) => Somebody(Opening)'
  <2>1. CASE task'[t].pc \in Opening
    BY <2>1 DEF Somebody
  <2>2. CASE task[t].pc \notin Opening
    BY <2>2, SomebodyStays
  <2>3. QED
    BY <2>1, <2>2
<1>2. QED
  BY <1>1 DEF ToldWhenReady

\* CasesFollow depends on the investor's status, the cases, and on who acts on them.
LEMMA CasesSame ==
  ASSUME CasesFollow, NEW t \in Tasks, Others(t), crossed => crossed', faults' = 0 => faults = 0,
         UNCHANGED cases, ~crossed' => UNCHANGED investor.status,
         task[t].pc \in {"approve", "ask", "reject"} => faults' # 0
  PROVE  CasesFollow'
<1> SUFFICES ASSUME ~crossed', faults' = 0
             PROVE  CasesFollow'
  BY DEF CasesFollow
<1>1. task[t].pc \notin {"approve", "ask", "reject"} /\ task[t].pc \notin {"approve", "reject"}
  OBVIOUS
<1>2. Somebody({"approve", "ask", "reject"}) => Somebody({"approve", "ask", "reject"})'
  BY <1>1, SomebodyStays
<1>3. Somebody({"approve", "reject"}) => Somebody({"approve", "reject"})'
  BY <1>1, SomebodyStays
<1>4. OpenCases' = OpenCases
  BY DEF OpenCases
<1>5. QED
  BY <1>2, <1>3, <1>4 DEF CasesFollow

\* A task starts with what it read, and nothing else changes.
LEMMA StartKeeps ==
  ASSUME OnboardingInv, NEW t \in Tasks, NEW w, Starts(t, w), Fits(w), submits' \in Nat,
         w.pc \in {"act", "ask"} => w.case \in DOMAIN cases,
         w.pc \notin Opening \cup {"approve", "queue"}, w.pc = "cds" => request # "none",
         w.pc = "link" => opening = "opened",
         UNCHANGED <<profile, investor, cases, request, opening, handed, told, seen, crossed, faults>>
  PROVE  OnboardingInv'
<1>1. task' = [u \in Tasks |-> task'[u]] /\ task'[t] = w /\ Others(t)
  BY TaskMoves DEF Starts, OnboardingInv
<1>2. task[t].pc = "idle" /\ w.pc # "hand"
  BY IdleFits DEF Starts, Opening
<1>3. OnboardingTypeOK'
  <2>1. \A u \in Tasks :
          Fits(task'[u]) /\ (task'[u].pc \in {"act", "ask"} => task'[u].case \in DOMAIN cases')
    BY <1>1, RowsFit DEF OnboardingInv
  <2>2. QED
    BY <1>1, <2>1 DEF OnboardingInv, OnboardingTypeOK
<1>4. OneIsOpen'
  BY <1>1, OpenSame DEF OnboardingInv
<1>5. HandedOnce' /\ ApprovedOnce'
  BY <1>1, <1>2, HandedSame, ApprovedSame DEF OnboardingInv
<1>6. AccountFollows' /\ DecidedOnRecord'
  BY <1>1, <1>2, AccountSame, DecidedSame DEF OnboardingInv
<1>7. ToldWhenReady' /\ CasesFollow'
  BY <1>1, <1>2, ToldSame, CasesSame DEF OnboardingInv, Opening
<1>8. QED
  BY <1>3, <1>4, <1>5, <1>6, <1>7 DEF OnboardingInv

LEMMA SaveReadKeeps ==
  ASSUME OnboardingInv, NEW t \in Tasks, NEW p, SaveRead(t, p)
  PROVE  OnboardingInv'
<1>1. PICK w : w = [pc |-> "save", profile |-> p, was |-> investor.status]
  OBVIOUS
<1>2. Starts(t, w) /\ Fits(w) /\ w.pc = "save"
  BY <1>1 DEF SaveRead, SaveReadIf, Fits, Places, Opening
<1>3. QED
  BY <1>2, StartKeeps DEF SaveRead, SaveReadIf, OnboardingInv, OnboardingTypeOK, Opening

LEMMA SubmitReadKeeps ==
  ASSUME OnboardingInv, NEW t \in Tasks, SubmitRead(t)
  PROVE  OnboardingInv'
<1>1. PICK w : w = [pc |-> "record", profile |-> profile, was |-> investor.status]
  OBVIOUS
<1>2. profile \in Profiles /\ submits' \in Nat
  BY DEF SubmitRead, OnboardingInv, OnboardingTypeOK
<1>3. Starts(t, w) /\ Fits(w) /\ w.pc = "record"
  BY <1>1, <1>2 DEF SubmitRead, Fits, Places, Opening
<1>4. QED
  BY <1>2, <1>3, StartKeeps DEF SubmitRead, Opening

LEMMA ActReadKeeps ==
  ASSUME OnboardingInv, NEW t \in Tasks, NEW s \in Staff, NEW i \in DOMAIN cases,
         NEW a \in DOMAIN Outcome, ActRead(t, s, i, a)
  PROVE  OnboardingInv'
<1>1. PICK w : w = [pc |-> "act", case |-> i, action |-> a, by |-> s, was |-> cases[i].status,
                    profile |-> IF a = "final-approve" THEN profile ELSE None]
  OBVIOUS
<1>2. w.profile \in Profiles \cup {None} /\ w.pc = "act" /\ w.case = i /\ w.by = s /\ w.action = a
      /\ w.was = cases[i].status
  BY <1>1 DEF OnboardingInv, OnboardingTypeOK
<1>3. cases[i].status \in OpenStates
  BY DEF ActRead, OpenStates, MakerStates
<1>4. Fits(w)
  BY <1>2, <1>3 DEF Fits, Places, Opening
<1>5. Starts(t, w)
  BY <1>1 DEF ActRead
<1>6. QED
  BY <1>2, <1>4, <1>5, StartKeeps DEF ActRead, Opening, OnboardingInv, OnboardingTypeOK

LEMMA LinkReadKeeps ==
  ASSUME OnboardingInv, NEW t \in Tasks, LinkRead(t)
  PROVE  OnboardingInv'
<1>1. PICK w : w = [pc |-> "link", tell |-> investor.cds = "active"]
  OBVIOUS
<1>2. Starts(t, w) /\ Fits(w) /\ w.pc = "link"
  BY <1>1 DEF LinkRead, Fits, Places, Opening
<1>3. QED
  BY <1>2, StartKeeps DEF LinkRead, OnboardingInv, OnboardingTypeOK, Opening

LEMMA CdsReadKeeps ==
  ASSUME OnboardingInv, NEW t \in Tasks, NEW n \in Numbers, CdsRead(t, n)
  PROVE  OnboardingInv'
<1>1. PICK w : w = [pc |-> "cds", number |-> n, tell |-> investor.account # "none"]
  OBVIOUS
<1>2. Starts(t, w) /\ Fits(w) /\ w.pc = "cds"
  BY <1>1 DEF CdsRead, Fits, Places, Opening
<1>3. QED
  BY <1>2, StartKeeps DEF CdsRead, OnboardingInv, OnboardingTypeOK, Opening

----------------------------------------------------------------------------
(* Steps that end a task, or change the investor's row.                     *)

\* A task moves on to a place that has nothing to do with accounts or cases.
LEMMA EndFacts ==
  ASSUME OnboardingInv, NEW t \in Tasks, Ends(t), UNCHANGED cases
  PROVE  /\ task' = [u \in Tasks |-> task'[u]] /\ task'[t].pc = "idle" /\ Others(t)
         /\ \A u \in Tasks :
              Fits(task'[u]) /\ (task'[u].pc \in {"act", "ask"} => task'[u].case \in DOMAIN cases')
         /\ OneIsOpen'
<1>1. task' = [u \in Tasks |-> task'[u]] /\ task'[t] = Idle /\ Others(t)
  BY TaskMoves DEF Ends, OnboardingInv
<1>2. \A u \in Tasks :
        Fits(task'[u]) /\ (task'[u].pc \in {"act", "ask"} => task'[u].case \in DOMAIN cases')
  BY <1>1, IdleFits, RowsFit DEF OnboardingInv
<1>3. OneIsOpen'
  BY <1>1, IdleFits, OpenSame DEF OnboardingInv
<1>4. QED
  BY <1>1, <1>2, <1>3, IdleFits

\* The row of the investor, field by field.
LEMMA InvestorFields ==
  ASSUME OnboardingTypeOK
  PROVE  /\ investor = [status |-> investor.status, bank |-> investor.bank, account |-> investor.account,
                        cds |-> investor.cds, number |-> investor.number]
         /\ investor.status \in {"draft", "under_review", "info_requested", "rejected", "approved"}
         /\ investor.bank \in {"none", "existing", "requested", "opened"}
         /\ investor.account \in {"none", "held", "opened"}
         /\ investor.cds \in {"none", "requested", "active"} /\ investor.number \in Numbers \cup {None}
BY DEF OnboardingTypeOK, InvestorRow

LEMMA SaveWriteKeeps ==
  ASSUME OnboardingInv, NEW t \in Tasks, SaveWrite(t)
  PROVE  OnboardingInv'
<1>1. /\ UNCHANGED <<investor, cases, request, opening, handed, told, seen, submits, faults>>
      /\ Ends(t) /\ task[t].pc = "save" /\ profile' = task[t].profile
      /\ crossed' = (crossed \/ investor.status # task[t].was)
  BY DEF SaveWrite, At, CrossedIf
<1>2. /\ task' = [u \in Tasks |-> task'[u]] /\ task'[t].pc = "idle" /\ Others(t) /\ OneIsOpen'
      /\ \A u \in Tasks :
           Fits(task'[u]) /\ (task'[u].pc \in {"act", "ask"} => task'[u].case \in DOMAIN cases')
  BY <1>1, EndFacts
<1>3. task[t].profile \in Profiles /\ task[t].was \in Editable
  BY <1>1 DEF OnboardingInv, OnboardingTypeOK, Fits
<1>4. crossed' \in BOOLEAN /\ (crossed => crossed')
  BY <1>1 DEF OnboardingInv, OnboardingTypeOK
<1>5. OnboardingTypeOK'
  BY <1>1, <1>2, <1>3, <1>4 DEF OnboardingInv, OnboardingTypeOK
<1>6. HandedOnce'
  BY <1>1, <1>2, HandedSame DEF OnboardingInv
<1>7. ApprovedOnce'
  <2> SUFFICES ASSUME ~crossed'
               PROVE  ApprovedOnce'
    BY DEF ApprovedOnce
  <2>1. ~crossed /\ investor.status # "approved"
    BY <1>1, <1>3 DEF Editable
  <2>2. Somebody({"cds"})' => Somebody({"cds"})
    BY <1>2, SomebodyCame
  <2>3. QED
    BY <1>1, <2>1, <2>2 DEF ApprovedOnce, OnboardingInv
<1>8. AccountFollows'
  BY <1>1, <1>2, <1>4, AccountSame DEF OnboardingInv, Opening
<1>9. ToldWhenReady' /\ CasesFollow'
  BY <1>1, <1>2, <1>4, ToldSame, CasesSame DEF OnboardingInv, Opening
<1>10. DecidedOnRecord'
  <2>1. ~crossed' => ~crossed /\ investor.status \in Editable
    BY <1>1, <1>3
  <2>2. QED
    BY <1>2, <2>1, NobodyIsDeciding DEF DecidedOnRecord, At, Others, OnboardingInv
<1>11. QED
  BY <1>2, <1>5, <1>6, <1>7, <1>8, <1>9, <1>10 DEF OnboardingInv

LEMMA DiesKeeps ==
  ASSUME OnboardingInv, NEW t \in Tasks, Dies(t)
  PROVE  OnboardingInv'
<1>1. /\ UNCHANGED <<profile, investor, cases, request, opening, handed, told, seen, crossed, submits>>
      /\ Ends(t) /\ faults' = faults + 1 /\ faults \in Nat
  BY DEF Dies, OnboardingInv, OnboardingTypeOK
<1>2. /\ task' = [u \in Tasks |-> task'[u]] /\ task'[t].pc = "idle" /\ Others(t) /\ OneIsOpen'
      /\ \A u \in Tasks :
           Fits(task'[u]) /\ (task'[u].pc \in {"act", "ask"} => task'[u].case \in DOMAIN cases')
  BY <1>1, EndFacts
<1>3. faults' \in Nat /\ faults' # 0
  BY <1>1
<1>4. OnboardingTypeOK'
  BY <1>1, <1>2, <1>3 DEF OnboardingInv, OnboardingTypeOK
<1>5. HandedOnce' /\ ApprovedOnce' /\ DecidedOnRecord'
  BY <1>1, <1>2, HandedSame, ApprovedSame, DecidedSame DEF OnboardingInv
<1>6. AccountFollows'
  BY <1>1, <1>2, AccountSame DEF OnboardingInv, Opening
<1>7. ToldWhenReady' /\ CasesFollow'
  BY <1>3 DEF ToldWhenReady, CasesFollow
<1>8. QED
  BY <1>2, <1>4, <1>5, <1>6, <1>7 DEF OnboardingInv

LEMMA RejectKeeps ==
  ASSUME OnboardingInv, NEW t \in Tasks, Reject(t)
  PROVE  OnboardingInv'
<1>1. /\ UNCHANGED <<profile, cases, request, opening, handed, told, seen, submits, faults>>
      /\ Ends(t) /\ investor' = [investor EXCEPT !.status = "rejected"] /\ task[t].pc = "reject"
      /\ crossed' = (crossed \/ investor.status \in Decided)
  BY DEF Reject, At, CrossedIf
<1>2. /\ task' = [u \in Tasks |-> task'[u]] /\ task'[t].pc = "idle" /\ Others(t) /\ OneIsOpen'
      /\ \A u \in Tasks :
           Fits(task'[u]) /\ (task'[u].pc \in {"act", "ask"} => task'[u].case \in DOMAIN cases')
  BY <1>1, EndFacts
<1>3. /\ investor' \in InvestorRow /\ investor'.status = "rejected" /\ investor'.cds = investor.cds
      /\ investor'.bank = investor.bank /\ investor'.account = investor.account
  BY <1>1, InvestorFields DEF InvestorRow, OnboardingInv
<1>4. crossed' \in BOOLEAN /\ (crossed => crossed')
  BY <1>1 DEF OnboardingInv, OnboardingTypeOK
<1>5. OnboardingTypeOK'
  BY <1>1, <1>2, <1>3, <1>4 DEF OnboardingInv, OnboardingTypeOK
<1>6. HandedOnce'
  BY <1>1, <1>2, HandedSame DEF OnboardingInv
<1>7. ~crossed' => ~crossed /\ investor.status # "approved"
  BY <1>1 DEF Decided
<1>8. ApprovedOnce'
  <2>1. Somebody({"cds"})' => Somebody({"cds"})
    BY <1>2, SomebodyCame
  <2>2. QED
    BY <1>1, <1>3, <1>7, <2>1 DEF ApprovedOnce, OnboardingInv
<1>9. AccountFollows'
  <2>1. /\ Somebody({"open"})' => Somebody({"open"})
        /\ Somebody({"hand", "mark", "link"})' => Somebody({"hand", "mark", "link"})
        /\ Somebody({"link"})' => Somebody({"link"})
    BY <1>2, SomebodyCame
  <2>2. QED
    BY <1>1, <1>3, <1>7, <2>1 DEF AccountFollows, OnboardingInv
<1>10. ToldWhenReady' /\ CasesFollow'
  BY <1>1, <1>3, <1>7 DEF ToldWhenReady, CasesFollow, OnboardingInv
<1>11. DecidedOnRecord'
  BY <1>1, <1>2, <1>3, <1>4, DecidedSame DEF OnboardingInv, Decided
<1>12. QED
  BY <1>2, <1>5, <1>6, <1>8, <1>9, <1>10, <1>11 DEF OnboardingInv

LEMMA AskForInfoKeeps ==
  ASSUME OnboardingInv, NEW t \in Tasks, AskForInfo(t)
  PROVE  OnboardingInv'
<1>1. /\ UNCHANGED <<profile, cases, request, opening, handed, told, seen, submits, faults>>
      /\ Ends(t) /\ investor' = [investor EXCEPT !.status = "info_requested"] /\ task[t].pc = "ask"
      /\ crossed' = (crossed \/ (\/ investor.status \in Decided \/ cases[task[t].case].status # "info_requested"
                                 \/ \E u \in Tasks : task[u].pc = "approve"))
  BY DEF AskForInfo, At, CrossedIf
<1>2. /\ task' = [u \in Tasks |-> task'[u]] /\ task'[t].pc = "idle" /\ Others(t) /\ OneIsOpen'
      /\ \A u \in Tasks :
           Fits(task'[u]) /\ (task'[u].pc \in {"act", "ask"} => task'[u].case \in DOMAIN cases')
  BY <1>1, EndFacts
<1>3. /\ investor' \in InvestorRow /\ investor'.status = "info_requested" /\ investor'.cds = investor.cds
      /\ investor'.bank = investor.bank /\ investor'.account = investor.account
  BY <1>1, InvestorFields DEF InvestorRow, OnboardingInv
<1>4. crossed' \in BOOLEAN /\ (crossed => crossed')
  BY <1>1 DEF OnboardingInv, OnboardingTypeOK
<1>5. OnboardingTypeOK'
  BY <1>1, <1>2, <1>3, <1>4 DEF OnboardingInv, OnboardingTypeOK
<1>6. HandedOnce'
  BY <1>1, <1>2, HandedSame DEF OnboardingInv
<1>7. ~crossed' => ~crossed /\ investor.status # "approved"
  BY <1>1 DEF Decided
<1>8. ApprovedOnce'
  <2>1. Somebody({"cds"})' => Somebody({"cds"})
    BY <1>2, SomebodyCame
  <2>2. QED
    BY <1>1, <1>3, <1>7, <2>1 DEF ApprovedOnce, OnboardingInv
<1>9. AccountFollows'
  <2>1. /\ Somebody({"open"})' => Somebody({"open"})
        /\ Somebody({"hand", "mark", "link"})' => Somebody({"hand", "mark", "link"})
        /\ Somebody({"link"})' => Somebody({"link"})
    BY <1>2, SomebodyCame
  <2>2. QED
    BY <1>1, <1>3, <1>7, <2>1 DEF AccountFollows, OnboardingInv
<1>10. ToldWhenReady'
  BY <1>1, <1>3, <1>7 DEF ToldWhenReady, OnboardingInv
<1>11. CasesFollow'
  <2>1. ~crossed' => task[t].case \in OpenCases'
    BY <1>1 DEF OpenCases, OpenStates, MakerStates, OnboardingInv, OnboardingTypeOK
  <2>2. QED
    BY <1>3, <2>1 DEF CasesFollow
<1>12. DecidedOnRecord'
  BY <1>1, <1>2 DEF DecidedOnRecord, At, Others
<1>13. QED
  BY <1>2, <1>5, <1>6, <1>8, <1>9, <1>10, <1>11, <1>12 DEF OnboardingInv

----------------------------------------------------------------------------
(* Steps on the cases, and the approval.                                    *)

\* A submission leaves one open case, which is new.
LEMMA CaseOpenedFacts ==
  ASSUME OnboardingTypeOK, OneIsOpen, NEW t \in Tasks, At(t, "queue"), CaseOpened(task[t].found)
  PROVE  /\ cases' \in Seq(CaseRow) /\ DOMAIN cases \subseteq DOMAIN cases'
         /\ \A i, j \in OpenCases' : i = j
         /\ \E i \in OpenCases' : cases'[i].status # "info_requested"
<1>1. PICK new, found : new = [status |-> "new", maker |-> None] /\ found = task[t].found
  OBVIOUS
<1>2. new \in CaseRow /\ new.status = "new" /\ "new" \in OpenStates /\ cases \in Seq(CaseRow)
  BY <1>1 DEF CaseRow, OpenStates, MakerStates, OnboardingTypeOK
<1>3. OpenCases \subseteq {found} /\ (found = 0 \/ found \in DOMAIN cases)
  BY <1>1 DEF OneIsOpen
<1>4. CASE found = 0
  <2>1. cases' = Append(cases, new)
    BY <1>1, <1>4 DEF CaseOpened
  <2>2. /\ cases' \in Seq(CaseRow) /\ Len(cases') = Len(cases) + 1 /\ Len(cases) \in Nat
        /\ cases'[Len(cases) + 1] = new /\ \A i \in 1..Len(cases) : cases'[i] = cases[i]
        /\ DOMAIN cases = 1..Len(cases) /\ DOMAIN cases' = 1..(Len(cases) + 1)
    BY <1>2, <2>1
  <2>3. OpenCases = {}
    BY <1>3, <1>4, <2>2 DEF OpenCases
  <2>4. \A i \in DOMAIN cases' : i \in DOMAIN cases \/ i = Len(cases) + 1
    BY <2>2
  <2>5. \A i \in OpenCases' : i = Len(cases) + 1
    BY <2>2, <2>3, <2>4 DEF OpenCases
  <2>6. Len(cases) + 1 \in OpenCases'
    BY <1>2, <2>2 DEF OpenCases
  <2>7. DOMAIN cases \subseteq DOMAIN cases'
    BY <2>2
  <2>8. QED
    BY <1>2, <2>2, <2>5, <2>6, <2>7
<1>5. CASE found # 0
  <2>1. cases' = [cases EXCEPT ![found] = new] /\ found \in DOMAIN cases
    BY <1>1, <1>3, <1>5 DEF CaseOpened
  <2>2. /\ cases' \in Seq(CaseRow) /\ DOMAIN cases' = DOMAIN cases /\ cases'[found] = new
        /\ \A j \in DOMAIN cases : j # found => cases'[j] = cases[j]
    BY <1>2, <2>1
  <2>3. OpenCases' \subseteq {found} /\ found \in OpenCases'
    BY <1>2, <1>3, <2>1, <2>2 DEF OpenCases
  <2>4. QED
    BY <1>2, <2>2, <2>3
<1>6. QED
  BY <1>4, <1>5

\* The transaction of a submission writes the row of an investor who was not approved, but
\* for tasks that overlapped.
LEMMA SubmittedFacts ==
  ASSUME OnboardingInv, NEW t \in Tasks, task[t].was \in Editable, NEW existing, Submitted(t, existing),
         crossed => crossed', ~crossed' => ~Outdated(t)
  PROVE  /\ investor' \in InvestorRow /\ investor'.status = "under_review" /\ investor'.cds = investor.cds
         /\ \/ investor'.bank = "existing" /\ investor'.account = "held"
            \/ investor'.bank = investor.bank /\ investor'.account = investor.account
         /\ ~crossed' =>
              /\ ~crossed /\ investor.status \in Editable /\ profile = task[t].profile
              /\ \A u \in Tasks : task[u].pc # "approve"
<1>1. investor' = [investor EXCEPT !.status = "under_review",
                     !.bank = IF existing THEN "existing" ELSE investor.bank,
                     !.account = IF existing THEN "held" ELSE investor.account]
  BY DEF Submitted
<1>2. /\ investor' \in InvestorRow /\ investor'.status = "under_review" /\ investor'.cds = investor.cds
      /\ \/ investor'.bank = "existing" /\ investor'.account = "held"
         \/ investor'.bank = investor.bank /\ investor'.account = investor.account
  <2>1. CASE existing
    <3>1. investor' = [status |-> "under_review", bank |-> "existing", account |-> "held",
                       cds |-> investor.cds, number |-> investor.number]
      BY <1>1, <2>1, InvestorFields DEF OnboardingInv
    <3>2. QED
      BY <3>1, InvestorFields DEF InvestorRow, OnboardingInv
  <2>2. CASE ~existing
    <3>1. investor' = [status |-> "under_review", bank |-> investor.bank, account |-> investor.account,
                       cds |-> investor.cds, number |-> investor.number]
      BY <1>1, <2>2, InvestorFields DEF OnboardingInv
    <3>2. QED
      BY <3>1, InvestorFields DEF InvestorRow, OnboardingInv
  <2>3. QED
    BY <2>1, <2>2
<1>3. ~crossed' => ~crossed /\ investor.status \in Editable /\ profile = task[t].profile
  BY DEF Outdated
<1>4. QED
  BY <1>2, <1>3, NobodyIsDeciding DEF OnboardingInv

\* What a submission that commits leaves of the rows that do not depend on cases.
LEMMA SubmittedKeeps ==
  ASSUME OnboardingInv, NEW t \in Tasks, task[t].pc \in {"record", "queue"}, task[t].was \in Editable,
         NEW existing, Submitted(t, existing), crossed => crossed', ~crossed' => ~Outdated(t),
         Others(t), task'[t].pc \in {"approve", "idle"}
  PROVE  HandedOnce' /\ ApprovedOnce' /\ AccountFollows' /\ ToldWhenReady'
<1>1. UNCHANGED <<profile, request, opening, handed, told, seen, submits, faults>>
  BY DEF Submitted
<1>2. /\ investor'.status = "under_review" /\ investor'.cds = investor.cds
      /\ \/ investor'.bank = "existing" /\ investor'.account = "held"
         \/ investor'.bank = investor.bank /\ investor'.account = investor.account
      /\ ~crossed' => ~crossed /\ investor.status # "approved"
  BY SubmittedFacts DEF Editable
<1>3. HandedOnce'
  BY <1>1, HandedSame DEF OnboardingInv
<1>4. ApprovedOnce'
  <2>1. Somebody({"cds"})' => Somebody({"cds"})
    BY SomebodyCame
  <2>2. QED
    BY <1>1, <1>2, <2>1 DEF ApprovedOnce, OnboardingInv
<1>5. AccountFollows'
  <2>1. /\ Somebody({"open"})' => Somebody({"open"})
        /\ Somebody({"hand", "mark", "link"})' => Somebody({"hand", "mark", "link"})
        /\ Somebody({"link"})' => Somebody({"link"})
    BY SomebodyCame
  <2>2. QED
    BY <1>1, <1>2, <2>1 DEF AccountFollows, OnboardingInv
<1>6. ToldWhenReady'
  <2>1. ~crossed' => investor.cds = "none"
    BY <1>2 DEF ApprovedOnce, OnboardingInv
  <2>2. QED
    BY <1>1, <1>2, <2>1 DEF ToldWhenReady, OnboardingInv
<1>7. QED
  BY <1>3, <1>4, <1>5, <1>6

LEMMA RecordKeeps ==
  ASSUME OnboardingInv, NEW t \in Tasks, Record(t)
  PROVE  OnboardingInv'
<1>1. PICK p, existing : p = task[t].profile /\ existing = RunChecks(p, TRUE).existing
  OBVIOUS
<1>2. PICK w : w = [pc |-> "approve", profile |-> p]
  OBVIOUS
<1>3. /\ Submitted(t, existing) /\ task[t].pc = "record" /\ UNCHANGED cases
      /\ crossed' = (crossed \/ Outdated(t))
      /\ task' = [task EXCEPT ![t] = w]
  BY <1>1, <1>2 DEF Record, At, CrossedIf
<1>4. task[t].was \in Editable /\ p \in Profiles
  BY <1>1, <1>3 DEF OnboardingInv, OnboardingTypeOK, Fits
<1>5. task' = [u \in Tasks |-> task'[u]] /\ Others(t) /\ task'[t] = w
  BY <1>3, TaskMoves DEF OnboardingInv
<1>6. Fits(w) /\ w.pc = "approve" /\ w.profile = p
  BY <1>2, <1>4 DEF Fits, Places, Opening
<1>7. crossed' \in BOOLEAN /\ (crossed => crossed') /\ (~crossed' => ~Outdated(t))
  BY <1>3 DEF OnboardingInv, OnboardingTypeOK, Outdated
<1>8. UNCHANGED <<profile, request, opening, handed, told, seen, submits, faults>>
  BY <1>3 DEF Submitted
<1>9. /\ investor' \in InvestorRow /\ investor'.status = "under_review"
      /\ ~crossed' => ~crossed /\ profile = p /\ \A u \in Tasks : task[u].pc # "approve"
  BY <1>1, <1>3, <1>4, <1>7, SubmittedFacts
<1>10. OnboardingTypeOK'
  <2>1. \A u \in Tasks :
          Fits(task'[u]) /\ (task'[u].pc \in {"act", "ask"} => task'[u].case \in DOMAIN cases')
    BY <1>3, <1>5, <1>6, RowsFit DEF OnboardingInv
  <2>2. QED
    BY <1>3, <1>5, <1>7, <1>8, <1>9, <2>1 DEF OnboardingInv, OnboardingTypeOK
<1>11. OneIsOpen'
  BY <1>3, <1>5, <1>6, OpenSame DEF OnboardingInv
<1>12. HandedOnce' /\ ApprovedOnce' /\ AccountFollows' /\ ToldWhenReady'
  BY <1>3, <1>4, <1>5, <1>6, <1>7, SubmittedKeeps
<1>13. CasesFollow'
  <2>1. Somebody({"approve", "ask", "reject"})'
    BY <1>5, <1>6 DEF Somebody
  <2>2. QED
    BY <1>9, <2>1 DEF CasesFollow
<1>14. DecidedOnRecord'
  BY <1>5, <1>6, <1>8, <1>9 DEF DecidedOnRecord, At, Others
<1>15. QED
  BY <1>10, <1>11, <1>12, <1>13, <1>14 DEF OnboardingInv

LEMMA FindOpenKeeps ==
  ASSUME OnboardingInv, NEW t \in Tasks, NEW reached \in BOOLEAN, FindOpen(t, reached)
  PROVE  OnboardingInv'
<1>1. PICK i \in IF OpenCases = {} THEN {0} ELSE OpenCases :
        task' = [task EXCEPT ![t] =
                   [pc |-> "queue", profile |-> @.profile, was |-> @.was,
                    existing |-> RunChecks(task[t].profile, reached).existing,
                    found |-> i, as |-> IF i = 0 THEN "none" ELSE cases[i].status]]
  BY DEF FindOpen
<1>2. PICK w : w = [pc |-> "queue", profile |-> task[t].profile, was |-> task[t].was,
                    existing |-> RunChecks(task[t].profile, reached).existing,
                    found |-> i, as |-> IF i = 0 THEN "none" ELSE cases[i].status]
  OBVIOUS
<1>3. /\ UNCHANGED <<profile, investor, cases, request, opening, handed, told, seen, crossed, submits, faults>>
      /\ task[t].pc = "record" /\ (\A u \in Tasks : task[u].pc # "queue")
  BY DEF FindOpen, RowIsFree, At
<1>4. task' = [u \in Tasks |-> task'[u]] /\ Others(t) /\ task'[t] = w
  BY <1>1, <1>2, TaskMoves DEF OnboardingInv
<1>5. cases \in Seq(CaseRow)
  BY DEF OnboardingInv, OnboardingTypeOK
<1>6. /\ i \in Nat /\ OpenCases \subseteq {i}
      /\ i = 0 \/ (i \in DOMAIN cases /\ cases[i].status \in OpenStates)
  <2>1. CASE OpenCases = {}
    BY <2>1
  <2>2. CASE OpenCases # {}
    <3>1. i \in OpenCases /\ OpenCases \subseteq {i}
      BY <2>2 DEF OnboardingInv, OneIsOpen
    <3>2. QED
      BY <1>5, <3>1 DEF OpenCases
  <2>3. QED
    BY <2>1, <2>2
<1>7. RunChecks(task[t].profile, reached).existing \in BOOLEAN
  BY DEF RunChecks
<1>8. /\ w.pc = "queue" /\ w.found = i /\ (i # 0 => w.as = cases[i].status)
      /\ w.profile = task[t].profile /\ w.was = task[t].was /\ w.existing \in BOOLEAN
  BY <1>2, <1>7
<1>9. Fits(w)
  <2>1. task[t].profile \in Profiles /\ task[t].was \in Editable
    BY <1>3 DEF OnboardingInv, OnboardingTypeOK, Fits
  <2>2. QED
    BY <1>6, <1>8, <2>1 DEF Fits, Places, Opening
<1>10. OnboardingTypeOK'
  <2>1. \A u \in Tasks :
          Fits(task'[u]) /\ (task'[u].pc \in {"act", "ask"} => task'[u].case \in DOMAIN cases')
    BY <1>3, <1>4, <1>8, <1>9, RowsFit DEF OnboardingInv
  <2>2. QED
    BY <1>3, <1>4, <2>1 DEF OnboardingInv, OnboardingTypeOK
<1>11. OneIsOpen'
  <2>1. OpenCases' = OpenCases /\ DOMAIN cases' = DOMAIN cases
    BY <1>3 DEF OpenCases
  <2>2. \A u \in Tasks : task'[u].pc = "queue" => u = t
    BY <1>3, <1>4 DEF Others
  <2>3. task'[t].found = i /\ (i # 0 => task'[t].as = cases[i].status)
    BY <1>4, <1>8
  <2>4. QED
    BY <1>6, <2>1, <2>2, <2>3 DEF OnboardingInv, OneIsOpen, At
<1>12. HandedOnce' /\ ApprovedOnce' /\ DecidedOnRecord'
  BY <1>3, <1>4, <1>8, HandedSame, ApprovedSame, DecidedSame DEF OnboardingInv
<1>13. AccountFollows'
  BY <1>3, <1>4, <1>8, AccountSame DEF OnboardingInv, Opening
<1>14. ToldWhenReady' /\ CasesFollow'
  BY <1>3, <1>4, <1>8, ToldSame, CasesSame DEF OnboardingInv, Opening
<1>15. QED
  BY <1>10, <1>11, <1>12, <1>13, <1>14 DEF OnboardingInv

LEMMA QueueKeeps ==
  ASSUME OnboardingInv, NEW t \in Tasks, Queue(t)
  PROVE  OnboardingInv'
<1>1. PICK existing, late :
        /\ existing = task[t].existing
        /\ late = (task[t].found # 0 /\ cases[task[t].found].status \in Decided)
  OBVIOUS
<1>2. /\ Submitted(t, existing) /\ task[t].pc = "queue" /\ At(t, "queue") /\ CaseOpened(task[t].found)
      /\ crossed' = (crossed \/ Outdated(t) \/ late)
      /\ Ends(t)
  BY <1>1 DEF Queue, At, CrossedIf
<1>3. task[t].was \in Editable
  BY <1>2 DEF OnboardingInv, OnboardingTypeOK, Fits
<1>4. task' = [u \in Tasks |-> task'[u]] /\ Others(t) /\ Fits(task'[t]) /\ task'[t].pc = "idle"
  BY <1>2, TaskMoves, IdleFits DEF Ends, OnboardingInv
<1>5. /\ cases' \in Seq(CaseRow) /\ DOMAIN cases \subseteq DOMAIN cases'
      /\ \A i, j \in OpenCases' : i = j
      /\ \E i \in OpenCases' : cases'[i].status # "info_requested"
  BY <1>2, CaseOpenedFacts DEF OnboardingInv
<1>6. crossed' \in BOOLEAN /\ (crossed => crossed') /\ (~crossed' => ~Outdated(t))
  BY <1>1, <1>2 DEF OnboardingInv, OnboardingTypeOK, Outdated
<1>7. UNCHANGED <<profile, request, opening, handed, told, seen, submits, faults>>
  BY <1>2 DEF Submitted
<1>8. /\ investor' \in InvestorRow /\ investor'.status = "under_review"
      /\ ~crossed' => ~crossed /\ \A u \in Tasks : task[u].pc # "approve"
  BY <1>2, <1>3, <1>6, SubmittedFacts
<1>9. OnboardingTypeOK'
  <2>1. \A u \in Tasks :
          Fits(task'[u]) /\ (task'[u].pc \in {"act", "ask"} => task'[u].case \in DOMAIN cases')
    BY <1>4, <1>5, RowsFit DEF OnboardingInv
  <2>2. QED
    BY <1>4, <1>5, <1>6, <1>7, <1>8, <2>1 DEF OnboardingInv, OnboardingTypeOK
<1>10. OneIsOpen'
  <2>1. \A u \in Tasks : task'[u].pc # "queue"
    BY <1>2, <1>4 DEF OnboardingInv, OneIsOpen, At, Others
  <2>2. QED
    BY <1>5, <2>1 DEF OneIsOpen, At
<1>11. HandedOnce' /\ ApprovedOnce' /\ AccountFollows' /\ ToldWhenReady'
  BY <1>2, <1>3, <1>4, <1>6, SubmittedKeeps
<1>12. CasesFollow'
  BY <1>5, <1>8 DEF CasesFollow
<1>13. DecidedOnRecord'
  BY <1>4, <1>8 DEF DecidedOnRecord, At, Others
<1>14. QED
  BY <1>9, <1>10, <1>11, <1>12, <1>13 DEF OnboardingInv

\* What an action makes of a case, and where its task goes.
LEMMA OutcomeFacts ==
  ASSUME NEW a \in DOMAIN Outcome
  PROVE  /\ Outcome[a].status \in OpenStates \cup Decided
         /\ Outcome[a].next \in {"idle", "ask", "reject", "approve"}
         /\ Outcome[a].next = "approve" => a = "final-approve"
         /\ \/ Outcome[a].next \in {"approve", "reject"}
            \/ Outcome[a].status \in OpenStates
               /\ (Outcome[a].status # "info_requested" \/ Outcome[a].next = "ask")
BY DEF Outcome, OpenStates, MakerStates, Decided

LEMMA ActKeeps ==
  ASSUME OnboardingInv, NEW t \in Tasks, Act(t)
  PROVE  OnboardingInv'
<1>1. PICK x, c, a : x = task[t] /\ c = x.case /\ a = x.action
  OBVIOUS
<1>2. /\ UNCHANGED <<profile, investor, request, opening, handed, told, seen, submits, faults>>
      /\ x.pc = "act"
  BY <1>1 DEF Act, ActIf, At
<1>3. c \in DOMAIN cases /\ a \in DOMAIN Outcome /\ x.was \in OpenStates
      /\ x.profile \in Profiles \cup {None} /\ x.by \in Staff
  BY <1>1, <1>2 DEF OnboardingInv, OnboardingTypeOK, Fits
<1>4. CASE cases[c].status # x.was
  <2>1. Ends(t) /\ UNCHANGED <<cases, crossed>>
    BY <1>1, <1>4 DEF Act, ActIf
  <2>2. /\ task' = [u \in Tasks |-> task'[u]] /\ task'[t].pc = "idle" /\ Others(t) /\ OneIsOpen'
        /\ \A u \in Tasks :
             Fits(task'[u]) /\ (task'[u].pc \in {"act", "ask"} => task'[u].case \in DOMAIN cases')
    BY <2>1, EndFacts
  <2>3. OnboardingTypeOK'
    BY <1>2, <2>1, <2>2 DEF OnboardingInv, OnboardingTypeOK
  <2>4. HandedOnce' /\ ApprovedOnce' /\ DecidedOnRecord'
    BY <1>2, <2>1, <2>2, HandedSame, ApprovedSame, DecidedSame DEF OnboardingInv
  <2>5. AccountFollows'
    BY <1>2, <2>1, <2>2, AccountSame DEF OnboardingInv, Opening
  <2>6. ToldWhenReady' /\ CasesFollow'
    BY <1>1, <1>2, <2>1, <2>2, ToldSame, CasesSame DEF OnboardingInv, Opening
  <2>7. QED
    BY <2>2, <2>3, <2>4, <2>5, <2>6 DEF OnboardingInv
<1>5. CASE cases[c].status = x.was
  <2>1. PICK maker, w, row :
          /\ maker = (IF a = "approve" THEN x.by ELSE None)
          /\ w = (IF Outcome[a].next = "idle" THEN Idle
                  ELSE [pc |-> Outcome[a].next, case |-> c, profile |-> x.profile])
          /\ row = [status |-> Outcome[a].status, maker |-> maker]
    OBVIOUS
  <2>2. task' = [task EXCEPT ![t] = w]
    BY <1>1, <1>5, <2>1 DEF Act, ActIf, Ends
  <2>3. crossed' = (crossed \/ (a = "final-approve" /\ (profile # x.profile \/ investor.status # "under_review")))
    BY <1>1, <1>5 DEF Act, ActIf, CrossedIf
  <2>4. cases \in Seq(CaseRow)
    BY DEF OnboardingInv, OnboardingTypeOK
  <2>5. cases' = [cases EXCEPT ![c] = row]
    BY <1>1, <1>5, <2>1 DEF Act, ActIf
  <2>6. row \in CaseRow /\ row.status = Outcome[a].status
    BY <1>3, <2>1, OutcomeFacts DEF CaseRow
  <2>7. /\ cases' \in Seq(CaseRow) /\ DOMAIN cases' = DOMAIN cases /\ cases'[c] = row
        /\ \A i \in DOMAIN cases : i # c => cases'[i] = cases[i]
    BY <1>3, <2>4, <2>5, <2>6
  <2>8. c \in OpenCases
    BY <1>3, <1>5 DEF OpenCases
  <2>9. OpenCases' \subseteq OpenCases
    BY <2>7, <2>8 DEF OpenCases
  <2>10. /\ task' = [u \in Tasks |-> task'[u]] /\ task'[t] = w /\ Others(t)
    BY <2>2, TaskMoves DEF OnboardingInv
  <2>11. /\ Fits(w) /\ w.pc = Outcome[a].next /\ (w.pc = "approve" => w.profile = x.profile)
         /\ w.pc \in {"act", "ask"} => w.case \in DOMAIN cases'
    <3>1. CASE Outcome[a].next = "idle"
      BY <2>1, <3>1, IdleFits
    <3>2. CASE Outcome[a].next # "idle"
      <4>1. w = [pc |-> Outcome[a].next, case |-> c, profile |-> x.profile]
        BY <2>1, <3>2
      <4>2. Outcome[a].next \in {"ask", "reject", "approve"}
        BY <1>3, <3>2, OutcomeFacts
      <4>3. QED
        BY <1>3, <2>7, <4>1, <4>2 DEF Fits, Places, Opening
    <3>3. QED
      BY <3>1, <3>2
  <2>12. \A u \in Tasks :
           Fits(task'[u]) /\ (task'[u].pc \in {"act", "ask"} => task'[u].case \in DOMAIN cases')
    BY <2>7, <2>10, <2>11, RowsFit DEF OnboardingInv
  <2>13. OnboardingTypeOK'
    BY <1>2, <2>3, <2>7, <2>10, <2>12 DEF OnboardingInv, OnboardingTypeOK
  <2>14. task'[t].pc \in {"idle", "ask", "reject", "approve"}
    BY <1>3, <2>10, <2>11, OutcomeFacts
  <2>15. HandedOnce' /\ ApprovedOnce' /\ OneIsOpen'
    BY <1>2, <2>3, <2>7, <2>9, <2>10, <2>14, HandedSame, ApprovedSame, OpenFewer DEF OnboardingInv
  <2>16. AccountFollows'
    BY <1>2, <2>3, <2>10, <2>14, AccountSame DEF OnboardingInv, Opening
  <2>17. ToldWhenReady'
    BY <1>1, <1>2, <2>3, <2>10, ToldSame DEF OnboardingInv, Opening
  <2>18. CasesFollow'
    <3>1. \/ task'[t].pc \in {"approve", "reject"}
          \/ c \in OpenCases' /\ (cases'[c].status # "info_requested" \/ task'[t].pc = "ask")
      BY <1>3, <2>6, <2>7, <2>10, <2>11, OutcomeFacts DEF OpenCases
    <3>2. /\ task'[t].pc \in {"approve", "reject"} =>
               Somebody({"approve", "ask", "reject"})' /\ Somebody({"approve", "reject"})'
          /\ task'[t].pc = "ask" => Somebody({"approve", "ask", "reject"})'
      BY DEF Somebody
    <3>3. QED
      BY <3>1, <3>2 DEF CasesFollow
  <2>19. DecidedOnRecord'
    <3> SUFFICES ASSUME ~crossed', NEW u \in Tasks, task'[u].pc = "approve"
                 PROVE  /\ investor'.status \in {"under_review"} \cup Decided
                        /\ investor'.status = "under_review" => profile' = task'[u].profile
      BY DEF DecidedOnRecord, At
    <3>1. CASE u = t
      <4>1. a = "final-approve" /\ task'[t].profile = x.profile
        BY <1>3, <2>10, <2>11, <3>1, OutcomeFacts
      <4>2. QED
        BY <1>2, <2>3, <3>1, <4>1
    <3>2. CASE u # t
      BY <1>2, <2>3, <2>10, <3>2 DEF DecidedOnRecord, At, Others, OnboardingInv
    <3>3. QED
      BY <3>1, <3>2
  <2>20. QED
    BY <2>13, <2>15, <2>16, <2>17, <2>18, <2>19 DEF OnboardingInv
<1>6. QED
  BY <1>4, <1>5

LEMMA ApproveKeeps ==
  ASSUME OnboardingInv, NEW t \in Tasks, Approve(t)
  PROVE  OnboardingInv'
<1>1. PICK p, w : p = task[t].profile /\ w = [pc |-> "open"]
  OBVIOUS
<1>2. /\ UNCHANGED <<profile, cases, opening, handed, told, submits, faults>>
      /\ task[t].pc = "approve" /\ seen' = p
      /\ investor' = [investor EXCEPT !.status = "approved", !.cds = "requested"]
      /\ request' = (IF request = "none" THEN "pending" ELSE request)
      /\ crossed' = (crossed \/ investor.status # "under_review")
      /\ IF investor.bank # "existing" THEN task' = [task EXCEPT ![t] = w] ELSE Ends(t)
  BY <1>1 DEF Approve, ApproveWith, At, CrossedIf
<1>3. /\ investor' \in InvestorRow /\ investor'.status = "approved" /\ investor'.cds = "requested"
      /\ investor'.bank = investor.bank /\ investor'.account = investor.account
  <2>1. investor' = [status |-> "approved", bank |-> investor.bank, account |-> investor.account,
                     cds |-> "requested", number |-> investor.number]
    BY <1>2, InvestorFields DEF OnboardingInv
  <2>2. QED
    BY <2>1, InvestorFields DEF InvestorRow, OnboardingInv
<1>4. /\ task' = [u \in Tasks |-> task'[u]] /\ Others(t) /\ Fits(task'[t])
      /\ task'[t].pc = (IF investor.bank # "existing" THEN "open" ELSE "idle")
  <2>1. CASE investor.bank # "existing"
    <3>1. Fits(w) /\ w.pc = "open"
      BY <1>1 DEF Fits, Places, Opening
    <3>2. QED
      BY <1>2, <2>1, <3>1, TaskMoves DEF OnboardingInv
  <2>2. CASE investor.bank = "existing"
    BY <1>2, <2>2, IdleFits, TaskMoves DEF Ends, OnboardingInv
  <2>3. QED
    BY <2>1, <2>2
<1>5. OnboardingTypeOK'
  <2>1. \A u \in Tasks :
          Fits(task'[u]) /\ (task'[u].pc \in {"act", "ask"} => task'[u].case \in DOMAIN cases')
    BY <1>2, <1>4, RowsFit DEF OnboardingInv
  <2>2. crossed' \in BOOLEAN
    BY <1>2 DEF OnboardingInv, OnboardingTypeOK
  <2>3. p \in Profiles \cup {None} /\ request' \in {"none", "pending", "completed"}
    BY <1>1, <1>2 DEF OnboardingInv, OnboardingTypeOK, Fits
  <2>4. QED
    BY <1>2, <1>3, <1>4, <2>1, <2>2, <2>3 DEF OnboardingInv, OnboardingTypeOK
<1>6. OneIsOpen'
  BY <1>2, <1>4, OpenSame DEF OnboardingInv
<1>7. HandedOnce'
  BY <1>2, <1>4, HandedSame DEF OnboardingInv
<1>8. ~crossed' => /\ ~crossed /\ investor.status = "under_review" /\ profile = p
                   /\ investor.cds = "none" /\ request = "none" /\ opening = "none"
                   /\ ~Somebody({"open"})
  BY <1>1, <1>2 DEF ApprovedOnce, DecidedOnRecord, At, AccountFollows, OnboardingInv
<1>9. ApprovedOnce'
  BY <1>2, <1>3, <1>8 DEF ApprovedOnce
<1>10. AccountFollows'
  <2>1. /\ Somebody({"hand", "mark", "link"})' => Somebody({"hand", "mark", "link"})
        /\ Somebody({"link"})' => Somebody({"link"})
    BY <1>4, SomebodyCame
  <2>2. investor.bank = "existing" => (Somebody({"open"})' => Somebody({"open"}))
    BY <1>4, SomebodyCame
  <2>3. QED
    BY <1>2, <1>3, <1>8, <2>1, <2>2 DEF AccountFollows, OnboardingInv
<1>11. ToldWhenReady'
  <2>1. investor.bank # "existing" => Somebody(Opening)'
    BY <1>4 DEF Somebody, Opening
  <2>2. QED
    BY <1>2, <1>3, <1>8, <2>1 DEF ToldWhenReady, OnboardingInv
<1>12. CasesFollow'
  BY <1>3 DEF CasesFollow
<1>13. DecidedOnRecord'
  BY <1>2, <1>3, <1>4, DecidedSame DEF OnboardingInv, Decided
<1>14. QED
  BY <1>5, <1>6, <1>7, <1>9, <1>10, <1>11, <1>12, <1>13 DEF OnboardingInv

----------------------------------------------------------------------------
(* Steps that open the account.                                             *)

\* A task goes on from one place of the opening to the next.
LEMMA OpeningFacts ==
  ASSUME OnboardingInv, NEW t \in Tasks, task[t].pc \in Opening, NEW pc \in Opening, Goes(t, pc),
         UNCHANGED cases
  PROVE  /\ task' = [u \in Tasks |-> task'[u]] /\ task'[t].pc = pc /\ Others(t)
         /\ \A u \in Tasks :
              Fits(task'[u]) /\ (task'[u].pc \in {"act", "ask"} => task'[u].case \in DOMAIN cases')
         /\ OneIsOpen'
<1>1. PICK w : w = [pc |-> pc]
  OBVIOUS
<1>2. task' = [u \in Tasks |-> task'[u]] /\ task'[t] = w /\ Others(t)
  BY <1>1, TaskGoes DEF OnboardingInv
<1>3. Fits(w) /\ w.pc = pc /\ pc \notin {"act", "ask", "queue"}
  BY <1>1 DEF Fits, Places, Opening
<1>4. \A u \in Tasks :
        Fits(task'[u]) /\ (task'[u].pc \in {"act", "ask"} => task'[u].case \in DOMAIN cases')
  BY <1>2, <1>3, RowsFit DEF OnboardingInv
<1>5. OneIsOpen'
  BY <1>2, <1>3, OpenSame DEF OnboardingInv
<1>6. QED
  BY <1>2, <1>3, <1>4, <1>5

LEMMA RequestOpeningKeeps ==
  ASSUME OnboardingInv, NEW t \in Tasks, RequestOpening(t)
  PROVE  OnboardingInv'
<1>1. PICK pc \in {"hand", "mark"} :
        /\ Goes(t, pc)
        /\ IF opening = "none" THEN opening' = "requested" /\ pc = "hand"
           ELSE opening' = opening /\ pc = "mark"
  BY DEF RequestOpening
<1>2. /\ UNCHANGED <<profile, investor, cases, request, handed, told, seen, crossed, submits, faults>>
      /\ task[t].pc = "open"
  BY DEF RequestOpening, At
<1>3. /\ task' = [u \in Tasks |-> task'[u]] /\ task'[t].pc = pc /\ Others(t) /\ OneIsOpen'
      /\ \A u \in Tasks :
           Fits(task'[u]) /\ (task'[u].pc \in {"act", "ask"} => task'[u].case \in DOMAIN cases')
  BY <1>1, <1>2, OpeningFacts DEF Opening
<1>4. OnboardingTypeOK'
  BY <1>1, <1>2, <1>3 DEF OnboardingInv, OnboardingTypeOK
<1>5. opening' # "none" /\ (opening # "none" => opening' = opening)
  BY <1>1
<1>6. HandedOnce'
  <2>1. CASE opening = "none"
    <3>1. handed = 0 /\ (\A u \in Tasks : task[u].pc # "hand")
      BY <2>1 DEF OnboardingInv, HandedOnce, At
    <3>2. QED
      BY <1>2, <1>3, <1>5, <3>1 DEF HandedOnce, At, Others
  <2>2. CASE opening # "none"
    BY <1>1, <1>2, <1>3, <2>2, HandedSame DEF OnboardingInv
  <2>3. QED
    BY <2>1, <2>2
<1>7. ApprovedOnce' /\ DecidedOnRecord'
  BY <1>2, <1>3, ApprovedSame, DecidedSame DEF OnboardingInv
<1>8. AccountFollows'
  <2>1. Somebody({"open"}) /\ (Somebody({"link"})' => Somebody({"link"}))
    BY <1>2, <1>3, SomebodyCame DEF Somebody
  <2>2. QED
    BY <1>2, <1>5, <2>1 DEF AccountFollows, OnboardingInv
<1>9. ToldWhenReady' /\ CasesFollow'
  BY <1>2, <1>3, ToldSame, CasesSame DEF OnboardingInv, Opening
<1>10. QED
  BY <1>3, <1>4, <1>6, <1>7, <1>8, <1>9 DEF OnboardingInv

LEMMA SubmitOpeningKeeps ==
  ASSUME OnboardingInv, NEW t \in Tasks, SubmitOpening(t)
  PROVE  OnboardingInv'
<1>1. /\ UNCHANGED <<profile, investor, cases, request, opening, told, seen, crossed, submits, faults>>
      /\ task[t].pc = "hand" /\ Goes(t, "mark") /\ handed' = handed + 1
  BY DEF SubmitOpening, At
<1>2. /\ task' = [u \in Tasks |-> task'[u]] /\ task'[t].pc = "mark" /\ Others(t) /\ OneIsOpen'
      /\ \A u \in Tasks :
           Fits(task'[u]) /\ (task'[u].pc \in {"act", "ask"} => task'[u].case \in DOMAIN cases')
  BY <1>1, OpeningFacts DEF Opening
<1>3. handed = 0 /\ opening # "none" /\ (\A u \in Tasks : u # t => task[u].pc # "hand")
  BY <1>1 DEF OnboardingInv, HandedOnce, At
<1>4. OnboardingTypeOK'
  BY <1>1, <1>2, <1>3 DEF OnboardingInv, OnboardingTypeOK
<1>5. HandedOnce'
  BY <1>1, <1>2, <1>3 DEF HandedOnce, At, Others
<1>6. ApprovedOnce' /\ DecidedOnRecord'
  BY <1>1, <1>2, ApprovedSame, DecidedSame DEF OnboardingInv
<1>7. AccountFollows'
  <2>1. /\ Somebody({"open"})' => Somebody({"open"})
        /\ Somebody({"link"})' => Somebody({"link"})
    BY <1>2, SomebodyCame
  <2>2. QED
    BY <1>1, <1>3, <2>1 DEF AccountFollows, OnboardingInv
<1>8. ToldWhenReady' /\ CasesFollow'
  BY <1>1, <1>2, ToldSame, CasesSame DEF OnboardingInv, Opening
<1>9. QED
  BY <1>2, <1>4, <1>5, <1>6, <1>7, <1>8 DEF OnboardingInv

LEMMA MarkRequestedKeeps ==
  ASSUME OnboardingInv, NEW t \in Tasks, MarkRequested(t)
  PROVE  OnboardingInv'
<1>1. /\ UNCHANGED <<profile, cases, request, opening, handed, told, seen, crossed, submits, faults>>
      /\ Ends(t) /\ task[t].pc = "mark" /\ investor' = [investor EXCEPT !.bank = "requested"]
  BY DEF MarkRequested, At
<1>2. /\ task' = [u \in Tasks |-> task'[u]] /\ task'[t].pc = "idle" /\ Others(t) /\ OneIsOpen'
      /\ \A u \in Tasks :
           Fits(task'[u]) /\ (task'[u].pc \in {"act", "ask"} => task'[u].case \in DOMAIN cases')
  BY <1>1, EndFacts
<1>3. /\ investor' \in InvestorRow /\ investor'.bank = "requested" /\ investor'.cds = investor.cds
      /\ investor'.status = investor.status /\ investor'.account = investor.account
  BY <1>1, InvestorFields DEF InvestorRow, OnboardingInv
<1>4. OnboardingTypeOK'
  BY <1>1, <1>2, <1>3 DEF OnboardingInv, OnboardingTypeOK
<1>5. HandedOnce' /\ ApprovedOnce' /\ DecidedOnRecord'
  BY <1>1, <1>2, <1>3, HandedSame, ApprovedSame, DecidedSame DEF OnboardingInv
<1>6. AccountFollows'
  <2>1. Somebody({"hand", "mark", "link"})
    BY <1>1 DEF Somebody
  <2>2. /\ Somebody({"open"})' => Somebody({"open"})
        /\ Somebody({"link"})' => Somebody({"link"})
    BY <1>2, SomebodyCame
  <2>3. QED
    BY <1>1, <1>3, <2>1, <2>2 DEF AccountFollows, OnboardingInv
<1>7. ToldWhenReady' /\ CasesFollow'
  <2>1. ToldWhenReady'
    BY <1>1, <1>3 DEF ToldWhenReady, OnboardingInv
  <2>2. CasesFollow'
    BY <1>1, <1>2, <1>3, CasesSame DEF OnboardingInv
  <2>3. QED
    BY <2>1, <2>2
<1>8. QED
  BY <1>2, <1>4, <1>5, <1>6, <1>7 DEF OnboardingInv

LEMMA MarkOpenedKeeps ==
  ASSUME OnboardingInv, MarkOpened
  PROVE  OnboardingInv'
<1>1. /\ UNCHANGED <<profile, investor, cases, request, handed, task, told, seen, crossed, submits, faults>>
      /\ opening = "requested" /\ opening' = "opened"
  BY DEF MarkOpened
<1>2. OnboardingTypeOK' /\ OneIsOpen'
  BY <1>1 DEF OnboardingInv, OnboardingTypeOK, OneIsOpen, OpenCases, At
<1>3. HandedOnce'
  BY <1>1 DEF OnboardingInv, HandedOnce, At
<1>4. \A places : Somebody(places)' <=> Somebody(places)
  BY <1>1 DEF Somebody
<1>5. ApprovedOnce' /\ DecidedOnRecord' /\ AccountFollows'
  BY <1>1, <1>4 DEF OnboardingInv, ApprovedOnce, DecidedOnRecord, At, AccountFollows
<1>6. ToldWhenReady' /\ CasesFollow'
  BY <1>1 DEF OnboardingInv, ToldWhenReady, CasesFollow, OpenCases, Somebody
<1>7. QED
  BY <1>2, <1>3, <1>5, <1>6 DEF OnboardingInv

\* The message: sent once if it is due, or lost to a fault.
LEMMA TellFacts ==
  ASSUME OnboardingTypeOK, NEW due \in BOOLEAN, TellIf(due)
  PROVE  /\ told' \in Nat /\ faults' \in Nat
         /\ faults' = 0 => faults = 0 /\ told' = (IF due THEN told + 1 ELSE told)
BY DEF OnboardingTypeOK, TellIf

LEMMA LinkKeeps ==
  ASSUME OnboardingInv, NEW t \in Tasks, Link(t)
  PROVE  OnboardingInv'
<1>1. PICK tell : tell = task[t].tell
  OBVIOUS
<1>2. /\ UNCHANGED <<profile, cases, request, opening, handed, seen, submits>>
      /\ Ends(t) /\ task[t].pc = "link" /\ TellIf(tell)
      /\ investor' = [investor EXCEPT !.bank = "opened", !.account = "opened"]
      /\ crossed' = (crossed \/ (investor.account = "opened" \/ (investor.cds = "active") # tell))
  BY <1>1 DEF Link, LinkWith, At, CrossedIf
<1>3. /\ task' = [u \in Tasks |-> task'[u]] /\ task'[t].pc = "idle" /\ Others(t) /\ OneIsOpen'
      /\ \A u \in Tasks :
           Fits(task'[u]) /\ (task'[u].pc \in {"act", "ask"} => task'[u].case \in DOMAIN cases')
  BY <1>2, EndFacts
<1>4. tell \in BOOLEAN
  BY <1>1, <1>2 DEF OnboardingInv, OnboardingTypeOK, Fits
<1>5. /\ told' \in Nat /\ faults' \in Nat
      /\ faults' = 0 => faults = 0 /\ told' = (IF tell THEN told + 1 ELSE told)
  BY <1>2, <1>4, TellFacts DEF OnboardingInv
<1>6. /\ investor' \in InvestorRow /\ investor'.bank = "opened" /\ investor'.account = "opened"
      /\ investor'.cds = investor.cds /\ investor'.status = investor.status
  BY <1>2, InvestorFields DEF InvestorRow, OnboardingInv
<1>7. crossed' \in BOOLEAN /\ (crossed => crossed')
  BY <1>2 DEF OnboardingInv, OnboardingTypeOK
<1>8. OnboardingTypeOK'
  BY <1>2, <1>3, <1>5, <1>6, <1>7 DEF OnboardingInv, OnboardingTypeOK
<1>9. HandedOnce' /\ ApprovedOnce' /\ DecidedOnRecord'
  BY <1>2, <1>3, <1>6, <1>7, HandedSame, ApprovedSame, DecidedSame DEF OnboardingInv
<1>10. ~crossed' => /\ ~crossed /\ opening = "opened" /\ investor.account = "none"
                    /\ (investor.cds = "active" <=> tell)
                    /\ investor.status = "approved" /\ investor.bank # "existing"
  <2> SUFFICES ASSUME ~crossed'
               PROVE  /\ ~crossed /\ opening = "opened" /\ investor.account = "none"
                      /\ (investor.cds = "active" <=> tell)
                      /\ investor.status = "approved" /\ investor.bank # "existing"
    OBVIOUS
  <2>1. ~crossed /\ investor.account # "opened" /\ (investor.cds = "active" <=> tell)
    BY <1>2, <1>4
  <2>2. Somebody({"link"})
    BY <1>2 DEF Somebody
  <2>3. opening = "opened" /\ investor.status = "approved" /\ investor.bank # "existing"
        /\ investor.account # "held"
    BY <2>1, <2>2 DEF AccountFollows, OnboardingInv
  <2>4. QED
    BY <2>1, <2>3, InvestorFields DEF OnboardingInv
<1>11. AccountFollows'
  <2>1. /\ Somebody({"open"})' => Somebody({"open"})
        /\ Somebody({"hand", "mark", "link"})' => Somebody({"hand", "mark", "link"})
        /\ Somebody({"link"})' => Somebody({"link"})
    BY <1>3, SomebodyCame
  <2>2. QED
    BY <1>2, <1>6, <1>10, <2>1 DEF AccountFollows, OnboardingInv
<1>12. ToldWhenReady'
  BY <1>5, <1>6, <1>10 DEF ToldWhenReady, OnboardingInv
<1>13. CasesFollow'
  BY <1>2, <1>3, <1>5, <1>6, <1>7, CasesSame DEF OnboardingInv
<1>14. QED
  BY <1>3, <1>8, <1>9, <1>11, <1>12, <1>13 DEF OnboardingInv

LEMMA CompleteKeeps ==
  ASSUME OnboardingInv, NEW t \in Tasks, Complete(t)
  PROVE  OnboardingInv'
<1>1. PICK tell, number : tell = task[t].tell /\ number = task[t].number
  OBVIOUS
<1>2. /\ UNCHANGED <<profile, cases, opening, handed, seen, submits>>
      /\ Ends(t) /\ task[t].pc = "cds"
  BY DEF Complete, CompleteIf, At
<1>3. /\ task' = [u \in Tasks |-> task'[u]] /\ task'[t].pc = "idle" /\ Others(t) /\ OneIsOpen'
      /\ \A u \in Tasks :
           Fits(task'[u]) /\ (task'[u].pc \in {"act", "ask"} => task'[u].case \in DOMAIN cases')
  BY <1>2, EndFacts
<1>4. CASE request # "pending"
  <2>1. UNCHANGED <<request, investor, told, crossed, faults>>
    BY <1>4 DEF Complete, CompleteIf
  <2>2. OnboardingTypeOK'
    BY <1>2, <1>3, <2>1 DEF OnboardingInv, OnboardingTypeOK
  <2>3. HandedOnce' /\ ApprovedOnce' /\ DecidedOnRecord'
    BY <1>2, <1>3, <2>1, HandedSame, ApprovedSame, DecidedSame DEF OnboardingInv
  <2>4. AccountFollows'
    BY <1>2, <1>3, <2>1, AccountSame DEF OnboardingInv, Opening
  <2>5. ToldWhenReady' /\ CasesFollow'
    BY <1>2, <1>3, <2>1, ToldSame, CasesSame DEF OnboardingInv, Opening
  <2>6. QED
    BY <1>3, <2>2, <2>3, <2>4, <2>5 DEF OnboardingInv
<1>5. CASE request = "pending"
  <2>1. /\ request' = "completed" /\ TellIf(tell)
        /\ investor' = [investor EXCEPT !.cds = "active", !.number = number]
        /\ crossed' = (crossed \/ (investor.account # "none") # tell)
    BY <1>1, <1>5 DEF Complete, CompleteIf, CrossedIf
  <2>2. tell \in BOOLEAN /\ number \in Numbers
    BY <1>1, <1>2 DEF OnboardingInv, OnboardingTypeOK, Fits
  <2>3. /\ told' \in Nat /\ faults' \in Nat
        /\ faults' = 0 => faults = 0 /\ told' = (IF tell THEN told + 1 ELSE told)
    BY <2>1, <2>2, TellFacts DEF OnboardingInv
  <2>4. /\ investor' \in InvestorRow /\ investor'.cds = "active" /\ investor'.status = investor.status
        /\ investor'.bank = investor.bank /\ investor'.account = investor.account
    <3>1. investor' = [status |-> investor.status, bank |-> investor.bank, account |-> investor.account,
                       cds |-> "active", number |-> number]
      BY <2>1, InvestorFields DEF OnboardingInv
    <3>2. QED
      BY <2>2, <3>1, InvestorFields DEF InvestorRow, OnboardingInv
  <2>5. crossed' \in BOOLEAN /\ (crossed => crossed')
    BY <2>1, <2>2 DEF OnboardingInv, OnboardingTypeOK
  <2>6. OnboardingTypeOK'
    BY <1>2, <1>3, <2>1, <2>3, <2>4, <2>5 DEF OnboardingInv, OnboardingTypeOK
  <2>7. HandedOnce' /\ DecidedOnRecord'
    BY <1>2, <1>3, <2>4, <2>5, HandedSame, DecidedSame DEF OnboardingInv
  <2>8. ~crossed' => /\ ~crossed /\ investor.cds = "requested" /\ investor.status = "approved"
                     /\ profile = seen /\ (investor.account # "none" <=> tell)
    <3>1. ~crossed' => ~crossed /\ (investor.account # "none" <=> tell)
      BY <2>1, <2>2
    <3>2. ~crossed => investor.cds = "requested"
      BY <1>5, InvestorFields DEF ApprovedOnce, OnboardingInv
    <3>3. QED
      BY <3>1, <3>2 DEF ApprovedOnce, OnboardingInv
  <2>9. ApprovedOnce'
    BY <1>2, <2>1, <2>4, <2>8 DEF ApprovedOnce
  <2>10. AccountFollows'
    BY <1>2, <1>3, <2>4, <2>5, AccountSame DEF OnboardingInv, Opening
  <2>11. ToldWhenReady'
    <3>1. Somebody(Opening) => Somebody(Opening)'
      BY <1>2, <1>3, SomebodyStays DEF Opening
    <3>2. QED
      BY <2>3, <2>4, <2>8, <3>1 DEF ToldWhenReady, OnboardingInv
  <2>12. CasesFollow'
    BY <2>4, <2>8 DEF CasesFollow
  <2>13. QED
    BY <1>3, <2>6, <2>7, <2>9, <2>10, <2>11, <2>12 DEF OnboardingInv
<1>6. QED
  BY <1>4, <1>5

----------------------------------------------------------------------------
(* The invariant.                                                           *)

LEMMA InitInv == Init => OnboardingInv
<1> SUFFICES ASSUME Init
             PROVE  OnboardingInv
  OBVIOUS
<1>1. /\ task = [t \in Tasks |-> Idle] /\ cases = <<>> /\ request = "none" /\ opening = "none"
      /\ handed = 0 /\ told = 0 /\ seen = None /\ profile = None /\ submits = 0 /\ faults = 0
      /\ crossed = FALSE
      /\ investor = [status |-> "draft", bank |-> "none", account |-> "none", cds |-> "none",
                     number |-> None]
  BY DEF Init
<1>2. \A t \in Tasks : task[t] = Idle /\ Fits(task[t]) /\ task[t].pc = "idle"
  BY <1>1, IdleFits
<1>3. investor \in InvestorRow /\ cases \in Seq(CaseRow) /\ task = [t \in Tasks |-> task[t]]
  BY <1>1 DEF InvestorRow
<1>4. OnboardingTypeOK
  BY <1>1, <1>2, <1>3 DEF OnboardingTypeOK
<1>5. OpenCases = {}
  BY <1>1 DEF OpenCases
<1>6. OneIsOpen /\ HandedOnce
  BY <1>2, <1>5, <1>1 DEF OneIsOpen, HandedOnce, At
<1>7. ~Somebody(Opening \cup {"approve", "ask", "reject", "link", "cds"})
  BY <1>2 DEF Somebody, Opening
<1>8. ApprovedOnce /\ AccountFollows /\ DecidedOnRecord
  BY <1>1, <1>2, <1>7 DEF ApprovedOnce, AccountFollows, Somebody, Opening, DecidedOnRecord, At
<1>9. ToldWhenReady /\ CasesFollow
  BY <1>1 DEF ToldWhenReady, CasesFollow
<1>10. QED
  BY <1>4, <1>6, <1>8, <1>9 DEF OnboardingInv

LEMMA StutterInv ==
  ASSUME OnboardingInv, UNCHANGED vars
  PROVE  OnboardingInv'
<1>1. UNCHANGED <<profile, investor, cases, request, opening, handed, task, told, seen, crossed, submits, faults>>
  BY DEF vars
<1>2. OnboardingTypeOK' /\ OneIsOpen'
  BY <1>1 DEF OnboardingInv, OnboardingTypeOK, OneIsOpen, OpenCases, At
<1>3. HandedOnce'
  BY <1>1 DEF OnboardingInv, HandedOnce, At
<1>4. ApprovedOnce' /\ DecidedOnRecord' /\ AccountFollows'
  BY <1>1 DEF OnboardingInv, ApprovedOnce, DecidedOnRecord, At, AccountFollows, Somebody
<1>5. ToldWhenReady' /\ CasesFollow'
  BY <1>1 DEF OnboardingInv, ToldWhenReady, CasesFollow, OpenCases, Somebody
<1>6. QED
  BY <1>2, <1>3, <1>4, <1>5 DEF OnboardingInv

LEMMA NextInv ==
  ASSUME OnboardingInv, [Next]_vars
  PROVE  OnboardingInv'
<1>1. CASE UNCHANGED vars
  BY <1>1, StutterInv
<1>2. CASE MarkOpened
  BY <1>2, MarkOpenedKeeps
<1>3. ASSUME NEW t \in Tasks,
             \/ \E p \in Profiles : SaveRead(t, p)
             \/ SaveWrite(t)
             \/ SubmitRead(t)
             \/ Record(t)
             \/ \E reached \in BOOLEAN : FindOpen(t, reached)
             \/ Queue(t)
      PROVE  OnboardingInv'
  BY <1>3, SaveReadKeeps, SaveWriteKeeps, SubmitReadKeeps, RecordKeeps, FindOpenKeeps, QueueKeeps
<1>4. ASSUME NEW t \in Tasks,
             \/ \E s \in Staff, i \in DOMAIN cases, a \in DOMAIN Outcome : ActRead(t, s, i, a)
             \/ Act(t)
             \/ AskForInfo(t)
             \/ Reject(t)
             \/ Approve(t)
      PROVE  OnboardingInv'
  BY <1>4, ActReadKeeps, ActKeeps, AskForInfoKeeps, RejectKeeps, ApproveKeeps
<1>5. ASSUME NEW t \in Tasks,
             \/ RequestOpening(t)
             \/ SubmitOpening(t)
             \/ MarkRequested(t)
             \/ LinkRead(t)
             \/ Link(t)
             \/ \E n \in Numbers : CdsRead(t, n)
             \/ Complete(t)
             \/ Dies(t)
      PROVE  OnboardingInv'
  BY <1>5, RequestOpeningKeeps, SubmitOpeningKeeps, MarkRequestedKeeps, LinkReadKeeps, LinkKeeps,
     CdsReadKeeps, CompleteKeeps, DiesKeeps
<1>6. QED
  BY <1>1, <1>2, <1>3, <1>4, <1>5 DEF Next

\* The invariant holds in every state the service and the back office reach, for any number
\* of tasks, officers, submissions and faults (onboarding.service.ts, kyc.service.ts,
\* decisions.service.ts, cds.service.ts, account-opening.service.ts).
THEOREM OnboardingInvariance == OnboardingSpec => []OnboardingInv
BY InitInv, NextInv, PTL DEF OnboardingSpec

----------------------------------------------------------------------------
(* The properties.                                                          *)

LEMMA NobodyIsThere ==
  ASSUME Quiet, NEW places, "idle" \notin places
  PROVE  ~Somebody(places)
BY IdleFits DEF Quiet, Somebody

LEMMA DecidedAndTold ==
  OnboardingInv => ReadyAsDecided
<1> SUFFICES ASSUME OnboardingInv, Eligible
             PROVE  ReadyAsDecided
  BY DEF ReadyAsDecided, EligibleAsDecided, ReadyIsTold
<1>1. EligibleAsDecided
  BY DEF EligibleAsDecided, Eligible, ApprovedOnce, OnboardingInv
<1>2. ReadyIsTold
  BY DEF ReadyIsTold, Eligible, Quiet, ToldWhenReady, OnboardingInv
<1>3. QED
  BY <1>1, <1>2 DEF ReadyAsDecided

\* A case of the queue has one of the labels that are counted.
LEMMA LabelsOfOpen ==
  ASSUME NEW s \in OpenStates
  PROVE  /\ KycLabel[s] \in OpenLabels
         /\ KycLabel[s] \in MakerLabels \/ KycLabel[s] = "Awaiting checker"
<1>1. s \in {"new", "returned", "info_requested", "awaiting_checker"}
  BY DEF OpenStates, MakerStates
<1>2. QED
  BY <1>1 DEF KycLabel, OpenLabels, MakerLabels, OpenStates, MakerStates, Decided

\* The one filter a customer is found under is the one their chip names.
LEMMA FilterIsChip ==
  ASSUME OnboardingTypeOK, NEW f \in DOMAIN Filters
  PROVE  CustomersIn(f) = {investor} <=> CustomerChip(investor) = Filters[f]
<1>1. investor.status \in {"draft", "under_review", "info_requested", "rejected", "approved"}
  BY InvestorFields
<1>2. f \in {"ready", "awaiting_accounts", "under_review", "info_requested", "draft", "rejected"}
  BY DEF Filters
<1>3. CASE f = "ready"
  BY <1>1, <1>3 DEF CustomersIn, CustomerChip, RowCanBid, Filters
<1>4. CASE f = "awaiting_accounts"
  BY <1>1, <1>4 DEF CustomersIn, CustomerChip, RowCanBid, Filters
<1>5. CASE f = "under_review"
  BY <1>1, <1>5 DEF CustomersIn, CustomerChip, RowCanBid, Filters
<1>6. CASE f = "info_requested"
  BY <1>1, <1>6 DEF CustomersIn, CustomerChip, RowCanBid, Filters
<1>7. CASE f = "draft"
  BY <1>1, <1>7 DEF CustomersIn, CustomerChip, RowCanBid, Filters
<1>8. CASE f = "rejected"
  BY <1>1, <1>8 DEF CustomersIn, CustomerChip, RowCanBid, Filters
<1>9. QED
  BY <1>2, <1>3, <1>4, <1>5, <1>6, <1>7, <1>8

LEMMA UnderReviewIsQueued ==
  ASSUME OnboardingInv, Quiet, investor.status = "under_review"
  PROVE  KycBadge = 1 /\ \A k \in KycQueue : Actionable(k) /\ k.status # "info_requested"
<1>1. ~Somebody({"approve", "ask", "reject"})
  BY NobodyIsThere
<1>2. PICK i \in OpenCases : cases[i].status # "info_requested"
  BY <1>1 DEF OnboardingInv, CasesFollow, Quiet
<1>3. OpenCases = {i} /\ cases[i].status \in OpenStates
  BY <1>2 DEF OnboardingInv, OneIsOpen, OpenCases
<1>4. PICK k : k = [case |-> i, status |-> cases[i].status]
  OBVIOUS
<1>5. KycQueue = {k} /\ k.status = cases[i].status
  BY <1>3, <1>4 DEF KycQueue
<1>6. KycLabel[k.status] \in OpenLabels /\ Actionable(k)
  BY <1>3, <1>5, LabelsOfOpen DEF Actionable
<1>7. {j \in KycQueue : KycLabel[j.status] \in OpenLabels} = {k}
  BY <1>5, <1>6
<1>8. Cardinality({k}) = 1
  BY FS_Singleton
<1>9. KycBadge = 1
  BY <1>7, <1>8 DEF KycBadge
<1>10. QED
  BY <1>2, <1>5, <1>6, <1>9

LEMMA ApprovedIsListed ==
  ASSUME OnboardingInv, Quiet, investor.status = "approved"
  PROVE  /\ IF investor.cds = "active" THEN CdsRegister # {} /\ CdsTasks = {} ELSE CdsTasks # {}
         /\ BankAccounts("any") # {}
         /\ investor.account = "none" => BankAccounts("requested") # {}
<1>1. ~crossed /\ faults = 0 /\ ~Somebody(Opening)
  BY NobodyIsThere DEF Quiet, Opening
<1>2. request = (IF investor.cds = "active" THEN "completed" ELSE "pending")
  BY <1>1, InvestorFields DEF OnboardingInv, ApprovedOnce
<1>3. investor.bank # "none"
  BY <1>1 DEF OnboardingInv, ToldWhenReady
<1>4. investor.account = "none" => investor.bank = "requested"
  BY <1>1, <1>3, InvestorFields DEF OnboardingInv, AccountFollows
<1>5. IF investor.cds = "active" THEN CdsRegister # {} /\ CdsTasks = {} ELSE CdsTasks # {}
  BY <1>2 DEF CdsRegister, CdsTasks
<1>6. BankAccounts("any") # {} /\ (investor.account = "none" => BankAccounts("requested") # {})
  BY <1>3, <1>4 DEF BankAccounts
<1>7. QED
  BY <1>5, <1>6

LEMMA Listed ==
  OnboardingInv => WaitingIsListed
<1> SUFFICES ASSUME OnboardingInv
             PROVE  WaitingIsListed
  OBVIOUS
<1>1. \A f \in DOMAIN Filters : CustomersIn(f) = {investor} <=> CustomerChip(investor) = Filters[f]
  BY FilterIsChip DEF OnboardingInv
<1>2. Eligible <=> CustomersIn("ready") # {}
  BY DEF Eligible, CustomersIn
<1>3. ASSUME Quiet, investor.status = "info_requested"
      PROVE  KycQueue # {}
  <2>1. ~Somebody({"approve", "reject"})
    BY <1>3, NobodyIsThere
  <2>2. OpenCases # {}
    BY <1>3, <2>1 DEF OnboardingInv, CasesFollow, Quiet
  <2>3. QED
    BY <2>2 DEF KycQueue
<1>4. QED
  BY <1>1, <1>2, <1>3, UnderReviewIsQueued, ApprovedIsListed DEF WaitingIsListed

\* The cases change when an officer acts on an open one, and when one is opened.
LEMMA CasesChange ==
  ASSUME OnboardingInv, [Next]_vars
  PROVE  \/ UNCHANGED cases
         \/ \E t \in Tasks : Queue(t)
         \/ \E t \in Tasks : Act(t)
<1>1. CASE UNCHANGED vars
  BY <1>1 DEF vars
<1>2. CASE MarkOpened
  BY <1>2 DEF MarkOpened
<1>3. ASSUME NEW t \in Tasks,
             \/ \E p \in Profiles : SaveRead(t, p)
             \/ SaveWrite(t)
             \/ SubmitRead(t)
             \/ Record(t)
             \/ \E reached \in BOOLEAN : FindOpen(t, reached)
             \/ \E s \in Staff, i \in DOMAIN cases, a \in DOMAIN Outcome : ActRead(t, s, i, a)
             \/ AskForInfo(t)
             \/ Reject(t)
             \/ Approve(t)
             \/ RequestOpening(t)
             \/ SubmitOpening(t)
             \/ MarkRequested(t)
             \/ LinkRead(t)
             \/ Link(t)
             \/ \E n \in Numbers : CdsRead(t, n)
             \/ Complete(t)
             \/ Dies(t)
      PROVE  UNCHANGED cases
  BY <1>3 DEF SaveRead, SaveReadIf, SaveWrite, SubmitRead, Record, FindOpen, ActRead, AskForInfo, Reject, Approve, ApproveWith,
     RequestOpening, SubmitOpening, MarkRequested, LinkRead, Link, LinkWith, CdsRead, Complete, CompleteIf, Dies
<1>4. QED
  BY <1>1, <1>2, <1>3 DEF Next

LEMMA ClosedIsKept ==
  ASSUME OnboardingInv, [Next]_vars, NEW i \in DOMAIN cases, cases[i].status \in Decided
  PROVE  \/ cases'[i] = cases[i]
         \/ \E t \in Tasks : Queue(t) /\ task[t].found = i /\ task[t].as \in OpenStates
<1>1. cases \in Seq(CaseRow)
  BY DEF OnboardingInv, OnboardingTypeOK
<1>2. ASSUME NEW t \in Tasks, Queue(t)
      PROVE  \/ cases'[i] = cases[i]
             \/ task[t].found = i /\ task[t].as \in OpenStates
  <2>1. PICK new, found : new = [status |-> "new", maker |-> None] /\ found = task[t].found
    OBVIOUS
  <2>2. new \in CaseRow
    BY <2>1 DEF CaseRow, OpenStates, MakerStates
  <2>3. /\ cases' = IF found = 0 THEN Append(cases, new) ELSE [cases EXCEPT ![found] = new]
        /\ found = 0 \/ (found \in DOMAIN cases /\ task[t].as \in OpenStates)
    BY <1>2, <2>1 DEF Queue, CaseOpened, OnboardingInv, OneIsOpen
  <2>4. CASE found = 0
    BY <1>1, <2>2, <2>3, <2>4
  <2>5. CASE found # 0
    BY <1>1, <2>1, <2>3, <2>5
  <2>6. QED
    BY <2>4, <2>5
<1>3. ASSUME NEW t \in Tasks, Act(t)
      PROVE  cases'[i] = cases[i]
  <2>1. PICK c : c = task[t].case
    OBVIOUS
  <2>2. task[t].was \in OpenStates
    BY <1>3 DEF OnboardingInv, OnboardingTypeOK, Fits, Act, At
  <2>3. CASE cases[c].status = task[t].was
    <3>1. i # c
      BY <2>2, <2>3 DEF OpenStates, MakerStates, Decided
    <3>2. QED
      BY <1>3, <2>1, <2>3, <3>1 DEF Act, ActIf
  <2>4. CASE cases[c].status # task[t].was
    BY <1>3, <2>1, <2>4 DEF Act, ActIf
  <2>5. QED
    BY <2>3, <2>4
<1>4. QED
  BY <1>2, <1>3, CasesChange

\* However often an investor is approved, by any number of officers at once, Core Banking is
\* asked for one account (account-opening.service.ts:16-18).
THEOREM OneAccountOpened == OnboardingSpec => []OneAccountIsOpened
<1>1. OnboardingInv => OneAccountIsOpened
  BY DEF OnboardingInv, HandedOnce, OneAccountIsOpened
<1>2. QED
  BY <1>1, OnboardingInvariance, PTL

\* Who may bid was decided on the details on record, and was told once
\* (onboarding.service.ts:49-54, cds.service.ts:93-94).
THEOREM ReadyDecided == OnboardingSpec => []ReadyAsDecided
BY DecidedAndTold, OnboardingInvariance, PTL

\* Nobody waits unseen: whoever waits for the back office is in the list it works from
\* (kyc.service.ts:28, cds.service.ts:23, registers.service.ts:205).
THEOREM WaitingListed == OnboardingSpec => []WaitingIsListed
BY Listed, OnboardingInvariance, PTL

\* A case that was decided is not touched again, whatever runs beside; but by a submission that
\* had found it open (kyc.service.ts:69-70, onboarding.service.ts:167-177).
THEOREM ClosedStay == OnboardingSpec => ClosedStays
<1>1. OnboardingInv /\ [Next]_vars =>
        [\A i \in DOMAIN cases : cases[i].status \in Decided =>
           \/ cases'[i] = cases[i]
           \/ \E t \in Tasks : Queue(t) /\ task[t].found = i /\ task[t].as \in OpenStates]_cases
  BY ClosedIsKept
<1>2. QED
  BY <1>1, OnboardingInvariance, PTL DEF OnboardingSpec, ClosedStays

----------------------------------------------------------------------------
(* The form that places a bid.                                              *)

\* The arithmetic.

LEMMA TimesGrows ==
  ASSUME NEW a \in Nat, NEW b \in Nat, NEW c \in Nat, a <= b
  PROVE  a * c <= b * c /\ c * a <= c * b
<1>1. b - a \in Nat /\ b = a + (b - a)
  OBVIOUS
<1>2. (b - a) * c \in Nat
  BY <1>1
<1>3. b * c = a * c + (b - a) * c
  BY <1>1
<1>4. a * c \in Nat /\ b * c \in Nat /\ a * c = c * a /\ b * c = c * b
  OBVIOUS
<1> HIDE <1>1
<1> QED
  BY <1>2, <1>3, <1>4

LEMMA TimesMoves ==
  ASSUME NEW a \in Int, NEW b \in Int, NEW c \in Int
  PROVE  (a * b) * c = a * (b * c) /\ a * b \in Int
OBVIOUS

LEMMA CommissionExact ==
  ASSUME NEW face \in Nat, face % BidMultiple = 0
  PROVE  PreviewCommission(face) = Commission(face)
<1> DEFINE m == face \div BidMultiple
           z == (BidMultiple * CommissionBps) \div 100
<1>1. BidMultiple \in Nat \ {0} /\ CommissionBps \in Nat
  BY BidMathAssumption
<1>2. m \in Int /\ face = m * BidMultiple
  <2>1. m \in Int /\ face = (BidMultiple * m) + (face % BidMultiple)
    BY <1>1
  <2> QED
    BY <1>1, <2>1
<1>3. z \in Int /\ BidMultiple * CommissionBps = 100 * z
  <2>1. BidMultiple * CommissionBps \in Nat
    BY <1>1
  <2> DEFINE y == BidMultiple * CommissionBps
  <2>2. y % 100 = 0
    BY BidStepAssumption
  <2> HIDE DEF y
  <2>3. y \in Nat => y \div 100 \in Int /\ y = (100 * (y \div 100)) + (y % 100)
    OBVIOUS
  <2> QED
    BY <2>1, <2>2, <2>3 DEF y
<1> HIDE DEF m, z
<1>4. face * CommissionBps = m * (100 * z)
  <2>1. face * CommissionBps = m * (BidMultiple * CommissionBps)
    BY <1>1, <1>2, TimesMoves
  <2> QED
    BY <1>3, <2>1
<1>5. m * (100 * z) = 100 * (m * z) /\ m * z \in Int
  BY <1>2, <1>3
<1>6. face * CommissionBps = 100 * (m * z)
  BY <1>4, <1>5
<1> DEFINE w == m * z
<1>7. w \in Int /\ face * CommissionBps = 100 * w
  BY <1>5, <1>6
<1> HIDE DEF w
<1>8. (100 * w) \div 100 = w /\ (100 * w + 50) \div 100 = w
  BY <1>7
<1> QED
  BY <1>7, <1>8 DEF PreviewCommission, Commission

\* The figure on the screen is what is held.
LEMMA ShownIsHeld ==
  ASSUME NEW face \in Nat, NEW price \in Nat \cup {NoPrice}, face % BidMultiple = 0
  PROVE  FundsHold(face, price) = HoldMinor(face, price)
BY CommissionExact DEF FundsHold, HoldMinor, Cost

LEMMA CommissionGrows ==
  ASSUME NEW a \in Nat, NEW b \in Nat, a <= b
  PROVE  Commission(a) <= Commission(b) /\ Commission(a) \in Int /\ Commission(b) \in Int
<1>1. CommissionBps \in Nat
  BY BidMathAssumption
<1>2. a * CommissionBps <= b * CommissionBps /\ a * CommissionBps \in Nat /\ b * CommissionBps \in Nat
  BY <1>1, TimesGrows
<1>3. ASSUME NEW x \in Nat, NEW y \in Nat, x <= y
      PROVE  x \div 100 <= y \div 100 /\ x \div 100 \in Int /\ y \div 100 \in Int
  BY <1>3
<1> QED
  BY <1>2, <1>3 DEF Commission

LEMMA HoldIsInt ==
  ASSUME NEW face \in Nat, NEW price \in Nat \cup {NoPrice}
  PROVE  HoldMinor(face, price) \in Int /\ FundsHold(face, price) \in Int
<1>1. CommissionBps \in Nat
  BY BidMathAssumption
<1>2. \A x \in Nat : x \div 100 \in Int
  OBVIOUS
<1>3. face * CommissionBps \in Nat /\ face * CommissionBps + 50 \in Nat /\ face * 100 \in Nat
  BY <1>1
<1>4. price # NoPrice => price \in Nat /\ face * price \in Nat
  OBVIOUS
<1>5. Commission(face) \in Int /\ PreviewCommission(face) \in Int
  BY <1>2, <1>3 DEF Commission, PreviewCommission
<1>6. Cost(face, price) \in Int
  BY <1>2, <1>3, <1>4 DEF Cost
<1> QED
  BY <1>5, <1>6 DEF HoldMinor, FundsHold, Cost

LEMMA ByParts ==
  ASSUME NEW x \in Nat
  PROVE  (100 * x) \div 10000 = x \div 100 /\ x \div 100 \in Int
OBVIOUS

LEMMA TenThousandths ==
  ASSUME NEW x \in Nat, NEW y \in Nat, x <= 100 * y
  PROVE  x \div 10000 <= y \div 100 /\ x \div 10000 \in Int /\ y \div 100 \in Int
OBVIOUS

\* What is kept of an allotment at a price that is read pays for it.
LEMMA LoweredHoldPays ==
  ASSUME NEW face \in Nat, NEW price \in Nat \cup {NoPrice}, NEW quoted \in Nat,
         quoted % 100 = 0 \/ quoted <= 100 * Par
  PROVE  Owed(face, quoted) <= NewHold(face, price, quoted)
<1>1. quoted # NoPrice /\ NoPrice \notin Int /\ 10000 \in Nat
  BY BidMathAssumption
<1>2. Commission(face) \in Int
  BY CommissionGrows
<1>3. CASE quoted % 100 = 0
  <2> DEFINE z == quoted \div 100
  <2>1. z \in Nat /\ quoted = 100 * z
    BY <1>3
  <2>2. AllottedPrice(price, quoted) = z
    BY <1>1, <1>3 DEF AllottedPrice
  <2> HIDE DEF z
  <2>3. face * quoted = 100 * (face * z) /\ face * z \in Nat
    BY <2>1
  <2>4. NewHold(face, price, quoted) = (face * z) \div 100 + Commission(face)
    BY <1>1, <2>1, <2>2 DEF NewHold, HoldMinor, Cost
  <2>5. (face * quoted) \div 10000 = (face * z) \div 100 /\ (face * z) \div 100 \in Int
    BY <2>3, ByParts
  <2> QED
    BY <1>2, <2>4, <2>5 DEF Owed
<1>4. CASE quoted % 100 # 0
  <2>1. AllottedPrice(price, quoted) = Par
    BY <1>1, <1>4 DEF AllottedPrice
  <2>2. NewHold(face, price, quoted) = (face * Par) \div 100 + Commission(face)
    BY <1>1, <2>1 DEF NewHold, HoldMinor, Cost, Par
  <2>3. quoted <= 100 * Par /\ Par \in Nat /\ 100 * Par \in Nat
    BY <1>1, <1>4 DEF Par
  <2>4. face * quoted <= face * (100 * Par) /\ face * quoted \in Nat
    BY <2>3, TimesGrows
  <2>5. face * (100 * Par) = 100 * (face * Par) /\ face * Par \in Nat
    BY <2>3
  <2>6. (face * quoted) \div 10000 <= (face * Par) \div 100
        /\ (face * quoted) \div 10000 \in Int /\ (face * Par) \div 100 \in Int
    BY <2>4, <2>5, TenThousandths
  <2> QED
    BY <1>2, <2>2, <2>6 DEF Owed
<1> QED
  BY <1>3, <1>4

\* So does all of the hold, at a price BoT may quote.
LEMMA WholeHoldPays ==
  ASSUME NEW face \in Nat, NEW whole \in Nat, face <= whole,
         NEW price \in Nat \cup {NoPrice}, NEW quoted \in Nat, Within(price, quoted)
  PROVE  Owed(face, quoted) <= HoldMinor(whole, price)
<1> DEFINE at == IF price = NoPrice THEN Par ELSE price
<1>1. at \in Nat /\ quoted <= 100 * at
  BY DEF Within, Par
<1>2. Cost(whole, price) = (whole * at) \div 100
  <2>1. (whole * 10000) \div 100 = whole * 100
    OBVIOUS
  <2> QED
    BY <2>1 DEF Cost, Par
<1> HIDE DEF at
<1>3. /\ Commission(face) <= Commission(whole)
      /\ Commission(face) \in Int /\ Commission(whole) \in Int
  BY CommissionGrows
<1>4. face * quoted <= whole * quoted /\ face * quoted \in Nat /\ whole * quoted \in Nat
  BY TimesGrows
<1>5. whole * quoted <= whole * (100 * at) /\ whole * (100 * at) = 100 * (whole * at)
      /\ whole * at \in Nat /\ 100 * at \in Nat
  BY <1>1, TimesGrows
<1>6. face * quoted <= 100 * (whole * at)
  BY <1>4, <1>5
<1>7. (face * quoted) \div 10000 <= (whole * at) \div 100
      /\ (face * quoted) \div 10000 \in Int /\ (whole * at) \div 100 \in Int
  BY <1>4, <1>5, <1>6, TenThousandths
<1> QED
  BY <1>2, <1>3, <1>7 DEF Owed, HoldMinor

----------------------------------------------------------------------------
\* The funds.

LEMMA LeastNumber ==
  ASSUME NEW S, S # {}, S \subseteq Nat
  PROVE  \E x \in S : \A y \in S : x <= y
<1> DEFINE Below == {ss \in Nat \X Nat : ss[1] < ss[2]}
<1>1. IsWellFoundedOn(Below, Nat)
  BY NatLessThanWellFounded, Zenon DEF OpToRel
<1>2. PICK x \in S : \A y \in S : ~(<<y, x>> \in Below)
  <2> HIDE DEF Below
  <2>1. QED
    BY <1>1, WFMin, Zenon
<1>3. ASSUME NEW y \in S PROVE x <= y
  <2>1. y \in Nat /\ x \in Nat
    OBVIOUS
  <2>2. y < x => <<y, x>> \in Below
    BY <2>1
  <2> QED
    BY <1>2, <2>1, <2>2
<1> QED
  BY <1>3

AddsUp(f) == f = [n \in 0..MaxCalls |-> IF n = 0 THEN 0 ELSE f[n - 1] + KeptFor(n)]

\* Of one bid and no other, what it keeps is what is missing.
LEMMA OneBidTakes ==
  ASSUME NEW k \in 0..MaxCalls, NoOther(k), k # 0 => KeptFor(k) \in Int
  PROVE  Free = Balance - (IF k = 0 THEN 0 ELSE KeptFor(k))
<1> DEFINE v == IF k = 0 THEN 0 ELSE KeptFor(k)
           g == [n \in 0..MaxCalls |-> IF n < k THEN 0 ELSE v]
           f == CHOOSE h : AddsUp(h)
<1>1. MaxCalls \in Nat /\ Balance \in Nat
  BY BidFormAssumption
<1>2. Free = Balance - f[MaxCalls]
  BY DEF Free, AddsUp
<1>3. \A n \in 1..MaxCalls : n # k => KeptFor(n) = 0
  BY DEF NoOther, KeptFor
<1>4. v \in Int /\ (k = 0 => v = 0) /\ (k # 0 => v = KeptFor(k))
  OBVIOUS
<1>5. AddsUp(g)
  <2> HIDE DEF v
  <2>1. ASSUME NEW n \in 0..MaxCalls
        PROVE  g[n] = IF n = 0 THEN 0 ELSE g[n - 1] + KeptFor(n)
    <3>1. CASE n = 0
      BY <1>1, <1>4, <3>1
    <3>2. CASE n # 0
      <4>1. n \in 1..MaxCalls /\ n - 1 \in 0..MaxCalls
        BY <1>1, <3>2
      <4>2. g[n - 1] = (IF n - 1 < k THEN 0 ELSE v) /\ g[n] = (IF n < k THEN 0 ELSE v)
        BY <4>1
      <4>3. CASE n = k
        BY <1>4, <3>2, <4>1, <4>2, <4>3
      <4>4. CASE n # k
        <5>1. KeptFor(n) = 0
          BY <1>3, <4>1, <4>4
        <5>2. n - 1 < k <=> n < k
          BY <1>1, <4>1, <4>4
        <5> QED
          BY <1>4, <3>2, <4>2, <5>1, <5>2
      <4> QED
        BY <4>3, <4>4
    <3> QED
      BY <3>1, <3>2
  <2>2. g = [n \in 0..MaxCalls |-> g[n]]
    OBVIOUS
  <2> HIDE DEF g
  <2> QED
    BY <2>1, <2>2, Zenon DEF AddsUp
<1> HIDE DEF g
<1>6. AddsUp(f)
  BY <1>5
<1> HIDE DEF f
<1> DEFINE bad == {n \in 0..MaxCalls : f[n] # g[n]}
<1>7. bad = {}
  <2>1. SUFFICES ASSUME bad # {} PROVE FALSE
    OBVIOUS
  <2>2. PICK n \in bad : \A y \in bad : n <= y
    <3>1. bad \subseteq Nat
      BY <1>1
    <3> HIDE DEF bad
    <3> QED
      BY <2>1, <3>1, LeastNumber
  <2>3. n \in 0..MaxCalls /\ f[n] # g[n]
    BY <2>2
  <2>4. f[n] = (IF n = 0 THEN 0 ELSE f[n - 1] + KeptFor(n))
    BY <1>6, <2>3 DEF AddsUp
  <2>5. g[n] = (IF n = 0 THEN 0 ELSE g[n - 1] + KeptFor(n))
    BY <1>5, <2>3 DEF AddsUp
  <2>6. n # 0
    BY <2>3, <2>4, <2>5
  <2>7. n - 1 \in 0..MaxCalls /\ ~(n <= n - 1)
    BY <1>1, <2>3, <2>6
  <2>8. f[n - 1] = g[n - 1]
    BY <2>2, <2>7
  <2> QED
    BY <2>3, <2>4, <2>5, <2>8
<1>8. f[MaxCalls] = g[MaxCalls]
  BY <1>1, <1>7
<1>9. g[MaxCalls] = v
  BY <1>1 DEF g
<1> QED
  BY <1>2, <1>8, <1>9

AddsUpTo(f, last) == f = [n \in 0..last |-> IF n = 0 THEN 0 ELSE f[n - 1] + KeptFor(n)]

\* What is left of several is a number too.
LEMMA FundsAreCounted ==
  ASSUME \A k \in 1..MaxCalls : KeptFor(k) \in Int
  PROVE  Free \in Int
<1> DEFINE f == CHOOSE h : AddsUp(h)
           bad == {n \in Nat : ~\E h : AddsUpTo(h, n)}
           odd == {n \in 0..MaxCalls : f[n] \notin Int}
<1>1. MaxCalls \in Nat /\ Balance \in Nat
  BY BidFormAssumption
<1>2. bad = {}
  <2>1. SUFFICES ASSUME bad # {} PROVE FALSE
    OBVIOUS
  <2>2. PICK n \in bad : \A y \in bad : n <= y
    <3>1. bad \subseteq Nat
      OBVIOUS
    <3> HIDE DEF bad
    <3> QED
      BY <2>1, <3>1, LeastNumber
  <2>3. CASE n = 0
    <3>1. AddsUpTo([m \in 0..0 |-> 0], 0)
      BY DEF AddsUpTo
    <3> QED
      BY <2>2, <2>3, <3>1
  <2>4. CASE n # 0
    <3>1. n - 1 \in Nat /\ n - 1 \notin bad
      BY <2>2, <2>4
    <3>2. PICK h : AddsUpTo(h, n - 1)
      BY <3>1
    <3> DEFINE g == [m \in 0..n |-> IF m = 0 THEN 0 ELSE h[m - 1] + KeptFor(m)]
    <3>3. \A m \in 0..(n - 1) : g[m] = h[m]
      <4>1. \A m \in 0..(n - 1) : m \in 0..n
        BY <2>2
      <4>2. \A m \in 0..(n - 1) : h[m] = IF m = 0 THEN 0 ELSE h[m - 1] + KeptFor(m)
        BY <3>2, Zenon DEF AddsUpTo
      <4> QED
        BY <4>1, <4>2, Zenon
    <3>4. \A m \in 0..n : m # 0 => m - 1 \in 0..(n - 1)
      BY <2>2
    <3>5. AddsUpTo(g, n)
      BY <3>3, <3>4 DEF AddsUpTo
    <3> QED
      BY <2>2, <3>5
  <2> QED
    BY <2>3, <2>4
<1>3. AddsUp(f)
  <2>1. PICK h : AddsUpTo(h, MaxCalls)
    BY <1>1, <1>2
  <2> QED
    BY <2>1 DEF AddsUp, AddsUpTo
<1>4. Free = Balance - f[MaxCalls]
  BY DEF Free, AddsUp
<1> HIDE DEF f
<1>5. odd = {}
  <2>1. SUFFICES ASSUME odd # {} PROVE FALSE
    OBVIOUS
  <2>2. PICK n \in odd : \A y \in odd : n <= y
    <3>1. odd \subseteq Nat
      BY <1>1
    <3> HIDE DEF odd
    <3> QED
      BY <2>1, <3>1, LeastNumber
  <2>3. f[n] = (IF n = 0 THEN 0 ELSE f[n - 1] + KeptFor(n)) /\ n \in 0..MaxCalls
    BY <1>3, <2>2 DEF AddsUp
  <2>4. n # 0
    BY <2>2, <2>3
  <2>5. n - 1 \in 0..MaxCalls /\ ~(n <= n - 1) /\ n \in 1..MaxCalls
    BY <1>1, <2>3, <2>4
  <2>6. f[n - 1] \in Int
    BY <2>2, <2>5
  <2> QED
    BY <2>2, <2>3, <2>4, <2>5, <2>6
<1>6. f[MaxCalls] \in Int
  BY <1>1, <1>5
<1> QED
  BY <1>1, <1>4, <1>6

----------------------------------------------------------------------------
\* The invariant of the form and its calls.

LEMMA BidFormFacts ==
  ASSUME BidFormTypeOK
  PROVE  /\ Calls = 1..Len(call) /\ Len(call) \in Nat /\ Len(call) <= MaxCalls /\ MaxCalls \in Nat
         /\ Balance \in Nat /\ available \in Int /\ open \in BOOLEAN /\ form \in FormRows
         /\ form.visit \in Nat /\ form.step \in FormSteps
         /\ \A k \in Calls : k \in 1..MaxCalls /\ k \in Nat /\ k # NoCall /\ call[k] \in CallRows
         /\ form.face \in Nat /\ form.price \in Nat \cup {NoPrice} /\ NoPrice \notin Int
         /\ \A k \in Calls : /\ call[k].face \in Nat /\ call[k].price \in Nat \cup {NoPrice}
                             /\ call[k].visit \in Nat
         /\ \A k \in 1..MaxCalls : bid[k] # NoBid => bid[k].held \in Int /\ bid[k].kept \in Int
         /\ \A k \in 1..MaxCalls : bid[k] = NoBid \/ bid[k].status \in {"placed", "allotted"}
         /\ \A k \in 1..MaxCalls : bid[k].status \in {"placed", "allotted"} => bid[k] # NoBid
<1>1. Faces \subseteq Nat /\ Prices \subseteq Nat \cup {NoPrice} /\ MaxCalls \in Nat /\ Balance \in Nat
      /\ NoPrice \notin Int
  BY BidFormAssumption, BidMathAssumption
<1>2. Calls = 1..Len(call) /\ Len(call) \in Nat /\ Len(call) <= MaxCalls
  BY DEF BidFormTypeOK, Calls
<1>3. \A k \in Calls : k \in 1..MaxCalls /\ k \in Nat /\ k # NoCall /\ call[k] \in CallRows
  BY <1>1, <1>2 DEF BidFormTypeOK, NoCall
<1>9. /\ \A x \in Faces \cup {0} : x \in Nat
      /\ \A x \in Prices \cup {NoPrice} : x \in Nat \cup {NoPrice}
  BY <1>1
<1>4. /\ form.face \in Nat /\ form.price \in Nat \cup {NoPrice} /\ form \in FormRows
      /\ form.visit \in Nat /\ form.step \in FormSteps
  <2>1. /\ form \in FormRows /\ form.face \in Faces \cup {0} /\ form.price \in Prices \cup {NoPrice}
        /\ form.visit \in Nat /\ form.step \in FormSteps
    BY DEF BidFormTypeOK, FormRows
  <2> QED
    BY <1>9, <2>1
<1>5. \A k \in Calls : /\ call[k].face \in Nat /\ call[k].price \in Nat \cup {NoPrice}
                       /\ call[k].visit \in Nat
  <2>1. \A k \in Calls : /\ call[k].face \in Faces \cup {0} /\ call[k].price \in Prices \cup {NoPrice}
                         /\ call[k].visit \in Nat
    BY <1>3 DEF CallRows
  <2> QED
    BY <1>9, <2>1
<1>6. ASSUME NEW k \in 1..MaxCalls
      PROVE  /\ bid[k] # NoBid => bid[k].held \in Int /\ bid[k].kept \in Int
             /\ bid[k] = NoBid \/ bid[k].status \in {"placed", "allotted"}
             /\ bid[k].status \in {"placed", "allotted"} => bid[k] # NoBid
  <2>1. bid[k] \in {NoBid} \cup PlacedRows \cup AllottedRows
    BY DEF BidFormTypeOK
  <2> QED
    BY <2>1 DEF PlacedRows, AllottedRows, NoBid
<1> QED
  BY <1>1, <1>2, <1>3, <1>4, <1>5, <1>6 DEF BidFormTypeOK

LEMMA BidFormInitHolds == FormInit => BidFormInv
<1> SUFFICES ASSUME FormInit PROVE BidFormInv
  OBVIOUS
<1>1. /\ form = Blank(1) /\ available = Balance /\ open = TRUE /\ call = <<>>
      /\ bid = [k \in 1..MaxCalls |-> NoBid] /\ Calls = {} /\ Len(call) = 0
      /\ MaxCalls \in Nat /\ Balance \in Nat
  BY BidFormAssumption DEF FormInit, Calls
<1>2. BidFormTypeOK
  <2>1. Blank(1) \in FormRows
    BY <1>1 DEF Blank, FormRows, FormSteps, NoCall
  <2> QED
    BY <1>1, <2>1 DEF BidFormTypeOK
<1>3. form.step = 1 /\ form.pending = NoCall
  BY <1>1 DEF Blank
<1>4. FormIsReviewed /\ CallsInTurn /\ BidsAreOfCalls /\ AllotmentIsCovered
  BY <1>1, <1>3 DEF FormIsReviewed, CallsInTurn, BidsAreOfCalls, AllotmentIsCovered, NoCall
<1>5. FiguresStand
  BY <1>1, <1>3 DEF FiguresStand
<1> QED
  BY <1>2, <1>4, <1>5 DEF BidFormInv

\* What touches the form alone, and shows no receipt.
LEMMA FormAloneHolds ==
  ASSUME BidFormInv, UNCHANGED <<available, call, bid, open>>,
         form' \in FormRows, FormIsReviewed', CallsInTurn', form'.step # 3
  PROVE  BidFormInv'
<1>1. BidFormTypeOK'
  BY DEF BidFormInv, BidFormTypeOK
<1>2. BidsAreOfCalls' /\ AllotmentIsCovered'
  BY DEF BidFormInv, BidsAreOfCalls, AllotmentIsCovered, Calls
<1>3. FiguresStand'
  BY DEF BidFormInv, FiguresStand, Calls, NoOther
<1> QED
  BY <1>1, <1>2, <1>3 DEF BidFormInv

LEMMA TypeHolds ==
  ASSUME BidFormInv, NEW face \in Faces, NEW price \in Prices, Type(face, price)
  PROVE  BidFormInv'
<1>1. /\ UNCHANGED <<available, call, bid, open>> /\ form.step = 1 /\ form \in FormRows
      /\ form' = [form EXCEPT !.face = face, !.price = price]
  BY DEF Type, BidFormInv, BidFormTypeOK
<1>2. /\ form' \in FormRows /\ form'.step = 1 /\ form'.visit = form.visit
      /\ form'.pending = form.pending
  BY <1>1 DEF FormRows
<1>3. FormIsReviewed' /\ CallsInTurn'
  BY <1>1, <1>2 DEF BidFormInv, FormIsReviewed, CallsInTurn, Calls
<1> QED
  BY <1>1, <1>2, <1>3, FormAloneHolds

LEMMA ReviewHolds ==
  ASSUME BidFormInv, Review
  PROVE  BidFormInv'
<1>1. /\ UNCHANGED <<available, call, bid, open>> /\ form.step = 1 /\ form \in FormRows
      /\ form' = [form EXCEPT !.step = 2] /\ AmountOK(form.face) /\ PriceValid
  BY DEF Review, CanReview, BidFormInv, BidFormTypeOK
<1>2. /\ form' \in FormRows /\ form'.step = 2 /\ form'.visit = form.visit
      /\ form'.pending = form.pending /\ form'.face = form.face /\ form'.price = form.price
  BY <1>1 DEF FormRows, FormSteps
<1>3. FormIsReviewed' /\ CallsInTurn'
  BY <1>1, <1>2 DEF BidFormInv, FormIsReviewed, CallsInTurn, Calls, PriceValid
<1> QED
  BY <1>1, <1>2, <1>3, FormAloneHolds

LEMMA BackHolds ==
  ASSUME BidFormInv, Back
  PROVE  BidFormInv'
<1>1. /\ UNCHANGED <<available, call, bid, open>> /\ form.step = 2 /\ form \in FormRows
      /\ form' = [form EXCEPT !.step = 1] /\ form.pending = NoCall
  BY DEF Back, BidFormInv, BidFormTypeOK
<1>2. /\ form' \in FormRows /\ form'.step = 1 /\ form'.visit = form.visit
      /\ form'.pending = form.pending
  BY <1>1 DEF FormRows, FormSteps
<1>3. FormIsReviewed' /\ CallsInTurn'
  BY <1>1, <1>2 DEF BidFormInv, FormIsReviewed, CallsInTurn, Calls
<1> QED
  BY <1>1, <1>2, <1>3, FormAloneHolds

LEMMA LeaveHolds ==
  ASSUME BidFormInv, Leave
  PROVE  BidFormInv'
<1>1. /\ UNCHANGED <<available, call, bid, open>> /\ form' = Blank(form.visit + 1)
      /\ \A k \in Calls : call[k].visit <= form.visit /\ call[k].visit \in Nat
      /\ form.visit \in Nat /\ MaxCalls \in Nat
  BY BidFormFacts DEF Leave, BidFormInv, CallsInTurn
<1>2. /\ form' \in FormRows /\ form'.step = 1 /\ form'.visit = form.visit + 1
      /\ form'.pending = NoCall
  BY <1>1 DEF FormRows, FormSteps, Blank, NoCall
<1>3. FormIsReviewed'
  BY <1>2 DEF FormIsReviewed
<1>4. \A k \in Calls : call[k].visit <= form.visit + 1 /\ call[k].visit # form.visit + 1
  BY <1>1
<1>5. CallsInTurn'
  BY <1>1, <1>2, <1>4 DEF BidFormInv, CallsInTurn, Calls
<1> QED
  BY <1>1, <1>2, <1>3, <1>5, FormAloneHolds

\* A call goes on and keeps its terms.
CallGoesOn(k, p) ==
  /\ call' \in Seq(CallRows) /\ Len(call') = Len(call) /\ Calls' = Calls
  /\ call'[k].pc = p
  /\ \A j \in Calls : j # k => call'[j].pc = call[j].pc
  /\ \A j \in Calls : /\ call'[j].visit = call[j].visit /\ call'[j].face = call[j].face
                      /\ call'[j].price = call[j].price /\ call'[j].shown = call[j].shown
                      /\ call'[j].after = call[j].after

LEMMA CallGoesOnFacts ==
  ASSUME BidFormTypeOK, NEW k \in Calls, NEW p \in {"placing", "rereading", "done", "failed"},
         \/ call' = [call EXCEPT ![k].pc = p]
         \/ call' = [call EXCEPT ![k].pc = p, ![k].sent = TRUE]
  PROVE  CallGoesOn(k, p)
<1>1. /\ call \in [1..Len(call) -> CallRows] /\ Len(call) \in Nat /\ Calls = 1..Len(call)
      /\ DOMAIN call = 1..Len(call) /\ call[k] \in CallRows
  BY DEF BidFormTypeOK, Calls
<1>2. PICK row \in CallRows :
        /\ row.pc = p /\ row.visit = call[k].visit /\ row.face = call[k].face
        /\ row.price = call[k].price /\ row.shown = call[k].shown /\ row.after = call[k].after
        /\ call' = [call EXCEPT ![k] = row]
  <2>1. CASE call' = [call EXCEPT ![k].pc = p]
    <3> DEFINE r == [call[k] EXCEPT !.pc = p]
    <3>1. /\ r \in CallRows /\ r.pc = p /\ r.visit = call[k].visit /\ r.face = call[k].face
          /\ r.price = call[k].price /\ r.shown = call[k].shown /\ r.after = call[k].after
      BY <1>1 DEF CallRows
    <3>2. call' = [call EXCEPT ![k] = r]
      BY <2>1
    <3> HIDE DEF r
    <3> QED
      BY <3>1, <3>2
  <2>2. CASE call' = [call EXCEPT ![k].pc = p, ![k].sent = TRUE]
    <3> DEFINE r == [call[k] EXCEPT !.pc = p, !.sent = TRUE]
    <3>1. /\ r \in CallRows /\ r.pc = p /\ r.visit = call[k].visit /\ r.face = call[k].face
          /\ r.price = call[k].price /\ r.shown = call[k].shown /\ r.after = call[k].after
      BY <1>1 DEF CallRows
    <3>2. call' = [call EXCEPT ![k] = r]
      BY <1>1, <2>2 DEF CallRows
    <3> HIDE DEF r
    <3> QED
      BY <3>1, <3>2
  <2> QED
    BY <2>1, <2>2
<1>3. call' \in [1..Len(call) -> CallRows] /\ DOMAIN call' = 1..Len(call)
  BY <1>1, <1>2
<1>4. call' \in Seq(CallRows) /\ Len(call') = Len(call)
  BY <1>1, <1>3
<1>5. call'[k] = row /\ \A j \in Calls : j # k => call'[j] = call[j]
  BY <1>1, <1>2
<1> QED
  BY <1>1, <1>2, <1>3, <1>4, <1>5 DEF CallGoesOn, Calls

\* The figures depend on the terms of the calls only.
LEMMA FiguresOfTerms ==
  ASSUME BidFormInv, NEW k \in Calls, NEW p, CallGoesOn(k, p), UNCHANGED <<available, bid>>,
         \/ form'.step = form.step /\ form'.placed = form.placed
         \/ form'.step # 3
  PROVE  FiguresStand' /\ AllotmentIsCovered'
<1>1. /\ Calls' = Calls
      /\ \A j \in Calls : /\ call'[j].visit = call[j].visit /\ call'[j].face = call[j].face
                          /\ call'[j].price = call[j].price /\ call'[j].shown = call[j].shown
                          /\ call'[j].after = call[j].after
  BY DEF CallGoesOn
<1>2. AllotmentIsCovered'
  BY <1>1 DEF BidFormInv, AllotmentIsCovered
<1>3. ASSUME NEW j \in Calls
      PROVE  /\ call'[j].shown = FundsHold(call'[j].face, call'[j].price)
             /\ (\A l \in 1..MaxCalls : l # j => bid'[l] = NoBid) =>
                  call'[j].after = Balance - call'[j].shown
             /\ bid'[j].status = "placed" =>
                  /\ bid'[j].held = HoldMinor(call'[j].face, call'[j].price)
                  /\ bid'[j].kept = bid'[j].held /\ bid'[j].held = call'[j].shown
  BY <1>1 DEF BidFormInv, FiguresStand, NoOther
<1>4. (\A l \in 1..MaxCalls : l # NoCall => bid'[l] = NoBid) => available' = Balance
  BY DEF BidFormInv, FiguresStand, NoOther
<1>5. ASSUME form'.step = 3, bid'[form'.placed].status = "placed",
             \A l \in 1..MaxCalls : l # form'.placed => bid'[l] = NoBid
      PROVE  available' = Balance - call'[form'.placed].shown
  <2>1. form'.placed = form.placed /\ form.step = 3 /\ form.placed \in Calls
    BY <1>5 DEF BidFormInv, BidsAreOfCalls
  <2>2. available = Balance - call[form.placed].shown
    BY <1>5, <2>1 DEF BidFormInv, FiguresStand, NoOther
  <2> QED
    BY <1>1, <2>1, <2>2
<1> QED
  BY <1>1, <1>2, <1>3, <1>4, <1>5, Zenon DEF FiguresStand, NoOther

LEMMA CallFailsHolds ==
  ASSUME BidFormInv, NEW k \in 1..MaxCalls, CallFails(k)
  PROVE  BidFormInv'
<1>1. /\ k \in Calls /\ call[k].pc \notin {"done", "failed"} /\ UNCHANGED <<available, bid, open>>
      /\ call' = [call EXCEPT ![k].pc = "failed"] /\ form \in FormRows
      /\ form' = IF form.pending = k THEN [form EXCEPT !.pending = NoCall] ELSE form
      /\ BidFormTypeOK /\ MaxCalls \in Nat
  BY BidFormAssumption DEF CallFails, BidFormInv, BidFormTypeOK
<1>2. CallGoesOn(k, "failed")
  BY <1>1, CallGoesOnFacts
<1>3. /\ form' \in FormRows /\ form'.visit = form.visit /\ form'.step = form.step
      /\ form'.face = form.face /\ form'.price = form.price /\ form'.placed = form.placed
      /\ form'.pending = IF form.pending = k THEN NoCall ELSE form.pending
  BY <1>1 DEF FormRows, NoCall
<1>4. BidFormTypeOK'
  BY <1>1, <1>2, <1>3 DEF BidFormTypeOK, CallGoesOn
<1>5. FormIsReviewed'
  BY <1>3 DEF BidFormInv, FormIsReviewed, PriceValid
<1>6. CallsInTurn'
  BY <1>1, <1>2, <1>3 DEF BidFormInv, CallsInTurn, CallGoesOn
<1>7. BidsAreOfCalls'
  BY <1>1, <1>2, <1>3 DEF BidFormInv, BidsAreOfCalls, CallGoesOn
<1>8. FiguresStand' /\ AllotmentIsCovered'
  BY <1>1, <1>2, <1>3, FiguresOfTerms
<1> QED
  BY <1>4, <1>5, <1>6, <1>7, <1>8 DEF BidFormInv

LEMMA AnsweredHolds ==
  ASSUME BidFormInv, NEW k \in 1..MaxCalls, Approved(k) \/ PlaceAnswered(k)
  PROVE  BidFormInv'
<1>1. /\ k \in Calls /\ call[k].pc \notin {"done", "failed"} /\ UNCHANGED <<form, available, bid, open>>
      /\ BidFormTypeOK
  BY DEF Approved, PlaceAnswered, CallAt, BidFormInv
<1>2. PICK p \in {"placing", "rereading"} : CallGoesOn(k, p) /\ (p = "rereading" => bid[k] # NoBid)
  BY <1>1, CallGoesOnFacts DEF Approved, PlaceAnswered
<1>3. BidFormTypeOK'
  BY <1>1, <1>2 DEF BidFormTypeOK, CallGoesOn
<1>4. FormIsReviewed'
  BY <1>1 DEF BidFormInv, FormIsReviewed, PriceValid
<1>5. CallsInTurn'
  BY <1>1, <1>2 DEF BidFormInv, CallsInTurn, CallGoesOn
<1>6. BidsAreOfCalls'
  BY <1>1, <1>2 DEF BidFormInv, BidsAreOfCalls, CallGoesOn
<1>7. FiguresStand' /\ AllotmentIsCovered'
  BY <1>1, <1>2, FiguresOfTerms
<1> QED
  BY <1>3, <1>4, <1>5, <1>6, <1>7 DEF BidFormInv

\* What Confirm asks for: what was reviewed, and what was shown of it.
LEMMA ConfirmFacts ==
  ASSUME BidFormInv, Confirm
  PROVE  /\ UNCHANGED <<available, bid, open>> /\ form.step = 2 /\ form.pending = NoCall
         /\ call' \in Seq(CallRows) /\ Len(call') = Len(call) + 1 /\ Len(call') <= MaxCalls
         /\ Calls' = Calls \cup {Len(call) + 1} /\ Len(call) + 1 \notin Calls
         /\ \A k \in Calls : call'[k] = call[k] /\ k < Len(call) + 1
         /\ form' \in FormRows /\ form' = [form EXCEPT !.pending = Len(call) + 1]
         /\ call'[Len(call) + 1].pc = "approving"
         /\ call'[Len(call) + 1].visit = form.visit
         /\ call'[Len(call) + 1].shown =
              FundsHold(call'[Len(call) + 1].face, call'[Len(call) + 1].price)
         /\ call'[Len(call) + 1].after = available - call'[Len(call) + 1].shown
<1>1. /\ BidFormTypeOK /\ form.step = 2 /\ form.pending = NoCall /\ Len(call) < MaxCalls
      /\ UNCHANGED <<available, bid, open>> /\ form' = [form EXCEPT !.pending = Len(call) + 1]
      /\ AmountOK(form.face) /\ PriceValid
  BY DEF Confirm, ConfirmAnyhow, BidFormInv, FormIsReviewed
<1> DEFINE row == [pc |-> "approving", sent |-> FALSE, visit |-> form.visit,
                   face |-> form.face, price |-> form.price,
                   shown |-> Summary.hold, after |-> Summary.after]
<1>2. call' = Append(call, row)
  BY DEF Confirm, ConfirmAnyhow
<1>3. /\ Calls = 1..Len(call) /\ Len(call) \in Nat /\ MaxCalls \in Nat /\ available \in Int
      /\ form.visit \in Nat /\ form.face \in Nat /\ form.price \in Nat \cup {NoPrice}
      /\ form \in FormRows /\ form.face \in Faces \cup {0} /\ form.price \in Prices \cup {NoPrice}
      /\ NoPrice \notin Int
  BY <1>1, BidFormFacts DEF FormRows
<1>4. Summary.hold = FundsHold(form.face, form.price) /\ Summary.after = available - Summary.hold
  BY <1>1 DEF Summary
<1>5. FundsHold(form.face, form.price) \in Int
  BY <1>3, HoldIsInt
<1>6. /\ row \in CallRows /\ row.pc = "approving" /\ row.visit = form.visit
      /\ row.shown = FundsHold(row.face, row.price) /\ row.after = available - row.shown
  BY <1>3, <1>4, <1>5 DEF CallRows
<1> HIDE DEF row
<1>7. call \in Seq(CallRows)
  BY <1>1 DEF BidFormTypeOK
<1>8. /\ call' \in Seq(CallRows) /\ Len(call') = Len(call) + 1 /\ call'[Len(call) + 1] = row
      /\ \A k \in 1..Len(call) : call'[k] = call[k]
      /\ DOMAIN call' = 1..(Len(call) + 1)
  BY <1>2, <1>6, <1>7
<1>9. 1..(Len(call) + 1) = (1..Len(call)) \cup {Len(call) + 1} /\ Len(call) + 1 \notin 1..Len(call)
      /\ \A k \in 1..Len(call) : k < Len(call) + 1
  BY <1>3
<1>10. Calls' = Calls \cup {Len(call) + 1} /\ Len(call) + 1 \notin Calls
  BY <1>3, <1>8, <1>9 DEF Calls
<1>11. form' \in FormRows
  BY <1>1, <1>3 DEF FormRows
<1> QED
  BY <1>1, <1>3, <1>6, <1>8, <1>9, <1>10, <1>11

LEMMA ConfirmHolds ==
  ASSUME BidFormInv, Confirm
  PROVE  BidFormInv'
<1>13. PICK n : n = Len(call) + 1
  OBVIOUS
<1>1. /\ UNCHANGED <<available, bid, open>> /\ form.step = 2 /\ form.pending = NoCall
      /\ call' \in Seq(CallRows) /\ Len(call') = n /\ Len(call') <= MaxCalls
      /\ Calls' = Calls \cup {n} /\ n \notin Calls
      /\ \A k \in Calls : call'[k] = call[k] /\ k < n
      /\ form' \in FormRows /\ form' = [form EXCEPT !.pending = n]
      /\ call'[n].pc = "approving" /\ call'[n].visit = form.visit
      /\ call'[n].shown = FundsHold(call'[n].face, call'[n].price)
      /\ call'[n].after = available - call'[n].shown
  BY <1>13, ConfirmFacts
<1>2. /\ form \in FormRows /\ Len(call) \in Nat /\ MaxCalls \in Nat /\ form.visit \in Nat
      /\ \A k \in Calls : k # NoCall /\ k \in Nat
      /\ \A k \in 1..MaxCalls : bid[k] = NoBid \/ bid[k].status \in {"placed", "allotted"}
  BY BidFormFacts DEF BidFormInv
<1>3. n \in 1..MaxCalls /\ n \in Nat /\ n # NoCall
  BY <1>1, <1>2, <1>13 DEF NoCall
<1>4. /\ form'.step = 2 /\ form'.pending = n /\ form'.visit = form.visit /\ form'.placed = form.placed
      /\ form'.face = form.face /\ form'.price = form.price
  BY <1>1, <1>2 DEF FormRows
<1>5. BidFormTypeOK'
  BY <1>1 DEF BidFormInv, BidFormTypeOK
<1>6. FormIsReviewed'
  BY <1>1, <1>4 DEF BidFormInv, FormIsReviewed, PriceValid
<1>7. \A k \in Calls : call[k].visit = form.visit => call[k].pc = "failed"
  BY <1>1, <1>2 DEF BidFormInv, CallsInTurn
<1>8. CallsInTurn'
  <2>1. ASSUME NEW k \in Calls'
        PROVE  /\ call'[k].visit <= form'.visit
               /\ call'[k].visit = form'.visit => form'.pending = k \/ call'[k].pc \in {"done", "failed"}
               /\ call'[k].visit = form'.visit /\ call'[k].pc = "done" => form'.step = 3
    BY <1>1, <1>2, <1>4, <1>7 DEF BidFormInv, CallsInTurn
  <2>2. ASSUME NEW k \in Calls', NEW l \in Calls', k < l, call'[k].visit = call'[l].visit
        PROVE  call'[k].pc = "failed"
    <3>1. k \in Calls
      BY <1>1, <1>2, <1>3, <2>2
    <3>2. CASE l \in Calls
      BY <1>1, <2>2, <3>1, <3>2 DEF BidFormInv, CallsInTurn
    <3>3. CASE l = n
      BY <1>1, <1>7, <2>2, <3>1, <3>3
    <3> QED
      BY <1>1, <3>2, <3>3
  <2> QED
    BY <2>1, <2>2 DEF CallsInTurn
<1>9. bid[n] = NoBid
  BY <1>1, <1>3 DEF BidFormInv, BidsAreOfCalls
<1>10. BidsAreOfCalls'
  BY <1>1, <1>4 DEF BidFormInv, BidsAreOfCalls
<1>11. AllotmentIsCovered'
  BY <1>1, <1>9 DEF BidFormInv, AllotmentIsCovered, NoBid
<1>12. FiguresStand'
  <2>1. ASSUME NEW k \in Calls', k # n
        PROVE  /\ call'[k].shown = FundsHold(call'[k].face, call'[k].price)
               /\ NoOther(k)' => call'[k].after = Balance - call'[k].shown
               /\ bid'[k].status = "placed" =>
                    /\ bid'[k].held = HoldMinor(call'[k].face, call'[k].price)
                    /\ bid'[k].kept = bid'[k].held /\ bid'[k].held = call'[k].shown
    <3>1. k \in Calls /\ call'[k] = call[k] /\ bid' = bid
      BY <1>1, <2>1
    <3> QED
      BY <3>1 DEF BidFormInv, FiguresStand, NoOther
  <2>2. NoOther(n)' => call'[n].after = Balance - call'[n].shown
    <3>1. NoOther(n)' => NoOther(NoCall)
      BY <1>1, <1>9 DEF NoOther
    <3> QED
      BY <1>1, <3>1 DEF BidFormInv, FiguresStand
  <2>3. bid'[n].status # "placed"
    BY <1>1, <1>9 DEF NoBid
  <2>4. NoOther(NoCall)' => available' = Balance
    BY <1>1 DEF BidFormInv, FiguresStand, NoOther
  <2> QED
    BY <1>1, <1>4, <2>1, <2>2, <2>3, <2>4 DEF FiguresStand, NoOther
<1> QED
  BY <1>5, <1>6, <1>8, <1>10, <1>11, <1>12 DEF BidFormInv

\* What changes one bid leaves the form and the calls as they are.
LEMMA BidGoesOn ==
  ASSUME BidFormInv, NEW k \in Calls, NEW row \in PlacedRows \cup AllottedRows,
         bid' = [bid EXCEPT ![k] = row], UNCHANGED <<form, available, call, open>>,
         row.status = "placed" => /\ bid[k] = NoBid /\ row.kept = row.held
                                  /\ row.held = HoldMinor(call[k].face, call[k].price)
                                  /\ row.held = call[k].shown,
         row.status = "allotted" /\ row.quoted # NoPrice =>
           \/ row.kept >= Owed(row.face, row.quoted)
           \/ ~Within(call[k].price, row.quoted)
           \/ row.quoted % 100 # 0 /\ row.quoted > 100 * Par
  PROVE  BidFormInv'
<1>1. /\ BidFormTypeOK /\ k \in 1..MaxCalls /\ k # NoCall /\ row # NoBid
      /\ row.status \in {"placed", "allotted"}
      /\ \A j \in 1..MaxCalls : bid[j].status \in {"placed", "allotted"} => bid[j] # NoBid
  BY BidFormFacts DEF BidFormInv, PlacedRows, AllottedRows, NoBid
<1>2. /\ bid' \in [1..MaxCalls -> {NoBid} \cup PlacedRows \cup AllottedRows]
      /\ bid'[k] = row /\ \A j \in 1..MaxCalls : j # k => bid'[j] = bid[j]
  BY <1>1 DEF BidFormTypeOK
<1>3. BidFormTypeOK'
  BY <1>1, <1>2 DEF BidFormTypeOK
<1>4. FormIsReviewed' /\ CallsInTurn'
  BY DEF BidFormInv, FormIsReviewed, CallsInTurn, PriceValid, Calls
<1>5. BidsAreOfCalls'
  BY <1>1, <1>2 DEF BidFormInv, BidsAreOfCalls, Calls
<1>6. Calls' = Calls /\ \A j \in Calls : j \in 1..MaxCalls
  BY <1>1, BidFormFacts DEF Calls
<1>7. AllotmentIsCovered'
  <2>1. ASSUME NEW j \in Calls, bid'[j].status = "allotted", bid'[j].quoted # NoPrice
        PROVE  \/ bid'[j].kept >= Owed(bid'[j].face, bid'[j].quoted)
               \/ ~Within(call[j].price, bid'[j].quoted)
               \/ bid'[j].quoted % 100 # 0 /\ bid'[j].quoted > 100 * Par
    <3>1. CASE j = k
      BY <1>2, <2>1, <3>1
    <3>2. CASE j # k
      BY <1>2, <1>6, <2>1, <3>2 DEF BidFormInv, AllotmentIsCovered
    <3> QED
      BY <3>1, <3>2
  <2> QED
    BY <1>6, <2>1 DEF AllotmentIsCovered
<1>8. FiguresStand'
  <2>1. ASSUME NEW j \in Calls
        PROVE  /\ call'[j].shown = FundsHold(call'[j].face, call'[j].price)
               /\ NoOther(j)' => call'[j].after = Balance - call'[j].shown
               /\ bid'[j].status = "placed" =>
                    /\ bid'[j].held = HoldMinor(call'[j].face, call'[j].price)
                    /\ bid'[j].kept = bid'[j].held /\ bid'[j].held = call'[j].shown
    <3>1. NoOther(j)' => NoOther(j)
      BY <1>1, <1>2 DEF NoOther
    <3>2. CASE j = k
      BY <1>1, <1>2, <3>1, <3>2 DEF BidFormInv, FiguresStand
    <3>3. CASE j # k
      BY <1>2, <1>6, <3>1, <3>3 DEF BidFormInv, FiguresStand
    <3> QED
      BY <3>2, <3>3
  <2>2. NoOther(NoCall)' => FALSE
    BY <1>1, <1>2 DEF NoOther
  <2>3. ASSUME form'.step = 3, bid'[form'.placed].status = "placed", NoOther(form.placed)'
        PROVE  available' = Balance - call'[form'.placed].shown
    <3>1. form.step = 3 /\ form.placed \in 1..MaxCalls /\ bid[form.placed] # NoBid
      BY <2>3 DEF BidFormInv, BidsAreOfCalls
    <3>2. form.placed = k
      BY <1>1, <1>2, <2>3 DEF NoOther
    <3>3. bid[form.placed] = NoBid
      BY <1>2, <2>3, <3>2
    <3> QED
      BY <3>1, <3>3
  <2>4. NoOther(form.placed)' <=> (\A l \in 1..MaxCalls : l # form'.placed => bid'[l] = NoBid)
    BY DEF NoOther
  <2> QED
    BY <1>6, <2>1, <2>2, <2>3, <2>4 DEF FiguresStand, NoOther
<1> QED
  BY <1>3, <1>4, <1>5, <1>7, <1>8 DEF BidFormInv

LEMMA PlaceHolds ==
  ASSUME BidFormInv, NEW k \in 1..MaxCalls, Place(k)
  PROVE  BidFormInv'
<1> DEFINE held == HoldMinor(call[k].face, call[k].price)
           row == [status |-> "placed", held |-> held, kept |-> held]
<1>1. /\ k \in Calls /\ bid[k] = NoBid /\ FaceValueOK(call[k].face) /\ held <= call[k].shown
      /\ bid' = [bid EXCEPT ![k] = row] /\ UNCHANGED <<form, available, call, open>>
  BY DEF Place
<1>2. /\ call[k].face \in Nat /\ call[k].price \in Nat \cup {NoPrice}
      /\ call[k].shown = FundsHold(call[k].face, call[k].price)
  BY <1>1, BidFormFacts DEF BidFormInv, FiguresStand
<1>3. held = call[k].shown /\ held \in Int
  <2>1. call[k].face % BidMultiple = 0
    BY <1>1 DEF FaceValueOK
  <2> QED
    BY <1>2, <2>1, ShownIsHeld, HoldIsInt
<1> HIDE DEF held
<1>4. /\ row \in PlacedRows /\ row.status = "placed" /\ row.kept = row.held /\ row.held = held
  BY <1>3 DEF PlacedRows
<1> HIDE DEF row
<1>5. row.held = HoldMinor(call[k].face, call[k].price) /\ row.held = call[k].shown
  BY <1>3, <1>4 DEF held
<1> QED
  BY <1>1, <1>4, <1>5, BidGoesOn

LEMMA AllotHolds ==
  ASSUME BidFormInv, NEW k \in 1..MaxCalls, NEW face \in Faces, NEW quoted \in Quotes,
         Allot(k, face, quoted)
  PROVE  BidFormInv'
<1> DEFINE new == NewHold(face, call[k].price, quoted)
           kept == Kept(bid[k].held, face, call[k].price, quoted)
           row == [status |-> "allotted", face |-> face, quoted |-> quoted, held |-> new, kept |-> kept]
<1>1. /\ bid[k].status = "placed" /\ face <= call[k].face
      /\ bid' = [bid EXCEPT ![k] = row] /\ UNCHANGED <<form, available, call, open>>
  BY DEF Allot
<1>2. /\ k \in Calls /\ call[k].face \in Nat /\ call[k].price \in Nat \cup {NoPrice}
      /\ bid[k].held = HoldMinor(call[k].face, call[k].price) /\ bid[k].held \in Int
      /\ NoPrice \notin Int /\ face \in Nat /\ quoted \in Nat \cup {NoPrice}
  <2>1. bid[k] # NoBid /\ k \in Calls
    BY <1>1, BidFormFacts DEF BidFormInv, BidsAreOfCalls
  <2>2. Faces \subseteq Nat /\ Quotes \subseteq Nat \cup {NoPrice}
    BY BidFormAssumption
  <2> QED
    BY <1>1, <2>1, <2>2, BidFormFacts DEF BidFormInv, FiguresStand
<1>3. kept = IF new < bid[k].held THEN new ELSE bid[k].held
  BY DEF Kept
<1>4. new \in Int
  <2>1. AllottedPrice(call[k].price, quoted) \in Nat \cup {NoPrice}
    <3>1. quoted \in Nat => quoted \div 100 \in Nat
      OBVIOUS
    <3> QED
      BY <1>2, <3>1 DEF AllottedPrice, Par
  <2> QED
    BY <1>2, <2>1, HoldIsInt DEF NewHold
<1>5. ASSUME quoted # NoPrice, Within(call[k].price, quoted),
             quoted % 100 = 0 \/ quoted <= 100 * Par
      PROVE  kept >= Owed(face, quoted)
  <2>1. quoted \in Nat
    BY <1>2, <1>5
  <2>2. Owed(face, quoted) <= new
    BY <1>2, <1>5, <2>1, LoweredHoldPays
  <2>3. Owed(face, quoted) <= bid[k].held
    BY <1>1, <1>2, <1>5, <2>1, WholeHoldPays
  <2>4. Owed(face, quoted) \in Int
    <3>1. Commission(face) \in Int /\ face * quoted \in Nat
      BY <1>2, <2>1, CommissionGrows
    <3>2. (face * quoted) \div 10000 \in Int
      BY <3>1
    <3> QED
      BY <3>1, <3>2 DEF Owed
  <2> HIDE DEF new, kept
  <2> QED
    BY <1>2, <1>3, <1>4, <2>2, <2>3, <2>4
<1> HIDE DEF new, kept
<1>6. kept \in Int
  BY <1>2, <1>3, <1>4
<1>7. /\ row \in AllottedRows /\ row.status = "allotted" /\ row.kept = kept /\ row.face = face
      /\ row.quoted = quoted
  BY <1>4, <1>6 DEF AllottedRows
<1> HIDE DEF row
<1>8. row.quoted # NoPrice =>
        \/ row.kept >= Owed(row.face, row.quoted)
        \/ ~Within(call[k].price, row.quoted)
        \/ row.quoted % 100 # 0 /\ row.quoted > 100 * Par
  <2>1. SUFFICES ASSUME quoted # NoPrice, ~(quoted % 100 # 0 /\ quoted > 100 * Par)
                 PROVE  quoted % 100 = 0 \/ quoted <= 100 * Par
    BY <1>5, <1>7
  <2>2. quoted \in Nat /\ 100 * Par \in Nat
    BY <1>2, <2>1 DEF Par
  <2> QED
    BY <2>1, <2>2
<1> QED
  BY <1>1, <1>2, <1>7, <1>8, BidGoesOn

LEMMA RereadHolds ==
  ASSUME BidFormInv, NEW k \in 1..MaxCalls, Reread(k)
  PROVE  BidFormInv'
<1>1. /\ BidFormTypeOK /\ k \in Calls /\ call[k].pc = "rereading" /\ bid[k] # NoBid
      /\ available' = Free /\ call' = [call EXCEPT ![k].pc = "done"] /\ UNCHANGED <<bid, open>>
      /\ form' = IF form.pending = k
                   THEN [form EXCEPT !.pending = NoCall, !.step = 3, !.placed = k] ELSE form
  BY DEF Reread, CallAt, BidFormInv, BidsAreOfCalls
<1>2. /\ form \in FormRows /\ MaxCalls \in Nat /\ Balance \in Nat
      /\ \A j \in 1..MaxCalls : bid[j] # NoBid => bid[j].held \in Int /\ bid[j].kept \in Int
      /\ k # NoCall /\ \A j \in Calls : j \in 1..MaxCalls
  BY <1>1, BidFormFacts
<1>3. CallGoesOn(k, "done")
  BY <1>1, CallGoesOnFacts
<1>4. /\ form' \in FormRows /\ form'.visit = form.visit /\ form'.face = form.face
      /\ form'.price = form.price
      /\ form.pending = k => form'.step = 3 /\ form'.placed = k /\ form'.pending = NoCall
      /\ form.pending # k => form' = form
  <2>1. CASE form.pending = k
    <3>1. form' = [form EXCEPT !.pending = 0, !.step = 3, !.placed = k] /\ k \in 0..MaxCalls
          /\ 0 \in 0..MaxCalls
      BY <1>1, <1>2, <2>1 DEF NoCall
    <3>2. 3 \in FormSteps
      BY DEF FormSteps
    <3>3. /\ form'.pending = 0 /\ form'.step = 3 /\ form'.placed = k /\ form'.visit = form.visit
          /\ form'.face = form.face /\ form'.price = form.price
      BY <1>2, <3>1 DEF FormRows
    <3>4. form' \in FormRows
      BY <1>2, <3>1, <3>2 DEF FormRows
    <3> QED
      BY <2>1, <3>3, <3>4 DEF NoCall
  <2>2. CASE form.pending # k
    BY <1>1, <1>2, <2>2
  <2> QED
    BY <2>1, <2>2
<1>5. available' \in Int
  <2>1. \A j \in 1..MaxCalls : KeptFor(j) \in Int
    BY <1>2 DEF KeptFor
  <2> QED
    BY <1>1, <2>1, FundsAreCounted
<1>6. BidFormTypeOK'
  BY <1>1, <1>3, <1>4, <1>5 DEF BidFormTypeOK, CallGoesOn
<1>7. FormIsReviewed'
  BY <1>1, <1>2, <1>4 DEF BidFormInv, FormIsReviewed, PriceValid
<1>8. CallsInTurn'
  BY <1>1, <1>3, <1>4 DEF BidFormInv, CallsInTurn, CallGoesOn
<1>9. BidsAreOfCalls'
  BY <1>1, <1>3, <1>4 DEF BidFormInv, BidsAreOfCalls, CallGoesOn
<1>10. AllotmentIsCovered'
  BY <1>1, <1>3 DEF BidFormInv, AllotmentIsCovered, CallGoesOn
<1>11. FiguresStand'
  <2>1. ASSUME NEW j \in Calls
        PROVE  /\ call'[j].shown = FundsHold(call'[j].face, call'[j].price)
               /\ (\A l \in 1..MaxCalls : l # j => bid'[l] = NoBid) =>
                    call'[j].after = Balance - call'[j].shown
               /\ bid'[j].status = "placed" =>
                    /\ bid'[j].held = HoldMinor(call'[j].face, call'[j].price)
                    /\ bid'[j].kept = bid'[j].held /\ bid'[j].held = call'[j].shown
    BY <1>1, <1>3 DEF BidFormInv, FiguresStand, NoOther, CallGoesOn
  <2>2. ~(\A l \in 1..MaxCalls : l # NoCall => bid'[l] = NoBid)
    BY <1>1, <1>2
  <2>3. ASSUME form'.step = 3, bid'[form'.placed].status = "placed",
               \A l \in 1..MaxCalls : l # form'.placed => bid'[l] = NoBid
        PROVE  available' = Balance - call'[form'.placed].shown
    <3>1. form'.placed = k /\ NoOther(k) /\ bid[k].status = "placed"
      BY <1>1, <2>3 DEF NoOther
    <3>2. KeptFor(k) = bid[k].kept /\ KeptFor(k) \in Int
      BY <1>1, <1>2 DEF KeptFor
    <3>3. bid[k].kept = call[k].shown
      BY <1>1, <3>1 DEF BidFormInv, FiguresStand
    <3>4. k \in 0..MaxCalls /\ k # 0
      BY <1>2
    <3>5. Free = Balance - KeptFor(k)
      BY <3>1, <3>2, <3>4, OneBidTakes
    <3> QED
      BY <1>1, <1>3, <3>1, <3>2, <3>3, <3>5 DEF CallGoesOn
  <2>4. Calls' = Calls
    BY <1>3 DEF CallGoesOn
  <2> QED
    BY <2>1, <2>2, <2>3, <2>4, Zenon DEF FiguresStand, NoOther
<1> QED
  BY <1>6, <1>7, <1>8, <1>9, <1>10, <1>11 DEF BidFormInv

LEMMA BidFormStutters ==
  ASSUME BidFormInv, UNCHANGED <<form, available, call, bid>>, open' \in BOOLEAN
  PROVE  BidFormInv'
BY DEF BidFormInv, BidFormTypeOK, FormIsReviewed, PriceValid, CallsInTurn, BidsAreOfCalls,
   FiguresStand, NoOther, AllotmentIsCovered, Calls

LEMMA BidFormInvStays == BidFormInv /\ [FormNext]_formVars => BidFormInv'
<1> SUFFICES ASSUME BidFormInv, [FormNext]_formVars PROVE BidFormInv'
  OBVIOUS
<1>1. CASE \E f \in Faces, p \in Prices : Type(f, p)
  BY <1>1, TypeHolds
<1>2. CASE Review \/ Back \/ Leave \/ Confirm
  BY <1>2, ReviewHolds, BackHolds, LeaveHolds, ConfirmHolds
<1>3. CASE Close \/ UNCHANGED formVars
  <2>1. UNCHANGED <<form, available, call, bid>> /\ open' \in BOOLEAN
    BY <1>3 DEF Close, formVars, BidFormInv, BidFormTypeOK
  <2> QED
    BY <2>1, BidFormStutters
<1>4. CASE \E k \in 1..MaxCalls : \/ CallFails(k) \/ Approved(k) \/ Place(k) \/ PlaceAnswered(k)
                                  \/ Reread(k) \/ \E f \in Faces, quote \in Quotes : Allot(k, f, quote)
  BY <1>4, CallFailsHolds, AnsweredHolds, PlaceHolds, RereadHolds, AllotHolds
<1> QED
  BY <1>1, <1>2, <1>3, <1>4 DEF FormNext

LEMMA BidFormInvTells == BidFormInv => MoneyIsAsShown /\ SecondBidOnlyInDoubt
<1> SUFFICES ASSUME BidFormInv PROVE MoneyIsAsShown /\ SecondBidOnlyInDoubt
  OBVIOUS
<1>1. PreviewIsHeld
  <2>1. ASSUME form.step = 3
        PROVE  /\ form.placed \in 1..MaxCalls /\ bid[form.placed] # NoBid /\ form.placed \in Calls
    BY <2>1 DEF BidFormInv, BidsAreOfCalls
  <2>2. ASSUME form.step = 3, bid[form.placed].status = "placed",
               \A k \in Calls \ {form.placed} : bid[k] = NoBid
        PROVE  available = call[form.placed].after
    <3>1. NoOther(form.placed)
      BY <2>2 DEF BidFormInv, BidsAreOfCalls, NoOther
    <3> QED
      BY <2>1, <2>2, <3>1 DEF BidFormInv, FiguresStand
  <2>3. \A k \in Calls : bid[k].status = "placed" => bid[k].held = call[k].shown
    BY DEF BidFormInv, FiguresStand
  <2> QED
    BY <2>1, <2>2, <2>3 DEF PreviewIsHeld
<1>2. SecondBidOnlyInDoubt
  BY DEF BidFormInv, CallsInTurn, SecondBidOnlyInDoubt
<1> QED
  BY <1>1, <1>2 DEF BidFormInv, MoneyIsAsShown

\* The figure the investor approves with a PIN (fundsHold of bid-math.ts) is what the
\* auction service holds (holdMinor of bid-rules.ts), the receipt tells what is left, and
\* what results.service keeps of the hold pays for an allotment: for any face value,
\* price, commission and quote, and any number of calls.
THEOREM MoneyIsAsShownAlways == FormSpec => []MoneyIsAsShown
BY BidFormInitHolds, BidFormInvStays, BidFormInvTells, PTL DEF FormSpec

\* A form makes a second bid only where the call of the first had failed for the portal
\* (confirm of PlaceBidView, with its button disabled while useAsync waits).
THEOREM SecondBidOnlyInDoubtAlways == FormSpec => []SecondBidOnlyInDoubt
BY BidFormInitHolds, BidFormInvStays, BidFormInvTells, PTL DEF FormSpec

----------------------------------------------------------------------------
(* The tables of the portal.                                                *)

\* The pages of a list: there is one where there is a row, and the last has one.
LEMMA PagesOfList ==
  ASSUME NEW n \in Nat
  PROVE  /\ LastPage(n) \in Nat /\ (n > 0 => LastPage(n) >= 1)
         /\ \A k \in Nat \ {0} : k <= LastPage(n) => (k - 1) * PageSize \in Nat /\ n > (k - 1) * PageSize
<1> DEFINE x == n + PageSize - 1
           d == x \div PageSize
           r == x % PageSize
<1>1. PageSize \in Nat \ {0}
  BY TableAssumption
<1>2. x \in Nat /\ d \in Int /\ r \in Int /\ x = (PageSize * d) + r /\ 0 <= r /\ r < PageSize
  BY <1>1
<1>3. LastPage(n) = d
  BY DEF LastPage
<1>4. x = n + PageSize - 1
  OBVIOUS
<1> HIDE DEF x, d, r
<1>5. ASSUME NEW k \in Int, k <= d PROVE PageSize * k <= PageSize * d
  <2>1. d - k \in Nat
    BY <1>2, <1>5
  <2>2. PageSize * (d - k) \in Nat
    BY <1>1, <2>1
  <2>3. PageSize * d = PageSize * k + PageSize * (d - k) /\ PageSize * k \in Int
    BY <1>1, <1>2
  <2> QED
    BY <2>2, <2>3
<1>6. d \in Nat
  <2>1. SUFFICES ASSUME d <= 0 - 1 PROVE FALSE
    BY <1>2
  <2>2. PageSize * (0 - 1 - d) \in Nat
    <3>1. 0 - 1 - d \in Nat
      BY <1>2, <2>1
    <3> QED
      BY <1>1, <3>1
  <2>3. PageSize * (0 - 1 - d) = 0 - PageSize - PageSize * d /\ PageSize * d \in Int
    BY <1>1, <1>2
  <2> QED
    BY <1>1, <1>2, <2>2, <2>3
<1>7. n > 0 => d >= 1
  <2>1. SUFFICES ASSUME n > 0, d = 0 PROVE FALSE
    BY <1>6
  <2>2. PageSize * d = 0
    BY <1>1, <2>1
  <2> QED
    BY <1>1, <1>2, <1>4, <2>1, <2>2
<1>8. ASSUME NEW k \in Nat \ {0}, k <= d
      PROVE  (k - 1) * PageSize \in Nat /\ n > (k - 1) * PageSize
  <2>1. k - 1 \in Nat
    BY <1>8
  <2>2. (k - 1) * PageSize \in Nat
    BY <1>1, <2>1
  <2>3. PageSize * k = (k - 1) * PageSize + PageSize
    BY <1>1, <1>8
  <2>4. PageSize * k <= PageSize * d
    BY <1>5, <1>8
  <2>5. PageSize * d \in Int
    BY <1>1, <1>6
  <2> QED
    BY <1>1, <1>2, <1>4, <2>2, <2>3, <2>4, <2>5
<1> QED
  BY <1>3, <1>6, <1>7, <1>8

LEMMA RowsAreCounted ==
  ASSUME NEW p \in Nat \ {0}, NEW n \in Nat
  PROVE  RowsOn(p, n) \in Nat /\ (n > (p - 1) * PageSize => RowsOn(p, n) > 0)
<1>1. PageSize \in Nat \ {0} /\ (p - 1) * PageSize \in Int
  BY TableAssumption
<1> QED
  BY <1>1 DEF RowsOn, Least

LEMMA QuestionFacts ==
  ASSUME NEW p \in Nat \ {0}, NEW s \in Searches
  PROVE  /\ Question(p, s) \in Questions /\ Question(p, s) # NoQuestion
         /\ Question(p, s).page = p /\ Question(p, s).q = s
<1>1. Question(p, s) \in Questions
  BY DEF Question, Questions
<1>2. \A a \in Questions : a # NoQuestion
  BY DEF Questions, NoQuestion
<1> QED
  BY <1>1, <1>2 DEF Question

LEMMA TableFacts ==
  ASSUME TableTypeOK
  PROVE  /\ MaxAsked \in Nat \ {0} /\ latest \in 1..MaxAsked /\ latest \in Nat /\ page \in Nat \ {0}
         /\ \A i \in 1..MaxAsked : asked[i] # NoQuestion =>
              /\ asked[i] \in Questions /\ asked[i].page \in Nat \ {0} /\ asked[i].q \in Searches
              /\ asked[i].rows \in Nat /\ asked[i].total \in Nat
<1>1. \A i \in 1..MaxAsked : asked[i] # NoQuestion => asked[i] \in Questions
  BY DEF TableTypeOK
<1>2. \A x \in Questions : x.page \in Nat \ {0} /\ x.q \in Searches /\ x.rows \in Nat /\ x.total \in Nat
  BY DEF Questions
<1>3. MaxAsked \in Nat \ {0} /\ latest \in 1..MaxAsked /\ page \in Nat \ {0}
  BY TableAssumption DEF TableTypeOK
<1> QED
  BY <1>1, <1>2, <1>3

LEMMA TableInitHolds == TableInit => TableInv
<1> SUFFICES ASSUME TableInit PROVE TableInv
  OBVIOUS
<1>1. /\ page = 1 /\ q \in Searches /\ typed = q /\ error = FALSE /\ latest = 1
      /\ MaxRows \in Nat /\ MaxAsked \in Nat \ {0} /\ 1 \in 1..MaxAsked
  BY TableAssumption DEF TableInit
<1>2. Question(1, q) \in Questions /\ Question(1, q) # NoQuestion
      /\ Question(1, q).page = 1 /\ Question(1, q).q = q
  BY <1>1, QuestionFacts
<1>3. asked \in [1..MaxAsked -> {NoQuestion} \cup Questions] /\ asked[1] = Question(1, q)
  BY <1>1, <1>2 DEF TableInit
<1>4. list \in [Searches -> Nat]
  <2>1. list \in [Searches -> 0..MaxRows] /\ 0..MaxRows \subseteq Nat
    BY <1>1 DEF TableInit
  <2> QED
    BY <2>1
<1>5. shown \in [page : Nat, q : Searches, rows : Nat, total : Nat]
      /\ local \in [found : [Searches -> Nat], page : Nat \ {0}, q : Searches] /\ local.page = 1
  BY <1>1 DEF TableInit
<1> QED
  BY <1>1, <1>2, <1>3, <1>4, <1>5 DEF TableInv, TableTypeOK, LatestIsOfPage, QueueOnPage

\* A new question is about the screen.
LEMMA LoadHolds ==
  ASSUME TableInv, NEW p \in Nat \ {0}, NEW s \in Searches, Load(p, s), UNCHANGED <<list, typed, shown, local>>
  PROVE  TableInv'
<1>1. /\ TableTypeOK /\ latest < MaxAsked /\ latest' = latest + 1
      /\ asked' = [asked EXCEPT ![latest + 1] = Question(p, s)]
      /\ page' = p /\ q' = s /\ error' = FALSE
  BY DEF Load, TableInv
<1>2. latest + 1 \in 1..MaxAsked
  BY <1>1, TableFacts
<1>3. /\ asked' \in [1..MaxAsked -> {NoQuestion} \cup Questions]
      /\ asked'[latest'] = Question(p, s)
  BY <1>1, <1>2, QuestionFacts DEF TableTypeOK
<1>4. TableTypeOK'
  BY <1>1, <1>2, <1>3 DEF TableTypeOK
<1>5. LatestIsOfPage'
  <2>1. /\ asked'[latest'] # NoQuestion /\ asked'[latest'].page = page' /\ asked'[latest'].q = q'
    BY <1>1, <1>3, QuestionFacts
  <2> QED
    BY <2>1 DEF LatestIsOfPage
<1> QED
  BY <1>4, <1>5 DEF TableInv, QueueOnPage

\* What is read for a question leaves it the question it was.
LEMMA ReadHolds ==
  ASSUME TableInv, NEW i \in 1..MaxAsked, NEW row \in Questions, asked[i] # NoQuestion,
         row.page = asked[i].page, row.q = asked[i].q,
         asked' = [asked EXCEPT ![i] = row],
         UNCHANGED <<list, page, q, typed, shown, latest, error, local>>
  PROVE  TableInv'
<1>1. TableTypeOK /\ row # NoQuestion /\ latest \in 1..MaxAsked
  <2>1. \A a \in Questions : a # NoQuestion
    BY DEF Questions, NoQuestion
  <2> QED
    BY <2>1 DEF TableInv, TableTypeOK
<1>2. /\ asked' \in [1..MaxAsked -> {NoQuestion} \cup Questions]
      /\ asked'[i] = row /\ \A j \in 1..MaxAsked : j # i => asked'[j] = asked[j]
  BY <1>1 DEF TableTypeOK
<1>3. TableTypeOK'
  BY <1>1, <1>2 DEF TableTypeOK
<1>4. LatestIsOfPage'
  <2>1. CASE latest = i
    BY <1>1, <1>2, <2>1 DEF TableInv, LatestIsOfPage
  <2>2. CASE latest # i
    BY <1>1, <1>2, <2>2 DEF TableInv, LatestIsOfPage
  <2> QED
    BY <2>1, <2>2
<1> QED
  BY <1>3, <1>4 DEF TableInv, QueueOnPage

LEMMA ReadRowsHolds ==
  ASSUME TableInv, NEW i \in 1..MaxAsked, ReadRows(i), UNCHANGED local
  PROVE  TableInv'
<1> DEFINE n == RowsOn(asked[i].page, list[asked[i].q])
           row == [asked[i] EXCEPT !.read = @ \cup {"rows"}, !.rows = n]
<1>1. /\ asked[i] # NoQuestion /\ TableTypeOK
      /\ UNCHANGED <<list, page, q, typed, shown, latest, error, local>>
  BY DEF ReadRows, Unread, TableInv
<1>2. /\ asked[i] \in Questions /\ asked[i].page \in Nat \ {0} /\ list[asked[i].q] \in Nat
  BY <1>1, TableFacts DEF TableTypeOK
<1>3. n \in Nat
  BY <1>2, RowsAreCounted
<1>4. asked' = [asked EXCEPT ![i] = row]
  BY <1>1, <1>2 DEF ReadRows, TableTypeOK, Questions
<1> HIDE DEF n
<1>5. row \in Questions /\ row.page = asked[i].page /\ row.q = asked[i].q
  BY <1>2, <1>3 DEF Questions
<1> HIDE DEF row
<1> QED
  BY <1>1, <1>4, <1>5, ReadHolds

LEMMA CountHolds ==
  ASSUME TableInv, NEW i \in 1..MaxAsked, Count(i), UNCHANGED local
  PROVE  TableInv'
<1> DEFINE n == list[asked[i].q]
           row == [asked[i] EXCEPT !.read = @ \cup {"total"}, !.total = n]
<1>1. /\ asked[i] # NoQuestion /\ TableTypeOK
      /\ UNCHANGED <<list, page, q, typed, shown, latest, error, local>>
  BY DEF Count, Unread, TableInv
<1>2. /\ asked[i] \in Questions /\ n \in Nat
  BY <1>1, TableFacts DEF TableTypeOK
<1>3. asked' = [asked EXCEPT ![i] = row]
  BY <1>1, <1>2 DEF Count, TableTypeOK, Questions
<1> HIDE DEF n
<1>4. row \in Questions /\ row.page = asked[i].page /\ row.q = asked[i].q
  BY <1>2 DEF Questions
<1> HIDE DEF row
<1> QED
  BY <1>1, <1>3, <1>4, ReadHolds

LEMMA ShowAnswerHolds ==
  ASSUME TableInv, NEW i \in 1..MaxAsked, ShowAnswer(i), UNCHANGED local
  PROVE  TableInv'
<1> DEFINE a == asked[i]
<1>1. /\ i = latest /\ a # NoQuestion /\ UNCHANGED <<list, typed, local>> /\ TableTypeOK
      /\ shown' = [page |-> a.page, q |-> a.q, rows |-> a.rows, total |-> a.total]
      /\ a.page = page /\ a.q = q
  BY DEF ShowAnswer, Show, AnswerReady, TableInv, LatestIsOfPage
<1>2. /\ a \in Questions /\ a.page \in Nat \ {0} /\ a.q \in Searches /\ a.rows \in Nat /\ a.total \in Nat
      /\ page \in Nat \ {0} /\ latest \in Nat /\ q \in Searches
  BY <1>1, TableFacts DEF TableTypeOK
<1>3. Finished(i) \in [1..MaxAsked -> {NoQuestion} \cup Questions] /\ Finished(i)[i] = NoQuestion
  BY <1>1 DEF Finished, TableTypeOK
<1>4. shown' \in [page : Nat, q : Searches, rows : Nat, total : Nat]
  BY <1>1, <1>2
<1>5. CASE Correction(a) = page
  <2>1. asked' = Finished(i) /\ UNCHANGED <<page, q, latest, error>>
    BY <1>5 DEF ShowAnswer, Show
  <2>2. TableTypeOK'
    BY <1>1, <1>3, <1>4, <2>1 DEF TableTypeOK
  <2>3. a.rows = 0 /\ page > 1 => a.total = 0 \/ a.total > (page - 1) * PageSize
    <3>1. ASSUME a.rows = 0, page > 1, a.total > 0 PROVE page <= LastPage(a.total)
      BY <1>2, <1>5, <3>1 DEF Correction
    <3> QED
      BY <1>2, <3>1, PagesOfList
  <2>4. LatestIsOfPage'
    BY <1>1, <1>3, <2>1, <2>3 DEF LatestIsOfPage
  <2> QED
    BY <1>1, <2>2, <2>4 DEF TableInv, QueueOnPage
<1>6. CASE Correction(a) # page
  <2>1. /\ latest < MaxAsked /\ latest' = latest + 1 /\ page' = Correction(a) /\ error' = FALSE
        /\ asked' = [Finished(i) EXCEPT ![latest + 1] = Question(Correction(a), q)] /\ q' = q
    BY <1>6 DEF ShowAnswer, Show
  <2>2. Correction(a) \in Nat \ {0}
    BY <1>2, PagesOfList DEF Correction
  <2>3. latest + 1 \in 1..MaxAsked
    BY <1>1, <2>1, TableFacts
  <2>4. /\ asked' \in [1..MaxAsked -> {NoQuestion} \cup Questions]
        /\ asked'[latest'] = Question(Correction(a), q)
    BY <1>2, <1>3, <2>1, <2>2, <2>3, QuestionFacts
  <2>5. TableTypeOK'
    BY <1>1, <1>4, <2>1, <2>2, <2>3, <2>4 DEF TableTypeOK
  <2>6. LatestIsOfPage'
    BY <1>2, <2>1, <2>2, <2>4, QuestionFacts DEF LatestIsOfPage
  <2> QED
    BY <1>1, <2>5, <2>6 DEF TableInv, QueueOnPage
<1> QED
  BY <1>5, <1>6

LEMMA QuestionEndsHolds ==
  ASSUME TableInv, NEW i \in 1..MaxAsked, Drop(i) \/ QuestionFails(i), UNCHANGED local
  PROVE  TableInv'
<1>1. /\ asked' = Finished(i) /\ UNCHANGED <<list, page, q, typed, shown, latest, local>> /\ TableTypeOK
      /\ error' \in BOOLEAN /\ (i = latest => error' = TRUE) /\ (error = TRUE => error' = TRUE)
  BY DEF Drop, QuestionFails, TableInv, TableTypeOK
<1>2. /\ asked' \in [1..MaxAsked -> {NoQuestion} \cup Questions] /\ latest \in 1..MaxAsked
      /\ asked'[i] = NoQuestion /\ \A j \in 1..MaxAsked : j # i => asked'[j] = asked[j]
  BY <1>1 DEF Finished, TableTypeOK
<1>3. TableTypeOK'
  BY <1>1, <1>2 DEF TableTypeOK
<1>4. LatestIsOfPage'
  <2>1. CASE latest = i
    BY <1>1, <1>2, <2>1 DEF LatestIsOfPage
  <2>2. CASE latest # i
    <3>1. asked'[latest'] = asked[latest]
      BY <1>1, <1>2, <2>2
    <3> QED
      BY <1>1, <3>1 DEF TableInv, TableTypeOK, LatestIsOfPage
  <2> QED
    BY <2>1, <2>2
<1> QED
  BY <1>1, <1>3, <1>4 DEF TableInv, QueueOnPage

LEMMA FetchedHolds ==
  ASSUME TableInv, FetchedNext, UNCHANGED local
  PROVE  TableInv'
<1>1. TableTypeOK
  BY DEF TableInv
<1>2. CASE Search
  BY <1>1, <1>2, LoadHolds DEF Search, TableTypeOK
<1>3. CASE Refetch
  BY <1>1, <1>3, LoadHolds DEF Refetch, TableTypeOK
<1>4. ASSUME NEW s \in Searches, TypeSearch(s) \/ (\E n \in 0..MaxRows : Change(s, n))
      PROVE  TableInv'
  <2>1. UNCHANGED <<page, q, shown, latest, asked, error, local>>
        /\ typed' \in Searches /\ list' \in [Searches -> Nat]
    <3>1. CASE TypeSearch(s)
      BY <1>1, <3>1 DEF TypeSearch, TableTypeOK
    <3>2. ASSUME NEW n \in 0..MaxRows, Change(s, n)
          PROVE  UNCHANGED <<page, q, shown, latest, asked, error, local>>
                 /\ typed' \in Searches /\ list' \in [Searches -> Nat]
      BY <1>1, <3>2 DEF Change, TableTypeOK
    <3> QED
      BY <1>4, <3>1, <3>2
  <2> QED
    BY <2>1 DEF TableInv, TableTypeOK, LatestIsOfPage, QueueOnPage
<1>5. ASSUME NEW p \in Pages, Turn(p) PROVE TableInv'
  <2>1. p \in Nat \ {0}
    BY TableAssumption DEF Pages
  <2> QED
    BY <1>1, <1>5, <2>1, LoadHolds DEF Turn, TableTypeOK
<1>6. ASSUME NEW i \in 1..MaxAsked,
             ReadRows(i) \/ Count(i) \/ ShowAnswer(i) \/ Drop(i) \/ QuestionFails(i)
      PROVE  TableInv'
  BY <1>6, ReadRowsHolds, CountHolds, ShowAnswerHolds, QuestionEndsHolds
<1> QED
  BY <1>2, <1>3, <1>4, <1>5, <1>6 DEF FetchedNext

\* The table of a queue stays on a page of it.
LEMMA LocalHolds ==
  ASSUME TableInv, LocalNext, UNCHANGED fetchedVars
  PROVE  TableInv'
<1> DEFINE Locals == [found : [Searches -> Nat], page : Nat \ {0}, q : Searches]
<1>1. local \in Locals /\ UNCHANGED <<list, page, q, typed, shown, latest, asked, error>>
  BY DEF TableInv, TableTypeOK, fetchedVars
<1>2. SUFFICES local' \in Locals /\ QueueOnPage'
  BY <1>1 DEF TableInv, TableTypeOK, LatestIsOfPage
<1>3. ASSUME NEW found \in [Searches -> 0..MaxRows], QueueChanges(found)
      PROVE  local' \in Locals /\ QueueOnPage'
  <2>1. 0..MaxRows \subseteq Nat
    BY TableAssumption
  <2>2. found \in [Searches -> Nat] /\ found[local.q] \in Nat
    BY <1>1, <2>1
  <2> DEFINE p == Clamped(local.page, found[local.q])
  <2>3. p \in Nat \ {0} /\ (p = 1 \/ p <= LastPage(found[local.q]))
    BY <1>1, <2>2, PagesOfList DEF Clamped, Least
  <2>4. local' = [local EXCEPT !.found = found, !.page = p]
    BY <1>3 DEF QueueChanges
  <2> HIDE DEF p
  <2>5. local' \in Locals /\ local'.found = found /\ local'.page = p /\ local'.q = local.q
    BY <1>1, <2>2, <2>3, <2>4
  <2> QED
    BY <2>3, <2>5 DEF QueueOnPage
<1>4. ASSUME NEW sq \in Searches, LocalSearch(sq)
      PROVE  local' \in Locals /\ QueueOnPage'
  <2>1. PICK p \in Nat \ {0} : p = 1
    OBVIOUS
  <2>2. local' = [local EXCEPT !.q = sq, !.page = p]
    BY <1>4, <2>1 DEF LocalSearch
  <2>3. local' \in Locals /\ local'.page = p
    BY <1>1, <2>2
  <2> QED
    BY <2>1, <2>3 DEF QueueOnPage
<1>5. ASSUME NEW p \in Pages, LocalTurn(p)
      PROVE  local' \in Locals /\ QueueOnPage'
  <2>1. local' = [local EXCEPT !.page = p] /\ p <= LastPage(local.found[local.q]) /\ p \in Nat \ {0}
    BY <1>5, TableAssumption DEF LocalTurn, Pages
  <2>2. local' \in Locals /\ local'.page = p /\ local'.found = local.found /\ local'.q = local.q
    BY <1>1, <2>1
  <2> QED
    BY <2>1, <2>2 DEF QueueOnPage
<1> QED
  BY <1>3, <1>4, <1>5 DEF LocalNext

LEMMA TableInvStays == TableInv /\ [TableNext]_tableVars => TableInv'
<1> SUFFICES ASSUME TableInv, [TableNext]_tableVars PROVE TableInv'
  OBVIOUS
<1>1. CASE UNCHANGED tableVars
  BY <1>1 DEF tableVars, TableInv, TableTypeOK, LatestIsOfPage, QueueOnPage
<1> QED
  BY <1>1, FetchedHolds, LocalHolds DEF TableNext

LEMMA TableInvTells == TableInv => TablesAreTrue
<1> SUFFICES ASSUME TableInv PROVE TablesAreTrue
  OBVIOUS
<1>1. RowsAreOfPage
  BY DEF TableInv, LatestIsOfPage, RowsAreOfPage, Waiting
<1>2. QueueShowsRows
  <2> DEFINE n == local.found[local.q]
             p == local.page
  <2>1. n \in Nat /\ p \in Nat \ {0} /\ (p = 1 \/ p <= LastPage(n))
    BY DEF TableInv, TableTypeOK, QueueOnPage
  <2> HIDE DEF n, p
  <2>2. n > 0 => p <= LastPage(n)
    BY <2>1, PagesOfList
  <2>3. n > 0 => RowsOn(p, n) > 0
    BY <2>1, <2>2, PagesOfList, RowsAreCounted
  <2> QED
    BY <2>3 DEF QueueShowsRows, n, p
<1> QED
  BY <1>1, <1>2 DEF TablesAreTrue

\* A table that waits for nothing and shows no error shows the rows of its page and its
\* search (useTable drops what answers an older question), on no empty page; and the table
\* of a queue (useLocalTable) shows rows where there are any: for any size of page, any
\* number of rows and of questions.
THEOREM TablesAreTrueAlways == TableSpec => []TablesAreTrue
BY TableInitHolds, TableInvStays, TableInvTells, PTL DEF TableSpec


----------------------------------------------------------------------------
(* The screens of registration and PIN reset.                               *)

\* What a request is, by what it asks for.
LEMMA Kinds ==
  ASSUME NEW r \in {NoReq} \cup Requests \cup Answers
  PROVE  /\ r \in Requests <=> r.what \in Whats
         /\ r \in Answers <=> r.what \in {"answer", "load"}
         /\ r = NoReq <=> r.what = "none"
<1>1. CASE r = NoReq
  BY <1>1 DEF NoReq, Requests, Answers, Whats
<1>2. CASE r \in Requests
  BY <1>2 DEF NoReq, Requests, Answers, Whats
<1>3. CASE r \in Answers
  BY <1>3 DEF NoReq, Requests, Answers, Whats
<1> QED
  BY <1>1, <1>2, <1>3

LEMMA NoReqFacts ==
  /\ NoReq.what = "none" /\ NoReq \notin Requests /\ NoReq \notin Answers
BY DEF NoReq, Requests, Answers, Whats

\* The tables that others write may only move on.
CodesGoOn ==
  /\ codes' \in Seq(Codes)
  /\ \A i \in DOMAIN codes :
       /\ i \in DOMAIN codes' /\ codes'[i].to = codes[i].to /\ codes'[i].for = codes[i].for
       /\ codes[i].used => codes'[i].used

AcctGoesOn ==
  /\ acct' \in [Phones -> [is : {"missing", "bare", "pinned"}, by : Nat]]
  /\ \A n \in Phones : HasPin(n) =>
       /\ acct'[n].is = "pinned"
       /\ acct'[n].by >= acct[n].by \/ acct'[n].by >= asks
            \/ \E r \in Pending : r.what = "proved" /\ r.phone = n /\ acct'[n].by = r.id

LEMMA CodeEntry ==
  ASSUME codes \in Seq(Codes), NEW i \in DOMAIN codes
  PROVE  codes[i] \in Codes /\ codes[i].to \in Phones /\ codes[i].for \in {"registration", "reset"}
         /\ codes[i].used \in BOOLEAN
<1>1. codes[i] \in Codes
  OBVIOUS
<1> QED
  BY <1>1 DEF Codes

LEMMA SpentFacts ==
  ASSUME EnrolTypeOK, CodesStand, NEW i \in DOMAIN codes, Spent(i), acct' = acct \/ AcctGoesOn
  PROVE  CodesGoOn /\ codes'[i].used /\ CodesStand'
<1>1. codes \in Seq(Codes) /\ codes' = [codes EXCEPT ![i].used = TRUE]
  BY DEF EnrolTypeOK, Spent
<1>2. \A j \in DOMAIN codes : codes[j] \in Codes
  BY <1>1
<1>3. [codes[i] EXCEPT !.used = TRUE] \in Codes
  BY <1>2 DEF Codes
<1>4. /\ DOMAIN codes' = DOMAIN codes /\ codes'[i] = [codes[i] EXCEPT !.used = TRUE]
      /\ \A j \in DOMAIN codes : j # i => codes'[j] = codes[j]
  BY <1>1
<1>5. codes' \in Seq(Codes)
  <2>1. codes \in [1..Len(codes) -> Codes] /\ Len(codes) \in Nat
    BY <1>1
  <2>2. codes' \in [1..Len(codes) -> Codes]
    BY <1>1, <1>3, <2>1
  <2> QED
    BY <2>1, <2>2
<1>6. /\ \A j \in DOMAIN codes' : codes'[j].to = codes[j].to /\ codes'[j].for = codes[j].for
      /\ \A j \in DOMAIN codes' : codes[j].used => codes'[j].used
      /\ codes'[i].used
  BY <1>2, <1>4 DEF Codes
<1>7. CodesStand'
  <2>1. \A j \in DOMAIN codes' : codes'[j].for = "reset" => acct'[codes'[j].to].is = "pinned"
    <3>1. ASSUME NEW j \in DOMAIN codes, codes[j].for = "reset" PROVE acct[codes[j].to].is = "pinned"
      BY <3>1 DEF CodesStand, HasPin
    <3>2. \A j \in DOMAIN codes : codes[j].to \in Phones
      BY <1>2 DEF Codes
    <3> QED
      BY <1>4, <1>6, <3>1, <3>2 DEF AcctGoesOn, HasPin
  <2>2. \A j, k \in DOMAIN codes' :
          codes'[j].to = codes'[k].to /\ codes'[j].for = codes'[k].for /\ ~codes'[j].used /\ ~codes'[k].used => j = k
    BY <1>4, <1>6 DEF CodesStand, Unused
  <2> QED
    BY <2>1, <2>2 DEF CodesStand, HasPin, Unused
<1> QED
  BY <1>4, <1>5, <1>6, <1>7 DEF CodesGoOn

LEMMA SentFacts ==
  ASSUME EnrolTypeOK, CodesStand, NEW n \in Phones, NEW for \in {"registration", "reset"}, Sent(n, for),
         for = "reset" => HasPin(n), acct' = acct
  PROVE  CodesGoOn /\ CodesStand'
<1> DEFINE kept == [i \in DOMAIN codes |-> IF codes[i].to = n /\ codes[i].for = for
                                             THEN [codes[i] EXCEPT !.used = TRUE] ELSE codes[i]]
           new == [to |-> n, for |-> for, used |-> FALSE]
<1>1. codes \in Seq(Codes) /\ codes' = Append(kept, new) /\ new \in Codes /\ ~new.used
  BY DEF EnrolTypeOK, Sent, Codes
<1>2. /\ \A i \in DOMAIN codes : codes[i] \in Codes
      /\ DOMAIN codes = 1..Len(codes) /\ Len(codes) \in Nat
  BY <1>1
<1>3. /\ \A i \in DOMAIN codes : kept[i] \in Codes
      /\ \A i \in DOMAIN codes : kept[i].to = codes[i].to /\ kept[i].for = codes[i].for
      /\ \A i \in DOMAIN codes : codes[i].used => kept[i].used
      /\ \A i \in DOMAIN codes : kept[i].to = n /\ kept[i].for = for => kept[i].used
      /\ \A i \in DOMAIN codes : ~kept[i].used => ~codes[i].used
  BY <1>2 DEF Codes
<1>4. kept \in Seq(Codes) /\ Len(kept) = Len(codes)
  <2>1. kept \in [1..Len(codes) -> Codes]
    BY <1>2, <1>3
  <2> QED
    BY <1>2, <2>1
<1> HIDE DEF kept
<1>5. /\ codes' \in Seq(Codes) /\ DOMAIN codes' = 1..Len(codes) + 1
      /\ codes'[Len(codes) + 1] = new
      /\ \A i \in DOMAIN codes : codes'[i] = kept[i] /\ i \in DOMAIN codes'
  BY <1>1, <1>2, <1>4
<1>6. \A i \in DOMAIN codes' : i \in DOMAIN codes \/ i = Len(codes) + 1
  BY <1>2, <1>5
<1>7. new.to = n /\ new.for = for
  OBVIOUS
<1> HIDE DEF new
<1>8. CodesStand'
  <2>1. \A i \in DOMAIN codes' : codes'[i].for = "reset" => acct[codes'[i].to].is = "pinned"
    BY <1>3, <1>5, <1>6, <1>7 DEF CodesStand, HasPin
  <2>2. \A i, j \in DOMAIN codes' :
          codes'[i].to = codes'[j].to /\ codes'[i].for = codes'[j].for /\ ~codes'[i].used /\ ~codes'[j].used => i = j
    <3>1. \A i, j \in DOMAIN codes :
            kept[i].to = kept[j].to /\ kept[i].for = kept[j].for /\ ~kept[i].used /\ ~kept[j].used => i = j
      BY <1>3 DEF CodesStand, Unused
    <3> QED
      BY <1>3, <1>5, <1>6, <1>7, <3>1
  <2> QED
    BY <2>1, <2>2 DEF CodesStand, HasPin, Unused
<1> QED
  BY <1>3, <1>5, <1>8 DEF CodesGoOn

LEMMA CodesRest ==
  ASSUME EnrolTypeOK, CodesStand, codes' = codes, acct' = acct \/ AcctGoesOn
  PROVE  CodesGoOn /\ CodesStand'
<1>1. CodesGoOn
  BY DEF CodesGoOn, EnrolTypeOK
<1>2. ASSUME NEW i \in DOMAIN codes, codes[i].for = "reset" PROVE acct'[codes[i].to].is = "pinned"
  <2>1. codes[i].to \in Phones /\ HasPin(codes[i].to)
    BY <1>2, CodeEntry DEF CodesStand, EnrolTypeOK
  <2> QED
    BY <2>1 DEF AcctGoesOn, HasPin
<1>3. CodesStand'
  BY <1>2 DEF CodesStand, HasPin, Unused
<1> QED
  BY <1>1, <1>3

LEMMA AcctRests ==
  ASSUME EnrolTypeOK, acct' = acct
  PROVE  AcctGoesOn
<1>1. \A n \in Phones : acct[n].by \in Nat
  BY DEF EnrolTypeOK
<1> QED
  BY <1>1 DEF AcctGoesOn, EnrolTypeOK, HasPin

----------------------------------------------------------------------------
\* Requests, and what was written for them.

\* An answer is of a request that was pending, or an answer already.
LEMMA WritesGoOn ==
  ASSUME EnrolInv, CodesGoOn, AcctGoesOn, asks' \in Nat, asks' >= asks,
         marred.crossed => marred'.crossed, gone' # {} => marred'.lost,
         \A o \in Pending' :
           \/ o \in Pending
           \/ /\ o.id = asks + 1 /\ asks' = asks + 1 /\ o.what # "proved"
              /\ o.what \in {"verify", "reset"} => o.code \in DOMAIN codes'
              /\ o.what = "reset" => codes'[o.code].to = o.phone /\ codes'[o.code].for = "reset",
         \A x \in Answered' : \E y \in Pending \cup Answered : y.id = x.id,
         \A x \in Written' : (\E y \in Written : y.phone = x.phone /\ y.id = x.id)
                             \/ (x.phone \in Phones /\ x.id \in Nat /\ Lasts(x.phone, x.id)')
  PROVE  PendingStands' /\ WritesStand'
<1>1. asks \in Nat /\ (\A y \in Pending \cup Answered : y.id <= asks /\ y.id \in Nat)
  <2>1. \A y \in Pending \cup Answered : y.id \in Nat
    BY DEF Pending, Answered, EnrolInv, EnrolTypeOK, Requests, Answers
  <2> QED
    BY <2>1 DEF EnrolInv, EnrolTypeOK, PendingStands
<1>2. ASSUME NEW o \in Pending, o.what \in {"verify", "reset", "proved"}
      PROVE  /\ o.code \in DOMAIN codes /\ o.code \in DOMAIN codes'
             /\ codes[o.code].used => codes'[o.code].used
             /\ codes'[o.code].to = codes[o.code].to /\ codes'[o.code].for = codes[o.code].for
  BY <1>2 DEF EnrolInv, PendingStands, CodesGoOn
<1>3. PendingStands'
  <2>1. ASSUME NEW o \in Pending'
        PROVE  /\ o.id <= asks'
               /\ o.what \in {"verify", "reset", "proved"} => o.code \in DOMAIN codes'
               /\ o.what \in {"reset", "proved"} => codes'[o.code].to = o.phone /\ codes'[o.code].for = "reset"
    <3>1. CASE o \in Pending
      <4>1. o.id <= asks /\ o.id \in Nat
        BY <1>1, <3>1
      <4>2. o.what \in {"reset", "proved"} => codes[o.code].to = o.phone /\ codes[o.code].for = "reset"
        BY <3>1 DEF EnrolInv, PendingStands
      <4> QED
        BY <1>1, <1>2, <3>1, <4>1, <4>2
    <3>2. CASE o \notin Pending
      BY <2>1, <3>2
    <3> QED
      BY <3>1, <3>2
  <2>2. \A x \in Answered' : x.id <= asks'
    BY <1>1
  <2> QED
    BY <2>1, <2>2 DEF PendingStands
<1>4. ASSUME NEW x \in Written' PROVE Lasts(x.phone, x.id)'
  <2>1. CASE \E y \in Written : y.phone = x.phone /\ y.id = x.id
    <3>1. Lasts(x.phone, x.id)
      BY <2>1 DEF EnrolInv, WritesStand
    <3>2. x.phone \in Phones /\ x.id \in Nat
      BY <2>1 DEF Written, Answered, EnrolInv, EnrolTypeOK, Answers
    <3>3. acct[x.phone].by \in Nat /\ acct'[x.phone].by \in Nat /\ acct'[x.phone].is = "pinned"
      BY <3>1, <3>2 DEF AcctGoesOn, EnrolInv, EnrolTypeOK, Lasts
    <3>4. acct'[x.phone].by >= x.id \/ marred'.crossed
      <4>1. CASE acct'[x.phone].by >= acct[x.phone].by
        BY <3>1, <3>2, <3>3, <4>1 DEF Lasts
      <4>2. CASE acct'[x.phone].by >= asks
        BY <1>1, <3>1, <3>2, <3>3, <4>2 DEF Lasts
      <4>3. CASE \E r \in Pending : r.what = "proved" /\ r.phone = x.phone /\ acct'[x.phone].by = r.id
        BY <1>1, <3>1, <3>2, <4>3 DEF Lasts
      <4> QED
        BY <3>1, <3>2, <4>1, <4>2, <4>3 DEF AcctGoesOn, Lasts
    <3>5. ASSUME NEW o \in Pending', o.phone = x.phone, o.id < x.id
          PROVE  /\ o.what = "reset" => codes'[o.code].used
                 /\ o.what = "proved" => marred'.crossed
      <4>1. x.id <= asks
        BY <3>1 DEF Lasts
      <4>2. o \in Pending
        BY <1>1, <3>2, <3>5, <4>1
      <4> QED
        BY <1>2, <3>1, <3>5, <4>2 DEF Lasts
    <3>6. x.id <= asks'
      BY <1>1, <3>1, <3>2 DEF Lasts
    <3> QED
      BY <3>3, <3>4, <3>5, <3>6 DEF Lasts, HasPin
  <2>2. CASE Lasts(x.phone, x.id)'
    BY <2>2
  <2> QED
    BY <2>1, <2>2
<1>5. ASSUME NEW p \in Pending', NEW o \in Pending', p.what = "proved", o.what = "reset", o.phone = p.phone,
             o.id < p.id
      PROVE  codes'[o.code].used
  <2>1. p \in Pending /\ p.id <= asks /\ p.id \in Nat
    BY <1>1, <1>5
  <2>2. o \in Pending
    BY <1>1, <1>5, <2>1
  <2>3. codes[o.code].used
    BY <1>5, <2>1, <2>2 DEF EnrolInv, WritesStand
  <2> QED
    BY <1>2, <1>5, <2>2, <2>3
<1>6. WritesStand'
  BY <1>4, <1>5 DEF WritesStand
<1> QED
  BY <1>3, <1>6

----------------------------------------------------------------------------
\* What identity does for a request.

LEMMA RequestFacts ==
  ASSUME EnrolInv, NEW r \in Pending
  PROVE  /\ r \in Requests /\ r.phone \in Phones /\ r.id \in Nat /\ r.what \in Whats /\ r.for \in Purposes
         /\ r.what \in {"verify", "reset", "proved"} => r.code \in DOMAIN codes
         /\ r.what \in {"reset", "proved"} => HasPin(r.phone)
<1>1. r \in Requests
  BY DEF Pending, EnrolInv, EnrolTypeOK
<1>2. r.what \in {"reset", "proved"} =>
        r.code \in DOMAIN codes /\ codes[r.code].to = r.phone /\ codes[r.code].for = "reset"
  BY DEF EnrolInv, PendingStands
<1>3. r.what \in {"reset", "proved"} => HasPin(r.phone)
  BY <1>2 DEF EnrolInv, CodesStand
<1> QED
  BY <1>1, <1>3 DEF Requests, EnrolInv, PendingStands

LEMMA AnswerFacts ==
  ASSUME NEW r \in Requests, r.what # "reset"
  PROVE  /\ Answer(r) \in Answers /\ Answer(r).what = "answer" /\ Answer(r).to = r.what
         /\ Answer(r).phone = r.phone /\ Answer(r).id = r.id
BY DEF Answer, Requests, Answers, Whats

LEMMA PinnedFacts ==
  ASSUME EnrolTypeOK, NEW n \in Phones, NEW id \in Nat, Pinned(n, id)
  PROVE  /\ acct' \in [Phones -> [is : {"missing", "bare", "pinned"}, by : Nat]]
         /\ acct'[n].is = "pinned" /\ acct'[n].by = id
         /\ \A m \in Phones : m # n => acct'[m] = acct[m]
BY DEF EnrolTypeOK, Pinned

LEMMA OpenedFacts ==
  ASSUME EnrolTypeOK, NEW n \in Phones, Opened(n), ~HasPin(n)
  PROVE  /\ acct' \in [Phones -> [is : {"missing", "bare", "pinned"}, by : Nat]]
         /\ acct'[n].is = "bare"
         /\ \A m \in Phones : acct'[m].by = acct[m].by /\ (m # n => acct'[m] = acct[m])
BY DEF EnrolTypeOK, Opened, HasPin

LEMMA TakesFacts ==
  ASSUME EnrolInv, NEW r \in Pending, Takes(r)
  PROVE  /\ CodesGoOn /\ CodesStand' /\ AcctGoesOn
         /\ r.what \in {"start", "verify", "setPin", "proved", "signIn"}
         /\ r.what \in {"setPin", "proved"} => acct'[r.phone].is = "pinned" /\ acct'[r.phone].by = r.id
         /\ r.what = "setPin" => ~HasPin(r.phone)
         /\ r.what = "verify" => acct'[r.phone].is = "bare"
         /\ \A n \in Phones : acct[n].is = "bare" =>
              acct'[n].is = "bare" \/ (r.what = "setPin" /\ n = r.phone)
<1>1. EnrolTypeOK /\ CodesStand /\ r.phone \in Phones /\ r.id \in Nat /\ \A n \in Phones : acct[n].by \in Nat
  BY RequestFacts DEF EnrolInv, EnrolTypeOK
<1>2. CASE StartRegistration(r)
  <2>1. r.what = "start" /\ Sent(r.phone, "registration") /\ acct' = acct
    BY <1>2 DEF StartRegistration
  <2>2. CodesGoOn /\ CodesStand'
    BY <1>1, <2>1, SentFacts
  <2> QED
    BY <1>1, <2>1, <2>2, AcctRests
<1>3. CASE StartPinReset(r)
  <2>1. r.what = "start" /\ acct' = acct /\ IF HasPin(r.phone) THEN Sent(r.phone, "reset") ELSE UNCHANGED codes
    BY <1>3 DEF StartPinReset
  <2>2. CodesGoOn /\ CodesStand'
    BY <1>1, <2>1, SentFacts, CodesRest
  <2> QED
    BY <1>1, <2>1, <2>2, AcctRests
<1>4. CASE CompleteRegistration(r)
  <2>1. r.what = "verify" /\ Spent(r.code) /\ Opened(r.phone) /\ ~HasPin(r.phone) /\ r.code \in DOMAIN codes
    BY <1>4, RequestFacts DEF CompleteRegistration
  <2>2. /\ acct' \in [Phones -> [is : {"missing", "bare", "pinned"}, by : Nat]]
        /\ acct'[r.phone].is = "bare"
        /\ \A m \in Phones : acct'[m].by = acct[m].by /\ (m # r.phone => acct'[m] = acct[m])
    BY <1>1, <2>1, OpenedFacts
  <2>3. AcctGoesOn
    BY <1>1, <2>1, <2>2 DEF AcctGoesOn, HasPin
  <2>4. CodesGoOn /\ CodesStand'
    BY <1>1, <2>1, <2>3, SpentFacts
  <2> QED
    BY <2>1, <2>2, <2>3, <2>4
<1>5. CASE SetInitial(r)
  <2>1. r.what = "setPin" /\ ~HasPin(r.phone) /\ Pinned(r.phone, r.id) /\ codes' = codes
    BY <1>5 DEF SetInitial
  <2>2. /\ acct' \in [Phones -> [is : {"missing", "bare", "pinned"}, by : Nat]]
        /\ acct'[r.phone].is = "pinned" /\ acct'[r.phone].by = r.id
        /\ \A m \in Phones : m # r.phone => acct'[m] = acct[m]
    BY <1>1, <2>1, PinnedFacts
  <2>3. AcctGoesOn
    BY <1>1, <2>1, <2>2 DEF AcctGoesOn, HasPin
  <2>4. CodesGoOn /\ CodesStand'
    BY <1>1, <2>1, <2>3, CodesRest
  <2> QED
    BY <2>1, <2>2, <2>3, <2>4
<1>6. CASE WriteReset(r)
  <2>1. r.what = "proved" /\ HasPin(r.phone) /\ Pinned(r.phone, r.id) /\ codes' = codes
    BY <1>6, RequestFacts DEF WriteReset
  <2>2. /\ acct' \in [Phones -> [is : {"missing", "bare", "pinned"}, by : Nat]]
        /\ acct'[r.phone].is = "pinned" /\ acct'[r.phone].by = r.id
        /\ \A m \in Phones : m # r.phone => acct'[m] = acct[m]
    BY <1>1, <2>1, PinnedFacts
  <2>3. AcctGoesOn
    BY <1>1, <2>1, <2>2 DEF AcctGoesOn, HasPin
  <2>4. CodesGoOn /\ CodesStand'
    BY <1>1, <2>1, <2>3, CodesRest
  <2> QED
    BY <2>1, <2>2, <2>3, <2>4 DEF HasPin
<1>7. CASE SignsIn(r)
  <2>1. r.what = "signIn" /\ acct' = acct /\ codes' = codes
    BY <1>7 DEF SignsIn
  <2> QED
    BY <1>1, <2>1, AcctRests, CodesRest
<1> QED
  BY <1>2, <1>3, <1>4, <1>5, <1>6, <1>7 DEF Takes

LEMMA MarredFacts ==
  ASSUME EnrolTypeOK, NEW r, marred' = Marred(r)
  PROVE  /\ marred' \in Marks /\ marred'.lost = marred.lost /\ marred'.elsewhere = marred.elsewhere
         /\ marred'.edited = marred.edited /\ marred'.swapped = marred.swapped
         /\ marred.crossed \/ Crossing(r) => marred'.crossed
<1>1. (marred.crossed \/ Crossing(r)) \in BOOLEAN
  OBVIOUS
<1> DEFINE c == marred.crossed \/ Crossing(r)
<1>2. marred' = [marred EXCEPT !.crossed = c] /\ c \in BOOLEAN
  BY <1>1 DEF Marred
<1>3. marred.crossed \/ Crossing(r) => c
  OBVIOUS
<1> HIDE DEF c
<1>4. /\ marred' \in Marks /\ marred'.lost = marred.lost /\ marred'.elsewhere = marred.elsewhere
      /\ marred'.edited = marred.edited /\ marred'.swapped = marred.swapped /\ marred'.crossed = c
  BY <1>2 DEF Marks, EnrolTypeOK
<1> QED
  BY <1>3, <1>4, Zenon

\* What a request is taken for is written, and lasts.
LEMMA ServedWrites ==
  ASSUME EnrolInv, NEW r \in Pending, Takes(r), marred' = Marred(r), asks' = asks,
         \A o \in Pending' : o \in Pending, gone' # {} => gone # {},
         \A x \in Answered' : x \in Answered \/ x = Answer(r),
         \A x \in Written' : x \in Written \/ (x = Answer(r) /\ r.what \in {"setPin", "proved"})
  PROVE  PendingStands' /\ WritesStand'
<1>1. /\ EnrolTypeOK /\ r \in Requests /\ r.phone \in Phones /\ r.id \in Nat /\ asks \in Nat
      /\ r.id <= asks
  BY RequestFacts DEF EnrolInv, EnrolTypeOK, PendingStands
<1>2. /\ marred'.lost = marred.lost
      /\ marred.crossed => marred'.crossed
      /\ Crossing(r) => marred'.crossed
  BY <1>1, MarredFacts
<1>3. CodesGoOn /\ AcctGoesOn
  BY TakesFacts
<1>4. ASSUME r.what \in {"setPin", "proved"} PROVE Lasts(r.phone, r.id)'
  <2>1. acct'[r.phone].is = "pinned" /\ acct'[r.phone].by = r.id /\ (r.what = "setPin" => ~HasPin(r.phone))
    BY <1>4, TakesFacts
  <2>2. ASSUME NEW o \in Pending', o.phone = r.phone, o.id < r.id
        PROVE  /\ o.what = "reset" => codes'[o.code].used
               /\ o.what = "proved" => marred'.crossed
    <3>1. o \in Pending /\ (o.what \in {"reset", "proved"} => HasPin(o.phone) /\ o.code \in DOMAIN codes)
      BY <2>2, RequestFacts
    <3>2. o.what \in {"reset", "proved"} => r.what = "proved"
      BY <1>4, <2>1, <2>2, <3>1
    <3>3. o.what = "reset" => codes[o.code].used
      BY <2>2, <3>1, <3>2 DEF EnrolInv, WritesStand
    <3>4. o.what = "proved" => Crossing(r)
      BY <2>2, <3>1, <3>2 DEF Crossing, Pending
    <3> QED
      BY <1>2, <1>3, <3>1, <3>3, <3>4 DEF CodesGoOn
  <2> QED
    BY <1>1, <2>1, <2>2 DEF Lasts, HasPin
<1>5. Answer(r).phone = r.phone /\ Answer(r).id = r.id
  BY <1>1, TakesFacts, AnswerFacts
<1>6. ASSUME NEW x \in Written'
      PROVE  (\E y \in Written : y.phone = x.phone /\ y.id = x.id)
             \/ (x.phone \in Phones /\ x.id \in Nat /\ Lasts(x.phone, x.id)')
  <2>1. CASE x \in Written
    BY <2>1
  <2>2. CASE x = Answer(r) /\ r.what \in {"setPin", "proved"}
    BY <1>1, <1>4, <1>5, <2>2
  <2> QED
    BY <2>1, <2>2
<1>7. \A x \in Answered' : \E y \in Pending \cup Answered : y.id = x.id
  BY <1>5
<1>8. gone' # {} => marred'.lost
  BY <1>2 DEF EnrolInv, PendingStands
<1>9. asks' \in Nat /\ asks' >= asks
  BY <1>1
<1> QED
  BY <1>2, <1>3, <1>6, <1>7, <1>8, <1>9, WritesGoOn

----------------------------------------------------------------------------
\* The screen, while others act.

LEMMA MarksStay ==
  ASSUME marred' = marred
  PROVE  /\ marred.lost => marred'.lost
         /\ marred.swapped => marred'.swapped
         /\ marred.edited => marred'.edited
         /\ marred.elsewhere => marred'.elsewhere
         /\ marred.crossed => marred'.crossed
OBVIOUS

LEMMA ScreenRests ==
  ASSUME EnrolInv, scr' = scr, mine' = mine, req' = req,
         marred.lost => marred'.lost, marred.swapped => marred'.swapped, marred.edited => marred'.edited,
         marred.elsewhere => marred'.elsewhere, LeftGoesOn => LeftGoesOn',
         \A n \in Phones : acct[n].is = "bare" => acct'[n].is = "bare" \/ marred'.lost \/ LeftGoesOn'
  PROVE  ScreenStands' /\ StepFitsNumber'
<1>1. mine.token \in Phones \cup {Nil} /\ (Asks("verify") /\ scr.view \in {"register", "reset"} => req.phone \in Phones)
  <2>1. Asks("verify") => req.phone \in Phones
    <3>1. Asks("verify") => req \in Requests \cup Answers
      BY Kinds DEF Asks, EnrolInv, EnrolTypeOK, Whats
    <3> QED
      BY <3>1 DEF Requests, Answers
  <2> QED
    BY <2>1 DEF EnrolInv, EnrolTypeOK
<1>2. ScreenStands'
  BY <1>1 DEF EnrolInv, ScreenStands, Asks
<1>3. StepFitsNumber'
  BY <1>1 DEF EnrolInv, StepFitsNumber
<1> QED
  BY <1>2, <1>3

\* The request of the screen is over and the screen stays.
LEMMA RequestOver ==
  ASSUME EnrolInv, scr' = scr, mine' = mine, req' = NoReq, acct' = acct, left' = left,
         marred.lost => marred'.lost, marred.swapped => marred'.swapped, marred.edited => marred'.edited,
         marred.elsewhere => marred'.elsewhere, req.what \in {"answer", "load"} => marred'.lost
  PROVE  ScreenStands' /\ StepFitsNumber'
<1>1. req'.what = "none" /\ (LeftGoesOn => LeftGoesOn')
  BY NoReqFacts DEF LeftGoesOn
<1>2. ScreenStands'
  BY <1>1 DEF EnrolInv, ScreenStands, Asks
<1>3. StepFitsNumber'
  BY <1>1, <1>2 DEF EnrolInv, StepFitsNumber, ScreenStands
<1> QED
  BY <1>2, <1>3

\* At the first step, or past these screens.
LEMMA ScreenOpens ==
  ASSUME scr'.view \notin {"register", "reset"} \/ (scr'.step = 1 /\ req' = NoReq)
  PROVE  ScreenStands' /\ StepFitsNumber'
<1>1. req' = NoReq => req'.what = "none"
  BY NoReqFacts
<1> QED
  BY <1>1 DEF ScreenStands, StepFitsNumber, Asks

----------------------------------------------------------------------------
\* Serving.

LEMMA ServeStands == ASSUME EnrolInv, Serve PROVE EnrolInv'
<1>1. /\ EnrolTypeOK /\ gone \in SUBSET Requests /\ req \in {NoReq} \cup Requests \cup Answers
      /\ left \in {NoReq} \cup Requests \cup Answers
  BY DEF EnrolInv, EnrolTypeOK
<1>2. ASSUME NEW r \in {req, left}, Takes(r) PROVE r \in Requests /\ r \in Pending
  <2>1. r.what \in Whats
    BY <1>2 DEF Takes, StartRegistration, StartPinReset, CompleteRegistration, SetInitial, WriteReset, SignsIn, Whats
  <2> QED
    BY <1>1, <1>2, <2>1, Kinds DEF Pending
<1>3. CASE Takes(req) /\ req' = Answer(req) /\ marred' = Marred(req) /\ UNCHANGED <<scr, mine, left, gone, said, asks>>
  <2>1. req \in Requests /\ req \in Pending
    BY <1>2, <1>3
  <2>2. /\ req' \in Answers /\ req'.what = "answer" /\ req'.to = req.what
        /\ req'.phone = req.phone /\ req'.id = req.id /\ req' \notin Requests
    BY <1>3, <2>1, TakesFacts, AnswerFacts, Kinds DEF Whats
  <2>3. /\ CodesGoOn /\ CodesStand' /\ AcctGoesOn
        /\ req.what = "verify" => acct'[req.phone].is = "bare"
        /\ req.what \in {"start", "verify", "setPin", "proved", "signIn"}
    BY <1>3, <2>1, TakesFacts
  <2>4. /\ \A o \in Pending' : o \in Pending
        /\ \A x \in Answered' : x \in Answered \/ x = Answer(req)
        /\ \A x \in Written' : x \in Written \/ (x = Answer(req) /\ req.what \in {"setPin", "proved"})
    BY <1>3, <2>2 DEF Pending, Answered, Written
  <2>5. PendingStands' /\ WritesStand'
    BY <1>3, <2>1, <2>4, ServedWrites
  <2>6. /\ marred' \in Marks /\ marred'.lost = marred.lost /\ marred'.elsewhere = marred.elsewhere
        /\ marred'.edited = marred.edited /\ marred'.swapped = marred.swapped
    BY <1>1, <1>3, MarredFacts
  <2>7. EnrolTypeOK'
    BY <1>1, <1>3, <2>2, <2>3, <2>6 DEF EnrolTypeOK, CodesGoOn, AcctGoesOn
  <2>8. req # NoReq /\ req' # NoReq /\ req.what \notin {"answer", "load"}
    BY <2>1, <2>2, NoReqFacts, Kinds DEF Whats
  <2>9. ScreenStands'
    BY <1>3, <2>2, <2>3, <2>6, <2>8 DEF EnrolInv, ScreenStands, Asks
  <2>10. StepFitsNumber'
    BY <1>3, <2>6, <2>8 DEF EnrolInv, StepFitsNumber
  <2> QED
    BY <2>3, <2>5, <2>7, <2>9, <2>10 DEF EnrolInv
<1>4. CASE Takes(left) /\ left' = Answer(left) /\ marred' = Marred(left) /\ UNCHANGED <<scr, mine, req, gone, said, asks>>
  <2>1. left \in Requests /\ left \in Pending
    BY <1>2, <1>4
  <2>2. /\ left' \in Answers /\ left'.what = "answer" /\ left'.to = left.what
        /\ left'.phone = left.phone /\ left'.id = left.id /\ left' \notin Requests
    BY <1>4, <2>1, TakesFacts, AnswerFacts, Kinds DEF Whats
  <2>3. /\ CodesGoOn /\ CodesStand' /\ AcctGoesOn
        /\ \A n \in Phones : acct[n].is = "bare" => acct'[n].is = "bare" \/ left.what = "setPin"
    BY <1>4, <2>1, TakesFacts
  <2>4. /\ \A o \in Pending' : o \in Pending
        /\ \A x \in Answered' : x \in Answered \/ x = Answer(left)
        /\ \A x \in Written' : x \in Written \/ (x = Answer(left) /\ left.what \in {"setPin", "proved"})
    BY <1>4, <2>2 DEF Pending, Answered, Written
  <2>5. PendingStands' /\ WritesStand'
    BY <1>4, <2>1, <2>4, ServedWrites
  <2>6. /\ marred' \in Marks /\ marred'.lost = marred.lost /\ marred'.elsewhere = marred.elsewhere
        /\ marred'.edited = marred.edited /\ marred'.swapped = marred.swapped
    BY <1>1, <1>4, MarredFacts
  <2>7. EnrolTypeOK'
    BY <1>1, <1>4, <2>2, <2>3, <2>6 DEF EnrolTypeOK, CodesGoOn, AcctGoesOn
  <2>8. left.what \notin {"answer", "load"}
    BY <1>1, <2>1, Kinds DEF Whats
  <2>9. ~LeftGoesOn /\ (left.what = "setPin" => LeftGoesOn')
    BY <2>2, <2>8 DEF LeftGoesOn
  <2>10. ScreenStands' /\ StepFitsNumber'
    BY <1>4, <2>3, <2>6, <2>9, ScreenRests
  <2> QED
    BY <2>3, <2>5, <2>7, <2>10 DEF EnrolInv
<1>5. ASSUME NEW r \in gone, Takes(r), gone' = gone \ {r}, marred' = Marred(r), UNCHANGED <<scr, mine, req, left, said, asks>>
      PROVE  EnrolInv'
  <2>1. r \in Pending /\ marred.lost
    BY DEF Pending, EnrolInv, PendingStands
  <2>2. CodesGoOn /\ CodesStand' /\ AcctGoesOn
    BY <1>5, <2>1, TakesFacts
  <2>3. /\ \A o \in Pending' : o \in Pending
        /\ \A x \in Answered' : x \in Answered
        /\ \A x \in Written' : x \in Written
        /\ gone' # {} => gone # {}
    BY <1>5 DEF Pending, Answered, Written
  <2>4. PendingStands' /\ WritesStand'
    BY <1>5, <2>1, <2>3, ServedWrites
  <2>5. /\ marred' \in Marks /\ marred'.lost = marred.lost /\ marred'.elsewhere = marred.elsewhere
        /\ marred'.edited = marred.edited /\ marred'.swapped = marred.swapped
    BY <1>1, <1>5, MarredFacts
  <2>6. EnrolTypeOK'
    BY <1>1, <1>5, <2>2, <2>5 DEF EnrolTypeOK, CodesGoOn, AcctGoesOn
  <2>7. LeftGoesOn => LeftGoesOn'
    BY <1>5 DEF LeftGoesOn
  <2>8. ScreenStands' /\ StepFitsNumber'
    BY <1>5, <2>1, <2>5, <2>7, ScreenRests
  <2> QED
    BY <2>2, <2>4, <2>6, <2>8 DEF EnrolInv
<1> QED
  BY <1>3, <1>4, <1>5 DEF Serve

\* A reset proves its code, and writes later.
LEMMA ProvedWrites ==
  ASSUME EnrolInv, NEW r \in Pending, ProveReset(r), asks' = asks, said' = said, marred' = marred,
         \A o \in Pending' : o \in Pending \/ o = [r EXCEPT !.what = "proved"],
         gone' # {} => gone # {}, \A x \in Answered' : x \in Answered
  PROVE  CodesGoOn /\ CodesStand' /\ PendingStands' /\ WritesStand'
<1> DEFINE after == [r EXCEPT !.what = "proved"]
<1>1. /\ r.what = "reset" /\ ~codes[r.code].used /\ Spent(r.code) /\ acct' = acct
      /\ r \in Requests /\ r.code \in DOMAIN codes /\ EnrolTypeOK /\ CodesStand
      /\ codes[r.code].to = r.phone /\ codes[r.code].for = "reset" /\ r.id <= asks
  BY RequestFacts DEF ProveReset, Unused, EnrolInv, PendingStands
<1>2. CodesGoOn /\ codes'[r.code].used /\ CodesStand'
  BY <1>1, SpentFacts
<1>3. after.what = "proved" /\ after.phone = r.phone /\ after.code = r.code /\ after.id = r.id
  BY <1>1 DEF Requests
<1> HIDE DEF after
<1>4. \A o \in Pending' : o \in Pending \/ o = after
  BY DEF after
<1>5. PendingStands'
  <2>1. ASSUME NEW o \in Pending'
        PROVE  /\ o.id <= asks
               /\ o.what \in {"verify", "reset", "proved"} => o.code \in DOMAIN codes'
               /\ o.what \in {"reset", "proved"} => codes'[o.code].to = o.phone /\ codes'[o.code].for = "reset"
    <3>1. CASE o \in Pending
      <4>1. /\ o.id <= asks
            /\ o.what \in {"verify", "reset", "proved"} => o.code \in DOMAIN codes
            /\ o.what \in {"reset", "proved"} => codes[o.code].to = o.phone /\ codes[o.code].for = "reset"
        BY <3>1 DEF EnrolInv, PendingStands
      <4> QED
        BY <1>2, <4>1 DEF CodesGoOn
    <3>2. CASE o = after
      BY <1>1, <1>2, <1>3, <3>2 DEF CodesGoOn
    <3> QED
      BY <1>4, <3>1, <3>2
  <2>2. \A x \in Answered' : x.id <= asks
    BY DEF EnrolInv, PendingStands
  <2>3. gone' # {} => marred'.lost
    BY DEF EnrolInv, PendingStands
  <2> QED
    BY <2>1, <2>2, <2>3 DEF PendingStands
<1>6. ASSUME NEW o \in Pending PROVE o.what = "reset" => o.code \in DOMAIN codes
  BY <1>6, RequestFacts
<1>7. ASSUME NEW x \in Written' PROVE Lasts(x.phone, x.id)'
  <2>1. x \in Written
    BY <1>7 DEF Written
  <2>2. Lasts(x.phone, x.id)
    BY <2>1 DEF EnrolInv, WritesStand
  <2>3. ASSUME NEW o \in Pending', o.phone = x.phone, o.id < x.id
        PROVE  /\ o.what = "reset" => codes'[o.code].used
               /\ o.what = "proved" => marred'.crossed
    <3>1. CASE o \in Pending
      BY <1>2, <1>6, <2>2, <2>3, <3>1 DEF Lasts, CodesGoOn
    <3>2. CASE o = after
      BY <1>1, <1>3, <2>2, <2>3, <3>2 DEF Lasts
    <3> QED
      BY <1>4, <3>1, <3>2
  <2> QED
    BY <1>1, <2>2, <2>3 DEF Lasts, HasPin
<1>8. ASSUME NEW p \in Pending', NEW o \in Pending', p.what = "proved", o.what = "reset", o.phone = p.phone,
             o.id < p.id
      PROVE  codes'[o.code].used
  <2>1. o \in Pending /\ o.code \in DOMAIN codes
    BY <1>3, <1>4, <1>6, <1>8
  <2>2. CASE p \in Pending
    BY <1>2, <1>8, <2>1, <2>2 DEF EnrolInv, WritesStand, CodesGoOn
  <2>3. CASE p = after
    <3>1. codes[o.code].to = o.phone /\ codes[o.code].for = "reset"
      BY <1>8, <2>1 DEF EnrolInv, PendingStands
    <3>2. CASE codes[o.code].used
      BY <1>2, <2>1, <3>2 DEF CodesGoOn
    <3>3. CASE ~codes[o.code].used
      <4>1. o.code = r.code
        BY <1>1, <1>3, <1>8, <2>1, <2>3, <3>1, <3>3 DEF CodesStand, Unused
      <4> QED
        BY <1>2, <4>1
    <3> QED
      BY <3>2, <3>3
  <2> QED
    BY <1>4, <2>2, <2>3
<1>9. WritesStand'
  BY <1>7, <1>8 DEF WritesStand
<1> QED
  BY <1>2, <1>5, <1>9

LEMMA ServeResetStands == ASSUME EnrolInv, ServeReset PROVE EnrolInv'
<1>1. /\ EnrolTypeOK /\ gone \in SUBSET Requests /\ req \in {NoReq} \cup Requests \cup Answers
      /\ left \in {NoReq} \cup Requests \cup Answers /\ UNCHANGED <<scr, mine, said, asks, marred>>
  BY DEF EnrolInv, EnrolTypeOK, ServeReset
<1>2. ASSUME NEW r \in {req, left} \cup gone, ProveReset(r)
      PROVE  /\ r \in Requests /\ r \in Pending /\ r.what = "reset" /\ acct' = acct
             /\ [r EXCEPT !.what = "proved"] \in Requests /\ [r EXCEPT !.what = "proved"].what = "proved"
  <2>1. r.what = "reset" /\ acct' = acct
    BY <1>2 DEF ProveReset
  <2>2. r \in Requests
    BY <1>1, <1>2, <2>1, Kinds DEF Whats
  <2> QED
    BY <1>2, <2>1, <2>2 DEF Pending, Requests, Whats
<1>3. CASE ProveReset(req) /\ req' = [req EXCEPT !.what = "proved"] /\ UNCHANGED <<left, gone>>
  <2>1. req \in Requests /\ req \in Pending /\ req.what = "reset" /\ req' \in Requests /\ req'.what = "proved"
        /\ acct' = acct
    BY <1>2, <1>3
  <2>2. /\ \A o \in Pending' : o \in Pending \/ o = [req EXCEPT !.what = "proved"]
        /\ \A x \in Answered' : x \in Answered
    BY <1>3, <2>1, Kinds DEF Pending, Answered, Whats
  <2>3. CodesGoOn /\ CodesStand' /\ PendingStands' /\ WritesStand'
    BY <1>1, <1>3, <2>1, <2>2, ProvedWrites
  <2>4. EnrolTypeOK'
    BY <1>1, <1>3, <2>1, <2>3 DEF EnrolTypeOK, CodesGoOn
  <2>5. req # NoReq /\ req' # NoReq
    BY <2>1, NoReqFacts
  <2>6. LeftGoesOn' <=> LeftGoesOn
    BY <1>3 DEF LeftGoesOn
  <2>7. ScreenStands'
    BY <1>1, <2>1, <2>5 DEF EnrolInv, ScreenStands, Asks
  <2>8. StepFitsNumber'
    BY <1>1, <2>1, <2>5 DEF EnrolInv, StepFitsNumber
  <2> QED
    BY <2>3, <2>4, <2>7, <2>8 DEF EnrolInv
<1>4. CASE ProveReset(left) /\ left' = [left EXCEPT !.what = "proved"] /\ UNCHANGED <<req, gone>>
  <2>1. left \in Requests /\ left \in Pending /\ left.what = "reset" /\ left' \in Requests /\ left'.what = "proved"
        /\ acct' = acct
    BY <1>2, <1>4
  <2>2. /\ \A o \in Pending' : o \in Pending \/ o = [left EXCEPT !.what = "proved"]
        /\ \A x \in Answered' : x \in Answered
    BY <1>4, <2>1, Kinds DEF Pending, Answered, Whats
  <2>3. CodesGoOn /\ CodesStand' /\ PendingStands' /\ WritesStand'
    BY <1>1, <1>4, <2>1, <2>2, ProvedWrites
  <2>4. EnrolTypeOK'
    BY <1>1, <1>4, <2>1, <2>3 DEF EnrolTypeOK, CodesGoOn
  <2>5. ~LeftGoesOn
    BY <2>1 DEF LeftGoesOn
  <2>6. ScreenStands' /\ StepFitsNumber'
    BY <1>1, <1>4, <2>1, <2>5, MarksStay, ScreenRests
  <2> QED
    BY <2>3, <2>4, <2>6 DEF EnrolInv
<1>5. ASSUME NEW r \in gone, ProveReset(r), gone' = (gone \ {r}) \cup {[r EXCEPT !.what = "proved"]},
             UNCHANGED <<req, left>>
      PROVE  EnrolInv'
  <2>1. r \in Pending /\ [r EXCEPT !.what = "proved"] \in Requests /\ acct' = acct
    BY <1>2, <1>5
  <2>2. /\ \A o \in Pending' : o \in Pending \/ o = [r EXCEPT !.what = "proved"]
        /\ \A x \in Answered' : x \in Answered
    BY <1>5 DEF Pending, Answered
  <2>3. CodesGoOn /\ CodesStand' /\ PendingStands' /\ WritesStand'
    BY <1>1, <1>5, <2>1, <2>2, ProvedWrites
  <2>4. EnrolTypeOK'
    BY <1>1, <1>5, <2>1, <2>3 DEF EnrolTypeOK, CodesGoOn
  <2>5. LeftGoesOn => LeftGoesOn'
    BY <1>5 DEF LeftGoesOn
  <2>6. ScreenStands' /\ StepFitsNumber'
    BY <1>1, <1>5, <2>1, <2>5, MarksStay, ScreenRests
  <2> QED
    BY <2>3, <2>4, <2>6 DEF EnrolInv
<1> QED
  BY <1>3, <1>4, <1>5 DEF ServeReset, Prove

\* No more is asked and nothing written.
LEMMA FewerWrites ==
  ASSUME EnrolInv, CodesGoOn, acct' = acct, asks' = asks, marred.crossed => marred'.crossed,
         gone' # {} => marred'.lost, \A o \in Pending' : o \in Pending,
         \A x \in Answered' : \E y \in Answered : y.id = x.id,
         \A x \in Written' : \E y \in Written : y.phone = x.phone /\ y.id = x.id
  PROVE  PendingStands' /\ WritesStand'
<1>1. EnrolTypeOK /\ asks' \in Nat /\ asks' >= asks
  BY DEF EnrolInv, EnrolTypeOK
<1>2. AcctGoesOn
  BY <1>1, AcctRests
<1>3. \A x \in Answered' : \E y \in Pending \cup Answered : y.id = x.id
  OBVIOUS
<1> QED
  BY <1>1, <1>2, <1>3, WritesGoOn

LEMMA RefuseStands == ASSUME EnrolInv, Refuse PROVE EnrolInv'
<1>1. /\ EnrolTypeOK /\ CodesStand /\ gone \in SUBSET Requests /\ req \in {NoReq} \cup Requests \cup Answers
      /\ left \in {NoReq} \cup Requests \cup Answers /\ UNCHANGED <<acct, scr, mine, said, asks, marred>>
  BY DEF EnrolInv, EnrolTypeOK, Refuse
<1>2. ASSUME NEW r \in {req, left} \cup gone, Refuses(r) \/ WastesCode(r)
      PROVE  r \in Requests /\ r \in Pending /\ r.what \notin {"answer", "load"} /\ CodesGoOn /\ CodesStand'
  <2>1. r.what \in Whats /\ r.what \notin {"answer", "load"}
    BY <1>2 DEF Refuses, WastesCode, Whats
  <2>2. r \in Requests /\ r \in Pending
    BY <1>1, <1>2, <2>1, Kinds DEF Pending
  <2>3. CASE Refuses(r)
    BY <1>1, <2>1, <2>2, <2>3, CodesRest DEF Refuses
  <2>4. CASE WastesCode(r)
    <3>1. r.code \in DOMAIN codes /\ Spent(r.code)
      BY <2>2, <2>4, RequestFacts DEF WastesCode
    <3> QED
      BY <1>1, <2>1, <2>2, <3>1, SpentFacts
  <2> QED
    BY <1>2, <2>1, <2>2, <2>3, <2>4
<1>3. ASSUME CodesGoOn, CodesStand', req' \in {NoReq, req}, left' \in {NoReq, left}, gone' \subseteq gone
      PROVE  EnrolTypeOK' /\ PendingStands' /\ WritesStand'
  <2>1. EnrolTypeOK'
    BY <1>1, <1>3 DEF EnrolTypeOK, CodesGoOn
  <2>2. /\ \A o \in Pending' : o \in Pending
        /\ \A x \in Answered' : x \in Answered
        /\ \A x \in Written' : x \in Written
    BY <1>1, <1>3, NoReqFacts DEF Pending, Answered, Written
  <2>3. gone' # {} => marred'.lost
    BY <1>1, <1>3 DEF EnrolInv, PendingStands
  <2> QED
    BY <1>1, <1>3, <2>1, <2>2, <2>3, MarksStay, FewerWrites
<1>4. CASE (Refuses(req) \/ WastesCode(req)) /\ req' = NoReq /\ UNCHANGED <<left, gone>>
  <2>1. req.what \notin {"answer", "load"} /\ CodesGoOn /\ CodesStand'
    BY <1>2, <1>4
  <2>2. EnrolTypeOK' /\ PendingStands' /\ WritesStand'
    BY <1>3, <1>4, <2>1
  <2>3. ScreenStands' /\ StepFitsNumber'
    BY <1>1, <1>4, <2>1, MarksStay, RequestOver
  <2> QED
    BY <2>1, <2>2, <2>3 DEF EnrolInv
<1>5. CASE (Refuses(left) \/ WastesCode(left)) /\ left' = NoReq /\ UNCHANGED <<req, gone>>
  <2>1. left.what \notin {"answer", "load"} /\ CodesGoOn /\ CodesStand'
    BY <1>2, <1>5
  <2>2. EnrolTypeOK' /\ PendingStands' /\ WritesStand'
    BY <1>3, <1>5, <2>1
  <2>3. ~LeftGoesOn
    BY <2>1 DEF LeftGoesOn
  <2>4. ScreenStands' /\ StepFitsNumber'
    BY <1>1, <1>5, <2>3, MarksStay, ScreenRests
  <2> QED
    BY <2>1, <2>2, <2>4 DEF EnrolInv
<1>6. ASSUME NEW r \in gone, Refuses(r) \/ WastesCode(r), gone' = gone \ {r}, UNCHANGED <<req, left>>
      PROVE  EnrolInv'
  <2>1. CodesGoOn /\ CodesStand'
    BY <1>2, <1>6
  <2>2. EnrolTypeOK' /\ PendingStands' /\ WritesStand'
    BY <1>3, <1>6, <2>1
  <2>3. LeftGoesOn => LeftGoesOn'
    BY <1>6 DEF LeftGoesOn
  <2>4. ScreenStands' /\ StepFitsNumber'
    BY <1>1, <1>6, <2>3, MarksStay, ScreenRests
  <2> QED
    BY <2>1, <2>2, <2>4 DEF EnrolInv
<1> QED
  BY <1>4, <1>5, <1>6 DEF Refuse

----------------------------------------------------------------------------
\* The tab.

LEMMA LoadingFacts ==
  ASSUME NEW r \in Answers
  PROVE  /\ r.phone \in Phones /\ r.to \in Whats \ {"reset"} /\ r.id \in Nat
         /\ r.what = "load" => r.to \in {"setPin", "proved", "signIn"}
         /\ r.to \notin {"start", "verify"} => Loading(r) \in Answers
         /\ Loading(r).what = "load" /\ Loading(r).to = r.to
         /\ Loading(r).phone = r.phone /\ Loading(r).id = r.id
<1>1. CASE r \in [what : {"answer"}, to : Whats \ {"reset"}, for : Purposes, phone : Phones, id : Nat]
  <2>1. r.to \notin {"start", "verify"} => r.to \in {"setPin", "proved", "signIn"}
    BY <1>1 DEF Whats
  <2> QED
    BY <1>1, <2>1 DEF Loading, Answers
<1>2. CASE r \in [what : {"load"}, to : {"setPin", "proved", "signIn"}, for : Purposes, phone : Phones, id : Nat]
  BY <1>2 DEF Loading, Answers, Whats
<1> QED
  BY <1>1, <1>2 DEF Answers

\* A step of the tab: nothing is served.
LEMMA TabWrites ==
  ASSUME EnrolInv, acct' = acct, codes' = codes, asks' = asks, marred.crossed => marred'.crossed,
         gone' # {} => marred'.lost, \A o \in Pending' : o \in Pending,
         \A x \in Answered' : \E y \in Answered : y.id = x.id,
         \A x \in Written' : \E y \in Written : y.phone = x.phone /\ y.id = x.id
  PROVE  CodesStand' /\ PendingStands' /\ WritesStand'
<1>1. EnrolTypeOK /\ CodesStand
  BY DEF EnrolInv
<1>2. CodesGoOn /\ CodesStand'
  BY <1>1, CodesRest
<1> QED
  BY <1>2, FewerWrites

\* The token the tab has is swapped for another account's.
LEMMA SwapFacts ==
  ASSUME EnrolTypeOK, NEW swaps \in BOOLEAN, marred' = [marred EXCEPT !.swapped = marred.swapped \/ swaps]
  PROVE  /\ marred' \in Marks /\ marred'.lost = marred.lost /\ marred'.elsewhere = marred.elsewhere
         /\ marred'.edited = marred.edited /\ marred'.crossed = marred.crossed
         /\ marred.swapped \/ swaps => marred'.swapped
<1>1. marred \in Marks
  BY DEF EnrolTypeOK
<1> DEFINE c == marred.swapped \/ swaps
<1>2. marred' = [marred EXCEPT !.swapped = c] /\ c \in BOOLEAN
  OBVIOUS
<1>3. marred.swapped \/ swaps => c
  OBVIOUS
<1> HIDE DEF c
<1>4. /\ marred' \in Marks /\ marred'.lost = marred.lost /\ marred'.elsewhere = marred.elsewhere
      /\ marred'.edited = marred.edited /\ marred'.crossed = marred.crossed /\ marred'.swapped = c
  BY <1>1, <1>2 DEF Marks
<1> QED
  BY <1>3, <1>4, Zenon

LEMMA HearStands == ASSUME EnrolInv, Hear PROVE EnrolInv'
<1>1. /\ EnrolTypeOK /\ req \in {NoReq} \cup Requests \cup Answers /\ left \in {NoReq} \cup Requests \cup Answers
      /\ scr \in Screens /\ mine \in [token : Phones \cup {Nil}, me : Phones \cup {Nil}] /\ marred \in Marks
      /\ req.what = "answer" /\ UNCHANGED <<acct, codes, left, gone, said, asks>>
  BY DEF Hear, EnrolInv, EnrolTypeOK
<1>2. /\ req \in Answers /\ req # NoReq /\ req \notin Requests /\ req.phone \in Phones /\ req.to \in Whats
  BY <1>1, Kinds, LoadingFacts DEF Whats
<1>3. /\ req.to \notin {"start", "verify"} => Loading(req) \in Answers
      /\ Loading(req).what = "load" /\ Loading(req).to = req.to
      /\ Loading(req).phone = req.phone /\ Loading(req).id = req.id /\ Loading(req) \notin Requests
  <2>1. Loading(req).what = "load"
    BY <1>2, LoadingFacts
  <2>2. Loading(req) \notin Requests
    BY <2>1 DEF Requests, Whats
  <2> QED
    BY <1>2, <2>1, <2>2, LoadingFacts
<1>4. ASSUME req' \in {NoReq, Loading(req)}, marred'.lost = marred.lost, marred'.crossed = marred.crossed
      PROVE  CodesStand' /\ PendingStands' /\ WritesStand'
  <2>1. /\ \A o \in Pending' : o \in Pending
        /\ \A x \in Answered' : \E y \in Answered : y.id = x.id
        /\ \A x \in Written' : \E y \in Written : y.phone = x.phone /\ y.id = x.id
    BY <1>1, <1>2, <1>3, <1>4, NoReqFacts DEF Pending, Answered, Written
  <2>2. gone' # {} => marred'.lost
    BY <1>1, <1>4 DEF EnrolInv, PendingStands
  <2> QED
    BY <1>1, <1>4, <2>1, <2>2, TabWrites
<1>5. LeftGoesOn' <=> LeftGoesOn
  BY <1>1 DEF LeftGoesOn
<1>6. CASE req.to = "start"
  <2>1. scr' = [scr EXCEPT !.step = 2, !.sentTo = req.phone] /\ req' = NoReq /\ mine' = mine /\ marred' = marred
    BY <1>6 DEF Hear
  <2>2. scr' \in Screens /\ scr'.step = 2 /\ scr'.sentTo = req.phone /\ scr'.view = scr.view /\ scr'.phone = scr.phone
    <3>1. req.phone \in Phones \cup {Nil} /\ 2 \in 1..3
      BY <1>2
    <3> QED
      BY <1>1, <2>1, <3>1 DEF Screens
  <2>3. EnrolTypeOK'
    BY <1>1, <2>1, <2>2 DEF EnrolTypeOK
  <2>4. ScreenStands'
    BY <2>1, <2>2, NoReqFacts DEF ScreenStands, Asks
  <2>5. StepFitsNumber'
    BY <1>1, <1>6, <2>1, <2>2 DEF EnrolInv, ScreenStands, Asks, StepFitsNumber
  <2> QED
    BY <1>4, <2>1, <2>3, <2>4, <2>5 DEF EnrolInv
<1>7. CASE req.to # "start"
  <2>1. /\ mine' = [mine EXCEPT !.token = req.phone]
        /\ marred' = [marred EXCEPT !.swapped = marred.swapped \/ Swaps(req.phone)]
        /\ Swaps(req.phone) \in BOOLEAN
    BY <1>7 DEF Hear, Swaps
  <2>2. /\ marred' \in Marks /\ marred'.lost = marred.lost /\ marred'.elsewhere = marred.elsewhere
        /\ marred'.edited = marred.edited /\ marred'.crossed = marred.crossed
        /\ marred.swapped \/ Swaps(req.phone) => marred'.swapped
    BY <1>1, <2>1, SwapFacts
  <2>3. /\ mine' \in [token : Phones \cup {Nil}, me : Phones \cup {Nil}] /\ mine'.token = req.phone
        /\ req.phone # Nil
    BY <1>1, <1>2, <2>1, EnrolAssumption
  <2>4. CASE req.to = "verify"
    <3>1. scr' = [scr EXCEPT !.step = 3] /\ req' = NoReq
      BY <1>7, <2>4 DEF Hear
    <3>2. /\ scr' \in Screens /\ scr'.step = 3 /\ scr'.sentTo = scr.sentTo /\ scr'.view = scr.view
          /\ scr'.phone = scr.phone
      BY <1>1, <3>1 DEF Screens
    <3>3. EnrolTypeOK'
      BY <1>1, <2>2, <2>3, <3>1, <3>2 DEF EnrolTypeOK
    <3>4. /\ scr.view \in {"register", "reset"} => scr.step = 2 /\ req.phone = scr.phone
          /\ scr.view \in {"register", "reset"} =>
               acct[req.phone].is = "bare" \/ marred.lost \/ marred.elsewhere \/ LeftGoesOn
      BY <1>1, <2>4 DEF EnrolInv, ScreenStands, Asks
    <3>5. ScreenStands'
      BY <1>1, <1>5, <2>2, <2>3, <3>1, <3>2, <3>4, NoReqFacts DEF ScreenStands, Asks
    <3>6. StepFitsNumber'
      BY <1>1, <1>5, <2>2, <2>3, <3>1, <3>2, <3>4 DEF EnrolInv, StepFitsNumber
    <3> QED
      BY <1>4, <2>2, <3>1, <3>3, <3>5, <3>6 DEF EnrolInv
  <2>5. CASE req.to # "verify"
    <3>1. scr' = scr /\ req' = Loading(req)
      BY <1>7, <2>5 DEF Hear
    <3>2. EnrolTypeOK'
      BY <1>1, <1>3, <1>7, <2>2, <2>3, <2>5, <3>1 DEF EnrolTypeOK
    <3>3. req' # NoReq /\ req'.what = "load" /\ req'.to = req.to
      BY <1>3, <3>1, NoReqFacts
    <3>4. ScreenStands'
      BY <1>1, <1>2, <2>3, <3>1, <3>3 DEF EnrolInv, ScreenStands, Asks
    <3>5. mine.token # req.phone => mine.token = Nil \/ marred'.swapped
      BY <2>2 DEF Swaps
    <3>6. StepFitsNumber'
      BY <1>1, <2>2, <2>3, <3>1, <3>3, <3>5 DEF EnrolInv, StepFitsNumber, ScreenStands
    <3> QED
      BY <1>4, <2>2, <3>1, <3>2, <3>4, <3>6 DEF EnrolInv
  <2> QED
    BY <2>4, <2>5
<1> QED
  BY <1>6, <1>7

LEMMA HearLeftStands == ASSUME EnrolInv, HearLeft PROVE EnrolInv'
<1>1. /\ EnrolTypeOK /\ req \in {NoReq} \cup Requests \cup Answers /\ left \in {NoReq} \cup Requests \cup Answers
      /\ mine \in [token : Phones \cup {Nil}, me : Phones \cup {Nil}]
      /\ left.what = "answer" /\ UNCHANGED <<acct, codes, scr, req, gone, said, asks>>
  BY DEF HearLeft, EnrolInv, EnrolTypeOK
<1>2. left \in Answers /\ left # NoReq /\ left \notin Requests /\ left.phone \in Phones /\ left.to \in Whats
  BY <1>1, Kinds, LoadingFacts DEF Whats
<1>3. /\ left.to \notin {"start", "verify"} => Loading(left) \in Answers
      /\ Loading(left).what = "load" /\ Loading(left).to = left.to
      /\ Loading(left).phone = left.phone /\ Loading(left).id = left.id /\ Loading(left) \notin Requests
  <2>1. Loading(left).what = "load"
    BY <1>2, LoadingFacts
  <2>2. Loading(left) \notin Requests
    BY <2>1 DEF Requests, Whats
  <2> QED
    BY <1>2, <2>1, <2>2, LoadingFacts
<1>4. /\ left' = IF left.to \in {"start", "verify"} THEN NoReq ELSE Loading(left)
      /\ mine' = IF left.to = "start" THEN mine ELSE [mine EXCEPT !.token = left.phone]
      /\ marred' = [marred EXCEPT !.swapped = marred.swapped \/ (left.to # "start" /\ mine.token # left.phone)]
      /\ (left.to # "start" /\ mine.token # left.phone) \in BOOLEAN
  BY DEF HearLeft
<1>5. /\ marred' \in Marks /\ marred'.lost = marred.lost /\ marred'.elsewhere = marred.elsewhere
      /\ marred'.edited = marred.edited /\ marred'.crossed = marred.crossed
      /\ marred.swapped \/ (left.to # "start" /\ mine.token # left.phone) => marred'.swapped
  BY <1>1, <1>4, SwapFacts
<1>6. /\ mine' \in [token : Phones \cup {Nil}, me : Phones \cup {Nil}]
      /\ mine'.token = mine.token \/ (marred'.swapped /\ mine'.token = left.phone /\ mine'.token # Nil)
  BY <1>1, <1>2, <1>4, <1>5, EnrolAssumption
<1>7. EnrolTypeOK'
  BY <1>1, <1>3, <1>4, <1>5, <1>6 DEF EnrolTypeOK
<1>8. /\ \A o \in Pending' : o \in Pending
      /\ \A x \in Answered' : \E y \in Answered : y.id = x.id
      /\ \A x \in Written' : \E y \in Written : y.phone = x.phone /\ y.id = x.id
  BY <1>1, <1>2, <1>3, <1>4, NoReqFacts DEF Pending, Answered, Written
<1>9. gone' # {} => marred'.lost
  BY <1>1, <1>5 DEF EnrolInv, PendingStands
<1>10. CodesStand' /\ PendingStands' /\ WritesStand'
  BY <1>1, <1>5, <1>8, <1>9, TabWrites
<1>11. LeftGoesOn => LeftGoesOn'
  BY <1>1, <1>3, <1>4 DEF LeftGoesOn
<1>12. ScreenStands'
  BY <1>1, <1>5, <1>6, <1>11 DEF EnrolInv, ScreenStands, Asks
<1>13. StepFitsNumber'
  BY <1>1, <1>5, <1>6, <1>11 DEF EnrolInv, StepFitsNumber
<1> QED
  BY <1>7, <1>10, <1>12, <1>13 DEF EnrolInv

LEMMA LoadedStands == ASSUME EnrolInv, Loaded PROVE EnrolInv'
<1>1. /\ EnrolTypeOK /\ req \in {NoReq} \cup Requests \cup Answers /\ left \in {NoReq} \cup Requests \cup Answers
      /\ mine \in [token : Phones \cup {Nil}, me : Phones \cup {Nil}]
      /\ said \in {<<>>} \cup {<<x>> : x \in [phone : Phones, id : Nat]}
      /\ UNCHANGED <<acct, codes, gone, asks, marred>>
  BY DEF Loaded, EnrolInv, EnrolTypeOK
<1>2. PICK r \in {req, left} :
        /\ GoOn(r) /\ req' \in {req, NoReq} /\ left' \in {left, NoReq}
  BY DEF Loaded
<1>3. /\ r.what = "load" /\ mine' = [mine EXCEPT !.me = mine.token] /\ scr' = Open("home")
      /\ said' = IF r.to = "signIn" THEN said ELSE <<[phone |-> r.phone, id |-> r.id]>>
  BY <1>2 DEF GoOn
<1>4. r \in Answers /\ r.phone \in Phones /\ r.id \in Nat
  <2>1. r \in Answers
    BY <1>1, <1>2, <1>3, Kinds
  <2> QED
    BY <2>1 DEF Answers
<1>5. scr'.view = "home" /\ scr' \in Screens /\ mine' \in [token : Phones \cup {Nil}, me : Phones \cup {Nil}]
  BY <1>1, <1>3 DEF Open, Screens
<1>6. said' \in {<<>>} \cup {<<x>> : x \in [phone : Phones, id : Nat]}
  BY <1>1, <1>3, <1>4
<1>7. EnrolTypeOK'
  BY <1>1, <1>2, <1>5, <1>6 DEF EnrolTypeOK
<1>8. ASSUME r.to # "signIn" PROVE r \in Written
  <2>1. r.to \in {"setPin", "proved"}
    BY <1>3, <1>4, <1>8, LoadingFacts
  <2> QED
    BY <1>2, <1>4, <2>1 DEF Written, Answered
<1>9. /\ \A o \in Pending' : o \in Pending
      /\ \A x \in Answered' : x \in Answered
  BY <1>1, <1>2, NoReqFacts DEF Pending, Answered
<1>10. ASSUME NEW x \in Written' PROVE \E y \in Written : y.phone = x.phone /\ y.id = x.id
  <2>1. CASE x \in Answered' /\ x.to \in {"setPin", "proved"}
    BY <1>9, <2>1 DEF Written
  <2>2. CASE \E i \in DOMAIN said' : x = said'[i]
    <3>1. CASE r.to = "signIn"
      BY <1>3, <2>2, <3>1 DEF Written
    <3>2. CASE r.to # "signIn"
      BY <1>3, <1>8, <2>2, <3>2
    <3> QED
      BY <3>1, <3>2
  <2> QED
    BY <1>10, <2>1, <2>2 DEF Written
<1>11. gone' # {} => marred'.lost
  BY <1>1 DEF EnrolInv, PendingStands
<1>12. CodesStand' /\ PendingStands' /\ WritesStand'
  BY <1>1, <1>9, <1>10, <1>11, MarksStay, TabWrites
<1> QED
  BY <1>5, <1>7, <1>12, ScreenOpens DEF EnrolInv

LEMMA MishapFacts ==
  ASSUME EnrolTypeOK, marred' = [marred EXCEPT !.mishaps = marred.mishaps + 1, !.lost = TRUE]
  PROVE  /\ marred' \in Marks /\ marred'.lost /\ marred'.elsewhere = marred.elsewhere
         /\ marred'.edited = marred.edited /\ marred'.swapped = marred.swapped
         /\ marred'.crossed = marred.crossed
<1>1. marred \in Marks /\ TRUE \in BOOLEAN
  BY DEF EnrolTypeOK
<1>2. marred.mishaps + 1 \in Nat
  BY <1>1 DEF Marks
<1> QED
  BY <1>1, <1>2 DEF Marks

LEMMA LoseStands == ASSUME EnrolInv, Lose PROVE EnrolInv'
<1>1. /\ EnrolTypeOK /\ req \in {NoReq} \cup Requests \cup Answers /\ gone \in SUBSET Requests
      /\ req # NoReq /\ req' = NoReq /\ UNCHANGED <<acct, codes, scr, mine, left, said, asks>>
      /\ gone' \in {gone} \cup (IF req.what \in {"answer", "load"} THEN {} ELSE {gone \cup {req}})
      /\ marred' = [marred EXCEPT !.mishaps = marred.mishaps + 1, !.lost = TRUE]
  BY DEF Lose, EnrolInv, EnrolTypeOK
<1>2. /\ marred' \in Marks /\ marred'.lost /\ marred'.elsewhere = marred.elsewhere
      /\ marred'.edited = marred.edited /\ marred'.swapped = marred.swapped
      /\ marred'.crossed = marred.crossed
  BY <1>1, MishapFacts
<1>3. req \in Requests \/ req.what \in {"answer", "load"}
  BY <1>1, Kinds
<1>4. gone' = gone \/ (req \in Requests /\ gone' = gone \cup {req})
  BY <1>1, <1>3
<1>5. EnrolTypeOK'
  BY <1>1, <1>2, <1>4 DEF EnrolTypeOK
<1>6. /\ \A o \in Pending' : o \in Pending
      /\ \A x \in Answered' : x \in Answered
      /\ \A x \in Written' : x \in Written
  BY <1>1, <1>4, NoReqFacts DEF Pending, Answered, Written
<1>7. CodesStand' /\ PendingStands' /\ WritesStand'
  BY <1>1, <1>2, <1>6, TabWrites
<1>8. ScreenStands' /\ StepFitsNumber'
  BY <1>1, <1>2, RequestOver
<1> QED
  BY <1>5, <1>7, <1>8 DEF EnrolInv

LEMMA ReloadStands == ASSUME EnrolInv, Reload PROVE EnrolInv'
<1>1. /\ EnrolTypeOK /\ req \in {NoReq} \cup Requests \cup Answers /\ gone \in SUBSET Requests
      /\ left \in {NoReq} \cup Requests \cup Answers /\ scr \in Screens
      /\ mine \in [token : Phones \cup {Nil}, me : Phones \cup {Nil}]
      /\ gone' = gone \cup {r \in {req, left} : r.what \notin {"none", "answer", "load"}}
      /\ req' = NoReq /\ left' = NoReq /\ mine' = [mine EXCEPT !.me = mine.token]
      /\ scr' = Open(IF mine.token = Nil THEN scr.view ELSE "home")
      /\ marred' = [marred EXCEPT !.mishaps = marred.mishaps + 1, !.lost = TRUE]
      /\ UNCHANGED <<acct, codes, said, asks>>
  BY DEF Reload, EnrolInv, EnrolTypeOK
<1>2. /\ marred' \in Marks /\ marred'.lost /\ marred'.crossed = marred.crossed
  BY <1>1, MishapFacts
<1>3. \A r \in {req, left} : r.what \notin {"none", "answer", "load"} => r \in Requests
  BY <1>1, Kinds
<1>4. /\ scr'.step = 1 /\ scr' \in Screens /\ mine' \in [token : Phones \cup {Nil}, me : Phones \cup {Nil}]
  BY <1>1 DEF Open, Screens
<1>5. EnrolTypeOK'
  BY <1>1, <1>2, <1>3, <1>4 DEF EnrolTypeOK
<1>6. /\ \A o \in Pending' : o \in Pending
      /\ \A x \in Answered' : x \in Answered
      /\ \A x \in Written' : x \in Written
  BY <1>1, <1>3, NoReqFacts DEF Pending, Answered, Written
<1>7. CodesStand' /\ PendingStands' /\ WritesStand'
  BY <1>1, <1>2, <1>6, TabWrites
<1> QED
  BY <1>1, <1>4, <1>5, <1>7, ScreenOpens DEF EnrolInv

----------------------------------------------------------------------------
\* The customer.

LEMMA TypeNumberStands == ASSUME EnrolInv, NEW n \in Phones, TypeNumber(n) PROVE EnrolInv'
<1> DEFINE busy == req # NoReq
           c == marred.edited \/ busy
<1>1. /\ EnrolTypeOK /\ scr \in Screens /\ marred \in Marks /\ scr.step = 1
      /\ scr' = [scr EXCEPT !.phone = n] /\ marred' = [marred EXCEPT !.edited = c] /\ c \in BOOLEAN
      /\ UNCHANGED <<acct, codes, mine, req, left, gone, said, asks>>
  BY DEF TypeNumber, EnrolInv, EnrolTypeOK
<1>2. marred.edited \/ req # NoReq => c
  OBVIOUS
<1> HIDE DEF c
<1>3. /\ marred' \in Marks /\ marred'.lost = marred.lost /\ marred'.elsewhere = marred.elsewhere
      /\ marred'.swapped = marred.swapped /\ marred'.crossed = marred.crossed /\ marred'.edited = c
  BY <1>1 DEF Marks
<1>4. marred.edited \/ req # NoReq => marred'.edited
  BY <1>2, <1>3, Zenon
<1>5. scr' \in Screens /\ scr'.step = 1 /\ scr'.view = scr.view
  BY <1>1 DEF Screens
<1>6. EnrolTypeOK'
  BY <1>1, <1>3, <1>5 DEF EnrolTypeOK
<1>7. /\ \A o \in Pending' : o \in Pending
      /\ \A x \in Answered' : x \in Answered
      /\ \A x \in Written' : x \in Written
  BY <1>1 DEF Pending, Answered, Written
<1>8. gone' # {} => marred'.lost
  BY <1>1, <1>3 DEF EnrolInv, PendingStands
<1>9. CodesStand' /\ PendingStands' /\ WritesStand'
  BY <1>1, <1>3, <1>7, <1>8, TabWrites
<1>10. req = NoReq => req.what = "none"
  BY NoReqFacts
<1>11. ScreenStands'
  BY <1>1, <1>4, <1>5, <1>10 DEF EnrolInv, ScreenStands, Asks
<1>12. StepFitsNumber'
  BY <1>5 DEF StepFitsNumber
<1> QED
  BY <1>6, <1>9, <1>11, <1>12 DEF EnrolInv

\* A request goes out.
LEMMA PressWrites ==
  ASSUME EnrolInv, NEW what \in {"start", "verify", "setPin", "reset", "signIn"}, NEW for \in Purposes,
         NEW phone \in Phones, NEW code, Press(what, for, phone, code),
         IF what \in {"verify", "reset"} THEN code \in DOMAIN codes ELSE code = Nil,
         what = "reset" => codes[code].to = phone /\ codes[code].for = "reset"
  PROVE  /\ EnrolTypeOK' /\ CodesStand' /\ PendingStands' /\ WritesStand'
         /\ req = NoReq /\ req'.what = what /\ req'.phone = phone /\ req' # NoReq
         /\ UNCHANGED <<acct, scr, mine, left, marred>>
<1>1. /\ req = NoReq /\ asks' = asks + 1 /\ EnrolTypeOK /\ CodesStand /\ asks \in Nat
      /\ req' = [what |-> what, for |-> for, phone |-> phone, code |-> code, id |-> asks + 1]
      /\ UNCHANGED <<acct, codes, scr, mine, left, gone, said, marred>> /\ codes \in Seq(Codes)
  BY DEF Press, EnrolInv, EnrolTypeOK
<1>2. code \in Nat \cup {Nil}
  BY <1>1
<1>3. /\ req' \in Requests /\ req'.what = what /\ req'.phone = phone /\ req'.code = code /\ req'.id = asks + 1
  BY <1>1, <1>2 DEF Requests, Whats
<1>4. EnrolTypeOK'
  BY <1>1, <1>3 DEF EnrolTypeOK
<1>5. CodesGoOn /\ CodesStand' /\ AcctGoesOn
  BY <1>1, CodesRest, AcctRests
<1>6. /\ \A o \in Pending' : o \in Pending \/ o = req'
      /\ \A x \in Answered' : x \in Answered
      /\ \A x \in Written' : x \in Written
  <2>1. req' \notin Answers
    BY <1>3 DEF Answers
  <2> QED
    BY <1>1, <2>1 DEF Pending, Answered, Written
<1>7. /\ \A o \in Pending' :
           \/ o \in Pending
           \/ /\ o.id = asks + 1 /\ asks' = asks + 1 /\ o.what # "proved"
              /\ o.what \in {"verify", "reset"} => o.code \in DOMAIN codes'
              /\ o.what = "reset" => codes'[o.code].to = o.phone /\ codes'[o.code].for = "reset"
      /\ \A x \in Answered' : \E y \in Pending \cup Answered : y.id = x.id
      /\ \A x \in Written' : (\E y \in Written : y.phone = x.phone /\ y.id = x.id)
                             \/ (x.phone \in Phones /\ x.id \in Nat /\ Lasts(x.phone, x.id)')
  BY <1>1, <1>3, <1>6
<1>8. gone' # {} => marred'.lost
  BY <1>1 DEF EnrolInv, PendingStands
<1>9. PendingStands' /\ WritesStand'
  BY <1>1, <1>5, <1>7, <1>8, WritesGoOn
<1> QED
  BY <1>1, <1>3, <1>4, <1>5, <1>9, NoReqFacts

LEMMA PressStands ==
  ASSUME EnrolInv,
         \/ SendCode \/ SavePin
         \/ \E i \in Typed : Verify(i) \/ ResetPin(i)
         \/ \E n \in Phones : SignIn(n)
  PROVE  EnrolInv'
<1>1. /\ EnrolTypeOK /\ scr \in Screens /\ mine.token \in Phones \cup {Nil} /\ scr.phone \in Phones \cup {Nil}
      /\ Purpose \in {"registration", "reset"} /\ \A i \in DOMAIN codes : codes[i].to \in Phones
  BY CodeEntry DEF EnrolInv, EnrolTypeOK, Screens, Purpose
<1>2. CASE SendCode
  <2>1. Press("start", Purpose, scr.phone, Nil) /\ scr.step \in {1, 2} /\ scr.phone \in Phones /\ Purpose \in Purposes
    BY <1>1, <1>2 DEF SendCode, Purposes
  <2>2. /\ EnrolTypeOK' /\ CodesStand' /\ PendingStands' /\ WritesStand'
        /\ req = NoReq /\ req'.what = "start" /\ req'.phone = scr.phone /\ req' # NoReq
        /\ UNCHANGED <<acct, scr, mine, left, marred>>
    BY <2>1, PressWrites
  <2>3. ScreenStands' /\ StepFitsNumber'
    BY <2>1, <2>2 DEF EnrolInv, ScreenStands, StepFitsNumber, Asks
  <2> QED
    BY <2>2, <2>3 DEF EnrolInv
<1>3. ASSUME NEW i \in Typed, Verify(i) PROVE EnrolInv'
  <2>1. /\ Press("verify", "registration", scr.phone, i) /\ scr.view = "register" /\ scr.step = 2
        /\ i \in DOMAIN codes /\ scr.phone \in Phones /\ "registration" \in Purposes
    BY <1>1, <1>3 DEF Verify, Typed, Purposes
  <2>2. /\ EnrolTypeOK' /\ CodesStand' /\ PendingStands' /\ WritesStand'
        /\ req = NoReq /\ req'.what = "verify" /\ req'.phone = scr.phone /\ req' # NoReq
        /\ UNCHANGED <<acct, scr, mine, left, marred>>
    BY <2>1, PressWrites
  <2>3. ScreenStands' /\ StepFitsNumber'
    BY <2>1, <2>2 DEF EnrolInv, ScreenStands, StepFitsNumber, Asks
  <2> QED
    BY <2>2, <2>3 DEF EnrolInv
<1>4. CASE SavePin
  <2>1. /\ Press("setPin", "registration", mine.token, Nil) /\ scr.step = 3
        /\ mine.token \in Phones /\ "registration" \in Purposes
    BY <1>1, <1>4 DEF SavePin, Purposes
  <2>2. /\ EnrolTypeOK' /\ CodesStand' /\ PendingStands' /\ WritesStand'
        /\ req = NoReq /\ req'.what = "setPin" /\ req' # NoReq
        /\ UNCHANGED <<acct, scr, mine, left, marred>>
    BY <2>1, PressWrites
  <2>3. LeftGoesOn' <=> LeftGoesOn
    BY <2>2 DEF LeftGoesOn
  <2>4. ScreenStands' /\ StepFitsNumber'
    BY <2>1, <2>2, <2>3 DEF EnrolInv, ScreenStands, StepFitsNumber, Asks
  <2> QED
    BY <2>2, <2>4 DEF EnrolInv
<1>5. ASSUME NEW i \in Typed, ResetPin(i) PROVE EnrolInv'
  <2>1. /\ Press("reset", "reset", scr.phone, i) /\ scr.view = "reset" /\ scr.step = 2 /\ i \in DOMAIN codes
        /\ codes[i].to = scr.phone /\ codes[i].for = "reset" /\ scr.phone \in Phones /\ "reset" \in Purposes
    BY <1>1, <1>5 DEF ResetPin, Typed, Purposes, Purpose
  <2>2. /\ EnrolTypeOK' /\ CodesStand' /\ PendingStands' /\ WritesStand'
        /\ req = NoReq /\ req'.what = "reset" /\ req' # NoReq
        /\ UNCHANGED <<acct, scr, mine, left, marred>>
    BY <2>1, PressWrites
  <2>3. ScreenStands' /\ StepFitsNumber'
    BY <2>1, <2>2 DEF EnrolInv, ScreenStands, StepFitsNumber, Asks
  <2> QED
    BY <2>2, <2>3 DEF EnrolInv
<1>6. ASSUME NEW n \in Phones, SignIn(n) PROVE EnrolInv'
  <2>1. Press("signIn", "session", n, Nil) /\ scr.view = "signIn" /\ "session" \in Purposes
    BY <1>6 DEF SignIn, Purposes
  <2>2. /\ EnrolTypeOK' /\ CodesStand' /\ PendingStands' /\ WritesStand'
        /\ UNCHANGED <<acct, scr, mine, left, marred>>
    BY <2>1, PressWrites
  <2>3. ScreenStands' /\ StepFitsNumber'
    BY <2>1, <2>2, ScreenOpens
  <2> QED
    BY <2>2, <2>3 DEF EnrolInv
<1> QED
  BY <1>2, <1>3, <1>4, <1>5, <1>6

LEMMA LeavesStand ==
  ASSUME EnrolInv, ChangeNumber \/ SignOut \/ \E view \in {"signIn", "register", "reset"} : Visit(view)
  PROVE  EnrolInv'
<1>1. EnrolTypeOK /\ scr \in Screens /\ UNCHANGED <<acct, codes, gone, said, asks, marred>>
  BY DEF EnrolInv, EnrolTypeOK, ChangeNumber, SignOut, Visit
<1>2. /\ req' = NoReq /\ scr' \in Screens /\ scr'.step = 1
      /\ mine' \in [token : Phones \cup {Nil}, me : Phones \cup {Nil}]
      /\ left' = left \/ left' = req
  <2>1. CASE ChangeNumber
    BY <1>1, <2>1 DEF ChangeNumber, Screens, EnrolTypeOK
  <2>2. CASE SignOut
    BY <1>1, <2>2 DEF SignOut, Screens, EnrolTypeOK, Open
  <2>3. CASE \E view \in {"signIn", "register", "reset"} : Visit(view)
    BY <1>1, <2>3 DEF Visit, Screens, EnrolTypeOK, Open
  <2> QED
    BY <2>1, <2>2, <2>3
<1>3. EnrolTypeOK'
  BY <1>1, <1>2 DEF EnrolTypeOK
<1>4. /\ \A o \in Pending' : o \in Pending
      /\ \A x \in Answered' : x \in Answered
      /\ \A x \in Written' : x \in Written
  BY <1>1, <1>2, NoReqFacts DEF Pending, Answered, Written
<1>5. gone' # {} => marred'.lost
  BY <1>1 DEF EnrolInv, PendingStands
<1>6. CodesStand' /\ PendingStands' /\ WritesStand'
  BY <1>1, <1>4, <1>5, TabWrites
<1> QED
  BY <1>2, <1>3, <1>6, ScreenOpens DEF EnrolInv

----------------------------------------------------------------------------

LEMMA ElsewhereStands == ASSUME EnrolInv, Elsewhere PROVE EnrolInv'
<1> DEFINE c == scr.step = 3 \/ req.what = "answer"
<1>1. /\ EnrolTypeOK /\ CodesStand /\ marred \in Marks /\ asks \in Nat /\ asks' = asks + 1 /\ c \in BOOLEAN
      /\ marred' = [marred EXCEPT !.mishaps = marred.mishaps + 1, !.elsewhere = c]
      /\ UNCHANGED <<scr, mine, req, left, gone, said>> /\ codes \in Seq(Codes)
      /\ \A n \in Phones : acct[n].by \in Nat
  BY DEF Elsewhere, EnrolInv, EnrolTypeOK
<1>2. scr.step = 3 \/ req.what = "answer" => c
  OBVIOUS
<1> HIDE DEF c
<1>3. /\ marred' \in Marks /\ marred'.lost = marred.lost /\ marred'.edited = marred.edited
      /\ marred'.swapped = marred.swapped /\ marred'.crossed = marred.crossed /\ marred'.elsewhere = c
  <2>1. marred.mishaps + 1 \in Nat
    BY <1>1 DEF Marks
  <2> QED
    BY <1>1, <2>1 DEF Marks
<1>4. scr.step = 3 \/ req.what = "answer" => marred'.elsewhere
  BY <1>2, <1>3, Zenon
<1>5. ASSUME NEW n \in Phones, Pinned(n, asks + 1) PROVE AcctGoesOn
  <2>1. /\ acct' \in [Phones -> [is : {"missing", "bare", "pinned"}, by : Nat]]
        /\ acct'[n].is = "pinned" /\ acct'[n].by = asks + 1
        /\ \A m \in Phones : m # n => acct'[m] = acct[m]
    BY <1>1, <1>5, PinnedFacts
  <2> QED
    BY <1>1, <2>1 DEF AcctGoesOn, HasPin
<1>6. CodesGoOn /\ CodesStand' /\ AcctGoesOn
  <2>1. ASSUME NEW n \in Phones, NEW for \in {"registration", "reset"},
               (for = "reset") = HasPin(n), Sent(n, for), acct' = acct
        PROVE  CodesGoOn /\ CodesStand' /\ AcctGoesOn
    BY <1>1, <2>1, SentFacts, AcctRests
  <2>2. ASSUME NEW n \in Phones, Pinned(n, asks + 1), codes' = codes
        PROVE  CodesGoOn /\ CodesStand' /\ AcctGoesOn
    BY <1>1, <1>5, <2>2, CodesRest
  <2>3. ASSUME NEW i \in DOMAIN codes, Spent(i), Pinned(codes[i].to, asks + 1)
        PROVE  CodesGoOn /\ CodesStand' /\ AcctGoesOn
    <3>1. codes[i].to \in Phones
      BY <1>1, CodeEntry
    <3>2. AcctGoesOn
      BY <1>5, <2>3, <3>1
    <3> QED
      BY <1>1, <2>3, <3>2, SpentFacts
  <2> QED
    BY <2>1, <2>2, <2>3 DEF Elsewhere
<1>7. EnrolTypeOK'
  BY <1>1, <1>3, <1>6 DEF EnrolTypeOK, CodesGoOn, AcctGoesOn
<1>8. /\ \A o \in Pending' : o \in Pending
      /\ \A x \in Answered' : x \in Answered
      /\ \A x \in Written' : x \in Written
  BY <1>1 DEF Pending, Answered, Written
<1>9. gone' # {} => marred'.lost
  BY <1>1, <1>3 DEF EnrolInv, PendingStands
<1>10. \A x \in Answered' : \E y \in Pending \cup Answered : y.id = x.id
  BY <1>8
<1>11. asks' \in Nat /\ asks' >= asks
  BY <1>1
<1>12. PendingStands' /\ WritesStand'
  BY <1>3, <1>6, <1>8, <1>9, <1>10, <1>11, WritesGoOn
<1>13. ScreenStands'
  BY <1>1, <1>3, <1>4 DEF EnrolInv, ScreenStands, Asks
<1>14. StepFitsNumber'
  BY <1>1, <1>3, <1>4 DEF EnrolInv, StepFitsNumber
<1> QED
  BY <1>6, <1>7, <1>12, <1>13, <1>14 DEF EnrolInv

LEMMA EnrolInvInitially == EnrolInit => EnrolInv
<1> SUFFICES ASSUME EnrolInit PROVE EnrolInv
  OBVIOUS
<1>1. acct \in [Phones -> [is : {"missing", "bare", "pinned"}, by : Nat]]
  BY DEF EnrolInit
<1>2. /\ scr \in Screens /\ scr.view = "signIn" /\ codes \in Seq(Codes) /\ codes = <<>> /\ DOMAIN codes = {}
      /\ said = <<>> /\ DOMAIN said = {} /\ gone = {} /\ req = NoReq /\ left = NoReq /\ asks = 0
  BY DEF EnrolInit, Open, Screens
<1>3. /\ mine \in [token : Phones \cup {Nil}, me : Phones \cup {Nil}] /\ marred \in Marks
  BY DEF EnrolInit, Marks
<1>4. EnrolTypeOK
  BY <1>1, <1>2, <1>3 DEF EnrolTypeOK
<1>5. Pending = {} /\ Answered = {} /\ Written = {}
  BY <1>2, NoReqFacts DEF Pending, Answered, Written
<1>6. CodesStand /\ PendingStands /\ WritesStand
  BY <1>2, <1>5 DEF CodesStand, PendingStands, WritesStand
<1>7. ScreenStands /\ StepFitsNumber
  BY <1>2 DEF ScreenStands, StepFitsNumber
<1> QED
  BY <1>4, <1>6, <1>7 DEF EnrolInv

LEMMA EnrolInvStays == ASSUME EnrolInv, [EnrolNext]_enrolVars PROVE EnrolInv'
<1>1. CASE UNCHANGED enrolVars
  BY <1>1 DEF enrolVars, EnrolInv, EnrolTypeOK, CodesStand, PendingStands, WritesStand, ScreenStands,
              StepFitsNumber, Pending, Answered, Written, Lasts, HasPin, Unused, Asks, LeftGoesOn
<1>2. CASE EnrolNext
  <2>1. ASSUME NEW n \in Phones, TypeNumber(n) PROVE EnrolInv'
    BY <2>1, TypeNumberStands
  <2> QED
    BY <1>2, <2>1, ServeStands, ServeResetStands, RefuseStands, HearStands, HearLeftStands, LoadedStands,
       LoseStands, ReloadStands, PressStands, LeavesStand, ElsewhereStands DEF EnrolNext
<1> QED
  BY <1>1, <1>2

\* What the screens of registration and PIN reset say was done was done, for any numbers,
\* codes, requests that are left behind or arrive late, and other devices: the PIN reported
\* as saved is not replaced by an earlier request (pin.service.ts:111, otp.service.ts:120)
\* unless a reset is held up between its code and its PIN (auth.service.ts:181-188), and a
\* step is about the number the screen shows but for what the histories mark.
THEOREM EnrolmentIsAsSaidAlways == EnrolSpec => []EnrolmentIsAsSaid
<1>1. EnrolInit => EnrolInv
  BY EnrolInvInitially
<1>2. EnrolInv /\ [EnrolNext]_enrolVars => EnrolInv'
  BY EnrolInvStays
<1>3. EnrolInv => EnrolmentIsAsSaid
  <2>1. ASSUME EnrolInv, said # <<>> PROVE acct[said[1].phone].by >= said[1].id \/ marred.crossed
    <3>1. 1 \in DOMAIN said
      BY <2>1 DEF EnrolInv, EnrolTypeOK
    <3>2. Lasts(said[1].phone, said[1].id)
      BY <2>1, <3>1 DEF EnrolInv, WritesStand, Written
    <3> QED
      BY <3>2 DEF Lasts
  <2> QED
    BY <2>1 DEF EnrolInv, EnrolmentIsAsSaid, PinIsAsSaid
<1> QED
  BY <1>1, <1>2, <1>3, PTL DEF EnrolSpec

=============================================================================
