-------------------------------- MODULE Wizard --------------------------------
(***************************************************************************)
(* The onboarding screen: details, review and consent, then the status     *)
(* until the customer may bid; against the investor service, where another *)
(* device of the same customer and the staff act at the same time.         *)
(*                                                                         *)
(* The service's steps are one step here (see Onboarding).                 *)
(***************************************************************************)
EXTENDS Naturals, Sequences

CONSTANTS
  Named,      \* what may be typed, but for the account
  Valid,      \* what the service accepts of it
  Account,    \* the account number of an existing customer
  Unsaid,     \* nothing typed
  MaxSaves, MaxLosses  \* bounds: saves and submissions, requests lost

ASSUME WizardAssumption ==
  Valid \subseteq Named /\ Unsaid \notin Named \cup {Account} /\ MaxSaves \in Nat /\ MaxLosses \in Nat

VARIABLES
  row,     \* the investor at the service, with the details
  known,   \* what the screen last got of it: <<>> or one view
  fields,  \* what is typed, and whether the review is shown
  request,   \* the request under way
  stray,  \* a request whose sender gave up, still under way
  last,    \* the last submission from this screen
  behind,  \* the row was written by others since this screen's save
  doubt,   \* an answer was lost since the last one
  saves, lost

wizardVars == <<row, known, fields, request, stray, last, behind, doubt, saves, lost>>

----------------------------------------------------------------------------
(* The investor service                                                    *)

Editable == {"draft", "info_requested"}

NextStep(r) ==
  CASE r.status = "draft" -> IF r.profile = <<>> THEN "profile" ELSE "submit"
    [] r.status = "info_requested" -> "provide_info"
    [] r.status \in {"under_review", "rejected"} -> r.status
    [] r.status = "approved" ->
         IF r.cds # "active" THEN "awaiting_cds" ELSE IF r.linked THEN "ready" ELSE "awaiting_bank"

View(r) == [status |-> r.status, next |-> NextStep(r), profile |-> r.profile, cds |-> r.cds, linked |-> r.linked,
            canBid |-> r.status = "approved" /\ r.cds = "active" /\ r.linked]

Saved(details) == [row EXCEPT !.profile = <<details>>]

\* Straight through, or to the queue; a customer of the bank is linked at once.
Submits ==
  \E s \in {"under_review", "approved"}, l \in {row.linked, row.profile[1].account = Account} :
    row' = [row EXCEPT !.status = s, !.linked = l, !.cds = IF s = "approved" THEN "requested" ELSE @]

TakesSave(r, details) == r.status \in Editable /\ details.name \in Valid
TakesSubmit(r) == r.status \in Editable /\ r.profile # <<>>

\* Staff, Core Banking and the CDS.
MovesOn ==
  /\ \/ /\ row.status = "under_review"
        /\ \E s \in {"info_requested", "rejected", "approved"} :
             row' = [row EXCEPT !.status = s, !.cds = IF s = "approved" THEN "requested" ELSE @]
     \/ row.status = "approved" /\ ~row.linked /\ row' = [row EXCEPT !.linked = TRUE]
     \/ row.cds = "requested" /\ row' = [row EXCEPT !.cds = "active"]
  /\ UNCHANGED <<known, fields, request, stray, last, behind, doubt, saves, lost>>

\* The customer on another device.
OtherDevice ==
  /\ saves < MaxSaves /\ saves' = saves + 1
  /\ \/ \E n \in Valid : TakesSave(row, [name |-> n]) /\ row' = Saved([name |-> n, account |-> Unsaid])
     \/ TakesSubmit(row) /\ Submits
  /\ behind' = TRUE
  /\ UNCHANGED <<known, fields, request, stray, last, doubt, lost>>

----------------------------------------------------------------------------
(* The screen                                                              *)

NoRequest == [what |-> "nothing"]

WizardInit ==
  /\ row = [status |-> "draft", profile |-> <<>>, cds |-> "none", linked |-> FALSE]
  /\ known \in {<<>>, <<View(row)>>}
  /\ fields = [name |-> Unsaid, account |-> Unsaid, has |-> "unsaid", review |-> FALSE]
  /\ request = NoRequest /\ stray = <<>> /\ last = <<>>
  /\ behind = FALSE /\ doubt = FALSE /\ saves = 0 /\ lost = 0

Editing == known # <<>> /\ known[1].next \in {"profile", "submit", "provide_info"}

Complete(f) == f.name \in Named /\ (f.has = "no" \/ (f.has = "yes" /\ f.account = Account))

\* The details as sent, and as the review shows them.
Meant(f) == [name |-> f.name, account |-> IF f.has = "yes" THEN f.account ELSE Unsaid]

\* Also while a save is under way: only its button is disabled.
TypeIn(n, account, has) ==
  /\ Editing /\ ~fields.review
  /\ fields' = [fields EXCEPT !.name = n, !.account = account, !.has = has]
  /\ UNCHANGED <<row, known, request, stray, last, behind, doubt, saves, lost>>

Ask(r) ==
  /\ request = NoRequest /\ request' = r
  /\ UNCHANGED <<row, known, fields, stray, last, behind, doubt, lost>>

SaveAndReview ==
  /\ Editing /\ ~fields.review /\ Complete(fields)
  /\ saves < MaxSaves /\ saves' = saves + 1
  /\ Ask([what |-> "save", details |-> Meant(fields)])

\* All three consents given.
PressSubmit ==
  /\ Editing /\ fields.review
  /\ saves < MaxSaves /\ saves' = saves + 1
  /\ Ask([what |-> "submit", details |-> Meant(fields), status |-> known[1].status])

EditDetails ==
  /\ Editing /\ fields.review /\ request = NoRequest
  /\ fields' = [fields EXCEPT !.review = FALSE]
  /\ UNCHANGED <<row, known, request, stray, last, behind, doubt, saves, lost>>

\* "Check again"; and once when the screen opens without a status.
LookAgain ==
  /\ ~Editing /\ (known # <<>> => ~known[1].canBid)
  /\ UNCHANGED saves
  /\ Ask([what |-> "look"])

\* The service does what is request, or refuses.
Serve ==
  /\ request.what \in {"save", "submit", "look"}
  /\ \/ /\ request.what = "save" /\ TakesSave(row, request.details)
        /\ row' = Saved(request.details) /\ behind' = FALSE /\ UNCHANGED last
     \/ /\ request.what = "submit" /\ TakesSubmit(row)
        /\ Submits
        /\ last' = <<[meant |-> request.details, sent |-> row.profile[1], thought |-> request.status,
                      was |-> row.status, behind |-> behind, doubt |-> doubt]>>
        /\ UNCHANGED behind
     \/ request.what = "look" /\ UNCHANGED <<row, behind, last>>
  /\ request' = [what |-> "answer", to |-> request.what, view |-> View(row')]
  /\ UNCHANGED <<known, fields, stray, doubt, saves, lost>>

Refuse ==
  /\ \/ request.what = "save" /\ ~TakesSave(row, request.details)
     \/ request.what = "submit" /\ ~TakesSubmit(row)
  /\ request' = NoRequest
  /\ UNCHANGED <<row, known, fields, stray, last, behind, doubt, saves, lost>>

\* The request never arrives, or late; or its answer never does.
LoseIt ==
  /\ request # NoRequest /\ lost < MaxLosses /\ lost' = lost + 1
  /\ request' = NoRequest /\ doubt' = TRUE
  /\ stray' \in {stray} \cup (IF request.what \in {"save", "submit"} THEN {<<request>>} ELSE {})
  /\ UNCHANGED <<row, known, fields, last, behind, saves>>

ArriveLate ==
  /\ stray # <<>> /\ stray' = <<>>
  /\ \/ stray[1].what = "save" /\ TakesSave(row, stray[1].details) /\ row' = Saved(stray[1].details)
     \/ stray[1].what = "submit" /\ TakesSubmit(row) /\ Submits
  /\ behind' = TRUE
  /\ UNCHANGED <<known, fields, request, last, doubt, saves, lost>>

\* The details typed meanwhile are kept.
FilledOnce(view) == fields

\* Details that come with an answer replace the ones typed meanwhile.
Filled(view) ==
  IF view.profile = <<>> THEN fields
  ELSE [fields EXCEPT !.name = view.profile[1].name, !.account = view.profile[1].account,
                      !.has = IF view.profile[1].account = Unsaid THEN @ ELSE "yes"]

Hear ==
  /\ request.what = "answer" /\ request' = NoRequest
  /\ known' = <<request.view>> /\ doubt' = FALSE
  /\ fields' = [Filled(request.view) EXCEPT
       !.review = CASE request.to = "save" -> TRUE [] request.to = "submit" -> FALSE [] request.to = "look" -> @]
  /\ UNCHANGED <<row, stray, last, behind, saves, lost>>

WizardNext ==
  \/ MovesOn \/ OtherDevice
  \/ \E n \in Named \cup {Unsaid}, a \in {Account, Unsaid}, h \in {"yes", "no"} : TypeIn(n, a, h)
  \/ SaveAndReview \/ PressSubmit \/ EditDetails \/ LookAgain
  \/ Serve \/ Refuse \/ LoseIt \/ ArriveLate \/ Hear

WizardSpec == WizardInit /\ [][WizardNext]_wizardVars

----------------------------------------------------------------------------
(* Properties                                                              *)

\* A submission carries consents but no details: the service takes those it has
\* (onboarding.service.ts:103).  They are the ones the review showed, and the application
\* is still where the screen thought, unless another device or a late request of this one
\* wrote in between, or an answer was lost.
SubmitsKnowingly ==
  last # <<>> =>
    /\ last[1].sent = last[1].meant \/ last[1].behind
    /\ last[1].was = last[1].thought \/ last[1].behind \/ last[1].doubt

\* The four stages of the status panel that are done.
StagesDone(v) ==
  {"submitted"} \cup (IF v.status = "approved" THEN {"verified"} ELSE {})
    \cup (IF v.linked THEN {"bank"} ELSE {}) \cup (IF v.cds = "active" THEN {"cds"} ELSE {})

\* The banner on every other screen: what is missing before the customer may bid.
BannerShown(v) ==
  /\ ~v.canBid
  /\ v.next \in {"profile", "submit", "provide_info", "under_review", "awaiting_cds", "awaiting_bank", "rejected"}

\* A screen that is not out of date offers the form exactly while the service takes
\* details, and calls the customer ready, lets them to the bid form, takes the banner off
\* and marks every stage done together: five tables written apart
\* (onboarding.service.ts:27, 276, 300; OnboardingView.vue:41, 121;
\* OnboardingBanner.vue:14).
ScreenFitsService ==
  known = <<View(row)>> =>
    /\ Editing <=> row.status \in Editable
    /\ known[1].canBid <=> known[1].next = "ready"
    /\ BannerShown(known[1]) <=> ~known[1].canBid
    /\ ~Editing => (known[1].canBid <=> StagesDone(known[1]) = {"submitted", "verified", "bank", "cds"})

\* The onboarding screen says, and sends, what the service has.
WizardIsTrue == SubmitsKnowingly /\ ScreenFitsService

----------------------------------------------------------------------------
(* The inductive invariant                                                 *)

Details == [name : Named, account : {Account, Unsaid}]
Investors == [status : {"draft", "info_requested", "under_review", "approved", "rejected"},
              profile : {<<>>} \cup {<<d>> : d \in Details},
              cds : {"none", "requested", "active"}, linked : BOOLEAN]
Views == {View(r) : r \in Investors}
Fields == [name : Named \cup {Unsaid}, account : {Account, Unsaid},
           has : {"yes", "no", "unsaid"}, review : BOOLEAN]
Writes == [what : {"save"}, details : Details]
            \cup [what : {"submit"}, details : [name : Named \cup {Unsaid}, account : {Account, Unsaid}],
                  status : {"draft", "info_requested", "under_review", "approved", "rejected"}]
AnswersHome == [what : {"answer"}, to : {"save", "submit", "look"}, view : Views]

WizardTypeOK ==
  /\ row \in Investors /\ fields \in Fields
  /\ known \in {<<>>} \cup {<<v>> : v \in Views}
  /\ request \in {NoRequest, [what |-> "look"]} \cup Writes \cup AnswersHome
  /\ stray \in {<<>>} \cup {<<r>> : r \in Writes}
  /\ behind \in BOOLEAN /\ doubt \in BOOLEAN /\ saves \in Nat /\ lost \in Nat

\* The review shows what the service took and is at a form the service still takes.
ReviewIsKept ==
  fields.review =>
    /\ Editing
    /\ row.profile = <<Meant(fields)>> \/ behind
    /\ \/ row.status = known[1].status /\ row.status \in Editable
       \/ behind \/ doubt \/ (request.what = "answer" /\ request.to = "submit")

\* A request under way fits the screen it came from, an answer the row it tells of.
RequestFits ==
  /\ request.what = "save" => ~fields.review
  /\ request.what = "look" => ~fields.review
  /\ request.what = "submit" =>
       fields.review /\ request.details = Meant(fields) /\ request.status = known[1].status
  /\ request.what = "answer" /\ request.to = "look" => ~fields.review
  /\ request.what = "answer" /\ request.to = "save" =>
       /\ request.view.status \in Editable /\ request.view.profile # <<>>
       /\ (row.profile = request.view.profile /\ row.status = request.view.status) \/ behind

WizardInv == WizardTypeOK /\ ReviewIsKept /\ RequestFits /\ SubmitsKnowingly
=============================================================================
