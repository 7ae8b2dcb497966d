--------------------------------- MODULE Enrol ---------------------------------
(***************************************************************************)
(* The screens before the first one that needs a session: registering a    *)
(* number, choosing its PIN, signing in with it, and resetting it with a   *)
(* code; against as much of identity as answers them.  Logins.tla has the  *)
(* attempts, Sessions.tla the sessions, Tab.tla the refresh of tokens.     *)
(*                                                                         *)
(* A link leaves a screen at any time; its request goes on without it, and *)
(* still signs the tab in and opens the next screen.                       *)
(***************************************************************************)
EXTENDS Naturals, Sequences

CONSTANTS
  Phones,              \* mobile numbers of the customer, who reads every code sent to them
  Nil,                 \* no number, no code
  MaxRequests, MaxCodes, MaxMishaps  \* bounds: requests, codes; and losses, reloads and other devices' doings

ASSUME EnrolAssumption ==
  /\ Nil \notin Phones
  /\ MaxRequests \in Nat /\ MaxCodes \in Nat /\ MaxMishaps \in Nat

VARIABLES
  acct,    \* by number: the account, whether it has a PIN, and the request the PIN came with
  codes,   \* the codes sent, in order: to whom, what for, used up
  scr,     \* the screen, its step, the number typed, and the one the code was asked for
  mine,    \* whose tokens the tab has, and for whom it is loaded
  req,     \* the request of the screen
  left,    \* the request of a screen since left
  gone,    \* requests nobody waits for, not yet through
  said,    \* the PIN last reported as saved: <<>> or its number and request
  asks,    \* the requests so far
  marred   \* what came between

enrolVars == <<acct, codes, scr, mine, req, left, gone, said, asks, marred>>

NoReq == [what |-> "none"]

Open(view) == [view |-> view, step |-> 1, phone |-> Nil, sentTo |-> Nil]

EnrolInit ==
  /\ acct \in [Phones -> [is : {"missing", "bare", "pinned"}, by : {0}]]
  /\ codes = <<>>
  /\ scr = Open("signIn")
  /\ mine = [token |-> Nil, me |-> Nil]
  /\ req = NoReq /\ left = NoReq /\ gone = {}
  /\ said = <<>> /\ asks = 0
  /\ marred = [mishaps |-> 0, lost |-> FALSE, elsewhere |-> FALSE, edited |-> FALSE, swapped |-> FALSE,
               crossed |-> FALSE]

----------------------------------------------------------------------------
(* Identity                                                                *)

HasPin(n) == acct[n].is = "pinned"

\* A new code retires the one before.
Sent(n, for) ==
  /\ Len(codes) < MaxCodes
  /\ codes' = Append([i \in DOMAIN codes |-> IF codes[i].to = n /\ codes[i].for = for
                                               THEN [codes[i] EXCEPT !.used = TRUE] ELSE codes[i]],
                     [to |-> n, for |-> for, used |-> FALSE])

Unused(i) == ~codes[i].used

Spent(i) == codes' = [codes EXCEPT ![i].used = TRUE]

Pinned(n, id) == acct' = [acct EXCEPT ![n] = [is |-> "pinned", by |-> id]]

Opened(n) == acct' = [acct EXCEPT ![n].is = IF @ = "missing" THEN "bare" ELSE @]

\* Registering says whether a number is known; resetting does not.
StartRegistration(r) ==
  /\ r.what = "start" /\ r.for = "registration" /\ ~HasPin(r.phone)
  /\ Sent(r.phone, r.for) /\ UNCHANGED acct

StartPinReset(r) ==
  /\ r.what = "start" /\ r.for = "reset"
  /\ IF HasPin(r.phone) THEN Sent(r.phone, r.for) ELSE UNCHANGED codes
  /\ UNCHANGED acct

\* The account is created here, for a number that has no PIN.
CompleteRegistration(r) ==
  /\ r.what = "verify" /\ Unused(r.code) /\ ~HasPin(r.phone)
  /\ Spent(r.code)
  /\ Opened(r.phone)

\* Setting a PIN whatever there is.
SetInitialAnyhow(r) ==
  /\ r.what = "setPin"
  /\ Pinned(r.phone, r.id) /\ UNCHANGED codes

\* The first PIN only.
SetInitial(r) ==
  /\ r.what = "setPin" /\ ~HasPin(r.phone)
  /\ Pinned(r.phone, r.id) /\ UNCHANGED codes

\* The code is consumed before the PIN is written, by a transaction of its own.
ProveReset(r) ==
  /\ r.what = "reset" /\ Unused(r.code)
  /\ Spent(r.code) /\ UNCHANGED acct

WriteReset(r) ==
  /\ r.what = "proved"
  /\ Pinned(r.phone, r.id) /\ UNCHANGED codes

SignsIn(r) == r.what = "signIn" /\ HasPin(r.phone) /\ UNCHANGED <<acct, codes>>

Takes(r) ==
  \/ StartRegistration(r) \/ StartPinReset(r) \/ CompleteRegistration(r)
  \/ SetInitial(r) \/ WriteReset(r) \/ SignsIn(r)

\* A refusal that changes nothing: a code that does not fit, has expired or was tried too
\* often, one asked for too soon, a PIN that is wrong, too weak or there already, or a
\* service that fails.
Refuses(r) ==
  r.what \in {"start", "verify", "setPin", "reset", "signIn"} /\ UNCHANGED codes

\* A PIN was set meanwhile: the code is spent for nothing.
WastesCode(r) ==
  /\ r.what = "verify" /\ Unused(r.code) /\ HasPin(r.phone)
  /\ Spent(r.code)

\* A reset of the same number has proved its code and writes later than r, though asked before.
Crossing(r) ==
  r.what = "proved" /\ \E o \in gone \cup {req, left} : o.what = "proved" /\ o.phone = r.phone /\ o.id < r.id

Marred(r) == [marred EXCEPT !.crossed = @ \/ Crossing(r)]

----------------------------------------------------------------------------
(* The tab                                                                 *)

Mishap == marred.mishaps < MaxMishaps

\* Tokens of another account than the one the tab has.
Swaps(n) == mine.token \notin {Nil, n}

Answer(r) == [what |-> "answer", to |-> r.what, for |-> r.for, phone |-> r.phone, id |-> r.id]

\* Served, for whoever waits: the screen, one that was left, or nobody.
Serve ==
  \/ /\ Takes(req) /\ req' = Answer(req) /\ marred' = Marred(req)
     /\ UNCHANGED <<scr, mine, left, gone, said, asks>>
  \/ /\ Takes(left) /\ left' = Answer(left) /\ marred' = Marred(left)
     /\ UNCHANGED <<scr, mine, req, gone, said, asks>>
  \/ \E r \in gone :
       /\ Takes(r) /\ gone' = gone \ {r} /\ marred' = Marred(r)
       /\ UNCHANGED <<scr, mine, req, left, said, asks>>

Prove ==
  \/ ProveReset(req) /\ req' = [req EXCEPT !.what = "proved"] /\ UNCHANGED <<left, gone>>
  \/ ProveReset(left) /\ left' = [left EXCEPT !.what = "proved"] /\ UNCHANGED <<req, gone>>
  \/ \E r \in gone : ProveReset(r) /\ gone' = (gone \ {r}) \cup {[r EXCEPT !.what = "proved"]} /\ UNCHANGED <<req, left>>

ServeReset == Prove /\ UNCHANGED <<scr, mine, said, asks, marred>>

\* The screen shows the error and stays.
Refuse ==
  /\ \/ (Refuses(req) \/ WastesCode(req)) /\ req' = NoReq /\ UNCHANGED <<left, gone>>
     \/ (Refuses(left) \/ WastesCode(left)) /\ left' = NoReq /\ UNCHANGED <<req, gone>>
     \/ \E r \in gone : (Refuses(r) \/ WastesCode(r)) /\ gone' = gone \ {r} /\ UNCHANGED <<req, left>>
  /\ UNCHANGED <<acct, scr, mine, said, asks, marred>>

Loading(r) == [r EXCEPT !.what = "load"]

\* accept; then load, but for a registration, which has no PIN yet.
Hear ==
  /\ req.what = "answer"
  /\ IF req.to = "start"
       THEN /\ scr' = [scr EXCEPT !.step = 2, !.sentTo = req.phone]
            /\ req' = NoReq /\ UNCHANGED <<mine, marred>>
       ELSE /\ mine' = [mine EXCEPT !.token = req.phone]
            /\ scr' = IF req.to = "verify" THEN [scr EXCEPT !.step = 3] ELSE scr
            /\ req' = IF req.to = "verify" THEN NoReq ELSE Loading(req)
            /\ marred' = [marred EXCEPT !.swapped = @ \/ Swaps(req.phone)]
  /\ UNCHANGED <<acct, codes, left, gone, said, asks>>

\* Of a screen that was left: its step is nobody's, its tokens are the tab's.
HearLeft ==
  /\ left.what = "answer"
  /\ left' = IF left.to \in {"start", "verify"} THEN NoReq ELSE Loading(left)
  /\ mine' = IF left.to = "start" THEN mine ELSE [mine EXCEPT !.token = left.phone]
  /\ marred' = [marred EXCEPT !.swapped = @ \/ (left.to # "start" /\ mine.token # left.phone)]
  /\ UNCHANGED <<acct, codes, scr, req, gone, said, asks>>

\* The next screen, and what it means: the PIN is saved.
GoOn(r) ==
  /\ r.what = "load"
  /\ mine' = [mine EXCEPT !.me = mine.token]
  /\ scr' = Open("home")
  /\ said' = IF r.to = "signIn" THEN said ELSE <<[phone |-> r.phone, id |-> r.id]>>

Loaded ==
  /\ \/ GoOn(req) /\ req' = NoReq /\ UNCHANGED left
     \/ GoOn(left) /\ left' = NoReq /\ UNCHANGED req
  /\ UNCHANGED <<acct, codes, gone, asks, marred>>

\* A request that never arrives, or arrives late; an answer, or a load, that never comes.
Lose ==
  /\ req # NoReq /\ Mishap
  /\ req' = NoReq
  /\ gone' \in {gone} \cup (IF req.what \in {"answer", "load"} THEN {} ELSE {gone \cup {req}})
  /\ marred' = [marred EXCEPT !.mishaps = @ + 1, !.lost = TRUE]
  /\ UNCHANGED <<acct, codes, scr, mine, left, said, asks>>

Reload ==
  /\ Mishap
  /\ gone' = gone \cup {r \in {req, left} : r.what \notin {"none", "answer", "load"}}
  /\ req' = NoReq /\ left' = NoReq
  /\ mine' = [mine EXCEPT !.me = mine.token]
  /\ scr' = Open(IF mine.token = Nil THEN scr.view ELSE "home")
  /\ marred' = [marred EXCEPT !.mishaps = @ + 1, !.lost = TRUE]
  /\ UNCHANGED <<acct, codes, said, asks>>

----------------------------------------------------------------------------
(* The customer                                                            *)

Press(what, for, phone, code) ==
  /\ req = NoReq /\ asks < MaxRequests
  /\ asks' = asks + 1
  /\ req' = [what |-> what, for |-> for, phone |-> phone, code |-> code, id |-> asks + 1]
  /\ UNCHANGED <<acct, codes, scr, mine, left, gone, said, marred>>

\* The field is open while a code is being sent, too.
TypeNumber(n) ==
  /\ scr.view \in {"register", "reset"} /\ scr.step = 1 /\ scr.phone # n
  /\ scr' = [scr EXCEPT !.phone = n]
  /\ marred' = [marred EXCEPT !.edited = @ \/ req # NoReq]
  /\ UNCHANGED <<acct, codes, mine, req, left, gone, said, asks>>

Purpose == IF scr.view = "register" THEN "registration" ELSE "reset"

\* From the first step, or "Send a new code".
SendCode ==
  /\ scr.view \in {"register", "reset"} /\ scr.step \in {1, 2} /\ scr.phone # Nil
  /\ Press("start", Purpose, scr.phone, Nil)

ChangeNumber ==
  /\ scr.view = "register" /\ scr.step = 2 /\ req = NoReq
  /\ scr' = [scr EXCEPT !.step = 1]
  /\ UNCHANGED <<acct, codes, mine, req, left, gone, said, asks, marred>>

\* A code that was sent for this, used or not; any other is refused.
Typed == {i \in DOMAIN codes : codes[i].to = scr.phone /\ codes[i].for = Purpose}

Verify(i) ==
  /\ scr.view = "register" /\ scr.step = 2
  /\ Press("verify", "registration", scr.phone, i)

\* With the tokens the tab has.
SavePin ==
  /\ scr.view = "register" /\ scr.step = 3 /\ mine.token # Nil
  /\ Press("setPin", "registration", mine.token, Nil)

ResetPin(i) ==
  /\ scr.view = "reset" /\ scr.step = 2
  /\ Press("reset", "reset", scr.phone, i)

SignIn(n) ==
  /\ scr.view = "signIn"
  /\ Press("signIn", "session", n, Nil)

\* The guard sends whoever is signed in and loaded home.
Visit(view) ==
  /\ scr.view \notin {"home", view} /\ NoReq \in {req, left}
  /\ left' = (IF req = NoReq THEN left ELSE req) /\ req' = NoReq
  /\ scr' = Open(IF mine.token # Nil /\ mine.me # Nil THEN "home" ELSE view)
  /\ UNCHANGED <<acct, codes, mine, gone, said, asks, marred>>

SignOut ==
  /\ scr.view = "home" /\ req = NoReq
  /\ mine' = [token |-> Nil, me |-> Nil]
  /\ scr' = Open("signIn")
  /\ UNCHANGED <<acct, codes, req, left, gone, said, asks, marred>>

\* Another device of the customer: asks for a code, sets the PIN of the account it has
\* registered, or uses a code and sets the PIN.  It matters to the third step, once there.
Elsewhere ==
  /\ Mishap /\ asks < MaxRequests /\ asks' = asks + 1
  /\ marred' = [marred EXCEPT !.mishaps = @ + 1,
                              !.elsewhere = scr.step = 3 \/ req.what = "answer"]
  /\ \/ \E n \in Phones, for \in {"registration", "reset"} :
          (for = "reset") = HasPin(n) /\ Sent(n, for) /\ UNCHANGED acct
     \/ \E n \in Phones : acct[n].is = "bare" /\ Pinned(n, asks + 1) /\ UNCHANGED codes
     \/ \E i \in DOMAIN codes :
          /\ Unused(i) /\ (codes[i].for = "registration" => ~HasPin(codes[i].to))
          /\ Spent(i) /\ Pinned(codes[i].to, asks + 1)
  /\ UNCHANGED <<scr, mine, req, left, gone, said>>

EnrolNext ==
  \/ Serve \/ ServeReset \/ Refuse \/ Hear \/ HearLeft \/ Loaded \/ Lose \/ Reload
  \/ \E n \in Phones : TypeNumber(n)
  \/ SendCode \/ ChangeNumber
  \/ \E i \in Typed : Verify(i)
  \/ SavePin
  \/ \E i \in Typed : ResetPin(i)
  \/ \E n \in Phones : SignIn(n)
  \/ \E view \in {"signIn", "register", "reset"} : Visit(view)
  \/ SignOut \/ Elsewhere

EnrolSpec == EnrolInit /\ [][EnrolNext]_enrolVars

----------------------------------------------------------------------------
(* Properties                                                              *)

\* Once a screen went on because the PIN is saved, no request that was sent before, and
\* arrives late, puts another in its place: the first PIN is set on an account without
\* one (pin.service.ts:111), and a code is good once (otp.service.ts:120).  But a reset
\* consumes its code before it writes the PIN (auth.service.ts:181-188), so that one
\* which is held up in between overwrites a later one.
PinIsAsSaid ==
  said # <<>> => acct[said[1].phone].by >= said[1].id \/ marred.crossed

\* A screen that was left has saved the PIN, and opens the next screen.
LeftGoesOn == left.what \in {"answer", "load"} /\ left.to = "setPin"

\* "Set PIN and continue" is offered for the number whose code was verified, and to an
\* account that has no PIN; "we sent a code to" names the number it was asked for.
\* Exceptions: an answer was lost, another device was quicker, a screen that was left signed
\* in over this one or has saved the PIN and is about to open the next screen, or the number
\* was changed while the code was being sent.
StepFitsNumber ==
  scr.view \in {"register", "reset"} =>
    /\ scr.step = 3 /\ req = NoReq =>
         \/ mine.token # Nil /\ acct[mine.token].is = "bare"
         \/ marred.lost \/ marred.elsewhere \/ marred.swapped \/ LeftGoesOn
    /\ scr.step = 3 => mine.token = scr.phone \/ marred.swapped
    /\ scr.step >= 2 => scr.sentTo = scr.phone \/ marred.edited

\* What the screens of registration and PIN reset say was done was done.
EnrolmentIsAsSaid == PinIsAsSaid /\ StepFitsNumber

----------------------------------------------------------------------------
(* The inductive invariant                                                 *)

Whats == {"start", "verify", "setPin", "reset", "proved", "signIn"}
Purposes == {"registration", "reset", "session"}
Requests == [what : Whats, for : Purposes, phone : Phones, code : Nat \cup {Nil}, id : Nat]
Answers ==
  [what : {"answer"}, to : Whats \ {"reset"}, for : Purposes, phone : Phones, id : Nat]
    \cup [what : {"load"}, to : {"setPin", "proved", "signIn"}, for : Purposes, phone : Phones, id : Nat]
Codes == [to : Phones, for : {"registration", "reset"}, used : BOOLEAN]
Screens == [view : {"signIn", "register", "reset", "home"}, step : 1..3,
            phone : Phones \cup {Nil}, sentTo : Phones \cup {Nil}]
Marks == [mishaps : Nat, lost : BOOLEAN, elsewhere : BOOLEAN, edited : BOOLEAN, swapped : BOOLEAN,
          crossed : BOOLEAN]

EnrolTypeOK ==
  /\ acct \in [Phones -> [is : {"missing", "bare", "pinned"}, by : Nat]]
  /\ codes \in Seq(Codes) /\ scr \in Screens
  /\ mine \in [token : Phones \cup {Nil}, me : Phones \cup {Nil}]
  /\ req \in {NoReq} \cup Requests \cup Answers /\ left \in {NoReq} \cup Requests \cup Answers
  /\ gone \in SUBSET Requests
  /\ said \in {<<>>} \cup {<<x>> : x \in [phone : Phones, id : Nat]}
  /\ asks \in Nat /\ marred \in Marks

Pending == gone \cup ({req, left} \cap Requests)
Answered == {req, left} \cap Answers

\* The PINs that were written for a request, and the one reported as saved.
Written == {r \in Answered : r.to \in {"setPin", "proved"}} \cup {said[i] : i \in DOMAIN said}

\* A code of a reset is for a number with a PIN; of two sent, the earlier is retired.
CodesStand ==
  /\ \A i \in DOMAIN codes : codes[i].for = "reset" => HasPin(codes[i].to)
  /\ \A i, j \in DOMAIN codes :
       codes[i].to = codes[j].to /\ codes[i].for = codes[j].for /\ Unused(i) /\ Unused(j) => i = j

\* What is asked with a code, and when.
PendingStands ==
  /\ \A r \in Pending :
       /\ r.id <= asks
       /\ r.what \in {"verify", "reset", "proved"} => r.code \in DOMAIN codes
       /\ r.what \in {"reset", "proved"} => codes[r.code].to = r.phone /\ codes[r.code].for = "reset"
  /\ \A r \in Answered : r.id <= asks
  /\ gone # {} => marred.lost

\* The PIN is that of the request or of a later one, and no reset asked before it can
\* still prove its code; one that had proved it before is marked when it is overtaken.
Lasts(n, id) ==
  /\ HasPin(n) /\ id <= asks
  /\ acct[n].by >= id \/ marred.crossed
  /\ \A o \in Pending : o.phone = n /\ o.id < id =>
       /\ o.what = "reset" => codes[o.code].used
       /\ o.what = "proved" => marred.crossed

WritesStand ==
  /\ \A x \in Written : Lasts(x.phone, x.id)
  /\ \A p, o \in Pending :
       p.what = "proved" /\ o.what = "reset" /\ o.phone = p.phone /\ o.id < p.id => codes[o.code].used

Asks(what) == req.what = what \/ (req.what = "answer" /\ req.to = what)

\* The request of the screen is about the number it shows; what a screen may be waiting for.
ScreenStands ==
  scr.view \in {"register", "reset"} =>
    /\ Asks("start") => scr.step \in {1, 2} /\ (req.phone = scr.phone \/ marred.edited)
    /\ Asks("verify") => scr.view = "register" /\ scr.step = 2 /\ req.phone = scr.phone
    /\ req.what = "answer" /\ req.to = "verify" =>
         acct[req.phone].is = "bare" \/ marred.lost \/ marred.elsewhere \/ LeftGoesOn
    /\ scr.step = 3 =>
         /\ req = NoReq \/ req.what = "setPin" \/ (req.what \in {"answer", "load"} /\ req.to = "setPin")
         /\ mine.token # Nil \/ marred.swapped
         /\ req.what \notin {"answer", "load"} =>
              (mine.token # Nil /\ acct[mine.token].is = "bare")
              \/ marred.lost \/ marred.elsewhere \/ marred.swapped \/ LeftGoesOn

EnrolInv == EnrolTypeOK /\ CodesStand /\ PendingStands /\ WritesStand /\ ScreenStands /\ StepFitsNumber
=============================================================================
