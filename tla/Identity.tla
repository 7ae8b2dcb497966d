------------------------------- MODULE Identity -------------------------------
(***************************************************************************)
(* The identity service: staff users, with the password stand-in           *)
(* (auth/staff-auth.service.ts) and their administration                   *)
(* (admin/staff-admin.service.ts), and customers' logins, over the same    *)
(* accounts, sessions and handlers.                                        *)
(***************************************************************************)
EXTENDS Logins

CONSTANT StaffUsers

VARIABLE raced  \* history: requests that looked at a user who was updated meanwhile, and
                \* the users updated by such a request

ASSUME IdentityAssumption == StaffUsers \subseteq Accounts /\ Customers = Accounts \ StaffUsers

vars == <<core, logins, raced>>

\* A customer may have no PIN yet, and one session from earlier; the PIN may be locked.
FirstRows ==
  {t \in [Accounts -> AccountRow] :
     \A a \in Accounts :
       /\ t[a].active /\ t[a].attempts = (IF t[a].locked THEN MaxAttempts ELSE 0)
       /\ IF a \in Customers THEN t[a].role = None /\ (t[a].locked => t[a].secret # None)
          ELSE t[a].role # None /\ t[a].secret # None /\ ~t[a].locked}

IdentityInit ==
  /\ account \in FirstRows
  /\ \/ session = [s \in SessionIds |-> Unopened]
     \/ \E a \in Customers :
          /\ ~account[a].locked
          /\ LET f == CHOOSE s \in SessionIds : TRUE IN
             session = [s \in SessionIds |->
               IF s = f THEN [owner |-> a, over |-> FALSE, next |-> None, role |-> None,
                              root |-> f, by |-> None]
               ELSE Unopened]
  /\ req = [r \in Reqs |-> Waiting]
  /\ code = [a \in Accounts |-> <<>>]
  /\ unlock = <<>>
  /\ now = 0
  /\ ended = {} /\ overlapped = {} /\ overtaken = {} /\ raced = {}

IdentityTypeOK == SessionsTypeOK /\ LoginsTypeOK /\ raced \subseteq Reqs \cup Accounts

----------------------------------------------------------------------------
(* The password stand-in                                                   *)

\* verify reads the account; sign-in, or confirm for a step-up.
PresentPassword(r, op, a, password) ==
  /\ account[a].secret # None
  /\ op = "confirm" => SignedIn(a)
  /\ Begin(r, [pc |-> "reserve", op |-> op, a |-> a, secret |-> password, saw |-> Seen(a), n |-> 0])
  /\ UNCHANGED <<account, session, ended, raced>>

\* The status is the one read first; after it the account is read again for its role.
PasswordRight(r) ==
  LET a == req[r].a IN
  /\ At(r, "settle") /\ a \in StaffUsers /\ Matches(r)
  /\ account' = [account EXCEPT ![a].attempts = 0]
  /\ IF req[r].saw.active /\ req[r].op = "signIn" THEN Become(r, [req[r] EXCEPT !.pc = "fetch", !.n = 0]) ELSE Finish(r)
  /\ UNCHANGED <<session, ended, raced>>

PasswordWrong(r) ==
  LET a == req[r].a IN
  /\ At(r, "settle") /\ a \in StaffUsers /\ ~Matches(r)
  /\ account' = [account EXCEPT ![a].locked = @ \/ req[r].n >= MaxAttempts]
  /\ Finish(r)
  /\ UNCHANGED <<session, ended, raced>>

FetchUser(r) ==
  /\ At(r, "fetch")
  /\ Become(r, [req[r] EXCEPT !.pc = "open", !.saw = Seen(req[r].a)])
  /\ UNCHANGED <<account, session, ended, raced>>

----------------------------------------------------------------------------
(* The administration of staff                                             *)

\* update reads the target and then writes what it was given, a role or a status or both.
\* It ends the sessions if the role it read is not the new one, or if it suspends.  Nobody
\* updates themselves.
UpdateRead(r, a, role, status) ==
  /\ Begin(r, [pc |-> "update", op |-> "update", a |-> a, role |-> role, status |-> status,
               was |-> account[a].role])
  /\ UNCHANGED <<account, session, ended, raced>>

UpdateEnding(r, ends) ==
  LET a == req[r].a
      x == req[r]
  IN
  /\ At(r, "update")
  /\ account' = [account EXCEPT ![a].role = IF x.role = None THEN @ ELSE x.role,
                                ![a].active = IF x.status = None THEN @ ELSE x.status = "active"]
  /\ IF ends THEN EndAll(a) ELSE UNCHANGED <<session, ended>>
  /\ raced' = raced \cup (Looking(a) \ {r}) \cup (IF r \in raced THEN {a} ELSE {})
  /\ Finish(r)

Update(r) ==
  UpdateEnding(r, req[r].role \notin {None, req[r].was} \/ req[r].status = "suspended")

UnlockUser(a) ==
  /\ account[a].locked \/ account[a].attempts > 0
  /\ account' = [account EXCEPT ![a].locked = FALSE, ![a].attempts = 0]
  /\ UNCHANGED <<session, req, ended, raced>>

ResetPassword(a, password) ==
  /\ account' = [account EXCEPT ![a].secret = password, ![a].locked = FALSE, ![a].attempts = 0]
  /\ EndAll(a)
  /\ UNCHANGED <<req, raced>>

----------------------------------------------------------------------------

\* What both kinds of users do.
SessionStep ==
  /\ \/ \E s \in SessionIds : SignOut(s)
     \/ \E r \in Reqs, s \in SessionIds : RefreshRead(r, s)
     \/ \E r \in Reqs : Reserve(r) \/ Open(r) \/ Replay(r) \/ Rotate(r) \/ Rotated(r)
  /\ UNCHANGED <<logins, raced>>

PinStep(r) ==
  \/ \E a \in Customers, p, q \in Secrets :
       \E op \in {"signIn", "stepUp", "change"} : PresentPin(r, op, a, p, q)
  \/ PinRight(r) \/ PinWrong(r) \/ ChangePin(r) \/ ResetPin(r)

CodeStep(r) ==
  \/ \E a \in Customers, purpose \in Purposes : AskCode(r, a, purpose)
  \/ CheckRate(r) \/ RetireCodes(r) \/ CreateCode(r)
  \/ \E a \in Customers, purpose \in Purposes, p \in Secrets \cup {None}, right \in BOOLEAN :
       PresentCode(r, a, purpose, p, right)
  \/ CountCode(r) \/ ConsumeCode(r) \/ Register(r)

UnlockStep(r) ==
  \/ \E a \in Customers, by \in Officers : AskUnlock(r, a, by)
  \/ LookForOpen(r) \/ CreateUnlock(r)
  \/ \E u \in DOMAIN unlock, by \in Officers, approve \in BOOLEAN : DecideRead(r, u, by, approve)
  \/ Decide(r)

CustomerStep ==
  /\ \/ Tick
     \/ \E r \in Reqs : PinStep(r) \/ CodeStep(r) \/ UnlockStep(r)
     \/ \E a \in Customers : SignOutEverywhere(a) \/ \E p \in Secrets : SetPin(a, p)
  /\ UNCHANGED raced

StaffStep ==
  /\ \/ \E r \in Reqs, a \in StaffUsers, p \in Secrets :
          \E op \in {"signIn", "confirm"} : PresentPassword(r, op, a, p)
     \/ \E r \in Reqs : PasswordRight(r) \/ PasswordWrong(r) \/ FetchUser(r) \/ Update(r)
     \/ \E r \in Reqs, a \in StaffUsers, role \in Roles \cup {None} :
          \E status \in {"active", "suspended", None} : UpdateRead(r, a, role, status)
     \/ \E a \in StaffUsers : UnlockUser(a) \/ \E p \in Secrets : ResetPassword(a, p)
  /\ UNCHANGED logins

IdentityNext == SessionStep \/ CustomerStep \/ StaffStep

IdentitySpec == IdentityInit /\ [][IdentityNext]_vars

----------------------------------------------------------------------------
(* Properties                                                              *)

\* An account whose attempts are used up is locked, or the request that took the last one
\* has still to lock it (pin.service.ts:77, staff-auth.service.ts:78).  If that request
\* dies, the account is shut and nobody can unlock it: requestUnlock answers not_locked.
SpentIsLocked ==
  \A a \in Accounts :
    account[a].attempts = MaxAttempts /\ ~account[a].locked =>
      \E r \in Reqs : At(r, "settle") /\ req[r].a = a /\ req[r].n = MaxAttempts

\* Two live sessions never go back to one sign-in: of two refreshes with one token, one
\* gets the successor (session.service.ts:92).  And a sign-in that was ended, by
\* signing out, a lockout, a new PIN, a replay or staff, has no live session again,
\* whatever refresh was under way; except one whose refresh was committed as the sessions
\* were being ended, whose successor the update missed (session.service.ts:93, :124).
SessionsKept ==
  \A s \in SessionIds : Live(s) =>
    /\ session[s].root \notin ended
    /\ \A t \in SessionIds : Live(t) /\ session[t].root = session[s].root => t = s

\* The tokens of a staff user's live session say the role they have, and they are active:
\* a change "must not wait for the old token" (staff-admin.service.ts:125).  Except the
\* session of a sign-in or a refresh that was under way at the change, and changes that
\* overlapped.
TokensSayRole ==
  \A s \in SessionIds :
    Live(s) /\ session[s].owner \in StaffUsers =>
      LET a == session[s].owner IN
      \/ session[s].role = account[a].role /\ account[a].active
      \/ session[s].by \in raced \/ a \in raced

\* Every live session is one that ought to be, and says who its owner is now.
SessionsAreDue == IdentityTypeOK /\ SessionsKept /\ TokensSayRole

\* A code lets one request through (otp.service.ts:119); an account has one code of a
\* purpose in flight, and no more than MaxPerHour an hour; unless two were issued at once.
CodesKept ==
  \A a \in Customers :
    /\ \A k \in DOMAIN code[a] : code[a][k].spent <= 1
    /\ a \in overlapped
       \/ /\ Cardinality(Recent(a)) <= MaxPerHour
          /\ \A purpose \in Purposes : Cardinality(Unused(a, purpose)) <= 1

\* A PIN is replaced with a code, or by a request that gave the PIN being replaced
\* (pin.service.ts:108, "changing a PIN needs the current PIN").  Except a change that was
\* overtaken: it read the PIN before somebody replaced it, and undoes that.
PinReplacedByHolder ==
  [][\A a \in Customers :
       account[a].secret # None /\ account'[a].secret # account[a].secret =>
         \E r \in Reqs : req[r] # req'[r] /\ req[r].a = a /\
           \/ At(r, "reset")
           \/ At(r, "write") /\ (req[r].secret = account[a].secret \/ r \in overtaken)]_vars

\* A customer's session is opened with the PIN in force, or with a code by one who has no
\* PIN or has just set it (auth.service.ts:116); except by requests overtaken.
OpenedWithPin ==
  [][\A r \in Reqs :
       At(r, "open") /\ req'[r].pc = "done" /\ req[r].a \in Customers /\ r \notin overtaken =>
         account[req[r].a].secret =
           (CASE req[r].op = "signIn" -> req[r].secret
              [] req[r].op = "pin_reset" -> req[r].new
              [] OTHER -> None)]_vars

\* A lockout is lifted with a code, or by two members of staff, one who asked and another
\* who approved (schema.prisma, "so it takes two people"), whatever was decided meanwhile.
LiftedByTwo ==
  [][\A a \in Customers :
       Locked(a) /\ ~account'[a].locked =>
         \E r \in Reqs : req[r] # req'[r] /\ req[r].a = a /\
           \/ At(r, "reset")
           \/ /\ At(r, "decide") /\ unlock[req[r].u].by # req[r].by
              /\ unlock[req[r].u].status = "pending" /\ unlock'[req[r].u].status = "approved"]_vars

\* A PIN and a lockout change in the hands of their owner, or of two members of staff.
HolderOrTwo == PinReplacedByHolder /\ OpenedWithPin /\ LiftedByTwo
=============================================================================
