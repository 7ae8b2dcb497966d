-------------------------------- MODULE Logins --------------------------------
(***************************************************************************)
(* Customers' logins (identity): the PIN (auth/pin.service.ts), codes by   *)
(* SMS (auth/otp.service.ts), the journeys that use them                   *)
(* (auth/auth.service.ts), and unlocking by two members of staff           *)
(* (admin/customer-logins.service.ts).                                     *)
(***************************************************************************)
EXTENDS Sessions, Sequences

CONSTANTS
  Officers,      \* staff who ask for an unlock or decide one
  CodeAttempts,  \* otp.maxAttempts
  MaxPerHour,    \* otp.maxPerHour
  Gap, Ttl, Hour, MaxNow

ASSUME LoginsAssumption ==
  /\ Customers \subseteq Accounts
  /\ CodeAttempts \in Nat \ {0} /\ MaxPerHour \in Nat \ {0}
  /\ {Gap, Ttl, Hour, MaxNow} \subseteq Nat
  /\ 0 < Gap /\ Gap < Ttl /\ Ttl < Hour

VARIABLES
  code,       \* the codes sent to each account's phone, in order
  unlock,     \* the unlock requests, in order
  now,        \* the clock
  overlapped, \* history: accounts for which two codes were being issued at once
  overtaken   \* history: requests that read a PIN which was replaced before they ended

logins == <<code, unlock, now, overlapped, overtaken>>

Purposes == {"registration", "pin_reset"}

CodeRow ==
  [purpose: Purposes, at: 0..MaxNow, used: BOOLEAN, attempts: 0..CodeAttempts,
   spent: Nat]  \* history: how many requests it let through

UnlockRow ==
  [a: Accounts, by: Officers, status: {"pending", "approved", "rejected"}]

LoginsTypeOK ==
  /\ code \in [Accounts -> Seq(CodeRow)]
  /\ unlock \in Seq(UnlockRow)
  /\ now \in 0..MaxNow
  /\ overlapped \subseteq Accounts
  /\ overtaken \subseteq Reqs

\* Before the first code nothing reads the clock.
Tick == (\E a \in Accounts : code[a] # <<>>) /\ now < MaxNow /\ now' = now + 1 /\ UNCHANGED <<core, code, unlock, overlapped, overtaken>>

----------------------------------------------------------------------------
(* The PIN                                                                 *)

Locked(a) == account[a].locked

\* verify, up to the reservation: sign-in, step-up, or a change of PIN to new.
PresentPin(r, op, a, pin, new) ==
  /\ account[a].secret # None /\ ~Locked(a)
  /\ op # "signIn" => SignedIn(a)
  /\ op # "change" => new = pin
  /\ Begin(r, [pc |-> "reserve", op |-> op, a |-> a, secret |-> pin, new |-> new,
               saw |-> Seen(a), n |-> 0])
  /\ UNCHANGED <<account, session, ended, logins>>

\* The PIN matches the row read before the reservation.  For a sign-in the next step
\* opens a session; for a change it writes the PIN.
PinRight(r) ==
  LET a == req[r].a IN
  /\ At(r, "settle") /\ a \in Customers /\ Matches(r)
  /\ account' = [account EXCEPT ![a].attempts = 0]
  /\ CASE req[r].op = "signIn" -> Become(r, [req[r] EXCEPT !.pc = "open", !.n = 0])
       [] req[r].op = "change" /\ req[r].new # req[r].secret -> Become(r, [req[r] EXCEPT !.pc = "write", !.n = 0])
       [] OTHER -> Finish(r)
  /\ UNCHANGED <<session, ended, logins>>

\* The last attempt locks the account and ends its sessions, in one transaction.
PinWrongLocking(r, last) ==
  LET a == req[r].a IN
  /\ At(r, "settle") /\ a \in Customers /\ ~Matches(r)
  /\ IF last /\ ~Locked(a)
       THEN /\ account' = [account EXCEPT ![a].locked = TRUE]
            /\ EndAll(a)
       ELSE UNCHANGED <<account, session, ended>>
  /\ Finish(r)
  /\ UNCHANGED <<code, unlock, now, overlapped, overtaken>>

\* Mutant: off by one.
PinWrongLate(r) == PinWrongLocking(r, req[r].n > MaxAttempts)

PinWrong(r) == PinWrongLocking(r, req[r].n >= MaxAttempts)

\* The PIN is written, whatever the row is by now; who writes it knows it.
Replace(a, pin, unlocks, by) ==
  /\ account' = [account EXCEPT ![a].secret = pin, ![a].attempts = 0,
                                ![a].locked = @ /\ ~unlocks]
  /\ overtaken' = (overtaken \cup Looking(a)) \ by

ChangePin(r) ==
  /\ At(r, "write")
  /\ Replace(req[r].a, req[r].new, FALSE, {r})
  /\ Finish(r)
  /\ UNCHANGED <<session, ended, code, unlock, now, overlapped>>

\* setInitial: one conditional update.
SetPinWhen(a, pin, unset) ==
  /\ SignedIn(a)
  /\ unset
  /\ Replace(a, pin, FALSE, {})
  /\ UNCHANGED <<session, req, ended, code, unlock, now, overlapped>>

SetPin(a, pin) == SetPinWhen(a, pin, account[a].secret = None)

\* reset: the PIN, the lockout and the sessions in one transaction.
ResetPin(r) ==
  /\ At(r, "reset")
  /\ Replace(req[r].a, req[r].new, TRUE, {r})
  /\ EndAll(req[r].a)
  /\ Become(r, [pc |-> "open", op |-> "pin_reset", a |-> req[r].a, new |-> req[r].new,
               saw |-> Seen(req[r].a)])
  /\ UNCHANGED <<code, unlock, now, overlapped>>

----------------------------------------------------------------------------
(* Codes                                                                   *)

\* startRegistration and startPinReset: whether a code is due, read from the account.
AskCode(r, a, purpose) ==
  /\ (account[a].secret = None) <=> (purpose = "registration")
  /\ Begin(r, [pc |-> "rate", op |-> purpose, a |-> a])
  /\ UNCHANGED <<account, session, ended, logins>>

Recent(a) == {k \in DOMAIN code[a] : code[a][k].at > now - Hour}

TooSoon(a) == \E k \in DOMAIN code[a] : now - code[a][k].at < Gap

\* enforceRate.
CheckRate(r) ==
  LET allowed == ~TooSoon(req[r].a) /\ Cardinality(Recent(req[r].a)) < MaxPerHour IN
  /\ At(r, "rate")
  /\ IF allowed THEN Goto(r, "retire") ELSE Finish(r)
  /\ overlapped' = IF allowed /\ \E q \in Reqs \ {r} : req[q].pc \in {"retire", "create"} /\ req[q].a = req[r].a
                   THEN overlapped \cup {req[r].a} ELSE overlapped
  /\ UNCHANGED <<account, session, ended, code, unlock, now, overtaken>>

\* The codes still in flight are retired, and then the new one is stored.
Retired(c, purpose) == IF c.purpose = purpose THEN [c EXCEPT !.used = TRUE] ELSE c

RetireCodes(r) ==
  LET a == req[r].a IN
  /\ At(r, "retire")
  /\ code' = [code EXCEPT ![a] = [k \in DOMAIN code[a] |-> Retired(code[a][k], req[r].op)]]
  /\ Goto(r, "create")
  /\ UNCHANGED <<account, session, ended, unlock, now, overlapped, overtaken>>

CreateCode(r) ==
  /\ At(r, "create")
  /\ code' = [code EXCEPT ![req[r].a] =
                Append(@, [purpose |-> req[r].op, at |-> now, used |-> FALSE, attempts |-> 0, spent |-> 0])]
  /\ Finish(r)
  /\ UNCHANGED <<account, session, ended, unlock, now, overlapped, overtaken>>

Unused(a, purpose) ==
  {k \in DOMAIN code[a] : code[a][k].purpose = purpose /\ ~code[a][k].used}

\* otp.verify finds the newest code; right says whether the code presented is that one.
PresentCode(r, a, purpose, new, right) ==
  /\ Unused(a, purpose) # {}
  /\ (purpose = "registration") <=> (new = None)
  /\ LET k == CHOOSE i \in Unused(a, purpose) : \A j \in Unused(a, purpose) : j <= i IN
     /\ now < code[a][k].at + Ttl
     /\ Begin(r, [pc |-> "count", op |-> purpose, a |-> a, k |-> k, right |-> right, new |-> new])
  /\ UNCHANGED <<account, session, ended, logins>>

CountCode(r) ==
  LET a == req[r].a
      k == req[r].k
      row == code[a][k]
  IN
  /\ At(r, "count")
  /\ IF ~row.used /\ row.attempts < CodeAttempts
       THEN /\ code' = [code EXCEPT ![a][k].attempts = @ + 1]
            /\ IF req[r].right THEN Goto(r, "consume") ELSE Finish(r)
       ELSE Finish(r) /\ UNCHANGED code
  /\ UNCHANGED <<account, session, ended, unlock, now, overlapped, overtaken>>

ConsumeIf(r, fresh) ==
  /\ At(r, "consume")
  /\ IF fresh
       THEN /\ code' = [code EXCEPT ![req[r].a][req[r].k].used = TRUE, ![req[r].a][req[r].k].spent = @ + 1]
            /\ Goto(r, IF req[r].op = "pin_reset" THEN "reset" ELSE "register")
       ELSE Finish(r) /\ UNCHANGED code
  /\ UNCHANGED <<account, session, ended, unlock, now, overlapped, overtaken>>

\* Mutant: it is not conditional.
ConsumeAnyhow(r) == ConsumeIf(r, TRUE)

ConsumeCode(r) == ConsumeIf(r, ~code[req[r].a][req[r].k].used)

\* completeRegistration finds the account, or creates it; a PIN set meanwhile ends it.
Register(r) ==
  LET a == req[r].a IN
  /\ At(r, "register")
  /\ IF account[a].secret = None
       THEN Become(r, [pc |-> "open", op |-> "registration", a |-> a, saw |-> Seen(a)])
       ELSE Finish(r)
  /\ UNCHANGED <<account, session, ended, logins>>

----------------------------------------------------------------------------
(* Unlocking with two members of staff                                     *)

SignOutEverywhere(a) ==
  /\ \E s \in SessionIds : Live(s) /\ session[s].owner = a
  /\ EndAll(a)
  /\ UNCHANGED <<account, req, logins>>

\* requestUnlock reads the account, looks for an open request, and creates one.
AskUnlock(r, a, by) ==
  /\ Locked(a)
  /\ Begin(r, [pc |-> "look", op |-> "unlock", a |-> a, by |-> by])
  /\ UNCHANGED <<account, session, ended, logins>>

PendingOf(a) == {u \in DOMAIN unlock : unlock[u].a = a /\ unlock[u].status = "pending"}

LookForOpen(r) ==
  /\ At(r, "look")
  /\ IF PendingOf(req[r].a) = {} THEN Goto(r, "ask") ELSE Finish(r)
  /\ UNCHANGED <<account, session, ended, logins>>

CreateUnlock(r) ==
  /\ At(r, "ask")
  /\ unlock' = Append(unlock, [a |-> req[r].a, by |-> req[r].by, status |-> "pending"])
  /\ Finish(r)
  /\ UNCHANGED <<account, session, ended, code, now, overlapped, overtaken>>

\* decide reads the request, which must be pending and another's, and then decides.
DecideReadBy(r, u, by, approve, other) ==
  /\ u \in DOMAIN unlock /\ unlock[u].status = "pending"
  /\ other
  /\ Begin(r, [pc |-> "decide", op |-> "decide", a |-> unlock[u].a, u |-> u, by |-> by, approve |-> approve])
  /\ UNCHANGED <<account, session, ended, logins>>

\* Mutant: the approver may be who asked.
DecideReadOwn(r, u, by, approve) == DecideReadBy(r, u, by, approve, TRUE)

DecideRead(r, u, by, approve) == DecideReadBy(r, u, by, approve, unlock[u].by # by)

\* The conditional update settles a race.
Decide(r) ==
  LET u == req[r].u
      a == req[r].a
  IN
  /\ At(r, "decide")
  /\ IF unlock[u].status = "pending"
       THEN /\ unlock' = [unlock EXCEPT ![u].status = IF req[r].approve THEN "approved" ELSE "rejected"]
            /\ account' = IF req[r].approve
                          THEN [account EXCEPT ![a].locked = FALSE, ![a].attempts = 0]
                          ELSE account
       ELSE UNCHANGED <<unlock, account>>
  /\ Finish(r)
  /\ UNCHANGED <<session, ended, code, now, overlapped, overtaken>>
=============================================================================
