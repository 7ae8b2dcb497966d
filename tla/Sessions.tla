------------------------------- MODULE Sessions -------------------------------
(***************************************************************************)
(* Accounts and their sessions (identity, auth/session.service.ts, and the *)
(* part of auth/auth.service.ts that opens and refreshes them).            *)
(*                                                                         *)
(* A sign-in opens a session; a refresh retires it and opens its           *)
(* successor.  A refresh token is the session it names: signing it and     *)
(* storing its hash are part of the step that opens the session, for a     *)
(* token nobody received is a token nobody presents.                       *)
(*                                                                         *)
(* A request is handled in one step per access to the database.            *)
(***************************************************************************)
EXTENDS Naturals, FiniteSets

CONSTANTS
  Accounts,
  Customers,    \* the accounts of investors: the others are staff's
  SessionIds,
  Reqs,         \* requests, each made once
  Secrets,      \* PINs and passwords
  Roles,
  MaxAttempts,  \* wrong secrets before the lockout
  None          \* null

ASSUME SessionsAssumption ==
  /\ MaxAttempts \in Nat \ {0}
  /\ None \notin Accounts \cup SessionIds \cup Secrets \cup Roles

VARIABLES
  account,  \* the accounts table
  session,  \* the sessions table
  req,      \* the handlers
  ended     \* history: sign-ins that were ended, with no refresh of theirs missed

core == <<account, session, req, ended>>

AccountRow ==
  [secret: Secrets \cup {None}, attempts: 0..MaxAttempts, locked: BOOLEAN,
   active: BOOLEAN, role: Roles \cup {None}]

\* over: revokedAt is set; role: what its tokens say.  History: the sign-in it goes back
\* to, and the request that opened it.
SessionRow ==
  [owner: Accounts, over: BOOLEAN, next: SessionIds \cup {None}, role: Roles \cup {None},
   root: SessionIds, by: Reqs \cup {None}]

Unopened == [owner |-> None, over |-> FALSE]

Waiting == [pc |-> "waiting"]

SessionsTypeOK ==
  /\ account \in [Accounts -> AccountRow]
  /\ session \in [SessionIds -> SessionRow \cup {Unopened}]
  /\ \A r \in Reqs : req[r] = Waiting \/ req[r].a \in Accounts
  /\ ended \subseteq SessionIds

----------------------------------------------------------------------------

At(r, pc) == req[r].pc = pc

Become(r, row) == req' = [req EXCEPT ![r] = row]

Goto(r, pc) == Become(r, [req[r] EXCEPT !.pc = pc])

\* What a handler keeps of the row it read.
Seen(a) == [secret |-> account[a].secret, active |-> account[a].active, role |-> account[a].role]

Finish(r) == Become(r, [pc |-> "done", a |-> req[r].a])

\* Requests that looked at a's row and have not ended.
Looking(a) == {r \in Reqs : req[r].pc \notin {"waiting", "done"} /\ req[r].a = a}

\* A request is read into a handler.
Begin(r, row) == At(r, "waiting") /\ Become(r, row)

Opened(s) == session[s] # Unopened

\* Ids are made at random: any new one will do.
NewIds == {s \in SessionIds : ~Opened(s)}

NewId == CHOOSE s \in NewIds : TRUE

Live(s) == Opened(s) /\ ~session[s].over

\* An access token outlives its session: whoever ever had one may still act for a while.
SignedIn(a) == \E s \in SessionIds : session[s].owner = a

----------------------------------------------------------------------------

\* The sessions table after create, after revokeAll, and after revoke.
Created(s, r, root, role) ==
  [session EXCEPT ![s] = [owner |-> req[r].a, over |-> FALSE, next |-> None, role |-> role,
                          root |-> root, by |-> r]]

Of(a) == {s \in SessionIds : session[s].owner = a}

Ended(ss) == [s \in SessionIds |-> IF s \in ss THEN [session[s] EXCEPT !.over = TRUE] ELSE session[s]]

Roots(ss) == {session[s].root : s \in ss}

\* Live sessions that a refresh has just committed.
Fresh(a) == {s \in Of(a) : ~session[s].over /\ \E r \in Looking(a) : At(r, "committed") /\ session[s].by = r}

\* One update of every session of the account, as they stood when it began: it misses what
\* a refresh commits while it waits for that refresh's lock (READ COMMITTED).
EndAll(a) ==
  \E missed \in SUBSET Fresh(a) :
    /\ session' = Ended(Of(a) \ missed)
    /\ ended' = ended \cup (Roots(Of(a)) \ Roots(missed))

\* startSession: whatever became of the account since the request looked at it.
Open(r) ==
  /\ At(r, "open")
  /\ NewIds # {} /\ session' = Created(NewId, r, NewId, req[r].saw.role)
  /\ Finish(r)
  /\ UNCHANGED <<account, ended>>

\* revoke: the session of the access token; one that was refreshed is over already, and
\* its successor goes on.
SignOut(s) ==
  /\ Live(s)
  /\ session' = Ended({s}) /\ ended' = ended \cup Roots({s})
  /\ UNCHANGED <<account, req>>

\* rotate up to its writes.  An expired or unknown token changes nothing.  The lockout it
\* asks about is that of a PIN.
RefreshRead(r, s) ==
  /\ Opened(s)
  /\ \/ session[s].next # None
     \/ /\ Live(s) /\ account[session[s].owner].active
        /\ session[s].owner \in Customers => ~account[session[s].owner].locked
  /\ Begin(r, [pc |-> IF session[s].next # None THEN "replay" ELSE "rotate",
               op |-> "refresh", a |-> session[s].owner, s |-> s])
  /\ UNCHANGED <<account, session, ended>>

\* A token used before: every session of the account ends.
Replay(r) ==
  /\ At(r, "replay")
  /\ EndAll(req[r].a)
  /\ Finish(r)
  /\ UNCHANGED account

\* The transaction retires the session if it still stands, and opens its successor;
\* the successor's tokens carry the role read after it.  It is committed, and what began
\* before may still be under way.
RotateIf(r, stands) ==
  LET s == req[r].s IN
  /\ At(r, "rotate")
  /\ \/ /\ stands
        /\ NewIds # {}
        /\ session' = [Created(NewId, r, session[s].root, account[req[r].a].role)
                         EXCEPT ![s].over = TRUE, ![s].next = NewId]
        /\ Goto(r, "committed")
     \/ ~stands /\ Finish(r) /\ UNCHANGED session
  /\ UNCHANGED <<account, ended>>

\* Mutant: the retirement looks at the successor alone.
RotateUnlessRotated(r) == RotateIf(r, session[req[r].s].next = None)

Rotate(r) == RotateIf(r, Live(req[r].s))

\* From here on an update that ends the account's sessions sees the successor.
Rotated(r) == At(r, "committed") /\ Finish(r) /\ UNCHANGED <<account, session, ended>>

----------------------------------------------------------------------------
(* Counting attempts, for a PIN and for a staff password alike             *)

\* The attempt is reserved before the secret is compared.
ReserveIf(r, free) ==
  LET a == req[r].a IN
  /\ At(r, "reserve")
  /\ \/ /\ free
        /\ account' = [account EXCEPT ![a].attempts = @ + 1]
        /\ Become(r, [req[r] EXCEPT !.pc = "settle", !.n = account[a].attempts + 1])
     \/ ~free /\ Finish(r) /\ UNCHANGED account
  /\ UNCHANGED <<session, ended>>

Reserve(r) == ReserveIf(r, ~account[req[r].a].locked /\ account[req[r].a].attempts < MaxAttempts)

Matches(r) == req[r].secret = req[r].saw.secret
=============================================================================
