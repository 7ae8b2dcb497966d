--------------------------- MODULE Identity_proofs ---------------------------
(* Proofs about Identity.tla: lockouts, sessions, codes, and the hands in    *)
(* which a PIN and a lockout change, for any number of accounts and requests. *)
EXTENDS Identity, FiniteSetTheorems, SequenceTheorems, WellFoundedInduction, TLAPS

----------------------------------------------------------------------------
(* The inductive invariant.                                                 *)

Place ==
  {"open", "replay", "rotate", "reserve", "settle", "write", "fetch", "rate", "retire", "create",
   "count", "consume", "reset", "register", "look", "ask", "decide", "update", "done"}

SeenRow == [secret : Secrets \cup {None}, active : BOOLEAN, role : Roles \cup {None}]

PinRow ==
  [pc : Place, op : {"signIn", "stepUp", "change"}, a : Customers, secret : Secrets,
   new : Secrets, saw : SeenRow, n : Nat]

PassRow ==
  [pc : Place, op : {"signIn", "confirm"}, a : StaffUsers, secret : Secrets, saw : SeenRow, n : Nat]

AskRow == [pc : Place, op : Purposes, a : Customers]

PresentRow ==
  [pc : Place, op : Purposes, a : Customers, k : Nat, right : BOOLEAN, new : Secrets \cup {None}]

UnlockAskRow == [pc : Place, op : {"unlock"}, a : Customers, by : Officers]

DecideRow ==
  [pc : Place, op : {"decide"}, a : Accounts, u : Nat, by : Officers, approve : BOOLEAN]

UpdateRow ==
  [pc : Place, op : {"update"}, a : StaffUsers, role : Roles \cup {None},
   status : {"active", "suspended", None}, was : Roles \cup {None}]

RefreshRow == [pc : Place, op : {"refresh"}, a : Accounts, s : SessionIds]

\* A handler has at hand what its place in the code works on.
Fits(w) ==
  /\ w.pc # "waiting" => w.a \in Accounts
  /\ w.pc \in {"reserve", "settle"} => w \in PinRow \cup PassRow
  /\ w.pc = "write" => w \in PinRow
  /\ w.pc = "fetch" => w \in PassRow
  /\ w.pc \in {"rate", "retire", "create"} => w \in AskRow
  /\ w.pc \in {"count", "consume", "reset", "register"} => w \in PresentRow
  /\ w.pc \in {"look", "ask"} => w \in UnlockAskRow
  /\ w.pc = "decide" => w \in DecideRow
  /\ w.pc = "update" => w \in UpdateRow
  /\ w.pc \in {"replay", "rotate"} => w \in RefreshRow
  /\ w.pc = "open" => w.saw \in SeenRow

\* The rows a handler refers to are there, and are about its account.
Refers(w, sessions, codes, unlocks) ==
  /\ w.pc \in {"replay", "rotate"} => sessions[w.s] # Unopened /\ sessions[w.s].owner = w.a
  /\ w.pc \in {"count", "consume"} => w.k \in DOMAIN codes[w.a]
  /\ w.pc = "decide" =>
       w.u \in DOMAIN unlocks /\ unlocks[w.u].a = w.a /\ unlocks[w.u].by # w.by

HandlersFit ==
  /\ req = [r \in Reqs |-> req[r]]
  /\ \A r \in Reqs : Fits(req[r]) /\ Refers(req[r], session, code, unlock)

BaseInv == IdentityTypeOK /\ HandlersFit

\* What a handler of a customer nobody overtook saw of the PIN is still so, and so is
\* what a handler of a staff user nobody updated saw of their role and status.
PinSeen(w, row) ==
  /\ w.pc \in {"reserve", "settle"} => w.saw.secret = row.secret
  /\ w.pc = "write" => w.secret = row.secret
  /\ w.pc = "open" =>
       row.secret = (CASE w.op = "signIn" -> w.secret
                       [] w.op = "pin_reset" -> w.new
                       [] OTHER -> None)

RoleSeen(w, row) ==
  /\ w.pc \in {"reserve", "settle", "fetch", "open"} =>
       w.saw.role = row.role /\ w.saw.active = row.active
  /\ w.pc \in {"fetch", "open"} => w.saw.active
  /\ w.pc = "rotate" => row.active
  /\ w.pc = "update" => w.was = row.role

SeenIsStill ==
  \A r \in Reqs : req[r].pc # "waiting" =>
    /\ req[r].a \in Customers /\ r \notin overtaken => PinSeen(req[r], account[req[r].a])
    /\ req[r].a \in StaffUsers /\ r \notin raced => RoleSeen(req[r], account[req[r].a])

\* A session goes back to a sign-in of its owner, and only sign-ins were ended.
RootsAreOpened ==
  /\ \A s \in SessionIds : Opened(s) =>
       Opened(session[s].root) /\ session[session[s].root].owner = session[s].owner
  /\ \A s \in ended : Opened(s)

\* A code that let a request through is used.
SpentAreUsed ==
  \A a \in Accounts : \A k \in DOMAIN code[a] :
    code[a][k].spent = 0 \/ (code[a][k].spent = 1 /\ code[a][k].used)

\* Unless two codes were being issued at once, one request at a time issues one, has room
\* for it, and has retired those before it.
IssuedInTurn ==
  \A a \in Customers : a \notin overlapped =>
    /\ \A q, r \in Reqs :
         req[q].pc \in {"retire", "create"} /\ req[q].a = a /\
         req[r].pc \in {"retire", "create"} /\ req[r].a = a => q = r
    /\ Cardinality(Recent(a)) <= MaxPerHour
    /\ \A r \in Reqs : req[r].pc \in {"retire", "create"} /\ req[r].a = a =>
         Cardinality(Recent(a)) < MaxPerHour
    /\ \A r \in Reqs : req[r].pc = "create" /\ req[r].a = a => Unused(a, req[r].op) = {}
    /\ \A purpose \in Purposes : \A j, k \in Unused(a, purpose) : j = k

SessionsInv == RootsAreOpened /\ SessionsKept

CodesInv == SpentAreUsed /\ IssuedInTurn

IdentityInv ==
  BaseInv /\ SpentIsLocked /\ SeenIsStill /\ SessionsInv /\ TokensSayRole /\ CodesInv

----------------------------------------------------------------------------
(* What a step does to the tables and to the handlers.                      *)

TablesTyped ==
  /\ account \in [Accounts -> AccountRow]
  /\ session \in [SessionIds -> SessionRow \cup {Unopened}]
  /\ ended \subseteq SessionIds
  /\ LoginsTypeOK
  /\ raced \subseteq Reqs \cup Accounts

\* Rows of the tables stay, about the same account.
TablesGrow ==
  /\ \A s \in SessionIds : session[s] # Unopened =>
       session'[s] # Unopened /\ session'[s].owner = session[s].owner
  /\ \A a \in Accounts : DOMAIN code[a] \subseteq DOMAIN code'[a]
  /\ \A u \in DOMAIN unlock :
       u \in DOMAIN unlock' /\ unlock'[u].a = unlock[u].a /\ unlock'[u].by = unlock[u].by

\* A step of r is a step of no other handler.
Others(r) == \A q \in Reqs : q # r => req'[q] = req[q]

\* The types, as the lemmas below use them.
LEMMA Types ==
  BaseInv =>
    /\ TablesTyped
    /\ code \in [Accounts -> Seq(CodeRow)] /\ unlock \in Seq(UnlockRow)
    /\ now \in 0..MaxNow /\ MaxNow \in Nat /\ overlapped \subseteq Accounts /\ overtaken \subseteq Reqs
    /\ MaxAttempts \in Nat \ {0}
    /\ Accounts = Customers \cup StaffUsers /\ Customers \cap StaffUsers = {}
    /\ None \notin Accounts \cup SessionIds \cup Secrets \cup Roles
BY SessionsAssumption, LoginsAssumption, IdentityAssumption
   DEF BaseInv, IdentityTypeOK, SessionsTypeOK, LoginsTypeOK, TablesTyped

LEMMA BecomeFacts ==
  ASSUME BaseInv, NEW r \in Reqs, NEW w, Become(r, w)
  PROVE  req' = [q \in Reqs |-> req'[q]] /\ req'[r] = w /\ Others(r)
BY DEF BaseInv, HandlersFit, Become, Others

\* What a handler refers to is there after the tables have grown.
LEMMA RefersStill ==
  ASSUME BaseInv, NEW w, Fits(w), Refers(w, session, code, unlock), TablesGrow
  PROVE  Refers(w, session', code', unlock')
<1>1. w.pc \in {"replay", "rotate"} => w.s \in SessionIds
  BY DEF Fits, RefreshRow
<1>2. w.pc \in {"count", "consume"} => w.a \in Accounts
  BY DEF Fits
<1>3. QED
  BY <1>1, <1>2 DEF Refers, TablesGrow

\* Whoever moves to a row that fits leaves all that was.
LEMMA BaseStep ==
  ASSUME BaseInv, TablesTyped', TablesGrow, NEW r \in Reqs, NEW w, Become(r, w),
         Fits(w), Refers(w, session', code', unlock'), w.pc # "waiting"
  PROVE  BaseInv' /\ req'[r] = w /\ Others(r)
<1>1. req' = [q \in Reqs |-> req'[q]] /\ req'[r] = w /\ Others(r)
  BY BecomeFacts
<1>2. \A q \in Reqs : Fits(req[q]) /\ Refers(req[q], session, code, unlock)
  BY DEF BaseInv, HandlersFit
<1>3. ASSUME NEW q \in Reqs, q # r PROVE Fits(req[q]) /\ Refers(req[q], session', code', unlock')
  <2>1. PICK v : v = req[q]
    OBVIOUS
  <2>2. Fits(v) /\ Refers(v, session', code', unlock')
    BY <1>2, <2>1, RefersStill
  <2>3. QED
    BY <2>1, <2>2
<1>4. ASSUME NEW q \in Reqs PROVE Fits(req'[q]) /\ Refers(req'[q], session', code', unlock')
  BY <1>1, <1>3 DEF Others
<1>5. w.a \in Accounts
  BY DEF Fits
<1>6. \A q \in Reqs : req'[q] = Waiting \/ req'[q].a \in Accounts
  BY <1>1, <1>5 DEF Others, BaseInv, IdentityTypeOK, SessionsTypeOK
<1>7. HandlersFit'
  BY <1>1, <1>4 DEF HandlersFit, Fits, Refers
<1>8. IdentityTypeOK'
  BY <1>6 DEF TablesTyped, IdentityTypeOK, SessionsTypeOK
<1>9. QED
  BY <1>1, <1>7, <1>8 DEF BaseInv

\* The same where no handler moves.
LEMMA BaseStill ==
  ASSUME BaseInv, TablesTyped', TablesGrow, req' = req
  PROVE  BaseInv'
<1>1. ASSUME NEW q \in Reqs PROVE Fits(req[q]) /\ Refers(req[q], session', code', unlock')
  <2>1. PICK v : v = req[q]
    OBVIOUS
  <2>2. Fits(v) /\ Refers(v, session', code', unlock')
    BY <2>1, RefersStill DEF BaseInv, HandlersFit
  <2>3. QED
    BY <2>1, <2>2
<1>2. HandlersFit'
  BY <1>1 DEF HandlersFit, BaseInv, Fits, Refers
<1>3. IdentityTypeOK'
  BY DEF TablesTyped, IdentityTypeOK, SessionsTypeOK, BaseInv
<1>4. QED
  BY <1>2, <1>3 DEF BaseInv

\* Tables that are as they were have grown.
LEMMA SameGrow ==
  ASSUME BaseInv, session' = session, code' = code, unlock' = unlock
  PROVE  TablesGrow
BY DEF TablesGrow

\* A step that touches the handlers alone.
LEMMA QuietStep ==
  ASSUME BaseInv, UNCHANGED <<account, session, ended, code, unlock, now, raced>>,
         overlapped' \subseteq Accounts, overtaken' \subseteq Reqs,
         NEW r \in Reqs, NEW w, Become(r, w),
         Fits(w), Refers(w, session, code, unlock), w.pc # "waiting"
  PROVE  BaseInv' /\ req'[r] = w /\ Others(r)
<1>1. TablesTyped'
  BY Types DEF TablesTyped, LoginsTypeOK
<1>2. TablesGrow
  BY SameGrow
<1>3. Refers(w, session', code', unlock')
  OBVIOUS
<1>4. QED
  BY <1>1, <1>2, <1>3, BaseStep

LEMMA SeenType ==
  ASSUME BaseInv, NEW a \in Accounts
  PROVE  Seen(a) \in SeenRow
BY Types DEF Seen, SeenRow, TablesTyped, AccountRow

\* A handler's last row.
LEMMA DoneFits ==
  ASSUME NEW a \in Accounts, NEW w, w = [pc |-> "done", a |-> a]
  PROVE  /\ w.pc = "done" /\ w.a = a
         /\ Fits(w) /\ \A s, c, u : Refers(w, s, c, u)
BY DEF Fits, Refers

\* A row of an account is replaced.
LEMMA AccountUpdate ==
  ASSUME TablesTyped, NEW a \in Accounts, NEW row \in AccountRow,
         account' = [account EXCEPT ![a] = row]
  PROVE  /\ account' \in [Accounts -> AccountRow] /\ account'[a] = row
         /\ \A b \in Accounts : b # a => account'[b] = account[b]
BY DEF TablesTyped

\* A code of an account is replaced.
LEMMA CodeUpdate ==
  ASSUME BaseInv, NEW a \in Accounts, NEW k \in DOMAIN code[a], NEW row \in CodeRow,
         code' = [code EXCEPT ![a][k] = row]
  PROVE  /\ code' \in [Accounts -> Seq(CodeRow)]
         /\ \A b \in Accounts : b # a => code'[b] = code[b]
         /\ DOMAIN code'[a] = DOMAIN code[a] /\ code'[a][k] = row
         /\ \A j \in DOMAIN code[a] : j # k => code'[a][j] = code[a][j]
         /\ \A b \in Accounts : DOMAIN code[b] \subseteq DOMAIN code'[b]
<1>1. PICK old : old = code[a]
  OBVIOUS
<1>2. code \in [Accounts -> Seq(CodeRow)] /\ old \in Seq(CodeRow) /\ k \in 1..Len(old)
  BY <1>1, Types
<1>3. PICK new : new = [old EXCEPT ![k] = row]
  OBVIOUS
<1>4. /\ new \in Seq(CodeRow) /\ Len(new) = Len(old)
      /\ \A j \in 1..Len(old) : new[j] = IF j = k THEN row ELSE old[j]
  BY <1>2, <1>3, ExceptSeq
<1>5. code' = [code EXCEPT ![a] = new]
  BY <1>1, <1>2, <1>3
<1>6. code' \in [Accounts -> Seq(CodeRow)] /\ code'[a] = new /\ \A b \in Accounts : b # a => code'[b] = code[b]
  BY <1>2, <1>4, <1>5
<1>7. DOMAIN new = 1..Len(old) /\ DOMAIN old = 1..Len(old)
  BY <1>2, <1>4
<1>8. QED
  BY <1>1, <1>4, <1>6, <1>7, <1>2

\* The sessions of an account end, and what they go back to, but for fresh ones it misses.
LEMMA EndAllFacts ==
  ASSUME BaseInv, NEW a \in Accounts, EndAll(a)
  PROVE  /\ session' \in [SessionIds -> SessionRow \cup {Unopened}]
         /\ \A s \in SessionIds :
              /\ session[s].owner # a => session'[s] = session[s]
              /\ session[s].owner = a => session[s] \in SessionRow
              /\ session[s].owner = a => \/ session'[s] = [session[s] EXCEPT !.over = TRUE]
                                         \/ session'[s] = session[s] /\ s \in Fresh(a)
                                            /\ (session[s].root \in ended' => session[s].root \in ended)
         /\ ended \subseteq ended'
         /\ ended' \subseteq ended \cup {session[s].root : s \in {t \in SessionIds : session[t].owner = a}}
         /\ ended' \subseteq SessionIds
         /\ \A s \in SessionIds : session[s] # Unopened =>
              session'[s] # Unopened /\ session'[s].owner = session[s].owner
<1>1. session \in [SessionIds -> SessionRow \cup {Unopened}] /\ ended \subseteq SessionIds /\ None \notin Accounts
  BY Types DEF TablesTyped
<1>2. \A s \in SessionIds : session[s].owner = a => session[s] \in SessionRow
  BY <1>1 DEF Unopened
<1>3. PICK missed \in SUBSET Fresh(a) :
        /\ session' = [s \in SessionIds |-> IF s \in Of(a) \ missed THEN [session[s] EXCEPT !.over = TRUE]
                                             ELSE session[s]]
        /\ ended' = ended \cup (Roots(Of(a)) \ Roots(missed))
  BY DEF EndAll, Ended
<1>4. \A s \in SessionIds :
        /\ session[s].owner # a => session'[s] = session[s]
        /\ session[s].owner = a => \/ session'[s] = [session[s] EXCEPT !.over = TRUE]
                                   \/ session'[s] = session[s] /\ s \in Fresh(a)
                                      /\ (session[s].root \in ended' => session[s].root \in ended)
  <2>1. ASSUME NEW s \in SessionIds, session[s].owner # a PROVE session'[s] = session[s]
    BY <1>3, <2>1 DEF Of
  <2>2. ASSUME NEW s \in SessionIds, session[s].owner = a, s \notin missed
        PROVE  session'[s] = [session[s] EXCEPT !.over = TRUE]
    BY <1>3, <2>2 DEF Of
  <2>3. ASSUME NEW s \in missed, s \in SessionIds
        PROVE  session'[s] = session[s] /\ s \in Fresh(a)
               /\ (session[s].root \in ended' => session[s].root \in ended)
    BY <1>3, <2>3 DEF Roots
  <2>4. QED
    BY <2>1, <2>2, <2>3
<1>5. \A row \in SessionRow : [row EXCEPT !.over = TRUE] \in SessionRow
                              /\ [row EXCEPT !.over = TRUE].owner = row.owner /\ row # Unopened
  <2> SUFFICES ASSUME NEW row \in SessionRow
               PROVE  [row EXCEPT !.over = TRUE] \in SessionRow
                      /\ [row EXCEPT !.over = TRUE].owner = row.owner /\ row # Unopened
    OBVIOUS
  <2>1. row.owner \in Accounts
    BY DEF SessionRow
  <2>2. row # Unopened
    BY <1>1, <2>1 DEF Unopened
  <2>3. [row EXCEPT !.over = TRUE] \in SessionRow /\ [row EXCEPT !.over = TRUE].owner = row.owner
    BY DEF SessionRow
  <2>4. QED
    BY <2>2, <2>3
<1>6. session' \in [SessionIds -> SessionRow \cup {Unopened}]
  BY <1>1, <1>2, <1>3, <1>4, <1>5
<1>7. /\ ended \subseteq ended'
      /\ ended' \subseteq ended \cup {session[s].root : s \in {t \in SessionIds : session[t].owner = a}}
  BY <1>3 DEF Roots, Of
<1>8. \A s \in SessionIds : session[s].owner = a => session[s].root \in SessionIds
  <2>1. \A row \in SessionRow : row.root \in SessionIds
    BY DEF SessionRow
  <2>2. ASSUME NEW s \in SessionIds, session[s].owner = a PROVE session[s].root \in SessionIds
    <3>1. session[s] \in SessionRow
      BY <1>2, <2>2
    <3>2. QED
      BY <2>1, <3>1
  <2>3. QED
    BY <2>2
<1>9. ended' \subseteq SessionIds
  BY <1>1, <1>7, <1>8
<1>10. ASSUME NEW s \in SessionIds, session[s] # Unopened
       PROVE  session'[s] # Unopened /\ session'[s].owner = session[s].owner
  <2>1. CASE session[s].owner = a
    BY <1>2, <1>4, <1>5, <2>1
  <2>2. CASE session[s].owner # a
    BY <1>4, <1>10, <2>2
  <2>3. QED
    BY <2>1, <2>2
<1>11. QED
  BY <1>2, <1>4, <1>6, <1>7, <1>9, <1>10

----------------------------------------------------------------------------
(* Sessions.                                                                *)

\* A new session's id is one nobody has.
LEMMA NewIdIsNew ==
  ASSUME NewIds # {}
  PROVE  NewId \in SessionIds /\ session[NewId] = Unopened
BY DEF NewIds, NewId, Opened

\* A session is opened: nothing else changes in the table.
LEMMA CreatedFacts ==
  ASSUME BaseInv, NEW n \in SessionIds, session[n] = Unopened, NEW row \in SessionRow,
         session' = [session EXCEPT ![n] = row]
  PROVE  /\ session' \in [SessionIds -> SessionRow \cup {Unopened}]
         /\ session'[n] = row /\ row # Unopened
         /\ \A s \in SessionIds : s # n => session'[s] = session[s]
         /\ \A s \in SessionIds : session[s] # Unopened =>
              session'[s] # Unopened /\ session'[s].owner = session[s].owner
<1>1. session \in [SessionIds -> SessionRow \cup {Unopened}] /\ None \notin Accounts
  BY Types DEF TablesTyped
<1>2. row # Unopened
  BY <1>1 DEF SessionRow, Unopened
<1>3. QED
  BY <1>1, <1>2

LEMMA OpenStep ==
  ASSUME BaseInv, NEW r \in Reqs, Open(r), UNCHANGED <<logins, raced>>
  PROVE  /\ BaseInv' /\ Others(r) /\ req'[r].pc = "done" /\ req'[r].a = req[r].a
         /\ req[r].a \in Accounts
         /\ \E n \in SessionIds : \E row \in SessionRow :
              /\ session[n] = Unopened
              /\ row = [owner |-> req[r].a, over |-> FALSE, next |-> None, role |-> req[r].saw.role,
                        root |-> n, by |-> r]
              /\ session'[n] = row /\ row # Unopened
              /\ \A s \in SessionIds : s # n => session'[s] = session[s]
<1>1. req[r].a \in Accounts /\ req[r].saw \in SeenRow
  BY DEF BaseInv, HandlersFit, Fits, Open, At
<1>2. PICK n \in SessionIds : n = NewId /\ session[n] = Unopened
  BY NewIdIsNew DEF Open
<1>3. PICK row : row = [owner |-> req[r].a, over |-> FALSE, next |-> None, role |-> req[r].saw.role,
                        root |-> n, by |-> r]
  OBVIOUS
<1>4. row \in SessionRow
  <2>1. req[r].saw.role \in Roles \cup {None}
    BY <1>1 DEF SeenRow
  <2>2. QED
    BY <1>1, <1>3, <2>1 DEF SessionRow
<1>5. session' = [session EXCEPT ![n] = row]
  BY <1>2, <1>3 DEF Open, Created
<1>6. /\ session' \in [SessionIds -> SessionRow \cup {Unopened}]
      /\ session'[n] = row /\ row # Unopened
      /\ \A s \in SessionIds : s # n => session'[s] = session[s]
      /\ \A s \in SessionIds : session[s] # Unopened =>
           session'[s] # Unopened /\ session'[s].owner = session[s].owner
  BY <1>2, <1>4, <1>5, CreatedFacts
<1>7. account' = account /\ ended' = ended /\ UNCHANGED <<code, unlock, now, overlapped, overtaken, raced>>
  BY DEF Open, logins
<1>8. TablesTyped' /\ TablesGrow
  BY <1>6, <1>7, Types DEF TablesTyped, TablesGrow, LoginsTypeOK
<1>9. PICK w : w = [pc |-> "done", a |-> req[r].a]
  OBVIOUS
<1>10. Become(r, w)
  BY <1>9 DEF Open, Finish
<1>11. w.pc = "done" /\ w.a = req[r].a /\ Fits(w) /\ Refers(w, session', code', unlock')
  BY <1>1, <1>9, DoneFits
<1>12. BaseInv' /\ req'[r] = w /\ Others(r)
  BY <1>8, <1>10, <1>11, BaseStep
<1>13. QED
  BY <1>1, <1>2, <1>3, <1>4, <1>6, <1>11, <1>12

LEMMA SignOutStep ==
  ASSUME BaseInv, NEW s \in SessionIds, SignOut(s), UNCHANGED <<logins, raced>>
  PROVE  /\ BaseInv' /\ session[s] \in SessionRow
         /\ session'[s] = [session[s] EXCEPT !.over = TRUE] /\ session'[s] # Unopened
         /\ \A t \in SessionIds : t # s => session'[t] = session[t]
         /\ ended' = ended \cup {session[s].root}
<1>1. session \in [SessionIds -> SessionRow \cup {Unopened}] /\ None \notin Accounts /\ ended \subseteq SessionIds
  BY Types DEF TablesTyped
<1>2. session[s] \in SessionRow
  BY <1>1 DEF SignOut, Live, Opened
<1>3. PICK row : row = [session[s] EXCEPT !.over = TRUE]
  OBVIOUS
<1>4. row \in SessionRow /\ row.owner = session[s].owner /\ session[s].root \in SessionIds
  BY <1>2, <1>3 DEF SessionRow
<1>5. row # Unopened
  BY <1>1, <1>4 DEF SessionRow, Unopened
<1>6. session' = [t \in SessionIds |-> IF t \in {s} THEN [session[t] EXCEPT !.over = TRUE] ELSE session[t]]
  BY DEF SignOut, Ended
<1>7. session'[s] = row /\ \A t \in SessionIds : t # s => session'[t] = session[t]
  BY <1>3, <1>6
<1>8. session' \in [SessionIds -> SessionRow \cup {Unopened}]
  BY <1>1, <1>4, <1>6, <1>7
<1>9. ended' = ended \cup {session[s].root}
  BY DEF SignOut, Roots
<1>10. UNCHANGED <<account, req, code, unlock, now, overlapped, overtaken, raced>>
  BY DEF SignOut, logins
<1>11. TablesTyped'
  BY <1>1, <1>4, <1>8, <1>9, <1>10, Types DEF TablesTyped, LoginsTypeOK
<1>12. TablesGrow
  BY <1>4, <1>5, <1>7, <1>10 DEF TablesGrow
<1>13. BaseInv'
  BY <1>10, <1>11, <1>12, BaseStill
<1>14. QED
  BY <1>2, <1>3, <1>5, <1>7, <1>9, <1>13

LEMMA RefreshReadStep ==
  ASSUME BaseInv, NEW r \in Reqs, NEW s \in SessionIds, RefreshRead(r, s), UNCHANGED <<logins, raced>>
  PROVE  /\ BaseInv' /\ Others(r)
         /\ req'[r].pc \in {"replay", "rotate"} /\ req'[r].a \in Accounts
         /\ req'[r].pc = "rotate" => account[req'[r].a].active
<1>1. session \in [SessionIds -> SessionRow \cup {Unopened}]
  BY Types DEF TablesTyped
<1>2. session[s] \in SessionRow /\ session[s] # Unopened
  BY <1>1 DEF RefreshRead, Opened
<1>3. session[s].owner \in Accounts
  BY <1>2 DEF SessionRow
<1>4. PICK w : w = [pc |-> IF session[s].next # None THEN "replay" ELSE "rotate",
                    op |-> "refresh", a |-> session[s].owner, s |-> s]
  OBVIOUS
<1>5. Become(r, w)
  BY <1>4 DEF RefreshRead, Begin, Become
<1>6. w.pc \in {"replay", "rotate"} /\ w.a = session[s].owner /\ w.s = s /\ w \in RefreshRow
  <2>1. CASE session[s].next # None
    BY <1>3, <1>4, <2>1 DEF RefreshRow, Place
  <2>2. CASE session[s].next = None
    BY <1>3, <1>4, <2>2 DEF RefreshRow, Place
  <2>3. QED
    BY <2>1, <2>2
<1>7. w.pc = "rotate" => account[w.a].active
  BY <1>4, <1>6 DEF RefreshRead
<1>8. Fits(w) /\ Refers(w, session, code, unlock)
  BY <1>2, <1>3, <1>6 DEF Fits, Refers
<1>9. BaseInv' /\ req'[r] = w /\ Others(r)
  BY <1>5, <1>6, <1>8, QuietStep, Types DEF RefreshRead, logins
<1>10. QED
  BY <1>3, <1>6, <1>7, <1>9

LEMMA ReplayStep ==
  ASSUME BaseInv, NEW r \in Reqs, Replay(r), UNCHANGED <<logins, raced>>
  PROVE  /\ BaseInv' /\ Others(r) /\ req'[r].pc = "done" /\ req'[r].a = req[r].a
         /\ req[r].a \in Accounts
<1>1. req[r].a \in Accounts
  BY DEF BaseInv, HandlersFit, Fits, Replay, At
<1>2. EndAll(req[r].a)
  BY DEF Replay
<1>3. PICK a \in Accounts : a = req[r].a
  BY <1>1
<1>4. EndAll(a)
  BY <1>2, <1>3
<1>5. UNCHANGED <<account, code, unlock, now, overlapped, overtaken, raced>>
  BY DEF Replay, logins
<1>6. TablesTyped' /\ TablesGrow
  BY <1>4, <1>5, EndAllFacts, Types DEF TablesTyped, TablesGrow, LoginsTypeOK
<1>7. PICK w : w = [pc |-> "done", a |-> a]
  OBVIOUS
<1>8. Become(r, w)
  BY <1>3, <1>7 DEF Replay, Finish
<1>9. w.pc = "done" /\ w.a = a /\ Fits(w) /\ Refers(w, session', code', unlock')
  BY <1>7, DoneFits
<1>10. BaseInv' /\ req'[r] = w /\ Others(r)
  BY <1>6, <1>8, <1>9, BaseStep
<1>11. QED
  BY <1>3, <1>9, <1>10

LEMMA RotateStep ==
  ASSUME BaseInv, NEW r \in Reqs, Rotate(r), UNCHANGED <<logins, raced>>
  PROVE  /\ BaseInv' /\ Others(r) /\ req'[r].pc \in {"done", "committed"} /\ req'[r].a = req[r].a
         /\ req[r].a \in Accounts
         /\ \/ session' = session
            \/ \E n, s \in SessionIds : \E row \in SessionRow :
                 /\ session[n] = Unopened /\ session[s] \in SessionRow /\ s # n
                 /\ session[s] # Unopened /\ ~session[s].over /\ session[s].owner = req[r].a
                 /\ row = [owner |-> req[r].a, over |-> FALSE, next |-> None,
                           role |-> account[req[r].a].role, root |-> session[s].root, by |-> r]
                 /\ session'[n] = row /\ row # Unopened
                 /\ session'[s] = [session[s] EXCEPT !.over = TRUE, !.next = n]
                 /\ \A t \in SessionIds \ {n, s} : session'[t] = session[t]
<1>1. req[r] \in RefreshRow /\ Refers(req[r], session, code, unlock) /\ req[r].pc = "rotate"
  BY DEF BaseInv, HandlersFit, Fits, Rotate, RotateIf, At
<1>2. req[r].a \in Accounts /\ req[r].s \in SessionIds /\ session[req[r].s].owner = req[r].a
  BY <1>1 DEF RefreshRow, Refers
<1>3. PICK a \in Accounts, s \in SessionIds : a = req[r].a /\ s = req[r].s
  BY <1>2
<1>4. PICK w : /\ Become(r, w)
               /\ w = [pc |-> "done", a |-> a] \/ w = [req[r] EXCEPT !.pc = "committed"]
  BY <1>3 DEF Rotate, RotateIf, Finish, Goto
<1>5. Become(r, w)
  BY <1>4
<1>6. w.pc \in {"done", "committed"} /\ w.a = a /\ Fits(w) /\ Refers(w, session', code', unlock')
      /\ Refers(w, session, code, unlock)
  <2>1. CASE w = [pc |-> "done", a |-> a]
    BY <2>1, DoneFits
  <2>2. CASE w = [req[r] EXCEPT !.pc = "committed"]
    <3>1. w.pc = "committed" /\ w.a = a
      BY <1>1, <1>3, <2>2 DEF RefreshRow
    <3>2. QED
      BY <3>1 DEF Fits, Refers
  <2>3. QED
    BY <1>4, <2>1, <2>2
<1>7. UNCHANGED <<account, ended, code, unlock, now, overlapped, overtaken, raced>>
  BY DEF Rotate, RotateIf, logins
<1>8. CASE session' = session
  <2>1. BaseInv' /\ req'[r] = w /\ Others(r)
    BY <1>5, <1>6, <1>7, <1>8, QuietStep, Types
  <2>2. QED
    BY <1>2, <1>3, <1>6, <1>8, <2>1
<1>9. CASE /\ Live(s) /\ NewIds # {}
           /\ session' = [Created(NewId, r, session[s].root, account[a].role)
                            EXCEPT ![s].over = TRUE, ![s].next = NewId]
  <2>1. session \in [SessionIds -> SessionRow \cup {Unopened}] /\ None \notin Accounts
    BY Types DEF TablesTyped
  <2>2. PICK n \in SessionIds : n = NewId /\ session[n] = Unopened
    BY <1>9, NewIdIsNew
  <2>3. session[s] # Unopened /\ ~session[s].over /\ session[s] \in SessionRow /\ s # n
    BY <1>9, <2>1, <2>2 DEF Live, Opened
  <2>4. PICK row : row = [owner |-> a, over |-> FALSE, next |-> None, role |-> account[a].role,
                          root |-> session[s].root, by |-> r]
    OBVIOUS
  <2>5. account[a].role \in Roles \cup {None} /\ session[s].root \in SessionIds
    BY <2>3, Types DEF TablesTyped, AccountRow, SessionRow
  <2>6. row \in SessionRow
    BY <2>4, <2>5 DEF SessionRow
  <2>7. row # Unopened
    BY <2>1, <2>6 DEF SessionRow, Unopened
  <2>8. PICK old : old = [session[s] EXCEPT !.over = TRUE, !.next = n]
    OBVIOUS
  <2>9. old \in SessionRow /\ old.owner = session[s].owner
    BY <2>3, <2>8 DEF SessionRow
  <2>10. old # Unopened
    BY <2>1, <2>9 DEF SessionRow, Unopened
  <2>11. PICK made : made = [session EXCEPT ![n] = row]
    OBVIOUS
  <2>12. session' = [made EXCEPT ![s].over = TRUE, ![s].next = n]
    BY <1>3, <1>9, <2>2, <2>4, <2>11 DEF Created
  <2>13. made \in [SessionIds -> SessionRow \cup {Unopened}] /\ made[s] = session[s] /\ made[n] = row
    BY <2>1, <2>3, <2>6, <2>11
  <2>14. session' = [made EXCEPT ![s] = old]
    BY <2>8, <2>12, <2>13
  <2>15. /\ session' \in [SessionIds -> SessionRow \cup {Unopened}]
         /\ session'[n] = row /\ session'[s] = old
         /\ \A t \in SessionIds \ {n, s} : session'[t] = session[t]
    BY <2>1, <2>3, <2>9, <2>11, <2>13, <2>14
  <2>16. TablesTyped'
    BY <1>7, <2>15, Types DEF TablesTyped, LoginsTypeOK
  <2>17. TablesGrow
    BY <1>7, <2>2, <2>9, <2>10, <2>15 DEF TablesGrow
  <2>18. BaseInv' /\ req'[r] = w /\ Others(r)
    <3>1. w.pc # "waiting"
      BY <1>6
    <3>2. QED
      BY <1>5, <1>6, <2>16, <2>17, <3>1, BaseStep
  <2>19. /\ session[n] = Unopened /\ session[s] \in SessionRow /\ s # n
         /\ session[s] # Unopened /\ ~session[s].over /\ session[s].owner = req[r].a
         /\ row = [owner |-> req[r].a, over |-> FALSE, next |-> None,
                   role |-> account[req[r].a].role, root |-> session[s].root, by |-> r]
         /\ session'[n] = row /\ row # Unopened
         /\ session'[s] = [session[s] EXCEPT !.over = TRUE, !.next = n]
         /\ \A t \in SessionIds \ {n, s} : session'[t] = session[t]
    BY <1>2, <1>3, <2>2, <2>3, <2>4, <2>7, <2>8, <2>15
  <2>20. req'[r].pc \in {"done", "committed"} /\ req'[r].a = req[r].a /\ req[r].a \in Accounts
    BY <1>2, <1>3, <1>6, <2>18
  <2>21. QED
    BY <2>6, <2>18, <2>19, <2>20, Zenon
<1>10. QED
  BY <1>3, <1>8, <1>9 DEF Rotate, RotateIf

LEMMA RotatedStep ==
  ASSUME BaseInv, NEW r \in Reqs, Rotated(r), UNCHANGED <<logins, raced>>
  PROVE  BaseInv' /\ Others(r) /\ req'[r].pc = "done" /\ req[r].pc = "committed"
<1>1. req[r].a \in Accounts /\ req[r].pc = "committed"
  BY DEF BaseInv, HandlersFit, Fits, Rotated, At
<1>2. PICK a \in Accounts : a = req[r].a
  BY <1>1
<1>3. PICK w : w = [pc |-> "done", a |-> a]
  OBVIOUS
<1>4. Become(r, w) /\ UNCHANGED <<account, session, ended, code, unlock, now, overlapped, overtaken, raced>>
  BY <1>2, <1>3 DEF Rotated, Finish, logins
<1>5. w.pc = "done" /\ Fits(w) /\ Refers(w, session, code, unlock)
  BY <1>3, DoneFits
<1>6. QED
  BY <1>1, <1>4, <1>5, QuietStep, Types

----------------------------------------------------------------------------
(* Attempts and PINs.                                                       *)

\* No other account's row changes.
OnlyRow(a) == \A b \in Accounts : b # a => account'[b] = account[b]

\* Nor does what handlers see of it.
SameSeen(a) ==
  /\ account'[a].secret = account[a].secret
  /\ account'[a].role = account[a].role /\ account'[a].active = account[a].active

\* What a handler that counts attempts has at hand.
LEMMA CountingRow ==
  ASSUME BaseInv, NEW r \in Reqs, req[r].pc \in {"reserve", "settle"}
  PROVE  /\ req[r] \in PinRow \cup PassRow /\ req[r].a \in Accounts
         /\ req[r].a \in Customers => req[r] \in PinRow
         /\ req[r].a \in StaffUsers => req[r] \in PassRow
<1>1. req[r] \in PinRow \cup PassRow /\ req[r].a \in Accounts
  BY DEF BaseInv, HandlersFit, Fits
<1>2. \A w \in PinRow : w.a \in Customers
  BY DEF PinRow
<1>3. \A w \in PassRow : w.a \in StaffUsers
  BY DEF PassRow
<1>4. QED
  BY <1>1, <1>2, <1>3, Types

\* What a handler of a PIN, or of a password, has at hand, field by field.
LEMMA WholePinRow ==
  ASSUME NEW w \in PinRow
  PROVE  /\ w.op \in {"signIn", "stepUp", "change"} /\ w.a \in Customers /\ w.secret \in Secrets
         /\ w.new \in Secrets /\ w.saw \in SeenRow /\ w.n \in Nat
BY DEF PinRow

LEMMA WholePassRow ==
  ASSUME NEW w \in PassRow
  PROVE  /\ w.op \in {"signIn", "confirm"} /\ w.a \in StaffUsers /\ w.secret \in Secrets
         /\ w.saw \in SeenRow /\ w.n \in Nat
BY DEF PassRow

\* A row of an account, field by field.
LEMMA WholeRow ==
  ASSUME NEW old \in AccountRow
  PROVE  /\ old = [secret |-> old.secret, attempts |-> old.attempts, locked |-> old.locked,
                   active |-> old.active, role |-> old.role]
         /\ old.secret \in Secrets \cup {None} /\ old.attempts \in 0..MaxAttempts
         /\ old.locked \in BOOLEAN /\ old.active \in BOOLEAN /\ old.role \in Roles \cup {None}
BY DEF AccountRow

LEMMA ReserveStep ==
  ASSUME BaseInv, NEW r \in Reqs, Reserve(r), UNCHANGED <<logins, raced>>
  PROVE  /\ BaseInv' /\ Others(r) /\ OnlyRow(req[r].a) /\ SameSeen(req[r].a)
         /\ req[r].pc = "reserve" /\ req[r].a \in Accounts /\ req'[r].a = req[r].a
         /\ account'[req[r].a].locked = account[req[r].a].locked
         /\ \/ account' = account /\ req'[r].pc = "done"
            \/ /\ account'[req[r].a].attempts = account[req[r].a].attempts + 1
               /\ req'[r].pc = "settle" /\ req'[r].n = account'[req[r].a].attempts
               /\ req'[r].saw = req[r].saw
<1>1. req[r].pc = "reserve" /\ req[r] \in PinRow \cup PassRow /\ req[r].a \in Accounts
  BY CountingRow DEF Reserve, ReserveIf, At
<1>2. PICK a \in Accounts : a = req[r].a
  BY <1>1
<1>3. UNCHANGED <<session, ended, code, unlock, now, overlapped, overtaken, raced>>
  BY DEF Reserve, ReserveIf, logins
<1>4. TablesGrow
  BY <1>3, SameGrow
<1>5. CASE account' = account /\ Finish(r)
  <2>1. PICK w : w = [pc |-> "done", a |-> a]
    OBVIOUS
  <2>2. Become(r, w)
    BY <1>2, <1>5, <2>1 DEF Finish
  <2>3. w.pc = "done" /\ w.a = a /\ Fits(w) /\ Refers(w, session, code, unlock)
    BY <2>1, DoneFits
  <2>4. BaseInv' /\ req'[r] = w /\ Others(r)
    BY <1>3, <1>5, <2>2, <2>3, QuietStep, Types
  <2>5. QED
    BY <1>1, <1>2, <1>5, <2>3, <2>4 DEF OnlyRow, SameSeen
<1>6. CASE /\ account[a].attempts < MaxAttempts
           /\ account' = [account EXCEPT ![a].attempts = @ + 1]
           /\ Become(r, [req[r] EXCEPT !.pc = "settle", !.n = account[a].attempts + 1])
  <2>1. account[a] \in AccountRow /\ account[a].attempts \in 0..MaxAttempts
    BY Types DEF TablesTyped, AccountRow
  <2>2. PICK row : row = [account[a] EXCEPT !.attempts = account[a].attempts + 1]
    OBVIOUS
  <2> PICK old \in AccountRow : old = account[a]
    BY <2>1
  <2> PICK n : n = old.attempts + 1
    OBVIOUS
  <2>3. /\ row \in AccountRow /\ row.attempts = account[a].attempts + 1 /\ row.locked = account[a].locked
        /\ row.secret = account[a].secret /\ row.role = account[a].role /\ row.active = account[a].active
    <3>1. /\ old = [secret |-> old.secret, attempts |-> old.attempts, locked |-> old.locked,
                    active |-> old.active, role |-> old.role]
          /\ old.secret \in Secrets \cup {None} /\ old.attempts \in 0..MaxAttempts
          /\ old.locked \in BOOLEAN /\ old.active \in BOOLEAN /\ old.role \in Roles \cup {None}
      BY WholeRow
    <3>2. row = [secret |-> old.secret, attempts |-> n, locked |-> old.locked,
                 active |-> old.active, role |-> old.role]
      BY <2>2, <3>1
    <3>3. n \in 0..MaxAttempts
      BY <1>6, <3>1, Types
    <3>4. row \in AccountRow
      BY <3>1, <3>2, <3>3 DEF AccountRow
    <3>5. QED
      BY <3>2, <3>4
  <2>4. account' = [account EXCEPT ![a] = row]
    BY <1>6, <2>2
  <2>5. /\ account' \in [Accounts -> AccountRow] /\ account'[a] = row
        /\ \A b \in Accounts : b # a => account'[b] = account[b]
    BY <2>3, <2>4, AccountUpdate, Types
  <2>6. PICK m \in Nat : m = account[a].attempts + 1
    BY <2>1, Types
  <2>7. PICK w : w = [req[r] EXCEPT !.pc = "settle", !.n = m]
    OBVIOUS
  <2>8. Become(r, w)
    BY <1>6, <2>6, <2>7
  <2>9. w \in PinRow \cup PassRow /\ w.pc = "settle" /\ w.n = m /\ w.a = a /\ w.saw = req[r].saw
    <3>1. "settle" \in Place
      BY DEF Place
    <3> PICK prior : prior = req[r]
      OBVIOUS
    <3>2. w = [prior EXCEPT !.pc = "settle", !.n = m] /\ prior \in PinRow \cup PassRow
      BY <1>1, <2>7
    <3>3. /\ prior \in PinRow => w \in PinRow
          /\ prior \in PassRow => w \in PassRow
          /\ w.pc = "settle" /\ w.n = m /\ w.a = prior.a /\ w.saw = prior.saw
      <4>1. CASE prior \in PinRow
        <5>1. w = [pc |-> "settle", op |-> prior.op, a |-> prior.a, secret |-> prior.secret,
                   new |-> prior.new, saw |-> prior.saw, n |-> m]
          BY <3>2, <4>1 DEF PinRow
        <5>2. w \in PinRow
          BY <3>1, <4>1, <5>1, WholePinRow DEF PinRow
        <5>3. prior \notin PassRow
          BY <4>1, Types, WholePinRow, WholePassRow
        <5>4. QED
          BY <5>1, <5>2, <5>3
      <4>2. CASE prior \in PassRow
        <5>1. w = [pc |-> "settle", op |-> prior.op, a |-> prior.a, secret |-> prior.secret,
                   saw |-> prior.saw, n |-> m]
          BY <3>2, <4>2 DEF PassRow
        <5>2. w \in PassRow
          BY <3>1, <4>2, <5>1, WholePassRow DEF PassRow
        <5>3. prior \notin PinRow
          BY <4>2, Types, WholePinRow, WholePassRow
        <5>4. QED
          BY <5>1, <5>2, <5>3
      <4>3. QED
        BY <3>2, <4>1, <4>2
    <3>4. QED
      BY <1>2, <3>2, <3>3
  <2>10. Fits(w) /\ Refers(w, session', code', unlock')
    BY <2>9 DEF Fits, Refers
  <2>11. TablesTyped'
    BY <1>3, <2>5, Types DEF TablesTyped, LoginsTypeOK
  <2>12. w.pc # "waiting"
    BY <2>9
  <2>13. BaseInv' /\ req'[r] = w /\ Others(r)
    BY <1>4, <2>8, <2>10, <2>11, <2>12, BaseStep
  <2>14. QED
    BY <1>1, <1>2, <2>3, <2>5, <2>6, <2>9, <2>13 DEF OnlyRow, SameSeen
<1>7. QED
  BY <1>2, <1>5, <1>6 DEF Reserve, ReserveIf

LEMMA PresentPinStep ==
  ASSUME BaseInv, NEW r \in Reqs, NEW a \in Customers, NEW p \in Secrets, NEW q \in Secrets,
         NEW op \in {"signIn", "stepUp", "change"}, PresentPin(r, op, a, p, q), UNCHANGED raced
  PROVE  /\ BaseInv' /\ Others(r) /\ req'[r].pc = "reserve" /\ req'[r].a = a
         /\ req'[r].saw = Seen(a)
<1>1. a \in Accounts
  BY Types
<1>2. PICK w : w = [pc |-> "reserve", op |-> op, a |-> a, secret |-> p, new |-> q,
                    saw |-> Seen(a), n |-> 0]
  OBVIOUS
<1>3. Become(r, w)
  BY <1>2 DEF PresentPin, Begin
<1>4. w \in PinRow /\ w.pc = "reserve" /\ w.a = a /\ w.saw = Seen(a)
  BY <1>1, <1>2, SeenType DEF PinRow, Place
<1>5. Fits(w) /\ Refers(w, session, code, unlock) /\ w.pc # "waiting"
  BY <1>1, <1>4 DEF Fits, Refers
<1>6. BaseInv' /\ req'[r] = w /\ Others(r)
  BY <1>3, <1>5, QuietStep, Types DEF PresentPin, logins
<1>7. QED
  BY <1>4, <1>6

LEMMA PinRightStep ==
  ASSUME BaseInv, NEW r \in Reqs, PinRight(r), UNCHANGED raced
  PROVE  /\ BaseInv' /\ Others(r) /\ OnlyRow(req[r].a) /\ SameSeen(req[r].a)
         /\ req[r].pc = "settle" /\ req[r].a \in Customers /\ req'[r].a = req[r].a
         /\ account'[req[r].a].locked = account[req[r].a].locked
         /\ account'[req[r].a].attempts = 0
         /\ req[r].secret = req[r].saw.secret
         /\ \/ req'[r].pc = "done"
            \/ req'[r].pc = "write" /\ req'[r].secret = req[r].secret
            \/ req'[r].pc = "open" /\ req'[r].op = "signIn" /\ req'[r].secret = req[r].secret
<1>1. req[r].pc = "settle" /\ req[r] \in PinRow /\ req[r].a \in Customers
  BY CountingRow DEF PinRight, At
<1>2. PICK a \in Accounts : a = req[r].a
  BY <1>1, Types
<1>3. UNCHANGED <<session, ended, code, unlock, now, overlapped, overtaken, raced>>
  BY DEF PinRight, logins
<1>4. TablesGrow
  BY <1>3, SameGrow
<1>5. account[a] \in AccountRow
  BY Types DEF TablesTyped
<1>6. PICK row : row = [account[a] EXCEPT !.attempts = 0]
  OBVIOUS
<1>7. /\ row \in AccountRow /\ row.attempts = 0 /\ row.locked = account[a].locked
      /\ row.secret = account[a].secret /\ row.role = account[a].role /\ row.active = account[a].active
  <2> PICK old \in AccountRow : old = account[a]
    BY <1>5
  <2>1. /\ old = [secret |-> old.secret, attempts |-> old.attempts, locked |-> old.locked,
                  active |-> old.active, role |-> old.role]
        /\ old.secret \in Secrets \cup {None} /\ old.attempts \in 0..MaxAttempts
        /\ old.locked \in BOOLEAN /\ old.active \in BOOLEAN /\ old.role \in Roles \cup {None}
        /\ 0 \in 0..MaxAttempts
    BY WholeRow, Types
  <2>2. row = [secret |-> old.secret, attempts |-> 0, locked |-> old.locked,
               active |-> old.active, role |-> old.role]
    BY <1>6, <2>1
  <2>3. row \in AccountRow
    BY <2>1, <2>2 DEF AccountRow
  <2>4. QED
    BY <2>2, <2>3
<1>8. account' = [account EXCEPT ![a] = row]
  BY <1>2, <1>6 DEF PinRight
<1>9. /\ account' \in [Accounts -> AccountRow] /\ account'[a] = row
      /\ \A b \in Accounts : b # a => account'[b] = account[b]
  BY <1>7, <1>8, AccountUpdate, Types
<1>10. TablesTyped'
  BY <1>3, <1>9, Types DEF TablesTyped, LoginsTypeOK
<1>11. PICK w : /\ Become(r, w)
                /\ \/ w = [req[r] EXCEPT !.pc = "open", !.n = 0] /\ req[r].op = "signIn"
                   \/ w = [req[r] EXCEPT !.pc = "write", !.n = 0]
                   \/ w = [pc |-> "done", a |-> a]
  <2>1. CASE req[r].op = "signIn"
    BY <2>1 DEF PinRight
  <2>2. CASE req[r].op # "signIn" /\ req[r].op = "change" /\ req[r].new # req[r].secret
    BY <2>2 DEF PinRight
  <2>3. CASE req[r].op # "signIn" /\ ~(req[r].op = "change" /\ req[r].new # req[r].secret)
    BY <1>2, <2>3 DEF PinRight, Finish
  <2>4. QED
    BY <2>1, <2>2, <2>3
<1>12. /\ Fits(w) /\ Refers(w, session', code', unlock') /\ w.a = a /\ w.pc # "waiting"
       /\ \/ w.pc = "done"
          \/ w.pc = "write" /\ w.secret = req[r].secret
          \/ w.pc = "open" /\ w.op = "signIn" /\ w.secret = req[r].secret
  <2>1. CASE w = [req[r] EXCEPT !.pc = "open", !.n = 0] /\ req[r].op = "signIn"
    <3>1. /\ w \in PinRow /\ w.pc = "open" /\ w.a = a /\ w.op = "signIn"
          /\ w.secret = req[r].secret /\ w.saw \in SeenRow
      <4> PICK old : old = req[r]
        OBVIOUS
      <4>1. "open" \in Place /\ 0 \in Nat
        BY DEF Place
      <4>2. w = [old EXCEPT !.pc = "open", !.n = 0] /\ old \in PinRow
        BY <1>1, <2>1
      <4>3. w = [pc |-> "open", op |-> old.op, a |-> old.a, secret |-> old.secret,
                 new |-> old.new, saw |-> old.saw, n |-> 0]
        BY <4>2 DEF PinRow
      <4>4. w \in PinRow
        BY <4>1, <4>2, <4>3, WholePinRow DEF PinRow
      <4>5. QED
        BY <1>2, <2>1, <4>2, <4>3, <4>4, WholePinRow
    <3>2. QED
      BY <3>1 DEF Fits, Refers
  <2>2. CASE w = [req[r] EXCEPT !.pc = "write", !.n = 0]
    <3>1. w \in PinRow /\ w.pc = "write" /\ w.a = a /\ w.secret = req[r].secret
      <4> PICK old : old = req[r]
        OBVIOUS
      <4>1. "write" \in Place /\ 0 \in Nat
        BY DEF Place
      <4>2. w = [old EXCEPT !.pc = "write", !.n = 0] /\ old \in PinRow
        BY <1>1, <2>2
      <4>3. w = [pc |-> "write", op |-> old.op, a |-> old.a, secret |-> old.secret,
                 new |-> old.new, saw |-> old.saw, n |-> 0]
        BY <4>2 DEF PinRow
      <4>4. w \in PinRow
        BY <4>1, <4>2, <4>3, WholePinRow DEF PinRow
      <4>5. QED
        BY <1>2, <2>2, <4>2, <4>3, <4>4, WholePinRow
    <3>2. QED
      BY <3>1 DEF Fits, Refers
  <2>3. CASE w = [pc |-> "done", a |-> a]
    BY <2>3, DoneFits
  <2>4. QED
    BY <1>11, <2>1, <2>2, <2>3
<1>13. BaseInv' /\ req'[r] = w /\ Others(r)
  BY <1>4, <1>10, <1>11, <1>12, BaseStep
<1>14. req[r].secret = req[r].saw.secret
  BY DEF PinRight, Matches
<1>15. QED
  BY <1>1, <1>2, <1>7, <1>9, <1>12, <1>13, <1>14 DEF OnlyRow, SameSeen

LEMMA PinWrongStep ==
  ASSUME BaseInv, NEW r \in Reqs, PinWrong(r), UNCHANGED raced
  PROVE  /\ BaseInv' /\ Others(r) /\ OnlyRow(req[r].a) /\ SameSeen(req[r].a)
         /\ req[r].pc = "settle" /\ req[r].a \in Customers /\ req'[r].a = req[r].a
         /\ req'[r].pc = "done"
         /\ account'[req[r].a].attempts = account[req[r].a].attempts
         /\ account[req[r].a].locked => account'[req[r].a].locked
         /\ req[r].n >= MaxAttempts => account'[req[r].a].locked
         /\ EndAll(req[r].a) \/ UNCHANGED <<session, ended>>
<1>1. req[r].pc = "settle" /\ req[r] \in PinRow /\ req[r].a \in Customers
  BY CountingRow DEF PinWrong, PinWrongLocking, At
<1>2. PICK a \in Accounts : a = req[r].a
  BY <1>1, Types
<1>3. UNCHANGED <<code, unlock, now, overlapped, overtaken, raced>>
  BY DEF PinWrong, PinWrongLocking
<1>4. PICK w : w = [pc |-> "done", a |-> a]
  OBVIOUS
<1>5. Become(r, w)
  BY <1>2, <1>4 DEF PinWrong, PinWrongLocking, Finish
<1>6. w.pc = "done" /\ w.a = a /\ Fits(w) /\ Refers(w, session', code', unlock')
      /\ Refers(w, session, code, unlock) /\ w.pc # "waiting"
  BY <1>4, DoneFits
<1>7. CASE UNCHANGED <<account, session, ended>> /\ (req[r].n >= MaxAttempts => account[a].locked)
  <2>1. BaseInv' /\ req'[r] = w /\ Others(r)
    BY <1>3, <1>5, <1>6, <1>7, QuietStep, Types
  <2>2. QED
    BY <1>1, <1>2, <1>6, <1>7, <2>1 DEF OnlyRow, SameSeen
<1>8. CASE account' = [account EXCEPT ![a].locked = TRUE] /\ EndAll(a)
  <2>1. account[a] \in AccountRow
    BY Types DEF TablesTyped
  <2>2. PICK row : row = [account[a] EXCEPT !.locked = TRUE]
    OBVIOUS
  <2>3. /\ row \in AccountRow /\ row.attempts = account[a].attempts /\ row.locked
        /\ row.secret = account[a].secret /\ row.role = account[a].role /\ row.active = account[a].active
    BY <2>1, <2>2 DEF AccountRow
  <2>4. account' = [account EXCEPT ![a] = row]
    BY <1>8, <2>2
  <2>5. /\ account' \in [Accounts -> AccountRow] /\ account'[a] = row
        /\ \A b \in Accounts : b # a => account'[b] = account[b]
    BY <2>3, <2>4, AccountUpdate, Types
  <2>6. TablesTyped'
    BY <1>3, <1>8, <2>5, EndAllFacts, Types DEF TablesTyped, LoginsTypeOK
  <2>7. TablesGrow
    BY <1>3, <1>8, EndAllFacts DEF TablesGrow
  <2>8. BaseInv' /\ req'[r] = w /\ Others(r)
    BY <1>5, <1>6, <2>6, <2>7, BaseStep
  <2>9. QED
    BY <1>1, <1>2, <1>6, <1>8, <2>3, <2>5, <2>8 DEF OnlyRow, SameSeen
<1>9. QED
  BY <1>2, <1>7, <1>8 DEF PinWrong, PinWrongLocking, Locked

\* A PIN is replaced.
LEMMA ReplaceFacts ==
  ASSUME BaseInv, NEW a \in Accounts, NEW pin \in Secrets \cup {None}, NEW unlocks \in BOOLEAN,
         NEW by, Replace(a, pin, unlocks, by)
  PROVE  /\ account' \in [Accounts -> AccountRow] /\ OnlyRow(a)
         /\ account'[a].secret = pin /\ account'[a].attempts = 0
         /\ account'[a].locked = (account[a].locked /\ ~unlocks)
         /\ account'[a].role = account[a].role /\ account'[a].active = account[a].active
         /\ overtaken' \subseteq Reqs
         /\ \A q \in Reqs : q \in overtaken' <=> (q \in overtaken \/ q \in Looking(a)) /\ q \notin by
<1>1. account[a] \in AccountRow
  BY Types DEF TablesTyped
<1>2. PICK row : row = [account[a] EXCEPT !.secret = pin, !.attempts = 0,
                                          !.locked = account[a].locked /\ ~unlocks]
  OBVIOUS
<1>3. /\ row \in AccountRow /\ row.attempts = 0 /\ row.secret = pin
      /\ row.locked = (account[a].locked /\ ~unlocks)
      /\ row.role = account[a].role /\ row.active = account[a].active
  <2> PICK old \in AccountRow : old = account[a]
    BY <1>1
  <2>1. /\ old = [secret |-> old.secret, attempts |-> old.attempts, locked |-> old.locked,
                  active |-> old.active, role |-> old.role]
        /\ old.secret \in Secrets \cup {None} /\ old.attempts \in 0..MaxAttempts
        /\ old.locked \in BOOLEAN /\ old.active \in BOOLEAN /\ old.role \in Roles \cup {None}
        /\ 0 \in 0..MaxAttempts
    BY WholeRow, Types
  <2>2. PICK l \in BOOLEAN : l = (old.locked /\ ~unlocks)
    OBVIOUS
  <2>3. row = [secret |-> pin, attempts |-> 0, locked |-> l, active |-> old.active, role |-> old.role]
    BY <1>2, <2>1, <2>2
  <2>4. row \in AccountRow
    BY <2>1, <2>3 DEF AccountRow
  <2>5. QED
    BY <2>2, <2>3, <2>4
<1>4. account' = [account EXCEPT ![a] = row]
  BY <1>2 DEF Replace
<1>5. /\ account' \in [Accounts -> AccountRow] /\ account'[a] = row
      /\ \A b \in Accounts : b # a => account'[b] = account[b]
  BY <1>3, <1>4, AccountUpdate, Types
<1>6. Looking(a) \subseteq Reqs /\ overtaken \subseteq Reqs /\ overtaken' = (overtaken \cup Looking(a)) \ by
  BY Types DEF Looking, Replace
<1>7. QED
  BY <1>3, <1>5, <1>6 DEF OnlyRow

LEMMA ChangePinStep ==
  ASSUME BaseInv, NEW r \in Reqs, ChangePin(r), UNCHANGED raced
  PROVE  /\ BaseInv' /\ Others(r) /\ OnlyRow(req[r].a)
         /\ req[r].pc = "write" /\ req[r].a \in Customers
         /\ req'[r].pc = "done" /\ req'[r].a = req[r].a
         /\ account'[req[r].a].attempts = 0 /\ account'[req[r].a].locked = account[req[r].a].locked
         /\ \A q \in Reqs : q \in overtaken' <=> (q \in overtaken \/ q \in Looking(req[r].a)) /\ q # r
<1>1. req[r].pc = "write" /\ req[r] \in PinRow
  BY DEF BaseInv, HandlersFit, Fits, ChangePin, At
<1>2. req[r].a \in Customers /\ req[r].new \in Secrets
  BY <1>1 DEF PinRow
<1>3. PICK a \in Accounts, pin \in Secrets : a = req[r].a /\ pin = req[r].new
  BY <1>2, Types
<1>4. Replace(a, pin, FALSE, {r})
  BY <1>3 DEF ChangePin
<1>5. /\ account' \in [Accounts -> AccountRow] /\ OnlyRow(a) /\ account'[a].attempts = 0
      /\ account'[a].locked = account[a].locked /\ overtaken' \subseteq Reqs
      /\ \A q \in Reqs : q \in overtaken' <=> (q \in overtaken \/ q \in Looking(a)) /\ q # r
  <2>1. /\ account' \in [Accounts -> AccountRow] /\ OnlyRow(a) /\ account'[a].attempts = 0
        /\ account'[a].locked = (account[a].locked /\ ~FALSE) /\ overtaken' \subseteq Reqs
        /\ \A q \in Reqs : q \in overtaken' <=> (q \in overtaken \/ q \in Looking(a)) /\ q \notin {r}
    BY <1>4, ReplaceFacts
  <2>2. account[a].locked \in BOOLEAN
    BY Types DEF TablesTyped, AccountRow
  <2>3. QED
    BY <2>1, <2>2
<1>6. UNCHANGED <<session, ended, code, unlock, now, overlapped, raced>>
  BY DEF ChangePin
<1>7. TablesTyped' /\ TablesGrow
  BY <1>5, <1>6, SameGrow, Types DEF TablesTyped, LoginsTypeOK
<1>8. PICK w : w = [pc |-> "done", a |-> a]
  OBVIOUS
<1>9. Become(r, w)
  BY <1>3, <1>8 DEF ChangePin, Finish
<1>10. w.pc = "done" /\ w.a = a /\ Fits(w) /\ Refers(w, session', code', unlock') /\ w.pc # "waiting"
  BY <1>8, DoneFits
<1>11. BaseInv' /\ req'[r] = w /\ Others(r)
  BY <1>7, <1>9, <1>10, BaseStep
<1>12. QED
  BY <1>1, <1>2, <1>3, <1>5, <1>10, <1>11

LEMMA SetPinStep ==
  ASSUME BaseInv, NEW a \in Customers, NEW p \in Secrets, SetPin(a, p), UNCHANGED raced
  PROVE  /\ BaseInv' /\ OnlyRow(a) /\ account[a].secret = None
         /\ account'[a].attempts = 0 /\ account'[a].locked = account[a].locked
         /\ \A q \in Reqs : q \in overtaken' <=> q \in overtaken \/ q \in Looking(a)
<1>1. a \in Accounts
  BY Types
<1>2. /\ account' \in [Accounts -> AccountRow] /\ OnlyRow(a) /\ account'[a].attempts = 0
      /\ account'[a].locked = (account[a].locked /\ ~FALSE) /\ overtaken' \subseteq Reqs
      /\ \A q \in Reqs : q \in overtaken' <=> (q \in overtaken \/ q \in Looking(a)) /\ q \notin {}
  BY <1>1, ReplaceFacts DEF SetPin, SetPinWhen
<1>3. account[a].locked \in BOOLEAN
  BY <1>1, Types DEF TablesTyped, AccountRow
<1>4. UNCHANGED <<session, req, ended, code, unlock, now, overlapped, raced>> /\ account[a].secret = None
  BY DEF SetPin, SetPinWhen
<1>5. TablesTyped' /\ TablesGrow
  BY <1>2, <1>4, SameGrow, Types DEF TablesTyped, LoginsTypeOK
<1>6. BaseInv'
  BY <1>4, <1>5, BaseStill
<1>7. QED
  BY <1>2, <1>3, <1>4, <1>6

LEMMA ResetPinStep ==
  ASSUME BaseInv, NEW r \in Reqs, ResetPin(r), UNCHANGED raced
  PROVE  /\ BaseInv' /\ Others(r) /\ OnlyRow(req[r].a) /\ EndAll(req[r].a)
         /\ req[r].pc = "reset" /\ req[r].a \in Customers
         /\ req'[r].pc = "open" /\ req'[r].a = req[r].a /\ req'[r].op = "pin_reset"
         /\ account'[req[r].a].attempts = 0 /\ ~account'[req[r].a].locked
         /\ account'[req[r].a].secret = req'[r].new
         /\ \A q \in Reqs : q \in overtaken' <=> (q \in overtaken \/ q \in Looking(req[r].a)) /\ q # r
<1>1. req[r].pc = "reset" /\ req[r] \in PresentRow
  BY DEF BaseInv, HandlersFit, Fits, ResetPin, At
<1>2. req[r].a \in Customers /\ req[r].new \in Secrets \cup {None}
  BY <1>1 DEF PresentRow
<1>3. PICK a \in Accounts, pin \in Secrets \cup {None} : a = req[r].a /\ pin = req[r].new
  BY <1>2, Types
<1>4. Replace(a, pin, TRUE, {r}) /\ EndAll(a)
  BY <1>3 DEF ResetPin
<1>5. /\ account' \in [Accounts -> AccountRow] /\ OnlyRow(a) /\ account'[a].attempts = 0
      /\ ~account'[a].locked /\ account'[a].secret = pin /\ overtaken' \subseteq Reqs
      /\ \A q \in Reqs : q \in overtaken' <=> (q \in overtaken \/ q \in Looking(a)) /\ q # r
  <2>1. /\ account' \in [Accounts -> AccountRow] /\ OnlyRow(a) /\ account'[a].attempts = 0
        /\ account'[a].locked = (account[a].locked /\ ~TRUE) /\ account'[a].secret = pin
        /\ overtaken' \subseteq Reqs
        /\ \A q \in Reqs : q \in overtaken' <=> (q \in overtaken \/ q \in Looking(a)) /\ q \notin {r}
    BY <1>4, ReplaceFacts
  <2>2. QED
    BY <2>1
<1>6. UNCHANGED <<code, unlock, now, overlapped, raced>>
  BY DEF ResetPin
<1>7. TablesTyped' /\ TablesGrow
  BY <1>4, <1>5, <1>6, EndAllFacts, Types DEF TablesTyped, TablesGrow, LoginsTypeOK
<1>8. PICK w : w = [pc |-> "open", op |-> "pin_reset", a |-> a, new |-> pin, saw |-> Seen(a)]
  OBVIOUS
<1>9. Become(r, w)
  BY <1>3, <1>8 DEF ResetPin
<1>10. w.pc = "open" /\ w.a = a /\ w.op = "pin_reset" /\ w.new = pin /\ w.saw = Seen(a)
  BY <1>8
<1>11. Fits(w) /\ Refers(w, session', code', unlock') /\ w.pc # "waiting"
  BY <1>10, SeenType DEF Fits, Refers
<1>12. BaseInv' /\ req'[r] = w /\ Others(r)
  BY <1>7, <1>9, <1>11, BaseStep
<1>13. QED
  BY <1>1, <1>2, <1>3, <1>4, <1>5, <1>10, <1>12

----------------------------------------------------------------------------
(* Codes.                                                                   *)

LEMMA TickStep ==
  ASSUME BaseInv, Tick, UNCHANGED raced
  PROVE  BaseInv' /\ now' = now + 1
<1>1. UNCHANGED <<account, session, ended, req, code, unlock, overlapped, overtaken, raced>>
  BY DEF Tick, core
<1>2. now' = now + 1 /\ now' \in 0..MaxNow
  BY Types DEF Tick
<1>3. TablesTyped' /\ TablesGrow
  BY <1>1, <1>2, Types, SameGrow DEF TablesTyped, LoginsTypeOK
<1>4. QED
  BY <1>1, <1>2, <1>3, BaseStill

LEMMA AskCodeStep ==
  ASSUME BaseInv, NEW r \in Reqs, NEW a \in Customers, NEW purpose \in Purposes,
         AskCode(r, a, purpose), UNCHANGED raced
  PROVE  BaseInv' /\ Others(r) /\ req'[r].pc = "rate" /\ req'[r].a = a
<1>1. a \in Accounts
  BY Types
<1>2. PICK w : w = [pc |-> "rate", op |-> purpose, a |-> a]
  OBVIOUS
<1>3. Become(r, w)
  BY <1>2 DEF AskCode, Begin
<1>4. w \in AskRow /\ w.pc = "rate" /\ w.a = a
  BY <1>2 DEF AskRow, Place
<1>5. Fits(w) /\ Refers(w, session, code, unlock) /\ w.pc # "waiting"
  BY <1>1, <1>4 DEF Fits, Refers
<1>6. BaseInv' /\ req'[r] = w /\ Others(r)
  BY <1>3, <1>5, QuietStep, Types DEF AskCode, logins
<1>7. QED
  BY <1>4, <1>6

\* A handler that issues a code moves on.
LEMMA AskMoves ==
  ASSUME BaseInv, NEW r \in Reqs, req[r].pc \in {"rate", "retire", "create"},
         NEW p \in {"retire", "create"}, NEW w, w = [req[r] EXCEPT !.pc = p],
         NEW s, NEW c, NEW u
  PROVE  /\ w.pc = p /\ w.a = req[r].a /\ w.op = req[r].op /\ w.a \in Customers /\ w.a \in Accounts
         /\ w.op \in Purposes
         /\ Fits(w) /\ Refers(w, s, c, u) /\ w.pc # "waiting"
<1>1. req[r] \in AskRow
  BY DEF BaseInv, HandlersFit, Fits
<1>2. w \in AskRow /\ w.pc = p /\ w.a = req[r].a /\ w.op = req[r].op
  BY <1>1 DEF AskRow, Place
<1>3. w.a \in Customers /\ w.a \in Accounts /\ w.op \in Purposes
  BY <1>2, Types DEF AskRow
<1>4. QED
  BY <1>2, <1>3 DEF Fits, Refers

\* Who issues a code does it for a customer.
LEMMA AskingRow ==
  ASSUME BaseInv, NEW r \in Reqs, req[r].pc \in {"rate", "retire", "create"}
  PROVE  req[r].a \in Customers /\ req[r].a \in Accounts /\ req[r].op \in Purposes
BY Types DEF BaseInv, HandlersFit, Fits, AskRow

LEMMA CheckRateStep ==
  ASSUME BaseInv, NEW r \in Reqs, CheckRate(r), UNCHANGED raced
  PROVE  /\ BaseInv' /\ Others(r) /\ req[r].pc = "rate" /\ req[r].a \in Customers
         /\ req'[r].a = req[r].a
         /\ \/ req'[r].pc = "done" /\ overlapped' = overlapped
            \/ /\ req'[r].pc = "retire" /\ Cardinality(Recent(req[r].a)) < MaxPerHour
               /\ overlapped' = IF \E q \in Reqs \ {r} : req[q].pc \in {"retire", "create"}
                                                         /\ req[q].a = req[r].a
                                THEN overlapped \cup {req[r].a} ELSE overlapped
<1>1. req[r].pc = "rate" /\ req[r].a \in Customers /\ req[r].a \in Accounts
  BY AskingRow DEF CheckRate, At
<1>2. overlapped' \subseteq Accounts
  BY <1>1, Types DEF CheckRate
<1>3. UNCHANGED <<account, session, ended, code, unlock, now, overtaken, raced>>
  BY DEF CheckRate
<1>4. CASE ~TooSoon(req[r].a) /\ Cardinality(Recent(req[r].a)) < MaxPerHour
  <2>1. PICK w : w = [req[r] EXCEPT !.pc = "retire"]
    OBVIOUS
  <2>2. Become(r, w)
    BY <1>4, <2>1 DEF CheckRate, Goto
  <2>3. w.pc = "retire" /\ w.a = req[r].a /\ Fits(w) /\ Refers(w, session, code, unlock) /\ w.pc # "waiting"
    BY <1>1, <2>1, AskMoves
  <2>4. BaseInv' /\ req'[r] = w /\ Others(r)
    BY <1>2, <1>3, <2>2, <2>3, QuietStep, Types
  <2>5. QED
    BY <1>1, <1>4, <2>3, <2>4 DEF CheckRate
<1>5. CASE ~(~TooSoon(req[r].a) /\ Cardinality(Recent(req[r].a)) < MaxPerHour)
  <2>1. PICK w : w = [pc |-> "done", a |-> req[r].a]
    OBVIOUS
  <2>2. Become(r, w) /\ overlapped' = overlapped
    BY <1>5, <2>1 DEF CheckRate, Finish
  <2>3. w.pc = "done" /\ w.a = req[r].a /\ Fits(w) /\ Refers(w, session, code, unlock) /\ w.pc # "waiting"
    BY <1>1, <2>1, DoneFits
  <2>4. BaseInv' /\ req'[r] = w /\ Others(r)
    BY <1>2, <1>3, <2>2, <2>3, QuietStep, Types
  <2>5. QED
    BY <1>1, <2>2, <2>3, <2>4
<1>6. QED
  BY <1>4, <1>5

\* A code, field by field.
LEMMA WholeCode ==
  ASSUME NEW c \in CodeRow
  PROVE  /\ c = [purpose |-> c.purpose, at |-> c.at, used |-> c.used, attempts |-> c.attempts,
                 spent |-> c.spent]
         /\ c.purpose \in Purposes /\ c.at \in 0..MaxNow /\ c.used \in BOOLEAN
         /\ c.attempts \in 0..CodeAttempts /\ c.spent \in Nat
BY DEF CodeRow

\* The codes of an account stay, and what was used stays used.
CodesStay ==
  \A a \in Accounts :
    /\ DOMAIN code'[a] = DOMAIN code[a]
    /\ \A k \in DOMAIN code[a] :
         /\ code'[a][k].purpose = code[a][k].purpose /\ code'[a][k].at = code[a][k].at
         /\ code[a][k].used => code'[a][k].used

LEMMA RetireCodesStep ==
  ASSUME BaseInv, NEW r \in Reqs, RetireCodes(r), UNCHANGED raced
  PROVE  /\ BaseInv' /\ Others(r) /\ req[r].pc = "retire" /\ req[r].a \in Customers
         /\ req'[r].pc = "create" /\ req'[r].a = req[r].a /\ req'[r].op = req[r].op
         /\ CodesStay
         /\ \A b \in Accounts : \A k \in DOMAIN code[b] : code'[b][k].spent = code[b][k].spent
         /\ \A k \in DOMAIN code[req[r].a] :
              code[req[r].a][k].purpose = req[r].op => code'[req[r].a][k].used
<1>1. req[r].pc = "retire" /\ req[r].a \in Customers /\ req[r].a \in Accounts /\ req[r].op \in Purposes
  BY AskingRow DEF RetireCodes, At
<1>2. PICK a \in Accounts, op \in Purposes : a = req[r].a /\ op = req[r].op
  BY <1>1
<1>3. PICK old : old = code[a]
  OBVIOUS
<1>4. PICK new : new = [k \in DOMAIN code[req[r].a] |-> Retired(code[req[r].a][k], req[r].op)]
  OBVIOUS
<1>5. code' = [code EXCEPT ![a] = new]
  BY <1>2, <1>4, Zenon DEF RetireCodes
<1>6. code \in [Accounts -> Seq(CodeRow)] /\ old \in Seq(CodeRow)
  BY <1>3, Types
<1>7. Len(old) \in Nat /\ DOMAIN old = 1..Len(old) /\ \A k \in DOMAIN old : old[k] \in CodeRow
  BY <1>6
<1>8. ASSUME NEW k \in DOMAIN old
      PROVE  /\ new[k] \in CodeRow
             /\ new[k].purpose = old[k].purpose /\ new[k].at = old[k].at /\ new[k].spent = old[k].spent
             /\ old[k].used => new[k].used
             /\ old[k].purpose = op => new[k].used
  <2>1. PICK c \in CodeRow : c = old[k]
    BY <1>7
  <2>2. new[k] = Retired(c, op)
    BY <1>2, <1>3, <1>4, <2>1
  <2>3. PICK u \in BOOLEAN : u = IF c.purpose = op THEN TRUE ELSE c.used
    BY WholeCode
  <2>4. /\ c = [purpose |-> c.purpose, at |-> c.at, used |-> c.used, attempts |-> c.attempts,
                spent |-> c.spent]
        /\ c.purpose \in Purposes /\ c.at \in 0..MaxNow /\ c.used \in BOOLEAN
        /\ c.attempts \in 0..CodeAttempts /\ c.spent \in Nat
    BY WholeCode
  <2>5. new[k] = [purpose |-> c.purpose, at |-> c.at, used |-> u, attempts |-> c.attempts,
                  spent |-> c.spent]
    BY <2>2, <2>3, <2>4 DEF Retired
  <2>6. new[k] \in CodeRow
    BY <2>4, <2>5 DEF CodeRow
  <2>7. new[k].purpose = c.purpose /\ new[k].at = c.at /\ new[k].spent = c.spent /\ new[k].used = u
    BY <2>5
  <2>8. c.used => u
    BY <2>3
  <2>9. c.purpose = op => u
    BY <2>3
  <2>10. QED
    BY <2>1, <2>6, <2>7, <2>8, <2>9
<1>9. DOMAIN new = 1..Len(old)
  BY <1>2, <1>3, <1>4, <1>7
<1>10. new \in [1..Len(old) -> CodeRow]
  BY <1>2, <1>3, <1>4, <1>7, <1>8
<1>11. new \in Seq(CodeRow)
  BY <1>7, <1>10, SeqDef
<1>12. /\ code' \in [Accounts -> Seq(CodeRow)] /\ code'[a] = new
       /\ \A b \in Accounts : b # a => code'[b] = code[b]
  BY <1>5, <1>6, <1>11
<1>13. UNCHANGED <<account, session, ended, unlock, now, overlapped, overtaken, raced>>
  BY DEF RetireCodes
<1>14. TablesTyped'
  BY <1>12, <1>13, Types DEF TablesTyped, LoginsTypeOK
<1>15. TablesGrow
  BY <1>3, <1>7, <1>9, <1>12, <1>13 DEF TablesGrow
<1>16. PICK w : w = [req[r] EXCEPT !.pc = "create"]
  OBVIOUS
<1>17. Become(r, w)
  BY <1>16 DEF RetireCodes, Goto
<1>18. /\ w.pc = "create" /\ w.a = req[r].a /\ w.op = req[r].op
       /\ Fits(w) /\ Refers(w, session', code', unlock') /\ w.pc # "waiting"
  BY <1>1, <1>16, AskMoves
<1>19. BaseInv' /\ req'[r] = w /\ Others(r)
  BY <1>14, <1>15, <1>17, <1>18, BaseStep
<1>20. CodesStay
  BY <1>3, <1>7, <1>8, <1>9, <1>12 DEF CodesStay
<1>21. \A b \in Accounts : \A k \in DOMAIN code[b] : code'[b][k].spent = code[b][k].spent
  BY <1>3, <1>8, <1>12
<1>22. \A k \in DOMAIN code[a] : code[a][k].purpose = op => code'[a][k].used
  BY <1>3, <1>8, <1>12
<1>23. QED
  BY <1>1, <1>2, <1>18, <1>19, <1>20, <1>21, <1>22

LEMMA CreateCodeStep ==
  ASSUME BaseInv, NEW r \in Reqs, CreateCode(r), UNCHANGED raced
  PROVE  /\ BaseInv' /\ Others(r) /\ req[r].pc = "create" /\ req[r].a \in Customers
         /\ req'[r].pc = "done" /\ req'[r].a = req[r].a
         /\ \A b \in Accounts : b # req[r].a => code'[b] = code[b]
         /\ \E n \in Nat, c \in CodeRow :
              /\ DOMAIN code[req[r].a] = 1..n /\ DOMAIN code'[req[r].a] = 1..(n + 1)
              /\ \A k \in 1..n : code'[req[r].a][k] = code[req[r].a][k]
              /\ code'[req[r].a][n + 1] = c
              /\ c.purpose = req[r].op /\ c.at = now /\ c.spent = 0
<1>1. req[r].pc = "create" /\ req[r].a \in Customers /\ req[r].a \in Accounts /\ req[r].op \in Purposes
  BY AskingRow DEF CreateCode, At
<1>2. PICK a \in Accounts, op \in Purposes : a = req[r].a /\ op = req[r].op
  BY <1>1
<1>3. PICK old : old = code[a]
  OBVIOUS
<1>4. PICK c : c = [purpose |-> op, at |-> now, used |-> FALSE, attempts |-> 0, spent |-> 0]
  OBVIOUS
<1>5. now \in 0..MaxNow /\ 0 \in 0..CodeAttempts
  BY Types, LoginsAssumption
<1>6. c \in CodeRow /\ c.purpose = op /\ c.at = now /\ c.spent = 0
  BY <1>4, <1>5 DEF CodeRow
<1>7. PICK new : new = Append(old, c)
  OBVIOUS
<1>8. code \in [Accounts -> Seq(CodeRow)] /\ old \in Seq(CodeRow)
  BY <1>3, Types
<1>9. PICK n \in Nat : n = Len(old)
  BY <1>8
<1>10. /\ new \in Seq(CodeRow) /\ Len(new) = n + 1
       /\ \A i \in 1..n : new[i] = old[i]
       /\ new[n + 1] = c
  BY <1>6, <1>7, <1>8, <1>9, AppendProperties
<1>11. DOMAIN old = 1..n /\ DOMAIN new = 1..(n + 1)
  BY <1>8, <1>9, <1>10
<1>12. code' = [code EXCEPT ![a] = new]
  BY <1>2, <1>3, <1>4, <1>7 DEF CreateCode
<1>13. /\ code' \in [Accounts -> Seq(CodeRow)] /\ code'[a] = new
       /\ \A b \in Accounts : b # a => code'[b] = code[b]
  BY <1>8, <1>10, <1>12
<1>14. UNCHANGED <<account, session, ended, unlock, now, overlapped, overtaken, raced>>
  BY DEF CreateCode
<1>15. TablesTyped'
  BY <1>13, <1>14, Types DEF TablesTyped, LoginsTypeOK
<1>16. 1..n \subseteq 1..(n + 1)
  BY <1>9
<1>17. TablesGrow
  BY <1>3, <1>11, <1>13, <1>14, <1>16 DEF TablesGrow
<1>18. PICK w : w = [pc |-> "done", a |-> a]
  OBVIOUS
<1>19. Become(r, w)
  BY <1>2, <1>18 DEF CreateCode, Finish
<1>20. w.pc = "done" /\ w.a = a /\ Fits(w) /\ Refers(w, session', code', unlock') /\ w.pc # "waiting"
  BY <1>18, DoneFits
<1>21. BaseInv' /\ req'[r] = w /\ Others(r)
  BY <1>15, <1>17, <1>19, <1>20, BaseStep
<1>22. /\ DOMAIN code[a] = 1..n /\ DOMAIN code'[a] = 1..(n + 1)
       /\ \A k \in 1..n : code'[a][k] = code[a][k]
       /\ code'[a][n + 1] = c
       /\ c.purpose = req[r].op /\ c.at = now /\ c.spent = 0
  BY <1>2, <1>3, <1>6, <1>10, <1>11, <1>13
<1>23. QED
  BY <1>1, <1>2, <1>6, <1>13, <1>20, <1>21, <1>22


\* What a handler that was given a code has at hand.
LEMMA WholePresentRow ==
  ASSUME BaseInv, NEW r \in Reqs, req[r].pc \in {"count", "consume", "reset", "register"}
  PROVE  /\ req[r].a \in Customers /\ req[r].a \in Accounts /\ req[r].op \in Purposes
         /\ req[r].k \in Nat /\ req[r].right \in BOOLEAN /\ req[r].new \in Secrets \cup {None}
         /\ req[r] \in PresentRow
         /\ req[r].pc \in {"count", "consume"} => req[r].k \in DOMAIN code[req[r].a]
BY Types DEF BaseInv, HandlersFit, Fits, Refers, PresentRow

\* Of some numbers up to n, one is the greatest.
LEMMA GreatestOf ==
  ASSUME NEW n \in Nat, NEW ks, ks \subseteq 1..n, ks # {}
  PROVE  \E k \in ks : \A j \in ks : j <= k
<1> DEFINE Above == {ss \in Nat \X Nat : ss[1] < ss[2]}
           left == {n - k : k \in ks}
<1>0. \A x, y, z \in Int : ~(z - x < z - y) => x <= y
  OBVIOUS
<1>1. IsWellFoundedOn(Above, Nat)
  BY NatLessThanWellFounded, Zenon DEF OpToRel
<1>2. left \subseteq Nat /\ left # {}
  <2>1. \A k \in ks : n - k \in Nat
    OBVIOUS
  <2>2. left # {}
    BY Zenon
  <2>3. QED
    BY <2>1, <2>2
<1>3. PICK m \in left : \A j \in left : ~(<<j, m>> \in Above)
  <2> HIDE DEF Above, left
  <2>1. QED
    BY <1>1, <1>2, WFMin, Zenon
<1>4. PICK k \in ks : m = n - k
  OBVIOUS
<1>5. ASSUME NEW j \in ks PROVE j <= k
  <2>1. n - j \in left /\ n - j \in Nat /\ n - k \in Nat
    OBVIOUS
  <2>2. ~(n - j < n - k)
    BY <1>3, <1>4, <2>1
  <2>3. j \in Int /\ k \in Int /\ n \in Int
    OBVIOUS
  <2>4. QED
    BY <1>0, <2>2, <2>3
<1>6. QED
  BY <1>5

LEMMA PresentCodeStep ==
  ASSUME BaseInv, NEW r \in Reqs, NEW a \in Customers, NEW purpose \in Purposes,
         NEW new \in Secrets \cup {None}, NEW right \in BOOLEAN,
         PresentCode(r, a, purpose, new, right), UNCHANGED raced
  PROVE  BaseInv' /\ Others(r) /\ req'[r].pc = "count" /\ req'[r].a = a
<1>1. a \in Accounts
  BY Types
<1>2. PICK k : k = CHOOSE i \in Unused(a, purpose) : \A j \in Unused(a, purpose) : j <= i
  OBVIOUS
<1>3. Unused(a, purpose) # {} /\ Unused(a, purpose) \subseteq DOMAIN code[a]
  BY DEF PresentCode, Unused
<1>4. k \in DOMAIN code[a]
  <2>1. code[a] \in Seq(CodeRow)
    BY <1>1, Types
  <2>2. Len(code[a]) \in Nat /\ DOMAIN code[a] = 1..Len(code[a])
    BY <2>1
  <2>3. \E i \in Unused(a, purpose) : \A j \in Unused(a, purpose) : j <= i
    <3>1. Unused(a, purpose) \subseteq 1..Len(code[a])
      BY <1>3, <2>2
    <3>2. QED
      BY <1>3, <2>2, <3>1, GreatestOf
  <2>4. QED
    BY <1>2, <1>3, <2>3
<1>5. PICK w : w = [pc |-> "count", op |-> purpose, a |-> a, k |-> k, right |-> right, new |-> new]
  OBVIOUS
<1>6. Become(r, w)
  BY <1>2, <1>5 DEF PresentCode, Begin
<1>7. k \in Nat
  BY <1>1, <1>4, Types
<1>8. w \in PresentRow /\ w.pc = "count" /\ w.a = a /\ w.k = k
  BY <1>5, <1>7 DEF PresentRow, Place
<1>9. Fits(w) /\ Refers(w, session, code, unlock) /\ w.pc # "waiting"
  BY <1>1, <1>4, <1>8 DEF Fits, Refers
<1>10. BaseInv' /\ req'[r] = w /\ Others(r)
  BY <1>6, <1>9, QuietStep, Types DEF PresentCode, logins
<1>11. QED
  BY <1>8, <1>10

\* A handler that was given a code moves on.
LEMMA PresentMoves ==
  ASSUME BaseInv, NEW r \in Reqs, req[r].pc \in {"count", "consume"},
         NEW p \in {"consume", "reset", "register"}, NEW w, w = [req[r] EXCEPT !.pc = p],
         NEW s, NEW u
  PROVE  /\ w.pc = p /\ w.a = req[r].a /\ w.op = req[r].op
         /\ Fits(w) /\ Refers(w, s, code, u) /\ w.pc # "waiting"
<1>1. req[r] \in PresentRow /\ req[r].a \in Accounts /\ req[r].k \in DOMAIN code[req[r].a]
  BY WholePresentRow
<1>2. PICK old \in PresentRow : old = req[r]
  BY <1>1
<1>3. /\ old.op \in Purposes /\ old.a \in Customers /\ old.k \in Nat /\ old.right \in BOOLEAN
      /\ old.new \in Secrets \cup {None}
  BY DEF PresentRow
<1>4. w = [pc |-> p, op |-> old.op, a |-> old.a, k |-> old.k, right |-> old.right, new |-> old.new]
  BY <1>2 DEF PresentRow
<1>5. p \in Place
  BY DEF Place
<1>6. w \in PresentRow
  BY <1>3, <1>4, <1>5 DEF PresentRow
<1>7. w.pc = p /\ w.a = req[r].a /\ w.op = req[r].op /\ w.k = req[r].k
  BY <1>2, <1>4
<1>8. QED
  BY <1>1, <1>6, <1>7 DEF Fits, Refers

LEMMA CountCodeStep ==
  ASSUME BaseInv, NEW r \in Reqs, CountCode(r), UNCHANGED raced
  PROVE  /\ BaseInv' /\ Others(r) /\ req[r].pc = "count" /\ req'[r].pc \in {"consume", "done"}
         /\ req[r].a \in Customers /\ req'[r].a = req[r].a /\ CodesStay
         /\ \A b \in Accounts : \A k \in DOMAIN code[b] : code'[b][k].spent = code[b][k].spent
<1>1. req[r].pc = "count" /\ req[r].a \in Customers /\ req[r].a \in Accounts /\ req[r].k \in DOMAIN code[req[r].a]
  BY WholePresentRow DEF CountCode, At
<1>2. PICK a \in Accounts, k \in DOMAIN code[req[r].a] : a = req[r].a /\ k = req[r].k
  BY <1>1
<1>3. PICK w : /\ Become(r, w)
               /\ w = [req[r] EXCEPT !.pc = "consume"] \/ w = [pc |-> "done", a |-> a]
  BY <1>2 DEF CountCode, Goto, Finish
<1>4. /\ w.pc \in {"consume", "done"} /\ w.a = a /\ Fits(w) /\ w.pc # "waiting"
      /\ Refers(w, session, code, unlock)
  <2>1. CASE w = [req[r] EXCEPT !.pc = "consume"]
    BY <1>1, <1>2, <2>1, PresentMoves
  <2>2. CASE w = [pc |-> "done", a |-> a]
    BY <2>2, DoneFits
  <2>3. QED
    BY <1>3, <2>1, <2>2
<1>5. UNCHANGED <<account, session, ended, unlock, now, overlapped, overtaken, raced>>
  BY DEF CountCode
<1>6. CASE code' = code
  <2>1. BaseInv' /\ req'[r] = w /\ Others(r)
    BY <1>3, <1>4, <1>5, <1>6, QuietStep, Types
  <2>2. CodesStay
    BY <1>6 DEF CodesStay
  <2>3. QED
    BY <1>1, <1>2, <1>4, <1>6, <2>1, <2>2
<1>7. CASE code[a][k].attempts < CodeAttempts /\ code' = [code EXCEPT ![a][k].attempts = @ + 1]
  <2>1. code[a] \in Seq(CodeRow) /\ k \in DOMAIN code[a]
    BY <1>2, Types
  <2>2. PICK c \in CodeRow : c = code[a][k]
    BY <2>1
  <2>3. PICK n : n = c.attempts + 1
    OBVIOUS
  <2>4. PICK row : row = [c EXCEPT !.attempts = n]
    OBVIOUS
  <2>5. code' = [code EXCEPT ![a][k] = row]
    BY <1>7, <2>2, <2>3, <2>4
  <2>6. /\ c = [purpose |-> c.purpose, at |-> c.at, used |-> c.used, attempts |-> c.attempts,
                spent |-> c.spent]
        /\ c.purpose \in Purposes /\ c.at \in 0..MaxNow /\ c.used \in BOOLEAN
        /\ c.attempts \in 0..CodeAttempts /\ c.spent \in Nat
    BY WholeCode
  <2>7. row = [purpose |-> c.purpose, at |-> c.at, used |-> c.used, attempts |-> n, spent |-> c.spent]
    BY <2>4, <2>6
  <2>8. n \in 0..CodeAttempts
    BY <1>7, <2>2, <2>3, <2>6, LoginsAssumption
  <2>9. row \in CodeRow
    BY <2>6, <2>7, <2>8 DEF CodeRow
  <2>10. row.purpose = c.purpose /\ row.at = c.at /\ row.used = c.used /\ row.spent = c.spent
    BY <2>7
  <2>11. /\ code' \in [Accounts -> Seq(CodeRow)]
         /\ \A b \in Accounts : b # a => code'[b] = code[b]
         /\ DOMAIN code'[a] = DOMAIN code[a] /\ code'[a][k] = row
         /\ \A j \in DOMAIN code[a] : j # k => code'[a][j] = code[a][j]
         /\ \A b \in Accounts : DOMAIN code[b] \subseteq DOMAIN code'[b]
    BY <2>1, <2>5, <2>9, CodeUpdate
  <2>12. CodesStay
    BY <2>2, <2>10, <2>11 DEF CodesStay
  <2>13. \A b \in Accounts : \A j \in DOMAIN code[b] : code'[b][j].spent = code[b][j].spent
    BY <2>2, <2>10, <2>11
  <2>14. TablesTyped'
    BY <1>5, <2>11, Types DEF TablesTyped, LoginsTypeOK
  <2>15. TablesGrow
    BY <1>5, <2>11 DEF TablesGrow
  <2>16. Refers(w, session', code', unlock')
    BY <1>4, <2>15, RefersStill
  <2>17. BaseInv' /\ req'[r] = w /\ Others(r)
    BY <1>3, <1>4, <2>14, <2>15, <2>16, BaseStep
  <2>18. QED
    BY <1>1, <1>2, <1>4, <2>12, <2>13, <2>17
<1>8. QED
  BY <1>2, <1>6, <1>7 DEF CountCode

LEMMA ConsumeCodeStep ==
  ASSUME BaseInv, NEW r \in Reqs, ConsumeCode(r), UNCHANGED raced
  PROVE  /\ BaseInv' /\ Others(r) /\ req[r].pc = "consume"
         /\ req'[r].pc \in {"reset", "register", "done"}
         /\ req[r].a \in Customers /\ req'[r].a = req[r].a /\ CodesStay
         /\ \A b \in Accounts : \A k \in DOMAIN code[b] :
              \/ code'[b][k] = code[b][k]
              \/ ~code[b][k].used /\ code'[b][k].used /\ code'[b][k].spent = code[b][k].spent + 1
<1>1. req[r].pc = "consume" /\ req[r].a \in Customers /\ req[r].a \in Accounts /\ req[r].k \in DOMAIN code[req[r].a]
  BY WholePresentRow DEF ConsumeCode, ConsumeIf, At
<1>2. PICK a \in Accounts, k \in DOMAIN code[req[r].a] : a = req[r].a /\ k = req[r].k
  BY <1>1
<1>3. UNCHANGED <<account, session, ended, unlock, now, overlapped, overtaken, raced>>
  BY DEF ConsumeCode, ConsumeIf
<1>4. CASE code' = code /\ Finish(r)
  <2>1. PICK w : w = [pc |-> "done", a |-> a]
    OBVIOUS
  <2>2. Become(r, w)
    BY <1>2, <1>4, <2>1 DEF Finish
  <2>3. w.pc = "done" /\ w.a = a /\ Fits(w) /\ w.pc # "waiting" /\ Refers(w, session, code, unlock)
    BY <2>1, DoneFits
  <2>4. BaseInv' /\ req'[r] = w /\ Others(r)
    BY <1>3, <1>4, <2>2, <2>3, QuietStep, Types
  <2>5. CodesStay
    BY <1>4 DEF CodesStay
  <2>6. QED
    BY <1>1, <1>2, <1>4, <2>3, <2>4, <2>5
<1>5. CASE /\ ~code[a][k].used
           /\ code' = [code EXCEPT ![a][k].used = TRUE, ![a][k].spent = @ + 1]
           /\ Goto(r, IF req[r].op = "pin_reset" THEN "reset" ELSE "register")
  <2>1. code[a] \in Seq(CodeRow) /\ k \in DOMAIN code[a]
    BY <1>2, Types
  <2>2. PICK c \in CodeRow : c = code[a][k]
    BY <2>1
  <2>3. PICK n : n = c.spent + 1
    OBVIOUS
  <2>4. PICK row : row = [c EXCEPT !.used = TRUE, !.spent = n]
    OBVIOUS
  <2>5. code' = [code EXCEPT ![a][k] = row]
    BY <1>5, <2>1, <2>2, <2>3, <2>4, Types
  <2>6. /\ c = [purpose |-> c.purpose, at |-> c.at, used |-> c.used, attempts |-> c.attempts,
                spent |-> c.spent]
        /\ c.purpose \in Purposes /\ c.at \in 0..MaxNow /\ c.used \in BOOLEAN
        /\ c.attempts \in 0..CodeAttempts /\ c.spent \in Nat
    BY WholeCode
  <2>7. row = [purpose |-> c.purpose, at |-> c.at, used |-> TRUE, attempts |-> c.attempts, spent |-> n]
    BY <2>4, <2>6
  <2>8. n \in Nat
    BY <2>3, <2>6
  <2>9. row \in CodeRow
    BY <2>6, <2>7, <2>8 DEF CodeRow
  <2>10. row.purpose = c.purpose /\ row.at = c.at /\ row.used = TRUE /\ row.spent = c.spent + 1
    BY <2>3, <2>7
  <2>11. /\ code' \in [Accounts -> Seq(CodeRow)]
         /\ \A b \in Accounts : b # a => code'[b] = code[b]
         /\ DOMAIN code'[a] = DOMAIN code[a] /\ code'[a][k] = row
         /\ \A j \in DOMAIN code[a] : j # k => code'[a][j] = code[a][j]
         /\ \A b \in Accounts : DOMAIN code[b] \subseteq DOMAIN code'[b]
    BY <2>1, <2>5, <2>9, CodeUpdate
  <2>12. CodesStay
    BY <2>2, <2>10, <2>11 DEF CodesStay
  <2>13. \A b \in Accounts : \A j \in DOMAIN code[b] :
           \/ code'[b][j] = code[b][j]
           \/ ~code[b][j].used /\ code'[b][j].used /\ code'[b][j].spent = code[b][j].spent + 1
    BY <1>5, <2>2, <2>10, <2>11
  <2>14. TablesTyped'
    BY <1>3, <2>11, Types DEF TablesTyped, LoginsTypeOK
  <2>15. TablesGrow
    BY <1>3, <2>11 DEF TablesGrow
  <2>16. PICK p \in {"reset", "register"} : p = IF req[r].op = "pin_reset" THEN "reset" ELSE "register"
    OBVIOUS
  <2>17. PICK w : w = [req[r] EXCEPT !.pc = p]
    OBVIOUS
  <2>18. Become(r, w)
    BY <1>5, <2>16, <2>17 DEF Goto
  <2>19. w.pc = p /\ w.a = a /\ Fits(w) /\ Refers(w, session, code, unlock) /\ w.pc # "waiting"
    BY <1>1, <1>2, <2>17, PresentMoves
  <2>20. Refers(w, session', code', unlock')
    BY <2>15, <2>19, RefersStill
  <2>21. BaseInv' /\ req'[r] = w /\ Others(r)
    BY <2>14, <2>15, <2>18, <2>19, <2>20, BaseStep
  <2>22. QED
    BY <1>1, <1>2, <2>12, <2>13, <2>16, <2>19, <2>21
<1>6. QED
  BY <1>2, <1>4, <1>5 DEF ConsumeCode, ConsumeIf

LEMMA RegisterStep ==
  ASSUME BaseInv, NEW r \in Reqs, Register(r), UNCHANGED raced
  PROVE  /\ BaseInv' /\ Others(r) /\ req[r].pc = "register" /\ req[r].a \in Customers
         /\ req'[r].a = req[r].a
         /\ \/ req'[r].pc = "done"
            \/ req'[r].pc = "open" /\ req'[r].op = "registration" /\ account[req[r].a].secret = None
<1>1. req[r].pc = "register" /\ req[r].a \in Customers /\ req[r].a \in Accounts
  BY WholePresentRow DEF Register, At
<1>2. PICK a \in Accounts : a = req[r].a
  BY <1>1
<1>3. UNCHANGED <<account, session, ended, logins, raced>>
  BY DEF Register
<1>4. PICK w : /\ Become(r, w)
               /\ \/ /\ account[a].secret = None
                     /\ w = [pc |-> "open", op |-> "registration", a |-> a, saw |-> Seen(a)]
                  \/ w = [pc |-> "done", a |-> a]
  BY <1>2 DEF Register, Finish
<1>5. CASE account[a].secret = None /\ w = [pc |-> "open", op |-> "registration", a |-> a, saw |-> Seen(a)]
  <2>1. w.pc = "open" /\ w.op = "registration" /\ w.a = a /\ w.saw = Seen(a)
    BY <1>5
  <2>2. Fits(w) /\ Refers(w, session, code, unlock) /\ w.pc # "waiting"
    BY <2>1, SeenType DEF Fits, Refers
  <2>3. BaseInv' /\ req'[r] = w /\ Others(r)
    BY <1>3, <1>4, <2>2, QuietStep, Types DEF logins
  <2>4. QED
    BY <1>1, <1>2, <1>5, <2>1, <2>3
<1>6. CASE w = [pc |-> "done", a |-> a]
  <2>1. w.pc = "done" /\ w.a = a /\ Fits(w) /\ w.pc # "waiting" /\ Refers(w, session, code, unlock)
    BY <1>6, DoneFits
  <2>2. BaseInv' /\ req'[r] = w /\ Others(r)
    BY <1>3, <1>4, <2>1, QuietStep, Types DEF logins
  <2>3. QED
    BY <1>1, <1>2, <2>1, <2>2
<1>7. QED
  BY <1>4, <1>5, <1>6

----------------------------------------------------------------------------
(* Unlocking.                                                               *)

\* A lockout is lifted: what handlers see of the row stays.
LEMMA LiftFacts ==
  ASSUME BaseInv, NEW a \in Accounts,
         account' = [account EXCEPT ![a].locked = FALSE, ![a].attempts = 0]
  PROVE  /\ account' \in [Accounts -> AccountRow] /\ OnlyRow(a) /\ SameSeen(a)
         /\ account'[a].attempts = 0 /\ ~account'[a].locked
<1>1. account \in [Accounts -> AccountRow]
  BY Types DEF TablesTyped
<1>2. PICK old \in AccountRow : old = account[a]
  BY <1>1
<1>3. PICK row : row = [old EXCEPT !.locked = FALSE, !.attempts = 0]
  OBVIOUS
<1>4. /\ old = [secret |-> old.secret, attempts |-> old.attempts, locked |-> old.locked,
                active |-> old.active, role |-> old.role]
      /\ old.secret \in Secrets \cup {None} /\ old.attempts \in 0..MaxAttempts
      /\ old.locked \in BOOLEAN /\ old.active \in BOOLEAN /\ old.role \in Roles \cup {None}
      /\ 0 \in 0..MaxAttempts
  BY WholeRow, Types
<1>5. row = [secret |-> old.secret, attempts |-> 0, locked |-> FALSE, active |-> old.active,
             role |-> old.role]
  BY <1>3, <1>4
<1>6. row \in AccountRow
  BY <1>4, <1>5 DEF AccountRow
<1>7. account' = [account EXCEPT ![a] = row]
  BY <1>1, <1>2, <1>3
<1>8. /\ account' \in [Accounts -> AccountRow] /\ account'[a] = row
      /\ \A b \in Accounts : b # a => account'[b] = account[b]
  BY <1>6, <1>7, AccountUpdate, Types
<1>9. QED
  BY <1>2, <1>5, <1>8 DEF OnlyRow, SameSeen

LEMMA SignOutEverywhereStep ==
  ASSUME BaseInv, NEW a \in Customers, SignOutEverywhere(a), UNCHANGED raced
  PROVE  BaseInv' /\ EndAll(a)
<1>1. a \in Accounts /\ EndAll(a)
  BY Types DEF SignOutEverywhere
<1>2. UNCHANGED <<account, req, code, unlock, now, overlapped, overtaken, raced>>
  BY DEF SignOutEverywhere, logins
<1>3. TablesTyped' /\ TablesGrow
  BY <1>1, <1>2, EndAllFacts, Types DEF TablesTyped, TablesGrow, LoginsTypeOK
<1>4. QED
  BY <1>1, <1>2, <1>3, BaseStill

\* Who asks for an unlock does it for a customer.
LEMMA WholeUnlockRow ==
  ASSUME BaseInv, NEW r \in Reqs, req[r].pc \in {"look", "ask"}
  PROVE  req[r] \in UnlockAskRow /\ req[r].a \in Customers /\ req[r].a \in Accounts /\ req[r].by \in Officers
BY Types DEF BaseInv, HandlersFit, Fits, UnlockAskRow

LEMMA AskUnlockStep ==
  ASSUME BaseInv, NEW r \in Reqs, NEW a \in Customers, NEW by \in Officers,
         AskUnlock(r, a, by), UNCHANGED raced
  PROVE  BaseInv' /\ Others(r) /\ req'[r].pc = "look" /\ req'[r].a = a
<1>1. a \in Accounts
  BY Types
<1>2. PICK w : w = [pc |-> "look", op |-> "unlock", a |-> a, by |-> by]
  OBVIOUS
<1>3. Become(r, w)
  BY <1>2 DEF AskUnlock, Begin
<1>4. w \in UnlockAskRow /\ w.pc = "look" /\ w.a = a
  BY <1>2 DEF UnlockAskRow, Place
<1>5. Fits(w) /\ Refers(w, session, code, unlock) /\ w.pc # "waiting"
  BY <1>1, <1>4 DEF Fits, Refers
<1>6. BaseInv' /\ req'[r] = w /\ Others(r)
  BY <1>3, <1>5, QuietStep, Types DEF AskUnlock, logins
<1>7. QED
  BY <1>4, <1>6

LEMMA LookForOpenStep ==
  ASSUME BaseInv, NEW r \in Reqs, LookForOpen(r), UNCHANGED raced
  PROVE  /\ BaseInv' /\ Others(r) /\ req[r].pc = "look" /\ req'[r].pc \in {"ask", "done"}
         /\ req[r].a \in Customers /\ req'[r].a = req[r].a
<1>1. req[r].pc = "look" /\ req[r] \in UnlockAskRow /\ req[r].a \in Customers /\ req[r].a \in Accounts
  BY WholeUnlockRow DEF LookForOpen, At
<1>2. PICK w : /\ Become(r, w)
               /\ w = [req[r] EXCEPT !.pc = "ask"] \/ w = [pc |-> "done", a |-> req[r].a]
  BY DEF LookForOpen, Goto, Finish
<1>3. /\ w.pc \in {"ask", "done"} /\ w.a = req[r].a /\ w.pc # "waiting"
      /\ Fits(w) /\ Refers(w, session, code, unlock)
  <2>1. CASE w = [req[r] EXCEPT !.pc = "ask"]
    <3>1. w \in UnlockAskRow /\ w.pc = "ask" /\ w.a = req[r].a
      BY <1>1, <2>1 DEF UnlockAskRow, Place
    <3>2. QED
      BY <1>1, <3>1 DEF Fits, Refers
  <2>2. CASE w = [pc |-> "done", a |-> req[r].a]
    BY <1>1, <2>2, DoneFits
  <2>3. QED
    BY <1>2, <2>1, <2>2
<1>4. BaseInv' /\ req'[r] = w /\ Others(r)
  BY <1>2, <1>3, QuietStep, Types DEF LookForOpen, logins
<1>5. QED
  BY <1>1, <1>3, <1>4

LEMMA CreateUnlockStep ==
  ASSUME BaseInv, NEW r \in Reqs, CreateUnlock(r), UNCHANGED raced
  PROVE  /\ BaseInv' /\ Others(r) /\ req[r].pc = "ask" /\ req'[r].pc = "done"
         /\ req[r].a \in Customers /\ req'[r].a = req[r].a
<1>1. req[r].pc = "ask" /\ req[r].a \in Customers /\ req[r].a \in Accounts /\ req[r].by \in Officers
  BY WholeUnlockRow DEF CreateUnlock, At
<1>2. PICK u : u = [a |-> req[r].a, by |-> req[r].by, status |-> "pending"]
  OBVIOUS
<1>3. u \in UnlockRow
  BY <1>1, <1>2 DEF UnlockRow
<1>4. unlock \in Seq(UnlockRow) /\ unlock' = Append(unlock, u)
  BY <1>2, Types DEF CreateUnlock
<1>5. /\ unlock' \in Seq(UnlockRow) /\ Len(unlock') = Len(unlock) + 1
      /\ \A i \in 1..Len(unlock) : unlock'[i] = unlock[i]
  BY <1>3, <1>4, AppendProperties
<1>6. DOMAIN unlock = 1..Len(unlock) /\ DOMAIN unlock' = 1..(Len(unlock) + 1) /\ Len(unlock) \in Nat
  BY <1>4, <1>5
<1>7. UNCHANGED <<account, session, ended, code, now, overlapped, overtaken, raced>>
  BY DEF CreateUnlock
<1>8. TablesTyped'
  BY <1>5, <1>7, Types DEF TablesTyped, LoginsTypeOK
<1>9. TablesGrow
  <2>1. 1..Len(unlock) \subseteq 1..(Len(unlock) + 1)
    BY <1>6
  <2>2. QED
    BY <1>5, <1>6, <1>7, <2>1 DEF TablesGrow
<1>10. PICK w : w = [pc |-> "done", a |-> req[r].a]
  OBVIOUS
<1>11. Become(r, w)
  BY <1>10 DEF CreateUnlock, Finish
<1>12. w.pc = "done" /\ w.a = req[r].a /\ Fits(w) /\ w.pc # "waiting" /\ Refers(w, session', code', unlock')
  BY <1>1, <1>10, DoneFits
<1>13. BaseInv' /\ req'[r] = w /\ Others(r)
  BY <1>8, <1>9, <1>11, <1>12, BaseStep
<1>14. QED
  BY <1>1, <1>12, <1>13

LEMMA DecideReadStep ==
  ASSUME BaseInv, NEW r \in Reqs, NEW u \in DOMAIN unlock, NEW by \in Officers, NEW approve \in BOOLEAN,
         DecideRead(r, u, by, approve), UNCHANGED raced
  PROVE  BaseInv' /\ Others(r) /\ req'[r].pc = "decide" /\ req'[r].a \in Accounts
<1>1. unlock \in Seq(UnlockRow) /\ unlock[u] \in UnlockRow /\ u \in Nat
  BY Types
<1>2. PICK a : a = unlock[u].a
  OBVIOUS
<1>3. a \in Accounts
  BY <1>1, <1>2 DEF UnlockRow
<1>4. PICK w : w = [pc |-> "decide", op |-> "decide", a |-> a, u |-> u, by |-> by, approve |-> approve]
  OBVIOUS
<1>5. Become(r, w) /\ unlock[u].by # by
  BY <1>2, <1>4 DEF DecideRead, DecideReadBy, Begin
<1>6. w \in DecideRow /\ w.pc = "decide" /\ w.a = a /\ w.u = u /\ w.by = by
  BY <1>1, <1>3, <1>4 DEF DecideRow, Place
<1>7. Fits(w) /\ Refers(w, session, code, unlock) /\ w.pc # "waiting"
  BY <1>2, <1>3, <1>5, <1>6 DEF Fits, Refers
<1>8. BaseInv' /\ req'[r] = w /\ Others(r)
  BY <1>5, <1>7, QuietStep, Types DEF DecideRead, DecideReadBy, logins
<1>9. QED
  BY <1>3, <1>6, <1>8

\* A request is decided once, and keeps who asked.
LEMMA UnlockUpdate ==
  ASSUME BaseInv, NEW u \in DOMAIN unlock, NEW st \in {"approved", "rejected"},
         unlock' = [unlock EXCEPT ![u].status = st]
  PROVE  /\ unlock' \in Seq(UnlockRow) /\ DOMAIN unlock' = DOMAIN unlock /\ unlock'[u].status = st
         /\ \A i \in DOMAIN unlock : unlock'[i].a = unlock[i].a /\ unlock'[i].by = unlock[i].by
<1>1. unlock \in Seq(UnlockRow)
  BY Types
<1>2. PICK old \in UnlockRow : old = unlock[u]
  BY <1>1
<1>3. PICK row : row = [old EXCEPT !.status = st]
  OBVIOUS
<1>4. row \in UnlockRow /\ row.a = old.a /\ row.by = old.by /\ row.status = st
  BY <1>3 DEF UnlockRow
<1>5. unlock' = [unlock EXCEPT ![u] = row]
  BY <1>2, <1>3
<1>6. u \in 1..Len(unlock) /\ DOMAIN unlock = 1..Len(unlock)
  BY <1>1
<1>7. /\ unlock' \in Seq(UnlockRow) /\ Len(unlock') = Len(unlock)
      /\ \A i \in 1..Len(unlock) : unlock'[i] = IF i = u THEN row ELSE unlock[i]
  BY <1>1, <1>4, <1>5, <1>6, ExceptSeq
<1>8. DOMAIN unlock' = DOMAIN unlock
  BY <1>6, <1>7
<1>9. QED
  BY <1>2, <1>4, <1>6, <1>7, <1>8

LEMMA DecideStep ==
  ASSUME BaseInv, NEW r \in Reqs, Decide(r), UNCHANGED raced
  PROVE  /\ BaseInv' /\ Others(r) /\ req[r].pc = "decide" /\ req'[r].pc = "done"
         /\ req[r].a \in Accounts /\ req'[r].a = req[r].a
         /\ OnlyRow(req[r].a) /\ SameSeen(req[r].a)
         /\ unlock[req[r].u].by # req[r].by
         /\ \/ account' = account
            \/ /\ account'[req[r].a].attempts = 0 /\ ~account'[req[r].a].locked
               /\ unlock[req[r].u].status = "pending" /\ unlock'[req[r].u].status = "approved"
<1>1. req[r].pc = "decide" /\ req[r] \in DecideRow /\ Refers(req[r], session, code, unlock)
  BY DEF BaseInv, HandlersFit, Fits, Decide, At
<1>2. PICK a \in Accounts, u \in DOMAIN unlock : a = req[r].a /\ u = req[r].u /\ unlock[u].by # req[r].by
  BY <1>1 DEF DecideRow, Refers
<1>3. UNCHANGED <<session, ended, code, now, overlapped, overtaken, raced>>
  BY DEF Decide
<1>4. PICK w : w = [pc |-> "done", a |-> a]
  OBVIOUS
<1>5. Become(r, w)
  BY <1>2, <1>4 DEF Decide, Finish
<1>6. /\ w.pc = "done" /\ w.a = a /\ Fits(w) /\ w.pc # "waiting"
      /\ Refers(w, session, code, unlock) /\ Refers(w, session', code', unlock')
  BY <1>4, DoneFits
<1>7. CASE UNCHANGED <<unlock, account>>
  <2>1. BaseInv' /\ req'[r] = w /\ Others(r)
    BY <1>3, <1>5, <1>6, <1>7, QuietStep, Types
  <2>2. QED
    BY <1>1, <1>2, <1>6, <1>7, <2>1 DEF OnlyRow, SameSeen
<1>8. ASSUME NEW st \in {"approved", "rejected"}, unlock' = [unlock EXCEPT ![u].status = st]
      PROVE  /\ TablesGrow /\ unlock' \in Seq(UnlockRow) /\ unlock'[u].status = st
  <2>1. /\ unlock' \in Seq(UnlockRow) /\ DOMAIN unlock' = DOMAIN unlock /\ unlock'[u].status = st
        /\ \A i \in DOMAIN unlock : unlock'[i].a = unlock[i].a /\ unlock'[i].by = unlock[i].by
    BY <1>8, UnlockUpdate
  <2>2. QED
    BY <1>3, <2>1 DEF TablesGrow
<1>9. CASE /\ account' = account
           /\ unlock' = [unlock EXCEPT ![u].status = "rejected"]
  <2>1. TablesGrow /\ unlock' \in Seq(UnlockRow)
    BY <1>8, <1>9
  <2>2. TablesTyped'
    BY <1>3, <1>9, <2>1, Types DEF TablesTyped, LoginsTypeOK
  <2>3. BaseInv' /\ req'[r] = w /\ Others(r)
    BY <1>5, <1>6, <2>1, <2>2, BaseStep
  <2>4. QED
    BY <1>1, <1>2, <1>6, <1>9, <2>3 DEF OnlyRow, SameSeen
<1>10. CASE /\ unlock[u].status = "pending"
            /\ account' = [account EXCEPT ![a].locked = FALSE, ![a].attempts = 0]
            /\ unlock' = [unlock EXCEPT ![u].status = "approved"]
  <2>1. TablesGrow /\ unlock' \in Seq(UnlockRow) /\ unlock'[u].status = "approved"
    BY <1>8, <1>10
  <2>2. /\ account' \in [Accounts -> AccountRow] /\ OnlyRow(a) /\ SameSeen(a)
        /\ account'[a].attempts = 0 /\ ~account'[a].locked
    BY <1>10, LiftFacts
  <2>3. TablesTyped'
    BY <1>3, <2>1, <2>2, Types DEF TablesTyped, LoginsTypeOK
  <2>4. BaseInv' /\ req'[r] = w /\ Others(r)
    BY <1>5, <1>6, <2>1, <2>3, BaseStep
  <2>5. QED
    BY <1>1, <1>2, <1>6, <1>10, <2>1, <2>2, <2>4
<1>11. QED
  BY <1>2, <1>7, <1>9, <1>10 DEF Decide

----------------------------------------------------------------------------
(* Staff users.                                                             *)

LEMMA PresentPasswordStep ==
  ASSUME BaseInv, NEW r \in Reqs, NEW a \in StaffUsers, NEW p \in Secrets,
         NEW op \in {"signIn", "confirm"}, PresentPassword(r, op, a, p), UNCHANGED logins
  PROVE  /\ BaseInv' /\ Others(r) /\ req'[r].pc = "reserve" /\ req'[r].a = a
         /\ req'[r].saw = Seen(a)
<1>1. a \in Accounts
  BY Types
<1>2. PICK w : w = [pc |-> "reserve", op |-> op, a |-> a, secret |-> p, saw |-> Seen(a), n |-> 0]
  OBVIOUS
<1>3. Become(r, w)
  BY <1>2 DEF PresentPassword, Begin
<1>4. w \in PassRow /\ w.pc = "reserve" /\ w.a = a /\ w.saw = Seen(a)
  BY <1>1, <1>2, SeenType DEF PassRow, Place
<1>5. Fits(w) /\ Refers(w, session, code, unlock) /\ w.pc # "waiting"
  BY <1>1, <1>4 DEF Fits, Refers
<1>6. BaseInv' /\ req'[r] = w /\ Others(r)
  BY <1>3, <1>5, QuietStep, Types DEF PresentPassword, logins
<1>7. QED
  BY <1>4, <1>6

\* The attempts of an account start again.
LEMMA ClearFacts ==
  ASSUME BaseInv, NEW a \in Accounts, account' = [account EXCEPT ![a].attempts = 0]
  PROVE  /\ account' \in [Accounts -> AccountRow] /\ OnlyRow(a) /\ SameSeen(a)
         /\ account'[a].attempts = 0 /\ account'[a].locked = account[a].locked
<1>1. account \in [Accounts -> AccountRow]
  BY Types DEF TablesTyped
<1>2. PICK old \in AccountRow : old = account[a]
  BY <1>1
<1>3. PICK row : row = [old EXCEPT !.attempts = 0]
  OBVIOUS
<1>4. /\ old = [secret |-> old.secret, attempts |-> old.attempts, locked |-> old.locked,
                active |-> old.active, role |-> old.role]
      /\ old.secret \in Secrets \cup {None} /\ old.locked \in BOOLEAN
      /\ old.active \in BOOLEAN /\ old.role \in Roles \cup {None}
      /\ 0 \in 0..MaxAttempts
  BY WholeRow, Types
<1>5. row = [secret |-> old.secret, attempts |-> 0, locked |-> old.locked, active |-> old.active,
             role |-> old.role]
  BY <1>3, <1>4
<1>6. row \in AccountRow
  BY <1>4, <1>5 DEF AccountRow
<1>7. account' = [account EXCEPT ![a] = row]
  BY <1>1, <1>2, <1>3
<1>8. /\ account' \in [Accounts -> AccountRow] /\ account'[a] = row
      /\ \A b \in Accounts : b # a => account'[b] = account[b]
  BY <1>6, <1>7, AccountUpdate, Types
<1>9. QED
  BY <1>2, <1>5, <1>8 DEF OnlyRow, SameSeen

LEMMA PasswordRightStep ==
  ASSUME BaseInv, NEW r \in Reqs, PasswordRight(r), UNCHANGED logins
  PROVE  /\ BaseInv' /\ Others(r) /\ OnlyRow(req[r].a) /\ SameSeen(req[r].a)
         /\ req[r].pc = "settle" /\ req[r].a \in StaffUsers /\ req'[r].a = req[r].a
         /\ account'[req[r].a].locked = account[req[r].a].locked
         /\ account'[req[r].a].attempts = 0
         /\ \/ req'[r].pc = "done"
            \/ req'[r].pc = "fetch" /\ req'[r].saw = req[r].saw /\ req[r].saw.active
<1>1. req[r].pc = "settle" /\ req[r] \in PassRow /\ req[r].a \in StaffUsers
  BY CountingRow DEF PasswordRight, At
<1>2. PICK a \in Accounts : a = req[r].a
  BY <1>1, Types
<1>3. UNCHANGED <<session, ended, code, unlock, now, overlapped, overtaken, raced>>
  BY DEF PasswordRight, logins
<1>4. TablesGrow
  BY <1>3, SameGrow
<1>5. account' = [account EXCEPT ![a].attempts = 0]
  BY <1>2 DEF PasswordRight
<1>6. /\ account' \in [Accounts -> AccountRow] /\ OnlyRow(a) /\ SameSeen(a)
      /\ account'[a].attempts = 0 /\ account'[a].locked = account[a].locked
  BY <1>5, ClearFacts
<1>7. TablesTyped'
  BY <1>3, <1>6, Types DEF TablesTyped, LoginsTypeOK
<1>8. PICK w : /\ Become(r, w)
               /\ \/ w = [req[r] EXCEPT !.pc = "fetch", !.n = 0] /\ req[r].saw.active
                  \/ w = [pc |-> "done", a |-> a]
  <2>1. CASE req[r].saw.active /\ req[r].op = "signIn"
    BY <2>1 DEF PasswordRight
  <2>2. CASE ~(req[r].saw.active /\ req[r].op = "signIn")
    BY <1>2, <2>2 DEF PasswordRight, Finish
  <2>3. QED
    BY <2>1, <2>2
<1>9. /\ Fits(w) /\ Refers(w, session', code', unlock') /\ w.a = a /\ w.pc # "waiting"
      /\ \/ w.pc = "done"
         \/ w.pc = "fetch" /\ w.saw = req[r].saw /\ req[r].saw.active
  <2>1. CASE w = [req[r] EXCEPT !.pc = "fetch", !.n = 0] /\ req[r].saw.active
    <3>1. PICK old \in PassRow : old = req[r]
      BY <1>1
    <3>2. w = [pc |-> "fetch", op |-> old.op, a |-> old.a, secret |-> old.secret,
               saw |-> old.saw, n |-> 0]
      BY <2>1, <3>1 DEF PassRow
    <3>3. w \in PassRow
      BY <3>2, WholePassRow DEF PassRow, Place
    <3>4. w.pc = "fetch" /\ w.saw = req[r].saw /\ w.a = a
      BY <1>2, <3>1, <3>2
    <3>5. QED
      BY <2>1, <3>3, <3>4 DEF Fits, Refers
  <2>2. CASE w = [pc |-> "done", a |-> a]
    BY <2>2, DoneFits
  <2>3. QED
    BY <1>8, <2>1, <2>2
<1>10. BaseInv' /\ req'[r] = w /\ Others(r)
  BY <1>4, <1>7, <1>8, <1>9, BaseStep
<1>11. QED
  BY <1>1, <1>2, <1>6, <1>9, <1>10

LEMMA PasswordWrongStep ==
  ASSUME BaseInv, NEW r \in Reqs, PasswordWrong(r), UNCHANGED logins
  PROVE  /\ BaseInv' /\ Others(r) /\ OnlyRow(req[r].a) /\ SameSeen(req[r].a)
         /\ req[r].pc = "settle" /\ req[r].a \in StaffUsers /\ req'[r].a = req[r].a
         /\ req'[r].pc = "done"
         /\ account'[req[r].a].attempts = account[req[r].a].attempts
         /\ account[req[r].a].locked => account'[req[r].a].locked
         /\ req[r].n >= MaxAttempts => account'[req[r].a].locked
<1>1. req[r].pc = "settle" /\ req[r] \in PassRow /\ req[r].a \in StaffUsers
  BY CountingRow DEF PasswordWrong, At
<1>2. PICK a \in Accounts : a = req[r].a
  BY <1>1, Types
<1>3. UNCHANGED <<session, ended, code, unlock, now, overlapped, overtaken, raced>>
  BY DEF PasswordWrong, logins
<1>4. account \in [Accounts -> AccountRow]
  BY Types DEF TablesTyped
<1>5. PICK old \in AccountRow : old = account[a]
  BY <1>4
<1>6. PICK shut \in BOOLEAN : shut = (old.locked \/ req[r].n >= MaxAttempts)
  OBVIOUS
<1>7. PICK row : row = [old EXCEPT !.locked = shut]
  OBVIOUS
<1>8. account' = [account EXCEPT ![a] = row]
  BY <1>2, <1>4, <1>5, <1>6, <1>7 DEF PasswordWrong
<1>9. /\ row \in AccountRow /\ row.attempts = old.attempts /\ row.locked = shut
      /\ row.secret = old.secret /\ row.role = old.role /\ row.active = old.active
  BY <1>7 DEF AccountRow
<1>10. /\ account' \in [Accounts -> AccountRow] /\ account'[a] = row
       /\ \A b \in Accounts : b # a => account'[b] = account[b]
  BY <1>8, <1>9, AccountUpdate, Types
<1>11. TablesTyped' /\ TablesGrow
  BY <1>3, <1>10, SameGrow, Types DEF TablesTyped, LoginsTypeOK
<1>12. PICK w : w = [pc |-> "done", a |-> a]
  OBVIOUS
<1>13. Become(r, w)
  BY <1>2, <1>12 DEF PasswordWrong, Finish
<1>14. w.pc = "done" /\ w.a = a /\ Fits(w) /\ Refers(w, session', code', unlock') /\ w.pc # "waiting"
  BY <1>12, DoneFits
<1>15. BaseInv' /\ req'[r] = w /\ Others(r)
  BY <1>11, <1>13, <1>14, BaseStep
<1>16. (account[a].locked => account'[a].locked) /\ (req[r].n >= MaxAttempts => account'[a].locked)
  BY <1>5, <1>6, <1>9, <1>10
<1>17. QED
  BY <1>1, <1>2, <1>5, <1>9, <1>10, <1>14, <1>15, <1>16 DEF OnlyRow, SameSeen

LEMMA FetchUserStep ==
  ASSUME BaseInv, NEW r \in Reqs, FetchUser(r), UNCHANGED logins
  PROVE  /\ BaseInv' /\ Others(r) /\ req[r].pc = "fetch" /\ req[r].a \in StaffUsers
         /\ req'[r].pc = "open" /\ req'[r].a = req[r].a /\ req'[r].saw = Seen(req[r].a)
<1>1. req[r].pc = "fetch" /\ req[r] \in PassRow
  BY DEF BaseInv, HandlersFit, Fits, FetchUser, At
<1>2. PICK old \in PassRow : old = req[r]
  BY <1>1
<1>3. old.a \in StaffUsers /\ old.a \in Accounts
  BY WholePassRow, Types
<1>4. PICK saw \in SeenRow : saw = Seen(req[r].a)
  BY <1>2, <1>3, SeenType
<1>5. PICK w : w = [old EXCEPT !.pc = "open", !.saw = saw]
  OBVIOUS
<1>6. Become(r, w)
  BY <1>2, <1>4, <1>5 DEF FetchUser
<1>7. w = [pc |-> "open", op |-> old.op, a |-> old.a, secret |-> old.secret, saw |-> saw, n |-> old.n]
  BY <1>5 DEF PassRow
<1>8. w.pc = "open" /\ w.a = old.a /\ w.saw = saw
  BY <1>7
<1>9. Fits(w) /\ Refers(w, session, code, unlock) /\ w.pc # "waiting"
  BY <1>3, <1>8 DEF Fits, Refers
<1>10. BaseInv' /\ req'[r] = w /\ Others(r)
  BY <1>6, <1>9, QuietStep, Types DEF FetchUser, logins
<1>11. QED
  BY <1>1, <1>2, <1>3, <1>4, <1>8, <1>10

LEMMA UpdateReadStep ==
  ASSUME BaseInv, NEW r \in Reqs, NEW a \in StaffUsers, NEW role \in Roles \cup {None},
         NEW status \in {"active", "suspended", None}, UpdateRead(r, a, role, status), UNCHANGED logins
  PROVE  /\ BaseInv' /\ Others(r) /\ req'[r].pc = "update" /\ req'[r].a = a
         /\ req'[r].was = account[a].role
<1>1. a \in Accounts
  BY Types
<1>2. PICK was : was = account[a].role
  OBVIOUS
<1>3. was \in Roles \cup {None}
  BY <1>1, <1>2, Types DEF TablesTyped, AccountRow
<1>4. PICK w : w = [pc |-> "update", op |-> "update", a |-> a, role |-> role, status |-> status, was |-> was]
  OBVIOUS
<1>5. Become(r, w)
  BY <1>2, <1>4 DEF UpdateRead, Begin
<1>6. w \in UpdateRow /\ w.pc = "update" /\ w.a = a /\ w.was = was
  BY <1>3, <1>4 DEF UpdateRow, Place
<1>7. Fits(w) /\ Refers(w, session, code, unlock) /\ w.pc # "waiting"
  BY <1>1, <1>6 DEF Fits, Refers
<1>8. BaseInv' /\ req'[r] = w /\ Others(r)
  BY <1>5, <1>7, QuietStep, Types DEF UpdateRead, logins
<1>9. QED
  BY <1>2, <1>6, <1>8

LEMMA UpdateStep ==
  ASSUME BaseInv, NEW r \in Reqs, Update(r), UNCHANGED logins
  PROVE  /\ BaseInv' /\ Others(r) /\ OnlyRow(req[r].a)
         /\ req[r].pc = "update" /\ req[r].a \in StaffUsers /\ req'[r].a = req[r].a /\ req'[r].pc = "done"
         /\ account'[req[r].a].attempts = account[req[r].a].attempts
         /\ account'[req[r].a].locked = account[req[r].a].locked
         /\ \A q \in Looking(req[r].a) : q # r => q \in raced'
         /\ raced \subseteq raced' /\ (r \in raced => req[r].a \in raced')
         /\ \/ EndAll(req[r].a)
            \/ /\ UNCHANGED <<session, ended>>
               /\ account'[req[r].a].role = account[req[r].a].role \/ account'[req[r].a].role = req[r].was
               /\ account[req[r].a].active => account'[req[r].a].active
<1>1. req[r].pc = "update" /\ req[r] \in UpdateRow
  BY DEF BaseInv, HandlersFit, Fits, Update, UpdateEnding, At
<1>2. PICK x \in UpdateRow : x = req[r]
  BY <1>1
<1>3. PICK a \in Accounts : a = req[r].a /\ a = x.a /\ a \in StaffUsers
  BY <1>2, Types DEF UpdateRow
<1>4. x.role \in Roles \cup {None} /\ x.status \in {"active", "suspended", None} /\ x.was \in Roles \cup {None}
  BY DEF UpdateRow
<1>5. UNCHANGED <<code, unlock, now, overlapped, overtaken>>
  BY DEF logins
<1>6. account \in [Accounts -> AccountRow]
  BY Types DEF TablesTyped
<1>7. PICK old \in AccountRow : old = account[a]
  BY <1>6
<1>8. /\ old = [secret |-> old.secret, attempts |-> old.attempts, locked |-> old.locked,
                active |-> old.active, role |-> old.role]
      /\ old.secret \in Secrets \cup {None} /\ old.attempts \in 0..MaxAttempts
      /\ old.locked \in BOOLEAN /\ old.active \in BOOLEAN /\ old.role \in Roles \cup {None}
  BY WholeRow
<1>9. PICK role : role = IF x.role = None THEN old.role ELSE x.role
  OBVIOUS
<1>10. PICK active \in BOOLEAN : active = IF x.status = None THEN old.active ELSE x.status = "active"
  BY <1>8
<1>11. PICK row : row = [old EXCEPT !.role = role, !.active = active]
  OBVIOUS
<1>12. row = [secret |-> old.secret, attempts |-> old.attempts, locked |-> old.locked,
              active |-> active, role |-> role]
  BY <1>8, <1>11
<1>13. row \in AccountRow
  BY <1>4, <1>8, <1>9, <1>12 DEF AccountRow
<1>14. account' = [account EXCEPT ![a] = row]
  BY <1>2, <1>3, <1>6, <1>7, <1>9, <1>10, <1>11 DEF Update, UpdateEnding
<1>15. /\ account' \in [Accounts -> AccountRow] /\ account'[a] = row
       /\ \A b \in Accounts : b # a => account'[b] = account[b]
  BY <1>13, <1>14, AccountUpdate, Types
<1>16. raced' = raced \cup (Looking(a) \ {r}) \cup (IF r \in raced THEN {a} ELSE {})
  BY <1>3 DEF Update, UpdateEnding
<1>17. raced' \subseteq Reqs \cup Accounts
  BY <1>16, Types DEF TablesTyped, Looking
<1>18. PICK w : w = [pc |-> "done", a |-> a]
  OBVIOUS
<1>19. Become(r, w)
  BY <1>3, <1>18 DEF Update, UpdateEnding, Finish
<1>20. w.pc = "done" /\ w.a = a /\ Fits(w) /\ w.pc # "waiting" /\ \A s, c, u : Refers(w, s, c, u)
  BY <1>18, DoneFits
<1>21. \/ EndAll(a)
       \/ UNCHANGED <<session, ended>> /\ ~(x.role \notin {None, x.was} \/ x.status = "suspended")
  BY <1>2, <1>3 DEF Update, UpdateEnding
<1>22. TablesTyped' /\ TablesGrow
  <2>1. CASE EndAll(a)
    BY <1>5, <1>15, <1>17, <2>1, EndAllFacts, Types DEF TablesTyped, TablesGrow, LoginsTypeOK
  <2>2. CASE UNCHANGED <<session, ended>>
    BY <1>5, <1>15, <1>17, <2>2, SameGrow, Types DEF TablesTyped, LoginsTypeOK
  <2>3. QED
    BY <1>21, <2>1, <2>2
<1>23. BaseInv' /\ req'[r] = w /\ Others(r)
  BY <1>19, <1>20, <1>22, BaseStep
<1>24. \/ EndAll(a)
       \/ /\ UNCHANGED <<session, ended>>
          /\ account'[a].role = account[a].role \/ account'[a].role = x.was
          /\ account[a].active => account'[a].active
  <2>1. CASE ~(x.role \notin {None, x.was} \/ x.status = "suspended")
    <3>1. role = old.role \/ role = x.was
      BY <1>9, <2>1
    <3>2. old.active => active
      BY <1>4, <1>10, <2>1
    <3>3. account'[a].role = role /\ account'[a].active = active
      BY <1>12, <1>15
    <3>4. QED
      BY <1>7, <1>21, <3>1, <3>2, <3>3
  <2>2. QED
    BY <1>21, <2>1
<1>25. account'[a].attempts = account[a].attempts /\ account'[a].locked = account[a].locked
  BY <1>7, <1>12, <1>15
<1>26. /\ \A q \in Looking(a) : q # r => q \in raced'
       /\ raced \subseteq raced' /\ (r \in raced => a \in raced')
  BY <1>16
<1>27. OnlyRow(a)
  BY <1>15 DEF OnlyRow
<1>28. QED
  BY <1>1, <1>2, <1>3, <1>20, <1>23, <1>24, <1>25, <1>26, <1>27

LEMMA UnlockUserStep ==
  ASSUME BaseInv, NEW a \in StaffUsers, UnlockUser(a), UNCHANGED logins
  PROVE  /\ BaseInv' /\ OnlyRow(a) /\ SameSeen(a)
         /\ account'[a].attempts = 0 /\ ~account'[a].locked
<1>1. a \in Accounts
  BY Types
<1>2. /\ account' \in [Accounts -> AccountRow] /\ OnlyRow(a) /\ SameSeen(a)
      /\ account'[a].attempts = 0 /\ ~account'[a].locked
  BY <1>1, LiftFacts DEF UnlockUser
<1>3. UNCHANGED <<session, req, ended, code, unlock, now, overlapped, overtaken, raced>>
  BY DEF UnlockUser, logins
<1>4. TablesTyped' /\ TablesGrow
  BY <1>2, <1>3, SameGrow, Types DEF TablesTyped, LoginsTypeOK
<1>5. QED
  BY <1>2, <1>3, <1>4, BaseStill

LEMMA ResetPasswordStep ==
  ASSUME BaseInv, NEW a \in StaffUsers, NEW p \in Secrets, ResetPassword(a, p), UNCHANGED logins
  PROVE  /\ BaseInv' /\ OnlyRow(a) /\ EndAll(a)
         /\ account'[a].role = account[a].role /\ account'[a].active = account[a].active
         /\ account'[a].attempts = 0 /\ ~account'[a].locked
<1>1. a \in Accounts /\ account \in [Accounts -> AccountRow]
  BY Types DEF TablesTyped
<1>2. PICK old \in AccountRow : old = account[a]
  BY <1>1
<1>3. PICK row : row = [old EXCEPT !.secret = p, !.locked = FALSE, !.attempts = 0]
  OBVIOUS
<1>4. /\ old = [secret |-> old.secret, attempts |-> old.attempts, locked |-> old.locked,
                active |-> old.active, role |-> old.role]
      /\ old.active \in BOOLEAN /\ old.role \in Roles \cup {None}
      /\ 0 \in 0..MaxAttempts
  BY WholeRow, Types
<1>5. row = [secret |-> p, attempts |-> 0, locked |-> FALSE, active |-> old.active, role |-> old.role]
  BY <1>3, <1>4
<1>6. row \in AccountRow
  BY <1>4, <1>5 DEF AccountRow
<1>7. account' = [account EXCEPT ![a] = row]
  BY <1>1, <1>2, <1>3 DEF ResetPassword
<1>8. /\ account' \in [Accounts -> AccountRow] /\ account'[a] = row
      /\ \A b \in Accounts : b # a => account'[b] = account[b]
  BY <1>1, <1>6, <1>7, AccountUpdate, Types
<1>9. EndAll(a) /\ UNCHANGED <<req, code, unlock, now, overlapped, overtaken, raced>>
  BY DEF ResetPassword, logins
<1>10. TablesTyped' /\ TablesGrow
  BY <1>1, <1>8, <1>9, EndAllFacts, Types DEF TablesTyped, TablesGrow, LoginsTypeOK
<1>11. BaseInv'
  BY <1>9, <1>10, BaseStill
<1>12. QED
  BY <1>2, <1>5, <1>8, <1>9, <1>11 DEF OnlyRow

----------------------------------------------------------------------------
(* Lockouts: an account whose attempts are used up.                         *)

\* The rows of accounts keep their attempts, or start again, or are locked; and whoever had
\* an attempt to settle and moves on has locked the account if that was the last.
LEMMA SpentKept ==
  ASSUME BaseInv, SpentIsLocked, NEW r \in Reqs, Others(r),
         \A a \in Accounts :
           \/ account'[a].attempts = account[a].attempts /\ (account[a].locked => account'[a].locked)
           \/ account'[a].attempts = 0 \/ account'[a].locked,
         req[r].pc = "settle" =>
           \/ account'[req[r].a].attempts = 0
           \/ req[r].n = MaxAttempts => account'[req[r].a].locked
  PROVE  SpentIsLocked'
<1>1. ASSUME NEW a \in Accounts, account'[a].attempts = MaxAttempts, ~account'[a].locked
      PROVE  \E q \in Reqs : req'[q].pc = "settle" /\ req'[q].a = a /\ req'[q].n = MaxAttempts
  <2>1. account[a].attempts = MaxAttempts /\ ~account[a].locked /\ account'[a].attempts # 0
    BY <1>1, Types
  <2>2. PICK q \in Reqs : req[q].pc = "settle" /\ req[q].a = a /\ req[q].n = MaxAttempts
    BY <2>1 DEF SpentIsLocked, At
  <2>3. q # r
    BY <1>1, <2>1, <2>2
  <2>4. QED
    BY <2>2, <2>3 DEF Others
<1>2. QED
  BY <1>1 DEF SpentIsLocked, At

\* The same where no handler moves.
LEMMA SpentStill ==
  ASSUME BaseInv, SpentIsLocked, req' = req,
         \A a \in Accounts :
           \/ account'[a].attempts = account[a].attempts /\ account'[a].locked = account[a].locked
           \/ account'[a].attempts = 0
  PROVE  SpentIsLocked'
BY Types DEF SpentIsLocked, At

\* Who takes the last attempt settles it.
LEMMA SpentReserved ==
  ASSUME BaseInv, SpentIsLocked, NEW r \in Reqs, Others(r), NEW a \in Accounts, OnlyRow(a),
         req[r].pc = "reserve", req'[r].pc = "settle", req'[r].a = a,
         req'[r].n = account'[a].attempts
  PROVE  SpentIsLocked'
<1>1. ASSUME NEW b \in Accounts, account'[b].attempts = MaxAttempts, ~account'[b].locked
      PROVE  \E q \in Reqs : req'[q].pc = "settle" /\ req'[q].a = b /\ req'[q].n = MaxAttempts
  <2>1. CASE b = a
    BY <1>1, <2>1
  <2>2. CASE b # a
    <3>1. account'[b] = account[b]
      BY <2>2 DEF OnlyRow
    <3>2. PICK q \in Reqs : req[q].pc = "settle" /\ req[q].a = b /\ req[q].n = MaxAttempts
      BY <1>1, <3>1 DEF SpentIsLocked, At
    <3>3. QED
      BY <3>2 DEF Others
  <2>3. QED
    BY <2>1, <2>2
<1>2. QED
  BY <1>1 DEF SpentIsLocked, At

----------------------------------------------------------------------------
(* What handlers saw of an account.                                         *)

LEMMA PinSeenOf ==
  ASSUME NEW w, NEW row, NEW after, after.secret = row.secret, PinSeen(w, row)
  PROVE  PinSeen(w, after)
BY DEF PinSeen

LEMMA RoleSeenOf ==
  ASSUME NEW w, NEW row, NEW after, after.role = row.role, after.active = row.active, RoleSeen(w, row)
  PROVE  RoleSeen(w, after)
BY DEF RoleSeen

LEMMA DoneSaw ==
  ASSUME NEW w, NEW row, w.pc = "done"
  PROVE  PinSeen(w, row) /\ RoleSeen(w, row)
BY DEF PinSeen, RoleSeen

\* Whoever else looks at a row that changes is overtaken, or raced.
Overtakes(r) ==
  /\ \A q \in Reqs : q # r /\ q \notin overtaken' => q \notin overtaken
  /\ raced \subseteq raced'
  /\ \A a \in Customers : account'[a].secret = account[a].secret
                          \/ \A q \in Looking(a) : q # r => q \in overtaken'
  /\ \A a \in StaffUsers : \/ account'[a].role = account[a].role /\ account'[a].active = account[a].active
                           \/ \A q \in Looking(a) : q # r => q \in raced'

\* What the others saw is still so; it is left to see what r did.
LEMMA OthersSaw ==
  ASSUME BaseInv, SeenIsStill, NEW r, Overtakes(r), NEW q \in Reqs, q # r, req'[q] = req[q],
         req'[q].pc # "waiting"
  PROVE  /\ req'[q].a \in Customers /\ q \notin overtaken' => PinSeen(req'[q], account'[req'[q].a])
         /\ req'[q].a \in StaffUsers /\ q \notin raced' => RoleSeen(req'[q], account'[req'[q].a])
<1>1. PICK w, a : w = req[q] /\ a = req[q].a
  OBVIOUS
<1>2. PICK row, after : row = account[a] /\ after = account'[a]
  OBVIOUS
<1>3. /\ a \in Customers /\ q \notin overtaken => PinSeen(w, row)
      /\ a \in StaffUsers /\ q \notin raced => RoleSeen(w, row)
  BY <1>1, <1>2 DEF SeenIsStill
<1>4. w.pc = "done" \/ q \in Looking(a)
  BY <1>1 DEF Looking
<1>5. a \in Customers /\ q \notin overtaken' => PinSeen(w, after)
  <2>1. CASE w.pc = "done"
    BY <2>1, DoneSaw
  <2>2. CASE q \in Looking(a) /\ a \in Customers /\ q \notin overtaken'
    <3>1. after.secret = row.secret /\ q \notin overtaken
      BY <1>2, <2>2 DEF Overtakes
    <3>2. QED
      BY <1>3, <2>2, <3>1, PinSeenOf
  <2>3. QED
    BY <1>4, <2>1, <2>2
<1>6. a \in StaffUsers /\ q \notin raced' => RoleSeen(w, after)
  <2>1. CASE w.pc = "done"
    BY <2>1, DoneSaw
  <2>2. CASE q \in Looking(a) /\ a \in StaffUsers /\ q \notin raced'
    <3>1. after.role = row.role /\ after.active = row.active /\ q \notin raced
      BY <1>2, <2>2 DEF Overtakes
    <3>2. QED
      BY <1>3, <2>2, <3>1, RoleSeenOf
  <2>3. QED
    BY <1>4, <2>1, <2>2
<1>7. QED
  BY <1>1, <1>2, <1>5, <1>6

LEMMA SeenKept ==
  ASSUME BaseInv, SeenIsStill, NEW r \in Reqs, Others(r), Overtakes(r), NEW w, NEW row,
         req'[r] = w, row = account'[w.a],
         w.a \in Customers /\ r \notin overtaken' => PinSeen(w, row),
         w.a \in StaffUsers /\ r \notin raced' => RoleSeen(w, row)
  PROVE  SeenIsStill'
<1>1. ASSUME NEW q \in Reqs, req'[q].pc # "waiting"
      PROVE  /\ req'[q].a \in Customers /\ q \notin overtaken' => PinSeen(req'[q], account'[req'[q].a])
             /\ req'[q].a \in StaffUsers /\ q \notin raced' => RoleSeen(req'[q], account'[req'[q].a])
  <2>1. CASE q = r
    BY <2>1
  <2>2. CASE q # r
    BY <1>1, <2>2, OthersSaw DEF Others
  <2>3. QED
    BY <2>1, <2>2
<1>2. QED
  BY <1>1 DEF SeenIsStill, PinSeen, RoleSeen

\* The same for a handler that ends.
LEMMA SeenDone ==
  ASSUME BaseInv, SeenIsStill, NEW r \in Reqs, Others(r), Overtakes(r), req'[r].pc = "done"
  PROVE  SeenIsStill'
<1>1. PICK w, row : w = req'[r] /\ row = account'[w.a]
  OBVIOUS
<1>2. PinSeen(w, row) /\ RoleSeen(w, row)
  BY <1>1, DoneSaw
<1>3. QED
  BY <1>1, <1>2, SeenKept

\* And where no handler moves.
LEMMA SeenStill ==
  ASSUME BaseInv, SeenIsStill, req' = req, NEW r, r \notin Reqs, Overtakes(r)
  PROVE  SeenIsStill'
<1>1. ASSUME NEW q \in Reqs, req'[q].pc # "waiting"
      PROVE  /\ req'[q].a \in Customers /\ q \notin overtaken' => PinSeen(req'[q], account'[req'[q].a])
             /\ req'[q].a \in StaffUsers /\ q \notin raced' => RoleSeen(req'[q], account'[req'[q].a])
  BY <1>1, OthersSaw
<1>2. QED
  BY <1>1 DEF SeenIsStill, PinSeen, RoleSeen

\* A step that changes nothing handlers see overtakes nobody.
LEMMA NobodyOvertaken ==
  ASSUME NEW r, UNCHANGED <<overtaken, raced>>,
         \A a \in Accounts : account'[a].secret = account[a].secret /\ account'[a].role = account[a].role
                             /\ account'[a].active = account[a].active,
         BaseInv
  PROVE  Overtakes(r)
BY Types DEF Overtakes

----------------------------------------------------------------------------
(* Which sessions live.                                                     *)

\* An opened session's row, and its root's.
LEMMA OpenedRow ==
  ASSUME BaseInv, NEW s \in SessionIds, session[s] # Unopened
  PROVE  session[s] \in SessionRow /\ session[s].owner \in Accounts /\ session[s].root \in SessionIds
         /\ session[s].over \in BOOLEAN
BY Types DEF TablesTyped, SessionRow

LEMMA SessionsSame ==
  ASSUME SessionsInv, UNCHANGED <<session, ended>>
  PROVE  SessionsInv'
BY DEF SessionsInv, RootsAreOpened, SessionsKept, Live, Opened

\* The row of a session that ends: only that changes.
LEMMA OverRow ==
  ASSUME NEW row \in SessionRow, NEW after, after = [row EXCEPT !.over = TRUE]
  PROVE  after.over = TRUE /\ after.owner = row.owner /\ after.root = row.root /\ after.role = row.role
         /\ after.by = row.by
BY DEF SessionRow

\* After the sessions of an account have ended, those that live are others, as they were.
LEMMA EndAllLives ==
  ASSUME BaseInv, NEW a \in Accounts, EndAll(a), NEW s \in SessionIds, session'[s] # Unopened
  PROVE  /\ session[s] # Unopened /\ session'[s].owner = session[s].owner
         /\ session'[s].root = session[s].root
         /\ ~session'[s].over => /\ session'[s] = session[s]
                                 /\ \/ session[s].owner # a
                                    \/ s \in Fresh(a) /\ (session[s].root \in ended' => session[s].root \in ended)
<1>1. /\ session[s].owner # a => session'[s] = session[s]
      /\ session[s].owner = a => session[s] \in SessionRow
      /\ session[s].owner = a => \/ session'[s] = [session[s] EXCEPT !.over = TRUE]
                                 \/ session'[s] = session[s] /\ s \in Fresh(a)
                                    /\ (session[s].root \in ended' => session[s].root \in ended)
  BY EndAllFacts
<1>2. CASE session[s].owner # a \/ session'[s] # [session[s] EXCEPT !.over = TRUE]
  BY <1>1, <1>2
<1>3. CASE session[s].owner = a /\ session'[s] = [session[s] EXCEPT !.over = TRUE]
  <2>1. PICK row \in SessionRow : row = session[s]
    BY <1>1, <1>3
  <2>2. PICK after : after = [row EXCEPT !.over = TRUE]
    OBVIOUS
  <2>3. after.over = TRUE /\ after.owner = row.owner /\ after.root = row.root
    BY <2>2, OverRow
  <2>4. session'[s] = after
    BY <1>1, <1>3, <2>1, <2>2
  <2>5. row # Unopened
    BY Types, <1>3, <2>1 DEF Unopened
  <2>6. QED
    BY <2>1, <2>3, <2>4, <2>5
<1>4. QED
  BY <1>2, <1>3

LEMMA SessionsEndAll ==
  ASSUME BaseInv, SessionsInv, NEW a \in Accounts, EndAll(a)
  PROVE  SessionsInv'
<1>1. /\ ended' \subseteq ended \cup {session[s].root : s \in {t \in SessionIds : session[t].owner = a}}
      /\ \A s \in SessionIds : session[s] # Unopened =>
           session'[s] # Unopened /\ session'[s].owner = session[s].owner
  BY EndAllFacts
<1>2. \A s \in SessionIds : session[s].owner = a => session[s] # Unopened
  BY Types DEF Unopened
<1>3. ASSUME NEW s \in SessionIds, session'[s] # Unopened
      PROVE  session'[session'[s].root] # Unopened
             /\ session'[session'[s].root].owner = session'[s].owner
  <2>1. session[s] # Unopened /\ session'[s].owner = session[s].owner /\ session'[s].root = session[s].root
    BY <1>3, EndAllLives
  <2>2. PICK root \in SessionIds : root = session[s].root
    BY <2>1, OpenedRow
  <2>3. session[root] # Unopened /\ session[root].owner = session[s].owner
    BY <2>1, <2>2 DEF SessionsInv, RootsAreOpened, Opened
  <2>4. QED
    BY <1>1, <2>1, <2>2, <2>3
<1>4. ASSUME NEW t \in ended' PROVE t \in SessionIds => session'[t] # Unopened
  <2>1. CASE t \in ended
    BY <1>1, <2>1 DEF SessionsInv, RootsAreOpened, Opened
  <2>2. CASE t \notin ended
    <3>1. PICK s \in SessionIds : session[s].owner = a /\ t = session[s].root
      BY <1>1, <1>4, <2>2
    <3>2. session[s] # Unopened
      BY <1>2, <3>1
    <3>3. session[t] # Unopened /\ t \in SessionIds
      BY <3>1, <3>2, OpenedRow DEF SessionsInv, RootsAreOpened, Opened
    <3>4. QED
      BY <1>1, <3>3
  <2>3. QED
    BY <2>1, <2>2
<1>5. ended' \subseteq SessionIds
  BY EndAllFacts
<1>6. RootsAreOpened'
  BY <1>3, <1>4, <1>5 DEF RootsAreOpened, Opened
<1>7. ASSUME NEW s \in SessionIds, session'[s] # Unopened, ~session'[s].over
      PROVE  /\ session'[s].root \notin ended'
             /\ \A t \in SessionIds : session'[t] # Unopened /\ ~session'[t].over
                                      /\ session'[t].root = session'[s].root => t = s
  <2>1. /\ session[s] # Unopened /\ session'[s] = session[s]
        /\ session[s].owner # a \/ (session[s].root \in ended' => session[s].root \in ended)
    BY <1>7, EndAllLives
  <2>2. session[s].root \notin ended
    BY <1>7, <2>1 DEF SessionsInv, SessionsKept, Live, Opened
  <2>3. ASSUME NEW t \in SessionIds, session[t].owner = a, session[t].root = session[s].root,
               session[s].owner # a
        PROVE  FALSE
    <3>1. session[t] # Unopened
      BY <1>2, <2>3
    <3>2. session[session[t].root].owner = a /\ session[session[s].root].owner = session[s].owner
      BY <2>1, <2>3, <3>1 DEF SessionsInv, RootsAreOpened, Opened
    <3>3. QED
      BY <2>1, <2>3, <3>2
  <2>4. session'[s].root \notin ended'
    BY <1>1, <2>1, <2>2, <2>3
  <2>5. ASSUME NEW t \in SessionIds, session'[t] # Unopened, ~session'[t].over,
               session'[t].root = session'[s].root
        PROVE  t = s
    <3>1. session[t] # Unopened /\ session'[t] = session[t]
      BY <2>5, EndAllLives
    <3>2. QED
      BY <1>7, <2>1, <2>5, <3>1 DEF SessionsInv, SessionsKept, Live, Opened
  <2>6. QED
    BY <2>4, <2>5
<1>8. SessionsKept'
  BY <1>7 DEF SessionsKept, Live, Opened
<1>9. QED
  BY <1>6, <1>8 DEF SessionsInv

LEMMA SessionsSignOut ==
  ASSUME BaseInv, SessionsInv, NEW s \in SessionIds, SignOut(s), UNCHANGED <<logins, raced>>
  PROVE  SessionsInv'
<1>1. /\ session[s] \in SessionRow /\ session'[s] = [session[s] EXCEPT !.over = TRUE]
      /\ session'[s] # Unopened
      /\ \A t \in SessionIds : t # s => session'[t] = session[t]
      /\ ended' = ended \cup {session[s].root}
  BY SignOutStep
<1>2. PICK row, after : row = session[s] /\ after = session'[s]
  OBVIOUS
<1>3. after.over = TRUE /\ after.owner = row.owner /\ after.root = row.root
  BY <1>1, <1>2, OverRow
<1>4. session[s] # Unopened /\ ~session[s].over
  BY DEF SignOut, Live, Opened
<1>5. \A t \in SessionIds : /\ session'[t] # Unopened <=> session[t] # Unopened
                            /\ session[t] # Unopened => session'[t].owner = session[t].owner
                                                        /\ session'[t].root = session[t].root
                            /\ session[t] # Unopened /\ ~session'[t].over => t # s /\ ~session[t].over
  BY <1>1, <1>2, <1>3, <1>4
<1>6. \A t \in SessionIds : session[t] # Unopened => session[t].root \in SessionIds
  BY OpenedRow
<1>7. RootsAreOpened'
  <2>1. ASSUME NEW t \in SessionIds, session'[t] # Unopened
        PROVE  session'[session'[t].root] # Unopened
               /\ session'[session'[t].root].owner = session'[t].owner
    <3>1. PICK root \in SessionIds : root = session[t].root /\ root = session'[t].root
      BY <1>5, <1>6, <2>1
    <3>2. session[root] # Unopened /\ session[root].owner = session[t].owner
      BY <1>5, <2>1, <3>1 DEF SessionsInv, RootsAreOpened, Opened
    <3>3. QED
      BY <1>5, <2>1, <3>1, <3>2
  <2>2. ASSUME NEW t \in ended', t \in SessionIds PROVE session'[t] # Unopened
    <3>1. session[session[s].root] # Unopened
      BY <1>4 DEF SessionsInv, RootsAreOpened, Opened
    <3>2. session[t] # Unopened
      BY <1>1, <2>2, <3>1 DEF SessionsInv, RootsAreOpened, Opened
    <3>3. QED
      BY <1>5, <2>2, <3>2
  <2>3. ended' \subseteq SessionIds
    BY <1>1, <1>4, <1>6, Types DEF TablesTyped
  <2>4. QED
    BY <2>1, <2>2, <2>3 DEF RootsAreOpened, Opened
<1>8. ASSUME NEW u \in SessionIds, session'[u] # Unopened, ~session'[u].over
      PROVE  /\ session'[u].root \notin ended'
             /\ \A t \in SessionIds : session'[t] # Unopened /\ ~session'[t].over
                                      /\ session'[t].root = session'[u].root => t = u
  BY <1>1, <1>4, <1>5, <1>8 DEF SessionsInv, SessionsKept, Live, Opened
<1>9. SessionsKept'
  BY <1>8 DEF SessionsKept, Live, Opened
<1>10. QED
  BY <1>7, <1>9 DEF SessionsInv

\* A new session that goes back to itself.
LEMMA SessionsOpen ==
  ASSUME BaseInv, SessionsInv, ended' = ended, NEW n \in SessionIds, session[n] = Unopened,
         session'[n] # Unopened, session'[n].root = n,
         \A s \in SessionIds : s # n => session'[s] = session[s]
  PROVE  SessionsInv'
<1>1. \A s \in SessionIds : session[s] # Unopened => session[s].root \in SessionIds
  BY OpenedRow
<1>2. \A s \in SessionIds : session[s] # Unopened => session[s].root # n
  BY DEF SessionsInv, RootsAreOpened, Opened
<1>3. ended \subseteq SessionIds /\ n \notin ended
  BY Types DEF SessionsInv, RootsAreOpened, Opened, TablesTyped
<1>4. ASSUME NEW s \in SessionIds, session'[s] # Unopened
      PROVE  session'[session'[s].root] # Unopened
             /\ session'[session'[s].root].owner = session'[s].owner
  <2>1. CASE s = n
    BY <2>1
  <2>2. CASE s # n
    BY <1>1, <1>2, <1>4, <2>2 DEF SessionsInv, RootsAreOpened, Opened
  <2>3. QED
    BY <2>1, <2>2
<1>5. RootsAreOpened'
  BY <1>3, <1>4 DEF SessionsInv, RootsAreOpened, Opened
<1>6. ASSUME NEW s \in SessionIds, session'[s] # Unopened, ~session'[s].over
      PROVE  /\ session'[s].root \notin ended
             /\ \A t \in SessionIds : session'[t] # Unopened /\ ~session'[t].over
                                      /\ session'[t].root = session'[s].root => t = s
  <2>1. CASE s = n
    BY <1>2, <1>3, <2>1
  <2>2. CASE s # n
    <3>1. session[s] # Unopened /\ session'[s] = session[s] /\ session[s].root # n
      BY <1>2, <1>6, <2>2
    <3>2. QED
      BY <1>6, <3>1 DEF SessionsInv, SessionsKept, Live, Opened
  <2>3. QED
    BY <2>1, <2>2
<1>7. SessionsKept'
  BY <1>6 DEF SessionsKept, Live, Opened
<1>8. QED
  BY <1>5, <1>7 DEF SessionsInv

\* A session gives way to its successor.
LEMMA SessionsRotate ==
  ASSUME BaseInv, SessionsInv, ended' = ended, NEW n \in SessionIds, NEW s \in SessionIds,
         s # n, session[n] = Unopened, session[s] # Unopened, ~session[s].over,
         session'[n] # Unopened, session'[n].root = session[s].root, session'[n].owner = session[s].owner,
         session'[s] # Unopened, session'[s].over, session'[s].root = session[s].root,
         session'[s].owner = session[s].owner,
         \A t \in SessionIds \ {n, s} : session'[t] = session[t]
  PROVE  SessionsInv'
<1>1. \A t \in SessionIds : session[t] # Unopened => session[t].root \in SessionIds /\ session[t].root # n
  BY OpenedRow DEF SessionsInv, RootsAreOpened, Opened
<1>2. \A t \in SessionIds : session[t] # Unopened =>
        /\ session[session[t].root] # Unopened /\ session[session[t].root].owner = session[t].owner
  BY DEF SessionsInv, RootsAreOpened, Opened
<1>3. \A t \in SessionIds \ {n} : /\ session'[t] # Unopened <=> session[t] # Unopened
                                  /\ session'[t].owner = session[t].owner
                                  /\ session'[t].root = session[t].root
                                  /\ ~session'[t].over => ~session[t].over /\ t # s
  OBVIOUS
<1>4. ASSUME NEW t \in SessionIds, session'[t] # Unopened
      PROVE  session'[session'[t].root] # Unopened
             /\ session'[session'[t].root].owner = session'[t].owner
  <2>1. PICK u \in SessionIds \ {n} : session[u] # Unopened /\ session'[t].root = session[u].root
                                      /\ session'[t].owner = session[u].owner
    BY <1>3, <1>4
  <2>2. PICK root \in SessionIds \ {n} : root = session[u].root
    BY <1>1, <2>1
  <2>3. session[root] # Unopened /\ session[root].owner = session[u].owner
    BY <1>2, <2>1, <2>2
  <2>4. QED
    BY <1>3, <2>1, <2>2, <2>3
<1>5. \A t \in ended : t \in SessionIds => session'[t] # Unopened
  BY <1>3 DEF SessionsInv, RootsAreOpened, Opened
<1>6. RootsAreOpened'
  BY <1>4, <1>5, Types DEF RootsAreOpened, Opened, TablesTyped
<1>7. \A t, u \in SessionIds : /\ session[t] # Unopened /\ ~session[t].over => session[t].root \notin ended
                               /\ session[t] # Unopened /\ ~session[t].over
                                  /\ session[u] # Unopened /\ ~session[u].over
                                  /\ session[t].root = session[u].root => t = u
  BY DEF SessionsInv, SessionsKept, Live, Opened
<1>8. ASSUME NEW t \in SessionIds, session'[t] # Unopened, ~session'[t].over
      PROVE  /\ session'[t].root \notin ended
             /\ \A u \in SessionIds : session'[u] # Unopened /\ ~session'[u].over
                                      /\ session'[u].root = session'[t].root => u = t
  <2>1. CASE t = n
    BY <1>3, <1>7, <1>8, <2>1
  <2>2. CASE t # n
    BY <1>3, <1>7, <1>8, <2>2
  <2>3. QED
    BY <2>1, <2>2
<1>9. SessionsKept'
  BY <1>8 DEF SessionsKept, Live, Opened
<1>10. QED
  BY <1>6, <1>9 DEF SessionsInv

----------------------------------------------------------------------------
(* What the tokens of staff users say.                                      *)

\* The sessions are those there were, some of them over, and the roles are those there were.
LEMMA RolesSame ==
  ASSUME BaseInv, TokensSayRole, raced \subseteq raced',
         \A s \in SessionIds : session'[s] # Unopened /\ ~session'[s].over => session'[s] = session[s],
         \A a \in StaffUsers : account'[a].role = account[a].role /\ account'[a].active = account[a].active
  PROVE  TokensSayRole'
<1>1. ASSUME NEW s \in SessionIds, session'[s] # Unopened, ~session'[s].over,
             session'[s].owner \in StaffUsers
      PROVE  \/ session'[s].role = account'[session'[s].owner].role /\ account'[session'[s].owner].active
             \/ session'[s].by \in raced' \/ session'[s].owner \in raced'
  <2>1. session'[s] = session[s]
    BY <1>1
  <2>2. PICK a \in StaffUsers : a = session[s].owner
    BY <1>1, <2>1
  <2>3. \/ session[s].role = account[a].role /\ account[a].active
        \/ session[s].by \in raced \/ a \in raced
    BY <1>1, <2>1, <2>2 DEF TokensSayRole, Live, Opened
  <2>4. QED
    BY <2>1, <2>2, <2>3
<1>2. QED
  BY <1>1 DEF TokensSayRole, Live, Opened

\* The sessions of the one whose row changes end, or those missed still say the role, or
\* come from refreshes that are raced.
LEMMA RolesEndAll ==
  ASSUME BaseInv, TokensSayRole, raced \subseteq raced', NEW a \in Accounts, EndAll(a), OnlyRow(a),
         \/ a \notin StaffUsers
         \/ account'[a].role = account[a].role /\ account'[a].active = account[a].active
         \/ \A q \in Looking(a) : At(q, "committed") => q \in raced'
  PROVE  TokensSayRole'
<1>1. ASSUME NEW s \in SessionIds, session'[s] # Unopened, ~session'[s].over,
             session'[s].owner \in StaffUsers
      PROVE  \/ session'[s].role = account'[session'[s].owner].role /\ account'[session'[s].owner].active
             \/ session'[s].by \in raced' \/ session'[s].owner \in raced'
  <2>1. session'[s] = session[s] /\ (session[s].owner # a \/ s \in Fresh(a))
    BY <1>1, EndAllLives
  <2>2. PICK b \in StaffUsers : b = session[s].owner
    BY <1>1, <2>1
  <2>3. \/ account'[b].role = account[b].role /\ account'[b].active = account[b].active
        \/ session[s].by \in raced'
    BY <2>1, <2>2, Types DEF OnlyRow, Fresh
  <2>4. \/ session[s].role = account[b].role /\ account[b].active
        \/ session[s].by \in raced \/ b \in raced
    BY <1>1, <2>1, <2>2 DEF TokensSayRole, Live, Opened
  <2>5. QED
    BY <2>1, <2>2, <2>3, <2>4
<1>2. QED
  BY <1>1 DEF TokensSayRole, Live, Opened

\* A session is opened: its tokens say the role, unless the request that opened it is raced.
LEMMA RolesOpen ==
  ASSUME BaseInv, TokensSayRole, UNCHANGED <<account, raced>>, NEW n \in SessionIds,
         \A s \in SessionIds \ {n} : session'[s] # Unopened /\ ~session'[s].over => session'[s] = session[s],
         NEW a, session'[n].owner = a,
         a \in StaffUsers =>
           (session'[n].role = account[a].role /\ account[a].active) \/ session'[n].by \in raced
  PROVE  TokensSayRole'
<1>1. ASSUME NEW s \in SessionIds, session'[s] # Unopened, ~session'[s].over,
             session'[s].owner \in StaffUsers
      PROVE  \/ session'[s].role = account[session'[s].owner].role /\ account[session'[s].owner].active
             \/ session'[s].by \in raced \/ session'[s].owner \in raced
  <2>1. CASE s = n
    BY <1>1, <2>1
  <2>2. CASE s # n
    BY <1>1, <2>2 DEF TokensSayRole, Live, Opened
  <2>3. QED
    BY <2>1, <2>2
<1>2. QED
  BY <1>1 DEF TokensSayRole, Live, Opened

----------------------------------------------------------------------------
(* Codes: who issues one, and how many there are.                           *)

\* The codes in flight, of those sent to an account.
InFlight(codes, purpose) ==
  {k \in DOMAIN codes : codes[k].purpose = purpose /\ ~codes[k].used}

\* A request is issuing a code for an account.
Issuing(q, a) == q.pc \in {"retire", "create"} /\ q.a = a

LEMMA CodesTyped ==
  ASSUME BaseInv, NEW a \in Accounts
  PROVE  /\ code[a] \in Seq(CodeRow) /\ Len(code[a]) \in Nat /\ DOMAIN code[a] = 1..Len(code[a])
         /\ \A k \in DOMAIN code[a] : code[a][k] \in CodeRow /\ code[a][k].at \in Nat /\ code[a][k].spent \in Nat
<1>1. code[a] \in Seq(CodeRow)
  BY Types
<1>2. Len(code[a]) \in Nat /\ DOMAIN code[a] = 1..Len(code[a]) /\ \A k \in DOMAIN code[a] : code[a][k] \in CodeRow
  BY <1>1
<1>3. \A c \in CodeRow : c.at \in Nat /\ c.spent \in Nat
  BY Types DEF CodeRow
<1>4. QED
  BY <1>1, <1>2, <1>3

LEMMA RecentFinite ==
  ASSUME BaseInv, NEW a \in Accounts
  PROVE  IsFiniteSet(Recent(a)) /\ Cardinality(Recent(a)) \in Nat
<1>1. Recent(a) \subseteq 1..Len(code[a]) /\ Len(code[a]) \in Nat
  BY CodesTyped DEF Recent
<1>2. IsFiniteSet(1..Len(code[a]))
  BY <1>1, FS_Interval
<1>3. IsFiniteSet(Recent(a))
  BY <1>1, <1>2, FS_Subset
<1>4. QED
  BY <1>3, FS_CardinalityType

\* As time passes and codes are used, there are no more recent ones and no more unused ones.
LEMMA CodesWane ==
  ASSUME BaseInv, CodesStay, now <= now', now' \in Nat, NEW a \in Accounts
  PROVE  /\ Cardinality(Recent(a)') <= Cardinality(Recent(a)) /\ Cardinality(Recent(a)') \in Nat
         /\ \A purpose : InFlight(code'[a], purpose) \subseteq InFlight(code[a], purpose)
<1>1. Hour \in Nat
  BY LoginsAssumption
<1>2. now \in Nat
  BY Types
<1>3. ASSUME NEW k \in DOMAIN code[a], code'[a][k].at > now' - Hour PROVE k \in Recent(a)
  <2>1. code'[a][k].at = code[a][k].at
    BY DEF CodesStay
  <2>2. code[a][k].at \in Nat
    BY CodesTyped
  <2>3. code[a][k].at > now - Hour
    BY <1>1, <1>2, <1>3, <2>1, <2>2
  <2>4. QED
    BY <2>3 DEF Recent
<1>4. DOMAIN code'[a] = DOMAIN code[a]
  BY DEF CodesStay
<1>5. Recent(a)' \subseteq Recent(a)
  BY <1>3, <1>4 DEF Recent
<1>6. Cardinality(Recent(a)') <= Cardinality(Recent(a)) /\ Cardinality(Recent(a)') \in Nat
  BY <1>5, RecentFinite, FS_Subset, FS_CardinalityType
<1>7. ASSUME NEW purpose PROVE InFlight(code'[a], purpose) \subseteq InFlight(code[a], purpose)
  BY <1>4 DEF InFlight, CodesStay
<1>8. QED
  BY <1>6, <1>7

\* What holds of the handlers and the codes of one account whose codes are issued in turn.
InTurn(a) ==
  /\ \A q, r \in Reqs : Issuing(req[q], a) /\ Issuing(req[r], a) => q = r
  /\ Cardinality(Recent(a)) <= MaxPerHour
  /\ \A r \in Reqs : Issuing(req[r], a) => Cardinality(Recent(a)) < MaxPerHour
  /\ \A r \in Reqs : req[r].pc = "create" /\ req[r].a = a => InFlight(code[a], req[r].op) = {}
  /\ \A purpose \in Purposes : \A j, k \in InFlight(code[a], purpose) : j = k

LEMMA TurnsTaken ==
  IssuedInTurn <=> \A a \in Customers : a \notin overlapped => InTurn(a)
BY DEF IssuedInTurn, InTurn, Issuing, Unused, InFlight

\* A step that issues nothing: codes may be used, time may pass, and who was issuing may stop
\* or go on.
LEMMA TurnKept ==
  ASSUME BaseInv, IssuedInTurn, CodesStay, now <= now', now' \in Nat, overlapped \subseteq overlapped',
         \A q \in Reqs : \A a \in Customers :
           Issuing(req'[q], a) =>
             /\ Issuing(req[q], a) /\ req'[q].op = req[q].op
             /\ req'[q].pc = "create" => req[q].pc = "create" \/ InFlight(code'[a], req'[q].op) = {}
  PROVE  IssuedInTurn'
<1>1. ASSUME NEW a \in Customers, a \notin overlapped' PROVE InTurn(a)'
  <2>1. InTurn(a) /\ a \in Accounts
    BY <1>1, TurnsTaken, Types
  <2>2. /\ Cardinality(Recent(a)') <= Cardinality(Recent(a)) /\ Cardinality(Recent(a)') \in Nat
        /\ \A purpose : InFlight(code'[a], purpose) \subseteq InFlight(code[a], purpose)
        /\ Cardinality(Recent(a)) \in Nat /\ MaxPerHour \in Nat
    BY <2>1, CodesWane, RecentFinite, LoginsAssumption
  <2>3. \A q, r \in Reqs : Issuing(req'[q], a) /\ Issuing(req'[r], a) => q = r
    BY <1>1, <2>1 DEF InTurn
  <2>4. Cardinality(Recent(a)') <= MaxPerHour
    BY <2>1, <2>2 DEF InTurn
  <2>5. \A r \in Reqs : Issuing(req'[r], a) => Cardinality(Recent(a)') < MaxPerHour
    BY <1>1, <2>1, <2>2 DEF InTurn
  <2>6. ASSUME NEW r \in Reqs, req'[r].pc = "create", req'[r].a = a PROVE InFlight(code'[a], req'[r].op) = {}
    <3>1. /\ Issuing(req[r], a) /\ req'[r].op = req[r].op
          /\ req[r].pc = "create" \/ InFlight(code'[a], req'[r].op) = {}
      BY <1>1, <2>6 DEF Issuing
    <3>2. PICK op : op = req[r].op
      OBVIOUS
    <3>3. CASE req[r].pc = "create"
      <4>1. InFlight(code[a], op) = {}
        BY <2>1, <3>1, <3>2, <3>3 DEF InTurn, Issuing
      <4>2. InFlight(code'[a], op) = {}
        BY <2>2, <4>1
      <4>3. QED
        BY <3>1, <3>2, <4>2
    <3>4. QED
      BY <3>1, <3>3
  <2>7. ASSUME NEW purpose \in Purposes, NEW j \in InFlight(code'[a], purpose), NEW k \in InFlight(code'[a], purpose)
        PROVE  j = k
    BY <2>1, <2>2 DEF InTurn
  <2>8. QED
    BY <2>3, <2>4, <2>5, <2>6, <2>7 DEF InTurn, Issuing, InFlight
<1>2. QED
  BY <1>1 DEF IssuedInTurn, InTurn, Issuing, Unused, InFlight

\* A request is let through to issue a code: unless another is at it already, it is the only one.
LEMMA TurnRate ==
  ASSUME BaseInv, IssuedInTurn, UNCHANGED <<code, now>>, NEW r \in Reqs, Others(r),
         NEW b \in Customers, ~Issuing(req[r], b), req'[r].pc = "retire", req'[r].a = b,
         Cardinality(Recent(b)) < MaxPerHour, overlapped \subseteq overlapped',
         (\E q \in Reqs \ {r} : Issuing(req[q], b)) => b \in overlapped'
  PROVE  IssuedInTurn'
<1>1. ASSUME NEW a \in Customers, a \notin overlapped' PROVE InTurn(a)'
  <2>1. InTurn(a)
    BY <1>1, TurnsTaken
  <2>2. Recent(a)' = Recent(a)
    BY DEF Recent
  <2>3. ASSUME NEW q \in Reqs, q # r, Issuing(req'[q], a) PROVE Issuing(req[q], a) /\ a # b
    BY <1>1, <2>3 DEF Others
  <2>4. \A q, s \in Reqs : Issuing(req'[q], a) /\ Issuing(req'[s], a) => q = s
    <3>1. \A q \in Reqs : q # r /\ Issuing(req'[q], a) => ~Issuing(req'[r], a)
      BY <2>3 DEF Issuing
    <3>2. QED
      BY <2>1, <2>3, <3>1 DEF InTurn
  <2>5. \A s \in Reqs : Issuing(req'[s], a) => Cardinality(Recent(a)) < MaxPerHour
    <3>1. Issuing(req'[r], a) => a = b
      BY DEF Issuing
    <3>2. QED
      BY <2>1, <2>3, <3>1 DEF InTurn
  <2>6. \A s \in Reqs : req'[s].pc = "create" /\ req'[s].a = a => InFlight(code[a], req'[s].op) = {}
    BY <2>1 DEF InTurn, Others
  <2>7. QED
    BY <2>1, <2>2, <2>4, <2>5, <2>6 DEF InTurn, Issuing, InFlight
<1>2. QED
  BY <1>1 DEF IssuedInTurn, InTurn, Issuing, Unused, InFlight

\* The request whose turn it is issues its code.
LEMMA TurnIssued ==
  ASSUME BaseInv, IssuedInTurn, UNCHANGED <<now, overlapped>>, NEW r \in Reqs, Others(r),
         NEW b \in Customers, req[r].pc = "create", req[r].a = b, req'[r].pc = "done",
         \A a \in Accounts : a # b => code'[a] = code[a],
         NEW n \in Nat, NEW c \in CodeRow,
         DOMAIN code[b] = 1..n, DOMAIN code'[b] = 1..(n + 1),
         \A k \in 1..n : code'[b][k] = code[b][k],
         code'[b][n + 1] = c, c.purpose = req[r].op
  PROVE  IssuedInTurn'
<1>1. \A q \in Reqs : \A a : Issuing(req'[q], a) => q # r /\ Issuing(req[q], a) /\ req'[q] = req[q]
  BY DEF Others, Issuing
<1>2. ASSUME NEW a \in Customers, a \notin overlapped', a # b PROVE InTurn(a)'
  <2>1. InTurn(a) /\ a \in Accounts
    BY <1>2, TurnsTaken, Types
  <2>2. Recent(a)' = Recent(a) /\ code'[a] = code[a]
    BY <1>2, <2>1 DEF Recent
  <2>3. ASSUME NEW s \in Reqs, req'[s].pc = "create", req'[s].a = a PROVE InFlight(code[a], req'[s].op) = {}
    <3>1. req'[s] = req[s]
      BY <1>1, <2>3 DEF Issuing
    <3>2. QED
      BY <2>1, <2>3, <3>1 DEF InTurn
  <2>4. QED
    BY <1>1, <2>1, <2>2, <2>3 DEF InTurn, Issuing, InFlight
<1>3. ASSUME b \notin overlapped PROVE InTurn(b)'
  <2>1. InTurn(b) /\ b \in Accounts /\ Issuing(req[r], b)
    BY <1>3, TurnsTaken, Types DEF Issuing
  <2>2. \A q \in Reqs : ~Issuing(req'[q], b)
    BY <1>1, <2>1 DEF InTurn
  <2>3. Cardinality(Recent(b)') <= MaxPerHour
    <3>1. IsFiniteSet(Recent(b)) /\ Cardinality(Recent(b)) \in Nat /\ Cardinality(Recent(b)) < MaxPerHour
      BY <2>1, RecentFinite DEF InTurn
    <3>2. \A k \in 1..(n + 1) : k \in 1..n \/ k = n + 1
      OBVIOUS
    <3>3. Recent(b)' \subseteq Recent(b) \cup {n + 1}
      BY <3>2 DEF Recent
    <3>4. PICK old, new : old = Recent(b) /\ new = old \cup {n + 1}
      OBVIOUS
    <3>5. IsFiniteSet(new) /\ (Cardinality(new) = Cardinality(old) \/ Cardinality(new) = Cardinality(old) + 1)
      BY <3>1, <3>4, FS_AddElement
    <3>6. Cardinality(Recent(b)') <= Cardinality(new) /\ Cardinality(Recent(b)') \in Nat
      BY <3>3, <3>4, <3>5, FS_Subset, FS_CardinalityType
    <3>7. QED
      BY <3>1, <3>4, <3>5, <3>6, LoginsAssumption
  <2>4. ASSUME NEW purpose \in Purposes, NEW j \in InFlight(code'[b], purpose), NEW k \in InFlight(code'[b], purpose)
        PROVE  j = k
    <3>1. \A i \in InFlight(code'[b], purpose) :
            i \in InFlight(code[b], purpose) \/ (i = n + 1 /\ purpose = req[r].op)
      <4>1. ASSUME NEW i \in InFlight(code'[b], purpose)
            PROVE  i \in InFlight(code[b], purpose) \/ (i = n + 1 /\ purpose = req[r].op)
        <5>1. i \in 1..(n + 1) /\ code'[b][i].purpose = purpose /\ ~code'[b][i].used
          BY DEF InFlight
        <5>2. CASE i = n + 1
          BY <5>1, <5>2
        <5>3. CASE i \in 1..n
          <6>1. i \in DOMAIN code[b] /\ code[b][i] = code'[b][i]
            BY <5>3
          <6>2. code[b][i].purpose = purpose /\ ~code[b][i].used
            BY <5>1, <6>1
          <6>3. QED
            BY <6>1, <6>2 DEF InFlight
        <5>4. QED
          BY <5>1, <5>2, <5>3
      <4>2. QED
        BY <4>1
    <3>2. InFlight(code[b], req[r].op) = {}
      BY <2>1 DEF InTurn
    <3>3. \A x, y \in InFlight(code[b], purpose) : x = y
      BY <2>1 DEF InTurn
    <3>4. QED
      BY <2>4, <3>1, <3>2, <3>3
  <2>5. \A s \in Reqs : ~(req'[s].pc = "create" /\ req'[s].a = b)
    BY <2>2 DEF Issuing
  <2>6. QED
    BY <2>2, <2>3, <2>4, <2>5 DEF InTurn, Issuing, InFlight
<1>4. QED
  BY <1>2, <1>3 DEF IssuedInTurn, InTurn, Issuing, Unused, InFlight

\* Codes let through no more requests than before.
LEMMA SpentSame ==
  ASSUME BaseInv, SpentAreUsed, CodesStay,
         \A b \in Accounts : \A k \in DOMAIN code[b] : code'[b][k].spent = code[b][k].spent
  PROVE  SpentAreUsed'
BY DEF SpentAreUsed, CodesStay

LEMMA CodesSame ==
  ASSUME BaseInv, CodesInv, UNCHANGED <<code, now, overlapped>>,
         \A q \in Reqs : req'[q].pc \in {"retire", "create"} => req'[q] = req[q]
  PROVE  CodesInv'
<1>1. CodesStay
  BY DEF CodesStay
<1>2. now <= now' /\ now' \in Nat
  BY Types
<1>3. \A q \in Reqs : \A a \in Customers :
        Issuing(req'[q], a) =>
          /\ Issuing(req[q], a) /\ req'[q].op = req[q].op
          /\ req'[q].pc = "create" => req[q].pc = "create" \/ InFlight(code'[a], req'[q].op) = {}
  BY DEF Issuing
<1>4. IssuedInTurn'
  BY <1>1, <1>2, <1>3, TurnKept DEF CodesInv
<1>5. SpentAreUsed'
  BY <1>1, SpentSame DEF CodesInv
<1>6. QED
  BY <1>4, <1>5 DEF CodesInv

----------------------------------------------------------------------------
(* The hands in which a PIN and a lockout change, of one step.              *)

PinHeld ==
  \A a \in Customers :
    account[a].secret # None /\ account'[a].secret # account[a].secret =>
      \E r \in Reqs : req[r] # req'[r] /\ req[r].a = a /\
        \/ At(r, "reset")
        \/ At(r, "write") /\ (req[r].secret = account[a].secret \/ r \in overtaken)

OpenHeld ==
  \A r \in Reqs :
    At(r, "open") /\ req'[r].pc = "done" /\ req[r].a \in Customers /\ r \notin overtaken =>
      account[req[r].a].secret =
        (CASE req[r].op = "signIn" -> req[r].secret
           [] req[r].op = "pin_reset" -> req[r].new
           [] OTHER -> None)

LiftHeld ==
  \A a \in Customers :
    Locked(a) /\ ~account'[a].locked =>
      \E r \in Reqs : req[r] # req'[r] /\ req[r].a = a /\
        \/ At(r, "reset")
        \/ /\ At(r, "decide") /\ unlock[req[r].u].by # req[r].by
           /\ unlock[req[r].u].status = "pending" /\ unlock'[req[r].u].status = "approved"

Held == PinHeld /\ OpenHeld /\ LiftHeld

\* A step in which no customer's PIN changes, no lockout is lifted, and nobody opens a session.
LEMMA HeldQuiet ==
  ASSUME \A a \in Customers : account'[a].secret = account[a].secret
                              /\ (account[a].locked => account'[a].locked),
         \A q \in Reqs : req[q].pc = "open" => req'[q] = req[q]
  PROVE  Held
<1>1. PinHeld
  BY DEF PinHeld
<1>2. OpenHeld
  BY DEF OpenHeld, At
<1>3. LiftHeld
  BY DEF LiftHeld, Locked
<1>4. QED
  BY <1>1, <1>2, <1>3 DEF Held

----------------------------------------------------------------------------
(* Every step preserves the invariant, in the right hands.                  *)

\* A step that moves one handler and leaves the tables as they are.
LEMMA QuietKeeps ==
  ASSUME IdentityInv, BaseInv', NEW r \in Reqs, Others(r),
         UNCHANGED <<account, session, ended, code, now, overlapped, overtaken, raced>>,
         req[r].pc \notin {"settle", "open"}, req'[r].pc \notin {"retire", "create"},
         NEW w, NEW row, req'[r] = w, row = account[w.a],
         w.a \in Customers /\ r \notin overtaken => PinSeen(w, row),
         w.a \in StaffUsers /\ r \notin raced => RoleSeen(w, row)
  PROVE  IdentityInv' /\ Held
<1>1. SpentIsLocked'
  BY SpentKept DEF IdentityInv
<1>2. Overtakes(r)
  BY NobodyOvertaken DEF IdentityInv
<1>3. row = account'[w.a]
  OBVIOUS
<1>4. SeenIsStill'
  BY <1>2, <1>3, SeenKept DEF IdentityInv
<1>5. SessionsInv'
  BY SessionsSame DEF IdentityInv
<1>6. TokensSayRole'
  BY RolesSame DEF IdentityInv
<1>7. CodesInv'
  BY CodesSame DEF IdentityInv, Others
<1>8. Held
  BY HeldQuiet DEF Others
<1>9. QED
  BY <1>1, <1>4, <1>5, <1>6, <1>7, <1>8 DEF IdentityInv

\* The same for a handler that ends.
LEMMA QuietDone ==
  ASSUME IdentityInv, BaseInv', NEW r \in Reqs, Others(r),
         UNCHANGED <<account, session, ended, code, now, overlapped, overtaken, raced>>,
         req[r].pc \notin {"settle", "open"}, req'[r].pc = "done"
  PROVE  IdentityInv' /\ Held
<1>1. PICK w, row : w = req'[r] /\ row = account[w.a]
  OBVIOUS
<1>2. PinSeen(w, row) /\ RoleSeen(w, row)
  BY <1>1, DoneSaw
<1>3. QED
  BY <1>1, <1>2, QuietKeeps

LEMMA OpenKeeps ==
  ASSUME IdentityInv, NEW r \in Reqs, Open(r), UNCHANGED <<logins, raced>>
  PROVE  IdentityInv' /\ Held
<1>1. UNCHANGED <<account, ended, code, unlock, now, overlapped, overtaken, raced>> /\ req[r].pc = "open"
  BY DEF Open, logins, At
<1>2. /\ BaseInv' /\ Others(r) /\ req'[r].pc = "done" /\ req'[r].a = req[r].a /\ req[r].a \in Accounts
      /\ \E n \in SessionIds : \E row \in SessionRow :
           /\ session[n] = Unopened
           /\ row = [owner |-> req[r].a, over |-> FALSE, next |-> None, role |-> req[r].saw.role,
                     root |-> n, by |-> r]
           /\ session'[n] = row /\ row # Unopened
           /\ \A s \in SessionIds : s # n => session'[s] = session[s]
  BY OpenStep DEF IdentityInv
<1>3. PICK n \in SessionIds, row \in SessionRow :
        /\ session[n] = Unopened
        /\ row = [owner |-> req[r].a, over |-> FALSE, next |-> None, role |-> req[r].saw.role,
                  root |-> n, by |-> r]
        /\ session'[n] = row /\ row # Unopened
        /\ \A s \in SessionIds : s # n => session'[s] = session[s]
  BY <1>2
<1>4. row.owner = req[r].a /\ row.role = req[r].saw.role /\ row.root = n /\ row.by = r
  BY <1>3
<1>5. PICK w, a : w = req[r] /\ a = req[r].a
  OBVIOUS
<1>6. PICK known : known = account[a]
  OBVIOUS
<1>7. /\ a \in Customers /\ r \notin overtaken => PinSeen(w, known)
      /\ a \in StaffUsers /\ r \notin raced => RoleSeen(w, known)
  BY <1>1, <1>5, <1>6 DEF IdentityInv, SeenIsStill
<1>8. SpentIsLocked'
  BY <1>1, <1>2, SpentKept DEF IdentityInv
<1>9. SeenIsStill'
  <2>1. Overtakes(r)
    BY <1>1, NobodyOvertaken DEF IdentityInv
  <2>2. QED
    BY <1>2, <2>1, SeenDone DEF IdentityInv
<1>10. SessionsInv'
  BY <1>1, <1>3, <1>4, SessionsOpen DEF IdentityInv
<1>11. TokensSayRole'
  <2>1. a \in StaffUsers /\ r \notin raced => row.role = known.role /\ known.active
    BY <1>1, <1>4, <1>5, <1>7 DEF RoleSeen
  <2>2. session'[n].owner = a /\ (a \in StaffUsers =>
          (session'[n].role = account[a].role /\ account[a].active) \/ session'[n].by \in raced)
    BY <1>3, <1>4, <1>5, <1>6, <2>1
  <2>3. QED
    BY <1>1, <1>3, <2>2, RolesOpen DEF IdentityInv
<1>12. CodesInv'
  BY <1>1, <1>2, CodesSame DEF IdentityInv, Others
<1>13. PinHeld /\ LiftHeld
  BY <1>1 DEF PinHeld, LiftHeld, Locked
<1>14. OpenHeld
  <2>1. a \in Customers /\ r \notin overtaken =>
          known.secret = (CASE w.op = "signIn" -> w.secret
                            [] w.op = "pin_reset" -> w.new
                            [] OTHER -> None)
    BY <1>1, <1>5, <1>7 DEF PinSeen
  <2>2. \A q \in Reqs : q # r => ~(req[q].pc = "open" /\ req'[q].pc = "done")
    BY <1>2 DEF Others
  <2>3. QED
    BY <1>5, <1>6, <2>1, <2>2 DEF OpenHeld, At
<1>15. QED
  BY <1>2, <1>8, <1>9, <1>10, <1>11, <1>12, <1>13, <1>14 DEF IdentityInv, Held

LEMMA RotateKeeps ==
  ASSUME IdentityInv, NEW r \in Reqs, Rotate(r), UNCHANGED <<logins, raced>>
  PROVE  IdentityInv' /\ Held
<1>1. UNCHANGED <<account, ended, code, unlock, now, overlapped, overtaken, raced>> /\ req[r].pc = "rotate"
  BY DEF Rotate, RotateIf, logins, At
<1>2. /\ BaseInv' /\ Others(r) /\ req'[r].pc \in {"done", "committed"} /\ req[r].a \in Accounts
      /\ \/ session' = session
         \/ \E n, s \in SessionIds : \E row \in SessionRow :
              /\ session[n] = Unopened /\ session[s] \in SessionRow /\ s # n
              /\ session[s] # Unopened /\ ~session[s].over /\ session[s].owner = req[r].a
              /\ row = [owner |-> req[r].a, over |-> FALSE, next |-> None,
                        role |-> account[req[r].a].role, root |-> session[s].root, by |-> r]
              /\ session'[n] = row /\ row # Unopened
              /\ session'[s] = [session[s] EXCEPT !.over = TRUE, !.next = n]
              /\ \A t \in SessionIds \ {n, s} : session'[t] = session[t]
  BY RotateStep DEF IdentityInv
<1>3. CASE session' = session
  <2>1. PICK w, row : w = req'[r] /\ row = account[w.a]
    OBVIOUS
  <2>2. PinSeen(w, row) /\ RoleSeen(w, row)
    BY <1>2, <2>1 DEF PinSeen, RoleSeen
  <2>3. QED
    BY <1>1, <1>2, <1>3, <2>1, <2>2, QuietKeeps
<1>4. ASSUME NEW n \in SessionIds, NEW s \in SessionIds, NEW row \in SessionRow,
             session[n] = Unopened, session[s] \in SessionRow, s # n,
             session[s] # Unopened, ~session[s].over, session[s].owner = req[r].a,
             row = [owner |-> req[r].a, over |-> FALSE, next |-> None,
                    role |-> account[req[r].a].role, root |-> session[s].root, by |-> r],
             session'[n] = row, row # Unopened,
             session'[s] = [session[s] EXCEPT !.over = TRUE, !.next = n],
             \A t \in SessionIds \ {n, s} : session'[t] = session[t]
      PROVE  SessionsInv' /\ TokensSayRole'
  <2>1. row.owner = req[r].a /\ row.role = account[req[r].a].role /\ row.root = session[s].root /\ row.by = r
    BY <1>4
  <2>2. PICK old \in SessionRow : old = session[s]
    BY <1>4
  <2>3. PICK after : after = [old EXCEPT !.over = TRUE, !.next = n]
    OBVIOUS
  <2>4. after.owner = old.owner /\ after.root = old.root /\ after.over = TRUE /\ after \in SessionRow
    BY <2>3 DEF SessionRow
  <2>5. session'[s] = after /\ after # Unopened
    BY <1>4, <2>2, <2>3, <2>4, Types DEF SessionRow, Unopened
  <2>6. SessionsInv'
    BY <1>1, <1>4, <2>1, <2>2, <2>4, <2>5, SessionsRotate DEF IdentityInv
  <2>7. PICK w, a : w = req[r] /\ a = req[r].a
    OBVIOUS
  <2>8. PICK known : known = account[a]
    OBVIOUS
  <2>9. a \in StaffUsers /\ r \notin raced => known.active
    <3>1. a \in StaffUsers /\ r \notin raced => RoleSeen(w, known)
      BY <1>1, <2>7, <2>8 DEF IdentityInv, SeenIsStill
    <3>2. QED
      BY <1>1, <2>7, <3>1 DEF RoleSeen
  <2>10. session'[n].owner = a /\ (a \in StaffUsers =>
           (session'[n].role = account[a].role /\ account[a].active) \/ session'[n].by \in raced)
    BY <1>4, <2>1, <2>7, <2>8, <2>9
  <2>11. \A t \in SessionIds \ {n} : session'[t] # Unopened /\ ~session'[t].over => session'[t] = session[t]
    BY <1>4, <2>4, <2>5
  <2>12. TokensSayRole'
    BY <1>1, <2>10, <2>11, RolesOpen DEF IdentityInv
  <2>13. QED
    BY <2>6, <2>12
<1>5. CASE session' # session
  <2>1. SpentIsLocked'
    BY <1>1, <1>2, SpentKept DEF IdentityInv
  <2>2. SeenIsStill'
    <3>1. Overtakes(r)
      BY <1>1, NobodyOvertaken DEF IdentityInv
    <3>2. PICK w, row : w = req'[r] /\ row = account'[w.a]
      OBVIOUS
    <3>3. PinSeen(w, row) /\ RoleSeen(w, row)
      BY <1>2, <3>2 DEF PinSeen, RoleSeen
    <3>4. QED
      BY <1>2, <3>1, <3>2, <3>3, SeenKept DEF IdentityInv
  <2>3. SessionsInv' /\ TokensSayRole'
    BY <1>2, <1>4, <1>5
  <2>4. CodesInv'
    BY <1>1, <1>2, CodesSame DEF IdentityInv, Others
  <2>5. Held
    BY <1>1, <1>2, HeldQuiet DEF Others
  <2>6. QED
    BY <1>2, <2>1, <2>2, <2>3, <2>4, <2>5 DEF IdentityInv
<1>6. QED
  BY <1>3, <1>5

LEMMA RotatedKeeps ==
  ASSUME IdentityInv, NEW r \in Reqs, Rotated(r), UNCHANGED <<logins, raced>>
  PROVE  IdentityInv' /\ Held
<1>1. UNCHANGED <<account, session, ended, code, now, overlapped, overtaken, raced>>
  BY DEF Rotated, logins
<1>2. BaseInv' /\ Others(r) /\ req'[r].pc = "done" /\ req[r].pc = "committed"
  BY RotatedStep DEF IdentityInv
<1>3. QED
  BY <1>1, <1>2, QuietDone

\* All sessions of an account end, and nothing else changes in the tables.
LEMMA EndingKeeps ==
  ASSUME IdentityInv, NEW a \in Accounts, EndAll(a), UNCHANGED <<account, logins, raced>>
  PROVE  SessionsInv' /\ TokensSayRole'
<1>1. SessionsInv'
  BY SessionsEndAll DEF IdentityInv
<1>2. OnlyRow(a)
  BY DEF OnlyRow
<1>3. account'[a].role = account[a].role /\ account'[a].active = account[a].active
  OBVIOUS
<1>4. TokensSayRole'
  BY <1>2, <1>3, RolesEndAll DEF IdentityInv
<1>5. QED
  BY <1>1, <1>4

LEMMA ReplayKeeps ==
  ASSUME IdentityInv, NEW r \in Reqs, Replay(r), UNCHANGED <<logins, raced>>
  PROVE  IdentityInv' /\ Held
<1>1. UNCHANGED <<account, code, unlock, now, overlapped, overtaken, raced>> /\ req[r].pc = "replay"
  BY DEF Replay, logins, At
<1>2. BaseInv' /\ Others(r) /\ req'[r].pc = "done" /\ req[r].a \in Accounts
  BY ReplayStep DEF IdentityInv
<1>3. SpentIsLocked'
  BY <1>1, <1>2, SpentKept DEF IdentityInv
<1>4. SeenIsStill'
  <2>1. Overtakes(r)
    BY <1>1, NobodyOvertaken DEF IdentityInv
  <2>2. QED
    BY <1>2, <2>1, SeenDone DEF IdentityInv
<1>5. SessionsInv' /\ TokensSayRole'
  <2>1. PICK a \in Accounts : a = req[r].a
    BY <1>2
  <2>2. EndAll(a)
    BY <2>1 DEF Replay
  <2>3. QED
    BY <1>1, <2>2, EndingKeeps
<1>6. CodesInv'
  BY <1>1, <1>2, CodesSame DEF IdentityInv, Others
<1>7. Held
  BY <1>1, <1>2, HeldQuiet DEF Others
<1>8. QED
  BY <1>2, <1>3, <1>4, <1>5, <1>6, <1>7 DEF IdentityInv

\* A step that moves no handler and leaves the accounts and the codes as they are.
LEMMA StillKeeps ==
  ASSUME IdentityInv, UNCHANGED <<account, req, code, now, overlapped, overtaken, raced>>
  PROVE  SpentIsLocked' /\ SeenIsStill' /\ CodesInv' /\ Held
<1>1. SpentIsLocked'
  BY SpentStill DEF IdentityInv
<1>2. SeenIsStill'
  <2>1. PICK r : r \notin Reqs
    BY NoSetContainsEverything
  <2>2. Overtakes(r)
    BY NobodyOvertaken DEF IdentityInv
  <2>3. QED
    BY <2>1, <2>2, SeenStill DEF IdentityInv
<1>3. CodesInv'
  BY CodesSame DEF IdentityInv
<1>4. Held
  BY HeldQuiet
<1>5. QED
  BY <1>1, <1>2, <1>3, <1>4

LEMMA SignOutKeeps ==
  ASSUME IdentityInv, NEW s \in SessionIds, SignOut(s), UNCHANGED <<logins, raced>>
  PROVE  IdentityInv' /\ Held
<1>1. UNCHANGED <<account, req, code, unlock, now, overlapped, overtaken, raced>>
  BY DEF SignOut, logins
<1>2. /\ BaseInv' /\ session[s] \in SessionRow
      /\ session'[s] = [session[s] EXCEPT !.over = TRUE]
      /\ \A t \in SessionIds : t # s => session'[t] = session[t]
  BY SignOutStep DEF IdentityInv
<1>3. SpentIsLocked' /\ SeenIsStill' /\ CodesInv' /\ Held
  BY <1>1, StillKeeps
<1>4. SessionsInv'
  BY SessionsSignOut DEF IdentityInv
<1>5. TokensSayRole'
  <2>1. PICK old, after : old \in SessionRow /\ old = session[s] /\ after = [old EXCEPT !.over = TRUE]
    BY <1>2
  <2>2. after.over = TRUE /\ session'[s] = after
    BY <1>2, <2>1, OverRow
  <2>3. \A t \in SessionIds : session'[t] # Unopened /\ ~session'[t].over => session'[t] = session[t]
    BY <1>2, <2>2
  <2>4. QED
    BY <1>1, <2>3, RolesSame DEF IdentityInv
<1>6. QED
  BY <1>2, <1>3, <1>4, <1>5 DEF IdentityInv

LEMMA RefreshReadKeeps ==
  ASSUME IdentityInv, NEW r \in Reqs, NEW s \in SessionIds, RefreshRead(r, s),
         UNCHANGED <<logins, raced>>
  PROVE  IdentityInv' /\ Held
<1>1. /\ UNCHANGED <<account, session, ended, code, unlock, now, overlapped, overtaken, raced>>
      /\ req[r].pc = "waiting"
  BY DEF RefreshRead, Begin, logins, At
<1>2. /\ BaseInv' /\ Others(r) /\ req'[r].pc \in {"replay", "rotate"} /\ req'[r].a \in Accounts
      /\ req'[r].pc = "rotate" => account[req'[r].a].active
  BY RefreshReadStep DEF IdentityInv
<1>3. PICK w, row : w = req'[r] /\ row = account[w.a]
  OBVIOUS
<1>4. PinSeen(w, row) /\ RoleSeen(w, row)
  BY <1>2, <1>3 DEF PinSeen, RoleSeen
<1>5. QED
  BY <1>1, <1>2, <1>3, <1>4, QuietKeeps

\* A step that changes a row of the accounts, but nothing handlers see of it.
LEMMA RowKeeps ==
  ASSUME IdentityInv, NEW a \in Accounts, OnlyRow(a), SameSeen(a)
  PROVE  /\ \A b \in Accounts : /\ account'[b].secret = account[b].secret
                                /\ account'[b].role = account[b].role
                                /\ account'[b].active = account[b].active
         /\ UNCHANGED <<overtaken, raced>> => \A r : Overtakes(r)
         /\ UNCHANGED <<session, ended>> /\ raced \subseteq raced' => SessionsInv' /\ TokensSayRole'
<1>1. \A b \in Accounts : /\ account'[b].secret = account[b].secret
                          /\ account'[b].role = account[b].role
                          /\ account'[b].active = account[b].active
  BY DEF OnlyRow, SameSeen
<1>2. ASSUME UNCHANGED <<overtaken, raced>>, NEW r PROVE Overtakes(r)
  BY <1>1, <1>2, NobodyOvertaken DEF IdentityInv
<1>3. ASSUME UNCHANGED <<session, ended>>, raced \subseteq raced' PROVE SessionsInv' /\ TokensSayRole'
  <2>1. SessionsInv'
    BY <1>3, SessionsSame DEF IdentityInv
  <2>2. TokensSayRole'
    BY <1>1, <1>3, RolesSame, Types DEF IdentityInv
  <2>3. QED
    BY <2>1, <2>2
<1>4. QED
  BY <1>1, <1>2, <1>3

LEMMA ReserveKeeps ==
  ASSUME IdentityInv, NEW r \in Reqs, Reserve(r), UNCHANGED <<logins, raced>>
  PROVE  IdentityInv' /\ Held
<1>1. UNCHANGED <<session, ended, code, unlock, now, overlapped, overtaken, raced>>
  BY DEF Reserve, ReserveIf, logins
<1>2. /\ BaseInv' /\ Others(r) /\ OnlyRow(req[r].a) /\ SameSeen(req[r].a)
      /\ req[r].pc = "reserve" /\ req[r].a \in Accounts /\ req'[r].a = req[r].a
      /\ account'[req[r].a].locked = account[req[r].a].locked
      /\ \/ account' = account /\ req'[r].pc = "done"
         \/ /\ account'[req[r].a].attempts = account[req[r].a].attempts + 1
            /\ req'[r].pc = "settle" /\ req'[r].n = account'[req[r].a].attempts
            /\ req'[r].saw = req[r].saw
  BY ReserveStep DEF IdentityInv
<1>3. PICK a \in Accounts : a = req[r].a
  BY <1>2
<1>4. OnlyRow(a) /\ SameSeen(a)
  BY <1>2, <1>3
<1>5. CASE account' = account /\ req'[r].pc = "done"
  BY <1>1, <1>2, <1>5, QuietDone
<1>6. CASE req'[r].pc = "settle" /\ req'[r].n = account'[a].attempts /\ req'[r].saw = req[r].saw
  <2>1. SpentIsLocked'
    BY <1>2, <1>3, <1>4, <1>6, SpentReserved DEF IdentityInv
  <2>2. SeenIsStill'
    <3>1. Overtakes(r)
      BY <1>1, <1>4, RowKeeps
    <3>2. PICK v, w : v = req[r] /\ w = req'[r]
      OBVIOUS
    <3>3. PICK row, after : row = account[a] /\ after = account'[w.a]
      OBVIOUS
    <3>4. w.a = a /\ v.a = a /\ w.saw = v.saw /\ w.pc = "settle" /\ v.pc = "reserve"
      BY <1>2, <1>3, <1>6, <3>2
    <3>5. after.secret = row.secret /\ after.role = row.role /\ after.active = row.active
      BY <1>4, <3>3, <3>4 DEF SameSeen
    <3>6. /\ a \in Customers /\ r \notin overtaken => PinSeen(v, row)
          /\ a \in StaffUsers /\ r \notin raced => RoleSeen(v, row)
      BY <1>2, <1>3, <3>2, <3>3 DEF IdentityInv, SeenIsStill
    <3>7. /\ a \in Customers /\ r \notin overtaken' => PinSeen(w, after)
          /\ a \in StaffUsers /\ r \notin raced' => RoleSeen(w, after)
      BY <1>1, <3>4, <3>5, <3>6 DEF PinSeen, RoleSeen
    <3>8. QED
      BY <1>2, <3>1, <3>2, <3>3, <3>4, <3>7, SeenKept DEF IdentityInv
  <2>3. SessionsInv' /\ TokensSayRole'
    BY <1>1, <1>4, RowKeeps
  <2>4. CodesInv'
    BY <1>1, <1>2, <1>6, CodesSame DEF IdentityInv, Others
  <2>5. Held
    <3>1. \A b \in Customers : account'[b].secret = account[b].secret
                               /\ (account[b].locked => account'[b].locked)
      BY <1>2, <1>3, <1>4, Types DEF OnlyRow, SameSeen, IdentityInv
    <3>2. QED
      BY <1>2, <3>1, HeldQuiet DEF Others
  <2>6. QED
    BY <1>2, <2>1, <2>2, <2>3, <2>4, <2>5 DEF IdentityInv
<1>7. QED
  BY <1>2, <1>3, <1>5, <1>6

\* A step that moves a handler which is not issuing a code and ends none, and changes rows of
\* accounts only where handlers see nothing of it.
LEMMA CountingKeeps ==
  ASSUME IdentityInv, BaseInv', NEW r \in Reqs, Others(r), NEW a \in Accounts, OnlyRow(a), SameSeen(a),
         UNCHANGED <<code, now, overlapped, overtaken, raced>>,
         req[r].pc # "open", req'[r].pc \notin {"retire", "create"},
         SpentIsLocked', SessionsInv', TokensSayRole',
         account[a].locked => account'[a].locked \/ a \notin Customers,
         NEW w, NEW row, req'[r] = w, row = account'[w.a],
         w.a \in Customers /\ r \notin overtaken => PinSeen(w, row),
         w.a \in StaffUsers /\ r \notin raced => RoleSeen(w, row)
  PROVE  IdentityInv' /\ Held
<1>1. Overtakes(r)
  BY RowKeeps
<1>2. SeenIsStill'
  BY <1>1, SeenKept DEF IdentityInv
<1>3. CodesInv'
  BY CodesSame DEF IdentityInv, Others
<1>4. \A b \in Customers : account'[b].secret = account[b].secret
                           /\ (account[b].locked => account'[b].locked)
  BY Types DEF OnlyRow, SameSeen, IdentityInv
<1>5. Held
  BY <1>4, HeldQuiet DEF Others
<1>6. QED
  BY <1>2, <1>3, <1>5 DEF IdentityInv

LEMMA PresentPinKeeps ==
  ASSUME IdentityInv, NEW r \in Reqs, NEW a \in Customers, NEW p \in Secrets, NEW q \in Secrets,
         NEW op \in {"signIn", "stepUp", "change"}, PresentPin(r, op, a, p, q), UNCHANGED raced
  PROVE  IdentityInv' /\ Held
<1>1. /\ UNCHANGED <<account, session, ended, code, unlock, now, overlapped, overtaken, raced>>
      /\ req[r].pc = "waiting"
  BY DEF PresentPin, Begin, logins, At
<1>2. BaseInv' /\ Others(r) /\ req'[r].pc = "reserve" /\ req'[r].a = a /\ req'[r].saw = Seen(a)
  BY PresentPinStep DEF IdentityInv
<1>3. PICK w, row : w = req'[r] /\ row = account[w.a]
  OBVIOUS
<1>4. w.a = a /\ w.pc = "reserve" /\ w.saw.secret = row.secret
  BY <1>2, <1>3 DEF Seen
<1>5. PinSeen(w, row) /\ a \notin StaffUsers
  BY <1>4, Types DEF PinSeen, IdentityInv
<1>6. QED
  BY <1>1, <1>2, <1>3, <1>4, <1>5, QuietKeeps

LEMMA PinRightKeeps ==
  ASSUME IdentityInv, NEW r \in Reqs, PinRight(r), UNCHANGED raced
  PROVE  IdentityInv' /\ Held
<1>1. UNCHANGED <<session, ended, code, unlock, now, overlapped, overtaken, raced>>
  BY DEF PinRight, logins
<1>2. /\ BaseInv' /\ Others(r) /\ OnlyRow(req[r].a) /\ SameSeen(req[r].a)
      /\ req[r].pc = "settle" /\ req[r].a \in Customers /\ req'[r].a = req[r].a
      /\ account'[req[r].a].locked = account[req[r].a].locked
      /\ account'[req[r].a].attempts = 0
      /\ req[r].secret = req[r].saw.secret
      /\ \/ req'[r].pc = "done"
         \/ req'[r].pc = "write" /\ req'[r].secret = req[r].secret
         \/ req'[r].pc = "open" /\ req'[r].op = "signIn" /\ req'[r].secret = req[r].secret
  BY PinRightStep DEF IdentityInv
<1>3. PICK a \in Accounts : a = req[r].a /\ a \in Customers /\ a \notin StaffUsers
  BY <1>2, Types DEF IdentityInv
<1>4. OnlyRow(a) /\ SameSeen(a)
  BY <1>2, <1>3
<1>5. SpentIsLocked'
  <2>1. \A b \in Accounts : \/ account'[b].attempts = account[b].attempts
                               /\ (account[b].locked => account'[b].locked)
                            \/ account'[b].attempts = 0 \/ account'[b].locked
    BY <1>2, <1>3, <1>4 DEF OnlyRow
  <2>2. QED
    BY <1>2, <2>1, SpentKept DEF IdentityInv
<1>6. SessionsInv' /\ TokensSayRole'
  BY <1>1, <1>4, RowKeeps
<1>7. PICK v, w : v = req[r] /\ w = req'[r]
  OBVIOUS
<1>8. PICK row, after : row = account[a] /\ after = account'[w.a]
  OBVIOUS
<1>9. w.a = a /\ v.a = a /\ after.secret = row.secret
  BY <1>2, <1>3, <1>4, <1>7, <1>8 DEF SameSeen
<1>10. r \notin overtaken => PinSeen(v, row)
  BY <1>2, <1>3, <1>7, <1>8 DEF IdentityInv, SeenIsStill
<1>11. r \notin overtaken => PinSeen(w, after)
  BY <1>2, <1>7, <1>9, <1>10 DEF PinSeen
<1>12. QED
  BY <1>1, <1>2, <1>3, <1>4, <1>5, <1>6, <1>7, <1>8, <1>9, <1>11, CountingKeeps

LEMMA PinWrongKeeps ==
  ASSUME IdentityInv, NEW r \in Reqs, PinWrong(r), UNCHANGED raced
  PROVE  IdentityInv' /\ Held
<1>1. UNCHANGED <<code, unlock, now, overlapped, overtaken, raced>>
  BY DEF PinWrong, PinWrongLocking
<1>2. /\ BaseInv' /\ Others(r) /\ OnlyRow(req[r].a) /\ SameSeen(req[r].a)
      /\ req[r].pc = "settle" /\ req[r].a \in Customers /\ req'[r].a = req[r].a
      /\ req'[r].pc = "done"
      /\ account'[req[r].a].attempts = account[req[r].a].attempts
      /\ account[req[r].a].locked => account'[req[r].a].locked
      /\ req[r].n >= MaxAttempts => account'[req[r].a].locked
      /\ EndAll(req[r].a) \/ UNCHANGED <<session, ended>>
  BY PinWrongStep DEF IdentityInv
<1>3. PICK a \in Accounts : a = req[r].a /\ a \in Customers /\ a \notin StaffUsers
  BY <1>2, Types DEF IdentityInv
<1>4. OnlyRow(a) /\ SameSeen(a) /\ (EndAll(a) \/ UNCHANGED <<session, ended>>)
  BY <1>2, <1>3
<1>5. SpentIsLocked'
  <2>1. \A b \in Accounts : \/ account'[b].attempts = account[b].attempts
                               /\ (account[b].locked => account'[b].locked)
                            \/ account'[b].attempts = 0 \/ account'[b].locked
    BY <1>2, <1>3, <1>4 DEF OnlyRow
  <2>2. req[r].n = MaxAttempts => account'[req[r].a].locked
    BY <1>2, Types DEF IdentityInv
  <2>3. QED
    BY <1>2, <2>1, <2>2, SpentKept DEF IdentityInv
<1>6. SessionsInv' /\ TokensSayRole'
  <2>1. CASE EndAll(a)
    BY <1>1, <1>3, <1>4, <2>1, SessionsEndAll, RolesEndAll DEF IdentityInv
  <2>2. CASE UNCHANGED <<session, ended>>
    BY <1>1, <1>4, <2>2, RowKeeps
  <2>3. QED
    BY <1>4, <2>1, <2>2
<1>7. PICK w, after : w = req'[r] /\ after = account'[w.a]
  OBVIOUS
<1>8. w.a = a /\ PinSeen(w, after) /\ RoleSeen(w, after)
  BY <1>2, <1>3, <1>7, DoneSaw
<1>9. QED
  BY <1>1, <1>2, <1>3, <1>4, <1>5, <1>6, <1>7, <1>8, CountingKeeps

\* Whoever else looked at a row whose PIN is replaced is overtaken.
LEMMA ReplacedOvertakes ==
  ASSUME BaseInv, NEW r, NEW a \in Customers, OnlyRow(a), raced' = raced,
         \A q \in Reqs : q # r => (q \in overtaken' <=> q \in overtaken \/ q \in Looking(a))
  PROVE  Overtakes(r)
<1>1. \A q \in Looking(a) : q \in Reqs
  BY DEF Looking
<1>2. \A b \in Accounts : b # a => account'[b] = account[b]
  BY DEF OnlyRow
<1>3. QED
  BY <1>1, <1>2, Types DEF Overtakes

\* A customer's row changes: the sessions of staff users still say their role.
LEMMA CustomersRow ==
  ASSUME IdentityInv, NEW a \in Customers, OnlyRow(a), UNCHANGED <<session, ended, raced>>
  PROVE  SessionsInv' /\ TokensSayRole'
<1>1. SessionsInv'
  BY SessionsSame DEF IdentityInv
<1>2. \A b \in StaffUsers : account'[b] = account[b]
  BY Types DEF OnlyRow, IdentityInv
<1>3. TokensSayRole'
  BY <1>2, RolesSame DEF IdentityInv
<1>4. QED
  BY <1>1, <1>3

\* Rows whose attempts start again are not spent.
LEMMA SpentCleared ==
  ASSUME IdentityInv, NEW r \in Reqs, Others(r), NEW a \in Accounts, OnlyRow(a),
         account'[a].attempts = 0, req[r].pc # "settle" \/ req[r].a = a
  PROVE  SpentIsLocked'
<1>1. \A b \in Accounts : \/ account'[b].attempts = account[b].attempts
                             /\ (account[b].locked => account'[b].locked)
                          \/ account'[b].attempts = 0 \/ account'[b].locked
  BY DEF OnlyRow
<1>2. QED
  BY <1>1, SpentKept DEF IdentityInv

LEMMA ChangePinKeeps ==
  ASSUME IdentityInv, NEW r \in Reqs, ChangePin(r), UNCHANGED raced
  PROVE  IdentityInv' /\ Held
<1>1. UNCHANGED <<session, ended, code, unlock, now, overlapped, raced>>
  BY DEF ChangePin
<1>2. /\ BaseInv' /\ Others(r) /\ OnlyRow(req[r].a)
      /\ req[r].pc = "write" /\ req[r].a \in Customers
      /\ req'[r].pc = "done" /\ req'[r].a = req[r].a
      /\ account'[req[r].a].attempts = 0 /\ account'[req[r].a].locked = account[req[r].a].locked
      /\ \A q \in Reqs : q \in overtaken' <=> (q \in overtaken \/ q \in Looking(req[r].a)) /\ q # r
  BY ChangePinStep DEF IdentityInv
<1>3. PICK a \in Accounts : a = req[r].a /\ a \in Customers
  BY <1>2, Types DEF IdentityInv
<1>4. OnlyRow(a) /\ account'[a].attempts = 0
      /\ \A q \in Reqs : q # r => (q \in overtaken' <=> q \in overtaken \/ q \in Looking(a))
  BY <1>2, <1>3
<1>5. SpentIsLocked'
  BY <1>2, <1>4, SpentCleared
<1>6. SeenIsStill'
  <2>1. Overtakes(r)
    BY <1>1, <1>3, <1>4, ReplacedOvertakes DEF IdentityInv
  <2>2. QED
    BY <1>2, <2>1, SeenDone DEF IdentityInv
<1>7. SessionsInv' /\ TokensSayRole'
  BY <1>1, <1>3, <1>4, CustomersRow
<1>8. CodesInv'
  BY <1>1, <1>2, CodesSame DEF IdentityInv, Others
<1>9. PinHeld
  <2>1. PICK w, row : w = req[r] /\ row = account[a]
    OBVIOUS
  <2>2. r \notin overtaken => PinSeen(w, row)
    BY <1>2, <1>3, <2>1 DEF IdentityInv, SeenIsStill
  <2>3. req[r].secret = account[a].secret \/ r \in overtaken
    BY <1>2, <2>1, <2>2 DEF PinSeen
  <2>4. req[r] # req'[r] /\ req[r].a = a /\ At(r, "write")
    BY <1>2, <1>3 DEF At
  <2>5. \A b \in Customers : b # a => account'[b] = account[b]
    BY <1>4, Types DEF OnlyRow, IdentityInv
  <2>6. QED
    BY <2>3, <2>4, <2>5 DEF PinHeld
<1>10. OpenHeld
  BY <1>2 DEF OpenHeld, At, Others
<1>11. LiftHeld
  BY <1>2, <1>3, <1>4, Types DEF LiftHeld, Locked, OnlyRow, IdentityInv
<1>12. QED
  BY <1>2, <1>5, <1>6, <1>7, <1>8, <1>9, <1>10, <1>11 DEF IdentityInv, Held

LEMMA ResetPinKeeps ==
  ASSUME IdentityInv, NEW r \in Reqs, ResetPin(r), UNCHANGED raced
  PROVE  IdentityInv' /\ Held
<1>1. UNCHANGED <<code, unlock, now, overlapped, raced>>
  BY DEF ResetPin
<1>2. /\ BaseInv' /\ Others(r) /\ OnlyRow(req[r].a) /\ EndAll(req[r].a)
      /\ req[r].pc = "reset" /\ req[r].a \in Customers
      /\ req'[r].pc = "open" /\ req'[r].a = req[r].a /\ req'[r].op = "pin_reset"
      /\ account'[req[r].a].attempts = 0 /\ ~account'[req[r].a].locked
      /\ account'[req[r].a].secret = req'[r].new
      /\ \A q \in Reqs : q \in overtaken' <=> (q \in overtaken \/ q \in Looking(req[r].a)) /\ q # r
  BY ResetPinStep DEF IdentityInv
<1>3. PICK a \in Accounts : a = req[r].a /\ a \in Customers /\ a \notin StaffUsers
  BY <1>2, Types DEF IdentityInv
<1>4. OnlyRow(a) /\ EndAll(a) /\ account'[a].attempts = 0
      /\ \A q \in Reqs : q # r => (q \in overtaken' <=> q \in overtaken \/ q \in Looking(a))
  BY <1>2, <1>3
<1>5. SpentIsLocked'
  BY <1>2, <1>4, SpentCleared
<1>6. SeenIsStill'
  <2>1. Overtakes(r)
    BY <1>1, <1>3, <1>4, ReplacedOvertakes DEF IdentityInv
  <2>2. PICK w, row : w = req'[r] /\ row = account'[w.a]
    OBVIOUS
  <2>3. w.a = a /\ w.pc = "open" /\ w.op = "pin_reset" /\ row.secret = w.new
    BY <1>2, <1>3, <2>2
  <2>4. PinSeen(w, row)
    BY <2>3 DEF PinSeen
  <2>5. QED
    BY <1>2, <1>3, <2>1, <2>2, <2>3, <2>4, SeenKept DEF IdentityInv
<1>7. SessionsInv' /\ TokensSayRole'
  BY <1>1, <1>3, <1>4, SessionsEndAll, RolesEndAll DEF IdentityInv
<1>8. CodesInv'
  BY <1>1, <1>2, CodesSame DEF IdentityInv, Others
<1>9. req[r] # req'[r] /\ req[r].a = a /\ At(r, "reset")
  BY <1>2, <1>3 DEF At
<1>10. \A b \in Customers : b # a => account'[b] = account[b]
  BY <1>4, Types DEF OnlyRow, IdentityInv
<1>11. PinHeld /\ LiftHeld
  BY <1>9, <1>10 DEF PinHeld, LiftHeld, Locked
<1>12. OpenHeld
  BY <1>2 DEF OpenHeld, At, Others
<1>13. QED
  BY <1>2, <1>5, <1>6, <1>7, <1>8, <1>11, <1>12 DEF IdentityInv, Held

LEMMA SetPinKeeps ==
  ASSUME IdentityInv, NEW a \in Customers, NEW p \in Secrets, SetPin(a, p), UNCHANGED raced
  PROVE  IdentityInv' /\ Held
<1>1. UNCHANGED <<session, req, ended, code, unlock, now, overlapped, raced>>
  BY DEF SetPin, SetPinWhen
<1>2. /\ BaseInv' /\ OnlyRow(a) /\ account[a].secret = None
      /\ account'[a].attempts = 0 /\ account'[a].locked = account[a].locked
      /\ \A q \in Reqs : q \in overtaken' <=> q \in overtaken \/ q \in Looking(a)
  BY SetPinStep DEF IdentityInv
<1>3. SpentIsLocked'
  BY <1>1, <1>2, SpentStill DEF IdentityInv, OnlyRow
<1>4. SeenIsStill'
  <2>1. PICK r : r \notin Reqs
    BY NoSetContainsEverything
  <2>2. Overtakes(r)
    BY <1>1, <1>2, ReplacedOvertakes DEF IdentityInv
  <2>3. QED
    BY <1>1, <2>1, <2>2, SeenStill DEF IdentityInv
<1>5. SessionsInv' /\ TokensSayRole'
  BY <1>1, <1>2, CustomersRow
<1>6. CodesInv'
  BY <1>1, CodesSame DEF IdentityInv
<1>7. \A b \in Customers : b # a => account'[b] = account[b]
  BY <1>2, Types DEF OnlyRow, IdentityInv
<1>8. Held
  BY <1>1, <1>2, <1>7 DEF Held, PinHeld, OpenHeld, LiftHeld, Locked, At
<1>9. QED
  BY <1>2, <1>3, <1>4, <1>5, <1>6, <1>8 DEF IdentityInv

\* A step of a customer's handler that changes the codes, but nothing of accounts or sessions.
LEMMA CodeKeeps ==
  ASSUME IdentityInv, BaseInv', NEW r \in Reqs, Others(r),
         UNCHANGED <<account, session, ended, overtaken, raced>>, CodesInv',
         req[r].pc \notin {"settle", "open"},
         NEW w, NEW row, req'[r] = w, row = account[w.a], w.a \in Customers,
         r \notin overtaken => PinSeen(w, row)
  PROVE  IdentityInv' /\ Held
<1>1. SpentIsLocked'
  BY SpentKept DEF IdentityInv
<1>2. Overtakes(r)
  BY NobodyOvertaken DEF IdentityInv
<1>3. row = account'[w.a] /\ w.a \notin StaffUsers
  BY Types DEF IdentityInv
<1>4. SeenIsStill'
  BY <1>2, <1>3, SeenKept DEF IdentityInv
<1>5. SessionsInv'
  BY SessionsSame DEF IdentityInv
<1>6. TokensSayRole'
  BY RolesSame DEF IdentityInv
<1>7. Held
  BY HeldQuiet DEF Others
<1>8. QED
  BY <1>1, <1>4, <1>5, <1>6, <1>7 DEF IdentityInv

\* Nobody on the way to a code, or from one, goes by a PIN they saw.
LEMMA CodeSees ==
  ASSUME NEW w, NEW row,
         w.pc \in {"rate", "retire", "create", "count", "consume", "reset", "register", "look", "ask", "decide",
                   "done"}
  PROVE  PinSeen(w, row) /\ RoleSeen(w, row)
BY DEF PinSeen, RoleSeen

LEMMA TickKeeps ==
  ASSUME IdentityInv, Tick, UNCHANGED raced
  PROVE  IdentityInv' /\ Held
<1>1. UNCHANGED <<account, session, ended, req, code, unlock, overlapped, overtaken, raced>>
  BY DEF Tick, core
<1>2. BaseInv' /\ now' = now + 1
  BY TickStep DEF IdentityInv
<1>3. now \in Nat
  BY Types DEF IdentityInv
<1>4. SpentIsLocked'
  BY <1>1, SpentStill DEF IdentityInv
<1>5. SeenIsStill'
  <2>1. PICK r : r \notin Reqs
    BY NoSetContainsEverything
  <2>2. Overtakes(r)
    BY <1>1, NobodyOvertaken DEF IdentityInv
  <2>3. QED
    BY <1>1, <2>1, <2>2, SeenStill DEF IdentityInv
<1>6. SessionsInv' /\ TokensSayRole'
  BY <1>1, SessionsSame, RolesSame DEF IdentityInv
<1>7. CodesInv'
  <2>1. CodesStay
    BY <1>1 DEF CodesStay
  <2>2. IssuedInTurn'
    <3>1. now <= now' /\ now' \in Nat
      BY <1>2, <1>3
    <3>2. QED
      BY <1>1, <2>1, <3>1, TurnKept DEF IdentityInv, CodesInv
  <2>3. SpentAreUsed'
    BY <1>1, <2>1, SpentSame DEF IdentityInv, CodesInv
  <2>4. QED
    BY <2>2, <2>3 DEF CodesInv
<1>8. Held
  BY <1>1, HeldQuiet
<1>9. QED
  BY <1>2, <1>4, <1>5, <1>6, <1>7, <1>8 DEF IdentityInv

LEMMA AskCodeKeeps ==
  ASSUME IdentityInv, NEW r \in Reqs, NEW a \in Customers, NEW purpose \in Purposes,
         AskCode(r, a, purpose), UNCHANGED raced
  PROVE  IdentityInv' /\ Held
<1>1. /\ UNCHANGED <<account, session, ended, code, unlock, now, overlapped, overtaken, raced>>
      /\ req[r].pc = "waiting"
  BY DEF AskCode, Begin, logins, At
<1>2. BaseInv' /\ Others(r) /\ req'[r].pc = "rate"
  BY AskCodeStep DEF IdentityInv
<1>3. PICK w, row : w = req'[r] /\ row = account[w.a]
  OBVIOUS
<1>4. PinSeen(w, row) /\ RoleSeen(w, row)
  BY <1>2, <1>3, CodeSees
<1>5. QED
  BY <1>1, <1>2, <1>3, <1>4, QuietKeeps

LEMMA CheckRateKeeps ==
  ASSUME IdentityInv, NEW r \in Reqs, CheckRate(r), UNCHANGED raced
  PROVE  IdentityInv' /\ Held
<1>1. UNCHANGED <<account, session, ended, code, unlock, now, overtaken, raced>>
  BY DEF CheckRate
<1>2. /\ BaseInv' /\ Others(r) /\ req[r].pc = "rate" /\ req[r].a \in Customers
      /\ req'[r].a = req[r].a
      /\ \/ req'[r].pc = "done" /\ overlapped' = overlapped
         \/ /\ req'[r].pc = "retire" /\ Cardinality(Recent(req[r].a)) < MaxPerHour
            /\ overlapped' = IF \E q \in Reqs \ {r} : req[q].pc \in {"retire", "create"}
                                                      /\ req[q].a = req[r].a
                             THEN overlapped \cup {req[r].a} ELSE overlapped
  BY CheckRateStep DEF IdentityInv
<1>3. PICK w, row : w = req'[r] /\ row = account[w.a]
  OBVIOUS
<1>4. PinSeen(w, row) /\ RoleSeen(w, row) /\ w.a \in Customers
  BY <1>2, <1>3, CodeSees
<1>5. CASE req'[r].pc = "done" /\ overlapped' = overlapped
  BY <1>1, <1>2, <1>5, QuietDone
<1>6. CASE /\ req'[r].pc = "retire" /\ Cardinality(Recent(req[r].a)) < MaxPerHour
           /\ overlapped' = IF \E q \in Reqs \ {r} : req[q].pc \in {"retire", "create"}
                                                     /\ req[q].a = req[r].a
                            THEN overlapped \cup {req[r].a} ELSE overlapped
  <2>1. PICK b \in Customers : b = req[r].a
    BY <1>2
  <2>2. Cardinality(Recent(b)) < MaxPerHour /\ req'[r].a = b
    BY <1>2, <1>6, <2>1
  <2>3. overlapped' = IF \E q \in Reqs \ {r} : Issuing(req[q], b) THEN overlapped \cup {b} ELSE overlapped
    BY <1>6, <2>1 DEF Issuing
  <2>4. overlapped \subseteq overlapped' /\ ((\E q \in Reqs \ {r} : Issuing(req[q], b)) => b \in overlapped')
    BY <2>3
  <2>5. ~Issuing(req[r], b)
    BY <1>2 DEF Issuing
  <2>6. IssuedInTurn'
    BY <1>1, <1>2, <1>6, <2>2, <2>4, <2>5, TurnRate DEF IdentityInv, CodesInv
  <2>7. SpentAreUsed'
    <3>1. CodesStay
      BY <1>1 DEF CodesStay
    <3>2. QED
      BY <1>1, <3>1, SpentSame DEF IdentityInv, CodesInv
  <2>8. CodesInv'
    BY <2>6, <2>7 DEF CodesInv
  <2>9. QED
    BY <1>1, <1>2, <1>3, <1>4, <2>8, CodeKeeps
<1>7. QED
  BY <1>2, <1>5, <1>6

LEMMA RetireCodesKeeps ==
  ASSUME IdentityInv, NEW r \in Reqs, RetireCodes(r), UNCHANGED raced
  PROVE  IdentityInv' /\ Held
<1>1. UNCHANGED <<account, session, ended, unlock, now, overlapped, overtaken, raced>>
  BY DEF RetireCodes
<1>2. /\ BaseInv' /\ Others(r) /\ req[r].pc = "retire" /\ req[r].a \in Customers
      /\ req'[r].pc = "create" /\ req'[r].a = req[r].a /\ req'[r].op = req[r].op
      /\ CodesStay
      /\ \A b \in Accounts : \A k \in DOMAIN code[b] : code'[b][k].spent = code[b][k].spent
      /\ \A k \in DOMAIN code[req[r].a] :
           code[req[r].a][k].purpose = req[r].op => code'[req[r].a][k].used
  BY RetireCodesStep DEF IdentityInv
<1>3. PICK w, row : w = req'[r] /\ row = account[w.a]
  OBVIOUS
<1>4. PinSeen(w, row) /\ w.a \in Customers
  BY <1>2, <1>3, CodeSees
<1>5. PICK b, op : b \in Customers /\ b = req[r].a /\ op = req[r].op
  BY <1>2
<1>6. InFlight(code'[b], op) = {}
  <2>1. b \in Accounts
    BY <1>5, Types DEF IdentityInv
  <2>2. ASSUME NEW k \in InFlight(code'[b], op) PROVE FALSE
    <3>1. k \in DOMAIN code'[b] /\ code'[b][k].purpose = op /\ ~code'[b][k].used
      BY <2>2 DEF InFlight
    <3>2. k \in DOMAIN code[b] /\ code[b][k].purpose = op
      BY <2>1, <3>1, <1>2 DEF CodesStay
    <3>3. QED
      BY <1>2, <1>5, <3>1, <3>2
  <2>3. QED
    BY <2>2
<1>7. ASSUME NEW q \in Reqs, NEW a \in Customers, Issuing(req'[q], a)
      PROVE  /\ Issuing(req[q], a) /\ req'[q].op = req[q].op
             /\ req'[q].pc = "create" => req[q].pc = "create" \/ InFlight(code'[a], req'[q].op) = {}
  <2>1. CASE q = r
    <3>1. a = b /\ req'[q].op = op
      BY <1>2, <1>5, <1>7, <2>1 DEF Issuing
    <3>2. Issuing(req[q], a)
      BY <1>2, <1>5, <2>1, <3>1 DEF Issuing
    <3>3. QED
      BY <1>2, <1>6, <2>1, <3>1, <3>2
  <2>2. CASE q # r
    <3>1. req'[q] = req[q]
      BY <1>2, <2>2 DEF Others
    <3>2. QED
      BY <1>7, <3>1
  <2>3. QED
    BY <2>1, <2>2
<1>8. now <= now' /\ now' \in Nat
  BY <1>1, Types DEF IdentityInv
<1>9. IssuedInTurn'
  BY <1>1, <1>2, <1>7, <1>8, TurnKept DEF IdentityInv, CodesInv
<1>10. SpentAreUsed'
  BY <1>2, SpentSame DEF IdentityInv, CodesInv
<1>11. QED
  BY <1>1, <1>2, <1>3, <1>4, <1>9, <1>10, CodeKeeps DEF CodesInv

LEMMA CreateCodeKeeps ==
  ASSUME IdentityInv, NEW r \in Reqs, CreateCode(r), UNCHANGED raced
  PROVE  IdentityInv' /\ Held
<1>1. UNCHANGED <<account, session, ended, unlock, now, overlapped, overtaken, raced>>
  BY DEF CreateCode
<1>2. /\ BaseInv' /\ Others(r) /\ req[r].pc = "create" /\ req[r].a \in Customers
      /\ req'[r].pc = "done" /\ req'[r].a = req[r].a
      /\ \A b \in Accounts : b # req[r].a => code'[b] = code[b]
      /\ \E n \in Nat, c \in CodeRow :
           /\ DOMAIN code[req[r].a] = 1..n /\ DOMAIN code'[req[r].a] = 1..(n + 1)
           /\ \A k \in 1..n : code'[req[r].a][k] = code[req[r].a][k]
           /\ code'[req[r].a][n + 1] = c
           /\ c.purpose = req[r].op /\ c.at = now /\ c.spent = 0
  BY CreateCodeStep DEF IdentityInv
<1>3. PICK w, row : w = req'[r] /\ row = account[w.a]
  OBVIOUS
<1>4. PinSeen(w, row) /\ w.a \in Customers
  BY <1>2, <1>3, CodeSees
<1>5. PICK b \in Customers : b = req[r].a
  BY <1>2
<1>6. PICK n \in Nat, c \in CodeRow :
        /\ DOMAIN code[b] = 1..n /\ DOMAIN code'[b] = 1..(n + 1)
        /\ \A k \in 1..n : code'[b][k] = code[b][k]
        /\ code'[b][n + 1] = c /\ c.purpose = req[r].op /\ c.spent = 0
  BY <1>2, <1>5
<1>7. \A a \in Accounts : a # b => code'[a] = code[a]
  BY <1>2, <1>5
<1>8. IssuedInTurn'
  BY <1>1, <1>2, <1>5, <1>6, <1>7, TurnIssued DEF IdentityInv, CodesInv
<1>9. SpentAreUsed'
  <2>1. ASSUME NEW a \in Accounts, NEW k \in DOMAIN code'[a]
        PROVE  code'[a][k].spent = 0 \/ (code'[a][k].spent = 1 /\ code'[a][k].used)
    <3>1. CASE a # b
      BY <1>7, <2>1, <3>1 DEF IdentityInv, CodesInv, SpentAreUsed
    <3>2. CASE a = b /\ k \in 1..n
      <4>1. k \in DOMAIN code[b] /\ code'[b][k] = code[b][k]
        BY <1>6, <3>2
      <4>2. QED
        BY <2>1, <3>2, <4>1 DEF IdentityInv, CodesInv, SpentAreUsed
    <3>3. CASE a = b /\ k = n + 1
      BY <1>6, <3>3
    <3>4. k \in 1..(n + 1) => k \in 1..n \/ k = n + 1
      OBVIOUS
    <3>5. QED
      BY <1>6, <2>1, <3>1, <3>2, <3>3, <3>4
  <2>2. QED
    BY <2>1 DEF SpentAreUsed
<1>10. QED
  BY <1>1, <1>2, <1>3, <1>4, <1>8, <1>9, CodeKeeps DEF CodesInv

LEMMA PresentCodeKeeps ==
  ASSUME IdentityInv, NEW r \in Reqs, NEW a \in Customers, NEW purpose \in Purposes,
         NEW new \in Secrets \cup {None}, NEW right \in BOOLEAN,
         PresentCode(r, a, purpose, new, right), UNCHANGED raced
  PROVE  IdentityInv' /\ Held
<1>1. /\ UNCHANGED <<account, session, ended, code, unlock, now, overlapped, overtaken, raced>>
      /\ req[r].pc = "waiting"
  BY DEF PresentCode, Begin, logins, At
<1>2. BaseInv' /\ Others(r) /\ req'[r].pc = "count"
  BY PresentCodeStep DEF IdentityInv
<1>3. PICK w, row : w = req'[r] /\ row = account[w.a]
  OBVIOUS
<1>4. PinSeen(w, row) /\ RoleSeen(w, row)
  BY <1>2, <1>3, CodeSees
<1>5. QED
  BY <1>1, <1>2, <1>3, <1>4, QuietKeeps

\* A code is used, or an attempt at one counted: nobody issues one.
LEMMA UsingKeeps ==
  ASSUME IdentityInv, BaseInv', NEW r \in Reqs, Others(r), CodesStay, UNCHANGED <<now, overlapped>>,
         req'[r].pc \notin {"retire", "create"}
  PROVE  IssuedInTurn'
<1>1. ASSUME NEW q \in Reqs, NEW a \in Customers, Issuing(req'[q], a)
      PROVE  /\ Issuing(req[q], a) /\ req'[q].op = req[q].op
             /\ req'[q].pc = "create" => req[q].pc = "create" \/ InFlight(code'[a], req'[q].op) = {}
  <2>1. req'[q] = req[q]
    BY <1>1 DEF Issuing, Others
  <2>2. QED
    BY <1>1, <2>1
<1>2. now <= now' /\ now' \in Nat
  BY Types DEF IdentityInv
<1>3. QED
  BY <1>1, <1>2, TurnKept DEF IdentityInv, CodesInv

LEMMA CountCodeKeeps ==
  ASSUME IdentityInv, NEW r \in Reqs, CountCode(r), UNCHANGED raced
  PROVE  IdentityInv' /\ Held
<1>1. UNCHANGED <<account, session, ended, unlock, now, overlapped, overtaken, raced>>
  BY DEF CountCode
<1>2. /\ BaseInv' /\ Others(r) /\ req[r].pc = "count" /\ req'[r].pc \in {"consume", "done"}
      /\ req[r].a \in Customers /\ req'[r].a = req[r].a /\ CodesStay
      /\ \A b \in Accounts : \A k \in DOMAIN code[b] : code'[b][k].spent = code[b][k].spent
  BY CountCodeStep DEF IdentityInv
<1>3. PICK w, row : w = req'[r] /\ row = account[w.a]
  OBVIOUS
<1>4. PinSeen(w, row) /\ w.a \in Customers
  BY <1>2, <1>3, CodeSees
<1>5. IssuedInTurn'
  BY <1>1, <1>2, UsingKeeps
<1>6. SpentAreUsed'
  BY <1>2, SpentSame DEF IdentityInv, CodesInv
<1>7. QED
  BY <1>1, <1>2, <1>3, <1>4, <1>5, <1>6, CodeKeeps DEF CodesInv

LEMMA ConsumeCodeKeeps ==
  ASSUME IdentityInv, NEW r \in Reqs, ConsumeCode(r), UNCHANGED raced
  PROVE  IdentityInv' /\ Held
<1>1. UNCHANGED <<account, session, ended, unlock, now, overlapped, overtaken, raced>>
  BY DEF ConsumeCode, ConsumeIf
<1>2. /\ BaseInv' /\ Others(r) /\ req[r].pc = "consume"
      /\ req'[r].pc \in {"reset", "register", "done"}
      /\ req[r].a \in Customers /\ req'[r].a = req[r].a /\ CodesStay
      /\ \A b \in Accounts : \A k \in DOMAIN code[b] :
           \/ code'[b][k] = code[b][k]
           \/ ~code[b][k].used /\ code'[b][k].used /\ code'[b][k].spent = code[b][k].spent + 1
  BY ConsumeCodeStep DEF IdentityInv
<1>3. PICK w, row : w = req'[r] /\ row = account[w.a]
  OBVIOUS
<1>4. PinSeen(w, row) /\ w.a \in Customers
  BY <1>2, <1>3, CodeSees
<1>5. IssuedInTurn'
  BY <1>1, <1>2, UsingKeeps
<1>6. SpentAreUsed'
  <2>1. ASSUME NEW a \in Accounts, NEW k \in DOMAIN code'[a]
        PROVE  code'[a][k].spent = 0 \/ (code'[a][k].spent = 1 /\ code'[a][k].used)
    <3>1. k \in DOMAIN code[a]
      BY <1>2, <2>1 DEF CodesStay
    <3>2. code[a][k].spent = 0 \/ (code[a][k].spent = 1 /\ code[a][k].used)
      BY <3>1 DEF IdentityInv, CodesInv, SpentAreUsed
    <3>3. QED
      BY <1>2, <3>1, <3>2
  <2>2. QED
    BY <2>1 DEF SpentAreUsed
<1>7. QED
  BY <1>1, <1>2, <1>3, <1>4, <1>5, <1>6, CodeKeeps DEF CodesInv

LEMMA RegisterKeeps ==
  ASSUME IdentityInv, NEW r \in Reqs, Register(r), UNCHANGED raced
  PROVE  IdentityInv' /\ Held
<1>1. UNCHANGED <<account, session, ended, code, unlock, now, overlapped, overtaken, raced>>
  BY DEF Register, logins
<1>2. /\ BaseInv' /\ Others(r) /\ req[r].pc = "register" /\ req[r].a \in Customers
      /\ req'[r].a = req[r].a
      /\ \/ req'[r].pc = "done"
         \/ req'[r].pc = "open" /\ req'[r].op = "registration" /\ account[req[r].a].secret = None
  BY RegisterStep DEF IdentityInv
<1>3. PICK w, row : w = req'[r] /\ row = account[w.a]
  OBVIOUS
<1>4. w.a \in Customers /\ w.a \notin StaffUsers
  BY <1>2, <1>3, Types DEF IdentityInv
<1>5. PinSeen(w, row)
  <2>1. CASE w.pc = "done"
    BY <2>1, DoneSaw
  <2>2. CASE w.pc = "open" /\ w.op = "registration" /\ row.secret = None
    BY <2>2 DEF PinSeen
  <2>3. QED
    BY <1>2, <1>3, <2>1, <2>2
<1>6. QED
  BY <1>1, <1>2, <1>3, <1>4, <1>5, QuietKeeps

LEMMA SignOutEverywhereKeeps ==
  ASSUME IdentityInv, NEW a \in Customers, SignOutEverywhere(a), UNCHANGED raced
  PROVE  IdentityInv' /\ Held
<1>1. UNCHANGED <<account, req, code, unlock, now, overlapped, overtaken, raced>>
  BY DEF SignOutEverywhere, logins
<1>2. BaseInv' /\ EndAll(a) /\ a \in Accounts
  BY SignOutEverywhereStep, Types DEF IdentityInv
<1>3. SpentIsLocked' /\ SeenIsStill' /\ CodesInv' /\ Held
  BY <1>1, StillKeeps
<1>4. SessionsInv' /\ TokensSayRole'
  BY <1>1, <1>2, EndingKeeps DEF logins
<1>5. QED
  BY <1>2, <1>3, <1>4 DEF IdentityInv

LEMMA AskUnlockKeeps ==
  ASSUME IdentityInv, NEW r \in Reqs, NEW a \in Customers, NEW by \in Officers,
         AskUnlock(r, a, by), UNCHANGED raced
  PROVE  IdentityInv' /\ Held
<1>1. /\ UNCHANGED <<account, session, ended, code, unlock, now, overlapped, overtaken, raced>>
      /\ req[r].pc = "waiting"
  BY DEF AskUnlock, Begin, logins, At
<1>2. BaseInv' /\ Others(r) /\ req'[r].pc = "look"
  BY AskUnlockStep DEF IdentityInv
<1>3. PICK w, row : w = req'[r] /\ row = account[w.a]
  OBVIOUS
<1>4. PinSeen(w, row) /\ RoleSeen(w, row)
  BY <1>2, <1>3, CodeSees
<1>5. QED
  BY <1>1, <1>2, <1>3, <1>4, QuietKeeps

LEMMA LookForOpenKeeps ==
  ASSUME IdentityInv, NEW r \in Reqs, LookForOpen(r), UNCHANGED raced
  PROVE  IdentityInv' /\ Held
<1>1. UNCHANGED <<account, session, ended, code, unlock, now, overlapped, overtaken, raced>>
  BY DEF LookForOpen, logins
<1>2. BaseInv' /\ Others(r) /\ req[r].pc = "look" /\ req'[r].pc \in {"ask", "done"}
  BY LookForOpenStep DEF IdentityInv
<1>3. PICK w, row : w = req'[r] /\ row = account[w.a]
  OBVIOUS
<1>4. PinSeen(w, row) /\ RoleSeen(w, row)
  BY <1>2, <1>3, CodeSees
<1>5. QED
  BY <1>1, <1>2, <1>3, <1>4, QuietKeeps

LEMMA CreateUnlockKeeps ==
  ASSUME IdentityInv, NEW r \in Reqs, CreateUnlock(r), UNCHANGED raced
  PROVE  IdentityInv' /\ Held
<1>1. UNCHANGED <<account, session, ended, code, now, overlapped, overtaken, raced>>
  BY DEF CreateUnlock
<1>2. BaseInv' /\ Others(r) /\ req[r].pc = "ask" /\ req'[r].pc = "done"
  BY CreateUnlockStep DEF IdentityInv
<1>3. QED
  BY <1>1, <1>2, QuietDone

LEMMA DecideReadKeeps ==
  ASSUME IdentityInv, NEW r \in Reqs, NEW u \in DOMAIN unlock, NEW by \in Officers,
         NEW approve \in BOOLEAN, DecideRead(r, u, by, approve), UNCHANGED raced
  PROVE  IdentityInv' /\ Held
<1>1. /\ UNCHANGED <<account, session, ended, code, unlock, now, overlapped, overtaken, raced>>
      /\ req[r].pc = "waiting"
  BY DEF DecideRead, DecideReadBy, Begin, logins, At
<1>2. BaseInv' /\ Others(r) /\ req'[r].pc = "decide"
  BY DecideReadStep DEF IdentityInv
<1>3. PICK w, row : w = req'[r] /\ row = account[w.a]
  OBVIOUS
<1>4. PinSeen(w, row) /\ RoleSeen(w, row)
  BY <1>2, <1>3, CodeSees
<1>5. QED
  BY <1>1, <1>2, <1>3, <1>4, QuietKeeps

LEMMA DecideKeeps ==
  ASSUME IdentityInv, NEW r \in Reqs, Decide(r), UNCHANGED raced
  PROVE  IdentityInv' /\ Held
<1>1. UNCHANGED <<session, ended, code, now, overlapped, overtaken, raced>>
  BY DEF Decide
<1>2. /\ BaseInv' /\ Others(r) /\ req[r].pc = "decide" /\ req'[r].pc = "done"
      /\ req[r].a \in Accounts /\ req'[r].a = req[r].a
      /\ OnlyRow(req[r].a) /\ SameSeen(req[r].a)
      /\ unlock[req[r].u].by # req[r].by
      /\ \/ account' = account
         \/ /\ account'[req[r].a].attempts = 0 /\ ~account'[req[r].a].locked
            /\ unlock[req[r].u].status = "pending" /\ unlock'[req[r].u].status = "approved"
  BY DecideStep DEF IdentityInv
<1>3. CASE account' = account
  BY <1>1, <1>2, <1>3, QuietDone
<1>4. CASE /\ account'[req[r].a].attempts = 0
           /\ unlock[req[r].u].status = "pending" /\ unlock'[req[r].u].status = "approved"
  <2>1. PICK a \in Accounts : a = req[r].a
    BY <1>2
  <2>2. OnlyRow(a) /\ SameSeen(a) /\ account'[a].attempts = 0
    BY <1>2, <1>4, <2>1
  <2>3. SpentIsLocked'
    BY <1>2, <2>2, SpentCleared
  <2>4. SeenIsStill'
    <3>1. Overtakes(r)
      BY <1>1, <2>2, RowKeeps
    <3>2. QED
      BY <1>2, <3>1, SeenDone DEF IdentityInv
  <2>5. SessionsInv' /\ TokensSayRole'
    BY <1>1, <2>2, RowKeeps
  <2>6. CodesInv'
    BY <1>1, <1>2, CodesSame DEF IdentityInv, Others
  <2>7. PinHeld
    BY <2>2, Types DEF PinHeld, OnlyRow, SameSeen, IdentityInv
  <2>8. OpenHeld
    BY <1>2 DEF OpenHeld, At, Others
  <2>9. LiftHeld
    <3>1. req[r] # req'[r] /\ req[r].a = a /\ At(r, "decide")
      BY <1>2, <2>1 DEF At
    <3>2. \A b \in Customers : b # a => account'[b] = account[b]
      BY <2>2, Types DEF OnlyRow, IdentityInv
    <3>3. QED
      BY <1>2, <1>4, <3>1, <3>2 DEF LiftHeld, Locked
  <2>10. QED
    BY <1>2, <2>3, <2>4, <2>5, <2>6, <2>7, <2>8, <2>9 DEF IdentityInv, Held
<1>5. QED
  BY <1>2, <1>3, <1>4

LEMMA PresentPasswordKeeps ==
  ASSUME IdentityInv, NEW r \in Reqs, NEW a \in StaffUsers, NEW p \in Secrets,
         NEW op \in {"signIn", "confirm"}, PresentPassword(r, op, a, p), UNCHANGED logins
  PROVE  IdentityInv' /\ Held
<1>1. /\ UNCHANGED <<account, session, ended, code, unlock, now, overlapped, overtaken, raced>>
      /\ req[r].pc = "waiting"
  BY DEF PresentPassword, Begin, logins, At
<1>2. BaseInv' /\ Others(r) /\ req'[r].pc = "reserve" /\ req'[r].a = a /\ req'[r].saw = Seen(a)
  BY PresentPasswordStep DEF IdentityInv
<1>3. PICK w, row : w = req'[r] /\ row = account[w.a]
  OBVIOUS
<1>4. w.a = a /\ w.pc = "reserve" /\ w.saw.role = row.role /\ w.saw.active = row.active
  BY <1>2, <1>3 DEF Seen
<1>5. RoleSeen(w, row) /\ a \notin Customers
  BY <1>4, Types DEF RoleSeen, IdentityInv
<1>6. QED
  BY <1>1, <1>2, <1>3, <1>4, <1>5, QuietKeeps

LEMMA PasswordRightKeeps ==
  ASSUME IdentityInv, NEW r \in Reqs, PasswordRight(r), UNCHANGED logins
  PROVE  IdentityInv' /\ Held
<1>1. UNCHANGED <<session, ended, code, unlock, now, overlapped, overtaken, raced>>
  BY DEF PasswordRight, logins
<1>2. /\ BaseInv' /\ Others(r) /\ OnlyRow(req[r].a) /\ SameSeen(req[r].a)
      /\ req[r].pc = "settle" /\ req[r].a \in StaffUsers /\ req'[r].a = req[r].a
      /\ account'[req[r].a].locked = account[req[r].a].locked
      /\ account'[req[r].a].attempts = 0
      /\ \/ req'[r].pc = "done"
         \/ req'[r].pc = "fetch" /\ req'[r].saw = req[r].saw /\ req[r].saw.active
  BY PasswordRightStep DEF IdentityInv
<1>3. PICK a \in Accounts : a = req[r].a /\ a \notin Customers
  BY <1>2, Types DEF IdentityInv
<1>4. OnlyRow(a) /\ SameSeen(a) /\ account'[a].attempts = 0
  BY <1>2, <1>3
<1>5. SpentIsLocked'
  BY <1>2, <1>3, <1>4, SpentCleared
<1>6. SessionsInv' /\ TokensSayRole'
  BY <1>1, <1>4, RowKeeps
<1>7. PICK v, w : v = req[r] /\ w = req'[r]
  OBVIOUS
<1>8. PICK row, after : row = account[a] /\ after = account'[w.a]
  OBVIOUS
<1>9. w.a = a /\ v.a = a /\ after.role = row.role /\ after.active = row.active
  BY <1>2, <1>3, <1>4, <1>7, <1>8 DEF SameSeen
<1>10. r \notin raced => RoleSeen(v, row)
  BY <1>2, <1>3, <1>7, <1>8 DEF IdentityInv, SeenIsStill
<1>11. r \notin raced => RoleSeen(w, after)
  BY <1>2, <1>7, <1>9, <1>10 DEF RoleSeen
<1>12. QED
  BY <1>1, <1>2, <1>3, <1>4, <1>5, <1>6, <1>7, <1>8, <1>9, <1>11, CountingKeeps

LEMMA PasswordWrongKeeps ==
  ASSUME IdentityInv, NEW r \in Reqs, PasswordWrong(r), UNCHANGED logins
  PROVE  IdentityInv' /\ Held
<1>1. UNCHANGED <<session, ended, code, unlock, now, overlapped, overtaken, raced>>
  BY DEF PasswordWrong, logins
<1>2. /\ BaseInv' /\ Others(r) /\ OnlyRow(req[r].a) /\ SameSeen(req[r].a)
      /\ req[r].pc = "settle" /\ req[r].a \in StaffUsers /\ req'[r].a = req[r].a
      /\ req'[r].pc = "done"
      /\ account'[req[r].a].attempts = account[req[r].a].attempts
      /\ account[req[r].a].locked => account'[req[r].a].locked
      /\ req[r].n >= MaxAttempts => account'[req[r].a].locked
  BY PasswordWrongStep DEF IdentityInv
<1>3. PICK a \in Accounts : a = req[r].a /\ a \notin Customers
  BY <1>2, Types DEF IdentityInv
<1>4. OnlyRow(a) /\ SameSeen(a)
  BY <1>2, <1>3
<1>5. SpentIsLocked'
  <2>1. \A b \in Accounts : \/ account'[b].attempts = account[b].attempts
                               /\ (account[b].locked => account'[b].locked)
                            \/ account'[b].attempts = 0 \/ account'[b].locked
    BY <1>2, <1>3, <1>4 DEF OnlyRow
  <2>2. req[r].n = MaxAttempts => account'[req[r].a].locked
    BY <1>2, Types DEF IdentityInv
  <2>3. QED
    BY <1>2, <2>1, <2>2, SpentKept DEF IdentityInv
<1>6. SessionsInv' /\ TokensSayRole'
  BY <1>1, <1>4, RowKeeps
<1>7. PICK w, after : w = req'[r] /\ after = account'[w.a]
  OBVIOUS
<1>8. w.a = a /\ PinSeen(w, after) /\ RoleSeen(w, after)
  BY <1>2, <1>3, <1>7, DoneSaw
<1>9. QED
  BY <1>1, <1>2, <1>3, <1>4, <1>5, <1>6, <1>7, <1>8, CountingKeeps

LEMMA FetchUserKeeps ==
  ASSUME IdentityInv, NEW r \in Reqs, FetchUser(r), UNCHANGED logins
  PROVE  IdentityInv' /\ Held
<1>1. UNCHANGED <<account, session, ended, code, unlock, now, overlapped, overtaken, raced>>
  BY DEF FetchUser, logins
<1>2. /\ BaseInv' /\ Others(r) /\ req[r].pc = "fetch" /\ req[r].a \in StaffUsers
      /\ req'[r].pc = "open" /\ req'[r].a = req[r].a /\ req'[r].saw = Seen(req[r].a)
  BY FetchUserStep DEF IdentityInv
<1>3. PICK v, w, row : v = req[r] /\ w = req'[r] /\ row = account[w.a]
  OBVIOUS
<1>4. /\ w.a = v.a /\ w.a \in StaffUsers /\ w.a \notin Customers /\ w.pc = "open"
      /\ w.saw.role = row.role /\ w.saw.active = row.active
  BY <1>2, <1>3, Types DEF Seen, IdentityInv
<1>5. r \notin raced => RoleSeen(v, row)
  BY <1>2, <1>3, <1>4 DEF IdentityInv, SeenIsStill
<1>6. r \notin raced => RoleSeen(w, row)
  BY <1>2, <1>3, <1>4, <1>5 DEF RoleSeen
<1>7. QED
  BY <1>1, <1>2, <1>3, <1>4, <1>6, QuietKeeps

LEMMA UpdateReadKeeps ==
  ASSUME IdentityInv, NEW r \in Reqs, NEW a \in StaffUsers, NEW role \in Roles \cup {None},
         NEW status \in {"active", "suspended", None}, UpdateRead(r, a, role, status), UNCHANGED logins
  PROVE  IdentityInv' /\ Held
<1>1. /\ UNCHANGED <<account, session, ended, code, unlock, now, overlapped, overtaken, raced>>
      /\ req[r].pc = "waiting"
  BY DEF UpdateRead, Begin, logins, At
<1>2. BaseInv' /\ Others(r) /\ req'[r].pc = "update" /\ req'[r].a = a /\ req'[r].was = account[a].role
  BY UpdateReadStep DEF IdentityInv
<1>3. PICK w, row : w = req'[r] /\ row = account[w.a]
  OBVIOUS
<1>4. w.a = a /\ w.pc = "update" /\ w.was = row.role
  BY <1>2, <1>3
<1>5. RoleSeen(w, row) /\ PinSeen(w, row)
  BY <1>4 DEF RoleSeen, PinSeen
<1>6. QED
  BY <1>1, <1>2, <1>3, <1>4, <1>5, QuietKeeps

LEMMA UpdateKeeps ==
  ASSUME IdentityInv, NEW r \in Reqs, Update(r), UNCHANGED logins
  PROVE  IdentityInv' /\ Held
<1>1. UNCHANGED <<code, unlock, now, overlapped, overtaken>>
  BY DEF logins
<1>2. /\ BaseInv' /\ Others(r) /\ OnlyRow(req[r].a)
      /\ req[r].pc = "update" /\ req[r].a \in StaffUsers /\ req'[r].a = req[r].a /\ req'[r].pc = "done"
      /\ account'[req[r].a].attempts = account[req[r].a].attempts
      /\ account'[req[r].a].locked = account[req[r].a].locked
      /\ \A q \in Looking(req[r].a) : q # r => q \in raced'
      /\ raced \subseteq raced' /\ (r \in raced => req[r].a \in raced')
      /\ \/ EndAll(req[r].a)
         \/ /\ UNCHANGED <<session, ended>>
            /\ account'[req[r].a].role = account[req[r].a].role \/ account'[req[r].a].role = req[r].was
            /\ account[req[r].a].active => account'[req[r].a].active
  BY UpdateStep DEF IdentityInv
<1>3. PICK a \in Accounts : a = req[r].a /\ a \in StaffUsers /\ a \notin Customers
  BY <1>2, Types DEF IdentityInv
<1>4. \A b \in Accounts : b # a => account'[b] = account[b]
  BY <1>2, <1>3 DEF OnlyRow
<1>5. SpentIsLocked'
  <2>1. \A b \in Accounts : \/ account'[b].attempts = account[b].attempts
                               /\ (account[b].locked => account'[b].locked)
                            \/ account'[b].attempts = 0 \/ account'[b].locked
    BY <1>2, <1>3, <1>4
  <2>2. QED
    BY <1>2, <2>1, SpentKept DEF IdentityInv
<1>6. SeenIsStill'
  <2>1. Overtakes(r)
    BY <1>1, <1>2, <1>3, <1>4, Types DEF Overtakes, IdentityInv
  <2>2. QED
    BY <1>2, <2>1, SeenDone DEF IdentityInv
<1>7. ASSUME EndAll(a)
      PROVE  SessionsInv' /\ TokensSayRole'
  <2>1. \A q \in Looking(a) : At(q, "committed") => q \in raced'
    BY <1>2, <1>3 DEF At
  <2>2. OnlyRow(a) /\ raced \subseteq raced'
    BY <1>2, <1>3
  <2>3. QED
    BY <1>7, <2>1, <2>2, SessionsEndAll, RolesEndAll DEF IdentityInv
<1>8. ASSUME UNCHANGED <<session, ended>>,
             account'[a].role = account[a].role \/ account'[a].role = req[r].was,
             account[a].active => account'[a].active
      PROVE  SessionsInv' /\ TokensSayRole'
  <2>1. SessionsInv'
    BY <1>8, SessionsSame DEF IdentityInv
  <2>2. PICK w, row : w = req[r] /\ row = account[a]
    OBVIOUS
  <2>3. r \notin raced => row.role = w.was
    <3>1. r \notin raced => RoleSeen(w, row)
      BY <1>2, <1>3, <2>2 DEF IdentityInv, SeenIsStill
    <3>2. QED
      BY <1>2, <2>2, <3>1 DEF RoleSeen
  <2>4. a \in raced' \/ (account'[a].role = account[a].role /\ (account[a].active => account'[a].active))
    BY <1>2, <1>3, <1>8, <2>2, <2>3
  <2>5. ASSUME NEW s \in SessionIds, session[s] # Unopened, ~session[s].over,
               session[s].owner \in StaffUsers
        PROVE  \/ session[s].role = account'[session[s].owner].role /\ account'[session[s].owner].active
               \/ session[s].by \in raced' \/ session[s].owner \in raced'
    <3>1. PICK b \in Accounts : b = session[s].owner
      BY <2>5, Types DEF IdentityInv
    <3>2. \/ session[s].role = account[b].role /\ account[b].active
          \/ session[s].by \in raced \/ b \in raced
      BY <2>5, <3>1 DEF IdentityInv, TokensSayRole, Live, Opened
    <3>3. CASE b = a
      BY <1>2, <2>4, <3>1, <3>2, <3>3
    <3>4. CASE b # a
      BY <1>2, <1>4, <3>1, <3>2, <3>4
    <3>5. QED
      BY <3>3, <3>4
  <2>6. TokensSayRole'
    BY <1>8, <2>5 DEF TokensSayRole, Live, Opened
  <2>7. QED
    BY <2>1, <2>6
<1>9. SessionsInv' /\ TokensSayRole'
  BY <1>2, <1>3, <1>7, <1>8
<1>10. CodesInv'
  BY <1>1, <1>2, CodesSame DEF IdentityInv, Others
<1>11. Held
  <2>1. \A b \in Customers : account'[b].secret = account[b].secret
                             /\ (account[b].locked => account'[b].locked)
    BY <1>3, <1>4, Types DEF IdentityInv
  <2>2. QED
    BY <1>2, <2>1, HeldQuiet DEF Others
<1>12. QED
  BY <1>2, <1>5, <1>6, <1>9, <1>10, <1>11 DEF IdentityInv

\* A staff user's row changes, and no handler moves.
LEMMA StaffRowKeeps ==
  ASSUME IdentityInv, BaseInv', NEW a \in StaffUsers, OnlyRow(a),
         account'[a].role = account[a].role, account'[a].active = account[a].active,
         account'[a].attempts = 0,
         UNCHANGED <<req, code, now, overlapped, overtaken, raced>>
  PROVE  SpentIsLocked' /\ SeenIsStill' /\ CodesInv' /\ Held
<1>1. a \in Accounts /\ a \notin Customers /\ \A b \in Accounts : b # a => account'[b] = account[b]
  BY Types DEF OnlyRow, IdentityInv
<1>2. SpentIsLocked'
  BY <1>1, SpentStill DEF IdentityInv
<1>3. SeenIsStill'
  <2>1. PICK r : r \notin Reqs
    BY NoSetContainsEverything
  <2>2. Overtakes(r)
    BY <1>1, Types DEF Overtakes, IdentityInv
  <2>3. QED
    BY <2>1, <2>2, SeenStill DEF IdentityInv
<1>4. CodesInv'
  BY CodesSame DEF IdentityInv
<1>5. Held
  <2>1. \A b \in Customers : account'[b].secret = account[b].secret
                             /\ (account[b].locked => account'[b].locked)
    BY <1>1, Types DEF IdentityInv
  <2>2. QED
    BY <2>1, HeldQuiet
<1>6. QED
  BY <1>2, <1>3, <1>4, <1>5

LEMMA UnlockUserKeeps ==
  ASSUME IdentityInv, NEW a \in StaffUsers, UnlockUser(a), UNCHANGED logins
  PROVE  IdentityInv' /\ Held
<1>1. UNCHANGED <<session, req, ended, code, unlock, now, overlapped, overtaken, raced>>
  BY DEF UnlockUser, logins
<1>2. /\ BaseInv' /\ OnlyRow(a) /\ SameSeen(a)
      /\ account'[a].attempts = 0 /\ ~account'[a].locked
  BY UnlockUserStep DEF IdentityInv
<1>3. SpentIsLocked' /\ SeenIsStill' /\ CodesInv' /\ Held
  BY <1>1, <1>2, StaffRowKeeps DEF SameSeen
<1>4. SessionsInv' /\ TokensSayRole'
  BY <1>1, <1>2, RowKeeps, Types DEF IdentityInv
<1>5. QED
  BY <1>2, <1>3, <1>4 DEF IdentityInv

LEMMA ResetPasswordKeeps ==
  ASSUME IdentityInv, NEW a \in StaffUsers, NEW p \in Secrets, ResetPassword(a, p), UNCHANGED logins
  PROVE  IdentityInv' /\ Held
<1>1. UNCHANGED <<req, code, unlock, now, overlapped, overtaken, raced>>
  BY DEF ResetPassword, logins
<1>2. /\ BaseInv' /\ OnlyRow(a) /\ EndAll(a)
      /\ account'[a].role = account[a].role /\ account'[a].active = account[a].active
      /\ account'[a].attempts = 0 /\ ~account'[a].locked
  BY ResetPasswordStep DEF IdentityInv
<1>3. SpentIsLocked' /\ SeenIsStill' /\ CodesInv' /\ Held
  BY <1>1, <1>2, StaffRowKeeps
<1>4. a \in Accounts
  BY Types DEF IdentityInv
<1>5. SessionsInv' /\ TokensSayRole'
  BY <1>1, <1>2, <1>4, SessionsEndAll, RolesEndAll DEF IdentityInv
<1>6. QED
  BY <1>2, <1>3, <1>5 DEF IdentityInv

----------------------------------------------------------------------------
(* The theorems.                                                            *)

\* No table is opened with more than one session, which goes back to itself.
LEMMA FirstSession ==
  ASSUME IdentityInit
  PROVE  /\ session \in [SessionIds -> SessionRow \cup {Unopened}]
         /\ \A s \in SessionIds : Opened(s) =>
              /\ session[s].root = s /\ session[s].owner \in Customers
              /\ \A t \in SessionIds : Opened(t) => t = s
<1>1. CASE session = [s \in SessionIds |-> Unopened]
  BY <1>1 DEF Opened
<1>2. CASE \E a \in Customers :
             LET f == CHOOSE s \in SessionIds : TRUE IN
             session = [s \in SessionIds |->
               IF s = f THEN [owner |-> a, over |-> FALSE, next |-> None, role |-> None,
                              root |-> f, by |-> None]
               ELSE Unopened]
  <2> DEFINE First(f, a) ==
        [s \in SessionIds |->
          IF s = f THEN [owner |-> a, over |-> FALSE, next |-> None, role |-> None,
                         root |-> f, by |-> None]
          ELSE Unopened]
  <2>0. PICK a \in Customers : session = First(CHOOSE s \in SessionIds : TRUE, a)
    BY <1>2
  <2>1. PICK f : session = First(f, a)
    BY <2>0
  <2>2. PICK row : row = [owner |-> a, over |-> FALSE, next |-> None, role |-> None,
                          root |-> f, by |-> None]
    OBVIOUS
  <2>3. session = [s \in SessionIds |-> IF s = f THEN row ELSE Unopened]
    BY <2>1, <2>2
  <2>4. a \in Accounts
    BY LoginsAssumption
  <2>5. f \in SessionIds => row \in SessionRow
    BY <2>2, <2>4 DEF SessionRow
  <2>6. row.root = f /\ row.owner = a
    BY <2>2
  <2>7. \A s \in SessionIds : Opened(s) => s = f /\ session[s] = row
    BY <2>3 DEF Opened
  <2>8. session \in [SessionIds -> SessionRow \cup {Unopened}]
    BY <2>3, <2>5
  <2>9. QED
    BY <2>6, <2>7, <2>8
<1>3. QED
  BY <1>1, <1>2 DEF IdentityInit

LEMMA InitInv == IdentityInit => IdentityInv
<1> SUFFICES ASSUME IdentityInit
             PROVE  IdentityInv
  OBVIOUS
<1>1. /\ req = [r \in Reqs |-> Waiting] /\ code = [a \in Accounts |-> <<>>] /\ unlock = <<>>
      /\ now = 0 /\ ended = {} /\ overlapped = {} /\ overtaken = {} /\ raced = {}
      /\ account \in FirstRows
  BY DEF IdentityInit
<1>2. /\ account \in [Accounts -> AccountRow]
      /\ \A a \in Accounts : account[a].attempts = (IF account[a].locked THEN MaxAttempts ELSE 0)
  BY <1>1 DEF FirstRows
<1>3. \A r \in Reqs : req[r] = Waiting /\ req[r].pc = "waiting"
  BY <1>1 DEF Waiting
<1>4. BaseInv
  <2>1. SessionsTypeOK
    BY <1>1, <1>2, <1>3, FirstSession DEF SessionsTypeOK
  <2>2. code \in [Accounts -> Seq(CodeRow)] /\ unlock \in Seq(UnlockRow)
    BY <1>1
  <2>3. now \in 0..MaxNow
    BY <1>1, LoginsAssumption
  <2>4. LoginsTypeOK
    BY <1>1, <2>2, <2>3 DEF LoginsTypeOK
  <2>5. \A r \in Reqs : Fits(req[r]) /\ Refers(req[r], session, code, unlock)
    BY <1>3 DEF Fits, Refers
  <2>6. req = [r \in Reqs |-> req[r]]
    BY <1>1
  <2>7. QED
    BY <1>1, <2>1, <2>4, <2>5, <2>6 DEF BaseInv, IdentityTypeOK, HandlersFit
<1>5. SpentIsLocked
  BY <1>2, SessionsAssumption DEF SpentIsLocked
<1>6. SeenIsStill
  BY <1>3 DEF SeenIsStill
<1>7. SessionsInv
  <2>1. RootsAreOpened
    BY <1>1, FirstSession DEF RootsAreOpened
  <2>2. SessionsKept
    BY <1>1, FirstSession DEF SessionsKept, Live
  <2>3. QED
    BY <2>1, <2>2 DEF SessionsInv
<1>8. TokensSayRole
  BY FirstSession, IdentityAssumption DEF TokensSayRole, Live
<1>9. CodesInv
  <2>1. \A a \in Accounts : code[a] = <<>> /\ DOMAIN code[a] = {}
    BY <1>1
  <2>2. SpentAreUsed
    BY <2>1 DEF SpentAreUsed
  <2>3. ASSUME NEW a \in Customers
        PROVE  Recent(a) = {} /\ \A purpose : Unused(a, purpose) = {}
    BY <2>1, LoginsAssumption DEF Recent, Unused
  <2>4. \A a \in Customers : Cardinality(Recent(a)) = 0
    BY <2>3, FS_EmptySet
  <2>5. 0 <= MaxPerHour
    BY LoginsAssumption
  <2>6. IssuedInTurn
    BY <1>3, <2>3, <2>4, <2>5 DEF IssuedInTurn
  <2>7. QED
    BY <2>2, <2>6 DEF CodesInv
<1>10. QED
  BY <1>4, <1>5, <1>6, <1>7, <1>8, <1>9 DEF IdentityInv

LEMMA SessionStepKeeps == IdentityInv /\ SessionStep => IdentityInv' /\ Held
<1> SUFFICES ASSUME IdentityInv, SessionStep
             PROVE  IdentityInv' /\ Held
  OBVIOUS
<1>1. ASSUME NEW s \in SessionIds, SignOut(s)
      PROVE  IdentityInv' /\ Held
  BY <1>1, SignOutKeeps DEF SessionStep
<1>2. ASSUME NEW r \in Reqs, NEW s \in SessionIds, RefreshRead(r, s)
      PROVE  IdentityInv' /\ Held
  BY <1>2, RefreshReadKeeps DEF SessionStep
<1>3. ASSUME NEW r \in Reqs, Reserve(r) \/ Open(r) \/ Replay(r) \/ Rotate(r) \/ Rotated(r)
      PROVE  IdentityInv' /\ Held
  BY <1>3, ReserveKeeps, OpenKeeps, ReplayKeeps, RotateKeeps, RotatedKeeps DEF SessionStep
<1>4. QED
  BY <1>1, <1>2, <1>3 DEF SessionStep

LEMMA PinStepKeeps ==
  ASSUME IdentityInv, NEW r \in Reqs, PinStep(r), UNCHANGED raced
  PROVE  IdentityInv' /\ Held
<1>1. ASSUME NEW a \in Customers, NEW p \in Secrets, NEW q \in Secrets,
             NEW op \in {"signIn", "stepUp", "change"}, PresentPin(r, op, a, p, q)
      PROVE  IdentityInv' /\ Held
  BY <1>1, PresentPinKeeps
<1>2. ASSUME PinRight(r) \/ PinWrong(r) \/ ChangePin(r) \/ ResetPin(r)
      PROVE  IdentityInv' /\ Held
  BY <1>2, PinRightKeeps, PinWrongKeeps, ChangePinKeeps, ResetPinKeeps
<1>3. QED
  BY <1>1, <1>2 DEF PinStep

LEMMA CodeStepKeeps ==
  ASSUME IdentityInv, NEW r \in Reqs, CodeStep(r), UNCHANGED raced
  PROVE  IdentityInv' /\ Held
<1>1. ASSUME NEW a \in Customers, NEW purpose \in Purposes, AskCode(r, a, purpose)
      PROVE  IdentityInv' /\ Held
  BY <1>1, AskCodeKeeps
<1>2. ASSUME NEW a \in Customers, NEW purpose \in Purposes, NEW p \in Secrets \cup {None},
             NEW right \in BOOLEAN, PresentCode(r, a, purpose, p, right)
      PROVE  IdentityInv' /\ Held
  BY <1>2, PresentCodeKeeps
<1>3. ASSUME CheckRate(r) \/ RetireCodes(r) \/ CreateCode(r)
      PROVE  IdentityInv' /\ Held
  BY <1>3, CheckRateKeeps, RetireCodesKeeps, CreateCodeKeeps
<1>4. ASSUME CountCode(r) \/ ConsumeCode(r) \/ Register(r)
      PROVE  IdentityInv' /\ Held
  BY <1>4, CountCodeKeeps, ConsumeCodeKeeps, RegisterKeeps
<1>5. QED
  BY <1>1, <1>2, <1>3, <1>4 DEF CodeStep

LEMMA UnlockStepKeeps ==
  ASSUME IdentityInv, NEW r \in Reqs, UnlockStep(r), UNCHANGED raced
  PROVE  IdentityInv' /\ Held
<1>1. ASSUME NEW a \in Customers, NEW by \in Officers, AskUnlock(r, a, by)
      PROVE  IdentityInv' /\ Held
  BY <1>1, AskUnlockKeeps
<1>2. ASSUME NEW u \in DOMAIN unlock, NEW by \in Officers, NEW approve \in BOOLEAN,
             DecideRead(r, u, by, approve)
      PROVE  IdentityInv' /\ Held
  BY <1>2, DecideReadKeeps
<1>3. ASSUME LookForOpen(r) \/ CreateUnlock(r) \/ Decide(r)
      PROVE  IdentityInv' /\ Held
  BY <1>3, LookForOpenKeeps, CreateUnlockKeeps, DecideKeeps
<1>4. QED
  BY <1>1, <1>2, <1>3 DEF UnlockStep

LEMMA CustomerStepKeeps == IdentityInv /\ CustomerStep => IdentityInv' /\ Held
<1> SUFFICES ASSUME IdentityInv, CustomerStep
             PROVE  IdentityInv' /\ Held
  OBVIOUS
<1>1. UNCHANGED raced
  BY DEF CustomerStep
<1>2. CASE Tick
  BY <1>1, <1>2, TickKeeps
<1>3. ASSUME NEW r \in Reqs, PinStep(r) \/ CodeStep(r) \/ UnlockStep(r)
      PROVE  IdentityInv' /\ Held
  BY <1>1, <1>3, PinStepKeeps, CodeStepKeeps, UnlockStepKeeps
<1>4. ASSUME NEW a \in Customers, SignOutEverywhere(a)
      PROVE  IdentityInv' /\ Held
  BY <1>1, <1>4, SignOutEverywhereKeeps
<1>5. ASSUME NEW a \in Customers, NEW p \in Secrets, SetPin(a, p)
      PROVE  IdentityInv' /\ Held
  BY <1>1, <1>5, SetPinKeeps
<1>6. QED
  BY <1>2, <1>3, <1>4, <1>5 DEF CustomerStep

LEMMA StaffStepKeeps == IdentityInv /\ StaffStep => IdentityInv' /\ Held
<1> SUFFICES ASSUME IdentityInv, StaffStep
             PROVE  IdentityInv' /\ Held
  OBVIOUS
<1>1. UNCHANGED logins
  BY DEF StaffStep
<1>2. ASSUME NEW r \in Reqs, NEW a \in StaffUsers, NEW p \in Secrets,
             NEW op \in {"signIn", "confirm"}, PresentPassword(r, op, a, p)
      PROVE  IdentityInv' /\ Held
  BY <1>1, <1>2, PresentPasswordKeeps
<1>3. ASSUME NEW r \in Reqs, PasswordRight(r) \/ PasswordWrong(r) \/ FetchUser(r) \/ Update(r)
      PROVE  IdentityInv' /\ Held
  BY <1>1, <1>3, PasswordRightKeeps, PasswordWrongKeeps, FetchUserKeeps, UpdateKeeps
<1>4. ASSUME NEW r \in Reqs, NEW a \in StaffUsers, NEW role \in Roles \cup {None},
             NEW status \in {"active", "suspended", None}, UpdateRead(r, a, role, status)
      PROVE  IdentityInv' /\ Held
  BY <1>1, <1>4, UpdateReadKeeps
<1>5. ASSUME NEW a \in StaffUsers, UnlockUser(a)
      PROVE  IdentityInv' /\ Held
  BY <1>1, <1>5, UnlockUserKeeps
<1>6. ASSUME NEW a \in StaffUsers, NEW p \in Secrets, ResetPassword(a, p)
      PROVE  IdentityInv' /\ Held
  BY <1>1, <1>6, ResetPasswordKeeps
<1>7. QED
  BY <1>2, <1>3, <1>4, <1>5, <1>6 DEF StaffStep

LEMMA NextInv == IdentityInv /\ [IdentityNext]_vars => IdentityInv' /\ Held
<1> SUFFICES ASSUME IdentityInv, [IdentityNext]_vars
             PROVE  IdentityInv' /\ Held
  OBVIOUS
<1>1. CASE IdentityNext
  BY <1>1, SessionStepKeeps, CustomerStepKeeps, StaffStepKeeps DEF IdentityNext
<1>2. CASE UNCHANGED vars
  <2>1. UNCHANGED <<account, session, req, ended, code, unlock, now, overlapped, overtaken, raced>>
    BY <1>2 DEF vars, core, logins
  <2>2. BaseInv'
    BY <2>1 DEF IdentityInv, BaseInv, IdentityTypeOK, SessionsTypeOK, LoginsTypeOK, HandlersFit
  <2>3. SpentIsLocked' /\ SeenIsStill' /\ CodesInv' /\ Held
    BY <2>1, StillKeeps
  <2>4. SessionsInv' /\ TokensSayRole'
    BY <2>1 DEF IdentityInv, SessionsInv, RootsAreOpened, SessionsKept, TokensSayRole, Live, Opened
  <2>5. QED
    BY <2>2, <2>3, <2>4 DEF IdentityInv
<1>3. QED
  BY <1>1, <1>2

\* What is so of every reachable state: the tables are typed, every handler has the rows it
\* works on at hand, what a handler nobody overtook saw is still so, and the properties.
THEOREM IdentityInvariance == IdentitySpec => []IdentityInv
<1>1. IdentityInv /\ [IdentityNext]_vars => IdentityInv'
  BY NextInv
<1>2. QED
  BY InitInv, <1>1, PTL DEF IdentitySpec

\* Lockouts (pin.service.ts, staff-auth.service.ts): an account whose attempts are used up is
\* locked, or the request that took the last one has still to lock it.
THEOREM SpentAreLocked == IdentitySpec => []SpentIsLocked
<1>1. IdentityInv => SpentIsLocked
  BY DEF IdentityInv
<1>2. QED
  BY IdentityInvariance, <1>1, PTL

\* Sessions (session.service.ts): one live session at most goes back to a sign-in, none to
\* one that was ended, and the tokens of staff say the role they have.
THEOREM SessionsDue == IdentitySpec => []SessionsAreDue
<1>1. IdentityInv => SessionsAreDue
  BY DEF IdentityInv, BaseInv, SessionsInv, SessionsAreDue
<1>2. QED
  BY IdentityInvariance, <1>1, PTL

\* The codes of an account that were not issued at once are spent once and are few.
LEMMA CodesFollow == IdentityInv => CodesKept
<1> SUFFICES ASSUME IdentityInv
             PROVE  CodesKept
  OBVIOUS
<1>1. BaseInv /\ SpentAreUsed /\ IssuedInTurn
  BY DEF IdentityInv, CodesInv
<1>2. ASSUME NEW a \in Customers
      PROVE  \A k \in DOMAIN code[a] : code[a][k].spent <= 1
  <2>1. a \in Accounts
    BY LoginsAssumption
  <2>2. QED
    BY <1>1, <2>1 DEF SpentAreUsed
<1>3. ASSUME NEW a \in Customers, a \notin overlapped, NEW purpose \in Purposes
      PROVE  Cardinality(Unused(a, purpose)) <= 1
  <2>1. \A j, k \in Unused(a, purpose) : j = k
    BY <1>1, <1>3 DEF IssuedInTurn
  <2>2. CASE Unused(a, purpose) = {}
    BY <2>2, FS_EmptySet
  <2>3. CASE Unused(a, purpose) # {}
    <3>1. PICK k : Unused(a, purpose) = {k}
      BY <2>1, <2>3
    <3>2. Cardinality({k}) = 1
      BY FS_Singleton
    <3>3. QED
      BY <3>1, <3>2
  <2>4. QED
    BY <2>2, <2>3
<1>4. \A a \in Customers : a \notin overlapped => Cardinality(Recent(a)) <= MaxPerHour
  BY <1>1 DEF IssuedInTurn
<1>5. QED
  BY <1>2, <1>3, <1>4 DEF CodesKept

\* Codes (otp.service.ts): one lets one request through, and an account whose requests for
\* codes did not overlap has one of a purpose in flight and MaxPerHour an hour.
THEOREM CodesHold == IdentitySpec => []CodesKept
BY IdentityInvariance, CodesFollow, PTL

\* Hands (pin.service.ts, auth.service.ts, customer-logins.service.ts): a PIN is replaced,
\* and a session opened, by who knows the PIN or has a code; a lockout is lifted with a code or
\* by two officers.
THEOREM HolderOrTwoHolds == IdentitySpec => HolderOrTwo
<1>1. IdentityInv /\ [IdentityNext]_vars => Held
  BY NextInv
<1>2. Held => [PinHeld]_vars /\ [OpenHeld]_vars /\ [LiftHeld]_vars
  BY DEF Held
<1>3. IdentitySpec => [][PinHeld]_vars /\ [][OpenHeld]_vars /\ [][LiftHeld]_vars
  BY IdentityInvariance, <1>1, <1>2, PTL DEF IdentitySpec
<1>4. [][PinHeld]_vars => PinReplacedByHolder
  BY DEF PinHeld, PinReplacedByHolder
<1>5. [][OpenHeld]_vars => OpenedWithPin
  BY DEF OpenHeld, OpenedWithPin
<1>6. [][LiftHeld]_vars => LiftedByTwo
  BY DEF LiftHeld, LiftedByTwo
<1>7. QED
  BY <1>3, <1>4, <1>5, <1>6, PTL DEF HolderOrTwo
=============================================================================
