------------------------------- MODULE BankLink -------------------------------
(***************************************************************************)
(* The client of the Bank of Tanzania: calls that share one token, renewed *)
(* before it expires and thrown away when it is refused; repeated when the *)
(* bank does not answer.  Every call here submits a batch of its own, the  *)
(* only request that must not be carried out twice.                        *)
(*                                                                         *)
(* Time passes in ticks, of which a request has Timeout.  The bank may end *)
(* all tokens, and closes the auction at some time.                        *)
(***************************************************************************)
EXTENDS FiniteSets, Integers

CONSTANTS
  Callers,
  None,
  Lifetime,     \* of a token
  RenewAfter,   \* 80% of it
  Timeout,      \* of a request
  MaxRetries,
  MaxNow, MaxRevocations, MaxLosses   \* bounds

Token == [epoch: Nat, expires: Nat]

SignIn == [sent: Nat, got: Token \cup {None}]

\* What the bank says of a call, and what its caller is told.
Answers ==
  {"refused", "taken", "duplicate", "late",
   "unavailable", "broken", "unauthorised", "submitted", "already", "conflict"}

ASSUME LinkAssumption ==
  /\ {Lifetime, RenewAfter, Timeout, MaxRetries, MaxNow, MaxRevocations, MaxLosses} \subseteq Nat
  /\ RenewAfter > 0 /\ RenewAfter + 2 * Timeout <= Lifetime
  /\ None \notin Nat \cup Answers \cup Token \cup SignIn

VARIABLES
  now,
  manager,   \* the token manager: its token, when to renew it, the sign-in in flight
  call,      \* the calls, by caller
  bank,      \* the number of times all tokens ended, whether bids are taken, the batches held
  strays,    \* requests nobody waits for, that the bank may see yet
  reachable, \* what the health check says
  losses

linkVars == <<now, manager, call, bank, strays, reachable, losses>>

LinkInit ==
  /\ now = 0
  /\ manager = [token |-> None, renewAt |-> 0, signIn |-> None]
  /\ call = [c \in Callers |->
       [pc |-> "idle", token |-> None, sent |-> 0, again |-> FALSE, attempt |-> 0, got |-> None,
        first |-> None, last |-> None, joined |-> FALSE]]
  /\ bank = [epoch |-> 0, open |-> TRUE, held |-> {}]
  /\ strays = {} /\ reachable = TRUE /\ losses = 0

----------------------------------------------------------------------------
(* The token manager                                                       *)

SentWith(k, token) == [k EXCEPT !.pc = "out", !.token = token, !.sent = now]

\* getToken, of the manager as m: the token while it is fresh, otherwise a sign-in, the
\* one in flight if there is one.
Request(c, k, m) ==
  IF m.token # None /\ now < m.renewAt
    THEN call' = [call EXCEPT ![c] = SentWith(k, m.token)] /\ manager' = m
    ELSE /\ call' = [call EXCEPT ![c] =
              [k EXCEPT !.pc = "waiting", !.joined = k.again /\ m.signIn # None]]
         /\ manager' = IF m.signIn # None THEN m
                       ELSE [m EXCEPT !.signIn = [sent |-> now, got |-> None]]

Invalidated(m) == [m EXCEPT !.token = None, !.renewAt = 0]

Waiting == {c \in Callers : call[c].pc = "waiting"}

SigningIn == manager.signIn # None

BankSignsIn ==
  /\ SigningIn /\ manager.signIn.got = None
  /\ manager' = [manager EXCEPT !.signIn.got = [epoch |-> bank.epoch, expires |-> now + Lifetime]]
  /\ UNCHANGED <<now, call, bank, strays, reachable, losses>>

\* Renewing when the token has expired.
RenewAtEnd == now + Lifetime

RenewAt == now + RenewAfter

\* Everybody who waited goes on with the token.
SignedInAtBank ==
  /\ SigningIn /\ manager.signIn.got # None
  /\ LET token == manager.signIn.got IN
     /\ manager' = [token |-> token, renewAt |-> RenewAt, signIn |-> None]
     /\ call' = [c \in Callers |-> IF c \in Waiting THEN SentWith(call[c], token) ELSE call[c]]
  /\ reachable' = TRUE
  /\ UNCHANGED <<now, bank, strays, losses>>

----------------------------------------------------------------------------
(* A call                                                                  *)

Submit(c) ==
  /\ call[c].pc = "idle"
  /\ Request(c, call[c], manager)
  /\ UNCHANGED <<now, bank, strays, reachable, losses>>

Ended(k, told) == [k EXCEPT !.pc = "ended", !.got = told, !.token = None, !.sent = 0]

\* BoT unreachable, out of time or failing: another attempt after a pause, while there
\* is one left.
Unanswered(k) ==
  IF k.attempt >= MaxRetries THEN Ended(k, "unavailable")
  ELSE [k EXCEPT !.pc = "asleep", !.attempt = @ + 1, !.again = FALSE, !.joined = FALSE,
                  !.token = None, !.sent = 0, !.got = None]

Lose == losses < MaxLosses /\ losses' = losses + 1

OnTheWay(c) == IF call[c].pc = "out" THEN {<<c, call[c].token>>} ELSE {}

\* The bank never sees the request, or sees it later, or did and its answer is lost.
LoseCall(c) ==
  /\ call[c].pc \in {"out", "back"} /\ Lose
  /\ call' = [call EXCEPT ![c] = Unanswered(@)]
  /\ strays' \in {strays, strays \cup OnTheWay(c)}
  /\ reachable' = FALSE
  /\ UNCHANGED <<now, manager, bank>>

\* The timeout may also fall while the body is read, after the try: that error is no
\* BotApiError, so that nothing is reported, repeated or said of the bank.
BreakCall(c) ==
  /\ call[c].pc = "back" /\ Lose
  /\ call' = [call EXCEPT ![c] = Ended(@, "broken")]
  /\ UNCHANGED <<now, manager, bank, strays, reachable>>

\* A sign-in that fails fails everybody who waited for it.
LoseSignIn ==
  /\ SigningIn /\ Lose
  /\ manager' = [manager EXCEPT !.signIn = None]
  /\ call' = [c \in Callers |-> IF c \in Waiting THEN Unanswered(call[c]) ELSE call[c]]
  /\ reachable' = FALSE
  /\ UNCHANGED <<now, bank, strays>>

Retry(c) ==
  /\ call[c].pc = "asleep"
  /\ Request(c, call[c], manager)
  /\ UNCHANGED <<now, bank, strays, reachable, losses>>

\* A token refused is thrown away, and the request sent once more.
Refused401(c) ==
  /\ call[c].pc = "back" /\ call[c].got = "refused"
  /\ IF call[c].again
       THEN call' = [call EXCEPT ![c] = Ended(@, "unauthorised")] /\ UNCHANGED manager
       ELSE Request(c, [call[c] EXCEPT !.again = TRUE], Invalidated(manager))
  /\ reachable' = TRUE
  /\ UNCHANGED <<now, bank, strays, losses>>

\* submitBatch: only a duplicate reference means that the batch is there already.
Told(got) ==
  CASE got = "taken" -> "submitted" [] got = "duplicate" -> "already" [] got = "late" -> "conflict"

AnsweredCall(c) ==
  /\ call[c].pc = "back" /\ call[c].got # "refused"
  /\ call' = [call EXCEPT ![c] = Ended(@, Told(@.got))]
  /\ reachable' = TRUE
  /\ UNCHANGED <<now, manager, bank, strays, losses>>

----------------------------------------------------------------------------
(* The bank                                                                *)

Good(token) == token.epoch = bank.epoch /\ token.expires > now

\* A reference it has is turned down before it looks at the time.
Verdict(c, token) ==
  CASE ~Good(token) -> "refused"
    [] Good(token) /\ c \in bank.held -> "duplicate"
    [] Good(token) /\ c \notin bank.held -> IF bank.open THEN "taken" ELSE "late"

Taking(c, verdict) == IF verdict = "taken" THEN [bank EXCEPT !.held = @ \cup {c}] ELSE bank

BankAnswers(c) ==
  LET k == call[c]
      verdict == Verdict(c, k.token)
      refused == verdict = "refused" IN
  /\ k.pc = "out"
  /\ bank' = Taking(c, verdict)
  /\ call' = [call EXCEPT ![c] =
       [k EXCEPT !.pc = "back", !.got = verdict,
                 !.first = IF refused /\ ~k.again THEN bank.epoch ELSE @,
                 !.last = IF refused THEN bank.epoch ELSE @]]
  /\ UNCHANGED <<now, manager, strays, reachable, losses>>

BankSeesStray(s) ==
  /\ bank' = Taking(s[1], Verdict(s[1], s[2]))
  /\ strays' = strays \ {s}
  /\ UNCHANGED <<now, manager, call, reachable, losses>>

EndTokens ==
  /\ bank.epoch < MaxRevocations
  /\ bank' = [bank EXCEPT !.epoch = @ + 1]
  /\ UNCHANGED <<now, manager, call, strays, reachable, losses>>

CutOff ==
  /\ bank.open /\ bank' = [bank EXCEPT !.open = FALSE]
  /\ UNCHANGED <<now, manager, call, strays, reachable, losses>>

\* No request outlives its timeout.
InTime ==
  /\ \A c \in Callers : call[c].pc \in {"out", "back"} => now < call[c].sent + Timeout
  /\ SigningIn => now < manager.signIn.sent + Timeout

TickLink ==
  /\ now < MaxNow /\ InTime /\ now' = now + 1
  /\ UNCHANGED <<manager, call, bank, strays, reachable, losses>>

LinkNext ==
  \/ \E c \in Callers :
       \/ Submit(c) \/ LoseCall(c) \/ BreakCall(c) \/ Retry(c)
       \/ Refused401(c) \/ AnsweredCall(c) \/ BankAnswers(c)
  \/ \E s \in strays : BankSeesStray(s)
  \/ BankSignsIn \/ SignedInAtBank \/ LoseSignIn \/ EndTokens \/ CutOff \/ TickLink

LinkSpec == LinkInit /\ [][LinkNext]_linkVars

----------------------------------------------------------------------------
(* Properties                                                              *)

\* "A request never goes out on a token about to expire mid-flight"
\* (bot-token.manager.ts:7): renewing counts from the answer to the sign-in, the
\* token's life from when the bank gave it, and the request still has to arrive.
NeverExpiredInFlight ==
  \A c \in Callers : call[c].pc = "out" => call[c].token.expires > now

\* "A second 401 is a real credential problem" (bot-api.client.ts:15), unless the tokens
\* were ended again, or the call joined a sign-in that was under way when its own token
\* was refused, whose answer may be as old.
RefusedOnlyIfOvertaken ==
  \A c \in Callers :
    call[c].got = "unauthorised" => call[c].joined \/ call[c].first < call[c].last

\* What the caller is told of its batch is so, and stays so, through retries, requests
\* that arrive after their caller has given up on them, and a cut-off in between: what
\* is submitted, or was already, the bank holds, and after a conflict it never will.
VerdictIsTrue ==
  \A c \in Callers :
    /\ call[c].got \in {"submitted", "already"} => c \in bank.held
    /\ call[c].got = "conflict" => c \notin bank.held

\* Tokens and verdicts of the bank are good for as long as they are relied on.
LinkIsTrue == NeverExpiredInFlight /\ RefusedOnlyIfOvertaken /\ VerdictIsTrue

----------------------------------------------------------------------------
(* What every step keeps                                                   *)

Call ==
  [pc: {"idle", "waiting", "out", "back", "asleep", "ended"},
   token: Token \cup {None}, sent: Nat, again: BOOLEAN, attempt: Nat,
   got: Answers \cup {None}, first: Nat \cup {None}, last: Nat \cup {None}, joined: BOOLEAN]

LinkTypeOK ==
  /\ now \in Nat
  /\ manager \in [token: Token \cup {None}, renewAt: Nat, signIn: SignIn \cup {None}]
  /\ call \in [Callers -> Call]
  /\ bank \in [epoch: Nat, open: BOOLEAN, held: SUBSET Callers]
  /\ strays \subseteq Callers \X Token
  /\ losses \in Nat

\* A sign-in is as old as a request may be, and its token lives from after it was asked for.
SignInIsOwn ==
  SigningIn =>
    /\ manager.signIn.sent <= now /\ now <= manager.signIn.sent + Timeout
    /\ manager.signIn.got # None =>
         /\ manager.signIn.sent + Lifetime <= manager.signIn.got.expires
         /\ manager.signIn.got.epoch <= bank.epoch

\* The token outlives by a timeout the last request it is used for.
TokenLasts ==
  manager.token # None =>
    manager.renewAt + Timeout <= manager.token.expires /\ manager.token.epoch <= bank.epoch

\* What a call has been answered, by how far it is.
AnswersFit(c) ==
  LET k == call[c] IN
  /\ k.pc \in {"idle", "asleep"} => k.got = None /\ ~k.again
  /\ k.pc \in {"waiting", "out"} => k.got \in {None, "refused"}
  /\ k.pc = "back" => k.got \in {"refused", "taken", "duplicate", "late"}
  /\ k.pc = "ended" => k.got \notin {"refused", "taken", "duplicate", "late"}

\* A request is on its way with a token that outlives it.
InFlight(c) ==
  LET k == call[c] IN
  /\ k.pc \in {"out", "back"} => now <= k.sent + Timeout
  /\ k.pc = "out" =>
       k.token # None /\ k.sent + Timeout < k.token.expires /\ k.token.epoch <= bank.epoch

\* After the first refusal a call waits for a token asked for since, unless it joined.
FirstRefusal(c) ==
  LET k == call[c] IN
  /\ k.again \/ (k.pc = "back" /\ k.got = "refused") => k.first # None /\ k.first <= bank.epoch
  /\ k.pc = "waiting" =>
       /\ SigningIn
       /\ k.again /\ ~k.joined /\ manager.signIn.got # None => k.first <= manager.signIn.got.epoch
  /\ k.pc = "out" /\ k.again /\ ~k.joined => k.first <= k.token.epoch
  /\ k.got = "unauthorised" \/ (k.pc = "back" /\ k.got = "refused" /\ k.again) =>
       k.joined \/ (k.first # None /\ k.last # None /\ k.first < k.last)

\* What the bank held when it answered, and that it takes nothing once it is closed.
BankKeepsIts(c) ==
  /\ call[c].got \in {"taken", "duplicate", "submitted", "already"} => c \in bank.held
  /\ call[c].got \in {"late", "conflict"} => c \notin bank.held /\ ~bank.open

CallIsTrue(c) == AnswersFit(c) /\ InFlight(c) /\ FirstRefusal(c) /\ BankKeepsIts(c)

LinkInv ==
  LinkTypeOK /\ SignInIsOwn /\ TokenLasts /\ \A c \in Callers : CallIsTrue(c)
=============================================================================
