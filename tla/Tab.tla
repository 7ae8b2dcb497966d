---------------------------------- MODULE Tab ----------------------------------
(***************************************************************************)
(* One tab of the portal: the account store with its two tokens, the guard *)
(* of the router that restores a session before the first screen, the      *)
(* requests that refresh an expired token and are sent again, and the      *)
(* investor's store that is loaded when somebody signs in; beside them as  *)
(* much of identity as answers: Sessions.tla has the rest.                 *)
(*                                                                         *)
(* Every await is a point where the others go on.  Everybody is an         *)
(* investor who may bid; of what is answered it matters only whose it is.  *)
(***************************************************************************)
EXTENDS Sequences, FiniteSets, Naturals

CONSTANTS
  People,
  None,
  MaxEvents  \* bound: sign-ins, tokens that expire, lost answers and reloads, together

Tokens == [s : Nat, n : Nat \ {0}]
Accesses == [s : Nat, n : Nat \ {0}, stale : BOOLEAN]

ASSUME TabAssumption ==
  /\ MaxEvents \in Nat
  /\ None \notin People \cup Tokens \cup Accesses

VARIABLES
  session,   \* identity's sessions: their owner, the number of the refresh token that is good, live
  tab,       \* what the tab keeps: access and refresh token, who it is, whose onboarding, restored,
             \* the screen, whose bids; and who is in front of it: nobody, once signed out
  task,      \* what runs in the tab, suspended at an await
  fetch,     \* refreshes: one for every restore, and the one all requests share
  adrift,    \* refresh tokens on their way from a page that waits no longer
  past,      \* what raced so far, and what it led to
  events     \* how many there were

tabVars == <<session, tab, task, fetch, adrift, past, events>>

Navigations == {"nav1", "nav2"}
Loads == {"auctions", "bids"}
Tasks == Navigations \cup Loads \cup {"signIn", "signOut"}
Fetches == Navigations \cup {"shared"}

Vacant == [pc |-> "idle"]

\* A page as it is loaded: only the refresh token outlives the one before.
NewPage(stored, front) ==
  [access |-> None, stored |-> stored, me |-> None, onboarding |-> None, restored |-> FALSE,
   screen |-> None, latest |-> None, shown |-> None, front |-> front]

TabInit ==
  /\ session = <<>>
  /\ tab = NewPage(None, None)
  /\ task = [t \in Tasks |-> Vacant] /\ fetch = [f \in Fetches |-> Vacant]
  /\ adrift = {} /\ past = {}
  /\ events = 0

Doing(t, pc) == task[t].pc = pc

Event == events < MaxEvents /\ events' = events + 1

----------------------------------------------------------------------------
(* The account store and a request                                         *)

ClearedInMemory == [tab EXCEPT !.access = None, !.me = None, !.onboarding = None]

Cleared == [tab EXCEPT !.access = None, !.stored = None, !.me = None, !.onboarding = None]

SignedOff == [Cleared EXCEPT !.front = None]

Accepted(s, n) ==
  [tab EXCEPT !.access = [s |-> s, n |-> n, stale |-> FALSE], !.stored = [s |-> s, n |-> n]]

\* Whom the service takes the sender to be; an access token is good until it expires.
Sender(tb) == IF tb.access = None \/ tb.access.stale THEN None ELSE session[tb.access.s].who

\* Of a request to sign out it matters also which session it is to end.
Ends(tb, what) ==
  IF what = "out" /\ Sender(tb) # None THEN [s |-> tb.access.s, n |-> tb.access.n] ELSE None

Asked(tb, what) == [pc |-> "asked", what |-> what, got |-> Sender(tb), ends |-> Ends(tb, what)]

\* watch: the investor's store loads when somebody is there, or their onboarding, that was
\* not before: the auctions alone until it is known who may bid.
Watched(tb) == <<tb.me # None, tb.onboarding # None>>

LoadOf(tb) == IF tb.onboarding = None THEN "auctions" ELSE "bids"

MustLoad(tb) == Watched(tab) # Watched(tb) /\ tb.me # None

Loading(tasks, tb) ==
  IF MustLoad(tb) THEN [tasks EXCEPT ![LoadOf(tb)] = Asked(tb, LoadOf(tb))] ELSE tasks

\* The guard: a screen for whoever is signed in and known, the sign-in screen otherwise.
\* A navigation that another has overtaken shows nothing.
Shown(tb, nav) ==
  IF tb.latest = nav
    THEN [tb EXCEPT !.screen = IF tb.access # None /\ tb.me # None THEN "home" ELSE "signIn"]
    ELSE tb

Restored(tb, nav) == Shown([tb EXCEPT !.restored = TRUE], nav)

\* What t asked for is answered; a 401 is no answer.
Answered(t, what) == Doing(t, "asked") /\ task[t].what = what /\ task[t].got # None

\* A request that waits for its answer, or for the refresh before it.
Awaits(tasks, t) == tasks[t].pc \in {"asked", "joined"}

IsOut(load) == Awaits(task, load)

\* A bound: there is one load of either kind at a time.
LoadMayStart(tb) == MustLoad(tb) => ~IsOut(LoadOf(tb))

\* load, first half: who it is, and the request for the onboarding.
MeKnown(t) ==
  LET tb == [tab EXCEPT !.me = task[t].got] IN
  /\ Answered(t, "me") /\ LoadMayStart(tb)
  /\ tab' = tb
  /\ task' = Loading([task EXCEPT ![t] = Asked(tab, "onboarding")], tb)
  /\ UNCHANGED <<session, fetch, adrift, past, events>>

\* Second half, and what waited for load: the first screen, or the one after signing in.
OnboardingKnown(t) ==
  LET tb == [tab EXCEPT !.onboarding = task[t].got] IN
  /\ Answered(t, "onboarding") /\ LoadMayStart(tb)
  /\ tab' = IF t = "signIn" THEN [tb EXCEPT !.screen = "home"] ELSE Restored(tb, t)
  /\ task' = Loading([task EXCEPT ![t] = Vacant], tb)
  /\ UNCHANGED <<session, fetch, adrift, past, events>>

\* The auctions alone come without bids: who was shown theirs in the meantime loses them.
Overtaken(load) == IF load = "bids" /\ IsOut("auctions") THEN {"overtaken"} ELSE {}

Loaded(load) ==
  /\ Answered(load, load)
  /\ tab' = [tab EXCEPT !.shown = IF load = "bids" THEN task[load].got ELSE None]
  /\ task' = [task EXCEPT ![load] = Vacant]
  /\ past' = past \cup Overtaken(load)
  /\ UNCHANGED <<session, fetch, adrift, events>>

\* Somebody comes to the tab or leaves it, by t, with a refresh of the one before
\* out, or with a request of theirs: nothing calls them off.
Crossing(t, tasks, fetches) ==
  (IF \E f \in Fetches : fetches[f] # Vacant THEN {"resumed"} ELSE {})
    \cup (IF \E u \in Tasks \ {t} : Awaits(tasks, u) THEN {"crossed"} ELSE {})

\* Identity: that session is over, but not one which has followed it.
EndSession ==
  LET ends == task["signOut"].ends IN
  /\ Answered("signOut", "out")
  /\ task' = [task EXCEPT !["signOut"].what = "ended"]
  /\ session' = IF session[ends.s].n = ends.n THEN [session EXCEPT ![ends.s].live = FALSE] ELSE session
  /\ UNCHANGED <<tab, fetch, adrift, past, events>>

SignedOut ==
  /\ Answered("signOut", "ended")
  /\ tab' = [SignedOff EXCEPT !.screen = "signIn"]
  /\ task' = [task EXCEPT !["signOut"] = Vacant]
  /\ past' = past \cup Crossing("signOut", task, fetch)
  /\ UNCHANGED <<session, fetch, adrift, events>>

Unloaded(ts) == IF ts \cap Loads # {} THEN {"unloaded"} ELSE {}

\* A request failed: only signing out forgets the tokens all the same.
TaskFails(t) ==
  /\ IF t = "signOut"
       THEN tab' = SignedOff /\ past' = past \cup Crossing(t, task, fetch)
       ELSE tab' = tab /\ past' = past \cup Unloaded({t})
  /\ task' = [task EXCEPT ![t] = Vacant]
  /\ UNCHANGED <<session, fetch, adrift>>

LoseRequest(t) == Doing(t, "asked") /\ Event /\ TaskFails(t)

----------------------------------------------------------------------------
(* Refreshing                                                              *)

Out(token) == \E f \in Fetches : fetch[f] # Vacant /\ fetch[f].token = token

Sent(f) == [fetch EXCEPT ![f] = [pc |-> "sent", token |-> tab.stored]]

Overlap == IF Out(tab.stored) THEN {"overlap"} ELSE {}

\* The token of a refresh is good when those who waited for it send again, so that no 401
\* is their second.
Unauthorised(t) == Doing(t, "asked") /\ task[t].got = None

\* A 401 waits for the refresh that runs already, or starts one.
Join(t) ==
  /\ Unauthorised(t) /\ (fetch["shared"] # Vacant \/ tab.stored # None)
  /\ task' = [task EXCEPT ![t] = [pc |-> "joined", what |-> task[t].what]]
  /\ fetch' = IF fetch["shared"] = Vacant THEN Sent("shared") ELSE fetch
  /\ UNCHANGED <<session, tab, adrift, past, events>>

\* Nothing to refresh with: the 401 stands.
GiveUp(t) ==
  /\ Unauthorised(t) /\ fetch["shared"] = Vacant /\ tab.stored = None
  /\ TaskFails(t) /\ UNCHANGED events

\* Identity: a token is good once; used again, it ends every session of its owner.
Rotated(token) ==
  IF session[token.s].n = token.n
    THEN [session EXCEPT ![token.s].n = @ + 1]
    ELSE [s \in DOMAIN session |->
            IF session[s].who = session[token.s].who
              THEN [session[s] EXCEPT !.live = FALSE] ELSE session[s]]

Replayed(token) == IF session[token.s].n # token.n THEN {"replayed"} ELSE {}

Refused(token) == ~session[token.s].live \/ session[token.s].n # token.n

Rotate(f) ==
  LET token == fetch[f].token IN
  /\ fetch[f].pc = "sent"
  /\ fetch' = [fetch EXCEPT ![f] = [pc |-> "answered", token |-> token, refused |-> Refused(token)]]
  /\ session' = IF session[token.s].live \/ Replayed(token) # {} THEN Rotated(token) ELSE session
  /\ past' = past \cup Replayed(token)
  /\ UNCHANGED <<tab, task, adrift, events>>

RotateAdrift(token) ==
  /\ token \in adrift /\ adrift' = adrift \ {token}
  /\ session' = IF session[token.s].live \/ Replayed(token) # {} THEN Rotated(token) ELSE session
  /\ past' = past \cup Replayed(token)
  /\ UNCHANGED <<tab, task, fetch, events>>

Joined == {t \in Tasks : Doing(t, "joined")}

\* doRefresh ends: with new tokens, or with none, whatever the reason.  Those who waited
\* send again or fail; a restore goes on to load, or is over.
Resume(f, tb) ==
  /\ fetch' = [fetch EXCEPT ![f] = Vacant] /\ tab' = tb
  /\ task' = IF f = "shared"
               THEN [t \in Tasks |-> IF t \in Joined THEN Asked(tb, task[t].what) ELSE task[t]]
               ELSE [task EXCEPT ![f] = Asked(tb, "me")]
  /\ UNCHANGED past

GoWithout(f) ==
  /\ fetch' = [fetch EXCEPT ![f] = Vacant]
  /\ IF f = "shared"
       THEN /\ task' = [t \in Tasks |-> IF t \in Joined THEN Vacant ELSE task[t]]
            /\ IF "signOut" \in Joined
                 THEN /\ tab' = SignedOff
                      /\ past' = past \cup Unloaded(Joined) \cup Crossing("signOut", task', fetch')
                 ELSE tab' = Cleared /\ past' = past \cup Unloaded(Joined)
       ELSE task' = [task EXCEPT ![f] = Vacant] /\ tab' = Restored(Cleared, f) /\ UNCHANGED past

RefreshOk(f) ==
  /\ fetch[f].pc = "answered" /\ ~fetch[f].refused
  /\ LET token == fetch[f].token IN Resume(f, Accepted(token.s, token.n + 1))
  /\ UNCHANGED <<session, adrift, events>>

RefreshRefused(f) ==
  /\ fetch[f].pc = "answered" /\ fetch[f].refused
  /\ GoWithout(f)
  /\ UNCHANGED <<session, adrift, events>>

RefreshLost(f) ==
  /\ fetch[f] # Vacant /\ Event
  /\ adrift' = IF fetch[f].pc = "sent" THEN adrift \cup {fetch[f].token} ELSE adrift
  /\ GoWithout(f)
  /\ UNCHANGED session

----------------------------------------------------------------------------
(* The user                                                                *)

\* restore, and the guard: the refresh of a restore is not the one requests share.
Navigate(nav) ==
  LET tb == [tab EXCEPT !.latest = nav] IN
  /\ task[nav] = Vacant
  /\ IF tab.restored \/ tab.access # None \/ tab.stored = None
       THEN tab' = (IF tab.restored THEN Shown(tb, nav) ELSE Restored(tb, nav)) /\ UNCHANGED <<task, fetch, past>>
       ELSE /\ tab' = tb /\ fetch' = Sent(nav) /\ past' = past \cup Overlap
            /\ task' = [task EXCEPT ![nav] = [pc |-> "restoring"]]
  /\ UNCHANGED <<session, adrift, events>>

SignIn(p) ==
  /\ tab.screen = "signIn" /\ task["signIn"] = Vacant
  /\ Event
  /\ session' = Append(session, [who |-> p, n |-> 1, live |-> TRUE])
  /\ task' = [task EXCEPT !["signIn"] = [pc |-> "signing", s |-> Len(session) + 1]]
  /\ UNCHANGED <<tab, fetch, adrift, past>>

\* Whoever else is known stays so until load is answered.
SignedIn ==
  LET p == session[task["signIn"].s].who IN
  /\ Doing("signIn", "signing")
  /\ tab' = [Accepted(task["signIn"].s, 1) EXCEPT !.front = p]
  /\ task' = [task EXCEPT !["signIn"] = Asked(tab', "me")]
  /\ past' = past \cup Crossing("signIn", task, fetch)
                  \cup (IF {tab.me, tab.onboarding} \subseteq {None, p} THEN {} ELSE {"crossed"})
  /\ UNCHANGED <<session, fetch, adrift, events>>

SignOut ==
  /\ tab.screen = "home" /\ task["signOut"] = Vacant
  /\ tab.access # None
  /\ task' = [task EXCEPT !["signOut"] = Asked(tab, "out")]
  /\ UNCHANGED <<session, tab, fetch, adrift, past, events>>

\* The page is loaded again: nothing that ran goes on, but a request may arrive yet.
ReloadPage ==
  LET out == {f \in Fetches : fetch[f] # Vacant} IN
  /\ Event
  /\ adrift' = adrift \cup {fetch[f].token : f \in {g \in out : fetch[g].pc = "sent"}}
  /\ past' = past \cup (IF out # {} THEN {"reloaded"} ELSE {})
  /\ tab' = NewPage(tab.stored, tab.front)
  /\ task' = [t \in Tasks |-> Vacant] /\ fetch' = [f \in Fetches |-> Vacant]
  /\ UNCHANGED session

Expire ==
  /\ tab.access # None /\ ~tab.access.stale
  /\ Event
  /\ tab' = [tab EXCEPT !.access.stale = TRUE]
  /\ UNCHANGED <<session, task, fetch, adrift, past>>

TabNext ==
  \/ \E t \in Tasks : Join(t) \/ GiveUp(t) \/ LoseRequest(t)
  \/ \E t \in Navigations \cup {"signIn"} : MeKnown(t) \/ OnboardingKnown(t)
  \/ \E load \in Loads : Loaded(load)
  \/ \E f \in Fetches : Rotate(f) \/ RefreshOk(f) \/ RefreshRefused(f) \/ RefreshLost(f)
  \/ \E token \in adrift : RotateAdrift(token)
  \/ \E nav \in Navigations : Navigate(nav)
  \/ \E p \in People : SignIn(p)
  \/ SignedIn \/ SignOut \/ EndSession \/ SignedOut \/ ReloadPage \/ Expire

TabSpec == TabInit /\ [][TabNext]_tabVars

----------------------------------------------------------------------------
(* Properties                                                              *)

\* The tab never presents a refresh token twice, which would end every session of its
\* owner: requests that fail together share one refresh.  But the restore of a page
\* has a refresh of its own, so two navigations before the first screen, or a reload
\* with a refresh on its way, do it.
ReplayOnlyIfRaced ==
  "replayed" \in past => past \cap {"overlap", "reloaded"} # {}

Left == past \cap {"resumed", "crossed"} # {}

\* The tab's tokens are those of the person who signed in last, and it has none once they
\* signed out.  But clear calls off no refresh (account.ts:40-62): one that is out when
\* somebody signs out, or signs in over it, is accepted all the same, and the next person
\* works in the name of the last.
TokensAreOwn ==
  \/ "resumed" \in past
  \/ /\ tab.access # None => session[tab.access.s].who = tab.front
     /\ tab.stored # None => session[tab.stored.s].who = tab.front

\* So is whoever the tab takes to be there, and whose onboarding it has: unless a load
\* was half way when they left or another came, or another was still known.
KnownIsOwn == Left \/ {tab.me, tab.onboarding} \subseteq {None, tab.front}

\* Whoever is known is shown their own bids once their onboarding is there, and never
\* those of another, or a load is under way.  Nothing clears the investor's store on
\* sign-out, as App.vue:20 does for the back office, so a load that fails leaves the last
\* investor's bids and funds on the screen; and of the two loads of a sign-in the first,
\* without bids, may be answered last.
ShownIsOwn ==
  tab.me # None /\ tab.shown \notin {tab.me} \cup (IF tab.onboarding = None THEN {None} ELSE {}) =>
    IsOut("auctions") \/ IsOut("bids") \/ Left \/ past \cap {"unloaded", "overtaken"} # {}

\* The tab's tokens and what it shows are those of the person in front of it.
TabIsOwn == ReplayOnlyIfRaced /\ TokensAreOwn /\ KnownIsOwn /\ ShownIsOwn

----------------------------------------------------------------------------
(* The inductive invariant                                                 *)

Asks == {"me", "onboarding", "out", "ended"} \cup Loads

TaskRows ==
  {Vacant} \cup [pc : {"asked"}, what : Asks, got : People \cup {None},
                    ends : {None} \cup Tokens]
    \cup [pc : {"joined"}, what : Asks] \cup [pc : {"restoring"}] \cup [pc : {"signing"}, s : Nat]

FetchRows ==
  {Vacant} \cup [pc : {"sent"}, token : Tokens]
    \cup [pc : {"answered"}, token : Tokens, refused : BOOLEAN]

TabRows ==
  [access : {None} \cup Accesses, stored : {None} \cup Tokens, me : People \cup {None},
   onboarding : People \cup {None}, restored : BOOLEAN, screen : {None, "home", "signIn"},
   latest : {None} \cup Navigations, shown : People \cup {None}, front : People \cup {None}]

Pasts == {"resumed", "crossed", "unloaded", "overtaken", "overlap", "reloaded", "replayed"}

\* Of every token that is anywhere the session is known.
Known(token) == token.s \in DOMAIN session

TabTypeOK ==
  /\ session \in Seq([who : People, n : Nat \ {0}, live : BOOLEAN])
  /\ tab \in TabRows /\ task \in [Tasks -> TaskRows] /\ fetch \in [Fetches -> FetchRows]
  /\ adrift \in SUBSET Tokens
  /\ past \in SUBSET Pasts
  /\ events \in Nat
  /\ tab.stored # None => Known(tab.stored)
  /\ tab.access # None => Known(tab.access)
  /\ \A f \in Fetches : fetch[f] # Vacant => Known(fetch[f].token)
  /\ \A token \in adrift : Known(token)
  /\ Doing("signIn", "signing") => Known(task["signIn"])
  /\ Answered("signOut", "out") => task["signOut"].ends # None /\ Known(task["signOut"].ends)

\* A page that has but a refresh token sends no request yet.
FreshIsQuiet ==
  tab.access = None /\ tab.stored # None => \A t \in Tasks : ~Doing(t, "asked")

Raced == past \cap {"overlap", "reloaded"} # {}

Taken(f) == fetch[f] # Vacant

\* A token that is out is the session's good one, and no other of the session is.
OneTokenOut ==
  /\ \A f \in Fetches : Taken(f) =>
       /\ fetch[f].pc = "sent" => session[fetch[f].token.s].n = fetch[f].token.n
       /\ fetch[f].pc = "answered" /\ ~fetch[f].refused =>
            session[fetch[f].token.s].n = fetch[f].token.n + 1
       /\ \A g \in Fetches : Taken(g) /\ f # g => fetch[f].token.s # fetch[g].token.s
       /\ \A token \in adrift : token.s # fetch[f].token.s
  /\ \A token \in adrift :
       /\ session[token.s].n = token.n
       /\ \A other \in adrift : token # other => token.s # other.s

\* The token the tab keeps is good, unless a refresh has presented that very token.
StoredIsGood ==
  tab.stored # None =>
    /\ \A token \in adrift : token.s # tab.stored.s
    /\ \A f \in Fetches : Taken(f) /\ fetch[f].token.s = tab.stored.s => fetch[f].token = tab.stored
    /\ (\A f \in Fetches : Taken(f) => fetch[f].token.s # tab.stored.s) =>
         session[tab.stored.s].n = tab.stored.n
    /\ \A f \in Navigations : Taken(f) /\ fetch[f].token = tab.stored => tab.access = None

\* Of a session that is only being made nobody has a token yet.
NewIsFresh ==
  Doing("signIn", "signing") =>
    /\ session[task["signIn"].s].n = 1
    /\ \A f \in Fetches : Taken(f) => fetch[f].token.s # task["signIn"].s
    /\ \A token \in adrift : token.s # task["signIn"].s
    /\ tab.stored # None => tab.stored.s # task["signIn"].s

TokensStand == "replayed" \notin past /\ OneTokenOut /\ StoredIsGood /\ NewIsFresh

TokensInv == TabTypeOK /\ FreshIsQuiet /\ (Raced \/ TokensStand)

\* A refresh that is out is of the one who is in front, and so is every request.
RefreshesAreOwn ==
  "resumed" \in past \/ \A f \in Fetches : Taken(f) => session[fetch[f].token.s].who = tab.front

RequestsAreOwn ==
  Left \/ \A t \in Tasks : Doing(t, "asked") => task[t].got \in {None, tab.front}

\* A load without the bids is followed by one with them, once there are both.
LoadIsFollowed ==
  tab.me # None /\ tab.onboarding # None /\ IsOut("auctions") =>
    IsOut("bids") \/ Left \/ past \cap {"unloaded", "overtaken"} # {}

OwnInv ==
  TokensAreOwn /\ RefreshesAreOwn /\ RequestsAreOwn /\ KnownIsOwn /\ ShownIsOwn /\ LoadIsFollowed

TabInv == TokensInv /\ OwnInv
=============================================================================
