---------------------------- MODULE Outbox_proofs ----------------------------
(* Proofs about Outbox.tla: whatever relays race, fail and die, what reaches *)
(* the queue was committed, which is what Channel.tla promises of a step.    *)
(* Beside them the proofs about a tab of the portal (Tab) and about the back *)
(* office's desk (Desk).                                                     *)
EXTENDS Outbox, Tab, Desk, WellFoundedInduction, TLAPS

RowState == {"free", "open", "unsent", "sent", "none"}

RelayRow == [pc : {"idle", "claiming", "publishing"}, ids : SUBSET Ids, done : SUBSET Ids]

OutboxTypeOK ==
  /\ row \in [Ids -> RowState]
  /\ relay \in [Relays -> RelayRow]
  /\ queue \subseteq Ids
  /\ order \in Seq(Ids)

Written == In("unsent") \cup In("sent")

\* What a relay has at hand was committed and stays so, whoever marks it sent.
HeldAreWritten == \A r \in Relays : relay[r].ids \subseteq Written /\ relay[r].done \subseteq relay[r].ids

OutboxInv == OutboxTypeOK /\ HeldAreWritten

----------------------------------------------------------------------------
(* The model's operators.                                                   *)

\* The least of some numbers is one of them.
LEMMA LeastIsOne ==
  ASSUME NEW ks, ks \subseteq Nat, ks # {}
  PROVE  Least(ks) \in ks /\ \A j \in ks : Least(ks) <= j
<1> DEFINE Below == {ss \in Nat \X Nat : ss[1] < ss[2]}
<1>1. IsWellFoundedOn(Below, Nat)
  BY NatLessThanWellFounded, Zenon DEF OpToRel
<1>2. PICK k \in ks : \A j \in ks : ~(<<j, k>> \in Below)
  <2> HIDE DEF Below
  <2>1. QED
    BY <1>1, WFMin, Zenon
<1>3. ASSUME NEW j \in ks PROVE k <= j
  <2>1. j \in Nat /\ k \in Nat
    OBVIOUS
  <2>2. j < k => <<j, k>> \in Below
    BY <2>1
  <2>3. QED
    BY <1>2, <2>1, <2>2
<1>4. QED
  BY <1>3 DEF Least

\* What reached the queue once more is added to what reached it before.
LEMMA ReachAdds ==
  ASSUME order \in Seq(Ids), queue \subseteq Ids, NEW k \in Ids, Reach(k)
  PROVE  order' \in Seq(Ids) /\ queue' \subseteq Ids /\ Reached' = Reached \cup {k}
<1>1. CASE k \in Reached
  BY <1>1 DEF Reach, Reached
<1>2. CASE k \notin Reached
  <2>1. order' = Append(order, k)
    BY <1>2 DEF Reach
  <2>2. order' \in Seq(Ids) /\ DOMAIN order = 1..Len(order) /\ Len(order) \in Nat
    BY <2>1
  <2>3. DOMAIN order' = 1..(Len(order) + 1)
    BY <2>1
  <2>4. \A n \in 1..Len(order) : order'[n] = order[n]
    BY <2>1
  <2>5. order'[Len(order) + 1] = k
    BY <2>1
  <2>6. \A n : n \in DOMAIN order' <=> n \in DOMAIN order \/ n = Len(order) + 1
    BY <2>2, <2>3
  <2>7. \A x : x \in Reached' <=> x \in Reached \cup {k}
    BY <2>2, <2>4, <2>5, <2>6 DEF Reached
  <2>8. QED
    BY <2>2, <2>7 DEF Reach
<1>3. QED
  BY <1>1, <1>2

\* A row that changes otherwise than from or to committed leaves what was written.
LEMMA SameWritten ==
  ASSUME OutboxTypeOK, NEW k \in Ids, NEW state \in RowState \ {"unsent", "sent"},
         k \notin Written, row' = [row EXCEPT ![k] = state]
  PROVE  row' \in [Ids -> RowState] /\ Written' = Written
BY DEF OutboxTypeOK, Written, In

\* Handing over what has relays and rows as they should be.
LEMMA HeldStay ==
  ASSUME OutboxInv, Written \subseteq Written', row' \in [Ids -> RowState],
         NEW r \in Relays, NEW state \in RelayRow, Become(r, state),
         state.ids \subseteq Written, state.done \subseteq state.ids,
         queue' \subseteq Ids, order' \in Seq(Ids)
  PROVE  OutboxInv'
<1>1. relay' \in [Relays -> RelayRow] /\ relay'[r] = state
  BY DEF OutboxInv, OutboxTypeOK, Become
<1>2. \A o \in Relays \ {r} : relay'[o] = relay[o]
  BY DEF OutboxInv, OutboxTypeOK, Become
<1>3. OutboxTypeOK'
  BY <1>1 DEF OutboxTypeOK
<1>4. \A o \in Relays : relay'[o].ids \subseteq Written' /\ relay'[o].done \subseteq relay'[o].ids
  BY <1>1, <1>2 DEF OutboxInv, HeldAreWritten
<1>5. QED
  BY <1>3, <1>4 DEF OutboxInv, HeldAreWritten

\* A relay that publishes publishes something it has at hand.
LEMMA NextIsHeld ==
  ASSUME OutboxInv, NEW r \in Relays, Rest(r) # {}
  PROVE  /\ Least(Rest(r)) \in relay[r].ids
         /\ Least(Rest(r)) \in Written
         /\ Least(Rest(r)) \in Ids
<1>1. relay[r] \in RelayRow /\ relay[r].ids \subseteq Ids
  BY DEF OutboxInv, OutboxTypeOK, RelayRow
<1>2. Ids \subseteq Nat
  BY OutboxAssumption DEF Ids
<1>3. Least(Rest(r)) \in Rest(r)
  BY <1>1, <1>2, LeastIsOne DEF Rest
<1>4. QED
  BY <1>1, <1>3 DEF Rest, OutboxInv, HeldAreWritten

----------------------------------------------------------------------------
(* Every step, what it leaves of the invariant and what it is of the channel. *)

\* A transaction that begins, commits or fails.
LEMMA WriterStep ==
  ASSUME OutboxInv, Insert \/ \E k \in Ids : Commit(k) \/ Rollback(k)
  PROVE  OutboxInv' /\ [Promise!ChannelNext]_<<Written, Reached, queue>>
<1> relay' = relay /\ queue' = queue /\ order' = order /\ Reached' = Reached
  BY DEF Insert, Commit, Rollback, Reached
<1>1. CASE Insert
  <2>1. Least(In("free")) \in In("free")
    BY <1>1, LeastIsOne, OutboxAssumption DEF Insert, In, Ids
  <2>2. PICK k \in Ids : k = Least(In("free")) /\ row[k] = "free"
    BY <2>1 DEF In
  <2>3. k \notin Written /\ row' = [row EXCEPT ![k] = "open"]
    BY <1>1, <2>2 DEF Written, In, Insert
  <2>4. row' \in [Ids -> RowState] /\ Written' = Written
    BY <2>3, SameWritten DEF OutboxInv, RowState
  <2>5. QED
    BY <2>4 DEF OutboxInv, OutboxTypeOK, HeldAreWritten
<1>2. ASSUME NEW k \in Ids, Commit(k) PROVE OutboxInv' /\ [Promise!ChannelNext]_<<Written, Reached, queue>>
  <2>1. row' \in [Ids -> RowState] /\ Written' = Written \cup {k} /\ k \notin Written
    BY <1>2 DEF OutboxInv, OutboxTypeOK, Commit, Written, In, RowState
  <2>2. Promise!Write({k})
    BY <2>1 DEF Promise!Write, Written
  <2>3. Promise!ChannelNext
    BY <2>2 DEF Promise!ChannelNext
  <2>4. QED
    BY <2>1, <2>3 DEF OutboxInv, OutboxTypeOK, HeldAreWritten
<1>3. ASSUME NEW k \in Ids, Rollback(k) PROVE OutboxInv' /\ [Promise!ChannelNext]_<<Written, Reached, queue>>
  <2>1. k \notin Written /\ row' = [row EXCEPT ![k] = "none"]
    BY <1>3 DEF Rollback, Written, In
  <2>2. row' \in [Ids -> RowState] /\ Written' = Written
    BY <2>1, SameWritten DEF OutboxInv, RowState
  <2>3. QED
    BY <2>2 DEF OutboxInv, OutboxTypeOK, HeldAreWritten
<1>4. QED
  BY <1>1, <1>2, <1>3

\* A claim takes rows that were committed.
LEMMA ClaimStep ==
  ASSUME OutboxInv, NEW r \in Relays, Claim(r) \/ Claimed(r) \/ RelayDies(r)
  PROVE  OutboxInv' /\ UNCHANGED <<Written, Reached, queue>>
<1> row' = row /\ queue' = queue /\ order' = order
  BY DEF Claim, ClaimThese, Claimed, RelayDies
<1>1. Written' = Written /\ Reached' = Reached
  BY DEF Written, In, Reached
<1>2. row \in [Ids -> RowState] /\ queue \subseteq Ids /\ order \in Seq(Ids) /\ relay[r] \in RelayRow
  BY DEF OutboxInv, OutboxTypeOK
<1>3. CASE Claim(r)
  <2>1. PICK ks : ks = Oldest(Claimable)
    OBVIOUS
  <2>2. ks \subseteq Written /\ ks \subseteq Ids
    BY <2>1 DEF Oldest, Claimable, Written, In
  <2>3. PICK state : state = [pc |-> "claiming", ids |-> ks, done |-> {}]
    OBVIOUS
  <2>4. Become(r, state)
    BY <1>3, <2>1, <2>3 DEF Claim, ClaimThese
  <2>5. state \in RelayRow /\ state.ids = ks /\ state.done = {}
    BY <2>2, <2>3 DEF RelayRow
  <2>6. QED
    BY <1>1, <1>2, <2>2, <2>4, <2>5, HeldStay
<1>4. CASE Claimed(r)
  <2>1. PICK state : state = [relay[r] EXCEPT !.pc = "publishing"]
    OBVIOUS
  <2>2. state \in RelayRow /\ state.ids = relay[r].ids /\ state.done = relay[r].done
    BY <1>2, <2>1 DEF RelayRow
  <2>3. Become(r, state)
    BY <1>4, <2>1 DEF Claimed
  <2>4. state.ids \subseteq Written /\ state.done \subseteq state.ids
    BY <2>2 DEF OutboxInv, HeldAreWritten
  <2>5. QED
    BY <1>1, <1>2, <2>2, <2>3, <2>4, HeldStay
<1>5. CASE RelayDies(r)
  <2>1. PICK state : state = Idle
    OBVIOUS
  <2>2. state \in RelayRow /\ state.ids = {} /\ state.done = {}
    BY <2>1 DEF RelayRow, Idle
  <2>3. Become(r, state)
    BY <1>5, <2>1 DEF RelayDies
  <2>4. QED
    BY <1>1, <1>2, <2>2, <2>3, HeldStay
<1>6. QED
  BY <1>1, <1>3, <1>4, <1>5

\* One row is handed to the broker, or was before an error came back.
LEMMA PublishStep ==
  ASSUME OutboxInv, NEW r \in Relays, Publish(r) \/ PublishFails(r)
  PROVE  OutboxInv' /\ [Promise!ChannelNext]_<<Written, Reached, queue>>
<1> row' = row /\ Rest(r) # {}
  BY DEF Publish, PublishFails, PublishFailsTo
<1>1. Written' = Written
  BY DEF Written, In
<1>2. row \in [Ids -> RowState] /\ queue \subseteq Ids /\ order \in Seq(Ids)
  BY DEF OutboxInv, OutboxTypeOK
<1> PICK k : k = Least(Rest(r))
  OBVIOUS
<1>3. k \in Ids /\ k \in Written /\ k \in relay[r].ids
  BY NextIsHeld
<1>4. relay[r] \in RelayRow /\ relay[r].ids \subseteq Written /\ relay[r].done \subseteq relay[r].ids
  BY DEF OutboxInv, OutboxTypeOK, HeldAreWritten
<1>5. \/ queue' = queue /\ order' = order /\ Reached' = Reached
      \/ /\ queue' \subseteq Ids /\ order' \in Seq(Ids)
         /\ Promise!Reach(k)
  <2>1. Reach(k) \/ UNCHANGED <<queue, order>>
    BY DEF Publish, PublishFails, PublishFailsTo
  <2>2. CASE Reach(k)
    <3>1. order' \in Seq(Ids) /\ queue' \subseteq Ids /\ Reached' = Reached \cup {k}
      BY <1>2, <1>3, <2>2, ReachAdds
    <3>2. Promise!Reach(k)
      BY <1>1, <1>3, <2>2, <3>1 DEF Promise!Reach, Reach, Written
    <3>3. QED
      BY <3>1, <3>2
  <2>3. QED
    BY <2>1, <2>2 DEF Reached
<1>6. PICK state : /\ Become(r, state)
                   /\ \/ state = [relay[r] EXCEPT !.done = @ \cup {k}]
                      \/ state = [relay[r] EXCEPT !.ids = relay[r].done]
                      \/ state = Idle
  BY DEF Publish, PublishFails, PublishFailsTo
<1>7. state \in RelayRow /\ state.ids \subseteq Written /\ state.done \subseteq state.ids
  <2>1. CASE state = [relay[r] EXCEPT !.done = @ \cup {k}]
    BY <1>3, <1>4, <2>1 DEF RelayRow
  <2>2. CASE state = [relay[r] EXCEPT !.ids = relay[r].done]
    BY <1>3, <1>4, <2>2 DEF RelayRow
  <2>3. CASE state = Idle
    BY <2>3 DEF RelayRow, Idle
  <2>4. QED
    BY <1>6, <2>1, <2>2, <2>3
<1>8. queue' \subseteq Ids /\ order' \in Seq(Ids)
  BY <1>2, <1>5
<1>9. OutboxInv'
  BY <1>1, <1>2, <1>6, <1>7, <1>8, HeldStay
<1>10. QED
  BY <1>1, <1>3, <1>5, <1>9 DEF Promise!ChannelNext, Written

\* What was published is marked.
LEMMA MarkStep ==
  ASSUME OutboxInv, NEW r \in Relays, MarkSent(r)
  PROVE  OutboxInv' /\ UNCHANGED <<Written, Reached, queue>>
<1>1. relay[r] \in RelayRow /\ relay[r].done \subseteq Written
  BY DEF OutboxInv, OutboxTypeOK, HeldAreWritten
<1>2. row' = [k \in Ids |-> IF k \in relay[r].done THEN "sent" ELSE row[k]]
  BY DEF MarkSent, MarkThese
<1>3. row' \in [Ids -> RowState]
  BY <1>2 DEF OutboxInv, OutboxTypeOK, RowState
<1>4. Written' = Written
  BY <1>1, <1>2 DEF Written, In
<1>5. queue' = queue /\ order' = order /\ Reached' = Reached /\ queue \subseteq Ids /\ order \in Seq(Ids)
  BY DEF MarkSent, MarkThese, Reached, OutboxInv, OutboxTypeOK
<1>6. PICK state : state = Idle
  OBVIOUS
<1>7. state \in RelayRow /\ state.ids = {} /\ state.done = {}
  BY <1>6 DEF RelayRow, Idle
<1>8. Become(r, state)
  BY <1>6 DEF MarkSent, MarkThese
<1>9. QED
  BY <1>3, <1>4, <1>5, <1>7, <1>8, HeldStay

\* The consumer takes a message out of its queue.
LEMMA AckStep ==
  ASSUME OutboxInv, NEW k \in Ids, Ack(k)
  PROVE  OutboxInv' /\ Promise!Ack(k)
<1>1. row' = row /\ relay' = relay /\ order' = order /\ queue' \subseteq Ids
  BY DEF Ack, OutboxInv, OutboxTypeOK
<1>2. Written' = Written /\ Reached' = Reached
  BY <1>1 DEF Written, In, Reached
<1>3. QED
  BY <1>1, <1>2 DEF OutboxInv, OutboxTypeOK, HeldAreWritten, Ack, Promise!Ack, Written

\* Every step keeps the invariant, and is a step of the channel or none.
LEMMA StepIsOfChannel ==
  OutboxInv /\ [Next]_vars => OutboxInv' /\ [Promise!ChannelNext]_<<Written, Reached, queue>>
<1> SUFFICES ASSUME OutboxInv, [Next]_vars
             PROVE  OutboxInv' /\ [Promise!ChannelNext]_<<Written, Reached, queue>>
  OBVIOUS
<1>1. CASE Insert \/ \E k \in Ids : Commit(k) \/ Rollback(k)
  BY <1>1, WriterStep
<1>2. CASE \E k \in Ids : Ack(k)
  BY <1>2, AckStep DEF Promise!ChannelNext
<1>3. CASE \E r \in Relays : RelayWork(r) \/ PublishFails(r) \/ RelayDies(r)
  BY <1>3, ClaimStep, PublishStep, MarkStep DEF RelayWork
<1>4. CASE UNCHANGED vars
  BY <1>4 DEF vars, OutboxInv, OutboxTypeOK, HeldAreWritten, Written, In, Reached
<1>5. QED
  BY <1>1, <1>2, <1>3, <1>4 DEF Next

----------------------------------------------------------------------------
(* The theorem.                                                             *)

\* The outbox implements the channel's promise of a step: an event reaches the queue
\* only after the transaction that wrote it committed, and what reached it stays so.
\* That each does reach it needs fairness, and is checked by a run.
THEOREM OutboxIsChannel == OutboxSpec => Promise!Safely
<1>1. OutboxInit => OutboxInv /\ Promise!ChannelInit
  <2> SUFFICES ASSUME OutboxInit PROVE OutboxInv /\ Promise!ChannelInit
    OBVIOUS
  <2>1. Idle \in RelayRow /\ Idle.ids = {} /\ Idle.done = {}
    BY DEF Idle, RelayRow
  <2>2. OutboxTypeOK
    BY <2>1 DEF OutboxInit, OutboxTypeOK, RowState
  <2>3. HeldAreWritten
    BY <2>1 DEF OutboxInit, HeldAreWritten
  <2>4. QED
    BY <2>2, <2>3 DEF OutboxInv, OutboxInit, Promise!ChannelInit, In, Reached
<1>2. QED
  BY <1>1, StepIsOfChannel, PTL DEF OutboxSpec, Promise!Safely, Promise!channel, Written

----------------------------------------------------------------------------
(* A tab of the portal: its tokens, and whose data it shows.                *)

LEMMA NoneIsNobody ==
  /\ None \notin People /\ \A token \in Tokens : token # None
  /\ \A access \in Accesses : access # None
BY TabAssumption

LEMMA TabNames ==
  /\ Navigations \subseteq Tasks /\ Loads \subseteq Tasks /\ Navigations \subseteq Fetches
  /\ "signIn" \in Tasks /\ "signOut" \in Tasks /\ "shared" \in Fetches
  /\ "signIn" \notin Loads /\ "signOut" \notin Loads /\ "shared" \notin Navigations
  /\ "signIn" \notin Navigations /\ "signOut" \notin Navigations
  /\ "auctions" \in Loads /\ "bids" \in Loads
  /\ \A t \in Navigations : t \notin Loads
  /\ \A t \in Tasks : t \in Navigations \/ t \in Loads \/ t \in {"signIn", "signOut"}
  /\ \A t \in Loads : t \in {"auctions", "bids"}
  /\ \A f \in Fetches : f \in Navigations \/ f = "shared"
  /\ {"me", "onboarding", "out", "ended", "auctions", "bids"} \subseteq Asks
BY DEF Navigations, Loads, Tasks, Fetches, Asks

LEMMA TaskRowFacts ==
  /\ Vacant \in TaskRows /\ [pc |-> "restoring"] \in TaskRows /\ [pc |-> "restoring"] # Vacant
  /\ \A what \in Asks : /\ [pc |-> "joined", what |-> what] \in TaskRows
                             /\ [pc |-> "joined", what |-> what] # Vacant
  /\ \A entry \in TaskRows : entry.pc = "asked" =>
       /\ entry \in [pc : {"asked"}, what : Asks, got : People \cup {None}, ends : {None} \cup Tokens]
       /\ entry # Vacant
  /\ \A entry \in TaskRows : entry.pc = "signing" => entry \in [pc : {"signing"}, s : Nat]
  /\ \A entry \in TaskRows : entry.pc = "joined" => entry # Vacant /\ entry.what \in Asks
  /\ Vacant.pc = "idle"
BY DEF TaskRows, Vacant

LEMMA FetchRowFacts ==
  /\ Vacant \in FetchRows
  /\ \A entry \in FetchRows : entry # Vacant => entry.token \in Tokens /\ entry.pc \in {"sent", "answered"}
  /\ \A entry \in FetchRows : entry.pc \in {"sent", "answered"} => entry # Vacant
  /\ \A entry \in FetchRows : entry.pc = "answered" => entry.refused \in BOOLEAN
  /\ \A token \in Tokens : /\ [pc |-> "sent", token |-> token] \in FetchRows
                           /\ [pc |-> "sent", token |-> token] # Vacant
  /\ \A token \in Tokens, b \in BOOLEAN :
       /\ [pc |-> "answered", token |-> token, refused |-> b] \in FetchRows
       /\ [pc |-> "answered", token |-> token, refused |-> b] # Vacant
BY DEF FetchRows, Vacant

\* What of a tab is not its screen.
Kept(tb) == <<tb.access, tb.stored, tb.me, tb.onboarding, tb.shown, tb.front>>

\* A screen is of who is there; what the tab keeps is the same.
LEMMA ScreenFacts ==
  ASSUME NEW tb \in TabRows, NEW nav \in Navigations
  PROVE  /\ Shown(tb, nav) \in TabRows /\ Kept(Shown(tb, nav)) = Kept(tb)
         /\ Restored(tb, nav) \in TabRows /\ Kept(Restored(tb, nav)) = Kept(tb)
<1>1. ASSUME NEW entry \in TabRows
      PROVE  Shown(entry, nav) \in TabRows /\ Kept(Shown(entry, nav)) = Kept(entry)
  <2>1. PICK screen \in {"home", "signIn"} :
          Shown(entry, nav) = IF entry.latest = nav THEN [entry EXCEPT !.screen = screen] ELSE entry
    BY DEF Shown
  <2>2. [entry EXCEPT !.screen = screen] \in TabRows
    BY DEF TabRows
  <2> QED
    BY <2>1, <2>2 DEF TabRows, Kept
<1> DEFINE entry == [tb EXCEPT !.restored = TRUE]
<1>2. entry \in TabRows /\ Kept(entry) = Kept(tb)
  BY DEF TabRows, Kept
<1>3. Restored(tb, nav) = Shown(entry, nav)
  BY DEF Restored
<1> HIDE DEF entry
<1> QED
  BY <1>1, <1>2, <1>3

LEMMA ClearedFacts ==
  ASSUME tab \in TabRows
  PROVE  /\ Cleared \in TabRows
         /\ Kept(Cleared) = <<None, None, None, None, tab.shown, tab.front>>
         /\ SignedOff \in TabRows
         /\ Kept(SignedOff) = <<None, None, None, None, tab.shown, None>>
         /\ [SignedOff EXCEPT !.screen = "signIn"] \in TabRows
         /\ Kept([SignedOff EXCEPT !.screen = "signIn"]) = <<None, None, None, None, tab.shown, None>>
<1>1. Cleared \in TabRows /\ Kept(Cleared) = <<None, None, None, None, tab.shown, tab.front>>
  BY DEF Cleared, TabRows, Kept
<1>2. /\ SignedOff \in TabRows
      /\ Kept(SignedOff) = <<None, None, None, None, tab.shown, None>>
  BY <1>1 DEF SignedOff, TabRows, Kept
<1> QED
  BY <1>1, <1>2 DEF TabRows, Kept

LEMMA AcceptedFacts ==
  ASSUME tab \in TabRows, NEW s \in Nat, NEW n \in Nat \ {0}
  PROVE  /\ Accepted(s, n) \in TabRows /\ Accepted(s, n).access = [s |-> s, n |-> n, stale |-> FALSE]
         /\ Accepted(s, n).stored = [s |-> s, n |-> n] /\ [s |-> s, n |-> n] \in Tokens
         /\ [s |-> s, n |-> n, stale |-> FALSE] \in Accesses
         /\ Accepted(s, n).me = tab.me /\ Accepted(s, n).onboarding = tab.onboarding
         /\ Accepted(s, n).shown = tab.shown /\ Accepted(s, n).front = tab.front
<1>1. [s |-> s, n |-> n] \in Tokens /\ [s |-> s, n |-> n, stale |-> FALSE] \in Accesses
  BY DEF Tokens, Accesses
<1> QED
  BY <1>1 DEF Accepted, TabRows

LEMMA EntryOf ==
  ASSUME NEW R, NEW x \in Seq(R), NEW i \in DOMAIN x
  PROVE  x[i] \in R /\ i \in 1..Len(x) /\ DOMAIN x = 1..Len(x) /\ Len(x) \in Nat
<1>1. x \in [1..Len(x) -> R] /\ Len(x) \in Nat
  OBVIOUS
<1> QED
  BY <1>1

LEMMA SequenceOf ==
  ASSUME NEW R, NEW n \in Nat, NEW x \in [1..n -> R]
  PROVE  x \in Seq(R) /\ DOMAIN x = 1..n
OBVIOUS

\* Of a request to sign out that somebody answers the session is known.
AsksWell(entry) ==
  entry.pc = "asked" /\ entry.what = "out" /\ entry.got # None => entry.ends # None /\ Known(entry.ends)

\* A request is of somebody or of nobody.
LEMMA AskedFacts ==
  ASSUME TabTypeOK, NEW tb \in TabRows, tb.access # None => Known(tb.access), NEW what \in Asks
  PROVE  /\ Asked(tb, what) \in TaskRows /\ Asked(tb, what).pc = "asked" /\ Asked(tb, what) # Vacant
         /\ Asked(tb, what).what = what /\ Asked(tb, what).got = Sender(tb) /\ AsksWell(Asked(tb, what))
         /\ Sender(tb) # None => tb.access # None /\ Sender(tb) = session[tb.access.s].who
<1>1. Sender(tb) \in People \cup {None}
  <2>1. ASSUME NEW s \in DOMAIN session PROVE session[s].who \in People
    <3>1. session[s] \in [who : People, n : Nat \ {0}, live : BOOLEAN]
      BY <2>1, EntryOf DEF TabTypeOK
    <3> QED
      BY <3>1
  <2>2. tb.access # None => tb.access.s \in DOMAIN session
    BY DEF Known
  <2> QED
    BY <2>1, <2>2 DEF Sender
<1>2. Sender(tb) # None => /\ tb.access # None /\ tb.access \in Accesses /\ Known(tb.access)
                           /\ Sender(tb) = session[tb.access.s].who
  BY DEF Sender, TabRows
<1>3. Sender(tb) # None =>
        [s |-> tb.access.s, n |-> tb.access.n] \in Tokens /\ Known([s |-> tb.access.s, n |-> tb.access.n])
  BY <1>2 DEF Accesses, Tokens, Known
<1>4. /\ Ends(tb, what) \in {None} \cup Tokens
      /\ what = "out" /\ Sender(tb) # None => Ends(tb, what) # None /\ Known(Ends(tb, what))
  BY <1>3, NoneIsNobody DEF Ends
<1> DEFINE entry == [pc |-> "asked", what |-> what, got |-> Sender(tb), ends |-> Ends(tb, what)]
<1>5. entry \in TaskRows /\ entry.pc = "asked" /\ entry.what = what /\ entry.got = Sender(tb)
      /\ entry.ends = Ends(tb, what)
  BY <1>1, <1>4 DEF TaskRows
<1>6. Asked(tb, what) = entry
  BY DEF Asked
<1> HIDE DEF entry
<1> QED
  BY <1>2, <1>4, <1>5, <1>6, TaskRowFacts DEF AsksWell

\* A load is begun when somebody, or their onboarding, is there that was not before.
LEMMA LoadingFacts ==
  ASSUME TabTypeOK, NEW tasks \in [Tasks -> TaskRows], NEW tb \in TabRows,
         tb.access # None => Known(tb.access)
  PROVE  /\ Loading(tasks, tb) \in [Tasks -> TaskRows]
         /\ LoadOf(tb) \in Loads
         /\ \A t \in Tasks : ~MustLoad(tb) \/ t # LoadOf(tb) => Loading(tasks, tb)[t] = tasks[t]
         /\ MustLoad(tb) => Loading(tasks, tb)[LoadOf(tb)] = Asked(tb, LoadOf(tb))
         /\ \A t \in Tasks : t \notin Loads => Loading(tasks, tb)[t] = tasks[t]
<1>1. LoadOf(tb) \in Loads /\ LoadOf(tb) \in Tasks /\ LoadOf(tb) \in Asks
  BY TabNames DEF LoadOf
<1>2. Asked(tb, LoadOf(tb)) \in TaskRows
  BY <1>1, AskedFacts
<1> QED
  BY <1>1, <1>2 DEF Loading

----------------------------------------------------------------------------
\* Whose tokens and requests these are.

\* The sessions of the tokens that the tab keeps or has sent.
InUse(s) ==
  \/ tab.stored # None /\ s = tab.stored.s
  \/ tab.access # None /\ s = tab.access.s
  \/ \E f \in Fetches : Taken(f) /\ s = fetch[f].token.s

LEMMA InUseAreOwn ==
  ASSUME TabInv, "resumed" \notin past, NEW s, InUse(s)
  PROVE  session[s].who = tab.front /\ s \in DOMAIN session
BY DEF TabInv, TokensInv, TabTypeOK, Known, OwnInv, TokensAreOwn, RefreshesAreOwn, InUse, Taken

\* The person in front of the tab stays, and so does whose every session is.
FrontStays ==
  /\ tab'.front = tab.front /\ past \subseteq past'
  /\ \A s \in DOMAIN session : session'[s].who = session[s].who

LEMMA TokensStayOwn ==
  ASSUME TabInv, FrontStays,
         tab'.stored # None => InUse(tab'.stored.s), tab'.access # None => InUse(tab'.access.s),
         \A f \in Fetches : fetch'[f] # Vacant => InUse(fetch'[f].token.s)
  PROVE  TokensAreOwn' /\ RefreshesAreOwn'
<1>1. CASE "resumed" \in past
  BY <1>1 DEF TokensAreOwn, RefreshesAreOwn, FrontStays
<1>2. CASE "resumed" \notin past
  <2>1. \A s : InUse(s) => session'[s].who = tab'.front
    BY <1>2, InUseAreOwn DEF FrontStays
  <2> QED
    BY <2>1 DEF TokensAreOwn, RefreshesAreOwn, Taken
<1> QED
  BY <1>1, <1>2

LEMMA RequestsStayOwn ==
  ASSUME TabInv, FrontStays,
         \A t \in Tasks : task'[t].pc = "asked" =>
           \/ task'[t].got = None
           \/ task[t].pc = "asked" /\ task'[t].got = task[t].got
           \/ \E s : InUse(s) /\ task'[t].got = session[s].who
  PROVE  RequestsAreOwn'
<1>1. CASE Left
  BY <1>1 DEF RequestsAreOwn, Left, FrontStays
<1>2. CASE ~Left
  <2>1. \A s : InUse(s) => session[s].who = tab.front
    BY <1>2, InUseAreOwn DEF Left
  <2>2. \A t \in Tasks : Doing(t, "asked") => task[t].got \in {None, tab.front}
    BY <1>2 DEF TabInv, OwnInv, RequestsAreOwn
  <2> QED
    BY <2>1, <2>2 DEF RequestsAreOwn, Doing, FrontStays
<1> QED
  BY <1>1, <1>2

LEMMA KnownStaysOwn ==
  ASSUME TabInv, tab'.front = tab.front, past \subseteq past',
         tab'.me \in {None, tab.me} \/ \E t \in Tasks : Doing(t, "asked") /\ tab'.me = task[t].got,
         \/ tab'.onboarding \in {None, tab.onboarding}
         \/ \E t \in Tasks : Doing(t, "asked") /\ tab'.onboarding = task[t].got
  PROVE  KnownIsOwn'
BY DEF TabInv, OwnInv, KnownIsOwn, RequestsAreOwn, Left

\* What is shown, where it stays and no load is over, or nobody is known.
LEMMA ShownStaysOwn ==
  ASSUME TabInv, past \subseteq past',
         \/ tab'.me = None
         \/ /\ tab'.me = tab.me /\ tab'.onboarding = tab.onboarding /\ tab'.shown = tab.shown
            /\ \A load \in Loads : IsOut(load) => IsOut(load)'
            /\ IsOut("auctions")' => IsOut("auctions")
         \/ "unloaded" \in past'
  PROVE  ShownIsOwn' /\ LoadIsFollowed'
<1>1. CASE tab'.me = None \/ "unloaded" \in past'
  BY <1>1 DEF ShownIsOwn, LoadIsFollowed
<1>2. CASE /\ tab'.me = tab.me /\ tab'.onboarding = tab.onboarding /\ tab'.shown = tab.shown
           /\ \A load \in Loads : IsOut(load) => IsOut(load)'
           /\ IsOut("auctions")' => IsOut("auctions")
  <2>1. /\ past \cap {"unloaded", "overtaken"} # {} => past' \cap {"unloaded", "overtaken"} # {}
        /\ Left => Left'
    BY DEF Left
  <2>2. /\ IsOut("auctions") => IsOut("auctions")'
        /\ IsOut("bids") => IsOut("bids")'
    BY <1>2, TabNames
  <2>3. ShownIsOwn /\ LoadIsFollowed
    BY DEF TabInv, OwnInv
  <2>4. ShownIsOwn'
    BY <1>2, <2>1, <2>2, <2>3 DEF ShownIsOwn
  <2>5. LoadIsFollowed'
    BY <1>2, <2>1, <2>2, <2>3 DEF LoadIsFollowed
  <2> QED
    BY <2>4, <2>5
<1> QED
  BY <1>1, <1>2

\* Somebody leaves: whatever of theirs is still out is in the history.
LEMMA LeftIsOwn ==
  ASSUME TabInv, NEW tasks, NEW fetches,
         tab'.me = None, tab'.access = None, tab'.stored = None, tab'.onboarding = None,
         past \cup Crossing("signOut", tasks, fetches) \subseteq past',
         \A f \in Fetches : fetch'[f] # Vacant => fetches[f] # Vacant,
         \A t \in Tasks : task'[t].pc = "asked" => t # "signOut" /\ tasks[t].pc = "asked"
  PROVE  OwnInv'
<1>1. TokensAreOwn' /\ KnownIsOwn'
  BY DEF TokensAreOwn, KnownIsOwn
<1>2. RefreshesAreOwn'
  BY DEF RefreshesAreOwn, Crossing, Taken
<1>3. RequestsAreOwn'
  BY DEF RequestsAreOwn, Crossing, Awaits, Doing, Left
<1>4. ShownIsOwn' /\ LoadIsFollowed'
  BY DEF ShownIsOwn, LoadIsFollowed
<1> QED
  BY <1>1, <1>2, <1>3, <1>4 DEF OwnInv

----------------------------------------------------------------------------
\* The requests.

\* What leaves identity, the refreshes and what is adrift as they are.
LEMMA TokensStay ==
  ASSUME TokensInv, UNCHANGED <<session, fetch, adrift>>,
         past \subseteq past', "replayed" \in past' => "replayed" \in past,
         tab'.stored \in {None, tab.stored},
         tab'.stored # None /\ tab.access = None => tab'.access = None,
         Doing("signIn", "signing")' => task'["signIn"] = task["signIn"]
  PROVE  (Raced \/ TokensStand)'
<1>1. CASE Raced
  BY <1>1 DEF Raced
<1>2. CASE TokensStand
  <2>1. OneTokenOut'
    BY <1>2 DEF TokensStand, OneTokenOut, Taken
  <2>2. StoredIsGood'
    <3>1. CASE tab'.stored = None
      BY <3>1 DEF StoredIsGood
    <3>2. CASE tab'.stored # None
      <4>1. tab'.stored = tab.stored /\ tab.stored # None
        BY <3>2
      <4> QED
        BY <1>2, <4>1 DEF TokensStand, StoredIsGood, Taken
    <3> QED
      BY <3>1, <3>2
  <2>3. NewIsFresh'
    <3>1. ASSUME task'["signIn"].pc = "signing"
          PROVE  task'["signIn"] = task["signIn"] /\ Doing("signIn", "signing")
      BY <3>1 DEF Doing
    <3> QED
      BY <1>2, <3>1 DEF TokensStand, NewIsFresh, Taken, Doing
  <2> QED
    BY <1>2, <2>1, <2>2, <2>3 DEF TokensStand
<1> QED
  BY <1>1, <1>2 DEF TokensInv

\* The type of what changes the tab and its tasks alone.
LEMMA TypeStays ==
  ASSUME TabTypeOK, UNCHANGED <<session, fetch, adrift>>, tab' \in TabRows,
         task' \in [Tasks -> TaskRows], events' \in Nat, past' \in SUBSET Pasts,
         tab'.stored \in {None, tab.stored},
         tab'.access # None => tab.access # None /\ tab'.access.s = tab.access.s,
         Doing("signIn", "signing")' => task'["signIn"] = task["signIn"],
         AsksWell(task'["signOut"])
  PROVE  TabTypeOK'
BY DEF TabTypeOK, Known, Doing, Answered, AsksWell

\* A task that is answered, and what of the tab its answer changes: the tokens stay.
LEMMA AnsweredHolds ==
  ASSUME TabInv, NEW t \in Tasks, Doing(t, "asked"), tab' \in TabRows,
         tab'.access = tab.access, tab'.stored = tab.stored, tab'.front = tab.front,
         task' \in [Tasks -> TaskRows], AsksWell(task'["signOut"]),
         task'["signIn"].pc # "signing" \/ task'["signIn"] = task["signIn"],
         \A u \in Tasks : task'[u].pc = "asked" =>
           task'[u] = task[u] \/ task'[u].got = Sender(tab),
         UNCHANGED <<session, fetch, adrift, events>>, past \subseteq past', past' \subseteq past \cup {"overtaken"}
  PROVE  TokensInv' /\ TokensAreOwn' /\ RefreshesAreOwn' /\ RequestsAreOwn'
<1>1. TabTypeOK /\ TokensInv
  BY DEF TabInv, TokensInv
<1>2. past' \in SUBSET Pasts /\ events' \in Nat /\ ("replayed" \in past' => "replayed" \in past)
  BY <1>1 DEF TabTypeOK, Pasts
<1>3. Doing("signIn", "signing")' => task'["signIn"] = task["signIn"]
  BY DEF Doing
<1>4. TabTypeOK'
  BY <1>1, <1>2, <1>3, TypeStays
<1>5. FreshIsQuiet'
  BY <1>1 DEF TokensInv, FreshIsQuiet
<1>6. (Raced \/ TokensStand)'
  BY <1>1, <1>2, <1>3, TokensStay
<1>7. FrontStays
  BY DEF FrontStays
<1>8. TokensAreOwn' /\ RefreshesAreOwn'
  BY <1>7, TokensStayOwn DEF InUse, Taken
<1>9. RequestsAreOwn'
  <2>1. Sender(tab) # None => tab.access # None /\ Sender(tab) = session[tab.access.s].who
    BY DEF Sender
  <2> QED
    BY <1>7, <2>1, RequestsStayOwn DEF InUse
<1> QED
  BY <1>4, <1>5, <1>6, <1>8, <1>9 DEF TokensInv

LEMMA MeKnownHolds ==
  ASSUME TabInv, NEW t \in Navigations \cup {"signIn"}, MeKnown(t)
  PROVE  TabInv'
<1> DEFINE p == task[t].got
           tb == [tab EXCEPT !.me = p]
           next == Asked(tab, "onboarding")
           rest == [task EXCEPT ![t] = next]
<1>1. /\ Doing(t, "asked") /\ p # None /\ tab' = tb /\ task' = Loading(rest, tb)
      /\ UNCHANGED <<session, fetch, adrift, past, events>>
  BY DEF MeKnown, Answered
<1>2. /\ TabTypeOK /\ tab \in TabRows /\ task \in [Tasks -> TaskRows] /\ t \in Tasks /\ t \notin Loads
      /\ t # "signOut" /\ (tab.access # None => Known(tab.access))
  BY TabNames DEF TabInv, TokensInv, TabTypeOK
<1>3. p \in People
  BY <1>1, <1>2, TaskRowFacts DEF Doing
<1>4. /\ tb \in TabRows /\ tb.access = tab.access /\ tb.stored = tab.stored /\ tb.me = p
      /\ tb.onboarding = tab.onboarding /\ tb.shown = tab.shown /\ tb.front = tab.front
  BY <1>2, <1>3 DEF TabRows
<1>5. next \in TaskRows /\ next.pc = "asked" /\ next.got = Sender(tab) /\ next # Vacant
  BY <1>2, AskedFacts, TabNames
<1>6. MustLoad(tb) <=> tab.me = None
  BY <1>3, <1>4, NoneIsNobody DEF MustLoad, Watched
<1>7. LoadOf(tb) = IF tab.onboarding = None THEN "auctions" ELSE "bids"
  BY <1>4 DEF LoadOf
<1>8. Sender(tb) = Sender(tab)
  BY <1>4 DEF Sender
<1> HIDE DEF p, tb, next
<1>9. rest \in [Tasks -> TaskRows] /\ rest[t] = next /\ \A u \in Tasks : u # t => rest[u] = task[u]
  BY <1>2, <1>5
<1> HIDE DEF rest
<1>10. /\ task' \in [Tasks -> TaskRows] /\ LoadOf(tb) \in Loads
       /\ \A u \in Tasks : ~MustLoad(tb) \/ u # LoadOf(tb) => task'[u] = rest[u]
       /\ MustLoad(tb) => task'[LoadOf(tb)] = Asked(tb, LoadOf(tb))
       /\ \A u \in Tasks : u \notin Loads => task'[u] = rest[u]
  BY <1>1, <1>2, <1>4, <1>9, LoadingFacts
<1>11. /\ Asked(tb, LoadOf(tb)).pc = "asked" /\ Asked(tb, LoadOf(tb)).got = Sender(tab)
  <2>1. LoadOf(tb) \in Asks
    BY <1>10 DEF Asks
  <2> QED
    BY <1>2, <1>4, <1>8, <2>1, AskedFacts
<1>12. \A u \in Tasks : task'[u].pc = "asked" => task'[u] = task[u] \/ task'[u].got = Sender(tab)
  BY <1>5, <1>9, <1>10, <1>11
<1>13. task'["signOut"] = task["signOut"] /\ (task'["signIn"].pc # "signing" \/ task'["signIn"] = task["signIn"])
  BY <1>2, <1>5, <1>9, <1>10, TabNames
<1>14. AsksWell(task'["signOut"])
  BY <1>2, <1>13 DEF AsksWell, TabTypeOK, Answered, Doing
<1>15. TokensInv' /\ TokensAreOwn' /\ RefreshesAreOwn' /\ RequestsAreOwn'
  BY <1>1, <1>2, <1>4, <1>10, <1>12, <1>13, <1>14, AnsweredHolds
<1>16. KnownIsOwn'
  BY <1>1, <1>2, <1>4, KnownStaysOwn DEF p
<1>17. ShownIsOwn' /\ LoadIsFollowed'
  <2>1. CASE Left
    <3>1. Left'
      BY <1>1, <2>1 DEF Left
    <3> QED
      BY <3>1 DEF ShownIsOwn, LoadIsFollowed
  <2>2. CASE ~Left /\ tab.me = None
    <3>1. Awaits(task', LoadOf(tb))
      BY <1>6, <1>10, <1>11, <2>2 DEF Awaits
    <3>2. CASE tab.onboarding = None
      BY <1>1, <1>4, <1>7, <3>1, <3>2 DEF ShownIsOwn, LoadIsFollowed, IsOut
    <3>3. CASE tab.onboarding # None
      BY <1>1, <1>4, <1>7, <3>1, <3>3 DEF ShownIsOwn, LoadIsFollowed, IsOut
    <3> QED
      BY <3>2, <3>3
  <2>3. CASE ~Left /\ tab.me # None
    <3>1. tab.me = tab.front /\ p = tab.front
      BY <1>1, <1>2, <2>3 DEF TabInv, OwnInv, KnownIsOwn, RequestsAreOwn, p
    <3>2. \A load \in Loads : task'[load] = task[load]
      BY <1>2, <1>6, <1>9, <1>10, <2>3, TabNames
    <3>3. \A load \in Loads : IsOut(load)' <=> IsOut(load)
      BY <3>2 DEF IsOut, Awaits
    <3> QED
      BY <1>1, <1>4, <3>1, <3>3, ShownStaysOwn, TabNames
  <2> QED
    BY <2>1, <2>2, <2>3
<1> QED
  BY <1>15, <1>16, <1>17 DEF TabInv, OwnInv

LEMMA OnboardingKnownHolds ==
  ASSUME TabInv, NEW t \in Navigations \cup {"signIn"}, OnboardingKnown(t)
  PROVE  TabInv'
<1> DEFINE p == task[t].got
           tb == [tab EXCEPT !.onboarding = p]
           rest == [task EXCEPT ![t] = Vacant]
<1>1. /\ Doing(t, "asked") /\ p # None /\ task' = Loading(rest, tb)
      /\ tab' = IF t = "signIn" THEN [tb EXCEPT !.screen = "home"] ELSE Restored(tb, t)
      /\ UNCHANGED <<session, fetch, adrift, past, events>>
  BY DEF OnboardingKnown, Answered
<1>2. /\ TabTypeOK /\ tab \in TabRows /\ task \in [Tasks -> TaskRows] /\ t \in Tasks /\ t \notin Loads
      /\ t # "signOut" /\ (tab.access # None => Known(tab.access))
  BY TabNames DEF TabInv, TokensInv, TabTypeOK
<1>3. p \in People
  BY <1>1, <1>2, TaskRowFacts DEF Doing
<1>4. /\ tb \in TabRows /\ tb.access = tab.access /\ tb.stored = tab.stored /\ tb.me = tab.me
      /\ tb.onboarding = p /\ tb.shown = tab.shown /\ tb.front = tab.front
  BY <1>2, <1>3 DEF TabRows
<1>5. tab' \in TabRows /\ Kept(tab') = Kept(tb)
  <2>1. CASE t = "signIn"
    <3>1. tab' = [tb EXCEPT !.screen = "home"]
      BY <1>1, <2>1
    <3> HIDE DEF tb
    <3> QED
      BY <1>4, <3>1 DEF TabRows, Kept
  <2>2. CASE t # "signIn"
    <3>1. t \in Navigations /\ tab' = Restored(tb, t)
      BY <1>1, <2>2
    <3> QED
      BY <1>4, <3>1, ScreenFacts
  <2> QED
    BY <2>1, <2>2
<1>6. /\ tab'.access = tab.access /\ tab'.stored = tab.stored /\ tab'.me = tab.me
      /\ tab'.onboarding = p /\ tab'.shown = tab.shown /\ tab'.front = tab.front
  BY <1>4, <1>5 DEF Kept
<1>7. MustLoad(tb) <=> tab.me # None /\ tab.onboarding = None
  BY <1>3, <1>4, NoneIsNobody DEF MustLoad, Watched
<1>8. LoadOf(tb) = "bids" /\ Sender(tb) = Sender(tab)
  BY <1>3, <1>4, NoneIsNobody DEF LoadOf, Sender
<1> HIDE DEF p, tb
<1>9. rest \in [Tasks -> TaskRows] /\ rest[t] = Vacant /\ \A u \in Tasks : u # t => rest[u] = task[u]
  BY <1>2, TaskRowFacts
<1> HIDE DEF rest
<1>10. /\ task' \in [Tasks -> TaskRows]
       /\ \A u \in Tasks : ~MustLoad(tb) \/ u # "bids" => task'[u] = rest[u]
       /\ MustLoad(tb) => task'["bids"] = Asked(tb, "bids")
       /\ \A u \in Tasks : u \notin Loads => task'[u] = rest[u]
  BY <1>1, <1>2, <1>4, <1>8, <1>9, LoadingFacts
<1>11. Asked(tb, "bids").pc = "asked" /\ Asked(tb, "bids").got = Sender(tab)
  BY <1>2, <1>4, <1>8, AskedFacts, TabNames
<1>12. \A u \in Tasks : task'[u].pc = "asked" => task'[u] = task[u] \/ task'[u].got = Sender(tab)
  BY <1>9, <1>10, <1>11, TaskRowFacts
<1>13. task'["signOut"] = task["signOut"] /\ (task'["signIn"].pc # "signing" \/ task'["signIn"] = task["signIn"])
  BY <1>2, <1>9, <1>10, TabNames, TaskRowFacts
<1>14. AsksWell(task'["signOut"])
  BY <1>2, <1>13 DEF AsksWell, TabTypeOK, Answered, Doing
<1>15. TokensInv' /\ TokensAreOwn' /\ RefreshesAreOwn' /\ RequestsAreOwn'
  BY <1>1, <1>2, <1>5, <1>6, <1>10, <1>12, <1>13, <1>14, AnsweredHolds
<1>16. KnownIsOwn'
  BY <1>1, <1>2, <1>6, KnownStaysOwn DEF p
<1>17. ShownIsOwn' /\ LoadIsFollowed'
  <2>1. CASE Left
    <3>1. Left'
      BY <1>1, <2>1 DEF Left
    <3> QED
      BY <3>1 DEF ShownIsOwn, LoadIsFollowed
  <2>2. CASE tab.me = None
    BY <1>6, <2>2 DEF ShownIsOwn, LoadIsFollowed
  <2>3. CASE tab.me # None /\ tab.onboarding = None
    <3>1. Awaits(task', "bids")
      BY <1>7, <1>10, <1>11, <2>3 DEF Awaits
    <3> QED
      BY <3>1 DEF ShownIsOwn, LoadIsFollowed, IsOut
  <2>4. CASE ~Left /\ tab.me # None /\ tab.onboarding # None
    <3>1. tab.onboarding = tab.front /\ p = tab.front
      BY <1>1, <1>2, <2>4 DEF TabInv, OwnInv, KnownIsOwn, RequestsAreOwn, p
    <3>2. \A load \in Loads : task'[load] = task[load]
      BY <1>2, <1>7, <1>9, <1>10, <2>4, TabNames
    <3>3. \A load \in Loads : IsOut(load)' <=> IsOut(load)
      BY <3>2 DEF IsOut, Awaits
    <3> QED
      BY <1>1, <1>6, <3>1, <3>3, ShownStaysOwn, TabNames
  <2> QED
    BY <2>1, <2>2, <2>3, <2>4
<1> QED
  BY <1>15, <1>16, <1>17 DEF TabInv, OwnInv

LEMMA LoadedHolds ==
  ASSUME TabInv, NEW load \in Loads, Loaded(load)
  PROVE  TabInv'
<1> DEFINE seen == IF load = "bids" THEN task[load].got ELSE None
<1>1. /\ Doing(load, "asked") /\ task[load].got # None /\ tab' = [tab EXCEPT !.shown = seen]
      /\ task' = [task EXCEPT ![load] = Vacant] /\ past' = past \cup Overtaken(load)
      /\ UNCHANGED <<session, fetch, adrift, events>>
  BY DEF Loaded, Answered
<1>2. /\ TabTypeOK /\ tab \in TabRows /\ task \in [Tasks -> TaskRows] /\ load \in Tasks
      /\ load # "signOut" /\ load # "signIn"
  BY TabNames DEF TabInv, TokensInv, TabTypeOK
<1>3. seen \in People \cup {None}
  BY <1>1, <1>2, TaskRowFacts DEF Doing
<1>4. /\ tab' \in TabRows /\ tab'.access = tab.access /\ tab'.stored = tab.stored /\ tab'.me = tab.me
      /\ tab'.onboarding = tab.onboarding /\ tab'.shown = seen /\ tab'.front = tab.front
  <2> HIDE DEF seen
  <2> QED
    BY <1>1, <1>2, <1>3 DEF TabRows
<1>5. /\ task' \in [Tasks -> TaskRows] /\ task'[load] = Vacant
      /\ \A u \in Tasks : u # load => task'[u] = task[u]
  BY <1>1, <1>2, TaskRowFacts
<1>6. Overtaken(load) \subseteq {"overtaken"}
  BY DEF Overtaken
<1>7. task'["signOut"] = task["signOut"] /\ task'["signIn"] = task["signIn"]
  BY <1>2, <1>5, TabNames
<1>8. AsksWell(task'["signOut"])
  BY <1>2, <1>7 DEF AsksWell, TabTypeOK, Answered, Doing
<1>9. \A u \in Tasks : task'[u].pc = "asked" => task'[u] = task[u]
  BY <1>5, TaskRowFacts
<1>10. TokensInv' /\ TokensAreOwn' /\ RefreshesAreOwn' /\ RequestsAreOwn'
  BY <1>1, <1>2, <1>4, <1>5, <1>6, <1>7, <1>8, <1>9, AnsweredHolds
<1>11. KnownIsOwn'
  BY <1>1, <1>4, KnownStaysOwn
<1>12. ShownIsOwn' /\ LoadIsFollowed'
  <2>1. CASE tab.me = None
    BY <1>4, <2>1 DEF ShownIsOwn, LoadIsFollowed
  <2>2. CASE Left
    <3>1. Left'
      BY <1>1, <2>2 DEF Left
    <3> QED
      BY <3>1 DEF ShownIsOwn, LoadIsFollowed
  <2>3. CASE ~Left /\ tab.me # None /\ load = "bids"
    <3>1. tab.me = tab.front /\ seen = tab.front
      BY <1>1, <1>2, <2>3 DEF TabInv, OwnInv, KnownIsOwn, RequestsAreOwn
    <3>2. ShownIsOwn'
      BY <1>4, <3>1 DEF ShownIsOwn
    <3>3. IsOut("auctions")' => IsOut("auctions")
      BY <1>5, <2>3, TabNames DEF IsOut, Awaits
    <3>4. IsOut("auctions") => "overtaken" \in past'
      BY <1>1, <2>3 DEF Overtaken
    <3> QED
      BY <3>2, <3>3, <3>4 DEF LoadIsFollowed
  <2>4. CASE tab.me # None /\ load = "auctions"
    <3>1. ~IsOut("auctions")'
      BY <1>5, <2>4, TaskRowFacts DEF IsOut, Awaits
    <3>2. IsOut("auctions") /\ seen = None
      BY <1>1, <2>4 DEF IsOut, Awaits, Doing
    <3>3. IsOut("bids") => IsOut("bids")'
      BY <1>5, <2>4, TabNames DEF IsOut, Awaits
    <3>4. past \subseteq past'
      BY <1>1
    <3>5. tab.onboarding # None =>
            IsOut("bids") \/ Left \/ past \cap {"unloaded", "overtaken"} # {}
      BY <2>4, <3>2 DEF TabInv, OwnInv, LoadIsFollowed
    <3>6. tab.onboarding # None =>
            IsOut("bids")' \/ Left' \/ past' \cap {"unloaded", "overtaken"} # {}
      BY <3>3, <3>4, <3>5 DEF Left
    <3> QED
      BY <1>4, <3>1, <3>2, <3>6 DEF ShownIsOwn, LoadIsFollowed
  <2> QED
    BY <2>1, <2>2, <2>3, <2>4, TabNames
<1> QED
  BY <1>10, <1>11, <1>12 DEF TabInv, OwnInv

\* A task that is over for good: whoever signs out has no token any more.
LEMMA OverHolds ==
  ASSUME TabInv, NEW t \in Tasks, Doing(t, "asked"), task' = [task EXCEPT ![t] = Vacant],
         UNCHANGED <<session, fetch, adrift>>, events' \in Nat,
         \/ /\ t = "signOut" /\ tab' \in TabRows
            /\ Kept(tab') = <<None, None, None, None, tab.shown, None>>
            /\ past' = past \cup Crossing(t, task, fetch)
         \/ t # "signOut" /\ tab' = tab /\ past' = past \cup Unloaded({t})
  PROVE  TabInv'
<1>1. TabTypeOK /\ TokensInv /\ tab \in TabRows /\ task \in [Tasks -> TaskRows]
  BY DEF TabInv, TokensInv, TabTypeOK
<1>2. /\ task' \in [Tasks -> TaskRows] /\ task'[t] = Vacant
      /\ \A u \in Tasks : u # t => task'[u] = task[u]
  BY <1>1, TaskRowFacts
<1>3. Crossing(t, task, fetch) \subseteq {"resumed", "crossed"} /\ Unloaded({t}) \subseteq {"unloaded"}
  BY DEF Crossing, Unloaded
<1>4. past \subseteq past' /\ ("replayed" \in past' => "replayed" \in past) /\ past' \in SUBSET Pasts
  BY <1>1, <1>3 DEF TabTypeOK, Pasts
<1>5. Doing("signIn", "signing")' => task'["signIn"] = task["signIn"]
  BY <1>2, TaskRowFacts, TabNames DEF Doing
<1>6. AsksWell(task'["signOut"])
  BY <1>1, <1>2, TabNames, TaskRowFacts DEF AsksWell, TabTypeOK, Answered, Doing
<1>7. /\ tab' \in TabRows /\ tab'.stored \in {None, tab.stored}
      /\ tab'.access = tab.access \/ (tab'.access = None /\ tab'.stored = None)
  BY <1>1 DEF Kept
<1>8. TabTypeOK'
  BY <1>1, <1>2, <1>4, <1>5, <1>6, <1>7, TypeStays
<1>9. FreshIsQuiet'
  BY <1>1, <1>7 DEF TokensInv, FreshIsQuiet
<1>10. (Raced \/ TokensStand)'
  BY <1>1, <1>4, <1>5, <1>7, TokensStay
<1>11. CASE t = "signOut"
  <2>1. tab'.me = None /\ tab'.access = None /\ tab'.stored = None /\ tab'.onboarding = None
    BY <1>11 DEF Kept
  <2>2. \A u \in Tasks : task'[u].pc = "asked" => u # "signOut" /\ task[u].pc = "asked"
    BY <1>2, <1>11, TaskRowFacts
  <2>3. OwnInv'
    BY <1>11, <2>1, <2>2, LeftIsOwn
  <2> QED
    BY <1>8, <1>9, <1>10, <2>3 DEF TabInv, TokensInv
<1>12. CASE t # "signOut"
  <2>1. FrontStays /\ tab' = tab
    BY <1>4, <1>12 DEF FrontStays
  <2>2. TokensAreOwn' /\ RefreshesAreOwn'
    BY <2>1, TokensStayOwn DEF InUse, Taken
  <2>3. \A u \in Tasks : task'[u].pc = "asked" => task[u].pc = "asked" /\ task'[u].got = task[u].got
    BY <1>2, TaskRowFacts
  <2>4. RequestsAreOwn'
    BY <2>1, <2>3, RequestsStayOwn
  <2>5. KnownIsOwn'
    BY <1>4, <2>1, KnownStaysOwn
  <2>6. ShownIsOwn' /\ LoadIsFollowed'
    <3>1. CASE t \in Loads
      <4>1. "unloaded" \in past'
        BY <1>12, <3>1 DEF Unloaded
      <4> QED
        BY <1>4, <4>1, ShownStaysOwn
    <3>2. CASE t \notin Loads
      <4>1. \A load \in Loads : task'[load] = task[load]
        BY <1>2, <3>2, TabNames
      <4>2. \A load \in Loads : IsOut(load)' <=> IsOut(load)
        BY <4>1 DEF IsOut, Awaits
      <4> QED
        BY <1>4, <2>1, <4>2, ShownStaysOwn, TabNames
    <3> QED
      BY <3>1, <3>2
  <2> QED
    BY <1>8, <1>9, <1>10, <2>2, <2>4, <2>5, <2>6 DEF TabInv, TokensInv, OwnInv
<1> QED
  BY <1>11, <1>12

LEMMA SignedOutHolds ==
  ASSUME TabInv, SignedOut
  PROVE  TabInv'
<1>1. tab \in TabRows /\ events \in Nat
  BY DEF TabInv, TokensInv, TabTypeOK
<1>2. /\ Doing("signOut", "asked") /\ tab' = [SignedOff EXCEPT !.screen = "signIn"]
      /\ task' = [task EXCEPT !["signOut"] = Vacant]
      /\ past' = past \cup Crossing("signOut", task, fetch)
      /\ UNCHANGED <<session, fetch, adrift, events>>
  BY DEF SignedOut, Answered
<1>3. tab' \in TabRows /\ Kept(tab') = <<None, None, None, None, tab.shown, None>>
  BY <1>1, <1>2, ClearedFacts
<1> QED
  BY <1>1, <1>2, <1>3, OverHolds, TabNames

LEMMA RequestFailsHolds ==
  ASSUME TabInv, NEW t \in Tasks, LoseRequest(t) \/ GiveUp(t)
  PROVE  TabInv'
<1>1. tab \in TabRows /\ events \in Nat
  BY DEF TabInv, TokensInv, TabTypeOK
<1>2. Doing(t, "asked") /\ TaskFails(t) /\ events' \in Nat
  <2>1. CASE LoseRequest(t)
    BY <1>1, <2>1 DEF LoseRequest, Event
  <2>2. CASE GiveUp(t)
    BY <1>1, <2>2 DEF GiveUp, Unauthorised
  <2> QED
    BY <2>1, <2>2
<1>3. SignedOff \in TabRows /\ Kept(SignedOff) = <<None, None, None, None, tab.shown, None>>
  BY <1>1, ClearedFacts
<1> QED
  BY <1>2, <1>3, OverHolds DEF TaskFails

\* Identity ends a session: its number stays, and whose it is.
LEMMA EndSessionHolds ==
  ASSUME TabInv, EndSession
  PROVE  TabInv'
<1> DEFINE ends == task["signOut"].ends
           Rows == [who : People, n : Nat \ {0}, live : BOOLEAN]
<1>1. /\ Answered("signOut", "out") /\ task' = [task EXCEPT !["signOut"].what = "ended"]
      /\ session' = IF session[ends.s].n = ends.n THEN [session EXCEPT ![ends.s].live = FALSE] ELSE session
      /\ UNCHANGED <<tab, fetch, adrift, past, events>>
  BY DEF EndSession
<1>2. /\ TabTypeOK /\ TokensInv /\ task \in [Tasks -> TaskRows] /\ session \in Seq(Rows)
      /\ ends.s \in DOMAIN session
  BY <1>1 DEF TabInv, TokensInv, TabTypeOK, Known
<1>3. /\ session' \in Seq(Rows) /\ DOMAIN session' = DOMAIN session
      /\ \A s \in DOMAIN session : session'[s].who = session[s].who /\ session'[s].n = session[s].n
  <2> DEFINE s == ends.s
             entry == [session[s] EXCEPT !.live = FALSE]
  <2> HIDE DEF ends
  <2>1. session[s] \in Rows /\ DOMAIN session = 1..Len(session) /\ Len(session) \in Nat
    <3> HIDE DEF Rows
    <3> QED
      BY <1>2, EntryOf
  <2>2. entry \in Rows /\ entry.who = session[s].who /\ entry.n = session[s].n
    BY <2>1
  <2>3. session' = session \/ session' = [session EXCEPT ![s] = entry]
    BY <1>1
  <2> HIDE DEF s, entry
  <2>4. s \in DOMAIN session
    BY <1>2 DEF s
  <2> HIDE DEF Rows
  <2>5. session \in [1..Len(session) -> Rows]
    BY <1>2
  <2>6. session' \in [1..Len(session) -> Rows]
    BY <2>1, <2>2, <2>3, <2>5
  <2>7. session' \in Seq(Rows) /\ DOMAIN session' = DOMAIN session
    BY <2>1, <2>6, SequenceOf
  <2> QED
    BY <2>2, <2>3, <2>4, <2>7
<1> HIDE DEF ends, Rows
<1> DEFINE entry == [task["signOut"] EXCEPT !.what = "ended"]
<1>4. /\ entry \in TaskRows /\ entry.pc = "asked" /\ entry.what = "ended"
      /\ entry.got = task["signOut"].got
  <2>1. task["signOut"] \in [pc : {"asked"}, what : Asks, got : People \cup {None},
                             ends : {None} \cup Tokens]
    BY <1>1, <1>2, TabNames, TaskRowFacts DEF Answered, Doing
  <2> QED
    BY <2>1, TabNames DEF TaskRows
<1> HIDE DEF entry
<1>5. /\ task' \in [Tasks -> TaskRows] /\ task'["signOut"] = entry
      /\ \A t \in Tasks : t # "signOut" => task'[t] = task[t]
  BY <1>1, <1>2, <1>4, TabNames DEF entry
<1>6. task'["signIn"] = task["signIn"] /\ \A load \in Loads : task'[load] = task[load]
  BY <1>5, TabNames
<1>7. TabTypeOK'
  BY <1>1, <1>2, <1>3, <1>4, <1>5, <1>6 DEF TabTypeOK, Known, Doing, Answered, Rows
<1>8. \A t \in Tasks : Doing(t, "asked")' => Doing(t, "asked") /\ task'[t].got = task[t].got
  BY <1>1, <1>4, <1>5 DEF Doing, Answered
<1>9. FreshIsQuiet'
  BY <1>1, <1>2, <1>8 DEF TokensInv, FreshIsQuiet
<1>10. TokensStand => TokensStand'
  <2> SUFFICES ASSUME TokensStand PROVE TokensStand'
    OBVIOUS
  <2>1. \A f \in Fetches : Taken(f) => fetch[f].token.s \in DOMAIN session
    BY <1>2 DEF TabTypeOK, Known, Taken
  <2>2. \A a \in adrift : a.s \in DOMAIN session
    BY <1>2 DEF TabTypeOK, Known
  <2>3. OneTokenOut'
    BY <1>1, <1>3, <2>1, <2>2 DEF TokensStand, OneTokenOut, Taken
  <2>4. tab.stored # None => tab.stored.s \in DOMAIN session
    BY <1>2 DEF TabTypeOK, Known
  <2>5. StoredIsGood'
    BY <1>1, <1>3, <2>4 DEF TokensStand, StoredIsGood, Taken
  <2>6. Doing("signIn", "signing") => task["signIn"].s \in DOMAIN session
    BY <1>2 DEF TabTypeOK, Known
  <2>7. NewIsFresh'
    BY <1>1, <1>3, <1>6, <2>6 DEF TokensStand, NewIsFresh, Taken, Doing
  <2> QED
    BY <1>1, <2>3, <2>5, <2>7 DEF TokensStand
<1>11. (Raced \/ TokensStand)'
  BY <1>1, <1>2, <1>10 DEF TokensInv, Raced
<1>12. FrontStays
  BY <1>1, <1>3 DEF FrontStays
<1>13. TokensAreOwn' /\ RefreshesAreOwn'
  BY <1>1, <1>12, TokensStayOwn DEF InUse, Taken
<1>14. RequestsAreOwn'
  BY <1>8, <1>12, RequestsStayOwn DEF Doing
<1>15. KnownIsOwn'
  BY <1>1, KnownStaysOwn
<1>16. ShownIsOwn' /\ LoadIsFollowed'
  <2>1. \A load \in Loads : IsOut(load)' <=> IsOut(load)
    BY <1>6 DEF IsOut, Awaits
  <2> QED
    BY <1>1, <2>1, ShownStaysOwn, TabNames
<1> QED
  BY <1>7, <1>9, <1>11, <1>13, <1>14, <1>15, <1>16 DEF TabInv, TokensInv, OwnInv

----------------------------------------------------------------------------
\* Refreshing.

LEMMA SentFacts ==
  ASSUME TabTypeOK, NEW f \in Fetches, tab.stored # None
  PROVE  /\ Sent(f) \in [Fetches -> FetchRows] /\ Sent(f)[f] # Vacant
         /\ Sent(f)[f].pc = "sent" /\ Sent(f)[f].token = tab.stored
         /\ \A g \in Fetches : g # f => Sent(f)[g] = fetch[g]
<1>1. tab.stored \in Tokens /\ fetch \in [Fetches -> FetchRows]
  BY DEF TabTypeOK, TabRows
<1> DEFINE entry == [pc |-> "sent", token |-> tab.stored]
<1>2. entry \in FetchRows /\ entry # Vacant /\ entry.pc = "sent" /\ entry.token = tab.stored
  BY <1>1, FetchRowFacts
<1>3. Sent(f) = [fetch EXCEPT ![f] = entry]
  BY DEF Sent
<1> HIDE DEF entry
<1> QED
  BY <1>1, <1>2, <1>3

\* A refresh that is sent with the token kept, which no other refresh is out with.
LEMMA SendStands ==
  ASSUME TabTypeOK, TokensStand, NEW f \in Fetches, tab.stored # None, fetch' = Sent(f),
         \A g \in Fetches : g # f /\ Taken(g) => fetch[g].token.s # tab.stored.s,
         fetch[f] # Vacant => fetch[f].token.s # tab.stored.s,
         f \in Navigations => tab.access = None,
         UNCHANGED <<session, adrift>>, past' \subseteq past \cup {"overlap"},
         tab'.stored = tab.stored, tab'.access = tab.access,
         Doing("signIn", "signing")' => task'["signIn"] = task["signIn"]
  PROVE  TokensStand'
<1>1. /\ fetch' \in [Fetches -> FetchRows] /\ fetch'[f] # Vacant
      /\ fetch'[f].pc = "sent" /\ fetch'[f].token = tab.stored
      /\ \A g \in Fetches : g # f => fetch'[g] = fetch[g]
  BY SentFacts
<1>2. session[tab.stored.s].n = tab.stored.n /\ \A token \in adrift : token.s # tab.stored.s
  BY DEF TokensStand, StoredIsGood, Taken
<1>3. OneTokenOut'
  BY <1>1, <1>2 DEF TokensStand, OneTokenOut, Taken
<1>4. StoredIsGood'
  <2>1. \A token \in adrift' : token.s # tab'.stored.s
    BY <1>2
  <2>2. ASSUME NEW g \in Fetches, fetch'[g] # Vacant, fetch'[g].token.s = tab'.stored.s
        PROVE  g = f
    BY <1>1, <2>2 DEF Taken
  <2>3. f \in Navigations => tab'.access = None
    OBVIOUS
  <2>4. fetch'[f].token = tab'.stored /\ fetch'[f].token.s = tab'.stored.s
    BY <1>1
  <2> HIDE <1>2
  <2>5. \A g \in Navigations : g \in Fetches
    BY TabNames
  <2> QED
    BY <1>1, <2>1, <2>2, <2>3, <2>4, <2>5 DEF StoredIsGood, Taken
<1>5. NewIsFresh'
  <2>1. ASSUME task'["signIn"].pc = "signing"
        PROVE  task'["signIn"] = task["signIn"] /\ Doing("signIn", "signing")
    BY <2>1 DEF Doing
  <2> QED
    BY <1>1, <2>1 DEF TokensStand, NewIsFresh, Taken, Doing
<1> QED
  BY <1>3, <1>4, <1>5 DEF TokensStand

LEMMA JoinHolds ==
  ASSUME TabInv, NEW t \in Tasks, Join(t)
  PROVE  TabInv'
<1> DEFINE entry == [pc |-> "joined", what |-> task[t].what]
<1>1. /\ Doing(t, "asked") /\ (fetch["shared"] # Vacant \/ tab.stored # None)
      /\ task' = [task EXCEPT ![t] = entry] /\ UNCHANGED <<session, tab, adrift, past, events>>
      /\ fetch' = IF fetch["shared"] = Vacant THEN Sent("shared") ELSE fetch
      /\ TabTypeOK /\ task \in [Tasks -> TaskRows] /\ fetch \in [Fetches -> FetchRows]
  BY DEF Join, Unauthorised, TabInv, TokensInv, TabTypeOK
<1>2. entry \in TaskRows /\ entry # Vacant /\ entry.pc = "joined"
  <2>1. task[t].what \in Asks
    BY <1>1, TaskRowFacts DEF Doing
  <2> QED
    BY <2>1, TaskRowFacts
<1> HIDE DEF entry
<1>3. /\ task' \in [Tasks -> TaskRows] /\ task'[t] = entry
      /\ \A s \in Tasks : s # t => task'[s] = task[s]
  BY <1>1, <1>2
<1>4. task'["signIn"].pc = "signing" => task'["signIn"] = task["signIn"]
  BY <1>2, <1>3, TabNames
<1>5. FreshIsQuiet'
  BY <1>1, <1>2, <1>3 DEF TabInv, TokensInv, FreshIsQuiet, Doing
<1>6. \A u \in Tasks : task'[u].pc = "asked" => task[u].pc = "asked" /\ task'[u].got = task[u].got
  BY <1>2, <1>3
<1>7. \A load \in Loads : IsOut(load)' <=> IsOut(load)
  BY <1>1, <1>2, <1>3, TabNames DEF IsOut, Awaits, Doing
<1>8. FrontStays
  BY <1>1 DEF FrontStays
<1>9. RequestsAreOwn' /\ KnownIsOwn' /\ ShownIsOwn' /\ LoadIsFollowed'
  BY <1>1, <1>6, <1>7, <1>8, RequestsStayOwn, KnownStaysOwn, ShownStaysOwn, TabNames
<1>10. task'["signOut"].pc = "asked" => task'["signOut"] = task["signOut"]
  BY <1>2, <1>3, TabNames
<1>11. CASE fetch["shared"] # Vacant
  <2>1. fetch' = fetch
    BY <1>1, <1>11
  <2>2. TabTypeOK'
    BY <1>1, <1>3, <1>4, <1>10, <2>1 DEF TabTypeOK, Known, Doing, Answered
  <2>3. (Raced \/ TokensStand)'
    BY <1>1, <1>4, <2>1, TokensStay DEF Doing, TabInv
  <2>4. TokensAreOwn' /\ RefreshesAreOwn'
    BY <1>1, <1>8, <2>1, TokensStayOwn DEF InUse, Taken
  <2> QED
    BY <1>5, <1>9, <2>2, <2>3, <2>4 DEF TabInv, TokensInv, OwnInv
<1>12. CASE fetch["shared"] = Vacant
  <2>1. fetch' = Sent("shared") /\ tab.stored # None /\ "shared" \in Fetches
    BY <1>1, <1>12, TabNames
  <2>2. /\ fetch' \in [Fetches -> FetchRows] /\ fetch'["shared"].token = tab.stored
        /\ \A g \in Fetches : g # "shared" => fetch'[g] = fetch[g]
    BY <1>1, <2>1, SentFacts
  <2>3. TabTypeOK'
    BY <1>1, <1>3, <1>4, <1>10, <2>1, <2>2 DEF TabTypeOK, Known, Doing, Answered
  <2>4. tab.access # None
    BY <1>1, <2>1 DEF TabInv, TokensInv, FreshIsQuiet
  <2>5. ASSUME TokensStand, NEW g \in Fetches, g # "shared", Taken(g)
        PROVE  fetch[g].token.s # tab.stored.s
    <3>1. g \in Navigations
      BY <2>5, TabNames
    <3>2. fetch[g].token # tab.stored
      BY <2>1, <2>4, <2>5, <3>1 DEF TokensStand, StoredIsGood
    <3> QED
      BY <2>1, <2>5, <3>2 DEF TokensStand, StoredIsGood
  <2>6. TokensStand => TokensStand'
    BY <1>1, <1>4, <1>12, <2>1, <2>5, SendStands, TabNames DEF Doing
  <2>7. (Raced \/ TokensStand)'
    BY <1>1, <2>6 DEF TabInv, TokensInv, Raced
  <2>8. TokensAreOwn' /\ RefreshesAreOwn'
    BY <1>1, <1>8, <2>1, <2>2, TokensStayOwn DEF InUse, Taken
  <2> QED
    BY <1>5, <1>9, <2>3, <2>7, <2>8 DEF TabInv, TokensInv, OwnInv
<1> QED
  BY <1>11, <1>12

LEMMA NavigateHolds ==
  ASSUME TabInv, NEW nav \in Navigations, Navigate(nav)
  PROVE  TabInv'
<1> DEFINE tb == [tab EXCEPT !.latest = nav]
           entry == [pc |-> "restoring"]
<1>1. /\ TabTypeOK /\ TokensInv /\ tab \in TabRows /\ task[nav] = Vacant
      /\ UNCHANGED <<session, adrift, events>>
      /\ task \in [Tasks -> TaskRows] /\ nav \in Tasks /\ nav \in Fetches /\ nav \notin Loads
      /\ nav # "signIn" /\ nav # "signOut"
  BY TabNames DEF Navigate, TabInv, TokensInv, TabTypeOK
<1>2. tb \in TabRows /\ Kept(tb) = Kept(tab)
  BY <1>1 DEF TabRows, Kept
<1>3. CASE tab.restored \/ tab.access # None \/ tab.stored = None
  <2>1. /\ tab' \in {Shown(tb, nav), Restored(tb, nav)} /\ UNCHANGED <<task, fetch, past>>
    BY <1>3 DEF Navigate
  <2> HIDE DEF tb
  <2>2. /\ tab' \in TabRows /\ tab'.access = tab.access /\ tab'.stored = tab.stored
        /\ tab'.me = tab.me /\ tab'.onboarding = tab.onboarding /\ tab'.shown = tab.shown
        /\ tab'.front = tab.front
    BY <1>2, <2>1, ScreenFacts DEF Kept
  <2>3. TabTypeOK'
    BY <1>1, <2>1, <2>2 DEF TabTypeOK, Known, Doing, Answered
  <2>4. FreshIsQuiet'
    BY <1>1, <2>1, <2>2 DEF TokensInv, FreshIsQuiet, Doing
  <2>5. (Raced \/ TokensStand)'
    BY <1>1, <2>1, <2>2, TokensStay
  <2>6. FrontStays
    BY <1>1, <2>1, <2>2 DEF FrontStays
  <2>7. TokensAreOwn' /\ RefreshesAreOwn'
    BY <2>1, <2>2, <2>6, TokensStayOwn DEF InUse, Taken
  <2>8. \A load \in Loads : IsOut(load)' <=> IsOut(load)
    BY <2>1 DEF IsOut, Awaits
  <2>9. RequestsAreOwn' /\ KnownIsOwn' /\ ShownIsOwn' /\ LoadIsFollowed'
    BY <2>1, <2>2, <2>6, <2>8, RequestsStayOwn, KnownStaysOwn, ShownStaysOwn, TabNames
  <2> QED
    BY <2>3, <2>4, <2>5, <2>7, <2>9 DEF TabInv, TokensInv, OwnInv
<1>4. CASE ~(tab.restored \/ tab.access # None \/ tab.stored = None)
  <2>1. /\ tab' = tb /\ fetch' = Sent(nav) /\ past' = past \cup Overlap
        /\ task' = [task EXCEPT ![nav] = entry]
    BY <1>4 DEF Navigate
  <2>2. entry \in TaskRows /\ entry # Vacant /\ entry.pc = "restoring"
    BY TaskRowFacts
  <2> HIDE DEF entry, tb
  <2>3. /\ task' \in [Tasks -> TaskRows] /\ task'[nav] = entry
        /\ \A s \in Tasks : s # nav => task'[s] = task[s]
    BY <1>1, <2>1, <2>2
  <2>4. /\ fetch' \in [Fetches -> FetchRows] /\ fetch'[nav].token = tab.stored
        /\ \A g \in Fetches : g # nav => fetch'[g] = fetch[g]
    BY <1>1, <1>4, <2>1, SentFacts
  <2>5. /\ Overlap \subseteq {"overlap"} /\ task'["signIn"] = task["signIn"]
        /\ task'["signOut"] = task["signOut"]
    BY <1>1, <2>3, TabNames DEF Overlap
  <2>6. /\ tab' \in TabRows /\ tab'.access = tab.access /\ tab'.stored = tab.stored
        /\ tab'.me = tab.me /\ tab'.onboarding = tab.onboarding /\ tab'.shown = tab.shown
        /\ tab'.front = tab.front
    BY <1>2, <2>1 DEF Kept
  <2>7. past \subseteq past' /\ past' \in SUBSET Pasts /\ past' \subseteq past \cup {"overlap"}
    BY <1>1, <2>1, <2>5 DEF TabTypeOK, Pasts
  <2>8. TabTypeOK'
    BY <1>1, <1>4, <2>3, <2>4, <2>5, <2>6, <2>7 DEF TabTypeOK, Known, Doing, Answered
  <2>9. FreshIsQuiet'
    BY <1>1, <1>4, <2>2, <2>3, <2>6 DEF TokensInv, FreshIsQuiet, Doing
  <2>10. FrontStays
    BY <1>1, <2>6, <2>7 DEF FrontStays
  <2>11. TokensAreOwn' /\ RefreshesAreOwn'
    BY <1>4, <2>4, <2>6, <2>10, TokensStayOwn DEF InUse, Taken
  <2>12. \A load \in Loads : IsOut(load)' <=> IsOut(load)
    BY <1>1, <2>3, TabNames DEF IsOut, Awaits
  <2>13. \A u \in Tasks : task'[u].pc = "asked" => task[u].pc = "asked" /\ task'[u].got = task[u].got
    BY <2>2, <2>3
  <2>14. RequestsAreOwn' /\ KnownIsOwn' /\ ShownIsOwn' /\ LoadIsFollowed'
    BY <2>6, <2>7, <2>10, <2>12, <2>13, RequestsStayOwn, KnownStaysOwn, ShownStaysOwn, TabNames
  <2>15. CASE Out(tab.stored) \/ Raced
    <3>1. Raced'
      BY <2>1, <2>15 DEF Raced, Overlap
    <3> QED
      BY <2>8, <2>9, <2>11, <2>14, <3>1 DEF TabInv, TokensInv, OwnInv
  <2>16. CASE ~Out(tab.stored) /\ TokensStand
    <3>1. ASSUME NEW g \in Fetches, Taken(g) PROVE fetch[g].token.s # tab.stored.s
      <4>1. fetch[g].token # tab.stored
        BY <2>16, <3>1 DEF Out, Taken
      <4> QED
        BY <1>4, <2>16, <3>1, <4>1 DEF TokensStand, StoredIsGood
    <3>2. TokensStand'
      BY <1>1, <1>4, <2>1, <2>5, <2>6, <2>7, <2>16, <3>1, SendStands DEF Taken
    <3> QED
      BY <2>8, <2>9, <2>11, <2>14, <3>2 DEF TabInv, TokensInv, OwnInv
  <2> QED
    BY <1>1, <2>15, <2>16 DEF TokensInv
<1> QED
  BY <1>3, <1>4

\* What identity does with a good token: its session gets the next one, if it is live.
LEMMA RotatedFacts ==
  ASSUME TabTypeOK, NEW token \in Tokens, Known(token),
         session' = IF session[token.s].live \/ Replayed(token) # {} THEN Rotated(token) ELSE session
  PROVE  /\ session' \in Seq([who : People, n : Nat \ {0}, live : BOOLEAN])
         /\ DOMAIN session' = DOMAIN session
         /\ \A s \in DOMAIN session : session'[s].who = session[s].who
         /\ session[token.s].n = token.n =>
              /\ Replayed(token) = {}
              /\ \A s \in DOMAIN session : s # token.s => session'[s] = session[s]
              /\ session'[token.s].n = IF session[token.s].live THEN token.n + 1 ELSE token.n
<1> DEFINE Rows == [who : People, n : Nat \ {0}, live : BOOLEAN]
           s == token.s
<1>1. /\ session \in [1..Len(session) -> Rows] /\ DOMAIN session = 1..Len(session)
      /\ Len(session) \in Nat /\ s \in DOMAIN session /\ session[s] \in Rows
      /\ token.n \in Nat \ {0}
  <2>1. session \in Seq(Rows) /\ s \in DOMAIN session
    BY DEF TabTypeOK, Known
  <2> HIDE DEF Rows
  <2>2. session[s] \in Rows /\ DOMAIN session = 1..Len(session) /\ Len(session) \in Nat
    BY <2>1, EntryOf
  <2>3. session \in [1..Len(session) -> Rows]
    BY <2>1
  <2>4. token.n \in Nat \ {0}
    BY DEF Tokens
  <2> QED
    BY <2>1, <2>2, <2>3, <2>4
<1>2. CASE session[s].n = token.n
  <2> DEFINE entry == [session[s] EXCEPT !.n = @ + 1]
  <2>1. entry \in Rows /\ entry.n = token.n + 1 /\ entry.who = session[s].who
    BY <1>1, <1>2
  <2>2. Replayed(token) = {}
    BY <1>2 DEF Replayed
  <2>3. session' = IF session[s].live THEN [session EXCEPT ![s] = entry] ELSE session
    BY <1>2, <2>2 DEF Rotated
  <2> HIDE DEF entry
  <2>4. session' \in [1..Len(session) -> Rows]
    BY <1>1, <2>1, <2>3
  <2>5. session' \in Seq(Rows) /\ DOMAIN session' = DOMAIN session
    <3> HIDE DEF Rows
    <3> QED
      BY <1>1, <2>4, SequenceOf
  <2>6. /\ \A r \in DOMAIN session : r # s => session'[r] = session[r]
        /\ session'[s].n = IF session[s].live THEN token.n + 1 ELSE token.n
        /\ session'[s].who = session[s].who
    BY <1>1, <1>2, <2>1, <2>3
  <2> QED
    BY <2>2, <2>5, <2>6
<1>3. CASE session[s].n # token.n
  <2> DEFINE ended(r) == [session[r] EXCEPT !.live = FALSE]
  <2>1. session' = [r \in DOMAIN session |->
                      IF session[r].who = session[s].who THEN ended(r) ELSE session[r]]
    BY <1>3 DEF Replayed, Rotated
  <2>2. \A r \in DOMAIN session : session[r] \in Rows /\ ended(r) \in Rows /\ ended(r).who = session[r].who
    <3>1. ASSUME NEW r \in DOMAIN session
          PROVE  session[r] \in Rows /\ ended(r) \in Rows /\ ended(r).who = session[r].who
      <4>1. session[r] \in Rows
        BY <1>1, <3>1
      <4> QED
        BY <4>1
    <3> QED
      BY <3>1
  <2> HIDE DEF ended
  <2>3. /\ session' \in [1..Len(session) -> Rows]
        /\ \A r \in DOMAIN session : session'[r].who = session[r].who
    BY <1>1, <2>1, <2>2
  <2>4. session' \in Seq(Rows) /\ DOMAIN session' = DOMAIN session
    <3> HIDE DEF Rows
    <3> QED
      BY <1>1, <2>3, SequenceOf
  <2> QED
    BY <1>3, <2>3, <2>4
<1> QED
  BY <1>2, <1>3

\* A token's session is one there is.
LEMMA TakenFacts ==
  ASSUME TabTypeOK, NEW f \in Fetches, Taken(f)
  PROVE  /\ fetch[f].token \in Tokens /\ Known(fetch[f].token) /\ fetch[f].token.s \in Nat
         /\ fetch[f].token.n \in Nat \ {0}
<1>1. fetch[f].token \in Tokens /\ Known(fetch[f].token)
  BY FetchRowFacts DEF TabTypeOK, Taken
<1> QED
  BY <1>1 DEF Tokens

\* What of the ownership a step of identity's leaves: the tab and its tasks stay.
LEMMA ServiceStaysOwn ==
  ASSUME TabInv, UNCHANGED <<tab, task>>, past \subseteq past',
         \A s \in DOMAIN session : session'[s].who = session[s].who,
         \A f \in Fetches : fetch'[f] # Vacant => Taken(f) /\ fetch'[f].token = fetch[f].token
  PROVE  OwnInv'
<1>1. FrontStays
  BY DEF FrontStays
<1>2. TokensAreOwn' /\ RefreshesAreOwn'
  BY <1>1, TokensStayOwn DEF InUse
<1>3. \A load \in Loads : IsOut(load)' <=> IsOut(load)
  BY DEF IsOut, Awaits
<1>4. RequestsAreOwn' /\ KnownIsOwn' /\ ShownIsOwn' /\ LoadIsFollowed'
  BY <1>1, <1>3, RequestsStayOwn, KnownStaysOwn, ShownStaysOwn, TabNames
<1> QED
  BY <1>2, <1>4 DEF OwnInv

LEMMA RotateHolds ==
  ASSUME TabInv, NEW f \in Fetches, Rotate(f)
  PROVE  TabInv'
<1> DEFINE token == fetch[f].token
           entry == [pc |-> "answered", token |-> token, refused |-> Refused(token)]
<1>1. /\ TabTypeOK /\ fetch[f].pc = "sent" /\ Taken(f) /\ fetch \in [Fetches -> FetchRows]
      /\ fetch' = [fetch EXCEPT ![f] = entry]
      /\ session' = IF session[token.s].live \/ Replayed(token) # {} THEN Rotated(token) ELSE session
      /\ past' = past \cup Replayed(token) /\ UNCHANGED <<tab, task, adrift, events>>
  BY FetchRowFacts DEF Rotate, TabInv, TokensInv, TabTypeOK, Taken
<1>2. token \in Tokens /\ Known(token) /\ token.n \in Nat \ {0}
  BY <1>1, TakenFacts
<1>3. Refused(token) \in BOOLEAN
  BY DEF Refused
<1>4. entry \in FetchRows /\ entry # Vacant
  BY <1>2, <1>3, FetchRowFacts
<1>5. entry.pc = "answered" /\ entry.token = token /\ entry.refused = Refused(token)
  OBVIOUS
<1>6. /\ session' \in Seq([who : People, n : Nat \ {0}, live : BOOLEAN])
      /\ DOMAIN session' = DOMAIN session
      /\ \A s \in DOMAIN session : session'[s].who = session[s].who
      /\ session[token.s].n = token.n =>
           /\ Replayed(token) = {}
           /\ \A s \in DOMAIN session : s # token.s => session'[s] = session[s]
           /\ session'[token.s].n = IF session[token.s].live THEN token.n + 1 ELSE token.n
  BY <1>1, <1>2, RotatedFacts
<1> HIDE DEF entry
<1>7. /\ fetch' \in [Fetches -> FetchRows] /\ fetch'[f] = entry
      /\ \A g \in Fetches : g # f => fetch'[g] = fetch[g]
  BY <1>1, <1>4
<1>8. Replayed(token) \subseteq {"replayed"}
  BY DEF Replayed
<1>9. TabTypeOK'
  <2>1. \A g \in Fetches : fetch'[g] # Vacant => Known(fetch'[g].token)
    BY <1>1, <1>2, <1>5, <1>7 DEF TabTypeOK
  <2>2. \A x : (x.s \in DOMAIN session) => x.s \in DOMAIN session'
    BY <1>6
  <2> HIDE DEF token
  <2> QED
    BY <1>1, <1>6, <1>7, <1>8, <2>1 DEF TabTypeOK, Pasts, Known, Doing, Answered
<1>10. FreshIsQuiet'
  BY <1>1 DEF TabInv, TokensInv, FreshIsQuiet, Doing
<1>10a. OwnInv'
  BY <1>1, <1>5, <1>6, <1>7, ServiceStaysOwn DEF Taken
<1>11. CASE Raced
  BY <1>1, <1>9, <1>10, <1>11, <1>10a DEF TabInv, TokensInv, Raced
<1>12. CASE TokensStand
  <2>1. session[token.s].n = token.n
    BY <1>1, <1>12 DEF TokensStand, OneTokenOut
  <2>2. /\ past' = past /\ \A s \in DOMAIN session : s # token.s => session'[s] = session[s]
        /\ ~Refused(token) => session'[token.s].n = token.n + 1
    BY <1>1, <1>6, <2>1 DEF Refused
  <2>3. \A g \in Fetches : Taken(g) => fetch[g].token.s \in DOMAIN session
    BY <1>1, TakenFacts DEF Known
  <2>4. \A a \in adrift : a.s \in DOMAIN session /\ a.s # token.s
    BY <1>1, <1>12 DEF TabTypeOK, Known, TokensStand, OneTokenOut
  <2>5. \A g \in Fetches : fetch'[g] # Vacant <=> Taken(g)
    BY <1>1, <1>4, <1>7 DEF Taken
  <2>6. \A g \in Fetches : Taken(g) => fetch'[g].token = fetch[g].token
    BY <1>5, <1>7
  <2>7. \A g \in Fetches : g # f /\ Taken(g) => fetch[g].token.s # token.s
    BY <1>1, <1>12 DEF TokensStand, OneTokenOut
  <2> HIDE DEF token
  <2>8. OneTokenOut'
    <3>1. ASSUME NEW g \in Fetches, fetch'[g] # Vacant
          PROVE  /\ fetch'[g].pc = "sent" => session'[fetch'[g].token.s].n = fetch'[g].token.n
                 /\ fetch'[g].pc = "answered" /\ ~fetch'[g].refused =>
                      session'[fetch'[g].token.s].n = fetch'[g].token.n + 1
      <4>1. CASE g = f
        BY <1>5, <1>7, <2>2, <4>1
      <4>2. CASE g # f
        BY <1>7, <1>12, <2>2, <2>3, <2>5, <2>7, <3>1, <4>2 DEF TokensStand, OneTokenOut
      <4> QED
        BY <4>1, <4>2
    <3>2. \A a \in adrift' : session'[a.s].n = a.n
      BY <1>1, <1>12, <2>2, <2>4 DEF TokensStand, OneTokenOut
    <3> QED
      BY <1>1, <1>12, <2>5, <2>6, <3>1, <3>2 DEF TokensStand, OneTokenOut, Taken
  <2>9. StoredIsGood'
    <3>1. SUFFICES ASSUME tab.stored # None
          PROVE  /\ \A a \in adrift : a.s # tab.stored.s
                 /\ \A g \in Fetches : fetch'[g] # Vacant /\ fetch'[g].token.s = tab.stored.s =>
                      fetch'[g].token = tab.stored
                 /\ (\A g \in Fetches : fetch'[g] # Vacant => fetch'[g].token.s # tab.stored.s) =>
                      session'[tab.stored.s].n = tab.stored.n
                 /\ \A g \in Navigations : fetch'[g] # Vacant /\ fetch'[g].token = tab.stored =>
                      tab.access = None
      BY <1>1 DEF StoredIsGood, Taken
    <3>2. \A g \in Navigations : g \in Fetches
      BY TabNames
    <3>3. tab.stored.s \in DOMAIN session
      BY <1>1, <3>1 DEF TabTypeOK, Known
    <3>4. ASSUME \A g \in Fetches : fetch'[g] # Vacant => fetch'[g].token.s # tab.stored.s
          PROVE  session'[tab.stored.s].n = tab.stored.n
      <4>1. \A g \in Fetches : Taken(g) => fetch[g].token.s # tab.stored.s
        BY <2>5, <2>6, <3>4
      <4>2. tab.stored.s # token.s
        BY <1>1, <4>1 DEF token
      <4> QED
        BY <1>12, <2>2, <3>1, <3>3, <4>1, <4>2 DEF TokensStand, StoredIsGood
    <3> QED
      BY <1>12, <2>5, <2>6, <3>1, <3>2, <3>4 DEF TokensStand, StoredIsGood
  <2>10. NewIsFresh'
    <3>1. SUFFICES ASSUME Doing("signIn", "signing")
          PROVE  /\ session'[task["signIn"].s].n = 1
                 /\ \A g \in Fetches : fetch'[g] # Vacant => fetch'[g].token.s # task["signIn"].s
                 /\ \A a \in adrift : a.s # task["signIn"].s
                 /\ tab.stored # None => tab.stored.s # task["signIn"].s
      BY <1>1 DEF NewIsFresh, Taken, Doing
    <3>2. task["signIn"].s \in DOMAIN session /\ task["signIn"].s # token.s
      BY <1>1, <1>12, <3>1 DEF TabTypeOK, Known, TokensStand, NewIsFresh, token
    <3> QED
      BY <1>12, <2>2, <2>5, <2>6, <3>1, <3>2 DEF TokensStand, NewIsFresh
  <2> QED
    BY <1>9, <1>10, <1>12, <1>10a, <2>2, <2>8, <2>9, <2>10 DEF TabInv, TokensInv, TokensStand
<1> QED
  BY <1>11, <1>12 DEF TabInv, TokensInv

LEMMA RotateAdriftHolds ==
  ASSUME TabInv, NEW token \in adrift, RotateAdrift(token)
  PROVE  TabInv'
<1>1. /\ TabTypeOK /\ adrift' = adrift \ {token} /\ token \in Tokens /\ Known(token)
      /\ session' = IF session[token.s].live \/ Replayed(token) # {} THEN Rotated(token) ELSE session
      /\ past' = past \cup Replayed(token) /\ UNCHANGED <<tab, task, fetch, events>>
  BY DEF RotateAdrift, TabInv, TokensInv, TabTypeOK
<1>2. /\ session' \in Seq([who : People, n : Nat \ {0}, live : BOOLEAN])
      /\ DOMAIN session' = DOMAIN session
      /\ \A s \in DOMAIN session : session'[s].who = session[s].who
      /\ session[token.s].n = token.n =>
           /\ Replayed(token) = {}
           /\ \A s \in DOMAIN session : s # token.s => session'[s] = session[s]
  BY <1>1, RotatedFacts
<1>3. Replayed(token) \subseteq {"replayed"}
  BY DEF Replayed
<1>4. TabTypeOK'
  BY <1>1, <1>2, <1>3 DEF TabTypeOK, Pasts, Known, Doing, Answered
<1>5. FreshIsQuiet'
  BY <1>1 DEF TabInv, TokensInv, FreshIsQuiet, Doing
<1>5a. OwnInv'
  BY <1>1, <1>2, ServiceStaysOwn DEF Taken
<1>6. CASE Raced
  BY <1>1, <1>4, <1>5, <1>6, <1>5a DEF TabInv, TokensInv, Raced
<1>7. CASE TokensStand
  <2>1. session[token.s].n = token.n
    BY <1>7 DEF TokensStand, OneTokenOut
  <2>2. past' = past /\ \A s \in DOMAIN session : s # token.s => session'[s] = session[s]
    BY <1>1, <1>2, <2>1
  <2>3. \A g \in Fetches : Taken(g) => /\ fetch[g].token.s \in DOMAIN session
                                      /\ fetch[g].token.s # token.s
    BY <1>1, <1>7, TakenFacts DEF Known, TokensStand, OneTokenOut
  <2>4. \A a \in adrift' : a \in adrift /\ a.s \in DOMAIN session /\ a.s # token.s
    BY <1>1, <1>7 DEF TabTypeOK, Known, TokensStand, OneTokenOut
  <2>5. OneTokenOut'
    BY <1>1, <1>7, <2>2, <2>3, <2>4 DEF TokensStand, OneTokenOut, Taken
  <2>6. tab.stored # None => tab.stored.s \in DOMAIN session /\ tab.stored.s # token.s
    BY <1>1, <1>7 DEF TabTypeOK, Known, TokensStand, StoredIsGood
  <2>7. StoredIsGood'
    BY <1>1, <1>7, <2>2, <2>4, <2>6 DEF TokensStand, StoredIsGood, Taken
  <2>8. Doing("signIn", "signing") => /\ task["signIn"].s \in DOMAIN session
                                      /\ task["signIn"].s # token.s
    BY <1>1, <1>7 DEF TabTypeOK, Known, TokensStand, NewIsFresh
  <2>9. NewIsFresh'
    BY <1>1, <1>7, <2>2, <2>4, <2>8 DEF TokensStand, NewIsFresh, Taken, Doing
  <2> QED
    BY <1>4, <1>5, <1>7, <1>5a, <2>2, <2>5, <2>7, <2>9 DEF TabInv, TokensInv, TokensStand
<1> QED
  BY <1>6, <1>7 DEF TabInv, TokensInv


\* What is out stands when one of the refreshes is over.
LEMMA ReturnStands ==
  ASSUME TabTypeOK, TokensStand, NEW f \in Fetches, Taken(f), session' = session,
         fetch'[f] = Vacant, \A g \in Fetches : g # f => fetch'[g] = fetch[g],
         adrift' = adrift \/ (fetch[f].pc = "sent" /\ adrift' = adrift \cup {fetch[f].token}),
         "replayed" \in past' => "replayed" \in past,
         task'["signIn"].pc = "signing" => task'["signIn"] = task["signIn"],
         \/ tab'.stored = None
         \/ /\ fetch[f].pc = "answered" /\ ~fetch[f].refused /\ adrift' = adrift
            /\ tab'.stored = [s |-> fetch[f].token.s, n |-> fetch[f].token.n + 1]
  PROVE  TokensStand'
<1>1. \A g \in Fetches : fetch'[g] # Vacant => g # f /\ Taken(g) /\ fetch'[g] = fetch[g]
  BY DEF Taken
<1>2. \A g \in Fetches : g # f /\ Taken(g) => fetch[g].token.s # fetch[f].token.s
  BY DEF TokensStand, OneTokenOut
<1>3. \A a \in adrift : a.s # fetch[f].token.s
  BY DEF TokensStand, OneTokenOut
<1>4. \A a \in adrift' : a \in adrift \/ (a = fetch[f].token /\ fetch[f].pc = "sent")
  OBVIOUS
<1>5. OneTokenOut'
  <2>1. \A g \in Fetches : fetch'[g] # Vacant => \A a \in adrift' : a.s # fetch'[g].token.s
    BY <1>1, <1>2, <1>4 DEF TokensStand, OneTokenOut
  <2>2. \A a \in adrift' : /\ session[a.s].n = a.n
                           /\ \A b \in adrift' : a # b => a.s # b.s
    BY <1>3, <1>4 DEF TokensStand, OneTokenOut
  <2>3. \A g \in Fetches : fetch'[g] # Vacant =>
          /\ fetch'[g].pc = "sent" => session[fetch'[g].token.s].n = fetch'[g].token.n
          /\ fetch'[g].pc = "answered" /\ ~fetch'[g].refused =>
               session[fetch'[g].token.s].n = fetch'[g].token.n + 1
          /\ \A h \in Fetches : fetch'[h] # Vacant /\ g # h => fetch'[g].token.s # fetch'[h].token.s
    BY <1>1 DEF TokensStand, OneTokenOut
  <2> QED
    BY <2>1, <2>2, <2>3 DEF OneTokenOut, Taken
<1>6. StoredIsGood'
  <2>1. CASE tab'.stored = None
    BY <2>1 DEF StoredIsGood
  <2>2. CASE /\ fetch[f].pc = "answered" /\ ~fetch[f].refused /\ adrift' = adrift
             /\ tab'.stored = [s |-> fetch[f].token.s, n |-> fetch[f].token.n + 1]
    <3>1. tab'.stored.s = fetch[f].token.s /\ tab'.stored.n = fetch[f].token.n + 1
      BY <2>2
    <3>2. session'[tab'.stored.s].n = tab'.stored.n
      BY <2>2, <3>1 DEF TokensStand, OneTokenOut
    <3>3. \A g \in Fetches : fetch'[g] # Vacant => fetch'[g].token.s # tab'.stored.s
      BY <1>1, <1>2, <3>1
    <3>4. \A a \in adrift' : a.s # tab'.stored.s
      BY <1>3, <2>2, <3>1
    <3>5. \A g \in Navigations : fetch'[g] # Vacant => fetch'[g].token # tab'.stored
      BY <3>3, TabNames
    <3> QED
      BY <3>2, <3>3, <3>4, <3>5 DEF StoredIsGood, Taken
  <2> QED
    BY <2>1, <2>2
<1>7. NewIsFresh'
  <2>1. SUFFICES ASSUME task'["signIn"].pc = "signing"
        PROVE  /\ session[task'["signIn"].s].n = 1
               /\ \A g \in Fetches : fetch'[g] # Vacant => fetch'[g].token.s # task'["signIn"].s
               /\ \A a \in adrift' : a.s # task'["signIn"].s
               /\ tab'.stored # None => tab'.stored.s # task'["signIn"].s
    BY DEF NewIsFresh, Taken, Doing
  <2>2. task'["signIn"] = task["signIn"] /\ Doing("signIn", "signing")
    BY <2>1 DEF Doing
  <2>3. /\ session[task["signIn"].s].n = 1
        /\ \A g \in Fetches : Taken(g) => fetch[g].token.s # task["signIn"].s
        /\ \A a \in adrift : a.s # task["signIn"].s
    BY <2>2 DEF TokensStand, NewIsFresh
  <2>4. tab'.stored # None => tab'.stored.s = fetch[f].token.s
    OBVIOUS
  <2> QED
    BY <1>1, <1>4, <2>2, <2>3, <2>4
<1> QED
  BY <1>5, <1>6, <1>7 DEF TokensStand

\* A refresh that is over: nobody waits for it any more.
LEMMA EndsFacts ==
  ASSUME TabTypeOK, NEW f \in Fetches, Taken(f), fetch' = [fetch EXCEPT ![f] = Vacant],
         \A a \in adrift' : a \in adrift \/ a = fetch[f].token
  PROVE  /\ fetch' \in [Fetches -> FetchRows] /\ fetch'[f] = Vacant
         /\ \A g \in Fetches : g # f => fetch'[g] = fetch[g]
         /\ \A g \in Fetches : fetch'[g] # Vacant => Taken(g) /\ fetch'[g] = fetch[g]
         /\ adrift' \in SUBSET Tokens /\ \A a \in adrift' : Known(a)
<1>1. fetch[f].token \in Tokens /\ Known(fetch[f].token)
  BY TakenFacts
<1>2. fetch \in [Fetches -> FetchRows] /\ adrift \in SUBSET Tokens /\ \A a \in adrift : Known(a)
  BY DEF TabTypeOK
<1> QED
  BY <1>1, <1>2, FetchRowFacts DEF Taken

LEMMA RefreshOkHolds ==
  ASSUME TabInv, NEW f \in Fetches, RefreshOk(f)
  PROVE  TabInv'
<1> DEFINE token == fetch[f].token
           tb == Accepted(token.s, token.n + 1)
<1>1. /\ TabTypeOK /\ TokensInv /\ fetch[f].pc = "answered" /\ ~fetch[f].refused /\ Resume(f, tb)
      /\ UNCHANGED <<session, adrift, events>> /\ tab \in TabRows /\ Taken(f)
      /\ task \in [Tasks -> TaskRows]
  BY FetchRowFacts DEF RefreshOk, TabInv, TokensInv, TabTypeOK, Taken
<1>2. token.s \in Nat /\ token.n \in Nat \ {0} /\ Known(token)
  BY <1>1, TakenFacts
<1>3. /\ tb \in TabRows /\ tb.access = [s |-> token.s, n |-> token.n + 1, stale |-> FALSE]
      /\ tb.stored = [s |-> token.s, n |-> token.n + 1] /\ tb.stored \in Tokens
      /\ tb.access \in Accesses /\ tb.me = tab.me /\ tb.onboarding = tab.onboarding
      /\ tb.shown = tab.shown /\ tb.front = tab.front
  <2>1. token.n + 1 \in Nat \ {0}
    BY <1>2
  <2> QED
    BY <1>1, <1>2, <2>1, AcceptedFacts
<1>4. /\ tb.access # None /\ Known(tb.access) /\ Known(tb.stored)
      /\ tb.access.s = token.s /\ tb.stored.s = token.s
  BY <1>2, <1>3, NoneIsNobody DEF Known
<1> HIDE DEF tb
<1>5. /\ tab' = tb /\ fetch' = [fetch EXCEPT ![f] = Vacant] /\ past' = past
      /\ task' = IF f = "shared"
                   THEN [t \in Tasks |-> IF t \in Joined THEN Asked(tb, task[t].what) ELSE task[t]]
                   ELSE [task EXCEPT ![f] = Asked(tb, "me")]
  BY <1>1 DEF Resume
<1>6. /\ fetch' \in [Fetches -> FetchRows] /\ fetch'[f] = Vacant
      /\ \A g \in Fetches : g # f => fetch'[g] = fetch[g]
      /\ \A g \in Fetches : fetch'[g] # Vacant => Taken(g) /\ fetch'[g] = fetch[g]
      /\ adrift' \in SUBSET Tokens /\ \A a \in adrift' : Known(a)
  BY <1>1, <1>5, EndsFacts
<1>7. \A what \in Asks :
        /\ Asked(tb, what) \in TaskRows /\ Asked(tb, what).pc = "asked" /\ AsksWell(Asked(tb, what))
        /\ Asked(tb, what).got = None \/ Asked(tb, what).got = session[token.s].who
  BY <1>1, <1>3, <1>4, AskedFacts
<1>8. \A t \in Joined : Doing(t, "joined") /\ task[t].what \in Asks
  BY <1>1, TaskRowFacts DEF Joined, Doing
<1>9. /\ task' \in [Tasks -> TaskRows]
      /\ \A t \in Tasks : \/ task'[t] = task[t]
                          \/ /\ task'[t].pc = "asked" /\ AsksWell(task'[t])
                             /\ task'[t].got = None \/ task'[t].got = session[token.s].who
                             /\ t \in Loads => Doing(t, "joined")
  <2>1. CASE f = "shared"
    <3>1. task' = [t \in Tasks |-> IF t \in Joined THEN Asked(tb, task[t].what) ELSE task[t]]
      BY <1>5, <2>1
    <3> QED
      BY <1>1, <1>7, <1>8, <3>1
  <2>2. CASE f # "shared"
    <3>1. f \in Navigations /\ f \in Tasks /\ f \notin Loads /\ "me" \in Asks
      BY <2>2, TabNames
    <3>2. task' = [task EXCEPT ![f] = Asked(tb, "me")]
      BY <1>5, <2>2
    <3> QED
      BY <1>1, <1>7, <3>1, <3>2
  <2> QED
    BY <2>1, <2>2
<1>10. task'["signIn"].pc = "signing" => task'["signIn"] = task["signIn"]
  BY <1>9, TabNames
<1>11. AsksWell(task["signOut"]) /\ AsksWell(task'["signOut"])
  BY <1>1, <1>9, TabNames DEF AsksWell, TabTypeOK, Answered, Doing
<1>12. TabTypeOK'
  BY <1>1, <1>3, <1>4, <1>5, <1>6, <1>9, <1>10, <1>11 DEF TabTypeOK, Known, Doing, Answered, AsksWell
<1>13. FreshIsQuiet'
  BY <1>4, <1>5 DEF FreshIsQuiet
<1>14. TokensStand => TokensStand'
  BY <1>1, <1>3, <1>5, <1>6, <1>10, ReturnStands
<1>15. FrontStays /\ InUse(token.s)
  BY <1>1, <1>3, <1>5 DEF FrontStays, InUse
<1>16. TokensAreOwn' /\ RefreshesAreOwn'
  <2>1. \A g \in Fetches : fetch'[g] # Vacant => InUse(fetch'[g].token.s)
    BY <1>6 DEF InUse
  <2> QED
    BY <1>4, <1>5, <1>15, <2>1, TokensStayOwn
<1>17. RequestsAreOwn'
  BY <1>9, <1>15, RequestsStayOwn
<1>18. KnownIsOwn'
  BY <1>3, <1>5, KnownStaysOwn
<1>19. ShownIsOwn' /\ LoadIsFollowed'
  <2>1. \A load \in Loads : IsOut(load)' <=> IsOut(load)
    BY <1>9, TabNames DEF IsOut, Awaits, Doing
  <2> QED
    BY <1>3, <1>5, <2>1, ShownStaysOwn, TabNames
<1> QED
  BY <1>1, <1>5, <1>12, <1>13, <1>14, <1>16, <1>17, <1>18, <1>19
     DEF TabInv, TokensInv, OwnInv, Raced

LEMMA RefreshFailsHolds ==
  ASSUME TabInv, NEW f \in Fetches, RefreshRefused(f) \/ RefreshLost(f)
  PROVE  TabInv'
<1>1. /\ TabTypeOK /\ TokensInv /\ GoWithout(f) /\ session' = session /\ tab \in TabRows
      /\ adrift' = adrift \/ (fetch[f].pc = "sent" /\ adrift' = adrift \cup {fetch[f].token})
      /\ Taken(f) /\ task \in [Tasks -> TaskRows] /\ events' \in Nat
  BY FetchRowFacts DEF RefreshRefused, RefreshLost, Event, TabInv, TokensInv, TabTypeOK, Taken
<1>2. fetch' = [fetch EXCEPT ![f] = Vacant] /\ \A a \in adrift' : a \in adrift \/ a = fetch[f].token
  BY <1>1 DEF GoWithout
<1>3. /\ fetch' \in [Fetches -> FetchRows] /\ fetch'[f] = Vacant
      /\ \A g \in Fetches : g # f => fetch'[g] = fetch[g]
      /\ \A g \in Fetches : fetch'[g] # Vacant => Taken(g) /\ fetch'[g] = fetch[g]
      /\ adrift' \in SUBSET Tokens /\ \A a \in adrift' : Known(a)
  BY <1>1, <1>2, EndsFacts
<1>4. /\ task' \in [Tasks -> TaskRows]
      /\ \A t \in Tasks : task'[t] = task[t] \/ task'[t] = Vacant
      /\ "signOut" \in Joined /\ f = "shared" => task'["signOut"] = Vacant
  <2>1. CASE f = "shared"
    <3>1. task' = [t \in Tasks |-> IF t \in Joined THEN Vacant ELSE task[t]]
      BY <1>1, <2>1 DEF GoWithout
    <3> QED
      BY <1>1, <3>1, TaskRowFacts, TabNames
  <2>2. CASE f # "shared"
    <3>1. f \in Tasks /\ task' = [task EXCEPT ![f] = Vacant]
      BY <1>1, <2>2, TabNames DEF GoWithout
    <3> QED
      BY <1>1, <2>2, <3>1, TaskRowFacts
  <2> QED
    BY <2>1, <2>2
<1>5. /\ task'["signIn"].pc = "signing" => task'["signIn"] = task["signIn"]
      /\ AsksWell(task'["signOut"])
  BY <1>1, <1>4, TabNames, TaskRowFacts DEF AsksWell, TabTypeOK, Answered, Doing
<1>6. \A u \in Tasks : task'[u].pc = "asked" => task[u].pc = "asked" /\ task'[u].got = task[u].got
  BY <1>4, TaskRowFacts
<1>7. /\ Unloaded(Joined) \subseteq {"unloaded"}
      /\ Crossing("signOut", task', fetch') \subseteq {"resumed", "crossed"}
  BY DEF Unloaded, Crossing
<1>8. \/ /\ tab' \in TabRows /\ Kept(tab') = <<None, None, None, None, tab.shown, tab.front>>
         /\ past' \in {past, past \cup Unloaded(Joined)}
      \/ /\ f = "shared" /\ "signOut" \in Joined /\ tab' = SignedOff
         /\ past' = past \cup Unloaded(Joined) \cup Crossing("signOut", task', fetch')
  <2>1. CASE f = "shared"
    BY <1>1, <2>1, ClearedFacts DEF GoWithout
  <2>2. CASE f # "shared"
    <3>1. tab' = Restored(Cleared, f) /\ past' = past /\ f \in Navigations
      BY <1>1, <2>2, TabNames DEF GoWithout
    <3> QED
      BY <1>1, <3>1, ClearedFacts, ScreenFacts
  <2> QED
    BY <2>1, <2>2
<1>9. /\ tab' \in TabRows /\ tab'.access = None /\ tab'.stored = None /\ tab'.me = None
      /\ tab'.onboarding = None
  BY <1>1, <1>8, ClearedFacts DEF Kept
<1>10. past \subseteq past' /\ past' \in SUBSET Pasts /\ ("replayed" \in past' => "replayed" \in past)
  BY <1>1, <1>7, <1>8 DEF TabTypeOK, Pasts
<1>11. TabTypeOK'
  BY <1>1, <1>3, <1>4, <1>5, <1>9, <1>10 DEF TabTypeOK, Known, Doing, Answered, AsksWell
<1>12. FreshIsQuiet'
  BY <1>9 DEF FreshIsQuiet
<1>13. TokensStand => TokensStand'
  BY <1>1, <1>3, <1>5, <1>9, <1>10, ReturnStands
<1>14. OwnInv'
  <2>1. CASE tab'.front = tab.front
    <3>1. FrontStays
      BY <1>1, <1>10, <2>1 DEF FrontStays
    <3>2. \A g \in Fetches : fetch'[g] # Vacant => InUse(fetch'[g].token.s)
      BY <1>3 DEF InUse
    <3>3. TokensAreOwn' /\ RefreshesAreOwn'
      BY <1>9, <3>1, <3>2, TokensStayOwn
    <3>4. RequestsAreOwn'
      BY <1>6, <3>1, RequestsStayOwn
    <3>5. KnownIsOwn' /\ ShownIsOwn' /\ LoadIsFollowed'
      BY <1>9, <1>10, <2>1, KnownStaysOwn, ShownStaysOwn
    <3> QED
      BY <3>3, <3>4, <3>5 DEF OwnInv
  <2>2. CASE tab'.front # tab.front
    <3>1. /\ f = "shared" /\ "signOut" \in Joined
          /\ past' = past \cup Unloaded(Joined) \cup Crossing("signOut", task', fetch')
      BY <1>8, <2>2 DEF Kept
    <3>2. \A t \in Tasks : task'[t].pc = "asked" => t # "signOut" /\ task'[t].pc = "asked"
      BY <1>4, <3>1, TaskRowFacts
    <3> HIDE DEF Kept
    <3> QED
      BY <1>9, <3>1, <3>2, LeftIsOwn
  <2> QED
    BY <2>1, <2>2
<1>15. Raced => Raced'
  BY <1>10 DEF Raced
<1> QED
  BY <1>1, <1>11, <1>12, <1>13, <1>14, <1>15 DEF TabInv, TokensInv

----------------------------------------------------------------------------
\* The user.

LEMMA SignInHolds ==
  ASSUME TabInv, NEW p \in People, SignIn(p)
  PROVE  TabInv'
<1> DEFINE Rows == [who : People, n : Nat \ {0}, live : BOOLEAN]
           entry == [who |-> p, n |-> 1, live |-> TRUE]
<1>1. PICK s \in Nat : s = Len(session) + 1
  BY DEF TabInv, TokensInv, TabTypeOK
<1>2. /\ TabTypeOK /\ TokensInv /\ session \in Seq(Rows) /\ task \in [Tasks -> TaskRows]
      /\ session' = Append(session, entry)
      /\ task' = [task EXCEPT !["signIn"] = [pc |-> "signing", s |-> s]]
      /\ UNCHANGED <<tab, fetch, adrift, past>> /\ events' \in Nat
  BY <1>1 DEF SignIn, Event, TabInv, TokensInv, TabTypeOK
<1>3. entry \in Rows /\ entry.n = 1
  OBVIOUS
<1>4. /\ session' \in Seq(Rows) /\ s \in DOMAIN session' /\ s \notin DOMAIN session
      /\ \A r \in DOMAIN session : r \in DOMAIN session' /\ session'[r] = session[r]
      /\ session'[s].n = 1
  <2> HIDE DEF Rows, entry
  <2> QED
    BY <1>1, <1>2, <1>3
<1>5. [pc |-> "signing", s |-> s] \in TaskRows
  BY DEF TaskRows
<1>6. /\ task' \in [Tasks -> TaskRows] /\ task'["signIn"].pc = "signing" /\ task'["signIn"].s = s
      /\ \A t \in Tasks : t # "signIn" => task'[t] = task[t]
  BY <1>2, <1>5, TabNames
<1>7. TabTypeOK'
  BY <1>2, <1>4, <1>6, TabNames DEF TabTypeOK, Known, Answered, Doing
<1>8. FreshIsQuiet'
  BY <1>2, <1>6 DEF TokensInv, FreshIsQuiet, Doing
<1>9. OwnInv'
  <2>1. FrontStays
    BY <1>2, <1>4 DEF FrontStays
  <2>2. TokensAreOwn' /\ RefreshesAreOwn'
    BY <1>2, <2>1, TokensStayOwn DEF InUse, Taken
  <2>3. \A t \in Tasks : task'[t].pc = "asked" => task[t].pc = "asked" /\ task'[t].got = task[t].got
    BY <1>6
  <2>4. \A load \in Loads : IsOut(load)' <=> IsOut(load)
    BY <1>6, TabNames DEF IsOut, Awaits
  <2>5. RequestsAreOwn' /\ KnownIsOwn' /\ ShownIsOwn' /\ LoadIsFollowed'
    BY <1>2, <2>1, <2>3, <2>4, RequestsStayOwn, KnownStaysOwn, ShownStaysOwn, TabNames
  <2> QED
    BY <2>2, <2>5 DEF OwnInv
<1>10. CASE Raced
  BY <1>2, <1>7, <1>8, <1>9, <1>10 DEF TabInv, TokensInv, Raced
<1>11. CASE TokensStand
  <2>1. \A g \in Fetches : Taken(g) => fetch[g].token.s \in DOMAIN session
    BY <1>2 DEF TabTypeOK, Known, Taken
  <2>2. \A a \in adrift : a.s \in DOMAIN session
    BY <1>2 DEF TabTypeOK, Known
  <2>3. tab.stored # None => tab.stored.s \in DOMAIN session
    BY <1>2 DEF TabTypeOK, Known
  <2>4. OneTokenOut'
    BY <1>2, <1>4, <1>11, <2>1, <2>2 DEF TokensStand, OneTokenOut, Taken
  <2>5. StoredIsGood'
    BY <1>2, <1>4, <1>11, <2>3 DEF TokensStand, StoredIsGood, Taken
  <2>6. NewIsFresh'
    BY <1>2, <1>4, <1>6, <2>1, <2>2, <2>3 DEF NewIsFresh, Taken
  <2> QED
    BY <1>2, <1>7, <1>8, <1>9, <1>11, <2>4, <2>5, <2>6 DEF TabInv, TokensInv, TokensStand
<1> QED
  BY <1>2, <1>10, <1>11 DEF TokensInv

LEMMA SignedInHolds ==
  ASSUME TabInv, SignedIn
  PROVE  TabInv'
<1> DEFINE s == task["signIn"].s
           p == session[s].who
           tb == Accepted(s, 1)
           next == Asked(tab', "me")
           known == IF {tab.me, tab.onboarding} \subseteq {None, p} THEN {} ELSE {"crossed"}
<1>1. /\ TabTypeOK /\ TokensInv /\ Doing("signIn", "signing") /\ tab' = [tb EXCEPT !.front = p]
      /\ tab \in TabRows /\ task' = [task EXCEPT !["signIn"] = next] /\ task \in [Tasks -> TaskRows]
      /\ past' = past \cup Crossing("signIn", task, fetch) \cup known
      /\ UNCHANGED <<session, fetch, adrift, events>>
  BY DEF SignedIn, TabInv, TokensInv, TabTypeOK
<1>2. s \in Nat /\ s \in DOMAIN session
  BY <1>1, TabNames, TaskRowFacts DEF TabTypeOK, Known, Doing
<1>3. p \in People
  <2>1. session[s] \in [who : People, n : Nat \ {0}, live : BOOLEAN]
    BY <1>1, <1>2, EntryOf DEF TabTypeOK
  <2> QED
    BY <2>1
<1>4. /\ tb \in TabRows /\ tb.access = [s |-> s, n |-> 1, stale |-> FALSE] /\ tb.access \in Accesses
      /\ tb.stored = [s |-> s, n |-> 1] /\ tb.me = tab.me /\ tb.shown = tab.shown
      /\ tb.onboarding = tab.onboarding
  BY <1>1, <1>2, AcceptedFacts
<1> HIDE DEF tb
<1>5. /\ tab' \in TabRows /\ tab'.access = [s |-> s, n |-> 1, stale |-> FALSE] /\ tab'.front = p
      /\ tab'.stored = [s |-> s, n |-> 1] /\ tab'.me = tab.me /\ tab'.shown = tab.shown
      /\ tab'.onboarding = tab.onboarding
  <2> HIDE DEF p
  <2> QED
    BY <1>1, <1>3, <1>4 DEF TabRows
<1>6. PICK after \in TabRows :
        /\ tab' = after /\ after.access = [s |-> s, n |-> 1, stale |-> FALSE] /\ after.access # None
        /\ after.access.s = s /\ after.stored.s = s /\ after.stored.n = 1
  BY <1>4, <1>5, NoneIsNobody
<1>7. next \in TaskRows /\ next.pc = "asked" /\ (next.got = None \/ next.got = p)
  <2>1. Known(after.access)
    BY <1>2, <1>6 DEF Known
  <2>2. next = Asked(after, "me")
    BY <1>6
  <2> QED
    BY <1>1, <1>6, <2>1, <2>2, AskedFacts, TabNames
<1> HIDE DEF next
<1>8. /\ task' \in [Tasks -> TaskRows] /\ task'["signIn"] = next
      /\ \A t \in Tasks : t # "signIn" => task'[t] = task[t]
  BY <1>1, <1>7, TabNames
<1>9. Crossing("signIn", task, fetch) \subseteq {"resumed", "crossed"} /\ known \subseteq {"crossed"}
  BY DEF Crossing
<1>10. past \subseteq past' /\ past' \in SUBSET Pasts /\ ("replayed" \in past' => "replayed" \in past)
  <2> HIDE DEF known
  <2> QED
    BY <1>1, <1>9 DEF TabTypeOK, Pasts
<1>11. tab'.stored.s \in DOMAIN session /\ tab'.access.s \in DOMAIN session
  BY <1>2, <1>6
<1>12. TabTypeOK'
  BY <1>1, <1>5, <1>6, <1>7, <1>8, <1>10, <1>11, TabNames DEF TabTypeOK, Known, Doing, Answered
<1>13. FreshIsQuiet'
  BY <1>6 DEF FreshIsQuiet
<1>14. TokensAreOwn'
  BY <1>1, <1>5, <1>6 DEF TokensAreOwn
<1>15. RefreshesAreOwn'
  BY <1>1 DEF RefreshesAreOwn, Crossing, Taken
<1>16. RequestsAreOwn'
  <2>1. CASE \E u \in Tasks \ {"signIn"} : Awaits(task, u)
    <3>1. "crossed" \in past'
      BY <1>1, <2>1 DEF Crossing
    <3> QED
      BY <3>1 DEF RequestsAreOwn, Left
  <2>2. CASE ~\E u \in Tasks \ {"signIn"} : Awaits(task, u)
    <3>1. \A t \in Tasks : task'[t].pc = "asked" => t = "signIn"
      BY <1>8, <2>2 DEF Awaits
    <3> QED
      BY <1>5, <1>7, <1>8, <3>1 DEF RequestsAreOwn, Doing
  <2> QED
    BY <2>1, <2>2
<1>17. KnownIsOwn'
  <2>1. CASE {tab.me, tab.onboarding} \subseteq {None, p}
    BY <1>5, <2>1 DEF KnownIsOwn
  <2>2. CASE ~({tab.me, tab.onboarding} \subseteq {None, p})
    BY <1>1, <2>2 DEF KnownIsOwn, Left
  <2> QED
    BY <2>1, <2>2
<1>18. ShownIsOwn' /\ LoadIsFollowed'
  <2>1. \A load \in Loads : IsOut(load)' <=> IsOut(load)
    BY <1>8, TabNames DEF IsOut, Awaits
  <2> QED
    BY <1>5, <1>10, <2>1, ShownStaysOwn, TabNames
<1>19. TokensStand => TokensStand'
  <2> SUFFICES ASSUME TokensStand PROVE TokensStand'
    OBVIOUS
  <2>1. /\ session[s].n = 1 /\ \A a \in adrift : a.s # s
        /\ \A g \in Fetches : Taken(g) => fetch[g].token.s # s
    BY <1>1 DEF TokensStand, NewIsFresh
  <2>2. OneTokenOut'
    BY <1>1 DEF TokensStand, OneTokenOut, Taken
  <2> HIDE DEF s
  <2>3. \A g \in Navigations : Taken(g) => fetch[g].token # tab'.stored
    BY <1>6, <2>1, TabNames
  <2>4. StoredIsGood'
    BY <1>1, <1>6, <2>1, <2>3 DEF StoredIsGood, Taken
  <2>5. NewIsFresh'
    BY <1>7, <1>8 DEF NewIsFresh, Doing
  <2> QED
    BY <1>10, <2>2, <2>4, <2>5 DEF TokensStand
<1>20. Raced => Raced'
  BY <1>10 DEF Raced
<1> QED
  BY <1>1, <1>12, <1>13, <1>14, <1>15, <1>16, <1>17, <1>18, <1>19, <1>20
     DEF TabInv, TokensInv, OwnInv

LEMMA SignOutHolds ==
  ASSUME TabInv, SignOut
  PROVE  TabInv'
<1> DEFINE next == Asked(tab, "out")
<1>1. /\ TabTypeOK /\ TokensInv /\ tab.access # None /\ tab \in TabRows /\ task \in [Tasks -> TaskRows]
      /\ task' = [task EXCEPT !["signOut"] = next] /\ Known(tab.access)
      /\ UNCHANGED <<session, tab, fetch, adrift, past, events>>
  BY DEF SignOut, TabInv, TokensInv, TabTypeOK
<1>2. /\ next \in TaskRows /\ AsksWell(next) /\ next.pc = "asked"
      /\ next.got = None \/ next.got = session[tab.access.s].who
  BY <1>1, AskedFacts, TabNames
<1> HIDE DEF next
<1>3. /\ task' \in [Tasks -> TaskRows] /\ task'["signOut"] = next
      /\ \A t \in Tasks : t # "signOut" => task'[t] = task[t]
  BY <1>1, <1>2, TabNames
<1>4. Doing("signIn", "signing")' => task'["signIn"] = task["signIn"]
  BY <1>3, TabNames
<1>5. past' \in SUBSET Pasts /\ events' \in Nat
  BY <1>1 DEF TabTypeOK
<1>6. TabTypeOK'
  BY <1>1, <1>2, <1>3, <1>4, <1>5, TypeStays
<1>7. FreshIsQuiet'
  BY <1>1 DEF FreshIsQuiet
<1>8. (Raced \/ TokensStand)'
  BY <1>1, <1>4, TokensStay
<1>9. FrontStays
  BY <1>1 DEF FrontStays
<1>10. TokensAreOwn' /\ RefreshesAreOwn'
  BY <1>1, <1>9, TokensStayOwn DEF InUse, Taken
<1>11. RequestsAreOwn'
  BY <1>1, <1>2, <1>3, <1>9, RequestsStayOwn DEF InUse
<1>12. \A load \in Loads : IsOut(load)' <=> IsOut(load)
  BY <1>3, TabNames DEF IsOut, Awaits
<1>13. KnownIsOwn' /\ ShownIsOwn' /\ LoadIsFollowed'
  BY <1>1, <1>12, KnownStaysOwn, ShownStaysOwn, TabNames
<1> QED
  BY <1>6, <1>7, <1>8, <1>10, <1>11, <1>13 DEF TabInv, TokensInv, OwnInv

LEMMA ReloadPageHolds ==
  ASSUME TabInv, ReloadPage
  PROVE  TabInv'
<1> DEFINE out == {f \in Fetches : fetch[f] # Vacant}
           lost == {fetch[f].token : f \in {g \in out : fetch[g].pc = "sent"}}
<1>1. /\ TabTypeOK /\ TokensInv /\ tab \in TabRows /\ fetch \in [Fetches -> FetchRows]
      /\ adrift' = adrift \cup lost /\ past' = past \cup (IF out # {} THEN {"reloaded"} ELSE {})
      /\ tab' = NewPage(tab.stored, tab.front) /\ task' = [t \in Tasks |-> Vacant]
      /\ fetch' = [f \in Fetches |-> Vacant] /\ UNCHANGED session /\ events' \in Nat
  BY DEF ReloadPage, Event, TabInv, TokensInv, TabTypeOK
<1>2. /\ tab' \in TabRows /\ tab'.stored = tab.stored /\ tab'.access = None /\ tab'.me = None
      /\ tab'.onboarding = None /\ tab'.front = tab.front
  BY <1>1 DEF NewPage, TabRows
<1>3. /\ task' \in [Tasks -> TaskRows] /\ \A t \in Tasks : task'[t] = Vacant
      /\ fetch' \in [Fetches -> FetchRows] /\ \A f \in Fetches : fetch'[f] = Vacant
  BY <1>1, TaskRowFacts, FetchRowFacts
<1>4. \A a \in adrift' : a \in Tokens /\ a.s \in DOMAIN session
  <2>1. \A a \in lost : a \in Tokens /\ a.s \in DOMAIN session
    BY <1>1, TakenFacts DEF Taken, Known
  <2> QED
    BY <1>1, <2>1 DEF TabTypeOK, Known
<1>5. past \subseteq past' /\ past' \in SUBSET Pasts
  BY <1>1 DEF TabTypeOK, Pasts
<1>6. \A t \in Tasks : ~(task'[t].pc = "asked") /\ ~(task'[t].pc = "signing")
  BY <1>3, TaskRowFacts
<1>7. adrift' \in SUBSET Tokens
  BY <1>4
<1>8. TabTypeOK'
  BY <1>1, <1>2, <1>3, <1>4, <1>5, <1>6, <1>7, TabNames DEF TabTypeOK, Known, Doing, Answered
<1>9. FreshIsQuiet'
  BY <1>2, <1>6 DEF FreshIsQuiet, Doing
<1>10. OwnInv'
  <2>1. FrontStays
    BY <1>1, <1>2, <1>5 DEF FrontStays
  <2>2. TokensAreOwn' /\ RefreshesAreOwn'
    BY <1>2, <1>3, <2>1, TokensStayOwn DEF InUse
  <2>3. RequestsAreOwn' /\ KnownIsOwn' /\ ShownIsOwn' /\ LoadIsFollowed'
    BY <1>2, <1>5, <1>6, <2>1, RequestsStayOwn, KnownStaysOwn, ShownStaysOwn
  <2> QED
    BY <2>2, <2>3 DEF OwnInv
<1>11. CASE out # {}
  <2>1. Raced'
    BY <1>1, <1>11 DEF Raced
  <2> QED
    BY <1>8, <1>9, <1>10, <2>1 DEF TabInv, TokensInv
<1>12. CASE out = {}
  <2>1. \A f \in Fetches : fetch[f] = Vacant
    BY <1>12
  <2>2. fetch' = fetch
    BY <1>1, <2>1
  <2>3. lost = {}
    BY <1>12
  <2>4. adrift' = adrift /\ past' = past
    BY <1>1, <1>12, <2>3
  <2>5. Doing("signIn", "signing")' => task'["signIn"] = task["signIn"]
    BY <1>6, TabNames DEF Doing
  <2> HIDE DEF out, lost
  <2>6. (Raced \/ TokensStand)'
    BY <1>1, <1>2, <2>2, <2>4, <2>5, TokensStay
  <2> QED
    BY <1>8, <1>9, <1>10, <2>6 DEF TabInv, TokensInv
<1> QED
  BY <1>11, <1>12

LEMMA ExpireHolds ==
  ASSUME TabInv, Expire
  PROVE  TabInv'
<1> DEFINE entry == [tab.access EXCEPT !.stale = TRUE]
<1>1. /\ TabTypeOK /\ TokensInv /\ tab \in TabRows /\ tab.access # None
      /\ tab' = [tab EXCEPT !.access = entry]
      /\ UNCHANGED <<session, task, fetch, adrift, past>> /\ events' \in Nat
  BY DEF Expire, Event, TabInv, TokensInv, TabTypeOK
<1>2. tab.access \in Accesses
  BY <1>1 DEF TabRows
<1>3. entry \in Accesses /\ entry.s = tab.access.s
  BY <1>2 DEF Accesses
<1> HIDE DEF entry
<1>4. /\ tab' \in TabRows /\ tab'.access = entry /\ tab'.stored = tab.stored /\ tab'.me = tab.me
      /\ tab'.onboarding = tab.onboarding /\ tab'.shown = tab.shown /\ tab'.front = tab.front
  BY <1>1, <1>3 DEF TabRows
<1>5. entry # None
  BY <1>3, NoneIsNobody
<1>6. /\ task' \in [Tasks -> TaskRows] /\ past' \in SUBSET Pasts /\ AsksWell(task'["signOut"])
      /\ Doing("signIn", "signing")' => task'["signIn"] = task["signIn"]
  BY <1>1 DEF TabTypeOK, AsksWell, Answered, Doing
<1>7. TabTypeOK'
  BY <1>1, <1>3, <1>4, <1>6, TypeStays
<1>8. FreshIsQuiet'
  BY <1>4, <1>5 DEF FreshIsQuiet
<1>9. (Raced \/ TokensStand)'
  BY <1>1, <1>4, TokensStay
<1>10. FrontStays
  BY <1>1, <1>4 DEF FrontStays
<1>11. TokensAreOwn' /\ RefreshesAreOwn'
  BY <1>1, <1>3, <1>4, <1>10, TokensStayOwn DEF InUse, Taken
<1>12. \A load \in Loads : IsOut(load)' <=> IsOut(load)
  BY <1>1 DEF IsOut, Awaits
<1>13. RequestsAreOwn' /\ KnownIsOwn' /\ ShownIsOwn' /\ LoadIsFollowed'
  BY <1>1, <1>4, <1>10, <1>12, RequestsStayOwn, KnownStaysOwn, ShownStaysOwn, TabNames
<1> QED
  BY <1>7, <1>8, <1>9, <1>11, <1>13 DEF TabInv, TokensInv, OwnInv

----------------------------------------------------------------------------

LEMMA TabInvInitially ==
  ASSUME TabInit
  PROVE  TabInv
<1>1. /\ session = <<>> /\ tab = NewPage(None, None) /\ task = [t \in Tasks |-> Vacant]
      /\ fetch = [f \in Fetches |-> Vacant] /\ adrift = {} /\ past = {} /\ events = 0
  BY DEF TabInit
<1>2. /\ tab \in TabRows /\ tab.stored = None /\ tab.access = None /\ tab.me = None
      /\ tab.onboarding = None
  BY <1>1 DEF NewPage, TabRows
<1>3. /\ task \in [Tasks -> TaskRows] /\ \A t \in Tasks : task[t].pc = "idle"
      /\ fetch \in [Fetches -> FetchRows] /\ \A f \in Fetches : fetch[f] = Vacant
  BY <1>1, TaskRowFacts, FetchRowFacts
<1>4. session \in Seq([who : People, n : Nat \ {0}, live : BOOLEAN])
  BY <1>1
<1>5. TabTypeOK
  BY <1>1, <1>2, <1>3, <1>4, TabNames DEF TabTypeOK, Doing, Answered
<1>6. TokensStand
  BY <1>1, <1>2, <1>3, TabNames
     DEF TokensStand, OneTokenOut, StoredIsGood, NewIsFresh, Taken, Doing
<1>7. OwnInv
  BY <1>2, <1>3
     DEF OwnInv, TokensAreOwn, RefreshesAreOwn, RequestsAreOwn, KnownIsOwn, ShownIsOwn, LoadIsFollowed,
         Taken, Doing
<1> QED
  BY <1>2, <1>5, <1>6, <1>7 DEF TabInv, TokensInv, FreshIsQuiet

LEMMA TabInvStays ==
  ASSUME TabInv, [TabNext]_tabVars
  PROVE  TabInv'
<1>1. CASE UNCHANGED tabVars
  <2>1. TokensInv'
    BY <1>1 DEF tabVars, TabInv, TokensInv, TabTypeOK, Known, Doing, Answered, FreshIsQuiet, Raced,
                TokensStand, OneTokenOut, StoredIsGood, NewIsFresh, Taken
  <2>2. OwnInv'
    BY <1>1 DEF tabVars, TabInv, OwnInv, TokensAreOwn, RefreshesAreOwn, RequestsAreOwn, KnownIsOwn,
                ShownIsOwn, LoadIsFollowed, IsOut, Awaits, Left, Taken, Doing
  <2> QED
    BY <2>1, <2>2 DEF TabInv
<1>2. ASSUME NEW t \in Tasks, Join(t) \/ GiveUp(t) \/ LoseRequest(t)
      PROVE  TabInv'
  BY <1>2, JoinHolds, RequestFailsHolds
<1>3. ASSUME NEW t \in Navigations \cup {"signIn"}, MeKnown(t) \/ OnboardingKnown(t)
      PROVE  TabInv'
  BY <1>3, MeKnownHolds, OnboardingKnownHolds
<1>4. ASSUME NEW load \in Loads, Loaded(load) PROVE TabInv'
  BY <1>4, LoadedHolds
<1>5. ASSUME NEW f \in Fetches, Rotate(f) \/ RefreshOk(f) \/ RefreshRefused(f) \/ RefreshLost(f)
      PROVE  TabInv'
  BY <1>5, RotateHolds, RefreshOkHolds, RefreshFailsHolds
<1>6. ASSUME NEW token \in adrift, RotateAdrift(token) PROVE TabInv'
  BY <1>6, RotateAdriftHolds
<1>7. ASSUME NEW nav \in Navigations, Navigate(nav) PROVE TabInv'
  BY <1>7, NavigateHolds
<1>8. ASSUME NEW p \in People, SignIn(p) PROVE TabInv'
  BY <1>8, SignInHolds
<1>9. CASE SignedIn \/ SignOut \/ EndSession \/ SignedOut \/ ReloadPage \/ Expire
  BY <1>9, SignedInHolds, SignOutHolds, EndSessionHolds, SignedOutHolds, ReloadPageHolds, ExpireHolds
<1> QED
  BY <1>1, <1>2, <1>3, <1>4, <1>5, <1>6, <1>7, <1>8, <1>9 DEF TabNext

LEMMA TabInvTells ==
  ASSUME TabInv
  PROVE  TabIsOwn
BY DEF TabInv, TokensInv, OwnInv, TabIsOwn, ReplayOnlyIfRaced, Raced, TokensStand

\* The tokens of a tab and what it shows are those of the person in front of it, for any
\* people, sign-ins, lost answers and reloads.  The tokens: unless a refresh was out when
\* somebody signed out, or signed in over it, which is then accepted for whoever is there.
\* Who is taken to be there, and whose onboarding: unless a request of the one before was
\* out besides, or they were still known.  Whoever is known sees their own bids once their
\* onboarding is there, or a load is under way, but for a load that failed and for one
\* that another overtook.  And a refresh token is presented twice - identity then ends
\* every session of its owner - only after a restore overlapped with a refresh or a page
\* was loaded again while one ran, because requests that meet a 401 share one refresh.
THEOREM TabIsOwnAlways == TabSpec => []TabIsOwn
<1>1. TabInit => TabInv
  BY TabInvInitially
<1>2. TabInv /\ [TabNext]_tabVars => TabInv'
  BY TabInvStays
<1>3. TabInv => TabIsOwn
  BY TabInvTells
<1> QED
  BY <1>1, <1>2, <1>3, PTL DEF TabSpec

----------------------------------------------------------------------------
(* The back office's desk: roles and screens first.                         *)

\* Which screens a role opens.
OpensTo(role) ==
  CASE role = "ops_officer" -> DOMAIN Screens \ {"recon"}
    [] role = "ops_supervisor" -> DOMAIN Screens \ {"recon", "cds"}
    [] role = "compliance_officer" -> DOMAIN Screens \ {"cds"}
    [] role = "treasury_officer" ->
         {"overview", "customers", "customer", "bankAccounts", "submission", "recon"}
    [] role = "bot_observer" -> {"overview"}
    [] role = "system_admin" -> {"users"}

LEMMA RolesAre ==
  DOMAIN Permissions = {"ops_officer", "ops_supervisor", "treasury_officer", "compliance_officer",
                        "bot_observer", "system_admin"}
BY DEF Permissions

LEMMA ScreensAre ==
  /\ DOMAIN Screens = {"overview", "customers", "customer", "kyc", "cds", "bankAccounts", "submission",
                       "recon", "users", "customerLogin"}
  /\ Screens["overview"].needs = {"report:read"} /\ Screens["overview"].order = 10
  /\ Screens["customers"].needs = {"investor:read"} /\ Screens["customers"].order = 15
  /\ Screens["customer"].needs = {"investor:read"} /\ Screens["customer"].order = 0
  /\ Screens["kyc"].needs = {"kyc:review"} /\ Screens["kyc"].order = 20
  /\ Screens["cds"].needs = {"cds:open"} /\ Screens["cds"].order = 25
  /\ Screens["bankAccounts"].needs = {"investor:read"} /\ Screens["bankAccounts"].order = 27
  /\ Screens["submission"].needs = {"bid:read:all"} /\ Screens["submission"].order = 30
  /\ Screens["recon"].needs = {"settlement:read"} /\ Screens["recon"].order = 40
  /\ Screens["users"].needs = {"admin:user:manage", "customer_login:read"} /\ Screens["users"].order = 50
  /\ Screens["customerLogin"].needs = {"customer_login:read"} /\ Screens["customerLogin"].order = 0
BY DEF Screens, Screen, NoPlace

LEMMA PermissionsAre ==
  /\ Permissions["ops_officer"] =
      {"investor:read", "kyc:review", "cds:open", "customer_login:read", "customer_login:sign_out",
       "customer_login:unlock:request", "bid:read:all", "auction:manage", "batch:prepare", "report:read"}
  /\ Permissions["ops_supervisor"] =
      {"investor:read", "kyc:review", "kyc:decide", "customer_login:read", "customer_login:sign_out",
       "customer_login:unlock:approve", "bid:read:all", "batch:approve", "report:read"}
  /\ Permissions["treasury_officer"] = {"investor:read", "bid:read:all", "settlement:read", "report:read"}
  /\ Permissions["compliance_officer"] =
      {"investor:read", "customer_login:read", "kyc:review", "kyc:decide", "bid:read:all",
       "settlement:read", "report:read"}
  /\ Permissions["bot_observer"] = {"report:read"}
  /\ Permissions["system_admin"] = {"admin:user:manage"}
BY DEF Permissions

LEMMA OpenAre ==
  ASSUME NEW role \in DOMAIN Permissions
  PROVE  /\ OpensTo(role) \subseteq DOMAIN Screens
         /\ \A sc \in DOMAIN Screens : MayOpen(role, sc) <=> sc \in OpensTo(role)
<1> USE RolesAre, ScreensAre, PermissionsAre DEF MayOpen, OpensTo
<1>1. CASE role = "ops_officer"
  BY <1>1
<1>2. CASE role = "ops_supervisor"
  BY <1>2
<1>3. CASE role = "treasury_officer"
  BY <1>3
<1>4. CASE role = "compliance_officer"
  BY <1>4
<1>5. CASE role = "bot_observer"
  BY <1>5
<1>6. CASE role = "system_admin"
  BY <1>6
<1> QED
  BY <1>1, <1>2, <1>3, <1>4, <1>5, <1>6

\* Whoever is sent away is sent to the overview, but for the administrator.
LEMMA LandingIs ==
  ASSUME NEW role \in DOMAIN Permissions
  PROVE  Landing(role) = IF role = "system_admin" THEN "users" ELSE "overview"
<1>1. \A sc \in DOMAIN Screens : sc # "overview" => Screens[sc].order > 10 \/ Screens[sc].order = 0
  BY ScreensAre
<1>2. CASE role # "system_admin"
  <2>1. "overview" \in Sidebar(role)
    BY <1>2, OpenAre, ScreensAre, RolesAre DEF Sidebar, OpensTo, NoPlace
  <2>2. \A sc \in Sidebar(role) : sc # "overview" => Screens["overview"].order < Screens[sc].order
    BY ScreensAre DEF Sidebar, NoPlace
  <2>3. \A sc \in Sidebar(role) : (\A t \in Sidebar(role) : Screens[sc].order <= Screens[t].order) <=> sc = "overview"
    <3>1. \A sc \in Sidebar(role) : Screens[sc].order \in Int
      BY ScreensAre DEF Sidebar
    <3> QED
      BY <2>1, <2>2, <3>1
  <2> QED
    BY <1>2, <2>1, <2>3 DEF Landing
<1>3. CASE role = "system_admin"
  <2>1. Sidebar(role) = {"users"}
    BY <1>3, OpenAre, ScreensAre, RolesAre DEF Sidebar, OpensTo, NoPlace
  <2> QED
    BY <1>3, <2>1, ScreensAre DEF Landing
<1> QED
  BY <1>2, <1>3

LEMMA TabsAre ==
  ASSUME NEW role \in DOMAIN Permissions
  PROVE  Tabs(role) = IF role = "system_admin" THEN {"staff"}
                      ELSE IF role \in {"ops_officer", "ops_supervisor", "compliance_officer"}
                             THEN {"customers", "unlocks"} ELSE {}
<1> USE RolesAre, PermissionsAre DEF Tabs
<1>1. CASE role = "ops_officer"
  BY <1>1
<1>2. CASE role = "ops_supervisor"
  BY <1>2
<1>3. CASE role = "treasury_officer"
  BY <1>3
<1>4. CASE role = "compliance_officer"
  BY <1>4
<1>5. CASE role = "bot_observer"
  BY <1>5
<1>6. CASE role = "system_admin"
  BY <1>6
<1> QED
  BY <1>1, <1>2, <1>3, <1>4, <1>5, <1>6

LEMMA ScreensLeadOn == ScreensLead
<1> SUFFICES ASSUME NEW role \in DOMAIN Permissions, NEW sc \in DOMAIN Screens
             PROVE  /\ MayOpen(role, Lands(role, sc))
                    /\ Lands(role, Lands(role, sc)) = Lands(role, sc)
                    /\ \A to \in Links(role, Lands(role, sc)) :
                          MayOpen(role, to) \/ (to = "submission" /\ role = "bot_observer")
                    /\ \A w \in Wanted(role, Lands(role, sc)) \ Permissions[role] :
                          w = "customer_login:read" /\ Tabs(role) = {"staff"}
  BY DEF ScreensLead
<1> DEFINE end == Lands(role, sc)
<1>1. end \in OpensTo(role) /\ end \in DOMAIN Screens /\ MayOpen(role, end)
  BY OpenAre, LandingIs, RolesAre, ScreensAre DEF Lands, OpensTo
<1>2. Lands(role, end) = end
  BY <1>1 DEF Lands
<1> HIDE DEF end
<1>3. \A to \in Links(role, end) : MayOpen(role, to) \/ (to = "submission" /\ role = "bot_observer")
  <2> SUFFICES ASSUME NEW to \in Links(role, end)
               PROVE  MayOpen(role, to) \/ (to = "submission" /\ role = "bot_observer")
    OBVIOUS
  <2>1. to \in {"submission", "customer", "customers", "customerLogin", "users"}
    BY <1>1, ScreensAre DEF Links
  <2>2. \/ end = "overview" /\ to = "submission"
        \/ end \in {"cds", "customers", "bankAccounts"} /\ to = "customer"
        \/ end = "customer" /\ to = "customers"
        \/ end = "users" /\ to = "customerLogin" /\ "customers" \in Tabs(role)
        \/ end = "customerLogin" /\ to = "users"
    BY <1>1, ScreensAre DEF Links
  <2>3. to \in OpensTo(role) \/ (to = "submission" /\ role = "bot_observer")
    <3>1. CASE role = "ops_officer"
      BY <3>1, <1>1, <2>2, ScreensAre DEF OpensTo
    <3>2. CASE role = "ops_supervisor"
      BY <3>2, <1>1, <2>2, ScreensAre DEF OpensTo
    <3>3. CASE role = "treasury_officer"
      BY <3>3, <1>1, <2>2, ScreensAre DEF OpensTo
    <3>4. CASE role = "compliance_officer"
      BY <3>4, <1>1, <2>2, ScreensAre DEF OpensTo
    <3>5. CASE role = "bot_observer"
      BY <3>5, <1>1, <2>2, ScreensAre DEF OpensTo
    <3>6. CASE role = "system_admin"
      BY <3>6, <1>1, <2>2, ScreensAre, TabsAre DEF OpensTo
    <3> QED
      BY <3>1, <3>2, <3>3, <3>4, <3>5, <3>6, RolesAre
  <2> QED
    BY <2>1, <2>3, OpenAre, ScreensAre
<1>4. \A w \in Wanted(role, end) \ Permissions[role] : w = "customer_login:read" /\ Tabs(role) = {"staff"}
  <2> SUFFICES ASSUME NEW w \in Wanted(role, end), w \notin Permissions[role]
               PROVE  w = "customer_login:read" /\ Tabs(role) = {"staff"}
    OBVIOUS
  <2>1. \/ end \in {"customers", "customer", "bankAccounts", "cds"} /\ w = "investor:read"
        \/ end = "customerLogin" /\ w = "customer_login:read"
        \/ end = "users" /\ w = "customer_login:read"
        \/ end = "users" /\ w = "admin:user:manage" /\ "staff" \in Tabs(role)
    BY <1>1, ScreensAre DEF Wanted
  <2>2. role = "system_admin" /\ w = "customer_login:read"
    <3>1. CASE role = "ops_officer"
      BY <3>1, <1>1, <2>1, ScreensAre, PermissionsAre, TabsAre DEF OpensTo
    <3>2. CASE role = "ops_supervisor"
      BY <3>2, <1>1, <2>1, ScreensAre, PermissionsAre, TabsAre DEF OpensTo
    <3>3. CASE role = "treasury_officer"
      BY <3>3, <1>1, <2>1, ScreensAre, PermissionsAre, TabsAre DEF OpensTo
    <3>4. CASE role = "compliance_officer"
      BY <3>4, <1>1, <2>1, ScreensAre, PermissionsAre, TabsAre DEF OpensTo
    <3>5. CASE role = "bot_observer"
      BY <3>5, <1>1, <2>1, ScreensAre, PermissionsAre, TabsAre DEF OpensTo
    <3>6. CASE role = "system_admin"
      BY <3>6, <1>1, <2>1, ScreensAre, PermissionsAre, TabsAre DEF OpensTo
    <3> QED
      BY <3>1, <3>2, <3>3, <3>4, <3>5, <3>6, RolesAre
  <2> QED
    BY <2>2, TabsAre
<1> QED
  BY <1>1, <1>2, <1>3, <1>4 DEF end

----------------------------------------------------------------------------
(* What a member of staff may do follows from the role.                     *)

LEMMA CanAre ==
  ASSUME NEW p \in Staff
  PROVE  /\ RoleOf[p] \in DOMAIN Permissions
         /\ Can(p, "kyc:review") <=> RoleOf[p] \in {"ops_officer", "ops_supervisor", "compliance_officer"}
         /\ Can(p, "kyc:decide") <=> RoleOf[p] \in {"ops_supervisor", "compliance_officer"}
         /\ Can(p, "bid:read:all") <=>
              RoleOf[p] \in {"ops_officer", "ops_supervisor", "treasury_officer", "compliance_officer"}
         /\ Can(p, "cds:open") <=> RoleOf[p] = "ops_officer"
         /\ Can(p, "auction:manage") <=> RoleOf[p] = "ops_officer"
         /\ Can(p, "batch:prepare") <=> RoleOf[p] = "ops_officer"
         /\ Can(p, "batch:approve") <=> RoleOf[p] = "ops_supervisor"
         /\ Can(p, "customer_login:unlock:request") <=> RoleOf[p] = "ops_officer"
         /\ Can(p, "customer_login:unlock:approve") <=> RoleOf[p] = "ops_supervisor"
<1>1. RoleOf[p] \in DOMAIN Permissions
  BY StaffingAssumption
<1> DEFINE role == RoleOf[p]
<1> HIDE DEF role
<1>2. role \in DOMAIN Permissions
  BY <1>1 DEF role
<1>3. \A w : Can(p, w) <=> w \in Permissions[role]
  BY DEF Can, role
<1>4. /\ role \in DOMAIN Permissions
      /\ Can(p, "kyc:review") <=> role \in {"ops_officer", "ops_supervisor", "compliance_officer"}
      /\ Can(p, "kyc:decide") <=> role \in {"ops_supervisor", "compliance_officer"}
      /\ Can(p, "bid:read:all") <=>
           role \in {"ops_officer", "ops_supervisor", "treasury_officer", "compliance_officer"}
      /\ Can(p, "cds:open") <=> role = "ops_officer"
      /\ Can(p, "auction:manage") <=> role = "ops_officer"
      /\ Can(p, "batch:prepare") <=> role = "ops_officer"
      /\ Can(p, "batch:approve") <=> role = "ops_supervisor"
      /\ Can(p, "customer_login:unlock:request") <=> role = "ops_officer"
      /\ Can(p, "customer_login:unlock:approve") <=> role = "ops_supervisor"
  <2>1. CASE role = "ops_officer"
    BY <2>1, <1>2, <1>3, PermissionsAre
  <2>2. CASE role = "ops_supervisor"
    BY <2>2, <1>2, <1>3, PermissionsAre
  <2>3. CASE role = "treasury_officer"
    BY <2>3, <1>2, <1>3, PermissionsAre
  <2>4. CASE role = "compliance_officer"
    BY <2>4, <1>2, <1>3, PermissionsAre
  <2>5. CASE role = "bot_observer"
    BY <2>5, <1>2, <1>3, PermissionsAre
  <2>6. CASE role = "system_admin"
    BY <2>6, <1>2, <1>3, PermissionsAre
  <2> QED
    BY <1>2, <2>1, <2>2, <2>3, <2>4, <2>5, <2>6, RolesAre
<1> QED
  BY <1>4 DEF role

LEMMA NobodyCan ==
  /\ Nobody \notin Staff
  /\ \A w : ~Can(Nobody, w)
BY DeskAssumption DEF Can

\* Somebody does every first step, and somebody else every second one.
LEMMA StaffAre ==
  /\ \E p \in Staff :
       /\ Can(p, "kyc:review") /\ ~Can(p, "kyc:decide") /\ Can(p, "cds:open") /\ Can(p, "auction:manage")
       /\ Can(p, "batch:prepare") /\ Can(p, "customer_login:unlock:request") /\ RoleOf[p] = "ops_officer"
  /\ \E p \in Staff : Can(p, "batch:approve")
  /\ \A m \in {Nobody} \cup Staff : (m # Nobody => Can(m, "kyc:review")) =>
       \E o \in Staff : o # m /\ Can(o, "kyc:decide")
  /\ \A m \in Staff : Can(m, "batch:prepare") =>
       \E o \in Staff : Can(o, "batch:approve") /\ NameOf[o] # NameOf[m]
<1>1. PICK p \in Staff : RoleOf[p] = "ops_officer"
  BY StaffingAssumption
<1>2. /\ Can(p, "kyc:review") /\ ~Can(p, "kyc:decide") /\ Can(p, "cds:open") /\ Can(p, "auction:manage")
      /\ Can(p, "batch:prepare") /\ Can(p, "customer_login:unlock:request")
  BY <1>1, CanAre
<1>3. \A m \in Staff : Can(m, "batch:prepare") =>
        \E o \in Staff : Can(o, "batch:approve") /\ NameOf[o] # NameOf[m]
  BY StaffingAssumption
<1>4. ASSUME NEW m \in {Nobody} \cup Staff, m # Nobody => Can(m, "kyc:review")
      PROVE  \E o \in Staff : o # m /\ Can(o, "kyc:decide")
  <2>1. CASE m \in Staff
    BY <2>1, <1>4, NobodyCan, StaffingAssumption
  <2>2. CASE m = Nobody
    <3>1. PICK o \in Staff \ {p} : Can(o, "kyc:decide")
      BY <1>2, StaffingAssumption
    <3> QED
      BY <2>2, <3>1, NobodyCan
  <2> QED
    BY <2>1, <2>2
<1> QED
  BY <1>1, <1>2, <1>3, <1>4

LEMMA UnlocksLeadOn == UnlocksLead
<1>1. ASSUME NEW login \in Logins, NEW p \in Staff, NEW w \in LoginOffers(p, login)
      PROVE  LoginAccepts(p, login, w)
  <2>1. login.requestedBy \in {Nobody} \cup Staff
        /\ (login.requestedBy # Nobody => Can(login.requestedBy, "customer_login:unlock:request"))
    BY DEF Logins
  <2>2. w \in {"request unlock", "sign out", "decide unlock"}
    BY DEF LoginOffers
  <2>3. CASE w = "request unlock"
    BY <2>3 DEF LoginOffers, LoginAccepts
  <2>4. CASE w = "sign out"
    BY <2>4 DEF LoginOffers, LoginAccepts
  <2>5. CASE w = "decide unlock"
    <3>1. login.requestedBy # Nobody /\ Can(p, "customer_login:unlock:approve")
      BY <2>5 DEF LoginOffers
    <3>2. login.requestedBy # p
      BY <2>1, <3>1, CanAre
    <3> QED
      BY <2>5, <3>1, <3>2 DEF LoginAccepts
  <2> QED
    BY <2>2, <2>3, <2>4, <2>5
<1>2. ASSUME NEW login \in Logins, login.locked, login.requestedBy = Nobody
      PROVE  \E p \in Staff : "request unlock" \in LoginOffers(p, login)
  <2>1. PICK p \in Staff : Can(p, "customer_login:unlock:request") /\ RoleOf[p] = "ops_officer"
    BY StaffAre
  <2>2. MayOpen(RoleOf[p], "customerLogin")
    BY <2>1, OpenAre, CanAre, ScreensAre DEF OpensTo
  <2> QED
    BY <1>2, <2>1, <2>2 DEF LoginOffers
<1>3. ASSUME NEW login \in Logins, login.requestedBy # Nobody
      PROVE  \E p \in Staff \ {login.requestedBy} : "decide unlock" \in LoginOffers(p, login)
  <2> DEFINE m == login.requestedBy
  <2>1. m \in Staff /\ Can(m, "customer_login:unlock:request")
    BY <1>3 DEF Logins
  <2>2. PICK p \in Staff : Can(p, "batch:approve")
    BY StaffAre
  <2>3. Can(p, "customer_login:unlock:approve") /\ p # m /\ "unlocks" \in Tabs(RoleOf[p])
    BY <2>1, <2>2, CanAre, TabsAre
  <2> QED
    BY <1>3, <2>3 DEF LoginOffers
<1> QED
  BY <1>1, <1>2, <1>3 DEF UnlocksLead


----------------------------------------------------------------------------
(* The row of the auction, its stage, and what it offers.                   *)

LEMMA ControlIs ==
  ASSUME DeskTypeOK
  PROVE  /\ Control.state = auction.state /\ Control.waiting = auction.waiting
         /\ auction.state \in {"open", "closed_for_bids", "closed"} /\ auction.waiting \in BOOLEAN
         /\ Control.batch = <<>> <=> batches = <<>>
         /\ batches # <<>> =>
              /\ Len(batches) \in DOMAIN batches /\ Len(batches) \in 1..MaxBatches
              /\ batches[Len(batches)] \in BatchRow
              /\ Control.batch[1].status = batches[Len(batches)].status
              /\ Control.batch[1].by = batches[Len(batches)].by /\ Control.batch[1].id = Len(batches)
<1>1. batches \in Seq(BatchRow) /\ Len(batches) <= MaxBatches /\ MaxBatches \in Nat
  BY DeskAssumption DEF DeskTypeOK
<1>2. auction.state \in {"open", "closed_for_bids", "closed"} /\ auction.waiting \in BOOLEAN
  BY DEF DeskTypeOK
<1>3. batches # <<>> => Len(batches) \in DOMAIN batches /\ Len(batches) \in 1..MaxBatches
                        /\ batches[Len(batches)] \in BatchRow
  BY <1>1
<1> QED
  BY <1>2, <1>3 DEF Control

\* Either the batch is listed, or one is due, and which of the five stages it is.
LEMMA StageIs ==
  ASSUME DeskTypeOK
  PROVE  \/ /\ Listed(Control) = <<>> /\ (batches = <<>> \/ auction.waiting)
            /\ \/ auction.state = "open" /\ Stage(Control) = "Awaiting consolidation"
               \/ auction.state # "open" /\ Stage(Control) = "Awaiting maker"
         \/ /\ batches # <<>> /\ Listed(Control) = Control.batch /\ Listed(Control) # <<>>
            /\ auction.waiting => batches[Len(batches)].status = "prepared"
            /\ \/ batches[Len(batches)].status = "prepared" /\ Stage(Control) = "Awaiting checker"
               \/ batches[Len(batches)].status \in {"approved", "failed"} /\ Stage(Control) = "Submitting"
               \/ batches[Len(batches)].status = "submitted" /\ Stage(Control) = "Acknowledged by BoT"
<1> DEFINE line == Control
<1>1. /\ line.state = auction.state /\ line.waiting = auction.waiting
      /\ auction.state \in {"open", "closed_for_bids", "closed"} /\ auction.waiting \in BOOLEAN
      /\ line.batch = <<>> <=> batches = <<>>
      /\ batches # <<>> => line.batch[1].status = batches[Len(batches)].status
      /\ batches # <<>> => batches[Len(batches)].status \in {"prepared", "submitted", "failed", "approved"}
  BY ControlIs DEF BatchRow
<1> HIDE DEF line
<1>2. \/ Listed(line) = <<>> /\ (batches = <<>> \/ auction.waiting)
      \/ /\ batches # <<>> /\ Listed(line) = line.batch /\ Listed(line) # <<>>
         /\ auction.waiting => batches[Len(batches)].status = "prepared"
  BY <1>1 DEF Listed
<1>3. CASE Listed(line) = <<>> /\ (batches = <<>> \/ auction.waiting)
  <2>1. \/ auction.state = "open" /\ Stage(line) = "Awaiting consolidation"
        \/ auction.state # "open" /\ Stage(line) = "Awaiting maker"
    BY <1>1, <1>3 DEF Stage
  <2> QED
    BY <1>3, <2>1 DEF line
<1>4. CASE /\ batches # <<>> /\ Listed(line) = line.batch /\ Listed(line) # <<>>
           /\ auction.waiting => batches[Len(batches)].status = "prepared"
  <2>1. \/ batches[Len(batches)].status = "prepared" /\ Stage(line) = "Awaiting checker"
        \/ batches[Len(batches)].status \in {"approved", "failed"} /\ Stage(line) = "Submitting"
        \/ batches[Len(batches)].status = "submitted" /\ Stage(line) = "Acknowledged by BoT"
    BY <1>1, <1>4 DEF Stage
  <2> QED
    BY <1>4, <2>1 DEF line
<1> QED
  BY <1>2, <1>3, <1>4

LEMMA OnScreenIs ==
  ASSUME DeskTypeOK
  PROVE  OnScreen(Control) <=> auction.waiting \/ batches # <<>> \/ auction.state = "open"
BY ControlIs DEF OnScreen

\* What BatchOffers comes to on a row that is not out of date.
LEMMA BatchOffered ==
  ASSUME DeskTypeOK, NEW p \in Staff, NEW a
  PROVE  a \in BatchOffers(Control, p) <=>
         /\ OnScreen(Control)
         /\ \/ a = Do("close", 0) /\ Stage(Control) = "Awaiting consolidation" /\ Can(p, "auction:manage")
            \/ a = Do("prepare", 0) /\ Stage(Control) = "Awaiting maker" /\ Can(p, "batch:prepare")
            \/ /\ a = Do("approve batch", Len(batches)) /\ Stage(Control) = "Awaiting checker"
               /\ Can(p, "batch:approve") /\ NameOf[batches[Len(batches)].by] # NameOf[p]
            \/ /\ a = Do("send again", Len(batches)) /\ Stage(Control) = "Submitting"
               /\ batches[Len(batches)].status = "failed" /\ Can(p, "batch:approve")
<1> DEFINE line == Control
           due == Listed(Control)
           stage == Stage(Control)
<1>1. /\ stage \in {"Awaiting checker", "Submitting"} => due # <<>>
      /\ due # <<>> => /\ due[1].id = Len(batches) /\ due[1].status = batches[Len(batches)].status
                       /\ due[1].by = batches[Len(batches)].by
  BY StageIs, ControlIs
<1>2. /\ Do("close", 0).do = "close" /\ Do("prepare", 0).do = "prepare"
      /\ Do("approve batch", Len(batches)).do = "approve batch"
      /\ Do("send again", Len(batches)).do = "send again"
  BY DEF Do
<1>3. a \in BatchOffers(line, p) <=>
        /\ a \in {Do("close", 0), Do("prepare", 0)}
             \cup (IF due = <<>> THEN {} ELSE {Do("approve batch", due[1].id), Do("send again", due[1].id)})
        /\ OnScreen(line)
        /\ \/ a.do = "close" /\ stage = "Awaiting consolidation" /\ Can(p, "auction:manage")
           \/ a.do = "prepare" /\ stage = "Awaiting maker" /\ Can(p, "batch:prepare")
           \/ /\ a.do = "approve batch" /\ stage = "Awaiting checker" /\ Can(p, "batch:approve")
              /\ NameOf[due[1].by] # NameOf[p]
           \/ /\ a.do = "send again" /\ stage = "Submitting" /\ due[1].status = "failed"
              /\ Can(p, "batch:approve")
  BY DEF BatchOffers
<1> HIDE DEF line, due, stage
<1> SUFFICES a \in BatchOffers(line, p) <=>
        /\ OnScreen(line)
        /\ \/ a = Do("close", 0) /\ stage = "Awaiting consolidation" /\ Can(p, "auction:manage")
           \/ a = Do("prepare", 0) /\ stage = "Awaiting maker" /\ Can(p, "batch:prepare")
           \/ /\ a = Do("approve batch", Len(batches)) /\ stage = "Awaiting checker"
              /\ Can(p, "batch:approve") /\ NameOf[batches[Len(batches)].by] # NameOf[p]
           \/ /\ a = Do("send again", Len(batches)) /\ stage = "Submitting"
              /\ batches[Len(batches)].status = "failed" /\ Can(p, "batch:approve")
  BY DEF line, due, stage
<1>4. CASE due = <<>>
  <2>1. stage \notin {"Awaiting checker", "Submitting"}
    BY <1>1, <1>4
  <2>2. a \in {Do("close", 0), Do("prepare", 0)} \cup
          (IF due = <<>> THEN {} ELSE {Do("approve batch", due[1].id), Do("send again", due[1].id)})
        <=> a = Do("close", 0) \/ a = Do("prepare", 0)
    BY <1>4
  <2> QED
    BY <1>2, <1>3, <2>1, <2>2
<1>5. CASE due # <<>>
  <2>1. /\ due[1].id = Len(batches) /\ due[1].status = batches[Len(batches)].status
        /\ due[1].by = batches[Len(batches)].by
    BY <1>1, <1>5
  <2>2. a \in {Do("close", 0), Do("prepare", 0)} \cup
          (IF due = <<>> THEN {} ELSE {Do("approve batch", due[1].id), Do("send again", due[1].id)})
        <=> \/ a = Do("close", 0) \/ a = Do("prepare", 0)
            \/ a = Do("approve batch", Len(batches)) \/ a = Do("send again", Len(batches))
    BY <1>5, <2>1
  <2>3. CASE a = Do("close", 0)
    BY <1>2, <1>3, <2>2, <2>3
  <2>4. CASE a = Do("prepare", 0)
    BY <1>2, <1>3, <2>2, <2>4
  <2>5. CASE a = Do("approve batch", Len(batches))
    BY <1>2, <1>3, <2>1, <2>2, <2>5
  <2>6. CASE a = Do("send again", Len(batches))
    BY <1>2, <1>3, <2>1, <2>2, <2>6
  <2> QED
    BY <1>3, <2>2, <2>3, <2>4, <2>5, <2>6
<1> QED
  BY <1>4, <1>5


----------------------------------------------------------------------------
(* What is offered is accepted, and somebody is offered the next step.      *)

LEMMA CaseOffered ==
  ASSUME NEW k, NEW p
  PROVE  /\ \A a \in CaseOffers(k, p) : \/ a.do \in MakerActions /\ CanMake(k, p)
                                        \/ a.do \in CheckerActions /\ CanCheck(k, p)
         /\ CanMake(k, p) => Do("approve", 0) \in CaseOffers(k, p)
         /\ CanCheck(k, p) => Do("final-approve", 0) \in CaseOffers(k, p)
<1>1. \A w, i : Do(w, i).do = w
  BY DEF Do
<1>2. "approve" \in MakerActions /\ "final-approve" \in CheckerActions
  BY DEF MakerActions, CheckerActions
<1> QED
  BY <1>1, <1>2 DEF CaseOffers

LEMMA DoIs == \A w, i : Do(w, i).do = w /\ Do(w, i).id = i
BY DEF Do

LEMMA FreshIs ==
  ASSUME NEW a, Fresh(a)
  PROVE  /\ a.do \in CaseActions => queues.kyc = <<kase>>
         /\ a.do = "complete" => queues.cds = <<cds>>
         /\ a.do \in BatchActions => queues.batches = <<Control>>
<1> USE DEF CaseActions, MakerActions, CheckerActions, BatchActions
<1>1. CASE a.do \in CaseActions
  BY <1>1 DEF Fresh
<1>2. CASE a.do = "complete"
  BY <1>2 DEF Fresh
<1>3. CASE a.do \in BatchActions
  <2>1. a.do \notin CaseActions /\ a.do # "complete"
    BY <1>3
  <2> QED
    BY <1>3, <2>1 DEF Fresh
<1> QED
  BY <1>1, <1>2, <1>3

LEMMA OffersAre ==
  ASSUME NEW p, NEW a \in Offers(p)
  PROVE  /\ p \in Staff
         /\ \/ queues.kyc # <<>> /\ a \in CaseOffers(queues.kyc[1], p)
            \/ queues.cds = <<"pending">> /\ MayOpen(RoleOf[p], "cds") /\ a = Do("complete", 0)
            \/ queues.batches # <<>> /\ a \in BatchOffers(queues.batches[1], p)
BY DEF Offers

LEMMA OfferedIsTaken ==
  ASSUME DeskInv
  PROVE  OfferedIsAccepted
<1> SUFFICES ASSUME NEW a \in Offers(signed), Fresh(a)
             PROVE  Accepts(signed, a) \/ (a.do = "prepare" /\ auction.state = "closed")
  BY DEF OfferedIsAccepted
<1> USE DEF DeskInv
<1>1. signed \in Staff
  BY OffersAre
<1>2. CASE queues.kyc # <<>> /\ a \in CaseOffers(queues.kyc[1], signed)
  <2>1. a.do \in CaseActions
    BY <1>2, CaseOffered DEF CaseActions
  <2>2. queues.kyc[1] = kase
    BY <2>1, FreshIs
  <2>3. CASE a.do \in MakerActions /\ CanMake(kase, signed)
    BY <2>3 DEF Accepts, CanMake
  <2>4. CASE a.do \in CheckerActions /\ CanCheck(kase, signed)
    BY <2>4, <1>1, CanAre DEF Accepts, CanCheck
  <2> QED
    BY <1>2, <2>2, <2>3, <2>4, CaseOffered
<1>3. CASE queues.cds = <<"pending">> /\ MayOpen(RoleOf[signed], "cds") /\ a = Do("complete", 0)
  <2>1. a.do = "complete"
    BY <1>3, DoIs
  <2>2. cds = "pending"
    BY <1>3, <2>1, FreshIs
  <2>3. Can(signed, "cds:open")
    BY <1>1, <1>3, ScreensAre DEF MayOpen, Can
  <2> QED
    BY <2>1, <2>2, <2>3 DEF Accepts
<1>4. CASE queues.batches # <<>> /\ a \in BatchOffers(queues.batches[1], signed)
  <2>1. a.do \in BatchActions
    BY <1>4 DEF BatchOffers, BatchActions
  <2>2. queues.batches[1] = Control
    BY <2>1, FreshIs
  <2>3. /\ OnScreen(Control)
        /\ \/ a = Do("close", 0) /\ Stage(Control) = "Awaiting consolidation" /\ Can(signed, "auction:manage")
           \/ a = Do("prepare", 0) /\ Stage(Control) = "Awaiting maker" /\ Can(signed, "batch:prepare")
           \/ /\ a = Do("approve batch", Len(batches)) /\ Stage(Control) = "Awaiting checker"
              /\ Can(signed, "batch:approve") /\ NameOf[batches[Len(batches)].by] # NameOf[signed]
           \/ /\ a = Do("send again", Len(batches)) /\ Stage(Control) = "Submitting"
              /\ batches[Len(batches)].status = "failed" /\ Can(signed, "batch:approve")
    BY <1>1, <1>4, <2>2, BatchOffered
  <2>4. CASE a = Do("close", 0) /\ Stage(Control) = "Awaiting consolidation" /\ Can(signed, "auction:manage")
    <3>1. auction.state = "open"
      BY <2>4, StageIs
    <3> QED
      BY <2>4, <3>1, DoIs DEF Accepts
  <2>5. CASE a = Do("prepare", 0) /\ Stage(Control) = "Awaiting maker" /\ Can(signed, "batch:prepare")
    <3>1. auction.state \in {"closed_for_bids", "closed"} /\ auction.waiting
      BY <2>3, <2>5, StageIs, OnScreenIs, ControlIs
    <3> QED
      BY <2>5, <3>1, DoIs DEF Accepts
  <2>6. CASE /\ a = Do("approve batch", Len(batches)) /\ Stage(Control) = "Awaiting checker"
             /\ Can(signed, "batch:approve") /\ NameOf[batches[Len(batches)].by] # NameOf[signed]
    <3>1. batches # <<>> /\ batches[Len(batches)].status = "prepared" /\ Len(batches) \in DOMAIN batches
      BY <2>6, StageIs, ControlIs
    <3>2. a.do = "approve batch" /\ a.id = Len(batches)
      BY <2>6 DEF Do
    <3>3. batches[Len(batches)].by # signed
      BY <2>6
    <3> QED
      BY <2>6, <3>1, <3>2, <3>3 DEF Accepts
  <2>7. CASE /\ a = Do("send again", Len(batches)) /\ Stage(Control) = "Submitting"
             /\ batches[Len(batches)].status = "failed" /\ Can(signed, "batch:approve")
    <3>1. batches # <<>> /\ Len(batches) \in DOMAIN batches
      BY <2>7, StageIs, ControlIs
    <3>2. a.do = "send again" /\ a.id = Len(batches)
      BY <2>7 DEF Do
    <3> QED
      BY <2>7, <3>1, <3>2 DEF Accepts
  <2> QED
    BY <2>3, <2>4, <2>5, <2>6, <2>7
<1> QED
  BY <1>2, <1>3, <1>4, OffersAre

\* The officer goes on with a case; the checker who did not recommend it decides it.
LEMMA CaseGoesOn ==
  ASSUME DeskTypeOK, WorkStands
  PROVE  /\ kase.status \in MakerStates => \E p \in Staff : CanMake(kase, p)
         /\ kase.status = "awaiting_checker" =>
              \E p \in Staff : p # kase.maker /\ CanCheck(kase, p)
         /\ kase.status \in MakerStates \cup {"awaiting_checker", "rejected", "approved"}
<1>1. /\ kase.maker \in {Nobody} \cup Staff /\ (kase.maker # Nobody => Can(kase.maker, "kyc:review"))
      /\ kase.status \in MakerStates \cup {"awaiting_checker", "rejected", "approved"}
  BY DEF DeskTypeOK, WorkStands, KaseRow
<1>2. kase.status \in MakerStates => \E p \in Staff : CanMake(kase, p)
  BY StaffAre DEF CanMake
<1>3. \E p \in Staff : p # kase.maker /\ Can(p, "kyc:decide")
  BY <1>1, StaffAre
<1> QED
  BY <1>1, <1>2, <1>3 DEF CanCheck

\* Somebody, other than who prepared the latest batch, approves it.
LEMMA BatchGoesOn ==
  ASSUME DeskTypeOK, WorkStands, batches # <<>>, batches[Len(batches)].status = "prepared"
  PROVE  \E p \in Staff : Can(p, "batch:approve") /\ NameOf[batches[Len(batches)].by] # NameOf[p]
<1> DEFINE m == batches[Len(batches)].by
<1>1. m \in Staff /\ Can(m, "batch:prepare")
  BY ControlIs, NobodyCan DEF WorkStands, BatchRow
<1> QED
  BY <1>1, StaffAre

LEMMA SomebodyGoesOn ==
  ASSUME DeskInv
  PROVE  SomebodyCanGoOn
<1> USE DEF DeskInv
<1>1. kase.status \notin {"approved", "rejected"} => \E p \in Staff : CaseOffers(kase, p) # {}
  BY CaseGoesOn, CaseOffered
<1>2. cds = "pending" => \E p \in Staff : Can(p, "cds:open")
  BY StaffAre
<1>3. ASSUME auction.waiting, auction.state # "closed" PROVE \E p \in Staff : BatchOffers(Control, p) # {}
  <2>1. OnScreen(Control)
    BY <1>3, OnScreenIs
  <2>2. CASE Stage(Control) = "Awaiting consolidation"
    <3>1. PICK p \in Staff : Can(p, "auction:manage")
      BY StaffAre
    <3>2. Do("close", 0) \in BatchOffers(Control, p)
      BY <2>1, <2>2, <3>1, BatchOffered
    <3> QED
      BY <3>2
  <2>3. CASE Stage(Control) = "Awaiting maker"
    <3>1. PICK p \in Staff : Can(p, "batch:prepare")
      BY StaffAre
    <3>2. Do("prepare", 0) \in BatchOffers(Control, p)
      BY <2>1, <2>3, <3>1, BatchOffered
    <3> QED
      BY <3>2
  <2>4. CASE Stage(Control) = "Awaiting checker"
    <3>1. batches # <<>> /\ batches[Len(batches)].status = "prepared"
      BY <2>4, StageIs
    <3>2. PICK p \in Staff : Can(p, "batch:approve") /\ NameOf[batches[Len(batches)].by] # NameOf[p]
      BY <3>1, BatchGoesOn
    <3>3. Do("approve batch", Len(batches)) \in BatchOffers(Control, p)
      BY <2>1, <2>4, <3>2, BatchOffered
    <3> QED
      BY <3>3
  <2> QED
    BY <1>3, <2>2, <2>3, <2>4, StageIs
<1>4. ASSUME batches # <<>>,
             \/ batches[Len(batches)].status = "prepared"
             \/ batches[Len(batches)].status = "failed" /\ ~auction.waiting
      PROVE  \E p \in Staff, a \in Actions : a.id = Len(batches) /\ a \in BatchOffers(Control, p)
  <2>1. OnScreen(Control) /\ Len(batches) \in 1..MaxBatches
    BY <1>4, OnScreenIs, ControlIs
  <2>2. Do("approve batch", Len(batches)) \in Actions /\ Do("send again", Len(batches)) \in Actions
    BY <2>1 DEF Actions
  <2>3. CASE batches[Len(batches)].status = "prepared"
    <3>1. Stage(Control) = "Awaiting checker"
      <4>1. Listed(Control) # <<>>
        BY <1>4, <2>3, ControlIs DEF Listed
      <4> QED
        BY <2>3, <4>1, StageIs
    <3>2. PICK p \in Staff : Can(p, "batch:approve") /\ NameOf[batches[Len(batches)].by] # NameOf[p]
      BY <1>4, <2>3, BatchGoesOn
    <3>3. Do("approve batch", Len(batches)) \in BatchOffers(Control, p)
      BY <2>1, <3>1, <3>2, BatchOffered
    <3> QED
      BY <2>2, <3>3, DoIs
  <2>4. CASE batches[Len(batches)].status = "failed" /\ ~auction.waiting
    <3>1. Stage(Control) = "Submitting"
      BY <1>4, <2>4, StageIs
    <3>2. PICK p \in Staff : Can(p, "batch:approve")
      BY StaffAre
    <3>3. Do("send again", Len(batches)) \in BatchOffers(Control, p)
      BY <2>1, <2>4, <3>1, <3>2, BatchOffered
    <3> QED
      BY <2>2, <3>3, DoIs
  <2> QED
    BY <1>4, <2>3, <2>4
<1> QED
  BY <1>1, <1>2, <1>3, <1>4 DEF SomebodyCanGoOn


----------------------------------------------------------------------------
(* What the desk says is so.                                                *)

LEMMA StepsDoneAre ==
  /\ Stage(Control) = "Awaiting consolidation" => StepsDone(Control) = 0
  /\ Stage(Control) = "Awaiting maker" => StepsDone(Control) = 1
  /\ Stage(Control) = "Awaiting checker" => StepsDone(Control) = 2
  /\ Stage(Control) = "Submitting" => StepsDone(Control) = 3
<1>1. /\ \A i \in DOMAIN Stages : i = 1 \/ i = 2 \/ i = 3 \/ i = 4 \/ i = 5
      /\ 1 \in DOMAIN Stages /\ 2 \in DOMAIN Stages /\ 3 \in DOMAIN Stages /\ 4 \in DOMAIN Stages
  BY DEF Stages
<1>2. /\ Stages[1] = "Awaiting consolidation" /\ Stages[2] = "Awaiting maker"
      /\ Stages[3] = "Awaiting checker" /\ Stages[4] = "Submitting" /\ Stages[5] = "Acknowledged by BoT"
  BY DEF Stages
<1>3. ASSUME Stage(Control) = "Awaiting consolidation" PROVE StepsDone(Control) = 0
  <2>1. \A i \in DOMAIN Stages : Stages[i] = Stage(Control) <=> i = 1
    BY <1>1, <1>2, <1>3
  <2> QED
    BY <1>1, <2>1 DEF StepsDone
<1>4. ASSUME Stage(Control) = "Awaiting maker" PROVE StepsDone(Control) = 1
  <2>1. \A i \in DOMAIN Stages : Stages[i] = Stage(Control) <=> i = 2
    BY <1>1, <1>2, <1>4
  <2> QED
    BY <1>1, <2>1 DEF StepsDone
<1>5. ASSUME Stage(Control) = "Awaiting checker" PROVE StepsDone(Control) = 2
  <2>1. \A i \in DOMAIN Stages : Stages[i] = Stage(Control) <=> i = 3
    BY <1>1, <1>2, <1>5
  <2> QED
    BY <1>1, <2>1 DEF StepsDone
<1>6. ASSUME Stage(Control) = "Submitting" PROVE StepsDone(Control) = 3
  <2>1. \A i \in DOMAIN Stages : Stages[i] = Stage(Control) <=> i = 4
    BY <1>1, <1>2, <1>6
  <2> QED
    BY <1>1, <2>1 DEF StepsDone
<1> QED
  BY <1>3, <1>4, <1>5, <1>6

\* What a note says about the batch.
LEMMA BatchNoteIs ==
  ASSUME NEW p
  PROVE  LET note == BatchNote(Control, p) IN
         /\ Stage(Control) = "Awaiting consolidation" => note.kind = "stands" /\ note.what = "open"
         /\ Stage(Control) = "Awaiting maker" =>
              /\ note.kind = IF Can(p, "batch:prepare") THEN "yours" ELSE "another's"
              /\ note.what = "prepare"
         /\ Stage(Control) = "Awaiting checker" =>
              /\ note.kind = IF NameOf[Listed(Control)[1].by] # NameOf[p] /\ Can(p, "batch:approve")
                               THEN "yours" ELSE "another's"
              /\ note.what = "approve batch"
         /\ Stage(Control) = "Submitting" =>
              /\ note.kind = IF Listed(Control)[1].status = "failed" THEN "yours" ELSE "stands"
              /\ note.what = IF Listed(Control)[1].status = "failed" THEN "send again" ELSE "sending"
         /\ Stage(Control) = "Acknowledged by BoT" => note.kind = "stands" /\ note.what = "sent"
BY DEF BatchNote, Note

LEMMA BatchNotesAreTrue ==
  ASSUME DeskInv, NEW p \in Staff, OnScreen(Control)
  PROVE  /\ BatchNote(Control, p).kind = "yours" =>
              \/ \E a \in BatchOffers(Control, p) : a.do = BatchNote(Control, p).what
              \/ BatchNote(Control, p).what = "send again" /\ ~Can(p, "batch:approve")
         /\ BatchNote(Control, p).kind = "another's" =>
              \E o \in Staff \ {p} : \E a \in BatchOffers(Control, o) : a.do = BatchNote(Control, p).what
         /\ BatchNote(Control, p).what = "sent" \/ StepsDone(Control) = 5 =>
              batches[Len(batches)].status = "submitted"
         /\ StepsDone(Control) >= 3 => batches[Len(batches)].status # "prepared"
<1> USE DEF DeskInv
<1> DEFINE note == BatchNote(Control, p)
           last == batches[Len(batches)]
<1> SUFFICES /\ note.kind = "yours" =>
                  \/ \E a \in BatchOffers(Control, p) : a.do = note.what
                  \/ note.what = "send again" /\ ~Can(p, "batch:approve")
             /\ note.kind = "another's" =>
                  \E o \in Staff \ {p} : \E a \in BatchOffers(Control, o) : a.do = note.what
             /\ note.what = "sent" \/ StepsDone(Control) = 5 => last.status = "submitted"
             /\ StepsDone(Control) >= 3 => last.status # "prepared"
  OBVIOUS
<1>0. /\ Stage(Control) = "Awaiting consolidation" => note.kind = "stands" /\ note.what = "open"
      /\ Stage(Control) = "Awaiting maker" =>
           /\ note.kind = IF Can(p, "batch:prepare") THEN "yours" ELSE "another's"
           /\ note.what = "prepare"
      /\ Stage(Control) = "Awaiting checker" =>
           /\ note.kind = IF NameOf[Listed(Control)[1].by] # NameOf[p] /\ Can(p, "batch:approve")
                            THEN "yours" ELSE "another's"
           /\ note.what = "approve batch"
      /\ Stage(Control) = "Submitting" =>
           /\ note.kind = IF Listed(Control)[1].status = "failed" THEN "yours" ELSE "stands"
           /\ note.what = IF Listed(Control)[1].status = "failed" THEN "send again" ELSE "sending"
      /\ Stage(Control) = "Acknowledged by BoT" => note.kind = "stands" /\ note.what = "sent"
  BY BatchNoteIs
<1> HIDE DEF note
<1>1. CASE Stage(Control) = "Awaiting consolidation"
  <2>1. note.kind = "stands" /\ note.what = "open" /\ StepsDone(Control) = 0
    BY <1>1, <1>0, StepsDoneAre
  <2> QED
    BY <2>1
<1>2. CASE Stage(Control) = "Awaiting maker"
  <2>1. /\ note.kind = IF Can(p, "batch:prepare") THEN "yours" ELSE "another's"
        /\ note.what = "prepare" /\ StepsDone(Control) = 1
    BY <1>2, <1>0, StepsDoneAre
  <2>2. \A o \in Staff : Can(o, "batch:prepare") => \E a \in BatchOffers(Control, o) : a.do = "prepare"
    <3>1. \A o \in Staff : Can(o, "batch:prepare") => Do("prepare", 0) \in BatchOffers(Control, o)
      BY <1>2, BatchOffered
    <3> QED
      BY <3>1, DoIs
  <2>3. \E o \in Staff : Can(o, "batch:prepare")
    BY StaffAre
  <2> QED
    BY <2>1, <2>2, <2>3
<1>3. CASE Stage(Control) = "Awaiting checker"
  <2>1. batches # <<>> /\ last.status = "prepared" /\ Listed(Control)[1].by = last.by
    BY <1>3, StageIs, ControlIs
  <2>2. /\ note.kind = IF NameOf[last.by] # NameOf[p] /\ Can(p, "batch:approve") THEN "yours" ELSE "another's"
        /\ note.what = "approve batch" /\ StepsDone(Control) = 2
    BY <1>3, <2>1, <1>0, StepsDoneAre
  <2>3. \A o \in Staff : Can(o, "batch:approve") /\ NameOf[last.by] # NameOf[o] =>
          \E a \in BatchOffers(Control, o) : a.do = "approve batch"
    <3>1. \A o \in Staff : Can(o, "batch:approve") /\ NameOf[last.by] # NameOf[o] =>
            Do("approve batch", Len(batches)) \in BatchOffers(Control, o)
      BY <1>3, BatchOffered
    <3> QED
      BY <3>1, DoIs
  <2>4. \E o \in Staff : Can(o, "batch:approve") /\ NameOf[last.by] # NameOf[o]
    BY <2>1, BatchGoesOn
  <2>5. note.kind = "another's" =>
          \E o \in Staff \ {p} : \E a \in BatchOffers(Control, o) : a.do = note.what
    <3>1. PICK o \in Staff : Can(o, "batch:approve") /\ NameOf[last.by] # NameOf[o]
      BY <2>4
    <3>2. \E a \in BatchOffers(Control, o) : a.do = "approve batch"
      BY <2>3, <3>1
    <3>3. note.kind = "another's" => o # p
      BY <2>2, <3>1
    <3> QED
      BY <2>2, <3>2, <3>3
  <2>6. note.kind = "yours" => \E a \in BatchOffers(Control, p) : a.do = note.what
    BY <2>2, <2>3
  <2>7. note.what # "sent" /\ StepsDone(Control) # 5 /\ ~(StepsDone(Control) >= 3)
    <3>1. StepsDone(Control) = 2
      BY <1>3, StepsDoneAre
    <3>2. StepsDone(Control) # 5 /\ ~(StepsDone(Control) >= 3)
      BY <3>1
    <3>3. note.what # "sent"
      BY <2>2
    <3> QED
      BY <3>2, <3>3
  <2> QED
    BY <2>5, <2>6, <2>7, Zenon
<1>4. CASE Stage(Control) = "Submitting"
  <2>1. /\ last.status \in {"approved", "failed"} /\ Listed(Control)[1].status = last.status
    BY <1>4, StageIs, ControlIs
  <2>2. /\ note.kind = IF last.status = "failed" THEN "yours" ELSE "stands"
        /\ note.what = IF last.status = "failed" THEN "send again" ELSE "sending"
        /\ StepsDone(Control) = 3
    BY <1>4, <2>1, <1>0, StepsDoneAre
  <2>3. last.status = "failed" /\ Can(p, "batch:approve") =>
          \E a \in BatchOffers(Control, p) : a.do = "send again"
    <3>1. last.status = "failed" /\ Can(p, "batch:approve") =>
            Do("send again", Len(batches)) \in BatchOffers(Control, p)
      BY <1>4, BatchOffered
    <3> QED
      BY <3>1, DoIs
  <2>4. note.kind # "another's" /\ note.what # "sent" /\ StepsDone(Control) # 5
    <3>1. StepsDone(Control) = 3
      BY <1>4, StepsDoneAre
    <3>2. StepsDone(Control) # 5
      BY <3>1
    <3>3. note.kind # "another's" /\ note.what # "sent"
      BY <2>2
    <3> QED
      BY <3>2, <3>3
  <2>5. note.kind = "yours" => \/ \E a \in BatchOffers(Control, p) : a.do = note.what
                               \/ note.what = "send again" /\ ~Can(p, "batch:approve")
    BY <2>2, <2>3
  <2>6. last.status # "prepared"
    BY <2>1
  <2> QED
    BY <2>4, <2>5, <2>6, Zenon
<1>5. CASE Stage(Control) = "Acknowledged by BoT"
  <2>1. last.status = "submitted" /\ note.kind = "stands"
    BY <1>0, <1>5, StageIs
  <2> QED
    BY <2>1
<1> QED
  BY <1>1, <1>2, <1>3, <1>4, <1>5, StageIs

LEMMA CaseNotesAreTrue ==
  ASSUME DeskInv, NEW p \in Staff
  PROVE  /\ CaseNote(kase, p).kind = "another's" =>
              \E o \in Staff \ {p} : \E a \in CaseOffers(kase, o) : a.do = CaseNote(kase, p).what
         /\ CaseNote(kase, p).what = "cds raised" => cds # "none" \/ sequel \in {"due", "cut short"}
         /\ CaseNote(kase, p).what = "notified" => sequel \in {"done", "due", "not sent", "cut short"}
<1> USE DEF DeskInv
<1> DEFINE note == CaseNote(kase, p)
<1>0. \A k, w : Note(k, w).kind = k /\ Note(k, w).what = w
  BY DEF Note
<1>1. \/ kase.status = "approved" /\ note = Note("stands", "cds raised")
      \/ kase.status = "rejected" /\ note = Note("stands", "notified")
      \/ /\ kase.status = "awaiting_checker" /\ (~Can(p, "kyc:decide") \/ kase.maker = p)
         /\ note = Note("another's", "final-approve")
      \/ kase.status \in MakerStates /\ Can(p, "kyc:decide") /\ note = Note("another's", "approve")
      \/ note = Note("stands", "")
  <2> USE DEF CaseNote, MakerStates
  <2>1. CASE kase.status = "approved"
    BY <2>1
  <2>2. CASE kase.status = "awaiting_checker" /\ (~Can(p, "kyc:decide") \/ kase.maker = p)
    BY <2>2
  <2>3. CASE kase.status \in MakerStates /\ Can(p, "kyc:decide")
    BY <2>3
  <2>4. CASE kase.status = "rejected"
    BY <2>4
  <2> QED
    BY <2>1, <2>2, <2>3, <2>4
<1> HIDE DEF note
<1>2. CASE kase.status = "approved" /\ note = Note("stands", "cds raised")
  <2>1. note.kind = "stands" /\ note.what = "cds raised" /\ (cds # "none" \/ sequel \in {"due", "cut short"})
    BY <1>0, <1>2 DEF WorkStands
  <2> QED
    BY <2>1 DEF note
<1>3. CASE /\ kase.status = "awaiting_checker" /\ (~Can(p, "kyc:decide") \/ kase.maker = p)
           /\ note = Note("another's", "final-approve")
  <2>1. note.what = "final-approve"
    BY <1>0, <1>3
  <2>2. PICK o \in Staff : o # kase.maker /\ CanCheck(kase, o)
    BY <1>3, CaseGoesOn
  <2>3. o # p
    BY <1>3, <2>2 DEF CanCheck
  <2>4. Do("final-approve", 0) \in CaseOffers(kase, o)
    BY <2>2, CaseOffered
  <2> QED
    BY <2>1, <2>3, <2>4, DoIs DEF note
<1>4. CASE kase.status \in MakerStates /\ Can(p, "kyc:decide") /\ note = Note("another's", "approve")
  <2>1. note.what = "approve"
    BY <1>0, <1>4
  <2>2. PICK o \in Staff : CanMake(kase, o)
    BY <1>4, CaseGoesOn
  <2>3. o # p
    BY <1>4, <2>2 DEF CanMake
  <2>4. Do("approve", 0) \in CaseOffers(kase, o)
    BY <2>2, CaseOffered
  <2> QED
    BY <2>1, <2>3, <2>4, DoIs DEF note
<1>5. CASE note = Note("stands", "")
  <2>1. note.kind = "stands" /\ note.what = ""
    BY <1>0, <1>5
  <2> QED
    BY <2>1 DEF note
<1>6. CASE kase.status = "rejected" /\ note = Note("stands", "notified")
  <2>1. note.kind = "stands" /\ note.what = "notified"
    BY <1>0, <1>6
  <2>2. sequel \in {"none", "done", "due", "not sent", "cut short"} /\ sequel # "none"
    BY <1>6 DEF WorkStands, DeskTypeOK
  <2>3. sequel \in {"done", "due", "not sent", "cut short"}
    BY <2>2
  <2> QED
    BY <2>1, <2>3 DEF note
<1> QED
  BY <1>1, <1>2, <1>3, <1>4, <1>5, <1>6

LEMMA NotesTell ==
  ASSUME DeskInv
  PROVE  NotesAreTrue
<1>1. ASSUME NEW p \in Staff, OnScreen(Control)
      PROVE  /\ BatchNote(Control, p).kind = "yours" =>
                  \/ \E a \in BatchOffers(Control, p) : a.do = BatchNote(Control, p).what
                  \/ BatchNote(Control, p).what = "send again" /\ ~Can(p, "batch:approve")
             /\ BatchNote(Control, p).kind = "another's" =>
                  \E o \in Staff \ {p} : \E a \in BatchOffers(Control, o) : a.do = BatchNote(Control, p).what
             /\ BatchNote(Control, p).what = "sent" \/ StepsDone(Control) = 5 =>
                  batches[Len(batches)].status = "submitted"
             /\ StepsDone(Control) >= 3 => batches[Len(batches)].status # "prepared"
  BY <1>1, BatchNotesAreTrue
<1>2. ASSUME NEW p \in Staff
      PROVE  /\ CaseNote(kase, p).kind = "another's" =>
                  \E o \in Staff \ {p} : \E a \in CaseOffers(kase, o) : a.do = CaseNote(kase, p).what
             /\ CaseNote(kase, p).what = "cds raised" => cds # "none" \/ sequel \in {"due", "cut short"}
             /\ CaseNote(kase, p).what = "notified" => sequel \in {"done", "due", "not sent", "cut short"}
  BY CaseNotesAreTrue
<1> QED
  BY <1>1, <1>2, Zenon DEF NotesAreTrue

LEMMA AttentionGoesOn ==
  ASSUME DeskInv
  PROVE  AttentionLeads
<1> USE DEF DeskInv
<1> SUFFICES ASSUME signed # Nobody, NEW to \in Attention(signed)
             PROVE  /\ \/ Lands(RoleOf[signed], to) = to
                       \/ to = "submission" /\ ("batches" \in late \/ loads[shift] # Resting)
                    /\ to = "kyc" /\ queues.kyc = <<kase>> => \E p \in Staff : CaseOffers(kase, p) # {}
  BY DEF AttentionLeads
<1>1. signed \in Staff /\ RoleOf[signed] \in DOMAIN Permissions
  BY CanAre DEF DeskTypeOK
<1>2. \/ to = "submission" /\ queues.batches # <<>>
      \/ /\ to = "kyc" /\ queues.kyc # <<>> /\ Can(signed, "kyc:review")
         /\ queues.kyc[1].status \in MakerStates \cup {"awaiting_checker"}
  BY DEF Attention
<1>3. CASE to = "submission" /\ queues.batches # <<>>
  <2>1. Can(signed, "bid:read:all") => MayOpen(RoleOf[signed], "submission")
    BY <1>1, ScreensAre DEF MayOpen, Can
  <2> QED
    BY <1>3, <2>1 DEF QueuesAreOwn, Lands
<1>4. CASE /\ to = "kyc" /\ queues.kyc # <<>> /\ Can(signed, "kyc:review")
           /\ queues.kyc[1].status \in MakerStates \cup {"awaiting_checker"}
  <2>1. MayOpen(RoleOf[signed], "kyc")
    BY <1>1, <1>4, ScreensAre DEF MayOpen, Can
  <2>2. queues.kyc = <<kase>> => \E p \in Staff : CaseOffers(kase, p) # {}
    BY <1>4, CaseGoesOn, CaseOffered
  <2> QED
    BY <1>4, <2>1, <2>2 DEF Lands
<1> QED
  BY <1>2, <1>3, <1>4


----------------------------------------------------------------------------
(* The invariant is kept: the services.                                     *)

WorldTyped ==
  /\ kase \in KaseRow /\ cds \in {"none", "pending", "completed"}
  /\ sequel \in {"none", "due", "done", "not sent", "cut short"}
  /\ auction \in [state : {"open", "closed_for_bids", "closed"}, waiting : BOOLEAN]
  /\ batches \in Seq(BatchRow) /\ Len(batches) <= MaxBatches

TabTyped ==
  /\ signed \in Staff \cup {Nobody} /\ shift \in 0..MaxShifts /\ (signed # Nobody => shift > 0)
  /\ queues \in QueueRow /\ late \in SUBSET Parts
  /\ loads \in [1..MaxShifts -> LoadRow] /\ op \in OpRow

LEMMA TypedIs == DeskTypeOK <=> WorldTyped /\ TabTyped
BY DEF DeskTypeOK, WorldTyped, TabTyped

LEMMA ActOnCaseStands ==
  ASSUME WorldTyped, WorkStands, NEW p \in Staff, NEW w \in CaseActions, ActOnCase(p, w), Can(p, "kyc:review"),
         kase.status # "rejected"
  PROVE  WorldTyped' /\ WorkStands'
<1>1. batches' = batches /\ auction' = auction
  BY DEF ActOnCase
<1>2. /\ cds' = cds /\ sequel' = IF w \in Decisions THEN "due" ELSE sequel
      /\ sequel # "not sent"
  BY DEF ActOnCase, WorkStands
<1>3. /\ kase.maker \in Staff \cup {Nobody} /\ kase.rounds \in Nat
      /\ kase.status \in MakerStates \cup {"awaiting_checker", "rejected", "approved"}
      /\ kase = [status |-> kase.status, maker |-> kase.maker, rounds |-> kase.rounds]
  BY DEF WorldTyped, KaseRow
<1>4. /\ kase' \in KaseRow
      /\ kase'.status \in {"approved", "rejected"} => w \in Decisions
      /\ kase'.maker \in {p, Nobody}
  <2>1. CASE w \in MakerActions
    <3>1. kase' = [status |-> CASE w = "approve" -> "awaiting_checker" [] w = "reject" -> "rejected"
                                [] w = "request-info" -> "info_requested",
                   maker |-> IF w = "approve" THEN p ELSE Nobody,
                   rounds |-> IF w = "approve" THEN kase.rounds + 1 ELSE kase.rounds]
      BY <2>1 DEF ActOnCase, MakerActions, CheckerActions
    <3>2. kase'.rounds \in Nat
      BY <1>3, <3>1
    <3>3. kase'.maker \in {p, Nobody}
      BY <3>1
    <3>4. /\ kase'.status \in {"awaiting_checker", "rejected", "info_requested"}
          /\ kase'.status = "rejected" => w = "reject"
      BY <2>1, <3>1 DEF MakerActions
    <3> QED
      BY <3>1, <3>2, <3>3, <3>4 DEF KaseRow, MakerStates, Decisions
  <2>2. CASE w \in CheckerActions
    <3>1. kase' = [kase EXCEPT !.status = IF w = "final-approve" THEN "approved" ELSE "returned",
                               !.maker = Nobody]
      BY <2>2 DEF ActOnCase, MakerActions, CheckerActions
    <3> QED
      BY <1>3, <3>1 DEF KaseRow, MakerStates, Decisions
  <2> QED
    BY <2>1, <2>2 DEF CaseActions
<1>5. WorldTyped'
  BY <1>1, <1>2, <1>4 DEF WorldTyped
<1>6. kase'.status \in {"approved", "rejected"} => sequel' = "due"
  BY <1>2, <1>4
<1>7. kase'.maker # Nobody => Can(kase'.maker, "kyc:review")
  BY <1>4
<1>8. \A i \in DOMAIN batches' : batches'[i].status = "prepared" => Can(batches'[i].by, "batch:prepare")
  BY <1>1 DEF WorkStands
<1>9. sequel' # "not sent"
  BY <1>2
<1> QED
  BY <1>5, <1>6, <1>7, <1>8, <1>9 DEF WorkStands, Can

LEMMA ActOnAuctionStands ==
  ASSUME WorldTyped, WorkStands, NEW p \in Staff, NEW a, ActOnAuction(p, a), Accepts(p, a), a.do \in BatchActions
  PROVE  WorldTyped' /\ WorkStands'
<1>0. batches \in Seq(BatchRow) /\ Len(batches) <= MaxBatches
  BY DEF WorldTyped
<1>1. kase' = kase /\ cds' = cds /\ sequel' = sequel
  BY DEF ActOnAuction
<1>2. CASE a.do = "close" /\ auction' = [auction EXCEPT !.state = "closed_for_bids"] /\ batches' = batches
  BY <1>1, <1>2 DEF WorldTyped, WorkStands, Can
<1>3. CASE /\ a.do = "prepare" /\ Len(batches) < MaxBatches
           /\ auction' = [auction EXCEPT !.waiting = FALSE]
           /\ batches' = Append(batches, [status |-> "prepared", by |-> p])
  <2> DEFINE new == [status |-> "prepared", by |-> p]
  <2>1. new \in BatchRow
    BY DEF BatchRow
  <2>2. Can(p, "batch:prepare")
    BY <1>3 DEF Accepts, MakerActions, CheckerActions
  <2> HIDE DEF new
  <2>3. batches' = Append(batches, new)
    BY <1>3 DEF new
  <2>4. /\ batches' \in Seq(BatchRow) /\ Len(batches') = Len(batches) + 1
        /\ \A i \in DOMAIN batches' : \/ i \in DOMAIN batches /\ batches'[i] = batches[i]
                                      \/ batches'[i] = new
    BY <1>0, <2>1, <2>3
  <2>5. Len(batches') <= MaxBatches
    <3>1. Len(batches') = Len(batches) + 1 /\ Len(batches) < MaxBatches
      BY <1>3, <2>4
    <3>2. Len(batches) \in Nat /\ MaxBatches \in Nat
      BY <1>0, DeskAssumption
    <3> QED
      BY <3>1, <3>2
  <2>6. WorldTyped'
    <3>1. auction' \in [state : {"open", "closed_for_bids", "closed"}, waiting : BOOLEAN]
      BY <1>3 DEF WorldTyped
    <3>2. /\ kase' \in KaseRow /\ cds' \in {"none", "pending", "completed"}
          /\ sequel' \in {"none", "due", "done", "not sent", "cut short"}
      BY <1>1 DEF WorldTyped
    <3>3. batches' \in Seq(BatchRow)
      BY <2>4
    <3> QED
      BY <2>5, <3>1, <3>2, <3>3 DEF WorldTyped
  <2>7. \A i \in DOMAIN batches' : batches'[i].status = "prepared" => Can(batches'[i].by, "batch:prepare")
    <3>1. \A i \in DOMAIN batches : batches[i].status = "prepared" => Can(batches[i].by, "batch:prepare")
      BY DEF WorkStands
    <3>2. new.status = "prepared" => Can(new.by, "batch:prepare")
      BY <2>2 DEF new
    <3> QED
      BY <2>4, <3>1, <3>2
  <2>8. /\ kase' = kase /\ cds' = cds /\ sequel' = sequel
        /\ \A i \in DOMAIN batches' : batches'[i].status = "prepared" => Can(batches'[i].by, "batch:prepare")
    BY <1>1, <2>7
  <2>9. WorkStands'
    BY <2>8 DEF WorkStands, Can
  <2> QED
    BY <2>6, <2>9
<1>4. CASE /\ a.do \in {"approve batch", "send again"} /\ auction' = auction
           /\ \E s \in {"submitted", "failed", "approved"} :
                batches' = [batches EXCEPT ![a.id] = [status |-> s, by |-> Nobody]]
  <2>1. PICK s \in {"submitted", "failed", "approved"} :
          batches' = [batches EXCEPT ![a.id] = [status |-> s, by |-> Nobody]]
    BY <1>4
  <2>2. a.id \in DOMAIN batches
    BY <1>4 DEF Accepts, MakerActions, CheckerActions
  <2> DEFINE new == [status |-> s, by |-> Nobody]
  <2>3. new \in BatchRow /\ new.status # "prepared"
    BY DEF BatchRow
  <2> HIDE DEF new
  <2>4. batches' = [batches EXCEPT ![a.id] = new]
    BY <2>1 DEF new
  <2>5. /\ batches' \in Seq(BatchRow) /\ Len(batches') = Len(batches)
        /\ \A i \in DOMAIN batches' : \/ i \in DOMAIN batches /\ batches'[i] = batches[i]
                                      \/ batches'[i] = new
    BY <1>0, <2>2, <2>3, <2>4
  <2>6. WorldTyped'
    BY <1>0, <1>1, <1>4, <2>5 DEF WorldTyped
  <2>7. \A i \in DOMAIN batches' : batches'[i].status = "prepared" => Can(batches'[i].by, "batch:prepare")
    <3>1. \A i \in DOMAIN batches : batches[i].status = "prepared" => Can(batches[i].by, "batch:prepare")
      BY DEF WorkStands
    <3> QED
      BY <2>3, <2>5, <3>1
  <2>8. /\ kase' = kase /\ cds' = cds /\ sequel' = sequel
        /\ \A i \in DOMAIN batches' : batches'[i].status = "prepared" => Can(batches'[i].by, "batch:prepare")
    BY <1>1, <2>7
  <2>9. WorkStands'
    BY <2>8 DEF WorkStands, Can
  <2> QED
    BY <2>6, <2>9
<1> QED
  BY <1>2, <1>3, <1>4 DEF ActOnAuction

LEMMA TakesStands ==
  ASSUME WorldTyped, WorkStands, NEW p \in Staff, NEW a, Takes(p, a)
  PROVE  WorldTyped' /\ WorkStands'
<1>1. Accepts(p, a)
  BY DEF Takes
<1>2. CASE a.do \in CaseActions /\ ActOnCase(p, a.do)
  <2>1. Can(p, "kyc:review") /\ kase.status # "rejected"
    BY <1>1, <1>2 DEF Accepts, CaseActions, MakerActions, CheckerActions, MakerStates
  <2> QED
    BY <1>2, <2>1, ActOnCaseStands
<1>3. CASE a.do = "complete" /\ cds' = "completed" /\ UNCHANGED <<kase, sequel, auction, batches>>
  BY <1>3 DEF WorldTyped, WorkStands, Can
<1>4. CASE a.do \in BatchActions /\ ActOnAuction(p, a)
  BY <1>1, <1>4, ActOnAuctionStands
<1> QED
  BY <1>2, <1>3, <1>4 DEF Takes

LEMMA FollowStands ==
  ASSUME WorldTyped, WorkStands, Follow
  PROVE  WorldTyped' /\ WorkStands'
<1>1. kase' = kase /\ auction' = auction /\ batches' = batches
  BY DEF Follow
<1>2. CASE sequel' = "done" /\ cds' = IF kase.status = "approved" THEN "pending" ELSE cds
  BY <1>1, <1>2 DEF WorldTyped, WorkStands, Can
<1>3. CASE kase.status = "rejected" /\ sequel' = "not sent" /\ cds' = cds
  BY <1>1, <1>3 DEF WorldTyped, WorkStands, Can
<1>4. CASE sequel' = "cut short" /\ cds' = cds
  BY <1>1, <1>4 DEF WorldTyped, WorkStands, Can
<1> QED
  BY <1>2, <1>3, <1>4 DEF Follow

\* What happens while the tab rests.
LEMMA TabRests ==
  ASSUME DeskInv, UNCHANGED tabQueues, WorldTyped', WorkStands'
  PROVE  DeskInv'
<1>1. TabTyped'
  BY TypedIs DEF DeskInv, TabTyped, tabQueues
<1>2. DeskTypeOK'
  BY <1>1 DEF DeskTypeOK, WorldTyped, TabTyped
<1>3. ReadsStand' /\ QueuesAreOwn'
  BY DEF DeskInv, ReadsStand, QueuesAreOwn, tabQueues, Own, Can, MayAsk, NotEmpty
<1> QED
  BY <1>2, <1>3 DEF DeskInv

LEMMA OthersStand ==
  ASSUME DeskInv,
         \/ \E p \in Staff, a \in Actions : Elsewhere(p, a)
         \/ Follow \/ BidComes \/ BotCloses
  PROVE  DeskInv'
<1>1. WorldTyped /\ WorkStands
  BY TypedIs DEF DeskInv
<1>2. ASSUME NEW p \in Staff, NEW a \in Actions, Elsewhere(p, a) PROVE DeskInv'
  BY <1>1, <1>2, TakesStands, TabRests DEF Elsewhere
<1>3. ASSUME BidComes \/ BotCloses PROVE DeskInv'
  <2>1. WorldTyped'
    BY <1>1, <1>3 DEF WorldTyped, BidComes, BotCloses
  <2>2. WorkStands'
    BY <1>1, <1>3 DEF WorkStands, BidComes, BotCloses, Can
  <2>3. UNCHANGED tabQueues
    BY <1>3 DEF BidComes, BotCloses
  <2> QED
    BY <2>1, <2>2, <2>3, TabRests
<1>4. ASSUME Follow PROVE DeskInv'
  BY <1>1, <1>4, FollowStands, TabRests DEF Follow
<1> QED
  BY <1>2, <1>3, <1>4


----------------------------------------------------------------------------
(* The invariant is kept: the tab.                                          *)

LEMMA MayAskIs ==
  ASSUME NEW p
  PROVE  /\ MayAsk(p) \subseteq Parts
         /\ "kyc" \in MayAsk(p) <=> Can(p, "kyc:review")
         /\ "cds" \in MayAsk(p) <=> Can(p, "cds:open")
         /\ "batches" \in MayAsk(p) <=> Can(p, "bid:read:all")
         /\ MayAsk(Nobody) = {}
<1>1. \A x \in Parts : x \in MayAsk(p) <=>
        Can(p, CASE x = "kyc" -> "kyc:review" [] x = "cds" -> "cds:open" [] x = "batches" -> "bid:read:all")
  BY DEF MayAsk, Parts
<1>2. MayAsk(p) \subseteq Parts /\ MayAsk(Nobody) = {}
  BY NobodyCan DEF MayAsk, Parts
<1>3. "kyc" \in Parts /\ "cds" \in Parts /\ "batches" \in Parts
  BY DEF Parts
<1>4. /\ (CASE "kyc" = "kyc" -> "kyc:review" [] "kyc" = "cds" -> "cds:open" [] "kyc" = "batches" -> "bid:read:all") = "kyc:review"
      /\ (CASE "cds" = "kyc" -> "kyc:review" [] "cds" = "cds" -> "cds:open" [] "cds" = "batches" -> "bid:read:all") = "cds:open"
      /\ (CASE "batches" = "kyc" -> "kyc:review" [] "batches" = "cds" -> "cds:open" [] "batches" = "batches" -> "bid:read:all") = "bid:read:all"
  OBVIOUS
<1> QED
  BY <1>1, <1>2, <1>3, <1>4

\* What a read gives, and of what.
LEMMA QueuesRead ==
  ASSUME DeskTypeOK, NEW asked \in SUBSET Parts
  PROVE  Queues(asked) \in QueueRow /\ NotEmpty(Queues(asked)) = asked
<1>1. kase \in KaseRow /\ cds \in {"none", "pending", "completed"}
  BY DEF DeskTypeOK
<1>2. Control \in [state : {"open", "closed_for_bids", "closed"}, waiting : BOOLEAN,
                   batch : Seq([status : {"prepared", "submitted", "failed", "approved"},
                                by : Staff \cup {Nobody}, id : Nat])]
  <2>1. auction.state \in {"open", "closed_for_bids", "closed"} /\ auction.waiting \in BOOLEAN
    BY DEF DeskTypeOK
  <2>2. CASE batches = <<>>
    BY <2>1, <2>2 DEF Control
  <2>3. CASE batches # <<>>
    <3>1. batches[Len(batches)] \in BatchRow /\ Len(batches) \in Nat
      BY <2>3, ControlIs
    <3> DEFINE last == [status |-> batches[Len(batches)].status, by |-> batches[Len(batches)].by,
                        id |-> Len(batches)]
    <3>2. last \in [status : {"prepared", "submitted", "failed", "approved"}, by : Staff \cup {Nobody}, id : Nat]
      BY <3>1 DEF BatchRow
    <3>3. Control = [state |-> auction.state, waiting |-> auction.waiting, batch |-> <<last>>]
      BY <2>3 DEF Control
    <3> HIDE DEF last
    <3> QED
      BY <2>1, <3>2, <3>3
  <2> QED
    BY <2>2, <2>3
<1> DEFINE line == Control
<1> HIDE DEF line
<1>3. Queues(asked) = [ kyc |-> IF "kyc" \in asked THEN <<kase>> ELSE <<>>,
                        cds |-> IF "cds" \in asked THEN <<cds>> ELSE <<>>,
                        batches |-> IF "batches" \in asked THEN <<line>> ELSE <<>> ]
  BY DEF Queues, line
<1> DEFINE Rows == [state : {"open", "closed_for_bids", "closed"}, waiting : BOOLEAN,
                     batch : Seq([status : {"prepared", "submitted", "failed", "approved"},
                                  by : Staff \cup {Nobody}, id : Nat])]
<1>4. line \in Rows
  BY <1>2 DEF line
<1> HIDE DEF Rows
<1>5. ASSUME NEW S, NEW e \in S, NEW c PROVE (IF c THEN <<e>> ELSE <<>>) \in Seq(S)
  BY <1>5
<1>6. /\ (IF "kyc" \in asked THEN <<kase>> ELSE <<>>) \in Seq(KaseRow)
      /\ (IF "cds" \in asked THEN <<cds>> ELSE <<>>) \in Seq({"none", "pending", "completed"})
      /\ (IF "batches" \in asked THEN <<line>> ELSE <<>>) \in Seq(Rows)
  BY <1>1, <1>4, <1>5
<1>7. Queues(asked) \in QueueRow
  BY <1>3, <1>6 DEF QueueRow, Rows
<1>8. \A x \in Parts : Queues(asked)[x] # <<>> <=> x \in asked
  BY <1>3 DEF Parts
<1> QED
  BY <1>7, <1>8 DEF NotEmpty

\* The rows of the loads and of the action under way.
LEMMA LoadRows ==
  /\ Resting \in LoadRow /\ Resting \in OpRow /\ Resting.pc = "idle"
  /\ \A asked \in SUBSET Parts : LET r == [pc |-> "asked", asked |-> asked] IN
       r \in LoadRow /\ r.pc = "asked" /\ r.asked = asked /\ r # Resting
  /\ \A got \in QueueRow : LET r == [pc |-> "read", got |-> got] IN
       r \in LoadRow /\ r.pc = "read" /\ r.got = got /\ r # Resting
  /\ \A r \in LoadRow : /\ r.pc = "asked" => r.asked \in SUBSET Parts
                        /\ r.pc = "read" => r.got \in QueueRow
BY DEF LoadRow, OpRow, Resting

LEMMA OpRows ==
  ASSUME NEW r \in OpRow
  PROVE  /\ r.pc = "asked" => r \in [pc : {"asked", "taken"}, by : Staff, a : Actions]
         /\ r.pc = "answered" => r.parts \in SUBSET Parts
         /\ r.pc = "asked again" => r.parts \in SUBSET Parts /\ r.asked \in SUBSET Parts /\ r.during \in Nat
         /\ r.pc = "read" => r.parts \in SUBSET Parts /\ r.got \in QueueRow /\ r.during \in Nat
<1>1. CASE r = Resting
  BY <1>1 DEF Resting
<1>2. CASE r \in [pc : {"asked", "taken"}, by : Staff, a : Actions]
  BY <1>2
<1>3. CASE r \in [pc : {"answered"}, parts : SUBSET Parts]
  BY <1>3
<1>4. CASE r \in [pc : {"asked again"}, parts : SUBSET Parts, asked : SUBSET Parts, during : Nat]
  BY <1>4
<1>5. CASE r \in [pc : {"read"}, parts : SUBSET Parts, during : Nat, got : QueueRow]
  BY <1>5
<1> QED
  BY <1>1, <1>2, <1>3, <1>4, <1>5 DEF OpRow

\* The queues when a read is in.
LEMMA FillIs ==
  ASSUME TabTyped, NEW parts \in SUBSET Parts, NEW got \in QueueRow, NEW during, Fill(parts, got, during)
  PROVE  /\ queues' \in QueueRow /\ late' \in SUBSET Parts
         /\ \A x \in Parts : queues'[x] = IF x \in parts THEN got[x] ELSE queues[x]
         /\ late' = IF during # Current THEN late \cup parts ELSE late \ parts
<1>1. DOMAIN queues = Parts /\ queues \in QueueRow /\ late \in SUBSET Parts
  BY DEF TabTyped, QueueRow, Parts
<1>2. \A x \in Parts : queues'[x] = IF x \in parts THEN got[x] ELSE queues[x]
  BY <1>1 DEF Fill
<1>3. queues' = [x \in Parts |-> IF x \in parts THEN got[x] ELSE queues[x]]
  BY <1>1 DEF Fill
<1>4. queues' = [kyc |-> queues'.kyc, cds |-> queues'.cds, batches |-> queues'.batches]
  BY <1>3 DEF Parts
<1>5. /\ queues'.kyc = got.kyc \/ queues'.kyc = queues.kyc
      /\ queues'.cds = got.cds \/ queues'.cds = queues.cds
      /\ queues'.batches = got.batches \/ queues'.batches = queues.batches
  BY <1>2 DEF Parts
<1>6. queues' \in QueueRow
  BY <1>1, <1>4, <1>5 DEF QueueRow
<1> QED
  BY <1>1, <1>2, <1>6 DEF Fill

\* While the services rest, their part of the invariant stands.
LEMMA WorldRests ==
  ASSUME DeskInv, UNCHANGED worldVars, TabTyped', ReadsStand', QueuesAreOwn'
  PROVE  DeskInv'
<1>1. WorldTyped'
  BY TypedIs DEF DeskInv, WorldTyped, worldVars
<1>2. WorkStands'
  BY DEF DeskInv, WorkStands, worldVars, Can
<1>3. DeskTypeOK'
  BY <1>1 DEF DeskTypeOK, WorldTyped, TabTyped
<1> QED
  BY <1>2, <1>3 DEF DeskInv

LEMMA TakeDeskStands ==
  ASSUME DeskInv, NEW p \in Staff, TakeDesk(p)
  PROVE  DeskInv'
<1>1. TabTyped /\ ReadsStand /\ QueuesAreOwn
  BY TypedIs DEF DeskInv
<1>2. /\ signed = Nobody /\ shift < MaxShifts /\ signed' = p /\ shift' = shift + 1 /\ shift \in 0..MaxShifts
      /\ loads' = [loads EXCEPT ![shift + 1] = [pc |-> "asked", asked |-> MayAsk(p)]]
      /\ UNCHANGED <<worldVars, queues, op, late>>
      /\ p # Nobody /\ MaxShifts \in Nat
  BY <1>1, DeskAssumption DEF TakeDesk, TabTyped
<1>3. MayAsk(p) \in SUBSET Parts
  BY MayAskIs
<1> DEFINE new == [pc |-> "asked", asked |-> MayAsk(p)]
<1>4. new \in LoadRow /\ new.pc = "asked" /\ new.asked = MayAsk(p) /\ new # Resting
  BY <1>3, LoadRows
<1>5. loads' = [loads EXCEPT ![shift + 1] = new]
  BY <1>2
<1> HIDE DEF new
<1>6. loads' \in [1..MaxShifts -> LoadRow] /\ loads'[shift'] = new
      /\ \A n \in 1..MaxShifts : n # shift + 1 => loads'[n] = loads[n]
  BY <1>1, <1>2, <1>4, <1>5 DEF TabTyped
<1>7. TabTyped'
  BY <1>1, <1>2, <1>6 DEF TabTyped
<1>8. ASSUME NEW d \in Nat, NEW S, Own(d, S, signed, shift) PROVE Own(d, S, signed', shift')
  BY <1>2, <1>8 DEF Own
<1>9. ReadsStand'
  <2>1. ASSUME NEW n \in 1..MaxShifts
        PROVE  /\ loads'[n].pc = "asked" => Own(n, loads'[n].asked, signed', shift')
               /\ loads'[n].pc = "read" => Own(n, NotEmpty(loads'[n].got), signed', shift')
    <3>1. CASE n = shift + 1
      <4>1. loads'[n] = new /\ Own(n, new.asked, signed', shift')
        BY <1>2, <1>4, <1>6, <3>1 DEF Own
      <4> QED
        BY <1>4, <4>1
    <3>2. CASE n # shift + 1
      <4>1. loads'[n] = loads[n] /\ n \in Nat
        BY <1>6, <3>2
      <4>2. /\ loads[n].pc = "asked" => Own(n, loads[n].asked, signed, shift)
            /\ loads[n].pc = "read" => Own(n, NotEmpty(loads[n].got), signed, shift)
        BY <1>1 DEF ReadsStand
      <4> QED
        BY <1>8, <4>1, <4>2
    <3> QED
      BY <3>1, <3>2
  <2>2. op' = op
    BY <1>2
  <2>3. /\ op.pc = "asked again" => Own(op.during, op.asked, signed', shift')
        /\ op.pc = "read" => Own(op.during, NotEmpty(op.got), signed', shift')
    BY <1>1, <1>8, OpRows DEF ReadsStand, TabTyped
  <2> QED
    BY <2>1, <2>2, <2>3 DEF ReadsStand, Own, NotEmpty, MayAsk, Can
<1>10. QueuesAreOwn'
  <2>1. /\ queues.kyc # <<>> => "kyc" \in late
        /\ queues.cds # <<>> => "cds" \in late
    BY <1>1, <1>2, NobodyCan DEF QueuesAreOwn
  <2>2. queues' = queues /\ late' = late /\ loads'[shift'] # Resting
    BY <1>2, <1>4, <1>6
  <2> QED
    BY <2>1, <2>2 DEF QueuesAreOwn, Resting
<1> QED
  BY <1>2, <1>7, <1>9, <1>10, WorldRests

LEMMA LoadReadStands ==
  ASSUME DeskInv, NEW n \in 1..MaxShifts, LoadRead(n)
  PROVE  DeskInv'
<1>1. TabTyped /\ ReadsStand /\ QueuesAreOwn /\ DeskTypeOK
  BY TypedIs DEF DeskInv
<1>2. /\ loads[n].pc = "asked"
      /\ loads' = [loads EXCEPT ![n] = [pc |-> "read", got |-> Queues(loads[n].asked)]]
      /\ UNCHANGED <<worldVars, signed, shift, queues, op, late>>
  BY DEF LoadRead
<1>3. loads[n].asked \in SUBSET Parts
  BY <1>1, <1>2, LoadRows DEF TabTyped
<1> DEFINE got == Queues(loads[n].asked)
           new == [pc |-> "read", got |-> got]
<1>4. got \in QueueRow /\ NotEmpty(got) = loads[n].asked
  BY <1>1, <1>3, QueuesRead
<1> HIDE DEF got
<1>5. new \in LoadRow /\ new.pc = "read" /\ new.got = got /\ new # Resting
  BY <1>4, LoadRows
<1>6. loads' = [loads EXCEPT ![n] = new]
  BY <1>2 DEF got
<1> HIDE DEF new
<1>7. loads' \in [1..MaxShifts -> LoadRow] /\ loads'[n] = new
      /\ \A m \in 1..MaxShifts : m # n => loads'[m] = loads[m]
  BY <1>1, <1>5, <1>6 DEF TabTyped
<1>8. TabTyped'
  BY <1>1, <1>2, <1>7 DEF TabTyped
<1>9. ReadsStand'
  <2>1. ASSUME NEW m \in 1..MaxShifts
        PROVE  /\ loads'[m].pc = "asked" => Own(m, loads'[m].asked, signed', shift')
               /\ loads'[m].pc = "read" => Own(m, NotEmpty(loads'[m].got), signed', shift')
    <3>1. CASE m = n
      <4>1. loads'[m] = new /\ Own(m, NotEmpty(got), signed, shift)
        BY <1>1, <1>2, <1>4, <1>7, <3>1 DEF ReadsStand
      <4> QED
        BY <1>2, <1>5, <4>1
    <3>2. CASE m # n
      BY <1>1, <1>2, <1>7, <3>2 DEF ReadsStand
    <3> QED
      BY <3>1, <3>2
  <2>2. op' = op /\ signed' = signed /\ shift' = shift
    BY <1>2
  <2> QED
    BY <1>1, <2>1, <2>2 DEF ReadsStand, Own, NotEmpty, MayAsk, Can
<1>10. QueuesAreOwn'
  <2>1. queues' = queues /\ late' = late /\ signed' = signed /\ shift' = shift
    BY <1>2
  <2>2. signed # Nobody /\ loads[shift] # Resting => loads'[shift] # Resting
    BY <1>1, <1>5, <1>7 DEF TabTyped
  <2> QED
    BY <1>1, <2>1, <2>2 DEF QueuesAreOwn, Can, Resting
<1> QED
  BY <1>2, <1>8, <1>9, <1>10, WorldRests


LEMMA LoadEndsStands ==
  ASSUME DeskInv, NEW n \in 1..MaxShifts, LoadEnds(n)
  PROVE  DeskInv'
<1>1. TabTyped /\ ReadsStand /\ QueuesAreOwn
  BY TypedIs DEF DeskInv
<1>2. /\ loads[n].pc = "read" /\ loads' = [loads EXCEPT ![n] = Resting]
      /\ UNCHANGED <<worldVars, signed, shift, op>>
  BY DEF LoadEnds
<1>3. PICK parts \in SUBSET Parts :
        /\ \A x \in DOMAIN queues \ parts : loads[n].got[x] # <<>>
        /\ Fill(parts, loads[n].got, n)
  BY DEF LoadEnds, Parts
<1> DEFINE got == loads[n].got
<1>4. got \in QueueRow
  BY <1>1, <1>2, LoadRows DEF TabTyped
<1>5. /\ queues' \in QueueRow /\ late' \in SUBSET Parts
      /\ \A x \in Parts : queues'[x] = IF x \in parts THEN got[x] ELSE queues[x]
      /\ late' = IF n # Current THEN late \cup parts ELSE late \ parts
  <2>1. Fill(parts, got, n)
    BY <1>3
  <2> HIDE DEF got
  <2> QED
    BY <1>1, <1>4, <2>1, FillIs
<1>6. \A x \in Parts \ parts : got[x] # <<>>
  <2>1. DOMAIN queues = Parts
    BY <1>1 DEF TabTyped, QueueRow, Parts
  <2> QED
    BY <1>3, <2>1
<1>7. Own(n, NotEmpty(got), signed, shift)
  BY <1>1, <1>2 DEF ReadsStand
<1>8. n = Current => \A x \in Parts : got[x] # <<>> => x \in MayAsk(signed)
  BY <1>7 DEF Own, Current, NotEmpty
<1> HIDE DEF got
<1>9. loads' \in [1..MaxShifts -> LoadRow] /\ loads'[n] = Resting
      /\ \A m \in 1..MaxShifts : m # n => loads'[m] = loads[m]
  BY <1>1, <1>2, LoadRows DEF TabTyped
<1>10. TabTyped'
  BY <1>1, <1>2, <1>5, <1>9 DEF TabTyped
<1>11. ReadsStand'
  <2>1. ASSUME NEW m \in 1..MaxShifts
        PROVE  /\ loads'[m].pc = "asked" => Own(m, loads'[m].asked, signed', shift')
               /\ loads'[m].pc = "read" => Own(m, NotEmpty(loads'[m].got), signed', shift')
    <3>1. CASE m = n
      BY <1>9, <3>1, LoadRows
    <3>2. CASE m # n
      BY <1>1, <1>2, <1>9, <3>2 DEF ReadsStand
    <3> QED
      BY <3>1, <3>2
  <2>2. op' = op /\ signed' = signed /\ shift' = shift
    BY <1>2
  <2> QED
    BY <1>1, <2>1, <2>2 DEF ReadsStand, Own, NotEmpty, MayAsk, Can
<1>12. QueuesAreOwn'
  <2>1. signed' = signed /\ shift' = shift
    BY <1>2
  <2>2. "kyc" \in Parts /\ "cds" \in Parts /\ "batches" \in Parts
    BY DEF Parts
  <2>3. /\ queues.kyc # <<>> => "kyc" \in MayAsk(signed) \/ "kyc" \in late
        /\ queues.cds # <<>> => "cds" \in MayAsk(signed) \/ "cds" \in late
        /\ queues.batches # <<>> /\ signed # Nobody =>
             "batches" \in MayAsk(signed) \/ "batches" \in late \/ loads[shift] # Resting
    BY <1>1, MayAskIs DEF QueuesAreOwn
  <2>4. queues'.kyc # <<>> => "kyc" \in MayAsk(signed) \/ "kyc" \in late'
    BY <1>5, <1>6, <1>8, <2>2, <2>3
  <2>5. queues'.cds # <<>> => "cds" \in MayAsk(signed) \/ "cds" \in late'
    BY <1>5, <1>6, <1>8, <2>2, <2>3
  <2>6. ASSUME queues'.batches # <<>>, signed # Nobody
        PROVE  "batches" \in MayAsk(signed) \/ "batches" \in late' \/ loads'[shift] # Resting
    <3>1. CASE n = Current
      BY <1>5, <1>6, <1>8, <2>2, <2>6, <3>1
    <3>2. CASE n # Current
      <4>1. n # shift
        BY <2>6, <3>2 DEF Current
      <4>2. shift \in 1..MaxShifts
        BY <1>1, <2>6 DEF TabTyped
      <4>3. loads'[shift] = loads[shift]
        BY <1>9, <4>1, <4>2
      <4> QED
        BY <1>5, <2>2, <2>3, <2>6, <3>2, <4>3
    <3> QED
      BY <3>1, <3>2
  <2> QED
    BY <2>1, <2>4, <2>5, <2>6, MayAskIs DEF QueuesAreOwn, Can, MayAsk, Resting
<1> QED
  BY <1>2, <1>10, <1>11, <1>12, WorldRests

LEMMA LeaveDeskStands ==
  ASSUME DeskInv, LeaveDesk
  PROVE  DeskInv'
<1>1. TabTyped /\ ReadsStand /\ QueuesAreOwn
  BY TypedIs DEF DeskInv
<1>2. /\ signed' = Nobody /\ late' = {} /\ UNCHANGED <<worldVars, shift, loads, op>>
      /\ queues' = [queues EXCEPT !.kyc = <<>>, !.cds = <<>>]
  BY DEF LeaveDesk, Reset
<1>3. queues' \in QueueRow /\ queues'.kyc = <<>> /\ queues'.cds = <<>>
  <2>1. queues \in QueueRow
    BY <1>1 DEF TabTyped
  <2>2. queues' = [kyc |-> <<>>, cds |-> <<>>, batches |-> queues.batches]
    BY <1>2, <2>1 DEF QueueRow
  <2>3. <<>> \in Seq(KaseRow) /\ <<>> \in Seq({"none", "pending", "completed"})
    OBVIOUS
  <2> QED
    BY <2>1, <2>2, <2>3 DEF QueueRow
<1>4. TabTyped'
  BY <1>1, <1>2, <1>3 DEF TabTyped
<1>5. ASSUME NEW d, NEW S, Own(d, S, signed, shift) PROVE Own(d, S, signed', shift')
  BY <1>2, <1>5 DEF Own
<1>6. ReadsStand'
  <2>1. ASSUME NEW n \in 1..MaxShifts
        PROVE  /\ loads[n].pc = "asked" => Own(n, loads[n].asked, signed', shift')
               /\ loads[n].pc = "read" => Own(n, NotEmpty(loads[n].got), signed', shift')
    BY <1>1, <1>5 DEF ReadsStand
  <2>2. /\ op.pc = "asked again" => Own(op.during, op.asked, signed', shift')
        /\ op.pc = "read" => Own(op.during, NotEmpty(op.got), signed', shift')
    BY <1>1, <1>5 DEF ReadsStand
  <2>3. loads' = loads /\ op' = op
    BY <1>2
  <2> QED
    BY <2>1, <2>2, <2>3 DEF ReadsStand, Own, NotEmpty, MayAsk, Can
<1>7. QueuesAreOwn'
  BY <1>2, <1>3 DEF QueuesAreOwn
<1> QED
  BY <1>2, <1>4, <1>6, <1>7, WorldRests

\* What follows changes the action under way, and nothing of the loads.
LEMMA OpStands ==
  ASSUME TabTyped, ReadsStand, UNCHANGED <<signed, shift, loads>>,
         op'.pc = "asked again" => Own(op'.during, op'.asked, signed, shift),
         op'.pc = "read" => Own(op'.during, NotEmpty(op'.got), signed, shift)
  PROVE  ReadsStand'
BY DEF ReadsStand, Own, NotEmpty, MayAsk, Can

LEMMA OwnQueuesRest ==
  ASSUME QueuesAreOwn, UNCHANGED <<signed, shift, queues, loads, late>>
  PROVE  QueuesAreOwn'
BY DEF QueuesAreOwn, Can, Resting

\* What is asked again after an action.
LEMMA AfterIs ==
  ASSUME NEW a, NEW ok \in BOOLEAN
  PROVE  After(a, ok) \in OpRow /\ After(a, ok).pc \in {"answered", "idle"}
<1>1. \A parts \in SUBSET Parts : LET r == [pc |-> "answered", parts |-> parts] IN r \in OpRow /\ r.pc = "answered"
  BY DEF OpRow
<1>2. {"kyc", "cds"} \in SUBSET Parts /\ {"cds"} \in SUBSET Parts /\ {"batches"} \in SUBSET Parts
  BY DEF Parts
<1>3. \/ After(a, ok) = [pc |-> "answered", parts |-> {"kyc", "cds"}]
      \/ After(a, ok) = [pc |-> "answered", parts |-> {"cds"}]
      \/ After(a, ok) = [pc |-> "answered", parts |-> {"batches"}]
      \/ After(a, ok) = Resting
  BY DEF After
<1> QED
  BY <1>1, <1>2, <1>3, LoadRows

LEMMA ClickStands ==
  ASSUME DeskInv, NEW a \in Actions, Click(a)
  PROVE  DeskInv'
<1>1. TabTyped /\ ReadsStand /\ QueuesAreOwn
  BY TypedIs DEF DeskInv
<1>2. /\ signed \in Staff /\ op' = [pc |-> "asked", by |-> signed, a |-> a]
      /\ UNCHANGED <<worldVars, signed, shift, queues, loads, late>>
  BY <1>1 DEF Click, TabTyped
<1>3. op' \in OpRow /\ op'.pc = "asked"
  BY <1>2 DEF OpRow
<1>4. TabTyped'
  BY <1>1, <1>2, <1>3 DEF TabTyped
<1>5. ReadsStand' /\ QueuesAreOwn'
  BY <1>1, <1>2, <1>3, OpStands, OwnQueuesRest
<1> QED
  BY <1>2, <1>4, <1>5, WorldRests

LEMMA ClickFailsStands ==
  ASSUME DeskInv, ClickFails
  PROVE  DeskInv'
<1>1. TabTyped /\ ReadsStand /\ QueuesAreOwn
  BY TypedIs DEF DeskInv
<1>2. op' = After(op.a, FALSE) /\ UNCHANGED <<worldVars, signed, shift, queues, loads, late>>
  BY DEF ClickFails
<1>3. op' \in OpRow /\ op'.pc \in {"answered", "idle"}
  BY <1>2, AfterIs
<1>4. TabTyped'
  BY <1>1, <1>2, <1>3 DEF TabTyped
<1>5. ReadsStand' /\ QueuesAreOwn'
  BY <1>1, <1>2, <1>3, OpStands, OwnQueuesRest
<1> QED
  BY <1>2, <1>4, <1>5, WorldRests

LEMMA ClickTakenStands ==
  ASSUME DeskInv, ClickTaken
  PROVE  DeskInv'
<1>1. TabTyped /\ ReadsStand /\ QueuesAreOwn /\ WorldTyped /\ WorkStands
  BY TypedIs DEF DeskInv
<1>2. /\ op \in [pc : {"asked", "taken"}, by : Staff, a : Actions]
      /\ Takes(op.by, op.a) /\ op' = [op EXCEPT !.pc = "taken"]
      /\ UNCHANGED <<signed, shift, queues, loads, late>>
  BY <1>1, OpRows DEF ClickTaken, TabTyped
<1>3. WorldTyped' /\ WorkStands'
  BY <1>1, <1>2, TakesStands
<1>4. op' \in [pc : {"asked", "taken"}, by : Staff, a : Actions] /\ op'.pc = "taken"
  BY <1>2
<1>5. op' \in OpRow
  BY <1>4 DEF OpRow
<1>6. TabTyped'
  BY <1>1, <1>2, <1>5 DEF TabTyped
<1>7. ReadsStand' /\ QueuesAreOwn'
  BY <1>1, <1>2, <1>4, OpStands, OwnQueuesRest
<1>8. DeskTypeOK'
  BY <1>3, <1>6 DEF DeskTypeOK, WorldTyped, TabTyped
<1> QED
  BY <1>3, <1>7, <1>8 DEF DeskInv

LEMMA ClickAnsweredStands ==
  ASSUME DeskInv, ClickAnswered
  PROVE  DeskInv'
<1>1. TabTyped /\ ReadsStand /\ QueuesAreOwn /\ WorldTyped
  BY TypedIs DEF DeskInv
<1>2. /\ op' = After(op.a, TRUE)
      /\ queues' = IF op.a.do \in CaseActions /\ queues.kyc # <<>>
                     THEN [queues EXCEPT !.kyc = <<kase>>] ELSE queues
      /\ UNCHANGED <<worldVars, signed, shift, loads, late>>
  BY DEF ClickAnswered
<1>3. op' \in OpRow /\ op'.pc \in {"answered", "idle"}
  BY <1>2, AfterIs
<1>4. /\ queues' \in QueueRow /\ queues'.cds = queues.cds /\ queues'.batches = queues.batches
      /\ queues'.kyc # <<>> => queues.kyc # <<>>
  <2>0. kase \in KaseRow /\ queues \in QueueRow
    BY <1>1 DEF WorldTyped, TabTyped
  <2>1. <<kase>> \in Seq(KaseRow) /\ queues \in QueueRow
    BY <2>0
  <2>2. CASE queues' = queues
    BY <2>1, <2>2
  <2>3. CASE queues.kyc # <<>> /\ queues' = [queues EXCEPT !.kyc = <<kase>>]
    BY <2>1, <2>3 DEF QueueRow
  <2> QED
    BY <1>2, <2>2, <2>3
<1>5. TabTyped'
  BY <1>1, <1>2, <1>3, <1>4 DEF TabTyped
<1>6. ReadsStand'
  BY <1>1, <1>2, <1>3, OpStands
<1>7. QueuesAreOwn'
  BY <1>1, <1>2, <1>4 DEF QueuesAreOwn, Can, Resting
<1> QED
  BY <1>2, <1>5, <1>6, <1>7, WorldRests

LEMMA AskAgainStands ==
  ASSUME DeskInv, AskAgain
  PROVE  DeskInv'
<1>1. TabTyped /\ ReadsStand /\ QueuesAreOwn
  BY TypedIs DEF DeskInv
<1> DEFINE asked == op.parts \cap MayAsk(signed)
           new == [pc |-> "asked again", parts |-> op.parts, asked |-> asked, during |-> Current]
<1>2. /\ op.pc = "answered" /\ (op' = Resting \/ op' = new)
      /\ UNCHANGED <<worldVars, signed, shift, queues, loads, late>>
  BY DEF AskAgain
<1>3. op.parts \in SUBSET Parts /\ asked \in SUBSET Parts /\ Current \in Nat
  <2>1. op.parts \in SUBSET Parts
    BY <1>1, <1>2, OpRows DEF TabTyped
  <2>2. Current \in Nat
    BY <1>1 DEF TabTyped, Current
  <2> QED
    BY <2>1, <2>2
<1>4. Own(Current, asked, signed, shift)
  <2>1. signed = Nobody => asked = {}
    BY MayAskIs
  <2>2. shift \in Nat /\ (signed # Nobody => shift > 0)
    BY <1>1 DEF TabTyped
  <2> QED
    BY <2>1, <2>2 DEF Own, Current
<1> HIDE DEF asked
<1>5. new \in OpRow /\ new.pc = "asked again" /\ new.asked = asked /\ new.during = Current
  BY <1>3 DEF OpRow
<1>6. op' \in OpRow
  BY <1>2, <1>5, LoadRows
<1>7. TabTyped'
  BY <1>1, <1>2, <1>6 DEF TabTyped
<1> HIDE DEF new
<1>8. /\ op'.pc = "asked again" => Own(op'.during, op'.asked, signed, shift)
      /\ op'.pc # "read"
  <2>1. CASE op' = Resting
    BY <2>1, LoadRows
  <2>2. CASE op' = new
    BY <1>4, <1>5, <2>2
  <2> QED
    BY <1>2, <2>1, <2>2
<1>9. ReadsStand' /\ QueuesAreOwn'
  BY <1>1, <1>2, <1>8, OpStands, OwnQueuesRest
<1> QED
  BY <1>2, <1>7, <1>9, WorldRests

LEMMA RefreshReadStands ==
  ASSUME DeskInv, RefreshRead
  PROVE  DeskInv'
<1>1. TabTyped /\ ReadsStand /\ QueuesAreOwn /\ DeskTypeOK
  BY TypedIs DEF DeskInv
<1> DEFINE got == Queues(op.asked)
           new == [pc |-> "read", parts |-> op.parts, during |-> op.during, got |-> got]
<1>2. op.pc = "asked again" /\ op' = new /\ UNCHANGED <<worldVars, signed, shift, queues, loads, late>>
  BY DEF RefreshRead
<1>3. op.parts \in SUBSET Parts /\ op.asked \in SUBSET Parts /\ op.during \in Nat
  BY <1>1, <1>2, OpRows DEF TabTyped
<1>4. got \in QueueRow /\ NotEmpty(got) = op.asked
  BY <1>1, <1>3, QueuesRead
<1>5. Own(op.during, NotEmpty(got), signed, shift)
  BY <1>1, <1>2, <1>4 DEF ReadsStand
<1> HIDE DEF got
<1>6. new \in OpRow /\ new.pc = "read" /\ new.got = got /\ new.during = op.during
  BY <1>3, <1>4 DEF OpRow
<1> HIDE DEF new
<1>7. TabTyped'
  BY <1>1, <1>2, <1>6 DEF TabTyped
<1>8. /\ op'.pc # "asked again"
      /\ Own(op'.during, NotEmpty(op'.got), signed, shift)
  BY <1>2, <1>5, <1>6
<1>9. ReadsStand' /\ QueuesAreOwn'
  BY <1>1, <1>2, <1>8, OpStands, OwnQueuesRest
<1> QED
  BY <1>2, <1>7, <1>9, WorldRests

LEMMA RefreshEndsStands ==
  ASSUME DeskInv, RefreshEnds \/ RefreshFails
  PROVE  DeskInv'
<1>1. TabTyped /\ ReadsStand /\ QueuesAreOwn
  BY TypedIs DEF DeskInv
<1>2. op.pc = "read" /\ op' = Resting /\ UNCHANGED <<worldVars, signed, shift, loads>>
  BY DEF RefreshEnds, RefreshFails
<1>3. ReadsStand'
  BY <1>1, <1>2, OpStands, LoadRows
<1>4. CASE RefreshFails
  <2>1. UNCHANGED <<queues, late>>
    BY <1>4 DEF RefreshFails
  <2>2. TabTyped'
    BY <1>1, <1>2, <2>1, LoadRows DEF TabTyped
  <2> QED
    BY <1>1, <1>2, <1>3, <2>1, <2>2, WorldRests, OwnQueuesRest
<1>5. CASE RefreshEnds
  <2> DEFINE got == op.got
             parts == op.parts
  <2>1. Fill(parts, got, op.during)
    BY <1>5 DEF RefreshEnds
  <2>2. got \in QueueRow /\ parts \in SUBSET Parts
    BY <1>1, <1>2, OpRows DEF TabTyped
  <2>3. Own(op.during, NotEmpty(got), signed, shift)
    BY <1>1, <1>2 DEF ReadsStand
  <2>4. op.during = Current => \A x \in Parts : got[x] # <<>> => x \in MayAsk(signed)
    BY <2>3 DEF Own, Current, NotEmpty
  <2> HIDE DEF got, parts
  <2>5. /\ queues' \in QueueRow /\ late' \in SUBSET Parts
        /\ \A x \in Parts : queues'[x] = IF x \in parts THEN got[x] ELSE queues[x]
        /\ late' = IF op.during # Current THEN late \cup parts ELSE late \ parts
    BY <1>1, <2>1, <2>2, FillIs
  <2>6. TabTyped'
    BY <1>1, <1>2, <2>5, LoadRows DEF TabTyped
  <2>7. QueuesAreOwn'
    <3>1. signed' = signed /\ shift' = shift /\ loads' = loads
      BY <1>2
    <3>2. "kyc" \in Parts /\ "cds" \in Parts /\ "batches" \in Parts
      BY DEF Parts
    <3>3. /\ queues.kyc # <<>> => "kyc" \in MayAsk(signed) \/ "kyc" \in late
          /\ queues.cds # <<>> => "cds" \in MayAsk(signed) \/ "cds" \in late
          /\ queues.batches # <<>> /\ signed # Nobody =>
               "batches" \in MayAsk(signed) \/ "batches" \in late \/ loads[shift] # Resting
      BY <1>1, MayAskIs DEF QueuesAreOwn
    <3>4. queues'.kyc # <<>> => "kyc" \in MayAsk(signed) \/ "kyc" \in late'
      BY <2>4, <2>5, <3>2, <3>3
    <3>5. queues'.cds # <<>> => "cds" \in MayAsk(signed) \/ "cds" \in late'
      BY <2>4, <2>5, <3>2, <3>3
    <3>6. queues'.batches # <<>> /\ signed # Nobody =>
            "batches" \in MayAsk(signed) \/ "batches" \in late' \/ loads[shift] # Resting
      BY <2>4, <2>5, <3>2, <3>3
    <3> QED
      BY <3>1, <3>4, <3>5, <3>6, MayAskIs DEF QueuesAreOwn, Can, MayAsk, Resting
  <2> QED
    BY <1>2, <1>3, <2>6, <2>7, WorldRests
<1> QED
  BY <1>4, <1>5

LEMMA DeskInvInitially ==
  ASSUME DeskInit
  PROVE  DeskInv
<1>1. WorldTyped /\ WorkStands
  <2>1. batches = <<>> /\ cds = "none" /\ MaxBatches \in Nat
    BY DeskAssumption DEF DeskInit
  <2>2. /\ kase \in KaseRow /\ kase.maker = Nobody /\ kase.status \in {"new", "rejected"}
        /\ sequel \in {"none", "done"} /\ (kase.status = "rejected" => sequel = "done")
    BY DEF DeskInit, KaseRow, MakerStates
  <2>3. auction \in [state : {"open", "closed_for_bids", "closed"}, waiting : BOOLEAN]
    <3>1. \/ auction = [state |-> "closed", waiting |-> FALSE]
          \/ auction = [state |-> "open", waiting |-> TRUE]
      BY DEF DeskInit
    <3>2. CASE auction = [state |-> "closed", waiting |-> FALSE]
      BY <3>2
    <3>3. CASE auction = [state |-> "open", waiting |-> TRUE]
      BY <3>3
    <3> QED
      BY <3>1, <3>2, <3>3
  <2>4. batches \in Seq(BatchRow) /\ Len(batches) = 0 /\ DOMAIN batches = {}
    BY <2>1
  <2>5. WorldTyped
    <3>1. Len(batches) <= MaxBatches /\ cds \in {"none", "pending", "completed"}
      BY <2>1, <2>4
    <3>2. sequel \in {"none", "due", "done", "not sent", "cut short"}
      BY <2>2
    <3> QED
      BY <2>2, <2>3, <2>4, <3>1, <3>2 DEF WorldTyped
  <2>6. WorkStands
    BY <2>1, <2>2, <2>4 DEF WorkStands
  <2> QED
    BY <2>5, <2>6
<1>2. TabTyped
  <2>1. queues \in QueueRow
    BY DEF DeskInit, QueueRow
  <2> QED
    BY <2>1, LoadRows, DeskAssumption DEF DeskInit, TabTyped
<1>3. ReadsStand /\ QueuesAreOwn
  <2>1. /\ \A n \in 1..MaxShifts : loads[n].pc = "idle"
        /\ op.pc = "idle" /\ queues.kyc = <<>> /\ queues.cds = <<>> /\ queues.batches = <<>>
    BY LoadRows DEF DeskInit
  <2> QED
    BY <2>1 DEF ReadsStand, QueuesAreOwn
<1> QED
  BY <1>1, <1>2, <1>3, TypedIs DEF DeskInv

LEMMA DeskInvStays ==
  ASSUME DeskInv, [DeskNext]_deskVars
  PROVE  DeskInv'
<1>1. CASE UNCHANGED deskVars
  <2>1. UNCHANGED tabQueues /\ UNCHANGED worldVars
    BY <1>1 DEF deskVars
  <2>2. TabTyped'
    BY <2>1, TypedIs DEF DeskInv, TabTyped, tabQueues
  <2>3. ReadsStand' /\ QueuesAreOwn'
    BY <2>1 DEF DeskInv, ReadsStand, QueuesAreOwn, tabQueues, Own, Can, MayAsk, NotEmpty
  <2> QED
    BY <2>1, <2>2, <2>3, WorldRests
<1>2. CASE DeskNext
  BY <1>2, OthersStand, TakeDeskStands, LoadReadStands, LoadEndsStands, LeaveDeskStands, ClickStands,
     ClickTakenStands, ClickAnsweredStands, ClickFailsStands, AskAgainStands, RefreshReadStands, RefreshEndsStands DEF DeskNext
<1> QED
  BY <1>1, <1>2

\* Whoever is at the desk sees cases and CDS requests only with permission, but for what an
\* earlier sign-in's load or refresh brings (operations.ts:35-93, App.vue:16-24), and what
\* is offered on a fresh screen the services accept (KycView.vue, SubmissionView.vue), for
\* any staff that has somebody for every step and any interleaving with other desks.
THEOREM DeskIsOwnAlways == DeskSpec => []DeskIsOwn
<1>1. DeskInit => DeskInv
  BY DeskInvInitially
<1>2. DeskInv /\ [DeskNext]_deskVars => DeskInv'
  BY DeskInvStays
<1>3. DeskInv => DeskIsOwn
  BY OfferedIsTaken DEF DeskInv, DeskIsOwn
<1> QED
  BY <1>1, <1>2, <1>3, PTL DEF DeskSpec

\* For every case, CDS account and batch that waits somebody is offered the next step, the
\* notes beside them say who (SubmissionView.vue:78-114), and that of a decided case says
\* what follows, unless the service stopped after the decision or the SMS could not be sent
\* (kyc.service.ts:113-130, decisions.service.ts:33-99); and screens, sign-ins and the
\* overview's list lead there (staff-routes.ts, OverviewView.vue:47-75), under the same
\* assumption on the staff.
THEOREM DeskGuidesAlways == DeskSpec => []DeskGuides
<1>1. DeskInit => DeskInv
  BY DeskInvInitially
<1>2. DeskInv /\ [DeskNext]_deskVars => DeskInv'
  BY DeskInvStays
<1>3. DeskInv => DeskGuides
  BY SomebodyGoesOn, NotesTell, ScreensLeadOn, UnlocksLeadOn, AttentionGoesOn DEF DeskGuides
<1> QED
  BY <1>1, <1>2, <1>3, PTL DEF DeskSpec


=============================================================================
