--------------------------------- MODULE Feed ---------------------------------
(***************************************************************************)
(* From the list of auctions at the Bank of Tanzania to TCB's catalogue:   *)
(* bot-gateway compares the list with its snapshots and announces what     *)
(* changed through its outbox, of which all that matters here is what      *)
(* Channel promises; the auction service writes what it is told, by events *)
(* and by a poll of the snapshots, beside staff who close an auction early.*)
(*                                                                         *)
(* Both writers of a catalogue row read it, wait, and update it by isin.   *)
(***************************************************************************)
EXTENDS Naturals, SequencesExt

CONSTANTS
  Isins,
  Dates,       \* dates BoT may give an auction
  Handlers,    \* concurrent handlers of the consumer
  MaxChanges,  \* bound: changes at BoT
  MaxFaults,   \* bound: handlers that die, messages that come again
  None

\* What BoT says of an auction, and what the auction service keeps of it.
Contents == [date: Dates, closed: BOOLEAN]

CatalogueRows == [content: Contents, cutoff: Dates \cup {"passed"}, early: BOOLEAN]

ASSUME FeedAssumption ==
  /\ MaxChanges \in Nat /\ MaxFaults \in Nat /\ "refresher" \notin Handlers
  /\ IsFiniteSet(Isins) /\ None \notin CatalogueRows

VARIABLES
  rows,            \* bot-gateway's outbox_messages, by id
  reached, queue,  \* what became of them, as in Channel
  bot, changes,    \* BoT's list
  sync,            \* the list as the running synchronisation fetched it
  snapshot,        \* auction_snapshots
  catalogue,       \* the auctions table of the auction service
  writer,          \* the consumer's handlers and the refresher
  closing,         \* auctions a staff request found open and is closing
  faults

outbox == <<rows, reached, queue>>
gateway == <<bot, changes, sync, snapshot>>
auctions == <<catalogue, writer, closing>>
vars == <<outbox, gateway, auctions, faults>>

Outbox == INSTANCE Channel WITH Ids <- 1..MaxChanges, written <- DOMAIN rows

Writers == Handlers \cup {"refresher"}

Free == [pc |-> "free"]

FeedInit ==
  /\ rows = <<>> /\ Outbox!ChannelInit
  /\ bot = [i \in Isins |-> None] /\ changes = 0
  /\ sync = None
  /\ snapshot = [i \in Isins |-> None]
  /\ catalogue = [i \in Isins |-> None]
  /\ writer = [w \in Writers |-> Free]
  /\ closing = {}
  /\ faults = 0

Fault == faults < MaxFaults /\ faults' = faults + 1

----------------------------------------------------------------------------
(* BoT and bot-gateway                                                     *)

BotChanges(i, c) ==
  /\ changes < MaxChanges /\ bot[i] # c
  /\ bot' = [bot EXCEPT ![i] = c] /\ changes' = changes + 1
  /\ UNCHANGED <<outbox, sync, snapshot, auctions, faults>>

\* One synchronisation at a time.
SyncFetch ==
  /\ sync = None /\ sync' = bot
  /\ UNCHANGED <<outbox, bot, changes, snapshot, auctions, faults>>

Changed == {i \in Isins : sync[i] \notin {None, snapshot[i]}}

\* The event and its key, which is unique in the table.
Row(i) ==
  [isin |-> i, content |-> sync[i], kind |-> IF snapshot[i] = None THEN "published" ELSE "updated"]

NewRows == [n \in 1..Cardinality(Changed) |-> Row(SetToSeq(Changed)[n])]

Announced(row) == \E k \in DOMAIN rows : rows[k] = row

\* Snapshots and events of one synchronisation in one transaction.
ApplyRows(new) ==
  /\ sync # None /\ sync' = None
  /\ \/ /\ \E n \in DOMAIN new : Announced(new[n])
        /\ UNCHANGED <<rows, snapshot>>
     \/ /\ ~\E n \in DOMAIN new : Announced(new[n])
        /\ rows' = rows \o new
        /\ snapshot' = [i \in Isins |-> IF i \in Changed THEN sync[i] ELSE snapshot[i]]
  /\ UNCHANGED <<reached, queue, bot, changes, auctions, faults>>

\* Mutant: the two writes are not one transaction.
ApplyInTurn == ApplyRows(NewRows) \/ ApplyRows(<<>>)

Apply == ApplyRows(NewRows)

SyncFails ==
  /\ sync # None /\ sync' = None
  /\ Fault
  /\ UNCHANGED <<outbox, bot, changes, snapshot, auctions>>

----------------------------------------------------------------------------
(* The catalogue                                                           *)

Open(i) ==
  catalogue[i] # None /\ ~catalogue[i].content.closed /\ catalogue[i].cutoff # "passed"

Deliver(h, k) ==
  /\ writer[h] = Free
  /\ k \in queue /\ \A o \in Handlers : writer[o] # Free => writer[o].id # k
  /\ writer' = [writer EXCEPT ![h] =
       [pc |-> "read", id |-> k, list |-> [i \in {rows[k].isin} |-> rows[k].content]]]
  /\ UNCHANGED <<outbox, gateway, catalogue, closing, faults>>

\* The poll answers with every snapshot.
Refresh ==
  LET known == {i \in Isins : snapshot[i] # None} IN
  /\ writer["refresher"] = Free
  /\ known # {}
  /\ writer' = [writer EXCEPT !["refresher"] = [pc |-> "read", id |-> None, list |-> Restrict(snapshot, known)]]
  /\ UNCHANGED <<outbox, gateway, catalogue, closing, faults>>

\* upsertFromBot up to its first await: the auctions of a poll one after the other.
ReadRow(w) ==
  /\ writer[w].pc = "read"
  /\ LET i == CHOOSE i \in DOMAIN writer[w].list : TRUE IN
     writer' = [writer EXCEPT ![w] =
       [pc |-> "write", id |-> @.id, list |-> @.list, at |-> i, saw |-> catalogue[i]]]
  /\ UNCHANGED <<outbox, gateway, catalogue, closing, faults>>

Writes(w, i) == writer[w].pc = "write" /\ writer[w].at = i

Told(w) == writer[w].list[writer[w].at]

\* A handler acknowledges its message, the refresher goes on to the next auction.
Advance(w) ==
  LET rest == DOMAIN writer[w].list \ {writer[w].at} IN
  /\ writer' = [writer EXCEPT ![w] =
       IF rest = {} THEN Free ELSE [pc |-> "read", id |-> @.id, list |-> Restrict(@.list, rest)]]
  /\ IF w \in Handlers THEN rows' = rows /\ Outbox!Ack(writer[w].id) ELSE UNCHANGED outbox

\* The handler throws, and its message comes again; the refresher leaves the rest.
Throw(w) == writer' = [writer EXCEPT ![w] = Free] /\ UNCHANGED outbox

\* create, refused when another writer was first.
CreateRow(w, i) ==
  /\ Writes(w, i) /\ writer[w].saw = None
  /\ \/ /\ catalogue[i] = None
        /\ catalogue' = [catalogue EXCEPT ![i] =
             [content |-> Told(w), cutoff |-> Told(w).date, early |-> FALSE]]
        /\ Advance(w)
     \/ catalogue[i] # None /\ Throw(w) /\ UNCHANGED catalogue
  /\ UNCHANGED <<gateway, closing, faults>>

UpdateRowTo(w, i, content, cutoff) ==
  /\ catalogue' = [catalogue EXCEPT ![i].content = content, ![i].cutoff = cutoff]
  /\ Advance(w)
  /\ UNCHANGED <<gateway, closing, faults>>

Cutoff(w, i) == IF writer[w].saw.early THEN catalogue[i].cutoff ELSE Told(w).date

\* Mutant: an auction closed early is left as it is.
UpdateRowUnlessEarly(w, i) ==
  /\ Writes(w, i) /\ writer[w].saw # None
  /\ UpdateRowTo(w, i, IF catalogue[i].early THEN catalogue[i].content ELSE Told(w), Cutoff(w, i))

UpdateRow(w, i) ==
  /\ Writes(w, i) /\ writer[w].saw # None
  /\ UpdateRowTo(w, i, Told(w), Cutoff(w, i))

WriterDies(w) ==
  /\ writer[w] # Free /\ Throw(w)
  /\ Fault
  /\ UNCHANGED <<gateway, catalogue, closing>>

CloseRead(i) ==
  /\ i \notin closing /\ Open(i)
  /\ closing' = closing \cup {i}
  /\ UNCHANGED <<outbox, gateway, catalogue, writer, faults>>

CloseBidding(i) ==
  /\ i \in closing /\ closing' = closing \ {i}
  /\ catalogue' = [catalogue EXCEPT ![i].cutoff = "passed", ![i].early = TRUE]
  /\ UNCHANGED <<outbox, gateway, writer, faults>>

----------------------------------------------------------------------------

ReachOnce(k) ==
  /\ k \notin reached
  /\ rows' = rows /\ Outbox!Reach(k)
  /\ UNCHANGED <<gateway, auctions, faults>>

ReachAgain(k) ==
  /\ k \in reached /\ Fault
  /\ rows' = rows /\ Outbox!Reach(k)
  /\ UNCHANGED <<gateway, auctions>>

GatewayStep ==
  \/ \E i \in Isins, c \in Contents : BotChanges(i, c)
  \/ SyncFetch \/ Apply \/ SyncFails
  \/ \E k \in DOMAIN rows : ReachOnce(k) \/ ReachAgain(k)

Upsert(w) == ReadRow(w) \/ \E i \in Isins : CreateRow(w, i) \/ UpdateRow(w, i)

CatalogueStep ==
  \/ \E h \in Handlers, k \in queue : Deliver(h, k)
  \/ Refresh
  \/ \E w \in Writers : Upsert(w) \/ WriterDies(w)
  \/ \E i \in Isins : CloseRead(i) \/ CloseBidding(i)

\* The two intervals go on, what they start goes on, and so does the consumer; the outbox
\* keeps its promise.
Fairness ==
  /\ WF_vars(SyncFetch) /\ WF_vars(Apply) /\ WF_vars(Refresh)
  /\ WF_vars(\E h \in Handlers, k \in queue : Deliver(h, k))
  /\ \A w \in Writers : WF_vars(Upsert(w))
  /\ \A k \in 1..MaxChanges : WF_vars(k \in DOMAIN rows /\ ReachOnce(k))

FeedSpec == FeedInit /\ [][GatewayStep \/ CatalogueStep]_vars /\ Fairness

----------------------------------------------------------------------------

\* What a writer was told: of each auction, what BoT says.
Lists == UNION {[told -> Contents] : told \in (SUBSET Isins) \ {{}}}

WriterStates ==
  {Free}
    \cup [pc: {"read"}, id: Nat \cup {None}, list: Lists]
    \cup [pc: {"write"}, id: Nat \cup {None}, list: Lists, at: Isins, saw: CatalogueRows \cup {None}]

FeedTypeOK ==
  /\ rows \in Seq([isin: Isins, content: Contents, kind: {"published", "updated"}])
  /\ queue \subseteq reached /\ reached \subseteq DOMAIN rows
  /\ bot \in [Isins -> Contents \cup {None}]
  /\ sync \in [Isins -> Contents \cup {None}] \cup {None}
  /\ snapshot \in [Isins -> Contents \cup {None}]
  /\ catalogue \in [Isins -> CatalogueRows \cup {None}]
  /\ writer \in [Writers -> WriterStates]

EventsOf(i) == {k \in DOMAIN rows : rows[k].isin = i}

\* A change is never recorded unannounced, nor announced unrecorded
\* (prisma-snapshot.store.ts:22): the last event of an auction carries its snapshot.
SnapshotIsAnnounced ==
  \A i \in Isins :
    \/ EventsOf(i) = {} /\ snapshot[i] = None
    \/ \E k \in EventsOf(i) : snapshot[i] = rows[k].content /\ \A j \in EventsOf(i) : j <= k

\* What the gateway has seen of an auction is of its type, and was announced.
SnapshotIsKept == FeedTypeOK /\ SnapshotIsAnnounced

\* What every step keeps: a row of the catalogue is still there when it is written by
\* who saw it.
SeenIsThere ==
  /\ \A w \in Writers : writer[w].pc = "write" =>
       writer[w].at \in DOMAIN writer[w].list /\ (writer[w].saw # None => catalogue[writer[w].at] # None)
  /\ \A i \in closing : i \in Isins /\ catalogue[i] # None

FeedInv == SnapshotIsKept /\ SeenIsThere

\* The cut-off staff brought forward is kept (catalogue.service.ts:58), whatever BoT says
\* later and in whatever order the two writers learn it; but for a writer that read the
\* row before staff closed the auction and writes it afterwards.
EarlyCutoffKept ==
  [][\A i \in Isins :
       catalogue[i] # None /\ catalogue[i].early /\ catalogue'[i].cutoff # catalogue[i].cutoff
         => \/ i \in closing
            \/ \E w \in Writers : Writes(w, i) /\ writer[w].saw # None /\ ~writer[w].saw.early]_vars

\* BoT says again of an auction what it was announced to say once before, after something
\* else: the key of that event is taken.
Stuck == \E i \in Isins :
  bot[i] # snapshot[i] /\ Announced([isin |-> i, content |-> bot[i], kind |-> "updated"])

\* Whatever is lost, comes again or is overtaken: when BoT's list has settled, the
\* catalogue comes to say what the list says, and goes on saying it
\* (auction-sync.service.ts:6; catalogue.refresher.ts:8-10) - unless an auction is stuck,
\* which holds back the others with it.
CatalogueCatchesUp ==
  <>[](Stuck \/ \A i \in Isins : bot[i] # None => catalogue[i] # None /\ catalogue[i].content = bot[i])

\* The catalogue follows BoT, but keeps the cut-off TCB chose.
CatalogueFollows == EarlyCutoffKept /\ CatalogueCatchesUp

=============================================================================
