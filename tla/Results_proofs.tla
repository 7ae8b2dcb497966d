----------------------------- MODULE Results_proofs -----------------------------
(* Proofs about Results.tla: what is final of a bid stays, and once nobody is at   *)
(* work every verdict that can be applied was, and every decided bid was paid for. *)
(* And about Wizard.tla: what the screens of onboarding send and say.              *)
EXTENDS Results, Wizard, TLAPS

----------------------------------------------------------------------------
(* The inductive invariant.                                                 *)

Writing == {"accepting", "deciding", "paying", "marking"}

Applying == Writing \cup {"applying"}

Asking == Applying \cup {"mapping", "updating", "rejecting", "closing", "looking"}

\* A handler has at hand what its place in the code works on, and one of a callback
\* asks for no other verdicts than those of its own request.
Fits(w) ==
  /\ w.pc \in {"received", "mapping"} => w.pair = <<>>
  /\ w.pc = "updating" => w.pair \in Requests \X Bids /\ w.pair[2] \notin w.free
  /\ w.pc \in Applying => w.bid \in Bids
  /\ w.pc \in Writing => w.row \in Rows
  /\ w.pc \in {"deciding", "paying"} => w.row.outcome # "accepted"
  /\ w.pc # "idle" /\ w.msg \in Callbacks =>
       /\ w.pc \notin {"mapping", "updating"}
       /\ w.asked \subseteq {w.msg.request}
       /\ \A x \in w.pending : x.request = w.msg.request

HandlersFit == \A h \in Handlers : Fits(handler[h])

\* The verdicts at hand are rows of the table.
AtHand(w, table) ==
  /\ w.pc \in Applying => w.pending \subseteq table
  /\ w.pc \in Writing => w.row \in table

VerdictsAtHand == \A h \in Handlers : AtHand(handler[h], stored)

\* No two bids have one id (the column is unique).
IdsDiffer == \A b, c \in Bids : bid[b].request # NoReq /\ bid[b].request = bid[c].request => b = c

\* What two handlers are about to write is known to be raced.
SharedAreRaced ==
  \A g, h \in Handlers : g # h =>
    \A b \in Bids : b \in Using(handler[g]) /\ b \in Using(handler[h]) => b \in raced

\* What a handler has read of a bid that nobody else writes is still so.
StillSo(w) ==
  \A b \in Bids : b \in Using(w) /\ b \notin raced =>
    /\ w.pc \in {"mapping", "updating"} => bid[b].request = NoReq
    /\ w.pc \in {"accepting", "deciding"} => bid[b].status \notin FINAL
    /\ w.pc = "deciding" => w.was = bid[b].held

ReadIsStill == \A h \in Handlers : StillSo(handler[h])

\* A handler that is about to pay knows what was held and what is owed.
DueTo(w) ==
  w.pc = "paying" /\ w.bid \notin unpaid /\ w.bid \notin raced =>
    /\ bid[w.bid].status = w.row.outcome
    /\ w.row.outcome = "allotted" => bid[w.bid].held = w.row.keeps
    /\ w.was = Held /\ hold[w.bid] = Held

PayingIsDue == \A h \in Handlers : DueTo(handler[h])

\* What the hold of a decided bid is to be.
PaidFor(b) ==
  hold[b] = IF bid[b].status # "allotted" THEN 0
            ELSE IF bid[b].held < Held THEN bid[b].held ELSE Held

\* Until it is decided a bid has its money; then it was paid for, or somebody is about to.
PaidOrDue ==
  \A b \in Bids : b \notin unpaid /\ b \notin raced =>
    /\ bid[b].status \notin FINAL => bid[b].held = Held /\ hold[b] = Held
    /\ bid[b].status \in FINAL =>
         PaidFor(b) \/ \E h \in Handlers : At(h, "paying") /\ handler[h].bid = b

\* A bid that nobody raced is announced as it is decided.
AnnouncedAsDecided ==
  \A b \in Bids : b \notin raced =>
    announced[b] = 0 \/ (announced[b] = 1 /\ bid[b].status \in FINAL)

\* A verdict that could be applied, and was not.
Left(x) ==
  x \in stored /\ x \notin applied /\ x.request \notin dropped /\ Known(x.request) # {}

\* The verdict is at hand, or will be: its request is asked for, or its callback is still
\* to be dealt with, or dealt with again.
Carries(w, x) ==
  \/ w.pc = "received" /\ w.msg \in Callbacks /\ w.msg.request = x.request
  \/ w.pc \in Asking /\ x.request \in w.asked
  \/ w.pc \in Applying /\ x \in w.pending /\ bid[w.bid].request = x.request

Queued(x) == \E i \in DOMAIN queue : queue[i] \in Callbacks /\ queue[i].request = x.request

LeftAreSought ==
  \A x \in Rows : Left(x) => Queued(x) \/ \E h \in Handlers : Carries(handler[h], x)

ResultsInv ==
  /\ ResultsTypeOK
  /\ HandlersFit /\ VerdictsAtHand /\ IdsDiffer /\ SharedAreRaced
  /\ ReadIsStill /\ PayingIsDue /\ PaidOrDue /\ AnnouncedAsDecided /\ LeftAreSought

----------------------------------------------------------------------------
(* What the operators of the model give.                                    *)

\* The types of the variables, as the lemmas below use them.
LEMMA Types ==
  ResultsTypeOK =>
    /\ handler \in [Handlers -> Working \cup {Idle}]
    /\ queue \in Seq(Messages) /\ delivered \in [Messages -> Nat]
    /\ bid \in [Bids -> [status: {"submitted", "accepted"} \cup FINAL,
                         request: Requests \cup {NoReq}, held: Amounts]]
    /\ stored \subseteq Rows /\ applied \subseteq stored
    /\ announced \in [Bids -> Nat] /\ hold \in [Bids -> Amounts]
    /\ dropped \subseteq Requests /\ unpaid \subseteq Bids /\ raced \subseteq Bids
    /\ faults \in 0..MaxFaults /\ batch \in {"submitted", "reconciled"}
BY DEF ResultsTypeOK

\* A handler that is not idle has all its fields.
LEMMA AtWork ==
  ASSUME ResultsTypeOK, NEW h \in Handlers, handler[h].pc # "idle"
  PROVE  handler[h] \in Working
BY DEF ResultsTypeOK, Idle

\* A step of h is a step of no other handler.
LEMMA BecomeFacts ==
  ASSUME ResultsTypeOK, NEW h \in Handlers, NEW w \in Working \cup {Idle}, Become(h, w)
  PROVE  /\ handler' \in [Handlers -> Working \cup {Idle}]
         /\ handler'[h] = w
         /\ \A g \in Handlers : g # h => handler'[g] = handler[g]
BY DEF ResultsTypeOK, Become

\* What is read to be written.
LEMMA UsingIs ==
  ASSUME NEW w, Fits(w)
  PROVE  /\ w.pc = "mapping" => Using(w) = w.free
         /\ w.pc = "updating" => Using(w) = w.free \cup {w.pair[2]}
         /\ w.pc \in {"accepting", "deciding", "paying"} => Using(w) = {w.bid}
         /\ w.pc \notin {"mapping", "updating", "accepting", "deciding", "paying"} =>
              Using(w) = {}
<1>1. w.pc = "mapping" => Using(w) = w.free
  BY DEF Using, Fits
<1>2. ASSUME w.pc = "updating" PROVE Using(w) = w.free \cup {w.pair[2]}
  <2>1. w.pair \in Requests \X Bids
    BY <1>2 DEF Fits
  <2>2. DOMAIN w.pair = {1, 2}
    BY <2>1
  <2>3. {w.pair[i] : i \in DOMAIN w.pair \ {1}} = {w.pair[2]}
    BY <2>2
  <2>4. QED
    BY <1>2, <2>3 DEF Using
<1>3. QED
  BY <1>1, <1>2 DEF Using

\* What two handlers share after a step is raced.
LEMMA WatchFacts ==
  ASSUME ResultsTypeOK, Watch
  PROVE  /\ raced \subseteq raced' /\ raced' \subseteq Bids
         /\ SharedAreRaced'
BY DEF Watch, SharedAreRaced, ResultsTypeOK

\* Everything but the verdicts survives a step that leaves the bids and their holds.
LEMMA QuietFrame ==
  ASSUME ResultsInv, NEW h \in Handlers, NEW w, Watch,
         handler'[h] = w, \A g \in Handlers : g # h => handler'[g] = handler[g],
         bid' = bid, hold' = hold, announced' = announced,
         unpaid \subseteq unpaid', stored \subseteq stored',
         handler[h].pc = "paying" => handler[h].bid \in unpaid',
         w.pc # "paying", Fits(w), AtHand(w, stored'), StillSo(w)
  PROVE  /\ HandlersFit' /\ VerdictsAtHand' /\ IdsDiffer' /\ SharedAreRaced' /\ ReadIsStill'
         /\ PayingIsDue' /\ PaidOrDue' /\ AnnouncedAsDecided'
<1>1. raced \subseteq raced' /\ SharedAreRaced'
  BY WatchFacts DEF ResultsInv
<1>2. HandlersFit'
  BY DEF ResultsInv, HandlersFit
<1>3. IdsDiffer'
  BY DEF ResultsInv, IdsDiffer
<1>4. ReadIsStill'
  <2> SUFFICES ASSUME NEW g \in Handlers PROVE StillSo(handler[g])'
    BY DEF ReadIsStill
  <2>1. StillSo(handler'[g])
    BY DEF ResultsInv, ReadIsStill
  <2>2. QED
    BY <1>1, <2>1 DEF StillSo
<1>5. PayingIsDue'
  BY <1>1 DEF ResultsInv, PayingIsDue, DueTo
<1>6. PaidOrDue'
  BY <1>1 DEF ResultsInv, PaidOrDue, PaidFor, At
<1>7. AnnouncedAsDecided'
  BY <1>1 DEF ResultsInv, AnnouncedAsDecided
<1>8. VerdictsAtHand'
  BY DEF ResultsInv, VerdictsAtHand, AtHand
<1>9. QED
  BY <1>1, <1>2, <1>3, <1>4, <1>5, <1>6, <1>7, <1>8

\* The verdicts left stay sought while h sees to those it sought.
LEMMA SoughtFrame ==
  ASSUME ResultsInv, NEW h \in Handlers, NEW w, Fits(w),
         handler'[h] = w, \A g \in Handlers : g # h => handler'[g] = handler[g],
         \A b \in Bids : bid'[b].request = bid[b].request,
         \A x \in Rows : Left(x)' => Left(x) \/ Carries(w, x),
         \A x \in Rows : Left(x)' /\ Queued(x) => Queued(x)' \/ Carries(w, x),
         \A x \in Rows : Left(x)' /\ Carries(handler[h], x) => Queued(x)' \/ Carries(w, x)
  PROVE  LeftAreSought'
<1> SUFFICES ASSUME NEW x \in Rows, Left(x)'
             PROVE  Queued(x)' \/ \E g \in Handlers : Carries(handler[g], x)'
  BY DEF LeftAreSought, Rows
<1>1. \A g \in Handlers : Fits(handler'[g])
  BY DEF ResultsInv, HandlersFit
<1>2. ASSUME NEW g \in Handlers, Carries(handler'[g], x) PROVE Carries(handler[g], x)'
  BY <1>1, <1>2 DEF Fits, Carries
<1>3. Queued(x)' \/ \E g \in Handlers : Carries(handler'[g], x)
  BY DEF ResultsInv, LeftAreSought
<1>4. QED
  BY <1>2, <1>3

\* The invariant survives a step of h that leaves the bids and their holds, if what h
\* comes to is consistent with them and nothing it sought is forgotten.
LEMMA QuietStep ==
  ASSUME ResultsInv, NEW h \in Handlers, NEW w \in Working \cup {Idle}, Become(h, w), Watch,
         bid' = bid, hold' = hold, announced' = announced,
         queue' \in Seq(Messages), delivered' \in [Messages -> Nat],
         batch' \in {"submitted", "reconciled"}, faults' \in 0..MaxFaults,
         stored \subseteq stored', stored' \subseteq Rows, applied' \subseteq stored', dropped' \subseteq Requests,
         unpaid \subseteq unpaid', unpaid' \subseteq Bids,
         handler[h].pc = "paying" => handler[h].bid \in unpaid',
         w.pc # "paying", Fits(w), AtHand(w, stored'), StillSo(w),
         \A x \in Rows : Left(x)' => Left(x) \/ Carries(w, x),
         \A x \in Rows : Left(x)' /\ Queued(x) => Queued(x)' \/ Carries(w, x),
         \A x \in Rows : Left(x)' /\ Carries(handler[h], x) => Queued(x)' \/ Carries(w, x)
  PROVE  ResultsInv'
<1>1. /\ handler' \in [Handlers -> Working \cup {Idle}] /\ handler'[h] = w
      /\ \A g \in Handlers : g # h => handler'[g] = handler[g]
  BY BecomeFacts DEF ResultsInv
<1>2. raced' \subseteq Bids
  BY WatchFacts DEF ResultsInv
<1>3. ResultsTypeOK'
  BY <1>1, <1>2 DEF ResultsInv, ResultsTypeOK, Working, Messages, Rows, Amounts, Rejection, Idle, FINAL
<1>4. /\ HandlersFit' /\ VerdictsAtHand' /\ IdsDiffer' /\ SharedAreRaced' /\ ReadIsStill'
      /\ PayingIsDue' /\ PaidOrDue' /\ AnnouncedAsDecided'
  BY <1>1, QuietFrame
<1>5. LeftAreSought'
  BY <1>1, SoughtFrame
<1>6. QED
  BY <1>3, <1>4, <1>5 DEF ResultsInv

\* A verdict that was stored and is not left is left after the step only if it is left before.
LEMMA LeftFrame ==
  ASSUME \A b \in Bids : bid'[b].request = bid[b].request, applied \subseteq applied', dropped \subseteq dropped',
         NEW x, Left(x)', x \in stored
  PROVE  Left(x)
BY DEF Left, Known

----------------------------------------------------------------------------
(* The invariant, action by action.                                         *)

\* A message that was handed over is with its handler.
LEMMA ReceiveInv ==
  ASSUME ResultsInv, NEW h \in Handlers, Receive(h), Watch
  PROVE  ResultsInv'
<1> DEFINE w == [pc |-> "received", msg |-> Head(queue), todo |-> {}, free |-> {}, pair |-> <<>>,
                 asked |-> {}, pending |-> {}, row |-> <<>>, bid |-> <<>>, was |-> 0]
<1>1. handler[h].pc = "idle"
  BY DEF Receive, At
<1>2. /\ queue \in Seq(Messages) /\ queue # <<>> /\ Head(queue) \in Messages
      /\ queue' = Tail(queue) /\ Tail(queue) \in Seq(Messages)
  BY Types DEF ResultsInv, Receive
<1>3. /\ w \in Working /\ w.pc = "received" /\ w.msg = Head(queue) /\ w.pair = <<>>
      /\ w.asked = {} /\ w.pending = {}
  BY <1>2 DEF Working, Amounts
<1>4. Become(h, w)
  BY DEF Receive
<1> HIDE DEF w
<1>5. Fits(w)
  BY <1>1, <1>2, <1>3 DEF Fits, Writing, Applying
<1>6. /\ bid' = bid /\ hold' = hold /\ announced' = announced /\ unpaid' = unpaid
      /\ stored' = stored /\ applied' = applied /\ dropped' = dropped
  BY DEF Receive, calm
<1>7. AtHand(w, stored') /\ StillSo(w)
  BY <1>1, <1>3, <1>5, <1>6, UsingIs DEF AtHand, StillSo, Writing, Applying
<1>8. ASSUME NEW x \in Rows, Left(x)' PROVE Left(x) \/ Carries(w, x)
  BY <1>6, <1>8, LeftFrame DEF Left
<1>9. ASSUME NEW x \in Rows, Left(x)', Queued(x) PROVE Queued(x)' \/ Carries(w, x)
  <2>1. PICK i \in DOMAIN queue : queue[i] \in Callbacks /\ queue[i].request = x.request
    BY <1>9 DEF Queued
  <2>2. CASE i = 1
    BY <1>2, <1>3, <2>1, <2>2 DEF Carries
  <2>3. CASE i # 1
    <3>1. /\ i - 1 \in DOMAIN Tail(queue) /\ Tail(queue)[i - 1] = queue[i]
      BY <1>2, <2>1, <2>3
    <3>2. QED
      BY <1>2, <2>1, <3>1 DEF Queued
  <2>4. QED
    BY <2>2, <2>3
<1>10. ASSUME NEW x \in Rows, Left(x)', Carries(handler[h], x) PROVE Carries(w, x)
  BY <1>1, <1>10 DEF Carries, Asking, Applying, Writing
<1>11. /\ stored \subseteq stored' /\ stored' \subseteq Rows /\ applied' \subseteq stored'
       /\ delivered' \in [Messages -> Nat] /\ batch' \in {"submitted", "reconciled"}
       /\ faults' \in 0..MaxFaults /\ dropped' \subseteq Requests /\ unpaid' \subseteq Bids
       /\ queue' \in Seq(Messages)
  BY <1>2, <1>6, Types DEF ResultsInv, Receive, calm
<1>12. QED
  BY <1>1, <1>3, <1>4, <1>5, <1>6, <1>7, <1>8, <1>9, <1>10, <1>11, QuietStep


\* A verdict is stored by a handler that asks for it.
LEMMA RecordOutcomeInv ==
  ASSUME ResultsInv, NEW h \in Handlers, RecordOutcome(h), Watch
  PROVE  ResultsInv'
<1> DEFINE m == handler[h].msg
           w == [handler[h] EXCEPT !.pc = "looking", !.asked = {m.request}]
<1>1. /\ handler[h] \in Working /\ handler[h].pc = "received"
      /\ Fits(handler[h]) /\ AtHand(handler[h], stored) /\ StillSo(handler[h])
  BY AtWork DEF ResultsInv, HandlersFit, VerdictsAtHand, ReadIsStill, RecordOutcome, At
<1>2. m \in Callbacks /\ m.request \in Requests
  BY ResultsAssumption DEF RecordOutcome
<1>3. /\ w \in Working /\ w.pc = "looking" /\ w.msg = m /\ w.asked = {m.request}
      /\ w.pending = handler[h].pending
  BY <1>1, <1>2 DEF Working
<1>4. Become(h, w)
  BY DEF RecordOutcome
<1> HIDE DEF w
<1>5. Fits(w)
  BY <1>1, <1>2, <1>3 DEF Fits, Writing, Applying
<1>6. /\ bid' = bid /\ hold' = hold /\ announced' = announced /\ unpaid' = unpaid
      /\ queue' = queue /\ stored' = stored \cup {m} /\ applied' = applied
      /\ dropped' = dropped
  BY DEF RecordOutcome, calm
<1>7. AtHand(w, stored') /\ StillSo(w)
  BY <1>1, <1>3, <1>5, <1>6, UsingIs DEF AtHand, StillSo, Writing, Applying
<1>8. ASSUME NEW x \in Rows, Left(x)' PROVE Left(x) \/ Carries(w, x)
  <2>1. CASE x \in stored
    BY <1>6, <1>8, <2>1, LeftFrame
  <2>2. CASE x = m
    BY <1>3, <2>2 DEF Carries, Asking
  <2>3. QED
    BY <1>6, <1>8, <2>1, <2>2 DEF Left
<1>9. ASSUME NEW x \in Rows, Left(x)', Queued(x) PROVE Queued(x)' \/ Carries(w, x)
  BY <1>6, <1>9 DEF Queued
<1>10. ASSUME NEW x \in Rows, Left(x)', Carries(handler[h], x) PROVE Carries(w, x)
  BY <1>1, <1>3, <1>10 DEF Carries, Asking, Applying, Writing
<1>11. /\ stored \subseteq stored' /\ stored' \subseteq Rows /\ applied' \subseteq stored'
       /\ delivered' \in [Messages -> Nat] /\ batch' \in {"submitted", "reconciled"}
       /\ faults' \in 0..MaxFaults /\ dropped' \subseteq Requests /\ unpaid' \subseteq Bids
       /\ queue' \in Seq(Messages)
  BY <1>2, <1>6, Types DEF ResultsInv, RecordOutcome, calm, Rows
<1>12. QED
  BY <1>1, <1>3, <1>4, <1>5, <1>6, <1>7, <1>8, <1>9, <1>10, <1>11, QuietStep


\* A reconciliation reads the bids without an id.
LEMMA ReadBatchInv ==
  ASSUME ResultsInv, NEW h \in Handlers, ReadBatch(h), Watch
  PROVE  ResultsInv'
<1> DEFINE m == handler[h].msg
           w == [handler[h] EXCEPT !.pc = "mapping", !.todo = m.bids,
                                     !.free = {b \in Bids : bid[b].request = NoReq}]
<1>1. /\ handler[h] \in Working /\ handler[h].pc = "received"
      /\ Fits(handler[h]) /\ AtHand(handler[h], stored) /\ StillSo(handler[h])
  BY AtWork DEF ResultsInv, HandlersFit, VerdictsAtHand, ReadIsStill, ReadBatch, At
<1>2. m \in Reconciliations /\ m \notin Callbacks /\ m.bids \subseteq Requests
  BY ResultsAssumption DEF ReadBatch
<1>3. /\ w \in Working /\ w.pc = "mapping" /\ w.msg = m /\ w.pair = handler[h].pair
      /\ w.free = {b \in Bids : bid[b].request = NoReq}
  BY <1>1, <1>2 DEF Working
<1>4. Become(h, w)
  BY DEF ReadBatch
<1> HIDE DEF w
<1>5. Fits(w)
  BY <1>1, <1>2, <1>3 DEF Fits, Writing, Applying
<1>6. /\ bid' = bid /\ hold' = hold /\ announced' = announced /\ unpaid' = unpaid
      /\ queue' = queue /\ stored' = stored /\ applied' = applied
      /\ dropped' = dropped
  BY DEF ReadBatch, calm
<1>7. AtHand(w, stored') /\ StillSo(w)
  BY <1>1, <1>3, <1>5, <1>6, UsingIs DEF AtHand, StillSo, Writing, Applying
<1>8. ASSUME NEW x \in Rows, Left(x)' PROVE Left(x) \/ Carries(w, x)
  BY <1>6, <1>8, LeftFrame DEF Left
<1>9. ASSUME NEW x \in Rows, Left(x)', Queued(x) PROVE Queued(x)' \/ Carries(w, x)
  BY <1>6, <1>9 DEF Queued
<1>10. ASSUME NEW x \in Rows, Left(x)', Carries(handler[h], x) PROVE Carries(w, x)
  BY <1>1, <1>2, <1>10 DEF Carries, Asking, Applying, Writing
<1>11. /\ stored \subseteq stored' /\ stored' \subseteq Rows /\ applied' \subseteq stored'
       /\ delivered' \in [Messages -> Nat] /\ batch' \in {"submitted", "reconciled"}
       /\ faults' \in 0..MaxFaults /\ dropped' \subseteq Requests /\ unpaid' \subseteq Bids
       /\ queue' \in Seq(Messages)
  BY <1>2, <1>6, Types DEF ResultsInv, ReadBatch, calm
<1>12. QED
  BY <1>1, <1>3, <1>4, <1>5, <1>6, <1>7, <1>8, <1>9, <1>10, <1>11, QuietStep


\* Every id of a reconciliation was looked for.
LEMMA MappedInv ==
  ASSUME ResultsInv, NEW h \in Handlers, Mapped(h), Watch
  PROVE  ResultsInv'
<1> DEFINE w == [handler[h] EXCEPT !.pc = "rejecting", !.todo = handler[h].msg.rejected]
<1>1. /\ handler[h] \in Working /\ handler[h].pc = "mapping"
      /\ Fits(handler[h]) /\ AtHand(handler[h], stored) /\ StillSo(handler[h])
  BY AtWork DEF ResultsInv, HandlersFit, VerdictsAtHand, ReadIsStill, Mapped, At
<1>2. handler[h].msg.rejected \subseteq Requests
  BY <1>1, ResultsAssumption DEF Fits, Working, Messages
<1>3. /\ w \in Working /\ w.pc = "rejecting" /\ w.msg = handler[h].msg
      /\ w.asked = handler[h].asked /\ w.pending = handler[h].pending
  BY <1>1, <1>2 DEF Working
<1>4. Become(h, w)
  BY DEF Mapped
<1> HIDE DEF w
<1>5. Fits(w)
  BY <1>1, <1>2, <1>3 DEF Fits, Writing, Applying
<1>6. /\ bid' = bid /\ hold' = hold /\ announced' = announced /\ unpaid' = unpaid
      /\ queue' = queue /\ stored' = stored /\ applied' = applied
      /\ dropped' = dropped
  BY DEF Mapped, calm
<1>7. AtHand(w, stored') /\ StillSo(w)
  BY <1>1, <1>3, <1>5, <1>6, UsingIs DEF AtHand, StillSo, Writing, Applying
<1>8. ASSUME NEW x \in Rows, Left(x)' PROVE Left(x) \/ Carries(w, x)
  BY <1>6, <1>8, LeftFrame DEF Left
<1>9. ASSUME NEW x \in Rows, Left(x)', Queued(x) PROVE Queued(x)' \/ Carries(w, x)
  BY <1>6, <1>9 DEF Queued
<1>10. ASSUME NEW x \in Rows, Left(x)', Carries(handler[h], x) PROVE Carries(w, x)
  BY <1>1, <1>3, <1>10 DEF Carries, Asking, Applying, Writing
<1>11. /\ stored \subseteq stored' /\ stored' \subseteq Rows /\ applied' \subseteq stored'
       /\ delivered' \in [Messages -> Nat] /\ batch' \in {"submitted", "reconciled"}
       /\ faults' \in 0..MaxFaults /\ dropped' \subseteq Requests /\ unpaid' \subseteq Bids
       /\ queue' \in Seq(Messages)
  BY <1>2, <1>6, Types DEF ResultsInv, Mapped, calm
<1>12. QED
  BY <1>1, <1>3, <1>4, <1>5, <1>6, <1>7, <1>8, <1>9, <1>10, <1>11, QuietStep


\* A rejection is stored by a handler that asks for it, or whose id has no bid, or is dropped.
LEMMA RecordRejectionInv ==
  ASSUME ResultsInv, NEW h \in Handlers, NEW q \in Requests, RecordRejection(h, q), Watch
  PROVE  ResultsInv'
<1> DEFINE w == [handler[h] EXCEPT !.todo = @ \ {q}]
<1>1. /\ handler[h] \in Working /\ handler[h].pc = "rejecting"
      /\ Fits(handler[h]) /\ AtHand(handler[h], stored) /\ StillSo(handler[h])
  BY AtWork DEF ResultsInv, HandlersFit, VerdictsAtHand, ReadIsStill, RecordRejection, At
<1>2. Rejection(q) \in Rows /\ Rejection(q).request = q
  BY DEF Rows, Rejection
<1>3. /\ w \in Working /\ w.pc = "rejecting" /\ w.msg = handler[h].msg
      /\ w.asked = handler[h].asked /\ w.pending = handler[h].pending
  BY <1>1, <1>2 DEF Working
<1>4. Become(h, w)
  BY DEF RecordRejection
<1> HIDE DEF w
<1>5. Fits(w)
  BY <1>1, <1>2, <1>3 DEF Fits, Writing, Applying
<1>6. /\ bid' = bid /\ hold' = hold /\ announced' = announced /\ unpaid' = unpaid
      /\ queue' = queue /\ stored' = stored \cup {Rejection(q)} /\ applied' = applied
      /\ dropped \subseteq dropped' /\ dropped' \subseteq dropped \cup {q}
      /\ q \in dropped' \/ q \in handler[h].asked \/ Known(q) = {}
  BY DEF RecordRejection
<1>7. AtHand(w, stored') /\ StillSo(w)
  BY <1>1, <1>3, <1>5, <1>6, UsingIs DEF AtHand, StillSo, Writing, Applying
<1>8. ASSUME NEW x \in Rows, Left(x)' PROVE Left(x) \/ Carries(w, x)
  <2>1. CASE x \in stored
    BY <1>6, <1>8, <2>1, LeftFrame
  <2>2. CASE x = Rejection(q)
    BY <1>2, <1>3, <1>6, <1>8, <2>2 DEF Carries, Asking, Left, Known
  <2>3. QED
    BY <1>6, <1>8, <2>1, <2>2 DEF Left
<1>9. ASSUME NEW x \in Rows, Left(x)', Queued(x) PROVE Queued(x)' \/ Carries(w, x)
  BY <1>6, <1>9 DEF Queued
<1>10. ASSUME NEW x \in Rows, Left(x)', Carries(handler[h], x) PROVE Carries(w, x)
  BY <1>1, <1>3, <1>10 DEF Carries, Asking, Applying, Writing
<1>11. /\ stored \subseteq stored' /\ stored' \subseteq Rows /\ applied' \subseteq stored'
       /\ delivered' \in [Messages -> Nat] /\ batch' \in {"submitted", "reconciled"}
       /\ faults' \in 0..MaxFaults /\ dropped' \subseteq Requests /\ unpaid' \subseteq Bids
       /\ queue' \in Seq(Messages)
  BY <1>2, <1>6, Types DEF ResultsInv, RecordRejection
<1>12. QED
  BY <1>1, <1>3, <1>4, <1>5, <1>6, <1>7, <1>8, <1>9, <1>10, <1>11, QuietStep


\* A reconciliation goes on to the verdicts of the ids it found.
LEMMA CloseBatchInv ==
  ASSUME ResultsInv, NEW h \in Handlers, CloseBatch(h), Watch
  PROVE  ResultsInv'
<1> DEFINE w == [handler[h] EXCEPT !.pc = "looking"]
<1>1. /\ handler[h] \in Working /\ handler[h].pc = "rejecting"
      /\ Fits(handler[h]) /\ AtHand(handler[h], stored) /\ StillSo(handler[h])
  BY AtWork DEF ResultsInv, HandlersFit, VerdictsAtHand, ReadIsStill, CloseBatch, At
<1>2. TRUE
  OBVIOUS
<1>3. /\ w \in Working /\ w.pc = "looking" /\ w.msg = handler[h].msg
      /\ w.asked = handler[h].asked /\ w.pending = handler[h].pending
  BY <1>1, <1>2 DEF Working
<1>4. Become(h, w)
  BY DEF CloseBatch, Goto
<1> HIDE DEF w
<1>5. Fits(w)
  BY <1>1, <1>2, <1>3 DEF Fits, Writing, Applying
<1>6. /\ bid' = bid /\ hold' = hold /\ announced' = announced /\ unpaid' = unpaid
      /\ queue' = queue /\ stored' = stored /\ applied' = applied
      /\ dropped' = dropped
  BY DEF CloseBatch, calm
<1>7. AtHand(w, stored') /\ StillSo(w)
  BY <1>1, <1>3, <1>5, <1>6, UsingIs DEF AtHand, StillSo, Writing, Applying
<1>8. ASSUME NEW x \in Rows, Left(x)' PROVE Left(x) \/ Carries(w, x)
  BY <1>6, <1>8, LeftFrame DEF Left
<1>9. ASSUME NEW x \in Rows, Left(x)', Queued(x) PROVE Queued(x)' \/ Carries(w, x)
  BY <1>6, <1>9 DEF Queued
<1>10. ASSUME NEW x \in Rows, Left(x)', Carries(handler[h], x) PROVE Carries(w, x)
  BY <1>1, <1>3, <1>10 DEF Carries, Asking, Applying, Writing
<1>11. /\ stored \subseteq stored' /\ stored' \subseteq Rows /\ applied' \subseteq stored'
       /\ delivered' \in [Messages -> Nat] /\ batch' \in {"submitted", "reconciled"}
       /\ faults' \in 0..MaxFaults /\ dropped' \subseteq Requests /\ unpaid' \subseteq Bids
       /\ queue' \in Seq(Messages)
  BY <1>2, <1>6, Types DEF ResultsInv, CloseBatch, calm
<1>12. QED
  BY <1>1, <1>3, <1>4, <1>5, <1>6, <1>7, <1>8, <1>9, <1>10, <1>11, QuietStep


\* The bid is read before a verdict is applied to it.
LEMMA ReadBidInv ==
  ASSUME ResultsInv, NEW h \in Handlers, NEW y \in Rows, ReadBid(h, y), Watch
  PROVE  ResultsInv'
<1> DEFINE b == handler[h].bid
           next == IF bid[b].status \in FINAL THEN "marking"
                   ELSE IF y.outcome # "accepted" THEN "deciding"
                   ELSE IF bid[b].status = "submitted" THEN "accepting" ELSE "marking"
           w == [handler[h] EXCEPT !.pc = next, !.row = y, !.was = bid[b].held]
<1>1. /\ handler[h] \in Working /\ handler[h].pc = "applying"
      /\ Fits(handler[h]) /\ AtHand(handler[h], stored) /\ StillSo(handler[h])
  BY AtWork DEF ResultsInv, HandlersFit, VerdictsAtHand, ReadIsStill, ReadBid, At
<1>2. /\ b \in Bids /\ bid[b].held \in Amounts /\ y \in handler[h].pending
      /\ next \in {"marking", "deciding", "accepting"}
      /\ next = "deciding" => y.outcome # "accepted" /\ bid[b].status \notin FINAL
      /\ next = "accepting" => bid[b].status \notin FINAL
  BY <1>1, Types DEF ResultsInv, ReadBid, Fits, Applying, FINAL
<1>3. /\ w \in Working /\ w.pc = next /\ w.msg = handler[h].msg
      /\ w.asked = handler[h].asked /\ w.pending = handler[h].pending /\ w.bid = b
      /\ w.row = y /\ w.was = bid[b].held
  BY <1>1, <1>2 DEF Working
<1>4. Become(h, w)
  BY DEF ReadBid
<1> HIDE DEF w, next
<1>5. Fits(w)
  BY <1>1, <1>2, <1>3 DEF Fits, Writing, Applying
<1>6. /\ bid' = bid /\ hold' = hold /\ announced' = announced /\ unpaid' = unpaid
      /\ queue' = queue /\ stored' = stored /\ applied' = applied
      /\ dropped' = dropped
  BY DEF ReadBid, calm
<1>7. AtHand(w, stored') /\ StillSo(w)
  BY <1>1, <1>2, <1>3, <1>5, <1>6, UsingIs DEF AtHand, StillSo, Writing, Applying
<1>8. ASSUME NEW x \in Rows, Left(x)' PROVE Left(x) \/ Carries(w, x)
  BY <1>6, <1>8, LeftFrame DEF Left
<1>9. ASSUME NEW x \in Rows, Left(x)', Queued(x) PROVE Queued(x)' \/ Carries(w, x)
  BY <1>6, <1>9 DEF Queued
<1>10. ASSUME NEW x \in Rows, Left(x)', Carries(handler[h], x) PROVE Carries(w, x)
  BY <1>1, <1>2, <1>3, <1>10 DEF Carries, Asking, Applying, Writing
<1>11. /\ stored \subseteq stored' /\ stored' \subseteq Rows /\ applied' \subseteq stored'
       /\ delivered' \in [Messages -> Nat] /\ batch' \in {"submitted", "reconciled"}
       /\ faults' \in 0..MaxFaults /\ dropped' \subseteq Requests /\ unpaid' \subseteq Bids
       /\ queue' \in Seq(Messages)
  BY <1>2, <1>6, Types DEF ResultsInv, ReadBid, calm
<1>12. QED
  BY <1>1, <1>2, <1>3, <1>4, <1>5, <1>6, <1>7, <1>8, <1>9, <1>10, <1>11, QuietStep


\* A verdict that was applied is marked.
LEMMA MarkAppliedInv ==
  ASSUME ResultsInv, NEW h \in Handlers, MarkApplied(h), Watch
  PROVE  ResultsInv'
<1> DEFINE w == [handler[h] EXCEPT !.pc = "applying", !.pending = @ \ {handler[h].row},
                              !.row = <<>>, !.was = 0]
<1>1. /\ handler[h] \in Working /\ handler[h].pc = "marking"
      /\ Fits(handler[h]) /\ AtHand(handler[h], stored) /\ StillSo(handler[h])
  BY AtWork DEF ResultsInv, HandlersFit, VerdictsAtHand, ReadIsStill, MarkApplied, At
<1>2. handler[h].row \in stored
  BY <1>1 DEF AtHand, Writing
<1>3. /\ w \in Working /\ w.pc = "applying" /\ w.msg = handler[h].msg
      /\ w.asked = handler[h].asked /\ w.pending = handler[h].pending \ {handler[h].row}
      /\ w.bid = handler[h].bid
  BY <1>1 DEF Working, Amounts
<1>4. Become(h, w)
  BY DEF MarkApplied
<1> HIDE DEF w
<1>5. Fits(w)
  BY <1>1, <1>2, <1>3 DEF Fits, Writing, Applying
<1>6. /\ bid' = bid /\ hold' = hold /\ announced' = announced /\ unpaid' = unpaid
      /\ queue' = queue /\ stored' = stored /\ applied' = applied \cup {handler[h].row}
      /\ dropped' = dropped
  BY DEF MarkApplied, calm
<1>7. AtHand(w, stored') /\ StillSo(w)
  BY <1>1, <1>3, <1>5, <1>6, UsingIs DEF AtHand, StillSo, Writing, Applying
<1>8. ASSUME NEW x \in Rows, Left(x)' PROVE Left(x) \/ Carries(w, x)
  BY <1>6, <1>8, LeftFrame DEF Left
<1>9. ASSUME NEW x \in Rows, Left(x)', Queued(x) PROVE Queued(x)' \/ Carries(w, x)
  BY <1>6, <1>9 DEF Queued
<1>10. ASSUME NEW x \in Rows, Left(x)', Carries(handler[h], x) PROVE Carries(w, x)
  <2>1. x # handler[h].row
    BY <1>6, <1>10 DEF Left
  <2>2. QED
    BY <1>1, <1>3, <1>10, <2>1 DEF Carries, Asking, Applying, Writing
<1>11. /\ stored \subseteq stored' /\ stored' \subseteq Rows /\ applied' \subseteq stored'
       /\ delivered' \in [Messages -> Nat] /\ batch' \in {"submitted", "reconciled"}
       /\ faults' \in 0..MaxFaults /\ dropped' \subseteq Requests /\ unpaid' \subseteq Bids
       /\ queue' \in Seq(Messages)
  BY <1>2, <1>6, Types DEF ResultsInv, MarkApplied, calm
<1>12. QED
  BY <1>1, <1>3, <1>4, <1>5, <1>6, <1>7, <1>8, <1>9, <1>10, <1>11, QuietStep


\* Every verdict at hand was applied.
LEMMA NextRequestInv ==
  ASSUME ResultsInv, NEW h \in Handlers, NextRequest(h), Watch
  PROVE  ResultsInv'
<1> DEFINE w == [handler[h] EXCEPT !.pc = "looking", !.bid = <<>>]
<1>1. /\ handler[h] \in Working /\ handler[h].pc = "applying"
      /\ Fits(handler[h]) /\ AtHand(handler[h], stored) /\ StillSo(handler[h])
  BY AtWork DEF ResultsInv, HandlersFit, VerdictsAtHand, ReadIsStill, NextRequest, At
<1>2. handler[h].pending = {}
  BY DEF NextRequest
<1>3. /\ w \in Working /\ w.pc = "looking" /\ w.msg = handler[h].msg
      /\ w.asked = handler[h].asked /\ w.pending = {}
  BY <1>1, <1>2 DEF Working
<1>4. Become(h, w)
  BY DEF NextRequest
<1> HIDE DEF w
<1>5. Fits(w)
  BY <1>1, <1>2, <1>3 DEF Fits, Writing, Applying
<1>6. /\ bid' = bid /\ hold' = hold /\ announced' = announced /\ unpaid' = unpaid
      /\ queue' = queue /\ stored' = stored /\ applied' = applied
      /\ dropped' = dropped
  BY DEF NextRequest, calm
<1>7. AtHand(w, stored') /\ StillSo(w)
  BY <1>1, <1>3, <1>5, <1>6, UsingIs DEF AtHand, StillSo, Writing, Applying
<1>8. ASSUME NEW x \in Rows, Left(x)' PROVE Left(x) \/ Carries(w, x)
  BY <1>6, <1>8, LeftFrame DEF Left
<1>9. ASSUME NEW x \in Rows, Left(x)', Queued(x) PROVE Queued(x)' \/ Carries(w, x)
  BY <1>6, <1>9 DEF Queued
<1>10. ASSUME NEW x \in Rows, Left(x)', Carries(handler[h], x) PROVE Carries(w, x)
  BY <1>1, <1>2, <1>3, <1>10 DEF Carries, Asking, Applying, Writing
<1>11. /\ stored \subseteq stored' /\ stored' \subseteq Rows /\ applied' \subseteq stored'
       /\ delivered' \in [Messages -> Nat] /\ batch' \in {"submitted", "reconciled"}
       /\ faults' \in 0..MaxFaults /\ dropped' \subseteq Requests /\ unpaid' \subseteq Bids
       /\ queue' \in Seq(Messages)
  BY <1>2, <1>6, Types DEF ResultsInv, NextRequest, calm
<1>12. QED
  BY <1>1, <1>3, <1>4, <1>5, <1>6, <1>7, <1>8, <1>9, <1>10, <1>11, QuietStep


\* A handler that asks for nothing more is done.
LEMMA AcknowledgeInv ==
  ASSUME ResultsInv, NEW h \in Handlers, Acknowledge(h), Watch
  PROVE  ResultsInv'
<1> DEFINE w == Idle
<1>1. /\ handler[h] \in Working /\ handler[h].pc = "looking"
      /\ Fits(handler[h]) /\ AtHand(handler[h], stored) /\ StillSo(handler[h])
  BY AtWork DEF ResultsInv, HandlersFit, VerdictsAtHand, ReadIsStill, Acknowledge, At
<1>2. handler[h].asked = {}
  BY DEF Acknowledge
<1>3. w \in Working \cup {Idle} /\ w.pc = "idle"
  BY DEF Idle
<1>4. Become(h, w)
  BY DEF Acknowledge
<1> HIDE DEF w
<1>5. Fits(w)
  BY <1>1, <1>2, <1>3 DEF Fits, Writing, Applying
<1>6. /\ bid' = bid /\ hold' = hold /\ announced' = announced /\ unpaid' = unpaid
      /\ queue' = queue /\ stored' = stored /\ applied' = applied
      /\ dropped' = dropped
  BY DEF Acknowledge, calm
<1>7. AtHand(w, stored') /\ StillSo(w)
  BY <1>1, <1>3, <1>5, <1>6, UsingIs DEF AtHand, StillSo, Writing, Applying
<1>8. ASSUME NEW x \in Rows, Left(x)' PROVE Left(x) \/ Carries(w, x)
  BY <1>6, <1>8, LeftFrame DEF Left
<1>9. ASSUME NEW x \in Rows, Left(x)', Queued(x) PROVE Queued(x)' \/ Carries(w, x)
  BY <1>6, <1>9 DEF Queued
<1>10. ASSUME NEW x \in Rows, Left(x)', Carries(handler[h], x) PROVE Carries(w, x)
  BY <1>1, <1>2, <1>10 DEF Carries, Asking, Applying, Writing
<1>11. /\ stored \subseteq stored' /\ stored' \subseteq Rows /\ applied' \subseteq stored'
       /\ delivered' \in [Messages -> Nat] /\ batch' \in {"submitted", "reconciled"}
       /\ faults' \in 0..MaxFaults /\ dropped' \subseteq Requests /\ unpaid' \subseteq Bids
       /\ queue' \in Seq(Messages)
  BY <1>2, <1>6, Types DEF ResultsInv, Acknowledge, calm
<1>12. QED
  BY <1>1, <1>3, <1>4, <1>5, <1>6, <1>7, <1>8, <1>9, <1>10, <1>11, QuietStep

\* A step of a handler that changes nothing but itself.
Same == UNCHANGED <<queue, delivered, bid, batch, stored, applied, announced, hold, calm>>

\* An id is not looked for, or not found.
LEMMA SkipRequest ==
  ASSUME ResultsInv, NEW h \in Handlers, NEW q \in Requests, At(h, "mapping"), Same, Watch,
         Become(h, [handler[h] EXCEPT !.todo = @ \ {q}])
  PROVE  ResultsInv'
<1> DEFINE w == [handler[h] EXCEPT !.todo = @ \ {q}]
<1>1. /\ handler[h] \in Working /\ handler[h].pc = "mapping"
      /\ Fits(handler[h]) /\ AtHand(handler[h], stored) /\ StillSo(handler[h])
  BY AtWork DEF ResultsInv, HandlersFit, VerdictsAtHand, ReadIsStill, At
<1>2. TRUE
  OBVIOUS
<1>3. /\ w \in Working /\ w.pc = "mapping" /\ w.msg = handler[h].msg /\ w.pair = handler[h].pair
      /\ w.asked = handler[h].asked /\ w.pending = handler[h].pending /\ w.free = handler[h].free
  BY <1>1, <1>2 DEF Working
<1>4. Become(h, w)
  OBVIOUS
<1> HIDE DEF w
<1>5. Fits(w)
  BY <1>1, <1>2, <1>3 DEF Fits, Writing, Applying
<1>6. /\ bid' = bid /\ hold' = hold /\ announced' = announced /\ unpaid' = unpaid
      /\ queue' = queue /\ stored' = stored /\ applied' = applied
      /\ dropped' = dropped
  BY DEF Same, calm
<1>7. AtHand(w, stored') /\ StillSo(w)
  BY <1>1, <1>3, <1>5, <1>6, UsingIs DEF AtHand, StillSo, Writing, Applying
<1>8. ASSUME NEW x \in Rows, Left(x)' PROVE Left(x) \/ Carries(w, x)
  BY <1>6, <1>8, LeftFrame DEF Left
<1>9. ASSUME NEW x \in Rows, Left(x)', Queued(x) PROVE Queued(x)' \/ Carries(w, x)
  BY <1>6, <1>9 DEF Queued
<1>10. ASSUME NEW x \in Rows, Left(x)', Carries(handler[h], x) PROVE Carries(w, x)
  BY <1>1, <1>3, <1>10 DEF Carries, Asking, Applying, Writing
<1>11. /\ stored \subseteq stored' /\ stored' \subseteq Rows /\ applied' \subseteq stored'
       /\ delivered' \in [Messages -> Nat] /\ batch' \in {"submitted", "reconciled"}
       /\ faults' \in 0..MaxFaults /\ dropped' \subseteq Requests /\ unpaid' \subseteq Bids
       /\ queue' \in Seq(Messages)
  BY <1>2, <1>6, Types DEF ResultsInv, Same, calm
<1>12. QED
  BY <1>1, <1>3, <1>4, <1>5, <1>6, <1>7, <1>8, <1>9, <1>10, <1>11, QuietStep

\* A bid is taken for an id.
LEMMA TakeRequest ==
  ASSUME ResultsInv, NEW h \in Handlers, NEW q \in Requests, NEW b \in handler[h].free, At(h, "mapping"), Same, Watch,
         Become(h, [handler[h] EXCEPT !.pc = "updating", !.todo = handler[h].todo \ {q},
                                      !.free = @ \ {b}, !.pair = <<q, b>>])
  PROVE  ResultsInv'
<1> DEFINE w == [handler[h] EXCEPT !.pc = "updating", !.todo = handler[h].todo \ {q},
                              !.free = @ \ {b}, !.pair = <<q, b>>]
<1>1. /\ handler[h] \in Working /\ handler[h].pc = "mapping"
      /\ Fits(handler[h]) /\ AtHand(handler[h], stored) /\ StillSo(handler[h])
  BY AtWork DEF ResultsInv, HandlersFit, VerdictsAtHand, ReadIsStill, At
<1>2. b \in Bids
  BY <1>1 DEF Working
<1>3. /\ w \in Working /\ w.pc = "updating" /\ w.msg = handler[h].msg /\ w.pair = <<q, b>>
      /\ w.asked = handler[h].asked /\ w.pending = handler[h].pending
      /\ w.free = handler[h].free \ {b}
  BY <1>1, <1>2 DEF Working
<1>4. Become(h, w)
  OBVIOUS
<1> HIDE DEF w
<1>5. Fits(w)
  BY <1>1, <1>2, <1>3 DEF Fits, Writing, Applying
<1>6. /\ bid' = bid /\ hold' = hold /\ announced' = announced /\ unpaid' = unpaid
      /\ queue' = queue /\ stored' = stored /\ applied' = applied
      /\ dropped' = dropped
  BY DEF Same, calm
<1>7. AtHand(w, stored') /\ StillSo(w)
  BY <1>1, <1>3, <1>5, <1>6, UsingIs DEF AtHand, StillSo, Writing, Applying
<1>8. ASSUME NEW x \in Rows, Left(x)' PROVE Left(x) \/ Carries(w, x)
  BY <1>6, <1>8, LeftFrame DEF Left
<1>9. ASSUME NEW x \in Rows, Left(x)', Queued(x) PROVE Queued(x)' \/ Carries(w, x)
  BY <1>6, <1>9 DEF Queued
<1>10. ASSUME NEW x \in Rows, Left(x)', Carries(handler[h], x) PROVE Carries(w, x)
  BY <1>1, <1>3, <1>10 DEF Carries, Asking, Applying, Writing
<1>11. /\ stored \subseteq stored' /\ stored' \subseteq Rows /\ applied' \subseteq stored'
       /\ delivered' \in [Messages -> Nat] /\ batch' \in {"submitted", "reconciled"}
       /\ faults' \in 0..MaxFaults /\ dropped' \subseteq Requests /\ unpaid' \subseteq Bids
       /\ queue' \in Seq(Messages)
  BY <1>2, <1>6, Types DEF ResultsInv, Same, calm
<1>12. QED
  BY <1>1, <1>3, <1>4, <1>5, <1>6, <1>7, <1>8, <1>9, <1>10, <1>11, QuietStep

\* An id of a reconciliation is looked for.
LEMMA FindRequestInv ==
  ASSUME ResultsInv, NEW h \in Handlers, NEW q \in Requests, FindRequest(h, q), Watch
  PROVE  ResultsInv'
<1>1. At(h, "mapping") /\ Same
  BY DEF FindRequest, Same
<1>2. CASE Become(h, [handler[h] EXCEPT !.todo = handler[h].todo \ {q}])
  BY <1>1, <1>2, SkipRequest
<1>3. CASE \E b \in handler[h].free :
         Become(h, [handler[h] EXCEPT !.pc = "updating", !.todo = handler[h].todo \ {q},
                                      !.free = @ \ {b}, !.pair = <<q, b>>])
  BY <1>1, <1>3, TakeRequest
<1>4. QED
  BY <1>2, <1>3 DEF FindRequest

\* The bid of an id is not known.
LEMMA LookInVain ==
  ASSUME ResultsInv, NEW h \in Handlers, NEW q \in Requests, At(h, "looking"), Known(q) = {}, Same, Watch,
         Become(h, [handler[h] EXCEPT !.asked = @ \ {q}])
  PROVE  ResultsInv'
<1> DEFINE w == [handler[h] EXCEPT !.asked = @ \ {q}]
<1>1. /\ handler[h] \in Working /\ handler[h].pc = "looking"
      /\ Fits(handler[h]) /\ AtHand(handler[h], stored) /\ StillSo(handler[h])
  BY AtWork DEF ResultsInv, HandlersFit, VerdictsAtHand, ReadIsStill, At
<1>2. TRUE
  OBVIOUS
<1>3. /\ w \in Working /\ w.pc = "looking" /\ w.msg = handler[h].msg /\ w.asked = handler[h].asked \ {q}
      /\ w.pending = handler[h].pending
  BY <1>1, <1>2 DEF Working
<1>4. Become(h, w)
  OBVIOUS
<1> HIDE DEF w
<1>5. Fits(w)
  BY <1>1, <1>2, <1>3 DEF Fits, Writing, Applying
<1>6. /\ bid' = bid /\ hold' = hold /\ announced' = announced /\ unpaid' = unpaid
      /\ queue' = queue /\ stored' = stored /\ applied' = applied
      /\ dropped' = dropped
  BY DEF Same, calm
<1>7. AtHand(w, stored') /\ StillSo(w)
  BY <1>1, <1>3, <1>5, <1>6, UsingIs DEF AtHand, StillSo, Writing, Applying
<1>8. ASSUME NEW x \in Rows, Left(x)' PROVE Left(x) \/ Carries(w, x)
  BY <1>6, <1>8, LeftFrame DEF Left
<1>9. ASSUME NEW x \in Rows, Left(x)', Queued(x) PROVE Queued(x)' \/ Carries(w, x)
  BY <1>6, <1>9 DEF Queued
<1>10. ASSUME NEW x \in Rows, Left(x)', Carries(handler[h], x) PROVE Carries(w, x)
  <2>1. x.request # q
    BY <1>6, <1>10 DEF Left, Known
  <2>2. QED
    BY <1>1, <1>3, <1>10, <2>1 DEF Carries, Asking, Applying, Writing
<1>11. /\ stored \subseteq stored' /\ stored' \subseteq Rows /\ applied' \subseteq stored'
       /\ delivered' \in [Messages -> Nat] /\ batch' \in {"submitted", "reconciled"}
       /\ faults' \in 0..MaxFaults /\ dropped' \subseteq Requests /\ unpaid' \subseteq Bids
       /\ queue' \in Seq(Messages)
  BY <1>2, <1>6, Types DEF ResultsInv, Same, calm
<1>12. QED
  BY <1>1, <1>3, <1>4, <1>5, <1>6, <1>7, <1>8, <1>9, <1>10, <1>11, QuietStep

\* The verdicts left of an id are taken in hand.
LEMMA LookAndFind ==
  ASSUME ResultsInv, NEW h \in Handlers, NEW q \in Requests, NEW b \in Known(q), At(h, "looking"), Same, Watch,
         Become(h, [handler[h] EXCEPT !.pc = "applying", !.asked = @ \ {q}, !.bid = b,
                      !.pending = {x \in stored \ applied : x.request = q}]),
         q \in handler[h].asked
  PROVE  ResultsInv'
<1> DEFINE left == {x \in stored \ applied : x.request = q}
           w == [handler[h] EXCEPT !.pc = "applying", !.asked = @ \ {q}, !.bid = b, !.pending = left]
<1>1. /\ handler[h] \in Working /\ handler[h].pc = "looking"
      /\ Fits(handler[h]) /\ AtHand(handler[h], stored) /\ StillSo(handler[h])
  BY AtWork DEF ResultsInv, HandlersFit, VerdictsAtHand, ReadIsStill, At
<1>2. b \in Bids /\ bid[b].request = q /\ left \subseteq stored /\ left \subseteq Rows
  BY Types DEF Known, ResultsInv
<1>3. /\ w \in Working /\ w.pc = "applying" /\ w.msg = handler[h].msg /\ w.bid = b
      /\ w.asked = handler[h].asked \ {q} /\ w.pending = left
  BY <1>1, <1>2 DEF Working
<1>4. Become(h, w)
  OBVIOUS
<1> HIDE DEF w
<1>5. Fits(w)
  BY <1>1, <1>2, <1>3 DEF Fits, Writing, Applying
<1>6. /\ bid' = bid /\ hold' = hold /\ announced' = announced /\ unpaid' = unpaid
      /\ queue' = queue /\ stored' = stored /\ applied' = applied
      /\ dropped' = dropped
  BY DEF Same, calm
<1>7. AtHand(w, stored') /\ StillSo(w)
  BY <1>1, <1>3, <1>5, <1>6, UsingIs DEF AtHand, StillSo, Writing, Applying
<1>8. ASSUME NEW x \in Rows, Left(x)' PROVE Left(x) \/ Carries(w, x)
  BY <1>6, <1>8, LeftFrame DEF Left
<1>9. ASSUME NEW x \in Rows, Left(x)', Queued(x) PROVE Queued(x)' \/ Carries(w, x)
  BY <1>6, <1>9 DEF Queued
<1>10. ASSUME NEW x \in Rows, Left(x)', Carries(handler[h], x) PROVE Carries(w, x)
  <2>1. CASE x.request = q
    <3>1. x \in left
      BY <1>6, <1>10, <2>1 DEF Left
    <3>2. QED
      BY <1>2, <1>3, <2>1, <3>1 DEF Carries, Applying
  <2>2. CASE x.request # q
    BY <1>1, <1>3, <1>10, <2>2 DEF Carries, Asking, Applying, Writing
  <2>3. QED
    BY <2>1, <2>2
<1>11. /\ stored \subseteq stored' /\ stored' \subseteq Rows /\ applied' \subseteq stored'
       /\ delivered' \in [Messages -> Nat] /\ batch' \in {"submitted", "reconciled"}
       /\ faults' \in 0..MaxFaults /\ dropped' \subseteq Requests /\ unpaid' \subseteq Bids
       /\ queue' \in Seq(Messages)
  BY <1>2, <1>6, Types DEF ResultsInv, Same, calm
<1>12. QED
  BY <1>1, <1>3, <1>4, <1>5, <1>6, <1>7, <1>8, <1>9, <1>10, <1>11, QuietStep

\* A handler looks for the verdicts of an id it was asked for.
LEMMA LookUpInv ==
  ASSUME ResultsInv, NEW h \in Handlers, NEW q \in Requests, LookUp(h, q), Watch
  PROVE  ResultsInv'
<1>1. At(h, "looking") /\ q \in handler[h].asked /\ Same
  BY DEF LookUp, Same
<1>2. CASE Known(q) = {} /\ Become(h, [handler[h] EXCEPT !.asked = @ \ {q}])
  BY <1>1, <1>2, LookInVain
<1>3. CASE \E b \in Known(q) :
         Become(h, [handler[h] EXCEPT !.pc = "applying", !.asked = @ \ {q}, !.bid = b,
                      !.pending = {x \in stored \ applied : x.request = q}])
  BY <1>1, <1>3, LookAndFind
<1>4. QED
  BY <1>2, <1>3 DEF LookUp

\* A handler that throws leaves what it sought to the next delivery, or drops it.
LEMMA ThrowInv ==
  ASSUME ResultsInv, NEW h \in Handlers, handler[h].pc # "idle", Throw(h), Watch,
         UNCHANGED <<delivered, bid, batch, stored, applied, announced, hold>>,
         faults' \in 0..MaxFaults, unpaid \subseteq unpaid', unpaid' \subseteq Bids,
         handler[h].pc = "paying" => handler[h].bid \in unpaid'
  PROVE  ResultsInv'
<1> DEFINE m == handler[h].msg
<1>1. handler[h] \in Working /\ Fits(handler[h]) /\ m \in Messages
  BY AtWork DEF ResultsInv, HandlersFit, Working
<1>2. /\ Become(h, Idle) /\ dropped' = dropped \cup Drops(h)
      /\ queue' = IF delivered[m] < Deliveries THEN <<m>> \o queue ELSE queue
  BY DEF Throw
<1>3. Idle \in Working \cup {Idle} /\ Idle.pc = "idle"
  BY DEF Idle
<1>4. Fits(Idle)
  BY <1>3 DEF Fits, Applying, Writing
<1>5. AtHand(Idle, stored') /\ StillSo(Idle)
  BY <1>3, <1>4, UsingIs DEF AtHand, StillSo, Applying, Writing
<1>6. Drops(h) \subseteq Requests
  BY <1>1, ResultsAssumption DEF Drops, Working
<1>7. /\ queue \in Seq(Messages) /\ delivered[m] \in Nat /\ Deliveries \in Nat
      /\ <<m>> \o queue \in Seq(Messages)
  BY <1>1, Types, ResultsAssumption DEF ResultsInv
<1>8. ASSUME NEW x \in Rows, Left(x)' PROVE Left(x)
  BY <1>2, <1>8, LeftFrame DEF Left
<1>9. ASSUME NEW x \in Rows, Queued(x) PROVE Queued(x)'
  <2>1. PICK i \in DOMAIN queue : queue[i] \in Callbacks /\ queue[i].request = x.request
    BY <1>9 DEF Queued
  <2>2. CASE queue' = queue
    BY <2>1, <2>2 DEF Queued
  <2>3. CASE queue' = <<m>> \o queue
    <3>1. i + 1 \in DOMAIN (<<m>> \o queue) /\ (<<m>> \o queue)[i + 1] = queue[i]
      BY <1>1, <1>7, <2>1
    <3>2. QED
      BY <2>1, <2>3, <3>1 DEF Queued
  <2>4. QED
    BY <1>2, <2>2, <2>3
<1>10. ASSUME NEW x \in Rows, Left(x)', Carries(handler[h], x) PROVE Queued(x)'
  <2>1. x.request \notin Drops(h)
    BY <1>2, <1>10 DEF Left
  <2>2. CASE m \in Callbacks
    <3>1. m.request = x.request
      BY <1>1, <1>10, <2>2 DEF Carries, Fits, Asking, Applying, Writing
    <3>2. delivered[m] < Deliveries
      BY <1>7, <2>1, <2>2, <3>1 DEF Drops
    <3>3. queue' = <<m>> \o queue
      BY <1>2, <3>2
    <3>4. 1 \in DOMAIN (<<m>> \o queue) /\ (<<m>> \o queue)[1] = m
      BY <1>1, <1>7
    <3>5. QED
      BY <2>2, <3>1, <3>3, <3>4 DEF Queued
  <2>3. CASE m \notin Callbacks
    <3>1. CASE x.request \in handler[h].asked
      BY <2>1, <2>3, <3>1 DEF Drops
    <3>2. CASE /\ handler[h].pc \in Applying /\ bid[handler[h].bid].request = x.request
      <4>1. handler[h].bid # <<>>
        BY <1>1, <3>2, ResultsAssumption DEF Fits
      <4>2. x.request \in Requests
        BY ResultsAssumption DEF Rows, Rejection
      <4>3. QED
        BY <2>1, <2>3, <3>2, <4>1, <4>2 DEF Drops
    <3>3. QED
      BY <1>10, <2>3, <3>1, <3>2 DEF Carries
  <2>4. QED
    BY <2>2, <2>3
<1>11. /\ queue' \in Seq(Messages) /\ delivered' \in [Messages -> Nat]
       /\ batch' \in {"submitted", "reconciled"}
       /\ stored \subseteq stored' /\ stored' \subseteq Rows /\ applied' \subseteq stored'
       /\ dropped' \subseteq Requests
  BY <1>2, <1>6, <1>7, Types DEF ResultsInv
<1>12. QED
  BY <1>2, <1>3, <1>4, <1>5, <1>8, <1>9, <1>10, <1>11, QuietStep

\* The process dies.
LEMMA DieInv ==
  ASSUME ResultsInv, NEW h \in Handlers, Die(h), Watch
  PROVE  ResultsInv'
<1>1. /\ handler[h].pc # "idle" /\ Throw(h)
      /\ UNCHANGED <<delivered, bid, batch, stored, applied, announced, hold>>
      /\ faults < MaxFaults /\ faults' = faults + 1
      /\ unpaid' = IF handler[h].pc = "paying" THEN unpaid \cup {handler[h].bid} ELSE unpaid
  BY DEF Die, Fault, At
<1>2. faults' \in 0..MaxFaults
  BY <1>1, Types, ResultsAssumption DEF ResultsInv
<1>3. handler[h].pc = "paying" => handler[h].bid \in Bids
  BY DEF ResultsInv, HandlersFit, Fits, Applying, Writing
<1>4. unpaid \subseteq unpaid' /\ unpaid' \subseteq Bids
  BY <1>1, <1>3, Types DEF ResultsInv
<1>5. QED
  BY <1>1, <1>2, <1>4, ThrowInv

\* A handler that writes a bid it has read disturbs no other, unless the bid is raced.
LEMMA LoudFrame ==
  ASSUME ResultsInv, NEW h \in Handlers, NEW b \in Bids, b \in Using(handler[h]), Watch,
         \A g \in Handlers : g # h => handler'[g] = handler[g],
         \A c \in Bids : c # b => bid'[c] = bid[c] /\ hold'[c] = hold[c],
         unpaid' = unpaid, stored' = stored,
         NEW g \in Handlers, g # h
  PROVE  /\ Fits(handler'[g]) /\ AtHand(handler'[g], stored')
         /\ StillSo(handler[g])' /\ DueTo(handler[g])'
<1>1. raced \subseteq raced'
  BY WatchFacts DEF ResultsInv
<1>2. b \in Using(handler[g]) => b \in raced
  BY DEF ResultsInv, SharedAreRaced
<1>3. Fits(handler[g]) /\ AtHand(handler[g], stored) /\ StillSo(handler[g]) /\ DueTo(handler[g])
  BY DEF ResultsInv, HandlersFit, VerdictsAtHand, ReadIsStill, PayingIsDue
<1>4. handler[g].pc = "paying" => handler[g].bid \in Bids /\ Using(handler[g]) = {handler[g].bid}
  BY <1>3, UsingIs DEF Fits, Applying, Writing
<1>5. \A c \in Bids : c \in Using(handler[g]) /\ c \notin raced' =>
        c \notin raced /\ bid'[c] = bid[c] /\ hold'[c] = hold[c]
  BY <1>1, <1>2
<1>6. StillSo(handler[g])'
  BY <1>3, <1>5 DEF StillSo
<1>7. DueTo(handler[g])'
  BY <1>3, <1>4, <1>5 DEF DueTo
<1>8. QED
  BY <1>3, <1>6, <1>7 DEF AtHand

\* What nobody writes stays paid for, or is still to be paid by whoever was to.
LEMMA PaidFrame ==
  ASSUME ResultsInv, NEW h \in Handlers, Watch,
         \A g \in Handlers : g # h => handler'[g] = handler[g],
         NEW c \in Bids, bid'[c].status = bid[c].status, bid'[c].held = bid[c].held,
         hold'[c] = hold[c], unpaid' = unpaid, announced'[c] = announced[c],
         ~(handler[h].pc = "paying" /\ handler[h].bid = c)
  PROVE  /\ c \notin unpaid' /\ c \notin raced' =>
              /\ bid'[c].status \notin FINAL => bid'[c].held = Held /\ hold'[c] = Held
              /\ bid'[c].status \in FINAL =>
                   PaidFor(c)' \/ \E g \in Handlers : At(g, "paying")' /\ handler'[g].bid = c
         /\ c \notin raced' =>
              announced'[c] = 0 \/ (announced'[c] = 1 /\ bid'[c].status \in FINAL)
<1>1. raced \subseteq raced'
  BY WatchFacts DEF ResultsInv
<1>2. /\ c \notin unpaid /\ c \notin raced =>
           /\ bid[c].status \notin FINAL => bid[c].held = Held /\ hold[c] = Held
           /\ bid[c].status \in FINAL =>
                PaidFor(c) \/ \E g \in Handlers : At(g, "paying") /\ handler[g].bid = c
      /\ c \notin raced => announced[c] = 0 \/ (announced[c] = 1 /\ bid[c].status \in FINAL)
  BY DEF ResultsInv, PaidOrDue, AnnouncedAsDecided
<1>3. PaidFor(c) => PaidFor(c)'
  BY DEF PaidFor
<1>4. ASSUME NEW g \in Handlers, At(g, "paying"), handler[g].bid = c
      PROVE  At(g, "paying")' /\ handler'[g].bid = c
  BY <1>4 DEF At
<1>5. QED
  BY <1>1, <1>2, <1>3, <1>4

\* An id is written on the bid that was taken for it.
LEMMA MapRequestInv ==
  ASSUME ResultsInv, NEW h \in Handlers, MapRequest(h), Watch
  PROVE  ResultsInv'
<1> PICK q : q = handler[h].pair[1]
  OBVIOUS
<1> PICK b : b = handler[h].pair[2]
  OBVIOUS
<1> PICK w : w = [handler[h] EXCEPT !.pc = "mapping", !.pair = <<>>, !.asked = @ \cup {q}]
  OBVIOUS
<1>1. /\ handler[h] \in Working /\ handler[h].pc = "updating"
      /\ Fits(handler[h]) /\ AtHand(handler[h], stored) /\ StillSo(handler[h])
  BY AtWork DEF ResultsInv, HandlersFit, VerdictsAtHand, ReadIsStill, MapRequest, At
<1>2. q \in Requests /\ b \in Bids /\ b \notin handler[h].free
  BY <1>1 DEF Fits
<1>3. /\ w \in Working /\ w.pc = "mapping" /\ w.msg = handler[h].msg /\ w.pair = <<>>
      /\ w.asked = handler[h].asked \cup {q} /\ w.free = handler[h].free
      /\ w.pending = handler[h].pending
  BY <1>1, <1>2 DEF Working
<1>4. Using(handler[h]) = handler[h].free \cup {b} /\ b \in Using(handler[h])
  BY <1>1, UsingIs
<1>5. CASE Throw(h) /\ UNCHANGED bid
  <2>1. /\ UNCHANGED <<delivered, bid, batch, stored, applied, announced, hold>>
        /\ faults' \in 0..MaxFaults /\ unpaid' = unpaid /\ unpaid' \subseteq Bids
    BY <1>5, Types DEF ResultsInv, MapRequest
  <2>2. QED
    BY <1>1, <1>5, <2>1, ThrowInv
<1>6. CASE /\ Known(q) \subseteq {b} /\ bid' = [bid EXCEPT ![b].request = q]
           /\ Become(h, w) /\ UNCHANGED <<queue, dropped>>
  <2>1. /\ handler' \in [Handlers -> Working \cup {Idle}] /\ handler'[h] = w
        /\ \A g \in Handlers : g # h => handler'[g] = handler[g]
    BY <1>3, <1>6, BecomeFacts DEF ResultsInv
  <2>2. /\ delivered' = delivered /\ batch' = batch /\ stored' = stored /\ applied' = applied
        /\ announced' = announced /\ hold' = hold /\ faults' = faults /\ unpaid' = unpaid
        /\ queue' = queue /\ dropped' = dropped
    BY <1>6 DEF MapRequest
  <2>3. /\ \A c \in Bids : c # b => bid'[c] = bid[c]
        /\ bid'[b].request = q /\ bid'[b].status = bid[b].status /\ bid'[b].held = bid[b].held
        /\ bid' \in [Bids -> [status: {"submitted", "accepted"} \cup FINAL,
                              request: Requests \cup {NoReq}, held: Amounts]]
    <3>1. bid \in [Bids -> [status: {"submitted", "accepted"} \cup FINAL,
                            request: Requests \cup {NoReq}, held: Amounts]]
      BY Types DEF ResultsInv
    <3>2. bid' = [bid EXCEPT ![b] = [bid[b] EXCEPT !.request = q]]
      BY <1>6
    <3>3. QED
      BY <1>2, <3>1, <3>2
  <2>4. raced \subseteq raced' /\ raced' \subseteq Bids /\ SharedAreRaced'
    BY WatchFacts DEF ResultsInv
  <2>5. ResultsTypeOK'
    BY <2>1, <2>2, <2>3, <2>4 DEF ResultsInv, ResultsTypeOK, Working, Messages, Rows, Amounts,
         Rejection, Idle, FINAL
  <2>6. Fits(w)
    BY <1>1, <1>3 DEF Fits, Applying, Writing
  <2>7. AtHand(w, stored') /\ DueTo(w)'
    BY <1>3 DEF AtHand, DueTo, Applying, Writing
  <2>8. StillSo(w)'
    <3>1. Using(w) = handler[h].free
      BY <1>3, <2>6, UsingIs
    <3>2. \A c \in Bids : c \in handler[h].free /\ c \notin raced => bid'[c].request = NoReq
      BY <1>1, <1>2, <1>4, <2>3 DEF StillSo
    <3>3. QED
      BY <1>3, <2>4, <3>1, <3>2 DEF StillSo
  <2>9. ASSUME NEW g \in Handlers, g # h
        PROVE  Fits(handler'[g]) /\ AtHand(handler'[g], stored') /\ StillSo(handler[g])' /\ DueTo(handler[g])'
    BY <1>2, <1>4, <2>1, <2>2, <2>3, <2>9, LoudFrame
  <2>10. HandlersFit' /\ VerdictsAtHand' /\ ReadIsStill' /\ PayingIsDue'
    BY <2>1, <2>6, <2>7, <2>8, <2>9 DEF HandlersFit, VerdictsAtHand, ReadIsStill, PayingIsDue
  <2>11. IdsDiffer'
    BY <1>6, <2>3 DEF ResultsInv, IdsDiffer, Known
  <2>12. PaidOrDue' /\ AnnouncedAsDecided'
    BY <1>1, <2>1, <2>2, <2>3, PaidFrame DEF PaidOrDue, AnnouncedAsDecided
  <2>13. LeftAreSought'
    <3> SUFFICES ASSUME NEW x \in Rows, Left(x)'
                 PROVE  Queued(x)' \/ \E g \in Handlers : Carries(handler[g], x)'
      BY DEF LeftAreSought, Rows
    <3>1. CASE x.request = q
      BY <1>3, <2>1, <3>1 DEF Carries, Asking
    <3>2. CASE x.request # q
      <4>1. PICK c \in Bids : c # b /\ bid[c].request = x.request
        BY <2>3, <3>2 DEF Left, Known
      <4>2. Left(x)
        BY <2>2, <4>1 DEF Left, Known
      <4>3. x.request \in Requests /\ x.request # NoReq
        BY ResultsAssumption DEF Rows, Rejection
      <4>4. bid[b].request # x.request
        BY <1>2, <4>1, <4>3 DEF ResultsInv, IdsDiffer
      <4>5. ASSUME NEW g \in Handlers, g # h, Carries(handler[g], x) PROVE Carries(handler[g], x)'
        <5>1. handler[g].pc \in Applying => handler[g].bid \in Bids
          BY DEF ResultsInv, HandlersFit, Fits
        <5>2. QED
          BY <2>1, <2>3, <4>4, <4>5, <5>1 DEF Carries
      <4>6. Carries(handler[h], x) => Carries(handler[h], x)'
        BY <1>1, <1>3, <2>1 DEF Carries, Asking, Applying, Writing
      <4>7. Queued(x) => Queued(x)'
        BY <2>2 DEF Queued
      <4>8. QED
        BY <4>2, <4>5, <4>6, <4>7 DEF ResultsInv, LeftAreSought
    <3>3. QED
      BY <3>1, <3>2
  <2>14. QED
    BY <2>4, <2>5, <2>10, <2>11, <2>12, <2>13 DEF ResultsInv
<1>7. QED
  BY <1>5, <1>6 DEF MapRequest

\* A bid that is accepted was not final, unless it is raced.
LEMMA AcceptInv ==
  ASSUME ResultsInv, NEW h \in Handlers, Accept(h), Watch
  PROVE  ResultsInv'
<1> PICK b : b = handler[h].bid
  OBVIOUS
<1> PICK y : y = handler[h].row
  OBVIOUS
<1> PICK w : w = [handler[h] EXCEPT !.pc = "marking"]
  OBVIOUS
<1>1. /\ handler[h] \in Working /\ handler[h].pc = "accepting"
      /\ Fits(handler[h]) /\ AtHand(handler[h], stored) /\ StillSo(handler[h]) /\ DueTo(handler[h])
  BY AtWork DEF ResultsInv, HandlersFit, VerdictsAtHand, ReadIsStill, PayingIsDue, Accept, At
<1>2. /\ b \in Bids /\ y \in Rows /\ b \in Using(handler[h])
      /\ y.outcome \in {"accepted"} \cup FINAL /\ y.keeps \in Amounts
  BY <1>1, UsingIs, ResultsAssumption DEF Fits, Applying, Writing, Rows, Rejection, FINAL, Amounts
<1>3. /\ w \in Working /\ w.pc = "marking" /\ w.msg = handler[h].msg /\ w.bid = b /\ w.row = y
      /\ w.asked = handler[h].asked /\ w.pending = handler[h].pending /\ w.was = handler[h].was
  BY <1>1 DEF Working
<1>4. Become(h, w)
  BY DEF Accept, Goto
<1>5. /\ handler' \in [Handlers -> Working \cup {Idle}] /\ handler'[h] = w
      /\ \A g \in Handlers : g # h => handler'[g] = handler[g]
  BY <1>3, <1>4, BecomeFacts DEF ResultsInv
<1>6. /\ delivered' = delivered /\ batch' = batch /\ stored' = stored /\ applied' = applied
      /\ faults' = faults /\ unpaid' = unpaid /\ queue' = queue /\ dropped' = dropped
  BY DEF Accept, calm
<1>7. /\ bid'[b].status = "accepted" /\ bid'[b].held = bid[b].held
      /\ hold'[b] = hold[b] /\ announced'[b] = announced[b]
      /\ \A c \in Bids : bid'[c].request = bid[c].request
      /\ \A c \in Bids : c # b => bid'[c] = bid[c] /\ hold'[c] = hold[c] /\ announced'[c] = announced[c]
      /\ bid' \in [Bids -> [status: {"submitted", "accepted"} \cup FINAL,
                            request: Requests \cup {NoReq}, held: Amounts]]
      /\ hold' \in [Bids -> Amounts] /\ announced' \in [Bids -> Nat]
  BY <1>2, Types DEF ResultsInv, Accept
<1>8. raced \subseteq raced' /\ raced' \subseteq Bids /\ SharedAreRaced'
  BY WatchFacts DEF ResultsInv
<1>9. ResultsTypeOK'
  BY <1>5, <1>6, <1>7, <1>8 DEF ResultsInv, ResultsTypeOK, Working, Messages, Rows, Amounts,
       Rejection, Idle, FINAL
<1>10. Fits(w)
  BY <1>1, <1>3 DEF Fits, Applying, Writing
<1>11. AtHand(w, stored')
  BY <1>1, <1>3, <1>6 DEF AtHand, Applying, Writing
<1>12. StillSo(w)'
  BY <1>3, <1>10, UsingIs DEF StillSo
<1>13. DueTo(w)'
  BY <1>3 DEF DueTo
<1>14. ASSUME NEW g \in Handlers, g # h
       PROVE  Fits(handler'[g]) /\ AtHand(handler'[g], stored') /\ StillSo(handler[g])' /\ DueTo(handler[g])'
  BY <1>2, <1>5, <1>6, <1>7, <1>14, LoudFrame
<1>15. HandlersFit' /\ VerdictsAtHand' /\ ReadIsStill' /\ PayingIsDue'
  BY <1>5, <1>10, <1>11, <1>12, <1>13, <1>14 DEF HandlersFit, VerdictsAtHand, ReadIsStill, PayingIsDue
<1>16. IdsDiffer'
  BY <1>7 DEF ResultsInv, IdsDiffer
<1>17. PaidOrDue' /\ AnnouncedAsDecided'
  <2>1. ASSUME NEW c \in Bids, c # b
        PROVE  /\ c \notin unpaid' /\ c \notin raced' =>
                    /\ bid'[c].status \notin FINAL => bid'[c].held = Held /\ hold'[c] = Held
                    /\ bid'[c].status \in FINAL =>
                         PaidFor(c)' \/ \E g \in Handlers : At(g, "paying")' /\ handler'[g].bid = c
               /\ c \notin raced' =>
                    announced'[c] = 0 \/ (announced'[c] = 1 /\ bid'[c].status \in FINAL)
    <3>1. ~(handler[h].pc = "paying" /\ handler[h].bid = c)
      BY <2>1
    <3>2. QED
      BY <1>5, <1>6, <1>7, <2>1, <3>1, PaidFrame
  <2>2. /\ b \notin unpaid' /\ b \notin raced' =>
             /\ bid'[b].status \notin FINAL => bid'[b].held = Held /\ hold'[b] = Held
             /\ bid'[b].status \in FINAL =>
                  PaidFor(b)' \/ \E g \in Handlers : At(g, "paying")' /\ handler'[g].bid = b
        /\ b \notin raced' =>
             announced'[b] = 0 \/ (announced'[b] = 1 /\ bid'[b].status \in FINAL)
    <3>1. b \notin raced => bid[b].status \notin FINAL
      BY <1>1, <1>2 DEF StillSo
    <3>2. /\ b \notin unpaid /\ b \notin raced => bid[b].held = Held /\ hold[b] = Held
          /\ b \notin raced => announced[b] = 0
      BY <1>2, <3>1 DEF ResultsInv, PaidOrDue, AnnouncedAsDecided
    <3>3. QED
      BY <1>6, <1>7, <1>8, <3>2 DEF FINAL
  <2>3. QED
    BY <2>1, <2>2 DEF PaidOrDue, AnnouncedAsDecided
<1>18. LeftAreSought'
  <2>1. ASSUME NEW x \in Rows, Left(x)' PROVE Left(x)
    BY <1>6, <1>7, <2>1, LeftFrame DEF Left
  <2>2. ASSUME NEW x \in Rows, Queued(x) PROVE Queued(x)'
    BY <1>6, <2>2 DEF Queued
  <2>3. ASSUME NEW x \in Rows, Carries(handler[h], x) PROVE Carries(w, x)
    BY <1>1, <1>3, <2>3 DEF Carries, Asking, Applying, Writing
  <2>4. QED
    BY <1>5, <1>7, <1>10, <2>1, <2>2, <2>3, SoughtFrame
<1>19. QED
  BY <1>8, <1>9, <1>15, <1>16, <1>17, <1>18 DEF ResultsInv

\* A bid that is decided was not final, unless it is raced, and its handler pays for it.
LEMMA DecideInv ==
  ASSUME ResultsInv, NEW h \in Handlers, Decide(h), Watch
  PROVE  ResultsInv'
<1> PICK b : b = handler[h].bid
  OBVIOUS
<1> PICK y : y = handler[h].row
  OBVIOUS
<1> PICK w : w = [handler[h] EXCEPT !.pc = "paying"]
  OBVIOUS
<1>1. /\ handler[h] \in Working /\ handler[h].pc = "deciding"
      /\ Fits(handler[h]) /\ AtHand(handler[h], stored) /\ StillSo(handler[h]) /\ DueTo(handler[h])
  BY AtWork DEF ResultsInv, HandlersFit, VerdictsAtHand, ReadIsStill, PayingIsDue, Decide, At
<1>2. /\ b \in Bids /\ y \in Rows /\ b \in Using(handler[h])
      /\ y.outcome \in {"accepted"} \cup FINAL /\ y.keeps \in Amounts
  BY <1>1, UsingIs, ResultsAssumption DEF Fits, Applying, Writing, Rows, Rejection, FINAL, Amounts
<1>3. /\ w \in Working /\ w.pc = "paying" /\ w.msg = handler[h].msg /\ w.bid = b /\ w.row = y
      /\ w.asked = handler[h].asked /\ w.pending = handler[h].pending /\ w.was = handler[h].was
  BY <1>1 DEF Working
<1>4. Become(h, w)
  BY DEF Decide, Goto
<1>5. /\ handler' \in [Handlers -> Working \cup {Idle}] /\ handler'[h] = w
      /\ \A g \in Handlers : g # h => handler'[g] = handler[g]
  BY <1>3, <1>4, BecomeFacts DEF ResultsInv
<1>6. /\ delivered' = delivered /\ batch' = batch /\ stored' = stored /\ applied' = applied
      /\ faults' = faults /\ unpaid' = unpaid /\ queue' = queue /\ dropped' = dropped
  BY DEF Decide, calm
<1>7. /\ bid'[b].status = y.outcome /\ bid'[b].held = (IF y.outcome = "allotted" THEN y.keeps ELSE bid[b].held)
      /\ hold'[b] = hold[b] /\ announced'[b] = announced[b] + 1
      /\ \A c \in Bids : bid'[c].request = bid[c].request
      /\ \A c \in Bids : c # b => bid'[c] = bid[c] /\ hold'[c] = hold[c] /\ announced'[c] = announced[c]
      /\ bid' \in [Bids -> [status: {"submitted", "accepted"} \cup FINAL,
                            request: Requests \cup {NoReq}, held: Amounts]]
      /\ hold' \in [Bids -> Amounts] /\ announced' \in [Bids -> Nat]
  <2>1. y.outcome \in FINAL
    BY <1>1, <1>2 DEF Fits
  <2>2. /\ bid \in [Bids -> [status: {"submitted", "accepted"} \cup FINAL,
                             request: Requests \cup {NoReq}, held: Amounts]]
        /\ announced \in [Bids -> Nat] /\ hold \in [Bids -> Amounts]
    BY Types DEF ResultsInv
  <2> DEFINE new == [bid[b] EXCEPT !.status = y.outcome,
                       !.held = IF y.outcome = "allotted" THEN y.keeps ELSE bid[b].held]
  <2>3. bid' = [bid EXCEPT ![b] = new]
    BY <1>2, <2>2 DEF Decide
  <2>4. announced' = [announced EXCEPT ![b] = announced[b] + 1] /\ hold' = hold
    BY <1>2, <2>2 DEF Decide
  <2>5. /\ new \in [status: {"submitted", "accepted"} \cup FINAL,
                    request: Requests \cup {NoReq}, held: Amounts]
        /\ new.status = y.outcome /\ new.request = bid[b].request
        /\ new.held = IF y.outcome = "allotted" THEN y.keeps ELSE bid[b].held
    BY <1>2, <2>1, <2>2
  <2> HIDE DEF new
  <2>6. /\ bid' \in [Bids -> [status: {"submitted", "accepted"} \cup FINAL,
                              request: Requests \cup {NoReq}, held: Amounts]]
        /\ bid'[b] = new /\ \A c \in Bids : c # b => bid'[c] = bid[c]
    BY <1>2, <2>2, <2>3, <2>5
  <2>7. /\ announced' \in [Bids -> Nat] /\ announced'[b] = announced[b] + 1
        /\ \A c \in Bids : c # b => announced'[c] = announced[c]
    BY <1>2, <2>2, <2>4
  <2>8. QED
    BY <2>2, <2>4, <2>5, <2>6, <2>7
<1>8. raced \subseteq raced' /\ raced' \subseteq Bids /\ SharedAreRaced'
  BY WatchFacts DEF ResultsInv
<1>9. ResultsTypeOK'
  BY <1>5, <1>6, <1>7, <1>8 DEF ResultsInv, ResultsTypeOK, Working, Messages, Rows, Amounts,
       Rejection, Idle, FINAL
<1>10. Fits(w)
  BY <1>1, <1>3 DEF Fits, Applying, Writing
<1>11. AtHand(w, stored')
  BY <1>1, <1>3, <1>6 DEF AtHand, Applying, Writing
<1>12. StillSo(w)'
  BY <1>3 DEF StillSo
<1>13. DueTo(w)'
  <2>1. b \notin raced => bid[b].status \notin FINAL /\ handler[h].was = bid[b].held
    BY <1>1, <1>2 DEF StillSo
  <2>2. b \notin unpaid /\ b \notin raced => bid[b].held = Held /\ hold[b] = Held
    BY <1>2, <2>1 DEF ResultsInv, PaidOrDue
  <2>3. QED
    BY <1>3, <1>6, <1>7, <1>8, <2>1, <2>2 DEF DueTo
<1>14. ASSUME NEW g \in Handlers, g # h
       PROVE  Fits(handler'[g]) /\ AtHand(handler'[g], stored') /\ StillSo(handler[g])' /\ DueTo(handler[g])'
  BY <1>2, <1>5, <1>6, <1>7, <1>14, LoudFrame
<1>15. HandlersFit' /\ VerdictsAtHand' /\ ReadIsStill' /\ PayingIsDue'
  BY <1>5, <1>10, <1>11, <1>12, <1>13, <1>14 DEF HandlersFit, VerdictsAtHand, ReadIsStill, PayingIsDue
<1>16. IdsDiffer'
  BY <1>7 DEF ResultsInv, IdsDiffer
<1>17. PaidOrDue' /\ AnnouncedAsDecided'
  <2>1. ASSUME NEW c \in Bids, c # b
        PROVE  /\ c \notin unpaid' /\ c \notin raced' =>
                    /\ bid'[c].status \notin FINAL => bid'[c].held = Held /\ hold'[c] = Held
                    /\ bid'[c].status \in FINAL =>
                         PaidFor(c)' \/ \E g \in Handlers : At(g, "paying")' /\ handler'[g].bid = c
               /\ c \notin raced' =>
                    announced'[c] = 0 \/ (announced'[c] = 1 /\ bid'[c].status \in FINAL)
    <3>1. ~(handler[h].pc = "paying" /\ handler[h].bid = c)
      BY <2>1
    <3>2. QED
      BY <1>5, <1>6, <1>7, <2>1, <3>1, PaidFrame
  <2>2. /\ b \notin unpaid' /\ b \notin raced' =>
             /\ bid'[b].status \notin FINAL => bid'[b].held = Held /\ hold'[b] = Held
             /\ bid'[b].status \in FINAL =>
                  PaidFor(b)' \/ \E g \in Handlers : At(g, "paying")' /\ handler'[g].bid = b
        /\ b \notin raced' =>
             announced'[b] = 0 \/ (announced'[b] = 1 /\ bid'[b].status \in FINAL)
    <3>1. b \notin raced => bid[b].status \notin FINAL
      BY <1>1, <1>2 DEF StillSo
    <3>2. /\ b \notin unpaid /\ b \notin raced => bid[b].held = Held /\ hold[b] = Held
          /\ b \notin raced => announced[b] = 0
      BY <1>2, <3>1 DEF ResultsInv, PaidOrDue, AnnouncedAsDecided
    <3>3. At(h, "paying")' /\ handler'[h].bid = b
      BY <1>3, <1>5 DEF At
    <3>4. bid'[b].status \in FINAL
      BY <1>1, <1>2, <1>7 DEF Fits
    <3>5. QED
      BY <1>6, <1>7, <1>8, <3>2, <3>3, <3>4
  <2>3. QED
    BY <2>1, <2>2 DEF PaidOrDue, AnnouncedAsDecided
<1>18. LeftAreSought'
  <2>1. ASSUME NEW x \in Rows, Left(x)' PROVE Left(x)
    BY <1>6, <1>7, <2>1, LeftFrame DEF Left
  <2>2. ASSUME NEW x \in Rows, Queued(x) PROVE Queued(x)'
    BY <1>6, <2>2 DEF Queued
  <2>3. ASSUME NEW x \in Rows, Carries(handler[h], x) PROVE Carries(w, x)
    BY <1>1, <1>3, <2>3 DEF Carries, Asking, Applying, Writing
  <2>4. QED
    BY <1>5, <1>7, <1>10, <2>1, <2>2, <2>3, SoughtFrame
<1>19. QED
  BY <1>8, <1>9, <1>15, <1>16, <1>17, <1>18 DEF ResultsInv

\* A call that goes well leaves what is owed.
LEMMA PaidInv ==
  ASSUME ResultsInv, NEW h \in Handlers, Pay(h), Watch, UNCHANGED <<faults, unpaid>>,
         hold' = [hold EXCEPT ![handler[h].bid] =
                    IF handler[h].row.outcome # "allotted" THEN 0
                    ELSE IF handler[h].row.keeps < handler[h].was /\ @ # 0
                         THEN handler[h].row.keeps ELSE @]
  PROVE  ResultsInv'
<1> PICK b : b = handler[h].bid
  OBVIOUS
<1> PICK y : y = handler[h].row
  OBVIOUS
<1> PICK w : w = [handler[h] EXCEPT !.pc = "marking"]
  OBVIOUS
<1>1. /\ handler[h] \in Working /\ handler[h].pc = "paying"
      /\ Fits(handler[h]) /\ AtHand(handler[h], stored) /\ StillSo(handler[h]) /\ DueTo(handler[h])
  BY AtWork DEF ResultsInv, HandlersFit, VerdictsAtHand, ReadIsStill, PayingIsDue, Pay, At
<1>2. /\ b \in Bids /\ y \in Rows /\ b \in Using(handler[h])
      /\ y.outcome \in {"accepted"} \cup FINAL /\ y.keeps \in Amounts
  BY <1>1, UsingIs, ResultsAssumption DEF Fits, Applying, Writing, Rows, Rejection, FINAL, Amounts
<1>3. /\ w \in Working /\ w.pc = "marking" /\ w.msg = handler[h].msg /\ w.bid = b /\ w.row = y
      /\ w.asked = handler[h].asked /\ w.pending = handler[h].pending /\ w.was = handler[h].was
  BY <1>1 DEF Working
<1>4. Become(h, w)
  BY DEF Pay, Goto
<1>5. /\ handler' \in [Handlers -> Working \cup {Idle}] /\ handler'[h] = w
      /\ \A g \in Handlers : g # h => handler'[g] = handler[g]
  BY <1>3, <1>4, BecomeFacts DEF ResultsInv
<1>6. /\ delivered' = delivered /\ batch' = batch /\ stored' = stored /\ applied' = applied
      /\ faults' = faults /\ unpaid' = unpaid /\ queue' = queue /\ dropped' = dropped
  BY DEF Pay, calm
<1>7. /\ bid'[b] = bid[b] /\ announced'[b] = announced[b]
      /\ hold'[b] = (IF y.outcome # "allotted" THEN 0
                    ELSE IF y.keeps < handler[h].was /\ hold[b] # 0 THEN y.keeps ELSE hold[b])
      /\ \A c \in Bids : bid'[c].request = bid[c].request
      /\ \A c \in Bids : c # b => bid'[c] = bid[c] /\ hold'[c] = hold[c] /\ announced'[c] = announced[c]
      /\ bid' \in [Bids -> [status: {"submitted", "accepted"} \cup FINAL,
                            request: Requests \cup {NoReq}, held: Amounts]]
      /\ hold' \in [Bids -> Amounts] /\ announced' \in [Bids -> Nat]
  BY <1>2, Types DEF ResultsInv, Pay, Amounts
<1>8. raced \subseteq raced' /\ raced' \subseteq Bids /\ SharedAreRaced'
  BY WatchFacts DEF ResultsInv
<1>9. ResultsTypeOK'
  BY <1>5, <1>6, <1>7, <1>8 DEF ResultsInv, ResultsTypeOK, Working, Messages, Rows, Amounts,
       Rejection, Idle, FINAL
<1>10. Fits(w)
  BY <1>1, <1>3 DEF Fits, Applying, Writing
<1>11. AtHand(w, stored')
  BY <1>1, <1>3, <1>6 DEF AtHand, Applying, Writing
<1>12. StillSo(w)'
  BY <1>3, <1>10, UsingIs DEF StillSo
<1>13. DueTo(w)'
  BY <1>3 DEF DueTo
<1>14. ASSUME NEW g \in Handlers, g # h
       PROVE  Fits(handler'[g]) /\ AtHand(handler'[g], stored') /\ StillSo(handler[g])' /\ DueTo(handler[g])'
  BY <1>2, <1>5, <1>6, <1>7, <1>14, LoudFrame
<1>15. HandlersFit' /\ VerdictsAtHand' /\ ReadIsStill' /\ PayingIsDue'
  BY <1>5, <1>10, <1>11, <1>12, <1>13, <1>14 DEF HandlersFit, VerdictsAtHand, ReadIsStill, PayingIsDue
<1>16. IdsDiffer'
  BY <1>7 DEF ResultsInv, IdsDiffer
<1>17. PaidOrDue' /\ AnnouncedAsDecided'
  <2>1. ASSUME NEW c \in Bids, c # b
        PROVE  /\ c \notin unpaid' /\ c \notin raced' =>
                    /\ bid'[c].status \notin FINAL => bid'[c].held = Held /\ hold'[c] = Held
                    /\ bid'[c].status \in FINAL =>
                         PaidFor(c)' \/ \E g \in Handlers : At(g, "paying")' /\ handler'[g].bid = c
               /\ c \notin raced' =>
                    announced'[c] = 0 \/ (announced'[c] = 1 /\ bid'[c].status \in FINAL)
    <3>1. ~(handler[h].pc = "paying" /\ handler[h].bid = c)
      BY <2>1
    <3>2. QED
      BY <1>5, <1>6, <1>7, <2>1, <3>1, PaidFrame
  <2>2. /\ b \notin unpaid' /\ b \notin raced' =>
             /\ bid'[b].status \notin FINAL => bid'[b].held = Held /\ hold'[b] = Held
             /\ bid'[b].status \in FINAL =>
                  PaidFor(b)' \/ \E g \in Handlers : At(g, "paying")' /\ handler'[g].bid = b
        /\ b \notin raced' =>
             announced'[b] = 0 \/ (announced'[b] = 1 /\ bid'[b].status \in FINAL)
    <3>1. /\ b \notin unpaid /\ b \notin raced =>
               /\ bid[b].status = y.outcome /\ handler[h].was = Held /\ hold[b] = Held
               /\ y.outcome = "allotted" => bid[b].held = y.keeps
      BY <1>1, <1>2 DEF DueTo
    <3>2. y.outcome \in FINAL
      BY <1>1, <1>2 DEF Fits
    <3>3. Held # 0
      BY ResultsAssumption
    <3>4. b \notin unpaid /\ b \notin raced => bid[b].status \in FINAL /\ PaidFor(b)'
      BY <1>7, <3>1, <3>2, <3>3 DEF PaidFor
    <3>5. b \notin raced => announced[b] = 0 \/ (announced[b] = 1 /\ bid[b].status \in FINAL)
      BY <1>2 DEF ResultsInv, AnnouncedAsDecided
    <3>6. QED
      BY <1>6, <1>7, <1>8, <3>4, <3>5
  <2>3. QED
    BY <2>1, <2>2 DEF PaidOrDue, AnnouncedAsDecided
<1>18. LeftAreSought'
  <2>1. ASSUME NEW x \in Rows, Left(x)' PROVE Left(x)
    BY <1>6, <1>7, <2>1, LeftFrame DEF Left
  <2>2. ASSUME NEW x \in Rows, Queued(x) PROVE Queued(x)'
    BY <1>6, <2>2 DEF Queued
  <2>3. ASSUME NEW x \in Rows, Carries(handler[h], x) PROVE Carries(w, x)
    BY <1>1, <1>3, <2>3 DEF Carries, Asking, Applying, Writing
  <2>4. QED
    BY <1>5, <1>7, <1>10, <2>1, <2>2, <2>3, SoughtFrame
<1>19. QED
  BY <1>8, <1>9, <1>15, <1>16, <1>17, <1>18 DEF ResultsInv

\* The call that pays goes well, or fails and is forgotten.
LEMMA PayInv ==
  ASSUME ResultsInv, NEW h \in Handlers, Pay(h), Watch
  PROVE  ResultsInv'
<1> PICK b : b = handler[h].bid
  OBVIOUS
<1> PICK w : w = [handler[h] EXCEPT !.pc = "marking"]
  OBVIOUS
<1>1. /\ handler[h] \in Working /\ handler[h].pc = "paying"
      /\ Fits(handler[h]) /\ AtHand(handler[h], stored) /\ StillSo(handler[h])
  BY AtWork DEF ResultsInv, HandlersFit, VerdictsAtHand, ReadIsStill, Pay, At
<1>2. b \in Bids
  BY <1>1 DEF Fits, Applying, Writing
<1>3. /\ w \in Working /\ w.pc = "marking" /\ w.msg = handler[h].msg /\ w.bid = b
      /\ w.row = handler[h].row /\ w.asked = handler[h].asked /\ w.pending = handler[h].pending
  BY <1>1 DEF Working
<1>4. CASE Fault /\ UNCHANGED hold /\ unpaid' = unpaid \cup {b}
  <2>1. Become(h, w)
    BY DEF Pay, Goto
  <2>2. Fits(w)
    BY <1>1, <1>3 DEF Fits, Applying, Writing
  <2>3. /\ bid' = bid /\ hold' = hold /\ announced' = announced /\ queue' = queue
        /\ stored' = stored /\ applied' = applied /\ dropped' = dropped
        /\ delivered' = delivered /\ batch' = batch
    BY <1>4 DEF Pay
  <2>4. AtHand(w, stored') /\ StillSo(w)
    BY <1>1, <1>3, <2>2, <2>3, UsingIs DEF AtHand, StillSo, Applying, Writing
  <2>5. faults' \in 0..MaxFaults
    BY <1>4, Types, ResultsAssumption DEF ResultsInv, Fault
  <2>6. ASSUME NEW x \in Rows, Left(x)' PROVE Left(x)
    BY <2>3, <2>6, LeftFrame DEF Left
  <2>7. ASSUME NEW x \in Rows, Queued(x) PROVE Queued(x)'
    BY <2>3, <2>7 DEF Queued
  <2>8. ASSUME NEW x \in Rows, Carries(handler[h], x) PROVE Carries(w, x)
    BY <1>1, <1>3, <2>8 DEF Carries, Asking, Applying, Writing
  <2>9. /\ queue' \in Seq(Messages) /\ delivered' \in [Messages -> Nat]
        /\ batch' \in {"submitted", "reconciled"} /\ stored' \subseteq Rows
        /\ stored \subseteq stored' /\ applied' \subseteq stored' /\ dropped' \subseteq Requests
        /\ unpaid \subseteq unpaid' /\ unpaid' \subseteq Bids /\ handler[h].bid \in unpaid'
    BY <1>2, <1>4, <2>3, Types DEF ResultsInv
  <2>10. QED
    BY <1>3, <2>1, <2>2, <2>3, <2>4, <2>5, <2>6, <2>7, <2>8, <2>9, QuietStep
<1>5. CASE UNCHANGED <<faults, unpaid>>
  <2>1. hold' = [hold EXCEPT ![handler[h].bid] =
                    IF handler[h].row.outcome # "allotted" THEN 0
                    ELSE IF handler[h].row.keeps < handler[h].was /\ @ # 0
                         THEN handler[h].row.keeps ELSE @]
    BY <1>2, <1>5, Types DEF ResultsInv, Pay, Fault
  <2>2. QED
    BY <1>5, <2>1, PaidInv
<1>6. QED
  BY <1>4, <1>5 DEF Pay

----------------------------------------------------------------------------
(* The theorems.                                                            *)

\* Initially nothing was delivered and nobody is at work.
LEMMA InitInv == ResultsInit => ResultsInv
<1> SUFFICES ASSUME ResultsInit PROVE ResultsInv
  OBVIOUS
<1>1. \A h \in Handlers : handler[h] = Idle /\ handler[h].pc = "idle"
  BY DEF ResultsInit, Idle
<1>2. \A h \in Handlers : Fits(handler[h])
  BY <1>1 DEF Fits, Applying, Writing
<1>3. \A h \in Handlers : Using(handler[h]) = {}
  BY <1>1, <1>2, UsingIs
<1>4. ResultsTypeOK
  BY ResultsAssumption DEF ResultsInit, ResultsTypeOK, Messages, Amounts
<1>5. HandlersFit /\ VerdictsAtHand /\ SharedAreRaced /\ ReadIsStill /\ PayingIsDue
  BY <1>1, <1>2, <1>3 DEF HandlersFit, VerdictsAtHand, SharedAreRaced, ReadIsStill, PayingIsDue,
       AtHand, StillSo, DueTo, Applying, Writing
<1>6. IdsDiffer /\ PaidOrDue /\ AnnouncedAsDecided /\ LeftAreSought
  BY DEF ResultsInit, IdsDiffer, PaidOrDue, AnnouncedAsDecided, LeftAreSought, Left, FINAL
<1>7. QED
  BY <1>4, <1>5, <1>6 DEF ResultsInv

\* Every step of a handler, of the exchange and of the bank keeps the invariant.
LEMMA NextInv == ResultsInv /\ [ResultsNext]_vars => ResultsInv'
<1> SUFFICES ASSUME ResultsInv, [ResultsNext]_vars PROVE ResultsInv'
  OBVIOUS
<1>1. ASSUME NEW h \in Handlers, Work(h), Watch PROVE ResultsInv'
  BY <1>1, ReceiveInv, RecordOutcomeInv, ReadBatchInv, FindRequestInv, RecordRejectionInv,
     LookUpInv, MapRequestInv, MappedInv, CloseBatchInv, ReadBidInv, AcceptInv, DecideInv,
     PayInv, MarkAppliedInv, NextRequestInv, AcknowledgeInv DEF Work
<1>2. ASSUME NEW h \in Handlers, Die(h), Watch PROVE ResultsInv'
  BY <1>2, DieInv
<1>3. CASE UNCHANGED vars
  BY <1>3 DEF vars, calm, ResultsInv, ResultsTypeOK, HandlersFit, VerdictsAtHand, AtHand, IdsDiffer,
     SharedAreRaced, ReadIsStill, StillSo, PayingIsDue, DueTo, PaidOrDue, PaidFor, At,
     AnnouncedAsDecided, LeftAreSought, Left, Known, Queued, Carries
<1>4. QED
  BY <1>1, <1>2, <1>3 DEF ResultsNext, Consume

\* The inductive invariant of the handlers, the bids, their holds and the verdicts.
THEOREM ResultsInvariant == ResultsSpec => []ResultsInv
<1>1. QED
  BY InitInv, NextInv, PTL DEF ResultsSpec

\* Once nobody is at work every verdict on a known bid was applied or dropped, and every
\* decided bid that nobody raced was announced once and holds what it owes, if its one
\* call was not lost (results.service.ts:57-165).
THEOREM VerdictsSettle == ResultsSpec => []VerdictsAreSettled
<1>1. ResultsInv => VerdictsAreSettled
  <2> SUFFICES ASSUME ResultsInv PROVE VerdictsAreSettled
    OBVIOUS
  <2>1. AtRest => \A x \in Rows : ~Queued(x) /\ \A h \in Handlers : ~Carries(handler[h], x)
    BY DEF AtRest, At, Queued, Carries, Asking, Applying, Writing
  <2>2. PendingOnlyIfDropped
    BY <2>1, Types DEF ResultsInv, LeftAreSought, Left, PendingOnlyIfDropped
  <2>3. HoldIsWhatIsOwed
    BY DEF ResultsInv, PaidOrDue, PaidFor, HoldIsWhatIsOwed, AtRest, At
  <2>4. AnnouncedOnce
    BY DEF ResultsInv, AnnouncedAsDecided, AnnouncedOnce
  <2>5. QED
    BY <2>2, <2>3, <2>4 DEF ResultsInv, VerdictsAreSettled
<1>2. QED
  BY <1>1, ResultsInvariant, PTL

\* A step writes only what its handler has read.
LEMMA BidsWritten ==
  ASSUME ResultsInv, ResultsNext, NEW b \in Bids
  PROVE  /\ bid[b].status \in FINAL => bid'[b].status = bid[b].status \/ b \in raced
         /\ bid[b].request # NoReq => bid'[b].request = bid[b].request \/ b \in raced
<1> PICK h \in Handlers : Work(h) \/ Die(h)
  BY DEF ResultsNext, Consume
<1>1. /\ bid \in [Bids -> [status: {"submitted", "accepted"} \cup FINAL,
                           request: Requests \cup {NoReq}, held: Amounts]]
      /\ Fits(handler[h]) /\ StillSo(handler[h])
  BY Types DEF ResultsInv, HandlersFit, ReadIsStill
<1>2. CASE Accept(h) \/ Decide(h)
  <2>1. handler[h].pc \in {"accepting", "deciding"} /\ handler[h].bid \in Using(handler[h])
    BY <1>1, <1>2, UsingIs DEF Accept, Decide, At
  <2>2. b # handler[h].bid => bid'[b] = bid[b]
    BY <1>1, <1>2 DEF Accept, Decide
  <2>3. bid'[b].request = bid[b].request
    BY <1>1, <1>2 DEF Accept, Decide
  <2>4. b = handler[h].bid => bid[b].status \notin FINAL \/ b \in raced
    BY <1>1, <2>1 DEF StillSo
  <2>5. QED
    BY <2>2, <2>3, <2>4
<1>3. CASE MapRequest(h)
  <2> DEFINE c == handler[h].pair[2]
  <2>1. handler[h].pc = "updating" /\ c \in Using(handler[h])
    BY <1>1, <1>3, UsingIs DEF MapRequest, At
  <2>2. bid' = bid \/ bid' = [bid EXCEPT ![c].request = handler[h].pair[1]]
    BY <1>3 DEF MapRequest
  <2>3. bid'[b].status = bid[b].status /\ (b # c => bid'[b] = bid[b])
    BY <1>1, <2>2
  <2>4. b = c => bid[b].request = NoReq \/ b \in raced
    BY <1>1, <2>1 DEF StillSo
  <2>5. QED
    BY <2>3, <2>4
<1>4. CASE ~(Accept(h) \/ Decide(h) \/ MapRequest(h))
  <2>1. bid' = bid
    BY <1>4 DEF Work, Die, Receive, RecordOutcome, ReadBatch, FindRequest, RecordRejection, LookUp,
         Mapped, CloseBatch, ReadBid, Pay, MarkApplied, NextRequest, Acknowledge
  <2>2. QED
    BY <2>1
<1>5. QED
  BY <1>2, <1>3, <1>4

\* What is final of a bid, and its id at BoT once found, stays, unless two handlers had read
\* the bid to write it at once (results.service.ts:57, 114).
THEOREM FinalStays == ResultsSpec => FinalIsKept
<1>1. ResultsInv /\ [ResultsNext]_vars =>
        /\ [\A b \in Bids :
              bid[b].status \in FINAL => bid'[b].status = bid[b].status \/ b \in raced]_bid
        /\ [\A b \in Bids :
              bid[b].request # NoReq => bid'[b].request = bid[b].request \/ b \in raced]_bid
  BY BidsWritten DEF vars
<1>2. QED
  BY <1>1, ResultsInvariant, PTL DEF ResultsSpec, FinalIsKept, FinalUnlessRaced, RequestStays

----------------------------------------------------------------------------
(* The screens of onboarding.                                               *)

LEMMA ViewFacts ==
  ASSUME NEW r \in Investors
  PROVE  /\ View(r) \in Views
         /\ View(r).status = r.status /\ View(r).next = NextStep(r) /\ View(r).profile = r.profile
         /\ View(r).cds = r.cds /\ View(r).linked = r.linked
         /\ View(r).canBid = (r.status = "approved" /\ r.cds = "active" /\ r.linked)
         /\ r.status \in {"draft", "info_requested", "under_review", "approved", "rejected"}
         /\ r.profile \in {<<>>} \cup {<<d>> : d \in Details}
         /\ r.cds \in {"none", "requested", "active"} /\ r.linked \in BOOLEAN
BY DEF View, Views, Investors

\* What a screen was sent tells whether the service takes details.
LEMMA ViewsFit ==
  ASSUME NEW v \in Views
  PROVE  /\ v.next \in {"profile", "submit", "provide_info"} <=> v.status \in Editable
         /\ v.status \in {"draft", "info_requested", "under_review", "approved", "rejected"}
         /\ v.profile \in {<<>>} \cup {<<d>> : d \in Details}
<1>1. PICK r \in Investors : v = View(r)
  BY DEF Views
<1> QED
  BY <1>1, ViewFacts DEF NextStep, Editable

\* Details, filled in, are meant as they were saved.
LEMMA FilledMeans ==
  ASSUME NEW f \in Fields, NEW d \in Details, NEW v, v.profile = <<d>>, f = fields, NEW to,
         NEW g, g = [Filled(v) EXCEPT !.review = to]
  PROVE  Meant(g) = d
<1>1. <<d>>[1] = d /\ <<d>> # <<>> /\ d = [name |-> d.name, account |-> d.account]
      /\ d.account \in {Account, Unsaid}
  BY DEF Details
<1>2. /\ g.name = d.name /\ g.account = d.account
      /\ g.has = IF d.account = Unsaid THEN f.has ELSE "yes"
  BY <1>1 DEF Filled, Fields
<1>3. Meant(g).name = d.name /\ Meant(g).account = d.account
  BY <1>1, <1>2 DEF Meant
<1> QED
  BY <1>1, <1>2, <1>3 DEF Meant

LEMMA FilledFields ==
  ASSUME NEW v \in Views, fields \in Fields, NEW to \in BOOLEAN
  PROVE  /\ [Filled(v) EXCEPT !.review = to] \in Fields
         /\ [Filled(v) EXCEPT !.review = to].review = to
         /\ Filled(v).review = fields.review
<1>1. PICK p \in {<<>>} \cup {<<d>> : d \in Details} : v.profile = p
  BY ViewsFit
<1>2. CASE p = <<>>
  BY <1>1, <1>2 DEF Filled, Fields
<1>3. CASE p # <<>>
  <2>1. PICK d \in Details : p = <<d>>
    BY <1>3
  <2>2. p[1] = d /\ d.name \in Named /\ d.account \in {Account, Unsaid}
    BY <2>1 DEF Details
  <2>3. Filled(v) = [fields EXCEPT !.name = d.name, !.account = d.account,
                      !.has = IF d.account = Unsaid THEN fields.has ELSE "yes"]
    BY <1>1, <1>3, <2>2 DEF Filled
  <2> QED
    BY <2>2, <2>3 DEF Fields
<1> QED
  BY <1>2, <1>3

LEMMA NoRequestFits ==
  request = NoRequest => request.what = "nothing"
BY DEF NoRequest

\* What a request is, by what it asks for.
LEMMA RequestKinds ==
  ASSUME WizardTypeOK
  PROVE  /\ request.what \in {"save", "submit"} => request \in Writes
         /\ request.what = "save" => request.details \in Details
         /\ request.what = "submit" =>
              /\ request.details \in [name : Named \cup {Unsaid}, account : {Account, Unsaid}]
              /\ request.status \in {"draft", "info_requested", "under_review", "approved", "rejected"}
         /\ request.what = "answer" => request.view \in Views /\ request.to \in {"save", "submit", "look"}
         /\ request # NoRequest => request.what \in {"save", "submit", "look", "answer"}
         /\ request = NoRequest => request.what = "nothing"
<1>1. CASE request = NoRequest
  BY <1>1 DEF NoRequest
<1>2. CASE request = [what |-> "look"]
  BY <1>2 DEF NoRequest
<1>3. CASE request \in Writes
  BY <1>3, NoRequestFits DEF Writes
<1>4. CASE request \in AnswersHome
  BY <1>4, NoRequestFits DEF AnswersHome
<1> QED
  BY <1>1, <1>2, <1>3, <1>4 DEF WizardTypeOK

----------------------------------------------------------------------------
\* The row, as the service writes it.

LEMMA SavedFacts ==
  ASSUME row \in Investors, NEW d \in Details
  PROVE  Saved(d) \in Investors /\ Saved(d).status = row.status /\ Saved(d).profile = <<d>>
BY DEF Saved, Investors

LEMMA SubmittedFacts ==
  ASSUME row \in Investors, row.profile # <<>>, Submits
  PROVE  row' \in Investors /\ row'.profile = row.profile
<1> DEFINE links == {row.linked, row.profile[1].account = Account}
<1>1. \A l \in links : l \in BOOLEAN
  <2>1. row.linked \in BOOLEAN
    BY DEF Investors
  <2> QED
    BY <2>1, Zenon
<1>2. PICK s \in {"under_review", "approved"}, l \in links :
        row' = [row EXCEPT !.status = s, !.linked = l, !.cds = IF s = "approved" THEN "requested" ELSE row.cds]
  BY Zenon DEF Submits
<1> HIDE DEF links
<1> QED
  BY <1>1, <1>2 DEF Investors

\* Details the service takes are details.
LEMMA TakenDetails ==
  ASSUME NEW n \in Valid
  PROVE  [name |-> n, account |-> Unsaid] \in Details
BY WizardAssumption DEF Details

----------------------------------------------------------------------------

LEMMA WizardInvInitially == WizardInit => WizardInv
<1> SUFFICES ASSUME WizardInit PROVE WizardInv
  OBVIOUS
<1>1. row \in Investors
  BY DEF WizardInit, Investors
<1>2. known \in {<<>>} \cup {<<v>> : v \in Views}
  BY <1>1, ViewFacts DEF WizardInit
<1>3. fields \in Fields /\ ~fields.review
  BY DEF WizardInit, Fields
<1>4. request = NoRequest /\ request.what = "nothing"
  BY NoRequestFits DEF WizardInit
<1>5. WizardTypeOK
  BY <1>1, <1>2, <1>3 DEF WizardInit, WizardTypeOK
<1>6. ReviewIsKept
  BY <1>3 DEF ReviewIsKept
<1>7. RequestFits
  BY <1>4 DEF RequestFits
<1>8. last = <<>>
  BY DEF WizardInit
<1> QED
  BY <1>5, <1>6, <1>7, <1>8 DEF WizardInv, SubmitsKnowingly

LEMMA MovesOnFits == ASSUME WizardInv, MovesOn PROVE WizardInv'
<1>1. /\ row' \in Investors /\ row'.profile = row.profile
      /\ row.status \in Editable => row'.status = row.status
  BY DEF MovesOn, WizardInv, WizardTypeOK, Investors, Editable
<1>2. UNCHANGED <<known, fields, request, stray, last, behind, doubt, saves, lost>>
  BY DEF MovesOn
<1>3. WizardTypeOK'
  BY <1>1, <1>2 DEF WizardInv, WizardTypeOK
<1>4. ReviewIsKept'
  BY <1>1, <1>2 DEF WizardInv, ReviewIsKept, Editing
<1>5. RequestFits'
  BY <1>1, <1>2 DEF WizardInv, RequestFits
<1> QED
  BY <1>2, <1>3, <1>4, <1>5 DEF WizardInv, SubmitsKnowingly

\* A write that is not this screen's latest one.
LEMMA WritesBehind ==
  ASSUME WizardInv, row' \in Investors, behind' = TRUE, saves' \in Nat,
         UNCHANGED <<known, fields, request, last, doubt, lost>>,
         stray' \in {<<>>} \cup {<<r>> : r \in Writes}
  PROVE  WizardInv'
<1>1. WizardTypeOK'
  BY DEF WizardInv, WizardTypeOK
<1>2. ReviewIsKept'
  BY DEF WizardInv, ReviewIsKept, Editing
<1>3. RequestFits'
  BY DEF WizardInv, RequestFits
<1> QED
  BY <1>1, <1>2, <1>3 DEF WizardInv, SubmitsKnowingly

LEMMA OtherDeviceFits == ASSUME WizardInv, OtherDevice PROVE WizardInv'
<1>1. /\ behind' = TRUE /\ saves' \in Nat /\ row \in Investors /\ stray' \in {<<>>} \cup {<<r>> : r \in Writes}
      /\ UNCHANGED <<known, fields, request, last, doubt, lost>>
  BY DEF OtherDevice, WizardInv, WizardTypeOK
<1>2. CASE \E n \in Valid : TakesSave(row, [name |-> n]) /\ row' = Saved([name |-> n, account |-> Unsaid])
  <2>1. row' \in Investors
    BY <1>1, <1>2, TakenDetails, SavedFacts
  <2> QED
    BY <1>1, <2>1, WritesBehind
<1>3. CASE TakesSubmit(row) /\ Submits
  <2>1. row' \in Investors
    BY <1>1, <1>3, SubmittedFacts DEF TakesSubmit
  <2> QED
    BY <1>1, <2>1, WritesBehind
<1> QED
  BY <1>2, <1>3 DEF OtherDevice

LEMMA ArriveLateFits == ASSUME WizardInv, ArriveLate PROVE WizardInv'
<1>1. /\ behind' = TRUE /\ saves' \in Nat /\ row \in Investors /\ stray' \in {<<>>} \cup {<<r>> : r \in Writes}
      /\ UNCHANGED <<known, fields, request, last, doubt, lost>>
  BY DEF ArriveLate, WizardInv, WizardTypeOK
<1>2. PICK r \in Writes : stray = <<r>>
  BY DEF ArriveLate, WizardInv, WizardTypeOK
<1>3. stray[1] = r
  BY <1>2
<1>4. CASE r.what = "save" /\ TakesSave(row, r.details) /\ row' = Saved(r.details)
  <2>1. r.details \in Details
    BY <1>4 DEF Writes
  <2>2. row' \in Investors
    BY <1>1, <1>4, <2>1, SavedFacts
  <2> QED
    BY <1>1, <2>2, WritesBehind
<1>5. CASE r.what = "submit" /\ TakesSubmit(row) /\ Submits
  <2>1. row' \in Investors
    BY <1>1, <1>5, SubmittedFacts DEF TakesSubmit
  <2> QED
    BY <1>1, <2>1, WritesBehind
<1> QED
  BY <1>3, <1>4, <1>5 DEF ArriveLate

----------------------------------------------------------------------------

LEMMA TypeInFits ==
  ASSUME WizardInv, NEW n \in Named \cup {Unsaid}, NEW a \in {Account, Unsaid}, NEW h \in {"yes", "no"},
         TypeIn(n, a, h)
  PROVE  WizardInv'
<1>1. /\ fields' \in Fields /\ ~fields'.review /\ ~fields.review
      /\ UNCHANGED <<row, known, request, stray, last, behind, doubt, saves, lost>>
  BY DEF TypeIn, WizardInv, WizardTypeOK, Fields
<1>2. WizardTypeOK'
  BY <1>1 DEF WizardInv, WizardTypeOK
<1>3. ReviewIsKept' /\ RequestFits'
  BY <1>1 DEF WizardInv, ReviewIsKept, RequestFits
<1> QED
  BY <1>1, <1>2, <1>3 DEF WizardInv, SubmitsKnowingly

LEMMA EditDetailsFits == ASSUME WizardInv, EditDetails PROVE WizardInv'
<1>1. /\ fields' \in Fields /\ ~fields'.review /\ request' = NoRequest
      /\ UNCHANGED <<row, known, request, stray, last, behind, doubt, saves, lost>>
  BY DEF EditDetails, WizardInv, WizardTypeOK, Fields
<1>2. WizardTypeOK'
  BY <1>1 DEF WizardInv, WizardTypeOK
<1>3. request'.what = "nothing"
  BY <1>1 DEF NoRequest
<1>4. ReviewIsKept' /\ RequestFits'
  BY <1>1, <1>3 DEF ReviewIsKept, RequestFits
<1> QED
  BY <1>1, <1>2, <1>4 DEF WizardInv, SubmitsKnowingly

\* A request that fits the screen goes out.
LEMMA AskFits ==
  ASSUME WizardInv, NEW r \in {[what |-> "look"]} \cup Writes, Ask(r), fields' = fields, saves' \in Nat,
         r.what \in {"save", "look", "submit"},
         r.what \in {"save", "look"} => ~fields.review,
         r.what = "submit" => fields.review /\ r.details = Meant(fields) /\ r.status = known[1].status
  PROVE  WizardInv'
<1>1. request = NoRequest /\ request' = r /\ UNCHANGED <<row, known, fields, stray, last, behind, doubt, lost>>
  BY DEF Ask
<1>2. WizardTypeOK'
  BY <1>1 DEF WizardInv, WizardTypeOK
<1>3. request.what = "nothing"
  BY <1>1, NoRequestFits
<1>4. ReviewIsKept'
  BY <1>1, <1>3 DEF WizardInv, ReviewIsKept, Editing
<1>5. RequestFits'
  BY <1>1 DEF RequestFits
<1> QED
  BY <1>1, <1>2, <1>4, <1>5 DEF WizardInv, SubmitsKnowingly

LEMMA MeantDetails ==
  ASSUME fields \in Fields
  PROVE  /\ Meant(fields) \in [name : Named \cup {Unsaid}, account : {Account, Unsaid}]
         /\ fields.name \in Named => Meant(fields) \in Details
BY DEF Meant, Fields, Details

LEMMA AsksFit ==
  ASSUME WizardInv, SaveAndReview \/ PressSubmit \/ LookAgain
  PROVE  WizardInv'
<1>1. fields \in Fields /\ saves \in Nat /\ known \in {<<>>} \cup {<<v>> : v \in Views}
  BY DEF WizardInv, WizardTypeOK
<1>2. CASE SaveAndReview
  <2> DEFINE r == [what |-> "save", details |-> Meant(fields)]
  <2>1. fields.name \in Named /\ ~fields.review /\ Ask(r) /\ saves' = saves + 1
    BY <1>2 DEF SaveAndReview, Complete
  <2>2. r \in Writes /\ r.what = "save"
    BY <1>1, <2>1, MeantDetails DEF Writes
  <2>3. fields' = fields
    BY <2>1 DEF Ask
  <2> QED
    BY <1>1, <2>1, <2>2, <2>3, AskFits
<1>3. CASE PressSubmit
  <2> DEFINE r == [what |-> "submit", details |-> Meant(fields), status |-> known[1].status]
  <2>1. Editing /\ fields.review /\ Ask(r) /\ saves' = saves + 1
    BY <1>3 DEF PressSubmit
  <2>2. known[1].status \in {"draft", "info_requested", "under_review", "approved", "rejected"}
    <3>1. PICK v \in Views : known = <<v>>
      BY <1>1, <2>1 DEF Editing
    <3> QED
      BY <3>1, ViewsFit
  <2>3. r \in Writes /\ r.what = "submit" /\ r.details = Meant(fields) /\ r.status = known[1].status
    BY <1>1, <2>2, MeantDetails DEF Writes
  <2>4. fields' = fields
    BY <2>1 DEF Ask
  <2> QED
    BY <1>1, <2>1, <2>3, <2>4, AskFits
<1>4. CASE LookAgain
  <2>1. ~Editing /\ Ask([what |-> "look"]) /\ saves' = saves
    BY <1>4 DEF LookAgain
  <2>2. ~fields.review
    BY <2>1 DEF WizardInv, ReviewIsKept
  <2>3. fields' = fields
    BY <2>1 DEF Ask
  <2> QED
    BY <1>1, <2>1, <2>2, <2>3, AskFits
<1> QED
  BY <1>2, <1>3, <1>4

----------------------------------------------------------------------------
\* The answers, and the requests that have none.

LEMMA ServeFits == ASSUME WizardInv, Serve PROVE WizardInv'
<1>1. /\ WizardTypeOK /\ row \in Investors /\ UNCHANGED <<known, fields, stray, doubt, saves, lost>>
      /\ request' = [what |-> "answer", to |-> request.what, view |-> View(row')]
      /\ request.what \in {"save", "submit", "look"}
  BY DEF Serve, WizardInv, WizardTypeOK
<1>2. /\ request'.what = "answer" /\ request'.to = request.what /\ request'.view = View(row')
  BY <1>1
<1>3. ASSUME row' \in Investors PROVE request' \in AnswersHome
  BY <1>1, <1>3, ViewFacts DEF AnswersHome
<1>4. CASE request.what = "save"
  <2>1. /\ row' = Saved(request.details) /\ behind' = FALSE /\ last' = last /\ row.status \in Editable
        /\ request.details \in Details
    BY <1>1, <1>4, RequestKinds DEF Serve, TakesSave
  <2>2. row' \in Investors /\ row'.status = row.status /\ row'.profile = <<request.details>>
    BY <1>1, <2>1, SavedFacts
  <2>3. WizardTypeOK'
    BY <1>1, <1>3, <2>1, <2>2 DEF WizardTypeOK
  <2>4. ~fields'.review
    BY <1>1, <1>4 DEF WizardInv, RequestFits
  <2>5. /\ View(row').status = row'.status /\ View(row').profile = row'.profile
    BY <2>2, ViewFacts
  <2>6. RequestFits'
    BY <1>2, <1>4, <2>1, <2>2, <2>5 DEF RequestFits, Editable
  <2> QED
    BY <2>1, <2>3, <2>4, <2>6 DEF WizardInv, ReviewIsKept, SubmitsKnowingly
<1>5. CASE request.what = "submit"
  <2>1. /\ Submits /\ behind' = behind /\ row.status \in Editable /\ row.profile # <<>>
        /\ last' = <<[meant |-> request.details, sent |-> row.profile[1], thought |-> request.status,
                      was |-> row.status, behind |-> behind, doubt |-> doubt]>>
    BY <1>1, <1>5 DEF Serve, TakesSubmit
  <2>2. row' \in Investors /\ row'.profile = row.profile
    BY <1>1, <2>1, SubmittedFacts
  <2>3. WizardTypeOK'
    BY <1>1, <1>3, <2>1, <2>2 DEF WizardTypeOK
  <2>4. /\ fields.review /\ request.details = Meant(fields) /\ request.status = known[1].status
        /\ Editing
        /\ row.profile = <<Meant(fields)>> \/ behind
        /\ row.status = known[1].status \/ behind \/ doubt
    BY <1>5 DEF WizardInv, RequestFits, ReviewIsKept
  <2>5. row.profile = <<Meant(fields)>> => row.profile[1] = Meant(fields)
    OBVIOUS
  <2>6. SubmitsKnowingly'
    BY <2>1, <2>4, <2>5 DEF SubmitsKnowingly
  <2>7. ReviewIsKept'
    BY <1>1, <1>2, <1>5, <2>1, <2>2, <2>4 DEF ReviewIsKept, Editing, Meant
  <2>8. RequestFits'
    BY <1>2, <1>5 DEF RequestFits
  <2> QED
    BY <2>3, <2>6, <2>7, <2>8 DEF WizardInv
<1>6. CASE request.what = "look"
  <2>1. UNCHANGED <<row, behind, last>>
    BY <1>1, <1>6 DEF Serve
  <2>2. WizardTypeOK'
    BY <1>1, <1>3, <2>1 DEF WizardTypeOK
  <2>3. ~fields'.review
    BY <1>1, <1>6 DEF WizardInv, RequestFits
  <2>4. RequestFits' /\ ReviewIsKept'
    BY <1>2, <1>6, <2>3 DEF RequestFits, ReviewIsKept
  <2> QED
    BY <2>1, <2>2, <2>4 DEF WizardInv, SubmitsKnowingly
<1> QED
  BY <1>1, <1>4, <1>5, <1>6

LEMMA RefuseFits == ASSUME WizardInv, Refuse PROVE WizardInv'
<1>1. /\ request' = NoRequest /\ UNCHANGED <<row, known, fields, stray, last, behind, doubt, saves, lost>>
      /\ request.what # "answer"
  BY DEF Refuse
<1>2. request'.what = "nothing"
  BY <1>1 DEF NoRequest
<1>3. WizardTypeOK'
  BY <1>1 DEF WizardInv, WizardTypeOK
<1>4. ReviewIsKept'
  BY <1>1 DEF WizardInv, ReviewIsKept, Editing
<1>5. RequestFits'
  BY <1>2 DEF RequestFits
<1> QED
  BY <1>1, <1>3, <1>4, <1>5 DEF WizardInv, SubmitsKnowingly

LEMMA LoseItFits == ASSUME WizardInv, LoseIt PROVE WizardInv'
<1>1. /\ request' = NoRequest /\ UNCHANGED <<row, known, fields, last, behind, saves>> /\ doubt' = TRUE
      /\ stray' \in {stray} \cup (IF request.what \in {"save", "submit"} THEN {<<request>>} ELSE {})
      /\ lost' = lost + 1 /\ WizardTypeOK
  BY DEF LoseIt, WizardInv
<1>2. request'.what = "nothing"
  BY <1>1 DEF NoRequest
<1>3. stray' \in {<<>>} \cup {<<r>> : r \in Writes}
  <2>1. stray \in {<<>>} \cup {<<r>> : r \in Writes}
    BY <1>1 DEF WizardTypeOK
  <2>2. request.what \in {"save", "submit"} => request \in Writes
    BY <1>1, RequestKinds
  <2> QED
    BY <1>1, <2>1, <2>2
<1>4. WizardTypeOK'
  BY <1>1, <1>3 DEF WizardTypeOK
<1>5. ReviewIsKept'
  BY <1>1 DEF WizardInv, ReviewIsKept, Editing
<1>6. RequestFits'
  BY <1>2 DEF RequestFits
<1> QED
  BY <1>1, <1>4, <1>5, <1>6 DEF WizardInv, SubmitsKnowingly

LEMMA HearFits == ASSUME WizardInv, Hear PROVE WizardInv'
<1> DEFINE to == CASE request.to = "save" -> TRUE [] request.to = "submit" -> FALSE
                   [] request.to = "look" -> Filled(request.view).review
           view == request.view
<1>1. /\ WizardTypeOK /\ fields \in Fields /\ request.what = "answer" /\ request' = NoRequest
      /\ known' = <<view>> /\ doubt' = FALSE
      /\ fields' = [Filled(view) EXCEPT !.review = to]
      /\ UNCHANGED <<row, stray, last, behind, saves, lost>>
  BY DEF Hear, WizardInv, WizardTypeOK
<1>2. view \in Views /\ request.to \in {"save", "submit", "look"}
  BY <1>1, RequestKinds
<1>3. Filled(view).review = fields.review /\ fields.review \in BOOLEAN
  <2>1. TRUE \in BOOLEAN
    OBVIOUS
  <2> QED
    BY <1>1, <1>2, <2>1, FilledFields DEF Fields
<1>4. to \in BOOLEAN /\ (to <=> request.to = "save")
  <2>1. request.to = "look" => ~fields.review
    BY <1>1 DEF WizardInv, RequestFits
  <2> QED
    BY <1>2, <1>3, <2>1
<1> HIDE DEF to
<1>5. fields' \in Fields /\ fields'.review = to
  BY <1>1, <1>2, <1>4, FilledFields
<1>6. request'.what = "nothing"
  BY <1>1 DEF NoRequest
<1>7. WizardTypeOK'
  BY <1>1, <1>2, <1>5 DEF WizardTypeOK
<1>8. RequestFits'
  BY <1>6 DEF RequestFits
<1>9. ReviewIsKept'
  <2>1. SUFFICES ASSUME request.to = "save"
        PROVE  /\ known'[1].next \in {"profile", "submit", "provide_info"} /\ known' # <<>>
               /\ row.profile = <<Meant(fields')>> \/ behind
               /\ (row.status = known'[1].status /\ row.status \in Editable) \/ behind
    BY <1>1, <1>4, <1>5 DEF ReviewIsKept, Editing, Editable
  <2>2. /\ view.status \in Editable /\ view.profile # <<>>
        /\ (row.profile = view.profile /\ row.status = view.status) \/ behind
    BY <1>1, <2>1 DEF WizardInv, RequestFits
  <2>3. known'[1] = view /\ known' # <<>> /\ view.next \in {"profile", "submit", "provide_info"}
    BY <1>1, <1>2, <2>2, ViewsFit
  <2>4. PICK d \in Details : view.profile = <<d>>
    BY <1>2, <2>2, ViewsFit
  <2>5. Meant(fields') = d
    BY <1>1, <2>4, FilledMeans
  <2> QED
    BY <2>2, <2>3, <2>4, <2>5
<1> QED
  BY <1>1, <1>7, <1>8, <1>9 DEF WizardInv, SubmitsKnowingly

----------------------------------------------------------------------------

LEMMA WizardInvStays ==
  ASSUME WizardInv, [WizardNext]_wizardVars
  PROVE  WizardInv'
<1>1. CASE UNCHANGED wizardVars
  BY <1>1 DEF wizardVars, WizardInv, WizardTypeOK, ReviewIsKept, RequestFits, SubmitsKnowingly, Editing
<1>2. ASSUME NEW n \in Named \cup {Unsaid}, NEW a \in {Account, Unsaid}, NEW h \in {"yes", "no"}, TypeIn(n, a, h)
      PROVE  WizardInv'
  BY <1>2, TypeInFits
<1> QED
  BY <1>1, <1>2, MovesOnFits, OtherDeviceFits, ArriveLateFits, EditDetailsFits, AsksFit, ServeFits, RefuseFits,
     LoseItFits, HearFits DEF WizardNext

\* The tables of the screen and of the service agree, for every row.
LEMMA ScreenFits ==
  ASSUME WizardTypeOK
  PROVE  ScreenFitsService
<1>1. SUFFICES ASSUME known = <<View(row)>>
      PROVE  /\ Editing <=> row.status \in Editable
             /\ known[1].canBid <=> known[1].next = "ready"
             /\ BannerShown(known[1]) <=> ~known[1].canBid
             /\ ~Editing => (known[1].canBid <=> StagesDone(known[1]) = {"submitted", "verified", "bank", "cds"})
  BY DEF ScreenFitsService
<1>2. row \in Investors /\ known[1] = View(row) /\ known # <<>>
  BY <1>1 DEF WizardTypeOK
<1>3. /\ View(row).status = row.status /\ View(row).next = NextStep(row) /\ View(row).cds = row.cds
      /\ View(row).linked = row.linked
      /\ View(row).canBid = (row.status = "approved" /\ row.cds = "active" /\ row.linked)
      /\ row.status \in {"draft", "info_requested", "under_review", "approved", "rejected"}
      /\ row.linked \in BOOLEAN
  BY <1>2, ViewFacts
<1>4. Editing <=> row.status \in Editable
  BY <1>2, <1>3 DEF Editing, NextStep, Editable
<1>5. known[1].canBid <=> known[1].next = "ready"
  BY <1>2, <1>3 DEF NextStep
<1>6. BannerShown(known[1]) <=> ~known[1].canBid
  BY <1>2, <1>3 DEF BannerShown, NextStep
<1>7. known[1].canBid <=> StagesDone(known[1]) = {"submitted", "verified", "bank", "cds"}
  <2>1. /\ "verified" \in StagesDone(known[1]) <=> row.status = "approved"
        /\ "bank" \in StagesDone(known[1]) <=> row.linked
        /\ "cds" \in StagesDone(known[1]) <=> row.cds = "active"
        /\ "submitted" \in StagesDone(known[1])
        /\ \A s \in StagesDone(known[1]) : s \in {"submitted", "verified", "bank", "cds"}
    BY <1>2, <1>3 DEF StagesDone
  <2>2. StagesDone(known[1]) = {"submitted", "verified", "bank", "cds"} <=>
          {"verified", "bank", "cds"} \subseteq StagesDone(known[1])
    BY <2>1
  <2> QED
    BY <1>2, <1>3, <2>1, <2>2
<1> QED
  BY <1>4, <1>5, <1>6, <1>7

\* The onboarding screen says and sends what the service has, for any details, devices and
\* lost requests: a submission (onboarding.service.ts:103 takes the details it has) is of
\* the details the review showed and at the state the screen thought, unless another
\* device or a late request wrote in between or an answer was lost; and a screen that is
\* not out of date offers the form exactly while the service takes details.
THEOREM WizardIsTrueAlways == WizardSpec => []WizardIsTrue
<1>1. WizardInit => WizardInv
  BY WizardInvInitially
<1>2. WizardInv /\ [WizardNext]_wizardVars => WizardInv'
  BY WizardInvStays
<1>3. WizardInv => WizardIsTrue
  BY ScreenFits DEF WizardInv, WizardIsTrue
<1> QED
  BY <1>1, <1>2, <1>3, PTL DEF WizardSpec

====
