----------------------------- MODULE Holds_proofs -----------------------------
(* Proofs about Holds.tla: type correctness, that a released hold stays     *)
(* released, that only an adjust changes the amount of a hold, and that an  *)
(* account is never promised beyond its ledger but by overlapping adjusts.  *)
(* Then Feed.tla: what is on record of an auction was announced, and a      *)
(* cut-off that staff brought forward stays.  Last, Portfolio.tla: what the *)
(* portal shows an investor of their money and bids holds together.         *)
EXTENDS Holds, Feed, Portfolio, FiniteSetTheorems, WellFoundedInduction, TLAPS

----------------------------------------------------------------------------

LEMMA HoldsInitType == HoldsInit => HoldsTypeOK
BY DEF HoldsInit, HoldsTypeOK, NoHold, Idle

\* An answer, or the read of a handler, leaves calls of the right type.
LEMMA AnswerFacts ==
  ASSUME HoldsTypeOK, NEW c \in Calls,
         NEW a \in {"ok", "insufficient_funds", "not_found", "hold_closed", "error"},
         Answer(c, a)
  PROVE  call' \in [Calls -> InFlight \cup Answered \cup {Idle}]
BY DEF HoldsTypeOK, Answer, Answered

\* A request that a handler is at work on names a hold and an amount.
LEMMA AtFacts ==
  ASSUME HoldsTypeOK, NEW c \in Calls, NEW op \in Ops, NEW step \in {"sent", "looked"},
         At(c, op, step)
  PROVE  /\ call[c] \in InFlight
         /\ call[c].ref \in Refs
         /\ call[c].amount \in Amounts \cup {0}
         /\ hold[call[c].ref] \in
              [status: {"none", "held", "released"}, amount: Amounts \cup {0}]
<1>1. call[c] \in InFlight \cup Answered \cup {Idle}
  BY DEF HoldsTypeOK
<1>2. call[c] \notin Answered
  BY DEF At, Answered, Ops
<1>3. call[c] # Idle
  BY DEF At, Idle, Ops
<1>4. call[c] \in InFlight
  BY <1>1, <1>2, <1>3
<1> QED
  BY <1>4 DEF InFlight, HoldsTypeOK

LEMMA LookedFacts ==
  ASSUME HoldsTypeOK, NEW c \in Calls, NEW op \in Ops, At(c, op, "sent"), Looked(c)
  PROVE  call' \in [Calls -> InFlight \cup Answered \cup {Idle}]
<1>1. call[c] \in InFlight /\ hold[call[c].ref].amount \in Amounts \cup {0}
  BY AtFacts
<1>2. [call[c] EXCEPT !.step = "looked", !.seen = hold[call[c].ref].amount] \in InFlight
  BY <1>1 DEF InFlight
<1>3. call' = [call EXCEPT ![c] = [call[c] EXCEPT !.step = "looked", !.seen = hold[call[c].ref].amount]]
  BY DEF Looked, HoldsTypeOK
<1> QED
  BY <1>2, <1>3 DEF HoldsTypeOK

----------------------------------------------------------------------------
(* Each operation keeps the types.                                         *)

LEMMA SendType ==
  ASSUME HoldsTypeOK, NEW c \in Calls, Send(c)
  PROVE  HoldsTypeOK'
<1>1. PICK r \in Refs, op \in Ops, m \in Amounts \cup {0} : call' = Sent(c, op, r, m)
  BY DEF Send, Ops
<1>2. Request(op, r, m) \in InFlight
  BY <1>1 DEF Request, InFlight
<1>3. call' \in [Calls -> InFlight \cup Answered \cup {Idle}]
  BY <1>1, <1>2 DEF Sent, HoldsTypeOK
<1> QED
  BY <1>3 DEF HoldsTypeOK, Send

LEMMA PlaceType ==
  ASSUME HoldsTypeOK, NEW c \in Calls, PlaceLookUp(c) \/ PlaceCommit(c)
  PROVE  HoldsTypeOK'
<1>1. CASE PlaceLookUp(c)
  <2>1. call' \in [Calls -> InFlight \cup Answered \cup {Idle}]
    BY <1>1, AnswerFacts, LookedFacts DEF PlaceLookUp, Ops
  <2> QED
    BY <1>1, <2>1 DEF PlaceLookUp, HoldsTypeOK
<1>2. CASE PlaceCommit(c)
  <2>1. call' \in [Calls -> InFlight \cup Answered \cup {Idle}]
    BY <1>2, AnswerFacts DEF PlaceCommit
  <2>2. call[c].ref \in Refs /\ call[c].amount \in Amounts \cup {0}
    BY <1>2, AtFacts DEF PlaceCommit, Ops
  <2>3. hold' \in [Refs -> [status: {"none", "held", "released"}, amount: Amounts \cup {0}]]
    BY <1>2, <2>2 DEF PlaceCommit, HoldsTypeOK
  <2> QED
    BY <1>2, <2>1, <2>3 DEF PlaceCommit, HoldsTypeOK
<1> QED
  BY <1>1, <1>2

LEMMA AdjustType ==
  ASSUME HoldsTypeOK, NEW c \in Calls, AdjustLookUp(c) \/ AdjustCommit(c)
  PROVE  HoldsTypeOK'
<1>1. CASE AdjustLookUp(c)
  <2>1. call' \in [Calls -> InFlight \cup Answered \cup {Idle}]
    BY <1>1, AnswerFacts, LookedFacts DEF AdjustLookUp, Ops
  <2>2. call[c].ref \in Refs
    BY <1>1, AtFacts DEF AdjustLookUp, Ops
  <2>3. overlapped' \subseteq Refs
    BY <1>1, <2>2 DEF AdjustLookUp, HoldsTypeOK
  <2> QED
    BY <1>1, <2>1, <2>3 DEF AdjustLookUp, HoldsTypeOK
<1>2. CASE AdjustCommit(c)
  <2>1. call' \in [Calls -> InFlight \cup Answered \cup {Idle}]
    BY <1>2, AnswerFacts DEF AdjustCommit
  <2>2. /\ call[c].amount \in Amounts \cup {0}
        /\ hold' = hold \/ hold' = [hold EXCEPT ![call[c].ref].amount = call[c].amount]
    BY <1>2, AtFacts DEF AdjustCommit, Ops
  <2>3. hold' \in [Refs -> [status: {"none", "held", "released"}, amount: Amounts \cup {0}]]
    BY <2>2 DEF HoldsTypeOK
  <2> QED
    BY <1>2, <2>1, <2>3 DEF AdjustCommit, HoldsTypeOK
<1> QED
  BY <1>1, <1>2

LEMMA ReleaseType ==
  ASSUME HoldsTypeOK, NEW c \in Calls, ReleaseLookUp(c) \/ ReleaseCommit(c)
  PROVE  HoldsTypeOK'
<1>1. CASE ReleaseLookUp(c)
  <2>1. call' \in [Calls -> InFlight \cup Answered \cup {Idle}]
    BY <1>1, AnswerFacts, LookedFacts DEF ReleaseLookUp, Ops
  <2> QED
    BY <1>1, <2>1 DEF ReleaseLookUp, HoldsTypeOK
<1>2. CASE ReleaseCommit(c)
  <2>1. call' \in [Calls -> InFlight \cup Answered \cup {Idle}]
    BY <1>2, AnswerFacts DEF ReleaseCommit
  <2>2. hold' \in [Refs -> [status: {"none", "held", "released"}, amount: Amounts \cup {0}]]
    BY <1>2 DEF ReleaseCommit, HoldsTypeOK
  <2> QED
    BY <1>2, <2>1, <2>2 DEF ReleaseCommit, HoldsTypeOK
<1> QED
  BY <1>1, <1>2

\* Every row and every request of cbs-gateway is well formed, whatever is sent and
\* however the handlers interleave.
THEOREM HoldsTypeCorrect == HoldsSpec => []HoldsTypeOK
<1>1. HoldsTypeOK /\ [HoldsNext]_holdVars => HoldsTypeOK'
  <2> SUFFICES ASSUME HoldsTypeOK, [HoldsNext]_holdVars
               PROVE  HoldsTypeOK'
    OBVIOUS
  <2>1. CASE UNCHANGED holdVars
    BY <2>1 DEF holdVars, HoldsTypeOK
  <2>2. CASE HoldsNext
    <3>1. PICK c \in Calls : Send(c) \/ Handle(c)
      BY <2>2 DEF HoldsNext
    <3> QED
      BY <3>1, SendType, PlaceType, AdjustType, ReleaseType DEF Handle
  <2> QED
    BY <2>1, <2>2
<1> QED
  BY <1>1, HoldsInitType, PTL DEF HoldsSpec

----------------------------------------------------------------------------
(* What a step may do to a hold.                                           *)

\* A step of HoldsNext leaves the table alone, inserts a row where there was none,
\* writes the amount of an adjust under way, or releases one hold.
LEMMA HoldSteps ==
  ASSUME HoldsTypeOK, HoldsNext
  PROVE  \/ hold' = hold
         \/ \E r \in Refs, m \in Amounts \cup {0} :
              hold[r] = NoHold /\ hold' = [hold EXCEPT ![r] = [status |-> "held", amount |-> m]]
         \/ \E r \in Refs, c \in Calls :
              /\ At(c, "adjust", "looked")
              /\ call[c].ref = r
              /\ hold' = [hold EXCEPT ![r].amount = call[c].amount]
              /\ call'[c].step = "answered"
         \/ \E r \in Refs : hold' = [hold EXCEPT ![r].status = "released"]
<1>1. PICK c \in Calls : Send(c) \/ Handle(c)
  BY DEF HoldsNext
<1>2. CASE Send(c) \/ PlaceLookUp(c) \/ AdjustLookUp(c) \/ ReleaseLookUp(c)
  BY <1>2 DEF Send, PlaceLookUp, AdjustLookUp, ReleaseLookUp
<1>3. CASE PlaceCommit(c)
  <2>1. call[c].ref \in Refs /\ call[c].amount \in Amounts \cup {0}
    BY <1>3, AtFacts DEF PlaceCommit, Ops
  <2> QED
    BY <1>3, <2>1 DEF PlaceCommit
<1>4. CASE AdjustCommit(c)
  <2>1. call'[c].step = "answered" /\ call[c].ref \in Refs
    BY <1>4, AtFacts DEF AdjustCommit, Answer, HoldsTypeOK, Ops
  <2> QED
    BY <1>4, <2>1 DEF AdjustCommit
<1>5. CASE ReleaseCommit(c)
  BY <1>5, AtFacts DEF ReleaseCommit, Ops
<1> QED
  BY <1>1, <1>2, <1>3, <1>4, <1>5 DEF Handle

\* A hold that was given back never keeps money again: adjust writes no status, place
\* inserts only where there is no row, and nothing else writes "held".
THEOREM ReleasedIsFinalHolds == HoldsSpec => ReleasedIsFinal
<1>1. HoldsTypeOK /\ [HoldsNext]_holdVars =>
        [\A r \in Refs : hold[r].status = "released" => hold'[r].status = "released"]_hold
  <2> SUFFICES ASSUME HoldsTypeOK, HoldsNext, NEW r \in Refs, hold[r].status = "released"
               PROVE  hold'[r].status = "released"
    BY DEF holdVars
  <2>1. CASE hold' = hold
    BY <2>1
  <2>2. ASSUME NEW q \in Refs, NEW m \in Amounts \cup {0}, hold[q] = NoHold,
               hold' = [hold EXCEPT ![q] = [status |-> "held", amount |-> m]]
        PROVE  hold'[r].status = "released"
    <3>1. q # r
      BY <2>2 DEF NoHold
    <3> QED
      BY <2>2, <3>1 DEF HoldsTypeOK
  <2>3. ASSUME NEW q \in Refs, NEW m, hold' = [hold EXCEPT ![q].amount = m]
        PROVE  hold'[r].status = "released"
    BY <2>3 DEF HoldsTypeOK
  <2>4. ASSUME NEW q \in Refs, hold' = [hold EXCEPT ![q].status = "released"]
        PROVE  hold'[r].status = "released"
    BY <2>4 DEF HoldsTypeOK
  <2> QED
    BY <2>1, <2>2, <2>3, <2>4, HoldSteps
<1> QED
  BY <1>1, HoldsTypeCorrect, PTL DEF HoldsSpec, ReleasedIsFinal

\* Only an adjust between its read and its write changes the amount of a hold.
THEOREM OnlyAdjustChangesAmountHolds == HoldsSpec => OnlyAdjustChangesAmount
<1> DEFINE A(r) == \E c \in Calls : /\ At(c, "adjust", "looked")
                                    /\ call[c].ref = r
                                    /\ hold'[r].amount = call[c].amount
                                    /\ call'[c].step = "answered"
<1>1. HoldsTypeOK /\ [HoldsNext]_holdVars =>
        [\A r \in Refs : hold[r] # NoHold /\ hold'[r].amount # hold[r].amount => A(r)]_hold
  <2> SUFFICES ASSUME HoldsTypeOK, HoldsNext, NEW r \in Refs,
                      hold[r] # NoHold, hold'[r].amount # hold[r].amount
               PROVE  A(r)
    BY DEF holdVars
  <2>1. PICK q \in Refs, c \in Calls :
          /\ At(c, "adjust", "looked")
          /\ call[c].ref = q
          /\ hold' = [hold EXCEPT ![q].amount = call[c].amount]
          /\ call'[c].step = "answered"
    <3>1. ASSUME NEW q \in Refs, NEW m \in Amounts \cup {0}, hold[q] = NoHold,
                 hold' = [hold EXCEPT ![q] = [status |-> "held", amount |-> m]]
          PROVE  FALSE
      <4>1. CASE q = r
        BY <3>1, <4>1
      <4>2. CASE q # r
        BY <3>1, <4>2 DEF HoldsTypeOK
      <4> QED
        BY <4>1, <4>2
    <3>2. ASSUME NEW q \in Refs, hold' = [hold EXCEPT ![q].status = "released"]
          PROVE  FALSE
      BY <3>2 DEF HoldsTypeOK
    <3> QED
      BY <3>1, <3>2, HoldSteps
  <2>2. q = r /\ hold'[q].amount = call[c].amount
    BY <2>1 DEF HoldsTypeOK
  <2> QED
    BY <2>1, <2>2
<1> QED
  BY <1>1, HoldsTypeCorrect, PTL DEF HoldsSpec, OnlyAdjustChangesAmount
----------------------------------------------------------------------------
(* The sum behind HeldOn.  A fold is a recursive function on the subsets of *)
(* what it folds; these lemmas say that the function exists on finite sets, *)
(* and that the order in which CHOOSE takes the elements does not matter.   *)

\* The recursion of the fold, for the sum of the amounts that a table h keeps.
Chosen(s) == CHOOSE r \in s : TRUE

SumStep(g, h, s) == IF s = {} THEN 0 ELSE h[Chosen(s)].amount + g[s \ {Chosen(s)}]

\* g obeys the recursion on every subset of S.
Sums(g, h, S) == \A s \in SUBSET S : g[s] = SumStep(g, h, s)

SumOn(h, S) == (CHOOSE g : g = [s \in SUBSET S |-> SumStep(g, h, s)])[S]

HeldRefs(a) == {r \in Refs : AccountOf[r] = a /\ hold[r].status = "held"}

LEMMA HeldIsSum == ASSUME NEW a PROVE HeldOn(a) = SumOn(hold, HeldRefs(a))
BY DEF HeldOn, MapThenSumSet, MapThenFoldSet, SumOn, SumStep, Chosen, HeldRefs

LEMMA HeldIsSumNext == ASSUME NEW a PROVE HeldOn(a)' = SumOn(hold', HeldRefs(a)')
BY DEF HeldOn, MapThenSumSet, MapThenFoldSet, SumOn, SumStep, Chosen, HeldRefs

\* Induction on the subsets of a finite set, as the existence of a least one among
\* those of which something is wrong.
LEMMA LeastSubset ==
  ASSUME NEW S, IsFiniteSet(S), NEW B \in SUBSET (SUBSET S), B # {}
  PROVE  \E s \in B : \A t \in B : t \subseteq s => t = s
<1>1. IsWellFoundedOn(StrictSubsetOrdering(S), FiniteSubsetsOf(S))
  BY FS_StrictSubsetOrderingWellFounded
<1>2. B \subseteq FiniteSubsetsOf(S)
  BY FS_FiniteSubsetsOfFinite
<1>3. PICK s \in B : \A t \in B : ~ (<<t, s>> \in StrictSubsetOrdering(S))
  BY <1>1, <1>2, WFMin
<1>4. ASSUME NEW t \in B, t \subseteq s
      PROVE  t = s
  BY <1>3, <1>4 DEF StrictSubsetOrdering
<1> QED
  BY <1>4

LEMMA ChosenIsIn == ASSUME NEW s, s # {} PROVE Chosen(s) \in s
BY DEF Chosen

\* Two functions that obey the recursion on a set agree on it, for tables that agree.
LEMMA SumsAgree ==
  ASSUME NEW S, IsFiniteSet(S), NEW g, NEW h, NEW g1, NEW h1,
         \A r \in S : h[r].amount = h1[r].amount, Sums(g, h, S), Sums(g1, h1, S)
  PROVE  \A s \in SUBSET S : g[s] = g1[s]
<1> DEFINE B == {s \in SUBSET S : g[s] # g1[s]}
<1> SUFFICES ASSUME B # {} PROVE FALSE
  OBVIOUS
<1>0. B \in SUBSET (SUBSET S)
  OBVIOUS
<1>1. PICK s \in B : \A t \in B : t \subseteq s => t = s
  <2> HIDE DEF B
  <2> QED
    BY <1>0, LeastSubset
<1>2. s \in SUBSET S /\ g[s] # g1[s]
  BY <1>1
<1>3. g[s] = SumStep(g, h, s) /\ g1[s] = SumStep(g1, h1, s)
  BY <1>2 DEF Sums
<1>4. s # {}
  BY <1>2, <1>3 DEF SumStep
<1> DEFINE x == Chosen(s)
<1>5. x \in s /\ x \in S
  BY <1>2, <1>4, ChosenIsIn
<1>6. s \ {x} \notin B
  BY <1>1, <1>5
<1>7. g[s \ {x}] = g1[s \ {x}]
  BY <1>2, <1>6
<1> QED
  BY <1>2, <1>3, <1>4, <1>5, <1>7 DEF SumStep

LEMMA SumsSubset ==
  ASSUME NEW S, NEW s \in SUBSET S, NEW g, NEW h, Sums(g, h, S)
  PROVE  Sums(g, h, s)
BY DEF Sums

\* Some function obeys the recursion on a finite set.
LEMMA SumsExist ==
  ASSUME NEW S, IsFiniteSet(S), NEW h
  PROVE  \E g : Sums(g, h, S)
<1> DEFINE G(s) == CHOOSE g : Sums(g, h, s)
           B == {s \in SUBSET S : ~ \E g : Sums(g, h, s)}
<1> SUFFICES ASSUME B # {} PROVE FALSE
  OBVIOUS
<1>0. B \in SUBSET (SUBSET S)
  OBVIOUS
<1>1. PICK s \in B : \A t \in B : t \subseteq s => t = s
  <2> HIDE DEF B
  <2> QED
    BY <1>0, LeastSubset
<1>2. s \in SUBSET S /\ ~ \E g : Sums(g, h, s)
  BY <1>1
<1>3. ASSUME NEW t \in SUBSET s, t # s
      PROVE  Sums(G(t), h, t)
  BY <1>1, <1>2, <1>3
<1> DEFINE g == [t \in SUBSET s |-> IF t = s THEN SumStep([u \in SUBSET s |-> G(u)[u]], h, s)
                                    ELSE G(t)[t]]
<1>4. ASSUME NEW t \in SUBSET s
      PROVE  g[t] = SumStep(g, h, t)
  <2>1. CASE t = {}
    <3>1. CASE t = s
      BY <2>1, <3>1 DEF SumStep
    <3>2. CASE t # s
      BY <1>3, <2>1, <3>2 DEF SumStep, Sums
    <3> QED
      BY <3>1, <3>2
  <2>2. CASE t # {}
    <3> DEFINE x == Chosen(t)
               u == t \ {x}
    <3>1. x \in t /\ u \in SUBSET s /\ u # s /\ u \in SUBSET t
      BY <2>2, ChosenIsIn
    <3>2. g[u] = G(u)[u]
      BY <3>1
    <3>3. CASE t = s
      BY <2>2, <3>1, <3>2, <3>3 DEF SumStep
    <3>4. CASE t # s
      <4>1. Sums(G(t), h, t) /\ Sums(G(u), h, u)
        BY <1>3, <3>1, <3>4
      <4>2. Sums(G(t), h, u)
        BY <3>1, <4>1, SumsSubset
      <4>3. IsFiniteSet(u)
        BY <1>2, <3>1, FS_Subset
      <4>4. G(t)[u] = G(u)[u]
        BY <4>1, <4>2, <4>3, SumsAgree
      <4>5. G(t)[t] = SumStep(G(t), h, t)
        BY <4>1 DEF Sums
      <4> QED
        BY <2>2, <3>2, <3>4, <4>4, <4>5 DEF SumStep
    <3> QED
      BY <3>3, <3>4
  <2> QED
    BY <2>1, <2>2
<1> HIDE DEF g
<1> QED
  BY <1>2, <1>4 DEF Sums

\* The function that SumOn chooses obeys the recursion.
LEMMA SumOnIsSum ==
  ASSUME NEW S, IsFiniteSet(S), NEW h
  PROVE  \E g : Sums(g, h, S) /\ SumOn(h, S) = g[S]
<1> DEFINE F(g) == g = [s \in SUBSET S |-> SumStep(g, h, s)]
           c == CHOOSE g : F(g)
<1>1. PICK g : Sums(g, h, S)
  BY SumsExist
<1> DEFINE f == [s \in SUBSET S |-> g[s]]
<1>2. ASSUME NEW s \in SUBSET S
      PROVE  f[s] = SumStep(f, h, s)
  <2>1. g[s] = SumStep(g, h, s)
    BY <1>1 DEF Sums
  <2>2. s # {} => s \ {Chosen(s)} \in SUBSET S
    OBVIOUS
  <2> QED
    BY <2>1, <2>2 DEF SumStep
<1>3. F(f)
  BY <1>2
<1>4. F(c)
  BY <1>3
<1>5. Sums(c, h, S)
  BY <1>4 DEF Sums
<1> QED
  BY <1>5 DEF SumOn

\* A sum over a table that keeps naturals is one, whichever element is taken first.
LEMMA SumsTakeOut ==
  ASSUME NEW S, IsFiniteSet(S), NEW g, NEW h, \A r \in S : h[r].amount \in Nat,
         Sums(g, h, S)
  PROVE  \A s \in SUBSET S :
           g[s] \in Nat /\ \A x \in s : g[s] = h[x].amount + g[s \ {x}]
<1> DEFINE P(s) == g[s] \in Nat /\ \A x \in s : g[s] = h[x].amount + g[s \ {x}]
           B == {s \in SUBSET S : ~ P(s)}
<1> SUFFICES ASSUME B # {} PROVE FALSE
  OBVIOUS
<1>0. B \in SUBSET (SUBSET S)
  OBVIOUS
<1>1. PICK s \in B : \A t \in B : t \subseteq s => t = s
  <2> HIDE DEF B
  <2> QED
    BY <1>0, LeastSubset
<1>2. s \in SUBSET S /\ ~ P(s)
  BY <1>1
<1>3. ASSUME NEW t \in SUBSET s, t # s
      PROVE  P(t)
  BY <1>1, <1>2, <1>3
<1>4. g[s] = SumStep(g, h, s)
  BY <1>2 DEF Sums
<1>5. CASE s = {}
  BY <1>2, <1>4, <1>5 DEF SumStep
<1>6. CASE s # {}
  <2> DEFINE y == Chosen(s)
  <2>1. y \in s /\ h[y].amount \in Nat
    BY <1>2, <1>6, ChosenIsIn
  <2>2. g[s] = h[y].amount + g[s \ {y}]
    BY <1>4, <1>6 DEF SumStep
  <2>3. P(s \ {y})
    BY <1>3, <2>1
  <2>4. g[s] \in Nat
    BY <2>1, <2>2, <2>3
  <2>5. ASSUME NEW x \in s
        PROVE  g[s] = h[x].amount + g[s \ {x}]
    <3>1. CASE x = y
      BY <2>2, <3>1
    <3>2. CASE x # y
      <4>1. g[s \ {y}] = h[x].amount + g[(s \ {y}) \ {x}]
        BY <2>3, <3>2
      <4>2. P(s \ {x})
        BY <1>3
      <4>3. g[s \ {x}] = h[y].amount + g[(s \ {x}) \ {y}]
        BY <2>1, <3>2, <4>2
      <4>4. (s \ {y}) \ {x} = (s \ {x}) \ {y}
        OBVIOUS
      <4>5. (s \ {x}) \ {y} \in SUBSET s /\ (s \ {x}) \ {y} # s
        OBVIOUS
      <4>6. g[(s \ {x}) \ {y}] \in Nat
        BY <1>3, <4>5
      <4>7. h[x].amount \in Nat
        BY <1>2
      <4>8. h[y].amount \in Nat
        BY <2>1
      <4>9. g[s] = h[y].amount + (h[x].amount + g[(s \ {x}) \ {y}])
        BY <2>2, <4>1, <4>4
      <4> HIDE DEF y
      <4> QED
        BY <4>3, <4>6, <4>7, <4>8, <4>9
    <3> QED
      BY <3>1, <3>2
  <2> QED
    BY <1>2, <2>4, <2>5
<1> QED
  BY <1>5, <1>6

\* What SumOn is, without its recursion: nothing on nothing, a natural, and the amount
\* of any one element with the sum of the others.
LEMMA SumOnFacts ==
  ASSUME NEW S, IsFiniteSet(S), NEW h, \A r \in S : h[r].amount \in Nat
  PROVE  /\ SumOn(h, S) \in Nat
         /\ S = {} => SumOn(h, S) = 0
         /\ \A x \in S : SumOn(h, S) = h[x].amount + SumOn(h, S \ {x})
<1>1. PICK g : Sums(g, h, S) /\ SumOn(h, S) = g[S]
  BY SumOnIsSum
<1>2. g[S] \in Nat /\ \A x \in S : g[S] = h[x].amount + g[S \ {x}]
  <2>1. \A s \in SUBSET S : g[s] \in Nat /\ \A x \in s : g[s] = h[x].amount + g[s \ {x}]
    BY <1>1, SumsTakeOut
  <2> QED
    BY <2>1
<1>3. S = {} => g[S] = 0
  BY <1>1 DEF Sums, SumStep
<1>4. ASSUME NEW x \in S
      PROVE  g[S \ {x}] = SumOn(h, S \ {x})
  <2>1. IsFiniteSet(S \ {x})
    BY FS_RemoveElement
  <2>2. PICK f : Sums(f, h, S \ {x}) /\ SumOn(h, S \ {x}) = f[S \ {x}]
    BY <2>1, SumOnIsSum
  <2>3. Sums(g, h, S \ {x})
    BY <1>1, SumsSubset
  <2> QED
    BY <2>1, <2>2, <2>3, SumsAgree
<1> QED
  BY <1>1, <1>2, <1>3, <1>4

\* The sum depends on the table only at the elements it is over.
LEMMA SumOnFrame ==
  ASSUME NEW S, IsFiniteSet(S), NEW h, NEW h1, \A r \in S : h[r].amount = h1[r].amount
  PROVE  SumOn(h, S) = SumOn(h1, S)
<1>1. PICK g : Sums(g, h, S) /\ SumOn(h, S) = g[S]
  BY SumOnIsSum
<1>2. PICK f : Sums(f, h1, S) /\ SumOn(h1, S) = f[S]
  BY SumOnIsSum
<1> QED
  BY <1>1, <1>2, SumsAgree

----------------------------------------------------------------------------
(* The ledger.                                                             *)

\* The holds under way are finitely many: each is of some request.
HeldIsFinite == IsFiniteSet({r \in Refs : hold[r].status = "held"})

\* Unless the history says otherwise, a hold has one adjust at a time.
AdjustsAlone ==
  \A c, d \in Calls :
    /\ At(c, "adjust", "looked")
    /\ At(d, "adjust", "looked")
    /\ call[c].ref = call[d].ref
    /\ c # d
    => call[c].ref \in overlapped

\* What an adjust read is then what it replaces: nothing else writes an amount.
SeenIsCurrent ==
  \A c \in Calls :
    At(c, "adjust", "looked") /\ call[c].ref \notin overlapped =>
      /\ hold[call[c].ref].status # "none"
      /\ call[c].seen = hold[call[c].ref].amount

LedgerInv ==
  HoldsTypeOK /\ HeldIsFinite /\ AdjustsAlone /\ SeenIsCurrent
              /\ WithinLedgerUnlessOverlapped

LEMMA LedgerInvInit == HoldsInit => LedgerInv
<1> SUFFICES ASSUME HoldsInit PROVE LedgerInv
  OBVIOUS
<1>1. HoldsTypeOK
  BY HoldsInitType
<1>2. {r \in Refs : hold[r].status = "held"} = {}
  BY DEF HoldsInit, NoHold
<1>3. HeldIsFinite
  BY <1>2, FS_EmptySet DEF HeldIsFinite
<1>4. AdjustsAlone /\ SeenIsCurrent
  BY DEF HoldsInit, AdjustsAlone, SeenIsCurrent, At, Idle
<1>5. ASSUME NEW a \in Accounts
      PROVE  HeldOn(a) <= Ledger[a]
  <2>1. HeldRefs(a) = {}
    BY <1>2 DEF HeldRefs
  <2>2. SumOn(hold, {}) = 0
    BY FS_EmptySet, SumOnFacts
  <2> QED
    BY <2>1, <2>2, HeldIsSum, HoldsAssumption
<1> QED
  BY <1>1, <1>3, <1>4, <1>5 DEF LedgerInv, WithinLedgerUnlessOverlapped

LEMMA AmountsAreNat == \A m \in Amounts \cup {0} : m \in Nat
BY HoldsAssumption DEF HoldsAssumption

\* The sums that HeldOn is about are of naturals over finite sets.
LEMMA HeldFacts ==
  ASSUME HoldsTypeOK, HeldIsFinite, NEW a \in Accounts
  PROVE  /\ IsFiniteSet(HeldRefs(a))
         /\ \A r \in Refs : hold[r].amount \in Nat
         /\ HeldOn(a) \in Nat
         /\ Ledger[a] \in Nat
         /\ \A r \in HeldRefs(a) :
              HeldOn(a) = hold[r].amount + SumOn(hold, HeldRefs(a) \ {r})
<1>1. IsFiniteSet(HeldRefs(a))
  <2>1. HeldRefs(a) \in SUBSET {r \in Refs : hold[r].status = "held"}
    BY DEF HeldRefs
  <2> QED
    BY <2>1, FS_Subset DEF HeldIsFinite
<1>2. \A r \in Refs : hold[r].amount \in Nat
  <2>1. \A r \in Refs : hold[r].amount \in Amounts \cup {0}
    BY DEF HoldsTypeOK
  <2> QED
    BY <2>1, AmountsAreNat
<1>3. \A r \in HeldRefs(a) : hold[r].amount \in Nat
  BY <1>2 DEF HeldRefs
<1> QED
  BY <1>1, <1>2, <1>3, SumOnFacts, HeldIsSum, HoldsAssumption

\* A step that leaves the table alone leaves what is held alone.
LEMMA HeldFrame ==
  ASSUME hold' = hold
  PROVE  /\ HeldIsFinite => HeldIsFinite'
         /\ \A a : HeldOn(a)' = HeldOn(a)
<1>1. ASSUME NEW a PROVE HeldOn(a)' = HeldOn(a)
  BY HeldIsSum, HeldIsSumNext DEF HeldRefs
<1> QED
  BY <1>1 DEF HeldIsFinite

LEMMA WithinFrame ==
  ASSUME WithinLedgerUnlessOverlapped, hold' = hold, overlapped \subseteq overlapped'
  PROVE  WithinLedgerUnlessOverlapped'
BY HeldFrame DEF WithinLedgerUnlessOverlapped

\* What a row counts for in the sum of its account.
Counted(row) == IF row.status = "held" THEN row.amount ELSE 0

\* What is held on an account after the row of r changed and no other.
LEMMA HeldAfter ==
  ASSUME HoldsTypeOK, HeldIsFinite, NEW r \in Refs, NEW row,
         row.amount \in Nat, hold' = [hold EXCEPT ![r] = row]
  PROVE  /\ HeldIsFinite'
         /\ \A a \in Accounts :
              IF AccountOf[r] # a THEN HeldOn(a)' = HeldOn(a)
              ELSE HeldOn(a)' = HeldOn(a) - Counted(hold[r]) + Counted(row)
<1> DEFINE T(a) == {q \in Refs : AccountOf[q] = a /\ hold'[q].status = "held"}
           R(a) == HeldRefs(a) \ {r}
           A == AccountOf[r]
<1>1. A \in Accounts
  BY HoldsAssumption
<1>2. \A q \in Refs : hold'[q] = IF q = r THEN row ELSE hold[q]
  BY DEF HoldsTypeOK
<1>3. HeldIsFinite'
  <2> DEFINE S == {q \in Refs : hold[q].status = "held"}
             S1 == {q \in Refs : hold'[q].status = "held"}
  <2>1. IsFiniteSet(S \cup {r})
    BY FS_AddElement DEF HeldIsFinite
  <2>2. S1 \in SUBSET (S \cup {r})
    BY <1>2
  <2>3. IsFiniteSet(S1)
    <3> HIDE DEF S, S1
    <3> QED
      BY <2>1, <2>2, FS_Subset
  <2> QED
    BY <2>3 DEF HeldIsFinite
<1>4. ASSUME NEW a PROVE HeldOn(a)' = SumOn(hold', T(a))
  BY HeldIsSumNext DEF HeldRefs
<1>5. ASSUME NEW a \in Accounts
      PROVE  /\ IsFiniteSet(R(a))
             /\ SumOn(hold', R(a)) = SumOn(hold, R(a))
             /\ SumOn(hold, R(a)) \in Nat
  <2>1. IsFiniteSet(R(a))
    BY HeldFacts, FS_RemoveElement
  <2>2. \A q \in R(a) : hold[q].amount = hold'[q].amount /\ hold[q].amount \in Nat
    BY <1>2, HeldFacts DEF HeldRefs
  <2> HIDE DEF R
  <2>3. SumOn(hold', R(a)) = SumOn(hold, R(a))
    BY <2>1, <2>2, SumOnFrame
  <2> QED
    BY <2>1, <2>2, <2>3, SumOnFacts
<1>6. ASSUME NEW a \in Accounts, A # a
      PROVE  HeldOn(a)' = HeldOn(a)
  <2>1. T(a) = R(a) /\ HeldRefs(a) = R(a)
    BY <1>2, <1>6 DEF HeldRefs
  <2> QED
    BY <1>4, <1>5, <2>1, HeldIsSum
<1>7. ASSUME NEW a \in Accounts, A = a
      PROVE  HeldOn(a) = SumOn(hold, R(a)) + Counted(hold[r])
  <2>1. CASE hold[r].status = "held"
    <3>1. r \in HeldRefs(a)
      BY <1>7, <2>1 DEF HeldRefs
    <3>2. hold[r].amount \in Nat
      BY HeldFacts
    <3>3. HeldOn(a) = hold[r].amount + SumOn(hold, R(a))
      BY <3>1, HeldFacts
    <3> QED
      BY <1>5, <2>1, <3>2, <3>3 DEF Counted
  <2>2. CASE hold[r].status # "held"
    <3>1. R(a) = HeldRefs(a)
      BY <2>2 DEF HeldRefs
    <3>2. HeldOn(a) = SumOn(hold, R(a))
      BY <3>1, HeldIsSum
    <3> HIDE DEF R
    <3> QED
      BY <1>5, <2>2, <3>2 DEF Counted
  <2> QED
    BY <2>1, <2>2
<1>8. ASSUME NEW a \in Accounts, A = a
      PROVE  HeldOn(a)' = SumOn(hold, R(a)) + Counted(row)
  <2>1. CASE row.status = "held"
    <3>1. r \in T(a) /\ T(a) \ {r} = R(a) /\ T(a) = R(a) \cup {r}
      BY <1>2, <1>8, <2>1 DEF HeldRefs
    <3>2. IsFiniteSet(T(a))
      <4>1. IsFiniteSet(R(a) \cup {r})
        BY <1>5, FS_AddElement
      <4> QED
        BY <3>1, <4>1
    <3>3. \A q \in T(a) : hold'[q].amount \in Nat
      BY <1>2, HeldFacts
    <3>4. SumOn(hold', T(a)) = hold'[r].amount + SumOn(hold', T(a) \ {r})
      <4> HIDE DEF T
      <4> QED
        BY <3>1, <3>2, <3>3, SumOnFacts
    <3>5. HeldOn(a)' = row.amount + SumOn(hold, R(a))
      BY <1>2, <1>4, <1>5, <3>1, <3>4
    <3> HIDE DEF R
    <3> QED
      BY <1>5, <2>1, <3>5 DEF Counted
  <2>2. CASE row.status # "held"
    <3>1. T(a) = R(a)
      BY <1>2, <2>2 DEF HeldRefs
    <3>2. HeldOn(a)' = SumOn(hold, R(a))
      BY <1>4, <1>5, <3>1
    <3> HIDE DEF R
    <3> QED
      BY <1>5, <2>2, <3>2 DEF Counted
  <2> QED
    BY <2>1, <2>2
<1>9. ASSUME NEW a \in Accounts, A = a
      PROVE  HeldOn(a)' = HeldOn(a) - Counted(hold[r]) + Counted(row)
  <2>1. Counted(hold[r]) \in Nat /\ Counted(row) \in Nat
    BY HeldFacts DEF Counted
  <2> HIDE DEF R
  <2> QED
    BY <1>5, <1>7, <1>8, <1>9, <2>1
<1> QED
  BY <1>3, <1>6, <1>9

----------------------------------------------------------------------------
(* Each operation keeps the invariant.                                     *)

\* A step of c that leaves the table alone and c not at an adjust's write: the adjusts
\* under way afterwards were under way before.
LEMMA AnsweredKeeps ==
  ASSUME LedgerInv, HoldsTypeOK', NEW c \in Calls,
         \A d \in Calls : d # c => call'[d] = call[d],
         ~ At(c, "adjust", "looked")', hold' = hold, overlapped' = overlapped
  PROVE  LedgerInv'
<1>1. \A d \in Calls : At(d, "adjust", "looked")' => d # c /\ At(d, "adjust", "looked")
                                                    /\ call'[d] = call[d]
  BY DEF At
<1>2. AdjustsAlone'
  BY <1>1 DEF LedgerInv, AdjustsAlone
<1>3. SeenIsCurrent'
  BY <1>1 DEF LedgerInv, SeenIsCurrent
<1>4. WithinLedgerUnlessOverlapped'
  BY WithinFrame DEF LedgerInv
<1>5. HeldIsFinite'
  BY HeldFrame DEF LedgerInv
<1> QED
  BY <1>2, <1>3, <1>4, <1>5 DEF LedgerInv

\* What the calls are after an answer.
LEMMA AnswerIsOwn ==
  ASSUME HoldsTypeOK, NEW c \in Calls, NEW a, Answer(c, a)
  PROVE  /\ \A d \in Calls : d # c => call'[d] = call[d]
         /\ ~ At(c, "adjust", "looked")'
BY DEF Answer, At, HoldsTypeOK

LEMMA SendLedger ==
  ASSUME LedgerInv, NEW c \in Calls, Send(c)
  PROVE  LedgerInv'
<1>1. HoldsTypeOK'
  BY SendType DEF LedgerInv
<1>2. PICK r \in Refs, op \in Ops, m \in Amounts \cup {0} : call' = Sent(c, op, r, m)
  BY DEF Send, Ops
<1>3. \A d \in Calls : d # c => call'[d] = call[d]
  BY <1>2 DEF Sent, LedgerInv, HoldsTypeOK
<1>4. ~ At(c, "adjust", "looked")'
  BY <1>2 DEF Sent, Request, LedgerInv, HoldsTypeOK, At
<1> QED
  BY <1>1, <1>3, <1>4, AnsweredKeeps DEF Send

LEMMA LookUpLedger ==
  ASSUME LedgerInv, NEW c \in Calls, PlaceLookUp(c) \/ ReleaseLookUp(c)
  PROVE  LedgerInv'
<1>1. HoldsTypeOK'
  BY PlaceType, ReleaseType DEF LedgerInv
<1>2. HoldsTypeOK
  BY DEF LedgerInv
<1>3. CASE \E a : Answer(c, a)
  BY <1>1, <1>2, <1>3, AnswerIsOwn, AnsweredKeeps DEF PlaceLookUp, ReleaseLookUp
<1>4. CASE Looked(c)
  <2>1. call[c] \in InFlight
    BY <1>2, AtFacts DEF PlaceLookUp, ReleaseLookUp, Ops
  <2>2. call[c].op # "adjust"
    BY DEF PlaceLookUp, ReleaseLookUp, At
  <2>3. call' = [call EXCEPT ![c] = [call[c] EXCEPT !.step = "looked",
                                                    !.seen = hold[call[c].ref].amount]]
    BY <1>4, <1>2 DEF Looked, HoldsTypeOK
  <2>4. call'[c].op # "adjust" /\ \A d \in Calls : d # c => call'[d] = call[d]
    BY <1>2, <2>1, <2>2, <2>3 DEF HoldsTypeOK, InFlight
  <2>5. ~ At(c, "adjust", "looked")'
    BY <2>4 DEF At
  <2> QED
    BY <1>1, <2>4, <2>5, AnsweredKeeps DEF PlaceLookUp, ReleaseLookUp
<1> QED
  BY <1>3, <1>4 DEF PlaceLookUp, ReleaseLookUp

LEMMA AdjustLookUpLedger ==
  ASSUME LedgerInv, NEW c \in Calls, AdjustLookUp(c)
  PROVE  LedgerInv'
<1> DEFINE r == call[c].ref
<1>1. HoldsTypeOK'
  BY AdjustType DEF LedgerInv
<1>2. HoldsTypeOK /\ hold' = hold
  BY DEF LedgerInv, AdjustLookUp
<1>3. call[c] \in InFlight
  BY <1>2, AtFacts DEF AdjustLookUp, Ops
<1>4. overlapped \subseteq overlapped'
  BY DEF AdjustLookUp
<1>5. WithinLedgerUnlessOverlapped' /\ HeldIsFinite'
  BY <1>2, <1>4, WithinFrame, HeldFrame DEF LedgerInv
<1>6. \A d \in Calls : d # c => call'[d] = call[d]
  BY <1>2 DEF AdjustLookUp, Answer, Looked, HoldsTypeOK
<1>7. At(c, "adjust", "looked")' => /\ call'[c].ref = r
                                    /\ call'[c].seen = hold[r].amount
                                    /\ hold[r].status = "held"
  <2>1. CASE Looked(c) /\ hold[r].status = "held"
    <3>1. call' = [call EXCEPT ![c] = [call[c] EXCEPT !.step = "looked",
                                                      !.seen = hold[r].amount]]
      BY <2>1, <1>2 DEF Looked, HoldsTypeOK
    <3> QED
      BY <2>1, <3>1, <1>2, <1>3 DEF HoldsTypeOK, InFlight
  <2>2. CASE \E a : Answer(c, a)
    BY <2>2, <1>2, AnswerIsOwn
  <2> QED
    BY <2>1, <2>2 DEF AdjustLookUp
<1>8. AdjustsAlone'
  <2>1. ASSUME NEW d \in Calls \ {c}, At(d, "adjust", "looked"), call[d].ref = r
        PROVE  r \in overlapped'
    BY <2>1 DEF AdjustLookUp
  <2>2. ASSUME NEW d \in Calls, NEW e \in Calls, d # e,
               At(d, "adjust", "looked")', At(e, "adjust", "looked")',
               call'[d].ref = call'[e].ref
        PROVE  call'[d].ref \in overlapped'
    <3>1. CASE d = c
      BY <1>6, <1>7, <2>1, <2>2, <3>1 DEF At
    <3>2. CASE e = c
      BY <1>6, <1>7, <2>1, <2>2, <3>2 DEF At
    <3>3. CASE d # c /\ e # c
      BY <1>4, <1>6, <2>2, <3>3 DEF At, LedgerInv, AdjustsAlone
    <3> QED
      BY <3>1, <3>2, <3>3
  <2> QED
    BY <2>2 DEF AdjustsAlone
<1>9. SeenIsCurrent'
  <2>1. ASSUME NEW d \in Calls, At(d, "adjust", "looked")', call'[d].ref \notin overlapped'
        PROVE  /\ hold'[call'[d].ref].status # "none"
               /\ call'[d].seen = hold'[call'[d].ref].amount
    <3>1. CASE d = c
      BY <1>2, <1>7, <2>1, <3>1
    <3>2. CASE d # c
      BY <1>2, <1>4, <1>6, <2>1, <3>2 DEF At, LedgerInv, SeenIsCurrent
    <3> QED
      BY <3>1, <3>2
  <2> QED
    BY <2>1 DEF SeenIsCurrent
<1> QED
  BY <1>1, <1>5, <1>8, <1>9 DEF LedgerInv

\* A step of c that writes one row, not by an adjust: amounts that adjusts read stay.
LEMMA RowKeeps ==
  ASSUME LedgerInv, NEW c \in Calls, NEW r \in Refs, NEW row,
         hold' = [hold EXCEPT ![r] = row], overlapped' = overlapped,
         \A d \in Calls : d # c => call'[d] = call[d],
         ~ At(c, "adjust", "looked")',
         hold[r].status # "none" => row.status # "none" /\ row.amount = hold[r].amount
  PROVE  AdjustsAlone' /\ SeenIsCurrent'
<1>1. \A d \in Calls : At(d, "adjust", "looked")' => d # c /\ At(d, "adjust", "looked")
                                                    /\ call'[d] = call[d]
  BY DEF At
<1>2. AdjustsAlone'
  BY <1>1 DEF LedgerInv, AdjustsAlone
<1>3. \A q \in Refs : hold'[q] = IF q = r THEN row ELSE hold[q]
  BY DEF LedgerInv, HoldsTypeOK
<1>4. SeenIsCurrent'
  <2> SUFFICES ASSUME NEW d \in Calls, At(d, "adjust", "looked")', call'[d].ref \notin overlapped'
               PROVE  /\ hold'[call'[d].ref].status # "none"
                      /\ call'[d].seen = hold'[call'[d].ref].amount
    BY DEF SeenIsCurrent
  <2>1. At(d, "adjust", "looked") /\ call'[d] = call[d] /\ call[d].ref \notin overlapped
    BY <1>1
  <2>2. call[d].ref \in Refs
    BY <2>1, AtFacts DEF Ops, LedgerInv
  <2>3. hold[call[d].ref].status # "none" /\ call[d].seen = hold[call[d].ref].amount
    BY <2>1 DEF LedgerInv, SeenIsCurrent
  <2> QED
    BY <1>3, <2>1, <2>2, <2>3
<1> QED
  BY <1>2, <1>4

LEMMA PlaceCommitLedger ==
  ASSUME LedgerInv, NEW c \in Calls, PlaceCommit(c)
  PROVE  LedgerInv'
<1> DEFINE r == call[c].ref
           m == call[c].amount
           row == [status |-> "held", amount |-> m]
<1>1. HoldsTypeOK /\ HoldsTypeOK' /\ HeldIsFinite /\ WithinLedgerUnlessOverlapped
  BY PlaceType DEF LedgerInv
<1>2. r \in Refs /\ m \in Amounts \cup {0}
  BY <1>1, AtFacts DEF PlaceCommit, Ops
<1>3. \A d \in Calls : d # c => call'[d] = call[d]
  BY <1>1, AnswerIsOwn DEF PlaceCommit
<1>4. ~ At(c, "adjust", "looked")'
  BY <1>1, AnswerIsOwn DEF PlaceCommit
<1>5. CASE hold' = hold
  BY <1>1, <1>3, <1>4, <1>5, AnsweredKeeps DEF PlaceCommit
<1>6. CASE /\ m <= Available(AccountOf[r])
           /\ hold[r] = NoHold
           /\ hold' = [hold EXCEPT ![r] = row]
  <2>1. hold[r].status = "none" /\ row.status = "held" /\ row.amount = m /\ m \in Nat
    BY <1>2, <1>6, AmountsAreNat DEF NoHold
  <2>2. AdjustsAlone' /\ SeenIsCurrent'
    BY <1>2, <1>3, <1>4, <1>6, <2>1, RowKeeps DEF PlaceCommit
  <2>3. /\ HeldIsFinite'
        /\ \A a \in Accounts :
             IF AccountOf[r] # a THEN HeldOn(a)' = HeldOn(a)
             ELSE HeldOn(a)' = HeldOn(a) - Counted(hold[r]) + Counted(row)
    <3> HIDE DEF row, m
    <3> QED
      BY <1>1, <1>2, <1>6, <2>1, HeldAfter
  <2>4. Counted(hold[r]) = 0 /\ Counted(row) = m
    BY <2>1 DEF Counted
  <2>5. WithinLedgerUnlessOverlapped'
    <3> SUFFICES ASSUME NEW a \in Accounts, ~ \E q \in overlapped : AccountOf[q] = a
                 PROVE  HeldOn(a)' <= Ledger[a]
      BY DEF WithinLedgerUnlessOverlapped, PlaceCommit
    <3>1. HeldOn(a) <= Ledger[a] /\ HeldOn(a) \in Nat /\ Ledger[a] \in Nat
      BY <1>1, HeldFacts DEF WithinLedgerUnlessOverlapped
    <3>2. CASE AccountOf[r] = a
      <4>1. m <= Ledger[a] - HeldOn(a)
        BY <1>6, <3>2 DEF Available
      <4>2. HeldOn(a)' = HeldOn(a) - 0 + m
        BY <2>3, <2>4, <3>2
      <4> HIDE DEF m
      <4> QED
        BY <2>1, <3>1, <4>1, <4>2
    <3>3. CASE AccountOf[r] # a
      BY <2>3, <3>1, <3>3
    <3> QED
      BY <3>2, <3>3
  <2> QED
    BY <1>1, <2>2, <2>3, <2>5 DEF LedgerInv
<1> QED
  BY <1>5, <1>6 DEF PlaceCommit

LEMMA ReleaseCommitLedger ==
  ASSUME LedgerInv, NEW c \in Calls, ReleaseCommit(c)
  PROVE  LedgerInv'
<1> DEFINE r == call[c].ref
           row == [hold[r] EXCEPT !.status = "released"]
<1>1. HoldsTypeOK /\ HoldsTypeOK' /\ HeldIsFinite /\ WithinLedgerUnlessOverlapped
  BY ReleaseType DEF LedgerInv
<1>2. r \in Refs /\ hold[r] \in [status: {"none", "held", "released"}, amount: Amounts \cup {0}]
  BY <1>1, AtFacts DEF ReleaseCommit, Ops
<1>3. \A d \in Calls : d # c => call'[d] = call[d]
  BY <1>1, AnswerIsOwn DEF ReleaseCommit
<1>4. ~ At(c, "adjust", "looked")'
  BY <1>1, AnswerIsOwn DEF ReleaseCommit
<1>5. hold' = [hold EXCEPT ![r] = row]
  BY <1>1 DEF ReleaseCommit, HoldsTypeOK
<1>6. row.status = "released" /\ row.amount = hold[r].amount /\ row.amount \in Nat
  BY <1>2, HoldsAssumption
<1> HIDE DEF row
<1>7. AdjustsAlone' /\ SeenIsCurrent'
  BY <1>2, <1>3, <1>4, <1>5, <1>6, RowKeeps DEF ReleaseCommit
<1>8. /\ HeldIsFinite'
      /\ \A a \in Accounts :
           IF AccountOf[r] # a THEN HeldOn(a)' = HeldOn(a)
           ELSE HeldOn(a)' = HeldOn(a) - Counted(hold[r]) + Counted(row)
  BY <1>1, <1>2, <1>5, <1>6, HeldAfter
<1>9. Counted(hold[r]) \in Nat /\ Counted(row) = 0
  BY <1>2, <1>6 DEF Counted
<1>10. WithinLedgerUnlessOverlapped'
  <2> SUFFICES ASSUME NEW a \in Accounts, ~ \E q \in overlapped : AccountOf[q] = a
               PROVE  HeldOn(a)' <= Ledger[a]
    BY DEF WithinLedgerUnlessOverlapped, ReleaseCommit
  <2>1. HeldOn(a) <= Ledger[a] /\ HeldOn(a) \in Nat /\ Ledger[a] \in Nat
    BY <1>1, HeldFacts DEF WithinLedgerUnlessOverlapped
  <2>2. HeldOn(a)' = HeldOn(a) \/ HeldOn(a)' = HeldOn(a) - Counted(hold[r]) + 0
    BY <1>8, <1>9
  <2> QED
    BY <1>9, <2>1, <2>2
<1> QED
  BY <1>1, <1>7, <1>8, <1>10 DEF LedgerInv

LEMMA AdjustCommitLedger ==
  ASSUME LedgerInv, NEW c \in Calls, AdjustCommit(c)
  PROVE  LedgerInv'
<1> DEFINE r == call[c].ref
           m == call[c].amount
           row == [hold[r] EXCEPT !.amount = m]
<1>1. HoldsTypeOK /\ HoldsTypeOK' /\ HeldIsFinite /\ WithinLedgerUnlessOverlapped
  BY AdjustType DEF LedgerInv
<1>2. /\ r \in Refs
      /\ m \in Amounts \cup {0}
      /\ hold[r] \in [status: {"none", "held", "released"}, amount: Amounts \cup {0}]
  BY <1>1, AtFacts DEF AdjustCommit, Ops
<1>3. \A d \in Calls : d # c => call'[d] = call[d]
  BY <1>1, AnswerIsOwn DEF AdjustCommit
<1>4. ~ At(c, "adjust", "looked")'
  BY <1>1, AnswerIsOwn DEF AdjustCommit
<1>5. CASE hold' = hold
  BY <1>1, <1>3, <1>4, <1>5, AnsweredKeeps DEF AdjustCommit
<1>6. CASE /\ ~ (m - call[c].seen > 0 /\ m - call[c].seen > Available(AccountOf[r]))
           /\ hold' = [hold EXCEPT ![r].amount = m]
  <2>1. hold' = [hold EXCEPT ![r] = row]
    BY <1>1, <1>6 DEF HoldsTypeOK
  <2>2. row.status = hold[r].status /\ row.amount = m /\ m \in Nat /\ hold[r].amount \in Nat
    BY <1>2, HoldsAssumption
  <2> HIDE DEF row
  <2>3. \A q \in Refs : q # r => hold'[q] = hold[q]
    BY <1>6, <1>1 DEF HoldsTypeOK
  <2>4. \A d \in Calls : At(d, "adjust", "looked")' => d # c /\ At(d, "adjust", "looked")
                                                      /\ call'[d] = call[d]
    BY <1>3, <1>4 DEF At
  <2>5. AdjustsAlone'
    BY <2>4 DEF LedgerInv, AdjustsAlone, AdjustCommit
  <2>6. SeenIsCurrent'
    <3> SUFFICES ASSUME NEW d \in Calls, At(d, "adjust", "looked")',
                        call'[d].ref \notin overlapped'
                 PROVE  /\ hold'[call'[d].ref].status # "none"
                        /\ call'[d].seen = hold'[call'[d].ref].amount
      BY DEF SeenIsCurrent
    <3>1. d # c /\ At(d, "adjust", "looked") /\ call'[d] = call[d] /\ call[d].ref \notin overlapped
      BY <2>4 DEF AdjustCommit
    <3>2. call[d].ref # r
      BY <3>1 DEF LedgerInv, AdjustsAlone, AdjustCommit
    <3>3. call[d].ref \in Refs
      BY <1>1, <3>1, AtFacts DEF Ops
    <3> QED
      BY <2>3, <3>1, <3>2, <3>3 DEF LedgerInv, SeenIsCurrent
  <2>7. /\ HeldIsFinite'
        /\ \A a \in Accounts :
             IF AccountOf[r] # a THEN HeldOn(a)' = HeldOn(a)
             ELSE HeldOn(a)' = HeldOn(a) - Counted(hold[r]) + Counted(row)
    BY <1>1, <1>2, <2>1, <2>2, HeldAfter
  <2>8. WithinLedgerUnlessOverlapped'
    <3> SUFFICES ASSUME NEW a \in Accounts, ~ \E q \in overlapped : AccountOf[q] = a
                 PROVE  HeldOn(a)' <= Ledger[a]
      BY DEF WithinLedgerUnlessOverlapped, AdjustCommit
    <3>1. HeldOn(a) <= Ledger[a] /\ HeldOn(a) \in Nat /\ Ledger[a] \in Nat
      BY <1>1, HeldFacts DEF WithinLedgerUnlessOverlapped
    <3>2. CASE AccountOf[r] = a
      <4>1. call[c].seen = hold[r].amount
        BY <3>2 DEF LedgerInv, SeenIsCurrent, AdjustCommit
      <4>2. m <= hold[r].amount \/ m - hold[r].amount <= Ledger[a] - HeldOn(a)
        BY <1>6, <2>2, <3>1, <3>2, <4>1 DEF Available
      <4>3. \/ Counted(hold[r]) = hold[r].amount /\ Counted(row) = m
            \/ Counted(hold[r]) = 0 /\ Counted(row) = 0
        BY <2>2 DEF Counted
      <4>4. HeldOn(a)' = HeldOn(a) - Counted(hold[r]) + Counted(row)
        BY <2>7, <3>2
      <4> HIDE DEF m
      <4> QED
        BY <2>2, <3>1, <4>2, <4>3, <4>4
    <3>3. CASE AccountOf[r] # a
      BY <2>7, <3>1, <3>3
    <3> QED
      BY <3>2, <3>3
  <2> QED
    BY <1>1, <2>5, <2>6, <2>7, <2>8 DEF LedgerInv
<1> QED
  BY <1>5, <1>6 DEF AdjustCommit

\* The holds of an account never exceed its ledger, unless two adjusts of one of its
\* holds overlapped: the invariant says that an adjust alone on its hold still finds
\* there what it read, so that the check it made of the difference is a check of the
\* new sum.
THEOREM WithinLedger == HoldsSpec => []WithinLedgerUnlessOverlapped
<1>1. LedgerInv /\ [HoldsNext]_holdVars => LedgerInv'
  <2> SUFFICES ASSUME LedgerInv, [HoldsNext]_holdVars
               PROVE  LedgerInv'
    OBVIOUS
  <2>1. CASE UNCHANGED holdVars
    <3>1. HoldsTypeOK' /\ AdjustsAlone' /\ SeenIsCurrent'
      BY <2>1 DEF holdVars, LedgerInv, HoldsTypeOK, AdjustsAlone, SeenIsCurrent, At
    <3>2. HeldIsFinite' /\ WithinLedgerUnlessOverlapped'
      BY <2>1, HeldFrame, WithinFrame DEF holdVars, LedgerInv
    <3> QED
      BY <3>1, <3>2 DEF LedgerInv
  <2>2. CASE HoldsNext
    <3>1. PICK c \in Calls : Send(c) \/ Handle(c)
      BY <2>2 DEF HoldsNext
    <3> QED
      BY <3>1, SendLedger, LookUpLedger, AdjustLookUpLedger, PlaceCommitLedger,
         ReleaseCommitLedger, AdjustCommitLedger DEF Handle
  <2> QED
    BY <2>1, <2>2
<1>2. LedgerInv => WithinLedgerUnlessOverlapped
  BY DEF LedgerInv
<1> QED
  BY <1>1, <1>2, LedgerInvInit, PTL DEF HoldsSpec

----------------------------------------------------------------------------
(* The catalogue's feed.                                                    *)

EventRows == [isin: Isins, content: Contents, kind: {"published", "updated"}]

\* A finite set is listed by SetToSeq: every element once.
LEMMA ListsTheSet ==
  ASSUME NEW S, IsFiniteSet(S), NEW m, m = Cardinality(S), NEW f, f = SetToSeq(S)
  PROVE  /\ m \in Nat /\ f \in [1..m -> S]
         /\ \A a, b \in 1..m : f[a] = f[b] => a = b
         /\ \A s \in S : \E a \in 1..m : f[a] = s
<1>1. m \in Nat /\ ExistsBijection(1..m, S)
  BY FS_CardinalityType
<1>2. PICK g \in [1..m -> S] : IsInjective(g)
  BY <1>1 DEF ExistsBijection, Bijection, Injection
<1>3. f \in [1..m -> S] /\ IsInjective(f)
  BY <1>2 DEF SetToSeq
<1>4. \A a, b \in 1..m : f[a] = f[b] => a = b
  BY <1>3 DEF IsInjective
<1>5. PICK T : T = {f[a] : a \in 1..m}
  OBVIOUS
<1>6. T \in SUBSET S /\ f \in [1..m -> T] /\ \A t \in T : \E a \in 1..m : f[a] = t
  BY <1>3, <1>5
<1>7. ExistsBijection(1..m, T)
  <2>1. \A t \in T : \E a \in 1..m : f[a] = t
    BY <1>6
  <2>2. f \in Bijection(1..m, T)
    BY <1>3, <1>6, <2>1 DEF Bijection, Injection, Surjection
  <2>3. QED
    BY <2>2 DEF ExistsBijection
<1>8. Cardinality(T) = m
  BY <1>1, <1>7, FS_CountingElements
<1>9. T = S
  BY <1>6, <1>8, FS_Subset
<1>10. QED
  BY <1>1, <1>3, <1>4, <1>6, <1>9

\* One synchronisation's events: one of each auction that changed.
OneOfEach(new, m) ==
  /\ m \in Nat /\ new \in [1..m -> EventRows]
  /\ \A n \in 1..m : new[n].isin \in Changed /\ new[n].content = sync[new[n].isin]
  /\ \A i \in Changed : \E n \in 1..m : new[n].isin = i
  /\ \A n, o \in 1..m : new[n].isin = new[o].isin => n = o

LEMMA NewRowsOfChanged ==
  ASSUME FeedTypeOK, sync # None
  PROVE  \E m : OneOfEach(NewRows, m)
<1>1. sync \in [Isins -> Contents \cup {None}]
  BY DEF FeedTypeOK
<1>2. Changed \in SUBSET Isins /\ \A i \in Changed : sync[i] \in Contents
  BY <1>1 DEF Changed
<1>3. IsFiniteSet(Changed)
  BY <1>2, FeedAssumption, FS_Subset
<1>4. PICK m, f : m = Cardinality(Changed) /\ f = SetToSeq(Changed)
  OBVIOUS
<1>5. /\ m \in Nat /\ f \in [1..m -> Changed]
      /\ \A a, b \in 1..m : f[a] = f[b] => a = b
      /\ \A s \in Changed : \E a \in 1..m : f[a] = s
  BY <1>3, <1>4, ListsTheSet
<1>6. NewRows = [n \in 1..m |-> Row(f[n])]
  BY <1>4 DEF NewRows
<1>7. ASSUME NEW i \in Changed
      PROVE  Row(i) \in EventRows /\ Row(i).isin = i /\ Row(i).content = sync[i]
  BY <1>2 DEF Row, EventRows
<1>8. \A n \in 1..m : f[n] \in Changed /\ NewRows[n] = Row(f[n])
  BY <1>5, <1>6
<1>9. /\ \A n \in 1..m : NewRows[n] \in EventRows /\ NewRows[n].isin = f[n] /\ NewRows[n].content = sync[f[n]]
  BY <1>7, <1>8
<1>10. NewRows \in [1..m -> EventRows]
  BY <1>6, <1>9
<1>11. OneOfEach(NewRows, m)
  BY <1>5, <1>8, <1>9, <1>10 DEF OneOfEach
<1>12. QED
  BY <1>11

LEMMA FeedInitInv == FeedInit => FeedInv
<1> SUFFICES ASSUME FeedInit PROVE FeedInv
  OBVIOUS
<1>1. rows = <<>> /\ reached = {} /\ queue = {}
  BY DEF FeedInit, Outbox!ChannelInit
<1>2. /\ bot \in [Isins -> Contents \cup {None}] /\ sync = None /\ closing = {}
      /\ snapshot = [i \in Isins |-> None]
      /\ catalogue \in [Isins -> CatalogueRows \cup {None}]
      /\ writer = [w \in Writers |-> Free]
  BY DEF FeedInit
<1>3. writer \in [Writers -> WriterStates] /\ \A w \in Writers : writer[w].pc = "free"
  BY <1>2 DEF WriterStates, Free
<1>4. rows \in Seq(EventRows) /\ DOMAIN rows = {}
  BY <1>1
<1>5. FeedTypeOK
  BY <1>1, <1>2, <1>3, <1>4 DEF FeedTypeOK, EventRows
<1>6. SnapshotIsAnnounced
  BY <1>2, <1>4 DEF SnapshotIsAnnounced, EventsOf
<1>7. QED
  BY <1>2, <1>3, <1>5, <1>6 DEF FeedInv, SnapshotIsKept, SeenIsThere

\* What the gateway does leaves the catalogue and its writers alone, and the other way round.
LEMMA AnnouncedStays ==
  ASSUME SnapshotIsAnnounced, rows' = rows, snapshot' = snapshot
  PROVE  SnapshotIsAnnounced'
BY DEF SnapshotIsAnnounced, EventsOf

LEMMA SeenStays ==
  ASSUME SeenIsThere, writer' = writer, catalogue' = catalogue, closing' = closing
  PROVE  SeenIsThere'
BY DEF SeenIsThere

LEMMA BotChangesInv ==
  ASSUME FeedInv, NEW i \in Isins, NEW c \in Contents, BotChanges(i, c)
  PROVE  FeedInv'
<1>1. /\ rows' = rows /\ queue' = queue /\ reached' = reached /\ sync' = sync /\ snapshot' = snapshot
      /\ catalogue' = catalogue /\ writer' = writer /\ closing' = closing /\ bot' = [bot EXCEPT ![i] = c]
  BY DEF BotChanges, outbox, auctions
<1>2. FeedTypeOK'
  BY <1>1 DEF FeedInv, SnapshotIsKept, FeedTypeOK
<1>3. SnapshotIsAnnounced' /\ SeenIsThere'
  BY <1>1, AnnouncedStays, SeenStays DEF FeedInv, SnapshotIsKept
<1>4. QED
  BY <1>2, <1>3 DEF FeedInv, SnapshotIsKept

LEMMA SyncInv ==
  ASSUME FeedInv, SyncFetch \/ SyncFails
  PROVE  FeedInv'
<1>1. /\ rows' = rows /\ queue' = queue /\ reached' = reached /\ bot' = bot /\ snapshot' = snapshot
      /\ catalogue' = catalogue /\ writer' = writer /\ closing' = closing /\ (sync' = bot \/ sync' = None)
  BY DEF SyncFetch, SyncFails, outbox, auctions
<1>2. FeedTypeOK'
  BY <1>1 DEF FeedInv, SnapshotIsKept, FeedTypeOK
<1>3. SnapshotIsAnnounced' /\ SeenIsThere'
  BY <1>1, AnnouncedStays, SeenStays DEF FeedInv, SnapshotIsKept
<1>4. QED
  BY <1>2, <1>3 DEF FeedInv, SnapshotIsKept

\* The snapshots and the events of what changed, or neither.
LEMMA ApplyInv ==
  ASSUME FeedInv, Apply
  PROVE  FeedInv'
<1>1. /\ queue' = queue /\ reached' = reached /\ bot' = bot /\ sync # None /\ sync' = None
      /\ catalogue' = catalogue /\ writer' = writer /\ closing' = closing
  BY DEF Apply, ApplyRows, auctions
<1>2. /\ rows \in Seq(EventRows) /\ reached \subseteq DOMAIN rows
      /\ sync \in [Isins -> Contents \cup {None}] /\ snapshot \in [Isins -> Contents \cup {None}]
      /\ FeedTypeOK /\ SnapshotIsAnnounced
  BY <1>1 DEF FeedInv, SnapshotIsKept, FeedTypeOK, EventRows
<1>3. SeenIsThere'
  BY <1>1, SeenStays DEF FeedInv
<1>4. CASE UNCHANGED <<rows, snapshot>>
  <2>1. FeedTypeOK'
    BY <1>1, <1>4 DEF FeedInv, SnapshotIsKept, FeedTypeOK
  <2>2. QED
    BY <1>3, <1>4, <2>1, AnnouncedStays DEF FeedInv, SnapshotIsKept
<1>5. CASE /\ rows' = rows \o NewRows
           /\ snapshot' = [i \in Isins |-> IF i \in Changed THEN sync[i] ELSE snapshot[i]]
  <2>1. PICK m : OneOfEach(NewRows, m)
    BY <1>1, <1>2, NewRowsOfChanged
  <2>2. PICK new : new = NewRows
    OBVIOUS
  <2>3. /\ m \in Nat /\ new \in [1..m -> EventRows]
        /\ \A n \in 1..m : new[n].isin \in Changed /\ new[n].content = sync[new[n].isin]
        /\ \A i \in Changed : \E n \in 1..m : new[n].isin = i
        /\ \A n, o \in 1..m : new[n].isin = new[o].isin => n = o
    BY <2>1, <2>2 DEF OneOfEach
  <2>4. new \in Seq(EventRows) /\ Len(new) = m
    BY <2>3
  <2>5. PICK len : len \in Nat /\ len = Len(rows) /\ DOMAIN rows = 1..len
    BY <1>2
  <2>6. /\ rows' \in Seq(EventRows) /\ DOMAIN rows' = 1..(len + m)
        /\ \A k \in 1..len : rows'[k] = rows[k]
        /\ \A n \in 1..m : rows'[len + n] = new[n]
    BY <1>2, <1>5, <2>2, <2>4, <2>5
  <2>7. snapshot' \in [Isins -> Contents \cup {None}]
    BY <1>2, <1>5
  <2>8. reached \subseteq DOMAIN rows'
    BY <1>2, <2>3, <2>5, <2>6
  <2>9. FeedTypeOK'
    BY <1>1, <2>6, <2>7, <2>8 DEF FeedInv, SnapshotIsKept, FeedTypeOK, EventRows
  <2>10. ASSUME NEW i \in Isins
         PROVE  \/ EventsOf(i)' = {} /\ snapshot'[i] = None
                \/ \E k \in EventsOf(i)' : snapshot'[i] = rows'[k].content /\ \A j \in EventsOf(i)' : j <= k
    <3>1. PICK E, F : E = EventsOf(i) /\ F = {k \in DOMAIN rows' : rows'[k].isin = i}
      OBVIOUS
    <3>2. EventsOf(i)' = F
      BY <3>1 DEF EventsOf
    <3>3. E = {k \in 1..len : rows[k].isin = i}
      BY <2>5, <3>1 DEF EventsOf
    <3>4. CASE i \in Changed
      <4>1. PICK n \in 1..m : new[n].isin = i
        BY <2>3, <3>4
      <4>2. PICK k : k = len + n
        OBVIOUS
      <4>3. k \in DOMAIN rows' /\ rows'[k] = new[n]
        BY <2>3, <2>5, <2>6, <4>1, <4>2
      <4>4. k \in F /\ rows'[k].content = sync[i]
        BY <2>3, <3>1, <4>1, <4>3
      <4>5. ASSUME NEW j \in F PROVE j <= k
        <5>1. j \in 1..(len + m) /\ rows'[j].isin = i
          BY <2>6, <3>1
        <5>2. CASE j <= len
          BY <2>5, <4>1, <4>2, <5>1, <5>2
        <5>3. CASE j > len
          <6>1. PICK o : o \in 1..m /\ j = len + o
            <7>1. j - len \in 1..m /\ j = len + (j - len)
              BY <2>3, <2>5, <5>1, <5>3
            <7>2. QED
              BY <7>1
          <6>2. new[o].isin = i
            BY <2>6, <5>1, <6>1
          <6>3. o = n
            BY <2>3, <4>1, <6>1, <6>2
          <6>4. QED
            BY <2>5, <4>2, <6>1, <6>3
        <5>4. QED
          BY <2>3, <2>5, <5>1, <5>2, <5>3
      <4>6. snapshot'[i] = sync[i]
        BY <1>5, <3>4
      <4>7. QED
        BY <3>2, <4>4, <4>5, <4>6
    <3>5. CASE i \notin Changed
      <4>1. snapshot'[i] = snapshot[i]
        BY <1>5, <3>5
      <4>2. F = E
        <5>1. ASSUME NEW k \in F PROVE k \in E
          <6>1. k \in 1..(len + m) /\ rows'[k].isin = i
            BY <2>6, <3>1
          <6>2. CASE k > len
            <7>1. k - len \in 1..m /\ k = len + (k - len)
              BY <2>3, <2>5, <6>1, <6>2
            <7>2. PICK o : o \in 1..m /\ k = len + o
              BY <7>1
            <7>3. new[o].isin = i
              BY <2>6, <6>1, <7>2
            <7>4. QED
              BY <2>3, <3>5, <7>2, <7>3
          <6>3. CASE k <= len
            <7>1. k \in 1..len
              BY <2>5, <6>1, <6>3
            <7>2. QED
              BY <2>6, <3>3, <6>1, <7>1
          <6>4. QED
            BY <2>3, <2>5, <6>1, <6>2, <6>3
        <5>2. ASSUME NEW k \in E PROVE k \in F
          <6>1. k \in 1..len /\ rows[k].isin = i
            BY <3>3
          <6>2. k \in 1..(len + m)
            BY <2>3, <2>5, <6>1
          <6>3. QED
            BY <2>6, <3>1, <6>1, <6>2
        <5>3. QED
          BY <5>1, <5>2
      <4>3. \A k \in E : rows'[k] = rows[k]
        BY <2>6, <3>3
      <4>4. \/ E = {} /\ snapshot[i] = None
            \/ \E k \in E : snapshot[i] = rows[k].content /\ \A j \in E : j <= k
        BY <1>2, <3>1 DEF SnapshotIsAnnounced
      <4>5. QED
        BY <3>2, <4>1, <4>2, <4>3, <4>4
    <3>6. QED
      BY <3>4, <3>5
  <2>11. SnapshotIsAnnounced'
    BY <2>10 DEF SnapshotIsAnnounced
  <2>12. QED
    BY <1>3, <2>9, <2>11 DEF FeedInv, SnapshotIsKept
<1>6. QED
  BY <1>4, <1>5 DEF Apply, ApplyRows

\* The states of a writer, one kind at a time.
Reading(s) == s.pc = "read" /\ s.id \in Nat \cup {None} /\ s.list \in Lists

Writing(s) ==
  /\ s.pc = "write" /\ s.id \in Nat \cup {None} /\ s.list \in Lists
  /\ s.at \in Isins /\ s.saw \in CatalogueRows \cup {None}

LEMMA WriterKinds ==
  ASSUME FeedTypeOK, NEW w \in Writers
  PROVE  /\ writer[w].pc = "read" => Reading(writer[w])
         /\ writer[w].pc = "write" => Writing(writer[w])
<1>1. writer[w] \in WriterStates
  BY DEF FeedTypeOK
<1>2. \/ writer[w].pc = "free"
      \/ writer[w] \in [pc: {"read"}, id: Nat \cup {None}, list: Lists]
      \/ writer[w] \in [pc: {"write"}, id: Nat \cup {None}, list: Lists, at: Isins,
                        saw: CatalogueRows \cup {None}]
  BY <1>1 DEF WriterStates, Free
<1>3. QED
  BY <1>2 DEF Reading, Writing

LEMMA ListOf ==
  ASSUME NEW notified, notified \in SUBSET Isins, notified # {}, NEW list \in [notified -> Contents]
  PROVE  list \in Lists
BY DEF Lists

LEMMA OfLists ==
  ASSUME NEW list \in Lists
  PROVE  /\ DOMAIN list \in SUBSET Isins /\ DOMAIN list # {}
         /\ \A i \in DOMAIN list : list[i] \in Contents
<1>1. PICK notified \in (SUBSET Isins) \ {{}} : list \in [notified -> Contents]
  BY DEF Lists
<1>2. QED
  BY <1>1

\* One writer moves on, and the row it may write is still one.
LEMMA OneWriterInv ==
  ASSUME FeedInv, NEW w \in Writers, NEW s \in WriterStates,
         s.pc = "write" => s.at \in DOMAIN s.list /\ (s.saw # None => catalogue'[s.at] # None),
         writer' = [writer EXCEPT ![w] = s],
         rows' = rows, reached' = reached, queue' \subseteq queue \/ queue' = queue,
         bot' = bot, sync' = sync, snapshot' = snapshot, closing' = closing,
         catalogue' \in [Isins -> CatalogueRows \cup {None}],
         \A i \in Isins : catalogue[i] # None => catalogue'[i] # None
  PROVE  FeedInv'
<1>1. FeedTypeOK /\ SnapshotIsAnnounced /\ SeenIsThere
  BY DEF FeedInv, SnapshotIsKept
<1>2. writer' \in [Writers -> WriterStates]
  BY <1>1 DEF FeedTypeOK
<1>3. FeedTypeOK'
  BY <1>1, <1>2 DEF FeedTypeOK
<1>4. SeenIsThere'
  <2>1. ASSUME NEW v \in Writers, writer'[v].pc = "write"
        PROVE  /\ writer'[v].at \in DOMAIN writer'[v].list
               /\ writer'[v].saw # None => catalogue'[writer'[v].at] # None
    <3>1. CASE v = w
      <4>1. writer'[v] = s
        BY <1>1, <3>1 DEF FeedTypeOK
      <4>2. QED
        BY <2>1, <4>1
    <3>2. CASE v # w
      <4>1. writer'[v] = writer[v]
        BY <1>1, <3>2 DEF FeedTypeOK
      <4>2. PICK k : k = writer[v]
        OBVIOUS
      <4>3. k.at \in DOMAIN k.list /\ (k.saw # None => catalogue[k.at] # None)
        BY <1>1, <2>1, <4>1, <4>2 DEF SeenIsThere
      <4>4. k.at \in Isins
        BY <1>1, <2>1, <4>1, <4>2, WriterKinds DEF Writing
      <4>5. QED
        BY <4>1, <4>2, <4>3, <4>4
    <3>3. QED
      BY <3>1, <3>2
  <2>2. \A i \in closing' : i \in Isins /\ catalogue'[i] # None
    BY <1>1 DEF SeenIsThere
  <2>3. QED
    BY <2>1, <2>2 DEF SeenIsThere
<1>5. SnapshotIsAnnounced'
  BY <1>1, AnnouncedStays
<1>6. QED
  BY <1>3, <1>4, <1>5 DEF FeedInv, SnapshotIsKept

LEMMA FreeIsState == Free \in WriterStates /\ Free.pc = "free"
BY DEF Free, WriterStates

LEMMA CatalogueTyped ==
  ASSUME FeedInv
  PROVE  /\ catalogue \in [Isins -> CatalogueRows \cup {None}]
         /\ rows \in Seq(EventRows) /\ queue \subseteq DOMAIN rows
         /\ snapshot \in [Isins -> Contents \cup {None}]
BY DEF FeedInv, SnapshotIsKept, FeedTypeOK, EventRows

LEMMA DeliverInv ==
  ASSUME FeedInv, NEW h \in Handlers, NEW k \in queue, Deliver(h, k)
  PROVE  FeedInv'
<1>1. k \in DOMAIN rows /\ rows[k] \in EventRows /\ k \in Nat /\ h \in Writers
  <2>1. k \in DOMAIN rows /\ rows \in Seq(EventRows)
    BY CatalogueTyped
  <2>2. QED
    BY <2>1 DEF Writers
<1>2. PICK i \in Isins : i = rows[k].isin
  BY <1>1 DEF EventRows
<1>3. PICK list : list = [j \in {i} |-> rows[k].content]
  OBVIOUS
<1>4. list \in [{i} -> Contents]
  BY <1>1, <1>3 DEF EventRows
<1>5. list \in Lists
  BY <1>4, ListOf
<1>6. PICK s : s = [pc |-> "read", id |-> k, list |-> list]
  OBVIOUS
<1>7. s \in WriterStates /\ s.pc = "read"
  BY <1>1, <1>5, <1>6 DEF WriterStates
<1>8. writer' = [writer EXCEPT ![h] = s]
  BY <1>2, <1>3, <1>6 DEF Deliver
<1>9. /\ rows' = rows /\ reached' = reached /\ queue' = queue /\ bot' = bot /\ sync' = sync
      /\ snapshot' = snapshot /\ catalogue' = catalogue /\ closing' = closing
  BY DEF Deliver, outbox, gateway
<1>10. QED
  BY <1>1, <1>7, <1>8, <1>9, OneWriterInv, CatalogueTyped

LEMMA RefreshInv ==
  ASSUME FeedInv, Refresh
  PROVE  FeedInv'
<1>1. PICK known : known = {i \in Isins : snapshot[i] # None}
  OBVIOUS
<1>2. known # {} /\ known \in SUBSET Isins
  BY <1>1 DEF Refresh
<1>3. PICK list : list = Restrict(snapshot, known)
  OBVIOUS
<1>4. list \in [known -> Contents]
  BY <1>1, <1>3, CatalogueTyped DEF Restrict
<1>5. list \in Lists
  BY <1>2, <1>4, ListOf
<1>6. PICK s : s = [pc |-> "read", id |-> None, list |-> list]
  OBVIOUS
<1>7. s \in WriterStates /\ s.pc = "read"
  BY <1>5, <1>6 DEF WriterStates
<1>8. writer' = [writer EXCEPT !["refresher"] = s] /\ "refresher" \in Writers
  BY <1>1, <1>3, <1>6 DEF Refresh, Writers
<1>9. /\ rows' = rows /\ reached' = reached /\ queue' = queue /\ bot' = bot /\ sync' = sync
      /\ snapshot' = snapshot /\ catalogue' = catalogue /\ closing' = closing
  BY DEF Refresh, outbox, gateway
<1>10. QED
  BY <1>7, <1>8, <1>9, OneWriterInv, CatalogueTyped

LEMMA ReadRowInv ==
  ASSUME FeedInv, NEW w \in Writers, ReadRow(w)
  PROVE  FeedInv'
<1>1. PICK k : k = writer[w]
  OBVIOUS
<1>2. FeedTypeOK /\ k.pc = "read"
  BY <1>1 DEF FeedInv, SnapshotIsKept, ReadRow
<1>3. k.id \in Nat \cup {None} /\ k.list \in Lists
  BY <1>1, <1>2, WriterKinds DEF Reading
<1>4. PICK i : i = CHOOSE j \in DOMAIN k.list : TRUE
  OBVIOUS
<1>5. i \in DOMAIN k.list /\ i \in Isins
  BY <1>3, <1>4, OfLists
<1>6. PICK row : row = catalogue[i]
  OBVIOUS
<1>7. row \in CatalogueRows \cup {None}
  BY <1>5, <1>6, CatalogueTyped
<1>8. PICK s : s = [pc |-> "write", id |-> k.id, list |-> k.list, at |-> i, saw |-> row]
  OBVIOUS
<1>9. s \in WriterStates /\ s.pc = "write" /\ s.at = i /\ s.list = k.list /\ s.saw = row
  BY <1>3, <1>5, <1>7, <1>8 DEF WriterStates
<1>10. writer' = [writer EXCEPT ![w] = s]
  BY <1>1, <1>4, <1>6, <1>8 DEF ReadRow
<1>11. /\ rows' = rows /\ reached' = reached /\ queue' = queue /\ bot' = bot /\ sync' = sync
       /\ snapshot' = snapshot /\ catalogue' = catalogue /\ closing' = closing
  BY DEF ReadRow, outbox, gateway
<1>12. s.saw # None => catalogue'[s.at] # None
  BY <1>6, <1>9, <1>11
<1>13. QED
  BY <1>5, <1>9, <1>10, <1>11, <1>12, OneWriterInv, CatalogueTyped

\* Where a writer goes once it has written, or has failed to.
LEMMA AdvanceState ==
  ASSUME FeedInv, NEW w \in Writers, writer[w].pc = "write", Advance(w) \/ Throw(w)
  PROVE  /\ \E s \in WriterStates : s.pc # "write" /\ writer' = [writer EXCEPT ![w] = s]
         /\ rows' = rows /\ reached' = reached /\ (queue' \subseteq queue \/ queue' = queue)
<1>1. CASE Advance(w)
  <2>1. PICK k : k = writer[w]
    OBVIOUS
  <2>2. k.list \in Lists /\ k.id \in Nat \cup {None}
    BY <2>1, WriterKinds DEF FeedInv, SnapshotIsKept, Writing
  <2>3. PICK rest : rest = DOMAIN k.list \ {k.at}
    OBVIOUS
  <2>4. PICK s : s = IF rest = {} THEN Free ELSE [pc |-> "read", id |-> k.id, list |-> Restrict(k.list, rest)]
    OBVIOUS
  <2>5. writer' = [writer EXCEPT ![w] = s]
    BY <1>1, <2>1, <2>3, <2>4 DEF Advance
  <2>6. s \in WriterStates /\ s.pc # "write"
    <3>1. CASE rest = {}
      BY <2>4, <3>1, FreeIsState
    <3>2. CASE rest # {}
      <4>1. Restrict(k.list, rest) \in [rest -> Contents] /\ rest \in SUBSET Isins
        BY <2>2, <2>3, OfLists DEF Restrict
      <4>2. PICK list \in Lists : list = Restrict(k.list, rest)
        BY <3>2, <4>1, ListOf
      <4>3. s = [pc |-> "read", id |-> k.id, list |-> list]
        BY <2>4, <3>2, <4>2
      <4>4. QED
        BY <2>2, <4>3 DEF WriterStates
    <3>3. QED
      BY <3>1, <3>2
  <2>7. rows' = rows /\ reached' = reached /\ (queue' \subseteq queue \/ queue' = queue)
    <3>1. CASE w \in Handlers
      BY <1>1, <3>1 DEF Advance, Outbox!Ack
    <3>2. CASE w \notin Handlers
      BY <1>1, <3>2 DEF Advance, outbox
    <3>3. QED
      BY <3>1, <3>2
  <2>8. QED
    BY <2>5, <2>6, <2>7
<1>2. CASE Throw(w)
  BY <1>2, FreeIsState DEF Throw, outbox
<1>3. QED
  BY <1>1, <1>2

\* One row of the catalogue is written.
RowWritten(i) ==
  \/ catalogue' = catalogue
  \/ \E row \in CatalogueRows : catalogue' = [catalogue EXCEPT ![i] = row]

LEMMA RowWrittenTyped ==
  ASSUME FeedInv, NEW i \in Isins, RowWritten(i)
  PROVE  /\ catalogue' \in [Isins -> CatalogueRows \cup {None}]
         /\ \A j \in Isins : catalogue[j] # None => catalogue'[j] # None
<1>1. catalogue \in [Isins -> CatalogueRows \cup {None}]
  BY CatalogueTyped
<1>2. CASE catalogue' = catalogue
  BY <1>1, <1>2
<1>3. ASSUME NEW row \in CatalogueRows, catalogue' = [catalogue EXCEPT ![i] = row]
      PROVE  /\ catalogue' \in [Isins -> CatalogueRows \cup {None}]
             /\ \A j \in Isins : catalogue[j] # None => catalogue'[j] # None
  BY <1>1, <1>3, FeedAssumption
<1>4. QED
  BY <1>2, <1>3 DEF RowWritten

LEMMA WriteInv ==
  ASSUME FeedInv, NEW w \in Writers, NEW i \in Isins, writer[w].pc = "write", Advance(w) \/ Throw(w),
         RowWritten(i), bot' = bot, sync' = sync, snapshot' = snapshot, closing' = closing
  PROVE  FeedInv'
<1>1. PICK s \in WriterStates : s.pc # "write" /\ writer' = [writer EXCEPT ![w] = s]
  BY AdvanceState
<1>2. rows' = rows /\ reached' = reached /\ (queue' \subseteq queue \/ queue' = queue)
  BY AdvanceState
<1>3. QED
  BY <1>1, <1>2, RowWrittenTyped, OneWriterInv

\* What a writer was told of the auction it is at.
LEMMA ToldTyped ==
  ASSUME FeedInv, NEW w \in Writers, writer[w].pc = "write"
  PROVE  Told(w) \in Contents /\ Told(w).date \in Dates
<1>1. PICK k : k = writer[w]
  OBVIOUS
<1>2. k.list \in Lists /\ k.at \in DOMAIN k.list
  BY <1>1, WriterKinds DEF FeedInv, SnapshotIsKept, SeenIsThere, Writing
<1>3. k.list[k.at] \in Contents
  BY <1>2, OfLists
<1>4. Told(w) \in Contents
  BY <1>1, <1>3 DEF Told
<1>5. QED
  BY <1>4 DEF Contents

LEMMA CreateRowInv ==
  ASSUME FeedInv, NEW w \in Writers, NEW i \in Isins, CreateRow(w, i)
  PROVE  FeedInv'
<1>1. /\ writer[w].pc = "write" /\ (Advance(w) \/ Throw(w))
      /\ bot' = bot /\ sync' = sync /\ snapshot' = snapshot /\ closing' = closing
  BY DEF CreateRow, Writes, gateway
<1>2. PICK notified \in Contents : notified = Told(w) /\ notified.date \in Dates
  BY <1>1, ToldTyped
<1>3. PICK row : row = [content |-> notified, cutoff |-> notified.date, early |-> FALSE]
  OBVIOUS
<1>4. row \in CatalogueRows
  BY <1>2, <1>3 DEF CatalogueRows
<1>5. catalogue' = catalogue \/ catalogue' = [catalogue EXCEPT ![i] = row]
  BY <1>2, <1>3 DEF CreateRow
<1>6. RowWritten(i)
  BY <1>4, <1>5 DEF RowWritten
<1>7. QED
  BY <1>1, <1>6, WriteInv

\* Two fields of a row at once.
RowTo(row, i, cutoff) ==
  row \in CatalogueRows /\ row.cutoff = cutoff /\ catalogue' = [catalogue EXCEPT ![i] = row]

LEMMA TwoFields ==
  ASSUME FeedInv, NEW i \in Isins, catalogue[i] # None,
         NEW content \in Contents, NEW cutoff \in Dates \cup {"passed"},
         catalogue' = [catalogue EXCEPT ![i].content = content, ![i].cutoff = cutoff]
  PROVE  \E row : RowTo(row, i, cutoff)
<1>1. catalogue \in [Isins -> CatalogueRows \cup {None}] /\ catalogue[i] \in CatalogueRows
  BY CatalogueTyped
<1>2. PICK old \in CatalogueRows : old = catalogue[i]
  BY <1>1
<1>3. PICK row : row = [old EXCEPT !.content = content, !.cutoff = cutoff]
  OBVIOUS
<1>4. row \in CatalogueRows /\ row.cutoff = cutoff
  BY <1>2, <1>3 DEF CatalogueRows
<1>5. catalogue' = [catalogue EXCEPT ![i] = row]
  BY <1>1, <1>2, <1>3 DEF CatalogueRows
<1>6. QED
  BY <1>4, <1>5 DEF RowTo

\* A writer that saw the row.
LEMMA UpdateFacts ==
  ASSUME FeedInv, NEW w \in Writers, NEW i \in Isins, UpdateRow(w, i)
  PROVE  /\ writer[w].pc = "write" /\ Advance(w)
         /\ bot' = bot /\ sync' = sync /\ snapshot' = snapshot /\ closing' = closing
         /\ catalogue[i] # None /\ writer[w].saw \in CatalogueRows
         /\ Told(w) \in Contents /\ Cutoff(w, i) \in Dates \cup {"passed"}
         /\ catalogue' = [catalogue EXCEPT ![i].content = Told(w), ![i].cutoff = Cutoff(w, i)]
<1>1. /\ writer[w].pc = "write" /\ writer[w].at = i /\ writer[w].saw # None /\ Advance(w)
      /\ bot' = bot /\ sync' = sync /\ snapshot' = snapshot /\ closing' = closing
      /\ catalogue' = [catalogue EXCEPT ![i].content = Told(w), ![i].cutoff = Cutoff(w, i)]
  BY DEF UpdateRow, UpdateRowTo, Writes, gateway
<1>2. catalogue[i] # None
  BY <1>1 DEF FeedInv, SeenIsThere
<1>3. writer[w].saw \in CatalogueRows
  BY <1>1, WriterKinds DEF FeedInv, SnapshotIsKept, Writing
<1>4. catalogue[i] \in CatalogueRows
  BY <1>2, CatalogueTyped
<1>5. catalogue[i].cutoff \in Dates \cup {"passed"}
  BY <1>4 DEF CatalogueRows
<1>6. Told(w) \in Contents /\ Told(w).date \in Dates
  BY <1>1, ToldTyped
<1>7. Cutoff(w, i) \in Dates \cup {"passed"}
  BY <1>5, <1>6 DEF Cutoff
<1>8. QED
  BY <1>1, <1>2, <1>3, <1>6, <1>7

LEMMA UpdateRowInv ==
  ASSUME FeedInv, NEW w \in Writers, NEW i \in Isins, UpdateRow(w, i)
  PROVE  FeedInv'
<1>1. PICK content \in Contents : content = Told(w)
  BY UpdateFacts
<1>2. PICK cutoff \in Dates \cup {"passed"} : cutoff = Cutoff(w, i)
  BY UpdateFacts
<1>3. /\ catalogue' = [catalogue EXCEPT ![i].content = content, ![i].cutoff = cutoff] /\ catalogue[i] # None
      /\ writer[w].pc = "write" /\ Advance(w) /\ bot' = bot /\ sync' = sync /\ snapshot' = snapshot /\ closing' = closing
  BY <1>1, <1>2, UpdateFacts
<1>4. PICK row : RowTo(row, i, cutoff)
  BY <1>1, <1>2, <1>3, TwoFields
<1>5. RowWritten(i)
  BY <1>4 DEF RowWritten, RowTo
<1>6. QED
  BY <1>3, <1>5, WriteInv

LEMMA WriterDiesInv ==
  ASSUME FeedInv, NEW w \in Writers, WriterDies(w)
  PROVE  FeedInv'
<1>1. /\ writer' = [writer EXCEPT ![w] = Free]
      /\ rows' = rows /\ reached' = reached /\ queue' = queue
      /\ bot' = bot /\ sync' = sync /\ snapshot' = snapshot /\ catalogue' = catalogue /\ closing' = closing
  BY DEF WriterDies, Throw, outbox, gateway
<1>2. QED
  BY <1>1, FreeIsState, OneWriterInv, CatalogueTyped

\* Staff read a row and close it.
LEMMA CloseReadInv ==
  ASSUME FeedInv, NEW i \in Isins, CloseRead(i)
  PROVE  FeedInv'
<1>1. /\ rows' = rows /\ reached' = reached /\ queue' = queue /\ writer' = writer /\ catalogue' = catalogue
      /\ bot' = bot /\ sync' = sync /\ snapshot' = snapshot
      /\ closing' = closing \cup {i} /\ catalogue[i] # None
  BY DEF CloseRead, outbox, gateway, Open
<1>2. SnapshotIsAnnounced'
  BY <1>1, AnnouncedStays DEF FeedInv, SnapshotIsKept
<1>3. FeedTypeOK'
  BY <1>1 DEF FeedInv, SnapshotIsKept, FeedTypeOK
<1>4. SeenIsThere'
  BY <1>1 DEF FeedInv, SeenIsThere
<1>5. QED
  BY <1>2, <1>3, <1>4 DEF FeedInv, SnapshotIsKept

LEMMA CloseBiddingInv ==
  ASSUME FeedInv, NEW i \in Isins, CloseBidding(i)
  PROVE  FeedInv'
<1>1. /\ rows' = rows /\ reached' = reached /\ queue' = queue /\ writer' = writer
      /\ bot' = bot /\ sync' = sync /\ snapshot' = snapshot
      /\ closing' = closing \ {i} /\ catalogue[i] # None
      /\ catalogue' = [catalogue EXCEPT ![i].cutoff = "passed", ![i].early = TRUE]
  BY DEF CloseBidding, outbox, gateway, FeedInv, SeenIsThere
<1>2. PICK old \in CatalogueRows : old = catalogue[i]
  BY <1>1, CatalogueTyped
<1>3. PICK row : row = [old EXCEPT !.cutoff = "passed", !.early = TRUE]
  OBVIOUS
<1>4. row \in CatalogueRows
  BY <1>2, <1>3 DEF CatalogueRows
<1>5. catalogue' = [catalogue EXCEPT ![i] = row]
  BY <1>1, <1>2, <1>3, CatalogueTyped DEF CatalogueRows
<1>6. /\ catalogue' \in [Isins -> CatalogueRows \cup {None}]
      /\ \A j \in Isins : catalogue[j] # None => catalogue'[j] # None
  BY <1>4, <1>5, RowWrittenTyped DEF RowWritten
<1>7. SnapshotIsAnnounced'
  BY <1>1, AnnouncedStays DEF FeedInv, SnapshotIsKept
<1>8. FeedTypeOK'
  BY <1>1, <1>6 DEF FeedInv, SnapshotIsKept, FeedTypeOK
<1>9. SeenIsThere'
  <2>1. ASSUME NEW v \in Writers, writer'[v].pc = "write"
        PROVE  /\ writer'[v].at \in DOMAIN writer'[v].list
               /\ writer'[v].saw # None => catalogue'[writer'[v].at] # None
    <3>1. PICK k : k = writer[v]
      OBVIOUS
    <3>2. k.at \in DOMAIN k.list /\ (k.saw # None => catalogue[k.at] # None)
      BY <1>1, <2>1, <3>1 DEF FeedInv, SeenIsThere
    <3>3. k.at \in Isins
      BY <1>1, <2>1, <3>1, WriterKinds DEF Writing, FeedInv, SnapshotIsKept
    <3>4. QED
      BY <1>1, <1>6, <3>1, <3>2, <3>3
  <2>2. \A j \in closing' : j \in Isins /\ catalogue'[j] # None
    BY <1>1, <1>6 DEF FeedInv, SeenIsThere
  <2>3. QED
    BY <2>1, <2>2 DEF SeenIsThere
<1>10. QED
  BY <1>7, <1>8, <1>9 DEF FeedInv, SnapshotIsKept

\* The outbox publishes a row, once or again.
LEMMA ReachInv ==
  ASSUME FeedInv, NEW k \in DOMAIN rows, ReachOnce(k) \/ ReachAgain(k)
  PROVE  FeedInv'
<1>1. /\ rows' = rows /\ reached' = reached \cup {k} /\ queue' = queue \cup {k} /\ writer' = writer
      /\ bot' = bot /\ sync' = sync /\ snapshot' = snapshot /\ closing' = closing /\ catalogue' = catalogue
  BY DEF ReachOnce, ReachAgain, Outbox!Reach, gateway, auctions
<1>2. SnapshotIsAnnounced' /\ SeenIsThere'
  BY <1>1, AnnouncedStays, SeenStays DEF FeedInv, SnapshotIsKept
<1>3. FeedTypeOK'
  BY <1>1 DEF FeedInv, SnapshotIsKept, FeedTypeOK
<1>4. QED
  BY <1>2, <1>3 DEF FeedInv, SnapshotIsKept

LEMMA FeedStutter ==
  ASSUME FeedInv, UNCHANGED vars
  PROVE  FeedInv'
<1>1. /\ rows' = rows /\ reached' = reached /\ queue' = queue /\ writer' = writer
      /\ bot' = bot /\ sync' = sync /\ snapshot' = snapshot /\ closing' = closing /\ catalogue' = catalogue
  BY DEF vars, outbox, gateway, auctions
<1>2. SnapshotIsAnnounced' /\ SeenIsThere'
  BY <1>1, AnnouncedStays, SeenStays DEF FeedInv, SnapshotIsKept
<1>3. FeedTypeOK'
  BY <1>1 DEF FeedInv, SnapshotIsKept, FeedTypeOK
<1>4. QED
  BY <1>2, <1>3 DEF FeedInv, SnapshotIsKept

LEMMA FeedNextInv == FeedInv /\ [GatewayStep \/ CatalogueStep]_vars => FeedInv'
<1> SUFFICES ASSUME FeedInv, [GatewayStep \/ CatalogueStep]_vars PROVE FeedInv'
  OBVIOUS
<1>1. CASE GatewayStep
  BY <1>1, BotChangesInv, SyncInv, ApplyInv, ReachInv DEF GatewayStep
<1>2. CASE CatalogueStep
  BY <1>2, DeliverInv, RefreshInv, ReadRowInv, CreateRowInv, UpdateRowInv, WriterDiesInv,
     CloseReadInv, CloseBiddingInv DEF CatalogueStep, Upsert
<1>3. QED
  BY <1>1, <1>2, FeedStutter

\* bot-gateway never records a change of an auction without announcing it, nor announces
\* one without recording it: after any number of synchronisations, whatever fails between,
\* the last event of each auction carries its snapshot (prisma-snapshot.store.ts:20-44).
THEOREM SnapshotIsKeptAlways == FeedSpec => []SnapshotIsKept
<1>1. FeedInv => SnapshotIsKept
  BY DEF FeedInv
<1>2. QED
  BY <1>1, FeedInitInv, FeedNextInv, PTL DEF FeedSpec

\* One step and one auction closed early.
EarlyKept(i) ==
  catalogue[i] # None /\ catalogue[i].early /\ catalogue'[i].cutoff # catalogue[i].cutoff
    => \/ i \in closing
       \/ \E w \in Writers : Writes(w, i) /\ writer[w].saw # None /\ ~writer[w].saw.early

LEMMA CreateKeepsEarly ==
  ASSUME FeedInv, NEW w \in Writers, NEW j \in Isins, CreateRow(w, j), NEW i \in Isins, catalogue[i] # None
  PROVE  catalogue'[i] = catalogue[i]
BY CatalogueTyped DEF CreateRow

LEMMA UpdateKeepsEarly ==
  ASSUME FeedInv, NEW w \in Writers, NEW j \in Isins, UpdateRow(w, j), NEW i \in Isins
  PROVE  EarlyKept(i)
<1>1. PICK content \in Contents : content = Told(w)
  BY UpdateFacts
<1>2. PICK cutoff \in Dates \cup {"passed"} : cutoff = Cutoff(w, j)
  BY UpdateFacts
<1>3. catalogue' = [catalogue EXCEPT ![j].content = content, ![j].cutoff = cutoff] /\ catalogue[j] # None
  BY <1>1, <1>2, UpdateFacts
<1>4. PICK row : RowTo(row, j, cutoff)
  BY <1>1, <1>2, <1>3, TwoFields
<1>5. catalogue' = [catalogue EXCEPT ![j] = row] /\ row.cutoff = cutoff
  BY <1>4 DEF RowTo
<1>6. CASE i # j
  <2>1. catalogue'[i] = catalogue[i]
    BY <1>5, <1>6, CatalogueTyped
  <2>2. QED
    BY <2>1 DEF EarlyKept
<1>7. CASE i = j /\ writer[w].saw.early
  <2>1. catalogue'[i] = row
    BY <1>5, <1>7, CatalogueTyped
  <2>2. row.cutoff = catalogue[i].cutoff
    BY <1>2, <1>5, <1>7 DEF Cutoff
  <2>3. QED
    BY <2>1, <2>2 DEF EarlyKept
<1>8. CASE i = j /\ ~writer[w].saw.early
  BY <1>8 DEF EarlyKept, UpdateRow
<1>9. QED
  BY <1>6, <1>7, <1>8

LEMMA CloseKeepsEarly ==
  ASSUME FeedInv, NEW j \in Isins, CloseBidding(j), NEW i \in Isins
  PROVE  EarlyKept(i)
<1>1. catalogue' = [catalogue EXCEPT ![j].cutoff = "passed", ![j].early = TRUE] /\ j \in closing
  BY DEF CloseBidding
<1>2. i # j => catalogue'[i] = catalogue[i]
  BY <1>1, CatalogueTyped
<1>3. QED
  BY <1>1, <1>2 DEF EarlyKept

\* The cut-off staff brought forward stays, whatever BoT says afterwards and whichever of
\* the two writers learns it, but for a writer that read the row before
\* (catalogue.service.ts:47-58).
THEOREM EarlyCutoffStays == FeedSpec => EarlyCutoffKept
<1>1. ASSUME FeedInv, [GatewayStep \/ CatalogueStep]_vars, NEW i \in Isins
      PROVE  EarlyKept(i)
  <2>1. ASSUME catalogue' = catalogue PROVE EarlyKept(i)
    BY <2>1 DEF EarlyKept
  <2>2. CASE GatewayStep \/ UNCHANGED vars
    <3>1. catalogue' = catalogue
      BY <2>2 DEF GatewayStep, BotChanges, SyncFetch, Apply, ApplyRows, SyncFails, ReachOnce, ReachAgain,
                  auctions, vars
    <3>2. QED
      BY <2>1, <3>1
  <2>3. ASSUME NEW h \in Handlers, NEW k \in queue, Deliver(h, k) PROVE EarlyKept(i)
    BY <2>1, <2>3 DEF Deliver
  <2>4. CASE Refresh
    BY <2>1, <2>4 DEF Refresh
  <2>5. ASSUME NEW w \in Writers, ReadRow(w) \/ WriterDies(w) PROVE EarlyKept(i)
    BY <2>1, <2>5 DEF ReadRow, WriterDies
  <2>6. ASSUME NEW w \in Writers, NEW j \in Isins, CreateRow(w, j) PROVE EarlyKept(i)
    BY <1>1, <2>6, CreateKeepsEarly DEF EarlyKept
  <2>7. ASSUME NEW w \in Writers, NEW j \in Isins, UpdateRow(w, j) PROVE EarlyKept(i)
    BY <1>1, <2>7, UpdateKeepsEarly
  <2>8. ASSUME NEW j \in Isins, CloseRead(j) PROVE EarlyKept(i)
    BY <2>1, <2>8 DEF CloseRead
  <2>9. ASSUME NEW j \in Isins, CloseBidding(j) PROVE EarlyKept(i)
    BY <1>1, <2>9, CloseKeepsEarly
  <2>10. QED
    BY <1>1, <2>2, <2>3, <2>4, <2>5, <2>6, <2>7, <2>8, <2>9 DEF CatalogueStep, Upsert
<1>2. FeedInv /\ [GatewayStep \/ CatalogueStep]_vars => [\A i \in Isins : EarlyKept(i)]_vars
  BY <1>1
<1>3. FeedSpec => []FeedInv /\ [][GatewayStep \/ CatalogueStep]_vars
  BY FeedInitInv, FeedNextInv, PTL DEF FeedSpec
<1>4. FeedSpec => [][\A i \in Isins : EarlyKept(i)]_vars
  BY <1>2, <1>3, PTL
<1>5. QED
  BY <1>4 DEF EarlyCutoffKept, EarlyKept

----------------------------------------------------------------------------
(* What the portal shows of money and bids.                                 *)

LEMMA TimesNext ==
  ASSUME NEW m \in Nat, NEW i \in Nat
  PROVE  m * (i + 1) = m * i + m /\ m * i \in Nat
OBVIOUS

\* One more element counts if it is in the part.
LEMMA CountWith ==
  ASSUME NEW s, IsFiniteSet(s), NEW y \in s, NEW A
  PROVE  /\ Cardinality((s \ {y}) \cap A) \in Nat
         /\ Cardinality(s \cap A) = Cardinality((s \ {y}) \cap A) + (IF y \in A THEN 1 ELSE 0)
<1>1. /\ IsFiniteSet(s \cap A) /\ IsFiniteSet((s \ {y}) \cap A)
      /\ Cardinality(s \cap A) \in Nat /\ Cardinality((s \ {y}) \cap A) \in Nat
  <2>1. IsFiniteSet(s \cap A) /\ IsFiniteSet((s \ {y}) \cap A)
    BY FS_Subset
  <2> QED
    BY <2>1, FS_CardinalityType
<1>2. CASE y \in A
  <2>1. (s \ {y}) \cap A = (s \cap A) \ {y} /\ y \in s \cap A
    BY <1>2
  <2>2. Cardinality((s \cap A) \ {y}) = Cardinality(s \cap A) - 1
    BY <1>1, <2>1, FS_RemoveElement
  <2> QED
    BY <1>1, <1>2, <2>1, <2>2
<1>3. CASE y \notin A
  <2>1. (s \ {y}) \cap A = s \cap A
    BY <1>3
  <2> QED
    BY <1>1, <1>3, <2>1
<1> QED
  BY <1>2, <1>3

\* A sum in which all of one part weigh the same, all of another, and the rest nothing.
LEMMA SumOfParts ==
  ASSUME NEW S, IsFiniteSet(S), NEW A \in SUBSET S, NEW B \in SUBSET S, A \cap B = {}, NEW m \in Nat, NEW n \in Nat,
         NEW g, NEW h, Sums(g, h, S),
         \A x \in S : h[x].amount = IF x \in A THEN m ELSE IF x \in B THEN n ELSE 0
  PROVE  g[S] = m * Cardinality(A) + n * Cardinality(B)
<1> DEFINE P(s) == g[s] = m * Cardinality(s \cap A) + n * Cardinality(s \cap B)
           W == {s \in SUBSET S : ~ P(s)}
<1>0. S \cap A = A /\ S \cap B = B
  OBVIOUS
<1> SUFFICES ASSUME W # {} PROVE FALSE
  BY <1>0
<1>1. PICK s \in W : \A t \in W : t \subseteq s => t = s
  <2>1. W \in SUBSET (SUBSET S)
    OBVIOUS
  <2> HIDE DEF W
  <2> QED
    BY <2>1, LeastSubset
<1>2. s \in SUBSET S /\ ~ P(s) /\ IsFiniteSet(s)
  BY <1>1, FS_Subset
<1>3. g[s] = SumStep(g, h, s)
  BY <1>2 DEF Sums
<1>4. CASE s = {}
  <2>1. s \cap A = {} /\ s \cap B = {} /\ Cardinality({}) = 0
    BY <1>4, FS_EmptySet
  <2>2. g[s] = 0
    BY <1>3, <1>4 DEF SumStep
  <2>3. m * 0 = 0 /\ n * 0 = 0
    OBVIOUS
  <2>4. Cardinality(s \cap A) = 0 /\ Cardinality(s \cap B) = 0
    BY <2>1
  <2> QED
    BY <1>2, <2>2, <2>3, <2>4
<1>5. CASE s # {}
  <2> DEFINE y == Chosen(s)
             t == s \ {y}
             i == Cardinality(t \cap A)
             j == Cardinality(t \cap B)
  <2>1. y \in s
    BY <1>5, ChosenIsIn
  <2>2. g[s] = h[y].amount + g[t]
    BY <1>3, <1>5 DEF SumStep
  <2>3. P(t)
    <3>1. t \in SUBSET S /\ t \subseteq s /\ t # s
      BY <1>2, <2>1
    <3> HIDE DEF P, t
    <3>2. ~P(t) => t \in W
      BY <3>1
    <3> QED
      BY <1>1, <3>1, <3>2
  <2>4. /\ i \in Nat /\ Cardinality(s \cap A) = i + (IF y \in A THEN 1 ELSE 0)
        /\ j \in Nat /\ Cardinality(s \cap B) = j + (IF y \in B THEN 1 ELSE 0)
    BY <1>2, <2>1, CountWith
  <2>5. h[y].amount = IF y \in A THEN m ELSE IF y \in B THEN n ELSE 0
    BY <1>2, <2>1
  <2>6. g[t] = m * i + n * j
    BY <2>3
  <2> HIDE DEF i, j, t, y
  <2>7. /\ m * (i + 1) = m * i + m /\ m * i \in Nat
        /\ n * (j + 1) = n * j + n /\ n * j \in Nat
    BY <2>4, TimesNext
  <2>8. CASE y \in A
    <3>1. y \notin B
      BY <2>8
    <3>2. g[s] = m + (m * i + n * j) /\ Cardinality(s \cap A) = i + 1 /\ Cardinality(s \cap B) = j
      BY <2>2, <2>4, <2>5, <2>6, <2>8, <3>1
    <3> QED
      BY <1>2, <2>7, <3>2
  <2>9. CASE y \notin A /\ y \in B
    <3>2. g[s] = n + (m * i + n * j) /\ Cardinality(s \cap A) = i /\ Cardinality(s \cap B) = j + 1
      BY <2>2, <2>4, <2>5, <2>6, <2>9
    <3> QED
      BY <1>2, <2>7, <3>2
  <2>10. CASE y \notin A /\ y \notin B
    <3>2. g[s] = 0 + (m * i + n * j) /\ Cardinality(s \cap A) = i /\ Cardinality(s \cap B) = j
      BY <2>2, <2>4, <2>5, <2>6, <2>10
    <3> QED
      BY <1>2, <2>7, <3>2
  <2> QED
    BY <2>8, <2>9, <2>10
<1> QED
  BY <1>4, <1>5

\* What is held for the investor, as a sum over a table.
KeptStep(g, w, s) == IF s = {} THEN 0 ELSE w[Chosen(s)] + g[s \ {Chosen(s)}]
KeptSum(w) == (CHOOSE g : g = [s \in SUBSET MyBids |-> KeptStep(g, w, s)])[MyBids]

LEMMA HeldIsKept == Held = KeptSum(onHold)
BY DEF Held, MapThenSumSet, MapThenFoldSet, KeptSum, KeptStep, Chosen

LEMMA HeldIsKeptNext == Held' = KeptSum(onHold')
BY DEF Held, MapThenSumSet, MapThenFoldSet, KeptSum, KeptStep, Chosen

LEMMA KeptIsSum ==
  ASSUME NEW w \in [MyBids -> Nat]
  PROVE  \E g, h : /\ Sums(g, h, MyBids) /\ KeptSum(w) = g[MyBids]
                   /\ \A b \in MyBids : h[b].amount = w[b]
<1> DEFINE h == [b \in MyBids |-> [amount |-> w[b]]]
           F(g) == g = [s \in SUBSET MyBids |-> KeptStep(g, w, s)]
           c == CHOOSE g : F(g)
<1>1. PICK g : Sums(g, h, MyBids)
  <2>1. IsFiniteSet(MyBids)
    BY PortfolioAssumption
  <2> HIDE DEF h
  <2> QED
    BY <2>1, SumsExist
<1>2. ASSUME NEW s \in SUBSET MyBids, NEW k
      PROVE  KeptStep(k, w, s) = SumStep(k, h, s)
  <2>1. CASE s = {}
    BY <2>1 DEF KeptStep, SumStep
  <2>2. CASE s # {}
    <3>1. Chosen(s) \in MyBids
      BY <2>2, ChosenIsIn
    <3>2. h[Chosen(s)].amount = w[Chosen(s)]
      BY <3>1
    <3> QED
      BY <2>2, <3>2 DEF KeptStep, SumStep
  <2> QED
    BY <2>1, <2>2
<1> DEFINE f == [s \in SUBSET MyBids |-> g[s]]
<1>3. ASSUME NEW s \in SUBSET MyBids
      PROVE  f[s] = KeptStep(f, w, s)
  <2>1. g[s] = SumStep(g, h, s)
    BY <1>1 DEF Sums
  <2>2. g[s] = KeptStep(g, w, s)
    BY <1>2, <2>1
  <2>3. s # {} => s \ {Chosen(s)} \in SUBSET MyBids
    OBVIOUS
  <2> QED
    BY <2>2, <2>3 DEF KeptStep
<1>4. F(f)
  BY <1>3
<1>5. F(c)
  <2> HIDE DEF f
  <2> QED
    BY <1>4
<1>6. Sums(c, h, MyBids)
  BY <1>2, <1>5 DEF Sums
<1>7. KeptSum(w) = c[MyBids]
  BY DEF KeptSum
<1>8. \A b \in MyBids : h[b].amount = w[b]
  OBVIOUS
<1> HIDE DEF c, h
<1> QED
  BY <1>6, <1>7, <1>8

LEMMA KeptIsNat ==
  ASSUME NEW w \in [MyBids -> Nat]
  PROVE  KeptSum(w) \in Nat
<1>1. PICK g, h : /\ Sums(g, h, MyBids) /\ KeptSum(w) = g[MyBids]
                  /\ \A b \in MyBids : h[b].amount = w[b]
  BY KeptIsSum
<1>2. \A s \in SUBSET MyBids : g[s] \in Nat /\ \A x \in s : g[s] = h[x].amount + g[s \ {x}]
  BY <1>1, SumsTakeOut, PortfolioAssumption
<1> QED
  BY <1>1, <1>2

----------------------------------------------------------------------------
\* What the store is made of.

LEMMA LabelFacts ==
  /\ DOMAIN Label = {"placed", "in_batch", "submitted", "accepted", "allotted",
                     "partially_allotted", "unsuccessful", "rejected", "withdrawn"}
  /\ Label["placed"] = "Pending submission" /\ Label["in_batch"] = "Submitted"
  /\ Label["submitted"] = "Submitted" /\ Label["accepted"] = "Submitted"
  /\ Label["allotted"] = "Allotted" /\ Label["partially_allotted"] = "Partially allotted"
  /\ Label["unsuccessful"] = "Unsuccessful" /\ Label["rejected"] = "Rejected"
  /\ Label["withdrawn"] = "Withdrawn"
BY DEF Label

LEMMA RowsFacts ==
  ASSUME PortfolioTypeOK
  PROVE  /\ Rows \in RowTables /\ Made(Rows)
         /\ \A b \in MyBids : b \in DOMAIN Rows <=> stands[b] # "none"
         /\ \A b \in DOMAIN Rows : b \in MyBids /\ Rows[b] = Label[stands[b]]
<1> DEFINE D == {b \in MyBids : stands[b] # "none"}
<1>1. Rows = [b \in D |-> Label[stands[b]]]
  BY DEF Rows
<1>2. D \in SUBSET MyBids /\ \A b \in D : Label[stands[b]] \in Labels
  BY DEF PortfolioTypeOK, Labels
<1>3. Rows \in [D -> Labels]
  BY <1>1, <1>2
<1>4. Rows \in RowTables
  BY <1>2, <1>3 DEF RowTables
<1> QED
  BY <1>1, <1>4 DEF Made

LEMMA SummaryFacts ==
  ASSUME PortfolioTypeOK
  PROVE  /\ Balances \in [available : Int, onHold : Nat] /\ OpenCount \in Nat
         /\ Balances.available + Balances.onHold = Funds
<1>1. Held \in Nat
  BY HeldIsKept, KeptIsNat DEF PortfolioTypeOK
<1>2. Funds \in Nat /\ IsFiniteSet(MyBids)
  BY PortfolioAssumption
<1>3. OpenCount \in Nat
  <2>1. IsFiniteSet({b \in MyBids : stands[b] \in OpenStates})
    BY <1>2, FS_Subset
  <2> QED
    BY <2>1, FS_CardinalityType DEF OpenCount
<1> QED
  BY <1>1, <1>2, <1>3 DEF Balances

LEMMA ReadsStay ==
  ASSUME UNCHANGED <<stands, onHold>>
  PROVE  Balances' = Balances /\ OpenCount' = OpenCount /\ Rows' = Rows
<1>1. Held' = Held
  BY HeldIsKept, HeldIsKeptNext
<1> QED
  BY <1>1 DEF Balances, OpenCount, Rows

\* The tiles and the rows of a store agree.
Agree(count, held, table) ==
  /\ count = Cardinality({b \in DOMAIN table : table[b] \in {"Pending submission", "Submitted"}})
  /\ held = Stake * Cardinality({b \in DOMAIN table :
                                   table[b] \in {"Pending submission", "Submitted", "Allotted"}})
            + Part * Cardinality({b \in DOMAIN table : table[b] = "Partially allotted"})

\* At rest what is read of the two services agrees.
LEMMA RestAgrees ==
  ASSUME PortfolioTypeOK, AtRest
  PROVE  Agree(OpenCount, Balances.onHold, Rows)
<1> DEFINE A == {b \in MyBids : stands[b] \in {"placed", "in_batch", "submitted", "accepted", "allotted"}}
           B == {b \in MyBids : stands[b] = "partially_allotted"}
<1>1. \A b \in MyBids : stands[b] \in {"none"} \cup DOMAIN Label
  BY DEF PortfolioTypeOK
<1>2. \A b \in MyBids : onHold[b] = IF b \in A THEN Stake ELSE IF b \in B THEN Part ELSE 0
  BY DEF AtRest, Due
<1>3. PICK g, h : /\ Sums(g, h, MyBids) /\ KeptSum(onHold) = g[MyBids]
                  /\ \A b \in MyBids : h[b].amount = onHold[b]
  BY KeptIsSum DEF PortfolioTypeOK
<1>4. Stake \in Nat /\ Part \in Nat /\ IsFiniteSet(MyBids)
  BY PortfolioAssumption
<1>5. A \cap B = {} /\ A \in SUBSET MyBids /\ B \in SUBSET MyBids
  OBVIOUS
<1> DEFINE Opened == {b \in MyBids : stands[b] \in OpenStates}
<1>3a. \A b \in DOMAIN Rows : b \in MyBids
  BY RowsFacts
<1>3b. ASSUME NEW b \in MyBids
       PROVE  /\ b \in A <=> b \in DOMAIN Rows /\ Rows[b] \in {"Pending submission", "Submitted", "Allotted"}
              /\ b \in B <=> b \in DOMAIN Rows /\ Rows[b] = "Partially allotted"
              /\ b \in Opened <=> b \in DOMAIN Rows /\ Rows[b] \in {"Pending submission", "Submitted"}
  <2>1. b \in DOMAIN Rows <=> stands[b] # "none"
    BY RowsFacts
  <2>2. b \in DOMAIN Rows => Rows[b] = Label[stands[b]]
    BY RowsFacts
  <2>3. PICK s \in {"none"} \cup DOMAIN Label : s = stands[b]
    BY <1>1
  <2> QED
    BY <2>1, <2>2, <2>3, LabelFacts DEF OpenStates
<1> HIDE DEF A, B, Opened
<1>6. {b \in DOMAIN Rows : Rows[b] \in {"Pending submission", "Submitted", "Allotted"}} = A
  <2>1. A \subseteq MyBids
    BY DEF A
  <2> QED
    BY <1>3a, <1>3b, <2>1
<1>7. {b \in DOMAIN Rows : Rows[b] = "Partially allotted"} = B
  <2>1. B \subseteq MyBids
    BY DEF B
  <2> QED
    BY <1>3a, <1>3b, <2>1
<1>8. {b \in DOMAIN Rows : Rows[b] \in {"Pending submission", "Submitted"}}
        = Opened
  <2>1. Opened \subseteq MyBids
    BY DEF Opened
  <2> QED
    BY <1>3a, <1>3b, <2>1
<1>9. \A b \in MyBids : h[b].amount = IF b \in A THEN Stake ELSE IF b \in B THEN Part ELSE 0
  BY <1>2, <1>3
<1>10. g[MyBids] = Stake * Cardinality(A) + Part * Cardinality(B)
  BY <1>3, <1>4, <1>5, <1>9, SumOfParts
<1>11. Balances.onHold = Stake * Cardinality(A) + Part * Cardinality(B)
  BY <1>3, <1>5, <1>10, HeldIsKept DEF Balances
<1> QED
  BY <1>6, <1>7, <1>8, <1>11 DEF Agree, OpenCount, Opened

----------------------------------------------------------------------------
\* The portal's tasks and the services.

LEMMA NothingFacts ==
  /\ Nothing \in Readings /\ Nothing.rows = <<>> /\ Nothing.funds = <<>> /\ Nothing.count = <<>>
  /\ \A pc \in {"none", "waiting", "reading", "over"},
        for \in {<<>>} \cup ({"place", "withdraw"} \X MyBids), calm \in BOOLEAN :
       /\ Task(pc, for, calm) \in ErrandRows /\ Task(pc, for, calm).pc = pc
       /\ Task(pc, for, calm).for = for /\ Task(pc, for, calm).got = Nothing
       /\ Task(pc, for, calm).calm = calm /\ Task(pc, for, calm).passed = FALSE
<1>1. Nothing \in Readings
  BY DEF Nothing, Readings
<1> QED
  BY <1>1 DEF Task, ErrandRows, Nothing

\* A service takes a step: nobody's reading is calm any more.
LEMMA ServicesMove ==
  ASSUME PortfolioInv, errand' = [t \in Errands |-> [errand[t] EXCEPT !.calm = FALSE]],
         UNCHANGED <<store, locked, told>>,
         stands' \in [MyBids -> {"none"} \cup DOMAIN Label], onHold' \in [MyBids -> Nat],
         requests' \in SUBSET Orders, bidding' \in BOOLEAN, moves' \in Nat, slips' \in Nat,
         \A b \in MyBids : stands[b] # "none" => stands'[b] # "none",
         \A b \in MyBids : stands[b] = "withdrawn" => stands'[b] = "withdrawn",
         \A r \in requests' :
           /\ r.do = "place" => stands'[r.bid] = "none" /\ \A x \in requests' : x.bid = r.bid => x = r
           /\ r.do = "withdraw" => stands'[r.bid] # "none" /\ (r.half => stands'[r.bid] = "withdrawn")
           /\ \E x \in requests : x.by = r.by /\ x.do = r.do /\ x.bid = r.bid,
         \A x \in requests : \/ \E r \in requests' : r.by = x.by
                             \/ x.do = "withdraw" => stands'[x.bid] = "withdrawn"
  PROVE  PortfolioInv'
<1>1. /\ errand' \in [Errands -> ErrandRows]
      /\ \A t \in Errands : /\ errand'[t].pc = errand[t].pc /\ errand'[t].for = errand[t].for
                            /\ errand'[t].got = errand[t].got /\ errand'[t].passed = errand[t].passed
                            /\ errand'[t].calm = FALSE
  <2>1. ASSUME NEW t \in Errands
        PROVE  /\ [errand[t] EXCEPT !.calm = FALSE] \in ErrandRows
               /\ errand'[t].pc = errand[t].pc /\ errand'[t].for = errand[t].for
               /\ errand'[t].got = errand[t].got /\ errand'[t].passed = errand[t].passed
               /\ errand'[t].calm = FALSE
    <3>1. errand[t] \in ErrandRows
      BY DEF PortfolioInv, PortfolioTypeOK
    <3>2. errand'[t] = [errand[t] EXCEPT !.calm = FALSE]
      OBVIOUS
    <3> QED
      BY <3>1, <3>2 DEF ErrandRows
  <2> QED
    BY <2>1
<1>2. PortfolioTypeOK'
  BY <1>1 DEF PortfolioInv, PortfolioTypeOK
<1>3. \A x \in requests : x.by \in Errands /\ x.bid \in MyBids
  BY DEF PortfolioInv, PortfolioTypeOK, Orders
<1>4. OrdersStand'
  <2>1. ASSUME NEW r \in requests'
        PROVE  /\ errand'[r.by].pc \in {"waiting", "over"}
               /\ errand'[r.by].pc = "waiting" => errand'[r.by].for = <<r.do, r.bid>>
    <3>1. PICK x \in requests : x.by = r.by /\ x.do = r.do /\ x.bid = r.bid
      OBVIOUS
    <3>2. /\ errand[x.by].pc \in {"waiting", "over"}
          /\ errand[x.by].pc = "waiting" => errand[x.by].for = <<x.do, x.bid>>
      BY DEF PortfolioInv, OrdersStand
    <3>3. errand'[x.by].pc = errand[x.by].pc /\ errand'[x.by].for = errand[x.by].for
      BY <1>1, <1>3
    <3> QED
      BY <3>1, <3>2, <3>3
  <2> QED
    BY <2>1 DEF OrdersStand
<1>5. CalmReads'
  BY <1>1 DEF CalmReads
<1>6. ASSUME NEW t \in Errands, errand[t].for # <<>>
      PROVE  errand[t].for[2] \in MyBids
  <2>1. errand[t].for \in {"place", "withdraw"} \X MyBids
    BY <1>6 DEF PortfolioInv, PortfolioTypeOK, ErrandRows
  <2> QED
    BY <2>1
<1>7. WithdrawalsStand'
  <2>1. ASSUME NEW t \in Errands, IsWithdrawal(t)
        PROVE  /\ errand'[t].pc = "waiting" =>
                    (\E r \in requests' : r.by = t) \/ stands'[errand[t].for[2]] = "withdrawn"
               /\ errand'[t].pc = "reading" =>
                    /\ stands'[errand[t].for[2]] = "withdrawn"
                    /\ HasRows(t) => ReadAs(t, errand[t].for[2], "Withdrawn")
    <3>1. errand[t].for[2] \in MyBids /\ errand[t].for[1] = "withdraw"
      BY <1>6, <2>1 DEF IsWithdrawal, Unprompted
    <3>2. ASSUME errand[t].pc = "waiting"
          PROVE  (\E r \in requests' : r.by = t) \/ stands'[errand[t].for[2]] = "withdrawn"
      <4>1. CASE stands[errand[t].for[2]] = "withdrawn"
        BY <3>1, <4>1
      <4>2. CASE \E x \in requests : x.by = t
        <5>1. PICK x \in requests : x.by = t
          BY <4>2
        <5>2. errand[t].for = <<x.do, x.bid>>
          BY <3>2, <5>1 DEF PortfolioInv, OrdersStand
        <5>3. x.do = "withdraw" /\ x.bid = errand[t].for[2]
          BY <3>1, <5>2
        <5> QED
          BY <5>1, <5>3
      <4> QED
        BY <2>1, <3>2, <4>1, <4>2 DEF PortfolioInv, WithdrawalsStand
    <3> QED
      BY <1>1, <2>1, <3>1, <3>2 DEF PortfolioInv, WithdrawalsStand
  <2> QED
    BY <1>1, <2>1 DEF WithdrawalsStand, IsWithdrawal, HasRows, ReadAs
<1>8. ToldStands'
  <2>1. told \subseteq MyBids
    BY DEF PortfolioInv, PortfolioTypeOK
  <2>2. ASSUME NEW b \in told
        PROVE  /\ stands'[b] = "withdrawn"
               /\ \A t \in Errands : errand'[t].got.rows # <<>> /\ ~errand'[t].passed =>
                    /\ b \in DOMAIN errand'[t].got.rows[1]
                    /\ errand'[t].got.rows[1][b] = "Withdrawn"
    <3>1. stands[b] = "withdrawn" /\ b \in MyBids
      BY <2>1 DEF PortfolioInv, ToldStands
    <3>2. \A t \in Errands : HasRows(t) /\ ~errand[t].passed => ReadAs(t, b, "Withdrawn")
      BY DEF PortfolioInv, ToldStands
    <3>3. ASSUME NEW t \in Errands, errand'[t].got.rows # <<>>, ~errand'[t].passed
          PROVE  /\ b \in DOMAIN errand'[t].got.rows[1]
                 /\ errand'[t].got.rows[1][b] = "Withdrawn"
      <4>1. errand'[t].got = errand[t].got /\ errand'[t].passed = errand[t].passed
        BY <1>1
      <4>2. ReadAs(t, b, "Withdrawn")
        BY <3>2, <3>3, <4>1 DEF HasRows
      <4> QED
        BY <4>1, <4>2 DEF ReadAs
    <3> QED
      BY <3>1, <3>3
  <2>3. told' = told
    OBVIOUS
  <2> QED
    BY <2>2, <2>3 DEF ToldStands, HasRows, ReadAs
<1>9. Made(store.rows)' /\ \A t \in Errands : HasRows(t)' => Made(errand[t].got.rows[1])'
  <2>1. \A table \in RowTables : DOMAIN table \subseteq MyBids
    BY DEF RowTables
  <2>2. store.rows \in RowTables
    BY DEF PortfolioInv, PortfolioTypeOK
  <2>3. \A t \in Errands : HasRows(t) => errand[t].got.rows[1] \in RowTables
    BY DEF PortfolioInv, PortfolioTypeOK, ErrandRows, Readings, HasRows
  <2>4. \A table \in RowTables : Made(table) => \A b \in DOMAIN table : stands'[b] # "none"
    BY <2>1 DEF Made
  <2>5. ASSUME NEW t \in Errands, errand'[t].got.rows # <<>>
        PROVE  \A b \in DOMAIN errand'[t].got.rows[1] : stands'[b] # "none"
    <3>1. HasRows(t) /\ errand'[t].got.rows[1] = errand[t].got.rows[1]
      BY <1>1, <2>5 DEF HasRows
    <3> QED
      BY <2>3, <2>4, <3>1 DEF PortfolioInv
  <2>6. \A b \in DOMAIN store'.rows : stands'[b] # "none"
    BY <2>2, <2>4 DEF PortfolioInv
  <2> QED
    BY <2>5, <2>6 DEF Made, HasRows
<1>10. WithdrawnIsShown' /\ FundsAgree'
  BY DEF PortfolioInv, WithdrawnIsShown, FundsAgree
<1> QED
  BY <1>2, <1>4, <1>5, <1>7, <1>8, <1>9, <1>10 DEF PortfolioInv

\* A task of the portal starts or ends, or a request is over; nothing is read.
LEMMA ScreenMoves ==
  ASSUME PortfolioInv, UNCHANGED <<stands, onHold, store, told>>,
         errand' \in [Errands -> ErrandRows], requests' \in SUBSET Orders, bidding' \in BOOLEAN,
         locked' \in SUBSET MyBids, moves' \in Nat, slips' \in Nat,
         AtRest => \A r \in requests' : ~r.half,
         OrdersStand',
         \A t \in Errands : \/ errand'[t] = errand[t]
                            \/ errand'[t].got = Nothing /\ (errand'[t].calm => AtRest),
         \A t \in Errands : errand'[t].for # <<>> /\ errand'[t].for[1] = "withdraw" =>
           /\ errand'[t].pc = "waiting" =>
                (\E r \in requests' : r.by = t) \/ stands[errand'[t].for[2]] = "withdrawn"
           /\ errand'[t].pc = "reading" => stands[errand'[t].for[2]] = "withdrawn"
  PROVE  PortfolioInv'
<1>1. PortfolioTypeOK'
  BY DEF PortfolioInv, PortfolioTypeOK
<1>2. AtRest => AtRest'
  BY DEF AtRest
<1>3. CalmReads'
  <2>1. Balances' = Balances /\ OpenCount' = OpenCount /\ Rows' = Rows
    BY ReadsStay
  <2>2. ASSUME NEW t \in Errands, errand'[t].calm
        PROVE  /\ AtRest
               /\ errand'[t].got.funds # <<>> => errand'[t].got.funds[1] = Balances
               /\ errand'[t].got.count # <<>> => errand'[t].got.count[1] = OpenCount
               /\ errand'[t].got.rows # <<>> => errand'[t].got.rows[1] = Rows
    <3>1. CASE errand'[t] = errand[t]
      BY <2>2, <3>1 DEF PortfolioInv, CalmReads, HasRows
    <3>2. CASE errand'[t].got = Nothing /\ (errand'[t].calm => AtRest)
      BY <2>2, <3>2, NothingFacts
    <3> QED
      BY <3>1, <3>2
  <2> QED
    BY <1>2, <2>1, <2>2 DEF CalmReads, HasRows
<1>4. ASSUME NEW t \in Errands, errand'[t].got.rows # <<>>
      PROVE  errand'[t] = errand[t] /\ HasRows(t)
  BY <1>4, NothingFacts DEF HasRows
<1>5. WithdrawalsStand'
  <2>1. ASSUME NEW t \in Errands, errand'[t].for # <<>>, errand'[t].for[1] = "withdraw",
               errand'[t].pc = "reading", errand'[t].got.rows # <<>>
        PROVE  /\ errand'[t].for[2] \in DOMAIN errand'[t].got.rows[1]
               /\ errand'[t].got.rows[1][errand'[t].for[2]] = "Withdrawn"
    <3>1. errand'[t] = errand[t] /\ HasRows(t)
      BY <1>4, <2>1
    <3>2. IsWithdrawal(t) /\ errand[t].pc = "reading"
      BY <2>1, <3>1 DEF IsWithdrawal, Unprompted
    <3>3. ReadAs(t, errand[t].for[2], "Withdrawn")
      BY <3>1, <3>2 DEF PortfolioInv, WithdrawalsStand
    <3> QED
      BY <3>1, <3>3 DEF ReadAs
  <2> QED
    BY <2>1 DEF WithdrawalsStand, IsWithdrawal, Unprompted, HasRows, ReadAs
<1>6. ToldStands'
  <2>1. ASSUME NEW b \in told
        PROVE  /\ stands[b] = "withdrawn"
               /\ \A t \in Errands : errand'[t].got.rows # <<>> /\ ~errand'[t].passed =>
                    /\ b \in DOMAIN errand'[t].got.rows[1]
                    /\ errand'[t].got.rows[1][b] = "Withdrawn"
    <3>1. /\ stands[b] = "withdrawn"
          /\ \A t \in Errands : HasRows(t) /\ ~errand[t].passed => ReadAs(t, b, "Withdrawn")
      BY DEF PortfolioInv, ToldStands
    <3> QED
      BY <1>4, <3>1 DEF ReadAs
  <2>2. told' = told /\ stands' = stands
    OBVIOUS
  <2> QED
    BY <2>1, <2>2 DEF ToldStands, HasRows, ReadAs
<1>7. Made(store.rows)' /\ \A t \in Errands : HasRows(t)' => Made(errand[t].got.rows[1])'
  <2>1. ASSUME NEW t \in Errands, errand'[t].got.rows # <<>>
        PROVE  \A b \in DOMAIN errand'[t].got.rows[1] : stands[b] # "none"
    <3>1. errand'[t] = errand[t] /\ Made(errand[t].got.rows[1])
      BY <1>4, <2>1 DEF PortfolioInv
    <3> QED
      BY <3>1 DEF Made
  <2>2. \A b \in DOMAIN store.rows : stands[b] # "none"
    BY DEF PortfolioInv, Made
  <2> QED
    BY <2>1, <2>2 DEF Made, HasRows
<1>8. WithdrawnIsShown' /\ FundsAgree'
  BY DEF PortfolioInv, WithdrawnIsShown, FundsAgree
<1> QED
  BY <1>1, <1>3, <1>5, <1>6, <1>7, <1>8 DEF PortfolioInv

----------------------------------------------------------------------------
\* The services.

LEMMA OrderFacts ==
  ASSUME PortfolioInv, NEW r \in requests
  PROVE  /\ r \in Orders /\ r.bid \in MyBids /\ r.by \in Errands /\ r.do \in {"place", "withdraw"}
         /\ r.half \in BOOLEAN
         /\ r.do = "place" => stands[r.bid] = "none" /\ \A x \in requests : x.bid = r.bid => x = r
         /\ r.do = "withdraw" => stands[r.bid] # "none" /\ (r.half => stands[r.bid] = "withdrawn")
         /\ errand[r.by].pc \in {"waiting", "over"}
         /\ errand[r.by].pc = "waiting" => errand[r.by].for = <<r.do, r.bid>>
<1>1. r \in Orders
  BY DEF PortfolioInv, PortfolioTypeOK
<1>2. r.bid \in MyBids /\ r.by \in Errands /\ r.do \in {"place", "withdraw"} /\ r.half \in BOOLEAN
  BY <1>1 DEF Orders
<1> QED
  BY <1>1, <1>2 DEF PortfolioInv, OrdersStand

LEMMA HalfFacts ==
  ASSUME PortfolioInv, NEW r \in requests
  PROVE  /\ [r EXCEPT !.half = TRUE] \in Orders /\ [r EXCEPT !.half = TRUE].do = r.do
         /\ [r EXCEPT !.half = TRUE].bid = r.bid /\ [r EXCEPT !.half = TRUE].by = r.by
         /\ [r EXCEPT !.half = TRUE].half = TRUE
BY OrderFacts DEF Orders

LEMMA TakeHoldHolds ==
  ASSUME PortfolioInv, NEW r \in requests, TakeHold(r)
  PROVE  PortfolioInv'
<1> DEFINE h == [r EXCEPT !.half = TRUE]
<1>1. /\ r.do = "place" /\ onHold' = [onHold EXCEPT ![r.bid] = Stake]
      /\ requests' = (requests \ {r}) \cup {h} /\ UNCHANGED <<stands, bidding, store, locked, told, moves, slips>>
      /\ errand' = [t \in Errands |-> [errand[t] EXCEPT !.calm = FALSE]] /\ PortfolioTypeOK
  BY DEF TakeHold, Halfway, ServiceStep, PortfolioInv
<1>2. h \in Orders /\ h.do = r.do /\ h.bid = r.bid /\ h.by = r.by /\ h.half = TRUE
  BY HalfFacts
<1> HIDE DEF h
<1>3. onHold' \in [MyBids -> Nat] /\ requests' \in SUBSET Orders
  BY <1>1, <1>2, PortfolioAssumption DEF PortfolioTypeOK
<1>4. ASSUME NEW y \in requests'
      PROVE  /\ y.do = "place" => stands[y.bid] = "none" /\ \A x \in requests' : x.bid = y.bid => x = y
             /\ y.do = "withdraw" => stands[y.bid] # "none" /\ (y.half => stands[y.bid] = "withdrawn")
             /\ \E x \in requests : x.by = y.by /\ x.do = y.do /\ x.bid = y.bid
  <2>1. CASE y = h
    BY <1>1, <1>2, <2>1, OrderFacts
  <2>2. CASE y \in requests /\ y # r
    BY <1>1, <1>2, <2>2, OrderFacts
  <2> QED
    BY <1>1, <2>1, <2>2
<1>5. \A x \in requests : \E y \in requests' : y.by = x.by
  BY <1>1, <1>2
<1> QED
  BY <1>1, <1>3, <1>4, <1>5, ServicesMove DEF PortfolioTypeOK

LEMMA CreateBidHolds ==
  ASSUME PortfolioInv, NEW r \in requests, CreateBid(r)
  PROVE  PortfolioInv'
<1>1. /\ r.do = "place" /\ stands' = [stands EXCEPT ![r.bid] = "placed"]
      /\ requests' = requests \ {r} /\ UNCHANGED <<onHold, bidding, store, locked, told, moves, slips>>
      /\ errand' = [t \in Errands |-> [errand[t] EXCEPT !.calm = FALSE]] /\ PortfolioTypeOK
  BY DEF CreateBid, ServiceStep, PortfolioInv
<1>2. r.bid \in MyBids /\ stands[r.bid] = "none" /\ \A x \in requests : x.bid = r.bid => x = r
  BY <1>1, OrderFacts
<1>3. /\ stands' \in [MyBids -> {"none"} \cup DOMAIN Label]
      /\ \A b \in MyBids : b # r.bid => stands'[b] = stands[b]
      /\ \A b \in MyBids : stands[b] # "none" => stands'[b] = stands[b]
  BY <1>1, <1>2, LabelFacts DEF PortfolioTypeOK
<1>4. ASSUME NEW y \in requests'
      PROVE  /\ y.do = "place" => stands'[y.bid] = "none" /\ \A x \in requests' : x.bid = y.bid => x = y
             /\ y.do = "withdraw" => stands'[y.bid] # "none" /\ (y.half => stands'[y.bid] = "withdrawn")
             /\ \E x \in requests : x.by = y.by /\ x.do = y.do /\ x.bid = y.bid
  <2>1. y \in requests /\ y.bid \in MyBids /\ y.bid # r.bid /\ stands'[y.bid] = stands[y.bid]
    BY <1>1, <1>2, <1>3, OrderFacts
  <2> QED
    BY <1>1, <2>1, OrderFacts
<1>5. \A x \in requests : \/ \E y \in requests' : y.by = x.by
                          \/ x.do = "withdraw" => stands'[x.bid] = "withdrawn"
  BY <1>1
<1>6. requests' \in SUBSET Orders
  BY <1>1 DEF PortfolioTypeOK
<1> QED
  BY <1>1, <1>3, <1>4, <1>5, <1>6, ServicesMove DEF PortfolioTypeOK

LEMMA WithdrawBidHolds ==
  ASSUME PortfolioInv, NEW r \in requests, WithdrawBid(r)
  PROVE  PortfolioInv'
<1> DEFINE h == [r EXCEPT !.half = TRUE]
<1>1. /\ r.do = "withdraw" /\ stands[r.bid] = "placed" /\ stands' = [stands EXCEPT ![r.bid] = "withdrawn"]
      /\ requests' = (requests \ {r}) \cup {h} /\ UNCHANGED <<onHold, bidding, store, locked, told, moves, slips>>
      /\ errand' = [t \in Errands |-> [errand[t] EXCEPT !.calm = FALSE]] /\ PortfolioTypeOK
  BY DEF WithdrawBid, Halfway, ServiceStep, PortfolioInv
<1>2. h \in Orders /\ h.do = r.do /\ h.bid = r.bid /\ h.by = r.by /\ h.half = TRUE
  BY HalfFacts
<1> HIDE DEF h
<1>3. /\ stands' \in [MyBids -> {"none"} \cup DOMAIN Label] /\ stands'[r.bid] = "withdrawn"
      /\ \A b \in MyBids : b # r.bid => stands'[b] = stands[b]
      /\ requests' \in SUBSET Orders
  BY <1>1, <1>2, OrderFacts, LabelFacts DEF PortfolioTypeOK
<1>4. ASSUME NEW y \in requests'
      PROVE  /\ y.do = "place" => stands'[y.bid] = "none" /\ \A x \in requests' : x.bid = y.bid => x = y
             /\ y.do = "withdraw" => stands'[y.bid] # "none" /\ (y.half => stands'[y.bid] = "withdrawn")
             /\ \E x \in requests : x.by = y.by /\ x.do = y.do /\ x.bid = y.bid
  <2>1. CASE y = h
    BY <1>1, <1>2, <1>3, <2>1
  <2>2. CASE y \in requests /\ y # r
    <3>1. y.do = "place" => y.bid # r.bid
      BY <1>1, <2>2, OrderFacts
    <3>2. y.bid \in MyBids
      BY <2>2, OrderFacts
    <3> QED
      BY <1>1, <1>2, <1>3, <2>2, <3>1, <3>2, OrderFacts
  <2> QED
    BY <1>1, <2>1, <2>2
<1>5. \A x \in requests : \E y \in requests' : y.by = x.by
  BY <1>1, <1>2
<1>6. /\ \A b \in MyBids : stands[b] # "none" => stands'[b] # "none"
      /\ \A b \in MyBids : stands[b] = "withdrawn" => stands'[b] = "withdrawn"
  BY <1>3
<1> QED
  BY <1>1, <1>3, <1>4, <1>5, <1>6, ServicesMove DEF PortfolioTypeOK

LEMMA ReleaseWithdrawnHolds ==
  ASSUME PortfolioInv, NEW r \in requests, ReleaseWithdrawn(r)
  PROVE  PortfolioInv'
<1>1. /\ r.do = "withdraw" /\ r.half /\ onHold' = [onHold EXCEPT ![r.bid] = 0]
      /\ requests' = requests \ {r} /\ UNCHANGED <<stands, bidding, store, locked, told, moves, slips>>
      /\ errand' = [t \in Errands |-> [errand[t] EXCEPT !.calm = FALSE]] /\ PortfolioTypeOK
  BY DEF ReleaseWithdrawn, ServiceStep, PortfolioInv
<1>2. onHold' \in [MyBids -> Nat] /\ requests' \in SUBSET Orders
  BY <1>1 DEF PortfolioTypeOK
<1>3. ASSUME NEW y \in requests'
      PROVE  /\ y.do = "place" => stands'[y.bid] = "none" /\ \A x \in requests' : x.bid = y.bid => x = y
             /\ y.do = "withdraw" => stands'[y.bid] # "none" /\ (y.half => stands'[y.bid] = "withdrawn")
             /\ \E x \in requests : x.by = y.by /\ x.do = y.do /\ x.bid = y.bid
  BY <1>1, OrderFacts
<1>4. \A x \in requests : \/ \E y \in requests' : y.by = x.by
                          \/ x.do = "withdraw" => stands'[x.bid] = "withdrawn"
  BY <1>1, OrderFacts
<1> QED
  BY <1>1, <1>2, <1>3, <1>4, ServicesMove DEF PortfolioTypeOK

LEMMA ProgressHolds ==
  ASSUME PortfolioInv, NEW b \in MyBids, Progress(b)
  PROVE  PortfolioInv'
<1>1. PICK s \in NextStands[stands[b]] : stands' = [stands EXCEPT ![b] = s]
  BY DEF Progress
<1>2. /\ stands[b] \in {"placed", "in_batch", "submitted", "accepted"} /\ s \in DOMAIN Label
      /\ s # "none"
  <2>1. DOMAIN NextStands = {"placed", "in_batch", "submitted", "accepted"}
    BY DEF NextStands
  <2>2. /\ NextStands["placed"] = {"in_batch"} /\ NextStands["in_batch"] = {"submitted"}
        /\ NextStands["submitted"] = {"accepted", "rejected"}
        /\ NextStands["accepted"] = {"allotted", "partially_allotted", "unsuccessful"}
    BY DEF NextStands
  <2>3. stands[b] \in {"placed", "in_batch", "submitted", "accepted"}
    BY <2>1 DEF Progress
  <2> QED
    BY <1>1, <2>2, <2>3, LabelFacts
<1>3. /\ UNCHANGED <<onHold, requests, bidding, store, locked, told, slips>> /\ moves' = moves + 1
      /\ errand' = [t \in Errands |-> [errand[t] EXCEPT !.calm = FALSE]] /\ PortfolioTypeOK
  BY DEF Progress, Move, PortfolioInv
<1>4. /\ stands' \in [MyBids -> {"none"} \cup DOMAIN Label] /\ stands'[b] = s
      /\ \A c \in MyBids : c # b => stands'[c] = stands[c]
  BY <1>1, <1>2, <1>3 DEF PortfolioTypeOK
<1>5. ASSUME NEW y \in requests'
      PROVE  /\ y.do = "place" => stands'[y.bid] = "none" /\ \A x \in requests' : x.bid = y.bid => x = y
             /\ y.do = "withdraw" => stands'[y.bid] # "none" /\ (y.half => stands'[y.bid] = "withdrawn")
             /\ \E x \in requests : x.by = y.by /\ x.do = y.do /\ x.bid = y.bid
  <2>1. y \in requests /\ y.bid \in MyBids
    BY <1>3, OrderFacts
  <2> QED
    BY <1>2, <1>3, <1>4, <2>1, OrderFacts
<1>6. /\ \A c \in MyBids : stands[c] # "none" => stands'[c] # "none"
      /\ \A c \in MyBids : stands[c] = "withdrawn" => stands'[c] = "withdrawn"
  BY <1>2, <1>4
<1>7. \A x \in requests : \E y \in requests' : y.by = x.by
  BY <1>3
<1>8. moves' \in Nat
  BY <1>3 DEF PortfolioTypeOK
<1> QED
  BY <1>3, <1>4, <1>5, <1>6, <1>7, <1>8, ServicesMove DEF PortfolioTypeOK

LEMMA SettleHoldHolds ==
  ASSUME PortfolioInv, NEW b \in MyBids, SettleHold(b)
  PROVE  PortfolioInv'
<1>1. /\ UNCHANGED <<stands, requests, bidding, store, locked, told, slips>> /\ moves' = moves + 1
      /\ errand' = [t \in Errands |-> [errand[t] EXCEPT !.calm = FALSE]] /\ PortfolioTypeOK
      /\ onHold' = [onHold EXCEPT ![b] = Due(stands[b])]
  BY DEF SettleHold, Move, PortfolioInv
<1>2. Due(stands[b]) \in Nat
  BY PortfolioAssumption DEF Due
<1>3. onHold' \in [MyBids -> Nat] /\ moves' \in Nat
  BY <1>1, <1>2 DEF PortfolioTypeOK
<1>4. ASSUME NEW y \in requests'
      PROVE  /\ y.do = "place" => stands'[y.bid] = "none" /\ \A x \in requests' : x.bid = y.bid => x = y
             /\ y.do = "withdraw" => stands'[y.bid] # "none" /\ (y.half => stands'[y.bid] = "withdrawn")
             /\ \E x \in requests : x.by = y.by /\ x.do = y.do /\ x.bid = y.bid
  BY <1>1, OrderFacts
<1>5. \A x \in requests : \E y \in requests' : y.by = x.by
  BY <1>1
<1> QED
  BY <1>1, <1>3, <1>4, <1>5, ServicesMove DEF PortfolioTypeOK

LEMMA CutOffHolds ==
  ASSUME PortfolioInv, CutOff
  PROVE  PortfolioInv'
<1>1. /\ UNCHANGED <<stands, onHold, requests, moves, store, errand, locked, told, slips>>
      /\ bidding' = FALSE /\ PortfolioTypeOK
  BY DEF CutOff, screen, PortfolioInv
<1>2. OrdersStand'
  BY <1>1 DEF PortfolioInv, OrdersStand
<1>3. ASSUME NEW t \in Errands, errand'[t].for # <<>>, errand'[t].for[1] = "withdraw"
      PROVE  /\ errand'[t].pc = "waiting" =>
                  (\E r \in requests' : r.by = t) \/ stands[errand'[t].for[2]] = "withdrawn"
             /\ errand'[t].pc = "reading" => stands[errand'[t].for[2]] = "withdrawn"
  BY <1>1, <1>3 DEF PortfolioInv, WithdrawalsStand, IsWithdrawal, Unprompted
<1>4. AtRest => \A r \in requests' : ~r.half
  BY <1>1 DEF AtRest
<1>5. \A t \in Errands : errand'[t] = errand[t]
  BY <1>1
<1> QED
  BY <1>1, <1>2, <1>3, <1>4, <1>5, ScreenMoves DEF PortfolioTypeOK

----------------------------------------------------------------------------
\* The portal's tasks.

\* One task goes on with nothing read; requests may be over, or be sent.
LEMMA TaskMoves ==
  ASSUME PortfolioInv, UNCHANGED <<stands, onHold, store, told>>, bidding' \in BOOLEAN,
         locked' \in SUBSET MyBids, moves' \in Nat, slips' \in Nat,
         NEW t \in Errands, NEW x \in ErrandRows, errand' = [errand EXCEPT ![t] = x],
         x.got = Nothing, x.calm => AtRest,
         requests' \in SUBSET Orders, AtRest => \A r \in requests' : ~r.half, OrdersStand',
         \A r \in requests : r.by # t => r \in requests',
         x.for # <<>> /\ x.for[1] = "withdraw" =>
           /\ x.pc = "waiting" => \E r \in requests' : r.by = t
           /\ x.pc = "reading" => stands[x.for[2]] = "withdrawn"
  PROVE  PortfolioInv'
<1>1. /\ errand' \in [Errands -> ErrandRows] /\ errand'[t] = x
      /\ \A u \in Errands : u # t => errand'[u] = errand[u]
  BY DEF PortfolioInv, PortfolioTypeOK
<1>2. \A u \in Errands : \/ errand'[u] = errand[u]
                         \/ errand'[u].got = Nothing /\ (errand'[u].calm => AtRest)
  BY <1>1
<1>3. ASSUME NEW u \in Errands, errand'[u].for # <<>>, errand'[u].for[1] = "withdraw"
      PROVE  /\ errand'[u].pc = "waiting" =>
                  (\E r \in requests' : r.by = u) \/ stands[errand'[u].for[2]] = "withdrawn"
             /\ errand'[u].pc = "reading" => stands[errand'[u].for[2]] = "withdrawn"
  <2>1. CASE u = t
    BY <1>1, <1>3, <2>1
  <2>2. CASE u # t
    <3>1. errand'[u] = errand[u] /\ IsWithdrawal(u)
      BY <1>1, <1>3, <2>2 DEF IsWithdrawal, Unprompted
    <3>2. /\ errand[u].pc = "waiting" =>
               (\E r \in requests : r.by = u) \/ stands[errand[u].for[2]] = "withdrawn"
          /\ errand[u].pc = "reading" => stands[errand[u].for[2]] = "withdrawn"
      BY <3>1 DEF PortfolioInv, WithdrawalsStand
    <3>3. (\E r \in requests : r.by = u) => \E r \in requests' : r.by = u
      BY <2>2
    <3> QED
      BY <3>1, <3>2, <3>3
  <2> QED
    BY <2>1, <2>2
<1> QED
  BY <1>1, <1>2, <1>3, ScreenMoves

\* Requests that stay, of a task that no longer waits or of others.
LEMMA OrdersStay ==
  ASSUME PortfolioInv, UNCHANGED stands, requests' \subseteq requests,
         NEW t \in Errands, NEW x \in ErrandRows, errand' = [errand EXCEPT ![t] = x],
         x.pc = "over" \/ \A r \in requests' : r.by # t
  PROVE  OrdersStand' /\ requests' \in SUBSET Orders /\ (AtRest => \A r \in requests' : ~r.half)
<1>1. /\ errand'[t] = x /\ \A u \in Errands : u # t => errand'[u] = errand[u]
      /\ requests' \in SUBSET Orders
  BY DEF PortfolioInv, PortfolioTypeOK
<1>2. ASSUME NEW r \in requests'
      PROVE  /\ r.do = "place" => stands'[r.bid] = "none" /\ \A z \in requests' : z.bid = r.bid => z = r
             /\ r.do = "withdraw" => stands'[r.bid] # "none" /\ (r.half => stands'[r.bid] = "withdrawn")
             /\ errand'[r.by].pc \in {"waiting", "over"}
             /\ errand'[r.by].pc = "waiting" => errand'[r.by].for = <<r.do, r.bid>>
  <2>1. r \in requests /\ r.by \in Errands
    BY <1>2, OrderFacts
  <2>2. CASE r.by = t
    BY <1>1, <1>2, <2>1, <2>2, OrderFacts
  <2>3. CASE r.by # t
    BY <1>1, <2>1, <2>3, OrderFacts
  <2> QED
    BY <2>2, <2>3
<1>3. AtRest => \A r \in requests' : ~r.half
  BY DEF AtRest
<1> QED
  BY <1>1, <1>2, <1>3 DEF OrdersStand

\* Who has not begun has asked for nothing.
LEMMA UnusedFacts ==
  ASSUME PortfolioInv, NEW t \in Errands, Unused(t)
  PROVE  \A r \in requests : r.by # t
<1>1. errand[t].pc = "none"
  <2>1. errand[t] = NoTask
    BY DEF Unused
  <2>2. NoTask.pc = "none"
    BY DEF NoTask, Task
  <2> QED
    BY <2>1, <2>2
<1> QED
  BY <1>1, OrderFacts

\* A request is sent by a task that begins.
LEMMA SendHolds ==
  ASSUME PortfolioInv, NEW t \in Errands, NEW do \in {"place", "withdraw"}, NEW b \in MyBids,
         SendOff(t, Order(do, b, t)), locked' \in SUBSET MyBids,
         do = "place" => stands[b] = "none" /\ \A r \in requests : r.bid # b,
         do = "withdraw" => stands[b] # "none"
  PROVE  PortfolioInv'
<1> DEFINE o == Order(do, b, t)
           x == Task("waiting", <<do, b>>, FALSE)
<1>1. /\ o \in Orders /\ o.do = do /\ o.bid = b /\ o.by = t /\ o.half = FALSE
  BY DEF Order, Orders
<1>2. PICK for \in {<<>>} \cup ({"place", "withdraw"} \X MyBids) : for = <<do, b>>
  OBVIOUS
<1>3. /\ x \in ErrandRows /\ x.pc = "waiting" /\ x.for = <<do, b>> /\ x.got = Nothing /\ x.calm = FALSE
  <2>1. x = Task("waiting", for, FALSE)
    BY <1>2
  <2> HIDE DEF x
  <2> QED
    BY <1>2, <2>1, NothingFacts
<1>4. /\ Unused(t) /\ requests' = requests \cup {o} /\ errand' = [errand EXCEPT ![t] = x]
      /\ UNCHANGED <<stands, onHold, bidding, moves, store, told, slips>> /\ PortfolioTypeOK
  BY <1>1 DEF SendOff, PortfolioInv
<1> HIDE DEF o, x
<1>5. /\ errand'[t] = x /\ \A u \in Errands : u # t => errand'[u] = errand[u]
      /\ requests' \in SUBSET Orders
  BY <1>1, <1>4 DEF PortfolioTypeOK
<1>6. \A r \in requests : r.by # t
  BY <1>4, UnusedFacts
<1>7. ASSUME NEW r \in requests'
      PROVE  /\ r.do = "place" => stands'[r.bid] = "none" /\ \A z \in requests' : z.bid = r.bid => z = r
             /\ r.do = "withdraw" => stands'[r.bid] # "none" /\ (r.half => stands'[r.bid] = "withdrawn")
             /\ errand'[r.by].pc \in {"waiting", "over"}
             /\ errand'[r.by].pc = "waiting" => errand'[r.by].for = <<r.do, r.bid>>
  <2>1. CASE r = o
    BY <1>1, <1>3, <1>4, <1>5, <2>1
  <2>2. CASE r \in requests
    <3>1. r.do = "place" => r.bid # b
      BY <2>2, OrderFacts
    <3>2. errand'[r.by] = errand[r.by]
      BY <1>5, <1>6, <2>2, OrderFacts
    <3> QED
      BY <1>1, <1>4, <2>2, <3>1, <3>2, OrderFacts
  <2> QED
    BY <1>4, <2>1, <2>2
<1>8. OrdersStand'
  BY <1>7 DEF OrdersStand
<1>9. AtRest => \A r \in requests' : ~r.half
  BY <1>1, <1>4 DEF AtRest
<1>10. \E r \in requests' : r.by = t
  BY <1>1, <1>4
<1>11. \A r \in requests : r \in requests'
  BY <1>4
<1>12. bidding' \in BOOLEAN /\ moves' \in Nat /\ slips' \in Nat
  BY <1>4 DEF PortfolioTypeOK
<1> QED
  BY <1>3, <1>4, <1>5, <1>8, <1>9, <1>10, <1>11, <1>12, TaskMoves

LEMMA AskHolds ==
  ASSUME PortfolioInv, NEW t \in Errands, NEW b \in MyBids, AskBid(t, b) \/ AskWithdrawal(t, b)
  PROVE  PortfolioInv'
<1>1. CASE AskBid(t, b)
  <2>1. locked' \in SUBSET MyBids
    BY <1>1 DEF AskBid, PortfolioInv, PortfolioTypeOK
  <2> QED
    BY <1>1, <2>1, SendHolds DEF AskBid
<1>2. CASE AskWithdrawal(t, b)
  <2>1. locked' \in SUBSET MyBids /\ b \in DOMAIN store.rows
    BY <1>2 DEF AskWithdrawal, Withdrawable
  <2>2. stands[b] # "none"
    BY <2>1 DEF PortfolioInv, Made
  <2> QED
    BY <1>2, <2>1, <2>2, SendHolds DEF AskWithdrawal
<1> QED
  BY <1>1, <1>2

\* A task reads, once its request is over.
LEMMA RepliedHolds ==
  ASSUME PortfolioInv, NEW t \in Errands, Replied(t)
  PROVE  PortfolioInv'
<1> DEFINE x == Task("reading", errand[t].for, AtRest)
<1>1. /\ errand[t].pc = "waiting" /\ \A r \in requests : r.by # t
      /\ errand' = [errand EXCEPT ![t] = x] /\ PortfolioTypeOK
      /\ UNCHANGED <<stands, onHold, requests, bidding, moves, store, locked, told, slips>>
  BY DEF Replied, Awaited, StartReading, services, PortfolioInv
<1>2. errand[t].for \in {<<>>} \cup ({"place", "withdraw"} \X MyBids) /\ AtRest \in BOOLEAN
  BY <1>1 DEF PortfolioTypeOK, ErrandRows, AtRest
<1>3. /\ x \in ErrandRows /\ x.pc = "reading" /\ x.for = errand[t].for /\ x.got = Nothing
      /\ x.calm = AtRest
  BY <1>2, NothingFacts
<1> HIDE DEF x
<1>4. OrdersStand' /\ requests' \in SUBSET Orders /\ (AtRest => \A r \in requests' : ~r.half)
  BY <1>1, <1>3, OrdersStay
<1>5. x.for # <<>> /\ x.for[1] = "withdraw" => stands[x.for[2]] = "withdrawn"
  BY <1>1, <1>3 DEF PortfolioInv, WithdrawalsStand, IsWithdrawal, Unprompted
<1>6. bidding' \in BOOLEAN /\ locked' \in SUBSET MyBids /\ moves' \in Nat /\ slips' \in Nat
  BY <1>1 DEF PortfolioTypeOK
<1> QED
  BY <1>1, <1>3, <1>4, <1>5, <1>6, TaskMoves

LEMMA OpenAgainHolds ==
  ASSUME PortfolioInv, NEW t \in Errands, OpenAgain(t)
  PROVE  PortfolioInv'
<1> DEFINE x == Task("reading", Unprompted, AtRest)
<1>1. /\ Unused(t) /\ errand' = [errand EXCEPT ![t] = x] /\ PortfolioTypeOK /\ locked' = {}
      /\ UNCHANGED <<stands, onHold, requests, bidding, moves, store, told, slips>>
  BY DEF OpenAgain, services, PortfolioInv
<1>2. AtRest \in BOOLEAN
  BY DEF AtRest
<1>3. x \in ErrandRows /\ x.pc = "reading" /\ x.for = <<>> /\ x.got = Nothing /\ x.calm = AtRest
  BY <1>2, NothingFacts DEF Unprompted
<1> HIDE DEF x
<1>4. \A r \in requests : r.by # t
  BY <1>1, UnusedFacts
<1>5. OrdersStand' /\ requests' \in SUBSET Orders /\ (AtRest => \A r \in requests' : ~r.half)
  BY <1>1, <1>3, <1>4, OrdersStay
<1>6. bidding' \in BOOLEAN /\ locked' \in SUBSET MyBids /\ moves' \in Nat /\ slips' \in Nat
  BY <1>1 DEF PortfolioTypeOK
<1> QED
  BY <1>1, <1>3, <1>5, <1>6, TaskMoves

LEMMA NoTaskFacts ==
  NoTask \in ErrandRows /\ NoTask.pc = "none" /\ NoTask.for = <<>> /\ NoTask.got = Nothing /\ NoTask.calm = FALSE
<1>1. /\ Task("none", <<>>, FALSE) \in ErrandRows /\ Task("none", <<>>, FALSE).pc = "none"
      /\ Task("none", <<>>, FALSE).for = <<>> /\ Task("none", <<>>, FALSE).got = Nothing
      /\ Task("none", <<>>, FALSE).calm = FALSE
  <2>1. "none" \in {"none", "waiting", "reading", "over"} /\ <<>> \in {<<>>} \cup ({"place", "withdraw"} \X MyBids)
        /\ FALSE \in BOOLEAN
    OBVIOUS
  <2> QED
    BY <2>1, NothingFacts
<1> QED
  BY <1>1 DEF NoTask

LEMMA OverFacts ==
  Over \in ErrandRows /\ Over.pc = "over" /\ Over.for = <<>> /\ Over.got = Nothing /\ Over.calm = FALSE
BY NothingFacts DEF Over

\* A task is over before it read; its request may go on, or is over.
LEMMA DropsHolds ==
  ASSUME PortfolioInv, NEW t \in Errands, Drops(t), requests' \subseteq requests,
         \A r \in requests : r.by # t => r \in requests', slips' \in Nat
  PROVE  PortfolioInv'
<1>1. /\ errand' = [errand EXCEPT ![t] = Over] /\ UNCHANGED <<stands, onHold, bidding, moves, store, told>>
      /\ PortfolioTypeOK
  BY DEF Drops, PortfolioInv
<1>2. locked' \in SUBSET MyBids
  BY <1>1 DEF Drops, Unlock, PortfolioTypeOK
<1>3. OrdersStand' /\ requests' \in SUBSET Orders /\ (AtRest => \A r \in requests' : ~r.half)
  BY <1>1, OverFacts, OrdersStay
<1>4. bidding' \in BOOLEAN /\ moves' \in Nat
  BY <1>1 DEF PortfolioTypeOK
<1> QED
  BY <1>1, <1>2, <1>3, <1>4, OverFacts, TaskMoves

LEMMA LostHolds ==
  ASSUME PortfolioInv, NEW t \in Errands, Lost(t)
  PROVE  PortfolioInv'
<1>1. requests' = requests /\ slips' = slips + 1 /\ Drops(t) /\ slips \in Nat
  BY DEF Lost, PortfolioInv, PortfolioTypeOK
<1> QED
  BY <1>1, DropsHolds

\* A request is refused, or half of it fails: whoever waits for it is told.
LEMMA EndedHolds ==
  ASSUME PortfolioInv, NEW r \in requests, TurnedDown(r) \/ ReleaseFails(r)
  PROVE  PortfolioInv'
<1>1. /\ requests' = requests \ {r} /\ slips' \in Nat /\ r.by \in Errands /\ PortfolioTypeOK
      /\ IF Awaited(r.by) THEN Drops(r.by) ELSE UNCHANGED <<stands, onHold, bidding, moves, screen>>
  BY OrderFacts DEF TurnedDown, ReleaseFails, PortfolioInv, PortfolioTypeOK
<1>2. CASE Awaited(r.by)
  <2>1. \A x \in requests : x.by # r.by => x \in requests'
    BY <1>1
  <2> QED
    BY <1>1, <1>2, <2>1, DropsHolds
<1>3. CASE ~Awaited(r.by)
  <2>1. /\ UNCHANGED <<stands, onHold, bidding, moves, store, errand, locked, told>>
        /\ errand[r.by].pc = "over"
    BY <1>1, <1>3, OrderFacts DEF screen, Awaited
  <2>2. errand' = [errand EXCEPT ![r.by] = errand[r.by]] /\ errand[r.by] \in ErrandRows
    BY <1>1, <2>1 DEF PortfolioTypeOK
  <2>3. OrdersStand' /\ requests' \in SUBSET Orders /\ (AtRest => \A x \in requests' : ~x.half)
    BY <1>1, <2>1, <2>2, OrdersStay
  <2>4. ASSUME NEW t \in Errands, errand'[t].for # <<>>, errand'[t].for[1] = "withdraw"
        PROVE  /\ errand'[t].pc = "waiting" =>
                    (\E x \in requests' : x.by = t) \/ stands[errand'[t].for[2]] = "withdrawn"
               /\ errand'[t].pc = "reading" => stands[errand'[t].for[2]] = "withdrawn"
    <3>1. IsWithdrawal(t) /\ errand'[t] = errand[t]
      BY <2>1, <2>4 DEF IsWithdrawal, Unprompted
    <3>2. /\ errand[t].pc = "waiting" =>
               (\E x \in requests : x.by = t) \/ stands[errand[t].for[2]] = "withdrawn"
          /\ errand[t].pc = "reading" => stands[errand[t].for[2]] = "withdrawn"
      BY <3>1 DEF PortfolioInv, WithdrawalsStand
    <3>3. errand[t].pc = "waiting" /\ (\E x \in requests : x.by = t) => \E x \in requests' : x.by = t
      BY <1>1, <2>1
    <3> QED
      BY <3>1, <3>2, <3>3
  <2>5. \A t \in Errands : errand'[t] = errand[t]
    BY <2>1
  <2> QED
    BY <1>1, <2>1, <2>3, <2>4, <2>5, ScreenMoves DEF PortfolioTypeOK
<1> QED
  BY <1>2, <1>3

----------------------------------------------------------------------------
\* The reads, and what is shown.

LEMMA ReadHolds ==
  ASSUME PortfolioInv, NEW t \in Errands, NEW what \in DOMAIN Nothing, Read(t, what)
  PROVE  PortfolioInv'
<1> DEFINE answer == CASE what = "funds" -> <<Balances>> [] what = "count" -> <<OpenCount>>
                       [] what = "rows" -> <<Rows>>
           got == [errand[t].got EXCEPT ![what] = answer]
           x == [errand[t] EXCEPT !.got = got]
<1>1. /\ errand[t].pc = "reading" /\ errand[t].got[what] = <<>> /\ PortfolioTypeOK
      /\ errand' = [errand EXCEPT ![t] = x]
      /\ UNCHANGED <<stands, onHold, requests, bidding, moves, store, locked, told, slips>>
  BY DEF Read, services, PortfolioInv
<1>2. what \in {"funds", "count", "rows"}
  BY DEF Nothing
<1>3. errand[t] \in ErrandRows /\ errand[t].got \in Readings
  <2>1. errand[t] \in ErrandRows
    BY <1>1 DEF PortfolioTypeOK
  <2> QED
    BY <2>1 DEF ErrandRows
<1>4. /\ Balances \in [available : Int, onHold : Nat] /\ OpenCount \in Nat /\ Rows \in RowTables
      /\ Made(Rows)
      /\ \A b \in MyBids : b \in DOMAIN Rows <=> stands[b] # "none"
      /\ \A b \in DOMAIN Rows : b \in MyBids /\ Rows[b] = Label[stands[b]]
  BY <1>1, SummaryFacts, RowsFacts
<1>5. /\ got \in Readings
      /\ got.funds = (IF what = "funds" THEN <<Balances>> ELSE errand[t].got.funds)
      /\ got.count = (IF what = "count" THEN <<OpenCount>> ELSE errand[t].got.count)
      /\ got.rows = (IF what = "rows" THEN <<Rows>> ELSE errand[t].got.rows)
  <2>1. CASE what = "funds"
    <3>1. <<Balances>> \in Seq([available : Int, onHold : Nat])
      BY <1>4
    <3>2. got = [errand[t].got EXCEPT !.funds = <<Balances>>]
      BY <2>1
    <3> QED
      BY <1>3, <2>1, <3>1, <3>2 DEF Readings
  <2>2. CASE what = "count"
    <3>1. <<OpenCount>> \in Seq(Nat)
      BY <1>4
    <3>2. got = [errand[t].got EXCEPT !.count = <<OpenCount>>]
      BY <2>2
    <3> QED
      BY <1>3, <2>2, <3>1, <3>2 DEF Readings
  <2>3. CASE what = "rows"
    <3>1. <<Rows>> \in Seq(RowTables)
      BY <1>4
    <3>2. got = [errand[t].got EXCEPT !.rows = <<Rows>>]
      BY <2>3
    <3> QED
      BY <1>3, <2>3, <3>1, <3>2 DEF Readings
  <2> QED
    BY <1>2, <2>1, <2>2, <2>3
<1> HIDE DEF got
<1>6. /\ x \in ErrandRows /\ x.got = got /\ x.pc = "reading" /\ x.for = errand[t].for
      /\ x.calm = errand[t].calm /\ x.passed = errand[t].passed
  BY <1>1, <1>3, <1>5 DEF ErrandRows
<1> HIDE DEF x
<1>7. /\ errand' \in [Errands -> ErrandRows] /\ errand'[t] = x
      /\ \A u \in Errands : u # t => errand'[u] = errand[u]
  BY <1>1, <1>6 DEF PortfolioTypeOK
<1>8. <<Rows>> # <<>> /\ <<Rows>>[1] = Rows /\ <<Balances>>[1] = Balances /\ <<OpenCount>>[1] = OpenCount
  OBVIOUS
<1>9. PortfolioTypeOK'
  BY <1>1, <1>7 DEF PortfolioTypeOK
<1>10. OrdersStand'
  <2>1. \A r \in requests : r.by # t
    BY <1>1, OrderFacts
  <2>2. \A r \in requests : errand'[r.by] = errand[r.by]
    BY <1>7, <2>1, OrderFacts
  <2> QED
    BY <1>1, <2>2 DEF PortfolioInv, OrdersStand
<1>11. CalmReads'
  <2>1. Balances' = Balances /\ OpenCount' = OpenCount /\ Rows' = Rows /\ AtRest' = AtRest
    BY <1>1, ReadsStay DEF AtRest
  <2>2. ASSUME NEW u \in Errands, errand'[u].calm
        PROVE  /\ AtRest
               /\ errand'[u].got.funds # <<>> => errand'[u].got.funds[1] = Balances
               /\ errand'[u].got.count # <<>> => errand'[u].got.count[1] = OpenCount
               /\ errand'[u].got.rows # <<>> => errand'[u].got.rows[1] = Rows
    <3>1. errand[u].calm
      BY <1>6, <1>7, <2>2
    <3>2. /\ AtRest
          /\ errand[u].got.funds # <<>> => errand[u].got.funds[1] = Balances
          /\ errand[u].got.count # <<>> => errand[u].got.count[1] = OpenCount
          /\ errand[u].got.rows # <<>> => errand[u].got.rows[1] = Rows
      BY <3>1 DEF PortfolioInv, CalmReads, HasRows
    <3>3. CASE u = t
      BY <1>5, <1>6, <1>7, <1>8, <3>2, <3>3
    <3>4. CASE u # t
      BY <1>7, <3>2, <3>4
    <3> QED
      BY <3>3, <3>4
  <2> QED
    BY <2>1, <2>2 DEF CalmReads, HasRows
<1>12. ASSUME NEW b \in MyBids, stands[b] = "withdrawn"
       PROVE  b \in DOMAIN Rows /\ Rows[b] = "Withdrawn"
  BY <1>4, <1>12, LabelFacts
<1>13. WithdrawalsStand'
  <2>1. ASSUME NEW u \in Errands, IsWithdrawal(u)
        PROVE  /\ errand'[u].pc = "waiting" =>
                    (\E r \in requests : r.by = u) \/ stands[errand[u].for[2]] = "withdrawn"
               /\ errand'[u].pc = "reading" =>
                    /\ stands[errand[u].for[2]] = "withdrawn"
                    /\ errand'[u].got.rows # <<>> =>
                         /\ errand[u].for[2] \in DOMAIN errand'[u].got.rows[1]
                         /\ errand'[u].got.rows[1][errand[u].for[2]] = "Withdrawn"
    <3>1. /\ errand[u].pc = "waiting" =>
               (\E r \in requests : r.by = u) \/ stands[errand[u].for[2]] = "withdrawn"
          /\ errand[u].pc = "reading" =>
               /\ stands[errand[u].for[2]] = "withdrawn"
               /\ errand[u].got.rows # <<>> =>
                    /\ errand[u].for[2] \in DOMAIN errand[u].got.rows[1]
                    /\ errand[u].got.rows[1][errand[u].for[2]] = "Withdrawn"
      BY <2>1 DEF PortfolioInv, WithdrawalsStand, HasRows, ReadAs
    <3>2. CASE u # t
      BY <1>7, <3>1, <3>2
    <3>3. CASE u = t
      <4>1. errand[t].for[2] \in MyBids
        <5>1. errand[t].for \in {<<>>} \cup ({"place", "withdraw"} \X MyBids) /\ errand[t].for # <<>>
          BY <1>3, <2>1, <3>3 DEF ErrandRows, IsWithdrawal, Unprompted
        <5> QED
          BY <5>1
      <4>2. errand[t].for[2] \in DOMAIN Rows /\ Rows[errand[t].for[2]] = "Withdrawn"
        BY <1>1, <1>12, <3>1, <3>3, <4>1
      <4> QED
        BY <1>1, <1>5, <1>6, <1>7, <1>8, <3>1, <3>3, <4>2
    <3> QED
      BY <3>2, <3>3
  <2>2. \A u \in Errands : errand'[u].for = errand[u].for
    BY <1>6, <1>7
  <2> QED
    BY <1>1, <2>1, <2>2 DEF WithdrawalsStand, IsWithdrawal, HasRows, ReadAs
<1>14. ToldStands'
  <2>1. ASSUME NEW b \in told
        PROVE  /\ stands[b] = "withdrawn"
               /\ \A u \in Errands : errand'[u].got.rows # <<>> /\ ~errand'[u].passed =>
                    /\ b \in DOMAIN errand'[u].got.rows[1]
                    /\ errand'[u].got.rows[1][b] = "Withdrawn"
    <3>1. /\ stands[b] = "withdrawn" /\ b \in MyBids
          /\ \A u \in Errands : errand[u].got.rows # <<>> /\ ~errand[u].passed =>
               /\ b \in DOMAIN errand[u].got.rows[1]
               /\ errand[u].got.rows[1][b] = "Withdrawn"
      BY <1>1 DEF PortfolioInv, ToldStands, HasRows, ReadAs, PortfolioTypeOK
    <3>2. b \in DOMAIN Rows /\ Rows[b] = "Withdrawn"
      BY <1>12, <3>1
    <3>3. ASSUME NEW u \in Errands, errand'[u].got.rows # <<>>, ~errand'[u].passed
          PROVE  /\ b \in DOMAIN errand'[u].got.rows[1]
                 /\ errand'[u].got.rows[1][b] = "Withdrawn"
      <4>1. CASE u # t
        BY <1>7, <3>1, <3>3, <4>1
      <4>2. CASE u = t
        BY <1>5, <1>6, <1>7, <1>8, <3>1, <3>2, <3>3, <4>2
      <4> QED
        BY <4>1, <4>2
    <3> QED
      BY <3>1, <3>3
  <2> QED
    BY <1>1, <2>1 DEF ToldStands, HasRows, ReadAs
<1>15. Made(store.rows)' /\ \A u \in Errands : HasRows(u)' => Made(errand[u].got.rows[1])'
  <2>1. ASSUME NEW u \in Errands, errand'[u].got.rows # <<>>
        PROVE  \A b \in DOMAIN errand'[u].got.rows[1] : stands[b] # "none"
    <3>1. errand[u].got.rows # <<>> => \A b \in DOMAIN errand[u].got.rows[1] : stands[b] # "none"
      BY DEF PortfolioInv, Made, HasRows
    <3>2. \A b \in DOMAIN Rows : stands[b] # "none"
      BY <1>4 DEF Made
    <3> QED
      BY <1>5, <1>6, <1>7, <1>8, <2>1, <3>1, <3>2
  <2>2. \A b \in DOMAIN store.rows : stands[b] # "none"
    BY DEF PortfolioInv, Made
  <2> QED
    BY <1>1, <2>1, <2>2 DEF Made, HasRows
<1>16. WithdrawnIsShown' /\ FundsAgree'
  BY <1>1 DEF PortfolioInv, WithdrawnIsShown, FundsAgree
<1> QED
  BY <1>9, <1>10, <1>11, <1>13, <1>14, <1>15, <1>16 DEF PortfolioInv

\* The rows that a task shows are one of the tables it may have read.
LEMMA ShowsHolds ==
  ASSUME PortfolioInv, NEW t \in Errands, Shows(t)
  PROVE  PortfolioInv'
<1> DEFINE got == errand[t].got
<1>1. /\ errand[t].pc = "reading" /\ got.funds # <<>> /\ got.count # <<>> /\ got.rows # <<>>
      /\ store' = [available |-> got.funds[1].available, onHold |-> got.funds[1].onHold,
                   count |-> got.count[1], rows |-> got.rows[1],
                   calm |-> errand[t].calm, overtaken |-> errand[t].passed]
      /\ errand' = [u \in Errands |-> IF u = t THEN Over
                      ELSE [errand[u] EXCEPT !.passed = @ \/ errand[u].got.rows # <<>>]]
      /\ told' = IF IsWithdrawal(t) THEN told \cup {errand[t].for[2]} ELSE told
      /\ UNCHANGED <<stands, onHold, requests, bidding, moves, slips>>
      /\ PortfolioTypeOK
  <2>1. "funds" \in DOMAIN Nothing /\ "count" \in DOMAIN Nothing /\ "rows" \in DOMAIN Nothing
    BY DEF Nothing
  <2> QED
    BY <2>1 DEF Shows, services, PortfolioInv
<1>2. \A u \in Errands : errand[u] \in ErrandRows
  BY <1>1 DEF PortfolioTypeOK
<1>3. /\ got.funds[1] \in [available : Int, onHold : Nat] /\ got.count[1] \in Nat
      /\ got.rows[1] \in RowTables
      /\ errand[t].calm \in BOOLEAN /\ errand[t].passed \in BOOLEAN
  <2>1. got \in Readings /\ errand[t].calm \in BOOLEAN /\ errand[t].passed \in BOOLEAN
    BY <1>2 DEF ErrandRows
  <2>2. /\ got.funds \in Seq([available : Int, onHold : Nat]) /\ got.count \in Seq(Nat)
        /\ got.rows \in Seq(RowTables)
    BY <2>1 DEF Readings
  <2>3. \A R : \A q \in Seq(R) : q # <<>> => q[1] \in R
    OBVIOUS
  <2> QED
    BY <1>1, <2>1, <2>2, <2>3
<1>4. /\ store'.rows = got.rows[1] /\ store'.calm = errand[t].calm /\ store'.overtaken = errand[t].passed
      /\ store'.count = got.count[1] /\ store'.onHold = got.funds[1].onHold
      /\ store'.available = got.funds[1].available
      /\ store' \in [available : Int, onHold : Nat, count : Nat, rows : RowTables,
                     calm : BOOLEAN, overtaken : BOOLEAN]
  BY <1>1, <1>3
<1>5. /\ errand'[t] = Over /\ errand' \in [Errands -> ErrandRows]
      /\ \A u \in Errands : u # t =>
           /\ errand'[u].pc = errand[u].pc /\ errand'[u].for = errand[u].for
           /\ errand'[u].got = errand[u].got /\ errand'[u].calm = errand[u].calm
           /\ errand'[u].passed = (errand[u].passed \/ errand[u].got.rows # <<>>)
  <2>1. ASSUME NEW u \in Errands, u # t
        PROVE  /\ errand'[u] \in ErrandRows
               /\ errand'[u].pc = errand[u].pc /\ errand'[u].for = errand[u].for
               /\ errand'[u].got = errand[u].got /\ errand'[u].calm = errand[u].calm
               /\ errand'[u].passed = (errand[u].passed \/ errand[u].got.rows # <<>>)
    <3>1. errand'[u] = [errand[u] EXCEPT !.passed = @ \/ errand[u].got.rows # <<>>]
      BY <1>1, <2>1
    <3>2. (errand[u].passed \/ errand[u].got.rows # <<>>) \in BOOLEAN
      OBVIOUS
    <3> QED
      BY <1>2, <3>1, <3>2 DEF ErrandRows
  <2>2. errand'[t] = Over
    BY <1>1
  <2>3. \A u \in Errands : errand'[u] \in ErrandRows
    BY <2>1, <2>2, OverFacts
  <2>4. errand' \in [Errands -> ErrandRows]
    BY <1>1, <2>3
  <2> QED
    BY <2>1, <2>2, <2>4
<1>6. ASSUME IsWithdrawal(t)
      PROVE  /\ errand[t].for[2] \in MyBids /\ stands[errand[t].for[2]] = "withdrawn"
             /\ errand[t].for[2] \in DOMAIN got.rows[1]
             /\ got.rows[1][errand[t].for[2]] = "Withdrawn"
  <2>1. errand[t].for \in {<<>>} \cup ({"place", "withdraw"} \X MyBids) /\ errand[t].for # <<>>
    BY <1>2, <1>6 DEF ErrandRows, IsWithdrawal, Unprompted
  <2> QED
    BY <1>1, <1>6, <2>1 DEF PortfolioInv, WithdrawalsStand, HasRows, ReadAs
<1>7. PortfolioTypeOK'
  <2>1. locked' \in SUBSET MyBids
    BY <1>1 DEF Shows, Unlock, PortfolioTypeOK
  <2>2. told' \in SUBSET MyBids
    BY <1>1, <1>6 DEF PortfolioTypeOK
  <2> QED
    BY <1>1, <1>4, <1>5, <2>1, <2>2 DEF PortfolioTypeOK
<1>8. OrdersStand'
  <2>1. \A r \in requests : errand'[r.by].pc = errand[r.by].pc /\ errand'[r.by].for = errand[r.by].for
    BY <1>1, <1>5, OrderFacts
  <2> QED
    BY <1>1, <2>1 DEF PortfolioInv, OrdersStand
<1>9. CalmReads'
  <2>1. Balances' = Balances /\ OpenCount' = OpenCount /\ Rows' = Rows /\ AtRest' = AtRest
    BY <1>1, ReadsStay DEF AtRest
  <2>2. ASSUME NEW u \in Errands, errand'[u].calm
        PROVE  /\ AtRest
               /\ errand'[u].got.funds # <<>> => errand'[u].got.funds[1] = Balances
               /\ errand'[u].got.count # <<>> => errand'[u].got.count[1] = OpenCount
               /\ errand'[u].got.rows # <<>> => errand'[u].got.rows[1] = Rows
    <3>1. u # t
      BY <1>5, <2>2, OverFacts
    <3> QED
      BY <1>5, <2>2, <3>1 DEF PortfolioInv, CalmReads, HasRows
  <2> QED
    BY <2>1, <2>2 DEF CalmReads, HasRows
<1>10. WithdrawalsStand'
  <2>1. ASSUME NEW u \in Errands, errand'[u].for # <<>>, errand'[u].for[1] = "withdraw"
        PROVE  /\ errand'[u].pc = "waiting" =>
                    (\E r \in requests : r.by = u) \/ stands[errand'[u].for[2]] = "withdrawn"
               /\ errand'[u].pc = "reading" =>
                    /\ stands[errand'[u].for[2]] = "withdrawn"
                    /\ errand'[u].got.rows # <<>> =>
                         /\ errand'[u].for[2] \in DOMAIN errand'[u].got.rows[1]
                         /\ errand'[u].got.rows[1][errand'[u].for[2]] = "Withdrawn"
    <3>1. u # t
      BY <1>5, <2>1, OverFacts
    <3>2. IsWithdrawal(u)
      BY <1>5, <2>1, <3>1 DEF IsWithdrawal, Unprompted
    <3> QED
      BY <1>5, <3>1, <3>2 DEF PortfolioInv, WithdrawalsStand, HasRows, ReadAs
  <2> QED
    BY <1>1, <2>1 DEF WithdrawalsStand, IsWithdrawal, Unprompted, HasRows, ReadAs
<1>11. ASSUME NEW b \in told
       PROVE  /\ stands[b] = "withdrawn"
              /\ \A u \in Errands : errand[u].got.rows # <<>> /\ ~errand[u].passed =>
                   b \in DOMAIN errand[u].got.rows[1] /\ errand[u].got.rows[1][b] = "Withdrawn"
  BY DEF PortfolioInv, ToldStands, HasRows, ReadAs
<1>12. ASSUME NEW u \in Errands, errand'[u].got.rows # <<>>
       PROVE  errand'[u].passed
  <2>1. u # t
    BY <1>5, <1>12, OverFacts, NothingFacts
  <2>2. /\ errand'[u].got.rows = errand[u].got.rows
        /\ errand'[u].passed = (errand[u].passed \/ errand[u].got.rows # <<>>)
    BY <1>5, <2>1
  <2> QED
    BY <1>12, <2>2
<1>13. ToldStands'
  <2>1. \A b \in told' : stands[b] = "withdrawn"
    BY <1>1, <1>6, <1>11
  <2> QED
    BY <1>1, <1>12, <2>1 DEF ToldStands, HasRows
<1>14. WithdrawnIsShown'
  <2>1. ASSUME NEW b \in told', ~errand[t].passed
        PROVE  b \in DOMAIN got.rows[1] /\ got.rows[1][b] = "Withdrawn"
    BY <1>1, <1>6, <1>11, <2>1
  <2> QED
    BY <1>4, <2>1 DEF WithdrawnIsShown
<1>15. Made(store.rows)' /\ \A u \in Errands : HasRows(u)' => Made(errand[u].got.rows[1])'
  <2>1. ASSUME NEW u \in Errands, errand[u].got.rows # <<>>
        PROVE  \A b \in DOMAIN errand[u].got.rows[1] : stands[b] # "none"
    BY <2>1 DEF PortfolioInv, Made, HasRows
  <2>2. \A b \in DOMAIN store'.rows : stands'[b] # "none"
    BY <1>1, <1>4, <2>1
  <2>3. ASSUME NEW u \in Errands, errand'[u].got.rows # <<>>
        PROVE  \A b \in DOMAIN errand'[u].got.rows[1] : stands'[b] # "none"
    <3>1. u # t
      BY <1>5, <2>3, OverFacts, NothingFacts
    <3> QED
      BY <1>1, <1>5, <2>1, <2>3, <3>1
  <2> QED
    BY <2>2, <2>3 DEF Made, HasRows
<1>16. FundsAgree'
  <2>1. SUFFICES ASSUME errand[t].calm
        PROVE  /\ Agree(got.count[1], got.funds[1].onHold, got.rows[1])
               /\ got.funds[1].available + got.funds[1].onHold = Funds
    BY <1>4 DEF FundsAgree, Agree
  <2>2. AtRest /\ got.funds[1] = Balances /\ got.count[1] = OpenCount /\ got.rows[1] = Rows
    BY <1>1, <2>1 DEF PortfolioInv, CalmReads, HasRows
  <2> QED
    BY <1>1, <2>2, RestAgrees, SummaryFacts
<1> QED
  BY <1>7, <1>8, <1>9, <1>10, <1>13, <1>14, <1>15, <1>16 DEF PortfolioInv

----------------------------------------------------------------------------

LEMMA PortfolioInvInitially ==
  ASSUME PortfolioInit
  PROVE  PortfolioInv
<1>1. PICK had \in SUBSET MyBids, s \in DOMAIN Label :
        /\ stands = [b \in MyBids |-> IF b \in had THEN s ELSE "none"]
        /\ bidding = (s = "placed")
  BY DEF PortfolioInit
<1>2. /\ onHold = [b \in MyBids |-> Due(stands[b])] /\ requests = {}
      /\ store = [available |-> Funds - Held, onHold |-> Held, count |-> OpenCount, rows |-> Rows,
                  calm |-> TRUE, overtaken |-> FALSE]
      /\ errand = [t \in Errands |-> NoTask]
      /\ locked = {} /\ told = {} /\ moves = 0 /\ slips = 0
  BY DEF PortfolioInit
<1>3. stands \in [MyBids -> {"none"} \cup DOMAIN Label] /\ bidding \in BOOLEAN
  BY <1>1
<1>4. \A x : Due(x) \in Nat
  BY PortfolioAssumption DEF Due
<1>5. onHold \in [MyBids -> Nat] /\ \A b \in MyBids : onHold[b] = Due(stands[b])
  BY <1>2, <1>4
<1>6. /\ NoTask \in ErrandRows /\ NoTask.pc = "none" /\ NoTask.for = <<>> /\ NoTask.got = Nothing
      /\ NoTask.calm = FALSE
  BY NoTaskFacts
<1>7. errand \in [Errands -> ErrandRows] /\ \A t \in Errands : errand[t] = NoTask
  BY <1>2, <1>6
<1>8. Held \in Nat
  BY <1>5, HeldIsKept, KeptIsNat
<1>9. /\ OpenCount \in Nat /\ Rows \in RowTables
      /\ \A b \in DOMAIN Rows : stands[b] # "none"
  <2>1. IsFiniteSet({b \in MyBids : stands[b] \in OpenStates})
    BY PortfolioAssumption, FS_Subset
  <2>2. OpenCount \in Nat
    BY <2>1, FS_CardinalityType DEF OpenCount
  <2> DEFINE D == {b \in MyBids : stands[b] # "none"}
  <2>3. Rows = [b \in D |-> Label[stands[b]]]
    BY DEF Rows
  <2>4. D \in SUBSET MyBids /\ \A b \in D : Label[stands[b]] \in Labels
    BY <1>3 DEF Labels
  <2>5. Rows \in [D -> Labels]
    BY <2>3, <2>4
  <2> QED
    BY <2>2, <2>3, <2>4, <2>5 DEF RowTables
<1>10. Funds \in Nat
  BY PortfolioAssumption
<1>11. store \in [available : Int, onHold : Nat, count : Nat, rows : RowTables,
                  calm : BOOLEAN, overtaken : BOOLEAN]
  BY <1>2, <1>8, <1>9, <1>10
<1>12. PortfolioTypeOK
  BY <1>2, <1>3, <1>5, <1>7, <1>11 DEF PortfolioTypeOK
<1>13. AtRest
  BY <1>2, <1>5 DEF AtRest
<1>14. FundsAgree
  <2>1. Agree(OpenCount, Balances.onHold, Rows) /\ Balances.available + Balances.onHold = Funds
    BY <1>12, <1>13, RestAgrees, SummaryFacts
  <2>2. Balances.onHold = Held /\ Balances.available = Funds - Held
    BY DEF Balances
  <2>3. /\ store.count = OpenCount /\ store.onHold = Held /\ store.rows = Rows
        /\ store.available = Funds - Held
    BY <1>2
  <2> QED
    BY <2>1, <2>2, <2>3 DEF FundsAgree, Agree
<1>15. OrdersStand /\ ToldStands /\ WithdrawnIsShown
  BY <1>2 DEF OrdersStand, ToldStands, WithdrawnIsShown
<1>16. CalmReads /\ WithdrawalsStand
  BY <1>6, <1>7 DEF CalmReads, WithdrawalsStand, IsWithdrawal, Unprompted
<1>17. Made(store.rows) /\ \A t \in Errands : ~HasRows(t)
  BY <1>2, <1>6, <1>7, <1>9, NothingFacts DEF Made, HasRows
<1> QED
  BY <1>12, <1>14, <1>15, <1>16, <1>17 DEF PortfolioInv

LEMMA PortfolioStutters ==
  ASSUME PortfolioInv, UNCHANGED portfolioVars
  PROVE  PortfolioInv'
<1>1. /\ UNCHANGED <<stands, onHold, requests, bidding, moves, store, errand, locked, told, slips>>
      /\ PortfolioTypeOK
  BY DEF portfolioVars, services, screen, PortfolioInv
<1>2. OrdersStand'
  BY <1>1 DEF PortfolioInv, OrdersStand
<1>3. ASSUME NEW t \in Errands, errand'[t].for # <<>>, errand'[t].for[1] = "withdraw"
      PROVE  /\ errand'[t].pc = "waiting" =>
                  (\E r \in requests' : r.by = t) \/ stands[errand'[t].for[2]] = "withdrawn"
             /\ errand'[t].pc = "reading" => stands[errand'[t].for[2]] = "withdrawn"
  BY <1>1, <1>3 DEF PortfolioInv, WithdrawalsStand, IsWithdrawal, Unprompted
<1>4. AtRest => \A r \in requests' : ~r.half
  BY <1>1 DEF AtRest
<1>5. \A t \in Errands : errand'[t] = errand[t]
  BY <1>1
<1> QED
  BY <1>1, <1>2, <1>3, <1>4, <1>5, ScreenMoves DEF PortfolioTypeOK

LEMMA PortfolioInvStays ==
  ASSUME PortfolioInv, [PortfolioNext]_portfolioVars
  PROVE  PortfolioInv'
<1>1. CASE UNCHANGED portfolioVars
  BY <1>1, PortfolioStutters
<1>2. CASE CutOff
  BY <1>2, CutOffHolds
<1>3. ASSUME NEW r \in requests,
             \/ TakeHold(r) \/ CreateBid(r) \/ WithdrawBid(r) \/ ReleaseWithdrawn(r)
             \/ TurnedDown(r) \/ ReleaseFails(r)
      PROVE  PortfolioInv'
  BY <1>3, TakeHoldHolds, CreateBidHolds, WithdrawBidHolds, ReleaseWithdrawnHolds, EndedHolds
<1>4. ASSUME NEW b \in MyBids, SettleHold(b) \/ Progress(b) PROVE PortfolioInv'
  BY <1>4, SettleHoldHolds, ProgressHolds
<1>5. ASSUME NEW b \in MyBids, NEW t \in Errands, AskBid(t, b) \/ AskWithdrawal(t, b)
      PROVE  PortfolioInv'
  BY <1>5, AskHolds
<1>6. ASSUME NEW t \in Errands, Replied(t) \/ Lost(t) \/ Shows(t) \/ OpenAgain(t) PROVE PortfolioInv'
  BY <1>6, RepliedHolds, LostHolds, ShowsHolds, OpenAgainHolds
<1>7. ASSUME NEW t \in Errands, NEW what \in DOMAIN Nothing, Read(t, what) PROVE PortfolioInv'
  BY <1>7, ReadHolds
<1> QED
  BY <1>1, <1>2, <1>3, <1>4, <1>5, <1>6, <1>7 DEF PortfolioNext

\* What the investor is shown of their money and bids holds together, for any bids, funds
\* and requests that run side by side: a bid whose withdrawal the investor was told is
\* done is shown withdrawn unless two refreshes crossed (the store of the portal reads
\* again once the answer has come), and the tiles of the dashboard agree with the rows
\* of "My bids" where neither service moved between the three reads.
THEOREM StoreIsTrueAlways == PortfolioSpec => []StoreIsTrue
<1>1. PortfolioInit => PortfolioInv
  BY PortfolioInvInitially
<1>2. PortfolioInv /\ [PortfolioNext]_portfolioVars => PortfolioInv'
  BY PortfolioInvStays
<1>3. PortfolioInv => StoreIsTrue
  BY DEF PortfolioInv, StoreIsTrue
<1> QED
  BY <1>1, <1>2, <1>3, PTL DEF PortfolioSpec

==============================================================================
