------------------------------- MODULE Settings -------------------------------
(***************************************************************************)
(* One setting of one service: the row in its database with the history of *)
(* changes, and the cache that every process of the service has of it.     *)
(* Reads and changes run side by side and wait at the database; a value    *)
(* stands for the change that set it, 0 for the definition's fallback.  A  *)
(* cached value may expire at any time.                                    *)
(***************************************************************************)
EXTENDS FiniteSets, Integers, Sequences

CONSTANTS
  Processes, Readers, Writers, NotCached,
  MaxSets      \* bound

ASSUME SettingsAssumption == MaxSets \in Nat /\ NotCached \notin Nat

VARIABLES
  row,      \* the value in the database
  changes,  \* the history: what each change replaced, and whether another came between
  cache,    \* per process: the value kept
  reading,  \* get, by reader
  writing,  \* set, by writer
  own,      \* per process: the last value set there by a set that has returned
  raced     \* processes that kept what was read before such a set had written

settingsVars == <<row, changes, cache, reading, writing, own, raced>>

Resting == [pc |-> "idle"]

SettingsInit ==
  /\ row = 0 /\ changes = <<>>
  /\ cache = [p \in Processes |-> NotCached]
  /\ reading = [r \in Readers |-> Resting]
  /\ writing = [w \in Writers |-> Resting]
  /\ own = [p \in Processes |-> 0]
  /\ raced = {}

----------------------------------------------------------------------------
(* get; must is what a reader that starts now has to know of               *)

GetCached(r, p) ==
  /\ reading[r] = Resting /\ cache[p] # NotCached
  /\ reading' = [reading EXCEPT ![r] = [pc |-> "returned", p |-> p, v |-> cache[p], must |-> own[p]]]
  /\ UNCHANGED <<row, changes, cache, writing, own, raced>>

GetStored(r, p) ==
  /\ reading[r] = Resting /\ cache[p] = NotCached
  /\ reading' = [reading EXCEPT ![r] = [pc |-> "read", p |-> p, v |-> row, must |-> own[p]]]
  /\ UNCHANGED <<row, changes, cache, writing, own, raced>>

KeepRead(r) ==
  LET g == reading[r] IN
  /\ g.pc = "read"
  /\ cache' = [cache EXCEPT ![g.p] = g.v]
  /\ raced' = IF g.v < own[g.p] THEN raced \cup {g.p} ELSE raced
  /\ reading' = [reading EXCEPT ![r].pc = "returned"]
  /\ UNCHANGED <<row, changes, writing, own>>

GetEnds(r) ==
  /\ reading[r].pc = "returned"
  /\ reading' = [reading EXCEPT ![r] = Resting]
  /\ UNCHANGED <<row, changes, cache, writing, own, raced>>

Expires(p) ==
  /\ cache[p] # NotCached
  /\ cache' = [cache EXCEPT ![p] = NotCached]
  /\ UNCHANGED <<row, changes, reading, writing, own, raced>>

----------------------------------------------------------------------------
(* set                                                                     *)

Previous(p) == row

SetReads(w, p) ==
  /\ writing[w] = Resting
  /\ Len(changes) + Cardinality({x \in Writers : writing[x].pc = "read"}) < MaxSets
  /\ writing' = [writing EXCEPT ![w] =
       [pc |-> "read", p |-> p, previous |-> Previous(p), seen |-> Len(changes)]]
  /\ UNCHANGED <<row, changes, cache, reading, own, raced>>

\* The row and its history are written together.
SetWrites(w) ==
  LET s == writing[w]
      v == Len(changes) + 1 IN
  /\ s.pc = "read"
  /\ row' = v
  /\ changes' = Append(changes, [from |-> s.previous, overlapped |-> s.seen # Len(changes)])
  /\ writing' = [writing EXCEPT ![w] = [pc |-> "written", p |-> s.p, v |-> v]]
  /\ UNCHANGED <<cache, reading, own, raced>>

Return(w, kept) ==
  LET s == writing[w] IN
  /\ s.pc = "written"
  /\ cache' = kept
  /\ own' = [own EXCEPT ![s.p] = IF s.v > @ THEN s.v ELSE @]
  /\ writing' = [writing EXCEPT ![w] = Resting]
  /\ UNCHANGED <<row, changes, reading, raced>>

\* The cache keeps what it has until it expires.
SetReturnsKeeping(w) == Return(w, cache)

\* The cache is emptied and not brought up to date.
SetReturns(w) == Return(w, [cache EXCEPT ![writing[w].p] = NotCached])

SettingsNext ==
  \/ \E r \in Readers, p \in Processes : GetCached(r, p) \/ GetStored(r, p)
  \/ \E r \in Readers : KeepRead(r) \/ GetEnds(r)
  \/ \E p \in Processes : Expires(p)
  \/ \E w \in Writers, p \in Processes : SetReads(w, p)
  \/ \E w \in Writers : SetWrites(w) \/ SetReturns(w)

SettingsSpec == SettingsInit /\ [][SettingsNext]_settingsVars

----------------------------------------------------------------------------
(* Properties                                                              *)

\* Whoever reads a setting in the process that changed it, after the change was
\* answered, sees that change or a later one, although the value is cached: unless a
\* read that began before the write kept what it had read after the cache was emptied
\* (settings.service.ts:68-71 against 96-107).
OwnChangeSeenUnlessRaced ==
  \A r \in Readers :
    reading[r].pc = "returned" =>
      reading[r].v >= reading[r].must \/ reading[r].p \in raced

\* Every change says what it replaced: the history is a chain without gaps, broken only
\* where two changes overlapped.
HistoryChains ==
  \A i \in DOMAIN changes : changes[i].overlapped \/ changes[i].from = i - 1

\* A change of a setting is seen by whoever made it, and its history is without gaps.
ChangesAreKept == OwnChangeSeenUnlessRaced /\ HistoryChains
=============================================================================
