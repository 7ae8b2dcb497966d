-------------------------------- MODULE Outbox --------------------------------
(***************************************************************************)
(* The transactional outbox (libs/outbox; outbox.store.ts and the table    *)
(* are the same in every service): transactions that write rows, relays    *)
(* that poll them, one in each replica of the service, and the queue of a  *)
(* consumer.                                                               *)
(*                                                                         *)
(* A row has its id from a sequence before its transaction commits.  A     *)
(* claim locks the oldest unsent rows that no other claim has locked, and  *)
(* lets go of them as it ends, before anything is published.               *)
(***************************************************************************)
EXTENDS Naturals, Sequences, FiniteSets

CONSTANTS
  Relays,
  MaxRows,    \* bound: rows ever written
  BatchSize,
  MaxFaults   \* bound: publications that fail, relays that die

ASSUME OutboxAssumption == MaxRows \in Nat /\ BatchSize \in Nat /\ MaxFaults \in Nat

VARIABLES
  row,     \* outbox_messages: what became of each id
  relay,
  queue,   \* the messages in the consumer's queue
  order,   \* history: ids in the order in which they first reached the queue
  passed,  \* history: rows a claim passed over, locked or not committed yet
  faults

vars == <<row, relay, queue, order, passed, faults>>

Ids == 1..MaxRows

Idle == [pc |-> "idle", ids |-> {}, done |-> {}]

OutboxInit ==
  /\ row = [k \in Ids |-> "free"]
  /\ relay = [r \in Relays |-> Idle]
  /\ queue = {} /\ order = <<>> /\ passed = {}
  /\ faults = 0

Fault == faults < MaxFaults /\ faults' = faults + 1

Least(ks) == CHOOSE k \in ks : \A j \in ks : k <= j

----------------------------------------------------------------------------

In(state) == {k \in Ids : row[k] = state}

\* A transaction takes the next id of the sequence; it commits or fails later.
Insert ==
  /\ In("free") # {}
  /\ row' = [row EXCEPT ![Least(In("free"))] = "open"]
  /\ UNCHANGED <<relay, queue, order, passed, faults>>

Commit(k) ==
  /\ row[k] = "open" /\ row' = [row EXCEPT ![k] = "unsent"]
  /\ UNCHANGED <<relay, queue, order, passed, faults>>

Rollback(k) ==
  /\ row[k] = "open" /\ row' = [row EXCEPT ![k] = "none"]
  /\ UNCHANGED <<relay, queue, order, passed, faults>>

At(r, pc) == relay[r].pc = pc

Become(r, state) == relay' = [relay EXCEPT ![r] = state]

Locked == UNION {relay[r].ids : r \in {o \in Relays : At(o, "claiming")}}

Claimable == In("unsent") \ Locked

Oldest(ks) == {k \in ks : Cardinality({j \in ks : j < k}) < BatchSize}

ClaimThese(r, ks) ==
  /\ At(r, "idle") /\ ks # {}
  /\ Become(r, [pc |-> "claiming", ids |-> ks, done |-> {}])
  /\ passed' = passed \cup {j \in Locked \cup In("open") : \E k \in ks : j < k}
  /\ UNCHANGED <<row, queue, order, faults>>

Claim(r) == ClaimThese(r, Oldest(Claimable))

Claimed(r) ==
  /\ At(r, "claiming") /\ Become(r, [relay[r] EXCEPT !.pc = "publishing"])
  /\ UNCHANGED <<row, queue, order, passed, faults>>

Rest(r) == relay[r].ids \ relay[r].done

Reached == {order[n] : n \in DOMAIN order}

Reach(k) ==
  /\ queue' = queue \cup {k}
  /\ order' = IF k \in Reached THEN order ELSE Append(order, k)

\* One row after the other, by id.
Publish(r) ==
  /\ At(r, "publishing") /\ Rest(r) # {}
  /\ Reach(Least(Rest(r)))
  /\ Become(r, [relay[r] EXCEPT !.done = @ \cup {Least(Rest(r))}])
  /\ UNCHANGED <<row, passed, faults>>

\* The first that fails ends the batch, whether or not the broker has it; if the error
\* cannot be recorded either, what was published goes unmarked.
PublishFailsTo(r, state) ==
  /\ Rest(r) # {}
  /\ \/ Reach(Least(Rest(r)))
     \/ UNCHANGED <<queue, order>>
  /\ Become(r, state)
  /\ Fault
  /\ UNCHANGED <<row, passed>>

\* Mutant: the relay goes on with the next row, and marks this one with the others.
PublishFailsGoingOn(r) ==
  At(r, "publishing") /\ PublishFailsTo(r, [relay[r] EXCEPT !.done = @ \cup {Least(Rest(r))}])

PublishFails(r) ==
  /\ At(r, "publishing")
  /\ \/ PublishFailsTo(r, [relay[r] EXCEPT !.ids = relay[r].done])
     \/ PublishFailsTo(r, Idle)

MarkThese(r, ks) ==
  /\ At(r, "publishing") /\ Rest(r) = {}
  /\ row' = [k \in Ids |-> IF k \in ks THEN "sent" ELSE row[k]]
  /\ Become(r, Idle)
  /\ UNCHANGED <<queue, order, passed, faults>>

MarkSent(r) == MarkThese(r, relay[r].done)

RelayDies(r) ==
  /\ ~At(r, "idle") /\ Become(r, Idle)
  /\ Fault
  /\ UNCHANGED <<row, queue, order, passed>>

\* The consumer is done with a message.
Ack(k) ==
  /\ k \in queue /\ queue' = queue \ {k}
  /\ UNCHANGED <<row, relay, order, passed, faults>>

----------------------------------------------------------------------------

RelayWork(r) == Claim(r) \/ Claimed(r) \/ Publish(r) \/ MarkSent(r)

Next ==
  \/ Insert
  \/ \E k \in Ids : Commit(k) \/ Rollback(k) \/ Ack(k)
  \/ \E r \in Relays : RelayWork(r) \/ PublishFails(r) \/ RelayDies(r)

\* The interval starts a drain again and again, and what it awaits comes.
OutboxSpec == OutboxInit /\ [][Next]_vars /\ \A r \in Relays : WF_vars(RelayWork(r))

----------------------------------------------------------------------------

\* A relay that works its way up hands every event over, at least once.
Promise == INSTANCE Channel WITH
  written <- In("unsent") \cup In("sent"), reached <- Reached

ImplementsChannel == Promise!Safely /\ Promise!Eventually
=============================================================================
