-------------------------------- MODULE Channel --------------------------------
(***************************************************************************)
(* What the outbox promises the services (libs/events, envelope.ts and     *)
(* libs/outbox, outbox.relay.ts:20-25): every event written reaches the    *)
(* queue of its consumer at least once, possibly again, in any order.      *)
(***************************************************************************)
CONSTANT Ids

VARIABLES
  written,  \* the events written by the services' transactions
  reached,  \* those the queue has had
  queue     \* those waiting for the consumer

channel == <<written, reached, queue>>

ChannelInit == written = {} /\ reached = {} /\ queue = {}

Write(ks) ==
  /\ ks \cap written = {}
  /\ written' = written \cup ks
  /\ UNCHANGED <<reached, queue>>

Reach(k) ==
  /\ k \in written
  /\ queue' = queue \cup {k} /\ reached' = reached \cup {k}
  /\ UNCHANGED written

\* The consumer acknowledges the message once its handler has ended.
Ack(k) == k \in queue /\ queue' = queue \ {k} /\ UNCHANGED <<written, reached>>

ChannelNext ==
  \/ \E ks \in SUBSET Ids : Write(ks)
  \/ \E k \in Ids : Reach(k) \/ Ack(k)

Safely == ChannelInit /\ [][ChannelNext]_channel

\* At least once.
Eventually == \A k \in Ids : (k \in written) ~> (k \in reached)
=============================================================================
