------------------------------ MODULE Callbacks -------------------------------
(***************************************************************************)
(* BoT's callbacks as bot-gateway receives them: signed bytes with a time  *)
(* on them, checked in a fixed order, kept once with the event they        *)
(* announce, and acknowledged.  BoT may deliver again what it has no       *)
(* answer to (callback.service.ts:22); the network may deliver twice,      *)
(* late, or not at all; bytes may be changed on the way; the gateway's     *)
(* processes work side by side and may die at any step.                    *)
(***************************************************************************)
EXTENDS Integers, Sequences, FiniteSets

CONSTANTS
  Bodies,       \* [request, status, shape]: what BoT has to say, each in bytes of its own
  Window,       \* how far from our clock the time on a callback may be
  Skews,        \* by how much BoT's clock may be ahead
  Receivers,    \* requests in hand at once
  MaxClock, MaxPosts, MaxDeaths

ASSUME CallbacksAssumption ==
  /\ Window \in Nat /\ Skews \subseteq Int
  /\ MaxClock \in Nat /\ MaxPosts \in Nat /\ MaxDeaths \in Nat

VARIABLES
  clock, skew,
  botKey,     \* BoT's public key is configured; read when the process starts
  posts,      \* what is under way: the body, the time on it, whether the bytes are BoT's
  posted,     \* how often BoT has posted
  receiver,   \* the requests in hand
  inbox,      \* the bot_callbacks table, by its unique key
  outbox,     \* the events committed with them
  heard,      \* bodies BoT has a 200 to
  deaths

callbackVars == <<clock, skew, botKey, posts, posted, receiver, inbox, outbox, heard, deaths>>

----------------------------------------------------------------------------

STATUS_EVENTS == {"accepted", "rejected", "allotted", "unsuccessful"}

\* One callback for each bid.
DedupeKeyOfBid(b) == b.request

\* The hash of the bytes.
DedupeKey(b) == b

\* An unknown status is announced as such.
EventOf(b) ==
  [type |-> IF b.status \in STATUS_EVENTS THEN b.status ELSE "unrecognised", request |-> b.request,
   key |-> DedupeKey(b)]

SignatureHolds(p) == p.intact

IsFresh(stamp) == stamp - clock \in -Window..Window

Free == [pc |-> "free"]

CallbacksInit ==
  /\ clock = 0 /\ skew \in Skews /\ botKey \in BOOLEAN
  /\ posts = {} /\ posted = 0
  /\ receiver = [w \in Receivers |-> Free]
  /\ inbox = {} /\ outbox = <<>> /\ heard = {} /\ deaths = 0

Become(w, r) == receiver' = [receiver EXCEPT ![w] = r]

----------------------------------------------------------------------------
(* BoT and the network                                                     *)

TimePasses ==
  /\ clock < MaxClock /\ clock' = clock + 1
  /\ UNCHANGED <<skew, botKey, posts, posted, receiver, inbox, outbox, heard, deaths>>

\* Once, or again: signed anew, the same bytes.
Post(b, intact) ==
  /\ posted < MaxPosts /\ posted' = posted + 1 /\ b \notin heard
  /\ posts' = posts \cup {[body |-> b, stamp |-> clock + skew, intact |-> intact]}
  /\ UNCHANGED <<clock, skew, botKey, receiver, inbox, outbox, heard, deaths>>

----------------------------------------------------------------------------
(* bot-gateway                                                             *)

Refusal(p) ==
  CASE ~botKey -> "not configured"
    [] botKey /\ ~IsFresh(p.stamp) -> "stale timestamp"
    [] botKey /\ IsFresh(p.stamp) /\ ~SignatureHolds(p) -> "signature invalid"
    [] OTHER -> IF p.body.shape = "whole" THEN "none" ELSE "malformed"

\* Refused callbacks are not kept; BoT hears an error.
TakeIn(w, p, again) ==
  /\ receiver[w] = Free /\ p \in posts
  /\ posts' = IF again THEN posts ELSE posts \ {p}
  /\ Refusal(p) = "none" /\ Become(w, [pc |-> "saving", body |-> p.body])
  /\ UNCHANGED <<clock, skew, botKey, posted, inbox, outbox, heard, deaths>>

Refuse(p) ==
  /\ p \in posts /\ Refusal(p) # "none"
  /\ posts' = posts \ {p}
  /\ UNCHANGED <<clock, skew, botKey, posted, receiver, inbox, outbox, heard, deaths>>

\* Both rows in one transaction, or the answer that the first was there.
SaveOnce(w) ==
  /\ receiver[w].pc = "saving"
  /\ LET b == receiver[w].body IN
     /\ IF DedupeKey(b) \in inbox THEN UNCHANGED <<inbox, outbox>>
        ELSE inbox' = inbox \cup {DedupeKey(b)} /\ outbox' = Append(outbox, EventOf(b))
     /\ Become(w, [pc |-> "answering", body |-> b])
  /\ UNCHANGED <<clock, skew, botKey, posts, posted, heard, deaths>>

\* The answer arrives, or not.
Acknowledge(w) ==
  /\ receiver[w].pc = "answering" /\ Become(w, Free)
  /\ heard' \in {heard, heard \cup {receiver[w].body}}
  /\ UNCHANGED <<clock, skew, botKey, posts, posted, inbox, outbox, deaths>>

\* The process dies with all it has in hand, and starts with the key configured or not;
\* a failure of the database is the same to BoT.
Die ==
  /\ deaths < MaxDeaths /\ deaths' = deaths + 1
  /\ receiver' = [w \in Receivers |-> Free] /\ botKey' \in BOOLEAN
  /\ UNCHANGED <<clock, skew, posts, posted, inbox, outbox, heard>>

CallbacksNext ==
  \/ TimePasses \/ Die
  \/ \E b \in Bodies, intact \in BOOLEAN : Post(b, intact)
  \/ \E w \in Receivers, p \in posts, again \in BOOLEAN : TakeIn(w, p, again)
  \/ \E p \in posts : Refuse(p)
  \/ \E w \in Receivers : SaveOnce(w) \/ Acknowledge(w)

CallbacksSpec == CallbacksInit /\ [][CallbacksNext]_callbackVars

----------------------------------------------------------------------------
(* Properties                                                              *)

\* What BoT holds for delivered is announced, and nothing is announced twice: BoT sends
\* an acknowledged verdict never again, and the bid's result is looked for in these
\* events only (callback.service.ts:22-26, prisma-callback.store.ts:19).
AcknowledgedIsAnnounced ==
  /\ \A b \in heard : \E i \in 1..Len(outbox) : outbox[i] = EventOf(b)
  /\ \A i, j \in 1..Len(outbox) : i # j => outbox[i] # outbox[j]

=============================================================================
