---------------------------- MODULE BankOfTanzania ----------------------------
(***************************************************************************)
(* The Bank of Tanzania as bot-gateway meets it: the bids of one batch on  *)
(* one auction, as the simulator (libs/bot-simulator) keeps them, and the  *)
(* API's own wording where the simulator is quicker than the API: bids are *)
(* verified some time after they were received, and an amendment is        *)
(* accepted for processing (202) and processed, or refused, later.         *)
(***************************************************************************)
EXTENDS Naturals, Sequences, FiniteSetsExt

CONSTANTS
  Faces,  \* face values, numbers
  None

VARIABLES
  auction,    \* "open" or "closed"
  atBot,      \* the bids, by requestId; None before the batch came
  asked,      \* amendments accepted for processing
  callbacks   \* posted and still under way, or lost

bank == <<auction, atBot, asked, callbacks>>

BotBids == [face: Faces, action: {"initiated", "rejected"}, won: BOOLEAN]

BankInit == auction = "open" /\ atBot = None /\ asked = {} /\ callbacks = {}

Requests == IF atBot = None THEN {} ELSE DOMAIN atBot

\* POST /bids: the whole batch, or a 409 that changes nothing.
BankTakes(packages) ==
  /\ auction = "open"
  /\ atBot' = IF atBot = None
              THEN [n \in DOMAIN packages |-> [face |-> packages[n], action |-> "initiated", won |-> FALSE]]
              ELSE atBot
  /\ UNCHANGED <<auction, asked, callbacks>>

\* The dealer desk turns a bid down; to accept one changes nothing that is read here.
Reject(q) ==
  /\ auction = "open" /\ atBot[q].action = "initiated"
  /\ atBot' = [atBot EXCEPT ![q].action = "rejected"]
  /\ UNCHANGED <<auction, asked, callbacks>>

\* PUT /bids: refused once the auction is closed.
BankIsAsked(q, face) ==
  /\ auction = "open"
  /\ asked' = asked \cup {[q |-> q, face |-> face]}
  /\ UNCHANGED <<auction, atBot, callbacks>>

Processed(m) ==
  /\ asked' = asked \ {m}
  /\ \/ atBot' = [atBot EXCEPT ![m.q].face = m.face]
     \/ UNCHANGED atBot
  /\ UNCHANGED <<auction, callbacks>>

\* The auction is run, at whatever cut-off price, and the winners are told: any of the
\* bids not rejected.  Amendments in hand are processed first.
CloseAuction(wins) ==
  /\ auction = "open" /\ asked = {} /\ atBot # None
  /\ \A q \in wins : atBot[q].action # "rejected"
  /\ auction' = "closed"
  /\ atBot' = [q \in Requests |-> [atBot[q] EXCEPT !.won = q \in wins]]
  /\ callbacks' = callbacks \cup {[q |-> q, amount |-> atBot[q].face] : q \in wins}
  /\ UNCHANGED asked

\* GET /winners: TCB's rows; none before the auction is closed.
WinnersTotal == MapThenSumSet(LAMBDA q : atBot[q].face, {q \in Requests : atBot[q].won})
=============================================================================
