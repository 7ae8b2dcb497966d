-------------------------------- MODULE Messages --------------------------------
(***************************************************************************)
(* A text message from the service that sends it to the delivery log: the  *)
(* senders with the variables each fills in, the call to the notification  *)
(* service, its templates, the provider, the log.  A bid's result moves    *)
(* money before it says so.                                                *)
(*                                                                         *)
(* Any step may fail; whoever sends goes on without the message.           *)
(***************************************************************************)
VARIABLES
  sms,      \* the message: its template, its variables, who sends it
  at,       \* how far it is
  hold,     \* the money of the bid it is about
  told,     \* the templates delivered to the customer
  logged,   \* the delivery log
  cut       \* the service died, or its database failed, between sending and logging

messageVars == <<sms, at, hold, told, logged, cut>>

Message(from, key, vars) == [from |-> from, key |-> key, vars |-> vars]

\* What the services send.
Senders ==
  { Message("identity", "otp.registration", {"code", "minutes"}),
    Message("identity", "otp.login", {"code", "minutes"}),
    Message("identity", "pin.set", {}),
    Message("investor", "onboarding.submitted", {"name"}),
    Message("investor", "kyc.under_review", {"name"}),
    Message("investor", "kyc.approved", {"name"}),
    Message("investor", "kyc.rejected", {"name"}),
    Message("investor", "cds.opened", {"name", "cds"}),
    Message("auction", "bid.placed", {"reference", "amount", "security", "held"}) }

Results == {"bid.allotted", "bid.partially_allotted", "bid.unsuccessful", "bid.rejected"}

\* What the results of bids send: one set of variables for what was allotted ...
ResultVarsShort(key) ==
  {"reference", "security"} \cup
    (IF key \in {"bid.allotted", "bid.partially_allotted"} THEN {"allotted", "price"} ELSE {"held"})

\* ... whether all or part of it, and another for what was not.
ResultVars(key) ==
  {"reference", "security"} \cup
    (IF key \in {"bid.allotted", "bid.partially_allotted"} THEN {"allotted", "amount", "price"} ELSE {"held"})

ResultSenders == {Message("auction", key, ResultVars(key)) : key \in Results}

Templates ==
  {"otp.registration", "otp.login", "pin.set", "onboarding.submitted", "kyc.under_review",
   "kyc.approved", "kyc.rejected", "cds.opened", "bid.placed"} \cup Results

\* The templates, by the variables they leave open.
Placeholders ==
  [key \in Templates |->
     CASE key \in {"otp.registration", "otp.login"} -> {"code", "minutes"}
       [] key = "pin.set" -> {}
       [] key \in {"onboarding.submitted", "kyc.under_review", "kyc.approved", "kyc.rejected"} -> {"name"}
       [] key = "cds.opened" -> {"name", "cds"}
       [] key = "bid.placed" -> {"reference", "amount", "security", "held"}
       [] key = "bid.allotted" -> {"reference", "allotted", "security", "price"}
       [] key = "bid.partially_allotted" -> {"reference", "allotted", "amount", "security", "price"}
       [] key \in {"bid.unsuccessful", "bid.rejected"} -> {"reference", "security", "held"}]

\* The templates that say that held money is released.
SaysReleased == {"bid.partially_allotted", "bid.unsuccessful", "bid.rejected"}

MessagesInit ==
  /\ sms \in Senders \cup ResultSenders
  /\ at = IF sms.key \in Results THEN "money" ELSE "sender"
  /\ hold = "held" /\ told = {} /\ logged = {} /\ cut = FALSE

Onward(from, to) == at = from /\ at' = to

\* apply: what is not needed goes back; that it did not is only logged.
MoneyBack ==
  /\ Onward("money", "sender")
  /\ hold' \in {"released", "stuck"}
  /\ UNCHANGED <<sms, told, logged, cut>>

\* The sender asks identity for the number, if it is not identity; without it, or without
\* the notification service, there is no message.
Send ==
  /\ Onward("sender", "service")
  /\ UNCHANGED <<sms, hold, told, logged, cut>>

NotSent ==
  /\ at \in {"sender", "service"} /\ at' = "over"
  /\ UNCHANGED <<sms, hold, told, logged, cut>>

\* The guard of the internal endpoint.
Accepted == {"identity", "investor", "auction", "settlement"}

Deliver ==
  /\ Onward("service", "sent")
  /\ sms.from \in Accepted /\ sms.key \in DOMAIN Placeholders
  /\ told' = told \cup {sms.key}
  /\ UNCHANGED <<sms, hold, logged, cut>>

\* No such template, or the provider does not take it.
Undelivered ==
  /\ Onward("service", "failed") /\ sms.from \in Accepted
  /\ UNCHANGED <<sms, hold, told, logged, cut>>

\* "Every outcome is recorded, including failure".
Log ==
  /\ at \in {"sent", "failed"} /\ at' = "over"
  /\ logged' = logged \cup {[key |-> sms.key, status |-> at]}
  /\ UNCHANGED <<sms, hold, told, cut>>

LogFails ==
  /\ at \in {"sent", "failed"} /\ at' = "over"
  /\ cut' = TRUE
  /\ UNCHANGED <<sms, hold, told, logged>>

MessagesNext ==
  \/ MoneyBack \/ Send \/ NotSent \/ Deliver \/ Undelivered \/ Log \/ LogFails

MessagesSpec == MessagesInit /\ [][MessagesNext]_messageVars

----------------------------------------------------------------------------
(* Properties                                                              *)

\* A customer reads a message that is whole and true: every variable of the template,
\* which is the notification service's, is filled in by the sender, which is another
\* service; money that it calls released is, "money back first, message second"
\* (results.service.ts:147), unless releasing it failed, which does not stop the
\* message.  And it is on record, unless the service or its database failed there.
MessageIsTrue ==
  told # {} =>
    /\ Placeholders[sms.key] \subseteq sms.vars
    /\ sms.key \in SaysReleased => hold # "held"
    /\ at = "over" => cut \/ [key |-> sms.key, status |-> "sent"] \in logged

\* What every step keeps: nothing is delivered before the money has moved, nor without
\* the log coming next.
MessagesInv ==
  /\ sms \in Senders \cup ResultSenders
  /\ at \in {"money", "sender", "service", "sent", "failed", "over"}
  /\ hold \in {"held", "released", "stuck"}
  /\ sms.key \in Results /\ at # "money" => hold # "held"
  /\ told # {} => at \in {"sent", "over"}
  /\ told # {} /\ at = "over" => cut \/ [key |-> sms.key, status |-> "sent"] \in logged
=============================================================================
