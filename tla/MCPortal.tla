------------------------------- MODULE MCPortal -------------------------------
(***************************************************************************)
(* The portal's stateful parts: the tab with its tokens, the onboarding    *)
(* screen, the form that places a bid, the investor's money and bids, the  *)
(* two kinds of table of the back office, and its queues with the work on  *)
(* them.  They share no state, so that a behaviour is about one of them,   *)
(* and the others wait: their states add up instead of multiplying.        *)
(***************************************************************************)
EXTENDS Tab, Wizard, BidForm, Portfolio, Table, Desk

(* Two people, and three sign-ins, expiries, lost answers and reloads in any mix; two   *)
(* sets of details the service takes and one it refuses, saved or submitted three times; *)
(* two confirmations of two forms, with a price above par and without; two bids and two  *)
(* tasks of their owner; two searches, lists of two rows; an officer, a supervisor, a    *)
(* compliance officer and an observer at the desk, two shifts of it.                     *)

CONSTANTS Typed1, Typed2, Odd, ann, ben, active, pending, Ali, Bea, Cai, Dan

\* A price above par, in hundredths, and none.
SmallPrices == {10150, NoPrice}

\* Ten-thousandths: readable and not, below and above par, and none at all.
SmallQuotes == {885000, 981234, 1011234, 1020000, NoPrice}

Roles == [p \in {Ali, Bea, Cai, Dan} |->
            CASE p = Ali -> "ops_officer" [] p = Bea -> "ops_supervisor"
              [] p = Cai -> "compliance_officer" [] p = Dan -> "bot_observer"]

\* Nobody has a namesake.
Names == [p \in {Ali, Bea, Cai, Dan} |-> p]

----------------------------------------------------------------------------
VARIABLE part  \* which part the behaviour is about

portalVars == <<part, tabVars, wizardVars, formVars, portfolioVars, tableVars, deskVars>>

PortalInit ==
  /\ part \in {"tab", "wizard", "form", "portfolio", "table", "queue", "desk"}
  /\ TabInit /\ WizardInit /\ FormInit /\ DeskInit
  /\ part # "wizard" => known = <<>>
  /\ part # "desk" => auction.state = "open"
  /\ PortfolioInit
  /\ part # "portfolio" => bidding /\ \A b \in MyBids : stands[b] = "none"
  /\ TableInit
  /\ part # "table" => list = [s \in Searches |-> 0] /\ q = CHOOSE s \in Searches : TRUE

PortalNext ==
  /\ UNCHANGED part
  /\ \/ part = "tab" /\ TabNext
        /\ UNCHANGED <<wizardVars, formVars, portfolioVars, tableVars, deskVars>>
     \/ part = "wizard" /\ WizardNext
        /\ UNCHANGED <<tabVars, formVars, portfolioVars, tableVars, deskVars>>
     \/ part = "form" /\ FormNext
        /\ UNCHANGED <<tabVars, wizardVars, portfolioVars, tableVars, deskVars>>
     \/ part = "portfolio" /\ PortfolioNext
        /\ UNCHANGED <<tabVars, wizardVars, formVars, tableVars, deskVars>>
     \/ part = "table" /\ FetchedNext
        /\ UNCHANGED <<tabVars, wizardVars, formVars, portfolioVars, local, deskVars>>
     \/ part = "queue" /\ LocalNext
        /\ UNCHANGED <<tabVars, wizardVars, formVars, portfolioVars, fetchedVars, deskVars>>
     \/ part = "desk" /\ DeskNext
        /\ UNCHANGED <<tabVars, wizardVars, formVars, portfolioVars, tableVars>>

PortalSpec == PortalInit /\ [][PortalNext]_portalVars
=============================================================================
