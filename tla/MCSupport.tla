------------------------------ MODULE MCSupport ------------------------------
(***************************************************************************)
(* What the services stand on: the approvals of identity; the client of    *)
(* the Bank of Tanzania, its callbacks and a bid's terms on the way there  *)
(* and back; settings, the checks of an applicant, reference numbers and   *)
(* messages.  They share no state, so that a behaviour is about one of     *)
(* them, and the others wait: their states add up instead of multiplying.  *)
(***************************************************************************)
EXTENDS StepUp, BankLink, Callbacks, Wire, Settings, Verify, References, Messages, TLC

(* One approval and three redemptions racing for it, so that every refusal can     *)
(* happen; two calls to BoT over one sign-in that expires; two verdicts on one     *)
(* bid, a callback of an unknown status and one cut short, posted twice to two     *)
(* processes; faces around every limit and prices of up to three decimals; a       *)
(* setting of two processes, set three times; every answer of the registers about  *)
(* four names; references drawn from two values, with every slip; every message.   *)

CONSTANTS g1, k1, k2, k3, investor, supervisor, place, approve, c1, c2, p1, p2, w1, w2

MCPermitted == {<<investor, place>>, <<supervisor, approve>>}
Symmetric == Permutations({k1, k2, k3})

Ali == <<"A", "L", "I">>
Said == <<"S", "A", "I", "D">>
Sayed == <<"S", "A", "Y", "E", "D">>
Abdu == <<"A", "B", "D", "U">>

\* Two spellings of one name, and a name of three words, one of them the list's.
SmallNames == {<<Ali, Said>>, <<Abdu, Sayed, Ali>>, <<Ali, Abdu, Said>>}
OnList == <<<<"A">>, Abdu, Said>>

Callback(status, shape) == [request |-> "r1", status |-> status, shape |-> shape]
SmallBodies ==
  {Callback("accepted", "whole"), Callback("allotted", "whole"), Callback("withdrawn", "whole"), Callback("rejected", "cut")}

SmallFaces == {Text(n, <<>>) : n \in 0..13} \cup {Text(6, <<0, 0>>), Text(7, <<5>>)}
SmallPrices ==
  {Text(n, f) : n \in {0, 1, 88, 199, 200, 1000},
                f \in {<<>>, <<0>>, <<5>>, <<0, 5>>, <<5, 0>>, <<0, 0>>, <<2, 5, 0>>}} \cup {NoText}

----------------------------------------------------------------------------
VARIABLE part  \* which part the behaviour is about

Parts == {"approvals", "bank link", "callbacks", "wire", "settings", "checks", "references", "messages"}

supportVars ==
  <<part, vars, linkVars, callbackVars, wireVars,
    settingsVars, verifyVars, referenceVars, messageVars>>

\* A part that waits does so in one of its initial states.
SupportInit ==
  /\ part \in Parts
  /\ StepUpInit /\ LinkInit /\ SettingsInit
  /\ CallbacksInit
  /\ part # "callbacks" => botKey /\ skew = CHOOSE d \in Skews : TRUE
  /\ WireInit
  /\ part # "wire" => form = CHOOSE f \in [face: TypedFaces, competitive: BOOLEAN, price: TypedPrices] : TRUE
  /\ ReferencesInit
  /\ part # "references" => meant = [i \in Places |-> 0]
  /\ MessagesInit
  /\ part # "messages" => sms.key = "pin.set"
  /\ VerifyInit
  /\ part # "checks" =>
       /\ registry = NoRecord /\ customer = NoRecord /\ account = "nobody"
       /\ declared = [name |-> CHOOSE n \in Names : TRUE, birth |-> CHOOSE b \in Births : TRUE,
                      account |-> FALSE]

SupportNext ==
  /\ UNCHANGED part
  /\ \/ /\ part = "approvals" /\ StepUpNext
        /\ UNCHANGED <<linkVars, callbackVars, wireVars, settingsVars, verifyVars, referenceVars, messageVars>>
     \/ /\ part = "bank link" /\ LinkNext
        /\ UNCHANGED <<vars, callbackVars, wireVars, settingsVars, verifyVars, referenceVars, messageVars>>
     \/ /\ part = "callbacks" /\ CallbacksNext
        /\ UNCHANGED <<vars, linkVars, wireVars, settingsVars, verifyVars, referenceVars, messageVars>>
     \/ /\ part = "wire" /\ WireNext
        /\ UNCHANGED <<vars, linkVars, callbackVars, settingsVars, verifyVars, referenceVars, messageVars>>
     \/ /\ part = "settings" /\ SettingsNext
        /\ UNCHANGED <<vars, linkVars, callbackVars, wireVars, verifyVars, referenceVars, messageVars>>
     \/ /\ part = "checks" /\ VerifyNext
        /\ UNCHANGED <<vars, linkVars, callbackVars, wireVars, settingsVars, referenceVars, messageVars>>
     \/ /\ part = "references" /\ ReferencesNext
        /\ UNCHANGED <<vars, linkVars, callbackVars, wireVars, settingsVars, verifyVars, messageVars>>
     \/ /\ part = "messages" /\ MessagesNext
        /\ UNCHANGED <<vars, linkVars, callbackVars, wireVars, settingsVars, verifyVars, referenceVars>>

SupportSpec == SupportInit /\ [][SupportNext]_supportVars
=============================================================================
