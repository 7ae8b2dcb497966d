--------------------------------- MODULE Wire ---------------------------------
(***************************************************************************)
(* The terms of one bid on their way to the Bank of Tanzania and back: as  *)
(* typed, as stored, as sent to bot-gateway, as it writes them for BoT, as *)
(* BoT keeps and returns them, as our bid is found again by them, and the  *)
(* allotment as BoT tells it and as it is recorded.  On each leg they are  *)
(* a different kind of number or text, and each service checks its own.    *)
(* A batch is taken whole or not at all, so that one bid that is refused   *)
(* on the way stops every bid with it.                                     *)
(*                                                                         *)
(* A text is the digits before and those after the point; a JSON number is *)
(* its shortest text.                                                      *)
(***************************************************************************)
EXTENDS Integers, Sequences

CONSTANTS
  TypedFaces, TypedPrices,     \* what may be typed, texts; prices with NoText
  NoText,                      \* nothing typed, sent or told
  BidStep, LeastBid, MaxFace,  \* the auction's rules, shillings; fifteen digits
  BotMinimum, MaxSafe,         \* BoT's minimum, and the largest exact JSON number
  Average                      \* the average price of an auction, hundredths

Digits == 0..9

\* Prices are below 200 for 100, in hundredths.
TooHigh == 20000

PriceRange == 1..(TooHigh - 1)

Texts == [whole: Nat, frac: Seq(Digits)]

ASSUME WireAssumption ==
  /\ TypedFaces \subseteq Texts /\ TypedPrices \subseteq Texts \cup {NoText} /\ NoText \notin Texts
  /\ BidStep \in Nat \ {0} /\ BotMinimum \in Nat /\ MaxSafe \in Nat /\ Average \in PriceRange
  /\ LeastBid \in Nat /\ LeastBid >= BotMinimum  \* configuration.ts:107, of bills
  /\ MaxFace \in Nat /\ MaxFace <= MaxSafe         \* bid-rules.ts:42

VARIABLES
  leg,        \* where the bid is
  form,       \* the text of the form
  ours,       \* the row of the auction service
  sent,       \* the bid in the package given to bot-gateway
  record,     \* BoT's record: amount, hundredths, "Y" or "N"
  allotment,  \* BoT's allotment: two JSON numbers
  outcome     \* what the auction service recorded of it

wireVars == <<leg, form, ours, sent, record, allotment, outcome>>

----------------------------------------------------------------------------
(* Texts and numbers                                                       *)

Text(whole, frac) == [whole |-> whole, frac |-> frac]

\* The places that remain are filled with zeros.
Digit(t, i) == IF i \in DOMAIN t.frac THEN t.frac[i] ELSE 0

Hundredths(t) == 100 * t.whole + 10 * Digit(t, 1) + Digit(t, 2)

\* Two digits, the first lost when it is zero.
TwoPlaces(n) == Text(n \div 100, <<(n % 100) \div 10, n % 10>>)

\* The shortest text of a number of at most two decimals.
Json(hundredths) ==
  LET t == TwoPlaces(hundredths) IN
  CASE hundredths % 100 = 0 -> Text(t.whole, <<>>)
    [] hundredths % 100 # 0 /\ hundredths % 10 = 0 -> Text(t.whole, <<t.frac[1]>>)
    [] OTHER -> t

IsPrice(t, places) == t # NoText /\ t.whole < 1000 /\ Len(t.frac) <= places

----------------------------------------------------------------------------
(* The auction service                                                     *)

FaceTaken(t) == t.frac = <<>> /\ t.whole \in 1..MaxFace /\ t.whole >= LeastBid /\ t.whole % BidStep = 0

\* NoText when malformed or out of range.
PriceToHundredths(t) ==
  IF IsPrice(t, 2) /\ 0 < Hundredths(t) /\ Hundredths(t) < TooHigh THEN <<Hundredths(t)>> ELSE <<>>

Place ==
  /\ leg = "typed"
  /\ LET price == PriceToHundredths(form.price) IN
     IF FaceTaken(form.face) /\ (form.competitive => price # <<>>)
     THEN /\ ours' = [face |-> form.face.whole, competitive |-> form.competitive,
                      price |-> IF form.competitive THEN price ELSE <<>>]
          /\ leg' = "placed"
     ELSE leg' = "not placed" /\ UNCHANGED ours
  /\ UNCHANGED <<form, sent, record, allotment, outcome>>

HandOver ==
  /\ leg = "placed" /\ leg' = "handed over"
  /\ sent' = [face |-> Text(ours.face, <<>>), competitive |-> ours.competitive,
              price |-> IF ours.price = <<>> THEN NoText ELSE TwoPlaces(ours.price[1])]
  /\ UNCHANGED <<form, ours, record, allotment, outcome>>

----------------------------------------------------------------------------
(* bot-gateway and BoT                                                     *)

\* Money.parse and toString: whole senti.
MoneyText(minor) == TwoPlaces(minor)

\* A face value that bot-gateway can write as a JSON number.
Writable(minor) == minor % 100 = 0 /\ minor \div 100 <= MaxSafe

\* A price that it can write with two decimals.
PriceWritable(t) == IsPrice(t, 4) /\ \A i \in 3..Len(t.frac) : t.frac[i] = 0

\* The checks of the request.
BidDto(b) == b.face.frac \in {<<>>, <<0, 0>>} /\ (b.price # NoText => IsPrice(b.price, 2))

\* Those of the service, and of the conversions.
GatewaySends(b) ==
  /\ BidDto(b)
  /\ Hundredths(b.face) >= BotMinimum * 100 /\ Writable(Hundredths(b.face))
  /\ b.competitive => b.price # NoText /\ PriceWritable(b.price)

\* What it sends: the amount a number, the price a text, "0.00" for a bid without one.
OnTheWire(b) ==
  [amount |-> Hundredths(b.face) \div 100, flag |-> IF b.competitive THEN "Y" ELSE "N",
   price |-> IF b.competitive THEN TwoPlaces(Hundredths(b.price)) ELSE Text(0, <<0, 0>>)]

BankTakesIt(w) == w.amount <= MaxSafe /\ w.amount >= BotMinimum /\ IsPrice(w.price, 2)

SendBid ==
  /\ leg = "handed over"
  /\ IF ~GatewaySends(sent) THEN leg' = "stuck at the gateway" /\ UNCHANGED record
     ELSE LET w == OnTheWire(sent) IN
          IF ~BankTakesIt(w) THEN leg' = "refused by BoT" /\ UNCHANGED record
          ELSE /\ leg' = "at BoT"
               /\ record' = [amount |-> w.amount, price |-> Hundredths(w.price), flag |-> w.flag]
  /\ UNCHANGED <<form, ours, sent, allotment, outcome>>

\* The text of what was sent, compared as it is.
NormaliseFaceNot(t) == t

\* The text of what was sent, as that of an amount of money.
NormaliseFace(t) == IF t.frac = <<>> THEN Text(t.whole, <<0, 0>>) ELSE t

\* The face value of BoT's record as it is read.
FaceAtBot == MoneyText(record.amount * 100)

\* The bid is looked for among BoT's by the face value, both texts; then among ours, by
\* the face value BoT has and the terms that were sent.
Reconcile ==
  /\ leg = "at BoT"
  /\ leg' = IF /\ FaceAtBot = NormaliseFace(sent.face)
               /\ FaceAtBot.frac = <<0, 0>> /\ FaceAtBot.whole = ours.face
               /\ sent.competitive = ours.competitive
               /\ PriceToHundredths(sent.price) = ours.price
            THEN "matched" ELSE "lost"
  /\ UNCHANGED <<form, ours, sent, record, allotment, outcome>>

----------------------------------------------------------------------------
(* The allotment                                                           *)

\* All or, by the specification, a part of the amount: a competitive bid at its own
\* price, another at the average.
Allot(amount) ==
  /\ leg = "matched" /\ leg' = "allotted"
  /\ allotment' = [amount |-> Text(amount, <<>>), price |-> Json(IF record.flag = "Y" THEN record.price ELSE Average)]
  /\ UNCHANGED <<form, ours, sent, record, outcome>>

\* The callback's numbers as texts, or none that cannot be read.
AmountTold(t) == IF t.frac = <<>> /\ t.whole <= MaxSafe THEN MoneyText(t.whole * 100) ELSE NoText
PriceTold(t) == IF IsPrice(t, 4) THEN t ELSE NoText

\* A face value not told is taken to be the bid's, and a price not told the bid's price.
Record ==
  /\ leg = "allotted" /\ leg' = "recorded"
  /\ LET face == AmountTold(allotment.amount) price == PriceTold(allotment.price) IN
     outcome' = [face |-> IF face = NoText THEN ours.face ELSE Hundredths(face) \div 100,
                price |-> IF price = NoText THEN ours.price ELSE PriceToHundredths(price)]
  /\ UNCHANGED <<form, ours, sent, record, allotment>>

----------------------------------------------------------------------------

WireInit ==
  /\ leg = "typed"
  /\ form \in [face: TypedFaces, competitive: BOOLEAN, price: TypedPrices]
  /\ ours = <<>> /\ sent = <<>> /\ record = <<>> /\ allotment = <<>> /\ outcome = <<>>

WireNext ==
  \/ Place \/ HandOver \/ SendBid \/ Reconcile \/ Record
  \/ leg = "matched" /\ \E amount \in 1..record.amount : Allot(amount)

WireSpec == WireInit /\ [][WireNext]_wireVars

----------------------------------------------------------------------------
(* Properties                                                              *)

\* A bid the auction service took is refused by nobody on its way and is found again, with
\* the terms of our row at BoT, and what is recorded of an allotment is what BoT said: its
\* batch would otherwise stop with it, its verdict reach nobody, or the wrong part of its
\* hold be released (bot.service.ts:127, results.service.ts:46 and 124).
TermsArrive ==
  /\ leg \notin {"stuck at the gateway", "refused by BoT", "lost"}
  /\ record # <<>> =>
       /\ record.amount = ours.face /\ (record.flag = "Y") = ours.competitive
       /\ ours.competitive => <<record.price>> = ours.price
  /\ leg = "recorded" =>
       /\ outcome.face = allotment.amount.whole
       /\ outcome.price = <<IF ours.competitive THEN ours.price[1] ELSE Average>>

----------------------------------------------------------------------------
(* What every step keeps                                                   *)

\* The terms as the auction service took them.
OursIsTaken ==
  /\ ours.face \in Nat /\ ours.face >= LeastBid /\ ours.face <= MaxFace
  /\ \/ ours.competitive = TRUE /\ \E n \in PriceRange : ours.price = <<n>>
     \/ ours.competitive = FALSE /\ ours.price = <<>>

SentIsOurs ==
  sent = [face |-> Text(ours.face, <<>>), competitive |-> ours.competitive,
          price |-> IF ours.price = <<>> THEN NoText ELSE TwoPlaces(ours.price[1])]

RecordIsOurs ==
  record = [amount |-> ours.face, price |-> IF ours.competitive = TRUE THEN ours.price[1] ELSE 0,
            flag |-> IF ours.competitive = TRUE THEN "Y" ELSE "N"]

PriceAllotted == IF ours.competitive = TRUE THEN ours.price[1] ELSE Average

AllotmentIsBots ==
  \E amount \in 1..ours.face :
    allotment = [amount |-> Text(amount, <<>>), price |-> Json(PriceAllotted)]

OutcomeIsBots == outcome.face = allotment.amount.whole /\ outcome.price = <<PriceAllotted>>

WireInv ==
  /\ leg \in {"typed", "not placed", "placed", "handed over", "at BoT", "matched", "allotted", "recorded"}
  /\ form \in [face: TypedFaces, competitive: BOOLEAN, price: TypedPrices]
  /\ leg \notin {"typed", "not placed"} => OursIsTaken
  /\ leg \notin {"typed", "not placed", "placed"} => SentIsOurs
  /\ record # <<>> => leg \in {"at BoT", "matched", "allotted", "recorded"}
  /\ leg \in {"at BoT", "matched", "allotted", "recorded"} => RecordIsOurs
  /\ leg \in {"allotted", "recorded"} => AllotmentIsBots
  /\ leg = "recorded" => OutcomeIsBots
=============================================================================
