------------------------------- MODULE BidForm --------------------------------
(***************************************************************************)
(* Placing a bid in the portal: the form of PlaceBidView (details, confirm *)
(* with the PIN, receipt), the calls its Confirm makes one after another   *)
(* (an approval for the amount shown, the bid, and the funds once more),   *)
(* and as much of the auction service as answers them and tells the        *)
(* allotment.                                                              *)
(*                                                                         *)
(* A call may be lost on its way there or back, or be given up while the   *)
(* service still works on it; the investor may leave the form at any time, *)
(* and the calls under way go on.                                          *)
(***************************************************************************)
EXTENDS Integers, Sequences

CONSTANTS
  MinimumBid, BidMultiple,  \* the rules of an auction
  CommissionBps,            \* commission, hundredths of a per cent of face value
  NoPrice,
  Faces, Prices, Quotes,  \* what may be typed, and what BoT may quote
  Balance,                \* on the investor's account, in cents
  MaxCalls, MaxVisits     \* bounds: Confirm pressed, form opened

ASSUME BidMathAssumption ==
  MinimumBid \in Nat /\ BidMultiple \in Nat \ {0} /\ CommissionBps \in Nat /\ NoPrice \notin Int

ASSUME BidFormAssumption ==
  /\ Faces \subseteq Nat /\ Prices \subseteq Nat \cup {NoPrice} /\ Quotes \subseteq Nat \cup {NoPrice}
  /\ Balance \in Nat /\ MaxCalls \in Nat /\ MaxVisits \in Nat

(* The commission on what may be bid is a whole number of cents, whatever the rate, *)
(* where bids go in steps of a hundred shillings or of a multiple of it             *)
(* (.env.example:73, BID_MULTIPLE=100000).                                          *)
ASSUME BidStepAssumption == (BidMultiple * CommissionBps) % 100 = 0

----------------------------------------------------------------------------
(* The arithmetic of a bid, twice: as the auction service computes what it *)
(* holds, and as the portal computes the figure the investor approves with *)
(* a PIN.  Face values are whole shillings, money is cents, and a price is *)
(* hundredths of a shilling per 100 of face value, NoPrice for a           *)
(* non-competitive bid.  A price of an allotment is ten-thousandths: BoT   *)
(* quotes up to four decimals.                                             *)

Par == 10000

(* The auction service                                                     *)

FaceValueOK(face) == face >= MinimumBid /\ face % BidMultiple = 0

PriceOK(price) == price # NoPrice => (0 < price /\ price < 20000)

Cost(face, price) == IF price = NoPrice THEN face * 100 ELSE (face * price) \div 100

Commission(face) == (face * CommissionBps) \div 100

\* A commission on what the securities cost.
CommissionOnCost(face, price) == (Cost(face, price) * CommissionBps) \div Par

HoldMinorOnCost(face, price) == Cost(face, price) + CommissionOnCost(face, price)

HoldMinor(face, price) == Cost(face, price) + Commission(face)

(* The portal: commission rounded half up, the sum rounded down            *)

AmountOK(face) == face > 0 /\ face >= MinimumBid /\ face % BidMultiple = 0

ValidPrice(price) == 0 < price /\ price <= 11000

PreviewCommission(face) == (face * CommissionBps + 50) \div 100

FundsHold(face, price) ==
  (IF price = NoPrice THEN face * 100 ELSE (face * price) \div 100) + PreviewCommission(face)

(* An allotment                                                            *)

\* The price an allotment is taken to have: the bid's own when BoT quotes none, par when
\* neither is known, and par for a price with more than two decimals, which is not read.
AllottedPrice(price, quoted) ==
  CASE quoted = NoPrice -> IF price = NoPrice THEN Par ELSE price
    [] quoted # NoPrice /\ quoted % 100 = 0 -> quoted \div 100
    [] OTHER -> Par

\* What is to be kept of a hold.
NewHold(face, price, quoted) == HoldMinor(face, AllottedPrice(price, quoted))

\* A hold is only ever lowered.
Kept(held, face, price, quoted) ==
  LET new == NewHold(face, price, quoted) IN IF new < held THEN new ELSE held

\* What an allotment costs at the price BoT quoted for it.
Owed(face, quoted) == (face * quoted) \div 10000 + Commission(face)

\* BoT fills a competitive bid at its price or below, and par is taken to bound the rest.
Within(price, quoted) == quoted <= 100 * (IF price = NoPrice THEN Par ELSE price)

----------------------------------------------------------------------------
(* The form                                                                *)

VARIABLES
  form,       \* the form: its step, what is typed, the call it waits for and the one of
              \* its receipt, if any
  available,  \* the balance as the store last read it
  call,       \* the calls of Confirm; each makes an idempotency key of its own
  bid,        \* the bids at the auction service, by the call that asked for each
  open        \* bidding is open

formVars == <<form, available, call, bid, open>>

NoCall == 0

Calls == DOMAIN call

NoBid == [status |-> "none"]

Blank(visit) == [visit |-> visit, step |-> 1, face |-> 0, price |-> NoPrice,
                 pending |-> NoCall, placed |-> NoCall]

FormInit ==
  /\ form = Blank(1) /\ available = Balance /\ open = TRUE
  /\ call = <<>> /\ bid = [k \in 1..MaxCalls |-> NoBid]

KeptFor(k) == IF bid[k] = NoBid THEN 0 ELSE bid[k].kept

\* What the account service has left: an allotment keeps what it keeps.
Free ==
  LET taken[n \in 0..MaxCalls] == IF n = 0 THEN 0 ELSE taken[n - 1] + KeptFor(n)
  IN  Balance - taken[MaxCalls]

----------------------------------------------------------------------------
(* The form                                                                *)

Type(face, price) ==
  /\ form.step = 1
  /\ form' = [form EXCEPT !.face = face, !.price = price]
  /\ UNCHANGED <<available, call, bid, open>>

PriceValid == form.price # NoPrice => ValidPrice(form.price)

\* The figures beside the form: of a face value that will not do nothing is held, and a
\* price that will not do is left out of account.
Summary ==
  LET hold == IF ~AmountOK(form.face) THEN 0
              ELSE FundsHold(form.face, IF PriceValid THEN form.price ELSE NoPrice)
  IN  [hold |-> hold, after |-> available - hold]

CanReview ==
  /\ AmountOK(form.face) /\ PriceValid
  /\ Summary.after >= 0
  /\ open

Review ==
  /\ form.step = 1 /\ CanReview
  /\ form' = [form EXCEPT !.step = 2]
  /\ UNCHANGED <<available, call, bid, open>>

Back ==
  /\ form.step = 2 /\ form.pending = NoCall
  /\ form' = [form EXCEPT !.step = 1]
  /\ UNCHANGED <<available, call, bid, open>>

Leave ==
  /\ form.visit < MaxVisits
  /\ form' = Blank(form.visit + 1)
  /\ UNCHANGED <<available, call, bid, open>>

\* What it asks for is read when it is pressed.
ConfirmAnyhow ==
  /\ form.step = 2 /\ Len(call) < MaxCalls
  /\ call' = Append(call, [pc |-> "approving", sent |-> FALSE, visit |-> form.visit,
                           face |-> form.face, price |-> form.price,
                           shown |-> Summary.hold, after |-> Summary.after])
  /\ form' = [form EXCEPT !.pending = Len(call) + 1]
  /\ UNCHANGED <<available, bid, open>>

\* The button is disabled while its call is pending.
Confirm == form.pending = NoCall /\ ConfirmAnyhow

----------------------------------------------------------------------------
(* The calls                                                               *)

CallAt(k, pc) == k \in Calls /\ call[k].pc = pc

\* run ends: the form shows an error if it is still there, and may be confirmed again.
CallFails(k) ==
  /\ k \in Calls /\ call[k].pc \notin {"done", "failed"}
  /\ call' = [call EXCEPT ![k].pc = "failed"]
  /\ form' = IF form.pending = k THEN [form EXCEPT !.pending = NoCall] ELSE form
  /\ UNCHANGED <<available, bid, open>>

Approved(k) ==
  /\ CallAt(k, "approving")
  /\ call' = [call EXCEPT ![k].pc = "placing", ![k].sent = TRUE]
  /\ UNCHANGED <<form, available, bid, open>>

\* place, when its request arrives, given up by the portal or not; refused, it leaves
\* nothing.
Place(k) ==
  LET c == call[k]  held == HoldMinor(c.face, c.price) IN
  /\ k \in Calls /\ c.sent /\ bid[k] = NoBid
  /\ open /\ FaceValueOK(c.face) /\ PriceOK(c.price)
  /\ held <= c.shown /\ held <= Free
  /\ bid' = [bid EXCEPT ![k] = [status |-> "placed", held |-> held, kept |-> held]]
  /\ UNCHANGED <<form, available, call, open>>

PlaceAnswered(k) ==
  /\ CallAt(k, "placing") /\ bid[k] # NoBid
  /\ call' = [call EXCEPT ![k].pc = "rereading"]
  /\ UNCHANGED <<form, available, bid, open>>

\* The funds are read again before the receipt is shown.
Reread(k) ==
  /\ CallAt(k, "rereading")
  /\ available' = Free
  /\ call' = [call EXCEPT ![k].pc = "done"]
  /\ form' = IF form.pending = k THEN [form EXCEPT !.pending = NoCall, !.step = 3, !.placed = k]
             ELSE form
  /\ UNCHANGED <<bid, open>>

----------------------------------------------------------------------------
(* The auction                                                             *)

Close == open /\ open' = FALSE /\ UNCHANGED <<form, available, call, bid>>

\* apply of an allotment, and the hold that follows it.
Allot(k, face, quoted) ==
  LET c == call[k]  new == NewHold(face, c.price, quoted) IN
  /\ ~open /\ bid[k].status = "placed" /\ face <= c.face
  /\ bid' = [bid EXCEPT ![k] =
               [status |-> "allotted", face |-> face, quoted |-> quoted,
                held |-> new, kept |-> Kept(bid[k].held, face, c.price, quoted)]]
  /\ UNCHANGED <<form, available, call, open>>

FormNext ==
  \/ \E f \in Faces, p \in Prices : Type(f, p)
  \/ Review \/ Back \/ Leave \/ Confirm \/ Close
  \/ \E k \in 1..MaxCalls :
       \/ CallFails(k) \/ Approved(k) \/ Place(k) \/ PlaceAnswered(k) \/ Reread(k)
       \/ \E f \in Faces, q \in Quotes : Allot(k, f, q)

FormSpec == FormInit /\ [][FormNext]_formVars

----------------------------------------------------------------------------
(* Properties                                                              *)

\* What is held is what the investor saw when entering the PIN, to the cent
\* (bid-math.ts:67, "exactly as the bank holds it"), though the two are computed apart
\* and rounded differently; an approval of less would refuse the bid.
\* The receipt shows that bid, and an investor who made no other has left what the
\* screen had said would be.
PreviewIsHeld ==
  /\ \A k \in Calls : bid[k].status = "placed" => bid[k].held = call[k].shown
  /\ form.step = 3 =>
       /\ bid[form.placed] # NoBid
       /\ (/\ bid[form.placed].status = "placed"
           /\ \A k \in Calls \ {form.placed} : bid[k] = NoBid)
          => available = call[form.placed].after

\* What stays held after an allotment pays for it at the price BoT quoted, within what
\* the bid or par allows; but a price above par with more than two decimals is taken for
\* par (results.service.ts:126-128), and too much is given back.
AllotmentIsCovered ==
  \A k \in Calls : bid[k].status = "allotted" /\ bid[k].quoted # NoPrice =>
    \/ bid[k].kept >= Owed(bid[k].face, bid[k].quoted)
    \/ ~Within(call[k].price, bid[k].quoted)
    \/ bid[k].quoted % 100 # 0 /\ bid[k].quoted > 100 * Par

\* The figures of a bid from the form to the allotment.
MoneyIsAsShown == PreviewIsHeld /\ AllotmentIsCovered

\* One form makes a second bid only when the portal gave up the call that made the
\* first and told the investor it had failed: the key is new with every Confirm
\* (bidding.ts:147), so nothing else stands between a retry and a second bid.
SecondBidOnlyInDoubt ==
  \A k, l \in Calls :
    /\ k < l /\ call[k].visit = call[l].visit
    /\ bid[k] # NoBid /\ bid[l] # NoBid
    => call[k].pc = "failed"

----------------------------------------------------------------------------
(* The inductive invariant                                                 *)

FormSteps == 1..3

FormRows == [visit : Nat, step : FormSteps, face : Faces \cup {0}, price : Prices \cup {NoPrice},
             pending : 0..MaxCalls, placed : 0..MaxCalls]

CallRows == [pc : {"approving", "placing", "rereading", "done", "failed"}, sent : BOOLEAN,
             visit : Nat, face : Faces \cup {0}, price : Prices \cup {NoPrice},
             shown : Int, after : Int]

PlacedRows == [status : {"placed"}, held : Int, kept : Int]

AllottedRows == [status : {"allotted"}, face : Faces, quoted : Quotes, held : Int, kept : Int]

BidFormTypeOK ==
  /\ form \in FormRows /\ available \in Int /\ open \in BOOLEAN
  /\ call \in Seq(CallRows) /\ Len(call) <= MaxCalls
  /\ bid \in [1..MaxCalls -> {NoBid} \cup PlacedRows \cup AllottedRows]

\* What is confirmed was reviewed, and a call is waited for on that screen only.
FormIsReviewed ==
  /\ form.step # 1 => AmountOK(form.face) /\ PriceValid
  /\ form.pending # NoCall => form.step = 2

\* A call of this visit is waited for or has ended; the one before it had failed.
CallsInTurn ==
  \A k \in Calls :
    /\ call[k].visit <= form.visit
    /\ call[k].visit = form.visit => form.pending = k \/ call[k].pc \in {"done", "failed"}
    /\ call[k].visit = form.visit /\ call[k].pc = "done" => form.step = 3
    /\ \A l \in Calls : k < l /\ call[k].visit = call[l].visit => call[k].pc = "failed"

\* A bid is of a call, and a call that got an answer of the service has its bid.
BidsAreOfCalls ==
  /\ \A k \in 1..MaxCalls : bid[k] # NoBid => k \in Calls
  /\ \A k \in Calls : call[k].pc \in {"rereading", "done"} => bid[k] # NoBid
  /\ form.step = 3 => form.placed \in 1..MaxCalls /\ bid[form.placed] # NoBid

NoOther(k) == \A l \in 1..MaxCalls : l # k => bid[l] = NoBid

\* What a call was shown, what is held of its bid, and what the balance was without others.
FiguresStand ==
  /\ \A k \in Calls :
       /\ call[k].shown = FundsHold(call[k].face, call[k].price)
       /\ NoOther(k) => call[k].after = Balance - call[k].shown
       /\ bid[k].status = "placed" =>
            /\ bid[k].held = HoldMinor(call[k].face, call[k].price)
            /\ bid[k].kept = bid[k].held /\ bid[k].held = call[k].shown
  /\ NoOther(NoCall) => available = Balance
  /\ form.step = 3 /\ bid[form.placed].status = "placed" /\ NoOther(form.placed) =>
       available = Balance - call[form.placed].shown

BidFormInv ==
  BidFormTypeOK /\ FormIsReviewed /\ CallsInTurn /\ BidsAreOfCalls /\ FiguresStand /\ AllotmentIsCovered
=============================================================================
