------------------------------ MODULE References ------------------------------
(***************************************************************************)
(* The reference numbers people quote: seven random characters of base 32  *)
(* and a check character.  Somebody copies one down or reads it out, with  *)
(* one slip or none, and it is looked up: checked first and read for what  *)
(* it looks like, or as it is written.                                     *)
(***************************************************************************)
EXTENDS Integers

CONSTANTS
  Drawn,    \* values a random character may have
  Written   \* characters one may write by mistake; from 32 on: O, I, L and U

ASSUME ReferencesAssumption == Drawn \subseteq 0..31 /\ Written \subseteq 0..35

VARIABLES
  meant,    \* the reference as issued
  slip,     \* what went wrong
  typed,    \* the reference as written
  way,      \* how it was looked up
  found     \* "none" before that, then "refused", "meant", "another" or "nothing"

referenceVars == <<meant, slip, typed, way, found>>

Body == 1..7
Places == 1..8

\* Every character counts as often as twice, three times ... eight times.
Weighted(b) == 2 * b[1] + 3 * b[2] + 4 * b[3] + 5 * b[4] + 6 * b[5] + 7 * b[6] + 8 * b[7]

\* All characters count alike.
CheckUnweighted(b) == (b[1] + b[2] + b[3] + b[4] + b[5] + b[6] + b[7]) % 32

CheckCharacter(b) == Weighted(b) % 32

\* What looks like 0, 1 or V is read as it.
Normal(c) == CASE c \in 0..31 -> c [] c = 32 -> 0 [] c \in {33, 34} -> 1 [] c = 35 -> 27

Normalised(p) == [i \in Places |-> Normal(p[i])]

IsValid(p) == Normalised(p)[8] = CheckCharacter(Normalised(p))

\* The rows were all issued.
Issuable(p) == p \in [Places -> 0..31] /\ p[8] = CheckCharacter(p)

\* What a query for p may find beside the reference that is meant.
Rows(p) == IF p = meant THEN {"meant"} ELSE IF Issuable(p) THEN {"another", "nothing"} ELSE {"nothing"}

NoSlip == [kind |-> "none"]

ReferencesInit ==
  /\ \E b \in [Body -> Drawn] :
       meant = [i \in Places |-> IF i \in Body THEN b[i] ELSE CheckCharacter(b)]
  /\ slip = NoSlip /\ typed = meant /\ way = "none" /\ found = "none"

\* Two neighbours change places.
Swap(i) ==
  /\ found = "none" /\ slip = NoSlip
  /\ slip' = [kind |-> "swap", at |-> i]
  /\ typed' = [typed EXCEPT ![i] = meant[i + 1], ![i + 1] = meant[i]]
  /\ UNCHANGED <<meant, way, found>>

Mistype(i, c) ==
  /\ found = "none" /\ slip = NoSlip
  /\ slip' = [kind |-> "character", at |-> i]
  /\ typed' = [typed EXCEPT ![i] = c]
  /\ UNCHANGED <<meant, way, found>>

\* A customer's record: what does not pass "never becomes a lookup".
LookUp ==
  /\ found = "none" /\ way' = "checked"
  /\ found' \in IF IsValid(typed) THEN Rows(Normalised(typed)) ELSE {"refused"}
  /\ UNCHANGED <<meant, slip, typed>>

\* The search over customers takes what does not pass for part of a reference, or a name.
Search ==
  /\ found = "none" /\ way' = "search"
  /\ found' \in Rows(IF IsValid(typed) THEN Normalised(typed) ELSE typed)
  /\ UNCHANGED <<meant, slip, typed>>

\* Cases, CDS requests and bids are found by what is written, without a check.
Find ==
  /\ found = "none" /\ way' = "as written"
  /\ found' \in Rows(typed)
  /\ UNCHANGED <<meant, slip, typed>>

ReferencesNext ==
  \/ \E i \in Body : Swap(i)
  \/ \E i \in Places, c \in Written : Mistype(i, c)
  \/ LookUp \/ Search \/ Find

ReferencesSpec == ReferencesInit /\ [][ReferencesNext]_referenceVars

----------------------------------------------------------------------------
(* Properties                                                              *)

\* How far apart two characters weigh the same where each counts an even number of times:
\* twice and six times, four times, eight times.
Alike(i) == CASE i \in {1, 5} -> 16 [] i = 3 -> 8 [] i = 7 -> 4

\* The slips the check does not see, and there are no others: one character replaced
\* by another that weighs the same where it stands.
Blind ==
  /\ slip.kind = "character" /\ slip.at \in {1, 3, 5, 7}
  /\ LET read == Normalised(typed)[slip.at] IN
     read # meant[slip.at] /\ (read - meant[slip.at]) % Alike(slip.at) = 0

\* Nothing but the reference that was meant is found, checked or not: "a mistyped
\* character is rejected rather than silently looking up a different, real bid"
\* (reference.ts:13), and so is a swap, except where the check is blind; these and no
\* others pass it.  And what was issued is always found, also where it is written with a
\* character that only looks different, but by a search as written (bids.service.ts:232,
\* kyc.service.ts:135, cds.service.ts:47), which finds it only as it was issued.
OnlyMeantIsLookedUp ==
  /\ found = "another" => Blind
  /\ found = "refused" => ~Blind /\ Normalised(typed) # meant
  /\ found = "nothing" => IF way = "as written" THEN typed # meant ELSE Normalised(typed) # meant
=============================================================================
