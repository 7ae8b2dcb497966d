-------------------------------- MODULE Verify --------------------------------
(***************************************************************************)
(* The checks of an application: against the national registry, against    *)
(* Core Banking, against the lists; the risk they give; and whether a      *)
(* person has to look.  Every source may be unavailable, and Core Banking  *)
(* may change between the two questions it is asked.  The sanctions and    *)
(* PEP lists are screened alike: one stands for both.                      *)
(*                                                                         *)
(* A name is a sequence of words, a word a sequence of letters.            *)
(***************************************************************************)
EXTENDS FiniteSets, Integers, Sequences

CONSTANTS
  Names,     \* names to declare and to be registered under
  Listed,    \* the name on the list
  Births,    \* dates of birth
  NoRecord

Customers == [name : Names, birth : Births, funded : BOOLEAN]
Registered == [name : Names \cup {<<>>}, birth : Births]

ASSUME VerifyAssumption ==
  /\ Names # {} /\ NoRecord \notin Births \cup Customers \cup Registered
  /\ \A name \in Names \cup {Listed} : Len(name) \in Nat \ {0} /\ DOMAIN name = 1..Len(name)

VARIABLES
  declared,   \* name, birth, whether an account was given
  registry,   \* the registry's record of the number, or NoRecord
  customer,   \* Core Banking's customer with the number, or NoRecord
  account,    \* whose the account is that was given: nobody's, the customer's, another's
  answer,     \* Core Banking's two answers, each once it is there
  result,     \* the outcome of every check, once it is there
  link,       \* the bank account found
  appeared    \* whether somebody became a customer while the checks ran

verifyVars == <<declared, registry, customer, account, answer, result, link, appeared>>

----------------------------------------------------------------------------
(* Names                                                                   *)

SmallerOf(x, y) == IF x < y THEN x ELSE y

\* editDistance: the last cell of the last row.
EditDistance(a, b) ==
  LET row[i \in 0..Len(a), j \in 0..Len(b)] ==
        IF i = 0 THEN j
        ELSE IF j = 0 THEN i
        ELSE SmallerOf(SmallerOf(row[i - 1, j], row[i, j - 1]) + 1,
                       row[i - 1, j - 1] + (IF a[i] = b[j] THEN 0 ELSE 1))
  IN row[Len(a), Len(b)]

TokensAgree(a, b, slips) ==
  \/ a = b
  \/ /\ Len(a) = 1 \/ Len(b) = 1
     /\ a[1] = b[1]
  \/ /\ Len(a) >= 4 /\ Len(b) >= 4
     /\ EditDistance(a, b) <= slips

\* coverage: every needle takes the first word left that agrees with it.
Covered(needles, haystack, slips) ==
  LET take[n \in 0..Len(needles)] ==
        IF n = 0 THEN {}
        ELSE LET used == take[n - 1]
                 fits == {h \in DOMAIN haystack \ used : TokensAgree(needles[n], haystack[h], slips)}
             IN IF fits = {} THEN used ELSE used \cup {CHOOSE h \in fits : \A g \in fits : h <= g}
  IN Cardinality(take[Len(needles)])

SameWords(a, b) == Len(a) > 0 /\ \E p \in [DOMAIN a -> DOMAIN b] :
  Len(a) = Len(b) /\ {p[i] : i \in DOMAIN a} = DOMAIN b /\ \A i \in DOMAIN a : a[i] = b[p[i]]

\* screen: a score of 80% of the listed name.
Hit(name, listed) == Len(listed) > 0 /\ 5 * Covered(listed, name, 2) >= 4 * Len(listed)

----------------------------------------------------------------------------
(* The application and the world                                           *)

VerifyInit ==
  /\ declared \in [name : Names, birth : Births, account : BOOLEAN]
  /\ registry \in {NoRecord} \cup Registered
  /\ customer \in {NoRecord} \cup Customers
  /\ account \in {"nobody", "another"} \cup (IF customer = NoRecord THEN {} ELSE {"own"})
  /\ answer = [byNida |-> <<>>, byAccount |-> <<>>]
  /\ result = <<>> /\ link = "none" /\ appeared = FALSE

Outcome(source, outcome) == result' = Append(result, [source |-> source, outcome |-> outcome])

ClearIf(cond) == IF cond THEN "clear" ELSE "review"

\* Somebody opens the account at a branch in the meantime.
BecomeCustomer ==
  /\ customer = NoRecord /\ Len(result) = 1
  /\ customer' \in Customers /\ appeared' = TRUE
  /\ account' \in {account} \cup (IF account = "nobody" THEN {"own"} ELSE {})
  /\ UNCHANGED <<declared, registry, answer, result, link>>

----------------------------------------------------------------------------
(* runChecks                                                               *)

\* Where the registry has no name the one declared stands.
RegistryName == IF registry.name = <<>> THEN declared.name ELSE registry.name

CheckNida ==
  /\ result = <<>>
  /\ Outcome("nida", ClearIf(/\ registry # NoRecord
                             /\ SameWords(declared.name, RegistryName)
                             /\ declared.birth = registry.birth))
  /\ UNCHANGED <<declared, registry, customer, account, answer, link, appeared>>

\* Who the person is: what the registry says, or what was declared without it.
Identity ==
  IF registry = NoRecord \/ result[1].outcome = "unavailable"
    THEN [name |-> declared.name, birth |-> declared.birth]
    ELSE [name |-> RegistryName, birth |-> registry.birth]

Unavailable(source) ==
  /\ Outcome(source, "unavailable")
  /\ UNCHANGED <<declared, registry, customer, account, answer, link, appeared>>

NidaUnavailable == result = <<>> /\ Unavailable("nida")

AskByNida ==
  /\ Len(result) = 1 /\ answer.byNida = <<>>
  /\ answer' = [answer EXCEPT !.byNida = <<customer>>]
  /\ UNCHANGED <<declared, registry, customer, account, result, link, appeared>>

AskByAccount ==
  /\ Len(result) = 1 /\ declared.account /\ answer.byAccount = <<>>
  /\ answer' = [answer EXCEPT !.byAccount =
       <<[owner |-> account, funded |-> IF account = "own" THEN customer.funded ELSE account = "another"]>>]
  /\ UNCHANGED <<declared, registry, customer, account, result, link, appeared>>

\* The account given is good if it is active and in shillings ...
AccountGoodOfAnyone == answer.byAccount[1].funded

\* ... and somebody's, who is the applicant.
AccountGood == answer.byAccount[1].owner = "own" /\ answer.byAccount[1].funded

\* checkAgainstCbs: of somebody unknown only the account is looked at; of a customer,
\* the name, the date of birth and that there is an account to pay from.
CheckCbs ==
  LET known == answer.byNida[1]
      good == declared.account => AccountGood IN
  /\ Len(result) = 1 /\ answer.byNida # <<>> /\ (declared.account => answer.byAccount # <<>>)
  /\ IF known = NoRecord
       THEN /\ Outcome("cbs", ClearIf(good))
            /\ link' = IF good THEN "new" ELSE "unresolved"
       ELSE LET funded == good /\ (declared.account \/ known.funded) IN
            /\ Outcome("cbs", ClearIf(/\ funded
                                      /\ SameWords(Identity.name, known.name)
                                      /\ Identity.birth = known.birth))
            /\ link' = IF funded THEN "existing" ELSE "unresolved"
  /\ UNCHANGED <<declared, registry, customer, account, answer, appeared>>

CbsUnavailable == Len(result) = 1 /\ Unavailable("cbs")

Screen ==
  /\ Len(result) = 2
  /\ Outcome("list", ClearIf(~Hit(Identity.name, Listed)))
  /\ UNCHANGED <<declared, registry, customer, account, answer, link, appeared>>

ListUnavailable == Len(result) = 2 /\ Unavailable("list")

VerifyNext ==
  \/ BecomeCustomer \/ CheckNida \/ NidaUnavailable
  \/ AskByNida \/ AskByAccount \/ CheckCbs \/ CbsUnavailable
  \/ Screen \/ ListUnavailable

VerifySpec == VerifyInit /\ [][VerifyNext]_verifyVars

----------------------------------------------------------------------------
(* rateRisk and canAutoApprove, of somebody who declares nothing that      *)
(* raises the risk                                                         *)

CanAutoApprove == Len(result) = 3 /\ \A i \in DOMAIN result : result[i].outcome = "clear"

----------------------------------------------------------------------------
(* Properties                                                              *)

\* The listed name is the person's, word for word as the screening understands it.
IsListed(name) ==
  \E p \in [DOMAIN Listed -> DOMAIN name] :
    /\ \A i, j \in DOMAIN Listed : i # j => p[i] # p[j]
    /\ \A i \in DOMAIN Listed : TokensAgree(Listed[i], name[p[i]], 2)

\* A word of the list that could be two of the name: the first one taken may be wrong.
Ambiguous(name) ==
  \E i \in DOMAIN Listed, h, g \in DOMAIN name :
    h # g /\ TokensAgree(Listed[i], name[h], 2) /\ TokensAgree(Listed[i], name[g], 2)

\* Nobody is approved without a person looking whom the registry does not confirm, or
\* Core Banking contradicts, whose account is another's or of no use, who is a customer
\* already and passes for a new one, or whose name is on a list: except that somebody
\* who became a customer meanwhile passes for new, and that a listed name is missed
\* where a word of it, an initial mostly, agrees with two (names.ts:64, "find a distinct
\* partner" at 57).
AutoApprovedIsVerified ==
  CanAutoApprove =>
    /\ registry # NoRecord /\ registry.birth = declared.birth
    /\ registry.name # <<>> => SameWords(registry.name, declared.name)
    /\ declared.account => account = "own" /\ customer.funded
    /\ link = "existing" => /\ customer.birth = declared.birth
                            /\ SameWords(customer.name, declared.name)
    /\ link = "new" => customer = NoRecord \/ appeared
    /\ IsListed(declared.name) => Ambiguous(declared.name)

\* What was asked and found of the applicant, as far as the checks went.
VerifyTypeOK ==
  /\ declared \in [name : Names, birth : Births, account : BOOLEAN]
  /\ registry \in {NoRecord} \cup Registered
  /\ customer \in {NoRecord} \cup Customers
  /\ account \in {"nobody", "own", "another"} /\ (account = "own" => customer # NoRecord)
  /\ result \in Seq([source : {"nida", "cbs", "list"}, outcome : {"clear", "review", "unavailable"}])
  /\ Len(result) \in 0..3

\* Who was no customer when asked may be one since; a customer stays one.
AnswersStand ==
  /\ answer.byNida # <<>> => answer.byNida[1] = customer \/ (answer.byNida[1] = NoRecord /\ appeared)
  /\ answer.byAccount # <<>> /\ AccountGood => account = "own" /\ customer.funded
  /\ Len(result) < 2 => link = "none"

NidaConfirms ==
  registry # NoRecord /\ SameWords(declared.name, RegistryName) /\ declared.birth = registry.birth

CbsConfirms ==
  /\ declared.account => account = "own" /\ customer.funded
  /\ link = "existing" => /\ customer # NoRecord /\ Identity.birth = customer.birth
                          /\ SameWords(Identity.name, customer.name)
  /\ link = "new" => customer = NoRecord \/ appeared

VerifyInv ==
  /\ VerifyTypeOK /\ AnswersStand
  /\ Len(result) >= 1 /\ result[1].outcome = "clear" => NidaConfirms
  /\ Len(result) >= 2 /\ result[2].outcome = "clear" => CbsConfirms
  /\ Len(result) >= 3 /\ result[3].outcome = "clear" => ~Hit(Identity.name, Listed)
=============================================================================
