--------------------------------- MODULE Table --------------------------------
(***************************************************************************)
(* A table of the back office: DataTable offers the pages of the last      *)
(* answer and a search, useTable asks the server for what is chosen        *)
(* whenever it changes, and drops the answers that come after a newer      *)
(* question.  The server reads the rows and their number by two queries    *)
(* (registers.service.ts:50), between which the list may change, as it may *)
(* while an answer is on its way.  useLocalTable cuts a queue the store    *)
(* holds into the same pages itself.                                       *)
(***************************************************************************)
EXTENDS Naturals

CONSTANTS
  Searches,   \* what may be typed; each has a list of its own
  PageSize, MaxRows,
  MaxAsked    \* bound: questions asked

ASSUME TableAssumption ==
  PageSize \in Nat \ {0} /\ MaxRows \in Nat /\ MaxAsked \in Nat \ {0}

VARIABLES
  list,      \* the server's lists: how many rows each has
  page, q,   \* what is on the screen
  typed,     \* what is typed to search for, sent after a pause
  shown,     \* the rows on the screen: the question they answer, how many, the total
  latest,    \* the latest question
  asked,     \* the questions, and what became of each
  error,
  local      \* a table of a queue: how many rows each search finds, the page, the search

tableVars == <<list, page, q, typed, shown, latest, asked, error, local>>
fetchedVars == <<list, page, q, typed, shown, latest, asked, error>>

Pages == 1 .. MaxRows \* or fewer

Least(m, n) == IF m < n THEN m ELSE n

\* How many rows of n there are on page p: tableWindow's skip and take.
RowsOn(p, n) == IF n <= (p - 1) * PageSize THEN 0 ELSE Least(PageSize, n - (p - 1) * PageSize)

LastPage(n) == (n + PageSize - 1) \div PageSize

Question(p, s) == [page |-> p, q |-> s, read |-> {}, rows |-> 0, total |-> 0]

NoQuestion == [read |-> {"closed"}]

TableInit ==
  /\ list \in [Searches -> 0..MaxRows]
  /\ page = 1 /\ q \in Searches /\ typed = q /\ error = FALSE
  /\ shown = [page |-> 0, q |-> q, rows |-> 0, total |-> 0]
  /\ latest = 1 /\ asked = [i \in 1..MaxAsked |-> IF i = 1 THEN Question(1, q) ELSE NoQuestion]
  /\ local = [found |-> [sq \in Searches |-> 0], page |-> 1, q |-> q]

\* load: the watchers call it once, with what is then on the screen.
Load(p, s) ==
  /\ latest < MaxAsked /\ latest' = latest + 1
  /\ asked' = [asked EXCEPT ![latest + 1] = Question(p, s)]
  /\ page' = p /\ q' = s /\ error' = FALSE

\* onSearch: every key starts the pause anew.
TypeSearch(s) == s # typed /\ typed' = s /\ UNCHANGED <<list, page, q, shown, latest, asked, error>>

\* A new search goes back to the first page.
Search == typed # q /\ Load(1, typed) /\ UNCHANGED <<list, typed, shown>>

\* The footer, if there is anything to show: the pages of the last answer, from eight of
\* them on only the ends and those beside the one shown; and Prev and Next.
PagesOffered ==
  LET n == LastPage(shown.total) IN
  IF n = 0 THEN {}
  ELSE {p \in 1..n : n <= 7 \/ p \in {1, page - 1, page, page + 1, n}}
         \cup {p \in {page - 1} : page > 1} \cup {p \in {page + 1} : page < n}

Turn(p) == p \in PagesOffered \ {page} /\ Load(p, q) /\ UNCHANGED <<list, typed, shown>>

Refetch == Load(page, q) /\ UNCHANGED <<list, typed, shown>>

\* The server's list grows or shrinks.
Change(s, n) == n # list[s] /\ list' = [list EXCEPT ![s] = n] /\ UNCHANGED <<page, q, typed, shown, latest, asked, error>>

\* The two queries of a question that waits for its answer, in either order.
Unread(i, query) == asked[i] # NoQuestion /\ query \notin asked[i].read

ReadRows(i) ==
  /\ Unread(i, "rows")
  /\ asked' = [asked EXCEPT ![i].read = @ \cup {"rows"}, ![i].rows = RowsOn(asked[i].page, list[asked[i].q])]
  /\ UNCHANGED <<list, page, q, typed, shown, latest, error>>

Count(i) ==
  /\ Unread(i, "total")
  /\ asked' = [asked EXCEPT ![i].read = @ \cup {"total"}, ![i].total = list[asked[i].q]]
  /\ UNCHANGED <<list, page, q, typed, shown, latest, error>>

AnswerReady(i) == asked[i] # NoQuestion /\ asked[i].read = {"rows", "total"}

Finished(i) == [asked EXCEPT ![i] = NoQuestion]

\* Past the end of a list that has rows, the table turns to the last page it has.
Correction(a) == IF a.rows = 0 /\ page > 1 /\ a.total > 0 THEN LastPage(a.total) ELSE page

Show(i) ==
  LET a == asked[i] IN
  /\ AnswerReady(i)
  /\ shown' = [page |-> a.page, q |-> a.q, rows |-> a.rows, total |-> a.total]
  /\ IF Correction(a) = page
       THEN asked' = Finished(i) /\ UNCHANGED <<page, q, latest, error>>
       ELSE /\ latest < MaxAsked /\ latest' = latest + 1
            /\ page' = Correction(a) /\ error' = FALSE
            /\ asked' = [Finished(i) EXCEPT ![latest + 1] = Question(Correction(a), q)]
            /\ UNCHANGED q
  /\ UNCHANGED <<list, typed>>

\* The answer to anything but the latest question is dropped.
ShowAnswer(i) == i = latest /\ Show(i)

Drop(i) == i # latest /\ AnswerReady(i) /\ asked' = Finished(i) /\ UNCHANGED <<list, page, q, typed, shown, latest, error>>

QuestionFails(i) ==
  /\ asked[i] # NoQuestion
  /\ asked' = Finished(i)
  /\ error' = (error \/ i = latest)
  /\ UNCHANGED <<list, page, q, typed, shown, latest>>

FetchedNext ==
  \/ Search \/ \E s \in Searches : TypeSearch(s) \/ (\E n \in 0..MaxRows : Change(s, n))
  \/ \E p \in Pages : Turn(p)
  \/ Refetch
  \/ \E i \in 1..MaxAsked : ReadRows(i) \/ Count(i) \/ ShowAnswer(i) \/ Drop(i) \/ QuestionFails(i)

\* The watcher of the number of rows turns back when the page is no more.
Clamped(p, n) == IF LastPage(n) = 0 THEN 1 ELSE Least(p, LastPage(n))

\* A load or a refresh of the store replaces the queue ...
QueueChanges(found) ==
  /\ found # local.found
  /\ local' = [local EXCEPT !.found = found, !.page = Clamped(local.page, found[local.q])]

\* ... another search starts at the first page, as another order or size does ...
LocalSearch(sq) == sq # local.q /\ local' = [local EXCEPT !.q = sq, !.page = 1]

\* ... and the footer turns the pages.
LocalTurn(p) ==
  p # local.page /\ p <= LastPage(local.found[local.q]) /\ local' = [local EXCEPT !.page = p]

LocalNext ==
  \/ \E found \in [Searches -> 0..MaxRows] : QueueChanges(found)
  \/ \E sq \in Searches : LocalSearch(sq)
  \/ \E p \in Pages : LocalTurn(p)

TableNext ==
  \/ FetchedNext /\ UNCHANGED local
  \/ LocalNext /\ UNCHANGED fetchedVars

TableSpec == TableInit /\ [][TableNext]_tableVars

Waiting == asked[latest] # NoQuestion \/ typed # q

\* Once the table waits for nothing and shows no error, its rows are those of the page
\* and the search on the screen, however the answers came in; and it stands on no empty
\* page, unless the list grew between the two queries.
RowsAreOfPage ==
  ~Waiting /\ ~error =>
    /\ shown.page = page /\ shown.q = q
    /\ (shown.rows = 0 /\ page > 1) => (shown.total = 0 \/ shown.total > (page - 1) * PageSize)

\* A queue that has rows shows some, whatever the store or the search did to it.
QueueShowsRows == local.found[local.q] > 0 => RowsOn(local.page, local.found[local.q]) > 0

\* Neither kind of table shows what was not asked for, or nothing where there is something.
TablesAreTrue == RowsAreOfPage /\ QueueShowsRows

----------------------------------------------------------------------------
(* The inductive invariant                                                 *)

Questions == [page : Nat \ {0}, q : Searches, read : SUBSET {"rows", "total"}, rows : Nat, total : Nat]

TableTypeOK ==
  /\ list \in [Searches -> Nat] /\ page \in Nat \ {0} /\ q \in Searches /\ typed \in Searches
  /\ shown \in [page : Nat, q : Searches, rows : Nat, total : Nat]
  /\ latest \in 1..MaxAsked /\ asked \in [1..MaxAsked -> {NoQuestion} \cup Questions]
  /\ error \in BOOLEAN
  /\ local \in [found : [Searches -> Nat], page : Nat \ {0}, q : Searches]

\* The latest question is about what is on the screen; answered, the screen shows its answer.
LatestIsOfPage ==
  IF asked[latest] # NoQuestion THEN asked[latest].page = page /\ asked[latest].q = q
  ELSE error \/ /\ shown.page = page /\ shown.q = q
                /\ (shown.rows = 0 /\ page > 1) => (shown.total = 0 \/ shown.total > (page - 1) * PageSize)

QueueOnPage == local.page = 1 \/ local.page <= LastPage(local.found[local.q])

TableInv == TableTypeOK /\ LatestIsOfPage /\ QueueOnPage
=============================================================================
