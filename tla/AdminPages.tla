----------------------------- MODULE AdminPages -----------------------------
(***************************************************************************)
(* The two administrative listings, newest first: the audit log and the    *)
(* accounts by the moment they were last seen.  Both are read a page at a  *)
(* time by the moment and the id of the last row shown, while records are  *)
(* written and accounts sign in, and the screen keeps its pages in one     *)
(* infinite query that reads further, or reads all of them again.          *)
(* A filter only makes the table smaller and is left out.                  *)
(***************************************************************************)
EXTENDS Naturals, Sequences, FiniteSets

CONSTANTS
    Ids,            \* row ids, finitely many, ordered as the uuids are
    MaxMoment,      \* bound: milliseconds of the clock
    PageSize        \* ADMIN_PAGE_SIZE

ASSUME PagesAssumption ==
    /\ Ids \subseteq Nat /\ IsFiniteSet(Ids) /\ MaxMoment \in Nat \ {0} /\ PageSize \in Nat \ {0}

VARIABLES
    table,      \* which listing it is
    rowsAt,     \* [Ids -> the moment its row carries, 0: no row]
    writing,    \* [Ids -> the moment a transaction under way writes, 0: none]
    moment,     \* the service's clock
    shown,      \* the reading on the screen
    fetch       \* the fetch under way: the pages it wants and the reading it makes

pagesVars == <<table, rowsAt, writing, moment, shown, fetch>>

Moments == 1..MaxMoment
Key == [at : Moments, id : Ids]
KeyOf(i) == [at |-> rowsAt[i], id |-> i]

\* Both orders are descending, by the moment and then by the id.
Below(j, k) == j.at < k.at \/ (j.at = k.at /\ j.id < k.id)

\* A cursor that is absent or unreadable is the first page's.
NoCursor == [at |-> 0, id |-> 0]
Behind(k, cursor) == cursor = NoCursor \/ Below(k, cursor)

\* A reading: its pages, the cursor of the next one if there is one, and (history) the
\* rows there since its first page was read and not rewritten since.
NoReading == [pages |-> <<>>, cursor |-> NoCursor, more |-> TRUE, settled |-> {}]
NoFetch == [on |-> FALSE, wanted |-> 0, reading |-> NoReading]

PagesInit ==
    /\ table \in {"audit", "accounts"}
    /\ rowsAt \in [Ids -> {0, 1}] /\ moment = 1
    /\ writing = [i \in Ids |-> 0]
    /\ shown = NoReading /\ fetch = NoFetch

-----------------------------------------------------------------------------
(* What is written meanwhile: an audit record once, an account's row at every sign-in. *)

BeginWrite(i) ==
    /\ writing[i] = 0 /\ (table = "audit" => rowsAt[i] = 0)
    /\ writing' = [writing EXCEPT ![i] = moment]
    /\ UNCHANGED <<table, rowsAt, moment, shown, fetch>>

Without(reading, i) == [reading EXCEPT !.settled = @ \ {i}]

\* The moment was read before the transaction, which may commit after later ones.
CommitWrite(i) ==
    /\ writing[i] # 0
    /\ rowsAt' = [rowsAt EXCEPT ![i] = writing[i]] /\ writing' = [writing EXCEPT ![i] = 0]
    /\ shown' = Without(shown, i)
    /\ fetch' = [fetch EXCEPT !.reading = Without(fetch.reading, i)]
    /\ UNCHANGED <<table, moment>>

AbortWrite(i) ==
    /\ writing[i] # 0 /\ writing' = [writing EXCEPT ![i] = 0]
    /\ UNCHANGED <<table, rowsAt, moment, shown, fetch>>

PassMoment ==
    /\ moment < MaxMoment /\ moment' = moment + 1
    /\ UNCHANGED <<table, rowsAt, writing, shown, fetch>>

-----------------------------------------------------------------------------
(* The infinite query. *)

Fetching(wanted, reading) ==
    /\ fetch' = [on |-> TRUE, wanted |-> wanted, reading |-> reading]
    /\ UNCHANGED <<table, rowsAt, writing, moment, shown>>

\* The first load, a focused window or an invalidation: as many pages as are shown, each
\* from the cursor the one before it answers.
Reload == Fetching(IF shown.pages = <<>> THEN 1 ELSE Len(shown.pages), NoReading)

\* Show more, which takes over from a fetch under way; it is busy while it reads.
ShowMore ==
    /\ shown.pages # <<>> /\ shown.more /\ ~(fetch.on /\ fetch.reading.pages = shown.pages)
    /\ Fetching(Len(shown.pages) + 1, shown)

Rest(cursor) == {k \in {KeyOf(i) : i \in {j \in Ids : rowsAt[j] # 0}} : Behind(k, cursor)}

\* The first rows of the listing behind the cursor.
IsPage(page, rest) ==
    /\ \A k \in page, j \in rest \ page : Below(j, k)
    /\ IF Cardinality(rest) <= PageSize THEN page = rest ELSE Cardinality(page) = PageSize

\* One row more than a page is asked for: whether it came says whether there is a next page,
\* whose cursor is the page's last row.
Extended(reading, page, rest, last) ==
    [pages |-> Append(reading.pages, page),
     cursor |-> IF Cardinality(rest) > PageSize THEN last ELSE NoCursor,
     more |-> Cardinality(rest) > PageSize,
     settled |-> IF reading.pages = <<>> THEN {i \in Ids : rowsAt[i] # 0} ELSE reading.settled]

\* The reading takes the place of the one shown when its last page has arrived.
ReadPage ==
    /\ fetch.on
    /\ \E rest \in {Rest(fetch.reading.cursor)} : \E page \in SUBSET rest : \E last \in page \cup {NoCursor} :
        /\ IsPage(page, rest)
        /\ page # {} => last \in page /\ \A k \in page : k = last \/ Below(last, k)
        /\ LET reading == Extended(fetch.reading, page, rest, last) IN
             IF reading.more /\ Len(reading.pages) < fetch.wanted
             THEN fetch' = [fetch EXCEPT !.reading = reading] /\ UNCHANGED shown
             ELSE shown' = reading /\ fetch' = NoFetch
    /\ UNCHANGED <<table, rowsAt, writing, moment>>

\* An error keeps what is shown.
FetchFails ==
    /\ fetch.on /\ fetch' = NoFetch
    /\ UNCHANGED <<table, rowsAt, writing, moment, shown>>

PagesNext ==
    \/ \E i \in Ids : BeginWrite(i) \/ CommitWrite(i) \/ AbortWrite(i)
    \/ PassMoment \/ Reload \/ ShowMore \/ ReadPage \/ FetchFails

PagesSpec == PagesInit /\ [][PagesNext]_pagesVars

-----------------------------------------------------------------------------
(* Properties *)

\* The pages descend: no row of a page stands above one of an earlier page, and no row is
\* repeated (the cursors of admin/cursor.ts).
PagesDescend ==
    \A i, j \in DOMAIN shown.pages : i < j =>
        \A k \in shown.pages[i], l \in shown.pages[j] : Below(l, k)

\* A row that was there when the first page was read and is what it was is on exactly one
\* page, or on those still to come (a record is never lost to one that arrives meanwhile).
SettledAreShownOnce ==
    \A i \in shown.settled :
        LET on == {p \in DOMAIN shown.pages : \E k \in shown.pages[p] : k.id = i} IN
        IF shown.more /\ Behind(KeyOf(i), shown.cursor) THEN on = {}
        ELSE \E p \in on : on = {p} /\ KeyOf(i) \in shown.pages[p]

ListingsAreWhole == PagesDescend /\ SettledAreShownOnce
=============================================================================
