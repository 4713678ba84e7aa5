----------------------------- MODULE Leaderboard -----------------------------
(***************************************************************************)
(* A reader pages through a leaderboard with a cursor while ranked matches *)
(* finish, ratings are corrected, accounts are suspended and the day ends. *)
(* A page is one statement, so it sees the ratings at one moment, and what *)
(* a completion writes appears at once: the ratings move as in RatingBook, *)
(* which Ratings shows the transactions to implement.                      *)
(***************************************************************************)
EXTENDS Elo, FiniteSets, Sequences

CONSTANTS
  Players, Ranked, Seat(_, _), Unlisted,  \* Accounts, Ranked, Seat and Unrated of RatingBook
  OpeningBook, BookCorrections,           \* and its Opening and Corrections
  Suspects,      \* the accounts an administrator suspends and reinstates
  Periods,       \* which boards are read: "all-time", "daily"
  PageSize,
  LastMoment,    \* ratings are dated 0..LastMoment, to the millisecond a cursor carries
  LastDay        \* bound on the days that begin

Figures == [rating : Nat, games : Nat, wins : Nat, losses : Nat, draws : Nat, streak : Int, best : Nat]

ASSUME BoardAssumption ==
  /\ Players \subseteq Nat /\ IsFiniteSet(Players)   \* accounts, ordered as the uuids are
  /\ Unlisted \notin Figures /\ OpeningBook \in [Players -> Figures \cup {Unlisted}]
  /\ \A m \in Ranked : Seat(m, "light") \in Players /\ Seat(m, "dark") \in Players
  /\ BookCorrections \subseteq Players \X Nat
  /\ PageSize \in Nat \ {0} /\ LastMoment \in Nat /\ LastDay \in Nat

VARIABLES
  book, entered, \* as in RatingBook
  rated,         \* the moment an account's rating last moved, `updated_at`
  dated,         \* the audit rows a period counts: [match, user, outcome, day]
  suspended,
  day,           \* the calendar day, in UTC
  reader         \* [open, period, cursor, pages, moved]: a page is the set of its keys

lvars == <<book, entered, rated, dated, suspended, day, reader>>

\* Which accounts a completion found without a row is left open, so the book's record of that
\* is not kept here.
Record == INSTANCE RatingBook WITH
  Accounts <- Players, Unrated <- Unlisted, Opening <- OpeningBook, Corrections <- BookCorrections,
  unseen <- {}

Nowhere == <<>>
NoReader ==
  [open |-> FALSE, period |-> "all-time", cursor |-> Nowhere, pages |-> <<>>, moved |-> {}]

LInit ==
  /\ Record!Init
  /\ rated = [u \in Players |-> 0]
  /\ dated = {} /\ suspended = {} /\ day = 0
  /\ reader = NoReader

-----------------------------------------------------------------------------
(* The board: ranked when it is read. *)

\* A period counts what the audit recorded inside it, the all-time board the aggregate.
Recorded(u) == {c \in dated : c.user = u /\ c.day = day}
GamesIn(period, u) ==
  IF period = "all-time" THEN book[u].games ELSE Cardinality(Recorded(u))
WinsIn(period, u) ==
  IF period = "all-time" THEN book[u].wins
  ELSE Cardinality({c \in Recorded(u) : c.outcome = "win"})

OnBoard(period, u) ==
  /\ book[u] # Unlisted /\ u \notin suspended
  /\ period = "all-time" \/ Recorded(u) # {}

\* Every component ascends: rating and wins are negated, the moment decides before the account.
SortKey(period, u) ==
  <<-book[u].rating, -WinsIn(period, u), GamesIn(period, u), rated[u], u>>
AccountOf(key) == key[5]
Past(key, cursor) ==
  \E i \in DOMAIN key : key[i] > cursor[i] /\ \A j \in 1..(i - 1) : key[j] = cursor[j]

Board(period) == {SortKey(period, u) : u \in {v \in Players : OnBoard(period, v)}}

\* The account left out of the key's comparison, and with it (a mutant) a rank that
\* accounts of equal figures share.
PastWithoutAccount(key, cursor) ==
  \E i \in 1..4 : key[i] > cursor[i] /\ \A j \in 1..(i - 1) : key[j] = cursor[j]
SharedRank(period, u) ==
  1 + Cardinality({v \in Players : OnBoard(period, v)
        /\ PastWithoutAccount(SortKey(period, u), SortKey(period, v))})

Rank(period, u) == 1 + Cardinality({k \in Board(period) : Past(SortKey(period, u), k)})

\* order by rank, limit PageSize: those few of the rows behind the cursor have ahead of them.
Behind(period, cursor) == {k \in Board(period) : cursor = Nowhere \/ Past(k, cursor)}
Ahead(k, keys) == {j \in keys : Past(k, j)}
Page(period, cursor) ==
  LET rest == Behind(period, cursor) IN {k \in rest : Cardinality(Ahead(k, rest)) < PageSize}

\* The reader, and the history of whose place changed since it opened the board.
PlaceOn(period, u) == IF OnBoard(period, u) THEN SortKey(period, u) ELSE Nowhere
Watched ==
  \E period \in {reader.period} :
    reader' = IF reader.open
              THEN [reader EXCEPT !.moved =
                      @ \cup {u \in Players : PlaceOn(period, u) # PlaceOn(period, u)'}]
              ELSE reader

OpenBoard(period) ==
  /\ ~reader.open
  /\ reader' = [NoReader EXCEPT !.open = TRUE, !.period = period]
  /\ UNCHANGED <<book, entered, rated, dated, suspended, day>>

\* A full page may have more behind it; a short one is the end of the board.
ReadPage ==
  /\ reader.open
  /\ \E page \in {Page(reader.period, reader.cursor)} :
       IF Cardinality(page) < PageSize THEN reader' = NoReader
       ELSE \E last \in page :
              /\ \A k \in page \ {last} : Past(last, k)
              /\ reader' = [reader EXCEPT !.pages = Append(@, page), !.cursor = last]
  /\ UNCHANGED <<book, entered, rated, dated, suspended, day>>

-----------------------------------------------------------------------------
(* What happens meanwhile. *)

\* A row is dated when its transaction began, so what commits later may be dated earlier.
Dates(users) ==
  \E moment \in 0..LastMoment :
    rated' = [u \in Players |-> IF u \in users THEN moment ELSE rated[u]]

\* Only an account that began without a row can have been found without one.
Finish(m, verdict) ==
  /\ \E missing \in SUBSET {u \in Players : OpeningBook[u] = Unlisted} :
       Record!EnterFrom(m, verdict, missing)
  /\ Dates({Seat(m, "light"), Seat(m, "dark")})
  /\ dated' = dated \cup {[match |-> m, user |-> Seat(m, s), day |-> day,
                               outcome |-> OutcomeOf(verdict, s)] : s \in {"light", "dark"}}
  /\ UNCHANGED <<suspended, day>>

Correct(u, rating) ==
  /\ Record!Correct(u, rating)
  /\ Dates({u})
  /\ UNCHANGED <<dated, suspended, day>>

Moderate(u) ==
  /\ suspended' = IF u \in suspended THEN suspended \ {u} ELSE suspended \cup {u}
  /\ UNCHANGED <<book, entered, rated, dated, day>>

Midnight ==
  /\ day < LastDay /\ day' = day + 1
  /\ UNCHANGED <<book, entered, rated, dated, suspended>>

LNext ==
  \/ (\E m \in Ranked, verdict \in Results : Finish(m, verdict)) /\ Watched
  \/ (\E c \in BookCorrections : Correct(c[1], c[2])) /\ Watched
  \/ (\E u \in Suspects : Moderate(u)) /\ Watched
  \/ Midnight /\ Watched
  \/ \E period \in Periods : OpenBoard(period)
  \/ ReadPage

LSpec == LInit /\ [][LNext]_lvars

-----------------------------------------------------------------------------
(* Properties. *)

\* What a reader would have seen after its next page, and on which pages it met an account.
SeenPages == Append(reader.pages, Page(reader.period, reader.cursor))
Meetings(pages, u) == {p \in DOMAIN pages : \E k \in pages[p] : AccountOf(k) = u}
AtTheEnd == reader.open /\ Cardinality(Page(reader.period, reader.cursor)) < PageSize

\* The reader's page is where the cursor says, and its history is of this visit.
BoardTypeOK ==
  /\ reader.pages = <<>> <=> reader.cursor = Nowhere
  /\ reader.moved \subseteq Players
  /\ \A c \in dated : c.match \in entered /\ c.day \in 0..day
  /\ suspended \subseteq Suspects

\* A reader who reaches the end of a board met every account that kept its place exactly
\* once, whatever moved past it on the way. (readLeaderboardPage, LeaderboardService.read)
UnmovedAreShownOnce ==
  AtTheEnd =>
    LET seen == SeenPages IN
      \A u \in Players \ reader.moved :
        OnBoard(reader.period, u) => \E p \in DOMAIN seen : Meetings(seen, u) = {p}

\* Across its pages a reader sees the board in its order, and an account is met twice only
\* when it fell behind the cursor in between. (readLeaderboardPage)
PagesAscend ==
  reader.open =>
    LET seen == SeenPages IN
      /\ \A p, q \in DOMAIN seen : p < q => \A k \in seen[p], l \in seen[q] : Past(l, k)
      /\ \A u \in Players : \A p, q \in Meetings(seen, u) : p # q => u \in reader.moved

\* While nothing moved, the rank a profile shows is the position its reader counts to: the
\* pages before were full. (readAllTimeRank, the viewer's row of readLeaderboardPage)
RankIsPosition ==
  reader.open /\ reader.moved = {} =>
    LET seen == SeenPages IN
      \A p \in DOMAIN seen : \A k \in seen[p] :
        Rank(reader.period, AccountOf(k)) = (p - 1) * PageSize + 1 + Cardinality(Ahead(k, seen[p]))

\* The pages of a board, read one at a time while it moves, tell what the board told: each
\* account that kept its place once, in order, at the rank its profile shows
\* (readLeaderboardPage, readAllTimeRank).
PagesTellTheBoard == BoardTypeOK /\ UnmovedAreShownOnce /\ PagesAscend /\ RankIsPosition
=============================================================================
