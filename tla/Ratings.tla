------------------------------ MODULE Ratings ------------------------------
(***************************************************************************)
(* What a finished match leaves behind: the transaction that completes a   *)
(* match writes its result, moves both ratings, appends the two audit rows *)
(* and awards achievements, beside administrators who correct ratings and  *)
(* switch achievements on and off.                                         *)
(*                                                                         *)
(* The transactions run at READ COMMITTED: a statement sees what has been  *)
(* committed and what its own transaction wrote; a row lock or an insert   *)
(* of a key waits for the transaction that holds it; a transaction in a    *)
(* cycle of waiting may be picked as the victim.  A row that does not      *)
(* exist cannot be locked.                                                 *)
(***************************************************************************)
EXTENDS Elo, FiniteSets

CONSTANTS
  Accounts, Opening, Unrated, Corrections,   \* as in RatingBook
  Matches,
  Card,          \* match -> [mode, light, dark, ends, lines, blocked]: who sits where, how it
                 \* may end, the line categories a win shows, who blocked a revealed line
  Categories,    \* the line categories of "four-ways"
  Milestone,     \* ten in the code: "contender" and "getting-started"
  Streak,        \* three in the code: "on-a-roll"
  Codes,         \* the achievements in the catalogue
  Switched,      \* those an administrator may switch on and off
  MaxFaults,     \* bound on transactions that fail
  MaxCorrections \* bound on corrections

VARIABLES
  rows,         \* match -> [status, result, reason]
  ratings,      \* account -> aggregate, the table `ratings`
  changes,      \* the table `rating_changes`
  counted,      \* history: the rows of it that the aggregates still count
  awards,       \* the table `user_achievements`
  enabled,      \* the achievements switched on
  tx,           \* match -> its completion transaction
  owner,        \* row or key -> the transaction holding it
  correction,   \* an administrator's correction between its read and its write
  adjustments,  \* the table `rating_adjustments`
  faults        \* transactions that failed so far

ledger == <<rows, ratings, changes, counted, awards>>
rvars == <<ledger, enabled, tx, owner, correction, adjustments, faults>>

Sides == {"light", "dark"}
Nobody == "nobody"
SeatOf(m, side) == Card[m][side]
IsAccount(m, side) == SeatOf(m, side) \in Accounts
RatedPair(m) == Card[m].mode = "ranked" /\ \A s \in Sides : IsAccount(m, s)
RatedMatches == {m \in Matches : RatedPair(m)}

Reasons == {"win", "timeout", "repetition"}
NoTransaction == [pc |-> "idle"]

RInit ==
  /\ rows = [m \in Matches |-> [status |-> "active", result |-> "none", reason |-> "none"]]
  /\ ratings = Opening
  /\ changes = {} /\ counted = {} /\ awards = {} /\ adjustments = {}
  /\ enabled = Codes
  /\ tx = [m \in Matches |-> NoTransaction]
  /\ owner = [k \in Accounts \X (Codes \cup {"rating"}) |-> Nobody]
  /\ correction = {}
  /\ faults = 0

\* Mutant: a lock is not waited for.
FreeAlways(key, m) == TRUE

Free(key, m) == owner[key] \in {Nobody, m}
RowOf(u) == <<u, "rating">>

-----------------------------------------------------------------------------
(* The completion of a match. *)

\* The rows that exist when the statement starts are locked one at a time, in their order;
\* an account that has none then is taken to stand at the start.
Pair(m) == {SeatOf(m, s) : s \in Sides}
RowsToLock(m) == {u \in Pair(m) : ratings[u] # Unrated}
First(users) == {u \in users : \A v \in users : u <= v}

\* The match row is locked and completed; a second completion finds it completed.
Begin(m, verdict, reason) ==
  /\ tx[m] = NoTransaction
  /\ rows[m].status = "active"
  /\ <<verdict, reason>> \in Card[m].ends
  /\ tx' = [tx EXCEPT ![m] =
       [pc |-> IF RatedPair(m) THEN "lock" ELSE "gather", side |-> "light",
        result |-> verdict, reason |-> reason,
        toLock |-> IF RatedPair(m) THEN RowsToLock(m) ELSE {},
        missing |-> IF RatedPair(m) THEN Pair(m) \ RowsToLock(m) ELSE {},
        read |-> [s \in Sides |-> StartingAggregate],
        wrote |-> {}, todo |-> {}, won |-> {}]]
  /\ UNCHANGED <<ledger, enabled, owner, correction, adjustments, faults>>

\* A granted lock reads the row as it now is.
LockRating(m) ==
  /\ tx[m].pc = "lock"
  /\ \E u \in First(tx[m].toLock) :
       /\ Free(RowOf(u), m)
       /\ owner' = [owner EXCEPT ![RowOf(u)] = m]
       /\ tx' = [tx EXCEPT ![m].toLock = @ \ {u},
                           ![m].read = [s \in Sides |-> IF SeatOf(m, s) = u THEN ratings[u] ELSE @[s]]]
  /\ UNCHANGED <<ledger, enabled, correction, adjustments, faults>>

\* An aggregate is written over whatever the row then says.
UpsertRating(m, side) ==
  LET u == SeatOf(m, side)
      outcome == OutcomeOf(tx[m].result, side)
      mine == tx[m].read[side]
      after == NextRating(mine.rating, tx[m].read[Other(side)].rating, outcome)
  IN  /\ IF side = "light" THEN tx[m].pc = "lock" /\ tx[m].toLock = {} ELSE tx[m].pc = "upsert"
      /\ Free(RowOf(u), m)
      /\ owner' = [owner EXCEPT ![RowOf(u)] = m]
      /\ tx' = [tx EXCEPT ![m].pc = IF side = "light" THEN "upsert" ELSE "gather",
                          ![m].wrote = @ \cup {<<u, ApplyResult(mine, outcome, after)>>}]
      /\ UNCHANGED <<ledger, enabled, correction, adjustments, faults>>

\* Mutant: the second audit row is written against the opponent's new rating.
ChangeAgainstNew(m, side) ==
  LET outcome == OutcomeOf(tx[m].result, side)
      before == tx[m].read[side].rating
      hers == tx[m].read[Other(side)].rating
      opponent == IF side = "light" THEN hers
                  ELSE NextRating(hers, before, OutcomeOf(tx[m].result, "light"))
  IN  [match |-> m, user |-> SeatOf(m, side), side |-> side, before |-> before,
       after |-> NextRating(before, opponent, outcome), opponentBefore |-> opponent,
       outcome |-> outcome, unseen |-> SeatOf(m, side) \in tx[m].missing]

\* The two audit rows are one insert, before the aggregates are written; `unseen` is history:
\* the account had no row when the transaction asked for it.
Change(m, side) ==
  LET outcome == OutcomeOf(tx[m].result, side)
      before == tx[m].read[side].rating
      opponent == tx[m].read[Other(side)].rating
  IN  [match |-> m, user |-> SeatOf(m, side), side |-> side, before |-> before,
       after |-> NextRating(before, opponent, outcome), opponentBefore |-> opponent,
       outcome |-> outcome, unseen |-> SeatOf(m, side) \in tx[m].missing]

\* The match rows the transaction sees: what is committed, and its own completion.
Seen(m) ==
  [rows EXCEPT ![m] = [status |-> "completed", result |-> tx[m].result, reason |-> tx[m].reason]]
Played(m, u) == {n \in Matches : Seen(m)[n].status = "completed"
                                 /\ \E s \in Sides : SeatOf(n, s) = u}
WonBy(m, u) == {n \in Played(m, u) : \E s \in Sides : SeatOf(n, s) = u /\ Seen(m)[n].result = s}
RatingSeen(m, u) ==
  IF \E w \in tx[m].wrote : w[1] = u THEN (CHOOSE w \in tx[m].wrote : w[1] = u)[2] ELSE ratings[u]

Earned(m, side) ==
  LET u == SeatOf(m, side)
      won == tx[m].result = side
      rating == IF RatingSeen(m, u) = Unrated THEN StartingAggregate ELSE RatingSeen(m, u)
      categories == IF won THEN UNION {Card[n].lines : n \in WonBy(m, u)} ELSE {}
      rule(code) ==
        CASE code = "first-victory"   -> WonBy(m, u) # {}
          [] code = "getting-started" -> Cardinality(Played(m, u)) >= Milestone
          [] code = "contender"       -> rating.wins >= Milestone
          [] code = "on-a-roll"       -> rating.streak >= Streak
          [] code = "time-keeper"     -> won /\ tx[m].reason = "timeout" /\ Card[m].mode = "ranked"
          [] code = "uncovered"       -> won /\ side \in Card[m].blocked
          [] code = "four-ways"       -> Categories \subseteq categories
  IN  {code \in Codes : rule(code)}

\* The facts of a seat are gathered, then one statement inserts what is enabled and new.
Awarding(side, todo) ==
  IF todo # {} THEN "award" ELSE IF side = "light" THEN "gather" ELSE "commit"
Seated(side, todo) == IF todo = {} THEN "dark" ELSE side

Gather(m, side) ==
  LET todo == IF IsAccount(m, side) THEN Earned(m, side) \cap enabled ELSE {} IN
  /\ tx[m].pc = "gather" /\ tx[m].side = side
  /\ tx' = [tx EXCEPT ![m].pc = Awarding(side, todo), ![m].side = Seated(side, todo), ![m].todo = todo]
  /\ UNCHANGED <<ledger, enabled, owner, correction, adjustments, faults>>

\* A key that is there is left alone, one that another transaction is inserting is waited for.
Held(u, code) == \E a \in awards : a.user = u /\ a.code = code

Award(m, side, code) ==
  LET key == <<SeatOf(m, side), code>>
      todo == tx[m].todo \ {code} IN
  /\ tx[m].pc = "award" /\ tx[m].side = side /\ code \in tx[m].todo
  /\ Free(key, m)
  /\ tx' = [tx EXCEPT ![m].pc = Awarding(side, todo), ![m].side = Seated(side, todo), ![m].todo = todo,
                      ![m].won = IF Held(key[1], code) THEN @ ELSE @ \cup {key}]
  /\ owner' = [owner EXCEPT ![key] = IF Held(key[1], code) THEN Nobody ELSE m]
  /\ UNCHANGED <<ledger, enabled, correction, adjustments, faults>>

Released(m) == [k \in DOMAIN owner |-> IF owner[k] = m THEN Nobody ELSE owner[k]]

Audit(m) == IF RatedPair(m) THEN {Change(m, s) : s \in Sides} ELSE {}

\* An aggregate that starts over counts nothing of what was there.
Commit(m) ==
  /\ tx[m].pc = "commit"
  /\ rows' = Seen(m)
  /\ ratings' = [u \in Accounts |-> RatingSeen(m, u)]
  /\ changes' = changes \cup Audit(m)
  /\ counted' = {c \in counted : c.user \notin tx[m].missing} \cup Audit(m)
  /\ awards' = awards \cup {[user |-> w[1], code |-> w[2], match |-> m] : w \in tx[m].won}
  /\ owner' = Released(m)
  /\ tx' = [tx EXCEPT ![m] = NoTransaction]
  /\ UNCHANGED <<enabled, correction, adjustments, faults>>

\* What a transaction is waiting for, and the circles of those who wait for each other.
Wants(m) ==
  CASE tx[m].pc = "lock" /\ tx[m].toLock # {} -> {RowOf(u) : u \in First(tx[m].toLock)}
    [] tx[m].pc = "lock" /\ tx[m].toLock = {} -> {RowOf(SeatOf(m, "light"))}
    [] tx[m].pc = "upsert"                    -> {RowOf(SeatOf(m, "dark"))}
    [] tx[m].pc = "award"                     -> {<<SeatOf(m, tx[m].side), c>> : c \in tx[m].todo}
    [] OTHER -> {}
BlockedBy(m) ==
  IF Wants(m) # {} /\ \A k \in Wants(m) : ~Free(k, m) THEN {owner[k] : k \in Wants(m)} ELSE {}
InACircle(m) ==
  \E n \in BlockedBy(m) : m \in BlockedBy(n) \/ \E o \in BlockedBy(n) : m \in BlockedBy(o)

\* A victim, or a transaction whose connection fails, leaves nothing behind.
Abort(m) ==
  /\ tx[m] # NoTransaction
  /\ IF InACircle(m) THEN faults' = faults
     ELSE faults < MaxFaults /\ faults' = faults + 1
  /\ tx' = [tx EXCEPT ![m] = NoTransaction]
  /\ owner' = Released(m)
  /\ UNCHANGED <<ledger, enabled, correction, adjustments>>

-----------------------------------------------------------------------------
(* Administration. *)

\* The rating that will be recorded as the one before is read outside the transaction.
ReadForCorrection(u, rating) ==
  /\ correction = {} /\ Cardinality(adjustments) < MaxCorrections
  /\ ratings[u] # Unrated
  /\ correction' = {[user |-> u, before |-> ratings[u].rating, after |-> rating]}
  /\ UNCHANGED <<ledger, enabled, tx, owner, adjustments, faults>>

WriteCorrection(c) ==
  /\ owner[RowOf(c.user)] = Nobody
  /\ ratings' = [ratings EXCEPT ![c.user].rating = c.after]
  /\ adjustments' = adjustments \cup {c}
  /\ correction' = {}
  /\ UNCHANGED <<rows, changes, counted, awards, enabled, tx, owner, faults>>

\* A disabled achievement is no longer awarded; those who hold it keep it.
SwitchAchievement(code) ==
  /\ enabled' = IF code \in enabled THEN enabled \ {code} ELSE enabled \cup {code}
  /\ UNCHANGED <<ledger, tx, owner, correction, adjustments, faults>>

Complete(m) ==
  \/ \E verdict \in Results, reason \in Reasons : Begin(m, verdict, reason)
  \/ LockRating(m)
  \/ \E s \in Sides : UpsertRating(m, s) \/ Gather(m, s) \/ \E code \in Codes : Award(m, s, code)
  \/ Commit(m)
  \/ Abort(m)

Administer ==
  \/ \E c \in Corrections : ReadForCorrection(c[1], c[2])
  \/ \E c \in correction : WriteCorrection(c)
  \/ \E code \in Switched : SwitchAchievement(code)

RNext == (\E m \in Matches : Complete(m)) \/ Administer

RSpec == RInit /\ [][RNext]_rvars

-----------------------------------------------------------------------------
(* Properties. *)

RatingRows == [rating : Nat, games : Nat, wins : Nat, losses : Nat, draws : Nat,
               streak : Int, best : Nat]
Aggregates == RatingRows \cup {Unrated}

\* What the proofs ask of the constants: an account starts with a row or without one, nobody
\* is seated opposite itself, a milestone is a number and its badge is in the catalogue.
RatingsConstants ==
  /\ Opening \in [Accounts -> Aggregates] /\ Unrated \notin RatingRows
  /\ Corrections \subseteq Accounts \X Nat
  /\ IsFiniteSet(Matches) /\ Nobody \notin Matches
  /\ \A m \in Matches : RatedPair(m) => SeatOf(m, "light") # SeatOf(m, "dark")
  /\ "rating" \notin Codes /\ "contender" \in Codes /\ Milestone \in Nat

\* The tables hold what their columns admit, and a lock belongs to a running transaction.
LedgerTypeOK ==
  /\ \A m \in Matches : rows[m].status \in {"active", "completed"}
                        /\ rows[m].result \in Results \cup {"none"}
  /\ \A u \in Accounts : ratings[u] \in Aggregates
  /\ \A k \in DOMAIN owner : owner[k] # Nobody => tx[owner[k]] # NoTransaction
  /\ \A c \in changes : c.before \in Nat /\ c.after \in Nat
  /\ \A a \in awards : a.user \in Accounts /\ a.code \in Codes /\ a.match \in Matches

\* Replaying the audit rows that count over the opening aggregates reproduces the counts of
\* every account: none is counted twice. A row stops counting only when two matches of its
\* account were each completed by a transaction that had found no row of the account, so that
\* neither waited for the other; an account that has had a row loses no match.
\* (applyRatingsForCompletion, and "a replay of the ledger reproduces every aggregate").
CountOf(u, outcomes) == Cardinality({c \in counted : c.user = u /\ c.outcome \in outcomes})
OpeningOf(u) == IF Opening[u] = Unrated THEN StartingAggregate ELSE Opening[u]
ReplayReproduces ==
  /\ \A u \in Accounts :
       LET now == IF ratings[u] = Unrated THEN StartingAggregate ELSE ratings[u]
       IN  /\ now.games  = OpeningOf(u).games  + CountOf(u, Outcomes)
           /\ now.wins   = OpeningOf(u).wins   + CountOf(u, {"win"})
           /\ now.losses = OpeningOf(u).losses + CountOf(u, {"loss"})
           /\ now.draws  = OpeningOf(u).draws  + CountOf(u, {"draw"})
  /\ \A c \in changes \ counted :
       \E d, e \in changes :
         d.match # e.match /\ d.user = c.user /\ e.user = c.user /\ d.unseen /\ e.unseen

\* A result and the ratings it produced are never apart: a ranked match of two accounts is
\* completed exactly when both of its audit rows are there, each written against the other's
\* rating; nothing else moves a rating. (applyRatingsForCompletion, ratedPair)
ResultsCarryRatings ==
  \A m \in Matches :
    LET of(side) == {c \in changes : c.match = m /\ c.side = side}
    IN  IF rows[m].status = "completed" /\ RatedPair(m)
        THEN \E l \in of("light"), d \in of("dark") :
               /\ of("light") = {l} /\ of("dark") = {d}
               /\ l.opponentBefore = d.before /\ d.opponentBefore = l.before
               /\ l.outcome = OutcomeOf(rows[m].result, "light")
               /\ d.outcome = OutcomeOf(rows[m].result, "dark")
        ELSE of("light") \cup of("dark") = {}

\* A badge belongs to an account, was earned by a match that is completed and in which it
\* sat, is held once, and what it says of the account is true of the committed matches.
\* (awardAchievementsForCompletion, awardAchievements)
Wins(u) == {m \in Matches : rows[m].status = "completed" /\ rows[m].result \in Sides
                            /\ SeatOf(m, rows[m].result) = u}
AwardsAreDeserved ==
  \A a \in awards :
    /\ rows[a.match].status = "completed"
    /\ \E s \in Sides : SeatOf(a.match, s) = a.user
    /\ \A b \in awards : b.user = a.user /\ b.code = a.code => b = a
    /\ a.code = "first-victory" => Wins(a.user) # {}
    /\ a.code = "getting-started" =>
         Cardinality({m \in Matches : rows[m].status = "completed"
                                      /\ \E s \in Sides : SeatOf(m, s) = a.user}) >= Milestone
    /\ a.code = "time-keeper" => a.match \in Wins(a.user) /\ rows[a.match].reason = "timeout"
    /\ a.code = "four-ways" => Categories \subseteq UNION {Card[m].lines : m \in Wins(a.user)}

\* An account whose ranked wins reach the milestone holds the badge for it, however its
\* matches finished around each other: a match is counted by its own completion or by the
\* one that waited for the rating row. (lockRatingsForUpdate before gatherFacts)
MilestonesArePaid ==
  "contender" \notin Switched =>
    \A u \in Accounts :
      ratings[u] # Unrated /\ ratings[u].wins >= Milestone /\ CountOf(u, {"win"}) > 0
        => Held(u, "contender")

\* The ratings are the book: a transaction that commits enters one match from the ratings of
\* that moment, or from the start for an account that had no row when it began; a correction
\* is a correction, and everything else leaves the book alone.
Book == INSTANCE RatingBook WITH
  Ranked  <- RatedMatches,
  Seat    <- SeatOf,
  book    <- ratings,
  entered <- {m \in RatedMatches : rows[m].status = "completed"},
  unseen  <- UNION {{m} \X tx[m].missing : m \in {n \in RatedMatches : tx[n] # NoTransaction}}
ImplementsBook == Book!Spec

\* A completion leaves all it has to leave or nothing: its result with both audit rows, the
\* aggregates that replaying the audit gives, and the badges its facts deserve, however the
\* transactions wait for each other, fail or are chosen as victims
\* (applyRatingsForCompletion, awardAchievementsForCompletion).
CompletionsAreWhole ==
  LedgerTypeOK /\ ReplayReproduces /\ ResultsCarryRatings /\ AwardsAreDeserved /\ MilestonesArePaid
=============================================================================
