----------------------------- MODULE RatingBook -----------------------------
(***************************************************************************)
(* What the ratings promise, without transactions: a book in which a       *)
(* ranked match is entered once, moving both of its players at one moment  *)
(* from the ratings they have at that moment, and in which an              *)
(* administrator may correct a rating.  There is one exception: a          *)
(* completion that began when an account had no row moves that account     *)
(* from the starting aggregate, whatever was written since, because a row  *)
(* that is not there cannot be locked.  Ratings.tla implements it.         *)
(***************************************************************************)
EXTENDS Elo, FiniteSets

CONSTANTS
  Accounts,
  Ranked,        \* the ranked matches
  Seat(_, _),    \* Seat(match, side): the account in a seat
  Opening,       \* what an account's row says at the beginning, Unrated for no row
  Unrated,
  Corrections    \* the corrections an administrator may make: <<account, rating>>

VARIABLES
  book,      \* the aggregate of each account
  entered,   \* the matches in the book
  unseen     \* <<match, account>>: the match is being completed, and the account had no
             \* row when that began

vars == <<book, entered, unseen>>

Init ==
  /\ book = Opening
  /\ entered = {}
  /\ unseen = {}

Of(m) == {p \in unseen : p[1] = m}

Begin(m) ==
  /\ m \notin entered
  /\ unseen' = (unseen \ Of(m)) \cup
               {<<m, u>> : u \in {v \in {Seat(m, "light"), Seat(m, "dark")} : book[v] = Unrated}}
  /\ UNCHANGED <<book, entered>>

GiveUp(m) ==
  /\ unseen' = unseen \ Of(m)
  /\ UNCHANGED <<book, entered>>

\* What an account is moved from, if those in `missing` had no row.
Standing(u, missing) ==
  IF u \in missing \/ book[u] = Unrated THEN StartingAggregate ELSE book[u]

Moved(m, side, result, missing) ==
  LET mine == Standing(Seat(m, side), missing)
      hers == Standing(Seat(m, Other(side)), missing)
      outcome == OutcomeOf(result, side)
  IN  ApplyResult(mine, outcome, NextRating(mine.rating, hers.rating, outcome))

EnterFrom(m, result, missing) ==
  /\ m \notin entered
  /\ entered' = entered \cup {m}
  /\ book' = [u \in Accounts |-> CASE u = Seat(m, "light") -> Moved(m, "light", result, missing)
                                   [] u = Seat(m, "dark")  -> Moved(m, "dark", result, missing)
                                   [] OTHER -> book[u]]

Enter(m, result) ==
  /\ EnterFrom(m, result, {p[2] : p \in Of(m)})
  /\ unseen' = unseen \ Of(m)

Correct(u, rating) ==
  /\ book[u] # Unrated
  /\ book' = [book EXCEPT ![u].rating = rating]
  /\ UNCHANGED <<entered, unseen>>

Next ==
  \/ \E m \in Ranked : Begin(m) \/ GiveUp(m) \/ \E result \in Results : Enter(m, result)
  \/ \E c \in Corrections : Correct(c[1], c[2])

Spec == Init /\ [][Next]_vars
=============================================================================
