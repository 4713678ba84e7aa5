---------------------------- MODULE MC_Accounts ----------------------------
(***************************************************************************)
(* What an account has played for and what is shown of it: the             *)
(* transactions that write its ratings, who is paired by them in a queue,  *)
(* what a leaderboard shows of them page by page, and what the web client  *)
(* caches and edits of the account.  A history is one of these four, which *)
(* share no state.                                                         *)
(***************************************************************************)
EXTENDS Ratings, AccountPages, Leaderboard

VARIABLES
  part,
  entries, mode, now    \* the queue

\* Four points are at stake; a stronger player is expected to take three of them.
MCExpected(a, b) == IF a > b THEN 3 ELSE IF a = b THEN 2 ELSE 1

Rated(r, w) == [rating |-> r, games |-> w, wins |-> w, losses |-> 0, draws |-> 0,
                streak |-> 0, best |-> 0]
RatedOpening == <<Rated(1, 1), Rated(4, 1), Unrated>>

OneCorrection == {<<1, 2>>}

\* Two ranked matches of one rated account, both against one that has no row yet, finish around
\* each other and around a casual match.
TwoFirstMatches ==
  [m1 |-> [mode |-> "ranked", light |-> 1, dark |-> 3, ends |-> {<<"light", "win">>, <<"draw", "repetition">>},
          lines |-> {"row"}, blocked |-> {}],
   m2 |-> [mode |-> "ranked", light |-> 3, dark |-> 1, ends |-> {<<"dark", "timeout">>, <<"light", "win">>},
          lines |-> {"column"}, blocked |-> {"dark"}],
   m3 |-> [mode |-> "casual", light |-> 2, dark |-> 1, ends |-> {<<"dark", "win">>},
          lines |-> {"column"}, blocked |-> {}]]

\* Every queue of up to three entries, from far below to far above the starting rating.
Queue == INSTANCE PairingScan WITH
  InitialWindow <- 2, WindowStep <- 1, StepInterval <- 1, MaximumWindow <- 8,
  UnboundedAfter <- 6, StartingRating <- 24, Ratings <- {18, 22, 29, 40},
  MaxEntries <- 3, MaxTime <- 8

\* Accounts 1 and 2 differ in nothing but their names; 4 has not been rated yet.
FirstBook == <<Rated(4, 1), Rated(4, 1), Rated(1, 0), Unlisted>>
BoardSeat(m, side) ==
  LET both == [m1 |-> <<1, 3>>, m2 |-> <<4, 2>>]
  IN  both[m][IF side = "light" THEN 1 ELSE 2]
Promotion == {<<3, 4>>}

\* What the proofs ask of the constants.
ASSUME FormConstants == PagesConstants
ASSUME LedgerConstants == RatingsConstants

\* One account's profile is left open on the phone, while the desk goes anywhere.
ClientInit ==
  /\ PagesInit
  /\ session["phone"] = "ada" /\ page["phone"] = "profile"
  /\ session["desk"] = "ada"
ClientNext ==
  \/ \E a \in {"ada", "ben"}, kind \in Kinds : Changes(a, kind)
  \/ QuerySteps("phone") \/ FormSteps("phone")
  \/ QuerySteps("desk") \/ FormSteps("desk") \/ PageSteps("desk")

queueVars == <<entries, mode, now>>
allVars == <<part, rvars, queueVars, lvars, pageVars>>

MCInit ==
  /\ part \in {"ledger", "queue", "board", "client"}
  /\ RInit /\ Queue!ScanInit /\ LInit /\ ClientInit
  /\ part # "queue" => mode = "ranked"              \* one beginning for the parts that
  /\ part # "client" => page["desk"] = "home"       \* stand still
MCNext ==
  /\ UNCHANGED part
  /\ \/ part = "ledger" /\ RNext /\ UNCHANGED <<queueVars, lvars, pageVars>>
     \/ part = "queue" /\ Queue!ScanNext /\ UNCHANGED <<rvars, lvars, pageVars>>
     \/ part = "board" /\ LNext /\ UNCHANGED <<rvars, queueVars, pageVars>>
     \/ part = "client" /\ ClientNext /\ UNCHANGED <<rvars, queueVars, lvars>>
MCSpec == MCInit /\ [][MCNext]_allVars

\* What the scan says of its own state, asked where it moves.
PairingIsFair == part = "queue" => Queue!PairingIsFair
=============================================================================
