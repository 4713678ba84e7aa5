-------------------------------- MODULE Elo --------------------------------
(***************************************************************************)
(* The arithmetic of a rating: what one result does to the aggregate an    *)
(* account carries.  The expected score, 1 / (1 + 10^((b-a)/400)), only    *)
(* reaches a rating multiplied by the K factor and rounded, so the model   *)
(* takes the rounded product as a parameter: Expected(a, b) points of      *)
(* KFactor are expected of a player rated a against one rated b.           *)
(***************************************************************************)
EXTENDS Integers

CONSTANTS
  KFactor,         \* the points at stake in one match, an even number
  MinimumRating,   \* the floor
  StartingRating,  \* what an account without a row is taken to have
  Expected(_, _)

(* K * 0 and K * 1 / 2 are whole numbers, so rounding the sum is rounding the expectation. *)
ASSUME EloAssumption ==
  /\ MinimumRating \in Nat /\ StartingRating \in Nat /\ StartingRating >= MinimumRating
  /\ KFactor \in Nat /\ KFactor % 2 = 0

Outcomes == {"win", "loss", "draw"}
Results == {"light", "dark", "draw"}

Scored(outcome) == CASE outcome = "win"  -> KFactor
                     [] outcome = "draw" -> KFactor \div 2
                     [] outcome = "loss" -> 0

NextRating(rating, opponent, outcome) ==
  LET unclamped == rating + Scored(outcome) - Expected(rating, opponent)
  IN  IF unclamped < MinimumRating THEN MinimumRating ELSE unclamped

OutcomeOf(verdict, side) ==
  IF verdict = "draw" THEN "draw" ELSE IF verdict = side THEN "win" ELSE "loss"

Other(side) == IF side = "light" THEN "dark" ELSE "light"

StartingAggregate ==
  [rating |-> StartingRating, games |-> 0, wins |-> 0, losses |-> 0, draws |-> 0,
   streak |-> 0, best |-> 0]

NextStreak(streak, outcome) ==
  CASE outcome = "draw" -> 0
    [] outcome = "win"  -> IF streak > 0 THEN streak + 1 ELSE 1
    [] outcome = "loss" -> IF streak < 0 THEN streak - 1 ELSE -1

ApplyResult(aggregate, outcome, rating) ==
  LET streak == NextStreak(aggregate.streak, outcome)
      one(o) == IF outcome = o THEN 1 ELSE 0
  IN  [rating |-> rating,
       games  |-> aggregate.games + 1,
       wins   |-> aggregate.wins + one("win"),
       losses |-> aggregate.losses + one("loss"),
       draws  |-> aggregate.draws + one("draw"),
       streak |-> streak,
       best   |-> IF streak > aggregate.best THEN streak ELSE aggregate.best]
=============================================================================
