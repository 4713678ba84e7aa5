--------------------------- MODULE MC_Matchmaking ---------------------------
(***************************************************************************)
(* A small instance of Matchmaking.  Window widths and ratings are in units *)
(* of 100 Elo and time in units of 10 seconds or of the awaits themselves.  *)
(***************************************************************************)
EXTENDS Matchmaking, TLC

CONSTANTS Ada, Ben, Casual, Ranked

\* Ada and Ben start out of each other's ranked window.
TwoPlayers == {Ada, Ben}
TwoRatings == [a \in TwoPlayers |-> IF a = Ada THEN 14 ELSE 17]
NoGuests == {}

BothKeys == [k \in {Casual, Ranked} |-> IF k = Casual THEN "casual" ELSE "ranked"]
=============================================================================
