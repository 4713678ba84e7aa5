-------------------------- MODULE MC_MatchRuntime --------------------------
(* A small instance of MatchRuntime: two or three commands, two handler       *)
(* invocations in flight (so a retry can race its original and a command its  *)
(* opponent's), one settlement racing both.                                   *)
EXTENDS MatchRuntime, TLC

\* Commands and attempts are interchangeable names.
Symmetry == Permutations(Commands) \cup Permutations(Attempts)
=============================================================================
