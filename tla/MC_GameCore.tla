----------------------------- MODULE MC_GameCore ----------------------------
(***************************************************************************)
(* A small instance of GameCore: five squares in a ring, two neighbours  *)
(* a line.                                                                 *)
(***************************************************************************)
EXTENDS GameGuards, TLC

CONSTANTS
  q0, q1, q2, q3, q4

MCSquares == {q0, q1, q2, q3, q4}
MCLines == {{q0, q1}, {q1, q2}, {q2, q3}, {q3, q4}, {q4, q0}}

\* The permutations of the squares that keep the lines.
Symmetry == {f \in Permutations(MCSquares) : {{f[q] : q \in l} : l \in MCLines} = MCLines}
=============================================================================
