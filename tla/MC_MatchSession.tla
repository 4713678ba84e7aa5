-------------------------- MODULE MC_MatchSession --------------------------
(* Small instances of MatchSession. *)
EXTENDS MatchSession
=============================================================================
