------------------------- MODULE MC_Administration -------------------------
(***************************************************************************)
(* What is administered: the accounts, with their sessions, claims, roles  *)
(* and suspensions, the achievement catalogue, and the listings an         *)
(* administrator reads.  A history is one of the three, which share no     *)
(* state.                                                                  *)
(***************************************************************************)
EXTENDS Identity, Administration, TLC

CONSTANTS u1, u2, g1, g2, t1, t2, m1, m2, r1, r2

VARIABLE part

\* Two guests who may meet with either colour, two account ids, two requests at a time.
TwoApplications == {<<"ada@", "ada">>, <<"ben@", "ben">>}
EitherColour == {<<g1, g2>>, <<g2, g1>>}
Symmetry == Permutations({r1, r2}) \cup Permutations({u1, u2}) \cup Permutations({t1, t2})
            \cup Permutations({m1, m2})

\* What the proofs ask of the constants.
ASSUME PeopleConstants == IdentityConstants

\* The listings start from every table in their own histories, from one elsewhere.
MCInit ==
  /\ part \in {"catalogue", "people", "listing"} /\ AdministrationInit /\ Init
  /\ part # "listing" => table = "audit" /\ \A i \in Ids : rowsAt[i] = 0
MCNext ==
  /\ UNCHANGED part
  /\ \/ part = "catalogue" /\ CatalogueNext /\ UNCHANGED <<vars, pagesVars>>
     \/ part = "people" /\ Next /\ UNCHANGED <<catalogueVars, pagesVars>>
     \/ part = "listing" /\ PagesNext /\ UNCHANGED <<catalogueVars, vars>>
MCSpec == MCInit /\ [][MCNext]_<<part, catalogueVars, vars, pagesVars>>
=============================================================================
