---------------------------- MODULE MC_Gateway ----------------------------
(***************************************************************************)
(* Small instances of the sockets and of the rematch offers made over      *)
(* them: Ada, with an account and two connections, has just played Ben, a  *)
(* guest with one.  A history is one of connections or one of offers.      *)
(***************************************************************************)
EXTENDS Gateway, Rematch, TLC

CONSTANTS Ada, Ben, a1, a2, b1

VARIABLE part

MCOwner == [s \in {a1, a2, b1} |-> IF s = b1 THEN Ben ELSE Ada]
MCProfile == [u \in {Ada} |-> {"reactions"}]

\* The match they have just played, and one that either may be seated in elsewhere.
AdaAndBen == <<[light |-> Ada, dark |-> Ben]>>
BenAndAda == {[light |-> Ben, dark |-> Ada]}

\* What the proofs about Rematch ask of its constants.
ASSUME OfferConstants == RematchConstants

MCInit == part \in {"connections", "offers"} /\ Init /\ OffersInit
MCNext ==
  /\ UNCHANGED part
  /\ \/ part = "connections" /\ Next /\ UNCHANGED rematchVars
     \/ part = "offers" /\ OffersNext /\ UNCHANGED vars
MCSpec == MCInit /\ [][MCNext]_<<part, vars, rematchVars>>

\* Ada's connections are interchangeable, and so are the calls, each named by the
\* connection it came over.
Symmetry == Permutations({a1, a2})
=============================================================================
