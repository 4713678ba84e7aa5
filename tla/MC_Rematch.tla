----------------------------- MODULE MC_Rematch -----------------------------
(* Ada has just played Ben, and Ada's accept is delivered twice.              *)
EXTENDS Rematch

CONSTANTS Ada, Ben

AdaAndBen == <<[light |-> Ada, dark |-> Ben]>>
=============================================================================
