------------------------------ MODULE MCFxRates ------------------------------
(* Model checking of FxRates. *)
EXTENDS FxRates
=============================================================================
