----------------------------- MODULE MCProfiles -----------------------------
(* Model checking of Profiles: the reader and one other account. *)
EXTENDS Profiles
=============================================================================
