---------------------------- MODULE MCIndexFlush ----------------------------
(* Model checking of IndexFlush: accounts are interchangeable. *)
EXTENDS IndexFlush, TLC

Symmetric == Permutations(Profiles)
=============================================================================
