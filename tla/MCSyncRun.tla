------------------------------ MODULE MCSyncRun ------------------------------
(* Model checking of SyncRun: one push handler beside the app. *)
EXTENDS SyncRun
=============================================================================
