----------------------------- MODULE MCSettleUp -----------------------------
(* Expenses small enough for TLC, with every kind of tie. *)
EXTENDS SettleUp

CONSTANTS MaxPaid, MaxWeight, MaxPayers

Partial(size, max) ==
    UNION {[people -> 1..max] : people \in {s \in SUBSET Members : Cardinality(s) \in 1..size}}

MCExpenses == [paid : Partial(MaxPayers, MaxPaid), weights : Partial(Cardinality(Members), MaxWeight)]
=============================================================================
