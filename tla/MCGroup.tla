------------------------------- MODULE MCGroup -------------------------------
(* Instances of Group small enough for TLC. *)
EXTENDS Group, TLC

CONSTANTS a, b, c,      \* member ids
          usd, inr      \* currencies

\* Whoever pays `amount` for the people who owe it.
Spend(kind, cur, amount, payer, shares, deleted) ==
    [kind |-> kind, currency |-> cur, amount |-> amount,
     payers |-> payer :> amount, shares |-> shares, deleted |-> deleted]

Paid == Spend("expense", usd, 2, a, a :> 1 @@ b :> 1, FALSE)
Lopsided == Spend("expense", usd, 2, a, a :> 1 @@ b :> 0, FALSE)
Payback == Spend("settlement", usd, 1, b, a :> 1, FALSE)

\* b's half of an expense in dollars or rupees, its deletion, the settlement
\* that pays it back, an expense that does not add up, and one that puts
\* the same debt on c.
MCInputs == {Paid, Lopsided, Payback,
             [Paid EXCEPT !.deleted = TRUE],
             [Paid EXCEPT !.currency = inr],
             [Paid EXCEPT !.shares = a :> 1 @@ c :> 1]}

Interchangeable == Permutations(Profiles) \cup Permutations(Tokens) \cup Permutations(Looks)
=============================================================================
