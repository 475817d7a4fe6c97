------------------------------ MODULE SettleUp ------------------------------
(***************************************************************************)
(* From expenses to suggested payments, in one currency of one group:       *)
(* dividing a total by weights (split/allocation.dart), who owes whom within *)
(* an expense, share by share (balance/pairwise.dart), everybody's balance   *)
(* (balance_fold.dart) and the payments that settle it (simplify.dart).      *)
(*                                                                          *)
(* Amounts are whole minor units and member ids are numbers, which is all    *)
(* that sorting them asks.  The hash of an expense's id only decides who is  *)
(* first among equals, so it is any number.                                 *)
(***************************************************************************)
EXTENDS Integers, FiniteSets, FiniteSetsExt

CONSTANTS
    Members,      \* member ids
    Expenses,     \* inputs: who paid what, and the weights of a split
    MaxExpenses   \* bound: expenses recorded

ASSUME MembersAssumption == IsFiniteSet(Members) /\ Members \subseteq Nat

\* Amounts by member, for some of the members.
IsAmounts(f, values) == \E people \in SUBSET Members : f \in [people -> values]

ASSUME ExpensesAssumption ==
    \A x \in Expenses :
        /\ x = [paid |-> x.paid, weights |-> x.weights]
        /\ IsAmounts(x.paid, Nat \ {0}) /\ IsAmounts(x.weights, Nat)
        /\ \E m \in DOMAIN x.weights : x.weights[m] > 0
ASSUME BoundAssumption == MaxExpenses \in Nat

VARIABLES
    expense,      \* the expense being divided, or its last values
    shares,       \* what each of its participants owes
    todo,         \* participants whose share is still to be divided
    outstanding,  \* what each payer is still owed
    within,       \* debts within it, by (debtor, creditor)
    balances,     \* foldBalances so far
    net,          \* pairwiseDebts so far: per pair, what the first owes the second
    count,        \* expenses so far
    phase,        \* "record", "divide", "simplify" or "done"
    credits, debits, transfers   \* _simplifyOneCurrency

expenseVars == <<expense, shares, todo, outstanding, within>>
planVars == <<credits, debits, transfers>>
vars == <<expenseVars, balances, net, count, phase, planVars>>

Pairs == {d \in Members \X Members : d[1] < d[2]}

Nothing == [m \in {} |-> 0]

SumOver(f, S) == MapThenSumSet(LAMBDA x : f[x], S)
SumOf(f) == SumOver(f, DOMAIN f)

\* Every variable holds what the code's maps may.
TypeOK ==
    /\ expense \in Expenses \cup {[paid |-> Nothing, weights |-> Nothing]}
    /\ IsAmounts(shares, Nat) /\ todo \subseteq DOMAIN shares
    /\ IsAmounts(outstanding, Int)
    /\ within \in [Members \X Members -> Nat]
    /\ balances \in [Members -> Int] /\ net \in [Pairs -> Int]
    /\ count \in 0..MaxExpenses
    /\ phase \in {"record", "divide", "simplify", "done"}
    /\ IsAmounts(credits, Nat \ {0}) /\ IsAmounts(debits, Nat \ {0})
    /\ transfers \subseteq [from : Members, to : Members, amount : Nat \ {0}]

-----------------------------------------------------------------------------
(* Largest remainder. *)

\* Where a party stands, in id order starting at the offset.
Rotated(parties, offset, m) ==
    LET n == Cardinality(parties)
    IN  (Cardinality({q \in parties : q < m}) - offset + n) % n

\* p gets a leftover unit before q.
First(rests, offset, p, q) ==
    \/ rests[p] > rests[q]
    \/ rests[p] = rests[q] /\ Rotated(DOMAIN rests, offset, p) < Rotated(DOMAIN rests, offset, q)

\* Mutant: a unit to everybody with a remainder.
Leftover_AllRemainders(total, floors, rests) == Cardinality({m \in DOMAIN rests : rests[m] > 0})

Leftover(total, floors, rests) == total - SumOf(floors)

AllocateLargestRemainder(total, weights, offset) ==
    LET weight   == SumOf(weights)
        floors   == [m \in DOMAIN weights |-> (total * weights[m]) \div weight]
        rests    == [m \in DOMAIN weights |-> (total * weights[m]) % weight]
        leftover == Leftover(total, floors, rests)
        ahead(m) == {q \in DOMAIN weights : First(rests, offset, q, m)}
    IN  [m \in DOMAIN weights |->
            floors[m] + (IF Cardinality(ahead(m)) < leftover THEN 1 ELSE 0)]

Offsets(weights) == 0..(Cardinality(DOMAIN weights) - 1)

-----------------------------------------------------------------------------
(* Recording an expense, and dividing it share by share. *)

At(f, m) == IF m \in DOMAIN f THEN f[m] ELSE 0

\* What an expense does to somebody's balance.
Moved(paid, owed, m) == At(paid, m) - At(owed, m)

Record(x, offset) ==
    LET owed == AllocateLargestRemainder(SumOf(x.paid), x.weights, offset)
    IN  /\ phase = "record" /\ count < MaxExpenses
        /\ expense' = x
        /\ shares' = owed
        /\ todo' = {m \in DOMAIN owed : owed[m] # 0}
        /\ outstanding' = x.paid
        /\ within' = [d \in Members \X Members |-> 0]
        /\ balances' = [m \in Members |-> balances[m] + Moved(x.paid, owed, m)]
        /\ count' = count + 1
        /\ phase' = "divide"
        /\ UNCHANGED <<net, planVars>>

\* Mutant: in proportion to what each paid.
DivideShare_Paid(offset) ==
    LET debtor == Min(todo)
        owed   == AllocateLargestRemainder(shares[debtor], expense.paid, offset)
    IN  /\ phase = "divide" /\ todo # {}
        /\ outstanding' = [p \in DOMAIN outstanding |-> outstanding[p] - owed[p]]
        /\ within' = [d \in DOMAIN within |->
               IF d[1] = debtor /\ d[2] # debtor THEN within[d] + At(owed, d[2]) ELSE within[d]]
        /\ todo' = todo \ {debtor}
        /\ UNCHANGED <<expense, shares, balances, net, count, phase, planVars>>

\* Each share is owed to the payers in proportion to what each is still owed.
DivideShare(offset) ==
    LET debtor == Min(todo)
        owed   == AllocateLargestRemainder(shares[debtor], outstanding, offset)
    IN  /\ phase = "divide" /\ todo # {}
        /\ outstanding' = [p \in DOMAIN outstanding |-> outstanding[p] - owed[p]]
        /\ within' = [d \in DOMAIN within |->
               IF d[1] = debtor /\ d[2] # debtor THEN within[d] + At(owed, d[2]) ELSE within[d]]
        /\ todo' = todo \ {debtor}
        /\ UNCHANGED <<expense, shares, balances, net, count, phase, planVars>>

\* Mutant: the second's debts to the first are not netted.
Netted_OneWay(d) == net[d] + within[d]

Netted(d) == net[d] + within[d] - within[<<d[2], d[1]>>]

Divided ==
    /\ phase = "divide" /\ todo = {}
    /\ net' = [d \in Pairs |-> Netted(d)]
    /\ phase' = "record"
    /\ UNCHANGED <<expenseVars, balances, count, planVars>>

-----------------------------------------------------------------------------
(* Simplifying: the largest debtor pays the largest creditor, until one side *)
(* is empty.                                                                *)

BeginSimplify ==
    /\ phase = "record"
    /\ credits' = [m \in {p \in Members : balances[p] > 0} |-> balances[m]]
    /\ debits' = [m \in {p \in Members : balances[p] < 0} |-> -balances[m]]
    /\ transfers' = {}
    /\ phase' = "simplify"
    /\ UNCHANGED <<expenseVars, balances, net, count>>

\* The largest amount, ties to the first id.
Largest(amounts) ==
    CHOOSE m \in DOMAIN amounts :
        \A q \in DOMAIN amounts :
            amounts[m] > amounts[q] \/ (amounts[m] = amounts[q] /\ m <= q)

Reduced(amounts, m, amount) ==
    [q \in {p \in DOMAIN amounts : p # m \/ amounts[p] # amount} |->
        IF q = m THEN amounts[q] - amount ELSE amounts[q]]

\* Mutant: all the creditor is owed, whatever the debtor owes.
Amount_Credit(creditor, debtor) == credits[creditor]

Amount(creditor, debtor) ==
    IF credits[creditor] < debits[debtor] THEN credits[creditor] ELSE debits[debtor]

AddTransfer ==
    LET creditor == Largest(credits)
        debtor   == Largest(debits)
        amount   == Amount(creditor, debtor)
    IN  /\ phase = "simplify" /\ DOMAIN credits # {} /\ DOMAIN debits # {}
        /\ transfers' = transfers \cup {[from |-> debtor, to |-> creditor, amount |-> amount]}
        /\ credits' = Reduced(credits, creditor, amount)
        /\ debits' = Reduced(debits, debtor, amount)
        /\ UNCHANGED <<expenseVars, balances, net, count, phase>>

Simplified ==
    /\ phase = "simplify" /\ (DOMAIN credits = {} \/ DOMAIN debits = {})
    /\ phase' = "done"
    /\ UNCHANGED <<expenseVars, balances, net, count, planVars>>

-----------------------------------------------------------------------------

Init ==
    /\ expense = [paid |-> Nothing, weights |-> Nothing]
    /\ shares = Nothing /\ todo = {} /\ outstanding = Nothing
    /\ within = [d \in Members \X Members |-> 0]
    /\ balances = [m \in Members |-> 0] /\ net = [d \in Pairs |-> 0]
    /\ count = 0 /\ phase = "record"
    /\ credits = Nothing /\ debits = Nothing /\ transfers = {}

Next ==
    \/ \E x \in Expenses : \E offset \in Offsets(x.weights) : Record(x, offset)
    \/ \E offset \in Offsets(outstanding) : DivideShare(offset)
    \/ Divided
    \/ BeginSimplify \/ AddTransfer \/ Simplified

Spec == Init /\ [][Next]_vars

-----------------------------------------------------------------------------
(* Properties. *)

\* Whatever the weights, a split hands out exactly the total, a heavier weight
\* never less than a lighter one (allocation.dart, splitter.dart).
SplitsExactly ==
    count > 0 =>
        /\ SumOf(shares) = SumOf(expense.paid)
        /\ \A p, q \in DOMAIN shares :
               expense.weights[p] > expense.weights[q] => shares[p] >= shares[q]

\* While an expense is divided, what the payers are still owed is what is left
\* of the shares, and nobody is owed less than nothing: every share finds
\* somebody to be owed to, and "each payer is paid back exactly what they paid".
PaidBackExactly ==
    /\ \A p \in DOMAIN outstanding : outstanding[p] >= 0
    /\ count > 0 => SumOf(outstanding) = SumOver(shares, todo)

\* What q owes m, over all the expenses.
Due(q, m) == IF q < m THEN net[<<q, m>>] ELSE -net[<<m, q>>]

\* "Settling every one of them leaves everybody square": paid pair by pair, what
\* everybody receives less what they pay is their balance (pairwise.dart).
PairwiseSettles ==
    phase # "divide" =>
        \A m \in Members :
            balances[m] = SumOver([q \in Members \ {m} |-> Due(q, m)], Members \ {m})

\* What the payments of a plan bring somebody, and take.
Value == [t \in transfers |-> t.amount]
Received(m) == SumOver(Value, {t \in transfers : t.to = m})
Given(m) == SumOver(Value, {t \in transfers : t.from = m})

\* Simplified payments never take more from a debtor, or give more to a
\* creditor, than the balance says; they settle everybody, with one payment
\* fewer than the people involved at most (simplify.dart).
SimplifySettles ==
    phase \in {"simplify", "done"} =>
        /\ \A m \in Members :
               balances[m] = Received(m) - Given(m) + At(credits, m) - At(debits, m)
        /\ phase = "done" => DOMAIN credits = {} /\ DOMAIN debits = {}
        /\ transfers # {} => Cardinality(transfers) < Cardinality({m \in Members : balances[m] # 0})

=============================================================================
