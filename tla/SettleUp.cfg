SPECIFICATION Spec
CONSTANTS
    Members = {1, 2, 3}
    Expenses <- MCExpenses
    MaxPaid = 2
    MaxPayers = 2
    MaxWeight = 2
    MaxExpenses = 2
INVARIANTS
    TypeOK
    SplitsExactly
    PaidBackExactly
    PairwiseSettles
    SimplifySettles
\* It ends with a plan.
CHECK_DEADLOCK FALSE
