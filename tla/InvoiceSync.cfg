SPECIFICATION Spec
CONSTANTS
    MaxUnanswered = 3
    MaxPostponements = 2
    MaxMissedPromises = 2
    Invoices = {i1}
    Syncs = {s1, s2}
    Face = 2
    MaxRows = 2
    MaxMoves = 2
INVARIANTS OneOpenCase BalanceIsGiven
PROPERTIES PaymentStopsChase
CHECK_DEADLOCK FALSE
