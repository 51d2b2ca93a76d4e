SPECIFICATION Spec
CONSTANTS
    None = None
    Values = {v1, v2}
    Births = {b1}
    Budgets <- MCBudgets
    MaxErr = 2
    StopDuringStart = FALSE
CHECK_DEADLOCK FALSE
INVARIANT OnlineIsBacked
INVARIANT SubmitOrderWins
PROPERTY ErrorExpires
PROPERTY DocumentsReturn
