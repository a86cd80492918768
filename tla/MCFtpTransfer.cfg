SPECIFICATION Spec
CONSTANTS
    EarlyConnect = TRUE
    Fallback = TRUE
    MaxSockets = 3
    MaxRounds = 1
CONSTRAINT Small
INVARIANTS VerdictIsTrue StaleEndIgnored
PROPERTIES ConsentFirst TransferEnds
CHECK_DEADLOCK FALSE
