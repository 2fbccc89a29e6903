SPECIFICATION Spec
CONSTANTS
    c1 = c1
    c2 = c2
    c3 = c3
    Checker = {c1, c2, c3}
    Lives <- MCLives
    MaxRestarts = 1
SYMMETRY Symmetry
INVARIANT
    SettlesFilled
PROPERTY
    WrongOnlyWhileInitialising
CHECK_DEADLOCK FALSE
