SPECIFICATION Spec
CONSTANTS
    Usine = {"u1"}
    Touched = {"research"}
    MaxEdits = 2
    UncheckedEdits = TRUE
INVARIANTS SoldIsPaidOrGone
CHECK_DEADLOCK FALSE
