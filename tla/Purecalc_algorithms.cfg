SPECIFICATION Spec
CONSTANTS
    Inputs <- MCInputs
    Mantissa = 6
INVARIANTS
    ErrorsAreCaught
    NothingIsLost
    AnswersReadBack
    RoutesAgree
    SamplesAreTrue
CHECK_DEADLOCK FALSE
