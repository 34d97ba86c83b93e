SPECIFICATION FairSpec
CONSTANTS
    r1 = r1
    r2 = r2
    r3 = r3
    ann = ann
    bob = bob
    a1 = a1
    a2 = a2
    b1 = b1
    none = none
    Requests <- TwoCalls
    Wallets <- BothWallets
    Auths <- TwoAuths
    Payer <- SignedTwo
    NoAuth = none
    Rails <- PaidRails
    DailyLimit = 1
    MaxInFlight = 2
    FreeFirstCall = TRUE
    Faults <- AllFaults
CHECK_DEADLOCK FALSE
INVARIANTS
    IncomeIsLogged
    BurntNonceWasSent
PROPERTY EveryCallAnswered
