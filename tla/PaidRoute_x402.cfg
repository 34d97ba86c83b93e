SPECIFICATION Spec
CONSTANTS
    r1 = r1
    r2 = r2
    r3 = r3
    ann = ann
    bob = bob
    a1 = a1
    a2 = a2
    b1 = b1
    none = none
    Requests <- ThreeCalls
    Wallets <- BothWallets
    Auths <- ThreeAuths
    Payer <- SignedThree
    NoAuth = none
    Rails <- X402Rail
    DailyLimit = 1
    MaxInFlight = 2
    FreeFirstCall = TRUE
    Faults <- Crashes
SYMMETRY CallSymmetry
CHECK_DEADLOCK FALSE
INVARIANTS
    TypeOK
    ServedIsPaidFor
    OneGrantPerWallet
    FailureIsFree
    OvershootBounded
PROPERTY SellsAsPromised
