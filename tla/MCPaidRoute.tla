----------------------------- MODULE MCPaidRoute -----------------------------
EXTENDS PaidRoute, TLC

CONSTANTS r1, r2, r3, ann, bob, a1, a2, b1, none

\* Three calls, two authorisations of one wallet and one of another
ThreeCalls == {r1, r2, r3}
TwoCalls == {r1, r2}
BothWallets == {ann, bob}
ThreeAuths == {a1, a2, b1}
TwoAuths == {a1, b1}
SignedThree == (a1 :> ann) @@ (a2 :> ann) @@ (b1 :> bob)
SignedTwo == (a1 :> ann) @@ (b1 :> bob)

X402Rail == {"none", "x402"}
MppRail == {"mpp"}
PaidRails == {"x402", "mpp", "mcp"}

NoFaults == {}
Crashes == {"crash"}
AllFaults == {"crash", "lostAnswer"}

CallSymmetry == Permutations(Requests)
=============================================================================
