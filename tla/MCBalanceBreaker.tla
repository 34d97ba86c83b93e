--------------------------- MODULE MCBalanceBreaker ---------------------------
EXTENDS BalanceBreaker, TLC

CONSTANTS c1, c2, c3, jobs, mini, getJobs, board

\* Two routes behind the breaker (MIN_BALANCE_USD of POST /jobs, the floor of
\* a cheaper model), GET /jobs without it, and the dashboard; in cents
ThreeCalls == {c1, c2, c3}
JobsAndMini == {jobs, mini}
GetJobs == {getJobs}
Board == {board}
Floors == (jobs :> 50) @@ (mini :> 25) @@ (getJobs :> 50)
Balances == {20, 40, 60}

CallSymmetry == Permutations(Calls)
=============================================================================
