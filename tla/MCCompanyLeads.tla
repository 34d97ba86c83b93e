---------------------------- MODULE MCCompanyLeads ----------------------------
EXTENDS CompanyLeads, TLC

CONSTANTS j1, j2, r1, r2, r3, blue

TwoJobs == {j1, j2}
ThreeRuns == {r1, r2, r3}
OneSlot == {blue}

AllFaults == {"transport", "dbError", "crash"}
=============================================================================
