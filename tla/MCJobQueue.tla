------------------------------ MODULE MCJobQueue ------------------------------
EXTENDS JobQueue, TLC

CONSTANTS j1, j2, blue, green

TwoJobs == {j1, j2}
Slots == {blue, green}

WorkerFaults == {"crash", "dbError"}

AnyDeploy == {"aborted", "nginxRefuses", "rolledBack", "completed"}
=============================================================================
