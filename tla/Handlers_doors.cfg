SPECIFICATION Spec
INVARIANTS HealthyUpstreamsDeliver
CHECK_DEADLOCK FALSE
