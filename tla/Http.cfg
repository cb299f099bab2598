CONSTANTS
    Jobs <- MCJobs
    MaxWorkers = 3
    MaxItems = 2
SPECIFICATION Spec
CHECK_DEADLOCK FALSE
INVARIANTS OutputComplete RequestsWithinLimits
PROPERTIES Settles
