CONSTANTS
    Jobs <- AllJobs
SPECIFICATION FairSpec
INVARIANTS TypeOK OkMeansServed Reaped
PROPERTIES GoneReturns ZstdReturns
CHECK_DEADLOCK FALSE
