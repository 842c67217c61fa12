CONSTANTS
    Jobs <- AllJobs
SPECIFICATION FairSpec
PROPERTIES DumpDone
CHECK_DEADLOCK FALSE
