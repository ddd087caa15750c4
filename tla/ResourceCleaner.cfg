CONSTANTS
    MaxCalls = 6
    TimelyStart = TRUE
SPECIFICATION FairSpec
 
PROPERTIES  CleanerCallsReturn
CHECK_DEADLOCK FALSE
