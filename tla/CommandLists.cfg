CONSTANTS
    RegularLists = {"m"}
    MutableLists = {"m"}
    ImmediateLists = {"i"}
    Events = {"e"}
    MaxJobs = 4
    MaxAppends = 2
    MaxWaits = 1
    MaxEventOps = 3
    MaxSubmits = 3
    Ops = {"copy", "region", "fill", "timestamp", "infer", "signal", "waits", "reset"}
    Errors = TRUE
    Aborts = TRUE
    Avoid = {"region", "leftover", "remutate", "midway", "recreate"}
SPECIFICATION Spec
INVARIANTS TypeOK IdNamesItsCommand HpiExclusive ImmediateInOrder EventKnowsItsJobs
    EventsOrderWork
PROPERTIES RejectedNeverSubmitted
CHECK_DEADLOCK FALSE
