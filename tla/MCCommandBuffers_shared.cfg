CONSTANTS
    NumCmds = 2
    NumArgs = 1
    MaxHandle = 8
    MaxHeld = 3
    MaxOthers = 1
    MaxSubmits = 3
    MaxCalls = 3
    ScratchChoices <- AnyScratch
    PreemptionChoices <- AnyPreemption
    SubmitErrors = TRUE
    Avoid = {"retry", "move", "destroy", "reuse", "forget"}
SPECIFICATION Spec
INVARIANTS HandlesComplete
CHECK_DEADLOCK FALSE
