CONSTANTS
    Contexts = {"a", "b"}
    Groups = {"ga", "gb", "gc"}
    Domain <- MCDomain
    PoolSize = 1
    MaxReady = 2
    MaxCalls = 6
    Avoid = {"race", "destroy", "notify"}
SPECIFICATION Spec
INVARIANTS TypeOK ActivationConsistent ActivatorAlive 
 
CHECK_DEADLOCK FALSE
