CONSTANTS
    c1 = c1
    c2 = c2
    c3 = c3
    c4 = c4
    k1 = k1
    k2 = k2
    Calls <- MCThreeCalls
    KeyOf <- MCKeyOf
    Prio <- MCPrio
    Limits = {0, 1, 2}
SPECIFICATION FairSpec
CHECK_DEADLOCK FALSE
INVARIANTS InflightIsHolders NoLostWakeup SlotLostToBypassOnly
PROPERTIES NoOvertaking PoolSpec EveryCallAnswered QueueDrains
