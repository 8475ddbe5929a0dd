CONSTANTS
    c1 = c1
    c2 = c2
    c3 = c3
    c4 = c4
    k1 = k1
    k2 = k2
    Calls <- MCCalls
    KeyOf <- MCKeyOf
    Prio <- MCPrio
    Limits = {1}
SPECIFICATION Spec
CHECK_DEADLOCK FALSE
INVARIANT RefusedHoldsNoSlot
