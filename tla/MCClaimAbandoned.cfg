CONSTANTS
    d1 = d1
    d2 = d2
    d3 = d3
    None = None
    Deliveries <- TwoDeliveries
    MaxFaults = 1
    AmbiguousInvoke = TRUE
SPECIFICATION Spec
PROPERTIES
    TerminalIsForever
CHECK_DEADLOCK FALSE
