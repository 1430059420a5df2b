SPECIFICATION Spec
CONSTANTS
    OrderId = {o1}
    Event <- MCEvent
    Hooked <- OnlyCreated
    MaxInFlight = 1
    Attempts = 3
    MaxEvents = 1
    AutoCook = TRUE
    Others = {"customer", "restaurant"}
INVARIANTS
    OneFlakeStrandsNoOrder
CHECK_DEADLOCK FALSE
