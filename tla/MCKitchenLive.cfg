SPECIFICATION FairSpec
CONSTANTS
    OrderId = {o1}
    Event <- MCEvent
    Hooked <- MCHooked
    MaxInFlight = 1
    Attempts = 2
    MaxEvents = 1
    AutoCook = TRUE
    Others = {"customer"}
PROPERTIES
    RoutinesEnd
    DeliveriesEnd
    ImplementsLedger
CHECK_DEADLOCK FALSE
