SPECIFICATION Spec
CONSTANTS
    OrderId = {o1}
    Event <- MCEvent
    Hooked <- MCHooked
    MaxInFlight = 1
    Attempts = 2
    MaxEvents = 1
    AutoCook = TRUE
    Others = {"customer", "restaurant"}
INVARIANTS
    TypeOK
    SlotsMatchDeliveries
    AcknowledgedIsCommitted
    RepeatingChangesNothing
    EventsAreLatest
    ClosedMeansIdle
CHECK_DEADLOCK FALSE
