SPECIFICATION Spec
CONSTANTS
    Reader = {c1}
    Row <- MCRow
    Query <- MCQuery
    Limits = {2}
    Unasked = Unasked
    Request = {3, 4}
    Old = {1, 2}
    Keyless = {1}
    RestaurantOf <- MCRestaurantOf
    Dishes0 <- MCDishes
    Orders0 <- MCOrders
    Names = {1, 2}
    MaxWrites = 3
    Calls <- MCCalls
    None = None
INVARIANTS
    TypeOK
    KeysOpenTheirRow
    MissedAtMostLeft
    RepeatedAtMostJoined
PROPERTIES
    OnlyOwnersEdit
CHECK_DEADLOCK FALSE
