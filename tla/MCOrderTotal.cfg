SPECIFICATION Spec
CONSTANTS
    Half = 8
    MaxQuantity = 4
    MaxDishes = 2
INVARIANTS
    TwoPortionsExact
    FittingIsStored
CHECK_DEADLOCK FALSE
