SPECIFICATION MCSpec
CONSTANTS
    Request = {r1, r2, r3}
    R1 = R1
    R2 = R2
    c1 = c1
    c2 = c2
    c3 = c3
    c4 = c4
    d1 = d1
    d2 = d2
    n1 = n1
    n2 = n2
    None = None
    Gone = Gone
    Restaurant <- MCRestaurant
    Category <- MCCategory
    Dish <- MCDish
    Name <- MCName
    Calls <- MCCalls
INVARIANTS
    TypeOK
    CatalogueWhole
    ForeignIsNotFound
    ConflictMeansDeleted
    StandingDishesShown
PROPERTIES
    OnlyOwnersWrite
SYMMETRY Symmetry
CHECK_DEADLOCK FALSE
