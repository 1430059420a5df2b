SPECIFICATION Spec
CONSTANTS
    Request = {r1, r2, r3}
    None = None
    Dish <- MCDish
    Restaurant <- MCRestaurant
    Registered <- MCRegistered
    Customer <- MCCustomer
    RestaurantOf <- MCRestaurantOf
    Menu0 <- MCMenu
    MaxStock = 3
    Calls <- MenuCalls
SYMMETRY Symmetry
INVARIANTS
    TypeOK
    StockConserved
    OrderedDishesKept
    NoLockCycle
    AnswersAreTrue
PROPERTIES
    SoldAsListed
    ImplementsStore
