SPECIFICATION Spec
CONSTANTS
    Request = {r1, r2}
    None = None
    Dish <- MCDish
    Restaurant <- MCRestaurant
    Registered <- MCRegistered
    Customer <- MCCustomer
    RestaurantOf <- MCRestaurantOf
    Menu0 <- MCMenu
    MaxStock = 2
    Calls <- TextCalls
SYMMETRY Symmetry
INVARIANTS
    ClientMistakesAre4xx
