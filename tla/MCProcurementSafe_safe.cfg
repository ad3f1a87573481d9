\* One order: every request of one manager, and two managers at once; crashes anywhere.
CONSTANTS
    P1 = P1
    O1 = O1
    M1 = M1
    M2 = M2
    W = W
    Products = {P1}
    NoProduct = NoProduct
    Orders = {O1}
    NoOrder = NoOrder
    Items = {1, 2}
    OrderOf <- MCOrderOf
    MaxQuantity = 2
    MaxStock = 2
    Managers = {M1, M2}
    Worker = W
    Duty <- MCSafeDuty
SPECIFICATION SafeSpec
INVARIANT TypeOK
INVARIANT ListedOnce
INVARIANT SendingIsDispatched
PROPERTY NoOversell
INVARIANT SerialStockCovers
INVARIANT SerialReservesInStock
PROPERTY SerialStockFalls
