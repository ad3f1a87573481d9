\* One manager: an order approved again is handed off before it is assessed again.
CONSTANTS
    P1 = P1
    O1 = O1
    M1 = M1
    M2 = M2
    W = W
    Products = {P1}
    NoProduct = NoProduct
    Orders = {O1}
    NoOrder = NoOrder
    Items = {1}
    OrderOf <- MCOrderOf
    MaxQuantity = 1
    MaxStock = 2
    Managers = {M1, M2}
    Worker = W
    Duty <- MCSerialDuty
SPECIFICATION Spec
PROPERTY HandOffTakesReservedStock
