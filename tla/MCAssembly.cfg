SPECIFICATION Spec
CONSTANTS
    i1 = i1
    i2 = i2
    i3 = i3
    i4 = i4
    i5 = i5
    NStocks = 3
    SizeOf <- StockSizes
    Instances <- Items
    FitsOn <- Fits
    Quantities = {0, 1, 2}
INVARIANTS
    EveryInstanceOnce
    NoFalseQtyLimit
