CONSTANTS
    x = x
    y = y
    z = z
    Slots = 2
    BufSize = 2
    ContentSize = 3
    FragTimeout = 5
    Groups = {x, y, z}
    Ends <- MCTriples
    Delivery <- MCExact
SPECIFICATION Spec
INVARIANTS
    WritesAreOriginal
CHECK_DEADLOCK FALSE
