SPECIFICATION Spec
CONSTANTS
    a = a
    b = b
    c = c
    Item = {a, b, c}
    NoItem = NoItem
    Lengths = {1, 2, 3, 4}
INVARIANT PointersMeet
PROPERTY KeepsOrder

