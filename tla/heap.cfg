SPECIFICATION Spec
CONSTANTS
    HEAP_START = 16
    HEAP_SIZE = 96
    HDR = 12
    WORD = 256
    Requests <- Sizes
INVARIANTS Tiled NoAdjacentFree
PROPERTY Implements
