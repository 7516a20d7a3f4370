SPECIFICATION Spec
CONSTANTS
    Base = 3
    Limit = 8
    Reserve = 1
    Sizes = {1, 2, 3}
    Alignments = {1, 2}
    Values = {v1}
    Zero = Zero
    Junk = Junk
    NULL = NULL
    Threads = {t1}
    StackSize <- StackSizes
INVARIANTS
    HeapExact
    BlocksHeld
PROPERTIES
    PoolSpec
