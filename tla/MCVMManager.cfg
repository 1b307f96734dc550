\* Four pages of two bytes, three frames, two TLB entries; counters wrap at 6.
SPECIFICATION Spec
CONSTANTS
    NUMBER_OF_PAGES = 4
    NUMBER_OF_FRAMES = 3
    TLB_SIZE = 2
    PAGE_SIZE = 2
    UINT_MOD = 6
    Addresses <- MC_Addresses
    MaxAccesses = 10
    Nothing = Nothing
CHECK_DEADLOCK FALSE
INVARIANT TypeOK
INVARIANT ValidPageHasItsFrame
INVARIANT TLBAgreesWithPageTable
INVARIANT WrongByteOnlyFromEvictedPage
