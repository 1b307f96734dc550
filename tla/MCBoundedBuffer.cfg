\* Two producers of two items each, two consumers, a buffer of two.
SPECIFICATION Spec
CONSTANTS
    NoItem = NoItem
    NoOne = NoOne
    BUFFER_SIZE = 2
    NumProducer = 2
    NumConsumer = 2
    MaxItems = 2
INVARIANT SemaphoresMatchBuffer
INVARIANT DestroyIsSafe
PROPERTY ImplementsHandOff
PROPERTY InsertedItemConsumed
PROPERTY MainReturns
