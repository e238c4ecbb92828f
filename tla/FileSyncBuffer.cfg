SPECIFICATION FairSpec
CONSTANTS
    receive = receive
    interface = interface
    a = a
    b = b
    Empty = Empty
    Producers <- MCProducers
    Entries <- MCEntries
    Capacity <- MCCapacity
INVARIANTS
    SenderSleepsOnlyWhenIdle
    NoLostNotFull
PROPERTIES
    SenderStops
    FullDrains
    ImplementsChannel
