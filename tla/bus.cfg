SPECIFICATION LiveSpec
CONSTANTS
    Crews = {A, B}
    Streams = {s1}
    Embedders = {e1}
    MaxEvents = 2
    Capacity = 1
    MaxChannels = 1
    MaxSenders = 6
INVARIANTS
    BusSound
PROPERTIES
    AttachedEnds
