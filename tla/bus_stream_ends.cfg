SPECIFICATION LiveSpec
CONSTANTS
    Crews = {A}
    Streams = {s1}
    Embedders = {}
    MaxEvents = 1
    Capacity = 1
    MaxChannels = 2
    MaxSenders = 3
PROPERTIES StreamEnds
