SPECIFICATION FairSpec
CONSTANTS
    Capacity = 3
    MaxEvents = 5
    MaxDrops = 2
INVARIANTS
    TypeOK
    InOrderOnce
    EndsComplete
    FinalWaveform
PROPERTIES
    StreamSpec
    PageLearnsEnd
