\* Up to three frames, every split of every write.
SPECIFICATION FairSpec
CONSTANTS
    Base = 8
    Width32 = 2
    Width64 = 1
    KeySize = 1
    TextBytes = {0, 1, 5}
    MaxFrameSize = 9
    Items <- MCItems
    MaxSent = 3
    ProbeMessages <- MCMessages
    ProbeFrames <- MCFrames
CHECK_DEADLOCK FALSE
INVARIANTS
    CodecInv
    CleanCloseLosesNothing
PROPERTIES
    ImplementsMessageChannel
    MessagesArrive
