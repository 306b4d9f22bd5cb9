SPECIFICATION Spec
CONSTANTS
    HeaderSize = 2
    MaxMetadata = 1
    MaxBody = 2
    MaxBuffer = 5
    FirstCapacity = 3
    ReadSize = 3
    Frames <- MCFrames
    AnswerSize <- MCAnswerSize
    MaxInflight = 2
    MaxOutbound = 3
    BatchBytes = 2
INVARIANTS StreamDecoded NoAnswerLost 
PROPERTY ConnectionEnds
