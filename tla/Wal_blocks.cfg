SPECIFICATION Spec
CONSTANTS
    Align = 4
    BufferSize = 8
    Limits <- OneOrMoreFiles
    Sizes <- RecordSizes
    SeqLimit = 5
    MaxLives = 3
    Tears = "blocks"
INVARIANTS DurableRecovered WriterKeepsReadable
PROPERTY NoWriteAfterError
CHECK_DEADLOCK FALSE
