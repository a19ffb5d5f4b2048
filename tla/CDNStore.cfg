SPECIFICATION MCSpec
CONSTANTS
    NPieces = 2
    MaxVersion = 2
    MaxWriters = 2
    MaxDisturbances = 3
    MaxTriggers = 2
INVARIANTS TypeOK PublishedIsWhole AcceptedIsWhole
PROPERTIES CollectorSparesTasks
CHECK_DEADLOCK FALSE
