SPECIFICATION FairSpec
CONSTANTS
    Windows = {80, 100, 120}
    PipeSize = 2
    BufSize = 1
    MaxOutput = 2
    MaxResizes = 4
INVARIANTS TypeOK NoStrayWrite Restored
PROPERTIES SizeFollows RunEnds
\* A run ends.
CHECK_DEADLOCK FALSE
