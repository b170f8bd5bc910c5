SPECIFICATION FairSpec
CONSTANTS
    MaxStreams = 2
    ChanSize = 2
PROPERTIES
    CurrentStreamSends
CHECK_DEADLOCK FALSE
