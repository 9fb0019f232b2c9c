CONSTANTS
    W <- MCW
    RegionAddr <- MCRegionAddr
    RegionLen <- MCRegionLen
    BufLen <- MCBufLen
    SgeLens <- MCSgeLens
    MaxSge <- MCMaxSge
    SqDepth <- MCSqDepth
    Offsets <- MCOffsetsNoWrap
SPECIFICATION Spec
INVARIANT TypeOK
INVARIANT InBounds
INVARIANT OutOfRangeExactly
PROPERTY PostOnlyOnSuccess
\* A data operation on a socket without a queue pair crashes the process;
\* nothing runs after it.
CHECK_DEADLOCK FALSE
