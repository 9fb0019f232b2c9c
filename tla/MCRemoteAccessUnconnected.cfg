\* Socket calls in any order, including data operations before the
\* handshake and after the drain.
CONSTANTS
    W <- MCW
    RegionAddr <- MCRegionAddr
    RegionLen <- MCRegionLen
    BufLen <- MCBufLen
    SgeLens <- MCSgeLens
    MaxSge <- MCMaxSge
    SqDepth <- MCSqDepth
    Offsets <- MCOffsetsNoWrap
SPECIFICATION Spec
INVARIANT NoPostWithoutQueuePair
CHECK_DEADLOCK FALSE
