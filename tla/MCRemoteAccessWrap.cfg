CONSTANTS
    W <- MCW
    RegionAddr <- MCRegionAddr
    RegionLen <- MCRegionLen
    BufLen <- MCBufLen
    SgeLens <- MCSgeLens
    MaxSge <- MCMaxSge
    SqDepth <- MCSqDepth
    Offsets <- MCOffsetsAll
SPECIFICATION Spec
INVARIANT InBounds
CHECK_DEADLOCK FALSE
