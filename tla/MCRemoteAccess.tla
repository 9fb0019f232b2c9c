--------------------------- MODULE MCRemoteAccess ----------------------------
EXTENDS RemoteAccess

\* A 4-bit size_t; a region of 6 bytes at address 8; a 3-byte send buffer;
\* scatter-gather entries of 1 or 2 bytes, at most 2 of them.
MCW == 4
MCRegionAddr == 8
MCRegionLen == 6
MCBufLen == 3
MCSgeLens == {1, 2}
MCMaxSge == 2
MCSqDepth == 1

\* Every offset a size_t can hold.
MCOffsetsAll == 0..(2^MCW - 1)

\* Offsets whose sum with any local length (at most 4) does not wrap: every
\* fitting offset and many that do not fit.
MCOffsetsNoWrap == 0..(2^MCW - 1 - MCBufLen - 1)

====
