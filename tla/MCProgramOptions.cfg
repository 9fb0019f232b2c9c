CONSTANTS
    OptionList <- MCOptionList
    Argvs <- MCArgvs
SPECIFICATION Spec
INVARIANT TypeOK
INVARIANT ReturnsAsSpecified
INVARIANT OutOfBoundsNeverReturns
CHECK_DEADLOCK FALSE
