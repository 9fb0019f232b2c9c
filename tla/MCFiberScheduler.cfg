\* Four fibers, four units, one yield each.  The processor loop idles
\* once every completion is delivered and every fiber has returned, so a
\* state without successors is not a deadlock.
CONSTANTS
    f1 = f1
    f2 = f2
    f3 = f3
    f4 = f4
    None = None
    Fibers <- MCFibers
    Credits <- MCCredits
    MaxYield = 1
SPECIFICATION Spec
PROPERTY AllServed
CHECK_DEADLOCK FALSE
