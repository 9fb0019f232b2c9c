\* Three threads calling lock(), try_lock() and unlock() in any order.
CONSTANTS
    t1 = t1
    t2 = t2
    t3 = t3
    Threads <- MCThreads
SPECIFICATION Spec
INVARIANT MutualExclusion
