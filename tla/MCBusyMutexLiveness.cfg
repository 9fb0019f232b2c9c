\* Does every lock() call return?
CONSTANTS
    t1 = t1
    t2 = t2
    t3 = t3
    Threads <- MCThreads
SPECIFICATION Spec
PROPERTY LockEventuallyAcquired
