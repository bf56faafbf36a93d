\* Two threads, calls nested two deep, wakes nobody asked for; every event
\* a call waits for happens.
SPECIFICATION FairSpec
CONSTANTS
    Threads = {t1, t2}
    Wakers = {w1}
    Calls = {c1, c2}
    None = None
    MaxDepth = 2
    MaxStray = 2
INVARIANT NoLostWakeup
PROPERTIES EveryCallReturns ImplementsWakeups
CHECK_DEADLOCK FALSE
