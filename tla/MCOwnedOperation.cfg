SPECIFICATION FairSpec
CONSTANT MaxOps = 3
INVARIANTS
    SingleFlight
    FenceCoversWork
    ExactlyOneDestiny
PROPERTY FenceReleased
\* The executor's life ends: every thread gone, every descriptor closed.
CHECK_DEADLOCK FALSE
