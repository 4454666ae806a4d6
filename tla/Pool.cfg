SPECIFICATION FairSpec
CONSTANTS
    N = 4
    Workers = {w1, w2, w3}
INVARIANT PoolInv
INVARIANT SendsAreSafe
INVARIANT NothingIsLost
INVARIANT EmptySuccessIsEarned
PROPERTY ImplementsPoolPromise
PROPERTY PoolReturns
\* The call returns and nothing is left to do.
CHECK_DEADLOCK FALSE
