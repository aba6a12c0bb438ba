\* Three daemons lock, lose replies, unlock and renew; in one set of
\* behaviours they renew at least every four minutes, in the other a holder
\* may stall for six, past LOCK_EXPIRE_TIMEDELTA; expired entries are reaped.
CONSTANTS
    d1 = d1
    d2 = d2
    d3 = d3
    NoHolder = NoHolder
    Holders <- MCHolders
    Expire = 5
    RenewDeadlines = {4, 6}
SPECIFICATION Spec
SYMMETRY HolderSymmetry
INVARIANT MutualExclusion
PROPERTY LockNotStolen
