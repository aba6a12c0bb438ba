\* A tryLock reply is lost and the daemon tries again.
CONSTANTS
    d1 = d1
    d2 = d2
    d3 = d3
    NoHolder = NoHolder
    Holders <- MCHolders
    Expire = 5
    RenewDeadlines = {1}
SPECIFICATION Spec
INVARIANT RefusedOnlyByOther
