\* A blob file in the cache is edited by hand after it was verified, and a
\* thread opens the blob again.
CONSTANTS
    t1 = t1
    t2 = t2
    k1 = k1
    Threads <- MCThreads
    Keys <- MCKeys
    MaxCrashes = 1
    MaxTamper = 1
    ErrataPolicy = "error"
SPECIFICATION Spec
SYMMETRY ThreadSymmetry
INVARIANT BlobReadVerified
