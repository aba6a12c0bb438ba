\* Two threads share both cache tiers for one SHA-1 (the races are per key), with one crash and
\* one hand-edited file.
CONSTANTS
    t1 = t1
    t2 = t2
    k1 = k1
    Threads <- MCThreads
    Keys <- MCKeys
    MaxCrashes = 1
    MaxTamper = 1
    ErrataPolicy = "error"
SPECIFICATION Spec
SYMMETRY ThreadSymmetry
INVARIANT EntryReadVerified BlobFilesComplete TypeOK
