\* The nog2go caller retries commitTree after a failure, with a tree that
\* holds fetched entries only as lazy Entries (BUF_SIZE = 3).
CONSTANTS
    Tgt = Tgt
    Src = Src
    NoRepo = NoRepo
    NoBlob = NoBlob
    R = R
    T1 = T1
    E0 = E0
    O1 = O1
    O2 = O2
    X = X
    Y = Y
    b1 = b1
    b2 = b2
    Trees <- MCTrees
    Objects <- MCObjects
    Blobs <- MCBlobs
    Root <- R
    BaseTree <- E0
    Children <- MCChildren
    BlobOf <- MCBlobOf
    BlobForm <- MCBlobForm
    TgtInit <- MCTgtInit
    Inputs <- LazyTwice
    CopySize = 1
    POST_BUFFER_SIZE = 3
    POST_BUFFER_SIZE_LIMIT = 3
    NParts = 2
SPECIFICATION Spec2go
CHECK_DEADLOCK FALSE
INVARIANT StoreClosed
