\* The calls of publish_core against a server that may answer a bulk POST
\* with 201 and an echo of only the entries it stored.
CONSTANTS
    Tgt = Tgt
    Src = Src
    NoRepo = NoRepo
    NoBlob = NoBlob
    R = R
    T1 = T1
    E0 = E0
    O1 = O1
    O2 = O2
    X = X
    Y = Y
    b1 = b1
    b2 = b2
    Trees <- MCTrees
    Objects <- MCObjects
    Blobs <- MCBlobs
    Root <- R
    BaseTree <- E0
    Children <- MCChildren
    BlobOf <- MCBlobOf
    BlobForm <- MCBlobForm
    TgtInit <- MCTgtInit
    Inputs <- CoreInputs
    CopySize = 1
    POST_BUFFER_SIZE = 3
    POST_BUFFER_SIZE_LIMIT = 4
    NParts = 2
SPECIFICATION SpecShortEcho
\* The caller stops after "done" or after its last attempt.
CHECK_DEADLOCK FALSE
INVARIANT RefClosed
