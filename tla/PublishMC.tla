----------------------------- MODULE PublishMC -----------------------------
(* Trees for checking Publish.  The tree committed is R; the target's      *)
(* master holds the empty tree E0 and the object Y.                         *)
EXTENDS Publish, ObjectCodec, TLC

CONSTANTS R, T1, E0, O1, O2, X, Y, b1, b2

MCTrees == {R, T1, E0}
MCObjects == {O1, O2, X, Y}
MCBlobs == {b1, b2}

(* R = [O1, T1, O2, Y] where T1 = [X]; O1 has blob b1, O2 has blob b2. *)
MCChildren == (R :> <<O1, T1, O2, Y>>) @@ (T1 :> <<X>>) @@ (E0 :> <<>>)
MCBlobOf == (O1 :> b1) @@ (O2 :> b2) @@ (X :> NoBlob) @@ (Y :> NoBlob)

(* Fetched: R was read from Src and edited (hydrated), so it keeps        *)
(* `_repo` Src; O1 is a fetched object edited in memory whose blob is the  *)
(* sha1 of a blob in Src; T1 is a fetched tree left lazy; O2 is a new      *)
(* object with a local BlobBuf; Y is a plain {type, sha1} entry of R.      *)
FetchedForm == (R :> "hydrated") @@ (T1 :> "lazy") @@ (E0 :> "hydrated")
               @@ (O1 :> "hydrated") @@ (O2 :> "hydrated")
               @@ (X :> "hydrated") @@ (Y :> "ref")
FetchedRepo == (R :> Src) @@ (T1 :> Src) @@ (E0 :> Tgt) @@ (O1 :> Src)
               @@ (O2 :> NoRepo) @@ (X :> Src) @@ (Y :> Src)

(* Lazy: a new tree R that holds fetched entries only as lazy Entries,     *)
(* and a new object O2 with a local blob.                                  *)
LazyForm == (R :> "hydrated") @@ (T1 :> "lazy") @@ (E0 :> "hydrated")
            @@ (O1 :> "lazy") @@ (O2 :> "hydrated")
            @@ (X :> "hydrated") @@ (Y :> "lazy")
LazyRepo == (R :> NoRepo) @@ (T1 :> Src) @@ (E0 :> Tgt) @@ (O1 :> Src)
            @@ (O2 :> NoRepo) @@ (X :> Src) @@ (Y :> Src)

MCBlobForm == (O1 :> "sha1") @@ (O2 :> "local") @@ (X :> "sha1") @@ (Y :> "sha1")

MCTgtInit == {E0, Y}

(* Content sizes: all fit the buffer; R alone exceeds POST_BUFFER_SIZE;    *)
(* R exceeds POST_BUFFER_SIZE_LIMIT.                                       *)
SizeWith(r) == (R :> r) @@ (T1 :> 1) @@ (E0 :> 1) @@ (O1 :> 2) @@ (O2 :> 2)
               @@ (X :> 1) @@ (Y :> 1)
MCSizes == {SizeWith(2), SizeWith(4), SizeWith(5)}

(* O2 is built in memory with a BlobBuf: its content is any content with  *)
(* a pending Blob the accessors can reach, idversion 1 objects with        *)
(* meta.content included, as the index documents nogjob builds are        *)
(* (nogjob.py 130-132).  In the lazy tree it is Object() with text and     *)
(* blob set.                                                               *)
BufContents == {c \in ObjectContents : c.blob = Buf}
NewObject == setText(setBlob(DefaultContent, Buf), "text")

(* One commitTree call of the fetched tree; up to three calls of the lazy  *)
(* one (retrying the fetched tree is retry_after_failed_flush).            *)
FetchedOnce == [form : {FetchedForm}, repo : {FetchedRepo}, size : MCSizes,
                attempts : {1}, content : {O2 :> c : c \in BufContents}]
LazyRetried(n) == [form : {LazyForm}, repo : {LazyRepo}, size : MCSizes,
                   attempts : {n}, content : {O2 :> NewObject}]
FetchedRetried(n) == [form : {FetchedForm}, repo : {FetchedRepo}, size : MCSizes,
                      attempts : {n}, content : {O2 :> NewObject}]
CoreInputs == FetchedOnce \cup LazyRetried(3)
FetchedTwice == FetchedRetried(2)
LazyTwice == LazyRetried(2)
LazyOnce == LazyRetried(1)

=============================================================================
