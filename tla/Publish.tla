------------------------------ MODULE Publish ------------------------------
(***************************************************************************)
(* The publication pipeline of nogpy (src/nogpackages/nogpy/nog.py):       *)
(* RemoteRepo.commitTree posts an in-memory tree through a PostStream      *)
(* (post-order tree walk, staging maps, queue, buffer-triggered flushes of *)
(* stat / parallel blob upload / bulk POST), then posts the commit and     *)
(* moves `branches/master` by compare-and-swap.  The target repository on  *)
(* the server is modelled by the state the client's calls change: the set  *)
(* of entries and blobs it holds, its commits and its master ref.          *)
(*                                                                         *)
(* Content is abstracted to identities: an entry or blob id stands for its *)
(* sha1, and Children / BlobOf give what its canonical content references. *)
(* What the client holds in memory for each node is given by Form:         *)
(*   "hydrated" an Entry with `_content` (its `_sha1` is None),            *)
(*   "lazy"     an Entry known by `_sha1` only,                            *)
(*   "ref"      a plain {type, sha1} dict inside its parent's entries,     *)
(* and for a hydrated object with a blob, BlobForm says whether `blob` is  *)
(* a sha1 string ("sha1") or a BlobFile / BlobBuf ("local").  The `_repo`  *)
(* pointer of every in-memory Entry is the variable erepo.                 *)
(***************************************************************************)
EXTENDS Integers, Sequences, SequencesExt, FiniteSets, ObjectCodec

CONSTANTS
    Tgt,            \* the RemoteRepo the stream posts to (stream.repo)
    Src,            \* another RemoteRepo the client fetched entries from
    NoRepo,         \* `_repo` of an Entry created locally (None)
    Trees, Objects, Blobs,
    NoBlob,         \* `blob` is None or NULL_SHA1
    Root,           \* the tree passed to commitTree
    BaseTree,       \* the tree of the target's current master commit
    Children,       \* [Trees -> Seq(Trees \cup Objects)], entries of a tree
    BlobOf,         \* [Objects -> Blobs \cup {NoBlob}]
    BlobForm,       \* [Objects -> {"sha1", "local"}]
    TgtInit,        \* what the target repository holds initially
    Inputs,         \* the trees and callers of a run, [form, repo, size, attempts, content]
    CopySize,       \* len(stringify({'copy': {...}}))
    POST_BUFFER_SIZE,
    POST_BUFFER_SIZE_LIMIT,
    NParts          \* the parts of a multipart blob upload

Entries == Trees \cup Objects
Ids == Entries \cup Blobs
Repos == {Tgt, Src, NoRepo}

ASSUME /\ Root \in Trees /\ BaseTree \in Trees
       /\ POST_BUFFER_SIZE \in Nat /\ POST_BUFFER_SIZE_LIMIT \in Nat
       /\ POST_BUFFER_SIZE <= POST_BUFFER_SIZE_LIMIT
       /\ \A i \in Inputs : i.attempts \in Nat \ {0}
       /\ \A i \in Inputs : \A o \in DOMAIN i.content :
            /\ o \in Objects /\ i.content[o] \in Content
            /\ BlobForm[o] = "local" => i.content[o].blob = Buf
       /\ NParts \in Nat \ {0}

(* The four staging maps of a PostStream, by the kind of item they hold:   *)
(* "post" `_entries`, "copy" `_copyEntries`, "blob" `_blobs`, "copyBlob"   *)
(* `_copyBlobs`.  A queue item {type, sha1} is an Item of the same kind.   *)
Kinds == {"post", "copy", "blob", "copyBlob"}
Item == [kind : Kinds, id : Ids]
Op(k, x) == [kind |-> k, id |-> x]

(* The ids the canonical content of x references. *)
Refs(x) ==
    CASE x \in Trees                        -> ToSet(Children[x])
      [] x \in Objects /\ BlobOf[x] \in Blobs -> {BlobOf[x]}
      [] OTHER                              -> {}

RECURSIVE Closure(_)
Closure(x) == {x} \cup UNION {Closure(y) : y \in Refs(x)}

VARIABLES
    store,      \* server: ids the target repository holds
    commits,    \* server: the target's commits; a commit is identified by its content
    ref,        \* server: `branches/master` of the target
    corrupt,    \* server: blobs whose stored bytes are not those of their sha1
    known,      \* RemoteRepo._knownEntryIds of the target RemoteRepo
    erepo,      \* `_repo` of every in-memory Entry
    staged,     \* PostStream staging maps, [Kinds -> SUBSET Ids]
    queue,      \* PostStream._queue
    bufSize,    \* PostStream._bufSize
    ops,        \* the enqueue calls of the tree walk still to be made
    pc,         \* where the caller's commitTree call is
    ctx,        \* which call of flush() is running: "maybe", "close", "exit"
    uploads,    \* uploadBlobs: blobs still in flight, and whether one failed
    bulk,       \* the missing items flush() posts in bulk
    parent,     \* the parent the caller passes to commitTree
    newCommit,  \* the id postCommitContent returned
    attempts,   \* commitTree calls made
    other,      \* another client has moved master
    input       \* the tree committed and its caller, chosen from Inputs

vars == <<store, commits, ref, corrupt, known, erepo, staged, queue, bufSize, ops,
          pc, ctx, uploads, bulk, parent, newCommit, attempts, other, input>>
server == <<store, commits, ref, corrupt>>
stream == <<staged, queue, bufSize>>

(* What the caller holds of each node (Form: a hydrated Entry, a lazy      *)
(* Entry, or a plain {type, sha1} dict), and how often it calls            *)
(* commitTree with the same tree.  input.repo is each node's initial       *)
(* `_repo`, input.size[x] is len(stringify(content)) of x.                 *)
(* input.content is the content (ObjectCodec) of the objects the caller    *)
(* built or edited in memory.                                              *)
Form == input.form
MaxAttempts == input.attempts

(* The objects whose _postToStream raises `Invalid Object`. *)
Invalid == {o \in DOMAIN input.content : isInvalid(input.content[o])}

-----------------------------------------------------------------------------
(* The tree walk: Tree._postToStream (walk) and Object._postToStream,      *)
(* unfolded into the sequence of PostStream enqueue calls they make.       *)
(* An item "post" x is `_enqueue` of x's content followed by               *)
(* `x._repo = stream.repo`; "copy" is `_enqueueCopyEntry`, "blob"          *)
(* `_enqueueBlob`, "copyBlob" `_enqueueCopyBlob`.  The walk reads `_repo`  *)
(* of a node only when it visits it, and a node's `_repo` changes only at  *)
(* the end of its own visit, so unfolding the walk when it starts gives    *)
(* the calls the recursive walk makes (no node occurs twice in the tree).  *)

(* _isFromOtherRepo: `entry._repo and (entry._repo is not stream.repo)` *)
IsFromOtherRepo(r) == r \notin {NoRepo, Tgt}

CopyIfForeign(x, r) == IF IsFromOtherRepo(r) THEN <<Op("copy", x)>> ELSE <<>>

BlobOps(o, rp) ==
    CASE BlobOf[o] = NoBlob       -> <<>>
      [] BlobForm[o] = "local"    -> <<Op("blob", BlobOf[o])>>
      [] IsFromOtherRepo(rp[o])   -> <<Op("copyBlob", BlobOf[o])>>
      [] OTHER                    -> <<>>

(* An "invalid" call is the `Invalid Object` check: it comes after the    *)
(* blob is enqueued and before the object's own _enqueue.                  *)
ObjectPostOps(o, rp) ==
    IF Form[o] = "lazy" THEN CopyIfForeign(o, rp[o])
    ELSE BlobOps(o, rp) \o <<Op(IF o \in Invalid THEN "invalid" ELSE "post", o)>>

RECURSIVE Walk(_, _), ChildOps(_, _, _)

ChildOps(t, c, rp) ==
    CASE Form[c] = "ref" -> CopyIfForeign(c, rp[t])
      [] c \in Objects   -> ObjectPostOps(c, rp)
      [] OTHER           -> Walk(c, rp)

(* A walk that stages a tree before its entries. *)
WalkPreOrder(t, rp) ==
    IF Form[t] = "lazy" THEN CopyIfForeign(t, rp[t])
    ELSE <<Op("post", t)>> \o
         FlattenSeq([i \in DOMAIN Children[t] |-> ChildOps(t, Children[t][i], rp)])

Walk(t, rp) ==
    IF Form[t] = "lazy" THEN CopyIfForeign(t, rp[t])
    ELSE FlattenSeq([i \in DOMAIN Children[t] |-> ChildOps(t, Children[t][i], rp)])
         \o <<Op("post", t)>>

-----------------------------------------------------------------------------
(* PostStream: dedup checks and the enqueue calls. *)

(* PostStream._hasEntry: staged in this stream, or known to be in the repo. *)
HasEntry(x) == x \in staged["post"] \cup staged["copy"] \cup known

(* PostStream._hasBlob.  RemoteRepo._knownBlobs is filled only by           *)
(* prefetchBlob(s), which commitTree never calls, so it is empty here.     *)
HasBlob(b) == b \in staged["blob"] \cup staged["copyBlob"]

HasItem(it) == IF it.kind \in {"post", "copy"} THEN HasEntry(it.id) ELSE HasBlob(it.id)

ItemSize(it) == IF it.kind = "post" THEN input.size[it.id] ELSE CopySize

(* `tree._repo = stream.repo` / `self._repo = stream.repo` after _enqueue. *)
Retarget(it) ==
    erepo' = IF it.kind = "post" THEN [erepo EXCEPT ![it.id] = Tgt] ELSE erepo

StartFlush(c) == pc' = "stat" /\ ctx' = c

(* The rest of an enqueue call once _maybeFlush has returned: store the    *)
(* content in its staging map and append {type, sha1} to the queue.        *)
Stage(it) ==
    /\ staged' = [staged EXCEPT ![it.kind] = @ \cup {it.id}]
    /\ queue' = Append(queue, it)
    /\ bufSize' = IF it.kind = "blob" THEN bufSize ELSE bufSize + ItemSize(it)
    /\ ops' = Tail(ops)
    /\ Retarget(it)
    /\ pc' = "walk"

(* RemoteRepo.getMaster: getRef('branches/master'), the commit it names. *)
getMaster == ref

(* RemoteRepo._commitTree -> postTree: the caller reads master (getMaster) *)
(* and calls commitTree with it as parent; a retry after a failed call may *)
(* pass the parent it had or re-read master.  A fresh PostStream starts    *)
(* the walk; RemoteRepo._knownEntryIds and the `_repo` pointers persist.   *)
CommitTree ==
    /\ pc \in {"idle", "failed", "conflict"}
    /\ attempts < MaxAttempts
    /\ \E p \in IF attempts = 0 THEN {getMaster} ELSE {parent, getMaster} : parent' = p
    /\ ops' = Walk(Root, erepo)
    /\ staged' = [k \in Kinds |-> {}]
    /\ queue' = <<>>
    /\ bufSize' = 0
    /\ pc' = "walk"
    /\ attempts' = attempts + 1
    /\ UNCHANGED <<server, known, erepo, ctx, uploads, bulk, newCommit, other, input>>

(* The early return of _enqueue / _enqueueCopyEntry / _enqueueBlob /       *)
(* _enqueueCopyBlob; the walk still retargets a posted node.               *)
EnqueueSkip ==
    /\ pc = "walk"
    /\ ops # <<>>
    /\ Head(ops).kind # "invalid"
    /\ HasItem(Head(ops))
    /\ ops' = Tail(ops)
    /\ Retarget(Head(ops))
    /\ UNCHANGED <<server, known, stream, pc, ctx, uploads, bulk, parent,
                   newCommit, attempts, other, input>>

(* _enqueueBlob: no size accounting, no flush. *)
EnqueueBlob ==
    /\ pc = "walk"
    /\ ops # <<>>
    /\ Head(ops).kind = "blob"
    /\ ~HasItem(Head(ops))
    /\ Stage(Head(ops))
    /\ UNCHANGED <<server, known, ctx, uploads, bulk, parent, newCommit,
                   attempts, other, input>>

(* A _maybeFlush that compares the entry alone with the buffer size. *)
MaybeFlushIgnoringBuffer ==
    /\ pc = "walk"
    /\ ops # <<>>
    /\ Head(ops).kind \notin {"blob", "invalid"}
    /\ ~HasItem(Head(ops))
    /\ \/ /\ ItemSize(Head(ops)) > POST_BUFFER_SIZE
          /\ StartFlush("maybe")
       \/ /\ ItemSize(Head(ops)) <= POST_BUFFER_SIZE
          /\ pc' = "add"
          /\ UNCHANGED ctx
    /\ UNCHANGED <<server, known, erepo, stream, ops, uploads, bulk, parent,
                   newCommit, attempts, other, input>>

(* _maybeFlush, first half: flush before adding when the buffer would      *)
(* exceed POST_BUFFER_SIZE.                                                *)
MaybeFlush ==
    /\ pc = "walk"
    /\ ops # <<>>
    /\ Head(ops).kind \notin {"blob", "invalid"}
    /\ ~HasItem(Head(ops))
    /\ \/ /\ bufSize + ItemSize(Head(ops)) > POST_BUFFER_SIZE
          /\ StartFlush("maybe")
       \/ /\ bufSize + ItemSize(Head(ops)) <= POST_BUFFER_SIZE
          /\ pc' = "add"
          /\ UNCHANGED ctx
    /\ UNCHANGED <<server, known, erepo, stream, ops, uploads, bulk, parent,
                   newCommit, attempts, other, input>>

(* An enqueue that adds the entry without the `Entry too large` check. *)
AddWithoutLimit ==
    /\ pc = "add"
    /\ Stage(Head(ops))
    /\ UNCHANGED <<server, known, ctx, uploads, bulk, parent, newCommit,
                   attempts, other, input>>

(* _maybeFlush, second half, and the rest of the enqueue call. *)
Add ==
    /\ pc = "add"
    /\ ItemSize(Head(ops)) <= POST_BUFFER_SIZE_LIMIT
    /\ Stage(Head(ops))
    /\ UNCHANGED <<server, known, ctx, uploads, bulk, parent, newCommit,
                   attempts, other, input>>

(* `Entry too large` raised in _maybeFlush; the exception leaves the       *)
(* `with createPostStream()` block, whose __exit__ calls close() = flush(). *)
EntryTooLarge ==
    /\ pc = "add"
    /\ ItemSize(Head(ops)) > POST_BUFFER_SIZE_LIMIT
    /\ StartFlush("exit")
    /\ UNCHANGED <<server, known, erepo, stream, ops, uploads, bulk, parent,
                   newCommit, attempts, other, input>>

(* Object._postToStream raises RuntimeError `Invalid Object`; the         *)
(* exception leaves the walk and the `with` block, and __exit__ flushes    *)
(* what the walk has staged so far, the object's blob included.            *)
InvalidObject ==
    /\ pc = "walk"
    /\ ops # <<>>
    /\ Head(ops).kind = "invalid"
    /\ StartFlush("exit")
    /\ UNCHANGED <<server, known, erepo, stream, ops, uploads, bulk, parent,
                   newCommit, attempts, other, input>>

(* A stream whose __exit__ does not flush what is still queued. *)
CloseNoFlush ==
    /\ pc = "walk"
    /\ ops = <<>>
    /\ pc' = "commit"
    /\ UNCHANGED <<server, known, erepo, stream, ops, ctx, uploads, bulk,
                   parent, newCommit, attempts, other, input>>

(* The walk has returned: __exit__ calls close() = flush(). *)
Close ==
    /\ pc = "walk"
    /\ ops = <<>>
    /\ StartFlush("close")
    /\ UNCHANGED <<server, known, erepo, stream, ops, uploads, bulk, parent,
                   newCommit, attempts, other, input>>

-----------------------------------------------------------------------------
(* PostStream.flush(): stat, uploadBlobs, postBulk, _initQueue.  A flush   *)
(* that raises leaves the staging maps and the queue as they are.          *)

(* What the server adds when it accepts an item: a copy-by-reference       *)
(* copies the entry from the source repository with what it references    *)
(* (the source holds the closure of what the client fetched from it).     *)
Applied(it) == IF it.kind \in {"copy", "copyBlob"} THEN Closure(it.id) ELSE {it.id}

(* A stat that records every echoed id, `missing` ones included, as the    *)
(* older nog2go client does (src/nog2go/nog.py stat).                      *)
FlushStatRecordsAll ==
    LET missing(it) == it.id \notin store
    IN /\ pc = "stat"
       /\ known' = known \cup {queue[i].id : i \in DOMAIN queue}
       /\ uploads' = [uploads EXCEPT
                         !.pending = {queue[i].id : i \in {i \in DOMAIN queue :
                                        missing(queue[i]) /\ queue[i].kind = "blob"}},
                         !.failed = FALSE]
       /\ bulk' = SelectSeq(queue, LAMBDA it : missing(it) /\ it.kind # "blob")
       /\ pc' = "upload"
       /\ UNCHANGED <<server, erepo, stream, ops, ctx, parent, newCommit,
                      attempts, other, input>>

(* RemoteRepo.stat(self._queue) and the partition of its answer: missing   *)
(* blobs staged with content go to uploadBlobs, all other missing items    *)
(* to the bulk POST, in queue order.  stat records the ids reported        *)
(* `exists` in _knownEntryIds.                                             *)
FlushStat ==
    LET missing(it) == it.id \notin store
    IN /\ pc = "stat"
       /\ known' = known \cup {queue[i].id : i \in {i \in DOMAIN queue : ~missing(queue[i])}}
       /\ uploads' = [uploads EXCEPT
                         !.pending = {queue[i].id : i \in {i \in DOMAIN queue :
                                        missing(queue[i]) /\ queue[i].kind = "blob"}},
                         !.failed = FALSE]
       /\ bulk' = SelectSeq(queue, LAMBDA it : missing(it) /\ it.kind # "blob")
       /\ pc' = "upload"
       /\ UNCHANGED <<server, erepo, stream, ops, ctx, parent, newCommit,
                      attempts, other, input>>

(* The stat request fails (transport error or non-200 status). *)
StatFail ==
    /\ pc = "stat"
    /\ pc' = "raise"
    /\ UNCHANGED <<server, known, erepo, stream, ops, ctx, uploads, bulk,
                   parent, newCommit, attempts, other, input>>

(* RemoteRepo.uploadBlob of b, run by one worker of the ThreadPoolExecutor *)
(* in uploadBlobs; workers interleave.  uploads.part[b] is where the       *)
(* worker is: "start" before _startUpload, "put" with part n to PUT next,  *)
(* "complete" once the last part is in; `bad` records that S3 received     *)
(* bytes of this upload other than those sent.  A worker that raises       *)
(* leaves b; the pool waits for the others.                                *)
UploadIdle == [st |-> "start", n |-> 1, bad |-> FALSE]

UploadFails(b) ==
    uploads' = [uploads EXCEPT !.pending = @ \ {b}, !.failed = TRUE,
                               !.part[b] = UploadIdle]

(* _startUpload: 201 with the upload plan (`limit=1`: the first part), or  *)
(* an error.  Its 409 `already exists` needs another uploader of b, which  *)
(* the model does not have: stat found b missing in this flush.            *)
StartUpload(b) ==
    /\ pc = "upload"
    /\ b \in uploads.pending
    /\ uploads.part[b].st = "start"
    /\ \/ uploads' = [uploads EXCEPT !.part[b].st = "put"]
       \/ UploadFails(b)
    /\ UNCHANGED <<server, known, erepo, stream, ops, pc, ctx, bulk, parent,
                   newCommit, attempts, other, input>>

(* Part n is in: the loop breaks after the last part, else                 *)
(* getNextUploadParts fetches the next descriptor (the failure of that GET *)
(* is a failure of the step).                                              *)
PartDone(b, bad) ==
    uploads' = [uploads EXCEPT !.part[b] =
                  [st |-> IF @.n = NParts THEN "complete" ELSE "put",
                   n |-> IF @.n = NParts THEN @.n ELSE @.n + 1,
                   bad |-> @.bad \/ bad]]

(* putS3File / putS3Buf: PUT the bytes of the part to its presigned URL    *)
(* and, when checksEtag, verifyEtag: S3's ETag of what it received must be *)
(* the MD5 of what was sent.  The PUT may fail or time out, or reach S3    *)
(* with other bytes than sent.                                             *)
PutS3Part(b, checksEtag) ==
    /\ pc = "upload"
    /\ b \in uploads.pending
    /\ uploads.part[b].st = "put"
    /\ \/ PartDone(b, FALSE)
       \/ IF checksEtag THEN UploadFails(b) ELSE PartDone(b, TRUE)
       \/ UploadFails(b)
    /\ UNCHANGED <<server, known, erepo, stream, ops, pc, ctx, bulk, parent,
                   newCommit, attempts, other, input>>

PutPart(b) == PutS3Part(b, TRUE)

(* postCompleteUpload: S3 assembles the parts it holds and the blob is in  *)
(* the repository (what the server checks of the assembled object is not  *)
(* specified: it is taken as is), or the POST fails.                       *)
CompleteUpload(b) ==
    /\ pc = "upload"
    /\ b \in uploads.pending
    /\ uploads.part[b].st = "complete"
    /\ \/ /\ store' = store \cup {b}
          /\ corrupt' = IF uploads.part[b].bad THEN corrupt \cup {b} ELSE corrupt
          /\ uploads' = [uploads EXCEPT !.pending = @ \ {b}, !.part[b] = UploadIdle]
       \/ /\ UploadFails(b)
          /\ UNCHANGED <<store, corrupt>>
    /\ UNCHANGED <<commits, ref, known, erepo, stream, ops, pc, ctx, bulk,
                   parent, newCommit, attempts, other, input>>

(* Leaving `with ThreadPoolExecutor` waits for all workers; f.result()     *)
(* re-raises the first failure.                                            *)
UploadsDone ==
    /\ pc = "upload"
    /\ uploads.pending = {}
    /\ pc' = IF uploads.failed THEN "raise" ELSE "bulk"
    /\ UNCHANGED <<server, known, erepo, stream, ops, ctx, uploads, bulk,
                   parent, newCommit, attempts, other, input>>

(* Where a flush goes when it returns or raises, by which call made it:    *)
(* _maybeFlush continues with the size check; close() returns from the    *)
(* `with` and commitTree continues; a flush from __exit__ after an         *)
(* exception ends the call with that exception.  An exception from the     *)
(* flush in _maybeFlush leaves the `with` block, and __exit__ flushes      *)
(* again.                                                                  *)
FlushReturnsTo == [maybe |-> "add", close |-> "commit", exit |-> "failed"]

(* postBulk succeeds: the server stores every item, _knownEntryIds gets    *)
(* every echoed id, the echoes match, _initQueue resets queue and size.    *)
PostBulk ==
    /\ pc = "bulk"
    /\ store' = store \cup UNION {Applied(bulk[i]) : i \in DOMAIN bulk}
    /\ known' = known \cup {bulk[i].id : i \in DOMAIN bulk}
    /\ queue' = <<>>
    /\ bufSize' = 0
    /\ pc' = FlushReturnsTo[ctx]
    /\ UNCHANGED <<corrupt, commits, ref, erepo, staged, ops, ctx, uploads, bulk,
                   parent, newCommit, attempts, other, input>>

(* postBulk raises: the server may have stored a prefix of the batch       *)
(* before the error, or all of it with the response lost.                  *)
PostBulkFails ==
    /\ pc = "bulk"
    /\ \E k \in 0 .. Len(bulk) :
          store' = store \cup UNION {Applied(bulk[i]) : i \in 1 .. k}
    /\ pc' = "raise"
    /\ UNCHANGED <<corrupt, commits, ref, known, erepo, stream, ops, ctx, uploads,
                   bulk, parent, newCommit, attempts, other, input>>

(* The check of flush() after postBulk: `for e, r in zip(expect, res)`     *)
(* raises on the first pair that differs; zip stops at the shorter list.   *)
EchoMatches(expect, res) ==
    \A i \in 1 .. (IF Len(expect) < Len(res) THEN Len(expect) ELSE Len(res)) :
        expect[i] = res[i]

(* A server or proxy fault: postBulk gets a 201 whose `entries` echo only  *)
(* the first k entries of the batch, the ones the server stored.  postBulk *)
(* adds the echoed sha1s to _knownEntryIds and flush() checks the echo.    *)
PostBulkShortEcho ==
    /\ pc = "bulk"
    /\ \E k \in 0 .. Len(bulk) - 1 :
          LET res == SubSeq(bulk, 1, k)
          IN /\ store' = store \cup UNION {Applied(res[i]) : i \in DOMAIN res}
             /\ known' = known \cup {res[i].id : i \in DOMAIN res}
             /\ IF EchoMatches(bulk, res)
                THEN queue' = <<>> /\ bufSize' = 0 /\ pc' = FlushReturnsTo[ctx]
                ELSE pc' = "raise" /\ UNCHANGED <<queue, bufSize>>
    /\ UNCHANGED <<corrupt, commits, ref, erepo, staged, ops, ctx, uploads, bulk,
                   parent, newCommit, attempts, other, input>>

(* A flush error handler that flushes again after every failure. *)
FlushRaisesRetrying ==
    /\ pc = "raise"
    /\ StartFlush(IF ctx = "maybe" THEN "exit" ELSE ctx)
    /\ UNCHANGED <<server, known, erepo, stream, ops, uploads, bulk, parent,
                   newCommit, attempts, other, input>>

FlushRaises ==
    /\ pc = "raise"
    /\ IF ctx = "maybe" THEN StartFlush("exit") ELSE pc' = "failed" /\ UNCHANGED ctx
    /\ UNCHANGED <<server, known, erepo, stream, ops, uploads, bulk, parent,
                   newCommit, attempts, other, input>>

-----------------------------------------------------------------------------
(* The commit: postCommitContent, then updateRef under CAS against         *)
(* parents[0].  A commit id is the sha1 of its content, so a commit is      *)
(* modelled by its content [tree, parents]; subject, message and meta are  *)
(* the same on every call.                                                 *)

Commit(t, ps) == [tree |-> t, parents |-> ps]

PostCommitContent ==
    /\ pc = "commit"
    /\ newCommit' = Commit(Root, <<parent>>)
    /\ commits' = commits \cup {newCommit'}
    /\ pc' = "updateRef"
    /\ UNCHANGED <<corrupt, store, ref, known, erepo, stream, ops, ctx, uploads, bulk,
                   parent, attempts, other, input>>

(* The POST of the commit fails; the server may have stored it. *)
PostCommitContentFails ==
    /\ pc = "commit"
    /\ \/ commits' = commits \cup {Commit(Root, <<parent>>)}
       \/ UNCHANGED commits
    /\ pc' = "failed"
    /\ UNCHANGED <<corrupt, store, ref, known, erepo, stream, ops, ctx, uploads, bulk,
                   parent, newCommit, attempts, other, input>>

(* The server's CAS on `branches/master`: {new, old} with old = parent. *)
CasApplies == ref = parent

(* A CAS that ignores `old` and moves master to the new commit. *)
UpdateRefAgainstCurrent ==
    /\ pc = "updateRef"
    /\ ref' = newCommit
    /\ pc' = "done"
    /\ UNCHANGED <<corrupt, store, commits, known, erepo, stream, ops, ctx, uploads,
                   bulk, parent, newCommit, attempts, other, input>>

UpdateRef ==
    /\ pc = "updateRef"
    /\ CasApplies
    /\ ref' = newCommit
    /\ pc' = "done"
    /\ UNCHANGED <<corrupt, store, commits, known, erepo, stream, ops, ctx, uploads,
                   bulk, parent, newCommit, attempts, other, input>>

(* _checkStatus(res, 200) raises on the server's CAS conflict. *)
UpdateRefConflict ==
    /\ pc = "updateRef"
    /\ ~CasApplies
    /\ pc' = "conflict"
    /\ UNCHANGED <<corrupt, store, commits, ref, known, erepo, stream, ops, ctx,
                   uploads, bulk, parent, newCommit, attempts, other, input>>

(* The PATCH times out or its response is lost: the server may or may not  *)
(* have applied the CAS; the call raises either way.                        *)
UpdateRefLost ==
    /\ pc = "updateRef"
    /\ \/ CasApplies /\ ref' = newCommit
       \/ UNCHANGED ref
    /\ pc' = "failed"
    /\ UNCHANGED <<corrupt, store, commits, known, erepo, stream, ops, ctx, uploads,
                   bulk, parent, newCommit, attempts, other, input>>

(* Another client commits the target's current tree on top of master,      *)
(* once, at any time.                                                      *)
OtherWriter ==
    /\ ~other
    /\ other' = TRUE
    /\ commits' = commits \cup {Commit(BaseTree, <<ref>>)}
    /\ ref' = Commit(BaseTree, <<ref>>)
    /\ UNCHANGED <<store, corrupt, known, erepo, stream, ops, pc, ctx, uploads,
                   bulk, parent, newCommit, attempts, input>>

-----------------------------------------------------------------------------
InitialCommit == Commit(BaseTree, <<>>)

Init ==
    /\ input \in Inputs
    /\ store = TgtInit
    /\ commits = {InitialCommit}
    /\ ref = InitialCommit
    /\ corrupt = {}
    /\ known = {}
    /\ erepo = input.repo
    /\ staged = [k \in Kinds |-> {}]
    /\ queue = <<>>
    /\ bufSize = 0
    /\ ops = <<>>
    /\ pc = "idle"
    /\ ctx = "close"
    /\ uploads = [pending |-> {}, failed |-> FALSE, part |-> [b \in Blobs |-> UploadIdle]]
    /\ bulk = <<>>
    /\ parent = InitialCommit
    /\ newCommit = InitialCommit
    /\ attempts = 0
    /\ other = FALSE

(* The steps of one commitTree call once the caller has made it. *)
Pipeline ==
    \/ EnqueueSkip \/ EnqueueBlob \/ MaybeFlush \/ Add \/ EntryTooLarge \/ InvalidObject
    \/ Close
    \/ FlushStat \/ StatFail \/ \E b \in Blobs : StartUpload(b) \/ PutPart(b) \/ CompleteUpload(b)
    \/ UploadsDone
    \/ PostBulk \/ PostBulkFails \/ FlushRaises
    \/ PostCommitContent \/ PostCommitContentFails
    \/ UpdateRef \/ UpdateRefConflict \/ UpdateRefLost

Next == CommitTree \/ OtherWriter \/ Pipeline

(* The client runs one commitTree call on one thread; every HTTP call has  *)
(* a timeout, so each step it has begun finishes, normally or by raising.  *)
(* The caller need not call again, and no other writer need appear.        *)
Spec == Init /\ [][Next]_vars /\ WF_vars(Pipeline)

(* The same caller against a server that may answer a bulk POST with a    *)
(* short echo.                                                             *)
SpecShortEcho == Init /\ [][Next \/ PostBulkShortEcho]_vars /\ WF_vars(Pipeline)

-----------------------------------------------------------------------------
InCall == pc \notin {"idle", "failed", "conflict", "done"}

TypeOK ==
    /\ store \subseteq Ids
    /\ ref \in commits
    /\ known \subseteq Ids
    /\ erepo \in [Entries -> Repos]
    /\ staged \in [Kinds -> SUBSET Ids]
    /\ queue \in Seq(Item)
    /\ bufSize \in 0 .. POST_BUFFER_SIZE_LIMIT
    /\ ops \in Seq(Item \cup [kind : {"invalid"}, id : Objects])
    /\ pc \in {"idle", "walk", "add", "stat", "upload", "bulk", "raise",
               "commit", "updateRef", "done", "failed", "conflict"}
    /\ ctx \in {"maybe", "close", "exit"}
    /\ corrupt \subseteq store \cap Blobs
    /\ uploads \in [pending : SUBSET Blobs, failed : BOOLEAN,
                    part : [Blobs -> [st : {"start", "put", "complete"},
                                      n : 1 .. NParts, bad : BOOLEAN]]]
    /\ bulk \in Seq(Item)
    /\ attempts \in 0 .. MaxAttempts
    /\ other \in BOOLEAN

-----------------------------------------------------------------------------
(* Properties. *)

(* Copy-by-reference and the post-order walk rely on the server holding    *)
(* what an entry references: whatever the interleaving of flushes, failed  *)
(* uploads, partial bulk POSTs and retries of commitTree, every entry the  *)
(* target repository holds has its children and blob there too.           *)
StoreClosed == \A x \in store : Refs(x) \subseteq store

(* After commitTree, `branches/master` names a commit whose whole tree is   *)
(* in the target repository: _commitTree posts the commit only once the    *)
(* stream's close() has flushed everything the walk queued.                *)
RefClosed == Closure(ref.tree) \subseteq store

(* RemoteRepo._knownEntryIds, which lets _hasEntry skip an entry for good, *)
(* holds only ids the repository really has: stat must record `exists`    *)
(* answers only, postBulk only what the server accepted.                   *)
KnownSound == known \subseteq store

(* The content JSON sent in one postBulk: ItemSize of every item. *)
Payload(s) == FoldLeft(LAMBDA acc, it : acc + ItemSize(it), 0, s)

(* Flush boundedness (_maybeFlush): a bulk POST carries at most            *)
(* POST_BUFFER_SIZE of content, unless it carries a single entry that was  *)
(* larger on its own (still at most POST_BUFFER_SIZE_LIMIT).               *)
BulkBounded ==
    pc = "bulk" =>
        \/ Payload(bulk) <= POST_BUFFER_SIZE
        \/ Len(bulk) = 1 /\ Payload(bulk) <= POST_BUFFER_SIZE_LIMIT

(* Spec 4.8 and the blob uploader: every blob the target repository holds *)
(* has the bytes of its sha1.  The server takes what S3 assembled, so this *)
(* rests on the client rejecting every part S3 received altered, in any of *)
(* the parallel uploads, before postCompleteUpload (ETAG_MISMATCH).        *)
BlobsIntact == corrupt = {}

(* The target repository, seen through the client's calls, behaves as     *)
(* RepoSpec promises: what the pipeline posts (bulk batches in walk order, *)
(* blobs uploaded before the batch, prefixes of failed batches) only ever  *)
(* adds content closed under references; postCommitContent is called only *)
(* once close() has flushed the commit's whole tree; and updateRef's CAS   *)
(* against the parent the caller read moves master only to a child of the *)
(* commit it replaces, whatever another writer does in between.            *)
Repo == INSTANCE RepoSpec WITH RefsOf <- [x \in Ids |-> Refs(x)]

RepoRefined == Repo!Spec

(* Spec 3 and the XXX above Object.blob: idversion 0 says "no blob" with   *)
(* NULL_SHA1 and idversion 1 with None.  Whatever setters and format calls *)
(* the caller applies to an object it holds, the content keeps its own     *)
(* idversion's form, so the object posted never carries null in v0 or     *)
(* NULL_SHA1 in v1.                                                        *)
ContentsWellFormed ==
    \A o \in DOMAIN input.content : \A c \in Reachable[input.content[o]] : WellFormed(c)

(* Spec 8 scenario 1 and test_fundamental_Object_operations: Object.format *)
(* changes only the representation.  For every valid content the caller   *)
(* can reach from an object it holds, converting it to either idversion    *)
(* yields a valid object of that idversion with the same text getter,     *)
(* "no blob" and blob SHA-1.                                               *)
FormatPreservesObject ==
    \A o \in DOMAIN input.content :
        \A c \in Reachable[input.content[o]] : ~isInvalid(c) => FormatPreserves(c)

(* A commitTree call returns, normally or with an exception: flush() after *)
(* a failure ends in __exit__'s flush, which is not retried.               *)
CommitTreeReturns == InCall ~> ~InCall

=============================================================================
