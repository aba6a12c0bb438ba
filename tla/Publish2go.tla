----------------------------- MODULE Publish2go -----------------------------
(***************************************************************************)
(* The publication pipeline of the nog2go client (src/nog2go/nog.py), a   *)
(* copy of the nogpy client that differs from it in four places.  The      *)
(* server, the flush protocol and the commit are those of Publish; this    *)
(* module redefines what nog2go does differently and composes its next-    *)
(* state relation from them and the unchanged actions of Publish:          *)
(*   - Tree._postToStream and Object._postToStream set `_repo` to the      *)
(*     stream's repo also after the copy marker of a lazy entry;           *)
(*   - Object._postToStream treats a missing blob (NULL_SHA1, a string)    *)
(*     like any blob sha1 and emits a copy marker for it when the object   *)
(*     is from another repo;                                               *)
(*   - RemoteRepo.stat adds every echoed sha1 to _knownEntryIds;           *)
(*   - PostStream has the single bound BUF_SIZE for flushing and for       *)
(*     `Entry too large` (POST_BUFFER_SIZE here).                          *)
(* No HTTP call of nog2go carries a timeout.                               *)
(***************************************************************************)
EXTENDS Publish

(* Object._postToStream of a hydrated object: the blob is a BlobFile /     *)
(* BlobBuf, or a string (a sha1 or NULL_SHA1) copied when foreign.         *)
BlobOps2go(o, rp) ==
    CASE BlobForm[o] = "local" /\ BlobOf[o] # NoBlob -> <<Op("blob", BlobOf[o])>>
      [] IsFromOtherRepo(rp[o])                   -> <<Op("copyBlob", BlobOf[o])>>
      [] OTHER                                    -> <<>>

ObjectPostOps2go(o, rp) ==
    IF Form[o] = "lazy" THEN CopyIfForeign(o, rp[o])
    ELSE BlobOps2go(o, rp) \o <<Op("post", o)>>

RECURSIVE Walk2go(_, _), ChildOps2go(_, _, _)

ChildOps2go(t, c, rp) ==
    CASE Form[c] = "ref" -> CopyIfForeign(c, rp[t])
      [] c \in Objects   -> ObjectPostOps2go(c, rp)
      [] OTHER           -> Walk2go(c, rp)

Walk2go(t, rp) ==
    IF Form[t] = "lazy" THEN CopyIfForeign(t, rp[t])
    ELSE FlattenSeq([i \in DOMAIN Children[t] |-> ChildOps2go(t, Children[t][i], rp)])
         \o <<Op("post", t)>>

(* `tree._repo = stream.repo` / `self._repo = stream.repo`: after posting  *)
(* a hydrated entry, and after the copy marker of a lazy one.              *)
Retarget2go(it) ==
    erepo' = IF it.kind = "post" \/ (it.kind = "copy" /\ Form[it.id] = "lazy")
             THEN [erepo EXCEPT ![it.id] = Tgt]
             ELSE erepo

(* commitTree -> postTree: a fresh PostStream walks the tree. *)
CommitTree2go ==
    /\ pc \in {"idle", "failed", "conflict"}
    /\ attempts < MaxAttempts
    /\ \E p \in IF attempts = 0 THEN {getMaster} ELSE {parent, getMaster} : parent' = p
    /\ ops' = Walk2go(Root, erepo)
    /\ staged' = [k \in Kinds |-> {}]
    /\ queue' = <<>>
    /\ bufSize' = 0
    /\ pc' = "walk"
    /\ attempts' = attempts + 1
    /\ UNCHANGED <<server, known, erepo, ctx, uploads, bulk, newCommit, other, input>>

(* _enqueue / _enqueueCopyEntry / _enqueueCopyBlob once _maybeFlush has    *)
(* returned, and the retarget that follows in the walk.                    *)
Stage2go(it) ==
    /\ staged' = [staged EXCEPT ![it.kind] = @ \cup {it.id}]
    /\ queue' = Append(queue, it)
    /\ bufSize' = IF it.kind = "blob" THEN bufSize ELSE bufSize + ItemSize(it)
    /\ ops' = Tail(ops)
    /\ Retarget2go(it)
    /\ pc' = "walk"

(* The early return of an enqueue call when _hasEntry / _hasBlob holds. *)
EnqueueSkip2go ==
    /\ pc = "walk"
    /\ ops # <<>>
    /\ HasItem(Head(ops))
    /\ ops' = Tail(ops)
    /\ Retarget2go(Head(ops))
    /\ UNCHANGED <<server, known, stream, pc, ctx, uploads, bulk, parent,
                   newCommit, attempts, other, input>>

EnqueueBlob2go ==
    /\ pc = "walk"
    /\ ops # <<>>
    /\ Head(ops).kind = "blob"
    /\ ~HasItem(Head(ops))
    /\ Stage2go(Head(ops))
    /\ UNCHANGED <<server, known, ctx, uploads, bulk, parent, newCommit,
                   attempts, other, input>>

(* _maybeFlush after its flush: `if self._bufSize + l > self.BUF_SIZE`     *)
(* raise `Entry too large`, else add.                                      *)
Add2go ==
    /\ pc = "add"
    /\ bufSize + ItemSize(Head(ops)) <= POST_BUFFER_SIZE
    /\ Stage2go(Head(ops))
    /\ UNCHANGED <<server, known, ctx, uploads, bulk, parent, newCommit,
                   attempts, other, input>>

EntryTooLarge2go ==
    /\ pc = "add"
    /\ bufSize + ItemSize(Head(ops)) > POST_BUFFER_SIZE
    /\ StartFlush("exit")
    /\ UNCHANGED <<server, known, erepo, stream, ops, uploads, bulk, parent,
                   newCommit, attempts, other, input>>

(* RemoteRepo.stat: every echoed sha1 goes to _knownEntryIds. *)
StatRecords2go == known' = known \cup {queue[i].id : i \in DOMAIN queue}

(* flush(): stat(self._queue) and the partition of its answer. *)
FlushStat2go ==
    LET missing(it) == it.id \notin store
    IN /\ pc = "stat"
       /\ StatRecords2go
       /\ uploads' = [uploads EXCEPT
                         !.pending = {queue[i].id : i \in {i \in DOMAIN queue :
                                        missing(queue[i]) /\ queue[i].kind = "blob"}},
                         !.failed = FALSE]
       /\ bulk' = SelectSeq(queue, LAMBDA it : missing(it) /\ it.kind # "blob")
       /\ pc' = "upload"
       /\ UNCHANGED <<server, erepo, stream, ops, ctx, parent, newCommit,
                      attempts, other, input>>

(* putS3File / putS3Buf of nog2go: the PUT's ETag is returned unchecked. *)
PutPart2go(b) == PutS3Part(b, FALSE)

(* The calls nog2go makes as nogpy does, only without a timeout: their    *)
(* outcomes are those of the Publish actions.                             *)
(* PostStream.__exit__ and close(): flush. *)
Close2go == Close

(* _startUpload: 409 means the blob already exists. *)
StartUpload2go(b) == StartUpload(b)

(* uploadBlob.postCompleteUpload. *)
CompleteUpload2go(b) == CompleteUpload(b)

(* flush(): the executor waits for every upload; the first error raises. *)
UploadsDone2go == UploadsDone

(* postBulk, echoes recorded in _knownEntryIds, and the zip check of flush. *)
PostBulk2go == PostBulk \/ PostBulkFails

(* postCommitContent. *)
PostCommitContent2go == PostCommitContent \/ PostCommitContentFails

(* updateRef: the PATCH of the ref with new and old. *)
UpdateRef2go == UpdateRef \/ UpdateRefConflict \/ UpdateRefLost

Pipeline2go ==
    \/ EnqueueSkip2go \/ EnqueueBlob2go \/ MaybeFlush \/ Add2go \/ EntryTooLarge2go
    \/ Close2go \/ FlushStat2go \/ StatFail
    \/ \E b \in Blobs : StartUpload2go(b) \/ PutPart2go(b) \/ CompleteUpload2go(b)
    \/ UploadsDone2go \/ PostBulk2go \/ FlushRaises
    \/ PostCommitContent2go \/ UpdateRef2go

Next2go == CommitTree2go \/ OtherWriter \/ Pipeline2go

(* No fairness: a request without a timeout may block forever. *)
Spec2go == Init /\ [][Next2go]_vars

=============================================================================
