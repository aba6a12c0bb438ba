# TLA+ models of the nog clients and daemons

This directory holds TLA+ models of the parts of nog (`src/`) whose
correctness depends on ordering, failures and concurrency. The models are
checked with TLC. Each module is translated from the Python source. The
definition-to-line correspondence is recorded under `map` in `PROJECT.json`.

## 1. Inventory of the system

| Part | Source | State it keeps | Operations | Interacts with |
|---|---|---|---|---|
| Canonical codec | `nogpy/nog.py` `stringify`, `contentId` | none | encode content to canonical JSON, hash it | entry model, PostStream (sizes) |
| Object idversions | `nogpy/nog.py` `Object` (1112-1240) | `_content` in idversion 0 or 1 | `format`, the `text`/`blob` accessors, the `meta` dict | PostStream (`_postToStream` rejects invalid objects) |
| Request signer | `nogpy/nog.py` `sign_req` (1312-1338) | none | HMAC-sign a URL with an expiry | every HTTP call |
| Entry model | `nogpy/nog.py` `Entry`, `Tree`, `Object` | `_content`, `_sha1` (lazy when set), `_repo` | edit, `_ensureContent` (hydrate), `_postToStream` | PostStream, RemoteRepo |
| RemoteRepo | `nogpy/nog.py` 186-535 | `_knownEntryIds`, `_knownBlobs` | `stat`, `postBulk`, `postCommitContent`, `updateRef`, `commitTree`, get/fetch | server, caches |
| PostStream | `nogpy/nog.py` 538-654 | 4 staging maps, `_queue`, `_bufSize` | `_enqueue*`, `_maybeFlush`, `flush`, `close`/`__exit__` | RemoteRepo, blob uploader |
| Blob uploader | `nogpy/nog.py` 364-469 | a thread pool of 32 | `uploadBlobs`, `uploadBlob` (multipart, ETag check), `_startUpload` (409 = exists) | S3, server |
| Entry cache | `nogpy/nog.py` 660-746 | memory dict; disk files named by sha1 | `get` (verifies sha1), `add` (temp file + rename) | RemoteRepo getters |
| Blob cache | `nogpy/nog.py` 749-813 | files named by sha1 | `fetchBlob` (temp, verify, rename) | RemoteRepo.fetchBlob |
| Vault | `daemons/lib/nogd.py` 105-337, 440-490 | `_leases`, `_forceRead`, `_leaving`, two locks, the read view `_readCfg` | `leaseTo`, `_tick`, `startRenewalDaemon`, `shutdown`, `cfg`, `mtime`; `VaultAwsCredentials.get_frozen_credentials` | Vault server, token file, daemons, the S3 clients of `newMongoBucketContext` |
| DocLock | `daemons/lib/nogd.py` 623-688 | an entry in `doc.locks` of a MongoDB document | `tryLock`, `unlock`, `renewLock` | other daemons |
| nog2go client | `nog2go/nog.py` | as nogpy | as nogpy; `stat` records every echoed id | server |
| Tooling | `nogjob.py`, `nogresolve.py`, `datadir-upload.py`, tests | none of their own | thin callers of the client | RemoteRepo |

The hard behaviours are these:

- **PostStream and `commitTree`.**
  - The tree walk is post-order. Entries fetched from another repository are sent as copy-by-reference markers. Whether a node counts as foreign depends on its `_repo` pointer, and the walk changes that pointer.
  - `flush()` runs four steps in order: stat, then a parallel upload of blobs with local content, then a bulk POST, then a queue reset. Any step can fail.
  - An exception inside the `with` block makes `__exit__` flush a second time.
  - The staging maps survive a failed flush, and `_knownEntryIds` lives as long as the `RemoteRepo` object. Both make dedup depend on earlier calls.
  - `updateRef` is a compare-and-swap, and its response can be lost.
- **Vault.**
  - A daemon thread ticks once a minute. It renews each lease or reads it again from Vault. It falls back to a reread when a renewal fails or comes back short.
  - Replacing the token file forces a reread of all leases.
  - `shutdown` on the main thread revokes the leases under the same lock the ticks take.
- **DocLock.** A lock is a conditional `$push` on a document. It has to be renewed periodically, and stale locks are reaped by code outside `src/`.
- **Caches.** Several threads fill the same files. The code writes a temp file, checks its SHA-1 and renames it. Entries are checked again on every disk read; blobs are not.

What makes each part correct:

- **Repository closure.** The server never holds an entry without what it references.
- **Known set.** `_knownEntryIds` holds only ids the server really has.
- **Bounded bulk bodies.** No bulk POST body exceeds the buffer bounds.
- **Linear history.** `branches/master` moves only by a linear CAS.
- **Calls return.** `commitTree` returns.
- **Retry tolerance.** Retrying `commitTree` is safe.
- **Leases stay fresh.** Leases are refreshed before expiry, and a forced reread reaches every lease.
- **Nothing after shutdown.** Nothing is renewed after `shutdown`.
- **Locks.** A lock has at most one holder.
- **Caches.** An entry read never returns corrupt content, and a blob file at its SHA-1 path is never an unfinished or wrong download.

## 2. Modules

| Module | Models | Checked by |
|---|---|---|
| `RepoSpec` | what a repository promises its clients (spec 4.5-4.7): content is only added, and only closed under references; a commit is stored only when it is complete; master moves by a linear CAS | `RepoRefined` in `publish_core` |
| `ObjectCodec` | the two idversions of an Object's content, `format` and the accessors; `ObjectContents` is every content a program can hold | `ContentsWellFormed`, `FormatPreservesObject` in `publish_core` |
| `Publish` (+ `PublishMC`) | the nogpy PostStream, tree walk, flush, the multipart blob uploader with its pool, commitTree, the updateRef CAS, and a second writer | `publish_core`, `retry_after_failed_flush` |
| `Publish2go` (+ `Publish2goMC`) | the nog2go client, which differs from nogpy in its walk, its stat, its buffer bound and its unchecked ETags; everything else comes from `Publish` | `nog2go_retry_lazy`, `nog2go_unchecked_etag` |
| `Vault` (+ `VaultMC`) | the lease table `leaseTo` builds from the config, the S3 credentials readers (`get_frozen_credentials`), `_tick`, the renewal thread, token replacement, shutdown, and the keymap copy with `_updateReadView` | the three `vault_*` runs |
| `DocLock` (+ `DocLockMC`) | tryLock (including refusals and lost replies), unlock and renewLock of three daemons, and the stale-lock reaper (from the spec) | the two `doclock_*` runs |
| `Cache` (+ `CacheMC`) | the entry cache (memory tier and verified disk tier) and the blob cache. Threads fill them concurrently with temp file + rename. Crashes and hand-edited files are included | `cache_core`, `cache_blob_tamper` |

The MC modules only give model values and definitions to the constants.

## 3. How the modules correspond to the code

### Publish

One client publishes one in-memory tree to a target repository with
`RemoteRepo.commitTree`. Content is abstracted to identities.

- **Constants.**
  - `Children` and `BlobOf` give what each entry references.
  - `BlobForm` gives whether an object's blob is a sha1 string or local content.
  - `NParts` is the number of parts of a multipart upload.
  - `Inputs` is a set of caller scenarios. A scenario is a record of:
    - `form`: how the client holds each node. A node is hydrated (`_content`), lazy (`_sha1` only), or a plain `{type, sha1}` dict.
    - `repo`: the `_repo` pointer of each entry.
    - `size`: the encoded sizes.
    - `attempts`: how often the caller calls `commitTree`.
    - `content`: the `ObjectCodec` content of each object the caller built itself. `Invalid` is derived from it: the objects `isInvalid` holds of, i.e. idversion 1 objects whose `meta` carries `content`.
  - Init picks one scenario into the variable `input`, which never changes. One run can therefore check several callers.
- **Server.**
  - The server is the set `store` of ids it holds, the set `commits`, and the ref `ref`.
  - A commit is its content `[tree, parents]`, since its id is the sha1 of that content.
  - `corrupt` is the set of stored blobs whose bytes S3 received altered.
- **Client.** Each variable is named after the field it models:
  - `known` is `_knownEntryIds`;
  - `erepo` is `_repo`;
  - `staged`, `queue` and `bufSize` are the PostStream fields.
- **The walk.** `Walk` unfolds `Tree._postToStream` and `Object._postToStream` into the sequence of enqueue calls they make (`ops`). A node's `_repo` is read only when the walk visits it, so unfolding the walk when it starts gives the same calls as the recursion. Each enqueue is one step:
  - `EnqueueSkip` is the dedup early return. It still retargets a posted node.
  - `EnqueueBlob` stages a local blob.
  - `MaybeFlush` is the first half of `_maybeFlush`.
  - `Add` stages the item, adds its size, and retargets `_repo` for `_enqueue`.
  - `EntryTooLarge` raises `Entry too large`.
  - `InvalidObject` is the `Invalid Object` RuntimeError of `Object._postToStream`. It comes after the object's blob is enqueued and before the object's own `_enqueue`.
  - `Close` is `__exit__` calling `close()`.
- **The flush.** `ctx` records which call made the flush, so the model knows where it returns.
  - `FlushStat` partitions the missing items and records the `exists` answers in `known`.
  - `StatFail` is a failed stat.
  - The blob uploader runs for each pending blob:
    - `StartUpload` is `_startUpload` returning an upload handle, or failing. Its 409 return (the blob already exists) is not modelled: stat has just reported the blob missing, and a blob that appeared meanwhile would end the upload as a success that changes nothing the properties look at.
    - `PutPart` is one part's PUT with `verifyEtag` (nogpy nog.py 375-402). The part may arrive altered, in which case the ETag check raises.
    - `CompleteUpload` is `postCompleteUpload`.
    - Every call can fail. The pool's workers interleave freely, and `UploadsDone` is leaving the executor.
  - `PostBulk` and `PostBulkFails` are the bulk POST. On failure the server may have stored any prefix of the batch, or all of it with the response lost.
  - `FlushRaises` is the exception path.
- **The commit.**
  - `PostCommitContent` and `PostCommitContentFails` post the commit.
  - `UpdateRef` and `UpdateRefConflict` are the CAS against `parent`.
  - In `UpdateRefLost` the PATCH has been applied, or not, and the call raises.
- **Environment.**
  - `CommitTree` is the caller calling again after a failure, up to `input.attempts` times. It passes the parent it had, or master re-read (`getMaster`).
  - `OtherWriter` is another client moving master once.
- **Server from the spec.** The server side of bulk, CAS and complete-upload is not in `src/`. It is modelled from the spec (§4.5, §4.6, §4.8), and those definitions are marked `spec_modelled`. The model server accepts what it is sent, so closure of the repository is the client's obligation.
- **Refinement.** `Repo == INSTANCE RepoSpec WITH RefsOf <- ...` maps the client's model of the server onto the abstract repository. `RepoRefined` (`Repo!Spec`) is checked as a property.

- **Server fault.** `PostBulkShortEcho` is a bulk POST that stores only a prefix of the batch and answers 201 with the echo of that prefix. `EchoMatches` is the `zip` check of nog.py:587-591, which compares only as many pairs as the shorter list has, so the flush goes on as if everything were stored. `SpecShortEcho` adds this action to `Next`; only the `bulk_short_echo` run uses it.

### ObjectCodec

A content dict is abstracted to the three keys the idversions differ in: `meta['content']` (`metaContent`), the top-level `text` and `blob`. `Absent` is a missing key, `None` Python's None, `Buf` a pending `BlobBuf`/`BlobFile`.

- `DefaultContent` is `Object()`, which is idversion 1. `FetchedContents` is what `getObject` installs after `_setContent` strips `_idversion`.
- `idversion`, `format`, `text`/`setText`, `blob`/`setBlob` and `setMetaContent` (a write through the dict `meta` returns) are the accessors of `Object`, line by line.
- `isInvalid` is the check of `Object._postToStream`.
- `ReachFrom` (RECURSIVE) closes a set of contents under every accessor call; `ObjectContents` is that closure from `Object()` and the fetched contents (27 contents), and `Reachable[c]` the closure from one content.
- `WellFormed` is spec 3's "no blob" per idversion; `FormatPreserves` says that converting to either idversion keeps the text, "no blob" and the blob SHA-1 and gives a valid object.

### Publish2go

`Publish2go` extends `Publish` and redefines the actions where nog2go differs.

- `Walk2go` and `Retarget2go`: nog2go also retargets a lazy entry after its copy marker, and copies `NULL_SHA1` blobs.
- `StatRecords2go`: every echoed id goes into `_knownEntryIds`.
- `Add2go` and `EntryTooLarge2go`: nog2go has the single bound `BUF_SIZE`.
- `PutPart2go`: no ETag check.
- `Close2go`, `StartUpload2go`, `CompleteUpload2go`, `UploadsDone2go`, `PostBulk2go`, `PostCommitContent2go` and `UpdateRef2go` are the steps nog2go makes as nogpy does. They are the `Publish` actions, since the code is the same apart from the missing timeouts.

nog2go sets no timeouts on its HTTP calls, so `Spec2go` has no fairness.

### Vault

This module models the renewal thread of `Vault` and the lease table it works on.

- **Lease table.** `Leases` is the table `Vault.__init__` builds: a `FoldLeft` of `LeaseTo` (`leaseTo`) over `LeaseCalls`, the calls it makes for `nogMongoUrl` and for each bucket's `vault` path (nogd.py 384-402). `leaseTo` keeps one lease per path and appends a key per call, so two buckets reading the same STS path share one lease with two keys. A key is `<<dest, dst>>`, where dest 0 is the `cfg` itself and dest i the i-th bucket. `LeaseOrder` is the insertion order of the dict. Leases in `Renewable` can be renewed; `/sts/` leases cannot.

- **Time.** Time counts in 15-minute units. `rem[p]` is `rtime + lease_duration - now`.
  - `Due` is at most 2 units (1800 s).
  - `Short` is less than 3 units (2700 s).
- **One tick.**
  - `TickStart` runs `_replaceToken` and ORs it into `forceRead`.
  - `Skip` is the `continue` for a lease that is not due.
  - `Acquire` is `with _leaseLock` together with the `_leaving` check.
  - `TickStart` uses `TokenChanged`, the comparison of `_replaceToken`.
  - `RenewOk`, `RenewShort` and `RenewFails` are the outcomes of a renewal (`RenewSecret` is `_renew_secret`). `RenewShort` is the NameError branch: the thread dies.
  - `ReadOk` and `ReadFails` are the outcomes of a reread. `ReadVault` is `_readVault`: a new lease with new values (`data`), read with the client's token. A read, like the reads of `leaseTo` that Init stands for, returns a duration from `ReadDurations`, the long ones. A new lease gets the secret's full TTL, which the model takes to be at least the 45 minutes `_tick` asks of a renewal. A renewal is short only when Vault caps it at the lease's max TTL.
  - After a renewal or a reread, `StartApply` releases the lock and loads the lease's keymap (`KeyMap`).
  - `CopyKey` copies one key into `_cfg` (`dest`).
  - `UpdateReadView` swaps the copy in as `_readCfg` (`view`).
  - `TickEnd` resets `_forceRead`.
- **Environment.**
  - `Advance` lets time pass, after at least one tick while the thread is alive.
  - `ReplaceToken` is the token file being rewritten.
  - `Shutdown` is `Vault.shutdown`.
- **Credentials readers.** `newMongoBucketContext` gives each bucket an S3 session whose `VaultAwsCredentials` read `buckets.{idx}` of `vault.cfg`. botocore signs every request with `get_frozen_credentials()`, at any time and on any thread. `GetFrozenCredentials(i)` is that call for a bucket with a `keyVault` (`CredBuckets`): one read of `cfg` (the `_readCfg` that `Vault.cfg` returns under `_lock`), and `getpath` of the bucket's sub-dict. `creds[i]` records the triple it returned.

### DocLock

The module models one lock core on one document, wanted by the daemons `Holders`.

- **State.**
  - The `$not $elemMatch core` condition allows at most one entry per core. So `doc.locks` is modelled by the entry's holder (`lockHolder`) and its age in minutes (`lockAge`).
  - `held[h]` is what daemon `h` believes: `tryLock` returned True and the daemon has not called `unlock`.
  - `since[h]` is the time since the daemon's last renewal.
- **Actions.**
  - `TryLock` is a push that applies. `lastTry[h]` records what the daemon's last `tryLock` did.
  - `TryLockRefused` is the update matching nothing, because some entry has the core: `tryLock` returns False.
  - `TryLockLost` is `update_one` raising after the push was or was not applied.
  - `Unlock` pulls only the entry `{core, holder}`.
  - `RenewLock` refreshes `ts` only when the daemon's own entry is still there. Otherwise it only logs.
  - `Tick` is a minute passing. It never runs past the callers' renewal deadline `renewWithin`, which Init picks from `RenewDeadlines` for the whole behaviour. The callers (nogreplicad, nogsumd) are not in the repository. A deadline below `Expire` models callers that renew in time; one above models a holder that stalls past its lease, is reaped, and comes back still believing it holds the lock.
  - `Reap` removes an entry of age `Expire`. The reaper is outside `src/` and is modelled from spec 4.10.

### Cache

Threads of one client (`Threads`) read entries and blobs of the same SHA-1s (`Keys`).

- **Files.** A file is abstracted to whether its bytes match its name:
  - `good`;
  - `partial`, a download cut short;
  - `corrupt`, wrong bytes from the server;
  - `tampered`, edited by hand after caching.

  `tmp` holds the `tmp-<name>_*` files together with their owner thread.
- **Entries.**
  - `EntryGet` is `get*Content` calling `EntryCache.get`. It tries the memory tier, then `EntryDiskCache.get`, or gets a KeyError that sends the call to the server.
  - `DiskRead` is the disk read, which raises RuntimeError on a SHA-1 mismatch.
  - `EntryFetch` is the server GET of `get*Content` and the temp-file write. `kind[k]` is the kind of entry a SHA-1 names and `srv[k]` what the server answers for it (`Served`: an `_idversion` of 0, 1 or 2, and errata or not); both are fixed at Init. The idversion check depends on the getter (`CommitIdversionOk`, `TreeIdversionOk`, `ObjectIdversionOk`, dispatched by `IdversionOk` as `_ensureContent` does). `ErrataRaises` is `_handleErrata` under `ErrataPolicy`. Both raise before the content is cached. `Fetched` is the content the client installs: `unsupported` if its idversion is not one spec 3 defines for its kind (`Implemented`).
  - `EntryRename` is the rename and the memory add.
- **Blobs.**
  - `BlobHas` is `has()` and the temp file of `fetchBlob`.
  - `BlobDownload` is `getBlobContent`.
  - `BlobVerify` is the SHA-1 check, followed by remove-and-raise or by chmod-and-rename.
  - `BlobOpen` is `open`, `link` or `copy`.
- **Environment.**
  - `Crash` loses memory and in-flight calls but keeps every file.
  - `Tamper` edits a cached file by hand.

## 4. Runs

| Run | Expect | What it shows |
|---|---|---|
| `publish_core` | pass | Two callers, each with every failure of every call and with another writer. The first makes one `commitTree` call on a tree mixing hydrated, lazy and plain foreign entries with local content. The second makes up to three calls on a new tree holding fetched entries only as lazy entries. The properties that hold: the repository stays closed (`StoreClosed`, `RefClosed`); `known` is sound (`KnownSound`); bulk bodies are bounded (`BulkBounded`) and the buffer never holds more than `POST_BUFFER_SIZE_LIMIT` (`TypeOK`); the client implements `RepoSpec` (`RepoRefined`); and the call returns (`CommitTreeReturns`). Over every content an `Object` can be turned into, the "no blob" marker fits the idversion (`ContentsWellFormed`) and `format` keeps text and blob (`FormatPreservesObject`). |
| `bulk_short_echo` | violation of `RefClosed` | A server that stores a prefix of a bulk batch and echoes only that prefix. The `zip` at nog.py:588 accepts the short echo, the flush succeeds, and master names a tree whose entries are missing. Spec 4.7 says the client fails with `BULK_MISMATCH`. |
| `retry_after_failed_flush` | violation of `StoreClosed` | The caller retries after a failed flush with a hydrated foreign object. nog.py:1196 retargets the object before the flush, so the retry omits the copy of its blob. This contradicts spec 4.6 "Retry tolerance". |
| `nog2go_unchecked_etag` | violation of `BlobsIntact` | One nog2go call uploads a new blob in two parts, and a part reaches S3 altered. nog2go's `putS3File`/`putS3Buf` return the ETag unchecked (nog2go nog.py:377, 385), so `postCompleteUpload` stores a blob whose bytes are not its sha1. Spec 4.8 says the client MUST verify the ETag (ETAG_MISMATCH). `BlobsIntact` is not claimed of nogpy, whose `verifyEtag` rejects every altered part, so there it would only restate that check. |
| `nog2go_retry_lazy` | violation of `StoreClosed` | The same retry with only lazy foreign entries breaks nog2go. nog2go retargets lazy entries (nog2go nog.py:925, 1026) and records every echoed id as known (:318), so the retry drops the copy markers. |
| `vault_core` | pass | A config with a mongo lease and three buckets, two of them on one STS lease; renewals of 1-4 units or of 3-4 units, reads of 3-4; two token replacements. No lease is renewed or reread after shutdown (`NoRefreshAfterRevoke`). The read view never shows a lease's keys from two different reads (`ViewConsistent`, spec 4.9), and every set of S3 credentials `get_frozen_credentials` hands to botocore comes from one read of the STS secret (`FrozenCredentialsMatch`). When every lease is at least 45 minutes long, every due lease is eventually refreshed (`DueLeaseRefreshedWithLongLeases`). |
| `vault_short_renewal` | violation of `DueLeaseRefreshed` | Renewals return 2 or 4 units, reads 4. Since a reread or a long renewal always makes a lease not due, only a dead thread can leave a due lease due for ever. The counterexample is that one: a renewal returns 2 units, `RenewShort` reaches `shouldRead = true` (nogd.py:289), the NameError ends the thread (`pc = "dead"`), and the clock runs the leases out. |
| `vault_forced_read_failure` | violation of `ForcedReadComplete` | A forced reread that fails is not retried, because nogd.py:314 resets `_forceRead`. The comment at 243-244 says it is retried. |
| `doclock_core` | pass | Three daemons lock, are refused, lose replies, unlock, renew and are reaped. While they renew within four minutes, no two believe they hold the lock (`MutualExclusion`). When a holder stalls for six minutes, is reaped while another daemon locks the core, and then calls `renewLock` (which only logs, nogd.py:688) and `unlock`, an unexpired entry still leaves `doc.locks` only by its own holder's unlock (`LockNotStolen`): `unlock` pulls by `{holder, ...core}` (nogd.py:659). |
| `doclock_lost_reply` | violation of `RefusedOnlyByOther` | A tryLock whose push is applied but whose reply is lost (`TryLockLost`), then the daemon's retry (`TryLockRefused`): the condition `$not $elemMatch core` ignores the holder, so the retry returns False because of the daemon's own entry (nogd.py:647), and the core stays locked until the reaper. Spec 4.10 says acquire is idempotent under retry, scoped by holder. |
| `cache_core` | pass | Two threads, one SHA-1, one crash and one hand-edited file. Server answers carry idversions 0-2 and errata under the default policy `error`. No entry read returns unverified content or content in an idversion its kind does not have (`EntryReadVerified`). The memory tier holds only verified content (`TypeOK`). The blob path never holds an unfinished or wrong download (`BlobFilesComplete`). |
| `cache_blob_tamper` | violation of `BlobReadVerified` | A hand-edited blob file is served as it is. `has()` only tests existence (nog.py:788), and `open`, `link` and `copy` never check the SHA-1. Spec 8 says tampering is detected on the next read. |

Every property of a passing run has a mutant in `PROJECT.json`. A mutant is a plausible bug in the mapped definition, and TLC catches it under that run's configuration. Examples:

- a pre-order walk;
- a stream that does not flush on close;
- the nog2go stat;
- a PUT without `verifyEtag`;
- a CAS that ignores `old`;
- a keymap loop that publishes the read view after each key;
- a dropped `_leaving` check;
- a renewal that does not refresh `ts`;
- a `fetchBlob` that renames before verifying.

## 5. Bounds and why they suffice

- **Publish tree.** The root R has four children:
  - an object with a blob in the source repository;
  - a subtree fetched from the source repository;
  - a new object with a local blob;
  - a plain entry that already exists in the target.

  This gives every branch of the walk and of the flush partition: post, copy, blob and copyBlob items; `exists` and `missing` answers; and local uploads next to bulk items.
- **Object contents.** In the single-call scenario, the new object's content ranges over the 9 contents of `ObjectContents` with a local blob, some of them invalid idversion 1 objects like the index documents nogjob builds. The walk then raises after staging its blob and the entries before it, and `__exit__` flushes that partial walk.
- **Buffer sizes.**
  - `POST_BUFFER_SIZE = 3` and `POST_BUFFER_SIZE_LIMIT = 4`, with copy markers of size 1 and objects of size 2. With these values the walk flushes from `_maybeFlush` before `close()`.
  - R takes three sizes: it fits, it is alone over the buffer, or it is over the limit. These are the three cases of `_maybeFlush`, the same ones the unit tests at test_nog.py:457 and :469 exercise.
- **Uploads.** `NParts = 2` is the smallest count with a part loop: a first part followed by `getNextUploadParts`.
- **Attempts and writers.**
  - One attempt for the fetched tree; three for the lazy tree in `publish_core`.
  - Two in the violation runs, the least that shows the retry bug.
  - One other writer is enough to make the CAS fail.
- **Vault.**
  - Two leases, one renewable and one STS, cover both the renew and the reread paths.
  - The STS lease has three keys and the mongo lease has one. Three keys are the least that allow a view mixing reads of one lease, since a mixed view needs two copied keys and one not yet copied.
  - `DurationChoices` is a set of duration sets, and Init picks one per behaviour into `durations`. `vault_core` offers `{1,2,3,4}`, which covers the due, short and long cases, and `{3,4}`, the leases of at least 45 minutes under which `DueLeaseRefreshedWithLongLeases` is about liveness.
  - Two token replacements let one happen while a forced reread is pending.
- **DocLock.**
  - Three daemons, so that one can hold, one can have lost a reply, and one can try to lock.
  - `Expire = 5` is the five minutes of `LOCK_EXPIRE_TIMEDELTA`. `doclock_core` takes `RenewDeadlines = {4, 6}`: prompt callers, under which `MutualExclusion` is claimed, and a holder stalling for six minutes, under which only `LockNotStolen` is. Nothing in the code or the spec promises exclusion to a holder that stalled past its lease.
- **Cache.**
  - Every race is between calls on the same key, so one SHA-1 suffices.
  - Two threads give concurrent downloads, and a reader next to a writer.
  - The threads are symmetric.

## 6. Fairness

- **Publish.** `WF` on the pipeline steps, which the code justifies:
  - the client is a single thread;
  - every nogpy HTTP call has a timeout (`requestTimeout`), so a started step ends, normally or by an exception.

  The caller's retries and the other writer are not fair. nog2go has no timeouts, so `Spec2go` assumes no fairness and checks only safety.
- **Vault.**
  - `WF` on the renewal thread (`while True: _tick(); sleep(60)`).
  - `SF` on a successful reread of each lease. This assumes Vault is not down forever.
  - The clock, token replacement and shutdown are not fair.
- **DocLock and Cache.** No fairness is assumed, and only safety is checked.

## 7. Not modelled, and why

- **Codec and signer.** Hashing, JSON encoding and HMAC are out of TLC's reach. Content is identified by ids instead.
- **Entry model.** `Publish` keeps `Entry`/`Tree`/`Object` only as the walk sees them: form, `_repo` and children. `ObjectCodec` models the Object content and its conversions; the `Tree` and `Commit` accessors, `_ensureContent` and the tree `collapse` are not modelled: they are sequential edits of an in-memory dict with no concurrency or failure between their steps.
- **Read paths of RemoteRepo.** Two parts are left out:
  - `getTreeContent(recursive=True)` bypasses the cache and the checks. Nothing in the repository calls it.
  - Errata are stripped before caching. So under the policy `error`, an entry marked after it was cached is served from the cache without error. Spec 4.6 says so on purpose, and this is listed as a hazard.
  - `createRepo`, `openRepo` and `createInitialCommit` set up the state that Init describes.
- **Leftover temp files and `_ensureDir`.** A failed download leaves its `tmp-*` file (the model reaches this, but no property is about disk usage). The `mkdir` race of `_ensureDir` is tolerated by its re-check.
- **Vault renew response.** A renewal replaces `lease['vault']` with the renew response, and the keymap is then applied from that response's `data`. The model assumes the response carries the secret data. What Vault's renew endpoint returns is neither in the repository nor in the spec. If the data were missing, the tick would pop the keys or raise. This is listed as a hazard.
- **Vault.** `mtime`, the `VaultAwsCredentials` pair and `newMongoBucketsCfgVault` are read-side helpers over the read view that `ViewConsistent` checks.
- **nog2go read paths and caches.** They are the same as nogpy's, except that the getters check neither idversions nor errata, and the disk cache keeps `_idversion`.
- **nogjob and idversion 1.** `nogjob` builds its index and log documents as `nog.Object()`, which is idversion 1 by default, and sets `meta['content']` on them (nogjob.py 130-132, 141-143, 188, 208). `Object._postToStream` rejects such objects with `Invalid Object`, so `commitResult` always raises. test_nog.py:149 shows the rejection. This is deterministic, so a unit test reaches it. `Publish` models the rejection and its partial flush (`InvalidObject`).
- **Tooling.** `nogjob`, `nogresolve`, `datadir-upload` and the test setup scripts are thin callers of the modelled API. Each makes at most one `commitTree` call, with a tree it has built in memory. `datadir-upload` pops entries from the list it is enumerating (line 56), which can skip a second entry of the same name. This is a plain sequential bug that a unit test reaches, so it is not a model-checking question. `nogjob` reads master in `NogJob.__init__` and commits on it after the whole computation (nogjob.py:34, :122). A concurrent commit makes `updateRef` refuse the stale parent, which `RepoRefined` checks. `nogjob` does not retry, so the job's results are not committed. This is listed as a hazard.
