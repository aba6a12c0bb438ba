------------------------------- MODULE Cache -------------------------------
(***************************************************************************)
(* The client's local caches (src/nogpackages/nogpy/nog.py): the entry     *)
(* cache (EntryCache = EntryMemCache over EntryDiskCache) behind           *)
(* getCommitContent/getTreeContent/getObjectContent, and the blob cache    *)
(* (BlobCache) behind openBlob/linkBlob/copyBlob via _prefetchBlob, which  *)
(* prefetchBlobs runs in a thread pool.  Both disk tiers write a temporary *)
(* file in the shard directory and rename it to the SHA-1 path.            *)
(*                                                                         *)
(* A file holds the bytes of its SHA-1 ("good"), bytes a download left     *)
(* unfinished ("partial") or wrong ("corrupt"), or bytes changed by hand   *)
(* after they were cached ("tampered").  Threads share both disk tiers and *)
(* the memory tier; a process crash loses memory and in-flight calls but   *)
(* leaves every file, temporary ones included.                             *)
(***************************************************************************)
EXTENDS Naturals

CONSTANTS
    Threads,        \* client threads calling the repo API
    Keys,           \* SHA-1s of entries and blobs
    MaxCrashes,     \* bound on process crashes
    MaxTamper,      \* bound on files changed on disk by hand
    ErrataPolicy    \* errataPolicy, from NOG_ERRATA: "error", "warning" or "ignore"

ASSUME MaxCrashes \in Nat /\ MaxTamper \in Nat
       /\ ErrataPolicy \in {"error", "warning", "ignore"}

Kinds == {"commit", "tree", "object"}

(* What GET db/<kind>s/<sha1>?format=minimal can answer: an _idversion, *)
(* the known ones and one a newer server may use, and whether the entry  *)
(* carries errata.                                                       *)
Served == [idv : {0, 1, 2}, errata : BOOLEAN]

(* Spec 3: commits and objects have idversions 0 and 1; a tree has one  *)
(* representation.                                                      *)
Implemented(ty) == IF ty = "tree" THEN {0} ELSE {0, 1}

Bytes == {"good", "partial", "corrupt", "tampered", "unsupported"}
FileStates == {"none"} \cup Bytes
Results == {"none", "error"} \cup Bytes

VARIABLES
    entryFile,      \* entries/XX/YYYY..., per SHA-1
    blobFile,       \* blobs/XX/YYYY..., per SHA-1
    mem,            \* EntryMemCache._cache
    tmp,            \* tmp-<name>_* files: [dir, owner, key, bytes]
    pc,             \* where each thread is in its call
    cur,            \* the SHA-1 the thread's call is about
    got,            \* content returned by the thread's last entry read
    opened,         \* bytes behind the thread's last openBlob handle
    crashes,
    tampers,
    kind,           \* the kind of entry each SHA-1 names, fixed
    srv             \* what the server answers for each SHA-1, fixed

vars == <<kind, srv, entryFile, blobFile, mem, tmp, pc, cur, got, opened, crashes, tampers>>

Tmp(dir, t, k, b) == [dir |-> dir, owner |-> t, key |-> k, bytes |-> b]

OwnTmp(t, dir) == {f \in tmp : f.owner = t /\ f.dir = dir /\ f.key = cur[t]}

Return(t) == pc' = [pc EXCEPT ![t] = "idle"]

Goto(t, l) == pc' = [pc EXCEPT ![t] = l]

-----------------------------------------------------------------------------
(* EntryDiskCache.get: a missing file is a KeyError (the caller fetches);  *)
(* otherwise the content is returned only if contentId matches the name,  *)
(* else RuntimeError.                                                      *)
DiskReadUnverified(k) == entryFile[k]

DiskRead(k) == IF entryFile[k] = "good" THEN "good" ELSE "error"

(* An EntryCache.get that fills the memory tier before verification. *)
EntryGetCachesUnverified(t) ==
    /\ pc[t] = "idle"
    /\ \E k \in Keys :
        /\ cur' = [cur EXCEPT ![t] = k]
        /\ \/ /\ mem[k] # "none"
              /\ got' = [got EXCEPT ![t] = mem[k]]
              /\ Return(t) /\ UNCHANGED mem
           \/ /\ mem[k] = "none" /\ entryFile[k] = "none"
              /\ Goto(t, "entryFetch") /\ UNCHANGED <<mem, got>>
           \/ /\ mem[k] = "none" /\ entryFile[k] # "none"
              /\ mem' = [mem EXCEPT ![k] = entryFile[k]]
              /\ got' = [got EXCEPT ![t] = DiskRead(k)]
              /\ Return(t)
    /\ UNCHANGED <<kind, srv, entryFile, blobFile, tmp, opened, crashes, tampers>>

(* get*Content(sha1) -> EntryCache.get: the memory tier returns a deep     *)
(* copy; on a miss the disk tier is read and a verified content is added   *)
(* to memory; a KeyError sends the call to the server; a RuntimeError      *)
(* propagates to the caller.                                               *)
EntryGet(t) ==
    /\ pc[t] = "idle"
    /\ \E k \in Keys :
        /\ cur' = [cur EXCEPT ![t] = k]
        /\ \/ /\ mem[k] # "none"
              /\ got' = [got EXCEPT ![t] = mem[k]]
              /\ Return(t) /\ UNCHANGED mem
           \/ /\ mem[k] = "none" /\ entryFile[k] = "none"
              /\ Goto(t, "entryFetch") /\ UNCHANGED <<mem, got>>
           \/ /\ mem[k] = "none" /\ entryFile[k] # "none"
              /\ got' = [got EXCEPT ![t] = DiskRead(k)]
              /\ mem' = IF DiskRead(k) = "error" THEN mem
                        ELSE [mem EXCEPT ![k] = DiskRead(k)]
              /\ Return(t)
    /\ UNCHANGED <<kind, srv, entryFile, blobFile, tmp, opened, crashes, tampers>>

(* The idversion checks of the three getters on a cache miss. *)
CommitIdversionOk(idv) == idv = 0 \/ idv = 1

(* A tree check copied from the commit and object getters. *)
TreeIdversionOkAsObject(idv) == idv = 0 \/ idv = 1

TreeIdversionOk(idv) == idv = 0

ObjectIdversionOk(idv) == idv = 0 \/ idv = 1

IdversionOk(ty, idv) ==
    CASE ty = "commit" -> CommitIdversionOk(idv)
      [] ty = "tree"   -> TreeIdversionOk(idv)
      [] ty = "object" -> ObjectIdversionOk(idv)

(* _handleErrata: errata are deleted from the content; under the policy  *)
(* "error" an ErrataError is raised, else the content goes on.           *)
ErrataRaises(errata) == errata /\ ErrataPolicy = "error"

(* The content the client installs: the bytes of the SHA-1 in a known    *)
(* idversion, or a content it cannot interpret.                          *)
Fetched(k) == IF srv[k].idv \in Implemented(kind[k]) THEN "good" ELSE "unsupported"

(* getCommitContent / getTreeContent / getObjectContent after the miss:  *)
(* _get raises on a transport or status error; an unsupported _idversion *)
(* raises RuntimeError and errata may raise ErrataError, both before the *)
(* content is cached; otherwise EntryDiskCache.add verifies it and writes *)
(* a temporary file in the shard directory.                              *)
EntryFetch(t) ==
    /\ pc[t] = "entryFetch"
    /\ LET s == srv[cur[t]] IN
       \/ /\ IdversionOk(kind[cur[t]], s.idv) /\ ~ErrataRaises(s.errata)
          /\ tmp' = tmp \cup {Tmp("entries", t, cur[t], Fetched(cur[t]))}
          /\ Goto(t, "entryRename") /\ UNCHANGED got
       \/ /\ ~IdversionOk(kind[cur[t]], s.idv)
          /\ got' = [got EXCEPT ![t] = "error"]
          /\ Return(t) /\ UNCHANGED tmp
       \/ /\ IdversionOk(kind[cur[t]], s.idv) /\ ErrataRaises(s.errata)
          /\ got' = [got EXCEPT ![t] = "error"]
          /\ Return(t) /\ UNCHANGED tmp
       \/ /\ got' = [got EXCEPT ![t] = "error"]
          /\ Return(t) /\ UNCHANGED tmp
    /\ UNCHANGED <<kind, srv, entryFile, blobFile, mem, cur, opened, crashes, tampers>>

(* _chmodRO and os.rename onto the SHA-1 path, then EntryMemCache.add. *)
EntryRename(t) ==
    /\ pc[t] = "entryRename"
    /\ entryFile' = [entryFile EXCEPT ![cur[t]] = Fetched(cur[t])]
    /\ tmp' = tmp \ OwnTmp(t, "entries")
    /\ mem' = [mem EXCEPT ![cur[t]] = Fetched(cur[t])]
    /\ got' = [got EXCEPT ![t] = Fetched(cur[t])]
    /\ Return(t)
    /\ UNCHANGED <<kind, srv, blobFile, cur, opened, crashes, tampers>>

-----------------------------------------------------------------------------
(* openBlob -> prefetchBlob -> _prefetchBlob: BlobCache.has is a plain     *)
(* existence check; on a miss fetchBlob creates the temporary file before  *)
(* it requests the content.                                                *)
BlobHas(t) ==
    /\ pc[t] = "idle"
    /\ \E k \in Keys :
        /\ cur' = [cur EXCEPT ![t] = k]
        /\ \/ blobFile[k] # "none" /\ Goto(t, "blobOpen") /\ UNCHANGED tmp
           \/ /\ blobFile[k] = "none"
              /\ tmp' = tmp \cup {Tmp("blobs", t, k, "partial")}
              /\ Goto(t, "blobDownload")
    /\ UNCHANGED <<kind, srv, entryFile, blobFile, mem, got, opened, crashes, tampers>>

(* getBlobContent streams the response into the temporary file.  It ends  *)
(* with the blob's bytes or with other bytes (a truncated or wrong         *)
(* response), or raises, which leaves the temporary file behind.           *)
BlobDownload(t) ==
    /\ pc[t] = "blobDownload"
    /\ \/ \E b \in {"good", "corrupt"} :
            /\ tmp' = (tmp \ OwnTmp(t, "blobs")) \cup {Tmp("blobs", t, cur[t], b)}
            /\ Goto(t, "blobVerify") /\ UNCHANGED opened
       \/ /\ opened' = [opened EXCEPT ![t] = "error"]
          /\ Return(t) /\ UNCHANGED tmp
    /\ UNCHANGED <<kind, srv, entryFile, blobFile, mem, cur, got, crashes, tampers>>

(* A fetchBlob that renames the temporary file without checking its SHA-1. *)
BlobVerifySkipped(t) ==
    /\ pc[t] = "blobVerify"
    /\ \E f \in OwnTmp(t, "blobs") :
        blobFile' = [blobFile EXCEPT ![cur[t]] = f.bytes]
    /\ tmp' = tmp \ OwnTmp(t, "blobs")
    /\ Goto(t, "blobOpen")
    /\ UNCHANGED <<kind, srv, entryFile, mem, cur, got, opened, crashes, tampers>>

(* fetchBlob: sha1Path_hex of the temporary file; on a mismatch it is      *)
(* removed and RuntimeError raised, else _chmodRO and os.rename.           *)
BlobVerify(t) ==
    /\ pc[t] = "blobVerify"
    /\ tmp' = tmp \ OwnTmp(t, "blobs")
    /\ \E f \in OwnTmp(t, "blobs") :
        \/ /\ f.bytes = "good"
           /\ blobFile' = [blobFile EXCEPT ![cur[t]] = "good"]
           /\ Goto(t, "blobOpen") /\ UNCHANGED opened
        \/ /\ f.bytes # "good"
           /\ opened' = [opened EXCEPT ![t] = "error"]
           /\ Return(t) /\ UNCHANGED blobFile
    /\ UNCHANGED <<kind, srv, entryFile, mem, cur, got, crashes, tampers>>

(* BlobCache.open (link and copy alike) uses the file as it is. *)
BlobOpen(t) ==
    /\ pc[t] = "blobOpen"
    /\ opened' = [opened EXCEPT ![t] = blobFile[cur[t]]]
    /\ Return(t)
    /\ UNCHANGED <<kind, srv, entryFile, blobFile, mem, tmp, cur, got, crashes, tampers>>

-----------------------------------------------------------------------------
(* The process dies: memory and calls are lost, files stay. *)
Crash ==
    /\ crashes < MaxCrashes
    /\ crashes' = crashes + 1
    /\ mem' = [k \in Keys |-> "none"]
    /\ pc' = [t \in Threads |-> "idle"]
    /\ UNCHANGED <<kind, srv, entryFile, blobFile, tmp, cur, got, opened, tampers>>

(* A cached file is changed by hand despite its read-only mode (spec 8). *)
Tamper ==
    /\ tampers < MaxTamper
    /\ tampers' = tampers + 1
    /\ \E k \in Keys :
        \/ entryFile[k] = "good" /\ entryFile' = [entryFile EXCEPT ![k] = "tampered"]
                                 /\ UNCHANGED blobFile
        \/ blobFile[k] = "good" /\ blobFile' = [blobFile EXCEPT ![k] = "tampered"]
                                /\ UNCHANGED entryFile
    /\ UNCHANGED <<kind, srv, mem, tmp, pc, cur, got, opened, crashes>>

Init ==
    /\ kind \in [Keys -> Kinds]
    /\ srv \in [Keys -> Served]
    /\ entryFile = [k \in Keys |-> "none"]
    /\ blobFile = [k \in Keys |-> "none"]
    /\ mem = [k \in Keys |-> "none"]
    /\ tmp = {}
    /\ pc = [t \in Threads |-> "idle"]
    /\ cur \in [Threads -> Keys]
    /\ got = [t \in Threads |-> "none"]
    /\ opened = [t \in Threads |-> "none"]
    /\ crashes = 0
    /\ tampers = 0

Thread(t) ==
    \/ EntryGet(t) \/ EntryFetch(t) \/ EntryRename(t)
    \/ BlobHas(t) \/ BlobDownload(t) \/ BlobVerify(t) \/ BlobOpen(t)

Next == (\E t \in Threads : Thread(t)) \/ Crash \/ Tamper

Spec == Init /\ [][Next]_vars

-----------------------------------------------------------------------------
(* Types; the memory tier holds a content that was verified or came from  *)
(* the server (EntryCache.get adds only after EntryDiskCache.get returns), *)
(* or nothing.                                                             *)
TypeOK ==
    /\ entryFile \in [Keys -> FileStates]
    /\ blobFile \in [Keys -> FileStates]
    /\ mem \in [Keys -> {"none", "good"}]
    /\ tmp \subseteq [dir : {"entries", "blobs"}, owner : Threads, key : Keys, bytes : Bytes]
    /\ pc \in [Threads -> {"idle", "entryFetch", "entryRename", "blobDownload",
                           "blobVerify", "blobOpen"}]
    /\ cur \in [Threads -> Keys]
    /\ got \in [Threads -> Results] /\ opened \in [Threads -> Results]
    /\ crashes \in 0 .. MaxCrashes /\ tampers \in 0 .. MaxTamper
    /\ kind \in [Keys -> Kinds] /\ srv \in [Keys -> Served]

(* Spec 8 (cache integrity) for entries: get*Content never returns a      *)
(* content whose SHA-1 differs from the one asked for, whether it comes    *)
(* from memory, from a tampered disk file or from a concurrent writer;     *)
(* nor one in an idversion spec 3 does not define for its kind, though     *)
(* only the server fetch checks idversions and the cache tiers serve what  *)
(* was stored without checking again.                                      *)
EntryReadVerified == \A t \in Threads : got[t] \in {"none", "error", "good"}

(* fetchBlob's temp-file, verify, rename sequence: under concurrent        *)
(* _prefetchBlob threads, failed and wrong downloads and crashes, the      *)
(* SHA-1 path of a blob (what has() tests) never holds an unfinished or    *)
(* wrong download.                                                         *)
BlobFilesComplete == \A k \in Keys : blobFile[k] \in {"none", "good", "tampered"}


(* Spec 8 (cache integrity) for blobs: tampering with a blob file in the   *)
(* cache is detected on the next read, so openBlob / linkBlob / copyBlob   *)
(* never hand out bytes other than those of the SHA-1 asked for.           *)
BlobReadVerified == \A t \in Threads : opened[t] \in {"none", "error", "good"}

====
