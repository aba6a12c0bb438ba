------------------------------- MODULE Vault -------------------------------
(***************************************************************************)
(* The Vault lease renewal of the nog daemons (src/daemons/lib/nogd.py,    *)
(* class Vault).  leaseTo reads each secret once at start-up; the thread   *)
(* of startRenewalDaemon then calls _tick once a minute.  A tick rereads   *)
(* the token file, and for each lease in insertion order skips it unless   *)
(* it is due (30 minutes before expiry) or a reread is forced; under       *)
(* _leaseLock it renews the lease or reads the secret again.  shutdown     *)
(* takes _leaseLock, sets _leaving and revokes every lease.                *)
(*                                                                         *)
(* Time is counted in units of 15 minutes: a lease is due when at most 2   *)
(* units (1800 s) are left, and a renewal is short when less than 3 units  *)
(* (2700 s) are left after it.  rem is the time left before expiry that    *)
(* `rtime + lease_duration - now` computes; a tick takes one minute, so    *)
(* the clock advances by a unit only after a complete tick.                *)
(***************************************************************************)
EXTENDS Integers, Sequences, SequencesExt

CONSTANTS
    VaultPaths,     \* the Vault paths the config names
    NogMongoUrl,    \* cfg['nogMongoUrl']: a path in VaultPaths (a `vault:` URL) or Plain
    Plain,          \* a MongoDB URL that does not start with `vault:`
    BucketVaults,   \* the keyVault of each of cfg['buckets'], in order, or NoKeyVault
    NoKeyVault,     \* a bucket without keyVault
    Renewable,      \* the paths whose leases are renewable (no `/sts/` in the lease id)
    DurationChoices, \* the sets of lease_duration values, in units, a Vault may return
    MaxTokens       \* how often ~/.vault-token may be replaced

ASSUME /\ NogMongoUrl \in VaultPaths \cup {Plain}
       /\ BucketVaults \in Seq(VaultPaths \cup {NoKeyVault})
       /\ Renewable \subseteq VaultPaths
       /\ \A D \in DurationChoices : D # {} /\ D \subseteq Nat \ {0}

(* The leaseTo calls of newMongoBucketsCfgVault, in order: the MongoDB URL *)
(* into cfg itself (dest 0) if it is a `vault:` URL, then the AWS keys of  *)
(* each bucket with a keyVault into that bucket's dict (dest i).  A key is *)
(* a pair <<dest, dst>> of a target dict and a key of its keymap.          *)
LeaseCalls ==
    LET mongo == IF NogMongoUrl = Plain THEN <<>>
                 ELSE <<[path |-> NogMongoUrl, dest |-> 0, keymap |-> <<"nogMongoUrl">>]>>
        bucket(i) == [path |-> BucketVaults[i], dest |-> i,
                      keymap |-> <<"awsAccessKeyId", "awsSecretAccessKey", "awsSessionToken">>]
    IN mongo \o SelectSeq([i \in DOMAIN BucketVaults |-> bucket(i)],
                          LAMBDA c : c.path # NoKeyVault)

(* leaseTo(path, dest, keymap): a path not in self._leases is read and     *)
(* added at the end of the dict; every call appends {dest, keymap} to the  *)
(* lease's targets.  `keys` lists a lease's <<dest, dst>> in the order the *)
(* tick copies them: target by target, the keymap in order.                *)
LeaseTo(leases, call) ==
    LET targetKeys == [i \in DOMAIN call.keymap |-> <<call.dest, call.keymap[i]>>]
    IN IF call.path \in DOMAIN leases.keys
       THEN [leases EXCEPT !.keys[call.path] = @ \o targetKeys]
       ELSE [order |-> Append(leases.order, call.path),
             keys |-> leases.keys @@ (call.path :> targetKeys)]

(* self._leases after newMongoBucketsCfgVault. *)
Leases == FoldLeft(LeaseTo, [order |-> <<>>, keys |-> [p \in {} |-> <<>>]], LeaseCalls)

LeaseOrder == Leases.order   \* the Vault paths of self._leases, in insertion order
KeyMap == Leases.keys        \* the keys each lease's targets receive, in order

Paths == ToSet(LeaseOrder)

(* startRenewalDaemon returns without starting the thread when there are   *)
(* no leases; the model covers the started daemon.                         *)
ASSUME LeaseOrder # <<>>

Keys == UNION {ToSet(KeyMap[p]) : p \in Paths}

VARIABLES
    rem,        \* rtime + lease_duration - now of each lease, in units
    tok,        \* the token each lease was read with
    token,      \* the token in ~/.vault-token
    clientTok,  \* self._client.token
    forceRead,  \* self._forceRead
    leaving,    \* self._leaving
    lock,       \* holder of self._leaseLock: "none", "daemon" or "main"
    pc,         \* the renewal thread: "sleep", "loop", "renew", "read", "dead"
    todo,       \* the leases the loop of the current tick has still to visit
    ticked,     \* a tick has completed since the clock last advanced
    data,       \* lease['vault']['data'] of each lease: which read it comes from, mod 2
    dest,       \* the managed keys of self._cfg: the read each value comes from
    view,       \* self._readCfg, what `vault.cfg` returns
    keys,       \* the keys of the current lease's keymap still to copy
    durations,  \* the lease_duration values this Vault returns, fixed
    creds       \* the last get_frozen_credentials() of each bucket's S3 session

vars == <<creds, durations, rem, tok, token, clientTok, forceRead, leaving, lock, pc, todo, ticked,
          data, dest, view, keys>>
rv == <<data, dest, view, keys, creds>>

Due(p) == rem[p] <= 2

(* `(rtime + duration - 2700) < now` after a successful renewal. *)
Short(d) == d < 3

(* A read creates a new lease with the secret's full TTL, which is taken   *)
(* to be at least the 45 minutes _tick asks of a renewal; a renewal is    *)
(* short when Vault caps it at the lease's max TTL.                        *)
ReadDurations == {d \in durations : ~Short(d)}

ASSUME \A D \in DurationChoices : \E d \in D : ~Short(d)

-----------------------------------------------------------------------------
(* _replaceToken: read ~/.vault-token; if it differs from the client's     *)
(* token, install it and return True.                                      *)
TokenChanged == token # clientTok

(* _readVault(path): a new lease, read with the client's token, with new   *)
(* secret data and `rtime` now.                                            *)
ReadVault(p, d) ==
    /\ rem' = [rem EXCEPT ![p] = d]
    /\ tok' = [tok EXCEPT ![p] = clientTok]
    /\ data' = [data EXCEPT ![p] = 1 - @]

(* _renew_secret(lease_id): the lease extended by `lease_duration` from    *)
(* `rtime` now.  The response replaces lease['vault']; the model assumes   *)
(* it carries the lease's secret data, which the keymap is applied from.   *)
RenewSecret(p, d) == rem' = [rem EXCEPT ![p] = d]

(* _tick: `self._forceRead |= self._replaceToken()`, then the loop. *)
TickStart ==
    /\ pc = "sleep"
    /\ forceRead' = (forceRead \/ TokenChanged)
    /\ clientTok' = token
    /\ todo' = LeaseOrder
    /\ pc' = "loop"
    /\ UNCHANGED <<rem, tok, token, durations, leaving, lock, ticked, rv>>

(* `continue` for a lease that is not due when no reread is forced. *)
Skip ==
    /\ pc = "loop"
    /\ todo # <<>>
    /\ ~forceRead /\ ~Due(Head(todo))
    /\ todo' = Tail(todo)
    /\ UNCHANGED <<rem, tok, token, durations, clientTok, forceRead, leaving, lock, pc, ticked, rv>>

(* `with self._leaseLock:` taken without the `_leaving` check. *)
AcquireWithoutLeavingCheck ==
    /\ pc = "loop"
    /\ todo # <<>>
    /\ forceRead \/ Due(Head(todo))
    /\ lock = "none"
    /\ lock' = "daemon"
    /\ pc' = IF forceRead \/ Head(todo) \notin Renewable THEN "read" ELSE "renew"
    /\ UNCHANGED <<rem, tok, token, durations, clientTok, forceRead, leaving, todo, ticked, rv>>

(* `with self._leaseLock:` for a due lease: `if self._leaving: return`     *)
(* ends the tick; otherwise a forced or non-renewable lease is reread and  *)
(* a renewable one renewed.                                                *)
Acquire ==
    /\ pc = "loop"
    /\ todo # <<>>
    /\ forceRead \/ Due(Head(todo))
    /\ lock = "none"
    /\ \/ /\ leaving
          /\ pc' = "sleep" /\ ticked' = TRUE
          /\ UNCHANGED lock
       \/ /\ ~leaving
          /\ lock' = "daemon"
          /\ pc' = IF forceRead \/ Head(todo) \notin Renewable THEN "read" ELSE "renew"
          /\ UNCHANGED ticked
    /\ UNCHANGED <<rem, tok, token, durations, clientTok, forceRead, leaving, todo, rv>>

(* `continue` inside the `with` block after a failed reread: the lock is   *)
(* released and the loop goes on with the next lease.                      *)
NextLease ==
    /\ lock' = "none"
    /\ todo' = Tail(todo)
    /\ pc' = "loop"

(* Leaving the `with` block after a renewal or a reread: the keymap of the *)
(* lease's targets is applied next, outside both locks.                    *)
StartApply ==
    /\ lock' = "none"
    /\ keys' = KeyMap[Head(todo)]
    /\ pc' = "apply"
    /\ UNCHANGED todo

(* A renewal whose response is logged but not stored in lease['vault']. *)
RenewOkNotStored ==
    /\ pc = "renew"
    /\ \E d \in durations : ~Short(d) /\ UNCHANGED rem
    /\ StartApply
    /\ UNCHANGED <<tok, token, durations, clientTok, forceRead, leaving, ticked, data, dest, view, creds>>

(* _renew_secret succeeds with a duration of at least 2700 s. *)
RenewOk ==
    /\ pc = "renew"
    /\ \E d \in durations : ~Short(d) /\ RenewSecret(Head(todo), d)
    /\ StartApply
    /\ UNCHANGED <<tok, token, durations, clientTok, forceRead, leaving, ticked, data, dest, view, creds>>

(* _renew_secret succeeds with a short duration: the fallback assigns      *)
(* `shouldRead = true`, a NameError that leaves _tick and run(): the       *)
(* with-block releases the lock and the renewal thread ends.               *)
RenewShort ==
    /\ pc = "renew"
    /\ \E d \in durations : Short(d) /\ RenewSecret(Head(todo), d)
    /\ lock' = "none"
    /\ pc' = "dead"
    /\ UNCHANGED <<tok, token, durations, clientTok, forceRead, leaving, todo, ticked, rv>>

(* _renew_secret raises: fall back to reread. *)
RenewFails ==
    /\ pc = "renew"
    /\ pc' = "read"
    /\ UNCHANGED <<rem, tok, token, durations, clientTok, forceRead, leaving, lock, todo, ticked, rv>>

(* _readVault succeeds: a new lease read with the client's token. *)
ReadOk ==
    /\ pc = "read"
    /\ \E d \in ReadDurations : ReadVault(Head(todo), d)
    /\ StartApply
    /\ UNCHANGED <<token, durations, clientTok, forceRead, leaving, ticked, dest, view, creds>>

(* _readVault raises: logged, `continue` with the next lease. *)
ReadFails ==
    /\ pc = "read"
    /\ NextLease
    /\ UNCHANGED <<rem, tok, token, durations, clientTok, forceRead, leaving, ticked, rv>>

(* A keymap loop that publishes the read view after every key it copies. *)
CopyKeyAndPublish ==
    /\ pc = "apply"
    /\ keys # <<>>
    /\ dest' = [dest EXCEPT ![Head(keys)] = data[Head(todo)]]
    /\ keys' = Tail(keys)
    /\ view' = dest'
    /\ UNCHANGED <<rem, tok, token, durations, clientTok, forceRead, leaving, lock, pc, todo,
                   ticked, data, creds>>

(* One iteration of `for src, dst in target['keymap'].items()`: the value  *)
(* of the lease's data is written to the target dict, a subdict of _cfg.   *)
CopyKey ==
    /\ pc = "apply"
    /\ keys # <<>>
    /\ dest' = [dest EXCEPT ![Head(keys)] = data[Head(todo)]]
    /\ keys' = Tail(keys)
    /\ UNCHANGED <<rem, tok, token, durations, clientTok, forceRead, leaving, lock, pc, todo,
                   ticked, data, view, creds>>

(* _updateReadView once the keymap is applied: stamp mtime, deepcopy _cfg, *)
(* and swap the copy in as _readCfg under _lock; then the next lease.      *)
(* The daemon is the only writer of _cfg once leaseTo has run, so the      *)
(* deepcopy outside _lock reads a dict no one changes meanwhile.           *)
UpdateReadView ==
    /\ pc = "apply"
    /\ keys = <<>>
    /\ view' = dest
    /\ todo' = Tail(todo)
    /\ pc' = "loop"
    /\ UNCHANGED <<rem, tok, token, durations, clientTok, forceRead, leaving, lock, ticked,
                   data, dest, keys, creds>>

(* After the loop: `self._forceRead = False`; then sleep(60). *)
TickEnd ==
    /\ pc = "loop"
    /\ todo = <<>>
    /\ forceRead' = FALSE
    /\ pc' = "sleep"
    /\ ticked' = TRUE
    /\ UNCHANGED <<rem, tok, token, durations, clientTok, leaving, lock, todo, rv>>

-----------------------------------------------------------------------------
(* The S3 clients of newMongoBucketContext: one VaultAwsCredentials per    *)
(* bucket, at cfgpath 'buckets.{idx}'.  botocore signs each request with   *)
(* get_frozen_credentials(), which may run at any time on any thread.      *)
CredBuckets == {i \in DOMAIN BucketVaults : BucketVaults[i] # NoKeyVault}

CredKeys == <<"awsAccessKeyId", "awsSecretAccessKey", "awsSessionToken">>

NoCreds == <<>>

(* Vault.cfg: `with self._lock: return self._readCfg`. *)
cfg == view

(* getpath(data, 'buckets.{idx}'): the sub-dict of one bucket. *)
getpath(d, i) == [j \in DOMAIN CredKeys |-> d[<<i, CredKeys[j]>>]]

(* A get_frozen_credentials that reads the dict passed to Vault(cfg), the *)
(* one the renewal thread writes key by key.                              *)
GetFrozenCredentialsFromCfg(i) ==
    /\ creds' = [creds EXCEPT ![i] = getpath(dest, i)]
    /\ UNCHANGED <<rem, tok, token, durations, clientTok, forceRead, leaving, lock, pc, todo,
                   ticked, data, dest, view, keys>>

(* get_frozen_credentials: one read of vault.cfg, then the access key id, *)
(* the secret access key and the session token of the bucket from it.    *)
GetFrozenCredentials(i) ==
    /\ creds' = [creds EXCEPT ![i] = getpath(cfg, i)]
    /\ UNCHANGED <<rem, tok, token, durations, clientTok, forceRead, leaving, lock, pc, todo,
                   ticked, data, dest, view, keys>>

-----------------------------------------------------------------------------
(* The environment: the clock, the token file, and the main thread. *)

(* Fifteen minutes pass: at least one tick if the thread is alive. *)
Advance ==
    /\ ticked \/ pc = "dead"
    /\ rem' = [p \in Paths |-> IF rem[p] > 0 THEN rem[p] - 1 ELSE 0]
    /\ ticked' = FALSE
    /\ UNCHANGED <<tok, token, durations, clientTok, forceRead, leaving, lock, pc, todo, rv>>

(* A separate task writes a new token to ~/.vault-token. *)
ReplaceToken ==
    /\ token < MaxTokens
    /\ token' = token + 1
    /\ UNCHANGED <<durations, rem, tok, clientTok, forceRead, leaving, lock, pc, todo, ticked, rv>>

(* Vault.shutdown: under _leaseLock, set _leaving and revoke every lease. *)
Shutdown ==
    /\ ~leaving
    /\ lock = "none"
    /\ leaving' = TRUE
    /\ rem' = [p \in Paths |-> 0]
    /\ UNCHANGED <<tok, token, durations, clientTok, forceRead, lock, pc, todo, ticked, rv>>

-----------------------------------------------------------------------------
(* leaseTo has read every secret with the initial token. *)
Init ==
    /\ durations \in DurationChoices
    /\ rem \in [Paths -> ReadDurations]
    /\ tok = [p \in Paths |-> 0]
    /\ token = 0
    /\ clientTok = 0
    /\ forceRead = FALSE
    /\ leaving = FALSE
    /\ lock = "none"
    /\ pc = "sleep"
    /\ todo = <<>>
    /\ ticked = FALSE
    /\ data = [p \in Paths |-> 0]
    /\ dest = [k \in Keys |-> 0]
    /\ view = dest
    /\ keys = <<>>
    /\ creds = [i \in CredBuckets |-> NoCreds]

Daemon == TickStart \/ Skip \/ Acquire \/ RenewOk \/ RenewShort \/ RenewFails
          \/ ReadOk \/ ReadFails \/ CopyKey \/ UpdateReadView \/ TickEnd

Next == Daemon \/ Advance \/ ReplaceToken \/ Shutdown
        \/ \E i \in CredBuckets : GetFrozenCredentials(i)

(* The renewal thread loops forever (`while True`) and every Vault call    *)
(* returns or raises; Vault is not down for ever, so a reread that is      *)
(* tried again and again eventually succeeds, for each secret.  The clock, *)
(* the token file and shutdown need not act.                               *)
ReadOkFor(p) == ReadOk /\ Head(todo) = p

Spec == Init /\ [][Next]_vars /\ WF_vars(Daemon)
        /\ \A p \in Paths : SF_vars(ReadOkFor(p))

-----------------------------------------------------------------------------
(* shutdown revokes the leases under _leaseLock and the renewal thread     *)
(* checks _leaving under the same lock, so once shutdown has run no lease  *)
(* is renewed or read again, whatever the tick was doing meanwhile.        *)
NoRefreshAfterRevoke ==
    [][leaving => \A p \in Paths : rem'[p] <= rem[p]]_<<leaving, rem>>

(* The comment above _tick: leases are refreshed 30 minutes before they    *)
(* expire, falling back to a reread when renewal fails or is short.  Each  *)
(* lease that is due is eventually refreshed, unless shutdown intervenes.  *)
(* Only a reread or a long renewal makes a due lease not due again.        *)
DueLeaseRefreshed ==
    \A p \in Paths : (Due(p) /\ ~leaving) ~> (~Due(p) \/ leaving)

(* A Vault that returns no lease shorter than 45 minutes. *)
LongLeases == \A d \in durations : ~Short(d)

(* The comment above _tick, for a Vault whose leases are never short:      *)
(* every due lease is eventually renewed or reread unless shutdown         *)
(* intervenes, through renewal failures, failed rereads and token          *)
(* replacements; the short-renewal fallback that would raise is never     *)
(* taken.                                                                  *)
DueLeaseRefreshedWithLongLeases == LongLeases => DueLeaseRefreshed

(* The class comment of Vault and spec 4.9: `vault.cfg` is a consistent    *)
(* snapshot, never a mismatching access key id and secret access key: the  *)
(* keys of one lease in the read view always come from the same read,      *)
(* across rereads, renewals, token replacements and shutdown.              *)
ViewConsistent ==
    \A p \in Paths : \A k1, k2 \in ToSet(KeyMap[p]) : view[k1] = view[k2]

(* The docstring of VaultAwsCredentials and the class comment of Vault:   *)
(* an S3 request is signed with an access key id, secret access key and   *)
(* session token that come from one and the same read of the bucket's     *)
(* STS secret, while the renewal thread rewrites them key by key.          *)
FrozenCredentialsMatch ==
    \A i \in CredBuckets : creds[i] # NoCreds =>
        \A j, k \in DOMAIN creds[i] : creds[i][j] = creds[i][k]

(* The comment above _tick: a token replacement forces a reread of all     *)
(* leases, and a forced read is retried until all leases have been         *)
(* updated.  Between ticks, either a reread is still forced or every lease *)
(* was read with the client's current token.                               *)
ForcedReadComplete ==
    pc = "sleep" => (forceRead \/ \A p \in Paths : tok[p] = clientTok)

=============================================================================
