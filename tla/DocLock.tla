------------------------------ MODULE DocLock ------------------------------
(***************************************************************************)
(* DocLock (src/daemons/lib/nogd.py): daemons lock a MongoDB document for  *)
(* one operation (the lock `core`) by pushing {ts, holder, ...core} to the *)
(* document's `locks` array under the condition that no lock with the      *)
(* same core is there.  At most one entry per core can therefore exist, so *)
(* the array is modelled by the holder of that entry and its age.  A       *)
(* holder renews the entry's ts at most once per LOCK_RENEW_INTERVAL_S     *)
(* (one minute, the time unit here); entries older than                    *)
(* LOCK_EXPIRE_TIMEDELTA are reaped by code outside this repository.       *)
(* `held` is what each daemon believes: tryLock returned True and it has   *)
(* not called unlock.  Callers (nogreplicad, nogsumd) are not in this      *)
(* repository: a caller either renews within RenewWithin minutes or it     *)
(* stalls for longer than LOCK_EXPIRE_TIMEDELTA; which is fixed per        *)
(* behaviour.                                                              *)
(***************************************************************************)
EXTENDS Naturals

CONSTANTS
    Holders,        \* the daemons (DocLock.holder) competing for one core
    NoHolder,       \* no entry with this core in doc.locks
    Expire,         \* LOCK_EXPIRE_TIMEDELTA in minutes
    RenewDeadlines  \* the minutes within which a holding daemon may call renewLock

ASSUME /\ Expire \in Nat \ {0} /\ NoHolder \notin Holders
       /\ RenewDeadlines # {} /\ RenewDeadlines \subseteq Nat \ {0}

VARIABLES
    lockHolder,     \* holder of the entry in doc.locks, or NoHolder
    lockAge,        \* minutes since the entry's ts
    held,           \* the daemon believes it holds the lock
    since,          \* minutes since the daemon's last renewal (nextRenewal)
    lastTry,        \* what the daemon's last tryLock did: "none", "true", "false", "raised"
    renewWithin     \* the callers' renewal deadline in this behaviour, fixed

vars == <<lockHolder, lockAge, held, since, lastTry, renewWithin>>

MaxSince == Expire + CHOOSE r \in RenewDeadlines : \A q \in RenewDeadlines : q <= r

(* The conditional $push of tryLock: it matches only if no entry has the   *)
(* lock's core; the holder is not part of the condition.                   *)
PushApplies == lockHolder = NoHolder

Push(h) == lockHolder' = h /\ lockAge' = 0

-----------------------------------------------------------------------------
(* tryLock: modified_count = 1, returns True and sets nextRenewal.  When   *)
(* the update matches nothing it returns False and changes nothing.        *)
TryLock(h) ==
    /\ ~held[h]
    /\ PushApplies
    /\ Push(h)
    /\ held' = [held EXCEPT ![h] = TRUE]
    /\ since' = [since EXCEPT ![h] = 0]
    /\ lastTry' = [lastTry EXCEPT ![h] = "true"]
    /\ UNCHANGED renewWithin

(* tryLock whose update matches no document: some entry has the core;      *)
(* modified_count is 0 and it returns False.                               *)
TryLockRefused(h) ==
    /\ ~held[h]
    /\ ~PushApplies
    /\ lastTry' = [lastTry EXCEPT ![h] = "false"]
    /\ UNCHANGED <<lockHolder, lockAge, held, since, renewWithin>>

(* update_one raises (timeout, lost reply): the push may have been applied *)
(* or not; the caller sees an exception, not a lock.                       *)
TryLockLost(h) ==
    /\ ~held[h]
    /\ \/ PushApplies /\ Push(h)
       \/ UNCHANGED <<lockHolder, lockAge>>
    /\ lastTry' = [lastTry EXCEPT ![h] = "raised"]
    /\ UNCHANGED <<held, since, renewWithin>>

(* An unlock that pulls every entry with the lock's core, whoever holds it. *)
UnlockByCore(h) ==
    /\ held[h]
    /\ lockHolder' = NoHolder
    /\ held' = [held EXCEPT ![h] = FALSE]
    /\ UNCHANGED <<lockAge, since, lastTry, renewWithin>>

(* unlock: $pull the entry {core, holder}; the result is only logged. *)
Unlock(h) ==
    /\ held[h]
    /\ lockHolder' = IF lockHolder = h THEN NoHolder ELSE lockHolder
    /\ held' = [held EXCEPT ![h] = FALSE]
    /\ UNCHANGED <<lockAge, since, lastTry, renewWithin>>

(* A renewal that moves nextRenewal but does not refresh ts. *)
RenewLockNoTs(h) ==
    /\ held[h]
    /\ since[h] >= 1
    /\ since' = [since EXCEPT ![h] = 0]
    /\ UNCHANGED <<lockHolder, lockAge, held, lastTry, renewWithin>>

(* renewLock once nextRenewal has passed: $currentDate on the entry        *)
(* {core, holder}.  When the entry is gone, modified_count is 0 and the    *)
(* failure is only logged: the daemon still believes it holds the lock.    *)
RenewLock(h) ==
    /\ held[h]
    /\ since[h] >= 1
    /\ since' = [since EXCEPT ![h] = 0]
    /\ lockAge' = IF lockHolder = h THEN 0 ELSE lockAge
    /\ UNCHANGED <<lockHolder, held, lastTry, renewWithin>>

(* A minute passes; a holding daemon is not past its renewal deadline.    *)
(* Ages stop counting where nothing depends on them any more.             *)
Tick ==
    /\ \A h \in Holders : held[h] => since[h] < renewWithin
    /\ lockAge' = IF lockAge < Expire THEN lockAge + 1 ELSE Expire
    /\ since' = [h \in Holders |-> IF since[h] < MaxSince THEN since[h] + 1 ELSE MaxSince]
    /\ UNCHANGED <<lockHolder, held, lastTry, renewWithin>>

(* The reaper removes an entry whose ts is LOCK_EXPIRE_TIMEDELTA old. *)
Reap ==
    /\ lockHolder # NoHolder
    /\ lockAge >= Expire
    /\ lockHolder' = NoHolder
    /\ UNCHANGED <<lockAge, held, since, lastTry, renewWithin>>

-----------------------------------------------------------------------------
Init ==
    /\ lockHolder = NoHolder
    /\ lockAge = 0
    /\ held = [h \in Holders |-> FALSE]
    /\ since = [h \in Holders |-> 0]
    /\ lastTry = [h \in Holders |-> "none"]
    /\ renewWithin \in RenewDeadlines

Next ==
    \/ \E h \in Holders : \/ TryLock(h) \/ TryLockRefused(h) \/ TryLockLost(h)
                          \/ Unlock(h) \/ RenewLock(h)
    \/ Tick
    \/ Reap

Spec == Init /\ [][Next]_vars

-----------------------------------------------------------------------------
(* Callers that renew before their entry can expire. *)
Prompt == renewWithin < Expire

(* The purpose of DocLock: at most one daemon at a time believes it holds  *)
(* the lock, across lost replies, renewals, expiry and reaping, as long as *)
(* the callers call renewLock in time; renewLock's $currentDate keeps the  *)
(* entry from being reaped.                                                *)
MutualExclusion ==
    Prompt => \A h1, h2 \in Holders : held[h1] /\ held[h2] => h1 = h2

(* unlock pulls by {holder, ...core}: an entry that has not expired leaves *)
(* doc.locks only when its own holder unlocks, even when a daemon that     *)
(* stalled past LOCK_EXPIRE_TIMEDELTA, was reaped and still believes it    *)
(* holds the lock calls unlock after another daemon has locked the core.   *)
LockNotStolen ==
    [][lockHolder # NoHolder /\ lockAge < Expire /\ lockHolder' # lockHolder
         => ~held'[lockHolder]]_<<lockHolder, lockAge, held>>

(* Spec 4.10: acquire is idempotent under retry, scoped by holder.  Then   *)
(* tryLock returns False to a daemon only while another daemon's entry    *)
(* has the core, never because of an entry of its own.                     *)
RefusedOnlyByOther ==
    \A h \in Holders : lastTry[h] = "false" => lockHolder # h

=============================================================================
