------------------------------ MODULE RepoSpec ------------------------------
(***************************************************************************)
(* What a nog repository promises the clients that publish to it (spec     *)
(* 4.5 to 4.7), independent of how a client batches its requests: content *)
(* is only ever added, and only together with everything it references;   *)
(* a commit is stored only when its whole tree and its parents are; and    *)
(* `branches/master` moves only by compare-and-swap to a commit whose      *)
(* single parent is the commit it replaces.  Publish and Publish2go are    *)
(* checked to implement this specification.                               *)
(***************************************************************************)
CONSTANTS
    Ids,        \* the ids of entries and blobs
    RefsOf      \* [Ids -> SUBSET Ids]: the ids the content of an id references

VARIABLES
    store,      \* the entries and blobs the repository holds
    commits,    \* the commits it holds, [tree, parents]
    ref         \* `branches/master`

repo == <<store, commits, ref>>

RECURSIVE ClosureOf(_)
ClosureOf(x) == {x} \cup UNION {ClosureOf(y) : y \in RefsOf[x]}

Closed(S) == \A x \in S : RefsOf[x] \subseteq S

(* Everything a commit needs is in the repository. *)
Complete(c) ==
    /\ ClosureOf(c.tree) \subseteq store
    /\ \A i \in DOMAIN c.parents : c.parents[i] \in commits

Init ==
    /\ store \subseteq Ids
    /\ Closed(store)
    /\ ref \in commits
    /\ \A c \in commits : ClosureOf(c.tree) \subseteq store

(* A bulk insert or a blob upload: new content, closed under references. *)
AddContent ==
    /\ store \subseteq store'
    /\ Closed(store')
    /\ UNCHANGED <<commits, ref>>

(* postCommitContent: the server stores a complete commit. *)
AddCommit(c) ==
    /\ Complete(c)
    /\ commits' = commits \cup {c}

(* updateRef(new, old) succeeds only when old is the current master. *)
Cas(c) ==
    /\ c.parents = <<ref>>
    /\ ref' = c

Next ==
    \/ AddContent
    \/ \E c \in commits' : AddCommit(c) /\ UNCHANGED <<store, ref>>
    \/ \E c \in commits : Cas(c) /\ UNCHANGED <<store, commits>>
    \* another client's commit and ref update, seen as one step
    \/ \E c \in commits' : AddCommit(c) /\ Cas(c) /\ UNCHANGED store

Spec == Init /\ [][Next]_repo

=============================================================================
