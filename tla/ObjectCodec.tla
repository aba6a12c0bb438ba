---------------------------- MODULE ObjectCodec ----------------------------
(***************************************************************************)
(* The two idversions of an Object's content and the accessors that        *)
(* convert between them (src/nogpackages/nogpy/nog.py, class Object).      *)
(* A content dict is abstracted to the three keys the idversions differ    *)
(* in: meta['content'], the top-level `text` and `blob`; name and the rest *)
(* of meta are carried unchanged by every operation and are left out.      *)
(* Absent stands for a key missing from its dict, None for Python's None.  *)
(*                                                                         *)
(* ObjectContents closes the contents an Object can start from (Object()   *)
(* and the contents getObject returns) under every operation the caller    *)
(* can apply, so the properties below range over every content a program   *)
(* can hold.                                                               *)
(***************************************************************************)
EXTENDS Naturals

None == "None"
Absent == "absent"
NULL_SHA1 == "0000000000000000000000000000000000000000"
Sha1 == "sha1"         \* a 40-hex SHA-1 string
Buf == "buf"           \* a BlobBuf or BlobFile, pending upload
BufSha1 == "bufsha1"   \* the .sha1 of that Blob
Texts == {None, "text"}
BlobArgs == {None, NULL_SHA1, Sha1, Buf}

Content == [metaContent : Texts \cup {Absent}, text : Texts \cup {Absent},
            blob : BlobArgs]

(* Object(): the default content, idversion 1. *)
DefaultContent == [metaContent |-> Absent, text |-> None, blob |-> None]

(* Object.idversion: 1 iff the content has a `text` key. *)
idversion(c) == IF c.text # Absent THEN 1 ELSE 0

(* A format that leaves a falsy blob as it is when converting to 0. *)
formatKeepingNone(c, v) ==
    CASE idversion(c) = v -> c
      [] v = 0 -> [metaContent |-> c.text, text |-> Absent, blob |-> c.blob]
      [] v = 1 -> [metaContent |-> Absent,
                   text |-> IF c.metaContent = Absent THEN None ELSE c.metaContent,
                   blob |-> IF c.blob = NULL_SHA1 THEN None ELSE c.blob]

(* A format to 1 that sets `text` to None without reading meta['content']. *)
formatDroppingText(c, v) ==
    CASE idversion(c) = v -> c
      [] v = 0 -> [metaContent |-> c.text, text |-> Absent,
                   blob |-> IF c.blob = None THEN NULL_SHA1 ELSE c.blob]
      [] v = 1 -> [metaContent |-> Absent, text |-> None,
                   blob |-> IF c.blob = NULL_SHA1 THEN None ELSE c.blob]

(* Object.format(idversion), on the deepcopy it installs by _setContent.   *)
(* To 0: meta['content'] = text, `text` deleted, a falsy blob becomes      *)
(* NULL_SHA1.  To 1: meta['content'] moves to `text` (None if missing),    *)
(* and NULL_SHA1 becomes None.                                             *)
format(c, v) ==
    CASE idversion(c) = v -> c
      [] v = 0 -> [metaContent |-> c.text, text |-> Absent,
                   blob |-> IF c.blob = None THEN NULL_SHA1 ELSE c.blob]
      [] v = 1 -> [metaContent |-> Absent,
                   text |-> IF c.metaContent = Absent THEN None ELSE c.metaContent,
                   blob |-> IF c.blob = NULL_SHA1 THEN None ELSE c.blob]

(* Object.text: meta.get('content', None) in idversion 0, else `text`. *)
text(c) ==
    IF idversion(c) = 0
    THEN IF c.metaContent = Absent THEN None ELSE c.metaContent
    ELSE c.text

(* The text setter writes where the getter reads. *)
setText(c, t) ==
    IF idversion(c) = 0 THEN [c EXCEPT !.metaContent = t] ELSE [c EXCEPT !.text = t]

(* Object.blob: the .sha1 of a pending Blob, else the stored value. *)
blob(c) == IF c.blob = Buf THEN BufSha1 ELSE c.blob

(* The blob setter: None and NULL_SHA1 are stored as the idversion's "no   *)
(* blob"; a SHA-1 string, a file path or bytes are stored as given.        *)
setBlob(c, b) ==
    IF b \in {None, NULL_SHA1}
    THEN [c EXCEPT !.blob = IF idversion(c) = 0 THEN NULL_SHA1 ELSE None]
    ELSE [c EXCEPT !.blob = b]

(* A caller writing through the dict Entry.meta returns: obj.meta['content']. *)
setMetaContent(c, t) == [c EXCEPT !.metaContent = t]

(* Object._postToStream refuses an idversion 1 object with meta.content. *)
isInvalid(c) == idversion(c) = 1 /\ c.metaContent # Absent

(* What getObject can return, after _setContent stripped `_idversion`:     *)
(* idversion 0 with NULL_SHA1 or a SHA-1 as blob, idversion 1 with None or *)
(* a SHA-1 and no meta.content (spec 3).                                   *)
FetchedContents ==
    [metaContent : Texts \cup {Absent}, text : {Absent}, blob : {NULL_SHA1, Sha1}]
    \cup [metaContent : {Absent}, text : Texts, blob : {None, Sha1}]

(* The contents one accessor call can turn c into. *)
Successors(c) ==
    {setText(c, t) : t \in Texts} \cup {setMetaContent(c, t) : t \in Texts}
    \cup {setBlob(c, b) : b \in BlobArgs} \cup {format(c, v) : v \in {0, 1}}

RECURSIVE ReachFrom(_)
ReachFrom(S) ==
    LET T == S \cup UNION {Successors(c) : c \in S}
    IN IF T = S THEN S ELSE ReachFrom(T)

ObjectContents == ReachFrom({DefaultContent} \cup FetchedContents)

(* Every content the accessors can turn c into, c included. *)
Reachable == [c \in Content |-> ReachFrom({c})]

hasNoBlob(c) == blob(c) \in {None, NULL_SHA1}

(* Spec 3: idversion 0 says "no blob" with NULL_SHA1, idversion 1 with None. *)
WellFormed(c) == IF idversion(c) = 0 THEN c.blob # None ELSE c.blob # NULL_SHA1

(* Converting c to either idversion yields a valid object of that          *)
(* idversion with the same text, the same "no blob" and the same blob      *)
(* SHA-1.                                                                  *)
FormatPreserves(c) ==
    \A v \in {0, 1} :
        LET d == format(c, v)
        IN /\ idversion(d) = v /\ ~isInvalid(d)
           /\ text(d) = text(c)
           /\ hasNoBlob(d) = hasNoBlob(c)
           /\ ~hasNoBlob(c) => blob(d) = blob(c)

=============================================================================
