------------------------------ MODULE BucketTree -------------------------------
(***************************************************************************)
(* One bucket as the directory tree that it is on disk: bucket.json, the   *)
(* bytes of the objects under o/, their metadata under m/ and the uploads  *)
(* under u/ (internal/store/store.go: CreateBucket, DeleteBucket, PutCORS, *)
(* DeleteCORS, PutObject, DeleteObject, List, and what they call).         *)
(*                                                                         *)
(* The subject is how keys become paths.  Every caller that changes the    *)
(* tree holds the bucket's exclusive lock, so one operation runs at a      *)
(* time; op is the list of system calls it still has to make.  A call may  *)
(* fail because of what is in the tree, and the process may die before any *)
(* of them.  Failures of the disk itself are in ObjectStore.               *)
(*                                                                         *)
(* A name is split at the suffixes the store adds: "a" is <<"a">>, "a.obj" *)
(* is <<"a", ".obj">>.  A key, and a path below the bucket's directory, is *)
(* a sequence of names.                                                    *)
(***************************************************************************)
EXTENDS Naturals, Sequences, SequencesExt, FiniteSets

CONSTANTS
    Piece,    \* the strings that names are made of
    Key,      \* valid keys
    Body,     \* object bodies
    DotBase,  \* the strings that start with a dot
    MaxCrashes, \* bound: how often the process dies, between any two system calls
    None, Dir \* no such path; a directory

(* The content of a metadata file, and of bucket.json whatever its rules. *)
Described(b) == [etag |-> b]
BucketMeta == "bucket"

Name == Seq(Piece) \ {<<>>}

ASSUME KeyAssumption ==
    /\ Key \subseteq Seq(Name) \ {<<>>}
    /\ {"o", "m", "u", "id", "bucket", ".obj", ".json", ".tmp", ".up"} \subseteq Piece
ASSUME ContentAssumption ==
    /\ \A v \in {None, Dir} : v \notin Body /\ v # BucketMeta /\ \A b \in Body : v # Described(b)
    /\ None \notin Key
ASSUME CrashAssumption == MaxCrashes \in Nat

(* Paths.  All temporary names of CreateTemp, which are random, are one.     *)
Upload == << <<"u">>, <<"id">> >>
BucketJSON == << <<"bucket", ".json">> >>
TempName == <<".up">>

Suffixed(path, suffix) == Append(Front(path), Append(Last(path), suffix))

(* (A mistake, not part of the model: the metadata beside the bytes.) *)
metaPathBeside(k) == Suffixed(<< <<"o">> >> \o k, ".json")

objectPath(k) == Suffixed(<< <<"o">> >> \o k, ".obj")
metaPath(k) == Suffixed(<< <<"m">> >> \o k, ".json")

VARIABLES
    fs,     \* the tree: a function from the paths that exist to Dir or content
    op,     \* the operation under the lock: what it does and has still to do
    want,   \* history: want[k], the object of the last successful answer, or None
    doubt,  \* history: the keys of a call that has failed or died since that answer
    crashes \* how often the process has died

vars == <<fs, op, want, doubt, crashes>>

Exists(p) == p \in DOMAIN fs
IsDir(p) == Exists(p) /\ fs[p] = Dir
IsFile(p) == Exists(p) /\ fs[p] # Dir
Children(p) == {q \in DOMAIN fs : q # <<>> /\ Front(q) = p}

NoOp == [do |-> "none", key |-> None, todo |-> <<>>]
Idle == op = NoOp

Init ==
    /\ fs = << >>
    /\ op = NoOp
    /\ want = [k \in Key |-> None]
    /\ doubt = {}
    /\ crashes = 0

-------------------------------------------------------------------------------
(* System calls. *)
MkdirAll(p) == [call |-> "mkdir", at |-> p]
Write(p, v) == [call |-> "write", at |-> p, val |-> v]
Rename(p, q) == [call |-> "rename", from |-> p, at |-> q]
Unlink(p) == [call |-> "remove", at |-> p]
RemoveAll(p) == [call |-> "removeall", at |-> p]

writeJSON(p, v) == <<Write(Suffixed(p, ".tmp"), v), Rename(Suffixed(p, ".tmp"), p)>>

Able(c) ==
    CASE c.call = "mkdir" -> \A q \in Prefixes(c.at) : ~ IsFile(q)
      [] c.call = "write" -> IsDir(Front(c.at)) /\ ~ IsDir(c.at)
      [] c.call = "rename" -> ~ IsDir(c.at)
      [] c.call = "remove" -> Exists(c.at) /\ Children(c.at) = {}
      [] OTHER -> TRUE

Without(P) == [p \in DOMAIN fs \ P |-> fs[p]]
With(p, v) == [q \in DOMAIN fs \cup {p} |-> IF q = p THEN v ELSE fs[q]]

Effect(c) ==
    CASE c.call = "mkdir" -> [q \in DOMAIN fs \cup Prefixes(c.at) |->
                                 IF Exists(q) THEN fs[q] ELSE Dir]
      [] c.call = "write" -> With(c.at, c.val)
      [] c.call = "rename" -> [q \in (DOMAIN fs \cup {c.at}) \ {c.from} |->
                                 IF q = c.at THEN fs[c.from] ELSE fs[q]]
      [] OTHER -> Without({c.at})

-------------------------------------------------------------------------------
(* The operations.  Each begins under the lock with the checks that come     *)
(* before its first change; one that fails them changes nothing.             *)
readBucket == IsFile(BucketJSON)

Start(name, key, todo) ==
    /\ Idle
    /\ op' = [do |-> name, key |-> key, todo |-> todo]
    /\ UNCHANGED <<fs, want, doubt, crashes>>

CreateBucket ==
    /\ ~ readBucket
    /\ Start("create", None,
             <<MkdirAll(<< <<"o">> >>), MkdirAll(<< <<"m">> >>)>> \o writeJSON(BucketJSON, BucketMeta))

(* A directory counts as empty when every name in it starts with a dot.      *)
(* (The mistake, not part of the model: no directory is looked at.)          *)
Dotted(name) == name[1] \in DotBase
dirEmptyAlways(p) == TRUE
dirEmpty(p) == \A q \in Children(p) : Dotted(Last(q))

Deletable == readBucket /\ dirEmpty(<< <<"o">> >>) /\ dirEmpty(<< <<"u">> >>)

(* (A mistake, not part of the model: only the objects are removed.) *)
DeleteBucketKeepsMeta ==
    /\ Deletable
    /\ Start("drop", None, <<RemoveAll(BucketJSON), RemoveAll(<< <<"o">> >>)>>)

DeleteBucket ==
    /\ Deletable
    /\ Start("drop", None, <<RemoveAll(<<>>)>>)

(* PutCORS and DeleteCORS rewrite bucket.json. *)
SetCORS ==
    /\ readBucket
    /\ Start("cors", None, writeJSON(BucketJSON, BucketMeta))

PutObject(k, b) ==
    /\ readBucket
    /\ LET dir == Front(objectPath(k))
           temp == Append(dir, TempName)
       IN Start("put", k,
                <<MkdirAll(dir), Write(temp, b), Rename(temp, objectPath(k)),
                  MkdirAll(Front(metaPath(k)))>> \o writeJSON(metaPath(k), Described(b)))

DeleteObject(k) ==
    /\ readBucket
    /\ Start("delete", k, <<Unlink(objectPath(k)), Unlink(metaPath(k))>>)

CreateUpload ==
    /\ readBucket
    /\ Start("upload", None, <<MkdirAll(Upload)>>)

EndUpload ==
    /\ Exists(Upload)
    /\ Start("end", None, <<RemoveAll(Upload)>>)

-------------------------------------------------------------------------------
(* The operation makes its next call.  DeleteObject ignores errors; any      *)
(* other operation returns the error, a failed rename after removing its     *)
(* temporary file.                                                           *)
Call == Head(op.todo)
Return == op' = NoOp
Going == op.todo # <<>>

Step ==
    /\ Going /\ Call.call # "removeall" /\ Able(Call)
    /\ fs' = Effect(Call)
    /\ op' = [op EXCEPT !.todo = Tail(op.todo)]
    /\ UNCHANGED <<want, doubt, crashes>>

IgnoredError ==
    /\ Going /\ ~ Able(Call) /\ op.do = "delete"
    /\ op' = [op EXCEPT !.todo = Tail(op.todo)]
    /\ UNCHANGED <<fs, want, doubt, crashes>>

Error ==
    /\ Going /\ ~ Able(Call) /\ op.do # "delete"
    /\ fs' = IF Call.call = "rename" THEN Without({Call.from}) ELSE fs
    /\ Return
    /\ doubt' = doubt \cup ({op.key} \cap Key)
    /\ UNCHANGED <<want, crashes>>

(* os.RemoveAll goes through a directory in the order in which the file      *)
(* system lists it, and finishes one entry before it begins the next.        *)
RemoveStep ==
    /\ Going /\ Call.call = "removeall"
    /\ \/ /\ Children(Call.at) = {}
          /\ fs' = Without({Call.at})
          /\ op' = [op EXCEPT !.todo = Tail(op.todo)]
       \/ /\ \E q \in Children(Call.at) : op' = [op EXCEPT !.todo = <<RemoveAll(q)>> \o op.todo]
          /\ UNCHANGED fs
    /\ UNCHANGED <<want, doubt, crashes>>

(* The call succeeds.  A bucket that is gone holds nothing; but the history  *)
(* lets its DeleteBucket account only for objects it was free to take.       *)
TopDotted(k) == Dotted(k[1])

Answer ==
    /\ op.do # "none" /\ ~ Going
    /\ want' = [k \in Key |->
                  IF k = op.key
                  THEN IF op.do = "put" THEN fs[objectPath(k)] ELSE None
                  ELSE IF op.do = "drop" /\ (k \in doubt \/ TopDotted(k)) THEN None ELSE want[k]]
    /\ doubt' = IF op.do = "drop" THEN {} ELSE doubt \ {op.key}
    /\ Return
    /\ UNCHANGED <<fs, crashes>>

(* The process dies in the middle of an operation and is started again.      *)
Crash ==
    /\ crashes < MaxCrashes /\ ~ Idle
    /\ crashes' = crashes + 1
    /\ doubt' = doubt \cup ({op.key} \cap Key)
    /\ Return
    /\ UNCHANGED <<fs, want>>

Next ==
    \/ CreateBucket \/ DeleteBucket \/ SetCORS
    \/ \E k \in Key : DeleteObject(k) \/ \E b \in Body : PutObject(k, b)
    \/ CreateUpload \/ EndUpload
    \/ Step \/ IgnoredError \/ Error \/ RemoveStep \/ Answer \/ Crash

Spec == Init /\ [][Next]_vars

-------------------------------------------------------------------------------
(* What a client sees when no operation holds the lock. *)
HeadOf(k) == IF readBucket /\ IsFile(metaPath(k)) THEN fs[metaPath(k)] ELSE None

GetOf(k) ==
    IF HeadOf(k) # None /\ IsFile(objectPath(k)) THEN fs[objectPath(k)] ELSE None

(* The tree is a tree, a path exists only inside a directory, and a file     *)
(* under o/ holds bytes, one under m/ the metadata of an object.             *)
TypeOK ==
    /\ \A p \in DOMAIN fs : p = <<>> \/ IsDir(Front(p))
    /\ \A p \in DOMAIN fs : IsFile(p) =>
          fs[p] \in CASE p[1] = << "o" >> -> Body
                     [] p[1] = << "m" >> -> {Described(b) : b \in Body}
                     [] OTHER -> {BucketMeta}
    /\ want \in [Key -> Body \cup {None}]
    /\ doubt \subseteq Key
    /\ crashes \in 0..MaxCrashes

(* What was stored under a key stays there until a call on that same key,    *)
(* whatever is stored and deleted under other keys, however their paths lie  *)
(* to each other, and no DeleteBucket takes it away.  (Keys that start with  *)
(* a dot are left out: see DeletesExactlyEmptyBuckets.)                      *)
AckedObjectsKept ==
    \A k \in Key \ doubt :
        want[k] # None /\ ~ TopDotted(k) /\ op.key # k =>
            GetOf(k) = want[k] /\ HeadOf(k) = Described(want[k])

(* What was deleted, alone or with its bucket, or never stored, is not       *)
(* there: not in a bucket created again, and not as metadata without bytes.  *)
DeletedStaysGone ==
    \A k \in Key \ doubt : want[k] = None /\ op.key # k => HeadOf(k) = None

(* README.md, "DeleteBucket (solo vacio)", and the comment on DeleteBucket,   *)
(* "removes an empty bucket": a bucket can be deleted exactly when it has    *)
(* neither an object nor an upload in progress.                              *)
DeletesExactlyEmptyBuckets ==
    Idle /\ readBucket =>
        (Deletable <=> ~ Exists(Upload) /\ \A k \in Key : ~ IsFile(objectPath(k)))

(* The comment at the head of store.go, "a failed upload never replaces a    *)
(* good object": what was stored stays until another upload succeeds.        *)
FailedUploadKeepsObject ==
    \A k \in Key : Idle /\ want[k] # None => GetOf(k) = want[k]
===============================================================================
