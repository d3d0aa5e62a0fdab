-------------------------------- MODULE Buckets --------------------------------
(***************************************************************************)
(* The buckets of one server, side by side: CreateBucket, DeleteBucket,    *)
(* Bucket, ListBuckets, PutCORS, DeleteCORS and CORS of                    *)
(* internal/store/store.go, as the handlers call them, among uploads that  *)
(* hold the lock of their bucket while the client sends the body.          *)
(*                                                                         *)
(* Before anything else, the answer to a request with an Origin header,    *)
(* preflight or not, needs the rules of its bucket, so it takes the lock   *)
(* of the bucket first (writeCORS in serve, internal/s3api/server.go).     *)
(*                                                                         *)
(* Abstracted: of the objects of a bucket, only whether there are any      *)
(* (ObjectStore and BucketTree are about objects); of the tree below a     *)
(* bucket's directory, only bucket.json.  Dates of creation are numbers    *)
(* that are never used twice, and the rules of a bucket are one value.     *)
(***************************************************************************)
EXTENDS Naturals, FiniteSets

CONSTANTS
    Req,       \* goroutines serving a request
    Bucket,    \* bucket names, as numbers in the order of the strings
    Rules,     \* lists of CORS rules that clients set
    Unset,     \* stands for CORSSet = false
    CallsOf,   \* CallsOf[r]: the calls that r makes
    MaxBirths, \* bound: how often a bucket is created
    MaxCrashes, \* bound: how often the process dies
    None

Writing == {"create", "delete", "upload", "empty", "setcors"}
Reading == {"head", "getcors"}

(* A call on a bucket; origin tells whether it has an Origin header.  To set *)
(* the rules to Unset is DeleteCORS.                                         *)
Call == [do : Writing \cup Reading \cup {"options", "list"},
         at : Bucket \cup {None}, rules : Rules \cup {Unset}, origin : BOOLEAN]

ASSUME BucketAssumption == Bucket \subseteq Nat /\ None \notin Bucket \cup Req
ASSUME ReqAssumption == IsFiniteSet(Req)
ASSUME RulesAssumption == Unset \notin Rules /\ None \notin Rules \cup {Unset}
ASSUME CallsAssumption ==
    /\ CallsOf \in [Req -> SUBSET Call]
    /\ \A r \in Req : \A c \in CallsOf[r] :
         (c.do = "list" <=> c.at = None) /\ (c.do = "options" => c.origin)
ASSUME BoundAssumption == MaxBirths \in Nat /\ MaxCrashes \in Nat

(* The content of bucket.json. *)
Meta == [born : Nat \ {0}, rules : Rules \cup {Unset}]

ASSUME NoneAssumption == None \notin Nat \cup Call \cup Meta

VARIABLES
    writer, readers, parked, \* the lock of every bucket, see BucketLock
    dir,     \* the buckets that have a directory
    json,    \* json[b]: the content of bucket.json, None without the file
    filled,  \* the buckets that hold objects
    pc,      \* pc[r]: where r is
    call,    \* call[r]: the call r is executing
    got,     \* got[r]: what r has read, and what it will answer
    left,    \* left[r]: the names that ListBuckets has still to visit
    births, crashes, \* how often a bucket was created, the process died
    ever, always, \* history: what was so at some moment, in every one, of r's call
    acked,   \* history: acked[b], the bucket that a client was told exists
    gone     \* history: the buckets that a client was told are deleted

INSTANCE BucketLock

locks == <<writer, readers, parked>>
disk == <<dir, json, filled, births>>
vars == <<locks, disk, pc, call, got, left, crashes, ever, always, acked, gone>>

Init ==
    /\ LockInit
    /\ dir = {}
    /\ json = [b \in Bucket |-> None]
    /\ filled = {}
    /\ pc = [r \in Req |-> "idle"]
    /\ call = [r \in Req |-> None]
    /\ got = [r \in Req |-> None]
    /\ left = [r \in Req |-> {}]
    /\ births = 0
    /\ crashes = 0
    /\ ever = [r \in Req |-> {}]
    /\ always = [r \in Req |-> {}]
    /\ acked = [b \in Bucket |-> None]
    /\ gone = {}

-------------------------------------------------------------------------------
Goto(r, step) == pc' = [pc EXCEPT ![r] = step]

(* What c would be answered if all of it happened in one moment, in which    *)
(* the bucket.json files are j, as a set: the buckets with their dates, or   *)
(* the rules of one bucket.                                                  *)
BornOf(m) == IF m = None THEN None ELSE m.born
RulesOf(m) == IF m = None THEN Unset ELSE m.rules
Entry(b, j) == IF j[b] = None THEN {} ELSE {<<b, j[b].born>>}

AnswerIn(c, j) ==
    CASE c.do = "list" -> UNION {Entry(b, j) : b \in Bucket}
      [] c.do = "head" -> Entry(c.at, j)
      [] c.do = "options" -> {RulesOf(j[c.at])}
      [] OTHER -> {IF j[c.at] = None THEN None ELSE j[c.at].rules}

Watched(c) == c.do \in Reading \cup {"options", "list"}

(* bucket.json of b becomes m, for everyone who is in the middle of a call.  *)
Watching(r) == pc[r] # "idle" /\ Watched(call[r])

SetJSON(b, m) ==
    LET j == [json EXCEPT ![b] = m]
        Now(r) == IF Watching(r) THEN AnswerIn(call[r], j) ELSE {}
    IN /\ json' = j
       /\ ever' = [r \in Req |-> ever[r] \cup Now(r)]
       /\ always' = [r \in Req |-> always[r] \cap Now(r)]

(* The handler that serve calls when the CORS headers are written. *)
Handler(c) ==
    CASE c.do = "options" -> "answer"
      [] c.do = "list" -> "readdir"
      [] c.do \in Reading -> "rlock"
      [] OTHER -> "lock"

(* r will be creating a bucket. *)
Creating(r) == pc[r] \in {"cors", "rules", "lock", "drain"} /\ call[r].do = "create"

Begin(r) ==
    /\ pc[r] = "idle"
    /\ \E c \in CallsOf[r] :
         /\ c.do = "create" => births + Cardinality({q \in Req : Creating(q)}) < MaxBirths
         /\ call' = [call EXCEPT ![r] = c]
         /\ LET now == IF Watched(c) THEN AnswerIn(c, json) ELSE {}
            IN ever' = [ever EXCEPT ![r] = now] /\ always' = [always EXCEPT ![r] = now]
         /\ Goto(r, IF c.origin /\ c.at # None THEN "cors" ELSE Handler(c))
    /\ UNCHANGED <<locks, disk, got, left, crashes, acked, gone>>

(* The answer is sent; got is what it says. *)
Return(r) ==
    /\ pc[r] = "answer"
    /\ Goto(r, "idle")
    /\ call' = [call EXCEPT ![r] = None]
    /\ got' = [got EXCEPT ![r] = None]
    /\ left' = [left EXCEPT ![r] = {}]
    /\ ever' = [ever EXCEPT ![r] = {}]
    /\ always' = [always EXCEPT ![r] = {}]
    /\ UNCHANGED <<locks, disk, crashes, acked, gone>>

-------------------------------------------------------------------------------
(* The readers.  corsRules, Bucket and CORS ask for the shared lock, and     *)
(* read bucket.json under it.                                                *)
AskShared(r) ==
    /\ pc[r] \in {"cors", "rlock"}
    /\ RLock(r, call[r].at)
    /\ Goto(r, IF pc[r] = "cors" THEN "rules" ELSE "read")
    /\ UNCHANGED <<disk, call, got, left, crashes, ever, always, acked, gone>>

(* A bucket that is not there has the default rules. *)
corsRules(r) ==
    /\ pc[r] = "rules" /\ Shared(r, call[r].at)
    /\ got' = [got EXCEPT ![r] = IF call[r].do = "options" THEN AnswerIn(call[r], json) ELSE None]
    /\ RUnlock(r, call[r].at)
    /\ Goto(r, Handler(call[r]))
    /\ UNCHANGED <<disk, call, left, crashes, ever, always, acked, gone>>

ReadBucket(r) ==
    /\ pc[r] = "read" /\ Shared(r, call[r].at)
    /\ got' = [got EXCEPT ![r] = AnswerIn(call[r], json)]
    /\ RUnlock(r, call[r].at)
    /\ Goto(r, "answer")
    /\ UNCHANGED <<disk, call, left, crashes, ever, always, acked, gone>>

(* ListBuckets reads the directory without a lock, and asks Bucket for each  *)
(* name in it, in order; what has no bucket.json is left out.                *)
ReadDir(r) ==
    /\ pc[r] = "readdir"
    /\ left' = [left EXCEPT ![r] = dir]
    /\ got' = [got EXCEPT ![r] = {}]
    /\ Goto(r, "walk")
    /\ UNCHANGED <<locks, disk, call, crashes, ever, always, acked, gone>>

NextName(r) == CHOOSE b \in left[r] : \A c \in left[r] : b <= c

AskNext(r) ==
    /\ pc[r] = "walk" /\ left[r] # {}
    /\ RLock(r, NextName(r))
    /\ Goto(r, "visit")
    /\ UNCHANGED <<disk, call, got, left, crashes, ever, always, acked, gone>>

(* (The first operator is a mistake, not part of the model: the error of a    *)
(* bucket that is gone ends the walk.)                                       *)
VisitOrStop(r) ==
    /\ pc[r] = "visit" /\ Shared(r, NextName(r))
    /\ got' = [got EXCEPT ![r] = @ \cup Entry(NextName(r), json)]
    /\ left' = [left EXCEPT ![r] = IF json[NextName(r)] = None THEN {} ELSE @ \ {NextName(r)}]
    /\ RUnlock(r, NextName(r))
    /\ Goto(r, "walk")
    /\ UNCHANGED <<disk, call, crashes, ever, always, acked, gone>>

Visit(r) ==
    /\ pc[r] = "visit" /\ Shared(r, NextName(r))
    /\ got' = [got EXCEPT ![r] = @ \cup Entry(NextName(r), json)]
    /\ left' = [left EXCEPT ![r] = @ \ {NextName(r)}]
    /\ RUnlock(r, NextName(r))
    /\ Goto(r, "walk")
    /\ UNCHANGED <<disk, call, crashes, ever, always, acked, gone>>

EndOfList(r) ==
    /\ pc[r] = "walk" /\ left[r] = {}
    /\ Goto(r, "answer")
    /\ UNCHANGED <<locks, disk, call, got, left, crashes, ever, always, acked, gone>>

-------------------------------------------------------------------------------
(* The writers, under the exclusive lock. *)
At(r) == call[r].at

LockWriter(r) ==
    /\ pc[r] = "lock"
    /\ Announce(r, At(r))
    /\ Goto(r, "drain")
    /\ UNCHANGED <<disk, call, got, left, crashes, ever, always, acked, gone>>

Enter(r, do) == pc[r] = "drain" /\ Exclusive(r, At(r)) /\ call[r].do = do

Done(r) ==
    /\ Goto(r, "idle")
    /\ call' = [call EXCEPT ![r] = None]
    /\ got' = [got EXCEPT ![r] = None]
    /\ UNCHANGED <<left, crashes>>

(* The call returns with the deferred Unlock.  (The first operator is a      *)
(* mistake, not part of the model: the path leaves with the lock.)           *)
LeaveLocked(r) == Done(r) /\ UNCHANGED locks

Leave(r) == Done(r) /\ Unlock(r, At(r))

(* ErrExists, ErrNoSuchBucket, ErrNotEmpty: nothing is changed. *)
Refused(r) ==
    /\ \/ Enter(r, "create") /\ json[At(r)] # None
       \/ Enter(r, "delete") /\ (json[At(r)] = None \/ At(r) \in filled)
       \/ \E do \in Writing \ {"create", "delete"} : Enter(r, do) /\ json[At(r)] = None
    /\ Leave(r)
    /\ UNCHANGED <<disk, ever, always, acked, gone>>

(* CreateBucket makes the directories, then bucket.json. *)
CreateDirs(r) ==
    /\ Enter(r, "create") /\ json[At(r)] = None
    /\ dir' = dir \cup {At(r)}
    /\ births' = births + 1
    /\ got' = [got EXCEPT ![r] = [born |-> births', rules |-> Unset]]
    /\ Goto(r, "json")
    /\ UNCHANGED <<locks, json, filled, call, left, crashes, ever, always, acked, gone>>

(* DeleteBucket: os.RemoveAll takes bucket.json at some moment, and the      *)
(* directory at the end.                                                     *)
RemoveJSON(r) ==
    /\ Enter(r, "delete") /\ json[At(r)] # None /\ At(r) \notin filled
    /\ SetJSON(At(r), None)
    /\ got' = [got EXCEPT ![r] = json[At(r)]]
    /\ acked' = [acked EXCEPT ![At(r)] = None]
    /\ Goto(r, "rmdir")
    /\ UNCHANGED <<locks, dir, filled, births, call, left, crashes, gone>>

RemoveDir(r) ==
    /\ pc[r] = "rmdir"
    /\ dir' = dir \ {At(r)}
    /\ gone' = gone \cup {got[r].born}
    /\ Leave(r)
    /\ UNCHANGED <<json, filled, births, ever, always, acked>>

(* PutCORS and DeleteCORS rewrite what they read under the same lock. *)
NewRules(r) == [json[At(r)] EXCEPT !.rules = call[r].rules]

ReadForCORS(r) ==
    /\ Enter(r, "setcors")
    /\ json[At(r)] # None
    /\ got' = [got EXCEPT ![r] = NewRules(r)]
    /\ Goto(r, "json")
    /\ UNCHANGED <<locks, disk, call, left, crashes, ever, always, acked, gone>>

(* writeJSON: a new file takes the place of bucket.json.  (The first         *)
(* operator is a mistake, not part of the model: the file is written in      *)
(* place, and for a moment it is empty.)                                     *)
WriteInPlace(r) ==
    /\ pc[r] = "json"
    /\ \/ /\ SetJSON(At(r), None)
          /\ UNCHANGED <<locks, pc, call, got, left, crashes, acked>>
       \/ /\ SetJSON(At(r), got[r])
          /\ acked' = [acked EXCEPT ![At(r)] = got[r].born]
          /\ Leave(r)
    /\ UNCHANGED <<dir, filled, births, gone>>

writeJSON(r) ==
    /\ pc[r] = "json"
    /\ SetJSON(At(r), got[r])
    /\ acked' = [acked EXCEPT ![At(r)] = got[r].born]
    /\ Leave(r)
    /\ UNCHANGED <<dir, filled, births, gone>>

(* PutObject: io.Copy takes the body from the client, with the lock held,    *)
(* however long the client takes, and even if it never ends.                 *)
StartBody(r) ==
    /\ Enter(r, "upload") /\ json[At(r)] # None
    /\ Goto(r, "receive")
    /\ UNCHANGED <<locks, disk, call, got, left, crashes, ever, always, acked, gone>>

BodyEnds(r) ==
    /\ pc[r] = "receive"
    /\ \E whole \in BOOLEAN : filled' = IF whole THEN filled \cup {At(r)} ELSE filled
    /\ Leave(r)
    /\ UNCHANGED <<dir, json, births, ever, always, acked, gone>>

(* DeleteObject of all that is there. *)
Empty(r) ==
    /\ Enter(r, "empty") /\ json[At(r)] # None
    /\ filled' = filled \ {At(r)}
    /\ Leave(r)
    /\ UNCHANGED <<dir, json, births, ever, always, acked, gone>>

-------------------------------------------------------------------------------
(* The process dies and is started again. *)
Crash ==
    /\ crashes < MaxCrashes
    /\ crashes' = crashes + 1
    /\ LockReset
    /\ pc' = [r \in Req |-> "idle"]
    /\ call' = [r \in Req |-> None]
    /\ got' = [r \in Req |-> None]
    /\ left' = [r \in Req |-> {}]
    /\ ever' = [r \in Req |-> {}]
    /\ always' = [r \in Req |-> {}]
    /\ UNCHANGED <<disk, acked, gone>>

(* What a request does without waiting for its client. *)
ServerStep(r) ==
    \/ Return(r)
    \/ AskShared(r) \/ corsRules(r) \/ ReadBucket(r)
    \/ ReadDir(r) \/ AskNext(r) \/ Visit(r) \/ EndOfList(r)
    \/ Refused(r) \/ CreateDirs(r) \/ RemoveJSON(r) \/ RemoveDir(r)
    \/ ReadForCORS(r) \/ writeJSON(r) \/ StartBody(r) \/ Empty(r)

Next ==
    \/ \E r \in Req : Begin(r) \/ LockWriter(r) \/ ServerStep(r) \/ BodyEnds(r)
    \/ Crash

Spec == Init /\ [][Next]_vars

(* Code runs on, a mutex hands over in the order of arrival, and nothing     *)
(* makes a client end its body.                                              *)
FairSpec ==
    /\ Spec
    /\ \A r \in Req : WF_vars(ServerStep(r)) /\ SF_vars(LockWriter(r))

-------------------------------------------------------------------------------
Steps == {"idle", "cors", "rules", "rlock", "read", "readdir", "walk", "visit",
          "lock", "drain", "json", "rmdir", "receive", "answer"}

(* Types: a bucket.json lies in a directory, what a writer changes is under  *)
(* its lock, and ListBuckets has yet to visit buckets only while it walks.   *)
TypeOK ==
    /\ LockTypeOK
    /\ dir \subseteq Bucket /\ filled \subseteq Bucket
    /\ json \in [Bucket -> Meta \cup {None}]
    /\ \A b \in Bucket : json[b] # None => b \in dir
    /\ pc \in [Req -> Steps]
    /\ call \in [Req -> Call \cup {None}]
    /\ \A r \in Req :
         /\ pc[r] \in {"json", "rmdir"} => got[r] \in Meta
         /\ pc[r] \in {"json", "rmdir", "receive"} => writer[At(r)] = r /\ readers[At(r)] = {}
         /\ left[r] # {} => pc[r] \in {"walk", "visit"}
    /\ births \in 0..MaxBirths /\ crashes \in 0..MaxCrashes
    /\ acked \in [Bucket -> 1..MaxBirths \cup {None}]
    /\ gone \subseteq 1..MaxBirths

(* What is answered was so at some moment of the call: one bucket, its rules *)
(* (those of a preflight included).  A list of the buckets, which is put     *)
(* together under one lock after the other, has every bucket that was there  *)
(* from the beginning of the call to its end, and none that was not there at *)
(* some moment of it.                                                        *)
AnswersTrue ==
    \A r \in Req : pc[r] = "answer" /\ Watched(call[r]) =>
        always[r] \subseteq got[r] /\ got[r] \subseteq ever[r]

(* A bucket that a client was told exists is there, with its date, until a   *)
(* DeleteBucket begins to remove it, and one that a client was told is       *)
(* deleted does not come back: not through a PutCORS that read it before, a  *)
(* CreateBucket that lost a race, or a crash in the middle of a rewrite.     *)
AckedBucketsKept ==
    \A b \in Bucket :
        /\ acked[b] # None => BornOf(json[b]) = acked[b]
        /\ BornOf(json[b]) \notin gone

(* The locks that the answer to r still needs. *)
Touches(r) ==
    IF call[r] = None THEN {} ELSE IF call[r].do = "list" THEN Bucket ELSE {call[r].at}

(* r waits for the server: it is neither idle nor waiting for its client.    *)
InServer(r) == pc[r] \notin {"idle", "receive"}

BodyComing(b) == \E r \in Req : pc[r] = "receive" /\ At(r) = b

(* A request waits for nothing but uploads to the buckets it touches: if     *)
(* these come to an end time and again, it gets its answer, or as an upload  *)
(* its turn, however many others stall in other buckets.  A preflight waits  *)
(* as any request for its bucket does, ListBuckets for the uploads to all.   *)
WaitsOnlyForUploads ==
    \A r \in Req : \A B \in {Bucket} \cup {{b} : b \in Bucket} :
        (\A b \in B : []<>(~ BodyComing(b))) =>
            (InServer(r) /\ Touches(r) = B ~> ~ InServer(r))
===============================================================================
