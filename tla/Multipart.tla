------------------------------- MODULE Multipart -------------------------------
(***************************************************************************)
(* Multipart uploads of one bucket: CreateMultipart, PutPart, ListParts,   *)
(* CompleteMultipart and AbortMultipart (internal/store/store.go:452-638). *)
(*                                                                         *)
(* Each of them but ListParts holds the bucket's exclusive lock from its   *)
(* first read to its return (ObjectStore shows what that lock gives), so   *)
(* one operation runs at a time: op is the one that runs.  Its file-system *)
(* steps are separate actions, because a system call may fail and the      *)
(* process may die between any two of them.                                *)
(*                                                                         *)
(* An upload is a directory u/<id> with upload.json and, for every part,   *)
(* parts/<name> with the bytes and parts/<name>.json with ETag and Size.   *)
(* <name> is the part number cut to 16 bits (partName).                    *)
(***************************************************************************)
EXTENDS Integers, Sequences, FiniteSets

CONSTANTS
    Upload,    \* upload ids: random, never drawn twice
    Key,       \* object keys
    Body,      \* bodies of parts
    MaxPart,   \* PutPart takes the numbers 1 .. MaxPart (10000 in the code)
    NameSpace, \* number of distinct part names (65536 in the code)
    Listing,   \* the lists of part numbers that clients complete with
    MaxFaults, \* bound on failing system calls and crashes of the process, together
    None

ASSUME MultipartAssumption ==
    /\ MaxPart \in Nat /\ NameSpace \in Nat /\ MaxPart < NameSpace
    /\ Listing \subseteq Seq(Int)
    /\ MaxFaults \in Nat

Name == 0 .. NameSpace - 1
PartNumber == 1 .. MaxPart

(* partName keeps the two low bytes.  (The mistake, not part of the model:   *)
(* it keeps too few of them.)                                                *)
partNameShort(n) == n % (NameSpace \div 2)
partName(n) == n % NameSpace

(* ETags: of bytes stored in one go, and of a list of part ETags. *)
Md5(bytes) == [md5 |-> bytes]
compositeETag(etags) == [parts |-> etags]

Etags == {Md5(<<b>>) : b \in Body}

(* The bytes and the ETag of an object, from the parts of a list. *)
Contents == UNION {[DOMAIN ns -> Body] : ns \in Listing}
EtagLists == UNION {[DOMAIN ns -> Etags] : ns \in Listing}
ObjectEtags == {Md5(c) : c \in Contents} \cup {compositeETag(es) : es \in EtagLists}

(* What runs under the lock.                                                 *)
OpType ==
    [do : {"create"}, up : Upload, key : Key]
    \cup [do : {"rename", "stub"}, up : Upload, num : PartNumber, body : Body]
    \cup [do : {"store", "describe", "redescribe", "clean"}, up : Upload,
          nums : Listing, bytes : Contents, etags : EtagLists]
    \cup [do : {"abort"}, up : Upload]

ASSUME NoneAssumption ==
    None \notin Upload \cup Key \cup Body \cup Etags \cup Contents \cup OpType

VARIABLES
    live,   \* the directories u/<id> that exist
    head,   \* head[u]: the key in upload.json, None without the file
    part,   \* part[u][m]: the bytes of the part file m, None without one
    stub,   \* stub[u][m]: the ETag in the JSON file of part m, None without one
    obj,    \* obj[k]: the bytes of the object, a list of part bodies, or None
    meta,   \* meta[k]: the ETag in the object's metadata, or None
    op,     \* the operation under the exclusive lock, None if there is none
    drawn,  \* history: the ids drawn so far
    acked,  \* history: acked[u][n], the body of the last successful PutPart,
              \* while u is there and not marred
    marred, \* history: uploads that a failed call or a crash left half-changed
    torn,   \* history: objects whose metadata a fault left behind their bytes
    faults  \* the faults so far

upfiles == <<live, head, part, stub>>
object == <<obj, meta>>
vars == <<live, head, part, stub, obj, meta, op, drawn, acked, marred, torn, faults>>

NoParts == [m \in Name |-> None]
NotAcked == [n \in PartNumber |-> None]

Init ==
    /\ live = {}
    /\ head = [u \in Upload |-> None]
    /\ part = [u \in Upload |-> NoParts]
    /\ stub = [u \in Upload |-> NoParts]
    /\ obj = [k \in Key |-> None]
    /\ meta = [k \in Key |-> None]
    /\ op = None
    /\ drawn = {}
    /\ acked = [u \in Upload |-> NotAcked]
    /\ marred = {}
    /\ torn = {}
    /\ faults = 0

TypeOK ==
    /\ live \subseteq Upload /\ drawn \subseteq Upload /\ marred \subseteq Upload
    /\ torn \subseteq Key /\ faults \in 0 .. MaxFaults
    /\ head \in [Upload -> Key \cup {None}]
    /\ part \in [Upload -> [Name -> Body \cup {None}]]
    /\ stub \in [Upload -> [Name -> Etags \cup {None}]]
    /\ acked \in [Upload -> [PartNumber -> Body \cup {None}]]
    /\ obj \in [Key -> Contents \cup {None}]
    /\ meta \in [Key -> ObjectEtags \cup {None}]
    /\ op \in OpType \cup {None}

Idle == op = None
Done == op' = None

(* Between any two steps a system call may fail or the process may die. *)
Fault == faults < MaxFaults /\ faults' = faults + 1

(* A fault stops a call on upload u half-way; what was promised of it lapses. *)
Mar(u) ==
    /\ marred' = marred \cup {u}
    /\ acked' = [acked EXCEPT ![u] = NotAcked]

-------------------------------------------------------------------------------
(* CreateMultipart: the directories, then upload.json.  When the second      *)
(* fails the directories stay.  (writeJSON, here and below, may fail before  *)
(* its rename or, in the directory's sync, after it.)                        *)
Create(u, k) ==
    /\ Idle
    /\ u \notin drawn
    /\ drawn' = drawn \cup {u}
    /\ live' = live \cup {u}
    /\ op' = [do |-> "create", up |-> u, key |-> k]
    /\ UNCHANGED <<head, part, stub, object, acked, marred, torn, faults>>

CreateHead ==
    /\ ~ Idle /\ op.do = "create"
    /\ \/ head' = [head EXCEPT ![op.up] = op.key] /\ UNCHANGED <<marred, acked, faults>>
       \/ /\ Fault
          /\ Mar(op.up)
          /\ \E h \in {head[op.up], op.key} : head' = [head EXCEPT ![op.up] = h]
    /\ Done
    /\ UNCHANGED <<live, part, stub, object, drawn, torn>>

-------------------------------------------------------------------------------
(* PutPart: the body goes to a temp file (a body that does not arrive whole  *)
(* ends here, and changes nothing), the rename, then the part's JSON.        *)
PutPart(u, n, b) ==
    /\ Idle
    /\ head[u] # None
    /\ op' = [do |-> "rename", up |-> u, num |-> n, body |-> b]
    /\ UNCHANGED <<upfiles, object, drawn, acked, marred, torn, faults>>

PartRename ==
    /\ ~ Idle /\ op.do = "rename"
    /\ \/ /\ part' = [part EXCEPT ![op.up][partName(op.num)] = op.body]
          /\ op' = [op EXCEPT !.do = "stub"]
       \/ Done /\ UNCHANGED part
    /\ UNCHANGED <<live, head, stub, object, drawn, acked, marred, torn, faults>>

PartStub ==
    /\ ~ Idle /\ op.do = "stub"
    /\ \/ /\ stub' = [stub EXCEPT ![op.up][partName(op.num)] = Md5(<<op.body>>)]
          /\ acked' = IF op.up \in marred THEN acked
                      ELSE [acked EXCEPT ![op.up][op.num] = op.body]
          /\ UNCHANGED <<marred, faults>>
       \/ /\ Fault
          /\ Mar(op.up)
          /\ \E e \in {stub[op.up][partName(op.num)], Md5(<<op.body>>)} :
                stub' = [stub EXCEPT ![op.up][partName(op.num)] = e]
    /\ Done
    /\ UNCHANGED <<live, head, part, object, drawn, torn>>

-------------------------------------------------------------------------------
(* CompleteMultipart checks the list under the lock: the numbers increase,   *)
(* every part has a JSON file and a file, and its recorded ETag is the one   *)
(* the client lists (an empty one, here None, matches all).  A list that     *)
(* fails changes nothing.                                                    *)
Increasing(ns) == \A i \in 2 .. Len(ns) : ns[i - 1] < ns[i]

(* (A mistake, not part of the model: a part that cannot be read back is     *)
(* listed all the same.)                                                     *)
ListedUnread(u, ns, es) ==
    /\ ns # <<>>
    /\ Increasing(ns)
    /\ \A i \in DOMAIN ns : part[u][partName(ns[i])] # None

Listed(u, ns, es) ==
    /\ ns # <<>>
    /\ Increasing(ns)
    /\ \A i \in DOMAIN ns :
         LET m == partName(ns[i]) IN
         /\ stub[u][m] # None
         /\ es[i] \in {None, stub[u][m]}
         /\ part[u][m] # None

Complete(u, ns, es) ==
    /\ Idle
    /\ head[u] # None
    /\ Listed(u, ns, es)
    /\ op' = [do |-> "store", up |-> u, nums |-> ns,
              bytes |-> [i \in DOMAIN ns |-> part[u][partName(ns[i])]],
              etags |-> [i \in DOMAIN ns |-> stub[u][partName(ns[i])]]]
    /\ UNCHANGED <<upfiles, object, drawn, acked, marred, torn, faults>>

(* putLocked: the concatenation is renamed over the object ... *)
CompleteStore ==
    /\ ~ Idle /\ op.do = "store"
    /\ \/ /\ obj' = [obj EXCEPT ![head[op.up]] = op.bytes]
          /\ op' = [op EXCEPT !.do = "describe"]
          /\ UNCHANGED faults
       \/ Fault /\ Done /\ UNCHANGED obj
    /\ UNCHANGED <<upfiles, meta, drawn, acked, marred, torn>>

(* (A mistake, not part of the model: putLocked drops the error of writeMeta.) *)
CompleteDescribeUnchecked ==
    /\ ~ Idle /\ op.do = "describe"
    /\ \E m \in {Md5(op.bytes), meta[head[op.up]]} : meta' = [meta EXCEPT ![head[op.up]] = m]
    /\ op' = [op EXCEPT !.do = "redescribe"]
    /\ UNCHANGED <<upfiles, obj, drawn, acked, marred, torn, faults>>

(* ... and gets metadata with the MD5 of the bytes, ... *)
CompleteDescribe ==
    /\ ~ Idle /\ op.do = "describe"
    /\ \/ /\ meta' = [meta EXCEPT ![head[op.up]] = Md5(op.bytes)]
          /\ torn' = torn \ {head[op.up]}
          /\ \/ op' = [op EXCEPT !.do = "redescribe"] /\ UNCHANGED faults
             \/ Fault /\ Done
       \/ Fault /\ Done /\ torn' = torn \cup {head[op.up]} /\ UNCHANGED meta
    /\ UNCHANGED <<upfiles, obj, drawn, acked, marred>>

(* ... which are written again with the ETag of a multipart object.  That    *)
(* ETag comes from the JSON files of the parts: where a fault has left one   *)
(* of them behind its part, it describes other bytes.                        *)
CompleteRedescribe ==
    /\ ~ Idle /\ op.do = "redescribe"
    /\ \/ /\ meta' = [meta EXCEPT ![head[op.up]] = compositeETag(op.etags)]
          /\ torn' = IF op.up \in marred THEN torn \cup {head[op.up]} ELSE torn
          /\ \/ op' = [op EXCEPT !.do = "clean"] /\ UNCHANGED faults
             \/ Fault /\ Done
       \/ Fault /\ Done /\ UNCHANGED <<meta, torn>>
    /\ UNCHANGED <<upfiles, obj, drawn, acked, marred>>

Abort(u) ==
    /\ Idle
    /\ head[u] # None
    /\ op' = [do |-> "abort", up |-> u]
    /\ UNCHANGED <<upfiles, object, drawn, acked, marred, torn, faults>>

(* os.RemoveAll of the upload's directory, the last step of Complete (which  *)
(* ignores its error) and of Abort.  It unlinks file by file in the order of *)
(* the directory: cut short, it leaves any subset of them.                   *)
Files(u) == [head : {head[u], None},
             part : {[m \in Name |-> IF m \in K THEN part[u][m] ELSE None] : K \in SUBSET Name},
             stub : {[m \in Name |-> IF m \in K THEN stub[u][m] ELSE None] : K \in SUBSET Name}]

Removing == ~ Idle /\ op.do \in {"clean", "abort"}

LeaveFiles(u, left) ==
    /\ head' = [head EXCEPT ![u] = left.head]
    /\ part' = [part EXCEPT ![u] = left.part]
    /\ stub' = [stub EXCEPT ![u] = left.stub]

(* (A mistake, not part of the model: only upload.json is removed.) *)
RemoveHead ==
    /\ Removing
    /\ head' = [head EXCEPT ![op.up] = None]
    /\ Done
    /\ UNCHANGED <<live, part, stub, object, drawn, acked, marred, torn, faults>>

RemoveUpload ==
    /\ Removing
    /\ \/ /\ LeaveFiles(op.up, [head |-> None, part |-> NoParts, stub |-> NoParts])
          /\ live' = live \ {op.up}
          /\ acked' = [acked EXCEPT ![op.up] = NotAcked]
          /\ UNCHANGED <<marred, faults>>
       \/ /\ Fault
          /\ \E left \in Files(op.up) : LeaveFiles(op.up, left)
          /\ Mar(op.up)
          /\ UNCHANGED live
    /\ Done
    /\ UNCHANGED <<object, drawn, torn>>

(* The process dies: the operation stops where it is.                        *)
Crash ==
    /\ ~ Idle
    /\ Fault
    /\ IF Removing
       THEN \E left \in Files(op.up) : LeaveFiles(op.up, left)
       ELSE UNCHANGED <<head, part, stub>>
    /\ IF op.do \in {"create", "stub", "clean", "abort"} THEN Mar(op.up) ELSE UNCHANGED <<marred, acked>>
    /\ torn' = IF op.do = "describe" THEN torn \cup {head[op.up]} ELSE torn
    /\ Done
    /\ UNCHANGED <<live, object, drawn>>

Next ==
    \/ \E u \in Upload :
         \/ \E k \in Key : Create(u, k)
         \/ \E n \in PartNumber, b \in Body : PutPart(u, n, b)
         \/ \E ns \in Listing : \E es \in [DOMAIN ns -> Etags \cup {None}] : Complete(u, ns, es)
         \/ Abort(u)
    \/ CreateHead \/ PartRename \/ PartStub
    \/ CompleteStore \/ CompleteDescribe \/ CompleteRedescribe
    \/ RemoveUpload \/ Crash

Spec == Init /\ [][Next]_vars

-------------------------------------------------------------------------------
(* A part that the client was told is stored stays stored, bytes and ETag,   *)
(* until the upload is completed or aborted or the same part is sent again,  *)
(* whatever happens to other parts and other uploads; only a fault in the    *)
(* middle of that upload's own calls may change that.                        *)
Resending(u, n) == ~ Idle /\ op.do = "stub" /\ op.up = u /\ op.num = n

AckedPartsKept ==
    \A u \in live \ marred, n \in PartNumber :
        acked[u][n] # None /\ ~ Resending(u, n) =>
            /\ part[u][partName(n)] = acked[u][n]
            /\ stub[u][partName(n)] = Md5(<<acked[u][n]>>)

(* The metadata of an object describe its bytes: its ETag is their MD5, or   *)
(* the MD5 of the MD5s of the parts that make them up, unless Complete is at *)
(* work on it or a fault stopped it between the two files.                   *)
PartEtags(bytes) == [i \in DOMAIN bytes |-> Md5(<<bytes[i]>>)]

Described(k) ==
    \/ obj[k] = None /\ meta[k] = None
    \/ obj[k] # None /\ meta[k] \in {Md5(obj[k]), compositeETag(PartEtags(obj[k]))}

ObjectsDescribed ==
    \A k \in Key :
        \/ k \in torn
        \/ ~ Idle /\ op.do = "describe" /\ head[op.up] = k
        \/ Described(k)

(* An upload that exists can be completed or aborted (readUpload finds its   *)
(* key), and one that does not has left no file, so that aborting every      *)
(* upload makes DeleteBucket possible again; only a fault may leave a        *)
(* directory that no call can remove.                                        *)
Creating(u) == ~ Idle /\ op.do = "create" /\ op.up = u

UploadsRemovable ==
    \A u \in Upload \ marred :
        /\ u \in live /\ ~ Creating(u) => head[u] # None
        /\ u \notin live => head[u] = None /\ part[u] = NoParts /\ stub[u] = NoParts

(* What the comment on CompleteMultipart says, that it "concatenates the     *)
(* listed parts": every number of the list is a part that was uploaded.      *)
CompletesUploadedParts ==
    ~ Idle /\ op.do = "store" =>
        \A i \in DOMAIN op.nums : op.nums[i] \in PartNumber /\ acked[op.up][op.nums[i]] # None

(* What README.md says of the ETag of a multipart object: it is the MD5 of   *)
(* the MD5s of its parts.                                                    *)
MultipartETagIsOfParts ==
    \A k \in Key :
        obj[k] # None /\ meta[k] # None /\ "parts" \in DOMAIN meta[k] =>
            meta[k] = compositeETag(PartEtags(obj[k]))
===============================================================================
