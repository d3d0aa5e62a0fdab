----------------------------- MODULE ObjectStore ------------------------------
(***************************************************************************)
(* The object operations of internal/store/store.go: PutObject, Get, Head, *)
(* UpdateMeta, DeleteObject and CopyObject, one action per file-system     *)
(* step, run by concurrent requests under the lock of the bucket.          *)
(*                                                                         *)
(* An object is two files, o/<key>.obj with the bytes and m/<key>.json     *)
(* with the metadata.  No system call changes both, so what the model is   *)
(* about is what the lock, the order of the steps, the error returns and a *)
(* crash between two steps leave in the pair.                              *)
(*                                                                         *)
(* Abstracted: the buckets exist throughout, and the keys have no prefix   *)
(* conflicts (BucketTree is about both).  A crash is a crash of the        *)
(* process: what was written to a file stays written.                      *)
(***************************************************************************)
EXTENDS ObjectTypes

CONSTANTS
    IOErrors, \* TRUE: any system call may fail
    Crashes,  \* TRUE: the process may die (and restart) between any two steps
    Slow      \* buckets whose clients may stop sending a body half-way

ASSUME FaultAssumption == IOErrors \in BOOLEAN /\ Crashes \in BOOLEAN /\ Slow \in SUBSET Bucket

(* What a request has read under the shared lock: the metadata and the bytes *)
(* of the open descriptor, and whether the object was torn at that moment.   *)
Snapshot == [meta : Meta \cup {None}, body : Content \cup {None}, torn : BOOLEAN]

NoSnapshot == [meta |-> None, body |-> None, torn |-> FALSE]

VARIABLES
    writer, readers, parked,  \* the lock of every bucket, see BucketLock
    obj,     \* obj[s]: the content of o/<key>.obj, None without the file
    meta,    \* meta[s]: the content of m/<key>.json, None without the file
    tmp,     \* tmp[r]: the content of r's temp file .up-*, None without one
    pc,      \* pc[r]: where r is
    call,    \* call[r]: the call r is executing
    got,     \* got[r]: what r has read
    out,     \* out[r]: how the call ended
    torn,    \* history: objects whose writer stopped between the two files
    before   \* history: the pair of files as r found it under the exclusive lock

INSTANCE BucketLock

vars == <<writer, readers, parked, obj, meta, tmp, pc, call, got, out, torn, before>>

NoPair == [obj |-> None, meta |-> None]

(* Steps inside Lock() .. Unlock(), and inside RLock() .. RUnlock(). *)
WriteSteps ==
    {"stage", "receive", "rename", "cleanup", "wmeta", "rdmeta", "rmobj", "rmmeta", "unlock"}
ReadSteps == {"rmeta", "ropen", "runlock"}
Steps == {"idle", "lock", "drain", "rlock"} \cup WriteSteps \cup ReadSteps

Outcome == {"none", "ok", "notfound", "rejected", "error"}

(* What ObjectMap keeps of a call. *)
Job == [call : Call,
        saw  : [body : Content \cup {None}, meta : Meta \cup {None}],
        out  : Outcome]

ASSUME JobAssumption == None \notin Job

TypeOK ==
    /\ LockTypeOK
    /\ obj \in [Slot -> Content \cup {None}]
    /\ meta \in [Slot -> Meta \cup {None}]
    /\ tmp \in [Req -> Content \cup {None}]
    /\ pc \in [Req -> Steps]
    /\ call \in [Req -> Call \cup {None}]
    /\ got \in [Req -> Snapshot]
    /\ out \in [Req -> Outcome]
    /\ torn \in SUBSET Slot
    /\ before \in [Req -> [obj : Content \cup {None}, meta : Meta \cup {None}]]

Init ==
    /\ LockInit
    /\ obj = [s \in Slot |-> None]
    /\ meta = [s \in Slot |-> None]
    /\ tmp = [r \in Req |-> None]
    /\ pc = [r \in Req |-> "idle"]
    /\ call = [r \in Req |-> None]
    /\ got = [r \in Req |-> NoSnapshot]
    /\ out = [r \in Req |-> "none"]
    /\ torn = {}
    /\ before = [r \in Req |-> NoPair]

-------------------------------------------------------------------------------
(* The slot a call writes and the slot it reads under the shared lock. *)
Target(r) == call[r].slot
Source(r) == ReadSlot(call[r])

Incoming(r) == StoredBody(call[r], got[r].body)
NewMeta(r) == StoredMeta(call[r], got[r].body, got[r].meta)

Goto(r, step) == pc' = [pc EXCEPT ![r] = step]

(* The call stops here with outcome o; a deferred Unlock or RUnlock follows. *)
End(r, o, step) == out' = [out EXCEPT ![r] = o] /\ Goto(r, step)

-------------------------------------------------------------------------------
(* Mistakes that code like this could contain; none is part of the model.    *)
(* Each replaces the operator it is named after when a property is asked     *)
(* whether it would notice.                                                  *)

(* io.Copy's error is ignored: a short body goes on to the rename. *)
ReceiveUnchecked(r) ==
    /\ pc[r] = "receive"
    /\ \E content \in {Incoming(r), Partial} : tmp' = [tmp EXCEPT ![r] = content]
    /\ Goto(r, "rename")
    /\ UNCHANGED <<writer, readers, parked, obj, meta, call, got, out, torn, before>>

(* The deferred clean-up removes the object's path, not the temp file's. *)
CleanupRemovesObject(r) ==
    /\ pc[r] = "cleanup"
    /\ obj' = [obj EXCEPT ![Target(r)] = None]
    /\ Goto(r, "unlock")
    /\ UNCHANGED <<writer, readers, parked, meta, tmp, call, got, out, torn, before>>

(* No clean-up where sync, chmod or rename fails. *)
RenameWithoutCleanup(r) ==
    /\ pc[r] = "rename"
    /\ \/ /\ tmp' = [tmp EXCEPT ![r] = None]
          /\ obj' = [obj EXCEPT ![Target(r)] = tmp[r]]
          /\ Goto(r, "wmeta")
          /\ UNCHANGED out
       \/ End(r, "error", "unlock") /\ UNCHANGED <<obj, tmp>>
    /\ UNCHANGED <<writer, readers, parked, meta, call, got, torn, before>>

(* The error of writeMeta is dropped. *)
WriteMetaUnchecked(r) ==
    /\ pc[r] = "wmeta"
    /\ \E m \in {NewMeta(r), meta[Target(r)]} : meta' = [meta EXCEPT ![Target(r)] = m]
    /\ End(r, "ok", "unlock")
    /\ UNCHANGED <<writer, readers, parked, obj, tmp, call, got, torn, before>>

(* Get lets go of the lock between the metadata and the open. *)
ReadMetaAndLeave(r) ==
    /\ pc[r] = "rmeta"
    /\ meta[Source(r)] # None
    /\ RUnlock(r, Source(r)[1])
    /\ got' = [got EXCEPT ![r].meta = meta[Source(r)]]
    /\ Goto(r, "ropen")
    /\ UNCHANGED <<obj, meta, tmp, call, out, torn, before>>

(* Get returns "not found" without its RUnlock. *)
UnlockReaderUnlessMissing(r) ==
    /\ pc[r] = "runlock"
    /\ IF out[r] = "notfound"
       THEN UNCHANGED <<writer, readers, parked>>
       ELSE RUnlock(r, Source(r)[1])
    /\ Goto(r, IF out[r] = "none" THEN "lock" ELSE "idle")
    /\ call' = IF out[r] = "none" THEN call ELSE [call EXCEPT ![r] = None]
    /\ got' = IF out[r] = "none" THEN got ELSE [got EXCEPT ![r] = NoSnapshot]
    /\ out' = [out EXCEPT ![r] = "none"]
    /\ UNCHANGED <<obj, meta, tmp, torn, before>>

-------------------------------------------------------------------------------
(* A request arrives and calls one operation of the store. *)
Begin(r, c) ==
    /\ pc[r] = "idle"
    /\ call' = [call EXCEPT ![r] = c]
    /\ Goto(r, IF c.op \in {"get", "head", "copy"} THEN "rlock" ELSE "lock")
    /\ UNCHANGED <<writer, readers, parked, obj, meta, tmp, got, out, torn, before>>

-------------------------------------------------------------------------------
(* The exclusive lock of the target's bucket. *)
LockWriter(r) ==
    /\ pc[r] = "lock"
    /\ Announce(r, Target(r)[1])
    /\ Goto(r, "drain")
    /\ UNCHANGED <<obj, meta, tmp, call, got, out, torn, before>>

FirstStep(op) ==
    CASE op \in {"put", "copy"} -> "stage"
      [] op = "delete" -> "rmobj"
      [] OTHER -> "rdmeta"

EnterWriter(r) ==
    /\ pc[r] = "drain"
    /\ Exclusive(r, Target(r)[1])
    /\ before' = [before EXCEPT ![r] = [obj |-> obj[Target(r)], meta |-> meta[Target(r)]]]
    /\ Goto(r, FirstStep(call[r].op))
    /\ UNCHANGED <<writer, readers, parked, obj, meta, tmp, call, got, out, torn>>

(* putLocked: make the directory and create the temp file. *)
Stage(r) ==
    /\ pc[r] = "stage"
    /\ \/ /\ tmp' = [tmp EXCEPT ![r] = Partial]
          /\ Goto(r, "receive")
          /\ UNCHANGED out
       \/ /\ IOErrors
          /\ End(r, "error", "unlock")
          /\ UNCHANGED tmp
    /\ UNCHANGED <<writer, readers, parked, obj, meta, call, got, torn, before>>

(* putLocked: io.Copy reads the body to its end. *)
Receive(r) ==
    /\ pc[r] = "receive"
    /\ tmp' = [tmp EXCEPT ![r] = Incoming(r)]
    /\ Goto(r, "rename")
    /\ UNCHANGED <<writer, readers, parked, obj, meta, call, got, out, torn, before>>

(* putLocked: the reader returns an error (a short body, a digest that does  *)
(* not match, a client that hangs up).                                       *)
Reject(r) ==
    /\ pc[r] = "receive"
    /\ call[r].op = "put" \/ IOErrors
    /\ End(r, "rejected", "cleanup")
    /\ UNCHANGED <<writer, readers, parked, obj, meta, tmp, call, got, torn, before>>

(* putLocked: sync, close, chmod and rename over the object.                 *)
Rename(r) ==
    /\ pc[r] = "rename"
    /\ \/ /\ tmp' = [tmp EXCEPT ![r] = None]
          /\ obj' = [obj EXCEPT ![Target(r)] = tmp[r]]
          /\ Goto(r, "wmeta")
          /\ UNCHANGED out
       \/ /\ IOErrors
          /\ End(r, "error", "cleanup")
          /\ UNCHANGED <<obj, tmp>>
    /\ UNCHANGED <<writer, readers, parked, meta, call, got, torn, before>>

(* putLocked: the deferred Remove of the temp file, whose error is ignored.  *)
Cleanup(r) ==
    /\ pc[r] = "cleanup"
    /\ \/ tmp' = [tmp EXCEPT ![r] = None]
       \/ IOErrors /\ UNCHANGED tmp
    /\ Goto(r, "unlock")
    /\ UNCHANGED <<writer, readers, parked, obj, meta, call, got, out, torn, before>>

(* What is torn once r has written the metadata of its object: a put makes   *)
(* the pair whole, a copy makes it as whole as its source was, and an update *)
(* keeps it as it found it.                                                  *)
TornAfter(r) ==
    CASE call[r].op = "update" -> torn
      [] call[r].op = "copy" /\ got[r].torn -> torn \cup {Target(r)}
      [] OTHER -> torn \ {Target(r)}

(* writeMeta: a temp file renamed over m/<key>.json, then a directory sync.  *)
(* It may fail before the rename, or after it.  A put that fails here has    *)
(* already replaced the bytes.                                               *)
WriteMeta(r) ==
    /\ pc[r] = "wmeta"
    /\ \/ /\ meta' = [meta EXCEPT ![Target(r)] = NewMeta(r)]
          /\ torn' = TornAfter(r)
          /\ \/ End(r, "ok", "unlock")
             \/ IOErrors /\ End(r, "error", "unlock")
       \/ /\ IOErrors
          /\ torn' = IF call[r].op = "update" THEN torn ELSE torn \cup {Target(r)}
          /\ End(r, "error", "unlock")
          /\ UNCHANGED meta
    /\ UNCHANGED <<writer, readers, parked, obj, tmp, call, got, before>>

(* UpdateMeta: read the metadata that the update starts from. *)
ReadForUpdate(r) ==
    /\ pc[r] = "rdmeta"
    /\ \/ /\ meta[Target(r)] # None
          /\ got' = [got EXCEPT ![r].meta = meta[Target(r)]]
          /\ Goto(r, "wmeta")
          /\ UNCHANGED out
       \/ /\ meta[Target(r)] = None
          /\ End(r, "notfound", "unlock")
          /\ UNCHANGED got
       \/ /\ IOErrors
          /\ End(r, "error", "unlock")
          /\ UNCHANGED got
    /\ UNCHANGED <<writer, readers, parked, obj, meta, tmp, call, torn, before>>

(* DeleteObject: it fails where bucket.json cannot be read; both removals    *)
(* ignore their errors.                                                      *)
RemoveObj(r) ==
    /\ pc[r] = "rmobj"
    /\ \/ /\ \/ obj' = [obj EXCEPT ![Target(r)] = None]
             \/ IOErrors /\ UNCHANGED obj
          /\ Goto(r, "rmmeta")
          /\ UNCHANGED out
       \/ /\ IOErrors
          /\ End(r, "error", "unlock")
          /\ UNCHANGED obj
    /\ UNCHANGED <<writer, readers, parked, meta, tmp, call, got, torn, before>>

RemoveMeta(r) ==
    /\ pc[r] = "rmmeta"
    /\ \/ /\ meta' = [meta EXCEPT ![Target(r)] = None]
          /\ torn' = IF obj[Target(r)] = None THEN torn \ {Target(r)} ELSE torn \cup {Target(r)}
       \/ /\ IOErrors
          /\ torn' = IF obj[Target(r)] = before[r].obj THEN torn ELSE torn \cup {Target(r)}
          /\ UNCHANGED meta
    /\ End(r, "ok", "unlock")
    /\ UNCHANGED <<writer, readers, parked, obj, tmp, call, got, before>>

(* The deferred Unlock or the RUnlock that ends the call: the response goes  *)
(* out (a Get streams the descriptor that it has opened) and the goroutine   *)
(* is free for another request.                                              *)
Return(r) ==
    /\ Goto(r, "idle")
    /\ call' = [call EXCEPT ![r] = None]
    /\ got' = [got EXCEPT ![r] = NoSnapshot]
    /\ out' = [out EXCEPT ![r] = "none"]

(* A temp file that could not be removed stays on disk, under a name that    *)
(* nothing reads and no later upload is given.                               *)
UnlockWriter(r) ==
    /\ pc[r] = "unlock"
    /\ Unlock(r, Target(r)[1])
    /\ before' = [before EXCEPT ![r] = NoPair]
    /\ tmp' = [tmp EXCEPT ![r] = None]
    /\ Return(r)
    /\ UNCHANGED <<obj, meta, torn>>

-------------------------------------------------------------------------------
(* Get, Head and the first half of CopyObject, under the shared lock. *)
LockReader(r) ==
    /\ pc[r] = "rlock"
    /\ RLock(r, Source(r)[1])
    /\ Goto(r, "rmeta")
    /\ UNCHANGED <<obj, meta, tmp, call, got, out, torn, before>>

ReadMeta(r) ==
    /\ pc[r] = "rmeta"
    /\ Shared(r, Source(r)[1])
    /\ \/ /\ meta[Source(r)] # None
          /\ got' = [got EXCEPT ![r].meta = meta[Source(r)]]
          /\ IF call[r].op = "head"
             THEN End(r, "ok", "runlock")
             ELSE Goto(r, "ropen") /\ UNCHANGED out
       \/ /\ meta[Source(r)] = None
          /\ End(r, "notfound", "runlock")
          /\ UNCHANGED got
       \/ /\ IOErrors
          /\ End(r, "error", "runlock")
          /\ UNCHANGED got
    /\ UNCHANGED <<writer, readers, parked, obj, meta, tmp, call, torn, before>>

(* The descriptor keeps the content it was opened on: a later rename or      *)
(* remove does not reach it.                                                 *)
OpenObj(r) ==
    /\ pc[r] = "ropen"
    /\ \/ /\ obj[Source(r)] # None
          /\ got' = [got EXCEPT ![r].body = obj[Source(r)], ![r].torn = Source(r) \in torn]
          /\ IF call[r].op = "get"
             THEN End(r, "ok", "runlock")
             ELSE Goto(r, "runlock") /\ UNCHANGED out
       \/ /\ obj[Source(r)] = None
          /\ End(r, "notfound", "runlock")
          /\ UNCHANGED got
       \/ /\ IOErrors
          /\ End(r, "error", "runlock")
          /\ UNCHANGED got
    /\ UNCHANGED <<writer, readers, parked, obj, meta, tmp, call, torn, before>>

(* A copy that has its source goes on to PutObject; it holds no lock between.*)
UnlockReader(r) ==
    /\ pc[r] = "runlock"
    /\ RUnlock(r, Source(r)[1])
    /\ IF out[r] = "none"
       THEN Goto(r, "lock") /\ UNCHANGED <<call, got, out>>
       ELSE Return(r)
    /\ UNCHANGED <<obj, meta, tmp, torn, before>>

-------------------------------------------------------------------------------
(* r has changed the bytes of its object (or tried to) and not yet the       *)
(* metadata.                                                                 *)
MidCommit(r) == pc[r] = "rmmeta" \/ (pc[r] = "wmeta" /\ call[r].op # "update")

(* The objects that a crash would tear. *)
HalfDone == {s \in Slot : \E r \in Req :
                MidCommit(r) /\ Target(r) = s /\ (pc[r] = "wmeta" \/ obj[s] # before[r].obj)}

(* The process dies and starts again.  No request survives; the temp files   *)
(* stay on disk under names that nothing reads.                              *)
Crash ==
    /\ Crashes
    /\ LockReset
    /\ tmp' = [r \in Req |-> None]
    /\ pc' = [r \in Req |-> "idle"]
    /\ call' = [r \in Req |-> None]
    /\ got' = [r \in Req |-> NoSnapshot]
    /\ out' = [r \in Req |-> "none"]
    /\ before' = [r \in Req |-> NoPair]
    /\ torn' = torn \cup HalfDone
    /\ UNCHANGED <<obj, meta>>

Progress(r) ==
    \/ LockWriter(r) \/ EnterWriter(r) \/ Stage(r) \/ Receive(r) \/ Reject(r) \/ Rename(r)
    \/ Cleanup(r) \/ WriteMeta(r) \/ ReadForUpdate(r) \/ RemoveObj(r) \/ RemoveMeta(r)
    \/ UnlockWriter(r) \/ LockReader(r) \/ ReadMeta(r) \/ OpenObj(r) \/ UnlockReader(r)

Next ==
    \/ \E r \in Req : Progress(r) \/ \E c \in Calls : Begin(r, c)
    \/ Crash

Spec == Init /\ [][Next]_vars

(* Fairness.  The steps of a request are ordinary code, which the scheduler  *)
(* runs.  A writer that waits for the mutex inside sync.RWMutex gets it: Go  *)
(* hands the mutex over in arrival order once someone has waited 1 ms.  A    *)
(* body arrives, or its connection breaks, as long as its client keeps       *)
(* sending: cmd/arca/main.go sets no ReadTimeout, so nothing else ends the   *)
(* wait, and no fairness is assumed of the clients of a Slow bucket.         *)
BodyEnds(r) ==
    /\ pc[r] = "receive"
    /\ call[r].op = "copy" \/ Target(r)[1] \notin Slow
    /\ Receive(r) \/ Reject(r)

ServerStep(r) ==
    \/ EnterWriter(r) \/ Stage(r) \/ Rename(r) \/ Cleanup(r) \/ WriteMeta(r)
    \/ ReadForUpdate(r) \/ RemoveObj(r) \/ RemoveMeta(r) \/ UnlockWriter(r) \/ LockReader(r) \/ ReadMeta(r)
    \/ OpenObj(r) \/ UnlockReader(r)

FairSpec ==
    /\ Spec
    /\ \A r \in Req : WF_vars(ServerStep(r)) /\ WF_vars(BodyEnds(r)) /\ SF_vars(LockWriter(r))

-------------------------------------------------------------------------------
(* The lock and the program counters agree: whoever is between Lock() and    *)
(* Unlock() is the writer of that bucket and alone in it, whoever is between *)
(* RLock() and RUnlock() is a reader, or parked behind a writer and has read *)
(* nothing, and the lock holds nobody else (no path of store.go returns with *)
(* the lock held).                                                           *)
CallerHolds(r) ==
    /\ pc[r] \in WriteSteps =>
         writer[Target(r)[1]] = r /\ readers[Target(r)[1]] = {}
    /\ pc[r] = "drain" => writer[Target(r)[1]] = r
    /\ pc[r] \in {"ropen", "runlock"} => r \in readers[Source(r)[1]]
    /\ pc[r] = "rmeta" => r \in readers[Source(r)[1]] \cup parked[Source(r)[1]]

HoldersInside(b) ==
    /\ writer[b] # None =>
         pc[writer[b]] \in WriteSteps \cup {"drain"} /\ Target(writer[b])[1] = b
    /\ \A r \in readers[b] : pc[r] \in ReadSteps /\ Source(r)[1] = b
    /\ \A r \in parked[b] : pc[r] = "rmeta" /\ Source(r)[1] = b /\ writer[b] # None
    /\ readers[b] \cap parked[b] = {}

LockSafety ==
    /\ \A r \in Req : CallerHolds(r)
    /\ \A b \in Bucket : HoldersInside(b)

(* README.md: a cut upload leaves no half object.  Whatever fails or crashes,*)
(* and whenever a reader looks, the file of an object is a whole body.       *)
WholeBodies == \A s \in Slot : obj[s] # Partial

(* The metadata of an object describes its bytes (ETag, Size, checksums), or *)
(* neither file is there, unless a writer is between the two files, or one   *)
(* was stopped there by an error or a crash and no writer has repaired the   *)
(* pair since.                                                               *)
CoherentUnlessTorn ==
    \A s \in Slot :
        \/ s \in torn
        \/ \E r \in Req : MidCommit(r) /\ Target(r) = s
        \/ Matches(obj[s], meta[s])

(* A reader never sees the gap between the two files of a writer that is at  *)
(* work: a Get or a copy of an object that nothing has torn has bytes and    *)
(* metadata of the same version.                                             *)
ReadsAreCoherent ==
    \A r \in Req : got[r].body # None /\ ~ got[r].torn => Matches(got[r].body, got[r].meta)

(* Success is reported only for what is on disk: when a put or a copy that   *)
(* succeeded releases the lock, both files are exactly what it was asked to  *)
(* store.                                                                    *)
AckMeansStored ==
    \A r \in Req :
        pc[r] = "unlock" /\ out[r] = "ok" /\ call[r].op \in {"put", "copy"} =>
            obj[Target(r)] = Incoming(r) /\ meta[Target(r)] = NewMeta(r)

(* A body that is cut short, or that fails its digest, changes neither file  *)
(* of the object that was there.                                             *)
RejectedLeavesObject ==
    \A r \in Req :
        pc[r] = "unlock" /\ out[r] = "rejected" =>
            before[r] = [obj |-> obj[Target(r)], meta |-> meta[Target(r)]]

(* No call ends over its temp file (the deferred Remove of putLocked): one   *)
(* that reports success has renamed it, and one that fails leaves it only    *)
(* where the Remove was tried and failed as well.                            *)
NoTempLeft ==
    [][\A r \in Req :
          pc[r] # "unlock" /\ pc'[r] = "unlock" /\ tmp'[r] # None =>
              pc[r] = "cleanup" /\ out'[r] # "ok" /\ IOErrors]_vars

(* Every call is atomic: the two files, seen from outside the lock, are the  *)
(* map of ObjectMap, and nothing but what ObjectMap allows happens to them.  *)
StoredBytes(s) ==
    IF \E r \in Req : MidCommit(r) /\ Target(r) = s
    THEN before[CHOOSE r \in Req : MidCommit(r) /\ Target(r) = s].obj
    ELSE obj[s]

Seen(r) ==
    CASE got[r].body # None -> [body |-> got[r].body, meta |-> got[r].meta]
      [] call[r].op = "head" -> [body |-> None, meta |-> got[r].meta]
      [] OTHER -> [body |-> None, meta |-> None]

MapBytes == [s \in Slot |-> StoredBytes(s)]

JobOf(r) ==
    IF call[r] = None THEN None ELSE [call |-> call[r], saw |-> Seen(r), out |-> out[r]]

MapJob == [r \in Req |-> JobOf(r)]

Map == INSTANCE ObjectMap WITH bytes <- MapBytes, descr <- meta, job <- MapJob

ImplementsMap == Map!MapSpec

(* A call that touches no bucket whose clients may stall is answered: the    *)
(* lock lets everyone through, a reader or a writer that waits is served,    *)
(* and a client that stalls in one bucket holds up no call in another        *)
(* (README.md: different buckets do not block each other).                   *)
OtherBucketsAnswer ==
    \A r \in Req :
        (call[r] # None /\ Target(r)[1] \notin Slow /\ Source(r)[1] \notin Slow)
            ~> (call[r] = None)
===============================================================================
