------------------------------ MODULE ObjectTypes ------------------------------
(***************************************************************************)
(* The values that the object operations of internal/store/store.go work   *)
(* on, shared by the abstract map of objects (ObjectMap) and the           *)
(* two-file implementation (ObjectStore).                                  *)
(*                                                                         *)
(* A body, a digest and the user metadata are opaque: the store only       *)
(* carries them.  The digests are injective, and Size, which is written    *)
(* together with ETag and by the same code, is folded into it.             *)
(***************************************************************************)
CONSTANTS
    Req,     \* goroutines serving a request
    Bucket,  \* bucket names
    Key,     \* valid object keys
    Body,    \* complete object bodies
    Partial, \* the content of a temp file that is still being written
    Info,    \* user metadata: content type, x-amz-meta-*, tags
    None     \* "no request", "no file", "nothing yet"

ASSUME NoneAssumption == None \notin Req \cup Body \cup Info \cup (Bucket \X Key)
ASSUME PartialAssumption == Partial \notin Body \cup {None}

Slot == Bucket \X Key

Md5(body) == [md5 |-> body]
Checksum(body) == [checksum |-> body]
Sums == {Checksum(b) : b \in Body}

(* A metadata file. *)
Meta == [etag : {Md5(b) : b \in Body}, sum : Sums, info : Info]

Content == Body \cup {Partial}

Op == {"put", "copy", "delete", "update", "get", "head"}

(* The arguments of a call; None where the operation has no such argument.   *)
(* A copy has an info exactly when its metadata directive is REPLACE.        *)
Call == [op   : Op,
         slot : Slot,
         src  : Slot \cup {None},
         body : Body \cup {None},
         sum  : Sums \cup {None},
         info : Info \cup {None}]

ASSUME RecordAssumption == None \notin Meta \cup Call

(* The calls the handlers make.  Every put declares a checksum (without one  *)
(* there is nothing to get wrong), the one of the body it means to send: a   *)
(* body that turns out otherwise is cut off by the reader (Reject).          *)
PutCalls ==
    {[op |-> "put", slot |-> s, src |-> None, body |-> b, sum |-> Checksum(b), info |-> i] :
        s \in Slot, b \in Body, i \in Info}

(* The handler refuses a copy of an object to itself that replaces nothing. *)
CopyCalls ==
    {c \in [op : {"copy"}, slot : Slot, src : Slot, body : {None}, sum : {None},
            info : Info \cup {None}] :
        c.src # c.slot \/ c.info # None}

UpdateCalls ==
    [op : {"update"}, slot : Slot, src : {None}, body : {None}, sum : {None}, info : Info]

PlainCalls ==
    [op : {"delete", "get", "head"}, slot : Slot, src : {None}, body : {None}, sum : {None},
     info : {None}]

Calls == PutCalls \cup CopyCalls \cup UpdateCalls \cup PlainCalls

(* The slot that a call reads first. *)
ReadSlot(c) == IF c.op = "copy" THEN c.src ELSE c.slot

(* The bytes that call c stores when it has read the bytes sbody, and the    *)
(* metadata it writes with them when it has read the metadata smeta.  An     *)
(* update keeps the ETag and the checksums that it found.                    *)
StoredBody(c, sbody) == IF c.op = "copy" THEN sbody ELSE c.body

(* (The first operator is a mistake, not part of the model: an update that   *)
(* starts from empty metadata.)                                              *)
StoredMetaFromNothing(c, sbody, smeta) ==
    CASE c.op = "put" -> [etag |-> Md5(c.body), sum |-> c.sum, info |-> c.info]
      [] c.op = "copy" ->
            [etag |-> Md5(sbody), sum |-> smeta.sum,
             info |-> IF c.info = None THEN smeta.info ELSE c.info]
      [] OTHER -> [etag |-> None, sum |-> None, info |-> c.info]

StoredMeta(c, sbody, smeta) ==
    CASE c.op = "put" -> [etag |-> Md5(c.body), sum |-> c.sum, info |-> c.info]
      [] c.op = "copy" ->
            [etag |-> Md5(sbody), sum |-> smeta.sum,
             info |-> IF c.info = None THEN smeta.info ELSE c.info]
      [] OTHER -> [smeta EXCEPT !.info = c.info]

(* The metadata m describes the bytes o, or neither is there. *)
Matches(o, m) ==
    \/ o = None /\ m = None
    \/ o # None /\ m # None /\ m.etag = Md5(o) /\ m.sum = Checksum(o)
===============================================================================
