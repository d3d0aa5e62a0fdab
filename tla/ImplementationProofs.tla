-------------------------- MODULE ImplementationProofs -------------------------
(***************************************************************************)
(* The two-file store implements the atomic map of ObjectMap, for every    *)
(* number of requests, buckets and keys, with failing system calls and     *)
(* crashes: initial states map to initial states, and every step maps to   *)
(* one step of the map or to none.                                         *)
(*                                                                         *)
(* Besides Inv of CoherenceProofs the mapping rests on Paced: a call has   *)
(* an outcome exactly when all it has left to do is to remove its temp     *)
(* file and to release its lock.                                           *)
(***************************************************************************)
EXTENDS CoherenceProofs

Paced ==
    \A r \in Req :
        /\ out[r] # "none" => pc[r] \in {"cleanup", "unlock", "runlock"}
        /\ pc[r] \in {"cleanup", "unlock"} => out[r] # "none"
        /\ pc[r] \in {"rlock", "rmeta"} => got[r] = NoSnapshot
        /\ pc[r] = "rmmeta" => obj[Target(r)] = None \/ IOErrors

Strong == Inv /\ Paced

LEMMA PacedInit == Init => Paced
BY DEF Init, Paced, NoSnapshot

(* A step of r disturbs the object of no other request inside the lock.      *)
LEMMA PacedOthers ==
    ASSUME Strong, NEW r \in Req,
           \A q \in Req : q # r =>
             pc'[q] = pc[q] /\ call'[q] = call[q] /\ got'[q] = got[q] /\ out'[q] = out[q],
           obj' = obj \/ (pc[r] \in WriteSteps
                          /\ \A s \in Slot : s # Target(r) => obj'[s] = obj[s]),
           /\ out'[r] # "none" => pc'[r] \in {"cleanup", "unlock", "runlock"}
           /\ pc'[r] \in {"cleanup", "unlock"} => out'[r] # "none"
           /\ pc'[r] \in {"rlock", "rmeta"} => got'[r] = NoSnapshot
           /\ pc'[r] = "rmmeta" => obj'[Target(r)'] = None \/ IOErrors
    PROVE  Paced'
<1>1. ASSUME NEW q \in Req, q # r, pc[q] = "rmmeta" PROVE obj'[Target(q)] = obj[Target(q)]
  BY <1>1, Apart, SlotFacts DEF Strong, Inv, WriteSteps
<1> QED BY <1>1 DEF Strong, Paced, Target

LEMMA PacedStep ==
    ASSUME Strong, NEW r \in Req, Progress(r) PROVE Paced'
<1> USE DEF Goto, End
<1>1. /\ pc \in [Req -> Steps] /\ out \in [Req -> Outcome] /\ got \in [Req -> Snapshot]
      /\ call \in [Req -> Call \cup {None}] /\ obj \in [Slot -> Content \cup {None}]
  BY DEF Strong, Inv, Shape, TypeOK
<1>2. /\ out[r] # "none" => pc[r] \in {"cleanup", "unlock", "runlock"}
      /\ pc[r] = "cleanup" => out[r] # "none"
  BY DEF Strong, Paced
<1>3. CASE LockWriter(r) \/ EnterWriter(r) \/ LockReader(r)
  BY <1>1, <1>2, <1>3, PacedOthers
     DEF LockWriter, EnterWriter, LockReader, FirstStep, Strong, Paced
<1>4. CASE Stage(r) \/ Receive(r) \/ Reject(r) \/ Cleanup(r) \/ WriteMeta(r)
           \/ ReadForUpdate(r) \/ RemoveMeta(r)
  BY <1>1, <1>2, <1>4, PacedOthers
     DEF Stage, Receive, Reject, Cleanup, WriteMeta, ReadForUpdate, RemoveMeta
<1>5. CASE ReadMeta(r) \/ OpenObj(r)
  BY <1>1, <1>2, <1>5, PacedOthers DEF ReadMeta, OpenObj
<1>6. CASE UnlockWriter(r) \/ UnlockReader(r)
  BY <1>1, <1>2, <1>6, PacedOthers DEF UnlockWriter, UnlockReader, Return
<1>7. CASE Rename(r)
  <2>1. pc[r] \in WriteSteps /\ Target(r) \in Slot /\ Target(r)' = Target(r)
    BY <1>7, SlotFacts DEF Rename, WriteSteps, Strong, Inv, Target
  <2> QED BY <1>1, <1>2, <1>7, <2>1, PacedOthers DEF Rename
<1>8. CASE RemoveObj(r)
  <2>1. pc[r] \in WriteSteps /\ Target(r) \in Slot /\ Target(r)' = Target(r)
    BY <1>8, SlotFacts DEF RemoveObj, WriteSteps, Strong, Inv, Target
  <2> QED BY <1>1, <1>2, <1>8, <2>1, PacedOthers DEF RemoveObj
<1> QED BY <1>3, <1>4, <1>5, <1>6, <1>7, <1>8 DEF Progress

LEMMA PacedNext == Strong /\ [Next]_vars => Paced'
<1> SUFFICES ASSUME Strong, [Next]_vars PROVE Paced'
  OBVIOUS
<1>1. ASSUME NEW r \in Req, NEW c \in Calls, Begin(r, c) PROVE Paced'
  <2>1. out[r] = "none" /\ got[r] = NoSnapshot /\ pc \in [Req -> Steps]
        /\ call \in [Req -> Call \cup {None}]
    BY <1>1 DEF Begin, Strong, Inv, Shape, TypeOK, DataShape, Paced
  <2> QED BY <1>1, <2>1, PacedOthers DEF Begin, Goto
<1>2. CASE Crash
  BY <1>2 DEF Crash, Paced, NoSnapshot
<1>3. CASE UNCHANGED vars
  BY <1>3 DEF vars, Strong, Paced, Target
<1> QED BY <1>1, <1>2, <1>3, PacedStep DEF Next

THEOREM StrongInvariant == Spec => []Strong
BY PacedInit, PacedNext, HeldInvariant, PTL DEF Spec, Strong
-------------------------------------------------------------------------------
(* The bytes that the map sees: the object, or what a writer in its gap      *)
(* found there.                                                              *)
LEMMA MidUnique ==
    ASSUME Strong, NEW r \in Req, MidCommit(r)
    PROVE  /\ pc[r] \in WriteSteps /\ Target(r) \in Slot
           /\ \A q \in Req : pc[q] \in WriteSteps /\ Target(q) = Target(r) => q = r
BY MidIsWriting, Apart, SlotFacts DEF Strong, Inv, MidCommit

LEMMA BytesMid ==
    ASSUME Strong, NEW r \in Req, MidCommit(r)
    PROVE  MapBytes[Target(r)] = before[r].obj
<1>1. \A q \in Req : MidCommit(q) /\ Target(q) = Target(r) => q = r
  BY MidUnique, MidIsWriting
<1>2. (CHOOSE q \in Req : MidCommit(q) /\ Target(q) = Target(r)) = r
  BY <1>1
<1>3. StoredBytes(Target(r)) = before[r].obj
  BY <1>2 DEF StoredBytes
<1> QED BY <1>3, MidUnique DEF MapBytes

LEMMA BytesOutside ==
    ASSUME NEW s \in Slot, \A r \in Req : ~ (MidCommit(r) /\ Target(r) = s)
    PROVE  MapBytes[s] = obj[s]
BY DEF MapBytes, StoredBytes

(* A slot that no writer enters or leaves looks the same to the map. *)
LEMMA BytesElsewhere ==
    ASSUME Strong, NEW s \in Slot, obj'[s] = obj[s],
           \A q \in Req : (MidCommit(q) /\ Target(q) = s)' <=> MidCommit(q) /\ Target(q) = s,
           \A q \in Req : MidCommit(q) => before'[q] = before[q]
    PROVE  StoredBytes(s)' = MapBytes[s]
<1> DEFINE Mid(q) == MidCommit(q) /\ Target(q) = s
<1>1. CASE \E q \in Req : Mid(q)
  <2>1. PICK q \in Req : Mid(q)
    BY <1>1
  <2>2. \A w \in Req : Mid(w) => w = q
    BY <2>1, MidUnique, MidIsWriting
  <2>3. (CHOOSE w \in Req : Mid(w)') = q
    BY <2>1, <2>2
  <2>4. StoredBytes(s)' = before'[q].obj
    BY <2>1, <2>3 DEF StoredBytes
  <2> QED BY <2>1, <2>4, BytesMid
<1>2. CASE \A q \in Req : ~ Mid(q)
  BY <1>2, BytesOutside DEF StoredBytes
<1> QED BY <1>1, <1>2

(* A step of r that is not at its gap, before or after. *)
LEMMA BytesQuiet ==
    ASSUME Strong, NEW r \in Req, ~ MidCommit(r), ~ MidCommit(r)', obj' = obj,
           \A q \in Req : q # r =>
             pc'[q] = pc[q] /\ call'[q] = call[q] /\ before'[q] = before[q]
    PROVE  MapBytes' = MapBytes
<1>1. \A q \in Req, s \in Slot :
        (MidCommit(q) /\ Target(q) = s)' <=> MidCommit(q) /\ Target(q) = s
  BY DEF MidCommit, Target
<1>2. \A s \in Slot : StoredBytes(s)' = MapBytes[s]
  BY <1>1, BytesElsewhere
<1> QED BY <1>2 DEF MapBytes

(* A writer goes into its gap: the change of the bytes does not show. *)
LEMMA BytesEnter ==
    ASSUME Strong, NEW r \in Req, pc[r] \in WriteSteps, ~ MidCommit(r), MidCommit(r)',
           before[r].obj = obj[Target(r)],
           \A s \in Slot : s # Target(r) => obj'[s] = obj[s],
           \A q \in Req : q # r => pc'[q] = pc[q],
           UNCHANGED <<call, before>>
    PROVE  MapBytes' = MapBytes
<1> DEFINE Mid(q, s) == MidCommit(q) /\ Target(q) = s
<1>1. \A q \in Req, s \in Slot : q # r => (Mid(q, s)' <=> Mid(q, s))
  BY DEF MidCommit, Target
<1>2. Target(r)' = Target(r) /\ Target(r) \in Slot
  BY SlotFacts DEF Target, Strong, Inv, WriteSteps
<1>3. \A q \in Req : q # r => ~ Mid(q, Target(r))
  BY Apart, MidIsWriting DEF Strong, Inv
<1>4. ASSUME NEW s \in Slot, s # Target(r) PROVE StoredBytes(s)' = MapBytes[s]
  <2>1. \A q \in Req : Mid(q, s)' <=> Mid(q, s)
    BY <1>1, <1>2, <1>4
  <2> QED BY <1>4, <2>1, BytesElsewhere
<1>5. StoredBytes(Target(r))' = MapBytes[Target(r)]
  <2>1. MapBytes[Target(r)] = obj[Target(r)]
    BY <1>2, <1>3, BytesOutside
  <2>2. \A q \in Req : Mid(q, Target(r))' <=> q = r
    BY <1>1, <1>2, <1>3
  <2>3. (CHOOSE w \in Req : Mid(w, Target(r))') = r
    BY <2>2
  <2> QED BY <1>2, <2>1, <2>2, <2>3 DEF StoredBytes
<1> QED BY <1>2, <1>4, <1>5 DEF MapBytes

(* It comes out of its gap: the map gets the bytes that are there. *)
LEMMA BytesLeave ==
    ASSUME Strong, NEW r \in Req, MidCommit(r), ~ MidCommit(r)', obj' = obj,
           \A q \in Req : q # r => pc'[q] = pc[q],
           UNCHANGED <<call, before>>
    PROVE  MapBytes' = [MapBytes EXCEPT ![Target(r)] = obj[Target(r)]]
<1> DEFINE Mid(q, s) == MidCommit(q) /\ Target(q) = s
<1>1. \A q \in Req, s \in Slot : q # r => (Mid(q, s)' <=> Mid(q, s))
  BY DEF MidCommit, Target
<1>2. Target(r)' = Target(r) /\ Target(r) \in Slot /\ MapBytes = [s \in Slot |-> MapBytes[s]]
  BY MidUnique DEF Target, MapBytes
<1>3. \A q \in Req : Mid(q, Target(r)) => q = r
  BY MidUnique, MidIsWriting
<1>4. ASSUME NEW s \in Slot, s # Target(r) PROVE StoredBytes(s)' = MapBytes[s]
  <2>1. \A q \in Req : Mid(q, s)' <=> Mid(q, s)
    BY <1>1, <1>2, <1>4
  <2> QED BY <1>4, <2>1, BytesElsewhere
<1>5. StoredBytes(Target(r))' = obj[Target(r)]
  <2>1. \A q \in Req : ~ Mid(q, Target(r))'
    BY <1>1, <1>2, <1>3
  <2> QED BY <2>1, <1>2 DEF StoredBytes
<1> QED BY <1>2, <1>4, <1>5 DEF MapBytes

-------------------------------------------------------------------------------
(* The call of a request, as the map sees it. *)
LEMMA JobFacts ==
    ASSUME Strong, NEW r \in Req, pc[r] # "idle"
    PROVE  /\ MapJob[r] = [call |-> call[r], saw |-> Seen(r), out |-> out[r]]
           /\ MapJob[r].call = call[r] /\ MapJob[r].saw = Seen(r) /\ MapJob[r].out = out[r]
           /\ MapJob[r] # None /\ call[r] # None /\ call[r] \in Calls
           /\ out[r] = "none" => Map!Pending(r)
<1>1. call[r] # None /\ call[r] \in Calls /\ call[r] \in Call
  BY DEF Strong, Inv, Shape, TypeOK, CallShape
<1>2. got[r] \in Snapshot /\ out[r] \in Outcome
  BY DEF Strong, Inv, Shape, TypeOK
<1>3. Seen(r) \in [body : Content \cup {None}, meta : Meta \cup {None}]
  BY <1>2 DEF Seen, Snapshot
<1>4. MapJob[r] = [call |-> call[r], saw |-> Seen(r), out |-> out[r]]
  BY <1>1 DEF MapJob, JobOf
<1>5. MapJob[r] \in Job
  BY <1>1, <1>2, <1>3, <1>4 DEF Job
<1> QED BY <1>1, <1>4, <1>5, JobAssumption DEF Map!Pending

LEMMA JobChange ==
    ASSUME NEW r \in Req,
           \A q \in Req : q # r =>
             call'[q] = call[q] /\ got'[q] = got[q] /\ out'[q] = out[q]
    PROVE  MapJob' = [MapJob EXCEPT ![r] = JobOf(r)']
<1>1. \A q \in Req : q # r => JobOf(q)' = JobOf(q)
  BY DEF JobOf, Seen
<1> QED BY <1>1 DEF MapJob

LEMMA JobSame ==
    ASSUME NEW r \in Req, \A q \in Req : q # r => got'[q] = got[q],
           UNCHANGED <<call, out>>, Seen(r)' = Seen(r)
    PROVE  MapJob' = MapJob
BY DEF MapJob, JobOf, Seen

LEMMA JobEnd ==
    ASSUME Strong, NEW r \in Req, NEW o, pc[r] # "idle", UNCHANGED <<call, got>>,
           out' = [out EXCEPT ![r] = o]
    PROVE  Map!Finish(r, o)
<1>1. MapJob' = [MapJob EXCEPT ![r] = JobOf(r)']
  BY JobChange DEF Strong, Inv, Shape, TypeOK
<1>2. JobOf(r)' = [call |-> call[r], saw |-> Seen(r), out |-> o]
  BY JobFacts DEF JobOf, Seen, Strong, Inv, Shape, TypeOK
<1>3. JobOf(r)' = [MapJob[r] EXCEPT !.out = o]
  <2>1. MapJob[r] = [call |-> call[r], saw |-> Seen(r), out |-> out[r]]
    BY JobFacts
  <2>2. [MapJob[r] EXCEPT !.out = o] = [call |-> call[r], saw |-> Seen(r), out |-> o]
    BY <2>1
  <2> QED BY <1>2, <2>2
<1> QED BY <1>1, <1>3 DEF Map!Finish

-------------------------------------------------------------------------------
(* ObjectMap and ObjectStore mean the same by the operators of ObjectTypes.  *)
LEMMA SameTypes ==
    /\ Map!Calls = Calls /\ Map!Slot = Slot
    /\ \A c : Map!ReadSlot(c) = ReadSlot(c)
    /\ \A c, o : Map!StoredBody(c, o) = StoredBody(c, o)
    /\ \A c, o, m : Map!StoredMeta(c, o, m) = StoredMeta(c, o, m)
<1> USE DEF Map!Calls, Calls, Map!PutCalls, PutCalls, Map!CopyCalls, CopyCalls,
            Map!UpdateCalls, UpdateCalls, Map!PlainCalls, PlainCalls, Map!Slot, Slot,
            Map!Checksum, Checksum, Map!Md5, Md5
<1>1. Map!Calls = Calls /\ Map!Slot = Slot
  OBVIOUS
<1>2. \A c : Map!ReadSlot(c) = ReadSlot(c)
  BY DEF Map!ReadSlot, ReadSlot
<1>3. \A c, o : Map!StoredBody(c, o) = StoredBody(c, o)
  BY DEF Map!StoredBody, StoredBody
<1>4. \A c, o, m : Map!StoredMeta(c, o, m) = StoredMeta(c, o, m)
  BY DEF Map!StoredMeta, StoredMeta, Map!StoredBody, StoredBody
<1> QED BY <1>1, <1>2, <1>3, <1>4

(* Every step of the store is one step of the map, or none. *)
Maps == Map!MapNext \/ UNCHANGED <<MapBytes, meta, MapJob>>

LEMMA MapsRefuse ==
    ASSUME Strong, NEW r \in Req, NEW o, pc[r] # "idle", out[r] = "none",
           UNCHANGED <<call, got, meta, MapBytes>>, out' = [out EXCEPT ![r] = o],
           \/ call[r].op = "put" /\ o = "rejected"
           \/ IOErrors /\ o \in {"rejected", "error"}
    PROVE  Maps
<1>1. Map!Pending(r) /\ MapJob[r].call = call[r]
  BY JobFacts
<1>2. Map!Refuse(r)
  BY <1>1, JobEnd DEF Map!Refuse
<1> QED BY <1>2 DEF Maps, Map!MapNext

(* A step that shows neither in the files nor in what the call has seen. *)
LEMMA MapsNothing ==
    ASSUME NEW r \in Req, \A q \in Req : q # r => got'[q] = got[q],
           UNCHANGED <<call, out, meta, MapBytes>>, Seen(r)' = Seen(r)
    PROVE  Maps
BY JobSame DEF Maps

LEMMA MapsBegin ==
    ASSUME Strong, NEW r \in Req, NEW c \in Calls, Begin(r, c) PROVE Maps
<1> USE DEF Begin, Goto
<1>1. /\ call[r] = None /\ got[r] = NoSnapshot /\ out[r] = "none"
      /\ pc \in [Req -> Steps] /\ call \in [Req -> Call \cup {None}]
  BY DEF Strong, Inv, Shape, TypeOK, CallShape, DataShape, Paced
<1>2. MapJob[r] = None
  BY <1>1 DEF MapJob, JobOf
<1>3. JobOf(r)' = [call |-> c, saw |-> Map!NotSeen, out |-> "none"]
  <2>1. call'[r] = c /\ c # None /\ got'[r].body = None /\ got'[r].meta = None
    BY <1>1, CallFacts, RecordAssumption DEF NoSnapshot
  <2>2. Seen(r)' = Map!NotSeen
    BY <2>1 DEF Seen, Map!NotSeen
  <2> QED BY <1>1, <2>1, <2>2 DEF JobOf
<1>4. MapJob' = [MapJob EXCEPT ![r] = JobOf(r)']
  BY <1>1, JobChange
<1>5. MapBytes' = MapBytes
  BY <1>1, BytesQuiet DEF MidCommit
<1>6. MapJob' = [MapJob EXCEPT ![r] = [call |-> c, saw |-> Map!NotSeen, out |-> "none"]]
  BY <1>3, <1>4
<1>7. Map!Invoke(r)
  BY <1>2, <1>5, <1>6, SameTypes DEF Map!Invoke
<1> QED BY <1>7 DEF Maps, Map!MapNext

LEMMA MapsWait ==
    ASSUME Strong, NEW r \in Req, LockWriter(r) \/ EnterWriter(r) \/ LockReader(r) PROVE Maps
<1> USE DEF LockWriter, EnterWriter, LockReader, Goto
<1>1. /\ pc \in [Req -> Steps]
      /\ \A q \in Req : q # r => before'[q] = before[q]
  BY DEF Strong, Inv, Shape, TypeOK
<1>2. FirstStep(call[r].op) \notin {"wmeta", "rmmeta"}
  BY DEF FirstStep
<1>3. ~ MidCommit(r) /\ ~ MidCommit(r)'
  BY <1>1, <1>2 DEF MidCommit
<1>4. MapBytes' = MapBytes
  BY <1>1, <1>3, BytesQuiet
<1> QED BY <1>4, MapsNothing DEF Seen

LEMMA MapsCleanup ==
    ASSUME Strong, NEW r \in Req, Cleanup(r) PROVE Maps
<1> USE DEF Cleanup, Goto
<1>1. pc \in [Req -> Steps] /\ ~ MidCommit(r) /\ ~ MidCommit(r)'
  BY DEF Strong, Inv, Shape, TypeOK, MidCommit
<1>2. MapBytes' = MapBytes
  BY <1>1, BytesQuiet
<1> QED BY <1>2, MapsNothing DEF Seen

LEMMA MapsReceive ==
    ASSUME Strong, NEW r \in Req, Stage(r) \/ Receive(r) \/ Reject(r) PROVE Maps
<1> USE DEF Stage, Receive, Reject, Goto, End
<1>1. pc \in [Req -> Steps] /\ out[r] = "none" /\ pc[r] # "idle"
  BY DEF Strong, Inv, Shape, TypeOK, Paced
<1>2. ~ MidCommit(r) /\ ~ MidCommit(r)'
  BY <1>1 DEF MidCommit
<1>3. MapBytes' = MapBytes
  BY <1>1, <1>2, BytesQuiet
<1>4. CASE UNCHANGED out
  BY <1>3, <1>4, MapsNothing DEF Seen
<1>5. CASE IOErrors /\ out' = [out EXCEPT ![r] = "error"]
  BY <1>1, <1>3, <1>5, MapsRefuse
<1>6. CASE Reject(r)
  BY <1>1, <1>3, <1>6, MapsRefuse
<1> QED BY <1>4, <1>5, <1>6

LEMMA MapsRename ==
    ASSUME Strong, NEW r \in Req, Rename(r) PROVE Maps
<1> USE DEF Rename, Goto, End
<1>1. pc \in [Req -> Steps] /\ out[r] = "none" /\ pc[r] # "idle" /\ ~ MidCommit(r)
  BY DEF Strong, Inv, Shape, TypeOK, Paced, MidCommit
<1>2. CASE IOErrors /\ End(r, "error", "cleanup") /\ UNCHANGED obj
  <2>1. MapBytes' = MapBytes
    BY <1>1, <1>2, BytesQuiet DEF MidCommit
  <2> QED BY <1>1, <1>2, <2>1, MapsRefuse
<1>3. CASE obj' = [obj EXCEPT ![Target(r)] = tmp[r]] /\ Goto(r, "wmeta") /\ UNCHANGED out
  <2>1. before[r].obj = obj[Target(r)] /\ call[r].op # "update"
    <3>1. call[r].op \in {"put", "copy"}
      BY DEF Strong, Inv, Shape, CallShape
    <3>2. before[r] = Files(Target(r))
      BY DEF Strong, Inv, Held, HeldWrite
    <3> QED BY <3>1, <3>2 DEF Files
  <2>2. MidCommit(r)' /\ pc[r] \in WriteSteps
    BY <1>1, <1>3, <2>1 DEF MidCommit, WriteSteps
  <2>3. obj \in [Slot -> Content \cup {None}]
    BY DEF Strong, Inv, Shape, TypeOK
  <2>4. MapBytes' = MapBytes
    BY <1>1, <1>3, <2>1, <2>2, <2>3, BytesEnter
  <2> QED BY <1>3, <2>4, MapsNothing DEF Seen
<1> QED BY <1>2, <1>3

LEMMA MapsRemoveObj ==
    ASSUME Strong, NEW r \in Req, RemoveObj(r) PROVE Maps
<1> USE DEF RemoveObj, Goto, End
<1>1. /\ pc \in [Req -> Steps] /\ obj \in [Slot -> Content \cup {None}]
      /\ before[r].obj = obj[Target(r)] /\ out[r] = "none" /\ pc[r] # "idle"
      /\ ~ MidCommit(r) /\ pc[r] \in WriteSteps
  BY DEF Strong, Inv, Shape, TypeOK, Held, HeldWrite, Files, Paced, MidCommit, WriteSteps
<1>2. CASE Goto(r, "rmmeta") /\ UNCHANGED out
  <2>1. MidCommit(r)'
    BY <1>1, <1>2 DEF MidCommit
  <2>2. MapBytes' = MapBytes
    BY <1>1, <2>1, BytesEnter
  <2> QED BY <1>2, <2>2, MapsNothing DEF Seen
<1>3. CASE IOErrors /\ End(r, "error", "unlock") /\ UNCHANGED obj
  <2>1. MapBytes' = MapBytes
    BY <1>1, <1>3, BytesQuiet DEF MidCommit
  <2> QED BY <1>1, <1>3, <2>1, MapsRefuse
<1> QED BY <1>2, <1>3

LEMMA MapsReadForUpdate ==
    ASSUME Strong, NEW r \in Req, ReadForUpdate(r) PROVE Maps
<1> USE DEF ReadForUpdate, Goto, End
<1>1. /\ pc \in [Req -> Steps] /\ out[r] = "none" /\ pc[r] # "idle" /\ got \in [Req -> Snapshot]
      /\ call[r] # None /\ call[r].op = "update" /\ got[r].body = None
  BY DEF Strong, Inv, Shape, TypeOK, Paced, CallShape, Held, HeldRead
<1>2. MapBytes' = MapBytes
  BY <1>1, BytesQuiet DEF MidCommit
<1>3. CASE got' = [got EXCEPT ![r].meta = meta[Target(r)]] /\ UNCHANGED out
  <2>1. got'[r].body = None /\ \A q \in Req : q # r => got'[q] = got[q]
    BY <1>1, <1>3 DEF Snapshot
  <2>2. Seen(r)' = Seen(r)
    BY <1>1, <2>1 DEF Seen
  <2> QED BY <1>2, <1>3, <2>1, <2>2, MapsNothing
<1>4. CASE meta[Target(r)] = None /\ End(r, "notfound", "unlock") /\ UNCHANGED got
  <2>1. Map!Ready(r) /\ Map!Absent(r)
    BY <1>1, <1>4, JobFacts DEF Map!Ready, Map!Absent, Target
  <2>2. Map!UpdateNothing(r)
    BY <1>1, <1>2, <1>4, <2>1, JobEnd DEF Map!UpdateNothing
  <2> QED BY <2>2 DEF Maps, Map!MapNext
<1>5. CASE IOErrors /\ End(r, "error", "unlock") /\ UNCHANGED got
  BY <1>1, <1>2, <1>5, MapsRefuse
<1> QED BY <1>3, <1>4, <1>5

(* A read that finds its object ... *)
LEMMA MapsLook ==
    ASSUME Strong, NEW r \in Req, pc[r] # "idle", out[r] = "none", Seen(r) = Map!NotSeen,
           call[r].op \in {"get", "head", "copy"},
           meta[Source(r)] # None, call[r].op # "head" => MapBytes[Source(r)] # None,
           \A q \in Req : q # r => got'[q] = got[q] /\ out'[q] = out[q],
           UNCHANGED <<call, meta, MapBytes>>,
           Seen(r)' = [body |-> IF call[r].op = "head" THEN None ELSE MapBytes[Source(r)],
                       meta |-> meta[Source(r)]],
           out'[r] = IF call[r].op = "copy" THEN "none" ELSE "ok"
    PROVE  Maps
<1>1. MapJob' = [MapJob EXCEPT ![r] = JobOf(r)']
  BY JobChange
<1>2. JobOf(r)' = [call |-> call[r], saw |-> Seen(r)', out |-> out'[r]]
  BY JobFacts DEF JobOf
<1>3. MapJob' = [MapJob EXCEPT ![r] = [call |-> call[r], saw |-> Seen(r)', out |-> out'[r]]]
  BY <1>1, <1>2
<1>4. Map!Look(r)
  BY <1>3, JobFacts, SameTypes DEF Map!Look, Source
<1> QED BY <1>4 DEF Maps, Map!MapNext

(* ... and one that does not. *)
LEMMA MapsMiss ==
    ASSUME Strong, NEW r \in Req, pc[r] # "idle", out[r] = "none", Seen(r) = Map!NotSeen,
           call[r].op \in {"get", "head", "copy"},
           meta[Source(r)] = None \/ (call[r].op # "head" /\ MapBytes[Source(r)] = None),
           out' = [out EXCEPT ![r] = "notfound"], UNCHANGED <<call, got, meta, MapBytes>>
    PROVE  Maps
<1>1. Map!Finish(r, "notfound")
  BY JobEnd
<1>2. Map!Look(r)
  BY <1>1, JobFacts, SameTypes DEF Map!Look, Source
<1> QED BY <1>2 DEF Maps, Map!MapNext

LEMMA MapsReadMeta ==
    ASSUME Strong, NEW r \in Req, ReadMeta(r) PROVE Maps
<1> USE DEF ReadMeta, Goto, End
<1>1. /\ pc \in [Req -> Steps] /\ out \in [Req -> Outcome] /\ got \in [Req -> Snapshot]
      /\ out[r] = "none" /\ got[r] = NoSnapshot /\ pc[r] # "idle"
  BY DEF Strong, Inv, Shape, TypeOK, Paced
<1>2. call[r] # None /\ call[r].op \in {"get", "head", "copy"}
  BY DEF Strong, Inv, Shape, CallShape, ReadSteps
<1>3. MapBytes' = MapBytes
  BY <1>1, BytesQuiet DEF MidCommit
<1>4. Seen(r) = Map!NotSeen
  BY <1>1 DEF Seen, NoSnapshot, Map!NotSeen
<1>5. CASE meta[Source(r)] # None /\ got' = [got EXCEPT ![r].meta = meta[Source(r)]]
           /\ IF call[r].op = "head" THEN End(r, "ok", "runlock") ELSE UNCHANGED out
  <2>1. got'[r].body = None /\ got'[r].meta = meta[Source(r)]
        /\ \A q \in Req : q # r => got'[q] = got[q]
    BY <1>1, <1>5 DEF Snapshot, NoSnapshot
  <2>2. CASE call[r].op = "head"
    <3>1. Seen(r)' = [body |-> None, meta |-> meta[Source(r)]]
      BY <2>1, <2>2 DEF Seen
    <3> QED BY <1>1, <1>3, <1>4, <1>5, <2>1, <2>2, <3>1, MapsLook
  <2>3. CASE call[r].op # "head"
    <3>1. Seen(r)' = Seen(r)
      BY <1>1, <2>1, <2>3 DEF Seen, NoSnapshot
    <3> QED BY <1>3, <1>5, <2>1, <2>3, <3>1, MapsNothing
  <2> QED BY <2>2, <2>3
<1>6. CASE meta[Source(r)] = None /\ End(r, "notfound", "runlock") /\ UNCHANGED got
  BY <1>1, <1>2, <1>3, <1>4, <1>6, MapsMiss
<1>7. CASE IOErrors /\ End(r, "error", "runlock") /\ UNCHANGED got
  BY <1>1, <1>3, <1>7, MapsRefuse
<1> QED BY <1>5, <1>6, <1>7

LEMMA MapsOpenObj ==
    ASSUME Strong, NEW r \in Req, OpenObj(r) PROVE Maps
<1> USE DEF OpenObj, Goto, End
<1>1. /\ pc \in [Req -> Steps] /\ out \in [Req -> Outcome] /\ got \in [Req -> Snapshot]
      /\ out[r] = "none" /\ pc[r] # "idle"
      /\ got[r].body = None /\ got[r].meta = meta[Source(r)] /\ got[r].meta # None
  BY DEF Strong, Inv, Shape, TypeOK, Paced, DataShape, Held, HeldRead
<1>2. call[r] # None /\ call[r].op \in {"get", "copy"}
  BY DEF Strong, Inv, Shape, CallShape
<1>3. MapBytes' = MapBytes
  BY <1>1, BytesQuiet DEF MidCommit
<1>4. Seen(r) = Map!NotSeen
  BY <1>1, <1>2 DEF Seen, Map!NotSeen
<1>5. MapBytes[Source(r)] = obj[Source(r)]
  <2>1. \A q \in Req : ~ (MidCommit(q) /\ Target(q) = Source(r))
    <3>1. \A q \in Req : MidCommit(q) => q # r /\ pc[q] \in WriteSteps
      BY MidIsWriting DEF MidCommit
    <3> QED BY <3>1, Apart DEF Strong, Inv
  <2>2. Source(r) \in Slot
    BY <1>1, SlotFacts DEF Strong, Inv
  <2> QED BY <2>1, <2>2, BytesOutside
<1>6. CASE obj[Source(r)] # None
           /\ got' = [got EXCEPT ![r].body = obj[Source(r)], ![r].torn = Source(r) \in torn]
           /\ IF call[r].op = "get" THEN End(r, "ok", "runlock") ELSE UNCHANGED out
  <2>1. got'[r].body = obj[Source(r)] /\ got'[r].meta = meta[Source(r)]
        /\ \A q \in Req : q # r => got'[q] = got[q]
    BY <1>1, <1>6 DEF Snapshot
  <2>2. Seen(r)' = [body |-> obj[Source(r)], meta |-> meta[Source(r)]]
    <3>1. got'[r].body # None
      BY <1>6, <2>1
    <3>2. Seen(r)' = [body |-> got'[r].body, meta |-> got'[r].meta]
      <4>1. call[r].op # "head" /\ call' = call
        BY <1>2
      <4> QED BY <3>1, <4>1 DEF Seen
    <3> QED BY <2>1, <3>2
  <2>3. out'[r] = (IF call[r].op = "copy" THEN "none" ELSE "ok")
        /\ \A q \in Req : q # r => out'[q] = out[q]
    BY <1>1, <1>2, <1>6
  <2> QED BY <1>1, <1>2, <1>3, <1>4, <1>5, <1>6, <2>1, <2>2, <2>3, MapsLook
<1>7. CASE obj[Source(r)] = None /\ End(r, "notfound", "runlock") /\ UNCHANGED got
  BY <1>1, <1>2, <1>3, <1>4, <1>5, <1>7, MapsMiss
<1>8. CASE IOErrors /\ End(r, "error", "runlock") /\ UNCHANGED got
  BY <1>1, <1>3, <1>8, MapsRefuse
<1> QED BY <1>6, <1>7, <1>8

(* What the map stores for a writer that has its bytes in place is what the  *)
(* store has there, and the metadata that it writes next.                    *)
LEMMA WriterFacts ==
    ASSUME Strong, NEW r \in Req, pc[r] = "wmeta"
    PROVE  /\ Map!Ready(r) /\ ~ Map!Absent(r) /\ MapJob[r].call.slot = Target(r)
           /\ Map!DescrAfter(r) = NewMeta(r)
           /\ Map!BytesAfter(r) = IF MidCommit(r) THEN obj[Target(r)] ELSE MapBytes[Target(r)]
<1>1. /\ out[r] = "none" /\ call[r].op \in {"put", "copy", "update"}
      /\ call[r].op = "copy" => got[r].body # None /\ got[r].meta # None
      /\ call[r].op = "update" =>
           got[r].meta = meta[Target(r)] /\ got[r].meta # None /\ got[r].body = None
      /\ call[r].op # "update" => obj[Target(r)] = Incoming(r)
  BY DEF Strong, Inv, Shape, CallShape, DataShape, Paced, Held, HeldRead, HeldWrite
<1>2. MapJob[r].call = call[r] /\ MapJob[r].saw = Seen(r) /\ Map!Pending(r)
  BY <1>1, JobFacts
<1>3. call[r].op = "copy" => Seen(r) = [body |-> got[r].body, meta |-> got[r].meta]
  BY <1>1 DEF Seen
<1>4. Map!Ready(r) /\ ~ Map!Absent(r)
  BY <1>1, <1>2, <1>3 DEF Map!Ready, Map!Absent, Map!NotSeen, Target
<1>5. MidCommit(r) <=> call[r].op # "update"
  BY DEF MidCommit
<1>6. CASE call[r].op = "update"
  <2>1. Map!DescrAfter(r) = StoredMeta(call[r], None, meta[Target(r)])
    BY <1>2, <1>6, SameTypes DEF Map!DescrAfter, Target
  <2>2. Map!DescrAfter(r) = NewMeta(r)
    BY <1>1, <1>6, <2>1 DEF NewMeta
  <2>3. Map!BytesAfter(r) = MapBytes[Target(r)]
    BY <1>2, <1>6 DEF Map!BytesAfter, Target
  <2> QED BY <1>2, <1>4, <1>5, <1>6, <2>2, <2>3 DEF Target
<1>7. CASE call[r].op = "copy"
  <2>1. Map!DescrAfter(r) = StoredMeta(call[r], got[r].body, got[r].meta)
    BY <1>2, <1>3, <1>7, SameTypes DEF Map!DescrAfter
  <2>2. Map!BytesAfter(r) = StoredBody(call[r], got[r].body)
    BY <1>2, <1>3, <1>7, SameTypes DEF Map!BytesAfter
  <2> QED BY <1>1, <1>2, <1>4, <1>5, <1>7, <2>1, <2>2 DEF NewMeta, Incoming, Target
<1>8. CASE call[r].op = "put"
  <2>1. Map!DescrAfter(r) = StoredMeta(call[r], Seen(r).body, Seen(r).meta)
    BY <1>2, <1>8, SameTypes DEF Map!DescrAfter
  <2>2. Map!BytesAfter(r) = StoredBody(call[r], Seen(r).body)
    BY <1>2, <1>8, SameTypes DEF Map!BytesAfter
  <2>3. Map!DescrAfter(r) = NewMeta(r) /\ Map!BytesAfter(r) = Incoming(r)
    BY <1>8, <2>1, <2>2 DEF NewMeta, Incoming, StoredMeta, StoredBody
  <2> QED BY <1>1, <1>2, <1>4, <1>5, <1>8, <2>3 DEF Target
<1> QED BY <1>1, <1>6, <1>7, <1>8

LEMMA MapsWriteMeta ==
    ASSUME Strong, NEW r \in Req, WriteMeta(r) PROVE Maps
<1> USE DEF WriteMeta, Goto, End
<1>1. pc \in [Req -> Steps] /\ pc[r] # "idle" /\ ~ MidCommit(r)'
      /\ meta \in [Slot -> Meta \cup {None}] /\ MapBytes = [s \in Slot |-> MapBytes[s]]
  BY DEF Strong, Inv, Shape, TypeOK, MidCommit, MapBytes
<1>2. MapBytes' = [MapBytes EXCEPT ![Target(r)] = Map!BytesAfter(r)]
  <2>1. CASE MidCommit(r)
    BY <1>1, <2>1, BytesLeave, WriterFacts
  <2>2. CASE ~ MidCommit(r)
    BY <1>1, <2>2, BytesQuiet, WriterFacts
  <2> QED BY <2>1, <2>2
<1>3. meta = [meta EXCEPT ![Target(r)] = meta[Target(r)]]
  BY <1>1
<1>4. CASE meta' = [meta EXCEPT ![Target(r)] = NewMeta(r)] /\ End(r, "ok", "unlock")
  <2>1. Map!Finish(r, "ok")
    BY <1>1, <1>4, JobEnd
  <2>2. Map!Commit(r)
    BY <1>2, <1>4, <2>1, WriterFacts DEF Map!Commit
  <2> QED BY <2>2 DEF Maps, Map!MapNext
<1>5. CASE IOErrors /\ End(r, "error", "unlock")
           /\ (meta' = meta \/ meta' = [meta EXCEPT ![Target(r)] = NewMeta(r)])
  <2>1. Map!Finish(r, "error")
    BY <1>1, <1>5, JobEnd
  <2>2. MapJob[r].call.op # "delete"
    BY JobFacts, <1>1 DEF Strong, Inv, Shape, CallShape
  <2>3. \E d \in {meta[Target(r)], Map!DescrAfter(r)} : meta' = [meta EXCEPT ![Target(r)] = d]
    BY <1>3, <1>5, WriterFacts
  <2>4. Map!Botch(r)
    BY <1>2, <1>5, <2>1, <2>2, <2>3, WriterFacts DEF Map!Botch
  <2> QED BY <2>4 DEF Maps, Map!MapNext
<1> QED BY <1>4, <1>5

LEMMA DeleterFacts ==
    ASSUME Strong, NEW r \in Req, pc[r] = "rmmeta"
    PROVE  /\ Map!Ready(r) /\ ~ Map!Absent(r) /\ MapJob[r].call.slot = Target(r)
           /\ MapJob[r].call.op = "delete"
           /\ Map!DescrAfter(r) = None /\ Map!BytesAfter(r) = None
           /\ obj[Target(r)] \in {MapBytes[Target(r)], None}
           /\ obj[Target(r)] = None \/ IOErrors
<1>1. /\ out[r] = "none" /\ call[r].op = "delete" /\ MidCommit(r)
      /\ obj[Target(r)] = None \/ IOErrors
      /\ obj[Target(r)] \in {before[r].obj, None}
  BY DEF Strong, Inv, Shape, CallShape, Paced, Held, HeldWrite, MidCommit
<1>2. MapJob[r].call = call[r] /\ Map!Pending(r)
  BY <1>1, JobFacts
<1>3. Map!Ready(r) /\ ~ Map!Absent(r) /\ Map!DescrAfter(r) = None /\ Map!BytesAfter(r) = None
  BY <1>1, <1>2 DEF Map!Ready, Map!Absent, Map!DescrAfter, Map!BytesAfter
<1> QED BY <1>1, <1>2, <1>3, BytesMid DEF Target

LEMMA MapsRemoveMeta ==
    ASSUME Strong, NEW r \in Req, RemoveMeta(r) PROVE Maps
<1> USE DEF RemoveMeta, Goto, End
<1>1. pc \in [Req -> Steps] /\ pc[r] # "idle" /\ MidCommit(r) /\ ~ MidCommit(r)'
      /\ meta \in [Slot -> Meta \cup {None}]
  BY DEF Strong, Inv, Shape, TypeOK, MidCommit
<1>2. MapBytes' = [MapBytes EXCEPT ![Target(r)] = obj[Target(r)]]
  BY <1>1, BytesLeave
<1>3. Map!Finish(r, "ok")
  BY <1>1, JobEnd
<1>4. CASE obj[Target(r)] = None /\ meta' = [meta EXCEPT ![Target(r)] = None]
  <2>1. Map!Commit(r)
    BY <1>2, <1>3, <1>4, DeleterFacts DEF Map!Commit
  <2> QED BY <2>1 DEF Maps, Map!MapNext
<1>5. CASE IOErrors
  <2>1. \E d \in {meta[Target(r)], None} : meta' = [meta EXCEPT ![Target(r)] = d]
    BY <1>1
  <2>2. Map!Botch(r)
    BY <1>2, <1>3, <1>5, <2>1, DeleterFacts DEF Map!Botch
  <2> QED BY <2>2 DEF Maps, Map!MapNext
<1> QED BY <1>4, <1>5, DeleterFacts

(* The lock is released: the call is over, or a copy goes on to its put. *)
LEMMA MapsUnlock ==
    ASSUME Strong, NEW r \in Req, UnlockWriter(r) \/ UnlockReader(r) PROVE Maps
<1> USE DEF UnlockWriter, UnlockReader, Return, Goto
<1>1. /\ pc \in [Req -> Steps] /\ call \in [Req -> Call \cup {None}]
      /\ got \in [Req -> Snapshot] /\ out \in [Req -> Outcome]
      /\ \A q \in Req : q # r => before'[q] = before[q]
      /\ pc[r] # "idle" /\ ~ MidCommit(r) /\ ~ MidCommit(r)'
  BY DEF Strong, Inv, Shape, TypeOK, MidCommit
<1>2. MapBytes' = MapBytes
  BY <1>1, BytesQuiet
<1>3. CASE Return(r)
  <2>1. out[r] # "none"
    BY <1>1, <1>3 DEF Strong, Paced, Inv, Shape, CallShape
  <2>2. JobOf(r)' = None
    BY <1>1, <1>3 DEF JobOf
  <2>3. MapJob' = [MapJob EXCEPT ![r] = None]
    BY <1>1, <1>3, <2>2, JobChange
  <2>4. Map!Respond(r)
    BY <1>1, <1>2, <2>1, <2>3, JobFacts DEF Map!Respond
  <2> QED BY <2>4 DEF Maps, Map!MapNext
<1>4. CASE UNCHANGED <<call, got, out>>
  BY <1>2, <1>4, MapsNothing DEF Seen
<1> QED BY <1>3, <1>4

(* The writers that a crash finds in their gap with their bytes in place.    *)
Committed == {r \in Req : MidCommit(r) /\ obj[Target(r)] = Map!BytesAfter(r)}

LEMMA CommittedFacts ==
    ASSUME Strong
    PROVE  /\ Committed \subseteq {r \in Req : Map!Ready(r)}
           /\ \A r \in Committed : MapJob[r].call.slot = Target(r)
           /\ \A r, q \in Committed : Target(r)[1] = Target(q)[1] => r = q
<1>1. ASSUME NEW r \in Committed PROVE Map!Ready(r) /\ MapJob[r].call.slot = Target(r)
  BY WriterFacts, DeleterFacts DEF Committed, MidCommit
<1>2. ASSUME NEW r \in Committed, NEW q \in Committed, Target(r)[1] = Target(q)[1] PROVE r = q
  BY <1>2, MidIsWriting DEF Committed, Strong, Inv, LockSafety, CallerHolds
<1> QED BY <1>1, <1>2 DEF Committed

(* Without their requests the two files are what the map has after the crash.*)
LEMMA CommittedBytes ==
    ASSUME Strong, NEW s \in Slot
    PROVE  obj[s] = IF \E r \in Committed : Target(r) = s
                    THEN Map!BytesAfter(CHOOSE r \in Committed : Target(r) = s)
                    ELSE MapBytes[s]
<1>1. CASE \E r \in Committed : Target(r) = s
  <2> DEFINE w == CHOOSE r \in Committed : Target(r) = s
  <2>1. w \in Committed /\ Target(w) = s
    BY <1>1
  <2> QED BY <1>1, <2>1 DEF Committed
<1>2. CASE \E r \in Req : MidCommit(r) /\ Target(r) = s /\ r \notin Committed
  <2>1. PICK r \in Req : MidCommit(r) /\ Target(r) = s /\ r \notin Committed
    BY <1>2
  <2>2. pc[r] = "rmmeta"
    BY <2>1, WriterFacts DEF MidCommit, Committed
  <2>3. obj[s] = MapBytes[s]
    BY <2>1, <2>2, DeleterFacts DEF Committed
  <2>4. \A q \in Committed : Target(q) # s
    BY <2>1, MidUnique, MidIsWriting DEF Committed
  <2> QED BY <2>3, <2>4
<1>3. CASE \A r \in Req : ~ (MidCommit(r) /\ Target(r) = s)
  BY <1>3, BytesOutside DEF Committed
<1> QED BY <1>1, <1>2, <1>3

LEMMA MapsCrash == Strong /\ Crash => Maps
<1> SUFFICES ASSUME Strong, Crash PROVE Maps
  OBVIOUS
<1> USE DEF Crash
<1>1. MapJob' = [r \in Req |-> None]
  BY DEF MapJob, JobOf
<1>2. \A s \in Slot : StoredBytes(s)' = obj[s]
  BY DEF StoredBytes, MidCommit
<1>3. MapBytes' = [s \in Map!Slot |->
                     IF \E r \in Committed : MapJob[r].call.slot = s
                     THEN Map!BytesAfter(CHOOSE r \in Committed : MapJob[r].call.slot = s)
                     ELSE MapBytes[s]]
  <2>1. ASSUME NEW s \in Slot
        PROVE  obj[s] = IF \E r \in Committed : MapJob[r].call.slot = s
                        THEN Map!BytesAfter(CHOOSE r \in Committed : MapJob[r].call.slot = s)
                        ELSE MapBytes[s]
    <3>1. (CHOOSE r \in Committed : MapJob[r].call.slot = s)
            = (CHOOSE r \in Committed : Target(r) = s)
      BY CommittedFacts
    <3>2. (\E r \in Committed : MapJob[r].call.slot = s) <=> \E r \in Committed : Target(r) = s
      BY CommittedFacts
    <3> QED BY <3>1, <3>2, CommittedBytes
  <2> QED BY <1>2, <2>1, SameTypes DEF MapBytes
<1>4. Map!MapCrash
  BY <1>1, <1>3, CommittedFacts DEF Map!MapCrash
<1> QED BY <1>4 DEF Maps, Map!MapNext

LEMMA MapsStutter == Strong /\ UNCHANGED vars => Maps
BY DEF vars, Maps, MapBytes, StoredBytes, MidCommit, Target, MapJob, JobOf, Seen

LEMMA MapsNext == Strong /\ [Next]_vars => Maps
<1> SUFFICES ASSUME Strong, [Next]_vars PROVE Maps
  OBVIOUS
<1>1. ASSUME NEW r \in Req, NEW c \in Calls, Begin(r, c) PROVE Maps
  BY <1>1, MapsBegin
<1>2. ASSUME NEW r \in Req, Progress(r) PROVE Maps
  BY <1>2, MapsWait, MapsReceive, MapsRename, MapsCleanup, MapsWriteMeta, MapsReadForUpdate,
     MapsRemoveObj, MapsRemoveMeta, MapsUnlock, MapsReadMeta, MapsOpenObj DEF Progress
<1> QED BY <1>1, <1>2, MapsCrash, MapsStutter DEF Next

LEMMA MapsInit == Init => Map!MapInit
BY SameTypes DEF Init, Map!MapInit, MapBytes, StoredBytes, MidCommit, MapJob, JobOf

(* Every call of the store is atomic: its two files, seen from outside the   *)
(* lock, change as the map of ObjectMap does, faults and crashes included.   *)
THEOREM StoreImplementsMap == Spec => ImplementsMap
<1>1. Maps => [Map!MapNext]_Map!mapVars
  BY DEF Maps, Map!mapVars
<1> QED BY <1>1, MapsInit, MapsNext, StrongInvariant, PTL DEF Spec, ImplementsMap, Map!MapSpec
===============================================================================
