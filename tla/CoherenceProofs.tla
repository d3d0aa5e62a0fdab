---------------------------- MODULE CoherenceProofs ----------------------------
(***************************************************************************)
(* The two files of an object agree, for every number of requests, buckets *)
(* and keys, with failing system calls and crashes.  CoherentUnlessTorn is *)
(* not inductive: that a writer makes the pair whole again rests on what   *)
(* it has read under the lock, or written, being still there.  Held says   *)
(* that; it is preserved because two requests that are both inside the     *)
(* lock are at different slots (Apart).                                    *)
(***************************************************************************)
EXTENDS ObjectStoreProofs

Files(s) == [obj |-> obj[s], meta |-> meta[s]]

(* What a reader has seen is the metadata that is there, then a pair that    *)
(* belongs together.                                                         *)
HeldRead(r) ==
    /\ pc[r] \in {"rlock", "rmeta", "ropen"} => got[r].body = None
    /\ call[r] # None /\ call[r].op = "update" => got[r].body = None
    /\ pc[r] = "ropen" => got[r].meta = meta[Source(r)]
    /\ got[r].body # None /\ ~ got[r].torn => Matches(got[r].body, got[r].meta)

(* What a writer found, read or wrote is what the files hold.                *)
HeldWrite(r) ==
    /\ pc[r] \in {"stage", "receive", "rename", "rmobj"} => before[r] = Files(Target(r))
    /\ pc[r] = "rmmeta" =>
         meta[Target(r)] = before[r].meta /\ obj[Target(r)] \in {before[r].obj, None}
    /\ pc[r] \in {"rmobj", "rmmeta"} =>
         Target(r) \in torn \/ Matches(before[r].obj, before[r].meta)
    /\ pc[r] = "wmeta" /\ call[r].op = "update" => got[r].meta = meta[Target(r)]
    /\ pc[r] = "wmeta" /\ call[r].op # "update" => obj[Target(r)] = Incoming(r)
    /\ pc[r] = "cleanup" => out[r] \in {"rejected", "error"}
    /\ pc[r] \in {"cleanup", "unlock"} /\ out[r] = "rejected" => before[r] = Files(Target(r))
    /\ pc[r] = "unlock" /\ out[r] = "ok" /\ call[r].op \in {"put", "copy"} =>
         obj[Target(r)] = Incoming(r) /\ meta[Target(r)] = NewMeta(r)

Held == \A r \in Req : HeldRead(r) /\ HeldWrite(r)

Inv == Shape /\ LockSafety /\ Held /\ CoherentUnlessTorn

-------------------------------------------------------------------------------
(* A writer's slot is nobody else's: no other writer and no reader that has  *)
(* looked is in its bucket.                                                  *)
LEMMA Apart ==
    ASSUME Shape, LockSafety, NEW r \in Req, NEW q \in Req, q # r, pc[r] \in WriteSteps
    PROVE  /\ pc[q] \in WriteSteps => Target(q) # Target(r)
           /\ pc[q] = "ropen" => Source(q) # Target(r)
BY DEF LockSafety, CallerHolds

LEMMA MidIsWriting == \A r \in Req : MidCommit(r) => pc[r] \in WriteSteps
BY DEF MidCommit, WriteSteps

(* Frame: what q holds outlives a step of another request r, which touches   *)
(* no file, or only those of its own target and only as a writer.            *)
LEMMA HeldByOthers ==
    ASSUME Shape, LockSafety, NEW r \in Req, NEW q \in Req, q # r,
           HeldRead(q), HeldWrite(q),
           pc'[q] = pc[q], call'[q] = call[q], got'[q] = got[q],
           out'[q] = out[q], before'[q] = before[q],
           \/ UNCHANGED <<obj, meta, torn>>
           \/ /\ pc[r] \in WriteSteps
              /\ \A s \in Slot : s # Target(r) =>
                   obj'[s] = obj[s] /\ meta'[s] = meta[s] /\ (s \in torn' <=> s \in torn)
    PROVE  HeldRead(q)' /\ HeldWrite(q)'
<1>. USE DEF Target, Source, Incoming, NewMeta
<1>1. CASE UNCHANGED <<obj, meta, torn>>
  BY <1>1 DEF HeldRead, HeldWrite, Files
<1>2. ASSUME pc[r] \in WriteSteps,
             \A s \in Slot : s # Target(r) =>
               obj'[s] = obj[s] /\ meta'[s] = meta[s] /\ (s \in torn' <=> s \in torn)
      PROVE  HeldRead(q)' /\ HeldWrite(q)'
  <2>1. pc[q] = "ropen" => meta'[Source(q)] = meta[Source(q)]
    BY <1>2, Apart, SlotFacts
  <2>2. pc[q] \in WriteSteps =>
          /\ obj'[Target(q)] = obj[Target(q)] /\ meta'[Target(q)] = meta[Target(q)]
          /\ Target(q) \in torn' <=> Target(q) \in torn
    BY <1>2, Apart, SlotFacts DEF WriteSteps
  <2>3. HeldRead(q)'
    BY <2>1 DEF HeldRead
  <2>4. HeldWrite(q)'
    BY <2>2 DEF HeldWrite, Files, WriteSteps
  <2>5. QED
    BY <2>3, <2>4
<1>3. QED
  BY <1>1, <1>2

(* A step of r that changes no file, outside the gap between the two files.  *)
LEMMA CoherentQuiet ==
    ASSUME Shape, CoherentUnlessTorn, NEW r \in Req, ~ MidCommit(r),
           UNCHANGED <<obj, meta, torn>>,
           \A q \in Req : q # r => pc'[q] = pc[q] /\ call'[q] = call[q]
    PROVE  CoherentUnlessTorn'
<1>1. \A q \in Req : MidCommit(q) => MidCommit(q)' /\ Target(q)' = Target(q)
  BY DEF MidCommit, Target
<1>2. QED
  BY <1>1 DEF CoherentUnlessTorn

(* A step of a writer r that changes the files of its target only.           *)
LEMMA CoherentElsewhere ==
    ASSUME Shape, CoherentUnlessTorn, NEW r \in Req,
           \A s \in Slot : s # Target(r) =>
             obj'[s] = obj[s] /\ meta'[s] = meta[s] /\ (s \in torn' <=> s \in torn),
           \A q \in Req : q # r => pc'[q] = pc[q],
           call' = call,
           \/ Target(r) \in torn'
           \/ MidCommit(r)'
           \/ Matches(obj'[Target(r)], meta'[Target(r)])
    PROVE  CoherentUnlessTorn'
<1>1. \A q \in Req : Target(q)' = Target(q) /\ (q # r /\ MidCommit(q) => MidCommit(q)')
  BY DEF MidCommit, Target
<1>2. ASSUME NEW s \in Slot
      PROVE  \/ s \in torn'
             \/ \E q \in Req : MidCommit(q)' /\ Target(q)' = s
             \/ Matches(obj'[s], meta'[s])
  <2>1. CASE s = Target(r)
    BY <1>1, <2>1
  <2>2. CASE s # Target(r)
    BY <1>1, <2>2 DEF CoherentUnlessTorn
  <2>3. QED
    BY <2>1, <2>2
<1>3. QED
  BY <1>2 DEF CoherentUnlessTorn, Matches
(* Under the lock, and outside the gap, the pair of the target is whole.     *)
LEMMA TargetCoherent ==
    ASSUME Inv, NEW r \in Req, ~ MidCommit(r),
           \/ pc[r] \in WriteSteps
           \/ pc[r] = "drain" /\ Exclusive(r, Target(r)[1])
    PROVE  Target(r) \in torn \/ Matches(obj[Target(r)], meta[Target(r)])
<1>1. ASSUME NEW q \in Req, MidCommit(q), Target(q) = Target(r) PROVE FALSE
  BY <1>1, MidIsWriting DEF Inv, LockSafety, CallerHolds, Exclusive
<1>2. Target(r) \in Slot
  BY SlotFacts DEF Inv, WriteSteps
<1>3. QED
  BY <1>1, <1>2 DEF Inv, CoherentUnlessTorn

-------------------------------------------------------------------------------
(* One lemma per action: what r itself holds, then Held by the frame, then   *)
(* the slots.                                                                *)
LEMMA HeldBegin ==
    ASSUME Inv, NEW r \in Req, NEW c \in Calls, Begin(r, c)
    PROVE  Held' /\ CoherentUnlessTorn'
<1>. USE DEF Inv, Begin, Goto
<1>1. TypeOK /\ CallShape(r) /\ DataShape(r) /\ HeldRead(r) /\ HeldWrite(r)
  BY DEF Shape, Held
<1>2. HeldRead(r)'
  BY <1>1 DEF HeldRead, TypeOK, DataShape, CallShape, NoSnapshot, Source
<1>3. HeldWrite(r)'
  BY <1>1 DEF HeldWrite, TypeOK, Files, Target, Incoming, NewMeta
<1>4. ASSUME NEW q \in Req, q # r PROVE HeldRead(q)' /\ HeldWrite(q)'
  BY <1>1, <1>4, HeldByOthers DEF TypeOK, Held, WriteSteps
<1>5. CoherentUnlessTorn'
  BY <1>1, CoherentQuiet DEF TypeOK, MidCommit
<1>6. QED
  BY <1>2, <1>3, <1>4, <1>5 DEF Held

LEMMA HeldLockWriter ==
    ASSUME Inv, NEW r \in Req, LockWriter(r)
    PROVE  Held' /\ CoherentUnlessTorn'
<1>. USE DEF Inv, LockWriter, Goto, Announce
<1>1. TypeOK /\ CallShape(r) /\ DataShape(r) /\ HeldRead(r) /\ HeldWrite(r)
  BY DEF Shape, Held
<1>2. HeldRead(r)'
  BY <1>1 DEF HeldRead, TypeOK, DataShape, CallShape, NoSnapshot, Source
<1>3. HeldWrite(r)'
  BY <1>1 DEF HeldWrite, TypeOK, Files, Target, Incoming, NewMeta
<1>4. ASSUME NEW q \in Req, q # r PROVE HeldRead(q)' /\ HeldWrite(q)'
  BY <1>1, <1>4, HeldByOthers DEF TypeOK, Held, WriteSteps
<1>5. CoherentUnlessTorn'
  BY <1>1, CoherentQuiet DEF TypeOK, MidCommit
<1>6. QED
  BY <1>2, <1>3, <1>4, <1>5 DEF Held

LEMMA HeldEnterWriter ==
    ASSUME Inv, NEW r \in Req, EnterWriter(r)
    PROVE  Held' /\ CoherentUnlessTorn'
<1>. USE DEF Inv, EnterWriter, Goto, Exclusive, FirstStep
<1>1. TypeOK /\ CallShape(r) /\ DataShape(r) /\ HeldRead(r) /\ HeldWrite(r)
  BY DEF Shape, Held
<1>0. Target(r) \in torn \/ Matches(obj[Target(r)], meta[Target(r)])
  BY TargetCoherent DEF MidCommit
<1>2. HeldRead(r)'
  BY <1>1 DEF HeldRead, TypeOK, DataShape, CallShape, NoSnapshot, Source
<1>3. HeldWrite(r)'
  BY <1>1, <1>0 DEF HeldWrite, TypeOK, Files, Target
<1>4. ASSUME NEW q \in Req, q # r PROVE HeldRead(q)' /\ HeldWrite(q)'
  BY <1>1, <1>4, HeldByOthers DEF TypeOK, Held, WriteSteps
<1>5. CoherentUnlessTorn'
  BY <1>1, CoherentQuiet DEF TypeOK, MidCommit
<1>6. QED
  BY <1>2, <1>3, <1>4, <1>5 DEF Held

LEMMA HeldStage ==
    ASSUME Inv, NEW r \in Req, Stage(r)
    PROVE  Held' /\ CoherentUnlessTorn'
<1>. USE DEF Inv, Stage, Goto, End
<1>1. TypeOK /\ CallShape(r) /\ DataShape(r) /\ HeldRead(r) /\ HeldWrite(r)
  BY DEF Shape, Held
<1>2. HeldRead(r)'
  BY <1>1 DEF HeldRead, TypeOK, DataShape, CallShape, NoSnapshot, Source
<1>3. HeldWrite(r)'
  BY <1>1 DEF HeldWrite, TypeOK, Files, Target, Incoming, NewMeta
<1>4. ASSUME NEW q \in Req, q # r PROVE HeldRead(q)' /\ HeldWrite(q)'
  BY <1>1, <1>4, HeldByOthers DEF TypeOK, Held, WriteSteps
<1>5. CoherentUnlessTorn'
  BY <1>1, CoherentQuiet DEF TypeOK, MidCommit
<1>6. QED
  BY <1>2, <1>3, <1>4, <1>5 DEF Held

LEMMA HeldReceive ==
    ASSUME Inv, NEW r \in Req, Receive(r)
    PROVE  Held' /\ CoherentUnlessTorn'
<1>. USE DEF Inv, Receive, Goto, End
<1>1. TypeOK /\ CallShape(r) /\ DataShape(r) /\ HeldRead(r) /\ HeldWrite(r)
  BY DEF Shape, Held
<1>2. HeldRead(r)'
  BY <1>1 DEF HeldRead, TypeOK, DataShape, CallShape, NoSnapshot, Source
<1>3. HeldWrite(r)'
  BY <1>1 DEF HeldWrite, TypeOK, Files, Target, Incoming, NewMeta
<1>4. ASSUME NEW q \in Req, q # r PROVE HeldRead(q)' /\ HeldWrite(q)'
  BY <1>1, <1>4, HeldByOthers DEF TypeOK, Held, WriteSteps
<1>5. CoherentUnlessTorn'
  BY <1>1, CoherentQuiet DEF TypeOK, MidCommit
<1>6. QED
  BY <1>2, <1>3, <1>4, <1>5 DEF Held

LEMMA HeldReject ==
    ASSUME Inv, NEW r \in Req, Reject(r)
    PROVE  Held' /\ CoherentUnlessTorn'
<1>. USE DEF Inv, Reject, Goto, End
<1>1. TypeOK /\ CallShape(r) /\ DataShape(r) /\ HeldRead(r) /\ HeldWrite(r)
  BY DEF Shape, Held
<1>2. HeldRead(r)'
  BY <1>1 DEF HeldRead, TypeOK, DataShape, CallShape, NoSnapshot, Source
<1>3. HeldWrite(r)'
  BY <1>1 DEF HeldWrite, TypeOK, Files, Target, Incoming, NewMeta
<1>4. ASSUME NEW q \in Req, q # r PROVE HeldRead(q)' /\ HeldWrite(q)'
  BY <1>1, <1>4, HeldByOthers DEF TypeOK, Held, WriteSteps
<1>5. CoherentUnlessTorn'
  BY <1>1, CoherentQuiet DEF TypeOK, MidCommit
<1>6. QED
  BY <1>2, <1>3, <1>4, <1>5 DEF Held

LEMMA HeldRename ==
    ASSUME Inv, NEW r \in Req, Rename(r)
    PROVE  Held' /\ CoherentUnlessTorn'
<1>. USE DEF Inv, Rename, Goto, End
<1>1. TypeOK /\ CallShape(r) /\ DataShape(r) /\ HeldRead(r) /\ HeldWrite(r)
  BY DEF Shape, Held
<1>2. HeldRead(r)'
  BY <1>1 DEF HeldRead, TypeOK, DataShape, CallShape, NoSnapshot, Source
<1>3. HeldWrite(r)'
  BY <1>1, SlotFacts DEF HeldWrite, TypeOK, Files, Target, Incoming, DataShape, CallShape
<1>4. ASSUME NEW q \in Req, q # r PROVE HeldRead(q)' /\ HeldWrite(q)'
  BY <1>1, <1>4, HeldByOthers DEF TypeOK, Held, WriteSteps
<1>5. CoherentUnlessTorn'
  <2>1. CASE pc'[r] = "wmeta"
    <3>1. MidCommit(r)'
      BY <1>1, <2>1 DEF MidCommit, CallShape
    <3>2. QED
      BY <1>1, <3>1, CoherentElsewhere DEF TypeOK
  <2>2. CASE UNCHANGED obj
    BY <1>1, <2>2, CoherentQuiet DEF TypeOK, MidCommit
  <2>3. QED
    BY <1>1, <2>1, <2>2 DEF TypeOK
<1>6. QED
  BY <1>2, <1>3, <1>4, <1>5 DEF Held

LEMMA HeldCleanup ==
    ASSUME Inv, NEW r \in Req, Cleanup(r)
    PROVE  Held' /\ CoherentUnlessTorn'
<1>. USE DEF Inv, Cleanup, Goto, End
<1>1. TypeOK /\ CallShape(r) /\ DataShape(r) /\ HeldRead(r) /\ HeldWrite(r)
  BY DEF Shape, Held
<1>2. HeldRead(r)'
  BY <1>1 DEF HeldRead, TypeOK, DataShape, CallShape, NoSnapshot, Source
<1>3. HeldWrite(r)'
  BY <1>1 DEF HeldWrite, TypeOK, Files, Target, Incoming, NewMeta
<1>4. ASSUME NEW q \in Req, q # r PROVE HeldRead(q)' /\ HeldWrite(q)'
  BY <1>1, <1>4, HeldByOthers DEF TypeOK, Held, WriteSteps
<1>5. CoherentUnlessTorn'
  BY <1>1, CoherentQuiet DEF TypeOK, MidCommit
<1>6. QED
  BY <1>2, <1>3, <1>4, <1>5 DEF Held

(* What an update writes describes the bytes as well as what it read did.    *)
LEMMA MatchesUpdated ==
    ASSUME Inv, NEW r \in Req, pc[r] = "wmeta", call[r].op = "update",
           got[r].meta = meta[Target(r)]
    PROVE  Target(r) \in TornAfter(r) \/ Matches(obj[Target(r)], NewMeta(r))
<1>1. Target(r) \in torn \/ Matches(obj[Target(r)], meta[Target(r)])
  BY TargetCoherent DEF MidCommit, WriteSteps
<1>2. got[r].meta \in Meta
  BY WritingFacts DEF Inv, Shape, DataShape
<1>3. NewMeta(r) = [meta[Target(r)] EXCEPT !.info = call[r].info]
  BY DEF NewMeta, StoredMeta
<1>4. NewMeta(r) # None /\ NewMeta(r).etag = meta[Target(r)].etag
                      /\ NewMeta(r).sum = meta[Target(r)].sum
  BY <1>2, <1>3, WritingFacts, RecordAssumption DEF Meta, Inv
<1>5. QED
  BY <1>1, <1>2, <1>4, RecordAssumption DEF TornAfter, Matches

(* What a put writes describes its bytes, and what a copy writes does if     *)
(* what it read did.                                                         *)
LEMMA MatchesNew ==
    ASSUME Inv, NEW r \in Req, pc[r] = "wmeta", call[r].op \in {"put", "copy"},
           obj[Target(r)] = Incoming(r), HeldRead(r)
    PROVE  Target(r) \in TornAfter(r) \/ Matches(obj[Target(r)], NewMeta(r))
<1>1. call[r] \in Calls /\ NewMeta(r) # None
  BY SlotFacts, WritingFacts, RecordAssumption DEF Inv
<1>2. CASE call[r].op = "put"
  <2>1. call[r].body \in Body /\ call[r].sum = Checksum(call[r].body)
    BY <1>1, <1>2 DEF Calls, PutCalls, CopyCalls, UpdateCalls, PlainCalls
  <2>2. QED
    BY <1>1, <1>2, <2>1, NoneAssumption DEF Incoming, StoredBody, NewMeta, StoredMeta, Matches
<1>3. CASE call[r].op = "copy"
  <2>1. got[r].body # None /\ got[r].meta # None
    BY <1>3 DEF Inv, Shape, DataShape
  <2>2. got[r].torn \/ got[r].meta.sum = Checksum(got[r].body)
    BY <2>1 DEF HeldRead, Matches
  <2>3. QED
    BY <1>1, <1>3, <2>1, <2>2
       DEF Incoming, StoredBody, NewMeta, StoredMeta, Matches, TornAfter
<1>4. QED
  BY <1>2, <1>3

LEMMA HeldWriteMeta ==
    ASSUME Inv, NEW r \in Req, WriteMeta(r)
    PROVE  Held' /\ CoherentUnlessTorn'
<1>. USE DEF Inv, WriteMeta, Goto, End, TornAfter
<1>1. TypeOK /\ CallShape(r) /\ DataShape(r) /\ HeldRead(r) /\ HeldWrite(r)
  BY DEF Shape, Held
<1>2. HeldRead(r)'
  BY <1>1 DEF HeldRead, TypeOK, DataShape, CallShape, NoSnapshot, Source
<1>3. HeldWrite(r)'
  BY <1>1, SlotFacts DEF HeldWrite, TypeOK, Target, Incoming, NewMeta
<1>4. ASSUME NEW q \in Req, q # r PROVE HeldRead(q)' /\ HeldWrite(q)'
  BY <1>1, <1>4, HeldByOthers DEF TypeOK, Held, WriteSteps
<1>5. CoherentUnlessTorn'
  <2>1. call[r] \in Calls /\ call[r].op \in {"put", "copy", "update"}
    BY <1>1, SlotFacts DEF CallShape
  <2>2. ASSUME meta' = [meta EXCEPT ![Target(r)] = NewMeta(r)], torn' = TornAfter(r)
        PROVE  Target(r) \in torn' \/ Matches(obj[Target(r)], NewMeta(r))
    <3>1. CASE call[r].op = "update"
      BY <1>1, <2>2, <3>1, MatchesUpdated DEF HeldWrite
    <3>2. CASE call[r].op \in {"put", "copy"}
      BY <1>1, <2>1, <2>2, <3>2, MatchesNew DEF HeldWrite, HeldRead
    <3>3. QED
      BY <2>1, <3>1, <3>2
  <2>3. Target(r) \in Slot /\ meta'[Target(r)] \in {meta[Target(r)], NewMeta(r)}
    BY <1>1, SlotFacts DEF TypeOK
  <2>4. CASE meta' = [meta EXCEPT ![Target(r)] = NewMeta(r)] /\ torn' = TornAfter(r)
    <3>1. meta'[Target(r)] = NewMeta(r)
      BY <1>1, <2>3, <2>4 DEF TypeOK
    <3>2. QED
      BY <1>1, <2>2, <2>4, <3>1, CoherentElsewhere DEF TypeOK
  <2>5. CASE UNCHANGED meta /\ torn' = torn \cup {Target(r)}
    BY <1>1, <2>5, CoherentElsewhere DEF TypeOK
  <2>6. CASE UNCHANGED <<meta, torn>> /\ call[r].op = "update"
    BY <1>1, <2>6, CoherentQuiet DEF TypeOK, MidCommit
  <2>7. QED
    BY <2>4, <2>5, <2>6
<1>6. QED
  BY <1>2, <1>3, <1>4, <1>5 DEF Held

LEMMA HeldReadForUpdate ==
    ASSUME Inv, NEW r \in Req, ReadForUpdate(r)
    PROVE  Held' /\ CoherentUnlessTorn'
<1>. USE DEF Inv, ReadForUpdate, Goto, End
<1>1. TypeOK /\ CallShape(r) /\ DataShape(r) /\ HeldRead(r) /\ HeldWrite(r)
  BY DEF Shape, Held
<1>0. /\ got'[r].body = got[r].body /\ got'[r].torn = got[r].torn
      /\ got'[r].meta \in {got[r].meta, meta[Target(r)]}
      /\ got' # got => got'[r].meta = meta[Target(r)]
  BY <1>1, WritingFacts DEF TypeOK, Snapshot
<1>2. HeldRead(r)'
  <2>1. got[r].body = None
    BY <1>1 DEF HeldRead, CallShape
  <2>2. QED
    BY <1>0, <1>1, <2>1 DEF HeldRead, TypeOK
<1>3. HeldWrite(r)'
  <2>1. pc'[r] = "wmeta" => got'[r].meta = meta[Target(r)]
    BY <1>0, <1>1, WritingFacts DEF TypeOK, Snapshot
  <2>2. QED
    BY <1>1, <2>1 DEF HeldWrite, TypeOK, Target, CallShape
<1>4. ASSUME NEW q \in Req, q # r PROVE HeldRead(q)' /\ HeldWrite(q)'
  BY <1>1, <1>4, HeldByOthers DEF TypeOK, Held, WriteSteps
<1>5. CoherentUnlessTorn'
  BY <1>1, CoherentQuiet DEF TypeOK, MidCommit
<1>6. QED
  BY <1>2, <1>3, <1>4, <1>5 DEF Held

LEMMA HeldRemoveObj ==
    ASSUME Inv, NEW r \in Req, RemoveObj(r)
    PROVE  Held' /\ CoherentUnlessTorn'
<1>. USE DEF Inv, RemoveObj, Goto, End
<1>1. TypeOK /\ CallShape(r) /\ DataShape(r) /\ HeldRead(r) /\ HeldWrite(r)
  BY DEF Shape, Held
<1>2. HeldRead(r)'
  BY <1>1 DEF HeldRead, TypeOK, DataShape, CallShape, NoSnapshot, Source
<1>3. HeldWrite(r)'
  BY <1>1 DEF HeldWrite, TypeOK, Files, Target, Incoming, NewMeta
<1>4. ASSUME NEW q \in Req, q # r PROVE HeldRead(q)' /\ HeldWrite(q)'
  BY <1>1, <1>4, HeldByOthers DEF TypeOK, Held, WriteSteps
<1>5. CoherentUnlessTorn'
  <2>1. CASE pc'[r] = "rmmeta"
    BY <1>1, <2>1, CoherentElsewhere DEF TypeOK, MidCommit
  <2>2. CASE pc'[r] = "unlock" /\ UNCHANGED obj
    BY <1>1, <2>2, CoherentQuiet DEF TypeOK, MidCommit
  <2>3. QED
    BY <1>1, <2>1, <2>2 DEF TypeOK
<1>6. QED
  BY <1>2, <1>3, <1>4, <1>5 DEF Held

LEMMA HeldRemoveMeta ==
    ASSUME Inv, NEW r \in Req, RemoveMeta(r)
    PROVE  Held' /\ CoherentUnlessTorn'
<1>. USE DEF Inv, RemoveMeta, Goto, End
<1>1. TypeOK /\ CallShape(r) /\ DataShape(r) /\ HeldRead(r) /\ HeldWrite(r)
  BY DEF Shape, Held
<1>2. HeldRead(r)'
  BY <1>1 DEF HeldRead, TypeOK, DataShape, CallShape, NoSnapshot, Source
<1>3. HeldWrite(r)'
  BY <1>1, SlotFacts DEF HeldWrite, TypeOK, Target, CallShape
<1>4. ASSUME NEW q \in Req, q # r PROVE HeldRead(q)' /\ HeldWrite(q)'
  BY <1>1, <1>4, HeldByOthers DEF TypeOK, Held, WriteSteps
<1>5. CoherentUnlessTorn'
  BY <1>1, SlotFacts, CoherentElsewhere DEF TypeOK, HeldWrite, Matches
<1>6. QED
  BY <1>2, <1>3, <1>4, <1>5 DEF Held

LEMMA HeldUnlockWriter ==
    ASSUME Inv, NEW r \in Req, UnlockWriter(r)
    PROVE  Held' /\ CoherentUnlessTorn'
<1>. USE DEF Inv, UnlockWriter, Goto, Unlock, Return
<1>1. TypeOK /\ CallShape(r) /\ DataShape(r) /\ HeldRead(r) /\ HeldWrite(r)
  BY DEF Shape, Held
<1>2. HeldRead(r)'
  BY <1>1 DEF HeldRead, TypeOK, DataShape, CallShape, NoSnapshot, Source
<1>3. HeldWrite(r)'
  BY <1>1 DEF HeldWrite, TypeOK, Files, Target, Incoming, NewMeta
<1>4. ASSUME NEW q \in Req, q # r PROVE HeldRead(q)' /\ HeldWrite(q)'
  BY <1>1, <1>4, HeldByOthers DEF TypeOK, Held, WriteSteps
<1>5. CoherentUnlessTorn'
  BY <1>1, CoherentQuiet DEF TypeOK, MidCommit
<1>6. QED
  BY <1>2, <1>3, <1>4, <1>5 DEF Held

LEMMA HeldLockReader ==
    ASSUME Inv, NEW r \in Req, LockReader(r)
    PROVE  Held' /\ CoherentUnlessTorn'
<1>. USE DEF Inv, LockReader, Goto, RLock
<1>1. TypeOK /\ CallShape(r) /\ DataShape(r) /\ HeldRead(r) /\ HeldWrite(r)
  BY DEF Shape, Held
<1>2. HeldRead(r)'
  BY <1>1 DEF HeldRead, TypeOK, DataShape, CallShape, NoSnapshot, Source
<1>3. HeldWrite(r)'
  BY <1>1 DEF HeldWrite, TypeOK, Files, Target, Incoming, NewMeta
<1>4. ASSUME NEW q \in Req, q # r PROVE HeldRead(q)' /\ HeldWrite(q)'
  BY <1>1, <1>4, HeldByOthers DEF TypeOK, Held, WriteSteps
<1>5. CoherentUnlessTorn'
  BY <1>1, CoherentQuiet DEF TypeOK, MidCommit
<1>6. QED
  BY <1>2, <1>3, <1>4, <1>5 DEF Held

LEMMA HeldReadMeta ==
    ASSUME Inv, NEW r \in Req, ReadMeta(r)
    PROVE  Held' /\ CoherentUnlessTorn'
<1>. USE DEF Inv, ReadMeta, Goto, End, Shared
<1>1. TypeOK /\ CallShape(r) /\ DataShape(r) /\ HeldRead(r) /\ HeldWrite(r)
  BY DEF Shape, Held
<1>0. /\ got'[r].body = got[r].body /\ got'[r].torn = got[r].torn
      /\ got'[r].meta \in {got[r].meta, meta[Source(r)]}
      /\ got' # got => got'[r].meta = meta[Source(r)]
  BY <1>1, WritingFacts DEF TypeOK, Snapshot
<1>2. HeldRead(r)'
  <2>1. got[r].body = None
    BY <1>1 DEF HeldRead
  <2>2. pc'[r] = "ropen" => got'[r].meta = meta[Source(r)]
    BY <1>1, WritingFacts DEF TypeOK, Snapshot
  <2>3. QED
    BY <1>0, <1>1, <2>1, <2>2 DEF HeldRead, TypeOK, Source
<1>3. HeldWrite(r)'
  BY <1>1 DEF HeldWrite, TypeOK, Files, Target, Incoming, NewMeta
<1>4. ASSUME NEW q \in Req, q # r PROVE HeldRead(q)' /\ HeldWrite(q)'
  BY <1>1, <1>4, HeldByOthers DEF TypeOK, Held, WriteSteps
<1>5. CoherentUnlessTorn'
  BY <1>1, CoherentQuiet DEF TypeOK, MidCommit
<1>6. QED
  BY <1>2, <1>3, <1>4, <1>5 DEF Held

LEMMA HeldOpenObj ==
    ASSUME Inv, NEW r \in Req, OpenObj(r)
    PROVE  Held' /\ CoherentUnlessTorn'
<1>. USE DEF Inv, OpenObj, Goto, End
<1>1. TypeOK /\ CallShape(r) /\ DataShape(r) /\ HeldRead(r) /\ HeldWrite(r)
  BY DEF Shape, Held
<1>2. HeldRead(r)'
  <2>1. Source(r) \in torn \/ Matches(obj[Source(r)], meta[Source(r)])
    <3>1. ASSUME NEW q \in Req, MidCommit(q), Target(q) = Source(r) PROVE FALSE
      BY <3>1, MidIsWriting DEF LockSafety, CallerHolds
    <3>2. QED
      BY <3>1, SlotFacts DEF CoherentUnlessTorn
  <2>2. /\ got'[r].meta = meta[Source(r)]
        /\ \/ got'[r].body = None
           \/ got'[r].body = obj[Source(r)] /\ got'[r].torn = (Source(r) \in torn)
    BY <1>1, WritingFacts DEF TypeOK, Snapshot, HeldRead
  <2>3. QED
    BY <1>1, <2>1, <2>2 DEF HeldRead, TypeOK, CallShape
<1>3. HeldWrite(r)'
  BY <1>1 DEF HeldWrite, TypeOK, Files, Target, Incoming, NewMeta
<1>4. ASSUME NEW q \in Req, q # r PROVE HeldRead(q)' /\ HeldWrite(q)'
  BY <1>1, <1>4, HeldByOthers DEF TypeOK, Held, WriteSteps
<1>5. CoherentUnlessTorn'
  BY <1>1, CoherentQuiet DEF TypeOK, MidCommit
<1>6. QED
  BY <1>2, <1>3, <1>4, <1>5 DEF Held

LEMMA HeldUnlockReader ==
    ASSUME Inv, NEW r \in Req, UnlockReader(r)
    PROVE  Held' /\ CoherentUnlessTorn'
<1>. USE DEF Inv, UnlockReader, Goto, RUnlock, Return
<1>1. TypeOK /\ CallShape(r) /\ DataShape(r) /\ HeldRead(r) /\ HeldWrite(r)
  BY DEF Shape, Held
<1>2. HeldRead(r)'
  BY <1>1 DEF HeldRead, TypeOK, DataShape, CallShape, NoSnapshot, Source
<1>3. HeldWrite(r)'
  BY <1>1 DEF HeldWrite, TypeOK, Files, Target, Incoming, NewMeta
<1>4. ASSUME NEW q \in Req, q # r PROVE HeldRead(q)' /\ HeldWrite(q)'
  BY <1>1, <1>4, HeldByOthers DEF TypeOK, Held, WriteSteps
<1>5. CoherentUnlessTorn'
  BY <1>1, CoherentQuiet DEF TypeOK, MidCommit
<1>6. QED
  BY <1>2, <1>3, <1>4, <1>5 DEF Held

(* A crash leaves torn exactly the slots that a writer had half changed.     *)
LEMMA HeldCrash == Inv /\ Crash => Held' /\ CoherentUnlessTorn'
<1>. SUFFICES ASSUME Inv, Crash PROVE Held' /\ CoherentUnlessTorn'
  OBVIOUS
<1>. USE DEF Crash
<1>1. Held'
  BY DEF Held, HeldRead, HeldWrite, NoSnapshot
<1>2. ASSUME NEW s \in Slot PROVE s \in torn' \/ Matches(obj[s], meta[s])
  <2>1. ASSUME NEW r \in Req, MidCommit(r), Target(r) = s
        PROVE  s \in torn' \/ Matches(obj[s], meta[s])
    <3>1. CASE pc[r] = "wmeta" \/ obj[s] # before[r].obj
      BY <2>1, <3>1 DEF HalfDone
    <3>2. CASE pc[r] = "rmmeta" /\ obj[s] = before[r].obj
      BY <2>1, <3>2 DEF Inv, Held, HeldWrite
    <3>3. QED
      BY <2>1, <3>1, <3>2 DEF MidCommit
  <2>2. QED
    BY <2>1 DEF Inv, CoherentUnlessTorn
<1>3. QED
  BY <1>1, <1>2 DEF CoherentUnlessTorn, Matches

LEMMA HeldStutter == Inv /\ UNCHANGED vars => Held' /\ CoherentUnlessTorn'
BY DEF Inv, vars, Held, HeldRead, HeldWrite, CoherentUnlessTorn, MidCommit, Matches, Files,
       Target, Source, Incoming, NewMeta

THEOREM HeldInvariant == Spec => []Inv
<1>1. Init => Held /\ CoherentUnlessTorn
  BY DEF Init, Held, HeldRead, HeldWrite, CoherentUnlessTorn, Matches, NoSnapshot
<1>2. Inv /\ [Next]_vars => Held' /\ CoherentUnlessTorn'
  <2>. SUFFICES ASSUME Inv, [Next]_vars PROVE Held' /\ CoherentUnlessTorn'
    OBVIOUS
  <2>1. ASSUME NEW r \in Req, NEW c \in Calls, Begin(r, c) PROVE Held' /\ CoherentUnlessTorn'
    BY <2>1, HeldBegin
  <2>2. ASSUME NEW r \in Req, Progress(r) PROVE Held' /\ CoherentUnlessTorn'
    BY <2>2, HeldLockWriter, HeldEnterWriter, HeldStage, HeldReceive, HeldReject, HeldRename, HeldCleanup,
       HeldWriteMeta, HeldReadForUpdate, HeldRemoveObj, HeldRemoveMeta, HeldUnlockWriter,
       HeldLockReader, HeldReadMeta, HeldOpenObj, HeldUnlockReader
       DEF Progress
  <2>3. QED
    BY <2>1, <2>2, HeldCrash, HeldStutter DEF Next
<1>3. QED
  BY <1>1, <1>2, ShapeInvariant, LockIsSafe, PTL DEF Spec, Inv

(* The ETag and the checksums of an object describe its bytes, except while  *)
(* a writer is between the two files and where a fault stopped one there.    *)
THEOREM PairsCoherent == Spec => []CoherentUnlessTorn
BY HeldInvariant, PTL DEF Inv

(* A Get or a copy of an object that nothing has torn has bytes and metadata *)
(* of the same version, whatever writers do at the same time.                *)
THEOREM CoherentReads == Spec => []ReadsAreCoherent
<1>1. Inv => ReadsAreCoherent
  BY DEF Inv, Held, HeldRead, ReadsAreCoherent
<1>2. QED
  BY <1>1, HeldInvariant, PTL

(* A put or a copy that reports success has stored both files as asked.      *)
THEOREM AcksAreStored == Spec => []AckMeansStored
<1>1. Inv => AckMeansStored
  BY DEF Inv, Held, HeldWrite, AckMeansStored
<1>2. QED
  BY <1>1, HeldInvariant, PTL

(* A put whose body is refused leaves the object that was there.             *)
THEOREM RejectionsLeaveObject == Spec => []RejectedLeavesObject
<1>1. Inv => RejectedLeavesObject
  BY DEF Inv, Held, HeldWrite, RejectedLeavesObject, Files
<1>2. QED
  BY <1>1, HeldInvariant, PTL

(* A temp file is that of a call in putLocked, or of one that ends over it.  *)
TempsOfUploads ==
    \A r \in Req : tmp[r] # None => pc[r] \in {"receive", "rename", "cleanup", "unlock"}

LEMMA TempsNext == Shape /\ TempsOfUploads /\ [Next]_vars => TempsOfUploads'
<1>. SUFFICES ASSUME Shape, TempsOfUploads, [Next]_vars PROVE TempsOfUploads'
  OBVIOUS
<1>. USE DEF Goto, End, Return, TempsOfUploads
<1>1. pc \in [Req -> Steps] /\ tmp \in [Req -> Content \cup {None}]
  BY DEF Shape, TypeOK
<1>2. ASSUME NEW r \in Req, NEW c \in Calls, Begin(r, c) PROVE TempsOfUploads'
  BY <1>1, <1>2 DEF Begin
<1>3. ASSUME NEW r \in Req, Stage(r) \/ Receive(r) \/ Reject(r) \/ Rename(r) \/ Cleanup(r)
      PROVE  TempsOfUploads'
  BY <1>1, <1>3 DEF Stage, Receive, Reject, Rename, Cleanup
<1>4. ASSUME NEW r \in Req,
             LockWriter(r) \/ EnterWriter(r) \/ WriteMeta(r) \/ ReadForUpdate(r)
               \/ RemoveObj(r) \/ RemoveMeta(r) \/ UnlockWriter(r)
      PROVE  TempsOfUploads'
  BY <1>1, <1>4
     DEF LockWriter, EnterWriter, WriteMeta, ReadForUpdate, RemoveObj, RemoveMeta, UnlockWriter
<1>5. ASSUME NEW r \in Req, LockReader(r) \/ ReadMeta(r) \/ OpenObj(r) \/ UnlockReader(r)
      PROVE  TempsOfUploads'
  BY <1>1, <1>5 DEF LockReader, ReadMeta, OpenObj, UnlockReader
<1>6. CASE Crash
  BY <1>6 DEF Crash
<1>7. CASE UNCHANGED vars
  BY <1>7 DEF vars
<1>8. QED
  BY <1>2, <1>3, <1>4, <1>5, <1>6, <1>7 DEF Next, Progress

(* A step of r leads to the unlock over a temp file only from the Remove     *)
(* that failed.                                                              *)
EndsOver(r) ==
    pc[r] # "unlock" /\ pc'[r] = "unlock" /\ tmp'[r] # None =>
        pc[r] = "cleanup" /\ out'[r] # "ok" /\ IOErrors

LEMMA EndsOverStep ==
    ASSUME Inv, TempsOfUploads, NEW r \in Req, Progress(r) PROVE \A q \in Req : EndsOver(q)
<1>. USE DEF Goto, End, Return, EndsOver, TempsOfUploads
<1>1. pc \in [Req -> Steps] /\ tmp \in [Req -> Content \cup {None}] /\ out \in [Req -> Outcome]
  BY DEF Inv, Shape, TypeOK
<1>2. CASE Stage(r) \/ Receive(r) \/ Reject(r) \/ Rename(r)
  BY <1>1, <1>2 DEF Stage, Receive, Reject, Rename
<1>3. CASE Cleanup(r)
  <2>1. out[r] # "ok" /\ pc[r] = "cleanup" /\ out' = out
    BY <1>3 DEF Cleanup, Inv, Held, HeldWrite
  <2>2. QED
    BY <1>1, <1>3, <2>1 DEF Cleanup
<1>4. CASE WriteMeta(r) \/ ReadForUpdate(r) \/ RemoveObj(r) \/ RemoveMeta(r)
  BY <1>1, <1>4 DEF WriteMeta, ReadForUpdate, RemoveObj, RemoveMeta
<1>5. CASE LockWriter(r) \/ EnterWriter(r) \/ UnlockWriter(r)
  BY <1>1, <1>5 DEF LockWriter, EnterWriter, FirstStep, UnlockWriter
<1>6. CASE LockReader(r) \/ ReadMeta(r) \/ OpenObj(r) \/ UnlockReader(r)
  BY <1>1, <1>6 DEF LockReader, ReadMeta, OpenObj, UnlockReader
<1>7. QED
  BY <1>2, <1>3, <1>4, <1>5, <1>6 DEF Progress

(* A call that ends over its temp file is one that failed, and whose Remove  *)
(* failed as well: without failing system calls every temp file is renamed   *)
(* or removed before its writer lets go of the lock.                         *)
THEOREM TempsRemoved == Spec => NoTempLeft
<1>1. Init => TempsOfUploads
  BY DEF Init, TempsOfUploads
<1>2. Inv /\ TempsOfUploads /\ [Next]_vars => [\A r \in Req : EndsOver(r)]_vars
  <2>. SUFFICES ASSUME Inv, TempsOfUploads, Next PROVE \A q \in Req : EndsOver(q)
    OBVIOUS
  <2>1. ASSUME NEW r \in Req, NEW c \in Calls, Begin(r, c) PROVE \A q \in Req : EndsOver(q)
    BY <2>1 DEF Begin, Goto, EndsOver, Inv, Shape, TypeOK
  <2>2. CASE Crash
    BY <2>2 DEF Crash, EndsOver
  <2>3. QED
    BY <2>1, <2>2, EndsOverStep DEF Next
<1>3. [][\A r \in Req : EndsOver(r)]_vars <=> NoTempLeft
  BY PTL DEF NoTempLeft, EndsOver
<1>4. QED
  BY <1>1, <1>2, <1>3, TempsNext, HeldInvariant, ShapeInvariant, PTL DEF Spec
===============================================================================
