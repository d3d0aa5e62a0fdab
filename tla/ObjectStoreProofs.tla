--------------------------- MODULE ObjectStoreProofs ---------------------------
(***************************************************************************)
(* Safety of ObjectStore for every number of requests, buckets, keys and   *)
(* bodies, with failing system calls and crashes.  Two invariants, the     *)
(* second of which rests on the first:                                     *)
(*                                                                         *)
(*   Shape       types, and what each program counter says of the call;    *)
(*   LockSafety  the reader/writer lock excludes as it should.             *)
(*                                                                         *)
(* CoherenceProofs builds on both.                                         *)
(***************************************************************************)
EXTENDS ObjectStore, TLAPS

(* What the program counter of a request says about its call and about what  *)
(* it has read and written so far.                                           *)
CallShape(r) ==
    /\ pc[r] = "idle" <=> call[r] = None
    /\ call[r] # None =>
         /\ call[r] \in Calls
         /\ pc[r] \in ReadSteps \cup {"rlock"} => call[r].op \in {"get", "head", "copy"}
         /\ pc[r] = "ropen" => call[r].op \in {"get", "copy"}
         /\ pc[r] = "runlock" /\ out[r] = "none" => call[r].op = "copy"
         /\ pc[r] \in {"lock", "drain", "unlock"} =>
              call[r].op \in {"put", "copy", "delete", "update"}
         /\ pc[r] \in {"stage", "receive", "rename", "cleanup"} => call[r].op \in {"put", "copy"}
         /\ pc[r] = "wmeta" => call[r].op \in {"put", "copy", "update"}
         /\ pc[r] = "rdmeta" => call[r].op = "update"
         /\ pc[r] \in {"rmobj", "rmmeta"} => call[r].op = "delete"

DataShape(r) ==
    /\ got[r].body # Partial
    /\ pc[r] = "idle" => got[r] = NoSnapshot
    /\ pc[r] = "ropen" => got[r].meta # None
    /\ pc[r] = "runlock" /\ out[r] = "none" => got[r].meta # None /\ got[r].body # None
    /\ pc[r] \in {"lock", "drain", "stage", "receive", "rename", "wmeta"} /\ call[r].op = "copy" =>
         got[r].meta # None /\ got[r].body # None
    /\ pc[r] = "wmeta" /\ call[r].op = "update" => got[r].meta # None
    /\ pc[r] = "rename" => tmp[r] = Incoming(r)

Shape ==
    /\ TypeOK
    /\ WholeBodies
    /\ \A r \in Req : CallShape(r) /\ DataShape(r)

-------------------------------------------------------------------------------
(* The arguments of a call have the types that its operation needs. *)
LEMMA CallFacts ==
    ASSUME NEW c \in Calls
    PROVE  /\ c \in Call
           /\ c.op \in Op /\ c.slot \in Slot /\ ReadSlot(c) \in Slot
           /\ c.op = "put" => c.body \in Body /\ c.sum \in Sums /\ c.info \in Info
           /\ c.op = "copy" => c.info \in Info \cup {None}
           /\ c.op = "update" => c.info \in Info
           /\ c # None
<1>1. CASE c \in PutCalls
  BY <1>1, RecordAssumption DEF PutCalls, Call, Op, ReadSlot, Sums
<1>2. CASE c \in CopyCalls
  BY <1>2, RecordAssumption DEF CopyCalls, Call, Op, ReadSlot
<1>3. CASE c \in UpdateCalls
  BY <1>3, RecordAssumption DEF UpdateCalls, Call, Op, ReadSlot
<1>4. CASE c \in PlainCalls
  BY <1>4, RecordAssumption DEF PlainCalls, Call, Op, ReadSlot
<1>5. QED
  BY <1>1, <1>2, <1>3, <1>4 DEF Calls

(* What a writer stores is a body and a metadata file. *)
LEMMA StoredFacts ==
    ASSUME NEW c \in Calls, NEW sbody \in Body \cup {None}, NEW smeta \in Meta \cup {None},
           c.op # "put" => smeta # None,
           c.op = "copy" => sbody # None,
           c.op \in {"put", "copy", "update"}
    PROVE  /\ c.op # "update" => StoredBody(c, sbody) \in Body
           /\ StoredMeta(c, sbody, smeta) \in Meta
<1>1. CASE c.op = "put"
  BY <1>1, CallFacts DEF StoredBody, StoredMeta, Meta
<1>2. CASE c.op = "copy"
  BY <1>2, CallFacts DEF StoredBody, StoredMeta, Meta
<1>3. CASE c.op = "update"
  BY <1>3, CallFacts DEF StoredBody, StoredMeta, Meta
<1>4. QED
  BY <1>1, <1>2, <1>3

-------------------------------------------------------------------------------
(* Shape is inductive. *)
LEMMA ShapeInit == Init => Shape
BY NoneAssumption, PartialAssumption
   DEF Init, Shape, TypeOK, WholeBodies, CallShape, DataShape, LockTypeOK, LockInit,
       NoSnapshot, Snapshot, NoPair, Steps, Outcome, Content

LEMMA WritingFacts ==
    ASSUME Shape, NEW r \in Req
    PROVE  /\ got[r] \in Snapshot
           /\ got[r].body \in Body \cup {None} /\ got[r].meta \in Meta \cup {None}
           /\ pc[r] \in {"stage", "receive", "rename"} => Incoming(r) \in Body
           /\ pc[r] = "wmeta" => NewMeta(r) \in Meta
<1>1. /\ got[r] \in Snapshot
      /\ got[r].body \in Body \cup {None} /\ got[r].meta \in Meta \cup {None}
  BY DEF Shape, TypeOK, Snapshot, Content, DataShape
<1>2. ASSUME pc[r] \in {"stage", "receive", "rename"} PROVE Incoming(r) \in Body
  <2>1. call[r] \in Calls /\ call[r].op \in {"put", "copy"}
    BY <1>2 DEF Shape, CallShape
  <2>2. call[r].op = "put" => call[r].body \in Body
    BY <2>1, CallFacts
  <2>3. call[r].op = "copy" => got[r].body # None
    BY <1>2 DEF Shape, DataShape
  <2>4. QED
    BY <1>1, <2>1, <2>2, <2>3 DEF Incoming, StoredBody
<1>3. ASSUME pc[r] = "wmeta" PROVE NewMeta(r) \in Meta
  <2>1. call[r] \in Calls /\ call[r].op \in {"put", "copy", "update"}
    BY <1>3 DEF Shape, CallShape
  <2>2. /\ call[r].op # "put" => got[r].meta # None
        /\ call[r].op = "copy" => got[r].body # None
    BY <1>3, <2>1 DEF Shape, DataShape
  <2>3. QED
    BY <1>1, <2>1, <2>2, StoredFacts DEF NewMeta
<1>4. QED
  BY <1>1, <1>2, <1>3

LEMMA ShapeBegin ==
    ASSUME Shape, NEW r \in Req, NEW c \in Calls, Begin(r, c)
    PROVE  Shape'
<1>. USE DEF Shape, Begin, Goto
<1>1. TypeOK'
  BY CallFacts DEF TypeOK, LockTypeOK, Steps
<1>2. WholeBodies'
  BY DEF WholeBodies
<1>3. ASSUME NEW q \in Req PROVE CallShape(q)' /\ DataShape(q)'
  <2>1. CASE q = r
    BY <2>1, CallFacts, NoneAssumption, PartialAssumption
       DEF TypeOK, CallShape, DataShape, NoSnapshot, ReadSteps, Op
  <2>2. CASE q # r
    BY <2>2 DEF TypeOK, CallShape, DataShape, Incoming
  <2>3. QED
    BY <2>1, <2>2
<1>4. QED
  BY <1>1, <1>2, <1>3

LEMMA ShapeLockWriter ==
    ASSUME Shape, NEW r \in Req, LockWriter(r)
    PROVE  Shape'
<1>. USE DEF Shape, LockWriter, Goto, End, Announce, LockTypeOK
<1>1. call[r] \in Calls
  BY DEF CallShape
<1>2. /\ Target(r) \in Slot /\ Source(r) \in Slot
      /\ Target(r)[1] \in Bucket /\ Source(r)[1] \in Bucket
  BY <1>1, CallFacts DEF Target, Source, Slot
<1>3. TypeOK'
  <2>1. LockTypeOK'
    BY <1>2 DEF TypeOK, LockTypeOK
  <2>2. obj' \in [Slot -> Content \cup {None}] /\ meta' \in [Slot -> Meta \cup {None}]
    BY <1>2 DEF TypeOK
  <2>3. tmp' \in [Req -> Content \cup {None}]
    BY DEF TypeOK, Content
  <2>4. pc' \in [Req -> Steps] /\ out' \in [Req -> Outcome]
    BY DEF TypeOK, Steps, WriteSteps, ReadSteps, Outcome
  <2>5. call' \in [Req -> Call \cup {None}] /\ got' \in [Req -> Snapshot]
    BY <1>2 DEF TypeOK, Snapshot, NoSnapshot
  <2>6. /\ torn' \in SUBSET Slot
        /\ before' \in [Req -> [obj : Content \cup {None}, meta : Meta \cup {None}]]
    BY <1>2 DEF TypeOK, NoPair
  <2>7. QED
    BY <2>1, <2>2, <2>3, <2>4, <2>5, <2>6 DEF TypeOK
<1>4. WholeBodies'
  BY <1>2, PartialAssumption DEF WholeBodies, TypeOK
<1>5. ASSUME NEW q \in Req PROVE CallShape(q)' /\ DataShape(q)'
  <2>1. CASE q = r
    BY <2>1, <1>1, CallFacts, NoneAssumption, PartialAssumption
       DEF TypeOK, CallShape, DataShape, NoSnapshot, Snapshot, Op, ReadSteps, Incoming
  <2>2. CASE q # r
    BY <2>2 DEF TypeOK, CallShape, DataShape, Incoming
  <2>3. QED
    BY <2>1, <2>2
<1>6. QED
  BY <1>3, <1>4, <1>5

LEMMA ShapeEnterWriter ==
    ASSUME Shape, NEW r \in Req, EnterWriter(r)
    PROVE  Shape'
<1>. USE DEF Shape, EnterWriter, Goto, End, Exclusive, FirstStep
<1>1. call[r] \in Calls
  BY DEF CallShape
<1>2. /\ Target(r) \in Slot /\ Source(r) \in Slot
      /\ Target(r)[1] \in Bucket /\ Source(r)[1] \in Bucket
  BY <1>1, CallFacts DEF Target, Source, Slot
<1>3. TypeOK'
  <2>1. LockTypeOK'
    BY <1>2 DEF TypeOK, LockTypeOK
  <2>2. obj' \in [Slot -> Content \cup {None}] /\ meta' \in [Slot -> Meta \cup {None}]
    BY <1>2 DEF TypeOK
  <2>3. tmp' \in [Req -> Content \cup {None}]
    BY DEF TypeOK, Content
  <2>4. pc' \in [Req -> Steps] /\ out' \in [Req -> Outcome]
    BY DEF TypeOK, Steps, WriteSteps, ReadSteps, Outcome
  <2>5. call' \in [Req -> Call \cup {None}] /\ got' \in [Req -> Snapshot]
    BY <1>2 DEF TypeOK, Snapshot, NoSnapshot
  <2>6. /\ torn' \in SUBSET Slot
        /\ before' \in [Req -> [obj : Content \cup {None}, meta : Meta \cup {None}]]
    BY <1>2 DEF TypeOK, NoPair
  <2>7. QED
    BY <2>1, <2>2, <2>3, <2>4, <2>5, <2>6 DEF TypeOK
<1>4. WholeBodies'
  BY <1>2, PartialAssumption DEF WholeBodies, TypeOK
<1>5. ASSUME NEW q \in Req PROVE CallShape(q)' /\ DataShape(q)'
  <2>1. CASE q = r
    BY <2>1, <1>1, CallFacts, NoneAssumption, PartialAssumption
       DEF TypeOK, CallShape, DataShape, NoSnapshot, Snapshot, Op, ReadSteps, Incoming
  <2>2. CASE q # r
    BY <2>2 DEF TypeOK, CallShape, DataShape, Incoming
  <2>3. QED
    BY <2>1, <2>2
<1>6. QED
  BY <1>3, <1>4, <1>5

LEMMA ShapeStage ==
    ASSUME Shape, NEW r \in Req, Stage(r)
    PROVE  Shape'
<1>. USE DEF Shape, Stage, Goto, End
<1>1. call[r] \in Calls
  BY DEF CallShape
<1>2. /\ Target(r) \in Slot /\ Source(r) \in Slot
      /\ Target(r)[1] \in Bucket /\ Source(r)[1] \in Bucket
  BY <1>1, CallFacts DEF Target, Source, Slot
<1>3. TypeOK'
  <2>1. LockTypeOK'
    BY <1>2 DEF TypeOK, LockTypeOK
  <2>2. obj' \in [Slot -> Content \cup {None}] /\ meta' \in [Slot -> Meta \cup {None}]
    BY <1>2 DEF TypeOK
  <2>3. tmp' \in [Req -> Content \cup {None}]
    BY DEF TypeOK, Content
  <2>4. pc' \in [Req -> Steps] /\ out' \in [Req -> Outcome]
    BY DEF TypeOK, Steps, WriteSteps, ReadSteps, Outcome
  <2>5. call' \in [Req -> Call \cup {None}] /\ got' \in [Req -> Snapshot]
    BY <1>2 DEF TypeOK, Snapshot, NoSnapshot
  <2>6. /\ torn' \in SUBSET Slot
        /\ before' \in [Req -> [obj : Content \cup {None}, meta : Meta \cup {None}]]
    BY <1>2 DEF TypeOK, NoPair
  <2>7. QED
    BY <2>1, <2>2, <2>3, <2>4, <2>5, <2>6 DEF TypeOK
<1>4. WholeBodies'
  BY <1>2, PartialAssumption DEF WholeBodies, TypeOK
<1>5. ASSUME NEW q \in Req PROVE CallShape(q)' /\ DataShape(q)'
  <2>1. CASE q = r
    BY <2>1, <1>1, CallFacts, NoneAssumption, PartialAssumption
       DEF TypeOK, CallShape, DataShape, NoSnapshot, Snapshot, Op, ReadSteps, Incoming
  <2>2. CASE q # r
    BY <2>2 DEF TypeOK, CallShape, DataShape, Incoming
  <2>3. QED
    BY <2>1, <2>2
<1>6. QED
  BY <1>3, <1>4, <1>5

LEMMA ShapeReceive ==
    ASSUME Shape, NEW r \in Req, Receive(r)
    PROVE  Shape'
<1>. USE DEF Shape, Receive, Goto, End
<1>1. call[r] \in Calls
  BY DEF CallShape
<1>2. /\ Target(r) \in Slot /\ Source(r) \in Slot
      /\ Target(r)[1] \in Bucket /\ Source(r)[1] \in Bucket
  BY <1>1, CallFacts DEF Target, Source, Slot
<1>3. TypeOK'
  <2>1. LockTypeOK'
    BY <1>2 DEF TypeOK, LockTypeOK
  <2>2. obj' \in [Slot -> Content \cup {None}] /\ meta' \in [Slot -> Meta \cup {None}]
    BY <1>2 DEF TypeOK
  <2>3. tmp' \in [Req -> Content \cup {None}]
    BY WritingFacts DEF TypeOK, Content
  <2>4. pc' \in [Req -> Steps] /\ out' \in [Req -> Outcome]
    BY DEF TypeOK, Steps, WriteSteps, ReadSteps, Outcome
  <2>5. call' \in [Req -> Call \cup {None}] /\ got' \in [Req -> Snapshot]
    BY <1>2 DEF TypeOK, Snapshot, NoSnapshot
  <2>6. /\ torn' \in SUBSET Slot
        /\ before' \in [Req -> [obj : Content \cup {None}, meta : Meta \cup {None}]]
    BY <1>2 DEF TypeOK, NoPair
  <2>7. QED
    BY <2>1, <2>2, <2>3, <2>4, <2>5, <2>6 DEF TypeOK
<1>4. WholeBodies'
  BY <1>2, PartialAssumption DEF WholeBodies, TypeOK
<1>5. ASSUME NEW q \in Req PROVE CallShape(q)' /\ DataShape(q)'
  <2>1. CASE q = r
    BY <2>1, <1>1, CallFacts, NoneAssumption, PartialAssumption
       DEF TypeOK, CallShape, DataShape, NoSnapshot, Snapshot, Op, ReadSteps, Incoming
  <2>2. CASE q # r
    BY <2>2 DEF TypeOK, CallShape, DataShape, Incoming
  <2>3. QED
    BY <2>1, <2>2
<1>6. QED
  BY <1>3, <1>4, <1>5

LEMMA ShapeReject ==
    ASSUME Shape, NEW r \in Req, Reject(r)
    PROVE  Shape'
<1>. USE DEF Shape, Reject, Goto, End
<1>1. call[r] \in Calls
  BY DEF CallShape
<1>2. /\ Target(r) \in Slot /\ Source(r) \in Slot
      /\ Target(r)[1] \in Bucket /\ Source(r)[1] \in Bucket
  BY <1>1, CallFacts DEF Target, Source, Slot
<1>3. TypeOK'
  <2>1. LockTypeOK'
    BY <1>2 DEF TypeOK, LockTypeOK
  <2>2. obj' \in [Slot -> Content \cup {None}] /\ meta' \in [Slot -> Meta \cup {None}]
    BY <1>2 DEF TypeOK
  <2>3. tmp' \in [Req -> Content \cup {None}]
    BY DEF TypeOK, Content
  <2>4. pc' \in [Req -> Steps] /\ out' \in [Req -> Outcome]
    BY DEF TypeOK, Steps, WriteSteps, ReadSteps, Outcome
  <2>5. call' \in [Req -> Call \cup {None}] /\ got' \in [Req -> Snapshot]
    BY <1>2 DEF TypeOK, Snapshot, NoSnapshot
  <2>6. /\ torn' \in SUBSET Slot
        /\ before' \in [Req -> [obj : Content \cup {None}, meta : Meta \cup {None}]]
    BY <1>2 DEF TypeOK, NoPair
  <2>7. QED
    BY <2>1, <2>2, <2>3, <2>4, <2>5, <2>6 DEF TypeOK
<1>4. WholeBodies'
  BY <1>2, PartialAssumption DEF WholeBodies, TypeOK
<1>5. ASSUME NEW q \in Req PROVE CallShape(q)' /\ DataShape(q)'
  <2>1. CASE q = r
    BY <2>1, <1>1, CallFacts, NoneAssumption, PartialAssumption
       DEF TypeOK, CallShape, DataShape, NoSnapshot, Snapshot, Op, ReadSteps, Incoming
  <2>2. CASE q # r
    BY <2>2 DEF TypeOK, CallShape, DataShape, Incoming
  <2>3. QED
    BY <2>1, <2>2
<1>6. QED
  BY <1>3, <1>4, <1>5

LEMMA ShapeRename ==
    ASSUME Shape, NEW r \in Req, Rename(r)
    PROVE  Shape'
<1>. USE DEF Shape, Rename, Goto, End
<1>1. call[r] \in Calls
  BY DEF CallShape
<1>2. /\ Target(r) \in Slot /\ Source(r) \in Slot
      /\ Target(r)[1] \in Bucket /\ Source(r)[1] \in Bucket
  BY <1>1, CallFacts DEF Target, Source, Slot
<1>3. TypeOK'
  <2>1. LockTypeOK'
    BY <1>2 DEF TypeOK, LockTypeOK
  <2>2. obj' \in [Slot -> Content \cup {None}] /\ meta' \in [Slot -> Meta \cup {None}]
    BY <1>2 DEF TypeOK
  <2>3. tmp' \in [Req -> Content \cup {None}]
    BY DEF TypeOK, Content
  <2>4. pc' \in [Req -> Steps] /\ out' \in [Req -> Outcome]
    BY DEF TypeOK, Steps, WriteSteps, ReadSteps, Outcome
  <2>5. call' \in [Req -> Call \cup {None}] /\ got' \in [Req -> Snapshot]
    BY <1>2 DEF TypeOK, Snapshot, NoSnapshot
  <2>6. /\ torn' \in SUBSET Slot
        /\ before' \in [Req -> [obj : Content \cup {None}, meta : Meta \cup {None}]]
    BY <1>2 DEF TypeOK, NoPair
  <2>7. QED
    BY <2>1, <2>2, <2>3, <2>4, <2>5, <2>6 DEF TypeOK
<1>4. WholeBodies'
  <2>1. tmp[r] = Incoming(r) /\ Incoming(r) \in Body
    BY WritingFacts DEF DataShape
  <2>2. QED
    BY <1>2, <2>1, PartialAssumption DEF WholeBodies, TypeOK
<1>5. ASSUME NEW q \in Req PROVE CallShape(q)' /\ DataShape(q)'
  <2>1. CASE q = r
    BY <2>1, <1>1, CallFacts, NoneAssumption, PartialAssumption
       DEF TypeOK, CallShape, DataShape, NoSnapshot, Snapshot, Op, ReadSteps, Incoming
  <2>2. CASE q # r
    BY <2>2 DEF TypeOK, CallShape, DataShape, Incoming
  <2>3. QED
    BY <2>1, <2>2
<1>6. QED
  BY <1>3, <1>4, <1>5

LEMMA ShapeCleanup ==
    ASSUME Shape, NEW r \in Req, Cleanup(r)
    PROVE  Shape'
<1>. USE DEF Shape, Cleanup, Goto, End
<1>1. call[r] \in Calls
  BY DEF CallShape
<1>2. /\ Target(r) \in Slot /\ Source(r) \in Slot
      /\ Target(r)[1] \in Bucket /\ Source(r)[1] \in Bucket
  BY <1>1, CallFacts DEF Target, Source, Slot
<1>3. TypeOK'
  <2>1. LockTypeOK'
    BY <1>2 DEF TypeOK, LockTypeOK
  <2>2. obj' \in [Slot -> Content \cup {None}] /\ meta' \in [Slot -> Meta \cup {None}]
    BY <1>2 DEF TypeOK
  <2>3. tmp' \in [Req -> Content \cup {None}]
    BY DEF TypeOK, Content
  <2>4. pc' \in [Req -> Steps] /\ out' \in [Req -> Outcome]
    BY DEF TypeOK, Steps, WriteSteps, ReadSteps, Outcome
  <2>5. call' \in [Req -> Call \cup {None}] /\ got' \in [Req -> Snapshot]
    BY <1>2 DEF TypeOK, Snapshot, NoSnapshot
  <2>6. /\ torn' \in SUBSET Slot
        /\ before' \in [Req -> [obj : Content \cup {None}, meta : Meta \cup {None}]]
    BY <1>2 DEF TypeOK, NoPair
  <2>7. QED
    BY <2>1, <2>2, <2>3, <2>4, <2>5, <2>6 DEF TypeOK
<1>4. WholeBodies'
  BY <1>2, PartialAssumption DEF WholeBodies, TypeOK
<1>5. ASSUME NEW q \in Req PROVE CallShape(q)' /\ DataShape(q)'
  <2>1. CASE q = r
    BY <2>1, <1>1, CallFacts, NoneAssumption, PartialAssumption
       DEF TypeOK, CallShape, DataShape, NoSnapshot, Snapshot, Op, ReadSteps, Incoming
  <2>2. CASE q # r
    BY <2>2 DEF TypeOK, CallShape, DataShape, Incoming
  <2>3. QED
    BY <2>1, <2>2
<1>6. QED
  BY <1>3, <1>4, <1>5

LEMMA ShapeWriteMeta ==
    ASSUME Shape, NEW r \in Req, WriteMeta(r)
    PROVE  Shape'
<1>. USE DEF Shape, WriteMeta, Goto, End, TornAfter
<1>1. call[r] \in Calls
  BY DEF CallShape
<1>2. /\ Target(r) \in Slot /\ Source(r) \in Slot
      /\ Target(r)[1] \in Bucket /\ Source(r)[1] \in Bucket
  BY <1>1, CallFacts DEF Target, Source, Slot
<1>3. TypeOK'
  <2>1. LockTypeOK'
    BY <1>2 DEF TypeOK, LockTypeOK
  <2>2. obj' \in [Slot -> Content \cup {None}] /\ meta' \in [Slot -> Meta \cup {None}]
    BY <1>2, WritingFacts DEF TypeOK
  <2>3. tmp' \in [Req -> Content \cup {None}]
    BY DEF TypeOK, Content
  <2>4. pc' \in [Req -> Steps] /\ out' \in [Req -> Outcome]
    BY DEF TypeOK, Steps, WriteSteps, ReadSteps, Outcome
  <2>5. call' \in [Req -> Call \cup {None}] /\ got' \in [Req -> Snapshot]
    BY <1>2 DEF TypeOK, Snapshot, NoSnapshot
  <2>6. /\ torn' \in SUBSET Slot
        /\ before' \in [Req -> [obj : Content \cup {None}, meta : Meta \cup {None}]]
    BY <1>2 DEF TypeOK, NoPair
  <2>7. QED
    BY <2>1, <2>2, <2>3, <2>4, <2>5, <2>6 DEF TypeOK
<1>4. WholeBodies'
  BY <1>2, PartialAssumption DEF WholeBodies, TypeOK
<1>5. ASSUME NEW q \in Req PROVE CallShape(q)' /\ DataShape(q)'
  <2>1. CASE q = r
    BY <2>1, <1>1, CallFacts, NoneAssumption, PartialAssumption
       DEF TypeOK, CallShape, DataShape, NoSnapshot, Snapshot, Op, ReadSteps, Incoming
  <2>2. CASE q # r
    BY <2>2 DEF TypeOK, CallShape, DataShape, Incoming
  <2>3. QED
    BY <2>1, <2>2
<1>6. QED
  BY <1>3, <1>4, <1>5

LEMMA ShapeReadForUpdate ==
    ASSUME Shape, NEW r \in Req, ReadForUpdate(r)
    PROVE  Shape'
<1>. USE DEF Shape, ReadForUpdate, Goto, End
<1>1. call[r] \in Calls
  BY DEF CallShape
<1>2. /\ Target(r) \in Slot /\ Source(r) \in Slot
      /\ Target(r)[1] \in Bucket /\ Source(r)[1] \in Bucket
  BY <1>1, CallFacts DEF Target, Source, Slot
<1>3. TypeOK'
  <2>1. LockTypeOK'
    BY <1>2 DEF TypeOK, LockTypeOK
  <2>2. obj' \in [Slot -> Content \cup {None}] /\ meta' \in [Slot -> Meta \cup {None}]
    BY <1>2 DEF TypeOK
  <2>3. tmp' \in [Req -> Content \cup {None}]
    BY DEF TypeOK, Content
  <2>4. pc' \in [Req -> Steps] /\ out' \in [Req -> Outcome]
    BY DEF TypeOK, Steps, WriteSteps, ReadSteps, Outcome
  <2>5. call' \in [Req -> Call \cup {None}] /\ got' \in [Req -> Snapshot]
    <3>1. meta[Target(r)] \in Meta \cup {None}
      BY <1>2 DEF TypeOK
    <3>2. [got[r] EXCEPT !.meta = meta[Target(r)]] \in Snapshot
      BY <3>1, WritingFacts DEF Snapshot
    <3>3. got' = got \/ got' = [got EXCEPT ![r] = [@ EXCEPT !.meta = meta[Target(r)]]]
      OBVIOUS
    <3>4. QED
      BY <3>2, <3>3 DEF TypeOK
  <2>6. /\ torn' \in SUBSET Slot
        /\ before' \in [Req -> [obj : Content \cup {None}, meta : Meta \cup {None}]]
    BY <1>2 DEF TypeOK, NoPair
  <2>7. QED
    BY <2>1, <2>2, <2>3, <2>4, <2>5, <2>6 DEF TypeOK
<1>4. WholeBodies'
  BY <1>2, PartialAssumption DEF WholeBodies, TypeOK
<1>5. ASSUME NEW q \in Req PROVE CallShape(q)' /\ DataShape(q)'
  <2>1. CASE q = r
    BY <2>1, <1>1, CallFacts, NoneAssumption, PartialAssumption
       DEF TypeOK, CallShape, DataShape, NoSnapshot, Snapshot, Op, ReadSteps, Incoming
  <2>2. CASE q # r
    BY <2>2 DEF TypeOK, CallShape, DataShape, Incoming
  <2>3. QED
    BY <2>1, <2>2
<1>6. QED
  BY <1>3, <1>4, <1>5

LEMMA ShapeRemoveObj ==
    ASSUME Shape, NEW r \in Req, RemoveObj(r)
    PROVE  Shape'
<1>. USE DEF Shape, RemoveObj, Goto, End
<1>1. call[r] \in Calls
  BY DEF CallShape
<1>2. /\ Target(r) \in Slot /\ Source(r) \in Slot
      /\ Target(r)[1] \in Bucket /\ Source(r)[1] \in Bucket
  BY <1>1, CallFacts DEF Target, Source, Slot
<1>3. TypeOK'
  <2>1. LockTypeOK'
    BY <1>2 DEF TypeOK, LockTypeOK
  <2>2. obj' \in [Slot -> Content \cup {None}] /\ meta' \in [Slot -> Meta \cup {None}]
    BY <1>2 DEF TypeOK
  <2>3. tmp' \in [Req -> Content \cup {None}]
    BY DEF TypeOK, Content
  <2>4. pc' \in [Req -> Steps] /\ out' \in [Req -> Outcome]
    BY DEF TypeOK, Steps, WriteSteps, ReadSteps, Outcome
  <2>5. call' \in [Req -> Call \cup {None}] /\ got' \in [Req -> Snapshot]
    BY <1>2 DEF TypeOK, Snapshot, NoSnapshot
  <2>6. /\ torn' \in SUBSET Slot
        /\ before' \in [Req -> [obj : Content \cup {None}, meta : Meta \cup {None}]]
    BY <1>2 DEF TypeOK, NoPair
  <2>7. QED
    BY <2>1, <2>2, <2>3, <2>4, <2>5, <2>6 DEF TypeOK
<1>4. WholeBodies'
  BY <1>2, PartialAssumption DEF WholeBodies, TypeOK
<1>5. ASSUME NEW q \in Req PROVE CallShape(q)' /\ DataShape(q)'
  <2>1. CASE q = r
    BY <2>1, <1>1, CallFacts, NoneAssumption, PartialAssumption
       DEF TypeOK, CallShape, DataShape, NoSnapshot, Snapshot, Op, ReadSteps, Incoming
  <2>2. CASE q # r
    BY <2>2 DEF TypeOK, CallShape, DataShape, Incoming
  <2>3. QED
    BY <2>1, <2>2
<1>6. QED
  BY <1>3, <1>4, <1>5

LEMMA ShapeRemoveMeta ==
    ASSUME Shape, NEW r \in Req, RemoveMeta(r)
    PROVE  Shape'
<1>. USE DEF Shape, RemoveMeta, Goto, End
<1>1. call[r] \in Calls
  BY DEF CallShape
<1>2. /\ Target(r) \in Slot /\ Source(r) \in Slot
      /\ Target(r)[1] \in Bucket /\ Source(r)[1] \in Bucket
  BY <1>1, CallFacts DEF Target, Source, Slot
<1>3. TypeOK'
  <2>1. LockTypeOK'
    BY <1>2 DEF TypeOK, LockTypeOK
  <2>2. obj' \in [Slot -> Content \cup {None}] /\ meta' \in [Slot -> Meta \cup {None}]
    BY <1>2 DEF TypeOK
  <2>3. tmp' \in [Req -> Content \cup {None}]
    BY DEF TypeOK, Content
  <2>4. pc' \in [Req -> Steps] /\ out' \in [Req -> Outcome]
    BY DEF TypeOK, Steps, WriteSteps, ReadSteps, Outcome
  <2>5. call' \in [Req -> Call \cup {None}] /\ got' \in [Req -> Snapshot]
    BY <1>2 DEF TypeOK, Snapshot, NoSnapshot
  <2>6. /\ torn' \in SUBSET Slot
        /\ before' \in [Req -> [obj : Content \cup {None}, meta : Meta \cup {None}]]
    BY <1>2 DEF TypeOK, NoPair
  <2>7. QED
    BY <2>1, <2>2, <2>3, <2>4, <2>5, <2>6 DEF TypeOK
<1>4. WholeBodies'
  BY <1>2, PartialAssumption DEF WholeBodies, TypeOK
<1>5. ASSUME NEW q \in Req PROVE CallShape(q)' /\ DataShape(q)'
  <2>1. CASE q = r
    BY <2>1, <1>1, CallFacts, NoneAssumption, PartialAssumption
       DEF TypeOK, CallShape, DataShape, NoSnapshot, Snapshot, Op, ReadSteps, Incoming
  <2>2. CASE q # r
    BY <2>2 DEF TypeOK, CallShape, DataShape, Incoming
  <2>3. QED
    BY <2>1, <2>2
<1>6. QED
  BY <1>3, <1>4, <1>5

LEMMA ShapeUnlockWriter ==
    ASSUME Shape, NEW r \in Req, UnlockWriter(r)
    PROVE  Shape'
<1>. USE DEF Shape, UnlockWriter, Goto, End, Unlock, Return
<1>1. call[r] \in Calls
  BY DEF CallShape
<1>2. /\ Target(r) \in Slot /\ Source(r) \in Slot
      /\ Target(r)[1] \in Bucket /\ Source(r)[1] \in Bucket
  BY <1>1, CallFacts DEF Target, Source, Slot
<1>3. TypeOK'
  <2>1. LockTypeOK'
    BY <1>2 DEF TypeOK, LockTypeOK
  <2>2. obj' \in [Slot -> Content \cup {None}] /\ meta' \in [Slot -> Meta \cup {None}]
    BY <1>2 DEF TypeOK
  <2>3. tmp' \in [Req -> Content \cup {None}]
    BY DEF TypeOK, Content
  <2>4. pc' \in [Req -> Steps] /\ out' \in [Req -> Outcome]
    BY DEF TypeOK, Steps, WriteSteps, ReadSteps, Outcome
  <2>5. call' \in [Req -> Call \cup {None}] /\ got' \in [Req -> Snapshot]
    BY <1>2 DEF TypeOK, Snapshot, NoSnapshot
  <2>6. /\ torn' \in SUBSET Slot
        /\ before' \in [Req -> [obj : Content \cup {None}, meta : Meta \cup {None}]]
    BY <1>2 DEF TypeOK, NoPair
  <2>7. QED
    BY <2>1, <2>2, <2>3, <2>4, <2>5, <2>6 DEF TypeOK
<1>4. WholeBodies'
  BY <1>2, PartialAssumption DEF WholeBodies, TypeOK
<1>5. ASSUME NEW q \in Req PROVE CallShape(q)' /\ DataShape(q)'
  <2>1. CASE q = r
    BY <2>1, <1>1, CallFacts, NoneAssumption, PartialAssumption
       DEF TypeOK, CallShape, DataShape, NoSnapshot, Snapshot, Op, ReadSteps, Incoming
  <2>2. CASE q # r
    BY <2>2 DEF TypeOK, CallShape, DataShape, Incoming
  <2>3. QED
    BY <2>1, <2>2
<1>6. QED
  BY <1>3, <1>4, <1>5

LEMMA ShapeLockReader ==
    ASSUME Shape, NEW r \in Req, LockReader(r)
    PROVE  Shape'
<1>. USE DEF Shape, LockReader, Goto, End, RLock
<1>1. call[r] \in Calls
  BY DEF CallShape
<1>2. /\ Target(r) \in Slot /\ Source(r) \in Slot
      /\ Target(r)[1] \in Bucket /\ Source(r)[1] \in Bucket
  BY <1>1, CallFacts DEF Target, Source, Slot
<1>3. TypeOK'
  <2>1. LockTypeOK'
    <3>1. CASE writer[Source(r)[1]] = None
      BY <1>2, <3>1, SMTT(30) DEF TypeOK, LockTypeOK
    <3>2. CASE writer[Source(r)[1]] # None
      BY <1>2, <3>2 DEF TypeOK, LockTypeOK
    <3>3. QED
      BY <3>1, <3>2
  <2>2. obj' \in [Slot -> Content \cup {None}] /\ meta' \in [Slot -> Meta \cup {None}]
    BY <1>2 DEF TypeOK
  <2>3. tmp' \in [Req -> Content \cup {None}]
    BY DEF TypeOK, Content
  <2>4. pc' \in [Req -> Steps] /\ out' \in [Req -> Outcome]
    BY DEF TypeOK, Steps, WriteSteps, ReadSteps, Outcome
  <2>5. call' \in [Req -> Call \cup {None}] /\ got' \in [Req -> Snapshot]
    BY <1>2 DEF TypeOK, Snapshot, NoSnapshot
  <2>6. /\ torn' \in SUBSET Slot
        /\ before' \in [Req -> [obj : Content \cup {None}, meta : Meta \cup {None}]]
    BY <1>2 DEF TypeOK, NoPair
  <2>7. QED
    BY <2>1, <2>2, <2>3, <2>4, <2>5, <2>6 DEF TypeOK
<1>4. WholeBodies'
  BY <1>2, PartialAssumption DEF WholeBodies, TypeOK
<1>5. ASSUME NEW q \in Req PROVE CallShape(q)' /\ DataShape(q)'
  <2>1. CASE q = r
    BY <2>1, <1>1, CallFacts, NoneAssumption, PartialAssumption
       DEF TypeOK, CallShape, DataShape, NoSnapshot, Snapshot, Op, ReadSteps, Incoming
  <2>2. CASE q # r
    BY <2>2 DEF TypeOK, CallShape, DataShape, Incoming
  <2>3. QED
    BY <2>1, <2>2
<1>6. QED
  BY <1>3, <1>4, <1>5

LEMMA ShapeReadMeta ==
    ASSUME Shape, NEW r \in Req, ReadMeta(r)
    PROVE  Shape'
<1>. USE DEF Shape, ReadMeta, Goto, End
<1>1. call[r] \in Calls
  BY DEF CallShape
<1>2. /\ Target(r) \in Slot /\ Source(r) \in Slot
      /\ Target(r)[1] \in Bucket /\ Source(r)[1] \in Bucket
  BY <1>1, CallFacts DEF Target, Source, Slot
<1>3. TypeOK'
  <2>1. LockTypeOK'
    BY <1>2 DEF TypeOK, LockTypeOK
  <2>2. obj' \in [Slot -> Content \cup {None}] /\ meta' \in [Slot -> Meta \cup {None}]
    BY <1>2 DEF TypeOK
  <2>3. tmp' \in [Req -> Content \cup {None}]
    BY DEF TypeOK, Content
  <2>4. pc' \in [Req -> Steps] /\ out' \in [Req -> Outcome]
    BY DEF TypeOK, Steps, WriteSteps, ReadSteps, Outcome
  <2>5. call' \in [Req -> Call \cup {None}] /\ got' \in [Req -> Snapshot]
    <3>1. meta[Source(r)] \in Meta \cup {None}
      BY <1>2 DEF TypeOK
    <3>2. [got[r] EXCEPT !.meta = meta[Source(r)]] \in Snapshot
      BY <3>1, WritingFacts DEF Snapshot
    <3>3. got' = got \/ got' = [got EXCEPT ![r] = [@ EXCEPT !.meta = meta[Source(r)]]]
      OBVIOUS
    <3>4. QED
      BY <3>2, <3>3 DEF TypeOK
  <2>6. /\ torn' \in SUBSET Slot
        /\ before' \in [Req -> [obj : Content \cup {None}, meta : Meta \cup {None}]]
    BY <1>2 DEF TypeOK, NoPair
  <2>7. QED
    BY <2>1, <2>2, <2>3, <2>4, <2>5, <2>6 DEF TypeOK
<1>4. WholeBodies'
  BY <1>2, PartialAssumption DEF WholeBodies, TypeOK
<1>5. ASSUME NEW q \in Req PROVE CallShape(q)' /\ DataShape(q)'
  <2>1. CASE q = r
    BY <2>1, <1>1, CallFacts, NoneAssumption, PartialAssumption
       DEF TypeOK, CallShape, DataShape, NoSnapshot, Snapshot, Op, ReadSteps, Incoming
  <2>2. CASE q # r
    BY <2>2 DEF TypeOK, CallShape, DataShape, Incoming
  <2>3. QED
    BY <2>1, <2>2
<1>6. QED
  BY <1>3, <1>4, <1>5

LEMMA ShapeOpenObj ==
    ASSUME Shape, NEW r \in Req, OpenObj(r)
    PROVE  Shape'
<1>. USE DEF Shape, OpenObj, Goto, End
<1>1. call[r] \in Calls
  BY DEF CallShape
<1>2. /\ Target(r) \in Slot /\ Source(r) \in Slot
      /\ Target(r)[1] \in Bucket /\ Source(r)[1] \in Bucket
  BY <1>1, CallFacts DEF Target, Source, Slot
<1>3. TypeOK'
  <2>1. LockTypeOK'
    BY <1>2 DEF TypeOK, LockTypeOK
  <2>2. obj' \in [Slot -> Content \cup {None}] /\ meta' \in [Slot -> Meta \cup {None}]
    BY <1>2 DEF TypeOK
  <2>3. tmp' \in [Req -> Content \cup {None}]
    BY DEF TypeOK, Content
  <2>4. pc' \in [Req -> Steps] /\ out' \in [Req -> Outcome]
    BY DEF TypeOK, Steps, WriteSteps, ReadSteps, Outcome
  <2>5. call' \in [Req -> Call \cup {None}] /\ got' \in [Req -> Snapshot]
    <3>1. obj[Source(r)] \in Content \cup {None}
      BY <1>2 DEF TypeOK
    <3>2. [got[r] EXCEPT !.body = obj[Source(r)], !.torn = Source(r) \in torn] \in Snapshot
      <4>1. (Source(r) \in torn) \in BOOLEAN
        OBVIOUS
      <4>2. QED
        BY <3>1, <4>1, WritingFacts, Zenon DEF Snapshot
    <3>3. \/ got' = got
          \/ got' = [got EXCEPT ![r] =
                       [@ EXCEPT !.body = obj[Source(r)], !.torn = Source(r) \in torn]]
      OBVIOUS
    <3>4. QED
      BY <3>2, <3>3 DEF TypeOK
  <2>6. /\ torn' \in SUBSET Slot
        /\ before' \in [Req -> [obj : Content \cup {None}, meta : Meta \cup {None}]]
    BY <1>2 DEF TypeOK, NoPair
  <2>7. QED
    BY <2>1, <2>2, <2>3, <2>4, <2>5, <2>6 DEF TypeOK
<1>4. WholeBodies'
  BY <1>2, PartialAssumption DEF WholeBodies, TypeOK
<1>5. ASSUME NEW q \in Req PROVE CallShape(q)' /\ DataShape(q)'
  <2>1. CASE q = r
    <3>1. obj[Source(r)] # Partial
      BY <1>2 DEF WholeBodies
    <3>2. got[r].meta # None /\ call[r].op \in {"get", "copy"}
      BY <1>1, CallFacts DEF CallShape, DataShape
    <3>3. got'[r].meta = got[r].meta /\ got'[r].body \in {got[r].body, obj[Source(r)]}
      BY WritingFacts DEF TypeOK, Snapshot
    <3>4. CallShape(r)'
      BY <1>1, <3>2 DEF TypeOK, CallShape, ReadSteps
    <3>5. DataShape(r)'
      BY <1>1, <3>1, <3>2, <3>3 DEF TypeOK, DataShape, Snapshot
    <3>6. QED
      BY <2>1, <3>4, <3>5
  <2>2. CASE q # r
    BY <2>2 DEF TypeOK, CallShape, DataShape, Incoming
  <2>3. QED
    BY <2>1, <2>2
<1>6. QED
  BY <1>3, <1>4, <1>5

LEMMA ShapeUnlockReader ==
    ASSUME Shape, NEW r \in Req, UnlockReader(r)
    PROVE  Shape'
<1>. USE DEF Shape, UnlockReader, Goto, End, RUnlock, Return
<1>1. call[r] \in Calls
  BY DEF CallShape
<1>2. /\ Target(r) \in Slot /\ Source(r) \in Slot
      /\ Target(r)[1] \in Bucket /\ Source(r)[1] \in Bucket
  BY <1>1, CallFacts DEF Target, Source, Slot
<1>3. TypeOK'
  <2>1. LockTypeOK'
    BY <1>2 DEF TypeOK, LockTypeOK
  <2>2. obj' \in [Slot -> Content \cup {None}] /\ meta' \in [Slot -> Meta \cup {None}]
    BY <1>2 DEF TypeOK
  <2>3. tmp' \in [Req -> Content \cup {None}]
    BY DEF TypeOK, Content
  <2>4. pc' \in [Req -> Steps] /\ out' \in [Req -> Outcome]
    BY DEF TypeOK, Steps, WriteSteps, ReadSteps, Outcome
  <2>5. call' \in [Req -> Call \cup {None}] /\ got' \in [Req -> Snapshot]
    <3>1. NoSnapshot \in Snapshot
      BY DEF NoSnapshot, Snapshot
    <3>2. QED
      BY <3>1 DEF TypeOK
  <2>6. /\ torn' \in SUBSET Slot
        /\ before' \in [Req -> [obj : Content \cup {None}, meta : Meta \cup {None}]]
    BY <1>2 DEF TypeOK, NoPair
  <2>7. QED
    BY <2>1, <2>2, <2>3, <2>4, <2>5, <2>6 DEF TypeOK
<1>4. WholeBodies'
  BY <1>2, PartialAssumption DEF WholeBodies, TypeOK
<1>5. ASSUME NEW q \in Req PROVE CallShape(q)' /\ DataShape(q)'
  <2>1. CASE q = r /\ out[r] = "none"
    BY <2>1, <1>1, CallFacts DEF TypeOK, CallShape, DataShape, ReadSteps
  <2>2. CASE q = r /\ out[r] # "none"
    BY <2>2, <1>1, PartialAssumption
       DEF TypeOK, CallShape, DataShape, NoSnapshot, Snapshot
  <2>3. CASE q # r
    BY <2>3 DEF TypeOK, CallShape, DataShape, Incoming
  <2>4. QED
    BY <2>1, <2>2, <2>3
<1>6. QED
  BY <1>3, <1>4, <1>5

LEMMA ShapeCrash == Shape /\ Crash => Shape'
<1>. SUFFICES ASSUME Shape, Crash PROVE Shape'
  OBVIOUS
<1>. USE DEF Shape, Crash
<1>1. TypeOK'
  BY DEF TypeOK, LockTypeOK, LockReset, Steps, Outcome, Snapshot, NoSnapshot, NoPair, HalfDone
<1>2. WholeBodies'
  BY DEF WholeBodies
<1>3. ASSUME NEW q \in Req PROVE CallShape(q)' /\ DataShape(q)'
  BY PartialAssumption DEF CallShape, DataShape, NoSnapshot
<1>4. QED
  BY <1>1, <1>2, <1>3

LEMMA ShapeStutter == Shape /\ UNCHANGED vars => Shape'
BY DEF Shape, vars, TypeOK, LockTypeOK, WholeBodies, CallShape, DataShape, Incoming

THEOREM ShapeInvariant == Spec => []Shape
<1>1. Shape /\ [Next]_vars => Shape'
  <2>. SUFFICES ASSUME Shape, [Next]_vars PROVE Shape'
    OBVIOUS
  <2>1. ASSUME NEW r \in Req, NEW c \in Calls, Begin(r, c) PROVE Shape'
    BY <2>1, ShapeBegin
  <2>2. ASSUME NEW r \in Req, Progress(r) PROVE Shape'
    BY <2>2, ShapeLockWriter, ShapeEnterWriter, ShapeStage, ShapeReceive, ShapeReject,
       ShapeRename, ShapeCleanup, ShapeWriteMeta, ShapeReadForUpdate, ShapeRemoveObj, ShapeRemoveMeta,
       ShapeUnlockWriter, ShapeLockReader, ShapeReadMeta, ShapeOpenObj, ShapeUnlockReader
       DEF Progress
  <2>3. QED
    BY <2>1, <2>2, ShapeCrash, ShapeStutter DEF Next
<1>2. QED
  BY ShapeInit, <1>1, PTL DEF Spec

(* Every variable keeps its type, whatever the number of requests.           *)
THEOREM TypeCorrect == Spec => []TypeOK
BY ShapeInvariant, PTL DEF Shape

(* No reader, at any time, finds half a body in the file of an object.       *)
THEOREM BodiesWhole == Spec => []WholeBodies
BY ShapeInvariant, PTL DEF Shape

-------------------------------------------------------------------------------
(* LockSafety is inductive relative to Shape. *)
LEMMA SlotFacts ==
    ASSUME Shape, NEW r \in Req, pc[r] # "idle"
    PROVE  /\ call[r] \in Calls
           /\ Target(r) \in Slot /\ Source(r) \in Slot
           /\ Target(r)[1] \in Bucket /\ Source(r)[1] \in Bucket
<1>1. call[r] \in Calls
  BY DEF Shape, CallShape
<1>2. QED
  BY <1>1, CallFacts DEF Target, Source, Slot

(* A step within a critical section leaves the lock as it was. *)
LEMMA LockSame ==
    ASSUME Shape, LockSafety, NEW r \in Req, NEW x \in Steps,
           UNCHANGED <<writer, readers, parked, call>>,
           pc' = [pc EXCEPT ![r] = x],
           \/ pc[r] \in WriteSteps /\ x \in WriteSteps
           \/ pc[r] = "drain" /\ Exclusive(r, Target(r)[1]) /\ x \in WriteSteps
           \/ pc[r] = "rmeta" /\ Shared(r, Source(r)[1]) /\ x \in {"ropen", "runlock"}
           \/ pc[r] = "ropen" /\ x = "runlock"
    PROVE  LockSafety'
<1>. USE DEF Shape, TypeOK, LockTypeOK, Target, Source, LockSafety
<1>1. ASSUME NEW q \in Req PROVE CallerHolds(q)'
  BY DEF CallerHolds, WriteSteps, Exclusive, Shared
<1>2. ASSUME NEW b \in Bucket PROVE HoldersInside(b)'
  <2>1. r \in readers[b] => pc[r] \in ReadSteps /\ x \in ReadSteps
    BY DEF HoldersInside, ReadSteps, WriteSteps
  <2>2. ASSUME writer[b] = r PROVE x \in WriteSteps
    <3>1. pc[r] \in WriteSteps \cup {"drain"}
      BY <2>2, NoneAssumption DEF HoldersInside
    <3>2. QED
      BY <3>1 DEF WriteSteps
  <2>3. r \notin parked[b]
    BY DEF HoldersInside, WriteSteps, Shared
  <2>4. QED
    BY <2>1, <2>2, <2>3 DEF HoldersInside
<1>3. QED
  BY <1>1, <1>2

LEMMA LockNext ==
    ASSUME Shape, LockSafety, [Next]_vars
    PROVE  LockSafety'
<1>. USE DEF Goto, End
<1>1. ASSUME NEW r \in Req, NEW c \in Calls, Begin(r, c) PROVE LockSafety'
  <2>. USE <1>1 DEF Begin, Shape, TypeOK, LockTypeOK, LockSafety
  <2>1. ASSUME NEW q \in Req PROVE CallerHolds(q)'
    BY <2>1 DEF CallerHolds, WriteSteps, Target, Source
  <2>2. ASSUME NEW b \in Bucket PROVE HoldersInside(b)'
    BY <2>2, NoneAssumption DEF HoldersInside, WriteSteps, ReadSteps, Target, Source
  <2>3. QED
    BY <2>1, <2>2
<1>2. ASSUME NEW r \in Req, LockWriter(r) PROVE LockSafety'
  <2>. USE <1>2 DEF LockWriter, Announce, Shape, TypeOK, LockTypeOK, LockSafety
  <2>1. \A q \in Req : pc[q] # "idle" => Target(q)[1] \in Bucket /\ Source(q)[1] \in Bucket
    BY SlotFacts
  <2>2. ASSUME NEW q \in Req PROVE CallerHolds(q)'
    <3>1. CASE q = r
      BY <2>1, <3>1 DEF CallerHolds, WriteSteps, Target, Source
    <3>2. CASE q # r
      <4>1. pc'[q] = pc[q] /\ Target(q)' = Target(q) /\ Source(q)' = Source(q)
        BY <3>2 DEF Target, Source
      <4>2. pc[q] \in WriteSteps \cup {"drain"} => Target(q)[1] # Target(r)[1]
        BY <2>1, NoneAssumption DEF CallerHolds
      <4>3. CallerHolds(q)
        OBVIOUS
      <4>4. QED
        BY <2>1, <4>1, <4>2, <4>3 DEF CallerHolds, WriteSteps
    <3>3. QED
      BY <3>1, <3>2
  <2>3. ASSUME NEW b \in Bucket PROVE HoldersInside(b)'
    BY <2>1, <2>3, NoneAssumption DEF HoldersInside, WriteSteps, ReadSteps, Target, Source
  <2>4. QED
    BY <2>2, <2>3
<1>3. ASSUME NEW r \in Req, UnlockWriter(r) PROVE LockSafety'
  <2>. USE <1>3 DEF UnlockWriter, Unlock, Return, Shape, TypeOK, LockTypeOK, LockSafety
  <2>1. \A q \in Req : pc[q] # "idle" => Target(q)[1] \in Bucket /\ Source(q)[1] \in Bucket
    BY SlotFacts
  <2>2. ASSUME NEW q \in Req PROVE CallerHolds(q)'
    BY <2>1, <2>2 DEF CallerHolds, HoldersInside, WriteSteps, Target, Source
  <2>3. ASSUME NEW b \in Bucket PROVE HoldersInside(b)'
    BY <2>1, <2>3, NoneAssumption
       DEF HoldersInside, WriteSteps, ReadSteps, Target, Source
  <2>4. QED
    BY <2>2, <2>3
<1>4. ASSUME NEW r \in Req, LockReader(r) PROVE LockSafety'
  <2>. USE <1>4 DEF LockReader, RLock, Shape, TypeOK, LockTypeOK, LockSafety
  <2>1. \A q \in Req : pc[q] # "idle" => Target(q)[1] \in Bucket /\ Source(q)[1] \in Bucket
    BY SlotFacts
  <2>2. ASSUME NEW q \in Req PROVE CallerHolds(q)'
    <3>1. CASE q = r
      BY <2>1, <3>1 DEF CallerHolds, WriteSteps, Target, Source
    <3>2. CASE q # r
      <4>1. pc'[q] = pc[q] /\ Target(q)' = Target(q) /\ Source(q)' = Source(q)
        BY <3>2 DEF Target, Source
      <4>2. \A b \in Bucket : writer[b] # None => readers'[b] = readers[b]
        BY <2>1
      <4>3. \A b \in Bucket : readers[b] \subseteq readers'[b] /\ parked[b] \subseteq parked'[b]
        <5>1. CASE writer[Source(r)[1]] = None
          BY <2>1, <5>1
        <5>2. CASE writer[Source(r)[1]] # None
          BY <2>1, <5>2
        <5> QED BY <5>1, <5>2
      <4>4. CallerHolds(q)
        OBVIOUS
      <4>5. pc[q] \in WriteSteps \cup {"drain"} => writer[Target(q)[1]] # None
        BY <4>4, NoneAssumption DEF CallerHolds
      <4>6. QED
        BY <2>1, <4>1, <4>2, <4>3, <4>4, <4>5 DEF CallerHolds, WriteSteps
    <3>3. QED
      BY <3>1, <3>2
  <2>3. ASSUME NEW b \in Bucket PROVE HoldersInside(b)'
    <3>1. HoldersInside(b)
      OBVIOUS
    <3>2. /\ r \notin readers[b] /\ r \notin parked[b]
          /\ writer[b] # None => writer[b] # r
      BY <3>1, NoneAssumption DEF HoldersInside, WriteSteps, ReadSteps
    <3>3. /\ writer'[b] = writer[b]
          /\ \/ readers'[b] = readers[b] /\ parked'[b] = parked[b]
             \/ /\ b = Source(r)[1] /\ writer[b] = None
                /\ readers'[b] = readers[b] \cup {r} /\ parked'[b] = parked[b]
             \/ /\ b = Source(r)[1] /\ writer[b] # None
                /\ readers'[b] = readers[b] /\ parked'[b] = parked[b] \cup {r}
      BY <2>1, <2>3
    <3>4. \A q \in Req : Target(q)' = Target(q) /\ Source(q)' = Source(q)
      BY DEF Target, Source
    <3>5. pc'[r] = "rmeta" /\ \A q \in Req : q # r => pc'[q] = pc[q]
      OBVIOUS
    <3>6. readers[b] \subseteq Req /\ parked[b] \subseteq Req /\ writer[b] \in Req \cup {None}
      BY <2>3
    <3>7. QED
      BY <3>1, <3>2, <3>3, <3>4, <3>5, <3>6 DEF HoldersInside, ReadSteps
  <2>4. QED
    BY <2>2, <2>3
<1>5. ASSUME NEW r \in Req, UnlockReader(r) PROVE LockSafety'
  <2>. USE <1>5 DEF UnlockReader, RUnlock, Return, Shape, TypeOK, LockTypeOK, LockSafety
  <2>1. \A q \in Req : pc[q] # "idle" => Target(q)[1] \in Bucket /\ Source(q)[1] \in Bucket
    BY SlotFacts
  <2>2. ASSUME NEW q \in Req PROVE CallerHolds(q)'
    BY <2>1, <2>2 DEF CallerHolds, HoldersInside, WriteSteps, Target, Source
  <2>3. ASSUME NEW b \in Bucket PROVE HoldersInside(b)'
    <3>1. HoldersInside(b)
      OBVIOUS
    <3>2. /\ r \in readers[b] => b = Source(r)[1]
          /\ r \notin parked[b]
          /\ writer[b] # None => writer[b] # r
      BY <3>1, NoneAssumption DEF HoldersInside, WriteSteps, ReadSteps
    <3>3. /\ writer'[b] = writer[b] /\ parked'[b] = parked[b]
          /\ readers'[b] = readers[b] \ {r}
      BY <2>1, <2>3, <3>2
    <3>4. \A q \in Req : q # r =>
            pc'[q] = pc[q] /\ Target(q)' = Target(q) /\ Source(q)' = Source(q)
      BY DEF Target, Source
    <3>5. readers[b] \subseteq Req /\ parked[b] \subseteq Req /\ writer[b] \in Req \cup {None}
      BY <2>3
    <3>6. QED
      BY <3>1, <3>2, <3>3, <3>4, <3>5 DEF HoldersInside
  <2>4. QED
    BY <2>2, <2>3
<1>6. ASSUME NEW r \in Req,
             EnterWriter(r) \/ Stage(r) \/ Receive(r) \/ Reject(r) \/ Rename(r) \/ Cleanup(r)
               \/ WriteMeta(r) \/ ReadForUpdate(r) \/ RemoveObj(r) \/ RemoveMeta(r) \/ ReadMeta(r) \/ OpenObj(r)
      PROVE  LockSafety'
  <2>1. CASE EnterWriter(r)
    BY <2>1, LockSame DEF EnterWriter, FirstStep, WriteSteps, Steps
  <2>2. CASE Stage(r) \/ Receive(r) \/ Reject(r) \/ Rename(r) \/ Cleanup(r) \/ WriteMeta(r)
    BY <2>2, LockSame DEF Stage, Receive, Reject, Rename, Cleanup, WriteMeta, WriteSteps, Steps
  <2>3. CASE ReadForUpdate(r) \/ RemoveObj(r) \/ RemoveMeta(r)
    BY <2>3, LockSame DEF ReadForUpdate, RemoveObj, RemoveMeta, WriteSteps, Steps
  <2>4. CASE ReadMeta(r) \/ OpenObj(r)
    BY <2>4, LockSame DEF ReadMeta, OpenObj, ReadSteps, Steps
  <2>5. QED
    BY <1>6, <2>1, <2>2, <2>3, <2>4
<1>7. ASSUME Crash PROVE LockSafety'
  BY <1>7 DEF Crash, LockReset, LockSafety, CallerHolds, HoldersInside, WriteSteps, ReadSteps
<1>8. ASSUME UNCHANGED vars PROVE LockSafety'
  BY <1>8 DEF vars, LockSafety, CallerHolds, HoldersInside, Target, Source
<1>9. QED
  BY <1>1, <1>2, <1>3, <1>4, <1>5, <1>6, <1>7, <1>8 DEF Next, Progress

(* A writer is alone in its bucket and no path leaves with the lock held.    *)
THEOREM LockIsSafe == Spec => []LockSafety
<1>1. Init => LockSafety
  BY DEF Init, LockInit, LockSafety, CallerHolds, HoldersInside, WriteSteps
<1>2. QED
  BY <1>1, LockNext, ShapeInvariant, PTL DEF Spec
===============================================================================
