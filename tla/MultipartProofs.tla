---------------------------- MODULE MultipartProofs ----------------------------
(***************************************************************************)
(* What Multipart promises, for every set of uploads, keys and bodies,     *)
(* every limit on part numbers and any number of faults.                   *)
(*                                                                         *)
(* The three invariants are not inductive alone: each has to know what the *)
(* operation under the lock has read and done so far (OpInv), that an      *)
(* upload that no fault has touched holds every part with its own ETag     *)
(* (PartsMatch), and that ids not drawn yet have no files (Traces).        *)
(***************************************************************************)
EXTENDS Multipart, TLAPS

(* Only an upload that was drawn leaves traces, and upload.json only where   *)
(* its directory is.                                                         *)
Traces ==
    /\ live \cup marred \subseteq drawn
    /\ \A u \in Upload : head[u] # None => u \in live
    /\ \A u \in Upload : u \notin live \/ u \in marred => acked[u] = NotAcked

(* PutPart is between the part m of upload u and its JSON file. *)
StubAt(u, m) == op # None /\ op.do = "stub" /\ op.up = u /\ partName(op.num) = m

PartsMatch ==
    \A u \in Upload \ marred, m \in Name :
        stub[u][m] # None /\ ~ StubAt(u, m) =>
            part[u][m] # None /\ stub[u][m] = Md5(<<part[u][m]>>)

OpInv ==
    op # None =>
        /\ op.up \in live
        /\ op.do # "create" => head[op.up] # None
        /\ op.do = "stub" => part[op.up][partName(op.num)] = op.body
        /\ op.do \in {"describe", "redescribe"} => obj[head[op.up]] = op.bytes
        /\ op.do \in {"store", "describe", "redescribe"} /\ op.up \notin marred =>
              op.etags = PartEtags(op.bytes)

Inv ==
    /\ TypeOK /\ Traces /\ PartsMatch /\ OpInv
    /\ AckedPartsKept /\ ObjectsDescribed /\ UploadsRemovable

-------------------------------------------------------------------------------
(* A part number within the limit is its own name: two parts of an upload    *)
(* never share a file.                                                       *)
LEMMA PartNames ==
    /\ \A n \in PartNumber : n \in Name /\ partName(n) = n
    /\ \A n \in Int : partName(n) \in Name
<1>1. /\ NameSpace \in Nat /\ NameSpace > 0
      /\ \A n \in PartNumber : n \in 0 .. NameSpace - 1
  BY MultipartAssumption DEF PartNumber
<1>2. \A n \in 0 .. NameSpace - 1 : n % NameSpace = n
  BY <1>1
<1>3. \A n \in Int : n % NameSpace \in 0 .. NameSpace - 1
  BY <1>1
<1> QED BY <1>1, <1>2, <1>3 DEF partName, Name

LEMMA OpFacts ==
    ASSUME op \in OpType
    PROVE  /\ op # None /\ op.up \in Upload
           /\ op.do \in {"create", "rename", "stub", "store", "describe", "redescribe",
                           "clean", "abort"}
           /\ op.do = "create" => op.key \in Key
           /\ op.do \in {"rename", "stub"} =>
                 /\ op.num \in PartNumber /\ op.body \in Body
                 /\ partName(op.num) = op.num /\ op.num \in Name
           /\ op.do \in {"store", "describe", "redescribe", "clean"} =>
                 op.bytes \in Contents /\ op.etags \in EtagLists
BY NoneAssumption, PartNames DEF OpType

(* The two operations that take several steps. *)
LEMMA NextOp ==
    ASSUME op \in OpType
    PROVE  /\ op.do = "rename" =>
                 LET o == [op EXCEPT !.do = "stub"]
                 IN  o \in OpType /\ o.do = "stub" /\ o.up = op.up /\ o.num = op.num /\ o.body = op.body
           /\ op.do \in {"store", "describe", "redescribe", "clean"} =>
                 \A d \in {"store", "describe", "redescribe", "clean"} :
                    LET o == [op EXCEPT !.do = d]
                    IN  /\ o \in OpType /\ o.do = d /\ o.up = op.up
                        /\ o.bytes = op.bytes /\ o.etags = op.etags
BY DEF OpType

(* Init, and the first step of an operation. *)
LEMMA InitInv == Init => Inv
<1> SUFFICES ASSUME Init PROVE Inv
  OBVIOUS
<1>1. TypeOK
  BY MultipartAssumption DEF Init, TypeOK, NoParts, NotAcked
<1>2. Traces /\ PartsMatch /\ OpInv /\ AckedPartsKept /\ UploadsRemovable
  BY DEF Init, Traces, PartsMatch, OpInv, AckedPartsKept, UploadsRemovable, NoParts
<1>3. ObjectsDescribed
  BY DEF Init, ObjectsDescribed, Described
<1> QED BY <1>1, <1>2, <1>3 DEF Inv

LEMMA CreateInv ==
    ASSUME Inv, NEW u \in Upload, NEW k \in Key, Create(u, k)
    PROVE  Inv'
<1>1. /\ op = None /\ op' \in OpType /\ op'.do = "create" /\ op'.up = u
      /\ u \notin live /\ u \notin marred
  BY DEF Create, Idle, OpType, Inv, Traces
<1>2. op' # None
  BY <1>1, NoneAssumption
<1>3. TypeOK'
  BY <1>1 DEF Inv, TypeOK, Create, object
<1>4. Traces' /\ PartsMatch' /\ OpInv'
  BY <1>1, <1>2 DEF Inv, Traces, PartsMatch, StubAt, OpInv, Create, object
<1>5. AckedPartsKept'
  BY <1>1, <1>2 DEF Inv, Traces, AckedPartsKept, Resending, NotAcked, Idle, Create, object
<1>6. ObjectsDescribed'
  BY <1>1, <1>2 DEF Inv, ObjectsDescribed, Described, Idle, Create, object
<1>7. UploadsRemovable'
  BY <1>1, <1>2 DEF Inv, UploadsRemovable, Creating, Idle, Create, object
<1> QED BY <1>3, <1>4, <1>5, <1>6, <1>7 DEF Inv

(* PutPart, Complete and Abort begin on an upload with upload.json. *)
LEMMA BeginInv ==
    ASSUME Inv, op = None, op' \in OpType, head[op'.up] # None,
           op'.do \in {"rename", "store", "abort"},
           op'.do = "store" /\ op'.up \notin marred => op'.etags = PartEtags(op'.bytes),
           UNCHANGED <<upfiles, object, drawn, acked, marred, torn, faults>>
    PROVE  Inv'
<1>1. op' # None /\ op'.up \in Upload
  BY NoneAssumption DEF OpType
<1>2. TypeOK'
  BY DEF Inv, TypeOK, upfiles, object
<1>3. Traces' /\ PartsMatch' /\ OpInv'
  BY <1>1 DEF Inv, Traces, PartsMatch, StubAt, OpInv, upfiles, object
<1>4. AckedPartsKept' /\ UploadsRemovable'
  BY <1>1 DEF Inv, AckedPartsKept, Resending, UploadsRemovable, Creating, Idle, upfiles
<1>5. ObjectsDescribed'
  BY <1>1 DEF Inv, ObjectsDescribed, Described, Idle, upfiles, object
<1> QED BY <1>2, <1>3, <1>4, <1>5 DEF Inv

LEMMA PutPartInv ==
    ASSUME Inv, NEW u \in Upload, NEW n \in PartNumber, NEW b \in Body, PutPart(u, n, b)
    PROVE  Inv'
<1>1. op' \in OpType /\ op'.do = "rename" /\ op'.up = u
  BY DEF PutPart, OpType
<1> QED BY <1>1, BeginInv DEF PutPart, Idle

(* What Complete reads under the lock are bytes and ETags that belong        *)
(* together, but for an upload with a fault behind it.                       *)
LEMMA CompleteInv ==
    ASSUME Inv, NEW u \in Upload, NEW ns \in Listing, NEW es, Complete(u, ns, es)
    PROVE  Inv'
<1> DEFINE bytes == [i \in DOMAIN ns |-> part[u][partName(ns[i])]]
           etags == [i \in DOMAIN ns |-> stub[u][partName(ns[i])]]
<1>1. op' = [do |-> "store", up |-> u, nums |-> ns, bytes |-> bytes, etags |-> etags]
  BY DEF Complete
<1>2. \A i \in DOMAIN ns : partName(ns[i]) \in Name
  BY MultipartAssumption, PartNames
<1>3. \A i \in DOMAIN ns :
        LET m == partName(ns[i]) IN
        /\ part[u][m] \in Body /\ stub[u][m] \in Etags
        /\ u \notin marred => stub[u][m] = Md5(<<part[u][m]>>)
  BY <1>2 DEF Complete, Listed, Inv, TypeOK, PartsMatch, StubAt, Idle
<1>4. /\ bytes \in [DOMAIN ns -> Body] /\ etags \in [DOMAIN ns -> Etags]
      /\ \A i \in DOMAIN ns : u \notin marred => etags[i] = Md5(<<bytes[i]>>)
  <2>1. bytes \in [DOMAIN ns -> Body]
    BY <1>3
  <2>2. etags \in [DOMAIN ns -> Etags]
    BY <1>3
  <2>3. \A i \in DOMAIN ns : u \notin marred => etags[i] = Md5(<<bytes[i]>>)
    BY <1>3
  <2> QED BY <2>1, <2>2, <2>3
<1> HIDE DEF bytes, etags
<1>5. bytes \in Contents /\ etags \in EtagLists
  BY <1>4 DEF Contents, EtagLists
<1>6. u \notin marred => etags = PartEtags(bytes)
  BY <1>4 DEF PartEtags
<1>7. op' \in OpType /\ op'.do = "store" /\ op'.up = u /\ op'.bytes = bytes /\ op'.etags = etags
  BY <1>1, <1>5 DEF OpType
<1> QED BY <1>6, <1>7, BeginInv DEF Complete, Idle

LEMMA AbortInv ==
    ASSUME Inv, NEW u \in Upload, Abort(u)
    PROVE  Inv'
<1>1. op' \in OpType /\ op'.do = "abort" /\ op'.up = u
  BY DEF Abort, OpType
<1> QED BY <1>1, BeginInv DEF Abort, Idle

-------------------------------------------------------------------------------
(* The ways an operation ends early.  It drops out between two steps that    *)
(* belong to no pair of files ...                                            *)
LEMMA DropInv ==
    ASSUME Inv, op # None, op.do \notin {"create", "stub", "describe"}, Done,
           faults' \in 0 .. MaxFaults,
           UNCHANGED <<upfiles, object, drawn, acked, marred, torn>>
    PROVE  Inv'
<1>1. TypeOK'
  BY DEF Done, Inv, TypeOK, upfiles, object
<1>2. Traces' /\ PartsMatch' /\ OpInv'
  BY DEF Done, Inv, Traces, PartsMatch, StubAt, OpInv, upfiles, object
<1>3. AckedPartsKept' /\ UploadsRemovable'
  BY DEF Done, Inv, AckedPartsKept, Resending, UploadsRemovable, Creating, Idle, upfiles
<1>4. ObjectsDescribed'
  BY DEF Done, Inv, ObjectsDescribed, Described, Idle, upfiles, object
<1> QED BY <1>1, <1>2, <1>3, <1>4 DEF Inv

(* ... or between the object and its metadata, which are torn apart then ... *)
LEMMA TornInv ==
    ASSUME Inv, op # None, op.do = "describe", Done,
           faults' \in 0 .. MaxFaults, torn' = torn \cup {head[op.up]},
           UNCHANGED <<upfiles, object, drawn, acked, marred>>
    PROVE  Inv'
<1>1. op.up \in Upload /\ head[op.up] \in Key
  BY DEF Inv, TypeOK, OpInv
<1>2. TypeOK'
  BY <1>1 DEF Done, Inv, TypeOK, upfiles, object
<1>3. Traces' /\ PartsMatch' /\ OpInv'
  BY DEF Done, Inv, Traces, PartsMatch, StubAt, OpInv, upfiles, object
<1>4. AckedPartsKept' /\ UploadsRemovable'
  BY DEF Done, Inv, AckedPartsKept, Resending, UploadsRemovable, Creating, Idle, upfiles
<1>5. ObjectsDescribed'
  BY DEF Done, Inv, ObjectsDescribed, Described, Idle, upfiles, object
<1> QED BY <1>2, <1>3, <1>4, <1>5 DEF Inv

(* ... or in the middle of its upload's files, which is marred then: it may  *)
(* leave them in any state, but those of the other uploads stay.             *)
LEMMA MarInv ==
    ASSUME Inv, op # None, op.do # "describe", Done, Fault, Mar(op.up),
           head' \in [Upload -> Key \cup {None}],
           part' \in [Upload -> [Name -> Body \cup {None}]],
           stub' \in [Upload -> [Name -> Etags \cup {None}]],
           \A u \in Upload \ {op.up} :
              head'[u] = head[u] /\ part'[u] = part[u] /\ stub'[u] = stub[u],
           UNCHANGED <<live, object, drawn, torn>>
    PROVE  Inv'
<1>1. op.up \in Upload /\ op.up \in live
  BY OpFacts DEF Inv, TypeOK, OpInv
<1>2. /\ marred' = marred \cup {op.up} /\ acked'[op.up] = NotAcked
      /\ \A u \in Upload : u # op.up => acked'[u] = acked[u]
      /\ acked' \in [Upload -> [PartNumber -> Body \cup {None}]]
  <2>1. NotAcked \in [PartNumber -> Body \cup {None}]
    BY DEF NotAcked
  <2> QED BY <1>1, <2>1 DEF Mar, Inv, TypeOK
<1>3. TypeOK'
  <2>1. faults' \in 0 .. MaxFaults
    BY MultipartAssumption DEF Fault, Inv, TypeOK
  <2> QED BY <1>1, <1>2, <2>1 DEF Done, Inv, TypeOK, object
<1>4. Traces' /\ PartsMatch' /\ OpInv'
  <2>1. Traces'
    BY <1>1, <1>2 DEF Inv, Traces
  <2>2. PartsMatch'
    BY <1>2 DEF Done, Inv, PartsMatch, StubAt
  <2> QED BY <2>1, <2>2 DEF Done, OpInv
<1>5. AckedPartsKept' /\ UploadsRemovable'
  <2>1. AckedPartsKept'
    BY <1>2 DEF Done, Inv, TypeOK, AckedPartsKept, Resending, Idle
  <2>2. UploadsRemovable'
    BY <1>2 DEF Done, Inv, UploadsRemovable, Creating, Idle
  <2> QED BY <2>1, <2>2
<1>6. ObjectsDescribed'
  BY DEF Done, Inv, ObjectsDescribed, Described, Idle, object
<1> QED BY <1>3, <1>4, <1>5, <1>6 DEF Inv

-------------------------------------------------------------------------------
LEMMA CreateHeadInv == ASSUME Inv, CreateHead PROVE Inv'
<1>1. /\ op \in OpType /\ op # None /\ op.do = "create" /\ Done
      /\ op.up \in Upload /\ op.key \in Key /\ op.up \in live
      /\ UNCHANGED <<live, part, stub, object, drawn, torn>>
  BY OpFacts DEF CreateHead, Idle, Inv, TypeOK, OpInv
<1>2. CASE Fault /\ Mar(op.up) /\ \E h \in {head[op.up], op.key} : head' = [head EXCEPT ![op.up] = h]
  BY <1>1, <1>2, MarInv DEF Inv, TypeOK
<1>3. CASE head' = [head EXCEPT ![op.up] = op.key] /\ UNCHANGED <<marred, acked, faults>>
  <2>1. /\ head'[op.up] = op.key /\ op.key # None
        /\ \A u \in Upload \ {op.up} : head'[u] = head[u]
    BY <1>1, <1>3, NoneAssumption DEF Inv, TypeOK
  <2>2. TypeOK'
    BY <1>1, <1>3 DEF Done, Inv, TypeOK, object
  <2>3. Traces' /\ PartsMatch' /\ OpInv'
    BY <1>1, <1>3, <2>1 DEF Done, Inv, Traces, PartsMatch, StubAt, OpInv
  <2>4. AckedPartsKept' /\ UploadsRemovable'
    BY <1>1, <1>3, <2>1 DEF Done, Inv, AckedPartsKept, Resending, UploadsRemovable, Creating, Idle
  <2>5. ObjectsDescribed'
    BY <1>1 DEF Done, Inv, ObjectsDescribed, Described, Idle, object
  <2> QED BY <2>2, <2>3, <2>4, <2>5 DEF Inv
<1> QED BY <1>2, <1>3 DEF CreateHead

LEMMA PartRenameInv == ASSUME Inv, PartRename PROVE Inv'
<1>1. /\ op \in OpType /\ op # None /\ op.do = "rename" /\ op.up \in Upload /\ op.up \in live
      /\ op.num \in PartNumber /\ op.body \in Body /\ op.num \in Name /\ partName(op.num) = op.num
      /\ UNCHANGED <<live, head, stub, object, drawn, acked, marred, torn, faults>>
  BY OpFacts DEF PartRename, Idle, Inv, TypeOK, OpInv
<1>2. CASE Done /\ UNCHANGED part
  BY <1>1, <1>2, DropInv DEF Inv, TypeOK, upfiles
<1>3. CASE part' = [part EXCEPT ![op.up][op.num] = op.body] /\ op' = [op EXCEPT !.do = "stub"]
  <2>1. /\ op' \in OpType /\ op' # None /\ op'.do = "stub" /\ op'.up = op.up
        /\ op'.num = op.num /\ op'.body = op.body
    BY <1>1, <1>3, NextOp, NoneAssumption
  <2>2. /\ part' \in [Upload -> [Name -> Body \cup {None}]]
        /\ part'[op.up][op.num] = op.body
        /\ \A u \in Upload, m \in Name : u # op.up \/ m # op.num => part'[u][m] = part[u][m]
        /\ \A u \in Upload : u # op.up => part'[u] = part[u]
    BY <1>1, <1>3 DEF Inv, TypeOK
  <2>3. TypeOK'
    BY <1>1, <2>1, <2>2 DEF Inv, TypeOK, object
  <2>4. Traces'
    BY <1>1 DEF Inv, Traces
  <2>5. PartsMatch'
    BY <1>1, <2>1, <2>2 DEF Inv, PartsMatch, StubAt
  <2>6. OpInv'
    BY <1>1, <2>1, <2>2 DEF Inv, OpInv
  <2>7. AckedPartsKept'
    BY <1>1, <2>1, <2>2, PartNames DEF Inv, TypeOK, AckedPartsKept, Resending, Idle
  <2>8. UploadsRemovable'
    BY <1>1, <2>1, <2>2 DEF Inv, UploadsRemovable, Creating, Idle
  <2>9. ObjectsDescribed'
    BY <1>1, <2>1 DEF Inv, ObjectsDescribed, Described, Idle, object
  <2> QED BY <2>3, <2>4, <2>5, <2>6, <2>7, <2>8, <2>9 DEF Inv
<1> QED BY <1>1, <1>2, <1>3 DEF PartRename

LEMMA PartStubInv == ASSUME Inv, PartStub PROVE Inv'
<1>1. /\ op \in OpType /\ op # None /\ op.do = "stub" /\ op.up \in Upload /\ op.up \in live
      /\ op.num \in PartNumber /\ op.body \in Body /\ op.num \in Name /\ partName(op.num) = op.num
      /\ part[op.up][op.num] = op.body /\ op.body # None
      /\ Done /\ UNCHANGED <<live, head, part, object, drawn, torn>>
  BY OpFacts, NoneAssumption DEF PartStub, Idle, Inv, TypeOK, OpInv
<1>2. Md5(<<op.body>>) \in Etags
  BY <1>1 DEF Etags
<1>3. CASE /\ Fault /\ Mar(op.up)
           /\ \E e \in {stub[op.up][op.num], Md5(<<op.body>>)} :
                 stub' = [stub EXCEPT ![op.up][op.num] = e]
  <2>0. stub[op.up][op.num] \in Etags \cup {None}
    BY <1>1 DEF Inv, TypeOK
  <2>1. PICK e \in Etags \cup {None} : stub' = [stub EXCEPT ![op.up][op.num] = e]
    BY <1>2, <1>3, <2>0
  <2>2. /\ stub' \in [Upload -> [Name -> Etags \cup {None}]]
        /\ \A u \in Upload \ {op.up} : stub'[u] = stub[u]
    BY <1>1, <2>1 DEF Inv, TypeOK
  <2> QED BY <1>1, <1>3, <2>2, MarInv DEF Inv, TypeOK
<1>4. CASE /\ stub' = [stub EXCEPT ![op.up][op.num] = Md5(<<op.body>>)]
           /\ acked' = IF op.up \in marred THEN acked
                       ELSE [acked EXCEPT ![op.up][op.num] = op.body]
           /\ UNCHANGED <<marred, faults>>
  <2>1. /\ stub' \in [Upload -> [Name -> Etags \cup {None}]]
        /\ stub'[op.up][op.num] = Md5(<<op.body>>)
        /\ \A u \in Upload, m \in Name : u # op.up \/ m # op.num => stub'[u][m] = stub[u][m]
        /\ \A u \in Upload : u # op.up => stub'[u] = stub[u]
    BY <1>1, <1>2, <1>4 DEF Inv, TypeOK
  <2>2. /\ acked' \in [Upload -> [PartNumber -> Body \cup {None}]]
        /\ op.up \notin marred => acked'[op.up][op.num] = op.body
        /\ op.up \in marred => acked'[op.up] = acked[op.up]
        /\ \A u \in Upload, n \in PartNumber : u # op.up \/ n # op.num => acked'[u][n] = acked[u][n]
        /\ \A u \in Upload : u # op.up => acked'[u] = acked[u]
    BY <1>1, <1>4 DEF Inv, TypeOK
  <2>3. TypeOK'
    BY <1>1, <1>4, <2>1, <2>2 DEF Done, Inv, TypeOK, object
  <2>4. Traces'
    BY <1>1, <1>4, <2>2 DEF Inv, Traces
  <2>5. PartsMatch'
    BY <1>1, <1>4, <2>1 DEF Done, Inv, PartsMatch, StubAt
  <2>6. OpInv'
    BY <1>1 DEF Done, OpInv
  <2>7. AckedPartsKept'
    <3> SUFFICES ASSUME NEW u \in live \ marred, NEW n \in PartNumber, acked'[u][n] # None
                 PROVE  /\ part[u][n] = acked'[u][n]
                        /\ stub'[u][n] = Md5(<<acked'[u][n]>>)
      BY <1>1, <1>4, PartNames DEF AckedPartsKept
    <3>1. u \in Upload /\ n \in Name /\ partName(n) = n
      BY PartNames DEF Inv, TypeOK
    <3>2. CASE u = op.up /\ n = op.num
      BY <1>1, <2>1, <2>2, <3>2
    <3>3. CASE u # op.up \/ n # op.num
      BY <1>1, <2>1, <2>2, <3>1, <3>3, SMTT(30) DEF Inv, AckedPartsKept, Resending
    <3> QED BY <3>2, <3>3
  <2>8. UploadsRemovable'
    BY <1>1, <1>4, <2>1 DEF Done, Inv, UploadsRemovable, Creating, Idle
  <2>9. ObjectsDescribed'
    BY <1>1 DEF Done, Inv, ObjectsDescribed, Described, Idle, object
  <2> QED BY <2>3, <2>4, <2>5, <2>6, <2>7, <2>8, <2>9 DEF Inv
<1> QED BY <1>1, <1>3, <1>4 DEF PartStub

-------------------------------------------------------------------------------
(* While Complete writes the object and its metadata, the upload's files     *)
(* and what was promised of them stay as they are.                           *)
LEMMA CompletingInv ==
    ASSUME Inv, op \in OpType,
           op' = None \/ (op' \in OpType /\ op'.do \notin {"create", "stub"} /\ op'.up = op.up),
           op.do \in {"store", "describe", "redescribe"},
           UNCHANGED <<upfiles, drawn, acked, marred>>
    PROVE  Traces' /\ PartsMatch' /\ AckedPartsKept' /\ UploadsRemovable'
<1>1. Traces' /\ PartsMatch'
  BY NoneAssumption DEF Inv, Traces, PartsMatch, StubAt, upfiles
<1>2. AckedPartsKept' /\ UploadsRemovable'
  BY NoneAssumption DEF Inv, AckedPartsKept, Resending, UploadsRemovable, Creating, Idle, upfiles
<1> QED BY <1>1, <1>2

LEMMA CompletingFacts ==
    ASSUME Inv, op # None, op.do \in {"store", "describe", "redescribe"}
    PROVE  /\ op \in OpType /\ op.up \in Upload /\ op.up \in live /\ head[op.up] \in Key
           /\ op.bytes \in Contents /\ op.etags \in EtagLists /\ op.bytes # None
           /\ Md5(op.bytes) \in ObjectEtags /\ compositeETag(op.etags) \in ObjectEtags
           /\ op.up \notin marred => op.etags = PartEtags(op.bytes)
           /\ op.do \in {"describe", "redescribe"} => obj[head[op.up]] = op.bytes
<1>1. op \in OpType
  BY DEF Inv, TypeOK
<1>2. op.up \in Upload /\ op.bytes \in Contents /\ op.etags \in EtagLists
  BY <1>1, OpFacts
<1>3. op.bytes # None
  BY <1>2, NoneAssumption
<1>4. Md5(op.bytes) \in ObjectEtags /\ compositeETag(op.etags) \in ObjectEtags
  BY <1>2 DEF ObjectEtags
<1>5. /\ op.up \in live /\ head[op.up] \in Key
      /\ op.up \notin marred => op.etags = PartEtags(op.bytes)
      /\ op.do \in {"describe", "redescribe"} => obj[head[op.up]] = op.bytes
  BY <1>2 DEF Inv, TypeOK, OpInv
<1> QED BY <1>1, <1>2, <1>3, <1>4, <1>5

LEMMA CompleteStoreInv == ASSUME Inv, CompleteStore PROVE Inv'
<1> DEFINE k == head[op.up]
<1>1. /\ op # None /\ op.do = "store"
      /\ UNCHANGED <<upfiles, meta, drawn, acked, marred, torn>>
  BY DEF CompleteStore, Idle
<1>2. CASE Fault /\ Done /\ UNCHANGED obj
  <2>1. faults' \in 0 .. MaxFaults
    BY <1>2, MultipartAssumption DEF Fault, Inv, TypeOK
  <2> QED BY <1>1, <1>2, <2>1, DropInv DEF object
<1>3. CASE obj' = [obj EXCEPT ![k] = op.bytes] /\ op' = [op EXCEPT !.do = "describe"] /\ UNCHANGED faults
  <2>1. /\ op' \in OpType /\ op'.do = "describe" /\ op'.up = op.up
        /\ op'.bytes = op.bytes /\ op'.etags = op.etags /\ op' # None
    BY <1>1, <1>3, CompletingFacts, NextOp, NoneAssumption
  <2>2. /\ obj' \in [Key -> Contents \cup {None}] /\ obj'[k] = op.bytes
        /\ \A j \in Key : j # k => obj'[j] = obj[j]
    BY <1>1, <1>3, CompletingFacts DEF Inv, TypeOK
  <2>3. TypeOK'
    BY <1>1, <1>3, <2>1, <2>2 DEF Inv, TypeOK, upfiles
  <2>4. OpInv'
    BY <1>1, <2>1, <2>2, CompletingFacts DEF Inv, OpInv, upfiles
  <2>5. ObjectsDescribed'
    BY <1>1, <2>1, <2>2 DEF Inv, ObjectsDescribed, Described, Idle, upfiles
  <2> QED BY <1>1, <2>1, <2>3, <2>4, <2>5, CompletingInv, CompletingFacts DEF Inv
<1> QED BY <1>1, <1>2, <1>3 DEF CompleteStore

(* A step that leaves the bytes of the object and describes them, or tears   *)
(* its metadata off.                                                         *)
LEMMA DescribingInv ==
    ASSUME Inv, op # None, op.do \in {"describe", "redescribe"},
           op' = None \/ (\E d \in {"redescribe", "clean"} : op' = [op EXCEPT !.do = d]),
           faults' \in 0 .. MaxFaults, torn' \subseteq Key,
           NEW e \in ObjectEtags, meta' = [meta EXCEPT ![head[op.up]] = e],
           torn \ {head[op.up]} \subseteq torn',
           head[op.up] \in torn' \/ e \in {Md5(op.bytes), compositeETag(PartEtags(op.bytes))},
           UNCHANGED <<upfiles, obj, drawn, acked, marred>>
    PROVE  Inv'
<1> DEFINE k == head[op.up]
<1>1. op' # None => /\ op' \in OpType /\ op'.do \in {"redescribe", "clean"} /\ op'.up = op.up
                    /\ op'.bytes = op.bytes /\ op'.etags = op.etags
  <2>1. ASSUME NEW d \in {"redescribe", "clean"}, op' = [op EXCEPT !.do = d]
        PROVE  /\ op' \in OpType /\ op'.do = d /\ op'.up = op.up
               /\ op'.bytes = op.bytes /\ op'.etags = op.etags
    <3>1. op \in OpType
      BY CompletingFacts
    <3> QED BY <2>1, <3>1, NextOp
  <2> QED BY <2>1
<1>2. /\ meta' \in [Key -> ObjectEtags \cup {None}] /\ meta'[k] = e
      /\ \A j \in Key : j # k => meta'[j] = meta[j]
  BY CompletingFacts DEF Inv, TypeOK
<1>3. TypeOK'
  BY <1>1, <1>2 DEF Inv, TypeOK, upfiles
<1>4. OpInv'
  BY <1>1, CompletingFacts DEF Inv, OpInv, upfiles
<1>5. ObjectsDescribed'
  <2> SUFFICES ASSUME NEW j \in Key, j \notin torn' PROVE Described(j)'
    BY DEF ObjectsDescribed
  <2>1. CASE j = k
    <3>1. obj[j] = op.bytes /\ op.bytes # None
      BY <2>1, CompletingFacts
    <3> QED BY <1>2, <2>1, <3>1 DEF Described
  <2>2. CASE j # k
    <3>1. Described(j)
      BY <2>2 DEF Inv, ObjectsDescribed
    <3> QED BY <1>2, <2>2, <3>1 DEF Described
  <2> QED BY <2>1, <2>2
<1> QED BY <1>1, <1>3, <1>4, <1>5, CompletingInv, CompletingFacts DEF Inv

LEMMA CompleteDescribeInv == ASSUME Inv, CompleteDescribe PROVE Inv'
<1>1. /\ op # None /\ op.do = "describe" /\ UNCHANGED <<upfiles, obj, drawn, acked, marred>>
      /\ Md5(op.bytes) \in ObjectEtags
  BY CompletingFacts DEF CompleteDescribe, Idle
<1>2. faults' \in 0 .. MaxFaults
  BY MultipartAssumption DEF CompleteDescribe, Fault, Inv, TypeOK
<1>3. CASE Fault /\ Done /\ torn' = torn \cup {head[op.up]} /\ UNCHANGED meta
  BY <1>1, <1>2, <1>3, TornInv DEF object
<1>4. CASE /\ meta' = [meta EXCEPT ![head[op.up]] = Md5(op.bytes)]
           /\ torn' = torn \ {head[op.up]}
           /\ \/ op' = [op EXCEPT !.do = "redescribe"] /\ UNCHANGED faults
              \/ Fault /\ Done
  <2>1. torn' \subseteq Key /\ torn \ {head[op.up]} \subseteq torn'
    BY <1>4 DEF Inv, TypeOK
  <2> QED BY <1>1, <1>2, <1>4, <2>1, DescribingInv DEF Done
<1> QED BY <1>3, <1>4 DEF CompleteDescribe

LEMMA CompleteRedescribeInv == ASSUME Inv, CompleteRedescribe PROVE Inv'
<1>1. /\ op # None /\ op.do = "redescribe" /\ UNCHANGED <<upfiles, obj, drawn, acked, marred>>
      /\ compositeETag(op.etags) \in ObjectEtags /\ head[op.up] \in Key
      /\ op.up \notin marred => op.etags = PartEtags(op.bytes)
  BY CompletingFacts DEF CompleteRedescribe, Idle
<1>2. faults' \in 0 .. MaxFaults
  BY MultipartAssumption DEF CompleteRedescribe, Fault, Inv, TypeOK
<1>3. CASE Fault /\ Done /\ UNCHANGED <<meta, torn>>
  BY <1>1, <1>2, <1>3, DropInv DEF object
<1>4. CASE /\ meta' = [meta EXCEPT ![head[op.up]] = compositeETag(op.etags)]
           /\ torn' = IF op.up \in marred THEN torn \cup {head[op.up]} ELSE torn
           /\ \/ op' = [op EXCEPT !.do = "clean"] /\ UNCHANGED faults
              \/ Fault /\ Done
  <2>1. torn' \subseteq Key /\ torn \ {head[op.up]} \subseteq torn'
    BY <1>1, <1>4 DEF Inv, TypeOK
  <2>2. head[op.up] \in torn' \/ compositeETag(op.etags) = compositeETag(PartEtags(op.bytes))
    BY <1>1, <1>4
  <2> QED BY <1>1, <1>2, <1>4, <2>1, <2>2, DescribingInv DEF Done
<1> QED BY <1>3, <1>4 DEF CompleteRedescribe

-------------------------------------------------------------------------------
(* Whatever a removal that is cut short leaves are files that were there. *)
LEMMA LeftFiles ==
    ASSUME Inv, op # None, NEW left \in Files(op.up), LeaveFiles(op.up, left)
    PROVE  /\ head' \in [Upload -> Key \cup {None}]
           /\ part' \in [Upload -> [Name -> Body \cup {None}]]
           /\ stub' \in [Upload -> [Name -> Etags \cup {None}]]
           /\ \A u \in Upload \ {op.up} :
                 head'[u] = head[u] /\ part'[u] = part[u] /\ stub'[u] = stub[u]
<1>1. op.up \in Upload
  BY OpFacts DEF Inv, TypeOK
<1>2. left.head \in Key \cup {None}
  BY <1>1 DEF Files, Inv, TypeOK
<1>3. left.part \in [Name -> Body \cup {None}]
  <2>1. PICK K \in SUBSET Name : left.part = [m \in Name |-> IF m \in K THEN part[op.up][m] ELSE None]
    BY DEF Files
  <2> QED BY <1>1, <2>1 DEF Inv, TypeOK
<1>4. left.stub \in [Name -> Etags \cup {None}]
  <2>1. PICK K \in SUBSET Name : left.stub = [m \in Name |-> IF m \in K THEN stub[op.up][m] ELSE None]
    BY DEF Files
  <2> QED BY <1>1, <2>1 DEF Inv, TypeOK
<1> QED BY <1>1, <1>2, <1>3, <1>4 DEF LeaveFiles, Inv, TypeOK

LEMMA RemoveUploadInv == ASSUME Inv, RemoveUpload PROVE Inv'
<1>1. /\ op # None /\ op.do \in {"clean", "abort"} /\ Done /\ op.up \in Upload
      /\ UNCHANGED <<object, drawn, torn>>
  BY OpFacts DEF RemoveUpload, Removing, Idle, Inv, TypeOK
<1>2. CASE /\ Fault
           /\ \E left \in Files(op.up) : LeaveFiles(op.up, left)
           /\ Mar(op.up)
           /\ UNCHANGED live
  BY <1>1, <1>2, LeftFiles, MarInv
<1>3. CASE /\ LeaveFiles(op.up, [head |-> None, part |-> NoParts, stub |-> NoParts])
           /\ live' = live \ {op.up}
           /\ acked' = [acked EXCEPT ![op.up] = NotAcked]
           /\ UNCHANGED <<marred, faults>>
  <2>1. /\ NoParts \in [Name -> Body \cup {None}] /\ NoParts \in [Name -> Etags \cup {None}]
        /\ NotAcked \in [PartNumber -> Body \cup {None}]
    BY DEF NoParts, NotAcked
  <2>2. /\ head' = [head EXCEPT ![op.up] = None]
        /\ part' = [part EXCEPT ![op.up] = NoParts]
        /\ stub' = [stub EXCEPT ![op.up] = NoParts]
    BY <1>3 DEF LeaveFiles
  <2>3. /\ head'[op.up] = None /\ part'[op.up] = NoParts /\ stub'[op.up] = NoParts
        /\ acked'[op.up] = NotAcked
        /\ \A u \in Upload : u # op.up =>
              head'[u] = head[u] /\ part'[u] = part[u] /\ stub'[u] = stub[u] /\ acked'[u] = acked[u]
    BY <1>1, <1>3, <2>2 DEF Inv, TypeOK
  <2>4. TypeOK'
    BY <1>1, <1>3, <2>1, <2>2 DEF Done, Inv, TypeOK, object
  <2>5. Traces'
    BY <1>1, <1>3, <2>3 DEF Inv, Traces
  <2>6. PartsMatch' /\ OpInv'
    BY <1>1, <1>3, <2>3 DEF Done, Inv, PartsMatch, StubAt, OpInv, NoParts
  <2>7. AckedPartsKept'
    BY <1>1, <1>3, <2>3 DEF Done, Inv, TypeOK, AckedPartsKept, Resending, Idle
  <2>8. UploadsRemovable'
    BY <1>1, <1>3, <2>3 DEF Done, Inv, UploadsRemovable, Creating, Idle
  <2>9. ObjectsDescribed'
    BY <1>1 DEF Done, Inv, ObjectsDescribed, Described, Idle, object
  <2> QED BY <2>4, <2>5, <2>6, <2>7, <2>8, <2>9 DEF Inv
<1> QED BY <1>2, <1>3 DEF RemoveUpload

LEMMA CrashInv == ASSUME Inv, Crash PROVE Inv'
<1>1. /\ op # None /\ Done /\ Fault /\ UNCHANGED <<live, object, drawn>>
      /\ op \in OpType /\ faults' \in 0 .. MaxFaults
  BY MultipartAssumption DEF Crash, Idle, Fault, Inv, TypeOK
<1>2. CASE op.do \in {"clean", "abort"}
  BY <1>1, <1>2, LeftFiles, MarInv DEF Crash, Removing, Idle
<1>3. CASE op.do \in {"create", "stub"}
  <2>1. Mar(op.up) /\ UNCHANGED <<head, part, stub, torn>>
    BY <1>3 DEF Crash, Removing
  <2> QED BY <1>1, <1>3, <2>1, MarInv DEF Inv, TypeOK
<1>4. CASE op.do = "describe"
  BY <1>1, <1>4, TornInv DEF Crash, Removing, upfiles
<1>5. CASE op.do \in {"rename", "store", "redescribe"}
  BY <1>1, <1>5, DropInv DEF Crash, Removing, upfiles
<1> QED BY <1>1, <1>2, <1>3, <1>4, <1>5, OpFacts

-------------------------------------------------------------------------------
LEMMA NextInv == ASSUME Inv, [Next]_vars PROVE Inv'
<1>1. ASSUME NEW u \in Upload, NEW k \in Key, Create(u, k) PROVE Inv'
  BY <1>1, CreateInv
<1>2. ASSUME NEW u \in Upload, NEW n \in PartNumber, NEW b \in Body, PutPart(u, n, b) PROVE Inv'
  BY <1>2, PutPartInv
<1>3. ASSUME NEW u \in Upload, NEW ns \in Listing, NEW es, Complete(u, ns, es) PROVE Inv'
  BY <1>3, CompleteInv
<1>4. ASSUME NEW u \in Upload, Abort(u) PROVE Inv'
  BY <1>4, AbortInv
<1>5. CASE CreateHead \/ PartRename \/ PartStub
  BY <1>5, CreateHeadInv, PartRenameInv, PartStubInv
<1>6. CASE CompleteStore \/ CompleteDescribe \/ CompleteRedescribe
  BY <1>6, CompleteStoreInv, CompleteDescribeInv, CompleteRedescribeInv
<1>7. CASE RemoveUpload \/ Crash
  BY <1>7, RemoveUploadInv, CrashInv
<1>8. CASE UNCHANGED vars
  BY <1>8 DEF vars, upfiles, object, Inv, TypeOK, Traces, PartsMatch, StubAt, OpInv,
              AckedPartsKept, Resending, ObjectsDescribed, Described, UploadsRemovable, Creating, Idle
<1> QED BY <1>1, <1>2, <1>3, <1>4, <1>5, <1>6, <1>7, <1>8 DEF Next

LEMMA InvHolds == Spec => []Inv
<1>1. Inv /\ [Next]_vars => Inv'
  BY NextInv
<1> QED BY <1>1, InitInv, PTL DEF Spec

(* The files of an upload, the object and the operation at work on them have *)
(* the types that the comments in Multipart give them (store.go:452-638).    *)
THEOREM TypesKept == Spec => []TypeOK
<1>1. Inv => TypeOK
  BY DEF Inv
<1> QED BY <1>1, InvHolds, PTL

(* A part that PutPart acknowledged (store.go:495-557) stays, bytes and ETag,*)
(* until its upload ends or the part is sent again, whatever other parts and *)
(* uploads do and wherever a fault stops them.                               *)
THEOREM PartsKept == Spec => []AckedPartsKept
<1>1. Inv => AckedPartsKept
  BY DEF Inv
<1> QED BY <1>1, InvHolds, PTL

(* The ETag in an object's metadata belongs to its bytes, but while          *)
(* CompleteMultipart (store.go:604-624) is between the two files and after a *)
(* fault there or in the upload.                                             *)
THEOREM EtagsDescribe == Spec => []ObjectsDescribed
<1>1. Inv => ObjectsDescribed
  BY DEF Inv
<1> QED BY <1>1, InvHolds, PTL

(* An upload without a fault behind it can be completed or aborted, and one  *)
(* that was leaves no file (store.go:453-489, 622-638).                      *)
THEOREM UploadsEnd == Spec => []UploadsRemovable
<1>1. Inv => UploadsRemovable
  BY DEF Inv
<1> QED BY <1>1, InvHolds, PTL
===============================================================================
