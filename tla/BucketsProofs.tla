----------------------------- MODULE BucketsProofs -----------------------------
(***************************************************************************)
(* What Buckets promises, for every number of requests and buckets, with a *)
(* crash between any two steps.  The invariants, each resting on those     *)
(* before it:                                                              *)
(*                                                                         *)
(*   Held       a writer past the lock holds it for the bucket of its call;*)
(*   Dated      no date belongs to two buckets, or to one that is gone: not*)
(*              those in bucket.json, nor those that a writer has in hand; *)
(*   Answering  what a call has seen was so at some moment of it, and lacks*)
(*              only what it has still to look at;                         *)
(*   Typed      types, the readers at the lock, and the bound on buckets.  *)
(***************************************************************************)
EXTENDS Buckets, FiniteSetTheorems, WellFoundedInduction, TLAPS

Types ==
    /\ writer \in [Bucket -> Req \cup {None}]
    /\ pc \in [Req -> Steps]
    /\ call \in [Req -> Call \cup {None}]
    /\ DOMAIN got = Req

(* Steps of a call on one bucket, and those of a writer with the lock.       *)
OfOne == {"cors", "rules", "rlock", "read", "lock", "drain", "json", "rmdir", "receive"}
Inside == {"drain", "json", "rmdir", "receive"}

AtBucket == \A r \in Req : pc[r] \in OfOne => call[r] \in Call /\ At(r) \in Bucket

WriterHolds == \A r \in Req : pc[r] \in Inside => writer[At(r)] = r

Held == Types /\ AtBucket /\ WriterHolds

(* Dates of bucket b: that of bucket.json, and that in the hand of a writer. *)
Has(b, n) ==
    \/ json[b] # None /\ json[b].born = n
    \/ \E r \in Req : pc[r] \in {"json", "rmdir"} /\ At(r) = b /\ got[r].born = n

InHand(r) ==
    /\ pc[r] \in {"json", "rmdir"} => got[r] \in Meta
    /\ pc[r] = "json" => json[At(r)] = None \/ json[At(r)].born = got[r].born
    /\ pc[r] = "rmdir" => json[At(r)] = None

AckedAsMade == \A b \in Bucket : acked[b] # None => json[b] # None /\ json[b].born = acked[b]

Dated ==
    /\ json \in [Bucket -> Meta \cup {None}]
    /\ acked \in [Bucket -> Nat \cup {None}]
    /\ births \in Nat /\ gone \subseteq 1..births
    /\ \A r \in Req : InHand(r)
    /\ \A b \in Bucket : \A n : Has(b, n) => n \in 1..births /\ n \notin gone
    /\ \A b, c \in Bucket : \A n : Has(b, n) /\ Has(c, n) => b = c
    /\ AckedAsMade

Inv == Held /\ Dated

-------------------------------------------------------------------------------
LEMMA CallFacts ==
    ASSUME NEW r \in Req, NEW c \in CallsOf[r]
    PROVE  /\ c \in Call
           /\ c.do # "list" => c.at \in Bucket
           /\ c.do = "list" => c.at = None
BY CallsAssumption DEF Call

LEMMA HandlerFacts ==
    ASSUME NEW c \in Call
    PROVE  /\ Handler(c) \in {"answer", "readdir", "rlock", "lock"}
           /\ Handler(c) \in {"rlock", "lock"} => c.do # "list"
BY DEF Handler, Call, Reading, Writing

LEMMA InitInv == Init => Inv
<1> SUFFICES ASSUME Init PROVE Inv
  OBVIOUS
<1>1. Held
  BY DEF Init, LockInit, Held, Types, AtBucket, WriterHolds, OfOne, Inside, Steps
<1>2. Dated
  BY DEF Init, Dated, Has, InHand, AckedAsMade
<1> QED BY <1>1, <1>2 DEF Inv

-------------------------------------------------------------------------------
(* Held is inductive. *)
LEMMA BeginHeld ==
    ASSUME Held, NEW r \in Req, Begin(r)
    PROVE  Held'
<1>1. PICK c \in CallsOf[r] :
        /\ call' = [call EXCEPT ![r] = c]
        /\ Goto(r, IF c.origin /\ c.at # None THEN "cors" ELSE Handler(c))
  BY DEF Begin
<1>2. c \in Call /\ (c.do # "list" => c.at \in Bucket) /\ (c.do = "list" => c.at = None)
  BY CallFacts
<1>3. /\ Handler(c) \in {"answer", "readdir", "rlock", "lock"}
      /\ Handler(c) \in {"rlock", "lock"} => c.do # "list"
  BY <1>2, HandlerFacts
<1> QED BY <1>1, <1>2, <1>3
        DEF Begin, Goto, Held, Types, AtBucket, WriterHolds, OfOne, Inside, Steps, At, locks

LEMMA CorsRulesHeld ==
    ASSUME Held, NEW r \in Req, corsRules(r)
    PROVE  Held'
<1>1. call[r] \in Call /\ At(r) \in Bucket
  BY DEF corsRules, Held, AtBucket, OfOne
<1>2. Handler(call[r]) \in {"answer", "readdir", "rlock", "lock"}
  BY <1>1, HandlerFacts
<1> QED BY <1>1, <1>2
        DEF corsRules, Goto, RUnlock, Held, Types, AtBucket, WriterHolds, OfOne, Inside, Steps, At

LEMMA ReadersHeld ==
    ASSUME Held, NEW r \in Req,
           Return(r) \/ AskShared(r) \/ ReadBucket(r) \/ ReadDir(r) \/ AskNext(r) \/ Visit(r)
             \/ EndOfList(r)
    PROVE  Held'
<1>. USE DEF Goto, Held, Types, AtBucket, WriterHolds, OfOne, Inside, Steps, At, locks
<1>1. CASE Return(r)
  BY <1>1 DEF Return
<1>2. CASE AskShared(r)
  BY <1>2 DEF AskShared, RLock
<1>3. CASE ReadBucket(r)
  BY <1>3 DEF ReadBucket, RUnlock
<1>4. CASE ReadDir(r)
  BY <1>4 DEF ReadDir
<1>5. CASE AskNext(r)
  BY <1>5 DEF AskNext, RLock
<1>6. CASE Visit(r)
  BY <1>6 DEF Visit, RUnlock
<1>7. CASE EndOfList(r)
  BY <1>7 DEF EndOfList
<1> QED BY <1>1, <1>2, <1>3, <1>4, <1>5, <1>6, <1>7

(* Who leaves lets go of its own lock only. *)
LEMMA LeaveHeld ==
    ASSUME Held, NEW r \in Req, pc[r] \in Inside, Leave(r)
    PROVE  Held'
<1>1. At(r) \in Bucket /\ writer[At(r)] = r
  BY DEF Held, AtBucket, WriterHolds, OfOne, Inside
<1>2. \A q \in Req : q # r /\ pc[q] \in Inside => At(q) # At(r)
  BY <1>1 DEF Held, WriterHolds
<1> QED BY <1>1, <1>2
        DEF Leave, Done, Goto, Unlock, Held, Types, AtBucket, WriterHolds, OfOne, Inside, Steps, At

LEMMA WritersHeld ==
    ASSUME Held, NEW r \in Req,
           LockWriter(r) \/ CreateDirs(r) \/ RemoveJSON(r) \/ ReadForCORS(r) \/ StartBody(r)
    PROVE  Held'
<1>. USE DEF Goto, Enter, Held, Types, AtBucket, WriterHolds, OfOne, Inside, Steps, At, locks
<1>1. CASE LockWriter(r)
  <2>1. At(r) \in Bucket /\ writer[At(r)] = None
    BY <1>1 DEF LockWriter, Announce
  <2>2. \A q \in Req : pc[q] \in Inside => At(q) # At(r)
    BY <2>1, BucketAssumption
  <2> QED BY <1>1, <2>1, <2>2 DEF LockWriter, Announce
<1>2. CASE CreateDirs(r)
  BY <1>2 DEF CreateDirs
<1>3. CASE RemoveJSON(r)
  BY <1>3 DEF RemoveJSON
<1>4. CASE ReadForCORS(r)
  BY <1>4 DEF ReadForCORS
<1>5. CASE StartBody(r)
  BY <1>5 DEF StartBody
<1> QED BY <1>1, <1>2, <1>3, <1>4, <1>5

LEMMA LeaversHeld ==
    ASSUME Held, NEW r \in Req,
           Refused(r) \/ RemoveDir(r) \/ writeJSON(r) \/ BodyEnds(r) \/ Empty(r)
    PROVE  Held'
<1>1. pc[r] \in Inside /\ Leave(r)
  BY DEF Refused, RemoveDir, writeJSON, BodyEnds, Empty, Enter, Inside
<1> QED BY <1>1, LeaveHeld

LEMMA CrashHeld == ASSUME Held, Crash PROVE Held'
BY DEF Crash, LockReset, Held, Types, AtBucket, WriterHolds, OfOne, Inside, Steps

LEMMA NextHeld == ASSUME Held, Next PROVE Held'
<1>1. CASE Crash
  BY <1>1, CrashHeld
<1>2. ASSUME NEW r \in Req, Begin(r) \/ LockWriter(r) \/ ServerStep(r) \/ BodyEnds(r)
      PROVE  Held'
  BY <1>2, BeginHeld, CorsRulesHeld, ReadersHeld, WritersHeld, LeaversHeld DEF ServerStep
<1> QED BY <1>1, <1>2 DEF Next

-------------------------------------------------------------------------------
(* Dated is inductive, given Held.  A step brings no new date to a bucket,   *)
(* but for CreateDirs, and adds none to those that are gone, but for         *)
(* RemoveDir.                                                                *)
LEMMA NoNewDate ==
    ASSUME Dated, UNCHANGED <<births, gone>>,
           json' \in [Bucket -> Meta \cup {None}], acked' \in [Bucket -> Nat \cup {None}],
           \A r \in Req : InHand(r)', AckedAsMade',
           \A b \in Bucket : \A n : Has(b, n)' => Has(b, n)
    PROVE  Dated'
BY DEF Dated

(* Nothing in the hand of r, the files as they were. *)
Quiet(r) ==
    /\ UNCHANGED <<json, births, gone, acked>>
    /\ \A q \in Req \ {r} : pc'[q] = pc[q] /\ call'[q] = call[q] /\ got'[q] = got[q]
    /\ pc'[r] \notin {"json", "rmdir"}

LEMMA QuietDated ==
    ASSUME Dated, NEW r \in Req, Quiet(r)
    PROVE  Dated'
<1>1. \A q \in Req : InHand(q)'
  BY DEF Dated, Quiet, InHand, At
<1>2. \A b \in Bucket : \A n : Has(b, n)' => Has(b, n)
  BY DEF Quiet, Has, At
<1>3. /\ AckedAsMade' /\ UNCHANGED <<births, gone>>
      /\ json' \in [Bucket -> Meta \cup {None}] /\ acked' \in [Bucket -> Nat \cup {None}]
  BY DEF Dated, Quiet, AckedAsMade
<1> QED BY <1>1, <1>2, <1>3, NoNewDate

LEMMA QuietSteps ==
    ASSUME Held, NEW r \in Req,
           \/ Begin(r) \/ Return(r) \/ AskShared(r) \/ corsRules(r) \/ ReadBucket(r)
           \/ ReadDir(r) \/ AskNext(r) \/ Visit(r) \/ EndOfList(r)
           \/ LockWriter(r) \/ Refused(r) \/ StartBody(r) \/ BodyEnds(r) \/ Empty(r)
    PROVE  Quiet(r)
<1>. USE DEF Goto, Held, Types, Quiet, disk
<1>1. CASE Begin(r)
  <2>1. PICK c \in CallsOf[r] :
          /\ call' = [call EXCEPT ![r] = c]
          /\ Goto(r, IF c.origin /\ c.at # None THEN "cors" ELSE Handler(c))
    BY <1>1 DEF Begin
  <2>2. Handler(c) \notin {"json", "rmdir"}
    BY CallFacts, HandlerFacts
  <2> QED BY <1>1, <2>1, <2>2 DEF Begin
<1>2. CASE corsRules(r)
  <2>1. Handler(call[r]) \notin {"json", "rmdir"}
    BY <1>2, HandlerFacts DEF corsRules, AtBucket, OfOne
  <2> QED BY <1>2, <2>1 DEF corsRules
<1>3. CASE Return(r) \/ AskShared(r) \/ ReadBucket(r) \/ ReadDir(r)
  BY <1>3 DEF Return, AskShared, ReadBucket, ReadDir
<1>4. CASE AskNext(r) \/ Visit(r) \/ EndOfList(r) \/ LockWriter(r) \/ StartBody(r)
  BY <1>4 DEF AskNext, Visit, EndOfList, LockWriter, StartBody
<1>5. CASE Refused(r)
  BY <1>5 DEF Refused, Leave, Done
<1>6. CASE BodyEnds(r) \/ Empty(r)
  BY <1>6 DEF BodyEnds, Empty, Leave, Done
<1> QED BY <1>1, <1>2, <1>3, <1>4, <1>5, <1>6

(* Nobody else is inside with r, which has the lock. *)
LEMMA AloneInside ==
    ASSUME Held, NEW r \in Req, pc[r] \in Inside
    PROVE  /\ call[r] \in Call /\ At(r) \in Bucket
           /\ \A q \in Req : q # r /\ pc[q] \in {"json", "rmdir"} => At(q) \in Bucket /\ At(q) # At(r)
BY DEF Held, AtBucket, WriterHolds, OfOne, Inside

LEMMA ReadForCORSDated ==
    ASSUME Inv, NEW r \in Req, ReadForCORS(r)
    PROVE  Dated'
<1>1. /\ pc[r] = "drain" /\ call[r] \in Call /\ At(r) \in Bucket
      /\ json[At(r)] \in Meta
  BY AloneInside DEF Inv, ReadForCORS, Enter, Inside, Dated
<1>2. NewRules(r) \in Meta /\ NewRules(r).born = json[At(r)].born
  BY <1>1 DEF NewRules, Meta, Call
<1>3. /\ got'[r] = NewRules(r) /\ pc'[r] = "json" /\ UNCHANGED <<call, json, births, gone, acked>>
      /\ \A q \in Req : q # r => pc'[q] = pc[q] /\ got'[q] = got[q]
  BY DEF Inv, Held, Types, ReadForCORS, Goto, disk
<1>4. \A q \in Req : InHand(q)'
  BY <1>1, <1>2, <1>3 DEF Inv, Dated, InHand, At
<1>5. \A b \in Bucket : \A n : Has(b, n)' => Has(b, n)
  BY <1>1, <1>2, <1>3, NoneAssumption DEF Has, At
<1>6. AckedAsMade'
  BY <1>3 DEF Inv, Dated, AckedAsMade
<1> QED BY <1>3, <1>4, <1>5, <1>6, NoNewDate DEF Inv, Dated

LEMMA RemoveJSONDated ==
    ASSUME Inv, NEW r \in Req, RemoveJSON(r)
    PROVE  Dated'
<1>1. /\ pc[r] = "drain" /\ At(r) \in Bucket /\ json[At(r)] \in Meta
      /\ \A q \in Req : q # r /\ pc[q] \in {"json", "rmdir"} => At(q) \in Bucket /\ At(q) # At(r)
  BY AloneInside DEF Inv, RemoveJSON, Enter, Inside, Dated
<1>2. /\ got'[r] = json[At(r)] /\ pc'[r] = "rmdir" /\ UNCHANGED <<call, births, gone>>
      /\ json' = [json EXCEPT ![At(r)] = None] /\ acked' = [acked EXCEPT ![At(r)] = None]
      /\ \A q \in Req : q # r => pc'[q] = pc[q] /\ got'[q] = got[q]
  BY DEF Inv, Held, Types, RemoveJSON, SetJSON, Goto
<1>3. /\ json' \in [Bucket -> Meta \cup {None}] /\ acked' \in [Bucket -> Nat \cup {None}]
      /\ json'[At(r)] = None /\ acked'[At(r)] = None
      /\ \A b \in Bucket : b # At(r) => json'[b] = json[b] /\ acked'[b] = acked[b]
  BY <1>1, <1>2 DEF Inv, Dated
<1>4. \A q \in Req : InHand(q)'
  BY <1>1, <1>2, <1>3 DEF Inv, Dated, InHand, At
<1>5. \A b \in Bucket : \A n : Has(b, n)' => Has(b, n)
  BY <1>1, <1>2, <1>3, NoneAssumption DEF Has, At
<1>6. AckedAsMade'
  BY <1>3 DEF Inv, Dated, AckedAsMade
<1> QED BY <1>2, <1>3, <1>4, <1>5, <1>6, NoNewDate DEF Inv

LEMMA WriteJSONDated ==
    ASSUME Inv, NEW r \in Req, writeJSON(r)
    PROVE  Dated'
<1>1. /\ pc[r] = "json" /\ At(r) \in Bucket /\ got[r] \in Meta
      /\ \A q \in Req : q # r /\ pc[q] \in {"json", "rmdir"} => At(q) \in Bucket /\ At(q) # At(r)
  BY AloneInside DEF Inv, writeJSON, Inside, Dated, InHand
<1>2. /\ pc'[r] = "idle" /\ UNCHANGED <<births, gone>>
      /\ json' = [json EXCEPT ![At(r)] = got[r]]
      /\ acked' = [acked EXCEPT ![At(r)] = got[r].born]
      /\ \A q \in Req : q # r => pc'[q] = pc[q] /\ call'[q] = call[q] /\ got'[q] = got[q]
  BY DEF Inv, Held, Types, writeJSON, SetJSON, Leave, Done, Goto
<1>3. /\ json' \in [Bucket -> Meta \cup {None}] /\ acked' \in [Bucket -> Nat \cup {None}]
      /\ json'[At(r)] = got[r] /\ acked'[At(r)] = got[r].born
      /\ \A b \in Bucket : b # At(r) => json'[b] = json[b] /\ acked'[b] = acked[b]
  BY <1>1, <1>2 DEF Inv, Dated, Meta
<1>4. \A q \in Req : InHand(q)'
  BY <1>1, <1>2, <1>3 DEF Inv, Dated, InHand, At
<1>5. \A b \in Bucket : \A n : Has(b, n)' => Has(b, n)
  BY <1>1, <1>2, <1>3 DEF Has, At
<1>6. AckedAsMade'
  BY <1>1, <1>3, NoneAssumption DEF Inv, Dated, AckedAsMade
<1> QED BY <1>2, <1>3, <1>4, <1>5, <1>6, NoNewDate DEF Inv

LEMMA CrashDated ==
    ASSUME Inv, Crash
    PROVE  Dated'
<1>1. \A q \in Req : pc'[q] = "idle"
  BY DEF Crash
<1>2. (\A q \in Req : InHand(q)') /\ AckedAsMade' /\ UNCHANGED <<json, acked, births, gone>>
  BY <1>1 DEF Inv, Dated, InHand, AckedAsMade, Crash, disk
<1>3. \A b \in Bucket : \A n : Has(b, n)' => Has(b, n)
  BY <1>1, <1>2 DEF Has
<1> QED BY <1>2, <1>3, NoNewDate DEF Inv, Dated

(* A new date is greater than those of all buckets, the deleted ones         *)
(* included.                                                                 *)
LEMMA CreateDirsDated ==
    ASSUME Inv, NEW r \in Req, CreateDirs(r)
    PROVE  Dated'
<1>1. /\ pc[r] = "drain" /\ At(r) \in Bucket /\ json[At(r)] = None
      /\ \A q \in Req : q # r /\ pc[q] \in {"json", "rmdir"} => At(q) \in Bucket /\ At(q) # At(r)
  BY AloneInside DEF Inv, CreateDirs, Enter, Inside
<1>2. /\ got'[r] = [born |-> births + 1, rules |-> Unset] /\ pc'[r] = "json"
      /\ births' = births + 1 /\ UNCHANGED <<call, json, gone, acked>>
      /\ \A q \in Req : q # r => pc'[q] = pc[q] /\ got'[q] = got[q]
  BY DEF Inv, Held, Types, CreateDirs, Goto
<1>3. births \in Nat /\ gone \subseteq 1..births /\ births + 1 \notin gone
  BY DEF Inv, Dated
<1>4. got'[r] \in Meta /\ got'[r].born = births + 1
  BY <1>2, <1>3 DEF Meta
<1>5. \A q \in Req : InHand(q)'
  BY <1>1, <1>2, <1>4 DEF Inv, Dated, InHand, At
<1>6. \A b \in Bucket : \A n : Has(b, n)' => Has(b, n) \/ (b = At(r) /\ n = births + 1)
  BY <1>2, <1>4 DEF Has, At
<1>7. \A b \in Bucket : ~ Has(b, births + 1)
  BY <1>3 DEF Inv, Dated
<1>8. \A b \in Bucket : \A n : Has(b, n)' => n \in 1..births' /\ n \notin gone'
  BY <1>2, <1>3, <1>6 DEF Inv, Dated
<1>9. \A b, c \in Bucket : \A n : Has(b, n)' /\ Has(c, n)' => b = c
  BY <1>6, <1>7 DEF Inv, Dated
<1>10. AckedAsMade' /\ births' \in Nat /\ gone' \subseteq 1..births'
  BY <1>2, <1>3 DEF Inv, Dated, AckedAsMade
<1> QED BY <1>2, <1>5, <1>8, <1>9, <1>10 DEF Inv, Dated

(* What is gone had its date to itself. *)
LEMMA RemoveDirDated ==
    ASSUME Inv, NEW r \in Req, RemoveDir(r)
    PROVE  Dated'
<1>0. PICK n0 : n0 = got[r].born
  OBVIOUS
<1>1. /\ pc[r] = "rmdir" /\ At(r) \in Bucket /\ json[At(r)] = None /\ got[r] \in Meta
      /\ \A q \in Req : q # r /\ pc[q] \in {"json", "rmdir"} => At(q) \in Bucket /\ At(q) # At(r)
  BY AloneInside DEF Inv, RemoveDir, Inside, Dated, InHand
<1>2. /\ pc'[r] = "idle" /\ UNCHANGED <<json, births, acked>> /\ gone' = gone \cup {n0}
      /\ \A q \in Req : q # r => pc'[q] = pc[q] /\ call'[q] = call[q] /\ got'[q] = got[q]
  BY <1>0 DEF Inv, Held, Types, RemoveDir, Leave, Done, Goto
<1>3. Has(At(r), n0) /\ n0 \in 1..births
  BY <1>0, <1>1 DEF Has, Inv, Dated
<1>4. \A b \in Bucket : \A n : Has(b, n)' => Has(b, n) /\ b # At(r)
  BY <1>1, <1>2 DEF Has, At
<1>5. \A b \in Bucket : ~ Has(b, n0)'
  BY <1>1, <1>3, <1>4 DEF Inv, Dated
<1>6. \A b \in Bucket : \A n : Has(b, n)' => n \in 1..births' /\ n \notin gone'
  BY <1>2, <1>4, <1>5 DEF Inv, Dated
<1>7. \A q \in Req : InHand(q)'
  BY <1>1, <1>2 DEF Inv, Dated, InHand, At
<1>8. \A b, c \in Bucket : \A n : Has(b, n)' /\ Has(c, n)' => b = c
  BY <1>4 DEF Inv, Dated
<1>9. AckedAsMade' /\ gone' \subseteq 1..births'
  BY <1>2, <1>3 DEF Inv, Dated, AckedAsMade
<1> QED BY <1>2, <1>6, <1>7, <1>8, <1>9 DEF Inv, Dated

LEMMA NextDated == ASSUME Inv, Next PROVE Dated'
<1>1. CASE Crash
  BY <1>1, CrashDated
<1>2. ASSUME NEW r \in Req, Begin(r) \/ LockWriter(r) \/ ServerStep(r) \/ BodyEnds(r)
      PROVE  Dated'
  BY <1>2, QuietSteps, QuietDated, CreateDirsDated, RemoveJSONDated, RemoveDirDated,
     ReadForCORSDated, WriteJSONDated DEF ServerStep, Inv
<1> QED BY <1>1, <1>2 DEF Next

-------------------------------------------------------------------------------
LEMMA StutterInv == ASSUME Inv, UNCHANGED vars PROVE Inv'
BY DEF vars, locks, disk, Inv, Held, Types, AtBucket, WriterHolds, At, Dated, Has, InHand,
       AckedAsMade

LEMMA InvKeeps == Inv => AckedBucketsKept
<1> SUFFICES ASSUME Inv, NEW b \in Bucket
             PROVE  /\ acked[b] # None => BornOf(json[b]) = acked[b]
                    /\ BornOf(json[b]) \notin gone
  BY DEF AckedBucketsKept
<1>1. json[b] # None => Has(b, json[b].born)
  BY DEF Has
<1>2. None \notin gone
  <2>1. gone \subseteq Nat
    BY DEF Inv, Dated
  <2> QED BY <2>1, NoneAssumption
<1> QED BY <1>1, <1>2 DEF Inv, Dated, AckedAsMade, BornOf

(* A bucket that a client was told exists is there with its date until a     *)
(* DeleteBucket begins to remove it, and one that a client was told is       *)
(* deleted does not come back (store.go: CreateBucket, DeleteBucket,         *)
(* PutCORS, DeleteCORS), whatever else happens and wherever the process dies.*)
THEOREM BucketsKept == Spec => []AckedBucketsKept
<1>1. Inv /\ [Next]_vars => Inv'
  BY NextHeld, NextDated, StutterInv DEF Inv
<1>2. Spec => []Inv
  BY <1>1, InitInv, PTL DEF Spec
<1> QED BY <1>2, InvKeeps, PTL

-------------------------------------------------------------------------------
(* The answers.  While a call is watched, what it would be answered now has  *)
(* been so at some moment of it, and what has been so all the time is so     *)
(* now; what ListBuckets has gathered was so, and lacks only buckets that it *)
(* has still to visit.                                                       *)
Fits(r) ==
    pc[r] # "idle" =>
        /\ call[r] \in Call
        /\ call[r].do = "list" <=> call[r].at = None
        /\ pc[r] \in {"cors", "rules"} => call[r].do # "list"
        /\ pc[r] \in {"rlock", "read"} => call[r].do \in Reading
        /\ pc[r] \in {"readdir", "walk", "visit"} => call[r].do = "list"
        /\ pc[r] \in {"lock", "drain", "json", "rmdir", "receive"} => call[r].do \in Writing

Gathered(r) ==
    /\ left[r] \subseteq Bucket
    /\ pc[r] = "visit" => left[r] # {}
    /\ got[r] \subseteq ever[r]
    /\ \A e \in always[r] : e \in got[r] \/ \E b \in left[r] : e \in Entry(b, json)

Truthful(r) ==
    Watching(r) =>
        /\ AnswerIn(call[r], json) \subseteq ever[r]
        /\ always[r] \subseteq AnswerIn(call[r], json)
        /\ pc[r] = "answer" => always[r] \subseteq got[r] /\ got[r] \subseteq ever[r]
        /\ pc[r] \in {"walk", "visit"} => Gathered(r)

(* A bucket.json lies in a directory, and a writer has made it before.       *)
DirsHold ==
    /\ dir \subseteq Bucket
    /\ \A b \in Bucket : json[b] # None => b \in dir
    /\ \A r \in Req : pc[r] = "json" => At(r) \in dir

Ranges ==
    /\ left \in [Req -> SUBSET Bucket]
    /\ DOMAIN ever = Req /\ DOMAIN always = Req

Answering == Ranges /\ DirsHold /\ \A r \in Req : Fits(r) /\ Truthful(r)

AInv == Inv /\ Answering

LEMMA SmallestName ==
    ASSUME NEW S \in SUBSET Bucket, S # {}
    PROVE  \E m \in S : \A n \in S : m <= n
<1> DEFINE R == OpToRel(<, Nat)
<1>0. S \subseteq Nat
  BY BucketAssumption
<1>1. PICK m \in S : \A n \in S : <<n, m>> \notin R
  <2>1. IsWellFoundedOn(R, Nat)
    BY NatLessThanWellFounded
  <2> HIDE DEF R
  <2> QED BY <1>0, <2>1, WFMin
<1>2. ASSUME NEW n \in S PROVE ~ (n < m)
  <2>1. n < m => <<n, m>> \in R
    BY <1>0 DEF OpToRel
  <2> QED BY <1>1, <2>1
<1> QED BY <1>0, <1>2

LEMMA NextNameFacts ==
    ASSUME NEW r \in Req, left[r] \subseteq Bucket, left[r] # {}
    PROVE  NextName(r) \in left[r]
BY SmallestName DEF NextName

LEMMA HandlerFits ==
    ASSUME NEW c \in Call
    PROVE  /\ Handler(c) \in {"answer", "readdir", "rlock", "lock"}
           /\ Handler(c) = "answer" <=> c.do = "options"
           /\ Handler(c) = "readdir" <=> c.do = "list"
           /\ Handler(c) = "rlock" <=> c.do \in Reading
           /\ Handler(c) = "lock" <=> c.do \in Writing
BY DEF Handler, Call, Reading, Writing

LEMMA WritingUnwatched ==
    ASSUME NEW c \in Call, c.do \in Writing
    PROVE  ~ Watched(c) /\ c.do \notin Reading \cup {"list", "options"}
BY DEF Watched, Writing, Reading

(* A request that a step leaves alone. *)
Same(q) ==
    /\ pc'[q] = pc[q] /\ call'[q] = call[q] /\ got'[q] = got[q]
    /\ left'[q] = left[q] /\ ever'[q] = ever[q] /\ always'[q] = always[q]

LEMMA SameAnswers ==
    ASSUME Answering, NEW q \in Req, Same(q), json' = json
    PROVE  Fits(q)' /\ Truthful(q)'
<1>1. Fits(q)'
  BY DEF Answering, Fits, Same
<1>2. Truthful(q)'
  BY DEF Answering, Truthful, Same, Watching, Gathered
<1> QED BY <1>1, <1>2

(* A request whose call is not watched, or that is idle. *)
LEMMA UnwatchedAnswers ==
    ASSUME NEW q \in Req, pc'[q] = "idle" \/ ~ Watched(call'[q])
    PROVE  Truthful(q)'
BY DEF Truthful, Watching

LEMMA BeginAnswers ==
    ASSUME AInv, NEW r \in Req, Begin(r)
    PROVE  Answering'
<1>1. PICK c \in CallsOf[r] :
        /\ call' = [call EXCEPT ![r] = c]
        /\ LET now == IF Watched(c) THEN AnswerIn(c, json) ELSE {}
           IN ever' = [ever EXCEPT ![r] = now] /\ always' = [always EXCEPT ![r] = now]
        /\ Goto(r, IF c.origin /\ c.at # None THEN "cors" ELSE Handler(c))
  BY DEF Begin
<1>2. /\ c \in Call /\ (c.do = "list" <=> c.at = None) /\ (c.do = "options" => c.origin)
  BY CallsAssumption
<1>3. /\ UNCHANGED <<dir, json, got, left>>
      /\ \A q \in Req \ {r} : Same(q)
  BY <1>1 DEF AInv, Inv, Held, Types, Answering, Ranges, Begin, Goto, disk, Same
<1>4. /\ call'[r] = c
      /\ pc'[r] = IF c.origin /\ c.at # None THEN "cors" ELSE Handler(c)
      /\ Watched(c) => ever'[r] = AnswerIn(c, json) /\ always'[r] = AnswerIn(c, json)
  BY <1>1 DEF AInv, Inv, Held, Types, Answering, Ranges, Goto
<1>5. pc'[r] \in {"cors", "readdir", "rlock", "lock"}
  BY <1>2, <1>4, HandlerFits
<1>6. Fits(r)'
  BY <1>2, <1>4, HandlerFits DEF Fits
<1>7. Truthful(r)'
  BY <1>3, <1>4, <1>5 DEF Truthful, Watching
<1>8. Ranges'
  BY <1>1, <1>3 DEF AInv, Answering, Ranges
<1>9. DirsHold'
  BY <1>3, <1>5 DEF AInv, Answering, DirsHold, Same, At
<1> QED BY <1>3, <1>6, <1>7, <1>8, <1>9, SameAnswers DEF AInv, Answering

(* Steps of a reader on one bucket: the answer is what is so under the lock. *)
LEMMA ReadersAnswer ==
    ASSUME AInv, NEW r \in Req, Return(r) \/ AskShared(r) \/ corsRules(r) \/ ReadBucket(r)
    PROVE  Answering'
<1>1. /\ UNCHANGED <<dir, json>> /\ pc[r] # "idle"
      /\ \A q \in Req \ {r} : Same(q)
  BY DEF AInv, Inv, Held, Types, Answering, Ranges, Return, AskShared, corsRules, ReadBucket,
         Goto, disk, Same
<1>2. Ranges'
  BY DEF AInv, Answering, Ranges, Return, AskShared, corsRules, ReadBucket
<1>3. Fits(r) /\ Truthful(r) /\ call[r] \in Call
  BY <1>1 DEF AInv, Answering, Fits
<1>4. CASE Return(r)
  <2>1. pc'[r] = "idle"
    BY <1>4 DEF AInv, Inv, Held, Types, Return, Goto
  <2>2. DirsHold'
    BY <1>1, <2>1 DEF AInv, Answering, DirsHold, Same, At
  <2> QED BY <1>1, <1>2, <2>1, <2>2, SameAnswers, UnwatchedAnswers DEF AInv, Answering, Fits
<1>5. CASE AskShared(r)
  <2>1. /\ pc'[r] = IF pc[r] = "cors" THEN "rules" ELSE "read"
        /\ pc[r] \in {"cors", "rlock"}
        /\ UNCHANGED <<call, got, left, ever, always>>
    BY <1>5 DEF AInv, Inv, Held, Types, AskShared, Goto
  <2>2. DirsHold'
    BY <1>1, <2>1 DEF AInv, Answering, DirsHold, Same, At
  <2>3. Fits(r)' /\ Truthful(r)'
    BY <1>1, <1>3, <2>1 DEF Fits, Truthful, Watching
  <2> QED BY <1>1, <1>2, <2>2, <2>3, SameAnswers DEF AInv, Answering
<1>6. CASE corsRules(r)
  <2>1. /\ pc[r] = "rules" /\ pc'[r] = Handler(call[r]) /\ UNCHANGED <<call, left, ever, always>>
        /\ got'[r] = IF call[r].do = "options" THEN AnswerIn(call[r], json) ELSE None
    BY <1>6 DEF AInv, Inv, Held, Types, corsRules, Goto
  <2>2. pc'[r] \in {"answer", "rlock", "lock"} /\ (pc'[r] = "answer" => call[r].do = "options")
    BY <1>3, <2>1, HandlerFits DEF Fits
  <2>3. DirsHold'
    BY <1>1, <2>1, <2>2 DEF AInv, Answering, DirsHold, Same, At
  <2>4. Fits(r)'
    BY <1>1, <1>3, <2>1, <2>2, HandlerFits DEF Fits
  <2>5. Truthful(r)'
    BY <1>1, <1>3, <2>1, <2>2 DEF Truthful, Watching
  <2> QED BY <1>1, <1>2, <2>3, <2>4, <2>5, SameAnswers DEF AInv, Answering
<1>7. CASE ReadBucket(r)
  <2>1. /\ pc[r] = "read" /\ pc'[r] = "answer" /\ UNCHANGED <<call, left, ever, always>>
        /\ got'[r] = AnswerIn(call[r], json)
    BY <1>7 DEF AInv, Inv, Held, Types, ReadBucket, Goto
  <2>2. DirsHold'
    BY <1>1, <2>1 DEF AInv, Answering, DirsHold, Same, At
  <2>3. Fits(r)' /\ Truthful(r)'
    BY <1>1, <1>3, <2>1 DEF Fits, Truthful, Watching
  <2> QED BY <1>1, <1>2, <2>2, <2>3, SameAnswers DEF AInv, Answering
<1> QED BY <1>4, <1>5, <1>6, <1>7

(* ListBuckets: what was there at the beginning of the walk is gathered or   *)
(* still to be visited, and a visit gathers what is so at that moment.       *)
LEMMA ReadDirAnswers ==
    ASSUME AInv, NEW r \in Req, ReadDir(r)
    PROVE  Answering'
<1>1. /\ UNCHANGED <<dir, json, call, ever, always>> /\ pc[r] = "readdir" /\ pc'[r] = "walk"
      /\ left'[r] = dir /\ got'[r] = {}
      /\ \A q \in Req \ {r} : Same(q)
  BY DEF AInv, Inv, Held, Types, Answering, Ranges, ReadDir, Goto, disk, Same
<1>2. Ranges'
  BY DEF AInv, Answering, Ranges, DirsHold, ReadDir
<1>3. DirsHold'
  BY <1>1 DEF AInv, Answering, DirsHold, Same, At
<1>4. Fits(r)'
  BY <1>1 DEF AInv, Answering, Fits
<1>5. /\ call[r].do = "list" /\ Watching(r) /\ Watching(r)'
  BY <1>1 DEF AInv, Answering, Fits, Watching, Watched
<1>6. ASSUME NEW e \in always[r] PROVE \E b \in dir : e \in Entry(b, json)
  <2>1. e \in UNION {Entry(b, json) : b \in Bucket}
    BY <1>5 DEF AInv, Answering, Truthful, AnswerIn
  <2>2. PICK b \in Bucket : e \in Entry(b, json)
    BY <2>1
  <2> QED BY <2>2 DEF Entry, AInv, Answering, DirsHold
<1>7. Gathered(r)'
  BY <1>1, <1>6 DEF Gathered, AInv, Answering, DirsHold
<1>8. Truthful(r)'
  BY <1>1, <1>5, <1>7 DEF Truthful, AInv, Answering
<1> QED BY <1>1, <1>2, <1>3, <1>4, <1>8, SameAnswers DEF AInv, Answering

LEMMA VisitAnswers ==
    ASSUME AInv, NEW r \in Req, Visit(r)
    PROVE  Answering'
<1>1. /\ UNCHANGED <<dir, json, call, ever, always>> /\ pc[r] = "visit" /\ pc'[r] = "walk"
      /\ left'[r] = left[r] \ {NextName(r)} /\ got'[r] = got[r] \cup Entry(NextName(r), json)
      /\ \A q \in Req \ {r} : Same(q)
  BY DEF AInv, Inv, Held, Types, Answering, Ranges, Visit, Goto, disk, Same
<1>2. Ranges'
  BY DEF AInv, Answering, Ranges, Visit
<1>3. DirsHold'
  BY <1>1 DEF AInv, Answering, DirsHold, Same, At
<1>4. Fits(r)'
  BY <1>1 DEF AInv, Answering, Fits
<1>5. call[r].do = "list" /\ Watching(r) /\ Watching(r)' /\ Gathered(r)
  BY <1>1 DEF AInv, Answering, Fits, Watching, Watched, Truthful
<1>6. NextName(r) \in left[r] /\ NextName(r) \in Bucket
  BY <1>1, <1>5, NextNameFacts DEF Gathered
<1>7. Entry(NextName(r), json) \subseteq ever[r]
  <2>1. UNION {Entry(b, json) : b \in Bucket} \subseteq ever[r]
    BY <1>5 DEF AInv, Answering, Truthful, AnswerIn
  <2> QED BY <1>6, <2>1
<1>8. Gathered(r)'
  BY <1>1, <1>5, <1>7 DEF Gathered
<1>9. Truthful(r)'
  BY <1>1, <1>5, <1>8 DEF Truthful, AInv, Answering
<1> QED BY <1>1, <1>2, <1>3, <1>4, <1>9, SameAnswers DEF AInv, Answering

LEMMA WalkAnswers ==
    ASSUME AInv, NEW r \in Req, AskNext(r) \/ EndOfList(r)
    PROVE  Answering'
<1>1. /\ UNCHANGED <<dir, json, call, got, left, ever, always>> /\ pc[r] = "walk"
      /\ \/ pc'[r] = "visit" /\ left[r] # {}
         \/ pc'[r] = "answer" /\ left[r] = {}
      /\ \A q \in Req \ {r} : Same(q)
  BY DEF AInv, Inv, Held, Types, Answering, Ranges, AskNext, EndOfList, Goto, disk, Same
<1>2. Ranges' /\ DirsHold'
  BY <1>1 DEF AInv, Answering, Ranges, DirsHold, Same, At
<1>3. Fits(r)'
  BY <1>1 DEF AInv, Answering, Fits
<1>4. Truthful(r)'
  BY <1>1 DEF AInv, Answering, Truthful, Watching, Gathered
<1> QED BY <1>1, <1>2, <1>3, <1>4, SameAnswers DEF AInv, Answering

(* Writers, whose own calls are not watched, that change no bucket.json.     *)
LEMMA WritersAnswer ==
    ASSUME AInv, NEW r \in Req,
           LockWriter(r) \/ CreateDirs(r) \/ ReadForCORS(r) \/ StartBody(r)
    PROVE  Answering'
<1>1. /\ UNCHANGED <<json, call, left, ever, always>>
      /\ pc[r] \in {"lock", "drain"} /\ pc'[r] \in {"drain", "json", "receive"}
      /\ \A q \in Req \ {r} : Same(q)
  BY DEF AInv, Inv, Held, Types, Answering, Ranges, LockWriter, CreateDirs, ReadForCORS, StartBody,
         Enter, Goto, disk, Same
<1>2. At(r) \in Bucket /\ call[r] \in Call /\ call[r].do \in Writing
  BY <1>1 DEF AInv, Inv, Held, AtBucket, OfOne, Answering, Fits
<1>3. \/ dir' = dir /\ (pc'[r] = "json" => json[At(r)] # None)
      \/ dir' = dir \cup {At(r)}
  BY <1>1 DEF AInv, Inv, Held, Types, LockWriter, CreateDirs, ReadForCORS, StartBody, Goto, disk
<1>4. Ranges' /\ DirsHold'
  BY <1>1, <1>2, <1>3 DEF AInv, Answering, Ranges, DirsHold, Same, At
<1>5. Fits(r)'
  BY <1>1 DEF AInv, Answering, Fits
<1>6. Truthful(r)'
  BY <1>1, <1>2, WritingUnwatched, UnwatchedAnswers
<1> QED BY <1>1, <1>4, <1>5, <1>6, SameAnswers DEF AInv, Answering

LEMMA LeaversAnswer ==
    ASSUME AInv, NEW r \in Req, Refused(r) \/ RemoveDir(r) \/ BodyEnds(r) \/ Empty(r)
    PROVE  Answering'
<1>1. /\ UNCHANGED <<json, left, ever, always>> /\ pc[r] \in Inside /\ pc'[r] = "idle"
      /\ dir' = IF pc[r] = "rmdir" THEN dir \ {At(r)} ELSE dir
      /\ \A q \in Req \ {r} : Same(q)
  BY DEF AInv, Inv, Held, Types, Answering, Ranges, Refused, RemoveDir, BodyEnds, Empty,
         Enter, Leave, Done, Goto, disk, Same, Inside
<1>2. /\ At(r) \in Bucket /\ (pc[r] = "rmdir" => json[At(r)] = None)
      /\ \A q \in Req : q # r /\ pc[q] = "json" => At(q) # At(r)
  BY <1>1, AloneInside DEF AInv, Inv, Dated, InHand
<1>3. Ranges' /\ DirsHold'
  BY <1>1, <1>2 DEF AInv, Answering, Ranges, DirsHold, Same, At
<1>4. Fits(r)' /\ Truthful(r)'
  BY <1>1, UnwatchedAnswers DEF Fits
<1> QED BY <1>1, <1>3, <1>4, SameAnswers DEF AInv, Answering

(* A new bucket.json: what was so all the time is cut down to what is so     *)
(* now, and what is so now has been so at some moment.                       *)
LEMMA SetAnswers ==
    ASSUME AInv, NEW b \in Bucket, NEW m, SetJSON(b, m),
           NEW q \in Req, pc'[q] = pc[q], call'[q] = call[q], got'[q] = got[q], left'[q] = left[q]
    PROVE  Fits(q)' /\ Truthful(q)'
<1>1. Fits(q)'
  BY DEF AInv, Answering, Fits
<1>2. Watching(q) => /\ ever'[q] = ever[q] \cup AnswerIn(call[q], json')
                     /\ always'[q] = always[q] \cap AnswerIn(call[q], json')
  BY DEF SetJSON
<1>3. Watching(q)' => Watching(q)
  BY DEF Watching
<1>4. ASSUME Watching(q), pc[q] \in {"walk", "visit"} PROVE Gathered(q)'
  <2>1. Gathered(q)
    BY <1>4 DEF AInv, Answering, Truthful
  <2>2. call[q].do = "list"
    BY <1>4 DEF AInv, Answering, Fits
  <2>3. ASSUME NEW e \in always'[q]
        PROVE  e \in got[q] \/ \E c \in left[q] : e \in Entry(c, json')
    <3>1. e \in always[q] /\ e \in UNION {Entry(c, json') : c \in Bucket}
      BY <1>2, <1>4, <2>2 DEF AnswerIn
    <3>2. PICK c \in Bucket : e \in Entry(c, json')
      BY <3>1
    <3>3. e = <<c, json'[c].born>>
      BY <3>2 DEF Entry
    <3>4. CASE e \in got[q]
      BY <3>4
    <3>5. CASE \E d \in left[q] : e \in Entry(d, json)
      <4>1. PICK d \in left[q] : e \in Entry(d, json)
        BY <3>5
      <4>2. e = <<d, json[d].born>>
        BY <4>1 DEF Entry
      <4> QED BY <3>2, <3>3, <4>1, <4>2
    <3> QED BY <2>1, <3>1, <3>4, <3>5 DEF Gathered
  <2> QED BY <1>2, <1>4, <2>1, <2>3 DEF Gathered
<1>5. Truthful(q)'
  BY <1>2, <1>3, <1>4 DEF AInv, Answering, Truthful
<1> QED BY <1>1, <1>5

LEMMA RemoveJSONAnswers ==
    ASSUME AInv, NEW r \in Req, RemoveJSON(r)
    PROVE  Answering'
<1>1. /\ UNCHANGED <<dir, call, left>> /\ pc[r] = "drain" /\ pc'[r] = "rmdir"
      /\ SetJSON(At(r), None)
      /\ \A q \in Req \ {r} : pc'[q] = pc[q] /\ got'[q] = got[q]
  BY DEF AInv, Inv, Held, Types, RemoveJSON, Enter, Goto
<1>2. At(r) \in Bucket /\ call[r] \in Call /\ call[r].do \in Writing
  BY <1>1 DEF AInv, Inv, Held, AtBucket, OfOne, Answering, Fits
<1>3. Ranges' /\ DirsHold'
  BY <1>1 DEF SetJSON, AInv, Inv, Dated, Answering, Ranges, DirsHold, At
<1>4. Fits(r)' /\ Truthful(r)'
  BY <1>1, <1>2, WritingUnwatched, UnwatchedAnswers DEF AInv, Answering, Fits
<1> QED BY <1>1, <1>2, <1>3, <1>4, SetAnswers DEF Answering

LEMMA WriteJSONAnswers ==
    ASSUME AInv, NEW r \in Req, writeJSON(r)
    PROVE  Answering'
<1>1. /\ UNCHANGED <<dir, left>> /\ pc[r] = "json" /\ pc'[r] = "idle"
      /\ SetJSON(At(r), got[r])
      /\ \A q \in Req \ {r} : pc'[q] = pc[q] /\ call'[q] = call[q] /\ got'[q] = got[q]
  BY DEF AInv, Inv, Held, Types, writeJSON, Leave, Done, Goto
<1>2. At(r) \in Bucket /\ At(r) \in dir
  BY <1>1 DEF AInv, Inv, Held, AtBucket, OfOne, Answering, DirsHold
<1>3. Ranges' /\ DirsHold'
  BY <1>1, <1>2 DEF SetJSON, AInv, Inv, Dated, Answering, Ranges, DirsHold, At
<1>4. Fits(r)' /\ Truthful(r)'
  BY <1>1, UnwatchedAnswers DEF Fits
<1> QED BY <1>1, <1>2, <1>3, <1>4, SetAnswers DEF Answering

LEMMA CrashAnswers ==
    ASSUME AInv, Crash
    PROVE  Answering'
<1>1. \A q \in Req : pc'[q] = "idle"
  BY DEF Crash
<1>2. Ranges' /\ DirsHold'
  BY <1>1 DEF Crash, disk, AInv, Answering, Ranges, DirsHold
<1> QED BY <1>1, <1>2, UnwatchedAnswers DEF Answering, Fits

LEMMA NextAnswers == ASSUME AInv, Next PROVE Answering'
<1>1. CASE Crash
  BY <1>1, CrashAnswers
<1>2. ASSUME NEW r \in Req, Begin(r) \/ LockWriter(r) \/ ServerStep(r) \/ BodyEnds(r)
      PROVE  Answering'
  BY <1>2, BeginAnswers, ReadersAnswer, ReadDirAnswers, VisitAnswers, WalkAnswers, WritersAnswer,
     LeaversAnswer, RemoveJSONAnswers, WriteJSONAnswers DEF ServerStep
<1> QED BY <1>1, <1>2 DEF Next

LEMMA AInvHolds == Spec => []AInv
<1>1. Init => AInv
  <2> SUFFICES ASSUME Init PROVE AInv
    OBVIOUS
  <2>1. Ranges /\ DirsHold /\ \A r \in Req : Fits(r) /\ Truthful(r)
    BY DEF Init, Ranges, DirsHold, Fits, Truthful, Watching
  <2> QED BY <2>1, InitInv DEF AInv, Answering
<1>2. AInv /\ [Next]_vars => AInv'
  <2>1. CASE Next
    BY <2>1, NextHeld, NextDated, NextAnswers DEF AInv, Inv
  <2>2. ASSUME AInv, UNCHANGED vars PROVE AInv'
    <3>1. \A q \in Req : Same(q)
      BY <2>2 DEF vars, Same
    <3>2. Ranges' /\ DirsHold'
      BY <2>2 DEF vars, disk, AInv, Answering, Ranges, DirsHold, At
    <3> QED BY <2>2, <3>1, <3>2, SameAnswers, StutterInv DEF AInv, Answering, vars, disk
  <2> QED BY <2>1, <2>2
<1> QED BY <1>1, <1>2, PTL DEF Spec

(* What a request on buckets is answered was so at some moment of the call;  *)
(* a list of the buckets, put together under one lock after the other, has   *)
(* every bucket that was there all the time (store.go: Bucket, ListBuckets,  *)
(* CORS; server.go: writeCORS).                                              *)
THEOREM AnswersHold == Spec => []AnswersTrue
<1>1. AInv => AnswersTrue
  BY DEF AInv, Answering, Truthful, AnswersTrue, Watching
<1> QED BY <1>1, AInvHolds, PTL

-------------------------------------------------------------------------------
(* Types.  No reader is in a bucket with a writer at work, since new readers *)
(* park behind it; and the buckets created and being created stay within the *)
(* bound.                                                                    *)
AtWork == {"json", "rmdir", "receive"}

Drained == \A r \in Req : pc[r] \in AtWork => readers[At(r)] = {}

Makers == {q \in Req : Creating(q)}
Bounded == births + Cardinality(Makers) <= MaxBirths

Visiting == \A r \in Req : left[r] # {} => pc[r] \in {"walk", "visit"}

Typed ==
    /\ LockTypeOK /\ Drained /\ Bounded /\ Visiting
    /\ filled \subseteq Bucket /\ crashes \in 0..MaxCrashes

LEMMA MakersFacts ==
    /\ IsFiniteSet(Makers) /\ Cardinality(Makers) \in Nat
    /\ IsFiniteSet(Makers') /\ Cardinality(Makers') \in Nat
<1>1. Makers \subseteq Req /\ Makers' \subseteq Req
  BY DEF Makers
<1> QED BY <1>1, ReqAssumption, FS_Subset, FS_CardinalityType

(* A step by which nobody becomes a maker, and no bucket is made. *)
LEMMA FewerMakers ==
    ASSUME AInv, Bounded, births' = births, \A q \in Req : Creating(q)' => Creating(q)
    PROVE  Bounded'
<1>1. Makers' \subseteq Makers
  BY DEF Makers
<1>2. Cardinality(Makers') <= Cardinality(Makers)
  BY <1>1, MakersFacts, FS_Subset
<1> QED BY <1>2, MakersFacts, BoundAssumption DEF AInv, Inv, Dated, Bounded

LEMMA BeginBounded ==
    ASSUME AInv, Bounded, NEW r \in Req, Begin(r)
    PROVE  Bounded'
<1>1. PICK c \in CallsOf[r] :
        /\ c.do = "create" => births + Cardinality(Makers) < MaxBirths
        /\ call' = [call EXCEPT ![r] = c]
  BY DEF Begin, Makers
<1>2. /\ call'[r] = c /\ births' = births
      /\ \A q \in Req \ {r} : Creating(q)' = Creating(q)
  BY <1>1 DEF Begin, Goto, Creating, AInv, Inv, Held, Types, disk
<1>3. CASE c.do # "create"
  BY <1>2, <1>3, FewerMakers DEF Creating
<1>4. CASE c.do = "create"
  <2>1. Makers' \subseteq Makers \cup {r}
    BY <1>2 DEF Makers
  <2>2. /\ IsFiniteSet(Makers \cup {r})
        /\ Cardinality(Makers \cup {r}) \in {Cardinality(Makers), Cardinality(Makers) + 1}
    BY MakersFacts, FS_AddElement
  <2>3. Cardinality(Makers') <= Cardinality(Makers \cup {r})
    BY <2>1, <2>2, FS_Subset
  <2> QED BY <1>1, <1>2, <1>4, <2>2, <2>3, MakersFacts, BoundAssumption DEF AInv, Inv, Dated, Bounded
<1> QED BY <1>3, <1>4

LEMMA CreateDirsBounded ==
    ASSUME AInv, Bounded, NEW r \in Req, CreateDirs(r)
    PROVE  Bounded'
<1>1. /\ births' = births + 1 /\ Creating(r) /\ ~ Creating(r)'
      /\ \A q \in Req \ {r} : Creating(q)' = Creating(q)
  BY DEF CreateDirs, Enter, Goto, Creating, AInv, Inv, Held, Types
<1>2. r \in Makers /\ Makers' = Makers \ {r}
  BY <1>1 DEF Makers
<1>3. Cardinality(Makers') = Cardinality(Makers) - 1
  BY <1>2, MakersFacts, FS_RemoveElement
<1> QED BY <1>1, <1>3, MakersFacts, BoundAssumption DEF AInv, Inv, Dated, Bounded

LEMMA OthersBounded ==
    ASSUME AInv, Bounded, NEW r \in Req,
           \/ Return(r) \/ AskShared(r) \/ corsRules(r) \/ ReadBucket(r) \/ ReadDir(r) \/ AskNext(r)
           \/ Visit(r) \/ EndOfList(r) \/ LockWriter(r) \/ Refused(r) \/ RemoveJSON(r) \/ RemoveDir(r)
           \/ ReadForCORS(r) \/ writeJSON(r) \/ StartBody(r) \/ BodyEnds(r) \/ Empty(r)
    PROVE  Bounded'
<1>. USE DEF Goto, Creating, AInv, Inv, Held, Types, disk
<1>1. births' = births /\ \A q \in Req \ {r} : Creating(q)' = Creating(q)
  BY DEF Return, AskShared, corsRules, ReadBucket, ReadDir, AskNext, Visit, EndOfList, LockWriter,
         Refused, RemoveJSON, RemoveDir, ReadForCORS, writeJSON, StartBody, BodyEnds, Empty, Leave, Done
<1>2. Creating(r)' => Creating(r)
  <2>1. CASE Return(r) \/ AskShared(r) \/ ReadBucket(r) \/ ReadDir(r) \/ AskNext(r)
    BY <2>1 DEF Return, AskShared, ReadBucket, ReadDir, AskNext, Answering, Fits, Reading
  <2>2. CASE corsRules(r)
    BY <2>2 DEF corsRules
  <2>3. CASE Visit(r) \/ EndOfList(r) \/ LockWriter(r)
    BY <2>3 DEF Visit, EndOfList, LockWriter
  <2>4. CASE RemoveJSON(r) \/ ReadForCORS(r) \/ StartBody(r)
    BY <2>4 DEF RemoveJSON, ReadForCORS, StartBody
  <2>5. CASE Refused(r) \/ RemoveDir(r) \/ writeJSON(r) \/ BodyEnds(r) \/ Empty(r)
    BY <2>5 DEF Refused, RemoveDir, writeJSON, BodyEnds, Empty, Leave, Done
  <2> QED BY <2>1, <2>2, <2>3, <2>4, <2>5
<1> QED BY <1>1, <1>2, FewerMakers

-------------------------------------------------------------------------------
(* What the steps do to the lock. *)
LEMMA LockKept ==
    ASSUME LockTypeOK, NEW r \in Req, NEW b \in Bucket,
           \/ Announce(r, b) \/ Unlock(r, b) \/ RLock(r, b) \/ RUnlock(r, b)
    PROVE  /\ LockTypeOK'
           /\ \A c \in Bucket \ {b} : readers'[c] = readers[c]
           /\ RLock(r, b) /\ writer[b] # None => readers' = readers
           /\ Announce(r, b) => readers' = readers
           /\ RUnlock(r, b) => readers'[b] \subseteq readers[b]
<1>1. CASE Announce(r, b)
  BY <1>1 DEF Announce, LockTypeOK, RLock, RUnlock
<1>2. CASE Unlock(r, b)
  BY <1>2 DEF Unlock, LockTypeOK, Announce, RLock, RUnlock
<1>3. CASE RLock(r, b)
  BY <1>3 DEF RLock, LockTypeOK, Announce, RUnlock
<1>4. CASE RUnlock(r, b)
  BY <1>4 DEF RUnlock, LockTypeOK, Announce, RLock
<1> QED BY <1>1, <1>2, <1>3, <1>4

(* Who is at work holds the lock, so a reader of the bucket parks. *)
LEMMA AskersDrained ==
    ASSUME AInv, Typed, NEW r \in Req, AskShared(r) \/ AskNext(r)
    PROVE  LockTypeOK' /\ Drained'
<1>1. PICK b \in Bucket : RLock(r, b)
  <2>1. CASE AskShared(r)
    BY <2>1 DEF AskShared, AInv, Inv, Held, AtBucket, OfOne, At
  <2>2. CASE AskNext(r)
    <3>1. left[r] \subseteq Bucket /\ left[r] # {}
      BY <2>2 DEF AskNext, AInv, Answering, Ranges
    <3> QED BY <2>2, <3>1, NextNameFacts DEF AskNext
  <2> QED BY <2>1, <2>2
<1>2. /\ LockTypeOK'
      /\ \A c \in Bucket \ {b} : readers'[c] = readers[c]
      /\ writer[b] # None => readers' = readers
  BY <1>1, LockKept DEF Typed
<1>3. /\ call' = call /\ pc'[r] \notin AtWork
      /\ \A q \in Req \ {r} : pc'[q] = pc[q]
  BY DEF AskShared, AskNext, Goto, AInv, Inv, Held, Types, AtWork
<1>4. \A q \in Req : pc[q] \in AtWork => At(q) \in Bucket /\ writer[At(q)] # None
  BY BucketAssumption DEF AInv, Inv, Held, AtBucket, WriterHolds, OfOne, Inside, AtWork
<1>5. Drained'
  BY <1>2, <1>3, <1>4 DEF Typed, Drained, At
<1> QED BY <1>2, <1>5

LEMMA ReadersDrained ==
    ASSUME AInv, Typed, NEW r \in Req, corsRules(r) \/ ReadBucket(r) \/ Visit(r)
    PROVE  LockTypeOK' /\ Drained'
<1>1. PICK b \in Bucket : RUnlock(r, b)
  <2>1. CASE corsRules(r) \/ ReadBucket(r)
    BY <2>1 DEF corsRules, ReadBucket, AInv, Inv, Held, AtBucket, OfOne, At
  <2>2. CASE Visit(r)
    <3>1. Gathered(r)
      BY <2>2 DEF Visit, AInv, Answering, Fits, Truthful, Watching, Watched
    <3>2. left[r] \subseteq Bucket /\ left[r] # {}
      BY <2>2, <3>1 DEF Visit, Gathered
    <3> QED BY <2>2, <3>2, NextNameFacts DEF Visit
  <2> QED BY <2>1, <2>2
<1>2. LockTypeOK' /\ \A c \in Bucket : readers'[c] \subseteq readers[c]
  BY <1>1, LockKept DEF Typed
<1>3. /\ call' = call /\ pc'[r] \notin AtWork
      /\ \A q \in Req \ {r} : pc'[q] = pc[q]
  <2>1. CASE corsRules(r)
    <3>1. Handler(call[r]) \in {"answer", "readdir", "rlock", "lock"}
      BY <2>1, HandlerFacts DEF corsRules, AInv, Inv, Held, AtBucket, OfOne
    <3> QED BY <2>1, <3>1 DEF corsRules, Goto, AInv, Inv, Held, Types, AtWork
  <2>2. CASE ReadBucket(r) \/ Visit(r)
    BY <2>2 DEF ReadBucket, Visit, Goto, AInv, Inv, Held, Types, AtWork
  <2> QED BY <2>1, <2>2
<1>4. \A q \in Req : pc[q] \in AtWork => At(q) \in Bucket
  BY DEF AInv, Inv, Held, AtBucket, OfOne, AtWork
<1>5. Drained'
  BY <1>2, <1>3, <1>4 DEF Typed, Drained, At
<1> QED BY <1>2, <1>5

LEMMA WritersDrained ==
    ASSUME AInv, Typed, NEW r \in Req,
           LockWriter(r) \/ CreateDirs(r) \/ RemoveJSON(r) \/ ReadForCORS(r) \/ StartBody(r)
    PROVE  LockTypeOK' /\ Drained'
<1>1. /\ call' = call /\ \A q \in Req \ {r} : pc'[q] = pc[q]
  BY DEF LockWriter, CreateDirs, RemoveJSON, ReadForCORS, StartBody, Goto, AInv, Inv, Held, Types
<1>2. CASE LockWriter(r)
  <2>1. At(r) \in Bucket /\ Announce(r, At(r)) /\ pc'[r] \notin AtWork
    BY <1>2 DEF LockWriter, Goto, AInv, Inv, Held, Types, AtBucket, OfOne, AtWork
  <2>2. LockTypeOK' /\ readers' = readers
    BY <2>1, LockKept DEF Typed
  <2> QED BY <1>1, <2>1, <2>2 DEF Typed, Drained, At
<1>3. CASE CreateDirs(r) \/ RemoveJSON(r) \/ ReadForCORS(r) \/ StartBody(r)
  <2>1. readers[At(r)] = {} /\ UNCHANGED locks
    BY <1>3 DEF CreateDirs, RemoveJSON, ReadForCORS, StartBody, Enter, Exclusive
  <2> QED BY <1>1, <2>1 DEF Typed, Drained, At, locks, LockTypeOK
<1> QED BY <1>2, <1>3

(* Readers who parked behind a writer that leaves meet no other at work. *)
LEMMA LeaversDrained ==
    ASSUME AInv, Typed, NEW r \in Req,
           Refused(r) \/ RemoveDir(r) \/ writeJSON(r) \/ BodyEnds(r) \/ Empty(r)
    PROVE  LockTypeOK' /\ Drained'
<1>1. pc[r] \in Inside /\ Leave(r)
  BY DEF Refused, RemoveDir, writeJSON, BodyEnds, Empty, Enter, Inside
<1>2. At(r) \in Bucket /\ Unlock(r, At(r)) /\ writer[At(r)] = r
  BY <1>1 DEF Leave, AInv, Inv, Held, AtBucket, WriterHolds, OfOne, Inside
<1>3. LockTypeOK' /\ \A c \in Bucket \ {At(r)} : readers'[c] = readers[c]
  BY <1>2, LockKept DEF Typed
<1>4. /\ pc'[r] \notin AtWork
      /\ \A q \in Req \ {r} : pc'[q] = pc[q] /\ call'[q] = call[q]
  BY <1>1 DEF Leave, Done, Goto, AInv, Inv, Held, Types, AtWork
<1>5. \A q \in Req \ {r} : pc[q] \in AtWork => At(q) \in Bucket /\ At(q) # At(r)
  BY <1>2 DEF AInv, Inv, Held, AtBucket, WriterHolds, OfOne, Inside, AtWork
<1>6. Drained'
  BY <1>3, <1>4, <1>5 DEF Typed, Drained, At
<1> QED BY <1>3, <1>6

LEMMA RestDrained ==
    ASSUME AInv, Typed, NEW r \in Req, Begin(r) \/ Return(r) \/ ReadDir(r) \/ EndOfList(r)
    PROVE  LockTypeOK' /\ Drained'
<1>1. /\ UNCHANGED locks /\ pc'[r] \notin AtWork
      /\ \A q \in Req \ {r} : pc'[q] = pc[q] /\ call'[q] = call[q]
  <2>1. CASE Begin(r)
    <3>1. PICK c \in CallsOf[r] :
            /\ call' = [call EXCEPT ![r] = c]
            /\ Goto(r, IF c.origin /\ c.at # None THEN "cors" ELSE Handler(c))
      BY <2>1 DEF Begin
    <3>2. Handler(c) \in {"answer", "readdir", "rlock", "lock"}
      BY CallFacts, HandlerFacts
    <3> QED BY <2>1, <3>1, <3>2 DEF Begin, Goto, AInv, Inv, Held, Types, AtWork
  <2>2. CASE Return(r) \/ ReadDir(r) \/ EndOfList(r)
    BY <2>2 DEF Return, ReadDir, EndOfList, Goto, AInv, Inv, Held, Types, AtWork
  <2> QED BY <2>1, <2>2
<1> QED BY <1>1 DEF Typed, Drained, At, locks, LockTypeOK

LEMMA NextVisiting ==
    ASSUME AInv, Typed, NEW r \in Req, Begin(r) \/ LockWriter(r) \/ ServerStep(r) \/ BodyEnds(r)
    PROVE  Visiting' /\ filled' \subseteq Bucket /\ crashes' = crashes
<1>. USE DEF Goto, Typed, Visiting, AInv, Inv, Held, Types, disk
<1>1. CASE Begin(r) \/ AskShared(r) \/ corsRules(r) \/ ReadBucket(r) \/ LockWriter(r)
  BY <1>1 DEF Begin, AskShared, corsRules, ReadBucket, LockWriter
<1>2. CASE Return(r) \/ ReadDir(r) \/ AskNext(r) \/ Visit(r) \/ EndOfList(r)
  BY <1>2 DEF Return, ReadDir, AskNext, Visit, EndOfList, Answering, Ranges
<1>3. CASE CreateDirs(r) \/ RemoveJSON(r) \/ ReadForCORS(r) \/ StartBody(r)
  BY <1>3 DEF CreateDirs, RemoveJSON, ReadForCORS, StartBody, Enter
<1>4. CASE Refused(r) \/ RemoveDir(r) \/ writeJSON(r) \/ BodyEnds(r) \/ Empty(r)
  <2>1. pc[r] \in Inside /\ At(r) \in Bucket
    BY <1>4 DEF Refused, RemoveDir, writeJSON, BodyEnds, Empty, Enter, Inside, AtBucket, OfOne
  <2>2. Visiting'
    BY <1>4 DEF Refused, RemoveDir, writeJSON, BodyEnds, Empty, Enter, Leave, Done
  <2>3. filled' \subseteq Bucket /\ crashes' = crashes
    BY <1>4, <2>1 DEF Refused, RemoveDir, writeJSON, BodyEnds, Empty, Leave, Done
  <2> QED BY <2>2, <2>3
<1> QED BY <1>1, <1>2, <1>3, <1>4 DEF ServerStep

LEMMA NextTyped == ASSUME AInv, Typed, Next PROVE Typed'
<1>1. CASE Crash
  <2>1. LockTypeOK' /\ Drained' /\ Visiting' /\ filled' \subseteq Bucket /\ births' = births
    BY <1>1 DEF Crash, LockReset, LockTypeOK, Drained, AtWork, Visiting, Typed, disk
  <2>2. Bounded'
    BY <1>1, <2>1, FewerMakers DEF Typed, Crash, Creating
  <2>3. crashes' \in 0..MaxCrashes
    BY <1>1, BoundAssumption DEF Crash, Typed
  <2> QED BY <2>1, <2>2, <2>3 DEF Typed
<1>2. ASSUME NEW r \in Req, Begin(r) \/ LockWriter(r) \/ ServerStep(r) \/ BodyEnds(r)
      PROVE  Typed'
  <2>1. LockTypeOK' /\ Drained'
    BY <1>2, AskersDrained, ReadersDrained, WritersDrained, LeaversDrained, RestDrained DEF ServerStep
  <2>2. Bounded'
    BY <1>2, BeginBounded, CreateDirsBounded, OthersBounded DEF Typed, ServerStep
  <2> QED BY <1>2, <2>1, <2>2, NextVisiting DEF Typed
<1> QED BY <1>1, <1>2 DEF Next

LEMMA TypedHolds == Spec => [](AInv /\ Typed)
<1>1. Init => Typed
  <2> SUFFICES ASSUME Init PROVE Typed
    OBVIOUS
  <2>1. Makers = {}
    BY DEF Init, Makers, Creating
  <2>2. Bounded
    BY <2>1, FS_EmptySet, BoundAssumption DEF Init, Bounded
  <2> QED BY <2>2, BoundAssumption DEF Init, LockInit, Typed, LockTypeOK, Drained, AtWork, Visiting
<1>2. AInv /\ Typed /\ [Next]_vars => Typed'
  <2>1. ASSUME AInv, Typed, UNCHANGED vars PROVE Typed'
    <3>1. Bounded'
      BY <2>1, FewerMakers DEF Typed, vars, disk, Creating
    <3> QED BY <2>1, <3>1 DEF vars, locks, disk, Typed, LockTypeOK, Drained, At, Visiting
  <2> QED BY <2>1, NextTyped
<1> QED BY <1>1, <1>2, AInvHolds, PTL DEF Spec

(* The variables of Buckets keep their types: a bucket.json lies in a        *)
(* directory, and a writer at work has the lock and no reader beside it      *)
(* (store.go: lock, CreateBucket, DeleteBucket, PutCORS, PutObject).         *)
THEOREM TypesKept == Spec => []TypeOK
<1>1. ASSUME AInv, Typed PROVE TypeOK
  <2>1. births \in 0..MaxBirths
    BY <1>1, MakersFacts, BoundAssumption DEF AInv, Inv, Dated, Typed, Bounded
  <2>2. \A n \in 1..births : n \in 1..MaxBirths
    BY <2>1, BoundAssumption
  <2>3. acked \in [Bucket -> 1..MaxBirths \cup {None}]
    <3> SUFFICES ASSUME NEW b \in Bucket, acked[b] # None PROVE acked[b] \in 1..births
      BY <1>1, <2>2 DEF AInv, Inv, Dated
    <3>1. Has(b, acked[b])
      BY <1>1 DEF AInv, Inv, Dated, AckedAsMade, Has
    <3> QED BY <1>1, <3>1 DEF AInv, Inv, Dated
  <2>4. gone \subseteq 1..MaxBirths
    BY <1>1, <2>2 DEF AInv, Inv, Dated
  <2>5. ASSUME NEW r \in Req
        PROVE  /\ pc[r] \in {"json", "rmdir"} => got[r] \in Meta
               /\ pc[r] \in {"json", "rmdir", "receive"} => writer[At(r)] = r /\ readers[At(r)] = {}
               /\ left[r] # {} => pc[r] \in {"walk", "visit"}
    BY <1>1 DEF AInv, Inv, Dated, InHand, Held, WriterHolds, Inside, Typed, Drained, AtWork, Visiting
  <2> QED BY <1>1, <2>1, <2>3, <2>4, <2>5
          DEF TypeOK, AInv, Inv, Dated, Held, Types, Answering, DirsHold, Typed
<1> QED BY <1>1, TypedHolds, PTL
===============================================================================
