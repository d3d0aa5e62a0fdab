------------------------------ MODULE Conditional ------------------------------
(***************************************************************************)
(* Calls with a condition on an ETag: putObject and deleteObject with      *)
(* If-Match or If-None-Match, copyObject with conditions on its source     *)
(* (internal/s3api/objects.go).  The handler looks at the metadata in one  *)
(* call of the store (Head) and does its work in another; no lock is held  *)
(* between the two.                                                        *)
(*                                                                         *)
(* A call of the store is one step here: that it is atomic is what         *)
(* ObjectStore shows (ImplementsMap).  Of an object only the ETag matters, *)
(* and a body stands for its ETag.                                         *)
(***************************************************************************)
EXTENDS BucketMap

CONSTANTS
    Req,   \* requests with a condition
    Body,  \* bodies, and their ETags
    Calls, \* the conditional calls that clients make
    Star   \* the "*" of a condition

Header == SUBSET (Body \cup {Star})   \* {} is a header that is not there

ASSUME ConditionalAssumption ==
    /\ None \notin Body \cup {Star} /\ Star \notin Body
    /\ Calls \subseteq
         [op : {"put", "delete", "copy"}, key : Key, src : Key, body : Body,
          match : Header, none : Header]
    /\ \A c \in Calls : c.op # "copy" => c.src = c.key
    /\ \A c \in Calls : c.op = "delete" => c.none = {} /\ c.match # {}
    /\ None \notin Calls

VARIABLES
    call,   \* call[r]: the call that r executes, None without one
    step,   \* step[r]: where r is
    got,    \* got[r]: what a copy has read
    answer, \* answer[r]: how the call ended
    raced,  \* history: requests whose object has changed since they checked it
    broken  \* history: requests that went ahead against their condition

requests == <<call, step, got, answer, raced, broken>>

CallsTypeOK ==
    /\ objs \in [Key -> Body \cup {None}]
    /\ call \in [Req -> Calls \cup {None}]
    /\ step \in [Req -> {"idle", "check", "act", "store", "done"}]
    /\ got \in [Req -> Body \cup {None}]
    /\ answer \in [Req -> {"none", "ok", "notfound", "failed", "illegal", "rejected"}]
    /\ raced \subseteq Req /\ broken \subseteq Req
    /\ \A r \in Req : step[r] = "idle" <=> call[r] = None
    /\ \A r \in Req : step[r] = "store" => call[r].op = "copy" /\ got[r] # None

CallsInit ==
    /\ objs = [k \in Key |-> None]
    /\ call = [r \in Req |-> None]
    /\ step = [r \in Req |-> "idle"]
    /\ got = [r \in Req |-> None]
    /\ answer = [r \in Req |-> "none"]
    /\ raced = {}
    /\ broken = {}

-------------------------------------------------------------------------------
etagMatch(header, etag) == Star \in header \/ etag \in header

(* (A mistake, not part of the model: If-Match lets a missing object pass.)  *)
preconditionsIfThere(c, etag) ==
    /\ c.match # {} /\ etag # None => etagMatch(c.match, etag)
    /\ c.none # {} /\ etag # None => ~ etagMatch(c.none, etag)

preconditions(c, etag) ==
    /\ c.match # {} => etag # None /\ etagMatch(c.match, etag)
    /\ c.none # {} /\ etag # None => ~ etagMatch(c.none, etag)

(* What the headers ask for, in the words of the protocol.                   *)
Holds(c, etag) ==
    /\ c.match # {} => etag # None /\ (Star \in c.match \/ etag \in c.match)
    /\ c.none # {} => etag = None \/ (Star \notin c.none /\ etag \notin c.none)

-------------------------------------------------------------------------------
(* Requests between their check and their act notice that the object changes.*)
Race(others) ==
    raced' = raced \cup
        {q \in others : step[q] = "act" /\ objs'[call[q].src] # objs[call[q].src]}

Finish(r, a) ==
    /\ step' = [step EXCEPT ![r] = "done"]
    /\ answer' = [answer EXCEPT ![r] = a]

(* Requests without a condition make one call of the store. *)
PlainPut(k, b) == Store(k, b) /\ Race(Req) /\ UNCHANGED <<call, step, got, answer, broken>>
PlainDelete(k) == Store(k, None) /\ Race(Req) /\ UNCHANGED <<call, step, got, answer, broken>>

Arrive(r, c) ==
    /\ step[r] = "idle"
    /\ call' = [call EXCEPT ![r] = c]
    /\ step' = [step EXCEPT ![r] = "check"]
    /\ UNCHANGED <<objs, got, answer, raced, broken>>

(* preconditions; in copyObject a Head of the source, which must exist, and  *)
(* a copy onto itself goes on only where it replaces the metadata, which a   *)
(* call does not say here: either may happen.                                *)
Check(r) ==
    /\ step[r] = "check"
    /\ LET c == call[r]
           etag == objs[c.src]
           found == c.op = "copy" => etag # None
           holds == preconditions(c, etag)
       IN \/ ~ found /\ Finish(r, "notfound")
          \/ found /\ ~ holds /\ Finish(r, "failed")
          \/ found /\ holds /\ step' = [step EXCEPT ![r] = "act"] /\ UNCHANGED answer
          \/ found /\ holds /\ c.op = "copy" /\ c.src = c.key /\ Finish(r, "illegal")
    /\ UNCHANGED <<objs, call, got, raced, broken>>

(* The call of the store that the condition was for. *)
GoAhead(r) ==
    /\ step[r] = "act"
    /\ broken' = IF Holds(call[r], objs[call[r].src]) THEN broken ELSE broken \cup {r}
    /\ UNCHANGED call

Put(r) ==
    /\ GoAhead(r)
    /\ call[r].op = "put"
    /\ Store(call[r].key, call[r].body)
    /\ Race(Req \ {r})
    /\ Finish(r, "ok")
    /\ UNCHANGED got

(* A body that does not arrive whole: nothing is stored. *)
RejectPut(r) ==
    /\ step[r] = "act"
    /\ call[r].op = "put"
    /\ Finish(r, "rejected")
    /\ UNCHANGED <<objs, call, got, raced, broken>>

Delete(r) ==
    /\ GoAhead(r)
    /\ call[r].op = "delete"
    /\ Store(call[r].key, None)
    /\ Race(Req \ {r})
    /\ Finish(r, "ok")
    /\ UNCHANGED got

(* (A mistake, not part of the model: a source that is gone is copied too.)  *)
CopyGetUnchecked(r) ==
    /\ GoAhead(r)
    /\ call[r].op = "copy"
    /\ got' = [got EXCEPT ![r] = objs[call[r].src]]
    /\ step' = [step EXCEPT ![r] = "store"]
    /\ UNCHANGED <<objs, answer, raced>>

(* CopyObject reads the source again, which may have changed or gone, ...    *)
CopyGet(r) ==
    /\ GoAhead(r)
    /\ call[r].op = "copy"
    /\ objs[call[r].src] # None
    /\ got' = [got EXCEPT ![r] = objs[call[r].src]]
    /\ step' = [step EXCEPT ![r] = "store"]
    /\ UNCHANGED <<objs, answer, raced>>

CopyNothing(r) ==
    /\ step[r] = "act"
    /\ call[r].op = "copy"
    /\ objs[call[r].src] = None
    /\ Finish(r, "notfound")
    /\ UNCHANGED <<objs, call, got, raced, broken>>

(* ... and stores what it has read. *)
CopyPut(r) ==
    /\ step[r] = "store"
    /\ Store(call[r].key, got[r])
    /\ Race(Req)
    /\ Finish(r, "ok")
    /\ UNCHANGED <<call, got, broken>>

Respond(r) ==
    /\ step[r] = "done"
    /\ call' = [call EXCEPT ![r] = None]
    /\ step' = [step EXCEPT ![r] = "idle"]
    /\ got' = [got EXCEPT ![r] = None]
    /\ answer' = [answer EXCEPT ![r] = "none"]
    /\ raced' = raced \ {r}
    /\ broken' = broken \ {r}
    /\ UNCHANGED objs

CallsNext ==
    \/ \E k \in Key : PlainDelete(k) \/ \E b \in Body : PlainPut(k, b)
    \/ \E r \in Req :
         \/ \E c \in Calls : Arrive(r, c)
         \/ Check(r) \/ Put(r) \/ RejectPut(r) \/ Delete(r)
         \/ CopyGet(r) \/ CopyNothing(r) \/ CopyPut(r) \/ Respond(r)

-------------------------------------------------------------------------------
(* A call does its work only where its condition holds at that moment,       *)
(* unless another call has changed the object since the check: the window    *)
(* between the two calls of the store is the only way past a condition.      *)
HonouredUnlessRaced == broken \subseteq raced

(* README.md lists If-Match and If-None-Match as supported on uploads: an    *)
(* upload is stored only where its condition holds.                          *)
UploadsHonourConditions ==
    \A r \in broken : call[r].op # "put"
===============================================================================
