------------------------------- MODULE ObjectMap -------------------------------
(***************************************************************************)
(* What the object operations of internal/store/store.go promise: a map    *)
(* from slots to bytes and metadata in which every call takes effect at    *)
(* one instant between its invocation and its response.                    *)
(*                                                                         *)
(* With IOErrors and Crashes both FALSE this is an atomic map.  Where they *)
(* are TRUE the module says exactly what a failing system call or a crash  *)
(* may leave behind; ObjectStore is shown to allow nothing more.           *)
(***************************************************************************)
EXTENDS ObjectTypes

CONSTANTS
    IOErrors, \* TRUE: any system call may fail
    Crashes   \* TRUE: the process may die (and restart)

VARIABLES
    bytes,  \* bytes[s]: the content of the object, None without one
    descr,  \* descr[s]: its metadata, None without any
    job     \* job[r]: the call r executes, what it saw and how it ended

mapVars == <<bytes, descr, job>>

NotSeen == [body |-> None, meta |-> None]

MapInit ==
    /\ bytes = [s \in Slot |-> None]
    /\ descr = [s \in Slot |-> None]
    /\ job = [r \in Req |-> None]

Invoke(r) ==
    /\ job[r] = None
    /\ \E c \in Calls :
          job' = [job EXCEPT ![r] = [call |-> c, saw |-> NotSeen, out |-> "none"]]
    /\ UNCHANGED <<bytes, descr>>

Pending(r) == job[r] # None /\ job[r].out = "none"

Finish(r, o) == job' = [job EXCEPT ![r].out = o]

(* A read sees the bytes and the metadata of one instant. *)
Look(r) ==
    /\ Pending(r)
    /\ job[r].saw = NotSeen
    /\ LET c == job[r].call
           s == ReadSlot(c)
           pair == [body |-> IF c.op = "head" THEN None ELSE bytes[s], meta |-> descr[s]]
       IN /\ c.op \in {"get", "head", "copy"}
          /\ IF descr[s] = None \/ (c.op # "head" /\ bytes[s] = None)
             THEN Finish(r, "notfound")
             ELSE job' = [job EXCEPT ![r] =
                            [call |-> c, saw |-> pair,
                             out |-> IF c.op = "copy" THEN "none" ELSE "ok"]]
    /\ UNCHANGED <<bytes, descr>>

(* A write is ready once a copy has seen its source. *)
Ready(r) ==
    /\ Pending(r)
    /\ job[r].call.op \in {"put", "update", "delete"}
       \/ (job[r].call.op = "copy" /\ job[r].saw # NotSeen)

BytesAfter(r) ==
    LET c == job[r].call IN
    CASE c.op = "delete" -> None
      [] c.op = "update" -> bytes[c.slot]
      [] OTHER -> StoredBody(c, job[r].saw.body)

DescrAfter(r) ==
    LET c == job[r].call IN
    CASE c.op = "delete" -> None
      [] c.op = "update" -> StoredMeta(c, None, descr[c.slot])
      [] OTHER -> StoredMeta(c, job[r].saw.body, job[r].saw.meta)

Absent(r) == job[r].call.op = "update" /\ descr[job[r].call.slot] = None

Commit(r) ==
    /\ Ready(r) /\ ~ Absent(r)
    /\ bytes' = [bytes EXCEPT ![job[r].call.slot] = BytesAfter(r)]
    /\ descr' = [descr EXCEPT ![job[r].call.slot] = DescrAfter(r)]
    /\ Finish(r, "ok")

UpdateNothing(r) ==
    /\ Ready(r) /\ Absent(r)
    /\ Finish(r, "notfound")
    /\ UNCHANGED <<bytes, descr>>

(* A body that does not arrive whole, or an error before anything changed. *)
Refuse(r) ==
    /\ Pending(r)
    /\ \/ job[r].call.op = "put" /\ Finish(r, "rejected")
       \/ IOErrors /\ \E o \in {"rejected", "error"} : Finish(r, o)
    /\ UNCHANGED <<bytes, descr>>

(* An error in the middle.  A put or a copy may have stored the bytes and    *)
(* not the metadata, or both, and reports an error all the same; an update   *)
(* may have been stored; a delete may leave either file and reports success. *)
Botch(r) ==
    /\ IOErrors
    /\ Ready(r) /\ ~ Absent(r)
    /\ LET c == job[r].call
           s == c.slot
       IN /\ \E b \in IF c.op = "delete" THEN {bytes[s], None} ELSE {BytesAfter(r)} :
                bytes' = [bytes EXCEPT ![s] = b]
          /\ \E d \in {descr[s], DescrAfter(r)} : descr' = [descr EXCEPT ![s] = d]
          /\ Finish(r, IF c.op = "delete" THEN "ok" ELSE "error")

Respond(r) ==
    /\ job[r] # None /\ job[r].out # "none"
    /\ job' = [job EXCEPT ![r] = None]
    /\ UNCHANGED <<bytes, descr>>

(* Every call in flight is lost.  Of each bucket at most one writer was      *)
(* under the lock, and its bytes may be in place without their metadata.     *)
MapCrash ==
    /\ Crashes
    /\ job' = [r \in Req |-> None]
    /\ UNCHANGED descr
    /\ \E W \in SUBSET {r \in Req : Ready(r)} :
         /\ \A r, q \in W : job[r].call.slot[1] = job[q].call.slot[1] => r = q
         /\ bytes' = [s \in Slot |->
                        IF \E r \in W : job[r].call.slot = s
                        THEN BytesAfter(CHOOSE r \in W : job[r].call.slot = s)
                        ELSE bytes[s]]

MapNext ==
    \/ \E r \in Req :
         \/ Invoke(r) \/ Look(r) \/ Commit(r) \/ UpdateNothing(r) \/ Refuse(r) \/ Botch(r)
         \/ Respond(r)
    \/ MapCrash

MapSpec == MapInit /\ [][MapNext]_mapVars
===============================================================================
