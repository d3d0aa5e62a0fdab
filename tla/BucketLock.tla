------------------------------ MODULE BucketLock ------------------------------
(***************************************************************************)
(* The reader/writer lock that the store keeps for every bucket            *)
(* (Store.lock, internal/store/store.go:106-115).  The lock itself is Go's *)
(* sync.RWMutex, modelled from its contract:                               *)
(*                                                                         *)
(*   - Lock() first excludes the other writers, then waits until the       *)
(*     readers that were already inside have left;                         *)
(*   - from the moment a writer is announced, RLock() parks new readers;   *)
(*   - Unlock() lets every parked reader in before the next writer.        *)
(*                                                                         *)
(* A bucket's entry of the map Store.locks is created on first use and is  *)
(* never removed, so one bucket name means one lock for the life of the    *)
(* process: the map is the identity on Bucket and needs no variable.       *)
(***************************************************************************)
CONSTANTS
    Req,     \* goroutines serving a request
    Bucket,  \* bucket names
    None     \* "no request"

VARIABLES
    writer,   \* writer[b]: the request whose Lock() has excluded other writers
    readers,  \* readers[b]: the requests inside RLock() .. RUnlock()
    parked    \* parked[b]: the requests blocked in RLock() behind writer[b]

lockVars == <<writer, readers, parked>>

LockTypeOK ==
    /\ writer \in [Bucket -> Req \cup {None}]
    /\ readers \in [Bucket -> SUBSET Req]
    /\ parked \in [Bucket -> SUBSET Req]

LockInit ==
    /\ writer = [b \in Bucket |-> None]
    /\ readers = [b \in Bucket |-> {}]
    /\ parked = [b \in Bucket |-> {}]

-------------------------------------------------------------------------------
(* Mistakes a lock can make, not part of the model, to ask whether the       *)
(* properties would notice: other writers are not excluded, readers inside   *)
(* are not waited for, readers enter past a writer.                          *)
AnnounceAnyway(r, b) == writer' = [writer EXCEPT ![b] = r] /\ UNCHANGED <<readers, parked>>
ExclusiveAtOnce(r, b) == writer[b] = r
RLockAnyway(r, b) ==
    readers' = [readers EXCEPT ![b] = @ \cup {r}] /\ UNCHANGED <<writer, parked>>

-------------------------------------------------------------------------------
(* First half of Lock(): shut the other writers out. *)
Announce(r, b) ==
    /\ writer[b] = None
    /\ writer' = [writer EXCEPT ![b] = r]
    /\ UNCHANGED <<readers, parked>>

(* Second half of Lock(): r may go on once the readers have drained. *)
Exclusive(r, b) == writer[b] = r /\ readers[b] = {}

Unlock(r, b) ==
    /\ writer[b] = r
    /\ writer' = [writer EXCEPT ![b] = None]
    /\ readers' = [readers EXCEPT ![b] = @ \cup parked[b]]
    /\ parked' = [parked EXCEPT ![b] = {}]

(* RLock() enters at once, or parks behind an announced writer. *)
RLock(r, b) ==
    /\ IF writer[b] = None
       THEN /\ readers' = [readers EXCEPT ![b] = @ \cup {r}]
            /\ UNCHANGED parked
       ELSE /\ parked' = [parked EXCEPT ![b] = @ \cup {r}]
            /\ UNCHANGED readers
    /\ UNCHANGED writer

Shared(r, b) == r \in readers[b]

RUnlock(r, b) ==
    /\ r \in readers[b]
    /\ readers' = [readers EXCEPT ![b] = @ \ {r}]
    /\ UNCHANGED <<writer, parked>>

(* A process that dies takes its locks with it. *)
LockReset ==
    /\ writer' = [b \in Bucket |-> None]
    /\ readers' = [b \in Bucket |-> {}]
    /\ parked' = [b \in Bucket |-> {}]
===============================================================================
