------------------------------- MODULE Handlers --------------------------------
(***************************************************************************)
(* The handlers of internal/s3api/objects.go that call the store more than *)
(* once, together on one bucket: conditional calls (Conditional) and a     *)
(* listing in pages (Listing), among requests that store and delete.       *)
(***************************************************************************)
EXTENDS Conditional, Listing

vars == <<objs, requests, listing>>

TypeOK ==
    /\ CallsTypeOK
    /\ due \subseteq Present(objs)
    /\ scan = None => due = {}
    /\ scan # None => scan.query \in Query /\ (scan.more => scan.after \in Seq(Nat))

Init == CallsInit /\ ListingInit

Next ==
    \/ CallsNext /\ Observe
    \/ ListingNext /\ UNCHANGED requests

Spec == Init /\ [][Next]_vars
===============================================================================
