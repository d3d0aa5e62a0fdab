------------------------------- MODULE BucketMap -------------------------------
(* The objects of one bucket as the handlers see them: a map that one call    *)
(* of the store reads or changes at one instant (ObjectStore: ImplementsMap). *)
CONSTANTS
    Key,  \* keys of the bucket
    None  \* "no object", "no request"

VARIABLE objs \* objs[k]: the object at k, None without one

Present(m) == {k \in Key : m[k] # None}

Store(k, v) == objs' = [objs EXCEPT ![k] = v]
===============================================================================
