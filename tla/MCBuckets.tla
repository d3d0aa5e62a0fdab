------------------------------ MODULE MCBuckets -------------------------------
(* Buckets for TLC, with two requests at a time: one changes buckets and     *)
(* uploads to them, the other reads and lists, and changes the first bucket. *)
EXTENDS Buckets

CONSTANTS r1, r2, x

MCBucket == {1, 2}
MCRules == {x}

On(do, b, origin) == [do |-> do, at |-> b, rules |-> Unset, origin |-> origin]
SetRules(b, rules) == [On("setcors", b, FALSE) EXCEPT !.rules = rules]

Changes == {On(do, b, FALSE) : do \in {"create", "delete"}, b \in Bucket}
              \cup {On(do, 1, FALSE) : do \in {"upload", "empty"}}
              \cup {SetRules(1, rules) : rules \in {x, Unset}}
Reads == {On("list", None, FALSE), On("head", 1, FALSE), On("getcors", 1, FALSE)}
            \cup {On("options", b, TRUE) : b \in Bucket}
Others == {On("create", 1, FALSE), On("upload", 1, TRUE), SetRules(1, x)}

MCCallsOf == [r \in Req |-> IF r = r1 THEN Changes ELSE Reads \cup Others]
===============================================================================
