---------------------------- MODULE MCObjectStore -----------------------------
(* ObjectStore on small sets, for TLC. *)
EXTENDS ObjectStore, TLC

(* The members of Req, Bucket, Key and Body play the same part as long as no  *)
(* bucket is Slow.                                                            *)
SafetySymmetry ==
    UNION {Permutations(S) : S \in {Req, Key, Bucket, Body}}
===============================================================================
