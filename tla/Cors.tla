--------------------------------- MODULE Cors ----------------------------------
(***************************************************************************)
(* internal/s3api/cors.go: which rule answers a request with an Origin     *)
(* header and what the answer says, and what a browser makes of that.      *)
(*                                                                         *)
(* A rule has sets of origins, methods and headers ("*" is one of their    *)
(* values); that names differ only in case, the exposed headers and the    *)
(* maximal age are left out.                                               *)
(***************************************************************************)
EXTENDS Sequences, Naturals

Rule(origins, methods, headers) == [origins |-> origins, methods |-> methods, headers |-> headers]

defaultCORS == <<Rule({"*"}, {"GET", "PUT", "POST", "DELETE", "HEAD"}, {"*"})>>

containsOrStar(set, v) == "*" \in set \/ v \in set

headersAllowed(allowed, requested) == allowed \in {{}, {"*"}} \/ requested \subseteq allowed

Applies(rule, origin, method, requested) ==
    /\ containsOrStar(rule.origins, origin)
    /\ method \in rule.methods
    /\ headersAllowed(rule.headers, requested)

(* matchCORS: the first rule that applies, in a set of none or one. *)
matchCORS(rules, origin, method, requested) ==
    LET fits == {i \in DOMAIN rules : Applies(rules[i], origin, method, requested)} IN
    {rules[i] : i \in {j \in fits : \A k \in fits : j <= k}}

(* The list of headers that is answered.  (The first operator is a mistake,  *)
(* not part of the model: the list of the rule as it is.)                    *)
AllowAsListed(rule, requested) == IF rule.headers = {} THEN {"*"} ELSE rule.headers

AllowHeaders(rule, requested) ==
    IF rule.headers \in {{}, {"*"}} THEN IF requested # {} THEN requested ELSE {"*"}
    ELSE rule.headers

(* The CORS headers of the answer, in a set of none or one. *)
writeCORS(rules, origin, method, requested) ==
    {[origin |-> IF rule.origins = {"*"} THEN "*" ELSE origin, methods |-> rule.methods,
      headers |-> AllowHeaders(rule, requested)] :
        rule \in matchCORS(rules, origin, method, requested)}

-------------------------------------------------------------------------------
(* The browser (Fetch Standard): the answer may be read by the page; the     *)
(* request that was asked about may be sent.  "*" never stands for the       *)
(* header Authorization.                                                     *)
Readable(answer, origin) == \E a \in answer : a.origin \in {"*", origin}

MaySend(answer, origin, method, requested) ==
    /\ Readable(answer, origin)
    /\ \E a \in answer :
         /\ method \in a.methods \cup {"GET", "HEAD", "POST"}
         /\ \A h \in requested : h \in a.headers \/ ("*" \in a.headers /\ h # "authorization")
===============================================================================
