--------------------------------- MODULE SigV4 ---------------------------------
(***************************************************************************)
(* internal/auth/sigv4.go: what the signature of a request covers, and     *)
(* which requests Verify lets pass.                                        *)
(*                                                                         *)
(* Keys, hashes and signatures are the values they are computed from: two  *)
(* are the same only if all that went into them is the same.  A request    *)
(* has each query parameter at most once, as a set of pairs, which is what *)
(* sorting makes of it; the encoding of names and values is one-to-one, so *)
(* it does not appear.  A header that is missing or empty is None, and so  *)
(* is a date that cannot be parsed; an Authorization that cannot be parsed *)
(* is Garbled.  A presigned URL does not carry the hash of a body.         *)
(***************************************************************************)
EXTENDS Integers

CONSTANTS
    Second,     \* units of time.Duration in a second
    Word,       \* how many values a time.Duration has
    MaxPresign, \* maxPresignAge
    Skew,       \* how far clocks may differ
    Day,        \* units of time in a day
    None

ASSUME ClockAssumption ==
    /\ {Second, MaxPresign, Skew, Day} \subseteq Nat \ {0}
    /\ Word \in Nat /\ 2 * MaxPresign < Word /\ Word % 2 = 0

DayOf(t) == t \div Day

(* time.Duration(n) * time.Second, in the width of an int64. *)
Duration(n) == LET d == (n * Second) % Word IN IF 2 * d < Word THEN d ELSE d - Word

(* A key is an access key and its secret; authz is the Authorization header, *)
(* presign the X-Amz- parameters of the query, query the others.  An         *)
(* Authorization in which SigV4's three parts are not found signs nothing.   *)
Garbled == [signed |-> {}]

signingKey(secret, day, region) == <<secret, day, region>>

(* (The first operator is a mistake, not part of the model: the query is not *)
(* covered.)                                                                 *)
canonicalNoQuery(r, signed, payload, dropSignature) ==
    [method |-> r.method, path |-> r.path, query |-> {},
     presign |-> IF dropSignature THEN [r.presign EXCEPT !.sig = None] ELSE r.presign,
     headers |-> [h \in signed |-> r.headers[h]], payload |-> payload]

canonicalRequest(r, signed, payload, dropSignature) ==
    [method |-> r.method, path |-> r.path, query |-> r.query,
     presign |-> IF dropSignature THEN [r.presign EXCEPT !.sig = None] ELSE r.presign,
     headers |-> [h \in signed |-> r.headers[h]], payload |-> payload]

(* The signature under credential a with this secret. *)
sign(a, secret, date, canon) ==
    [key |-> signingKey(secret, a.day, a.region), date |-> date,
     scope |-> <<a.day, a.region>>, canon |-> canon]

-------------------------------------------------------------------------------
(* What clients do. *)
AlwaysSigned == {"host", "date", "payload"}

SignedHeaders(r) == AlwaysSigned \cup {h \in {"copy"} : r.headers[h] # None}

Sign(r, key, region, t) ==
    LET dated == [r EXCEPT !.headers.date = t]
        cred == [access |-> key.access, day |-> DayOf(t), region |-> region]
        signed == SignedHeaders(r)
        canon == canonicalRequest(dated, signed, r.headers.payload, FALSE)
    IN [dated EXCEPT !.authz = [cred |-> cred, signed |-> signed,
                                sig |-> sign(cred, key.secret, t, canon)]]

Presign(r, key, region, expires, t) ==
    LET cred == [access |-> key.access, day |-> DayOf(t), region |-> region]
        open == [r EXCEPT !.presign = [cred |-> cred, date |-> t, expires |-> expires,
                                       signed |-> {"host"}, sig |-> None]]
        canon == canonicalRequest(open, {"host"}, "UNSIGNED-PAYLOAD", TRUE)
    IN [open EXCEPT !.presign.sig = sign(cred, key.secret, t, canon)]

-------------------------------------------------------------------------------
(* Verify: why a request is refused, or "none". *)
Skewed(t, now) == now - t > Skew \/ now - t < - Skew

HeaderError(r, key, now) ==
    LET a == r.authz
        t == r.headers.date
        payload == r.headers.payload
    IN  IF a = None THEN "missing"
        ELSE IF a.signed = {} THEN "malformed"
        ELSE IF a.cred.access # key.access THEN "accesskey"
        ELSE IF t = None \/ DayOf(t) # a.cred.day THEN "malformed"
        ELSE IF Skewed(t, now) THEN "skewed"
        ELSE IF payload = None THEN "malformed"
        ELSE IF a.sig # sign(a.cred, key.secret, t,
                                  canonicalRequest(r, a.signed, payload, FALSE))
             THEN "signature" ELSE "none"

BadExpiry(n) == n <= 0 \/ Duration(n) > MaxPresign

PresignError(r, key, now) ==
    LET p == r.presign IN
    IF p.cred.access # key.access THEN "accesskey"
    ELSE IF p.date = None \/ DayOf(p.date) # p.cred.day THEN "malformed"
    ELSE IF BadExpiry(p.expires) THEN "malformed"
    ELSE IF now < p.date - Skew \/ now > p.date + Duration(p.expires) THEN "expired"
    ELSE IF "host" \notin p.signed \/ p.sig = None THEN "malformed"
    ELSE IF p.sig # sign(p.cred, key.secret, p.date,
                              canonicalRequest(r, p.signed, "UNSIGNED-PAYLOAD", TRUE))
         THEN "signature" ELSE "none"

Presigned(r) == r.presign # None /\ r.authz = None

(* Result: what the handlers learn of the request that was verified. *)
Verify(r, key, now) ==
    [err |-> IF Presigned(r) THEN PresignError(r, key, now) ELSE HeaderError(r, key, now),
     payload |-> IF Presigned(r) THEN "UNSIGNED-PAYLOAD" ELSE r.headers.payload]

Streaming(ar) == ar.payload \in {"STREAMING", "STREAMING-TRAILER", "UNSIGNED-TRAILER"}
SignedChunks(ar) == ar.payload \in {"STREAMING", "STREAMING-TRAILER"}
HasTrailers(ar) == ar.payload \in {"STREAMING-TRAILER", "UNSIGNED-TRAILER"}
===============================================================================
