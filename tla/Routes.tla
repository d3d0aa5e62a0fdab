-------------------------------- MODULE Routes ---------------------------------
(***************************************************************************)
(* internal/s3api/server.go: which bucket, key and operation a request is  *)
(* for (target, route, routeBucket, routeObject), and the requests of the  *)
(* S3 protocol that clients make for each operation.                       *)
(*                                                                         *)
(* Strings that the code takes apart are sequences: a host or the name of  *)
(* a bucket is the sequence of its labels, a path the sequence of what     *)
(* lies between its slashes, after the first one.                          *)
(***************************************************************************)
EXTENDS Integers, SequencesExt

CONSTANTS
    Addr, Public \* the hosts of the listening address and of the public URL

Empty == <<"">> \* the empty string, cut at its dots

(* baseHosts: in this order, without what was there before. *)
Listed == <<<<"localhost">>, <<"127.0.0.1">>, Addr, Public>>
Bases == LET First(i) == \A j \in 1..(i - 1) : Listed[j] # Listed[i] IN
         [n \in 1..Cardinality(ToSet(Listed)) |->
             Listed[CHOOSE i \in DOMAIN Listed :
                        First(i) /\ Cardinality({Listed[j] : j \in 1..i}) = n]]

(* Every base is a host of its own: no public URL under localhost.           *)
ASSUME BasesAssumption ==
    \A i, j \in DOMAIN Bases :
        Bases[i] \in Seq(STRING) /\ (IsSuffix(Bases[i], Bases[j]) => i = j)

KeyOf(path) == IF path = <<Empty>> THEN <<>> ELSE path

splitPath(path) ==
    IF KeyOf(path) = <<>> THEN [bucket |-> Empty, key |-> <<>>]
    ELSE [bucket |-> Head(path), key |-> KeyOf(Tail(path))]

(* target: the first base that the host is, or lies under. *)
target(host, path) ==
    LET Fits(i) == IsSuffix(Bases[i], host) /\ host # Empty \o Bases[i]
        first == CHOOSE i \in DOMAIN Bases : Fits(i) /\ \A j \in 1..(i - 1) : ~ Fits(j)
    IN  IF (\E i \in DOMAIN Bases : Fits(i)) /\ host # Bases[first]
        THEN [bucket |-> SubSeq(host, 1, Len(host) - Len(Bases[first])), key |-> KeyOf(path)]
        ELSE splitPath(path)

-------------------------------------------------------------------------------
unsupported ==
    {"policy", "lifecycle", "versioning", "encryption", "replication", "notification",
     "accelerate", "logging", "website", "requestPayment", "object-lock", "legal-hold",
     "retention", "publicAccessBlock", "versions", "analytics", "inventory", "metrics",
     "ownershipControls", "intelligent-tiering"}

(* A switch: the first case that applies. *)
Case(when, do) == [when |-> when, do |-> do]
Switch(cases) ==
    cases[CHOOSE i \in DOMAIN cases :
              cases[i].when /\ \A j \in 1..(i - 1) : ~ cases[j].when].do

(* method m, query q, has: a set of pairs; copy: there is an X-Amz-Copy-Source. *)
Has(q, name) == \E p \in q : p[1] = name
Get(q, name) == \E p \in q : p[1] = name /\ p[2] # ""

routeBucket(m, q) == Switch(<<
    Case(Has(q, "location") /\ m = "GET", "GetBucketLocation"),
    Case(Has(q, "cors") /\ m = "GET", "GetBucketCors"),
    Case(Has(q, "cors") /\ m = "PUT", "PutBucketCors"),
    Case(Has(q, "cors") /\ m = "DELETE", "DeleteBucketCors"),
    Case(Has(q, "cors"), "MethodNotAllowed"),
    Case(Has(q, "delete") /\ m = "POST", "DeleteObjects"),
    Case(m = "PUT", "CreateBucket"),
    Case(m = "DELETE", "DeleteBucket"),
    Case(m = "HEAD", "HeadBucket"),
    Case(m = "GET", "ListObjects"),
    Case(TRUE, "MethodNotAllowed")>>)

routeObject(m, q, copy) == Switch(<<
    Case(Has(q, "uploads") /\ m = "POST", "CreateMultipartUpload"),
    Case(Get(q, "uploadId") /\ Get(q, "partNumber") /\ m = "PUT", "UploadPart"),
    Case(Get(q, "uploadId") /\ m = "POST", "CompleteMultipartUpload"),
    Case(Get(q, "uploadId") /\ m = "DELETE", "AbortMultipartUpload"),
    Case(Get(q, "uploadId") /\ m = "GET", "ListParts"),
    Case(Has(q, "tagging") /\ m = "GET", "GetObjectTagging"),
    Case(Has(q, "tagging") /\ m = "PUT", "PutObjectTagging"),
    Case(Has(q, "tagging") /\ m = "DELETE", "DeleteObjectTagging"),
    Case(Has(q, "tagging"), "MethodNotAllowed"),
    Case(Has(q, "acl") /\ m \in {"GET", "HEAD"}, "GetObjectAcl"),
    Case(Has(q, "acl") /\ m = "PUT", "PutObjectAcl"),
    Case(m = "PUT" /\ copy, "CopyObject"),
    Case(m = "PUT", "PutObject"),
    Case(m = "GET", "GetObject"),
    Case(m = "HEAD", "HeadObject"),
    Case(m = "DELETE", "DeleteObject"),
    Case(TRUE, "MethodNotAllowed")>>)

(* The operation, for the bucket and key at t. *)
route(m, q, copy, t) ==
    IF \E name \in unsupported : Has(q, name) THEN "NotImplemented"
    ELSE IF t.bucket = Empty THEN (IF m = "GET" /\ t.key = <<>> THEN "ListBuckets" ELSE "NoSuchBucket")
    ELSE IF t.key = <<>> THEN routeBucket(m, q)
    ELSE routeObject(m, q, copy)

(* The operations whose handler reads the body. *)
ReadBody == {"CreateBucket", "PutBucketCors", "DeleteObjects", "UploadPart",
             "CompleteMultipartUpload", "PutObjectTagging", "PutObject"}

-------------------------------------------------------------------------------
(* The S3 protocol: what a client sends for an operation on a bucket (with   *)
(* at = "bucket") or on an object.                                           *)
Shape(op, m, at, q, copy) == [op |-> op, method |-> m, at |-> at, query |-> q, copy |-> copy]
Sub(name) == {<<name, "">>}
OfUpload == {<<"uploadId", "u">>}

Shapes == {
    Shape("ListBuckets", "GET", "service", {}, FALSE),
    Shape("CreateBucket", "PUT", "bucket", {}, FALSE),
    Shape("DeleteBucket", "DELETE", "bucket", {}, FALSE),
    Shape("HeadBucket", "HEAD", "bucket", {}, FALSE),
    Shape("ListObjects", "GET", "bucket", {<<"list-type", "2">>}, FALSE),
    Shape("GetBucketLocation", "GET", "bucket", Sub("location"), FALSE),
    Shape("DeleteObjects", "POST", "bucket", Sub("delete"), FALSE),
    Shape("PutObject", "PUT", "object", {}, FALSE),
    Shape("CopyObject", "PUT", "object", {}, TRUE),
    Shape("GetObject", "GET", "object", {}, FALSE),
    Shape("HeadObject", "HEAD", "object", {}, FALSE),
    Shape("DeleteObject", "DELETE", "object", {}, FALSE),
    Shape("CreateMultipartUpload", "POST", "object", Sub("uploads"), FALSE),
    Shape("UploadPart", "PUT", "object", OfUpload \cup {<<"partNumber", "1">>}, FALSE),
    Shape("CompleteMultipartUpload", "POST", "object", OfUpload, FALSE),
    Shape("AbortMultipartUpload", "DELETE", "object", OfUpload, FALSE),
    Shape("ListParts", "GET", "object", OfUpload, FALSE),
    Shape("GetObjectAcl", "GET", "object", Sub("acl"), FALSE),
    Shape("PutObjectAcl", "PUT", "object", Sub("acl"), FALSE)}
  \cup {Shape(op[1], op[2], "bucket", Sub("cors"), FALSE) :
           op \in {<<"GetBucketCors", "GET">>, <<"PutBucketCors", "PUT">>, <<"DeleteBucketCors", "DELETE">>}}
  \cup {Shape(op[1], op[2], "object", Sub("tagging"), FALSE) :
           op \in {<<"GetObjectTagging", "GET">>, <<"PutObjectTagging", "PUT">>,
                   <<"DeleteObjectTagging", "DELETE">>}}
  \cup {Shape("NotImplemented", m, "bucket", Sub(name), FALSE) :
           m \in {"GET", "PUT"}, name \in {"versioning", "lifecycle", "policy", "logging"}}

(* Its host and path, with the bucket in the path or in the host. *)
AddressOf(shape, bucket, key, base, inHost) ==
    CASE shape.at = "service" -> [host |-> base, path |-> <<Empty>>]
      [] shape.at = "bucket" /\ inHost -> [host |-> bucket \o base, path |-> <<Empty>>]
      [] shape.at = "bucket" /\ ~ inHost -> [host |-> base, path |-> <<bucket>>]
      [] shape.at = "object" /\ inHost -> [host |-> bucket \o base, path |-> key]
      [] shape.at = "object" /\ ~ inHost -> [host |-> base, path |-> <<bucket>> \o key]
===============================================================================
