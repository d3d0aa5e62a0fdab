--------------------------------- MODULE Serve ---------------------------------
(***************************************************************************)
(* A request on its way through the server: serve of internal/s3api/       *)
(* server.go puts together the CORS headers (Cors), the signature (SigV4), *)
(* the operation (Routes) and the reader of the body (BodyReader), in a    *)
(* process that is started, killed and started again (Credentials), while  *)
(* the clock runs.  A client signs a request once and may send it again;   *)
(* a browser asks first.                                                   *)
(*                                                                         *)
(* A trip says what the request is and what may happen to it; it bounds    *)
(* the clock and the starts of the process, and says whether the clients   *)
(* of its bucket may stop sending (slow).  What the handlers do with the   *)
(* store, and with it the waiting for the lock of the bucket (shared in    *)
(* WriteHeaders and Preflight, cors.go:124, exclusive while Body reads,    *)
(* store.go:253), is the matter of ObjectStore and Buckets.                *)
(***************************************************************************)
EXTENDS BodyReader, SigV4, Routes, Cors, Credentials

CONSTANTS Trips

ASSUME TripsAssumption ==
    \A t \in Trips :
        /\ t.shape \in Shapes /\ t.signer \in Key /\ t.settings \subseteq Settings
        /\ t.slow \in BOOLEAN /\ t.until \in Nat /\ t.starts \in 0..MaxStarts
        /\ t.auth \in {"header", "presign", "none"}
        /\ t.rules # None => DOMAIN t.rules = 1..Len(t.rules)
        /\ t.signed \in Nat /\ t.expires \in Int
        /\ t.base \in Range(Bases)
        /\ t.bucket \in Seq(STRING) \ {<<>>, Empty} /\ t.key \in Seq(Seq(STRING)) \ {<<>>, <<Empty>>}

VARIABLES
    trip, \* what the request is, and the bounds of what may happen
    sent, \* the request as the client signed it
    came, \* the request as it arrives
    pc,   \* how far it is
    now,  \* the server's clock
    permit, \* the CORS headers of the answer to a preflight
    shows,  \* those of the answer to the request itself
    ar,   \* what Verify said, with which keys, when
    at,   \* the target of the request
    op    \* the operation

front == <<trip, sent, came, pc, now, permit, shows, ar, at, op>>
vars == <<body, credentials, front>>

-------------------------------------------------------------------------------
(* The client. *)
PayloadOf(q) ==
    CASE q.framed /\ q.signed /\ q.trailers -> "STREAMING-TRAILER"
      [] q.framed /\ q.signed /\ ~ q.trailers -> "STREAMING"
      [] q.framed /\ ~ q.signed -> "UNSIGNED-TRAILER"
      [] ~ q.framed -> "UNSIGNED-PAYLOAD"

Unsigned(t, payload) ==
    LET address == AddressOf(t.shape, t.bucket, t.key, t.base, t.inHost) IN
    [method |-> t.shape.method, path |-> address.path, query |-> t.shape.query,
     headers |-> [host |-> address.host, date |-> None, payload |-> payload,
                  copy |-> IF t.shape.copy THEN "source" ELSE None],
     authz |-> None, presign |-> None]

Signed(t, payload) ==
    CASE t.auth = "header" -> Sign(Unsigned(t, payload), t.signer, "auto", t.signed)
      [] t.auth = "presign" -> Presign(Unsigned(t, payload), t.signer, "auto", t.expires, t.signed)
      [] t.auth = "none" -> Unsigned(t, payload)

(* An access key only has a name in a header: its signature is of the secret.*)
WithAccess(r, key) == IF r.authz = None THEN r ELSE [r EXCEPT !.authz.cred.access = key.access]

(* None is not something that a client sends. *)
Payloads == {"STREAMING-TRAILER", "STREAMING", "UNSIGNED-TRAILER", "UNSIGNED-PAYLOAD"}

ASSUME NoneAssumption ==
    /\ None \notin Nat \cup Payloads \cup {"source"} /\ None # Garbled
    /\ \A t \in Trips, payload \in Payloads :
         LET s == Signed(t, payload) IN
         /\ t.auth = "header" => \A k \in Settings : WithAccess(s, k).authz # None
         /\ t.auth = "presign" => None \notin {s.presign, s.presign.sig}

(* What may become of a request on its way: one of the things that its       *)
(* signature covers is another.                                              *)
OtherSig(a) == [a EXCEPT !.sig.date = @ + 1]
OtherCred(a) ==
    {[a EXCEPT !.cred.access = k.access] : k \in Key}
        \cup {[a EXCEPT !.cred.region = "other"], [a EXCEPT !.cred.day = @ + 1]}

Astray(r) ==
    ({[r EXCEPT !.method = m] : m \in {"GET", "PUT", "DELETE"}}
      \cup {[r EXCEPT !.path = Append(r.path, <<"more">>)]}
      \cup {[r EXCEPT !.query = q] : q \in {{}, r.query \cup Sub("tagging")}}
      \cup {[r EXCEPT !.headers.host = <<"other">> \o @], [r EXCEPT !.authz = Garbled]}
      \cup (IF r.authz = None THEN {}
            ELSE {[r EXCEPT !.headers.date = d] : d \in {None, r.headers.date + 1}}
                   \cup {[r EXCEPT !.headers.payload = p] : p \in {None, "STREAMING"}}
                   \cup {[r EXCEPT !.authz = a] : a \in OtherCred(r.authz) \cup {None, OtherSig(r.authz)}}
                   \cup {[r EXCEPT !.authz.signed = @ \ {h}] : h \in r.authz.signed}
                   \cup {[r EXCEPT !.headers.copy = None]})
      \cup (IF r.presign = None THEN {}
            ELSE {[r EXCEPT !.presign = p] : p \in OtherCred(r.presign) \cup {OtherSig(r.presign)}}
                   \cup {[r EXCEPT !.presign.expires = @ + 1], [r EXCEPT !.presign.date = @ + 1],
                         [r EXCEPT !.presign.signed = {}]}))
    \ {r}

Init ==
    /\ CredentialsInit
    /\ trip \in Trips
    /\ IF trip.upload THEN BodyInit ELSE NoBody
    /\ trip.auth = "presign" => ~ req.framed
    /\ sent = Signed(trip, PayloadOf(req))
    /\ came = None
    /\ pc = "idle"
    /\ now = 0
    /\ permit = {} /\ shows = {}
    /\ ar = None /\ at = None /\ op = None

(* It is sent, or sent again if its body was not asked for. *)
Send ==
    /\ pc = "idle" \/ (pc \in {"answered", "lost"} /\ op \notin ReadBody)
    /\ came' \in {sent} \cup IF trip.altered THEN Astray(sent) ELSE {}
    /\ pc' = IF trip.browser THEN "asks" ELSE "sent"
    /\ permit' = {} /\ shows' = {} /\ ar' = None /\ at' = None /\ op' = None
    /\ UNCHANGED <<body, credentials, trip, sent, now>>

Tick ==
    /\ now < trip.until
    /\ now' = now + 1
    /\ UNCHANGED <<body, credentials, trip, sent, came, pc, permit, shows, ar, at, op>>

-------------------------------------------------------------------------------
(* serve.  The listener is up before the keys are printed. *)
Listens == proc \in {"written", "up"}

corsRules(bucket) == IF bucket = Empty \/ trip.rules = None THEN defaultCORS ELSE trip.rules

Target(r) == target(r.headers.host, r.path)

(* A preflight, which is not signed, and what the browser does next. *)
Preflight ==
    /\ pc = "asks" /\ Listens
    /\ LET says == writeCORS(corsRules(Target(came).bucket), trip.origin, came.method, trip.wants)
       IN /\ permit' = says
          /\ pc' = IF MaySend(says, trip.origin, came.method, trip.wants) THEN "sent" ELSE "blocked"
    /\ UNCHANGED <<body, credentials, trip, sent, came, now, shows, ar, at, op>>

(* The CORS headers come before anything else, an error included. *)
WriteHeaders ==
    /\ pc = "sent" /\ Listens
    /\ shows' = IF trip.browser
                THEN writeCORS(corsRules(Target(came).bucket), trip.origin, came.method, {}) ELSE {}
    /\ pc' = "authorize"
    /\ UNCHANGED <<body, credentials, trip, sent, came, now, permit, ar, at, op>>

Authorize ==
    /\ pc = "authorize" /\ Listens
    /\ LET res == Verify(came, keys, now) IN
         /\ ar' = [err |-> res.err, payload |-> res.payload, by |-> keys, now |-> now]
         /\ pc' = IF res.err = "none" THEN "route" ELSE "answered"
    /\ UNCHANGED <<body, credentials, trip, sent, came, now, permit, shows, at, op>>

Route ==
    /\ pc = "route" /\ Listens
    /\ at' = Target(came)
    /\ op' = route(came.method, came.query, came.headers.copy # None, Target(came))
    /\ pc' = IF op' \in ReadBody THEN "body" ELSE "answered"
    /\ UNCHANGED <<body, credentials, trip, sent, came, now, permit, shows, ar>>

(* The handler opens the body and reads it. *)
Body ==
    /\ pc = "body" /\ Listens
    /\ openBody \/ Read
    /\ UNCHANGED <<credentials, front>>

(* The process is started with one of the trip's settings. *)
Begin ==
    /\ starts < trip.starts
    /\ \E set \in trip.settings : Start(set)
    /\ UNCHANGED <<body, front>>

(* The process dies, and what it was serving is lost. *)
Reading == pc = "body" /\ answer \in {"unopened", "more"}
InHand == pc \in {"authorize", "route"} \/ Reading

Die ==
    /\ Kill
    /\ pc' = IF InHand THEN "lost" ELSE IF pc = "body" THEN "answered" ELSE pc
    /\ UNCHANGED <<body, trip, sent, came, now, permit, shows, ar, at, op>>

Handle == Preflight \/ WriteHeaders \/ Authorize \/ Route \/ Body

Next == Send \/ Tick \/ Handle \/ Begin \/ (StartUp /\ UNCHANGED <<body, front>>) \/ Die

Spec == Init /\ [][Next]_vars

(* A handler that reads a body gets the lock of its bucket, and then the     *)
(* next bytes or the loss of the connection, as long as the clients of that  *)
(* bucket go on sending (ObjectStore!FairSpec): nothing is assumed of a slow *)
(* one, and nothing of the steps that come before the body.                  *)
FairSpec == Spec /\ WF_vars(~ trip.slow /\ Body)

-------------------------------------------------------------------------------
WholeKeys == {k \in Settings : Unset \notin {k.access, k.secret}}

(* Types: a request is verified before it is routed, by keys that are not    *)
(* empty; and the body is read as the payload that was verified says.        *)
TypeOK ==
    /\ BodyTypeOK
    /\ pc \in {"idle", "asks", "blocked", "sent", "authorize", "route", "body", "answered", "lost"}
    /\ now \in 0..trip.until
    /\ proc \in {"down", "new", "opened", "written", "up"}
    /\ Listens => keys \in WholeKeys
    /\ file \in Key \cup {Broken, Unset} /\ known \subseteq Key
    /\ op # None => ar.err = "none" /\ ar.by \in WholeKeys
    /\ pc = "body" =>
         req.framed = Streaming(ar) /\ req.signed = SignedChunks(ar) /\ req.trailers = HasTrailers(ar)

Lesser(a, b) == IF a < b THEN a ELSE b

(* README.md, Seguridad: a request is served within the skew of the clocks,  *)
(* a presigned URL for as long as it says, and never longer than the limit.  *)
InTime(t) ==
    /\ t.signed - Skew <= ar.now
    /\ CASE t.auth = "header" -> ar.now <= t.signed + Skew
         [] t.auth = "presign" -> 0 < t.expires /\ ar.now <= t.signed + Lesser(t.expires * Second, MaxPresign)
         [] t.auth = "none" -> FALSE

(* What gets past Verify was signed, all that its signature covers, with the *)
(* secret of the server, under the name of its access key, and is in time;   *)
(* and what is so gets past, unless it asks for longer than the limit.  What *)
(* was signed is then served: the operation is the one that the client       *)
(* meant, and so are the bucket and the key, which may be in the path or in  *)
(* the host.                                                                 *)
ServedIffSigned ==
    LET genuine == /\ came = WithAccess(sent, ar.by)
                   /\ trip.signer.secret = ar.by.secret
                   /\ trip.auth = "presign" => trip.signer = ar.by
                   /\ InTime(trip)
    IN
    /\ ar # None /\ ar.err = "none" => genuine
    /\ ar # None /\ genuine /\ (trip.auth = "presign" => trip.expires * Second <= MaxPresign) => ar.err = "none"
    /\ op # None =>
         /\ op = trip.shape.op
         /\ trip.shape.at # "service" => at.bucket = trip.bucket
         /\ trip.shape.at = "object" => at.key = trip.key

(* README.md, Credenciales: the keys that were printed, which is done once,  *)
(* are those of the data for good.  Without variables the server starts with *)
(* these and no others; a start fails if one variable has no value, or       *)
(* before any keys were printed: a process that died while it wrote          *)
(* credentials.json, or could not write it, is not helped by a new start.    *)
ShownKeysWork ==
    /\ proc = "up" /\ setting = NoVariables /\ known # {} => known = {keys}
    /\ proc = "up" /\ setting # NoVariables => keys = setting
    /\ failed /\ known # {} => \E v \in {setting.access, setting.secret} : v # Unset

(* What a preflight says of a request that arrives unaltered holds of it: the *)
(* browser sends it if, and only if, a rule allows it, and then the page may *)
(* read the answer, whatever it is, a refusal for the signature included.    *)
Allowed(rule) ==
    /\ rule.origins \cap {"*", trip.origin} # {}
    /\ trip.shape.method \in rule.methods
    /\ rule.headers = {} \/ rule.headers = {"*"} \/ trip.wants \subseteq rule.headers

AnyAllows == \E rule \in Range(corsRules(Target(sent).bucket)) : Allowed(rule)
Sending == {"sent", "authorize", "route", "body", "answered"}

PreflightsTell ==
    trip.browser /\ came = sent =>
        /\ pc \in Sending => AnyAllows
        /\ pc = "blocked" => ~ AnyAllows
        /\ pc \in Sending \ {"sent"} => Readable(shows, trip.origin)

(* The reading of a body ends.  io.Copy calls Read until it returns an error *)
(* or the end, with the bucket's exclusive lock held (store.go:282): no body,*)
(* cut or damaged in whatever place, makes every further Read return neither *)
(* data nor a verdict, so an upload whose clients keep sending comes to its  *)
(* answer, or is lost with the process.                                      *)
ReadingEnds == (Reading /\ ~ trip.slow) ~> ~ Reading
===============================================================================
