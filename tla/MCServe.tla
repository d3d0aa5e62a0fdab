-------------------------------- MODULE MCServe --------------------------------
(* Trips for TLC: the times of a signature, what goes astray, keys through   *)
(* starts of the server, every operation in both styles, browsers, and the   *)
(* bodies of BodyReader.                                                     *)
EXTENDS Serve

CONSTANTS x, y

(* Bodies: an empty one, one and two frames, frames of one unit and of       *)
(* several, one frame that is larger than MaxChunk.                          *)
MCDatum == {x, y}
MCFrames == {<<>>, <<<<x, y>>>>, <<<<x>>, <<y>>>>, <<<<x, y>>, <<x>>>>, <<<<x, y, x>>>>}
MCLimits == {0, 2}

MCAddr == <<"0.0.0.0">>
MCPublic == <<"arca", "example">>

(* A rotation changes both variables, or only the secret. *)
K(access, secret) == [access |-> access, secret |-> secret]
k1 == K("a1", "s1")
k2 == K("a2", "s2")
MCKey == {k1, k2, K("a1", "s2")}

ShapeOf(name) == CHOOSE s \in Shapes : s.op = name

Plain == [shape |-> ShapeOf("GetObject"), bucket |-> <<"b">>, key |-> <<<<"k">>>>,
          base |-> <<"localhost">>, inHost |-> FALSE,
          auth |-> "header", signer |-> k1, signed |-> 0, expires |-> 0,
          browser |-> FALSE, origin |-> "o", wants |-> {}, rules |-> None,
          altered |-> FALSE, upload |-> FALSE, slow |-> FALSE, until |-> 0, starts |-> 1,
          settings |-> {Variables(k1)}]

OnURL == [Plain EXCEPT !.auth = "presign", !.expires = 1]

Times ==
    {[Plain EXCEPT !.signed = t, !.until = 12] : t \in 0..8}
        \cup {[OnURL EXCEPT !.signed = t, !.expires = n, !.until = 12] :
                 t \in {0, 3, 5}, n \in {-1, 0, 1, 3, 4, 16, 17}}

(* What arrives is not what was sent, or is signed with a key that the      *)
(* server does not have, or has under another name: the access key in a     *)
(* header is not covered by the signature.                                  *)
Strays ==
    {[t EXCEPT !.altered = TRUE, !.until = 1, !.shape = ShapeOf(name), !.inHost = inHost] :
        t \in {Plain, OnURL}, inHost \in BOOLEAN,
        name \in {"GetObject", "PutObject", "UploadPart", "ListObjects"}}
      \cup {[Plain EXCEPT !.altered = TRUE, !.shape = ShapeOf("CopyObject")],
            [Plain EXCEPT !.altered = TRUE, !.signer = k2, !.settings = {K("a1", "s2")}],
            [OnURL EXCEPT !.altered = TRUE, !.signer = k2, !.settings = {K("a1", "s2")}],
            [Plain EXCEPT !.auth = "none"]}

Rotations ==
    {[t EXCEPT !.signer = k, !.starts = 3,
               !.settings = {NoVariables, Variables(k1), K("a1", "s2"), K("a1", Unset), K(Unset, "s1")}] :
        t \in {Plain, OnURL}, k \in {k1, k2}}

Operations ==
    {[Plain EXCEPT !.shape = shape, !.bucket = bucket, !.key = key, !.base = base, !.inHost = inHost] :
        shape \in Shapes, bucket \in {<<"b">>, <<"b", "c">>},
        key \in {<<<<"k">>>>, <<<<"d">>, <<"k">>>>}, base \in {<<"localhost">>, MCPublic},
        inHost \in BOOLEAN}

RuleLists ==
    {None} \cup
    {<<Rule(origins, methods, headers)>> :
        origins \in {{"o"}, {"p"}, {"*"}, {"o", "*"}}, methods \in {{"GET"}, {"GET", "PUT"}},
        headers \in {{}, {"*"}, {"x-amz-date"}, {"x-amz-date", "authorization"}}}
TwoRules == {<<Rule({"o"}, {"PUT"}, {}), Rule({"*"}, {"PUT"}, headers)>> :
                headers \in {{"*"}, {"x-amz-date"}}}
              \cup {<<Rule({"o"}, {"PUT"}, {"x-amz-date"}), Rule({"*"}, {"PUT"}, {"*"})>>}

Browsers ==
    {[t EXCEPT !.browser = TRUE, !.rules = rules, !.wants = wants, !.shape = ShapeOf(name)] :
        t \in {Plain, [Plain EXCEPT !.signer = k2], OnURL},
        rules \in RuleLists \cup TwoRules,
        wants \in {{}, {"x-amz-date"}, {"x-amz-date", "authorization"}},
        name \in {"GetObject", "PutObject"}}

(* The clients of a slow bucket may stop: nothing is then promised. *)
Bodies == {[t EXCEPT !.upload = TRUE, !.slow = slow, !.shape = ShapeOf("PutObject")] :
              t \in {Plain, OnURL}, slow \in BOOLEAN}

MCTrips == Times \cup Strays \cup Rotations \cup Operations \cup Browsers \cup Bodies
===============================================================================
