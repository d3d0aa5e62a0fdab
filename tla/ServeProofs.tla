------------------------------ MODULE ServeProofs ------------------------------
(***************************************************************************)
(* What holds of a request on its way through the server, for every set of *)
(* keys, every list of CORS rules, every body and any number of starts and *)
(* crashes.  In this order:                                                *)
(*                                                                         *)
(* - the keys.  ShownKeysWork says nothing of a process on its way up, so  *)
(*   it is not inductive.  What carries it is the order of the steps: keys *)
(*   are shown once they are in the file, and a file with keys is never    *)
(*   written again;                                                        *)
(* - what a preflight says, from what the first rule that applies says;    *)
(* - the bodies.  All that is on the wire comes from some list of frames,  *)
(*   and what was handed on under a signature is what that signature       *)
(*   chains (BodyInv); of a wire that was only cut, the place where the    *)
(*   reader is, between two frames or within one (PlaceInv);               *)
(* - the types, with how the body is read: as the payload that was signed  *)
(*   says, because the signature covers it (TypeInv);                      *)
(* - what is served.  A verdict and a route are of the request that came   *)
(*   (VerdictTold, RoutedInv).  What got past the checks has the signature *)
(*   of what was sent, and the names a client means are read back from the *)
(*   host or the path, below whichever base it used.                       *)
(***************************************************************************)
EXTENDS Serve, FiniteSetTheorems, SequenceTheorems, WellFoundedInduction, TLAPS

(* The file holds what was shown of it. *)
ShownAreFiled == known # {} => file \in Key /\ known = {file}

(* New keys are made while none were shown, by a process without variables.  *)
RenewsBefore ==
    proc \in {"new", "opened", "written"} => known = {} /\ setting = NoVariables

FiledBeforeUp ==
    /\ proc = "written" => file \in Key /\ keys = file
    /\ proc = "up" => keys = IF setting = NoVariables THEN file ELSE setting

FailsForCause ==
    failed => proc = "down" /\ (known = {} \/ \E v \in {setting.access, setting.secret} : v # Unset)

KeysInv == ShownAreFiled /\ RenewsBefore /\ FiledBeforeUp /\ FailsForCause

Inv == trip \in Trips /\ KeysInv

USE DEF KeysInv, ShownAreFiled, RenewsBefore, FiledBeforeUp, FailsForCause

LEMMA InitInv == Init => Inv
BY DEF Init, Inv, CredentialsInit

(* A start that does not find variables finds the keys that were shown, or   *)
(* nothing that was.                                                         *)
LEMMA StartKeeps ==
    ASSUME KeysInv, NEW set \in Settings, Start(set)
    PROVE  KeysInv'
<1>1. set.access # Unset \/ set.secret # Unset \/ set = NoVariables
  BY DEF Settings, NoVariables
<1>2. known # {} => file \notin {Unset, Broken}
  BY KeyAssumption
<1>3. CASE set # NoVariables
  BY <1>1, <1>3 DEF Start, Load, Fail, Ready
<1>4. CASE set = NoVariables
  BY <1>2, <1>4 DEF Start, Load, Fail, Ready, Renew
<1> QED BY <1>3, <1>4

LEMMA StartUpKeeps ==
    ASSUME KeysInv, StartUp
    PROVE  KeysInv'
<1>1. CASE OpenFile
  BY <1>1 DEF OpenFile
<1>2. CASE FillFile
  BY <1>2 DEF FillFile
<1>3. CASE PrintKeys
  BY <1>3 DEF PrintKeys
<1> QED BY <1>1, <1>2, <1>3 DEF StartUp

LEMMA KillKeeps ==
    ASSUME KeysInv, Kill
    PROVE  KeysInv'
BY DEF Kill

LEMMA NextInv == Inv /\ [Next]_vars => Inv'
<1> SUFFICES ASSUME Inv, [Next]_vars PROVE Inv'
  OBVIOUS
<1>1. trip' = trip
  BY DEF Next, vars, front, Send, Tick, Handle, Preflight, WriteHeaders, Authorize, Route, Body,
         Begin, Die
<1>2. CASE UNCHANGED credentials
  BY <1>1, <1>2 DEF Inv, credentials
<1>3. CASE Begin
  <2>1. PICK set \in trip.settings : Start(set)
    BY <1>3 DEF Begin
  <2>2. set \in Settings
    BY <2>1, TripsAssumption DEF Inv
  <2> QED BY <1>1, <2>1, <2>2, StartKeeps DEF Inv
<1>4. CASE StartUp
  BY <1>1, <1>4, StartUpKeeps DEF Inv
<1>5. CASE Die
  BY <1>1, <1>5, KillKeeps DEF Inv, Die
<1> QED BY <1>2, <1>3, <1>4, <1>5
        DEF Next, vars, Send, Tick, Handle, Preflight, WriteHeaders, Authorize, Route, Body

LEMMA InvShown == Inv => ShownKeysWork
BY DEF Inv, ShownKeysWork

(* The keys that were printed, once, are those of the data for good, and no  *)
(* start without variables fails after that (loadKeys, cmd/arca/main.go).    *)
THEOREM ShownKeysGoOnWorking == Spec => []ShownKeysWork
<1>1. Spec => []Inv
  BY InitInv, NextInv, PTL DEF Spec
<1> QED BY <1>1, InvShown, PTL
-------------------------------------------------------------------------------
(* What a preflight says.  The answer is written from the first rule that    *)
(* applies: if some rule applies there is a first one.                       *)
LEMMA FirstOf ==
    ASSUME NEW S \in SUBSET Nat, S # {}
    PROVE  \E m \in S : \A n \in S : m <= n
<1> DEFINE R == OpToRel(<, Nat)
<1>1. PICK m \in S : \A n \in S : <<n, m>> \notin R
  <2>1. IsWellFoundedOn(R, Nat)
    BY NatLessThanWellFounded
  <2> HIDE DEF R
  <2> QED BY <2>1, WFMin
<1>2. ASSUME NEW n \in S PROVE ~ (n < m)
  <2>1. n < m => <<n, m>> \in R
    BY DEF OpToRel
  <2> QED BY <1>1, <2>1
<1> QED BY <1>2

LEMMA MatchFacts ==
    ASSUME NEW rules, DOMAIN rules \subseteq Nat, NEW origin, NEW method, NEW requested
    PROVE  /\ \A rule \in matchCORS(rules, origin, method, requested) :
                 rule \in Range(rules) /\ Applies(rule, origin, method, requested)
           /\ (\E rule \in Range(rules) : Applies(rule, origin, method, requested))
                => matchCORS(rules, origin, method, requested) # {}
<1> DEFINE fits == {i \in DOMAIN rules : Applies(rules[i], origin, method, requested)}
           match == {rules[i] : i \in {j \in fits : \A k \in fits : j <= k}}
<1>1. matchCORS(rules, origin, method, requested) = match
  BY DEF matchCORS
<1>2. \A rule \in match : rule \in Range(rules) /\ Applies(rule, origin, method, requested)
  BY DEF Range
<1>3. ASSUME NEW rule \in Range(rules), Applies(rule, origin, method, requested)
      PROVE  match # {}
  <2>1. fits # {}
    BY <1>3 DEF Range
  <2>2. fits \in SUBSET Nat
    OBVIOUS
  <2>3. PICK m \in fits : \A n \in fits : m <= n
    <3> HIDE DEF fits
    <3> QED BY <2>1, <2>2, FirstOf
  <2> QED BY <2>3
<1> QED BY <1>1, <1>2, <1>3

(* The browser sends the request that it asked about if, and only if, one of *)
(* the rules applies to it.                                                  *)
LEMMA SendsIfApplies ==
    ASSUME NEW rules, DOMAIN rules \subseteq Nat, NEW origin, NEW method, NEW requested
    PROVE  MaySend(writeCORS(rules, origin, method, requested), origin, method, requested)
             <=> \E rule \in Range(rules) : Applies(rule, origin, method, requested)
<1> DEFINE match == matchCORS(rules, origin, method, requested)
           says == writeCORS(rules, origin, method, requested)
           Answer(rule) == [origin |-> IF rule.origins = {"*"} THEN "*" ELSE origin,
                            methods |-> rule.methods, headers |-> AllowHeaders(rule, requested)]
<1>1. says = {Answer(rule) : rule \in match}
  BY DEF writeCORS
<1>2. ASSUME NEW rule \in match
      PROVE  /\ Answer(rule).origin \in {"*", origin}
             /\ method \in Answer(rule).methods
             /\ requested \subseteq Answer(rule).headers
  <2>1. Applies(rule, origin, method, requested)
    BY MatchFacts
  <2> QED BY <2>1 DEF Applies, headersAllowed, AllowHeaders
<1>3. MaySend(says, origin, method, requested) => match # {}
  BY <1>1 DEF MaySend, Readable
<1>4. ASSUME match # {} PROVE MaySend(says, origin, method, requested)
  <2>1. PICK rule \in match : TRUE
    BY <1>4
  <2>2. Answer(rule) \in says
    BY <1>1
  <2> HIDE DEF Answer, says
  <2> QED BY <1>2, <2>2 DEF MaySend, Readable
<1>5. match # {} <=> \E rule \in Range(rules) : Applies(rule, origin, method, requested)
  BY MatchFacts
<1> QED BY <1>3, <1>4, <1>5

(* The answer to a request is for the page to read if a rule applies to it   *)
(* with whatever headers.                                                    *)
LEMMA ReadsIfApplies ==
    ASSUME NEW rules, DOMAIN rules \subseteq Nat, NEW origin, NEW method, NEW requested,
           NEW rule \in Range(rules), Applies(rule, origin, method, requested)
    PROVE  Readable(writeCORS(rules, origin, method, {}), origin)
<1>1. Applies(rule, origin, method, {})
  BY DEF Applies, headersAllowed
<1>2. MaySend(writeCORS(rules, origin, method, {}), origin, method, {})
  BY <1>1, SendsIfApplies
<1> QED BY <1>2 DEF MaySend

LEMMA RulesAreRules ==
    ASSUME trip \in Trips, NEW bucket
    PROVE  DOMAIN corsRules(bucket) \subseteq Nat
<1>1. DOMAIN defaultCORS \subseteq Nat
  BY DEF defaultCORS
<1>2. trip.rules # None => DOMAIN trip.rules \subseteq Nat
  BY TripsAssumption
<1> QED BY <1>1, <1>2 DEF corsRules

LEMMA AllowedApplies ==
    ASSUME NEW rule
    PROVE  Allowed(rule) <=> Applies(rule, trip.origin, trip.shape.method, trip.wants)
BY DEF Allowed, Applies, containsOrStar, headersAllowed

(* Signing a request leaves its method as it is. *)
LEMMA SignedMethod ==
    ASSUME NEW t \in Trips, NEW payload
    PROVE  Signed(t, payload).method = t.shape.method
<1> DEFINE r == Unsigned(t, payload)
<1>1. r.method = t.shape.method
  BY DEF Unsigned
<1>2. Sign(r, t.signer, "auto", t.signed).method = t.shape.method
  BY DEF Unsigned, Sign
<1>3. Presign(r, t.signer, "auto", t.expires, t.signed).method = t.shape.method
  BY DEF Unsigned, Presign
<1>4. t.auth \in {"header", "presign", "none"}
  BY TripsAssumption
<1> QED BY <1>1, <1>2, <1>3, <1>4 DEF Signed

(* What the browser was told, in terms of the rules for the request.         *)
RulesFor == corsRules(Target(came).bucket)
SomeApplies == \E rule \in Range(RulesFor) : Applies(rule, trip.origin, came.method, trip.wants)

AnswerShown == shows = writeCORS(RulesFor, trip.origin, came.method, {})

CorsInv ==
    /\ trip \in Trips
    /\ sent.method = trip.shape.method
    /\ trip.browser =>
         /\ pc \in Sending => SomeApplies
         /\ pc = "blocked" => ~ SomeApplies
         /\ pc \in Sending \ {"sent"} => AnswerShown

LEMMA InitCors == Init => CorsInv
BY SignedMethod DEF Init, CorsInv, Sending

(* Steps that leave the exchange of the headers as it is. *)
LEMMA SameCors ==
    ASSUME CorsInv, UNCHANGED <<trip, sent, came, shows>>,
           pc' = pc \/ (pc \in Sending \ {"sent"} /\ pc' \in Sending \ {"sent"}) \/ pc' = "lost"
    PROVE  CorsInv'
BY DEF CorsInv, Sending, SomeApplies, AnswerShown, RulesFor, corsRules

LEMMA SendCors ==
    ASSUME CorsInv, Send
    PROVE  CorsInv'
BY DEF CorsInv, Send, Sending

LEMMA PreflightCors ==
    ASSUME CorsInv, Preflight
    PROVE  CorsInv'
<1>1. RulesFor' = RulesFor /\ came' = came /\ trip' = trip
  BY DEF Preflight, RulesFor, corsRules
<1>2. DOMAIN RulesFor \subseteq Nat
  BY RulesAreRules DEF CorsInv, RulesFor
<1>3. pc' = IF SomeApplies THEN "sent" ELSE "blocked"
  BY <1>2, SendsIfApplies DEF Preflight, SomeApplies, RulesFor
<1> QED BY <1>1, <1>3 DEF CorsInv, Preflight, Sending, SomeApplies

LEMMA WriteHeadersCors ==
    ASSUME CorsInv, WriteHeaders
    PROVE  CorsInv'
<1>1. RulesFor' = RulesFor /\ came' = came /\ trip' = trip
  BY DEF WriteHeaders, RulesFor, corsRules
<1>2. SomeApplies' = SomeApplies
  BY <1>1 DEF SomeApplies
<1>3. trip.browser => AnswerShown'
  BY <1>1 DEF WriteHeaders, AnswerShown, RulesFor
<1> QED BY <1>1, <1>2, <1>3 DEF CorsInv, WriteHeaders, Sending

LEMMA NextCors == CorsInv /\ [Next]_vars => CorsInv'
<1> SUFFICES ASSUME CorsInv, [Next]_vars PROVE CorsInv'
  OBVIOUS
<1>1. CASE Send
  BY <1>1, SendCors
<1>2. CASE Preflight
  BY <1>2, PreflightCors
<1>3. CASE WriteHeaders
  BY <1>3, WriteHeadersCors
<1>4. CASE Authorize \/ Route
  BY <1>4, SameCors DEF Authorize, Route, Sending
<1>5. CASE Tick \/ Body \/ Begin \/ (StartUp /\ UNCHANGED <<body, front>>) \/ UNCHANGED vars
  BY <1>5, SameCors DEF Tick, Body, Begin, front, vars
<1>6. CASE Die
  BY <1>6, SameCors DEF Die, Sending
<1> QED BY <1>1, <1>2, <1>3, <1>4, <1>5, <1>6 DEF Next, Handle

LEMMA CorsTells == CorsInv => PreflightsTell
<1> SUFFICES ASSUME CorsInv, trip.browser, came = sent
             PROVE  /\ pc \in Sending => AnyAllows
                    /\ pc = "blocked" => ~ AnyAllows
                    /\ pc \in Sending \ {"sent"} => Readable(shows, trip.origin)
  BY DEF PreflightsTell
<1>1. AnyAllows <=> SomeApplies
  BY AllowedApplies DEF CorsInv, AnyAllows, SomeApplies, RulesFor
<1>2. DOMAIN RulesFor \subseteq Nat
  BY RulesAreRules DEF CorsInv, RulesFor
<1>3. ASSUME pc \in Sending \ {"sent"} PROVE Readable(shows, trip.origin)
  <2>1. PICK rule \in Range(RulesFor) : Applies(rule, trip.origin, came.method, trip.wants)
    BY <1>3 DEF CorsInv, SomeApplies
  <2>2. Readable(writeCORS(RulesFor, trip.origin, came.method, {}), trip.origin)
    BY <1>2, <2>1, ReadsIfApplies
  <2> QED BY <1>3, <2>2 DEF CorsInv, AnswerShown
<1> QED BY <1>1, <1>3 DEF CorsInv

(* A preflight tells the browser the truth, for every list of rules, every   *)
(* origin and every set of headers that is asked for (matchCORS, writeCORS   *)
(* and serve): a request that arrives as it was asked about is sent if, and  *)
(* only if, a rule allows it, and its answer is then for the page to read,   *)
(* whatever it is.                                                           *)
THEOREM PreflightsTellTruth == Spec => []PreflightsTell
<1>1. Spec => []CorsInv
  BY InitCors, NextCors, PTL DEF Spec
<1> QED BY <1>1, CorsTells, PTL

-------------------------------------------------------------------------------
(* The bodies.  FlattenSeq, which puts the frames together, is a recursive   *)
(* function: that there is one follows by the least length at which there    *)
(* were none.                                                                *)
LEMMA LeastOf ==
    ASSUME NEW S \in SUBSET Nat, S # {}
    PROVE  \E m \in S : m - 1 \notin S
<1>1. PICK m \in S : \A n \in S : m <= n
  BY FirstOf
<1>2. ~ (m <= m - 1)
  OBVIOUS
<1> QED BY <1>1, <1>2

(* What FlattenSeq computes: each of these sequences after the last. *)
Joins(f, s, n) == f[1] = s[1] /\ \A i \in 2..n : f[i] = f[i - 1] \o s[i]

LEMMA JoinsExist ==
    ASSUME NEW T, NEW s \in Seq(Seq(T)), NEW n \in 1..Len(s)
    PROVE  \E f \in [1..n -> Seq(T)] : Joins(f, s, n)
<1> DEFINE Fails == {m \in 1..Len(s) : ~ \E f \in [1..m -> Seq(T)] : Joins(f, s, m)}
<1>1. Len(s) \in Nat /\ \A i \in 1..Len(s) : s[i] \in Seq(T)
  OBVIOUS
<1>2. ASSUME Fails # {} PROVE FALSE
  <2>1. PICK m \in Fails : m - 1 \notin Fails
    <3>1. Fails \in SUBSET Nat
      OBVIOUS
    <3> HIDE DEF Fails
    <3> QED BY <1>2, <3>1, LeastOf
  <2>2. m \in 1..Len(s) /\ ~ \E f \in [1..m -> Seq(T)] : Joins(f, s, m)
    OBVIOUS
  <2>3. CASE m = 1
    <3> DEFINE f == [i \in 1..1 |-> s[1]]
    <3>1. f \in [1..m -> Seq(T)] /\ f[1] = s[1]
      BY <1>1, <2>2, <2>3
    <3>2. 2..m = {}
      BY <2>3
    <3> QED BY <2>2, <3>1, <3>2 DEF Joins
  <2>4. CASE m # 1
    <3>1. m - 1 \in 1..Len(s) /\ m - 1 \notin Fails
      <4>1. m - 1 \notin Fails
        BY <2>1
      <4>2. m - 1 \in 1..Len(s)
        <5> HIDE DEF Fails
        <5> QED BY <1>1, <2>2, <2>4
      <4> QED BY <4>1, <4>2
    <3>2. PICK f \in [1..(m - 1) -> Seq(T)] : Joins(f, s, m - 1)
      BY <3>1
    <3> DEFINE g == [i \in 1..m |-> IF i = m THEN f[m - 1] \o s[m] ELSE f[i]]
    <3>3. f[m - 1] \in Seq(T) /\ s[m] \in Seq(T)
      BY <1>1, <2>2, <3>1
    <3>4. \A i \in 1..m : i = m \/ i \in 1..(m - 1)
      BY <2>2
    <3>5. g \in [1..m -> Seq(T)]
      <4>1. \A i \in 1..m : g[i] \in Seq(T)
        <5> SUFFICES ASSUME NEW i \in 1..m PROVE g[i] \in Seq(T)
          OBVIOUS
        <5>1. CASE i = m
          <6>1. f[m - 1] \o s[m] \in Seq(T)
            BY <3>3
          <6> QED BY <5>1, <6>1
        <5>2. CASE i # m
          <6>1. i \in 1..(m - 1)
            BY <3>4, <5>2
          <6> QED BY <5>2, <6>1
        <5> QED BY <5>1, <5>2
      <4> QED BY <4>1
    <3>6. g[1] = s[1]
      BY <2>2, <2>4, <3>2 DEF Joins
    <3>7. ASSUME NEW i \in 2..m PROVE g[i] = g[i - 1] \o s[i]
      <4>1. i \in 1..m /\ i - 1 \in 1..m /\ i - 1 # m
        BY <2>2
      <4>2. CASE i = m
        BY <4>1, <4>2
      <4>3. CASE i # m
        <5>1. i \in 2..(m - 1)
          BY <2>2, <4>3
        <5>2. f[i] = f[i - 1] \o s[i]
          BY <3>2, <5>1 DEF Joins
        <5> QED BY <4>1, <4>3, <5>2
      <4> QED BY <4>2, <4>3
    <3> HIDE DEF g
    <3>8. Joins(g, s, m)
      BY <3>6, <3>7 DEF Joins
    <3> QED BY <2>2, <3>5, <3>8
  <2> QED BY <2>3, <2>4
<1> QED BY <1>2

LEMMA FlattenJoins ==
    ASSUME NEW T, NEW s \in Seq(Seq(T)), s # <<>>
    PROVE  \E f \in [1..Len(s) -> Seq(T)] : Joins(f, s, Len(s)) /\ FlattenSeq(s) = f[Len(s)]
<1> DEFINE N == Len(s)
           Eq(f) == f = [i \in 1..N |-> IF i = 1 THEN s[i] ELSE f[i - 1] \o s[i]]
           h == CHOOSE f : Eq(f)
<1>1. N \in Nat /\ N # 0 /\ \A i \in 1..N : s[i] \in Seq(T)
  OBVIOUS
<1>2. FlattenSeq(s) = h[N]
  BY <1>1 DEF FlattenSeq
<1>3. \E f : Eq(f)
  <2>1. N \in 1..Len(s)
    BY <1>1
  <2>2. PICK f \in [1..N -> Seq(T)] : Joins(f, s, N)
    BY <2>1, JoinsExist
  <2>3. \A i \in 1..N : i = 1 \/ i \in 2..N
    BY <1>1
  <2>4. \A i \in 1..N : f[i] = IF i = 1 THEN s[i] ELSE f[i - 1] \o s[i]
    BY <2>2, <2>3 DEF Joins
  <2>5. Eq(f)
    BY <2>4
  <2> QED BY <2>5
<1>4. Eq(h)
  <2> HIDE DEF Eq
  <2> QED BY <1>3
<1> HIDE DEF h
<1>5. DOMAIN h = 1..N /\ \A i \in 1..N : h[i] = IF i = 1 THEN s[i] ELSE h[i - 1] \o s[i]
  BY <1>4
<1>6. Joins(h, s, N)
  <2>1. 1 \in 1..N /\ \A i \in 2..N : i \in 1..N /\ i # 1
    BY <1>1
  <2> HIDE DEF N
  <2>2. h[1] = s[1] /\ \A i \in 2..N : h[i] = h[i - 1] \o s[i]
    BY <1>5, <2>1
  <2> QED BY <2>2 DEF Joins
<1> DEFINE Odd == {i \in 1..N : h[i] \notin Seq(T)}
<1>7. ASSUME Odd # {} PROVE FALSE
  <2>1. PICK m \in Odd : m - 1 \notin Odd
    <3>1. Odd \in SUBSET Nat
      BY <1>1
    <3> HIDE DEF Odd
    <3> QED BY <1>7, <3>1, LeastOf
  <2>2. m # 1
    BY <1>1, <1>5, <2>1
  <2>3. m - 1 \in 1..N /\ m - 1 \notin Odd
    BY <1>1, <2>1, <2>2
  <2>4. h[m - 1] \in Seq(T) /\ s[m] \in Seq(T) /\ h[m] = h[m - 1] \o s[m]
    BY <1>1, <1>5, <2>1, <2>2, <2>3
  <2>5. h[m - 1] \o s[m] \in Seq(T)
    BY <2>4
  <2>6. h[m] \notin Seq(T)
    BY <2>1
  <2> QED BY <2>4, <2>5, <2>6
<1>8. h = [i \in 1..N |-> h[i]]
  BY <1>4
<1>9. h \in [1..N -> Seq(T)]
  BY <1>7, <1>8
<1> QED BY <1>2, <1>6, <1>9

LEMMA FlattenType ==
    ASSUME NEW T, NEW s \in Seq(Seq(T))
    PROVE  FlattenSeq(s) \in Seq(T)
<1>1. CASE s = <<>>
  BY <1>1 DEF FlattenSeq
<1>2. CASE s # <<>>
  <2>1. PICK f \in [1..Len(s) -> Seq(T)] : FlattenSeq(s) = f[Len(s)]
    BY <1>2, FlattenJoins
  <2>2. Len(s) \in 1..Len(s)
    BY <1>2
  <2> QED BY <2>1, <2>2
<1> QED BY <1>1, <1>2

(* One sequence more. *)
LEMMA FlattenMore ==
    ASSUME NEW T, NEW s \in Seq(Seq(T)), NEW x \in Seq(T)
    PROVE  FlattenSeq(Append(s, x)) = FlattenSeq(s) \o x
<1> DEFINE t == Append(s, x)
<1>1. /\ t \in Seq(Seq(T)) /\ Len(t) = Len(s) + 1 /\ t # <<>>
      /\ Len(s) \in Nat /\ t[Len(s) + 1] = x /\ \A i \in 1..Len(s) : t[i] = s[i]
  <2> DEFINE U == Seq(T)
  <2>1. s \in Seq(U) /\ x \in U
    OBVIOUS
  <2> HIDE DEF U
  <2>2. /\ t \in Seq(U) /\ Len(t) = Len(s) + 1
        /\ Len(s) \in Nat /\ t[Len(s) + 1] = x /\ \A i \in 1..Len(s) : t[i] = s[i]
    BY <2>1
  <2>3. t # <<>>
    BY <2>1
  <2> QED BY <2>2, <2>3 DEF U
<1> HIDE DEF t
<1>2. PICK g \in [1..Len(t) -> Seq(T)] : Joins(g, t, Len(t)) /\ FlattenSeq(t) = g[Len(t)]
  BY <1>1, FlattenJoins
<1>3. CASE s = <<>>
  <2>1. Len(t) = 1 /\ FlattenSeq(t) = x
    BY <1>1, <1>2, <1>3 DEF Joins
  <2>2. FlattenSeq(s) = <<>>
    BY <1>3 DEF FlattenSeq
  <2>3. <<>> \o x = x
    BY ConcatEmptySeq
  <2> QED BY <1>3, <2>1, <2>2, <2>3 DEF t
<1>4. CASE s # <<>>
  <2>1. PICK f \in [1..Len(s) -> Seq(T)] : Joins(f, s, Len(s)) /\ FlattenSeq(s) = f[Len(s)]
    BY <1>4, FlattenJoins
  <2> DEFINE Differ == {i \in 1..Len(s) : f[i] # g[i]}
  <2>2. ASSUME Differ # {} PROVE FALSE
    <3>1. PICK m \in Differ : m - 1 \notin Differ
      <4>1. Differ \in SUBSET Nat
        OBVIOUS
      <4> HIDE DEF Differ
      <4> QED BY <2>2, <4>1, LeastOf
    <3>2. m # 1
      BY <1>1, <1>2, <2>1, <3>1 DEF Joins
    <3>3. m - 1 \in 1..Len(s) /\ m - 1 \notin Differ /\ m \in 2..Len(s) /\ m \in 2..Len(t)
      <4>1. m \in 1..Len(s) /\ m - 1 \notin Differ
        BY <3>1
      <4> HIDE DEF Differ
      <4>2. Len(s) \in Nat /\ Len(t) = Len(s) + 1
        BY <1>1
      <4> QED BY <3>2, <4>1, <4>2
    <3>4. f[m] = f[m - 1] \o s[m] /\ g[m] = g[m - 1] \o t[m]
      BY <1>2, <2>1, <3>3 DEF Joins
    <3>5. s[m] = t[m] /\ f[m - 1] = g[m - 1]
      BY <1>1, <3>3
    <3> QED BY <3>1, <3>4, <3>5
  <2>3. Len(s) \in 1..Len(s) /\ Len(t) \in 2..Len(t)
    BY <1>1, <1>4
  <2>4. f[Len(s)] = g[Len(s)]
    BY <2>2, <2>3
  <2>5. g[Len(t)] = g[Len(t) - 1] \o t[Len(t)]
    BY <1>2, <2>3 DEF Joins
  <2>6. Len(t) - 1 = Len(s) /\ t[Len(t)] = x
    BY <1>1
  <2> QED BY <1>2, <2>1, <2>4, <2>5, <2>6 DEF t
<1> QED BY <1>3, <1>4

LEMMA Part ==
    ASSUME NEW S, NEW s \in Seq(S), NEW m \in Nat \ {0}, NEW n \in Int, n <= Len(s)
    PROVE  /\ SubSeq(s, m, n) \in Seq(S)
           /\ Len(SubSeq(s, m, n)) = IF m <= n THEN n - m + 1 ELSE 0
           /\ \A i \in 1..(n - m + 1) : SubSeq(s, m, n)[i] = s[m + i - 1]
<1>1. m \in Int /\ \A i \in m..n : s[i] \in S
  OBVIOUS
<1> QED BY <1>1, SubSeqProperties

(* What a body, and its signatures, are made of. *)
Unit == {Data(d) : d \in Datum}
Content == Seq(Unit)
Chain == Seq(Content)

(* The bodies that are sent, the one of a request without a body included.   *)
Framings == Frames \cup {<<>>}

(* The end of the encoding. *)
LastChain(frames) == Append(Signature(frames), <<>>)
Closing(frames) == Size(0, LastChain(frames))
TrailersOf(frames) == Trailers(BodyOf(frames), <<LastChain(frames), BodyOf(frames)>>)
Framed(frames, order) == FlattenSeq([i \in 1..Len(order) |-> FrameOf(frames, order[i])])

(* What can be on the wire: size lines of any size under the signatures of   *)
(* these frames, their trailers, and the same with another sum.              *)
Signatures(frames) == {Signature(SubSeq(frames, 1, i)) : i \in 1..Len(frames)} \cup {LastChain(frames)}
SizeToken(frames) == [kind : {"size"}, n : Nat, sig : Signatures(frames)]
Own(frames) == Unit \cup SizeToken(frames) \cup {CRLF, TrailersOf(frames)}
Blank(frames) == [TrailersOf(frames) EXCEPT !.sum = <<>>]
Token(frames) == Own(frames) \cup {Blank(frames)}

LEMMA FrameFacts ==
    ASSUME NEW frames \in Framings
    PROVE  /\ frames \in Seq(Seq(Datum)) /\ Len(frames) \in Nat
           /\ \A i \in 1..Len(frames) :
                 /\ frames[i] \in Seq(Datum) /\ Len(frames[i]) \in Nat \ {0}
                 /\ DataOf(frames[i]) \in Content /\ Len(DataOf(frames[i])) = Len(frames[i])
<1>1. frames \in Seq(Seq(Datum) \ {<<>>})
  BY FramesAssumption, EmptySeq DEF Framings
<1>2. \A i \in 1..Len(frames) : frames[i] \in Seq(Datum) \ {<<>>}
  BY <1>1
<1>3. frames \in Seq(Seq(Datum)) /\ Len(frames) \in Nat
  BY <1>1, <1>2
<1>4. ASSUME NEW f \in Seq(Datum), f # <<>>
      PROVE  /\ Len(f) \in Nat \ {0} /\ DataOf(f) \in Content /\ Len(DataOf(f)) = Len(f)
  <2>1. Len(f) \in Nat \ {0} /\ \A i \in 1..Len(f) : f[i] \in Datum
    BY <1>4
  <2>2. \A i \in 1..Len(f) : Data(f[i]) \in Unit
    BY <2>1 DEF Unit
  <2> HIDE DEF Unit
  <2>3. DataOf(f) \in Seq(Unit) /\ Len(DataOf(f)) = Len(f)
    BY <2>1, <2>2, IsASeq DEF DataOf
  <2> QED BY <2>1, <2>3 DEF Content
<1> QED BY <1>2, <1>3, <1>4

LEMMA BodyFacts ==
    ASSUME NEW frames \in Framings
    PROVE  /\ FlattenSeq(frames) \in Seq(Datum) /\ BodyOf(frames) \in Content
           /\ Len(BodyOf(frames)) \in Nat /\ Len(BodyOf(frames)) = Len(FlattenSeq(frames))
<1>1. FlattenSeq(frames) \in Seq(Datum)
  BY FrameFacts, FlattenType
<1> DEFINE f == FlattenSeq(frames)
<1> HIDE DEF f
<1>2. f \in Seq(Datum) /\ Len(f) \in Nat
  BY <1>1 DEF f
<1>3. \A i \in 1..Len(f) : Data(f[i]) \in Unit
  BY <1>2 DEF Unit
<1>4. DataOf(f) \in Content /\ Len(DataOf(f)) = Len(f)
  BY <1>2, <1>3, IsASeq DEF DataOf, Content
<1> QED BY <1>1, <1>2, <1>4 DEF BodyOf, f

LEMMA SignatureFacts ==
    ASSUME NEW frames \in Framings, NEW n \in 0..Len(frames)
    PROVE  /\ Signature(SubSeq(frames, 1, n)) \in Chain
           /\ Len(Signature(SubSeq(frames, 1, n))) = n
           /\ \A i \in 1..n : Signature(SubSeq(frames, 1, n))[i] = DataOf(frames[i])
           /\ Signature(SubSeq(frames, 1, Len(frames))) = Signature(frames)
<1> DEFINE f == SubSeq(frames, 1, n)
<1>1. f \in Seq(Seq(Datum)) /\ Len(f) = n /\ \A i \in 1..n : f[i] = frames[i]
  BY FrameFacts, Part
<1>2. SubSeq(frames, 1, Len(frames)) = frames
  BY FrameFacts, SubSeqFull
<1>3. \A i \in 1..n : DataOf(f[i]) \in Content
  BY <1>1, FrameFacts
<1> HIDE DEF f
<1>4. Signature(f) = [i \in 1..n |-> DataOf(f[i])]
  BY <1>1 DEF Signature
<1>5. Signature(f) \in Chain /\ Len(Signature(f)) = n
  BY <1>3, <1>4, IsASeq DEF Chain
<1> QED BY <1>1, <1>2, <1>4, <1>5 DEF f

LEMMA ChainFacts ==
    ASSUME NEW frames \in Framings
    PROVE  /\ Signature(frames) \in Chain /\ Len(Signature(frames)) = Len(frames)
           /\ LastChain(frames) \in Chain /\ Signatures(frames) \subseteq Chain
<1>1. Signature(frames) \in Chain /\ Len(Signature(frames)) = Len(frames)
  BY FrameFacts, SignatureFacts
<1>2. <<>> \in Content
  BY DEF Content
<1>3. LastChain(frames) \in Chain
  BY <1>1, <1>2 DEF LastChain, Chain
<1>4. \A i \in 1..Len(frames) : Signature(SubSeq(frames, 1, i)) \in Chain
  BY FrameFacts, SignatureFacts
<1> QED BY <1>1, <1>3, <1>4 DEF Signatures

LEMMA FrameType ==
    ASSUME NEW frames \in Framings, NEW i \in 1..Len(frames)
    PROVE  FrameOf(frames, i) \in Seq(Own(frames))
<1>1. Size(Len(frames[i]), Signature(SubSeq(frames, 1, i))) \in Own(frames)
  <2>1. Signature(SubSeq(frames, 1, i)) \in Signatures(frames)
    BY DEF Signatures
  <2>2. Len(frames[i]) \in Nat
    BY FrameFacts
  <2> QED BY <2>1, <2>2 DEF Own, SizeToken, Size
<1>2. DataOf(frames[i]) \in Seq(Own(frames))
  BY FrameFacts DEF Content, Own
<1>3. CRLF \in Own(frames)
  BY DEF Own
<1> QED BY <1>1, <1>2, <1>3 DEF FrameOf

LEMMA EncodingIs ==
    ASSUME NEW frames, NEW order, NEW trailers
    PROVE  Encoding(frames, order, trailers)
             = Framed(frames, order) \o <<Closing(frames)>>
                  \o IF trailers THEN <<TrailersOf(frames)>> ELSE <<>>
BY DEF Encoding, Framed, Closing, TrailersOf, LastChain

LEMMA EndingType ==
    ASSUME NEW frames \in Framings
    PROVE  Closing(frames) \in Own(frames) /\ TrailersOf(frames) \in Own(frames)
<1>1. LastChain(frames) \in Signatures(frames)
  BY DEF Signatures
<1>2. Closing(frames) \in SizeToken(frames)
  BY <1>1 DEF Closing, Size, SizeToken
<1> QED BY <1>2 DEF Own

LEMMA FramedType ==
    ASSUME NEW frames \in Framings, NEW order \in Seq(1..Len(frames))
    PROVE  Framed(frames, order) \in Seq(Own(frames))
<1> DEFINE s == [i \in 1..Len(order) |-> FrameOf(frames, order[i])]
<1>1. \A i \in 1..Len(order) : FrameOf(frames, order[i]) \in Seq(Own(frames))
  BY FrameType
<1>2. s \in Seq(Seq(Own(frames)))
  BY <1>1, IsASeq
<1> HIDE DEF s
<1>3. FlattenSeq(s) \in Seq(Own(frames))
  BY <1>2, FlattenType
<1> QED BY <1>3 DEF Framed, s

LEMMA EncodingType ==
    ASSUME NEW frames \in Framings, NEW order \in Seq(1..Len(frames)), NEW trailers
    PROVE  Encoding(frames, order, trailers) \in Seq(Own(frames))
<1> DEFINE f == Framed(frames, order)
           a == Closing(frames)
           b == TrailersOf(frames)
<1>1. f \in Seq(Own(frames)) /\ a \in Own(frames) /\ b \in Own(frames)
  BY FramedType, EndingType
<1> HIDE DEF f, a, b
<1>2. f \o <<a>> \o (IF trailers THEN <<b>> ELSE <<>>) \in Seq(Own(frames))
  BY <1>1
<1> QED BY <1>2, EncodingIs DEF f, a, b

LEMMA OrdersType ==
    ASSUME NEW frames \in Framings
    PROVE  /\ InOrder(frames) \in Seq(1..Len(frames))
           /\ Disorders(frames) \subseteq Seq(1..Len(frames))
<1> DEFINE N == 1..Len(frames)
           o == InOrder(frames)
<1>1. Len(frames) \in Nat
  BY FrameFacts
<1>2. o \in Seq(N) /\ Len(o) = Len(frames)
  BY <1>1, IsASeq DEF InOrder
<1>3. Disorders(frames) = {RemoveAt(o, i) : i \in DOMAIN o} \cup {InsertAt(o, i, i) : i \in DOMAIN o}
          \cup ({[o EXCEPT ![i] = j, ![j] = i] : i, j \in DOMAIN o} \ {o})
  BY DEF Disorders
<1>4. DOMAIN o = N
  BY <1>2
<1> HIDE DEF N, o
<1>5. ASSUME NEW i \in N
      PROVE  RemoveAt(o, i) \in Seq(N) /\ InsertAt(o, i, i) \in Seq(N)
  <2>1. /\ i - 1 \in Int /\ i - 1 <= Len(o) /\ i \in Nat \ {0} /\ i + 1 \in Nat \ {0}
        /\ Len(o) \in Int /\ Len(o) <= Len(o)
    BY <1>1, <1>2 DEF N
  <2>2. SubSeq(o, 1, i - 1) \in Seq(N) /\ SubSeq(o, i, Len(o)) \in Seq(N) /\ SubSeq(o, i + 1, Len(o)) \in Seq(N)
    BY <1>2, <2>1, Part
  <2> QED BY <2>2 DEF RemoveAt, InsertAt
<1>6. ASSUME NEW i \in N, NEW j \in N
      PROVE  [o EXCEPT ![i] = j, ![j] = i] \in Seq(N)
  <2> DEFINE p == [o EXCEPT ![i] = j]
  <2>1. p \in Seq(N) /\ Len(p) = Len(o) /\ i \in 1..Len(o) /\ j \in 1..Len(o)
    BY <1>2, <1>4, ExceptSeq, SMTT(30)
  <2>2. [o EXCEPT ![i] = j, ![j] = i] = [p EXCEPT ![j] = i]
    OBVIOUS
  <2> HIDE DEF p
  <2>3. [p EXCEPT ![j] = i] \in Seq(N)
    BY <2>1, ExceptSeq
  <2> QED BY <2>2, <2>3
<1>7. ASSUME NEW x \in Disorders(frames) PROVE x \in Seq(N)
  <2>1. CASE x \in {RemoveAt(o, i) : i \in DOMAIN o} \cup {InsertAt(o, i, i) : i \in DOMAIN o}
    BY <1>4, <1>5, <2>1
  <2>2. CASE x \in {[o EXCEPT ![i] = j, ![j] = i] : i, j \in DOMAIN o}
    BY <1>4, <1>6, <2>2, SMTT(30)
  <2> QED BY <1>3, <2>1, <2>2
<1> QED BY <1>2, <1>7 DEF N, o

(* The kinds of tokens. *)
LEMMA KindFacts ==
    ASSUME NEW frames \in Framings, NEW t \in Token(frames)
    PROVE  /\ t.kind = "size" => t \in SizeToken(frames)
           /\ t.kind = "trailers" => /\ t \in {TrailersOf(frames), Blank(frames)}
                                     /\ t.sum \in {BodyOf(frames), <<>>}
                                     /\ t.sig = <<LastChain(frames), BodyOf(frames)>>
           /\ t = TrailersOf(frames) => t.kind = "trailers" /\ t.sum = BodyOf(frames)
           /\ t \in SizeToken(frames) => t.kind = "size" /\ t.n \in Nat /\ t.sig \in Signatures(frames)
<1>1. CASE t \in Unit
  <2>1. t.kind = "data"
    BY <1>1 DEF Unit, Data
  <2>2. t # TrailersOf(frames)
    BY <2>1 DEF TrailersOf, Trailers
  <2> QED BY <2>1, <2>2 DEF SizeToken
<1>2. CASE t \in SizeToken(frames)
  BY <1>2 DEF SizeToken, TrailersOf, Trailers
<1>3. CASE t = CRLF
  <2>1. t.kind = "crlf"
    BY <1>3 DEF CRLF
  <2>2. t # TrailersOf(frames)
    BY <2>1 DEF TrailersOf, Trailers
  <2> QED BY <2>1, <2>2 DEF SizeToken
<1>4. CASE t \in {TrailersOf(frames), Blank(frames)}
  <2>1. t.kind = "trailers" /\ t.sum \in {BodyOf(frames), <<>>}
    BY <1>4 DEF TrailersOf, Trailers, Blank
  <2>2. t.sig = <<LastChain(frames), BodyOf(frames)>>
    BY <1>4 DEF TrailersOf, Trailers, Blank
  <2>3. t = TrailersOf(frames) => t.sum = BodyOf(frames)
    BY DEF TrailersOf, Trailers
  <2> QED BY <1>4, <2>1, <2>2, <2>3 DEF SizeToken
<1> QED BY <1>1, <1>2, <1>3, <1>4 DEF Token, Own

(* What the network makes of tokens: nothing new, but for a blank trailer in *)
(* the place of the trailers.                                                *)
LEMMA AlteredType ==
    ASSUME NEW frames \in Framings, NEW t \in Own(frames), NEW u \in Altered(t)
    PROVE  u \in Own(frames) \/ (t.kind = "trailers" /\ u = Blank(frames))
<1>1. CASE t \in Unit
  <2>1. t.kind = "data"
    BY <1>1 DEF Unit, Data
  <2> QED BY <2>1 DEF Altered, Unit, Own
<1>2. CASE t \in SizeToken(frames)
  <2>1. t.kind = "size" /\ \A n \in Nat : [t EXCEPT !.n = n] \in SizeToken(frames)
    BY <1>2 DEF SizeToken
  <2>2. \A n \in 0..t.n + 2 : n \in Nat
    BY <1>2 DEF SizeToken
  <2> QED BY <2>1, <2>2 DEF Altered, Own
<1>3. CASE t = CRLF
  BY <1>3 DEF Altered, CRLF
<1>4. CASE t = TrailersOf(frames)
  <2>1. t.kind = "trailers"
    BY <1>4 DEF TrailersOf, Trailers
  <2> QED BY <1>4, <2>1 DEF Altered, Blank
<1> QED BY <1>1, <1>2, <1>3, <1>4 DEF Own

LEMMA DamagedType ==
    ASSUME NEW frames \in Framings, NEW w \in Seq(Own(frames)), NEW x \in Damaged(w)
    PROVE  \/ x \in Seq(Own(frames))
           \/ \E i \in 1..Len(w) :
                 w[i].kind = "trailers" /\ x = [w EXCEPT ![i] = Blank(frames)]
<1> DEFINE T == Own(frames)
<1> HIDE DEF T
<1>0. w \in Seq(T)
  BY DEF T
<1>1. ASSUME NEW i \in DOMAIN w PROVE RemoveAt(w, i) \in Seq(T)
  <2>1. i \in 1..Len(w) /\ Len(w) \in Nat
    BY <1>0, <1>1
  <2>2. /\ i - 1 \in Int /\ i - 1 <= Len(w) /\ i + 1 \in Nat \ {0}
        /\ Len(w) \in Int /\ Len(w) <= Len(w)
    BY <2>1
  <2>3. SubSeq(w, 1, i - 1) \in Seq(T) /\ SubSeq(w, i + 1, Len(w)) \in Seq(T)
    BY <1>0, <2>2, Part
  <2> QED BY <2>3 DEF RemoveAt
<1>2. CASE \E i \in DOMAIN w : x = RemoveAt(w, i)
  BY <1>1, <1>2 DEF T
<1>3. CASE \E i \in DOMAIN w : \E t \in Altered(w[i]) : x = ReplaceAt(w, i, t)
  <2>0. PICK i \in DOMAIN w : \E t \in Altered(w[i]) : x = [w EXCEPT ![i] = t]
    BY <1>3 DEF ReplaceAt
  <2>1. PICK t \in Altered(w[i]) : x = [w EXCEPT ![i] = t]
    BY <2>0
  <2>2. i \in 1..Len(w) /\ w[i] \in T
    BY <1>0
  <2>3. t \in T \/ (w[i].kind = "trailers" /\ t = Blank(frames))
    BY <2>2, AlteredType DEF T
  <2>4. CASE t \in T
    BY <1>0, <2>1, <2>2, <2>4, ExceptSeq DEF T
  <2> QED BY <2>1, <2>2, <2>3, <2>4
<1>4. CASE \E i \in DOMAIN w : x \in {ReplaceAt(w, i, t) : t \in Altered(w[i])}
  <2>1. PICK i \in DOMAIN w : x \in {ReplaceAt(w, i, t) : t \in Altered(w[i])}
    BY <1>4
  <2>2. \E t \in Altered(w[i]) : x = ReplaceAt(w, i, t)
    BY <2>1
  <2> QED BY <1>3, <2>2
<1>5. CASE x \in {RemoveAt(w, i) : i \in DOMAIN w}
  BY <1>2, <1>5
<1>6. x \in Damaged(w)
  OBVIOUS
<1>7. (\E i \in DOMAIN w : x \in {ReplaceAt(w, i, t) : t \in Altered(w[i])}) \/ x \in {RemoveAt(w, i) : i \in DOMAIN w}
  BY <1>6 DEF Damaged
<1> QED BY <1>4, <1>5, <1>7

(* The first token of a body in frames. *)
LEMMA FlattenHead ==
    ASSUME NEW T, NEW s \in Seq(Seq(T)), s # <<>>, s[1] # <<>>
    PROVE  FlattenSeq(s) # <<>> /\ FlattenSeq(s)[1] = s[1][1]
<1>1. PICK f \in [1..Len(s) -> Seq(T)] : Joins(f, s, Len(s)) /\ FlattenSeq(s) = f[Len(s)]
  BY FlattenJoins
<1>2. Len(s) \in Nat \ {0} /\ \A i \in 1..Len(s) : s[i] \in Seq(T)
  OBVIOUS
<1> DEFINE Odd == {i \in 1..Len(s) : ~ (f[i] # <<>> /\ f[i][1] = s[1][1])}
<1>3. ASSUME Odd # {} PROVE FALSE
  <2>1. PICK m \in Odd : m - 1 \notin Odd
    <3>1. Odd \in SUBSET Nat
      BY <1>2
    <3> HIDE DEF Odd
    <3> QED BY <1>3, <3>1, LeastOf
  <2>2. m # 1
    BY <1>1, <2>1 DEF Joins
  <2>3. m \in 2..Len(s) /\ m - 1 \in 1..Len(s)
    BY <1>2, <2>1, <2>2
  <2>4. f[m - 1] # <<>> /\ f[m - 1][1] = s[1][1]
    BY <2>1, <2>3
  <2>5. f[m] = f[m - 1] \o s[m] /\ f[m - 1] \in Seq(T) /\ s[m] \in Seq(T)
    BY <1>1, <1>2, <2>3 DEF Joins
  <2>6. \A u, v \in Seq(T) : u # <<>> => u \o v # <<>> /\ (u \o v)[1] = u[1]
    OBVIOUS
  <2>7. f[m] # <<>> /\ f[m][1] = s[1][1]
    BY <2>4, <2>5, <2>6
  <2>8. ~ (f[m] # <<>> /\ f[m][1] = s[1][1])
    BY <2>1
  <2> QED BY <2>7, <2>8
<1>4. Len(s) \in 1..Len(s) /\ Len(s) \notin Odd
  <2>1. Len(s) \in 1..Len(s)
    BY <1>2
  <2> HIDE DEF Odd
  <2> QED BY <1>3, <2>1
<1> QED BY <1>1, <1>4

LEMMA EncodingHead ==
    ASSUME NEW frames \in Framings, NEW trailers
    PROVE  LET w == Encoding(frames, InOrder(frames), trailers) IN
           /\ w \in Seq(Own(frames)) /\ w # <<>> /\ w[1].kind = "size"
           /\ frames # <<>> => w[1].n > 0
<1> DEFINE o == InOrder(frames)
           f == Framed(frames, o)
           a == Closing(frames)
           b == TrailersOf(frames)
           w == Encoding(frames, o, trailers)
           s == [i \in 1..Len(o) |-> FrameOf(frames, o[i])]
<1>1. o \in Seq(1..Len(frames)) /\ Len(o) = Len(frames) /\ Len(frames) \in Nat
      /\ \A i \in 1..Len(frames) : o[i] = i
  BY OrdersType, FrameFacts DEF InOrder
<1>2. f \in Seq(Own(frames)) /\ a \in Own(frames) /\ b \in Own(frames) /\ w \in Seq(Own(frames))
  BY <1>1, FramedType, EndingType, EncodingType
<1>3. w = f \o <<a>> \o (IF trailers THEN <<b>> ELSE <<>>)
  BY EncodingIs
<1>4. CASE frames = <<>>
  <2>1. s = <<>>
    BY <1>1, <1>4
  <2>2. f = <<>>
    BY <2>1 DEF Framed, FlattenSeq
  <2>3. a.kind = "size"
    BY DEF Closing, Size
  <2> HIDE DEF f, a, b, w
  <2>4. w # <<>> /\ w[1] = a
    BY <1>2, <1>3, <2>2
  <2> QED BY <1>2, <1>4, <2>3, <2>4 DEF w
<1>5. CASE frames # <<>>
  <2>1. Len(frames) \in Nat \ {0}
    BY <1>5, FrameFacts, EmptySeq
  <2>2. s \in Seq(Seq(Own(frames))) /\ s # <<>> /\ s[1] = FrameOf(frames, 1)
    <3>1. \A i \in 1..Len(o) : FrameOf(frames, o[i]) \in Seq(Own(frames))
      BY <1>1, FrameType
    <3> HIDE DEF o
    <3> QED BY <1>1, <2>1, <3>1, IsASeq
  <2> DEFINE c1 == Size(Len(frames[1]), Signature(SubSeq(frames, 1, 1)))
             d1 == DataOf(frames[1])
  <2>3. s[1] # <<>> /\ s[1][1] = c1
    <3>1. s[1] = <<c1>> \o d1 \o <<CRLF>>
      BY <2>2 DEF FrameOf
    <3>2. d1 \in Content /\ Len(frames[1]) \in Nat \ {0}
      BY <2>1, FrameFacts
    <3> HIDE DEF c1, d1, s
    <3> QED BY <3>1, <3>2 DEF Content
  <2>4. c1.kind = "size" /\ c1.n > 0
    BY <2>1, FrameFacts DEF Size
  <2> HIDE DEF s, c1, a, b, w
  <2>5. FlattenSeq(s) # <<>> /\ FlattenSeq(s)[1] = c1
    BY <2>2, <2>3, FlattenHead
  <2>6. f # <<>> /\ f[1] = c1
    BY <2>5 DEF Framed, s
  <2> HIDE DEF f
  <2>7. w # <<>> /\ w[1] = c1
    BY <1>2, <1>3, <2>6
  <2> QED BY <1>2, <2>4, <2>7 DEF w
<1> QED BY <1>4, <1>5

(* A wire on which a blank trailer does not come first. *)
Sound(frames, v) ==
    /\ v \in Seq(Token(frames))
    /\ \/ v \in Seq(Own(frames))
       \/ v # <<>> /\ v[1].kind = "size" /\ (v[1].n > 0 \/ frames = <<>>)

LEMMA BeginningSound ==
    ASSUME NEW frames, NEW v, Sound(frames, v), NEW n \in 0..Len(v)
    PROVE  Sound(frames, SubSeq(v, 1, n))
<1> DEFINE T == Token(frames)
           O == Own(frames)
<1> HIDE DEF T, O
<1>1. v \in Seq(T) /\ (v \in Seq(O) \/ (v # <<>> /\ v[1].kind = "size" /\ (v[1].n > 0 \/ frames = <<>>)))
  BY DEF Sound, T, O
<1>2. n \in Int /\ n <= Len(v)
  BY <1>1
<1>3. SubSeq(v, 1, n) \in Seq(T) /\ (v \in Seq(O) => SubSeq(v, 1, n) \in Seq(O))
  BY <1>1, <1>2, Part
<1>4. CASE n = 0
  <2>1. SubSeq(v, 1, n) = <<>> /\ <<>> \in Seq(O)
    BY <1>4, SubSeqEmpty
  <2> QED BY <1>3, <2>1 DEF Sound, T, O
<1>5. CASE n # 0
  <2>1. SubSeq(v, 1, n) # <<>> /\ SubSeq(v, 1, n)[1] = v[1]
    <3>1. Len(SubSeq(v, 1, n)) = n /\ SubSeq(v, 1, n)[1] = v[1]
      BY <1>1, <1>2, <1>5, Part
    <3> QED BY <1>3, <1>5, <3>1, EmptySeq
  <2> QED BY <1>1, <1>3, <2>1 DEF Sound, T, O
<1> QED BY <1>4, <1>5

LEMMA CutsFacts ==
    ASSUME NEW w, Len(w) \in Nat, NEW framed \in BOOLEAN, NEW a \in Cuts(w, framed)
    PROVE  /\ a[2] \in {"lost", "eof"} /\ (framed \/ a[2] = "lost")
           /\ \E n \in 0..Len(w) - 1 : a[1] = SubSeq(w, 1, n)
<1>1. a \in Cuts(w, framed)
  OBVIOUS
<1>2. PICK n \in 0..Len(w) - 1, e \in {"lost"} \cup IF framed THEN {"eof"} ELSE {} :
          a = <<SubSeq(w, 1, n), e>>
  BY <1>1 DEF Cuts
<1>3. a[1] = SubSeq(w, 1, n) /\ a[2] = e
  BY <1>2
<1> QED BY <1>2, <1>3

LEMMA ArrivesFacts ==
    ASSUME NEW frames \in Framings, NEW w, Sound(frames, w), NEW framed \in BOOLEAN,
           NEW others, \A v \in others : Sound(frames, v), Arrives(w, others, framed)
    PROVE  /\ Sound(frames, wire) /\ ends \in {"eof", "lost"}
           /\ how \in {"whole", "cut", "damaged"}
           /\ how = "whole" => wire = w /\ ends = "eof"
           /\ how = "cut" => /\ framed \/ ends = "lost"
                             /\ \E n \in 0..Len(w) - 1 : wire = SubSeq(w, 1, n)
<1>1. ASSUME NEW v, Sound(frames, v) PROVE Len(v) \in Nat
  BY <1>1, LenProperties DEF Sound
<1>2. ASSUME NEW v, Sound(frames, v), NEW a \in Cuts(v, framed)
      PROVE  Sound(frames, a[1]) /\ a[2] \in {"lost", "eof"}
  <2>1. Len(v) \in Nat
    BY <1>1, <1>2
  <2>2. a[2] \in {"lost", "eof"} /\ \E n \in 0..Len(v) - 1 : a[1] = SubSeq(v, 1, n)
    BY <1>2, <2>1, CutsFacts
  <2>3. 0..Len(v) - 1 \subseteq 0..Len(v)
    BY <2>1
  <2> QED BY <1>2, <2>2, <2>3, BeginningSound
<1>3. CASE wire = w /\ ends = "eof" /\ how = "whole"
  BY <1>3
<1>4. CASE \E a \in Cuts(w, framed) : wire = a[1] /\ ends = a[2] /\ how = "cut"
  <2>1. PICK a \in Cuts(w, framed) : wire = a[1] /\ ends = a[2] /\ how = "cut"
    BY <1>4
  <2>2. Len(w) \in Nat
    BY <1>1
  <2>3. /\ a[2] \in {"lost", "eof"} /\ (framed \/ a[2] = "lost")
        /\ \E n \in 0..Len(w) - 1 : a[1] = SubSeq(w, 1, n)
    BY <2>2, CutsFacts
  <2> QED BY <1>2, <2>1, <2>3
<1>5. CASE \E v \in others : \E a \in {<<v, "eof">>} \cup Cuts(v, framed) :
              wire = a[1] /\ ends = a[2] /\ how = "damaged"
  <2>1. PICK v \in others : \E a \in {<<v, "eof">>} \cup Cuts(v, framed) :
              wire = a[1] /\ ends = a[2] /\ how = "damaged"
    BY <1>5
  <2>2. PICK a \in {<<v, "eof">>} \cup Cuts(v, framed) : wire = a[1] /\ ends = a[2] /\ how = "damaged"
    BY <2>1
  <2>3. CASE a = <<v, "eof">>
    BY <2>2, <2>3
  <2>4. CASE a \in Cuts(v, framed)
    BY <1>2, <2>2, <2>4
  <2> QED BY <2>2, <2>3, <2>4
<1> QED BY <1>3, <1>4, <1>5 DEF Arrives

(* The body as it was sent, and what a request is. *)
Sent(frames) ==
    IF req.framed THEN Encoding(frames, InOrder(frames), req.trailers) ELSE BodyOf(frames)

RequestInv(frames) ==
    /\ req.body = BodyOf(frames)
    /\ req.framed \in BOOLEAN /\ req.signed \in BOOLEAN /\ req.trailers \in BOOLEAN
    /\ req.framed => req.signed \/ req.trailers
    /\ req.signed => req.framed
    /\ req.digest \in BOOLEAN
    /\ req.declared \in Int /\ req.max \in Nat
    /\ req.fits <=> \A i \in 1..Len(frames) : Len(frames[i]) <= MaxChunk
    /\ ends \in {"eof", "lost"} /\ how \in {"whole", "cut", "damaged"}

Arrived(frames) ==
    /\ Sound(frames, wire)
    /\ how = "whole" => wire = Sent(frames) /\ ends = "eof"
    /\ how = "cut" => /\ req.framed \/ ends = "lost"
                      /\ \E n \in 0..Len(Sent(frames)) - 1 : wire = SubSeq(Sent(frames), 1, n)

LEMMA PlainSound ==
    ASSUME NEW frames \in Framings
    PROVE  /\ Sound(frames, BodyOf(frames))
           /\ \A v \in Damaged(BodyOf(frames)) : Sound(frames, v)
<1>1. BodyOf(frames) \in Seq(Unit)
  BY BodyFacts DEF Content
<1>2. Unit \subseteq Own(frames) /\ Own(frames) \subseteq Token(frames)
  BY DEF Own, Token
<1>3. \A v \in Seq(Own(frames)) : v \in Seq(Token(frames))
  BY <1>2, SeqMonotonic
<1>4. BodyOf(frames) \in Seq(Own(frames))
  BY <1>1, <1>2, SeqMonotonic
<1>5. \A i \in 1..Len(BodyOf(frames)) : BodyOf(frames)[i].kind # "trailers"
  <2>1. \A i \in 1..Len(BodyOf(frames)) : BodyOf(frames)[i] \in Unit
    BY <1>1, ElementOfSeq
  <2>2. \A u \in Unit : u.kind = "data"
    BY DEF Unit, Data
  <2> QED BY <2>1, <2>2
<1>6. \A v \in Damaged(BodyOf(frames)) : v \in Seq(Own(frames))
  BY <1>4, <1>5, DamagedType
<1> QED BY <1>3, <1>4, <1>6 DEF Sound

LEMMA FramedSound ==
    ASSUME NEW frames \in Framings, NEW trailers \in BOOLEAN
    PROVE  LET w == Encoding(frames, InOrder(frames), trailers) IN
           /\ Sound(frames, w)
           /\ \A v \in Damaged(w) : Sound(frames, v)
           /\ \A o \in Disorders(frames) : Sound(frames, Encoding(frames, o, trailers))
<1> DEFINE w == Encoding(frames, InOrder(frames), trailers)
           O == Own(frames)
<1>1. w \in Seq(O) /\ w # <<>> /\ w[1].kind = "size" /\ (frames # <<>> => w[1].n > 0)
  BY EncodingHead
<1>2. O \subseteq Token(frames)
  BY DEF Token
<1>3. \A v \in Seq(O) : Sound(frames, v)
  <2> HIDE DEF O
  <2>1. \A v \in Seq(O) : v \in Seq(Token(frames))
    BY <1>2, SeqMonotonic
  <2> QED BY <2>1 DEF Sound, O
<1>4. \A o \in Disorders(frames) : Encoding(frames, o, trailers) \in Seq(O)
  BY OrdersType, EncodingType
<1> HIDE DEF w
<1>5. ASSUME NEW v \in Damaged(w) PROVE Sound(frames, v)
  <2>1. CASE v \in Seq(O)
    BY <1>3, <2>1
  <2>2. CASE \E i \in 1..Len(w) : w[i].kind = "trailers" /\ v = [w EXCEPT ![i] = Blank(frames)]
    <3>1. PICK i \in 1..Len(w) : w[i].kind = "trailers" /\ v = [w EXCEPT ![i] = Blank(frames)]
      BY <2>2
    <3>2. i # 1
      BY <1>1, <3>1
    <3> DEFINE T == Token(frames)
    <3>3. w \in Seq(T) /\ Blank(frames) \in T
      <4>1. Blank(frames) \in T
        BY DEF Token
      <4> HIDE DEF T, O
      <4>2. O \subseteq T
        BY <1>2 DEF T
      <4> QED BY <1>1, <4>1, <4>2, SeqMonotonic
    <3> HIDE DEF T, O
    <3>4. v \in Seq(T) /\ Len(v) = Len(w) /\ v[1] = w[1]
      <4>1. 1 \in 1..Len(w)
        BY <1>1
      <4> QED BY <3>1, <3>2, <3>3, <4>1, ExceptSeq
    <3>5. v # <<>>
      BY <1>1, <3>4
    <3> QED BY <1>1, <3>4, <3>5 DEF Sound, T
  <2> QED BY <1>1, <2>1, <2>2, DamagedType DEF O
<1> QED BY <1>1, <1>3, <1>4, <1>5 DEF w

LEMMA InitBody ==
    ASSUME BodyInit \/ NoBody
    PROVE  ReaderInit /\ \E frames \in Framings : RequestInv(frames) /\ Arrived(frames)
<1>1. CASE NoBody
  <2>1. <<>> \in Framings
    BY DEF Framings
  <2>2. /\ req.body = BodyOf(<<>>) /\ req.framed = FALSE /\ req.signed = FALSE /\ req.trailers = FALSE
        /\ req.digest = FALSE /\ req.declared = 0 /\ req.max = 0
        /\ req.fits = \A i \in DOMAIN <<>> : Len(<<>>[i]) <= MaxChunk
    BY <1>1 DEF NoBody, Request
  <2>3. 1..Len(<<>>) = {} /\ DOMAIN <<>> = {}
    OBVIOUS
  <2>4. RequestInv(<<>>)
    <3>1. req.fits <=> \A i \in 1..Len(<<>>) : Len(<<>>[i]) <= MaxChunk
      BY <2>2, <2>3
    <3>2. ends \in {"eof", "lost"} /\ how \in {"whole", "cut", "damaged"}
      BY <1>1 DEF NoBody
    <3>3. /\ req.framed \in BOOLEAN /\ req.signed \in BOOLEAN /\ req.trailers \in BOOLEAN
          /\ req.digest \in BOOLEAN /\ (req.framed => req.signed \/ req.trailers) /\ (req.signed => req.framed)
      BY <2>2
    <3>4. req.declared \in Int /\ req.max \in Nat
      BY <2>2
    <3> QED BY <2>2, <3>1, <3>2, <3>3, <3>4, Zenon DEF RequestInv
  <2>5. BodyOf(<<>>) = <<>>
    <3>1. FlattenSeq(<<>>) = <<>>
      BY DEF FlattenSeq
    <3> QED BY <3>1 DEF BodyOf, DataOf
  <2>6. Sound(<<>>, wire) /\ wire = Sent(<<>>)
    BY <1>1, <2>1, <2>2, <2>5, PlainSound DEF NoBody, Sent
  <2>7. Arrived(<<>>)
    BY <1>1, <2>6 DEF Arrived, NoBody
  <2> QED BY <1>1, <2>1, <2>4, <2>7 DEF NoBody
<1>2. CASE BodyInit
  <2>1. PICK frames \in Frames, digest \in BOOLEAN, max \in Limits :
         LET n == Len(BodyOf(frames)) IN
         \/ /\ \E declared \in {n, -1} :
                  req = Request(frames, FALSE, FALSE, FALSE, digest, declared, max)
            /\ Arrives(BodyOf(frames), Damaged(BodyOf(frames)), FALSE)
         \/ \E signed, trailers \in BOOLEAN :
              LET w == Encoding(frames, InOrder(frames), trailers) IN
              /\ signed \/ trailers
              /\ \E declared \in {n, n - 1, -1} :
                   req = Request(frames, TRUE, signed, trailers, digest, declared, max)
              /\ Arrives(w,
                         Damaged(w) \cup {Encoding(frames, o, trailers) : o \in Disorders(frames)},
                         TRUE)
    BY <1>2 DEF BodyInit
  <2>2. frames \in Framings /\ max \in Nat /\ Len(BodyOf(frames)) \in Nat
    <3>1. frames \in Framings /\ max \in Nat
      BY LimitAssumption DEF Framings
    <3> QED BY <3>1, BodyFacts
  <2>3. DOMAIN frames = 1..Len(frames)
    BY <2>2, FrameFacts, LenProperties
  <2>4. ASSUME NEW framed \in BOOLEAN, NEW signed \in BOOLEAN, NEW trailers \in BOOLEAN, NEW declared \in Int,
               req = Request(frames, framed, signed, trailers, digest, declared, max),
               framed => signed \/ trailers, signed => framed, NEW w, NEW others, Sound(frames, w),
               \A v \in others : Sound(frames, v),
               w = IF framed THEN Encoding(frames, InOrder(frames), trailers) ELSE BodyOf(frames),
               Arrives(w, others, framed)
        PROVE  RequestInv(frames) /\ Arrived(frames)
    <3>1. /\ Sound(frames, wire) /\ ends \in {"eof", "lost"}
          /\ how \in {"whole", "cut", "damaged"}
          /\ how = "whole" => wire = w /\ ends = "eof"
          /\ how = "cut" => /\ framed \/ ends = "lost"
                            /\ \E n \in 0..Len(w) - 1 : wire = SubSeq(w, 1, n)
      BY <2>2, <2>4, ArrivesFacts
    <3>2. /\ req.body = BodyOf(frames) /\ req.framed = framed /\ req.signed = signed /\ req.trailers = trailers
          /\ req.digest = digest /\ req.declared = declared /\ req.max = max
          /\ req.fits = \A i \in DOMAIN frames : Len(frames[i]) <= MaxChunk
      BY <2>4 DEF Request
    <3>3. RequestInv(frames)
      BY <2>2, <2>3, <2>4, <3>1, <3>2 DEF RequestInv
    <3>4. w = Sent(frames)
      BY <2>4, <3>2 DEF Sent
    <3> QED BY <3>1, <3>2, <3>3, <3>4 DEF Arrived
  <2>5. CASE /\ \E declared \in {Len(BodyOf(frames)), -1} :
                  req = Request(frames, FALSE, FALSE, FALSE, digest, declared, max)
             /\ Arrives(BodyOf(frames), Damaged(BodyOf(frames)), FALSE)
    <3>1. PICK declared \in {Len(BodyOf(frames)), -1} :
              req = Request(frames, FALSE, FALSE, FALSE, digest, declared, max)
      BY <2>5
    <3>3. declared \in Int
      BY <2>2
    <3>2. RequestInv(frames) /\ Arrived(frames)
      BY <2>2, <2>4, <2>5, <3>1, <3>3, PlainSound
    <3> QED BY <1>2, <2>2, <3>2 DEF BodyInit
  <2>6. CASE \E signed, trailers \in BOOLEAN :
              LET w == Encoding(frames, InOrder(frames), trailers) IN
              /\ signed \/ trailers
              /\ \E declared \in {Len(BodyOf(frames)), Len(BodyOf(frames)) - 1, -1} :
                   req = Request(frames, TRUE, signed, trailers, digest, declared, max)
              /\ Arrives(w,
                         Damaged(w) \cup {Encoding(frames, o, trailers) : o \in Disorders(frames)},
                         TRUE)
    <3>1. PICK signed \in BOOLEAN, trailers \in BOOLEAN :
              LET w == Encoding(frames, InOrder(frames), trailers) IN
              /\ signed \/ trailers
              /\ \E declared \in {Len(BodyOf(frames)), Len(BodyOf(frames)) - 1, -1} :
                   req = Request(frames, TRUE, signed, trailers, digest, declared, max)
              /\ Arrives(w,
                         Damaged(w) \cup {Encoding(frames, o, trailers) : o \in Disorders(frames)},
                         TRUE)
      BY <2>6
    <3> DEFINE w == Encoding(frames, InOrder(frames), trailers)
               others == Damaged(w) \cup {Encoding(frames, o, trailers) : o \in Disorders(frames)}
    <3>2. PICK declared \in {Len(BodyOf(frames)), Len(BodyOf(frames)) - 1, -1} :
              req = Request(frames, TRUE, signed, trailers, digest, declared, max)
      BY <3>1
    <3>7. declared \in Int
      BY <2>2
    <3>3. Arrives(w, others, TRUE) /\ (signed \/ trailers)
      BY <3>1
    <3>4. Sound(frames, w) /\ \A v \in others : Sound(frames, v)
      BY <2>2, FramedSound
    <3>5. w = IF TRUE THEN Encoding(frames, InOrder(frames), trailers) ELSE BodyOf(frames)
      OBVIOUS
    <3> HIDE DEF w, others
    <3>6. RequestInv(frames) /\ Arrived(frames)
      BY <2>4, <3>2, <3>3, <3>4, <3>5, <3>7
    <3> QED BY <1>2, <2>2, <3>6 DEF BodyInit
  <2> QED BY <2>1, <2>5, <2>6
<1> QED BY <1>1, <1>2

-------------------------------------------------------------------------------
(* What holds of the reader while it reads, whatever arrives. *)
ReaderErrors == {"none", "eof", "lost", "format", "signature", "digest"}

ChunkType(frames) ==
    [left : 0..MaxChunk, sum : Seq(Token(frames)), sig : Chain, prev : Chain,
     eof : BOOLEAN, err : ReaderErrors]

ReaderType(frames) ==
    /\ wire \in Seq(Token(frames)) /\ got \in Seq(Token(frames))
    /\ c \in ChunkType(frames)
    /\ IsSuffix(c.sum, got)
    /\ answer \in {"unopened", "more", "eof"} \cup Errors

(* What the answer says, and that nothing is read after it. *)
VerdictInv ==
    /\ verr = IF answer \in Errors THEN answer ELSE "none"
    /\ answer = "unopened" => c = NoChunk /\ got = <<>>
    /\ req.framed /\ answer \in {"more", "eof"} => req.declared >= 0
    /\ answer = "eof" => /\ finish(got) = "eof"
                         /\ IF req.framed THEN c.eof \/ c.err = "eof" ELSE wire = <<>> /\ ends = "eof"
    /\ req.framed /\ ~ Active /\ verr = "none" => answer = "eof"
    /\ c.eof => c.err = "none"
    /\ c.err = "eof" => c.left > 0
    /\ ~ req.framed => c = NoChunk

LimitInv == verr = "none" /\ req.max > 0 => Len(got) <= req.max

(* Between frames the signatures so far cover what was handed on, and in a   *)
(* frame its data follow.                                                    *)
SignedInv ==
    req.signed /\ Active =>
        got = IF c.left = 0 THEN FlattenSeq(c.prev) ELSE FlattenSeq(c.prev) \o c.sum

(* Before any data, a blank trailer does not come first.  When the closing   *)
(* frame was read, all was there.                                            *)
StartInv(frames) == Active /\ got = <<>> => Sound(frames, wire)
EndInv == c.eof => got = req.body

BodyInv(frames) ==
    /\ RequestInv(frames) /\ ReaderType(frames)
    /\ VerdictInv /\ LimitInv /\ SignedInv /\ StartInv(frames) /\ EndInv

SomeBody == \E frames \in Framings : BodyInv(frames)

LEMMA SuffixFacts ==
    ASSUME NEW T, NEW s \in Seq(T), NEW t \in Seq(T)
    PROVE  IsSuffix(s, t) <=> /\ Len(s) <= Len(t)
                              /\ \A i \in 1..Len(s) : s[i] = t[Len(t) - Len(s) + i]
<1> DEFINE m == Len(s)
           n == Len(t)
           r == Reverse(s)
           u == Reverse(t)
<1>1. m \in Nat /\ n \in Nat
  OBVIOUS
<1>2. /\ r \in Seq(T) /\ Len(r) = m /\ \A i \in 1..m : r[i] = s[m - i + 1]
      /\ u \in Seq(T) /\ Len(u) = n /\ \A i \in 1..n : u[i] = t[n - i + 1]
  <2>1. (\A i \in 1..m : s[m - i + 1] \in T) /\ \A i \in 1..n : t[n - i + 1] \in T
    OBVIOUS
  <2>2. r \in Seq(T) /\ u \in Seq(T)
    BY <1>1, <2>1, IsASeq DEF Reverse
  <2> QED BY <1>1, <2>2 DEF Reverse
<1>3. IsSuffix(s, t) <=> m <= n /\ SubSeq(r, 1, m) = SubSeq(u, 1, m)
  BY <1>2 DEF IsSuffix, IsPrefix
<1> HIDE DEF m, n, r, u
<1>4. ASSUME m <= n
      PROVE  SubSeq(r, 1, m) = SubSeq(u, 1, m) <=> \A i \in 1..m : r[i] = u[i]
  <2>1. /\ SubSeq(r, 1, m) \in Seq(T) /\ SubSeq(u, 1, m) \in Seq(T)
        /\ Len(SubSeq(r, 1, m)) = m /\ Len(SubSeq(u, 1, m)) = m
        /\ \A i \in 1..m : SubSeq(r, 1, m)[i] = r[i] /\ SubSeq(u, 1, m)[i] = u[i]
    BY <1>1, <1>2, <1>4
  <2> QED BY <1>1, <2>1, SeqEqual
<1>5. ASSUME m <= n
      PROVE  (\A i \in 1..m : r[i] = u[i]) <=> \A i \in 1..m : s[i] = t[n - m + i]
  <2>1. ASSUME \A i \in 1..m : r[i] = u[i], NEW i \in 1..m PROVE s[i] = t[n - m + i]
    <3>1. m - i + 1 \in 1..m /\ m - i + 1 \in 1..n /\ m - (m - i + 1) + 1 = i
          /\ n - (m - i + 1) + 1 = n - m + i
      BY <1>1, <1>5
    <3> QED BY <1>2, <2>1, <3>1, SMTT(30)
  <2>2. ASSUME \A i \in 1..m : s[i] = t[n - m + i], NEW i \in 1..m PROVE r[i] = u[i]
    <3>1. m - i + 1 \in 1..m /\ i \in 1..n /\ n - m + (m - i + 1) = n - i + 1
      BY <1>1, <1>5
    <3>2. s[m - i + 1] = t[n - i + 1]
      BY <2>2, <3>1
    <3>3. r[i] = s[m - i + 1] /\ u[i] = t[n - i + 1]
      BY <1>2, <3>1
    <3> QED BY <3>2, <3>3
  <2> QED BY <2>1, <2>2
<1> QED BY <1>3, <1>4, <1>5 DEF m, n

LEMMA SuffixGrows ==
    ASSUME NEW T, NEW s \in Seq(T), NEW t \in Seq(T), NEW d \in Seq(T)
    PROVE  IsSuffix(<<>>, t) /\ (IsSuffix(s, t) => IsSuffix(s \o d, t \o d))
<1>1. IsSuffix(<<>>, t)
  <2>1. <<>> \in Seq(T) /\ Len(<<>>) = 0 /\ Len(t) \in Nat /\ 1..0 = {}
    BY LenProperties
  <2>2. IsSuffix(<<>>, t) <=> /\ Len(<<>>) <= Len(t)
                              /\ \A i \in 1..Len(<<>>) : <<>>[i] = t[Len(t) - Len(<<>>) + i]
    BY <2>1, SuffixFacts
  <2> QED BY <2>1, <2>2
<1>2. ASSUME IsSuffix(s, t) PROVE IsSuffix(s \o d, t \o d)
  <2>1. Len(s) <= Len(t) /\ \A i \in 1..Len(s) : s[i] = t[Len(t) - Len(s) + i]
    BY <1>2, SuffixFacts
  <2>2. /\ s \o d \in Seq(T) /\ Len(s \o d) = Len(s) + Len(d)
        /\ t \o d \in Seq(T) /\ Len(t \o d) = Len(t) + Len(d)
        /\ Len(s) \in Nat /\ Len(t) \in Nat /\ Len(d) \in Nat
    BY ConcatProperties, LenProperties
  <2>3. ASSUME NEW i \in 1..Len(s) + Len(d)
        PROVE  (s \o d)[i] = (t \o d)[Len(t) - Len(s) + i]
    <3>1. Len(t) - Len(s) + i \in 1..Len(t) + Len(d)
      BY <2>1, <2>2
    <3>2. /\ (s \o d)[i] = IF i <= Len(s) THEN s[i] ELSE d[i - Len(s)]
          /\ (t \o d)[Len(t) - Len(s) + i]
                = IF Len(t) - Len(s) + i <= Len(t) THEN t[Len(t) - Len(s) + i]
                  ELSE d[Len(t) - Len(s) + i - Len(t)]
      BY <3>1, ConcatProperties
    <3>3. CASE i <= Len(s)
      BY <2>1, <2>2, <3>2, <3>3
    <3>4. CASE ~ (i <= Len(s))
      <4>1. Len(t) - Len(s) + i - Len(t) = i - Len(s) /\ ~ (Len(t) - Len(s) + i <= Len(t))
        BY <2>2, <3>4
      <4> QED BY <3>2, <3>4, <4>1
    <3> QED BY <3>3, <3>4
  <2>4. Len(s \o d) <= Len(t \o d) /\ Len(t \o d) - Len(s \o d) = Len(t) - Len(s)
    BY <2>1, <2>2
  <2> QED BY <2>2, <2>3, <2>4, SuffixFacts
<1> QED BY <1>1, <1>2

(* The signature of a body holds its data. *)
LEMMA SignatureIsBody ==
    ASSUME NEW frames \in Framings
    PROVE  FlattenSeq(Signature(frames)) = BodyOf(frames)
<1> DEFINE N == Len(frames)
           P(k) == SubSeq(frames, 1, k)
           Good(k) == FlattenSeq(Signature(P(k))) = BodyOf(P(k))
           Odd == {k \in 0..N : ~ Good(k)}
<1>1. N \in Nat /\ frames \in Seq(Seq(Datum)) /\ P(N) = frames
  BY FrameFacts, SubSeqFull
<1>2. Good(0)
  <2>1. P(0) = <<>>
    BY SubSeqEmpty
  <2>2. Signature(<<>>) = <<>> /\ FlattenSeq(<<>>) = <<>> /\ DataOf(<<>>) = <<>>
    BY DEF Signature, FlattenSeq, DataOf
  <2> QED BY <2>1, <2>2 DEF BodyOf
<1>3. ASSUME Odd # {} PROVE FALSE
  <2>1. PICK m \in Odd : m - 1 \notin Odd
    <3>1. Odd \in SUBSET Nat
      BY <1>1
    <3> HIDE DEF Odd
    <3> QED BY <1>3, <3>1, LeastOf
  <2>2. m \in 1..N /\ m - 1 \in 0..N /\ Good(m - 1) /\ ~ Good(m)
    <3>1. m \in 0..N /\ ~ Good(m) /\ (m - 1 \notin 0..N \/ Good(m - 1))
      BY <2>1
    <3> HIDE DEF Good, N
    <3>2. m # 0
      BY <1>2, <3>1
    <3> QED BY <1>1, <3>1, <3>2
  <2> HIDE DEF Odd
  <2> DEFINE x == frames[m]
             q == P(m - 1)
  <2>3. q \in Seq(Seq(Datum)) /\ x \in Seq(Datum) /\ P(m) = Append(q, x)
    <3>1. m - 1 \in Int /\ m - 1 <= N /\ m <= N /\ m \in Int /\ N \in Int
      BY <1>1, <2>2
    <3>2. /\ P(m) \in Seq(Seq(Datum)) /\ Len(P(m)) = m
          /\ \A i \in 1..m : P(m)[i] = frames[i]
      BY <1>1, <2>2, <3>1, Part
    <3>3. /\ q \in Seq(Seq(Datum)) /\ Len(q) = m - 1
          /\ \A i \in 1..m - 1 : q[i] = frames[i]
      BY <1>1, <2>2, <3>1, Part
    <3>4. x \in Seq(Datum)
      BY <2>2, FrameFacts
    <3> DEFINE U == Seq(Datum)
    <3> HIDE DEF P, q, x, U
    <3>5. /\ Append(q, x) \in Seq(U) /\ Len(Append(q, x)) = m
          /\ \A i \in 1..m - 1 : Append(q, x)[i] = q[i] /\ Append(q, x)[m] = x
      BY <2>2, <3>1, <3>3, <3>4 DEF U
    <3>6. \A i \in 1..m : Append(q, x)[i] = P(m)[i]
      <4>1. \A i \in 1..m : i = m \/ i \in 1..m - 1
        BY <3>1
      <4>2. Append(q, x)[m] = frames[m]
        BY <3>3, <3>4, <3>1 DEF x, U
      <4> QED BY <3>2, <3>3, <3>5, <4>1, <4>2, <2>2
    <3> QED BY <3>2, <3>3, <3>4, <3>5, <3>6, SeqEqual DEF U
  <2>4. Signature(q) \in Chain /\ DataOf(x) \in Content
    <3>1. m - 1 \in 0..Len(frames)
      BY <2>2
    <3> QED BY <2>2, <3>1, SignatureFacts, FrameFacts
  <2>5. Signature(Append(q, x)) = Append(Signature(q), DataOf(x))
    <3> DEFINE U == Seq(Datum)
    <3>0. q \in Seq(U) /\ x \in U
      BY <2>3
    <3> HIDE DEF P, q, x, U
    <3>1. /\ Len(Append(q, x)) = Len(q) + 1 /\ Len(q) \in Nat
          /\ \A i \in 1..Len(q) : Append(q, x)[i] = q[i] /\ Append(q, x)[Len(q) + 1] = x
      BY <3>0
    <3>2. Append(q, x)[Len(q) + 1] = x
      BY <3>0
    <3>3. /\ Signature(q) \in Seq(Content) /\ Len(Signature(q)) = Len(q)
          /\ \A i \in 1..Len(q) : Signature(q)[i] = DataOf(q[i])
      BY <2>4, <3>1 DEF Signature, Chain
    <3>4. Signature(Append(q, x)) = [i \in 1..Len(q) + 1 |-> DataOf(Append(q, x)[i])]
      BY <3>1 DEF Signature
    <3>5. \A i \in 1..Len(q) + 1 : DataOf(Append(q, x)[i]) = Append(Signature(q), DataOf(x))[i]
      <4>1. \A i \in 1..Len(q) + 1 : i \in 1..Len(q) \/ i = Len(q) + 1
        BY <3>1
      <4>2. /\ \A i \in 1..Len(q) : Append(Signature(q), DataOf(x))[i] = DataOf(q[i])
            /\ Append(Signature(q), DataOf(x))[Len(q) + 1] = DataOf(x)
        BY <2>4, <3>3, AppendProperties DEF Chain
      <4> QED BY <3>1, <3>2, <4>1, <4>2
    <3>6. Append(Signature(q), DataOf(x)) \in Seq(Content) /\ Len(Append(Signature(q), DataOf(x))) = Len(q) + 1
      BY <2>4, <3>1, <3>3, AppendProperties DEF Chain
    <3>7. Signature(Append(q, x)) \in Seq(Content) /\ Len(Signature(Append(q, x))) = Len(q) + 1
      <4>1. Len(q) + 1 \in Nat /\ \A i \in 1..Len(q) + 1 : DataOf(Append(q, x)[i]) \in Content
        BY <3>1, <3>5, <3>6, ElementOfSeq
      <4> QED BY <3>4, <4>1, IsASeq
    <3> QED BY <3>4, <3>5, <3>6, <3>7, SeqEqual
  <2>6. FlattenSeq(Signature(P(m))) = FlattenSeq(Signature(q)) \o DataOf(x)
    <3> HIDE DEF q, x, P
    <3> QED BY <2>3, <2>4, <2>5, FlattenMore DEF Chain, Content
  <2>7. FlattenSeq(q) \in Seq(Datum) /\ FlattenSeq(P(m)) = FlattenSeq(q) \o x
    <3> HIDE DEF q, x, P
    <3> QED BY <2>3, FlattenMore, FlattenType
  <2>8. \A u, v \in Seq(Datum) : DataOf(u \o v) = DataOf(u) \o DataOf(v)
    <3>1. TAKE u \in Seq(Datum), v \in Seq(Datum)
    <3>2. /\ Len(u) \in Nat /\ Len(v) \in Nat /\ Len(u \o v) = Len(u) + Len(v)
          /\ \A i \in 1..Len(u) + Len(v) : (u \o v)[i] = IF i <= Len(u) THEN u[i] ELSE v[i - Len(u)]
      BY ConcatProperties, LenProperties
    <3>3. /\ DataOf(u) = [i \in 1..Len(u) |-> Data(u[i])]
          /\ DataOf(v) = [i \in 1..Len(v) |-> Data(v[i])]
          /\ DataOf(u \o v) = [i \in 1..Len(u) + Len(v) |-> Data((u \o v)[i])]
      BY <3>2 DEF DataOf
    <3>4. \A w \in Seq(Datum) : DataOf(w) \in Seq(Unit) /\ Len(DataOf(w)) = Len(w)
      <4>1. TAKE w \in Seq(Datum)
      <4>2. Len(w) \in Nat /\ \A i \in 1..Len(w) : Data(w[i]) \in Unit
        BY DEF Unit
      <4> QED BY <4>2, IsASeq DEF DataOf
    <3>5. u \o v \in Seq(Datum)
      OBVIOUS
    <3>6. /\ DataOf(u) \o DataOf(v) \in Seq(Unit)
          /\ Len(DataOf(u) \o DataOf(v)) = Len(u) + Len(v)
          /\ \A i \in 1..Len(u) + Len(v) :
                (DataOf(u) \o DataOf(v))[i] = IF i <= Len(u) THEN DataOf(u)[i] ELSE DataOf(v)[i - Len(u)]
      <4> DEFINE a == DataOf(u)
                 b == DataOf(v)
      <4>1. a \in Seq(Unit) /\ b \in Seq(Unit) /\ Len(a) = Len(u) /\ Len(b) = Len(v)
        BY <3>4
      <4> HIDE DEF a, b
      <4>2. /\ a \o b \in Seq(Unit) /\ Len(a \o b) = Len(a) + Len(b)
            /\ \A i \in 1..Len(a) + Len(b) : (a \o b)[i] = IF i <= Len(a) THEN a[i] ELSE b[i - Len(a)]
        BY <4>1, ConcatProperties
      <4> QED BY <4>1, <4>2 DEF a, b
    <3>7. \A i \in 1..Len(u) + Len(v) : DataOf(u \o v)[i] = (DataOf(u) \o DataOf(v))[i]
      <4>1. TAKE i \in 1..Len(u) + Len(v)
      <4>2. CASE i <= Len(u)
        BY <3>2, <3>3, <3>6, <4>2
      <4>3. CASE ~ (i <= Len(u))
        <5>1. i - Len(u) \in 1..Len(v)
          BY <3>2, <4>3
        <5> QED BY <3>2, <3>3, <3>6, <4>3, <5>1
      <4> QED BY <4>2, <4>3
    <3>8. DataOf(u \o v) \in Seq(Unit) /\ Len(DataOf(u \o v)) = Len(u) + Len(v)
      BY <3>2, <3>4, <3>5
    <3> DEFINE a == DataOf(u \o v)
               b == DataOf(u) \o DataOf(v)
    <3> HIDE DEF a, b
    <3>9. a \in Seq(Unit) /\ b \in Seq(Unit) /\ Len(a) = Len(b) /\ \A i \in 1..Len(a) : a[i] = b[i]
      BY <3>6, <3>7, <3>8 DEF a, b
    <3>10. a = b
      BY <3>9, SeqEqual
    <3> QED BY <3>10 DEF a, b
  <2>9. BodyOf(P(m)) = BodyOf(q) \o DataOf(x)
    <3> HIDE DEF q, x, P
    <3> QED BY <2>3, <2>7, <2>8 DEF BodyOf
  <2>10. Good(m)
    <3>1. FlattenSeq(Signature(q)) = BodyOf(q)
      BY <2>2
    <3> HIDE DEF q, x, P
    <3>2. FlattenSeq(Signature(P(m))) = BodyOf(P(m))
      BY <2>6, <2>9, <3>1
    <3> QED BY <3>2
  <2> QED BY <2>2, <2>10
<1>4. N \in 0..N /\ N \notin Odd
  <2>1. N \in 0..N
    BY <1>1
  <2> HIDE DEF Odd
  <2> QED BY <1>3, <2>1
<1>5. Good(N)
  <2> HIDE DEF Good
  <2> QED BY <1>4
<1> QED BY <1>1, <1>5

(* What Read answers when the reader inside has returned data and e. *)
LEMMA HandOnFacts ==
    ASSUME NEW T, got \in Seq(T), req.max \in Nat,
           NEW data \in Seq(T), NEW e \in {"more", "eof"} \cup Errors, HandOn(data, e)
    PROVE  /\ got' = got \o data /\ got' \in Seq(T) /\ Len(got') = Len(got) + Len(data)
           /\ data = <<>> => got' = got
           /\ answer' \in {"more", "eof"} \cup Errors
           /\ verr' = IF answer' \in Errors THEN answer' ELSE "none"
           /\ answer' = "eof" => e = "eof" /\ finish(got') = "eof"
           /\ answer' = "more" => e = "more"
           /\ answer' \notin Errors /\ req.max > 0 /\ data # <<>> => Len(got') <= req.max
           /\ answer' \in Errors => \/ answer' = e
                                    \/ req.max > 0 /\ Len(got') > req.max
                                    \/ e = "eof" /\ finish(got') = answer'
<1>1. got' = got \o data
  BY DEF HandOn
<1>2. /\ got' \in Seq(T) /\ Len(got') = Len(got) + Len(data) /\ (data = <<>> => got' = got)
      /\ Len(got') \in Nat
  BY <1>1, ConcatProperties, ConcatEmptySeq, LenProperties
<1>3. finish(got') \in {"eof", "incomplete", "digest"}
  BY DEF finish
<1>5. verr' = IF answer' \in {"more", "eof"} THEN "none" ELSE answer'
  BY DEF HandOn
<1>6. answer' = IF data # <<>> /\ req.max > 0 /\ Len(got') > req.max THEN "toolarge"
                ELSE IF e = "eof" THEN finish(got') ELSE e
  BY DEF HandOn
<1>7. "toolarge" \in Errors /\ "incomplete" \in Errors /\ "digest" \in Errors
      /\ {"more", "eof"} \cap Errors = {}
  BY DEF Errors
<1>8. answer' \in {"more", "eof"} \cup Errors
  BY <1>3, <1>6, <1>7
<1>9. verr' = IF answer' \in Errors THEN answer' ELSE "none"
  BY <1>5, <1>7, <1>8
<1>10. /\ answer' = "eof" => e = "eof" /\ finish(got') = "eof"
       /\ answer' = "more" => e = "more"
       /\ answer' \in Errors => \/ answer' = e
                                \/ req.max > 0 /\ Len(got') > req.max
                                \/ e = "eof" /\ finish(got') = answer'
  BY <1>3, <1>6
<1>11. answer' \notin Errors /\ req.max > 0 /\ data # <<>> => Len(got') <= req.max
  BY <1>2, <1>6, <1>7
<1> QED BY <1>1, <1>2, <1>8, <1>9, <1>10, <1>11

(* A call of Read, seen from outside: what the reader inside must keep. *)
LEMMA ReadKeeps ==
    ASSUME NEW frames \in Framings, BodyInv(frames), verr = "none", answer # "unopened",
           NEW data \in Seq(Token(frames)), NEW e \in {"more", "eof"} \cup Errors, HandOn(data, e),
           UNCHANGED <<req, ends, how>>,
           wire' \in Seq(Token(frames)), c' \in ChunkType(frames), IsSuffix(c'.sum, got'),
           c'.eof => c'.err = "none",
           c'.err = "eof" => c'.left > 0,
           ~ req.framed => c' = NoChunk,
           req.framed /\ (c'.eof \/ c'.err # "none") => e # "more",
           e = "eof" => IF req.framed THEN c'.eof \/ c'.err = "eof" ELSE wire' = <<>> /\ ends = "eof",
           SignedInv', StartInv(frames)', EndInv'
    PROVE  BodyInv(frames)'
<1>1. got \in Seq(Token(frames)) /\ req.max \in Nat
  BY DEF BodyInv, RequestInv, ReaderType
<1>2. /\ got' \in Seq(Token(frames)) /\ (data = <<>> => got' = got)
      /\ answer' \in {"more", "eof"} \cup Errors
      /\ verr' = IF answer' \in Errors THEN answer' ELSE "none"
      /\ answer' = "eof" => e = "eof" /\ finish(got') = "eof"
      /\ answer' = "more" => e = "more"
      /\ answer' \notin Errors /\ req.max > 0 /\ data # <<>> => Len(got') <= req.max
  BY <1>1, HandOnFacts
<1>3. RequestInv(frames)'
  BY DEF BodyInv, RequestInv
<1>4. ReaderType(frames)'
  BY <1>2 DEF ReaderType
<1>5. {"none", "unopened", "more", "eof"} \cap Errors = {}
  BY DEF Errors
<1>6. answer \in {"more", "eof"} /\ (req.framed => req.declared >= 0)
  <2>1. answer \in {"unopened", "more", "eof"} \cup Errors
    BY DEF BodyInv, ReaderType
  <2>2. answer \notin Errors
    BY <1>5 DEF BodyInv, VerdictInv
  <2> QED BY <2>1, <2>2 DEF BodyInv, VerdictInv
<1>7. LimitInv'
  <2>1. CASE data = <<>>
    BY <1>2, <2>1 DEF BodyInv, LimitInv
  <2>2. CASE data # <<>>
    <3>1. verr' = "none" => answer' \notin Errors
      BY <1>2, <1>5
    <3> QED BY <1>2, <2>2, <3>1 DEF LimitInv
  <2> QED BY <2>1, <2>2
<1>8. VerdictInv'
  <2>1. answer' = "eof" => finish(got)' = "eof"
    <3>1. finish(got)' = finish(got')
      BY DEF finish
    <3> QED BY <1>2, <3>1
  <2>2. answer' = "eof" => IF req'.framed THEN c'.eof \/ c'.err = "eof" ELSE wire' = <<>> /\ ends' = "eof"
    BY <1>2
  <2>3. req'.framed /\ ~ Active' /\ verr' = "none" => answer' = "eof"
    BY <1>2, <1>5 DEF Active
  <2>4. answer' # "unopened"
    BY <1>2, <1>5 DEF Errors
  <2> QED BY <1>2, <1>6, <2>1, <2>2, <2>3, <2>4 DEF VerdictInv
<1> QED BY <1>3, <1>4, <1>7, <1>8 DEF BodyInv

LEMMA BodyStays ==
    ASSUME NEW frames, BodyInv(frames), UNCHANGED body
    PROVE  BodyInv(frames)'
<1>1. UNCHANGED <<req, wire, ends, how, c, got, verr, answer>>
  BY DEF body
<1>2. RequestInv(frames)'
  BY <1>1 DEF BodyInv, RequestInv
<1>3. ReaderType(frames)'
  BY <1>1 DEF BodyInv, ReaderType
<1>4. finish(got)' = finish(got) /\ Active' = Active
  BY <1>1 DEF finish, Active
<1>5. VerdictInv'
  BY <1>1, <1>4 DEF BodyInv, VerdictInv
<1>6. LimitInv' /\ SignedInv' /\ EndInv'
  BY <1>1, <1>4 DEF BodyInv, LimitInv, SignedInv, EndInv
<1>7. StartInv(frames)'
  BY <1>1, <1>4 DEF BodyInv, StartInv, Sound
<1> QED BY <1>2, <1>3, <1>5, <1>6, <1>7 DEF BodyInv

LEMMA OpensBody ==
    ASSUME NEW frames \in Framings, BodyInv(frames), openBody
    PROVE  BodyInv(frames)'
<1>1. /\ c = NoChunk /\ got = <<>> /\ req.framed \in BOOLEAN /\ req.declared \in Int /\ req.max \in Nat
      /\ answer = "unopened"
  BY DEF BodyInv, VerdictInv, RequestInv, openBody
<1>2. UNCHANGED <<req, wire, ends, how, c, got>>
  BY DEF openBody
<1>3. answer' \in {"format", "toolarge", "more"} /\ (answer' = "more" /\ req.framed => req.declared >= 0)
  BY <1>1 DEF openBody
<1>4. verr' = IF answer' \in Errors THEN answer' ELSE "none"
  BY <1>3 DEF openBody, Errors
<1>5. RequestInv(frames)' /\ SignedInv' /\ StartInv(frames)' /\ EndInv' /\ Active
  BY <1>1, <1>2 DEF BodyInv, RequestInv, SignedInv, StartInv, EndInv, NoChunk, Active, Sound
<1>6. ReaderType(frames)'
  BY <1>2, <1>3 DEF BodyInv, ReaderType, Errors
<1>7. VerdictInv'
  BY <1>1, <1>2, <1>3, <1>4, <1>5 DEF BodyInv, VerdictInv, Active, Errors, NoChunk
<1>8. LimitInv'
  BY <1>1, <1>2 DEF LimitInv
<1> QED BY <1>5, <1>6, <1>7, <1>8 DEF BodyInv

LEMMA Refuses ==
    ASSUME NEW frames \in Framings, BodyInv(frames), Refuse
    PROVE  BodyInv(frames)' /\ answer \in Errors /\ UNCHANGED body
<1>1. answer \in Errors /\ verr = answer
  BY DEF BodyInv, VerdictInv, Refuse
<1>2. UNCHANGED body
  BY <1>1 DEF Refuse, body
<1>3. BodyInv(frames)'
  BY <1>2, BodyStays
<1> QED BY <1>1, <1>2, <1>3

LEMMA NoChunkType ==
    ASSUME NEW frames \in Framings
    PROVE  NoChunk \in ChunkType(frames)
<1>1. <<>> \in Seq(Token(frames)) /\ <<>> \in Chain
  BY DEF Chain
<1>2. 0 \in 0..MaxChunk
  BY LimitAssumption
<1> QED BY <1>1, <1>2 DEF NoChunk, ChunkType, ReaderErrors

LEMMA ReadsPlain ==
    ASSUME NEW frames \in Framings, BodyInv(frames), verr = "none", answer # "unopened",
           ~ req.framed, PlainRead
    PROVE  BodyInv(frames)'
<1> DEFINE T == Token(frames)
<1>1. /\ wire \in Seq(T) /\ got \in Seq(T) /\ ends \in {"eof", "lost"} /\ ~ req.signed
      /\ c = NoChunk /\ (got = <<>> => Sound(frames, wire)) /\ req.max \in Nat
  BY DEF BodyInv, ReaderType, RequestInv, VerdictInv, StartInv, Active, NoChunk
<1>2. UNCHANGED <<req, ends, how, c>>
  BY DEF PlainRead
<1>3. c' = NoChunk /\ c' \in ChunkType(frames)
  BY <1>1, <1>2, NoChunkType
<1>4. {"more", "eof", "lost"} \subseteq {"more", "eof"} \cup Errors
  BY DEF Errors
<1>5. SignedInv' /\ EndInv'
  BY <1>1, <1>2 DEF SignedInv, EndInv, NoChunk
<1>6. ASSUME NEW data \in Seq(T), NEW e \in {"more", "eof", "lost"}, HandOn(data, e), wire' \in Seq(T),
             data = <<>> => wire' = wire, e = "eof" => wire' = <<>> /\ ends = "eof"
      PROVE  BodyInv(frames)'
  <2>1. got' \in Seq(T) /\ got' = got \o data /\ (got' = <<>> => got = <<>> /\ data = <<>>)
    BY <1>1, <1>4, <1>6, ConcatProperties, ConcatEqualIffEmpty DEF HandOn
  <2>2. IsSuffix(c'.sum, got')
    BY <1>3, <2>1, SuffixGrows DEF NoChunk
  <2>3. StartInv(frames)'
    BY <1>1, <1>6, <2>1 DEF StartInv, Sound
  <2>4. c'.eof = FALSE /\ c'.err = "none"
    BY <1>3 DEF NoChunk
  <2> QED BY <1>2, <1>3, <1>4, <1>5, <1>6, <2>2, <2>3, <2>4, ReadKeeps
<1>7. CASE wire = <<>> /\ HandOn(<<>>, ends) /\ UNCHANGED wire
  <2>1. <<>> \in Seq(T)
    OBVIOUS
  <2> QED BY <1>1, <1>6, <1>7, <2>1
<1>8. CASE \E n \in 1..Len(wire) :
            /\ wire' = SubSeq(wire, n + 1, Len(wire))
            /\ \E e \in {"more"} \cup IF n = Len(wire) THEN {ends} ELSE {} :
                  HandOn(SubSeq(wire, 1, n), e)
  <2>1. PICK n \in 1..Len(wire) :
            /\ wire' = SubSeq(wire, n + 1, Len(wire))
            /\ \E e \in {"more"} \cup IF n = Len(wire) THEN {ends} ELSE {} :
                  HandOn(SubSeq(wire, 1, n), e)
    BY <1>8
  <2>2. PICK e \in {"more"} \cup IF n = Len(wire) THEN {ends} ELSE {} : HandOn(SubSeq(wire, 1, n), e)
    BY <2>1
  <2>3. n \in Nat \ {0} /\ n \in Int /\ n <= Len(wire) /\ n + 1 \in Nat \ {0} /\ Len(wire) \in Int /\ Len(wire) <= Len(wire)
    BY <1>1
  <2> HIDE DEF T
  <2>4. /\ SubSeq(wire, 1, n) \in Seq(T) /\ Len(SubSeq(wire, 1, n)) = n
        /\ wire' \in Seq(T) /\ Len(wire') = Len(wire) - n
    BY <1>1, <2>1, <2>3, Part
  <2>5. SubSeq(wire, 1, n) # <<>>
    BY <2>3, <2>4
  <2>6. e = "eof" => wire' = <<>> /\ ends = "eof"
    BY <2>2, <2>3, <2>4, EmptySeq
  <2>7. e \in {"more", "eof", "lost"}
    BY <1>1
  <2> QED BY <1>6, <2>2, <2>4, <2>5, <2>6, <2>7 DEF T
<1> QED BY <1>7, <1>8 DEF PlainRead

LEMMA ReadsAgain ==
    ASSUME NEW frames \in Framings, BodyInv(frames), verr = "none", answer # "unopened",
           req.framed, ReadAgain
    PROVE  BodyInv(frames)' /\ answer = "eof" /\ UNCHANGED body
<1> DEFINE T == Token(frames)
<1>1. /\ got \in Seq(T) /\ wire \in Seq(T) /\ c \in ChunkType(frames) /\ IsSuffix(c.sum, got)
      /\ answer = "eof" /\ finish(got) = "eof" /\ (c.eof \/ c.err = "eof") /\ (c.eof => c.err = "none")
  BY DEF BodyInv, ReaderType, VerdictInv, ReadAgain, Active
<1>2. UNCHANGED <<req, wire, ends, how, c>> /\ HandOn(<<>>, "eof")
  BY <1>1 DEF ReadAgain
<1>3. got' = got
  BY <1>1, <1>2, ConcatEmptySeq DEF HandOn
<1>4. answer' = "eof"
  BY <1>1, <1>2, <1>3 DEF HandOn
<1>5. verr' = "none"
  BY <1>2, <1>4 DEF HandOn
<1>6. UNCHANGED body
  BY <1>1, <1>2, <1>3, <1>4, <1>5 DEF body
<1>7. BodyInv(frames)'
  BY <1>6, BodyStays
<1> QED BY <1>1, <1>6, <1>7

LEMMA RefusesLine ==
    ASSUME NEW frames \in Framings, BodyInv(frames), verr = "none", answer # "unopened",
           req.framed, BadSizeLine
    PROVE  BodyInv(frames)'
<1> DEFINE T == Token(frames)
<1>1. /\ got \in Seq(T) /\ wire \in Seq(T) /\ c \in ChunkType(frames) /\ IsSuffix(c.sum, got)
      /\ c.eof = FALSE /\ <<>> \in Seq(T)
  BY DEF BodyInv, ReaderType, BadSizeLine, Active, ChunkType
<1>2. UNCHANGED <<req, wire, ends, how>> /\ HandOn(<<>>, "format") /\ c' = [c EXCEPT !.err = "format"]
  BY DEF BadSizeLine, LineError
<1>3. got' = got
  BY <1>1, <1>2, ConcatEmptySeq DEF HandOn
<1>4. c' \in ChunkType(frames) /\ c'.sum = c.sum /\ c'.eof = FALSE /\ c'.err = "format"
  BY <1>1, <1>2 DEF ChunkType, ReaderErrors
<1>5. SignedInv' /\ StartInv(frames)' /\ EndInv'
  BY <1>4 DEF SignedInv, StartInv, EndInv, Active
<1>6. "format" \in {"more", "eof"} \cup Errors
  BY DEF Errors
<1> QED BY <1>1, <1>2, <1>3, <1>4, <1>5, <1>6, ReadKeeps

(* The closing frame: all that was handed on is the body. *)
LEMMA WholeAtTheEnd ==
    ASSUME NEW frames \in Framings, BodyInv(frames), req.framed, Active, c.left = 0,
           SizeLine, Head(wire).n = 0, SignatureHolds(Head(wire).sig, <<>>),
           req.trailers => TrailerAnswer(Tail(wire), Head(wire).sig) = "eof"
    PROVE  got = req.body
<1> DEFINE T == Token(frames)
<1>1. /\ wire \in Seq(T) /\ wire # <<>> /\ Head(wire).kind = "size" /\ c \in ChunkType(frames)
      /\ req.body = BodyOf(frames) /\ (req.signed \/ req.trailers)
  BY DEF BodyInv, ReaderType, SizeLine, RequestInv
<1>2. /\ Head(wire) \in T /\ Tail(wire) \in Seq(T) /\ Head(wire) = wire[1]
      /\ Tail(wire) # <<>> => Head(Tail(wire)) \in T /\ Head(Tail(wire)) = wire[2] /\ 2 \in 1..Len(wire)
  <2> HIDE DEF T
  <2>1. Head(wire) \in T /\ Tail(wire) \in Seq(T) /\ Head(wire) = wire[1] /\ Len(wire) \in Nat
        /\ Len(Tail(wire)) = Len(wire) - 1 /\ \A i \in 1..Len(Tail(wire)) : Tail(wire)[i] = wire[i + 1]
    BY <1>1, HeadTailProperties
  <2>2. ASSUME Tail(wire) # <<>>
        PROVE  Head(Tail(wire)) \in T /\ Head(Tail(wire)) = wire[2] /\ 2 \in 1..Len(wire)
    <3>1. Len(Tail(wire)) \in Nat \ {0} /\ Head(Tail(wire)) = Tail(wire)[1] /\ Head(Tail(wire)) \in T
      BY <2>1, <2>2, HeadTailProperties, EmptySeq
    <3> QED BY <2>1, <3>1
  <2> QED BY <2>1, <2>2
<1>3. Head(wire).sig \in Signatures(frames)
  BY <1>1, <1>2, KindFacts
<1>4. CASE req.signed
  <2>1. got = FlattenSeq(c.prev) /\ Head(wire).sig = Append(c.prev, <<>>) /\ c.prev \in Chain
    BY <1>1, <1>4 DEF BodyInv, SignedInv, SignatureHolds, ChunkType
  <2>2. /\ <<>> \in Content /\ Append(c.prev, <<>>) \in Chain
        /\ Append(c.prev, <<>>)[Len(c.prev) + 1] = <<>> /\ Len(Append(c.prev, <<>>)) = Len(c.prev) + 1
    <3>1. <<>> \in Content
      BY DEF Content
    <3> QED BY <2>1, <3>1, AppendProperties DEF Chain
  <2>3. CASE Head(wire).sig = LastChain(frames)
    <3>1. Signature(frames) \in Chain
      BY ChainFacts
    <3>2. c.prev = Signature(frames)
      <4> DEFINE a == c.prev
                 b == Signature(frames)
      <4>1. a \in Seq(Content) /\ b \in Seq(Content) /\ <<>> \in Content
        BY <2>1, <2>2, <3>1 DEF Chain
      <4>2. Append(a, <<>>) = Append(b, <<>>)
        BY <2>1, <2>3 DEF LastChain
      <4> HIDE DEF a, b
      <4>3. a = b
        BY <4>1, <4>2, AppendInjective
      <4> QED BY <4>3 DEF a, b
    <3> QED BY <1>1, <2>1, <3>2, SignatureIsBody
  <2>4. CASE \E i \in 1..Len(frames) : Head(wire).sig = Signature(SubSeq(frames, 1, i))
    <3>1. PICK i \in 1..Len(frames) : Head(wire).sig = Signature(SubSeq(frames, 1, i))
      BY <2>4
    <3>2. i \in 0..Len(frames) /\ i \in 1..i
      OBVIOUS
    <3> DEFINE s == Signature(SubSeq(frames, 1, i))
    <3>3. Len(s) = i /\ s[i] = DataOf(frames[i])
      BY <3>2, SignatureFacts
    <3> HIDE DEF s
    <3>4. s = Append(c.prev, <<>>) /\ Len(s) = Len(c.prev) + 1
      BY <2>1, <2>2, <3>1 DEF s
    <3>5. s[i] = <<>>
      BY <2>2, <3>3, <3>4
    <3>6. Len(DataOf(frames[i])) \in Nat \ {0}
      BY FrameFacts
    <3> QED BY <3>3, <3>5, <3>6, EmptySeq
  <2> QED BY <1>3, <2>3, <2>4 DEF Signatures
<1>5. CASE ~ req.signed
  <2>1. /\ Tail(wire) # <<>> /\ Head(Tail(wire)).kind = "trailers" /\ Head(Tail(wire)).sum = got
    BY <1>1, <1>5 DEF TrailerAnswer
  <2>2. Head(Tail(wire)) \in {TrailersOf(frames), Blank(frames)} /\ got \in {BodyOf(frames), <<>>}
    BY <1>2, <2>1, KindFacts
  <2>3. CASE got = <<>>
    <3>1. Sound(frames, wire)
      BY <2>3 DEF BodyInv, StartInv
    <3>2. CASE wire \in Seq(Own(frames))
      <4>1. wire[2] \in Own(frames)
        BY <1>2, <2>1, <3>2, ElementOfSeq
      <4>2. \A t \in Own(frames) : t.kind = "trailers" => t = TrailersOf(frames)
        <5>1. TAKE t \in Own(frames)
        <5>2. \A u \in Unit : u.kind = "data"
          BY DEF Unit, Data
        <5>3. \A u \in SizeToken(frames) : u.kind = "size"
          BY DEF SizeToken
        <5>4. CRLF.kind = "crlf"
          BY DEF CRLF
        <5> QED BY <5>2, <5>3, <5>4 DEF Own
      <4>3. Head(Tail(wire)) = TrailersOf(frames)
        BY <1>2, <2>1, <4>1, <4>2
      <4> QED BY <1>1, <2>1, <4>3 DEF TrailersOf, Trailers
    <3>3. CASE wire[1].n > 0 \/ frames = <<>>
      <4>1. frames = <<>>
        BY <1>2, <3>3
      <4>2. BodyOf(<<>>) = <<>>
        <5>1. FlattenSeq(<<>>) = <<>>
          BY DEF FlattenSeq
        <5> QED BY <5>1 DEF BodyOf, DataOf
      <4> QED BY <1>1, <2>3, <4>1, <4>2
    <3> QED BY <3>1, <3>2, <3>3 DEF Sound
  <2> QED BY <1>1, <2>2, <2>3
<1> QED BY <1>4, <1>5

LEMMA Closes ==
    ASSUME NEW frames \in Framings, BodyInv(frames), verr = "none", answer # "unopened",
           req.framed, ClosingFrame
    PROVE  BodyInv(frames)'
<1> DEFINE T == Token(frames)
           sig == Head(wire).sig
           e == IF ~ SignatureHolds(sig, <<>>) THEN "signature"
                ELSE IF req.trailers THEN TrailerAnswer(Tail(wire), sig)
                ELSE "eof"
<1>1. /\ got \in Seq(T) /\ wire \in Seq(T) /\ c \in ChunkType(frames) /\ IsSuffix(c.sum, got)
      /\ c.eof = FALSE /\ c.err = "none" /\ <<>> \in Seq(T) /\ wire # <<>>
  BY DEF BodyInv, ReaderType, ClosingFrame, Active, ChunkType, SizeLine
<1>2. UNCHANGED <<req, ends, how>> /\ HandOn(<<>>, e) /\ c' = Closed(e) /\ wire' = Tail(wire)
  BY DEF ClosingFrame
<1>3. e \in {"eof", "format", "signature", "digest"}
  BY DEF TrailerAnswer
<1>4. e = "eof" => got = req.body
  <2> HIDE DEF T
  <2>1. ASSUME e = "eof"
        PROVE  SignatureHolds(sig, <<>>) /\ (req.trailers => TrailerAnswer(Tail(wire), sig) = "eof")
    BY <2>1
  <2> QED BY <2>1, WholeAtTheEnd DEF ClosingFrame
<1> HIDE DEF e
<1>5. got' = got
  BY <1>1, <1>2, ConcatEmptySeq DEF HandOn
<1>6. /\ c' \in ChunkType(frames) /\ c'.sum = c.sum
      /\ e = "eof" => c'.eof = TRUE /\ c'.err = "none"
      /\ e # "eof" => c'.eof = FALSE /\ c'.err = e
  BY <1>1, <1>2, <1>3 DEF ChunkType, ReaderErrors, Closed
<1>7. SignedInv' /\ StartInv(frames)' /\ EndInv'
  BY <1>2, <1>3, <1>4, <1>5, <1>6 DEF SignedInv, StartInv, EndInv, Active
<1>8. e \in {"more", "eof"} \cup Errors /\ e # "more"
  BY <1>3 DEF Errors
<1>9. wire' \in Seq(T)
  BY <1>1, <1>2, HeadTailProperties
<1>10. /\ IsSuffix(c'.sum, got') /\ (c'.eof => c'.err = "none") /\ (c'.err = "eof" => c'.left > 0)
       /\ (e = "eof" => c'.eof \/ c'.err = "eof")
  BY <1>1, <1>5, <1>6
<1> HIDE DEF T
<1> QED BY <1>1, <1>2, <1>6, <1>7, <1>8, <1>9, <1>10, ReadKeeps DEF T

(* The frame that the reader is in, or opens. *)
LEMMA InFrameFacts ==
    ASSUME NEW frames \in Framings, BodyInv(frames), HasFrame
    PROVE  /\ InWire \in Seq(Token(frames))
           /\ InFrame \in ChunkType(frames)
           /\ InFrame.left \in 1..MaxChunk /\ InFrame.eof = FALSE /\ InFrame.err = "none"
           /\ InFrame.prev = c.prev
           /\ IsSuffix(InFrame.sum, got)
           /\ req.signed => got = FlattenSeq(c.prev) \o InFrame.sum
<1> DEFINE T == Token(frames)
<1>1. /\ got \in Seq(T) /\ wire \in Seq(T) /\ c \in ChunkType(frames) /\ IsSuffix(c.sum, got)
      /\ c.eof = FALSE /\ c.err = "none" /\ Active
  BY DEF BodyInv, ReaderType, HasFrame, Active, ChunkType
<1>2. CASE c.left > 0
  <2>1. InFrame = c /\ InWire = wire
    BY <1>2 DEF InFrame, InWire
  <2>2. c.left \in 1..MaxChunk
    BY <1>1, <1>2, LimitAssumption DEF ChunkType
  <2>3. req.signed => got = FlattenSeq(c.prev) \o c.sum
    <3>1. c.left # 0
      BY <2>2, LimitAssumption
    <3> QED BY <1>1, <3>1 DEF BodyInv, SignedInv
  <2> QED BY <1>1, <2>1, <2>2, <2>3
<1>3. CASE ~ (c.left > 0)
  <2>1. SizeLine /\ Head(wire).n > 0 /\ c.left = 0
    BY <1>1, <1>3, LimitAssumption DEF HasFrame, ChunkType
  <2>2. wire # <<>> /\ Head(wire).kind = "size" /\ Head(wire).n <= MaxChunk
    BY <2>1 DEF SizeLine
  <2>3. Head(wire) \in T /\ Tail(wire) \in Seq(T)
    <3> HIDE DEF T
    <3> QED BY <1>1, <2>2, HeadTailProperties
  <2>4. Head(wire).n \in Nat /\ Head(wire).sig \in Chain
    <3>1. Head(wire) \in SizeToken(frames)
      BY <2>2, <2>3, KindFacts
    <3>2. Head(wire).n \in Nat /\ Head(wire).sig \in Signatures(frames)
      BY <3>1 DEF SizeToken
    <3> QED BY <3>2, ChainFacts
  <2>5. Head(wire).n \in 1..MaxChunk
    BY <2>1, <2>2, <2>4, LimitAssumption
  <2>6. InFrame = [c EXCEPT !.left = Head(wire).n, !.sig = Head(wire).sig, !.sum = <<>>] /\ InWire = Tail(wire)
    BY <1>3 DEF InFrame, InWire
  <2>7. <<>> \in Seq(T)
    OBVIOUS
  <2> DEFINE n == Head(wire).n
             sig == Head(wire).sig
  <2>8. /\ InFrame \in ChunkType(frames) /\ InFrame.left = n /\ InFrame.eof = FALSE /\ InFrame.err = "none"
        /\ InFrame.prev = c.prev /\ InFrame.sum = <<>>
    <3> HIDE DEF T
    <3>1. n \in 0..MaxChunk /\ sig \in Chain /\ <<>> \in Seq(Token(frames))
      BY <2>4, <2>5, <2>7 DEF T
    <3> HIDE DEF n, sig
    <3> QED BY <1>1, <2>6, <3>1 DEF ChunkType, n, sig
  <2>9. IsSuffix(<<>>, got)
    BY <1>1, SuffixGrows
  <2>10. req.signed => got = FlattenSeq(c.prev) \o <<>>
    <3>1. FlattenSeq(c.prev) \in Seq(Unit)
      BY <1>1, FlattenType DEF ChunkType, Chain, Content
    <3>2. FlattenSeq(c.prev) \o <<>> = FlattenSeq(c.prev)
      BY <3>1, ConcatEmptySeq
    <3> QED BY <1>1, <2>1, <3>2 DEF BodyInv, SignedInv
  <2> QED BY <1>1, <2>3, <2>5, <2>6, <2>8, <2>9, <2>10
<1> QED BY <1>2, <1>3

LEMMA StopsInFrame ==
    ASSUME NEW frames \in Framings, BodyInv(frames), verr = "none", answer # "unopened",
           req.framed, StopInFrame
    PROVE  BodyInv(frames)'
<1> DEFINE T == Token(frames)
<1>1. /\ got \in Seq(T) /\ <<>> \in Seq(T) /\ ends \in {"eof", "lost"} /\ HasFrame
  BY DEF BodyInv, ReaderType, RequestInv, StopInFrame
<1>2. UNCHANGED <<req, ends, how>> /\ HandOn(<<>>, ends) /\ c' = [InFrame EXCEPT !.err = ends] /\ wire' = <<>>
  BY DEF StopInFrame, NothingLeft
<1>3. /\ InFrame \in ChunkType(frames) /\ InFrame.left \in 1..MaxChunk /\ InFrame.eof = FALSE
      /\ IsSuffix(InFrame.sum, got)
  BY <1>1, InFrameFacts
<1>4. got' = got
  BY <1>1, <1>2, ConcatEmptySeq DEF HandOn
<1>5. /\ c' \in ChunkType(frames) /\ c'.sum = InFrame.sum /\ c'.eof = FALSE /\ c'.err = ends /\ c'.left > 0
  <2> DEFINE f == InFrame
  <2> HIDE DEF f
  <2>1. f \in ChunkType(frames) /\ f.left \in 1..MaxChunk /\ f.eof = FALSE /\ c' = [f EXCEPT !.err = ends]
    BY <1>2, <1>3 DEF f
  <2>2. c' \in ChunkType(frames) /\ c'.sum = f.sum /\ c'.eof = FALSE /\ c'.err = ends /\ c'.left = f.left
    BY <1>1, <2>1 DEF ChunkType, ReaderErrors
  <2> QED BY <2>1, <2>2 DEF f
<1>6. SignedInv' /\ StartInv(frames)' /\ EndInv'
  BY <1>1, <1>5 DEF SignedInv, StartInv, EndInv, Active
<1>7. ends \in {"more", "eof"} \cup Errors /\ ends # "more"
  BY <1>1 DEF Errors
<1>8. IsSuffix(c'.sum, got') /\ (c'.eof => c'.err = "none") /\ (ends = "eof" => c'.eof \/ c'.err = "eof")
  BY <1>3, <1>4, <1>5
<1> HIDE DEF T
<1> QED BY <1>1, <1>2, <1>5, <1>6, <1>7, <1>8, ReadKeeps DEF T

LEMMA ReadsFrame ==
    ASSUME NEW frames \in Framings, BodyInv(frames), verr = "none", answer # "unopened",
           req.framed, NEW n \in 1..MaxChunk, ReadFrame(n)
    PROVE  BodyInv(frames)'
<1> DEFINE T == Token(frames)
           data == SubSeq(InWire, 1, n)
           w == SubSeq(InWire, n + 1, Len(InWire))
           f == [InFrame EXCEPT !.sum = @ \o data, !.left = @ - n]
           e == IF f.left > 0 THEN "more" ELSE FrameAnswer(f, w)
<1>1. /\ InWire \in Seq(T) /\ InFrame \in ChunkType(frames)
      /\ InFrame.left \in 1..MaxChunk /\ InFrame.eof = FALSE /\ InFrame.err = "none"
      /\ InFrame.prev = c.prev /\ IsSuffix(InFrame.sum, got)
      /\ req.signed => got = FlattenSeq(c.prev) \o InFrame.sum
      /\ got \in Seq(T) /\ InFrame.sum \in Seq(T) /\ c.prev \in Chain
  BY InFrameFacts DEF ReadFrame, BodyInv, ReaderType, ChunkType
<1>2. n <= InFrame.left /\ n <= Len(InWire) /\ UNCHANGED <<req, ends, how>>
  BY DEF ReadFrame
<1>3. /\ wire' = IF f.left = 0 /\ e = "more" THEN Tail(w) ELSE w
      /\ c' = IF e # "more" THEN [f EXCEPT !.err = e]
              ELSE IF f.left = 0 /\ req.signed THEN [f EXCEPT !.prev = f.sig]
              ELSE f
      /\ HandOn(data, e)
  BY DEF ReadFrame
<1>4. n \in Nat \ {0} /\ n \in Int /\ n + 1 \in Nat \ {0} /\ Len(InWire) \in Int /\ Len(InWire) <= Len(InWire)
  BY <1>1
<1>5. data \in Seq(T) /\ w \in Seq(T) /\ Len(data) = n /\ data # <<>>
  <2> HIDE DEF T
  <2>1. data \in Seq(T) /\ w \in Seq(T) /\ Len(data) = n
    BY <1>1, <1>2, <1>4, Part
  <2> QED BY <1>4, <2>1, EmptySeq
<1> HIDE DEF data, w
<1>6. /\ f \in ChunkType(frames) /\ f.sum = InFrame.sum \o data /\ f.left = InFrame.left - n
      /\ f.eof = FALSE /\ f.err = "none" /\ f.prev = c.prev /\ f.sig = InFrame.sig
  <2> DEFINE g == InFrame
             d == g.sum \o data
  <2>1. d \in Seq(Token(frames)) /\ g.left - n \in 0..MaxChunk
    BY <1>1, <1>2, <1>5, LimitAssumption
  <2>2. f = [g EXCEPT !.sum = d, !.left = g.left - n]
    OBVIOUS
  <2>3. g \in ChunkType(frames) /\ g.eof = FALSE /\ g.err = "none" /\ g.prev = c.prev
    BY <1>1
  <2> HIDE DEF g, d, f
  <2>4. f \in ChunkType(frames) /\ f.sum = d /\ f.left = g.left - n /\ f.eof = g.eof /\ f.err = g.err
        /\ f.prev = g.prev /\ f.sig = g.sig
    BY <2>1, <2>2, <2>3 DEF ChunkType
  <2> QED BY <2>3, <2>4 DEF g, d
<1> HIDE DEF f
<1>7. e \in {"more", "format", "signature"}
  BY DEF FrameAnswer
<1>8. e = "more" /\ f.left = 0 => w # <<>> /\ SignatureHolds(f.sig, f.sum)
  BY <1>6 DEF FrameAnswer
<1> HIDE DEF e
<1>9. got' = got \o data /\ got' # <<>> /\ IsSuffix(f.sum, got')
  <2>1. got' = got \o data
    BY <1>3 DEF HandOn
  <2>2. got \o data # <<>>
    BY <1>1, <1>5, ConcatEqualIffEmpty
  <2>3. IsSuffix(InFrame.sum \o data, got \o data)
    BY <1>1, <1>5, SuffixGrows
  <2> QED BY <1>6, <2>1, <2>2, <2>3
<1>10. /\ c' \in ChunkType(frames) /\ c'.sum = f.sum /\ c'.left = f.left /\ c'.eof = FALSE
       /\ c'.err = IF e = "more" THEN "none" ELSE e
       /\ c'.prev = IF e = "more" /\ f.left = 0 /\ req.signed THEN f.sig ELSE f.prev
  BY <1>3, <1>6, <1>7 DEF ChunkType, ReaderErrors
<1>11. wire' \in Seq(T)
  <2> HIDE DEF T
  <2> QED BY <1>3, <1>5, <1>8, HeadTailProperties
<1>12. SignedInv'
  <2> SUFFICES ASSUME req.signed, e = "more"
               PROVE  got' = IF c'.left = 0 THEN FlattenSeq(c'.prev) ELSE FlattenSeq(c'.prev) \o c'.sum
    BY <1>2, <1>7, <1>10 DEF SignedInv, Active
  <2>1. FlattenSeq(c.prev) \in Seq(T)
    <3>1. FlattenSeq(c.prev) \in Seq(Unit)
      BY <1>1, FlattenType DEF Chain, Content
    <3>2. Unit \subseteq T
      BY DEF Token, Own
    <3> HIDE DEF T
    <3> QED BY <3>1, <3>2, SeqMonotonic
  <2>2. got' = FlattenSeq(c.prev) \o f.sum
    <3> DEFINE a == FlattenSeq(c.prev)
               b == InFrame.sum
    <3>1. a \in Seq(T) /\ b \in Seq(T) /\ got = a \o b
      BY <1>1, <2>1
    <3> HIDE DEF a, b, T
    <3>2. (a \o b) \o data = a \o (b \o data)
      BY <1>5, <3>1, ConcatAssociative
    <3> QED BY <1>6, <1>9, <3>1, <3>2 DEF a, b
  <2>3. CASE f.left = 0
    <3>1. f.sig = Append(c.prev, f.sum) /\ f.sig \in Chain /\ c'.prev = f.sig /\ c'.left = 0
      BY <1>6, <1>8, <1>10, <2>3 DEF SignatureHolds, ChunkType
    <3>2. f.sum \in Content
      <4> DEFINE s == c.prev
                 x == f.sum
                 t == f.sig
      <4>1. s \in Seq(Content) /\ t \in Seq(Content) /\ t = Append(s, x)
        BY <1>1, <3>1 DEF Chain
      <4> HIDE DEF s, x, t
      <4>2. Len(t) = Len(s) + 1 /\ t[Len(s) + 1] = x /\ Len(s) \in Nat
        BY <4>1
      <4>3. x \in Content
        BY <4>1, <4>2, ElementOfSeq
      <4> QED BY <4>3 DEF x
    <3>3. FlattenSeq(Append(c.prev, f.sum)) = FlattenSeq(c.prev) \o f.sum
      BY <1>1, <3>2, FlattenMore DEF Chain, Content
    <3> QED BY <2>2, <3>1, <3>3
  <2>4. CASE f.left # 0
    BY <1>6, <1>10, <2>2, <2>4
  <2> QED BY <2>3, <2>4
<1>13. StartInv(frames)' /\ EndInv'
  BY <1>9, <1>10 DEF StartInv, EndInv
<1>14. e \in {"more", "eof"} \cup Errors
  BY <1>7 DEF Errors
<1>15. /\ c'.eof => c'.err = "none"
       /\ c'.err = "eof" => c'.left > 0
       /\ c'.eof \/ c'.err # "none" => e # "more"
       /\ e # "eof" /\ IsSuffix(c'.sum, got')
  BY <1>7, <1>9, <1>10
<1> HIDE DEF T
<1> QED BY <1>2, <1>3, <1>5, <1>10, <1>11, <1>12, <1>13, <1>14, <1>15, ReadKeeps DEF T

LEMMA BodyStep ==
    ASSUME NEW frames \in Framings, BodyInv(frames), openBody \/ Read
    PROVE  BodyInv(frames)'
<1>1. CASE openBody
  BY <1>1, OpensBody
<1>2. CASE Refuse
  BY <1>2, Refuses
<1>3. CASE answer # "unopened" /\ verr = "none" /\ ~ req.framed /\ PlainRead
  BY <1>3, ReadsPlain
<1>4. CASE answer # "unopened" /\ verr = "none" /\ req.framed /\ ChunkRead
  BY <1>4, ReadsAgain, RefusesLine, Closes, StopsInFrame, ReadsFrame DEF ChunkRead
<1> QED BY <1>1, <1>2, <1>3, <1>4 DEF Read

LEMMA StartsBody ==
    ASSUME NEW frames \in Framings, ReaderInit, RequestInv(frames), Arrived(frames)
    PROVE  BodyInv(frames)
<1>1. c = NoChunk /\ got = <<>> /\ verr = "none" /\ answer = "unopened"
  BY DEF ReaderInit
<1>2. /\ c.sum = <<>> /\ c.prev = <<>> /\ c.left = 0 /\ c.eof = FALSE /\ c.err = "none"
      /\ c \in ChunkType(frames)
  BY <1>1, NoChunkType DEF NoChunk
<1>3. <<>> \in Seq(Token(frames)) /\ Len(got) = 0
  BY <1>1
<1>4. IsSuffix(c.sum, got)
  BY <1>1, <1>2, <1>3, SuffixGrows
<1>5. ReaderType(frames)
  BY <1>1, <1>2, <1>3, <1>4 DEF ReaderType, Arrived, Sound
<1>6. VerdictInv
  BY <1>1, <1>2 DEF VerdictInv, Errors, Active
<1>7. LimitInv
  BY <1>3 DEF LimitInv, RequestInv
<1>8. SignedInv
  <2>1. FlattenSeq(<<>>) = <<>>
    BY DEF FlattenSeq
  <2> QED BY <1>1, <1>2, <2>1 DEF SignedInv
<1>9. StartInv(frames) /\ EndInv
  BY <1>2 DEF StartInv, EndInv, Arrived
<1> QED BY <1>5, <1>6, <1>7, <1>8, <1>9 DEF BodyInv

(* The server around the reader. *)
LEMMA InitSomeBody == Init => SomeBody
<1> SUFFICES ASSUME Init PROVE SomeBody
  OBVIOUS
<1>1. BodyInit \/ NoBody
  BY DEF Init
<1>2. PICK frames \in Framings : ReaderInit /\ RequestInv(frames) /\ Arrived(frames)
  BY <1>1, InitBody
<1> QED BY <1>2, StartsBody DEF SomeBody

LEMMA StepsOfBody ==
    ASSUME [Next]_vars
    PROVE  openBody \/ Read \/ UNCHANGED body
<1>1. CASE Body
  BY <1>1 DEF Body
<1>2. CASE Send \/ Tick \/ Preflight \/ WriteHeaders \/ Authorize \/ Route \/ Begin \/ Die \/ UNCHANGED vars
  BY <1>2 DEF Send, Tick, Preflight, WriteHeaders, Authorize, Route, Begin, Die, vars
<1>3. CASE StartUp /\ UNCHANGED <<body, front>>
  BY <1>3
<1> QED BY <1>1, <1>2, <1>3 DEF Next, Handle

LEMMA NextSomeBody == SomeBody /\ [Next]_vars => SomeBody'
<1> SUFFICES ASSUME SomeBody, [Next]_vars PROVE SomeBody'
  OBVIOUS
<1>1. PICK frames \in Framings : BodyInv(frames)
  BY DEF SomeBody
<1>2. BodyInv(frames)'
  BY <1>1, StepsOfBody, BodyStep, BodyStays
<1> QED BY <1>2 DEF SomeBody

LEMMA SomeBodyWhole == SomeBody => AcceptedIsWhole /\ BodyTypeOK
<1> SUFFICES ASSUME NEW frames \in Framings, BodyInv(frames) PROVE AcceptedIsWhole /\ BodyTypeOK
  BY DEF SomeBody
<1>1. ASSUME answer = "eof"
      PROVE  /\ req.declared >= 0 => Len(got) = req.declared
             /\ req.max > 0 => Len(got) <= req.max
             /\ req.digest \/ c.eof => got = req.body
  <2>1. verr = "none" /\ finish(got) = "eof"
    BY <1>1 DEF BodyInv, VerdictInv, Errors
  <2>2. /\ req.declared >= 0 => Len(got) = req.declared
        /\ req.digest => got = req.body
    BY <2>1 DEF finish
  <2> QED BY <2>1, <2>2 DEF BodyInv, LimitInv, EndInv
<1>2. BodyTypeOK
  <2>1. ends \in {"eof", "lost"} /\ answer \in {"unopened", "more", "eof"} \cup Errors /\ IsSuffix(c.sum, got)
    BY DEF BodyInv, RequestInv, ReaderType
  <2>2. verr \in {"none"} \cup Errors
    BY DEF BodyInv, VerdictInv
  <2>3. c.left \in 0..MaxChunk /\ c.eof \in BOOLEAN /\ c.err \in {"none", "eof", "lost", "format", "signature", "digest"}
    BY DEF BodyInv, ReaderType, ChunkType, ReaderErrors
  <2> QED BY <2>1, <2>2, <2>3 DEF BodyTypeOK
<1> QED BY <1>1, <1>2 DEF AcceptedIsWhole

(* A body that ends without an error has the declared length and is within   *)
(* the limit; and where the digest of a header or the closing frame of the   *)
(* chunkReader was checked, it is what was sent, whatever was lost, altered  *)
(* or exchanged on the way (verifyReader, verifyChunk, readTrailers).        *)
THEOREM AcceptedBodiesWhole == Spec => []AcceptedIsWhole
<1>1. Spec => []SomeBody
  BY InitSomeBody, NextSomeBody, PTL DEF Spec
<1> QED BY <1>1, SomeBodyWhole, PTL

LEMMA StandsStep ==
    ASSUME SomeBody, [Next]_vars, answer \notin {"unopened", "more"}
    PROVE  answer' = answer /\ got' = got
<1>1. PICK frames \in Framings : BodyInv(frames)
  BY DEF SomeBody
<1>2. answer \in {"eof"} \cup Errors /\ verr = IF answer \in Errors THEN answer ELSE "none"
  BY <1>1 DEF BodyInv, ReaderType, VerdictInv
<1>3. CASE UNCHANGED body
  BY <1>3 DEF body
<1>4. CASE Refuse
  BY <1>1, <1>4, Refuses DEF body
<1>5. CASE answer = "eof" /\ ~ req.framed /\ PlainRead
  <2>1. wire = <<>> /\ ends = "eof" /\ finish(got) = "eof" /\ got \in Seq(Token(frames))
    BY <1>1, <1>5 DEF BodyInv, VerdictInv, ReaderType
  <2>2. 1..Len(<<>>) = {}
    OBVIOUS
  <2>3. HandOn(<<>>, "eof")
    BY <1>5, <2>1, <2>2 DEF PlainRead
  <2>4. got' = got
    BY <2>1, <2>3, ConcatEmptySeq DEF HandOn
  <2>5. answer' = "eof"
    BY <2>1, <2>3, <2>4 DEF HandOn
  <2> QED BY <1>5, <2>4, <2>5
<1>6. CASE answer = "eof" /\ req.framed /\ ChunkRead
  <2>1. verr = "none"
    BY <1>2, <1>6 DEF Errors
  <2>2. ~ Active
    BY <1>1, <1>6 DEF BodyInv, VerdictInv, Active
  <2>3. ReadAgain
    BY <1>6, <2>2 DEF ChunkRead, BadSizeLine, ClosingFrame, StopInFrame, ReadFrame, HasFrame
  <2>4. UNCHANGED body
    BY <1>1, <1>6, <2>1, <2>3, ReadsAgain
  <2> QED BY <2>4 DEF body
<1>7. verr # "none" => answer # "eof"
  BY <1>2 DEF Errors
<1>8. verr = "none" => answer = "eof"
  BY <1>2 DEF Errors
<1>9. ~ openBody
  BY DEF openBody
<1> QED BY <1>3, <1>4, <1>5, <1>6, <1>8, <1>9, StepsOfBody DEF Read

(* Whoever reads on after the end of a body, or after an error, gets the     *)
(* same answer and no more data (verifyReader.Read, chunkReader.Read).       *)
THEOREM VerdictsStand == Spec => VerdictStands
<1>1. Spec => []SomeBody
  BY InitSomeBody, NextSomeBody, PTL DEF Spec
<1>2. SomeBody /\ [Next]_vars => [answer \notin {"unopened", "more"} => answer' = answer /\ got' = got]_body
  BY StandsStep
<1> QED BY <1>1, <1>2, PTL DEF Spec, VerdictStands

-------------------------------------------------------------------------------
(* Where the frames lie in the encoding and in the body, and what the network *)
(* has left of them.                                                         *)
Off(frames, k) == Len(FlattenSeq(SubSeq([i \in 1..Len(frames) |-> FrameOf(frames, i)], 1, k)))
Pos(frames, k) == Len(FlattenSeq(SubSeq(frames, 1, k)))

LEMMA FlattenParts ==
    ASSUME NEW T, NEW s \in Seq(Seq(T)), NEW k \in 0..Len(s)
    PROVE  LET F(j) == FlattenSeq(SubSeq(s, 1, j)) IN
           /\ F(k) \in Seq(T) /\ F(0) = <<>> /\ F(Len(s)) = FlattenSeq(s)
           /\ k < Len(s) => F(k + 1) = F(k) \o s[k + 1]
           /\ Len(F(k)) <= Len(FlattenSeq(s))
           /\ \A i \in 1..Len(F(k)) : FlattenSeq(s)[i] = F(k)[i]
<1> DEFINE N == Len(s)
           P(j) == SubSeq(s, 1, j)
           F(j) == FlattenSeq(P(j))
           W == FlattenSeq(s)
           U == Seq(T)
<1>1. N \in Nat /\ s \in Seq(U) /\ \A i \in 1..N : s[i] \in U
  OBVIOUS
<1>2. P(0) = <<>> /\ F(0) = <<>>
  <2>1. P(0) = <<>>
    BY SubSeqEmpty
  <2> QED BY <2>1 DEF FlattenSeq
<1>3. P(N) = s /\ F(N) = W
  <2> HIDE DEF U
  <2> QED BY <1>1, SubSeqFull
<1>4. ASSUME NEW j \in 0..N
      PROVE  /\ P(j) \in Seq(U) /\ F(j) \in Seq(T)
             /\ j < N => P(j + 1) = Append(P(j), s[j + 1])
  <2>1. j \in Int /\ j <= N
    BY <1>1
  <2>2. P(j) \in Seq(U) /\ Len(P(j)) = j /\ \A i \in 1..j : P(j)[i] = s[i]
    <3> HIDE DEF U
    <3> QED BY <1>1, <2>1, Part
  <2>3. F(j) \in Seq(T)
    <3> HIDE DEF P
    <3> QED BY <2>2, FlattenType
  <2>4. ASSUME j < N PROVE P(j + 1) = Append(P(j), s[j + 1])
    <3>1. 1 \in 1..N /\ j + 1 \in 1..N /\ j + 1 - 1 = j
      BY <1>1, <2>1, <2>4
    <3>2. P(j + 1) = P(j) \o <<s[j + 1]>>
      <4> HIDE DEF U
      <4> QED BY <1>1, <3>1, SubSeqRecursiveSecond
    <3>3. s[j + 1] \in U
      BY <1>1, <3>1
    <3> HIDE DEF P, U
    <3> QED BY <2>2, <3>2, <3>3, AppendIsConcat
  <2> QED BY <2>2, <2>3, <2>4
<1> HIDE DEF P
<1>5. ASSUME NEW j \in 0..N, j < N PROVE F(j + 1) = F(j) \o s[j + 1]
  <2>1. s[j + 1] \in Seq(T)
    BY <1>1, <1>5
  <2> QED BY <1>4, <1>5, <2>1, FlattenMore
<1> DEFINE Odd == {d \in 0..N : ~ (Len(F(N - d)) <= Len(W) /\ \A i \in 1..Len(F(N - d)) : W[i] = F(N - d)[i])}
<1>6. ASSUME Odd # {} PROVE FALSE
  <2>1. PICK d \in Odd : d - 1 \notin Odd
    <3>1. Odd \in SUBSET Nat
      BY <1>1
    <3> HIDE DEF Odd
    <3> QED BY <1>6, <3>1, LeastOf
  <2>2. W \in Seq(T) /\ Len(W) \in Nat
    BY FlattenType, LenProperties
  <2>3. d # 0
    <3> SUFFICES ASSUME d = 0 PROVE FALSE
      OBVIOUS
    <3>1. F(N - d) = W
      BY <1>1, <1>3
    <3>2. Len(F(N - d)) <= Len(W) /\ \A i \in 1..Len(F(N - d)) : W[i] = F(N - d)[i]
      <4> HIDE DEF F, W
      <4> QED BY <2>2, <3>1
    <3> QED BY <2>1, <3>2
  <2> DEFINE j == N - d
  <2>4. j \in 0..N /\ j < N /\ N - (d - 1) = j + 1 /\ d - 1 \in 0..N /\ j + 1 \in 0..N
    BY <1>1, <2>1, <2>3
  <2>5. Len(F(j + 1)) <= Len(W) /\ \A i \in 1..Len(F(j + 1)) : W[i] = F(j + 1)[i]
    BY <2>1, <2>4
  <2>6. F(j + 1) = F(j) \o s[j + 1] /\ F(j) \in Seq(T) /\ s[j + 1] \in Seq(T)
    <3>1. j + 1 \in 1..N
      BY <1>1, <2>4
    <3> HIDE DEF F, j
    <3> QED BY <1>1, <1>4, <1>5, <2>4, <3>1 DEF F
  <2>7. Len(F(j)) <= Len(W) /\ \A i \in 1..Len(F(j)) : W[i] = F(j)[i]
    <3> DEFINE a == F(j)
               b == s[j + 1]
               v == F(j + 1)
    <3>1. a \in Seq(T) /\ b \in Seq(T) /\ v = a \o b /\ Len(v) <= Len(W) /\ \A i \in 1..Len(v) : W[i] = v[i]
      BY <2>5, <2>6
    <3> HIDE DEF a, b, v, W
    <3>2. /\ Len(v) = Len(a) + Len(b) /\ Len(a) \in Nat /\ Len(b) \in Nat
          /\ \A i \in 1..Len(a) : v[i] = a[i]
      BY <3>1
    <3>3. Len(a) <= Len(W) /\ \A i \in 1..Len(a) : i \in 1..Len(v)
      BY <2>2, <3>1, <3>2
    <3>4. \A i \in 1..Len(a) : W[i] = a[i]
      BY <3>1, <3>2, <3>3
    <3> QED BY <3>3, <3>4 DEF a
  <2>8. ~ (Len(F(j)) <= Len(W) /\ \A i \in 1..Len(F(j)) : W[i] = F(j)[i])
    BY <2>1
  <2> QED BY <2>7, <2>8
<1>7. N - k \in 0..N /\ N - (N - k) = k
  BY <1>1
<1>8. Len(F(k)) <= Len(W) /\ \A i \in 1..Len(F(k)) : W[i] = F(k)[i]
  <2>1. N - k \notin Odd
    <3> HIDE DEF Odd
    <3> QED BY <1>6
  <2> HIDE DEF F, W, N
  <2> QED BY <1>7, <2>1
<1>9. F(k) \in Seq(T) /\ (k < N => F(k + 1) = F(k) \o s[k + 1])
  <2> HIDE DEF F
  <2> QED BY <1>4, <1>5 DEF F
<1> QED BY <1>2, <1>3, <1>8, <1>9 DEF P

LEMMA FlattenAt ==
    ASSUME NEW T, NEW s \in Seq(Seq(T)), NEW k \in 0..Len(s), k < Len(s)
    PROVE  LET L(j) == Len(FlattenSeq(SubSeq(s, 1, j))) IN
           /\ L(k) \in Nat /\ L(k + 1) = L(k) + Len(s[k + 1]) /\ L(k + 1) <= Len(FlattenSeq(s))
           /\ \A j \in 1..Len(s[k + 1]) : FlattenSeq(s)[L(k) + j] = s[k + 1][j]
<1> DEFINE a == FlattenSeq(SubSeq(s, 1, k))
           v == FlattenSeq(SubSeq(s, 1, k + 1))
           b == s[k + 1]
           W == FlattenSeq(s)
<1>1. k + 1 \in 0..Len(s) /\ k + 1 \in 1..Len(s)
  OBVIOUS
<1>2. a \in Seq(T) /\ v = a \o b /\ b \in Seq(T)
  <2>1. b \in Seq(T)
    BY <1>1
  <2>2. FlattenSeq(SubSeq(s, 1, k)) \in Seq(T)
    BY FlattenParts
  <2>3. FlattenSeq(SubSeq(s, 1, k + 1)) = FlattenSeq(SubSeq(s, 1, k)) \o s[k + 1]
    BY FlattenParts
  <2> QED BY <2>1, <2>2, <2>3
<1>3. Len(v) <= Len(W) /\ \A i \in 1..Len(v) : W[i] = v[i]
  BY <1>1, FlattenParts
<1> HIDE DEF a, b, v, W
<1>4. /\ Len(a) \in Nat /\ Len(b) \in Nat /\ Len(v) = Len(a) + Len(b)
      /\ \A j \in 1..Len(b) : v[Len(a) + j] = b[j] /\ Len(a) + j \in 1..Len(v)
  BY <1>2
<1>5. \A j \in 1..Len(b) : W[Len(a) + j] = b[j]
  BY <1>3, <1>4
<1> QED BY <1>3, <1>4, <1>5 DEF a, b, v, W

LEMMA PosFacts ==
    ASSUME NEW frames \in Framings, NEW k \in 0..Len(frames)
    PROVE  /\ Pos(frames, k) \in Nat /\ Pos(frames, 0) = 0
           /\ Pos(frames, Len(frames)) = Len(BodyOf(frames))
           /\ k < Len(frames) =>
                /\ Pos(frames, k + 1) = Pos(frames, k) + Len(frames[k + 1])
                /\ Pos(frames, k + 1) <= Len(BodyOf(frames))
                /\ \A j \in 1..Len(frames[k + 1]) :
                      BodyOf(frames)[Pos(frames, k) + j] = Data(frames[k + 1][j])
<1> DEFINE W == FlattenSeq(frames)
<1>1. frames \in Seq(Seq(Datum)) /\ W \in Seq(Datum) /\ Len(BodyOf(frames)) = Len(W) /\ Len(W) \in Nat
  BY FrameFacts, BodyFacts
<1>2. Pos(frames, k) \in Nat /\ Pos(frames, 0) = 0 /\ Pos(frames, Len(frames)) = Len(BodyOf(frames))
  <2>1. /\ FlattenSeq(SubSeq(frames, 1, k)) \in Seq(Datum) /\ FlattenSeq(SubSeq(frames, 1, 0)) = <<>>
        /\ FlattenSeq(SubSeq(frames, 1, Len(frames))) = W
    BY <1>1, FlattenParts
  <2> HIDE DEF W
  <2> QED BY <1>1, <2>1, LenProperties DEF Pos
<1>3. ASSUME k < Len(frames)
      PROVE  /\ Pos(frames, k + 1) = Pos(frames, k) + Len(frames[k + 1])
             /\ Pos(frames, k + 1) <= Len(BodyOf(frames))
             /\ \A j \in 1..Len(frames[k + 1]) :
                   BodyOf(frames)[Pos(frames, k) + j] = Data(frames[k + 1][j])
  <2>1. /\ Pos(frames, k + 1) = Pos(frames, k) + Len(frames[k + 1]) /\ Pos(frames, k + 1) <= Len(W)
        /\ \A j \in 1..Len(frames[k + 1]) : W[Pos(frames, k) + j] = frames[k + 1][j]
    BY <1>1, <1>3, FlattenAt DEF Pos
  <2>2. \A i \in 1..Len(W) : BodyOf(frames)[i] = Data(W[i])
    BY <1>1 DEF BodyOf, DataOf
  <2>3. k + 1 \in 1..Len(frames) /\ Len(frames[k + 1]) \in Nat
    BY <1>3, FrameFacts
  <2>4. \A j \in 1..Len(frames[k + 1]) : Pos(frames, k) + j \in 1..Len(W)
    <3> DEFINE P == Pos(frames, k)
               n == Len(frames[k + 1])
    <3>1. P \in Nat /\ n \in Nat /\ Len(W) \in Nat /\ P + n <= Len(W)
      BY <1>1, <1>2, <2>1, <2>3
    <3> HIDE DEF P, n, W
    <3>2. \A j \in 1..n : P + j \in 1..Len(W)
      BY <3>1
    <3> QED BY <3>2 DEF P, n
  <2> HIDE DEF W
  <2> QED BY <1>1, <2>1, <2>2, <2>4
<1> QED BY <1>2, <1>3

(* A frame of n units takes n + 2 places. *)
LEMMA FramePlaces ==
    ASSUME NEW frames \in Framings, NEW i \in 1..Len(frames)
    PROVE  /\ Len(FrameOf(frames, i)) = Len(frames[i]) + 2
           /\ FrameOf(frames, i)[1] = Size(Len(frames[i]), Signature(SubSeq(frames, 1, i)))
           /\ \A j \in 1..Len(frames[i]) : FrameOf(frames, i)[j + 1] = Data(frames[i][j])
           /\ FrameOf(frames, i)[Len(frames[i]) + 2] = CRLF
<1> DEFINE a == Size(Len(frames[i]), Signature(SubSeq(frames, 1, i)))
           d == DataOf(frames[i])
           n == Len(frames[i])
<1>1. d \in Content /\ Len(d) = n /\ n \in Nat \ {0} /\ FrameOf(frames, i) = <<a>> \o d \o <<CRLF>>
  BY FrameFacts DEF FrameOf
<1>2. \A j \in 1..n : d[j] = Data(frames[i][j])
  BY DEF DataOf
<1> HIDE DEF a, d, n
<1>3. \A x, y : LET v == <<x>> \o d \o <<y>> IN
        Len(v) = n + 2 /\ v[1] = x /\ v[n + 2] = y /\ \A j \in 1..n : v[j + 1] = d[j]
  BY <1>1 DEF Content
<1> QED BY <1>1, <1>2, <1>3 DEF a, n

LEMMA OffFacts ==
    ASSUME NEW frames \in Framings, NEW trailers \in BOOLEAN, NEW k \in 0..Len(frames)
    PROVE  LET E == Encoding(frames, InOrder(frames), trailers)
               N == Len(frames) IN
           /\ Off(frames, k) \in Nat /\ Off(frames, 0) = 0 /\ E \in Seq(Own(frames))
           /\ Len(E) = Off(frames, N) + 1 + (IF trailers THEN 1 ELSE 0)
           /\ E[Off(frames, N) + 1] = Closing(frames)
           /\ trailers => E[Off(frames, N) + 2] = TrailersOf(frames)
           /\ k < N =>
                LET n == Len(frames[k + 1]) IN
                /\ Off(frames, k + 1) = Off(frames, k) + n + 2
                /\ Off(frames, k + 1) < Len(E)
                /\ E[Off(frames, k) + 1] = Size(n, Signature(SubSeq(frames, 1, k + 1)))
                /\ \A j \in 1..n : E[Off(frames, k) + 1 + j] = Data(frames[k + 1][j])
                /\ E[Off(frames, k + 1)] = CRLF
<1> DEFINE N == Len(frames)
           o == InOrder(frames)
           s == [i \in 1..N |-> FrameOf(frames, i)]
           f == FlattenSeq(s)
           O == Own(frames)
           E == Encoding(frames, o, trailers)
           a == Closing(frames)
           b == TrailersOf(frames)
<1>1. N \in Nat /\ s \in Seq(Seq(O)) /\ Len(s) = N /\ \A i \in 1..N : s[i] = FrameOf(frames, i)
  <2>1. N \in Nat
    BY FrameFacts
  <2>2. \A i \in 1..N : FrameOf(frames, i) \in Seq(O)
    BY FrameType
  <2> HIDE DEF N, O
  <2> QED BY <2>1, <2>2, IsASeq
<1>2. Framed(frames, o) = f
  <2>1. Len(o) = N /\ \A i \in 1..N : o[i] = i
    BY <1>1 DEF InOrder
  <2>2. [i \in 1..Len(o) |-> FrameOf(frames, o[i])] = s
    BY <2>1
  <2> QED BY <2>2 DEF Framed
<1>3. E = f \o <<a>> \o (IF trailers THEN <<b>> ELSE <<>>)
  BY <1>2, EncodingIs
<1>4. f \in Seq(O) /\ a \in O /\ b \in O
  <2> HIDE DEF s, O
  <2> QED BY <1>1, FlattenType, EndingType DEF O
<1> HIDE DEF s, o, O, N, E, a, b
<1>5. Off(frames, N) = Len(f) /\ Off(frames, 0) = 0 /\ Off(frames, k) \in Nat
  <2>1. FlattenSeq(SubSeq(s, 1, N)) = f /\ FlattenSeq(SubSeq(s, 1, 0)) = <<>> /\ FlattenSeq(SubSeq(s, 1, k)) \in Seq(O)
    BY <1>1, FlattenParts DEF N
  <2> HIDE DEF f
  <2> QED BY <2>1, LenProperties DEF Off, s, N
<1> DEFINE m == Off(frames, N)
<1>6. /\ E \in Seq(O) /\ Len(E) = m + 1 + (IF trailers THEN 1 ELSE 0) /\ m \in Nat
      /\ E[m + 1] = a /\ (trailers => E[m + 2] = b)
      /\ \A i \in 1..m : E[i] = f[i]
  <2> HIDE DEF f, m
  <2>1. m = Len(f)
    BY <1>5 DEF m
  <2> QED BY <1>3, <1>4, <2>1
<1>7. ASSUME k < N
      PROVE  LET n == Len(frames[k + 1]) IN
                /\ Off(frames, k + 1) = Off(frames, k) + n + 2
                /\ Off(frames, k + 1) < Len(E)
                /\ E[Off(frames, k) + 1] = Size(n, Signature(SubSeq(frames, 1, k + 1)))
                /\ \A j \in 1..n : E[Off(frames, k) + 1 + j] = Data(frames[k + 1][j])
                /\ E[Off(frames, k + 1)] = CRLF
  <2> DEFINE n == Len(frames[k + 1])
             v == FrameOf(frames, k + 1)
             p == Off(frames, k)
             q == Off(frames, k + 1)
  <2>1. k + 1 \in 1..N
    BY <1>1, <1>7
  <2>2. s[k + 1] = v /\ n \in Nat \ {0}
    BY <1>1, <2>1, FrameFacts DEF N
  <2>3. /\ Len(v) = n + 2 /\ v[1] = Size(n, Signature(SubSeq(frames, 1, k + 1)))
        /\ \A j \in 1..n : v[j + 1] = Data(frames[k + 1][j])
        /\ v[n + 2] = CRLF
    BY <2>1, FramePlaces DEF N
  <2>4. q = p + Len(v) /\ q <= Len(f) /\ \A j \in 1..Len(v) : f[p + j] = v[j]
    <3>1. k \in 0..Len(s) /\ k < Len(s)
      BY <1>1, <1>7 DEF N
    <3>2. LET L(j) == Len(FlattenSeq(SubSeq(s, 1, j))) IN
           /\ L(k + 1) = L(k) + Len(s[k + 1]) /\ L(k + 1) <= Len(FlattenSeq(s))
           /\ \A j \in 1..Len(s[k + 1]) : FlattenSeq(s)[L(k) + j] = s[k + 1][j]
      BY <1>1, <3>1, FlattenAt
    <3>3. p = Len(FlattenSeq(SubSeq(s, 1, k))) /\ q = Len(FlattenSeq(SubSeq(s, 1, k + 1)))
      BY DEF Off, s, N
    <3> HIDE DEF p, q, v
    <3> QED BY <2>2, <3>2, <3>3
  <2> HIDE DEF n, v, p, q, m, f
  <2>5. p \in Nat /\ m = Len(f)
    BY <1>5 DEF p, m
  <2>6. q = p + n + 2 /\ q < Len(E) /\ q <= m
    BY <1>6, <2>2, <2>3, <2>4, <2>5
  <2>7. \A j \in 1..(n + 2) : p + j \in 1..m /\ E[p + j] = v[j]
    BY <1>6, <2>2, <2>3, <2>4, <2>5, <2>6, SMTT(30)
  <2>8. E[p + 1] = v[1]
    BY <2>2, <2>7
  <2>9. E[q] = v[n + 2]
    <3>1. p + (n + 2) = q /\ n + 2 \in 1..(n + 2)
      BY <2>2, <2>5, <2>6
    <3> QED BY <2>7, <3>1
  <2>10. \A j \in 1..n : E[p + 1 + j] = v[j + 1]
    <3>1. TAKE j \in 1..n
    <3>2. j + 1 \in 1..(n + 2) /\ p + (j + 1) = p + 1 + j
      BY <2>2, <2>5
    <3> QED BY <2>7, <3>2
  <2>11. /\ v[1] = Size(n, Signature(SubSeq(frames, 1, k + 1)))
         /\ \A j \in 1..n : E[p + 1 + j] = Data(frames[k + 1][j])
    BY <2>3, <2>10 DEF n
  <2> QED BY <2>3, <2>6, <2>8, <2>9, <2>11 DEF n, p, q
<1> QED BY <1>5, <1>6, <1>7 DEF E, N, O, a, b, o, m


(* Where the reader is, in a body that was cut or arrives as it was sent:    *)
(* w is what follows the first p tokens of what was sent, and g are the      *)
(* first q units of the body.                                                *)
Follows(frames, w, p) ==
    /\ how = "whole" => ends = "eof" /\ p + Len(w) = Len(Sent(frames))
    /\ how = "cut" => p + Len(w) < Len(Sent(frames)) /\ (req.framed \/ ends = "lost")
    /\ \A i \in 1..Len(w) : w[i] = Sent(frames)[p + i]

Begins(frames, g, q) ==
    /\ Len(g) = q /\ q <= Len(BodyOf(frames))
    /\ \A i \in 1..q : g[i] = BodyOf(frames)[i]

BetweenFrames(frames, k) ==
    /\ c.left = 0
    /\ Follows(frames, wire, Off(frames, k)) /\ Begins(frames, got, Pos(frames, k))
    /\ req.signed => c.prev = Signature(SubSeq(frames, 1, k))

(* In the frame k + 1, of which f has read n - f.left units. *)
WithinFrame(frames, k, f, w) ==
    LET n == Len(frames[k + 1]) IN
    /\ f.left \in 1..n
    /\ Follows(frames, w, Off(frames, k) + 1 + (n - f.left))
    /\ Begins(frames, got, Pos(frames, k) + (n - f.left))
    /\ Len(f.sum) = n - f.left /\ \A i \in 1..Len(f.sum) : f.sum[i] = Data(frames[k + 1][i])
    /\ f.sig = Signature(SubSeq(frames, 1, k + 1))
    /\ req.signed => f.prev = Signature(SubSeq(frames, 1, k))

PlaceInv(frames) ==
    how # "damaged" =>
        /\ req.framed /\ Active => \/ \E k \in 0..Len(frames) : BetweenFrames(frames, k)
                                   \/ \E k \in 0..Len(frames) - 1 : WithinFrame(frames, k, c, wire)
        /\ ~ req.framed => Follows(frames, wire, Len(got)) /\ Begins(frames, got, Len(got))

JudgeInv(frames) ==
    BodyInv(frames) /\ PlaceInv(frames) /\ CutIsNoticed /\ RefusedForCause

Judged == \E frames \in Framings : JudgeInv(frames)

(* A body that is not to be refused. *)
Fair(frames) ==
    /\ how = "whole" /\ req.fits
    /\ req.declared = Len(BodyOf(frames)) \/ (~ req.framed /\ req.declared < 0)
    /\ req.max > 0 => Len(BodyOf(frames)) <= req.max

LEMMA SentFacts ==
    ASSUME NEW frames \in Framings, RequestInv(frames)
    PROVE  /\ Sent(frames) \in Seq(Own(frames)) /\ Len(Sent(frames)) \in Nat
           /\ ~ req.framed => Sent(frames) = BodyOf(frames)
           /\ req.framed => Sent(frames) = Encoding(frames, InOrder(frames), req.trailers)
<1>1. BodyOf(frames) \in Seq(Own(frames))
  <2>1. BodyOf(frames) \in Seq(Unit)
    BY BodyFacts DEF Content
  <2>2. Unit \subseteq Own(frames)
    BY DEF Own
  <2> QED BY <2>1, <2>2, SeqMonotonic
<1>2. Encoding(frames, InOrder(frames), req.trailers) \in Seq(Own(frames))
  BY OrdersType, EncodingType
<1>3. Sent(frames) \in Seq(Own(frames))
  BY <1>1, <1>2 DEF Sent
<1>4. Len(Sent(frames)) \in Nat
  <2> DEFINE v == Sent(frames)
             O == Own(frames)
  <2>1. v \in Seq(O)
    BY <1>3
  <2> HIDE DEF v, O
  <2>2. Len(v) \in Nat
    BY <2>1, LenProperties
  <2> QED BY <2>2 DEF v
<1> QED BY <1>3, <1>4 DEF Sent

(* Reading on. *)
LEMMA FollowsOn ==
    ASSUME NEW frames \in Framings, RequestInv(frames), NEW T, NEW w \in Seq(T), NEW p \in Nat,
           Follows(frames, w, p), NEW n \in 0..Len(w)
    PROVE  /\ Follows(frames, SubSeq(w, n + 1, Len(w)), p + n)
           /\ w # <<>> => Follows(frames, Tail(w), p + 1) /\ Head(w) = Sent(frames)[p + 1]
<1> DEFINE s == Sent(frames)
<1>1. Len(s) \in Nat /\ Len(w) \in Nat
  BY SentFacts, LenProperties
<1> HIDE DEF s
<1>2. ASSUME NEW m \in 0..Len(w), NEW v, v \in Seq(T), Len(v) = Len(w) - m,
             \A i \in 1..Len(v) : v[i] = w[m + i]
      PROVE  Follows(frames, v, p + m)
  <2>1. p + m + Len(v) = p + Len(w)
    BY <1>1, <1>2
  <2>2. ASSUME NEW i \in 1..Len(v) PROVE v[i] = s[p + m + i]
    <3>1. m + i \in 1..Len(w) /\ p + (m + i) = p + m + i
      BY <1>1, <1>2
    <3> QED BY <1>2, <3>1 DEF Follows, s
  <2> QED BY <1>1, <2>1, <2>2 DEF Follows, s
<1>3. Follows(frames, SubSeq(w, n + 1, Len(w)), p + n)
  <2> DEFINE v == SubSeq(w, n + 1, Len(w))
  <2>1. n + 1 \in Nat \ {0} /\ Len(w) \in Int /\ Len(w) <= Len(w)
    BY <1>1
  <2>2. v \in Seq(T) /\ Len(v) = Len(w) - n /\ \A i \in 1..Len(v) : v[i] = w[n + i]
    <3>1. \A i \in 1..Len(w) - (n + 1) + 1 : n + 1 + i - 1 = n + i
      BY <1>1
    <3> QED BY <2>1, <3>1, <1>1, Part
  <2> HIDE DEF v
  <2> QED BY <1>2, <2>2 DEF v
<1>4. ASSUME w # <<>> PROVE Follows(frames, Tail(w), p + 1) /\ Head(w) = Sent(frames)[p + 1]
  <2>1. /\ Tail(w) \in Seq(T) /\ Len(Tail(w)) = Len(w) - 1 /\ Head(w) = w[1]
        /\ \A i \in 1..Len(Tail(w)) : Tail(w)[i] = w[i + 1]
    BY <1>4, HeadTailProperties
  <2>2. 1 \in 0..Len(w) /\ 1 \in 1..Len(w)
    BY <1>1, <1>4, EmptySeq
  <2>3. \A i \in 1..Len(Tail(w)) : Tail(w)[i] = w[1 + i]
    BY <1>1, <2>1
  <2> QED BY <1>2, <2>1, <2>2, <2>3, ZenonT(60) DEF Follows
<1> QED BY <1>3, <1>4

LEMMA BeginsOn ==
    ASSUME NEW frames \in Framings, NEW T, NEW g \in Seq(T), NEW q, Begins(frames, g, q),
           NEW d \in Seq(T), q + Len(d) <= Len(BodyOf(frames)),
           \A j \in 1..Len(d) : d[j] = BodyOf(frames)[q + j]
    PROVE  Begins(frames, g \o d, q + Len(d))
<1> DEFINE b == BodyOf(frames)
<1>1. Len(b) \in Nat /\ q = Len(g) /\ Len(g) \in Nat /\ Len(d) \in Nat
  BY BodyFacts, LenProperties DEF Begins
<1> HIDE DEF b
<1>2. /\ Len(g \o d) = q + Len(d)
      /\ \A i \in 1..q + Len(d) : (g \o d)[i] = IF i <= q THEN g[i] ELSE d[i - q]
  BY <1>1, ConcatProperties
<1>3. ASSUME NEW i \in 1..q + Len(d) PROVE (g \o d)[i] = b[i]
  <2>1. CASE i <= q
    BY <1>1, <1>2, <2>1 DEF Begins, b
  <2>2. CASE ~ (i <= q)
    <3>1. i - q \in 1..Len(d) /\ q + (i - q) = i
      BY <1>1, <2>2
    <3> QED BY <1>2, <2>2, <3>1 DEF b
  <2> QED BY <2>1, <2>2
<1> QED BY <1>2, <1>3 DEF Begins, b

(* A beginning of the body as long as the body is the body. *)
LEMMA BeginsWhole ==
    ASSUME NEW frames \in Framings, NEW T, NEW g \in Seq(T), Begins(frames, g, Len(BodyOf(frames)))
    PROVE  g = BodyOf(frames)
<1> DEFINE b == BodyOf(frames)
<1>1. b \in Seq(Unit) /\ Len(b) \in Nat
  BY BodyFacts DEF Content
<1> HIDE DEF b
<1>2. Len(g) = Len(b) /\ \A i \in 1..Len(b) : g[i] = b[i]
  BY DEF Begins, b
<1>3. g \in Seq(T \cup Unit) /\ b \in Seq(T \cup Unit)
  <2>1. T \subseteq T \cup Unit /\ Unit \subseteq T \cup Unit
    OBVIOUS
  <2> QED BY <1>1, <2>1, SeqMonotonic
<1> QED BY <1>2, <1>3, SeqEqual DEF b

LEMMA Unrefused ==
    ASSUME NEW frames \in Framings, RequestInv(frames), Fair(frames), NEW T, got \in Seq(T),
           NEW data \in Seq(T), NEW e \in {"more", "eof"}, HandOn(data, e),
           Begins(frames, got', Len(got')), e = "eof" => got' = BodyOf(frames)
    PROVE  answer' \notin Errors
<1>1. /\ req.max \in Nat /\ req.declared \in Int /\ req.body = BodyOf(frames)
      /\ Len(BodyOf(frames)) \in Nat /\ {"more", "eof"} \cap Errors = {}
  BY BodyFacts DEF RequestInv, Errors
<1>2. e \in {"more", "eof"} \cup Errors
  OBVIOUS
<1>3. /\ Len(got') \in Nat
      /\ answer' \in Errors => \/ answer' = e
                               \/ req.max > 0 /\ Len(got') > req.max
                               \/ e = "eof" /\ finish(got') = answer'
  <2>1. got' \in Seq(T)
    BY <1>1, <1>2, HandOnFacts
  <2>2. Len(got') \in Nat
    BY <2>1, LenProperties
  <2> QED BY <1>1, <1>2, <2>2, HandOnFacts
<1>4. ~ (req.max > 0 /\ Len(got') > req.max)
  <2>1. Len(got') <= Len(BodyOf(frames))
    BY DEF Begins
  <2> QED BY <1>1, <1>3, <2>1 DEF Fair
<1>5. e = "eof" => finish(got') = "eof"
  BY <1>1 DEF finish, Fair
<1> QED BY <1>1, <1>3, <1>4, <1>5

LEMMA Excused ==
    ASSUME NEW frames \in Framings, RequestInv(frames), UNCHANGED <<req, how>>,
           Fair(frames) => answer' \notin Errors
    PROVE  RefusedForCause'
<1>1. req.max \in Nat /\ req.declared \in Int /\ req.body = BodyOf(frames) /\ Len(BodyOf(frames)) \in Nat
  BY BodyFacts DEF RequestInv
<1>2. req' = req /\ how' = how
  OBVIOUS
<1>3. ~ Fair(frames) =>
        \/ how # "whole" \/ ~ req.fits
        \/ req.declared # Len(req.body) /\ (req.framed \/ req.declared >= 0)
        \/ req.max > 0 /\ Len(req.body) > req.max
  BY <1>1 DEF Fair
<1> QED BY <1>2, <1>3 DEF RefusedForCause

LEMMA FollowsStill ==
    ASSUME NEW frames, UNCHANGED <<req, ends, how>>, NEW p, Follows(frames, wire', p)
    PROVE  Follows(frames, wire, p)'
<1>1. Sent(frames)' = Sent(frames)
  BY DEF Sent
<1> QED BY <1>1 DEF Follows

(* What is to be shown of a step of the reader. *)
Judges(frames) ==
    /\ PlaceInv(frames)'
    /\ CutIsNoticed'
    /\ Fair(frames) => answer' \notin Errors

LEMMA PlacesPlain ==
    ASSUME NEW frames \in Framings, JudgeInv(frames), verr = "none", answer # "unopened",
           ~ req.framed, PlainRead
    PROVE  Judges(frames)
<1> DEFINE T == Token(frames)
<1>1. /\ RequestInv(frames) /\ wire \in Seq(T) /\ got \in Seq(T) /\ ends \in {"eof", "lost"} /\ Len(got) \in Nat
      /\ Len(wire) \in Nat /\ req.max \in Nat /\ UNCHANGED <<req, ends, how, c>> /\ BodyInv(frames)
      /\ Len(BodyOf(frames)) \in Nat /\ Sent(frames) = BodyOf(frames)
  <2>1. RequestInv(frames) /\ wire \in Seq(T) /\ got \in Seq(T) /\ BodyInv(frames) /\ UNCHANGED <<req, ends, how, c>>
    BY DEF JudgeInv, BodyInv, ReaderType, PlainRead
  <2>2. ends \in {"eof", "lost"} /\ req.max \in Nat
    BY <2>1 DEF RequestInv
  <2> HIDE DEF T
  <2> QED BY <2>1, <2>2, LenProperties, BodyFacts, SentFacts
<1>2. BodyInv(frames)'
  BY <1>1, ReadsPlain
<1> SUFFICES ASSUME how # "damaged"
             PROVE  /\ Follows(frames, wire, Len(got))' /\ Begins(frames, got, Len(got))'
                    /\ CutIsNoticed' /\ (Fair(frames) => answer' \notin Errors)
  BY <1>1 DEF Judges, PlaceInv, CutIsNoticed, Fair
<1>3. Follows(frames, wire, Len(got)) /\ Begins(frames, got, Len(got))
  BY DEF JudgeInv, PlaceInv
<1>4. CutIsNoticed'
  <2>1. answer' = "eof" => ends = "eof"
    BY <1>1, <1>2 DEF BodyInv, VerdictInv
  <2>2. how = "cut" => ends = "lost"
    BY <1>3 DEF Follows
  <2> QED BY <1>1, <2>1, <2>2 DEF CutIsNoticed
<1>5. ASSUME NEW data \in Seq(T), NEW e \in {"more", "eof", "lost"}, HandOn(data, e),
             e # "more" => wire' = <<>> /\ e = ends,
             Follows(frames, wire', Len(got) + Len(data)), Begins(frames, got \o data, Len(got) + Len(data))
      PROVE  /\ Follows(frames, wire, Len(got))' /\ Begins(frames, got, Len(got))'
             /\ (Fair(frames) => answer' \notin Errors)
  <2>1. got' = got \o data /\ got' \in Seq(T) /\ Len(got') = Len(got) + Len(data)
    <3>1. e \in {"more", "eof"} \cup Errors
      BY DEF Errors
    <3> QED BY <1>1, <1>5, <3>1, HandOnFacts
  <2>2. Follows(frames, wire', Len(got')) /\ Begins(frames, got', Len(got'))
    BY <1>5, <2>1
  <2>3. Follows(frames, wire, Len(got))'
    BY <1>1, <2>2, FollowsStill
  <2>4. Begins(frames, got, Len(got))'
    BY <2>2 DEF Begins
  <2>5. ASSUME Fair(frames) PROVE answer' \notin Errors
    <3>1. e \in {"more", "eof"}
      BY <1>5, <2>2, <2>5 DEF Follows, Fair
    <3>2. ASSUME e = "eof" PROVE got' = BodyOf(frames)
      <4>1. wire' = <<>> /\ Len(wire') = 0
        BY <1>5, <3>2
      <4>2. Len(got') = Len(BodyOf(frames))
        <5>1. Len(got') \in Nat
          BY <2>1, LenProperties
        <5>2. Len(got') + 0 = Len(BodyOf(frames))
          BY <1>1, <2>2, <2>5, <4>1 DEF Follows, Fair
        <5> QED BY <5>1, <5>2
      <4>3. Begins(frames, got', Len(BodyOf(frames)))
        BY <2>2, <4>2
      <4> QED BY <2>1, <4>3, BeginsWhole
    <3> HIDE DEF T
    <3> QED BY <1>1, <1>5, <2>2, <2>5, <3>1, <3>2, Unrefused
  <2> QED BY <2>3, <2>4, <2>5
<1>6. CASE wire = <<>> /\ HandOn(<<>>, ends) /\ UNCHANGED wire
  <2>1. <<>> \in Seq(T) /\ got \o <<>> = got /\ Len(got) + Len(<<>>) = Len(got)
    BY <1>1, ConcatEmptySeq
  <2>2. Follows(frames, wire', Len(got) + Len(<<>>)) /\ Begins(frames, got \o <<>>, Len(got) + Len(<<>>))
    BY <1>3, <1>6, <2>1
  <2>3. ends \in {"more", "eof", "lost"}
    BY <1>1
  <2> QED BY <1>4, <1>5, <1>6, <2>1, <2>2, <2>3
<1>7. CASE \E n \in 1..Len(wire) :
            /\ wire' = SubSeq(wire, n + 1, Len(wire))
            /\ \E e \in {"more"} \cup IF n = Len(wire) THEN {ends} ELSE {} :
                  HandOn(SubSeq(wire, 1, n), e)
  <2>1. PICK n \in 1..Len(wire) :
            /\ wire' = SubSeq(wire, n + 1, Len(wire))
            /\ \E e \in {"more"} \cup IF n = Len(wire) THEN {ends} ELSE {} :
                  HandOn(SubSeq(wire, 1, n), e)
    BY <1>7
  <2>2. PICK e \in {"more"} \cup IF n = Len(wire) THEN {ends} ELSE {} : HandOn(SubSeq(wire, 1, n), e)
    BY <2>1
  <2> DEFINE d == SubSeq(wire, 1, n)
  <2>3. n \in Int /\ n <= Len(wire) /\ n \in 0..Len(wire) /\ n + 1 \in Nat \ {0} /\ Len(wire) \in Int /\ Len(wire) <= Len(wire)
    BY <1>1
  <2> HIDE DEF T
  <2>4. /\ d \in Seq(T) /\ Len(d) = n /\ \A i \in 1..n : d[i] = wire[i]
        /\ wire' \in Seq(T) /\ Len(wire') = Len(wire) - n
    BY <1>1, <2>1, <2>3, Part
  <2>5. e # "more" => wire' = <<>> /\ e = ends
    BY <2>2, <2>3, <2>4, EmptySeq
  <2>6. Follows(frames, wire', Len(got) + Len(d))
    BY <1>1, <1>3, <2>1, <2>3, <2>4, FollowsOn
  <2>7. Begins(frames, got \o d, Len(got) + Len(d))
    <3>1. \A j \in 1..Len(d) : d[j] = BodyOf(frames)[Len(got) + j]
      BY <1>1, <1>3, <2>4, <2>3 DEF Follows
    <3>2. Len(got) + Len(d) <= Len(BodyOf(frames))
      <4>1. how \in {"whole", "cut"}
        BY <1>1 DEF RequestInv
      <4>2. Len(got) + Len(wire) <= Len(BodyOf(frames))
        BY <1>1, <1>3, <4>1 DEF Follows
      <4> QED BY <1>1, <2>3, <2>4, <4>2
    <3> HIDE DEF d
    <3> QED BY <1>1, <1>3, <2>4, <3>1, <3>2, BeginsOn
  <2>8. e \in {"more", "eof", "lost"}
    BY <1>1
  <2> QED BY <1>4, <1>5, <2>2, <2>4, <2>5, <2>6, <2>7, <2>8 DEF T
<1> QED BY <1>6, <1>7 DEF PlainRead

(* The next token, between frames: the size line of the next frame, or the   *)
(* closing one.                                                              *)
LEMMA NextLine ==
    ASSUME NEW frames \in Framings, JudgeInv(frames), req.framed, how # "damaged",
           Active, c.left = 0
    PROVE  \E k \in 0..Len(frames) :
              /\ BetweenFrames(frames, k)
              /\ how = "whole" => wire # <<>>
              /\ wire # <<>> /\ k = Len(frames) => Head(wire) = Closing(frames)
              /\ wire # <<>> /\ k < Len(frames) =>
                    /\ k + 1 \in 1..Len(frames)
                    /\ Head(wire) = Size(Len(frames[k + 1]), Signature(SubSeq(frames, 1, k + 1)))
<1> DEFINE T == Token(frames)
<1>1. RequestInv(frames) /\ wire \in Seq(T) /\ c.left = 0 /\ req.trailers \in BOOLEAN
  BY DEF JudgeInv, BodyInv, ReaderType, RequestInv
<1>2. PICK k \in 0..Len(frames) : BetweenFrames(frames, k)
  <2>1. ASSUME NEW k \in 0..Len(frames) - 1 PROVE ~ WithinFrame(frames, k, c, wire)
    BY <1>1 DEF WithinFrame
  <2> QED BY <1>1, <2>1 DEF JudgeInv, PlaceInv
<1>3. Follows(frames, wire, Off(frames, k)) /\ Len(frames) \in Nat /\ Len(frames) \in 0..Len(frames)
  BY <1>2, FrameFacts DEF BetweenFrames
<1>4. /\ Off(frames, k) \in Nat
      /\ Len(Sent(frames)) = Off(frames, Len(frames)) + 1 + (IF req.trailers THEN 1 ELSE 0)
      /\ Sent(frames)[Off(frames, Len(frames)) + 1] = Closing(frames)
      /\ k < Len(frames) =>
            /\ Sent(frames)[Off(frames, k) + 1] = Size(Len(frames[k + 1]), Signature(SubSeq(frames, 1, k + 1)))
            /\ Off(frames, k + 1) = Off(frames, k) + Len(frames[k + 1]) + 2
            /\ Off(frames, k + 1) < Len(Sent(frames))
  <2>1. Sent(frames) = Encoding(frames, InOrder(frames), req.trailers)
    BY <1>1, SentFacts
  <2> QED BY <1>1, <2>1, OffFacts, SMTT(30)
<1>5. wire # <<>> => Head(wire) = Sent(frames)[Off(frames, k) + 1]
  <2>1. 0 \in 0..Len(wire)
    <3> HIDE DEF T
    <3> QED BY <1>1, LenProperties
  <2> QED BY <1>1, <1>3, <1>4, <2>1, FollowsOn
<1>6. ASSUME how = "whole" PROVE wire # <<>>
  <2> SUFFICES ASSUME wire = <<>> PROVE FALSE
    OBVIOUS
  <2>1. Off(frames, k) + 0 = Len(Sent(frames))
    BY <1>3, <1>6 DEF Follows
  <2>2. CASE k = Len(frames)
    BY <1>4, <2>1, <2>2
  <2>3. CASE k < Len(frames)
    <3>1. Len(frames[k + 1]) \in Nat
      BY <1>3, <2>3, FrameFacts
    <3> QED BY <1>4, <2>1, <2>3, <3>1
  <2> QED BY <1>3, <2>2, <2>3
<1>7. k < Len(frames) => k + 1 \in 1..Len(frames)
  BY <1>3
<1> QED BY <1>2, <1>4, <1>5, <1>6, <1>7

LEMMA PlacesLine ==
    ASSUME NEW frames \in Framings, JudgeInv(frames), verr = "none", answer # "unopened",
           req.framed, BadSizeLine
    PROVE  Judges(frames)
<1> DEFINE T == Token(frames)
<1>1. /\ RequestInv(frames) /\ got \in Seq(T) /\ req.max \in Nat /\ <<>> \in Seq(T) /\ Active /\ c.left = 0
      /\ UNCHANGED <<req, wire, ends, how>> /\ HandOn(<<>>, "format") /\ c' = [c EXCEPT !.err = "format"]
      /\ c \in ChunkType(frames) /\ ~ SizeLine
  BY DEF JudgeInv, BodyInv, RequestInv, ReaderType, BadSizeLine, LineError
<1>2. PlaceInv(frames)'
  <2>1. c'.err = "format"
    BY <1>1 DEF ChunkType
  <2> QED BY <1>1, <2>1 DEF PlaceInv, Active
<1>3. CutIsNoticed'
  <2>1. "format" \in {"more", "eof"} \cup Errors
    BY DEF Errors
  <2>2. answer' # "eof"
    BY <1>1, <2>1, HandOnFacts
  <2> QED BY <2>2 DEF CutIsNoticed
<1>4. ASSUME Fair(frames) PROVE FALSE
  <2>1. how = "whole" /\ req.fits
    BY <1>4 DEF Fair
  <2>2. PICK k \in 0..Len(frames) :
              /\ how = "whole" => wire # <<>>
              /\ wire # <<>> /\ k = Len(frames) => Head(wire) = Closing(frames)
              /\ wire # <<>> /\ k < Len(frames) =>
                    /\ k + 1 \in 1..Len(frames)
                    /\ Head(wire) = Size(Len(frames[k + 1]), Signature(SubSeq(frames, 1, k + 1)))
    BY <1>1, <2>1, NextLine
  <2>3. CASE k = Len(frames)
    BY <1>1, <2>1, <2>2, <2>3, LimitAssumption DEF SizeLine, Closing, Size
  <2>4. CASE k < Len(frames)
    <3>1. Len(frames[k + 1]) <= MaxChunk
      BY <1>1, <2>1, <2>2, <2>4 DEF RequestInv
    <3> QED BY <1>1, <2>1, <2>2, <2>4, <3>1 DEF SizeLine, Size
  <2> QED BY <2>3, <2>4, FrameFacts
<1> QED BY <1>2, <1>3, <1>4 DEF Judges

LEMMA PlacesClosing ==
    ASSUME NEW frames \in Framings, JudgeInv(frames), verr = "none", answer # "unopened",
           req.framed, ClosingFrame
    PROVE  Judges(frames)
<1> DEFINE T == Token(frames)
           N == Len(frames)
           sig == Head(wire).sig
           e == IF ~ SignatureHolds(sig, <<>>) THEN "signature"
                ELSE IF req.trailers THEN TrailerAnswer(Tail(wire), sig)
                ELSE "eof"
<1>1. /\ RequestInv(frames) /\ got \in Seq(T) /\ req.max \in Nat /\ <<>> \in Seq(T) /\ Active /\ c.left = 0
      /\ UNCHANGED <<req, ends, how>> /\ HandOn(<<>>, e) /\ c' = Closed(e) /\ wire' = Tail(wire)
      /\ c \in ChunkType(frames) /\ SizeLine /\ Head(wire).n = 0 /\ wire \in Seq(T) /\ wire # <<>>
      /\ req.trailers \in BOOLEAN /\ N \in Nat /\ how \in {"whole", "cut", "damaged"}
  BY FrameFacts DEF JudgeInv, BodyInv, RequestInv, ReaderType, ClosingFrame, SizeLine
<1>2. e \in {"eof", "format", "signature", "digest"}
  BY DEF TrailerAnswer
<1>3. e \in {"more", "eof"} \cup Errors
  BY <1>2 DEF Errors
<1>4. PlaceInv(frames)'
  <2> HIDE DEF e
  <2>1. c'.eof = TRUE \/ c'.err # "none"
    BY <1>1, <1>2 DEF Closed, ChunkType
  <2> QED BY <1>1, <2>1 DEF PlaceInv, Active
<1>5. got' = got
  BY <1>1, <1>3, HandOnFacts
(* The place of the closing frame. *)
<1>6. ASSUME how # "damaged"
      PROVE  /\ BetweenFrames(frames, N) /\ Head(wire) = Closing(frames) /\ sig = LastChain(frames)
             /\ how = "cut" => req.trailers /\ Tail(wire) = <<>>
             /\ how = "whole" /\ req.trailers => Tail(wire) # <<>> /\ Head(Tail(wire)) = TrailersOf(frames)
  <2>1. PICK k \in 0..Len(frames) :
              /\ BetweenFrames(frames, k)
              /\ wire # <<>> /\ k = Len(frames) => Head(wire) = Closing(frames)
              /\ wire # <<>> /\ k < Len(frames) =>
                    /\ k + 1 \in 1..Len(frames)
                    /\ Head(wire) = Size(Len(frames[k + 1]), Signature(SubSeq(frames, 1, k + 1)))
    BY <1>1, <1>6, NextLine
  <2>2. k = N
    <3> SUFFICES ASSUME k < N PROVE FALSE
      BY <1>1
    <3>1. Len(frames[k + 1]) # 0 /\ Head(wire).n = Len(frames[k + 1])
      BY <1>1, <2>1, FrameFacts DEF Size
    <3> QED BY <1>1, <3>1
  <2>3. Head(wire) = Closing(frames) /\ sig = LastChain(frames)
    BY <1>1, <2>1, <2>2 DEF Closing, Size
  <2>4. /\ Off(frames, N) \in Nat
        /\ Len(Sent(frames)) = Off(frames, N) + 1 + (IF req.trailers THEN 1 ELSE 0)
        /\ req.trailers => Sent(frames)[Off(frames, N) + 2] = TrailersOf(frames)
    <3>1. N \in 0..N /\ Sent(frames) = Encoding(frames, InOrder(frames), req.trailers)
      BY <1>1, SentFacts
    <3> QED BY <1>1, <3>1, OffFacts, SMTT(30)
  <2>5. Follows(frames, wire, Off(frames, N))
    BY <2>1, <2>2 DEF BetweenFrames
  <2> HIDE DEF T
  <2>6. /\ Follows(frames, Tail(wire), Off(frames, N) + 1) /\ Tail(wire) \in Seq(T) /\ Len(Tail(wire)) \in Nat
        /\ Tail(wire) # <<>> => Head(Tail(wire)) = Sent(frames)[Off(frames, N) + 2]
    <3>1. Tail(wire) \in Seq(T) /\ Len(Tail(wire)) \in Nat /\ 0 \in 0..Len(wire) /\ 0 \in 0..Len(Tail(wire))
      BY <1>1, HeadTailProperties, LenProperties
    <3>2. Follows(frames, Tail(wire), Off(frames, N) + 1)
      BY <1>1, <2>4, <2>5, <3>1, FollowsOn
    <3>3. Off(frames, N) + 1 \in Nat /\ Off(frames, N) + 1 + 1 = Off(frames, N) + 2
      BY <2>4
    <3>4. Tail(wire) # <<>> => Head(Tail(wire)) = Sent(frames)[Off(frames, N) + 1 + 1]
      <4> DEFINE v == Tail(wire)
                 p == Off(frames, N) + 1
      <4>1. v \in Seq(T) /\ p \in Nat /\ 0 \in 0..Len(v) /\ Follows(frames, v, p) /\ RequestInv(frames)
        BY <1>1, <3>1, <3>2, <3>3
      <4> HIDE DEF v, p
      <4>2. v # <<>> => Head(v) = Sent(frames)[p + 1]
        BY <4>1, FollowsOn
      <4> QED BY <4>2 DEF v, p
    <3> QED BY <3>1, <3>2, <3>3, <3>4
  <2>7. how = "cut" => req.trailers /\ Tail(wire) = <<>>
    <3> SUFFICES ASSUME how = "cut" PROVE req.trailers /\ Len(Tail(wire)) = 0
      BY <2>6, EmptySeq
    <3> DEFINE m == Off(frames, N)
               l == Len(Tail(wire))
    <3>1. m + 1 + l < Len(Sent(frames)) /\ m \in Nat /\ l \in Nat
      BY <2>4, <2>6 DEF Follows
    <3>2. Len(Sent(frames)) = m + 1 + (IF req.trailers THEN 1 ELSE 0)
      BY <2>4
    <3> HIDE DEF m, l
    <3>3. req.trailers /\ l = 0
      BY <1>1, <3>1, <3>2
    <3> QED BY <3>3 DEF l
  <2>8. ASSUME how = "whole", req.trailers PROVE Tail(wire) # <<>>
    <3> DEFINE m == Off(frames, N)
               l == Len(Tail(wire))
    <3>1. m + 1 + l = Len(Sent(frames)) /\ m \in Nat /\ l \in Nat
      BY <2>4, <2>6, <2>8 DEF Follows
    <3>2. Len(Sent(frames)) = m + 1 + 1
      BY <2>4, <2>8
    <3> HIDE DEF m, l
    <3>3. l = 1
      BY <3>1, <3>2
    <3>4. Tail(wire) # <<>>
      <4> SUFFICES ASSUME Tail(wire) = <<>> PROVE FALSE
        OBVIOUS
      <4>1. Len(<<>>) = 0
        OBVIOUS
      <4>2. l = Len(<<>>)
        BY Zenon DEF l
      <4> QED BY <3>3, <4>1, <4>2
    <3> QED BY <3>4
  <2> QED BY <1>1, <2>1, <2>2, <2>3, <2>4, <2>6, <2>7, <2>8
<1>7. CutIsNoticed'
  <2> SUFFICES ASSUME how = "cut", answer' = "eof" PROVE FALSE
    BY <1>1 DEF CutIsNoticed
  <2>1. e = "eof"
    <3> HIDE DEF e
    <3> QED BY <1>1, <1>3, HandOnFacts
  <2> QED BY <1>6, <2>1 DEF TrailerAnswer
<1>8. ASSUME Fair(frames) PROVE answer' \notin Errors
  <2>1. how = "whole"
    BY <1>8 DEF Fair
  <2>2. Begins(frames, got, Len(BodyOf(frames))) /\ got = BodyOf(frames)
    <3>1. N \in 0..N
      BY <1>1
    <3>2. Begins(frames, got, Len(BodyOf(frames)))
      BY <1>6, <2>1, <3>1, PosFacts DEF BetweenFrames
    <3> HIDE DEF T
    <3> QED BY <1>1, <3>2, BeginsWhole
  <2>3. SignatureHolds(sig, <<>>)
    <3>1. req.signed => c.prev = Signature(frames)
      <4>1. N \in 0..N
        BY <1>1
      <4> QED BY <1>6, <2>1, <4>1, SignatureFacts DEF BetweenFrames
    <3> QED BY <1>6, <2>1, <3>1 DEF SignatureHolds, LastChain
  <2>4. req.trailers => TrailerAnswer(Tail(wire), sig) = "eof"
    <3> SUFFICES ASSUME req.trailers PROVE TrailerAnswer(Tail(wire), sig) = "eof"
      OBVIOUS
    <3>1. Tail(wire) # <<>> /\ Head(Tail(wire)) = TrailersOf(frames) /\ sig = LastChain(frames)
      BY <1>6, <2>1
    <3> DEFINE t == TrailersOf(frames)
    <3>2. t.kind = "trailers" /\ t.sig = <<LastChain(frames), BodyOf(frames)>> /\ t.sum = BodyOf(frames)
      BY DEF TrailersOf, Trailers
    <3> HIDE DEF t, sig
    <3>3. Head(Tail(wire)) = t
      BY <3>1 DEF t
    <3> QED BY <2>2, <3>1, <3>2, <3>3 DEF TrailerAnswer
  <2>5. e = "eof"
    BY <2>3, <2>4
  <2> HIDE DEF e, T
  <2>6. Begins(frames, got', Len(got')) /\ got' = BodyOf(frames)
    BY <1>5, <2>2
  <2>7. "eof" \in {"more", "eof"} /\ HandOn(<<>>, "eof")
    BY <1>1, <2>5
  <2> QED BY <1>1, <1>8, <2>6, <2>7, Unrefused
<1> QED BY <1>4, <1>7, <1>8 DEF Judges

(* The frame that is being read, or opened. *)
LEMMA InPlace ==
    ASSUME NEW frames \in Framings, JudgeInv(frames), req.framed, how # "damaged", HasFrame
    PROVE  \E k \in 0..Len(frames) - 1 : WithinFrame(frames, k, InFrame, InWire)
<1> DEFINE T == Token(frames)
<1>1. /\ RequestInv(frames) /\ wire \in Seq(T) /\ got \in Seq(T) /\ c \in ChunkType(frames) /\ Active
  BY DEF JudgeInv, BodyInv, ReaderType, HasFrame
<1>2. CASE c.left > 0
  <2>1. InFrame = c /\ InWire = wire
    BY <1>2 DEF InFrame, InWire
  <2>2. \A k \in 0..Len(frames) : ~ BetweenFrames(frames, k)
    BY <1>2 DEF BetweenFrames
  <2> QED BY <1>1, <2>1, <2>2 DEF JudgeInv, PlaceInv
<1>3. CASE ~ (c.left > 0)
  <2>1. SizeLine /\ Head(wire).n > 0 /\ c.left = 0 /\ wire # <<>>
    BY <1>1, <1>3, LimitAssumption DEF HasFrame, ChunkType, SizeLine
  <2>2. PICK k \in 0..Len(frames) :
              /\ BetweenFrames(frames, k)
              /\ wire # <<>> /\ k = Len(frames) => Head(wire) = Closing(frames)
              /\ wire # <<>> /\ k < Len(frames) =>
                    /\ k + 1 \in 1..Len(frames)
                    /\ Head(wire) = Size(Len(frames[k + 1]), Signature(SubSeq(frames, 1, k + 1)))
    BY <1>1, <2>1, NextLine
  <2>3. k < Len(frames)
    <3>1. k # Len(frames)
      BY <2>1, <2>2 DEF Closing, Size
    <3> QED BY <3>1, FrameFacts
  <2> DEFINE n == Len(frames[k + 1])
             sig == Signature(SubSeq(frames, 1, k + 1))
  <2>4. Head(wire).n = n /\ Head(wire).sig = sig /\ n \in Nat \ {0} /\ k \in 0..Len(frames) - 1
    BY <2>1, <2>2, <2>3, FrameFacts DEF Size
  <2>5. /\ InWire = Tail(wire) /\ InFrame.left = n /\ InFrame.sig = sig /\ InFrame.sum = <<>>
        /\ InFrame.prev = c.prev
    BY <1>1, <1>3, <2>4 DEF InFrame, InWire, ChunkType
  <2>6. Follows(frames, Tail(wire), Off(frames, k) + 1)
    <3>1. Off(frames, k) \in Nat
      <4>1. req.trailers \in BOOLEAN
        BY <1>1 DEF RequestInv
      <4> QED BY <4>1, OffFacts
    <3>2. 0 \in 0..Len(wire)
      <4> HIDE DEF T
      <4> QED BY <1>1, LenProperties
    <3> QED BY <1>1, <2>1, <2>2, <3>1, <3>2, FollowsOn DEF BetweenFrames
  <2>7. Begins(frames, got, Pos(frames, k)) /\ (req.signed => c.prev = Signature(SubSeq(frames, 1, k)))
    BY <2>2 DEF BetweenFrames
  <2>8. /\ n - n = 0 /\ Off(frames, k) + 1 + 0 = Off(frames, k) + 1 /\ Pos(frames, k) + 0 = Pos(frames, k)
        /\ n \in 1..n
    <3>1. Off(frames, k) \in Nat
      <4>1. req.trailers \in BOOLEAN
        BY <1>1 DEF RequestInv
      <4> QED BY <4>1, OffFacts
    <3>2. Pos(frames, k) \in Nat
      BY PosFacts
    <3> HIDE DEF n
    <3> QED BY <2>4, <3>1, <3>2
  <2>9. Len(InFrame.sum) = 0 /\ 1..0 = {}
    BY <2>5
  <2>10. WithinFrame(frames, k, InFrame, InWire)
    BY <2>5, <2>6, <2>7, <2>8, <2>9 DEF WithinFrame
  <2> QED BY <2>4, <2>10
<1> QED BY <1>2, <1>3

LEMMA PlacesStop ==
    ASSUME NEW frames \in Framings, JudgeInv(frames), verr = "none", answer # "unopened",
           req.framed, StopInFrame
    PROVE  Judges(frames)
<1> DEFINE T == Token(frames)
<1>1. /\ RequestInv(frames) /\ got \in Seq(T) /\ req.max \in Nat /\ <<>> \in Seq(T) /\ HasFrame /\ InWire = <<>>
      /\ UNCHANGED <<req, ends, how>> /\ HandOn(<<>>, ends) /\ c' = [InFrame EXCEPT !.err = ends]
      /\ ends \in {"eof", "lost"} /\ BodyInv(frames) /\ how \in {"whole", "cut", "damaged"}
      /\ req.trailers \in BOOLEAN /\ req.declared \in Int /\ req.body = BodyOf(frames)
  BY DEF JudgeInv, BodyInv, RequestInv, ReaderType, StopInFrame, NothingLeft
<1>2. ends \in {"more", "eof"} \cup Errors
  BY <1>1 DEF Errors
<1>3. got' = got /\ (answer' = "eof" => finish(got') = "eof")
  BY <1>1, <1>2, HandOnFacts
<1>4. c'.err = ends /\ c'.left = InFrame.left /\ InFrame.left > 0
  <2>1. InFrame \in ChunkType(frames) /\ InFrame.left \in 1..MaxChunk
    BY <1>1, InFrameFacts
  <2> QED BY <1>1, <2>1, LimitAssumption DEF ChunkType
<1>5. PlaceInv(frames)'
  <2>1. ends # "none" /\ ~ Active'
    BY <1>1, <1>4 DEF Active
  <2> QED BY <1>1, <2>1 DEF PlaceInv
<1>6. ASSUME how # "damaged"
      PROVE  /\ Len(got) < Len(BodyOf(frames))
             /\ how # "whole"
  <2>1. PICK k \in 0..Len(frames) - 1 : WithinFrame(frames, k, InFrame, InWire)
    BY <1>1, <1>6, InPlace
  <2> DEFINE n == Len(frames[k + 1])
             l == InFrame.left
  <2>2. k \in 0..Len(frames) /\ k < Len(frames) /\ k + 1 \in 1..Len(frames) /\ n \in Nat \ {0}
    <3>1. k \in 0..Len(frames) /\ k < Len(frames) /\ k + 1 \in 1..Len(frames)
      BY <2>1, FrameFacts
    <3> QED BY <3>1, FrameFacts
  <2>3. /\ Pos(frames, k) \in Nat /\ Pos(frames, k) + n <= Len(BodyOf(frames))
    BY <2>2, PosFacts
  <2>4. l \in 1..n /\ Len(got) = Pos(frames, k) + (n - l) /\ Follows(frames, <<>>, Off(frames, k) + 1 + (n - l))
    BY <1>1, <2>1 DEF WithinFrame, Begins
  <2>5. /\ Off(frames, k) \in Nat
        /\ Off(frames, k) + n + 2 < Len(Sent(frames))
    <3>1. Sent(frames) = Encoding(frames, InOrder(frames), req.trailers)
      BY <1>1, SentFacts
    <3> QED BY <1>1, <2>2, <3>1, OffFacts
  <2> DEFINE p == Pos(frames, k)
             o == Off(frames, k)
  <2>6. how = "whole" => o + 1 + (n - l) + 0 = Len(Sent(frames))
    <3>1. Len(<<>>) = 0
      OBVIOUS
    <3> QED BY <2>4, <3>1 DEF Follows
  <2>7. p \in Nat /\ o \in Nat /\ l \in 1..n /\ n \in Nat /\ Len(got) = p + (n - l)
        /\ p + n <= Len(BodyOf(frames)) /\ o + n + 2 < Len(Sent(frames)) /\ Len(BodyOf(frames)) \in Nat
    BY <2>2, <2>3, <2>4, <2>5, BodyFacts
  <2> HIDE DEF n, l, p, o
  <2> QED BY <2>6, <2>7
<1>7. CutIsNoticed'
  <2> SUFFICES ASSUME how = "cut", answer' = "eof"
               PROVE  c'.left > 0 /\ req.declared < Len(req.body)
    BY <1>1 DEF CutIsNoticed
  <2>1. BodyInv(frames)'
    BY <1>1, StopsInFrame
  <2>2. req.declared >= 0
    BY <1>1, <2>1 DEF BodyInv, VerdictInv
  <2>3. Len(got) = req.declared
    BY <1>3, <2>2 DEF finish
  <2> QED BY <1>1, <1>4, <1>6, <2>3
<1>8. ~ Fair(frames)
  BY <1>6 DEF Fair
<1> QED BY <1>5, <1>7, <1>8 DEF Judges

(* The signatures up to a frame. *)
LEMMA SignatureGoesOn ==
    ASSUME NEW frames \in Framings, NEW k \in 0..Len(frames) - 1, NEW T, NEW s \in Seq(T),
           Len(s) = Len(frames[k + 1]), \A i \in 1..Len(s) : s[i] = Data(frames[k + 1][i])
    PROVE  Signature(SubSeq(frames, 1, k + 1)) = Append(Signature(SubSeq(frames, 1, k)), s)
<1> DEFINE a == Signature(SubSeq(frames, 1, k))
           b == Signature(SubSeq(frames, 1, k + 1))
           d == DataOf(frames[k + 1])
<1>1. k \in 0..Len(frames) /\ k + 1 \in 0..Len(frames) /\ k + 1 \in 1..Len(frames) /\ k \in Nat
  BY FrameFacts
<1>2. /\ a \in Chain /\ Len(a) = k /\ \A i \in 1..k : a[i] = DataOf(frames[i])
      /\ b \in Chain /\ Len(b) = k + 1 /\ \A i \in 1..k + 1 : b[i] = DataOf(frames[i])
  BY <1>1, SignatureFacts
<1>3. d \in Content /\ Len(d) = Len(frames[k + 1])
  BY <1>1, FrameFacts
<1>4. s = d
  <2>1. s \in Seq(T \cup Unit) /\ d \in Seq(T \cup Unit)
    <3>1. T \subseteq T \cup Unit /\ Unit \subseteq T \cup Unit
      OBVIOUS
    <3> HIDE DEF d
    <3> QED BY <1>3, <3>1, SeqMonotonic DEF Content
  <2>2. \A i \in 1..Len(s) : s[i] = d[i]
    BY DEF DataOf
  <2> HIDE DEF d
  <2> QED BY <1>3, <2>1, <2>2, SeqEqual
<1>5. b[k + 1] = d
  BY <1>1, <1>2
<1> HIDE DEF a, b, d
<1>6. /\ Append(a, d) \in Chain /\ Len(Append(a, d)) = k + 1
      /\ \A i \in 1..k : Append(a, d)[i] = a[i]
      /\ Append(a, d)[k + 1] = d
  BY <1>2, <1>3, AppendProperties DEF Chain
<1>7. \A i \in 1..k + 1 : b[i] = Append(a, d)[i]
  <2>1. \A i \in 1..k + 1 : i \in 1..k \/ i = k + 1
    BY <1>1
  <2> QED BY <1>1, <1>2, <1>5, <1>6, <2>1
<1>8. b = Append(a, d)
  BY <1>2, <1>6, <1>7, SeqEqual DEF Chain
<1> QED BY <1>4, <1>8 DEF a, b

LEMMA PlacesFrame ==
    ASSUME NEW frames \in Framings, JudgeInv(frames), verr = "none", answer # "unopened",
           req.framed, NEW n \in 1..MaxChunk, ReadFrame(n)
    PROVE  Judges(frames)
<1> DEFINE T == Token(frames)
           data == SubSeq(InWire, 1, n)
           w == SubSeq(InWire, n + 1, Len(InWire))
           f == [InFrame EXCEPT !.sum = @ \o data, !.left = @ - n]
           e == IF f.left > 0 THEN "more" ELSE FrameAnswer(f, w)
<1>1. /\ InWire \in Seq(T) /\ InFrame \in ChunkType(frames)
      /\ InFrame.left \in 1..MaxChunk /\ InFrame.eof = FALSE /\ InFrame.err = "none"
      /\ InFrame.prev = c.prev /\ got \in Seq(T) /\ InFrame.sum \in Seq(T)
  BY InFrameFacts DEF JudgeInv, ReadFrame, BodyInv, ReaderType, ChunkType
<1>2. /\ n <= InFrame.left /\ n <= Len(InWire) /\ UNCHANGED <<req, ends, how>> /\ HasFrame
      /\ RequestInv(frames) /\ req.max \in Nat /\ req.trailers \in BOOLEAN
  BY DEF ReadFrame, JudgeInv, BodyInv, RequestInv
<1>3. /\ wire' = IF f.left = 0 /\ e = "more" THEN Tail(w) ELSE w
      /\ c' = IF e # "more" THEN [f EXCEPT !.err = e]
              ELSE IF f.left = 0 /\ req.signed THEN [f EXCEPT !.prev = f.sig]
              ELSE f
      /\ HandOn(data, e)
  BY DEF ReadFrame
<1>4. /\ n \in Nat \ {0} /\ n \in Int /\ n + 1 \in Nat \ {0} /\ Len(InWire) \in Int /\ Len(InWire) <= Len(InWire)
      /\ n \in 0..Len(InWire)
  BY <1>1, <1>2
<1>5. data \in Seq(T) /\ w \in Seq(T) /\ Len(data) = n /\ \A i \in 1..n : data[i] = InWire[i]
  <2> HIDE DEF T
  <2> QED BY <1>1, <1>2, <1>4, Part
<1> HIDE DEF data, w
<1>6. /\ f \in ChunkType(frames) /\ f.sum = InFrame.sum \o data /\ f.left = InFrame.left - n
      /\ f.eof = FALSE /\ f.err = "none" /\ f.prev = c.prev /\ f.sig = InFrame.sig
  <2> DEFINE g == InFrame
             d == g.sum \o data
  <2>1. d \in Seq(Token(frames)) /\ g.left - n \in 0..MaxChunk
    BY <1>1, <1>2, <1>5, LimitAssumption
  <2>2. f = [g EXCEPT !.sum = d, !.left = g.left - n]
    OBVIOUS
  <2>3. g \in ChunkType(frames) /\ g.eof = FALSE /\ g.err = "none" /\ g.prev = c.prev
    BY <1>1
  <2> HIDE DEF g, d, f
  <2>4. f \in ChunkType(frames) /\ f.sum = d /\ f.left = g.left - n /\ f.eof = g.eof /\ f.err = g.err
        /\ f.prev = g.prev /\ f.sig = g.sig
    BY <2>1, <2>2, <2>3 DEF ChunkType
  <2> QED BY <2>3, <2>4 DEF g, d
<1> HIDE DEF f
<1>7. e \in {"more", "format", "signature"} /\ (f.left # 0 => e = "more") /\ (f.left = 0 => e = FrameAnswer(f, w))
  <2>1. f.left \in 0..MaxChunk
    BY <1>6 DEF ChunkType
  <2> QED BY <2>1, LimitAssumption DEF FrameAnswer
<1> HIDE DEF e
<1>8. e \in {"more", "eof"} \cup Errors
  BY <1>7 DEF Errors
<1>9. got' = got \o data /\ got' \in Seq(T) /\ (answer' = "eof" => e = "eof")
  BY <1>1, <1>2, <1>3, <1>5, <1>8, HandOnFacts
<1>10. /\ c'.sum = f.sum /\ c'.left = f.left /\ c'.sig = f.sig
       /\ c'.err = IF e = "more" THEN "none" ELSE e
       /\ c'.prev = IF e = "more" /\ f.left = 0 /\ req.signed THEN f.sig ELSE f.prev
  BY <1>3, <1>6, <1>7 DEF ChunkType, ReaderErrors
<1>11. CutIsNoticed'
  BY <1>7, <1>9 DEF CutIsNoticed
(* The data are the next ones of the frame k + 1. *)
<1>12. ASSUME how # "damaged"
       PROVE  /\ PlaceInv(frames)' /\ Begins(frames, got', Len(got'))
              /\ how = "whole" => e = "more"
  <2>1. PICK k \in 0..Len(frames) - 1 : WithinFrame(frames, k, InFrame, InWire)
    BY <1>2, <1>12, InPlace
  <2> DEFINE m == Len(frames[k + 1])
             l == InFrame.left
             p == Off(frames, k) + 1 + (m - l)
             q == Pos(frames, k) + (m - l)
             b == BodyOf(frames)
             s == Sent(frames)
  <2>2. /\ k \in 0..Len(frames) /\ k < Len(frames) /\ k + 1 \in 1..Len(frames) /\ k + 1 \in 0..Len(frames)
        /\ m \in Nat \ {0}
    <3>1. k \in 0..Len(frames) /\ k < Len(frames) /\ k + 1 \in 1..Len(frames) /\ k + 1 \in 0..Len(frames)
      BY <2>1, FrameFacts
    <3> QED BY <3>1, FrameFacts
  <2>3. /\ l \in 1..m /\ Follows(frames, InWire, p) /\ Begins(frames, got, q)
        /\ Len(InFrame.sum) = m - l /\ \A i \in 1..Len(InFrame.sum) : InFrame.sum[i] = Data(frames[k + 1][i])
        /\ InFrame.sig = Signature(SubSeq(frames, 1, k + 1))
        /\ req.signed => c.prev = Signature(SubSeq(frames, 1, k))
    BY <1>1, <2>1 DEF WithinFrame
  <2>4. /\ Pos(frames, k) \in Nat /\ Pos(frames, k + 1) = Pos(frames, k) + m /\ Pos(frames, k) + m <= Len(b)
        /\ \A j \in 1..m : b[Pos(frames, k) + j] = Data(frames[k + 1][j])
    BY <2>2, PosFacts
  <2>5. /\ Off(frames, k) \in Nat /\ Off(frames, k + 1) = Off(frames, k) + m + 2
        /\ Off(frames, k) + m + 2 < Len(s)
        /\ \A j \in 1..m : s[Off(frames, k) + 1 + j] = Data(frames[k + 1][j])
        /\ s[Off(frames, k + 1)] = CRLF
    <3>1. Sent(frames) = Encoding(frames, InOrder(frames), req.trailers)
      BY <1>2, SentFacts
    <3> DEFINE E == Encoding(frames, InOrder(frames), req.trailers)
    <3>2. /\ Off(frames, k) \in Nat /\ Off(frames, k + 1) = Off(frames, k) + m + 2
          /\ Off(frames, k + 1) < Len(E)
          /\ \A j \in 1..m : E[Off(frames, k) + 1 + j] = Data(frames[k + 1][j])
          /\ E[Off(frames, k + 1)] = CRLF
      BY <1>2, <2>2, OffFacts
    <3> HIDE DEF E, m
    <3>3. s = E
      BY <3>1 DEF E
    <3> HIDE DEF s
    <3> QED BY <3>2, <3>3
  <2> HIDE DEF s, b
  <2>6. p \in Nat /\ q \in Nat /\ n \in 1..l /\ q + n <= Len(b) /\ m \in Nat /\ l \in Nat
        /\ p + n = Off(frames, k) + 1 + (m - (l - n)) /\ q + n = Pos(frames, k) + (m - (l - n))
    <3> DEFINE o == Off(frames, k)
               r == Pos(frames, k)
    <3>1. Len(b) \in Nat
      BY BodyFacts DEF b
    <3>2. n \in Nat \ {0} /\ n <= l /\ m \in Nat /\ l \in 1..m /\ o \in Nat /\ r \in Nat /\ r + m <= Len(b)
      BY <1>2, <1>4, <2>2, <2>3, <2>4, <2>5
    <3>3. p = o + 1 + (m - l) /\ q = r + (m - l)
      OBVIOUS
    <3> HIDE DEF m, l, o, r, p, q
    <3>4. p \in Nat /\ q \in Nat /\ n \in 1..l /\ q + n <= Len(b) /\ m \in Nat /\ l \in Nat
          /\ p + n = o + 1 + (m - (l - n)) /\ q + n = r + (m - (l - n))
      BY <3>1, <3>2, <3>3
    <3> QED BY <3>4 DEF o, r
  <2>7. \A j \in 1..n : data[j] = Data(frames[k + 1][m - l + j]) /\ b[q + j] = Data(frames[k + 1][m - l + j])
    <3> SUFFICES ASSUME NEW j \in 1..n
                 PROVE  data[j] = Data(frames[k + 1][m - l + j]) /\ b[q + j] = Data(frames[k + 1][m - l + j])
      OBVIOUS
    <3>1. InWire[j] = s[p + j]
      <4>1. j \in 1..Len(InWire)
        BY <1>2, <1>4
      <4> QED BY <2>3, <4>1 DEF Follows, s
    <3>2. m - l + j \in 1..m /\ Off(frames, k) + 1 + (m - l + j) = p + j /\ Pos(frames, k) + (m - l + j) = q + j
      <4> DEFINE o == Off(frames, k)
                 r == Pos(frames, k)
      <4>1. l \in 1..m /\ m \in Nat /\ o \in Nat /\ r \in Nat /\ n \in 1..l
            /\ p = o + 1 + (m - l) /\ q = r + (m - l)
        BY <2>3, <2>4, <2>5, <2>6
      <4> HIDE DEF m, l, o, r, p, q
      <4>2. m - l + j \in 1..m /\ o + 1 + (m - l + j) = p + j /\ r + (m - l + j) = q + j
        BY <1>4, <4>1
      <4> QED BY <4>2 DEF o, r
    <3>3. s[Off(frames, k) + 1 + (m - l + j)] = Data(frames[k + 1][m - l + j])
      BY <2>5, <3>2
    <3>4. b[Pos(frames, k) + (m - l + j)] = Data(frames[k + 1][m - l + j])
      BY <2>4, <3>2
    <3> HIDE DEF m, l, p, q
    <3> QED BY <1>5, <3>1, <3>2, <3>3, <3>4
  <2>8. Begins(frames, got', q + n)
    <3> HIDE DEF T, q, m, l
    <3>1. \A j \in 1..Len(data) : data[j] = b[q + j]
      BY <1>5, <2>7
    <3>2. q + Len(data) <= Len(BodyOf(frames))
      BY <1>5, <2>6 DEF b
    <3> QED BY <1>1, <1>5, <1>9, <2>3, <3>1, <3>2, BeginsOn DEF b
  <2>9. Begins(frames, got', Len(got'))
    BY <2>8 DEF Begins
  <2>10. Follows(frames, w, p + n)
    <3> HIDE DEF T, p
    <3> QED BY <1>1, <1>2, <1>4, <2>3, <2>6, FollowsOn DEF w
  <2>11. /\ Len(f.sum) = m - (l - n) /\ f.sum \in Seq(T)
         /\ \A i \in 1..Len(f.sum) : f.sum[i] = Data(frames[k + 1][i])
    <3> DEFINE a == InFrame.sum
    <3>1. /\ a \in Seq(T) /\ Len(a) = m - l /\ \A i \in 1..Len(a) : a[i] = Data(frames[k + 1][i])
      BY <1>1, <2>3
    <3>2. m \in Nat /\ l \in 1..m
      BY <2>3, <2>6
    <3> HIDE DEF a, m, l, T
    <3>3. /\ f.sum \in Seq(T) /\ Len(f.sum) = Len(a) + n
          /\ \A i \in 1..Len(a) + n : f.sum[i] = IF i <= Len(a) THEN a[i] ELSE data[i - Len(a)]
      BY <1>5, <1>6, <3>1, ConcatProperties DEF a
    <3>4. ASSUME NEW i \in 1..Len(a) + n PROVE f.sum[i] = Data(frames[k + 1][i])
      <4>1. CASE i <= Len(a)
        <5>1. i \in 1..Len(a)
          BY <3>1, <3>2, <4>1
        <5> QED BY <3>1, <3>3, <4>1, <5>1
      <4>2. CASE ~ (i <= Len(a))
        <5>1. i - Len(a) \in 1..n /\ m - l + (i - Len(a)) = i
          BY <1>4, <3>1, <3>2, <4>2
        <5> QED BY <2>7, <3>3, <4>2, <5>1
      <4> QED BY <4>1, <4>2
    <3> QED BY <1>4, <3>1, <3>2, <3>3, <3>4
  <2>12. f.left = l - n /\ f.sig = Signature(SubSeq(frames, 1, k + 1))
    BY <1>6, <2>3
(* The frame goes on. *)
  <2>13. ASSUME f.left # 0 PROVE PlaceInv(frames)' /\ e = "more"
    <3>1. e = "more" /\ wire' = w
      BY <1>3, <1>7, <2>13
    <3>2. c'.left = l - n /\ c'.left \in 1..m
      <4>1. c'.left = l - n
        BY <1>10, <2>12
      <4>2. l - n # 0 /\ l \in 1..m /\ m \in Nat /\ n \in 1..l
        BY <2>3, <2>6, <2>12, <2>13
      <4> HIDE DEF m, l
      <4> QED BY <4>1, <4>2
    <3>3. WithinFrame(frames, k, c, wire)'
      <4>1. Follows(frames, wire, Off(frames, k) + 1 + (m - c.left))'
        <5> DEFINE o == Off(frames, k) + 1 + (m - c'.left)
        <5>1. Follows(frames, wire', o)
          BY <2>6, <2>10, <3>1, <3>2
        <5> QED BY <1>2, <5>1, FollowsStill
      <4>2. Begins(frames, got, Pos(frames, k) + (m - c.left))'
        <5>1. Begins(frames, got', Pos(frames, k) + (m - c'.left))
          BY <2>6, <2>8, <3>2
        <5> QED BY <5>1 DEF Begins
      <4>3. /\ Len(c'.sum) = m - c'.left /\ \A i \in 1..Len(c'.sum) : c'.sum[i] = Data(frames[k + 1][i])
            /\ c'.sig = Signature(SubSeq(frames, 1, k + 1))
            /\ req'.signed => c'.prev = Signature(SubSeq(frames, 1, k))
        BY <1>2, <1>6, <1>10, <2>3, <2>11, <2>12, <2>13, <3>2
      <4> QED BY <3>2, <4>1, <4>2, <4>3 DEF WithinFrame
    <3>4. req'.framed
      BY <1>2
    <3>5. (\E j \in 0..Len(frames) - 1 : WithinFrame(frames, j, c, wire))'
      BY <2>1, <3>3
    <3> QED BY <3>1, <3>4, <3>5 DEF PlaceInv
(* The frame ends. *)
  <2>14. ASSUME f.left = 0
         PROVE  PlaceInv(frames)' /\ (how = "whole" => e = "more")
    <3>1. /\ p + n = Off(frames, k) + 1 + m /\ p + n \in Nat /\ p + n + 1 = Off(frames, k + 1)
          /\ q + n = Pos(frames, k + 1) /\ m - (l - n) = m
      <4> DEFINE o == Off(frames, k)
                 r == Pos(frames, k)
      <4>1. /\ m \in Nat /\ l \in Nat /\ n \in Nat /\ l - n = 0 /\ o \in Nat /\ r \in Nat
            /\ p = o + 1 + (m - l) /\ q = r + (m - l)
        BY <1>4, <2>4, <2>5, <2>6, <2>12, <2>14
      <4>2. Off(frames, k + 1) = o + m + 2 /\ Pos(frames, k + 1) = r + m
        BY <2>4, <2>5
      <4> HIDE DEF m, l, o, r, p, q
      <4>3. /\ p + n = o + 1 + m /\ p + n \in Nat /\ p + n + 1 = o + m + 2
            /\ q + n = r + m /\ m - (l - n) = m
        BY <4>1
      <4> QED BY <4>2, <4>3 DEF o, r
    <3> HIDE DEF p, q
    <3>2. w # <<>> => Follows(frames, Tail(w), p + n + 1) /\ Head(w) = CRLF
      <4>1. 0 \in 0..Len(w)
        <5> HIDE DEF T
        <5> QED BY <1>5, LenProperties
      <4>2. w # <<>> => Follows(frames, Tail(w), p + n + 1) /\ Head(w) = s[p + n + 1]
        <5> DEFINE o == p + n
        <5>1. o \in Nat /\ Follows(frames, w, o) /\ w \in Seq(T)
          BY <1>5, <2>10, <3>1
        <5> HIDE DEF o, T
        <5>2. w # <<>> => Follows(frames, Tail(w), o + 1) /\ Head(w) = Sent(frames)[o + 1]
          BY <1>2, <4>1, <5>1, FollowsOn
        <5> QED BY <5>2 DEF o, s
      <4> QED BY <2>5, <3>1, <4>2
    <3>3. ASSUME how = "whole" PROVE e = "more"
      <4>1. w # <<>>
        <5> SUFFICES ASSUME w = <<>> PROVE FALSE
          OBVIOUS
        <5>1. Len(w) = 0
          OBVIOUS
        <5>2. p + n + 0 = Len(s)
          BY <2>10, <3>3, <5>1 DEF Follows, s
        <5> HIDE DEF m
        <5> QED BY <2>5, <2>6, <3>1, <5>2
      <4>2. req.signed => f.sig = Append(c.prev, f.sum)
        <5>1. Len(f.sum) = Len(frames[k + 1])
          BY <2>11, <3>1
        <5>2. Signature(SubSeq(frames, 1, k + 1)) = Append(Signature(SubSeq(frames, 1, k)), f.sum)
          BY <2>1, <2>11, <5>1, SignatureGoesOn
        <5> QED BY <2>3, <2>12, <5>2
      <4> QED BY <1>7, <2>14, <3>2, <4>1, <4>2 DEF FrameAnswer, SignatureHolds
    <3>4. ASSUME e = "more" PROVE BetweenFrames(frames, k + 1)'
      <4>1. w # <<>> /\ wire' = Tail(w) /\ c'.left = 0
        BY <1>3, <1>7, <1>10, <2>14, <3>4 DEF FrameAnswer
      <4>2. Follows(frames, wire, Off(frames, k + 1))'
        <5>1. Follows(frames, wire', Off(frames, k + 1))
          BY <3>1, <3>2, <4>1
        <5> QED BY <1>2, <5>1, FollowsStill
      <4>3. Begins(frames, got, Pos(frames, k + 1))'
        BY <2>8, <3>1 DEF Begins
      <4>4. req'.signed => c'.prev = Signature(SubSeq(frames, 1, k + 1))
        BY <1>2, <1>10, <2>12, <2>14, <3>4
      <4> QED BY <4>1, <4>2, <4>3, <4>4 DEF BetweenFrames
    <3>5. e # "more" => ~ Active'
      BY <1>7, <1>10 DEF Active
    <3> QED BY <1>2, <2>2, <3>3, <3>4, <3>5 DEF PlaceInv
  <2> QED BY <2>9, <2>13, <2>14
<1>13. ASSUME Fair(frames) PROVE answer' \notin Errors
  <2>1. e = "more" /\ Begins(frames, got', Len(got'))
    BY <1>12, <1>13 DEF Fair
  <2>2. "more" \in {"more", "eof"} /\ HandOn(data, "more")
    BY <1>3, <2>1
  <2> HIDE DEF T
  <2> QED BY <1>1, <1>2, <1>5, <1>13, <2>1, <2>2, Unrefused
<1>14. PlaceInv(frames)'
  <2>1. how = "damaged" => PlaceInv(frames)'
    BY <1>2 DEF PlaceInv
  <2> QED BY <1>12, <2>1
<1> QED BY <1>11, <1>13, <1>14 DEF Judges

LEMMA PlaceStays ==
    ASSUME NEW frames, PlaceInv(frames), UNCHANGED <<req, wire, ends, how, c, got>>
    PROVE  PlaceInv(frames)'
<1>1. \A p : Follows(frames, wire, p) => Follows(frames, wire, p)'
  <2>1. \A p : Follows(frames, wire, p) => Follows(frames, wire', p)
    OBVIOUS
  <2> QED BY <2>1, FollowsStill
<1>2. \A q : Begins(frames, got, q) => Begins(frames, got, q)'
  BY DEF Begins
<1>3. ASSUME NEW k, BetweenFrames(frames, k) PROVE BetweenFrames(frames, k)'
  BY <1>1, <1>2, <1>3 DEF BetweenFrames
<1>4. ASSUME NEW k, WithinFrame(frames, k, c, wire) PROVE WithinFrame(frames, k, c, wire)'
  <2> DEFINE n == Len(frames[k + 1])
             p == Off(frames, k) + 1 + (n - c.left)
             q == Pos(frames, k) + (n - c.left)
  <2>1. Follows(frames, wire, p) /\ Begins(frames, got, q)
    BY <1>4 DEF WithinFrame
  <2>2. c' = c
    OBVIOUS
  <2>3. Follows(frames, wire, Off(frames, k) + 1 + (n - c.left))'
    <3>1. Follows(frames, wire', Off(frames, k) + 1 + (n - c'.left))
      BY <2>1
    <3> QED BY <3>1, FollowsStill
  <2>4. Begins(frames, got, Pos(frames, k) + (n - c.left))'
    BY <2>1 DEF Begins
  <2> QED BY <1>4, <2>2, <2>3, <2>4 DEF WithinFrame
<1>5. Active' = Active
  BY DEF Active
<1>6. ASSUME how # "damaged", req.framed, Active
      PROVE  \/ \E k \in 0..Len(frames) : BetweenFrames(frames, k)'
             \/ \E k \in 0..Len(frames) - 1 : WithinFrame(frames, k, c, wire)'
  BY <1>3, <1>4, <1>6 DEF PlaceInv
<1>7. ASSUME how # "damaged", ~ req.framed
      PROVE  Follows(frames, wire, Len(got))' /\ Begins(frames, got, Len(got))'
  <2>1. Follows(frames, wire', Len(got')) /\ Begins(frames, got', Len(got'))
    BY <1>7 DEF PlaceInv
  <2> QED BY <2>1, FollowsStill DEF Begins
<1> QED BY <1>5, <1>6, <1>7 DEF PlaceInv

LEMMA JudgeStays ==
    ASSUME NEW frames, JudgeInv(frames), UNCHANGED body
    PROVE  JudgeInv(frames)'
<1>1. UNCHANGED <<req, wire, ends, how, c, got, answer>>
  BY DEF body
<1>2. CutIsNoticed' /\ RefusedForCause'
  BY <1>1 DEF JudgeInv, CutIsNoticed, RefusedForCause
<1> QED BY <1>1, <1>2, BodyStays, PlaceStays DEF JudgeInv

LEMMA JudgeOpens ==
    ASSUME NEW frames \in Framings, JudgeInv(frames), openBody
    PROVE  JudgeInv(frames)'
<1>1. /\ RequestInv(frames) /\ UNCHANGED <<req, wire, ends, how, c, got>>
      /\ req.declared \in Int /\ req.max \in Nat /\ Len(BodyOf(frames)) \in Nat
  BY BodyFacts DEF JudgeInv, BodyInv, RequestInv, openBody
<1>2. answer' = IF req.framed /\ req.declared < 0 THEN "format"
                ELSE IF req.max > 0 /\ req.declared > req.max THEN "toolarge"
                ELSE "more"
  BY DEF openBody
<1>3. CutIsNoticed'
  BY <1>2 DEF CutIsNoticed
<1>4. Fair(frames) => answer' \notin Errors
  BY <1>1, <1>2 DEF Fair, Errors
<1>5. RefusedForCause'
  BY <1>1, <1>4, Excused
<1> QED BY <1>1, <1>3, <1>5, OpensBody, PlaceStays DEF JudgeInv

LEMMA JudgeStep ==
    ASSUME NEW frames \in Framings, JudgeInv(frames), openBody \/ Read
    PROVE  JudgeInv(frames)'
<1>0. BodyInv(frames) /\ RequestInv(frames)
  BY DEF JudgeInv, BodyInv
<1>1. CASE openBody
  BY <1>1, JudgeOpens
<1>2. CASE Refuse
  BY <1>0, <1>2, Refuses, JudgeStays
<1>3. CASE answer # "unopened" /\ verr = "none" /\ req.framed /\ ReadAgain
  BY <1>0, <1>3, ReadsAgain, JudgeStays
<1>4. CASE /\ answer # "unopened" /\ verr = "none"
           /\ \/ ~ req.framed /\ PlainRead
              \/ req.framed /\ (BadSizeLine \/ ClosingFrame \/ StopInFrame \/ \E n \in 1..MaxChunk : ReadFrame(n))
  <2>1. Judges(frames)
    BY <1>4, PlacesPlain, PlacesLine, PlacesClosing, PlacesStop, PlacesFrame
  <2>2. UNCHANGED <<req, how>>
    BY <1>4 DEF PlainRead, BadSizeLine, ClosingFrame, StopInFrame, ReadFrame
  <2>3. BodyInv(frames)'
    BY <1>0, <1>4, BodyStep DEF Read, ChunkRead
  <2>4. RefusedForCause'
    BY <1>0, <2>1, <2>2, Excused DEF Judges
  <2> QED BY <2>1, <2>3, <2>4 DEF Judges, JudgeInv
<1> QED BY <1>1, <1>2, <1>3, <1>4 DEF Read, ChunkRead

LEMMA StartsInPlace ==
    ASSUME NEW frames \in Framings, ReaderInit, RequestInv(frames), Arrived(frames)
    PROVE  JudgeInv(frames)
<1> DEFINE s == Sent(frames)
<1>1. /\ c = NoChunk /\ got = <<>> /\ answer = "unopened" /\ Len(got) = 0
      /\ c.left = 0 /\ c.prev = <<>>
  BY DEF ReaderInit, NoChunk
<1>2. s \in Seq(Own(frames)) /\ Len(s) \in Nat /\ req.trailers \in BOOLEAN
  BY SentFacts DEF RequestInv
<1>3. how # "damaged" => Follows(frames, wire, 0)
  <2>1. CASE how = "whole"
    <3>1. wire = s /\ ends = "eof"
      BY <2>1 DEF Arrived
    <3>2. 0 + Len(s) = Len(s) /\ \A i \in 1..Len(s) : s[0 + i] = s[i]
      BY <1>2
    <3> HIDE DEF s
    <3> QED BY <2>1, <3>1, <3>2 DEF Follows, s
  <2>2. CASE how = "cut"
    <3>1. (req.framed \/ ends = "lost") /\ \E n \in 0..Len(s) - 1 : wire = SubSeq(s, 1, n)
      BY <2>2 DEF Arrived
    <3>2. PICK n \in 0..Len(s) - 1 : wire = SubSeq(s, 1, n)
      BY <3>1
    <3> HIDE DEF s
    <3> DEFINE O == Own(frames)
    <3>3. s \in Seq(O) /\ n \in Int /\ n <= Len(s) /\ n \in Nat /\ n < Len(s)
      BY <1>2, <3>2
    <3> HIDE DEF O
    <3>4. Len(wire) = n /\ \A i \in 1..n : wire[i] = s[i]
      BY <3>2, <3>3, Part
    <3>5. 0 + Len(wire) < Len(s) /\ \A i \in 1..Len(wire) : wire[i] = s[0 + i]
      BY <3>3, <3>4
    <3> QED BY <2>2, <3>1, <3>5 DEF Follows, s
  <2> QED BY <2>1, <2>2 DEF RequestInv
<1>4. Begins(frames, got, 0)
  BY <1>1, BodyFacts DEF Begins
<1>5. 0 \in 0..Len(frames) /\ Off(frames, 0) = 0 /\ Pos(frames, 0) = 0
  <2>1. 0 \in 0..Len(frames)
    BY FrameFacts
  <2> QED BY <1>2, <2>1, OffFacts, PosFacts
<1>6. c.prev = Signature(SubSeq(frames, 1, 0))
  <2>1. SubSeq(frames, 1, 0) = <<>>
    BY SubSeqEmpty
  <2>2. Signature(<<>>) = <<>>
    BY DEF Signature
  <2> QED BY <1>1, <2>1, <2>2
<1>7. how # "damaged" => BetweenFrames(frames, 0)
  BY <1>1, <1>3, <1>4, <1>5, <1>6 DEF BetweenFrames
<1>8. PlaceInv(frames)
  BY <1>1, <1>3, <1>4, <1>5, <1>7 DEF PlaceInv
<1>9. CutIsNoticed /\ RefusedForCause
  BY <1>1 DEF CutIsNoticed, RefusedForCause, Errors
<1> QED BY <1>8, <1>9, StartsBody DEF JudgeInv

LEMMA InitJudged == Init => Judged
<1> SUFFICES ASSUME Init PROVE Judged
  OBVIOUS
<1>1. BodyInit \/ NoBody
  BY DEF Init
<1>2. PICK frames \in Framings : ReaderInit /\ RequestInv(frames) /\ Arrived(frames)
  BY <1>1, InitBody
<1> QED BY <1>2, StartsInPlace DEF Judged

LEMMA NextJudged == Judged /\ [Next]_vars => Judged'
<1> SUFFICES ASSUME Judged, [Next]_vars PROVE Judged'
  OBVIOUS
<1>1. PICK frames \in Framings : JudgeInv(frames)
  BY DEF Judged
<1>2. JudgeInv(frames)'
  BY <1>1, StepsOfBody, JudgeStep, JudgeStays
<1> QED BY <1>2 DEF Judged

(* A body of which the end is missing is not accepted, unless it is cut      *)
(* inside a frame and the client declared less than its frames hold          *)
(* (chunkReader.openChunk, readTrailers, verifyReader.finish).               *)
THEOREM CutsNoticed == Spec => []CutIsNoticed
<1>1. Judged => CutIsNoticed
  BY DEF Judged, JudgeInv
<1> QED BY <1>1, InitJudged, NextJudged, PTL DEF Spec

(* What arrives as it was sent, within the limits and of the length that was *)
(* declared, is not refused, in whatever pieces the network delivers it.     *)
THEOREM RefusalsHaveCause == Spec => []RefusedForCause
<1>1. Judged => RefusedForCause
  BY DEF Judged, JudgeInv
<1> QED BY <1>1, InitJudged, NextJudged, PTL DEF Spec

-------------------------------------------------------------------------------
(* How the body is read.  The keys of the server are whole, and a request    *)
(* that got past Verify is framed as it was signed: the signature covers the *)
(* payload (HeaderError), and a presigned URL has none (PresignError).       *)
Framing ==
    /\ {req.framed, req.signed, req.trailers} \subseteq BOOLEAN
    /\ req.signed \/ req.trailers <=> req.framed

ServerType ==
    /\ pc \in {"idle", "asks", "blocked", "sent", "authorize", "route", "body", "answered", "lost"}
    /\ now \in 0..trip.until
    /\ proc \in {"down", "new", "opened", "written", "up"}
    /\ Listens => keys \in WholeKeys
    /\ file \in Key \cup {Broken, Unset} /\ known \subseteq Key

OnItsWay ==
    /\ trip.auth = "presign" => ~ req.framed
    /\ sent = Signed(trip, PayloadOf(req))
    /\ pc # "idle" => came \in {sent} \cup Astray(sent)

VerifiedInv ==
    /\ pc \in {"idle", "asks", "blocked", "sent", "authorize", "route"} => op = None
    /\ op # None \/ pc \in {"route", "body"} => ar.err = "none" /\ ar.by \in WholeKeys
    /\ pc \in {"route", "body"} => ar.payload = PayloadOf(req)

TypeInv == Inv /\ SomeBody /\ Framing /\ ServerType /\ OnItsWay /\ VerifiedInv

LEMMA InitFraming ==
    ASSUME BodyInit \/ NoBody
    PROVE  Framing
<1>1. CASE NoBody
  BY <1>1 DEF NoBody, Request, Framing
<1>2. CASE BodyInit
  <2>1. ASSUME NEW frames, NEW framed \in BOOLEAN, NEW signed \in BOOLEAN, NEW trailers \in BOOLEAN,
               NEW digest, NEW declared, NEW max, signed \/ trailers <=> framed,
               req = Request(frames, framed, signed, trailers, digest, declared, max)
        PROVE  Framing
    BY <2>1 DEF Request, Framing
  <2> QED BY <1>2, <2>1, ZenonT(60) DEF BodyInit
<1> QED BY <1>1, <1>2

(* What is served.  A request that got past Verify has the signature that    *)
(* was made of the request that was sent, so the two agree on everything     *)
(* that is covered; and nothing else was changed.                            *)
RequestIs(r) == r = [method |-> r.method, path |-> r.path, query |-> r.query, headers |-> r.headers,
                     authz |-> r.authz, presign |-> r.presign]
HeadersAre(h) == h = [host |-> h.host, date |-> h.date, payload |-> h.payload, copy |-> h.copy]
CredIs(c0) == c0 = [access |-> c0.access, day |-> c0.day, region |-> c0.region]
SigIs(g) == g = [key |-> g.key, date |-> g.date, scope |-> g.scope, canon |-> g.canon]
AuthzIs(a) == a = [cred |-> a.cred, signed |-> a.signed, sig |-> a.sig] /\ CredIs(a.cred) /\ SigIs(a.sig)

(* A signature is altered in its date only. *)
SameBut(g, f) == g.key = f.key /\ g.scope = f.scope /\ g.canon = f.canon

(* A request that is signed in a header. *)
LEMMA HeaderSigned ==
    ASSUME NEW t, t.auth = "header", NEW payload
    PROVE  LET s == Signed(t, payload) a == s.authz IN
           /\ RequestIs(s) /\ HeadersAre(s.headers) /\ AuthzIs(a) /\ s.presign = None
           /\ s.headers.date = t.signed /\ s.headers.payload = payload
           /\ AlwaysSigned \subseteq a.signed /\ (s.headers.copy # None => "copy" \in a.signed)
           /\ a.cred.access = t.signer.access /\ a.cred.day = DayOf(t.signed)
           /\ a.sig.date = t.signed /\ a.sig.key = signingKey(t.signer.secret, a.cred.day, a.cred.region)
           /\ a.sig.scope = <<a.cred.day, a.cred.region>>
           /\ a.sig.canon = [method |-> s.method, path |-> s.path, query |-> s.query, presign |-> None,
                             headers |-> [h \in a.signed |-> s.headers[h]], payload |-> payload]
<1> DEFINE q == Unsigned(t, payload)
           dated == [q EXCEPT !.headers.date = t.signed]
           cred == [access |-> t.signer.access, day |-> DayOf(t.signed), region |-> "auto"]
           signed == SignedHeaders(q)
           canon == canonicalRequest(dated, signed, q.headers.payload, FALSE)
           b == [cred |-> cred, signed |-> signed, sig |-> sign(cred, t.signer.secret, t.signed, canon)]
           s == Signed(t, payload)
<1>1. s = [dated EXCEPT !.authz = b]
  BY DEF Signed, Sign
<1>2. /\ q = [method |-> q.method, path |-> q.path, query |-> q.query, headers |-> q.headers,
              authz |-> None, presign |-> None]
      /\ q.headers = [host |-> q.headers.host, date |-> None, payload |-> payload, copy |-> q.headers.copy]
  BY DEF Unsigned
<1> HIDE DEF q
<1>3. /\ dated = [method |-> q.method, path |-> q.path, query |-> q.query, headers |-> dated.headers,
                  authz |-> None, presign |-> None]
      /\ dated.headers = [host |-> q.headers.host, date |-> t.signed, payload |-> payload,
                          copy |-> q.headers.copy]
  BY <1>2
<1>4. AlwaysSigned \subseteq signed /\ (q.headers.copy # None => "copy" \in signed)
  BY DEF SignedHeaders
<1>5. canon = [method |-> q.method, path |-> q.path, query |-> q.query, presign |-> None,
               headers |-> [h \in signed |-> dated.headers[h]], payload |-> payload]
  BY <1>2, <1>3 DEF canonicalRequest
<1> HIDE DEF canon, signed, dated
<1>6. /\ AuthzIs(b) /\ b.cred = cred /\ b.signed = signed /\ b.sig.canon = canon /\ b.sig.date = t.signed
      /\ b.sig.key = signingKey(t.signer.secret, cred.day, cred.region)
      /\ b.sig.scope = <<cred.day, cred.region>>
  BY DEF AuthzIs, CredIs, SigIs, sign
<1> HIDE DEF b
<1>7. s = [method |-> q.method, path |-> q.path, query |-> q.query, headers |-> dated.headers,
           authz |-> b, presign |-> None]
  BY <1>1, <1>3
<1> HIDE DEF s
<1>8. /\ s.method = q.method /\ s.path = q.path /\ s.query = q.query /\ s.headers = dated.headers
      /\ s.authz = b /\ s.presign = None /\ RequestIs(s)
  BY <1>7 DEF RequestIs
<1>9. HeadersAre(s.headers) /\ s.headers.date = t.signed /\ s.headers.payload = payload /\ s.headers.copy = q.headers.copy
  BY <1>3, <1>8 DEF HeadersAre
<1>10. cred.access = t.signer.access /\ cred.day = DayOf(t.signed)
  OBVIOUS
<1> HIDE DEF cred
<1> QED BY <1>4, <1>5, <1>6, <1>8, <1>9, <1>10 DEF s

(* An Authorization that cannot be parsed is refused, on a presigned URL too.*)
LEMMA GarbledRefused ==
    ASSUME NEW r, NEW key, NEW time, Verify(r, key, time).err = "none" PROVE r.authz # Garbled
<1> SUFFICES ASSUME r.authz = Garbled PROVE FALSE
  OBVIOUS
<1>1. ~ Presigned(r)
  BY NoneAssumption DEF Presigned
<1>2. HeaderError(r, key, time) = "malformed"
  BY NoneAssumption DEF HeaderError, Garbled
<1> QED BY <1>1, <1>2 DEF Verify

(* What it may have become. *)
LEMMA HeaderAstray ==
    ASSUME NEW s, RequestIs(s), HeadersAre(s.headers), s.authz # None, AuthzIs(s.authz), s.presign = None,
           NEW r \in {s} \cup Astray(s), r.authz # Garbled
    PROVE  /\ RequestIs(r) /\ HeadersAre(r.headers) /\ r.presign = None
           /\ r.headers.copy \in {s.headers.copy, None}
           /\ r.authz # None => AuthzIs(r.authz) /\ SameBut(r.authz.sig, s.authz.sig)
<1> DEFINE a == s.authz
           h == s.headers
           Kept(v) == /\ RequestIs(v) /\ HeadersAre(v.headers) /\ v.presign = None
                      /\ v.headers.copy \in {h.copy, None}
                      /\ v.authz # None => AuthzIs(v.authz) /\ SameBut(v.authz.sig, a.sig)
           Good(b) == b # None => AuthzIs(b) /\ SameBut(b.sig, a.sig)
<1>1. Kept(s) /\ Good(a)
  BY DEF SameBut
<1>2. ASSUME NEW m PROVE Kept([s EXCEPT !.method = m]) /\ Kept([s EXCEPT !.path = m]) /\ Kept([s EXCEPT !.query = m])
  BY <1>1 DEF RequestIs
<1>3. ASSUME NEW g, HeadersAre(g), g.copy \in {h.copy, None} PROVE Kept([s EXCEPT !.headers = g])
  BY <1>1, <1>3 DEF RequestIs
<1>4. ASSUME NEW b, Good(b) PROVE Kept([s EXCEPT !.authz = b])
  BY <1>1, <1>4 DEF RequestIs
<1>5. ASSUME NEW m
      PROVE  /\ HeadersAre([h EXCEPT !.host = m]) /\ [h EXCEPT !.host = m].copy = h.copy
             /\ HeadersAre([h EXCEPT !.date = m]) /\ [h EXCEPT !.date = m].copy = h.copy
             /\ HeadersAre([h EXCEPT !.payload = m]) /\ [h EXCEPT !.payload = m].copy = h.copy
             /\ HeadersAre([h EXCEPT !.copy = m]) /\ [h EXCEPT !.copy = m].copy = m
  BY DEF HeadersAre
<1>6. ASSUME NEW m PROVE Good([a EXCEPT !.signed = m])
  BY DEF AuthzIs, CredIs, SigIs, SameBut
<1>7. ASSUME NEW m PROVE Good([a EXCEPT !.cred = [a.cred EXCEPT !.access = m]])
                         /\ Good([a EXCEPT !.cred = [a.cred EXCEPT !.region = m]])
                         /\ Good([a EXCEPT !.cred = [a.cred EXCEPT !.day = m]])
  BY DEF AuthzIs, CredIs, SigIs, SameBut
<1>8. ASSUME NEW m PROVE Good([a EXCEPT !.sig = [a.sig EXCEPT !.date = m]])
  BY DEF AuthzIs, CredIs, SigIs, SameBut
<1>9. ASSUME NEW b \in OtherCred(a) \cup {None, OtherSig(a)} PROVE Good(b)
  <2>1. \/ b = None
        \/ \E m : \/ b = [a EXCEPT !.cred = [a.cred EXCEPT !.access = m]]
                  \/ b = [a EXCEPT !.cred = [a.cred EXCEPT !.region = m]]
                  \/ b = [a EXCEPT !.cred = [a.cred EXCEPT !.day = m]]
                  \/ b = [a EXCEPT !.sig = [a.sig EXCEPT !.date = m]]
    <3>1. b \in OtherCred(a) =>
            \E m : \/ b = [a EXCEPT !.cred = [a.cred EXCEPT !.access = m]]
                   \/ b = [a EXCEPT !.cred = [a.cred EXCEPT !.region = m]]
                   \/ b = [a EXCEPT !.cred = [a.cred EXCEPT !.day = m]]
      BY DEF OtherCred
    <3>2. b = OtherSig(a) => \E m : b = [a EXCEPT !.sig = [a.sig EXCEPT !.date = m]]
      BY DEF OtherSig
    <3> QED BY <3>1, <3>2
  <2>2. b = None => Good(b)
    OBVIOUS
  <2> HIDE DEF Good
  <2> QED BY <1>7, <1>8, <2>1, <2>2
<1>0. r # [s EXCEPT !.authz = Garbled]
  BY DEF RequestIs
<1>10. ASSUME r \in Astray(s)
       PROVE  \/ \E m : r = [s EXCEPT !.method = m] \/ r = [s EXCEPT !.path = m] \/ r = [s EXCEPT !.query = m]
              \/ \E m : \/ r = [s EXCEPT !.headers = [h EXCEPT !.host = m]]
                        \/ r = [s EXCEPT !.headers = [h EXCEPT !.date = m]]
                        \/ r = [s EXCEPT !.headers = [h EXCEPT !.payload = m]]
              \/ r = [s EXCEPT !.headers = [h EXCEPT !.copy = None]]
              \/ \E b \in OtherCred(a) \cup {None, OtherSig(a)} : r = [s EXCEPT !.authz = b]
              \/ \E m : r = [s EXCEPT !.authz = [a EXCEPT !.signed = m]]
  BY <1>0, <1>10 DEF Astray
<1> HIDE DEF Good, a, h
<1>11. r \in Astray(s) => Kept(r)
  <2>1. ASSUME NEW m, \/ r = [s EXCEPT !.headers = [h EXCEPT !.host = m]]
                      \/ r = [s EXCEPT !.headers = [h EXCEPT !.date = m]]
                      \/ r = [s EXCEPT !.headers = [h EXCEPT !.payload = m]]
        PROVE  Kept(r)
    <3> HIDE DEF Kept
    <3>1. CASE r = [s EXCEPT !.headers = [h EXCEPT !.host = m]]
      BY <1>3, <1>5, <3>1
    <3>2. CASE r = [s EXCEPT !.headers = [h EXCEPT !.date = m]]
      BY <1>3, <1>5, <3>2
    <3>3. CASE r = [s EXCEPT !.headers = [h EXCEPT !.payload = m]]
      BY <1>3, <1>5, <3>3
    <3> QED BY <2>1, <3>1, <3>2, <3>3
  <2>2. Kept([s EXCEPT !.headers = [h EXCEPT !.copy = None]])
    <3> HIDE DEF Kept
    <3> QED BY <1>3, <1>5
  <2> HIDE DEF Kept
  <2>3. (\E m : r = [s EXCEPT !.method = m] \/ r = [s EXCEPT !.path = m] \/ r = [s EXCEPT !.query = m]) => Kept(r)
    BY <1>2
  <2>4. ASSUME NEW b \in OtherCred(a) \cup {None, OtherSig(a)}, r = [s EXCEPT !.authz = b] PROVE Kept(r)
    BY <1>4, <1>9, <2>4
  <2>5. ASSUME NEW m, r = [s EXCEPT !.authz = [a EXCEPT !.signed = m]] PROVE Kept(r)
    BY <1>4, <1>6, <2>5
  <2> QED BY <1>10, <2>1, <2>2, <2>3, <2>4, <2>5, Zenon
<1> QED BY <1>1, <1>11 DEF a, h, Good

LEMMA FieldsOfSig ==
    ASSUME NEW m1, NEW m2, NEW p1, NEW p2, NEW q1, NEW q2, NEW x1, NEW x2, NEW y1, NEW y2,
           NEW S1, NEW S2, NEW f1, NEW f2,
           [method |-> m1, path |-> p1, query |-> q1, presign |-> x1,
            headers |-> [h \in S1 |-> f1[h]], payload |-> y1]
           = [method |-> m2, path |-> p2, query |-> q2, presign |-> x2,
              headers |-> [h \in S2 |-> f2[h]], payload |-> y2]
    PROVE  m1 = m2 /\ p1 = p2 /\ q1 = q2 /\ x1 = x2 /\ y1 = y2 /\ S1 = S2 /\ \A h \in S1 : f1[h] = f2[h]
<1>1. m1 = m2 /\ p1 = p2 /\ q1 = q2 /\ x1 = x2 /\ y1 = y2 /\ [h \in S1 |-> f1[h]] = [h \in S2 |-> f2[h]]
  OBVIOUS
<1>2. S1 = S2
  <2>1. DOMAIN [h \in S1 |-> f1[h]] = S1 /\ DOMAIN [h \in S2 |-> f2[h]] = S2
    OBVIOUS
  <2> QED BY <1>1, <2>1
<1>3. ASSUME NEW h \in S1 PROVE f1[h] = f2[h]
  <2>1. [g \in S1 |-> f1[g]][h] = f1[h] /\ [g \in S2 |-> f2[g]][h] = f2[h]
    BY <1>2
  <2> QED BY <1>1, <2>1
<1> QED BY <1>1, <1>2, <1>3

(* What was signed in a header and got past Verify. *)
LEMMA HeaderGenuine ==
    ASSUME NEW t, t.auth = "header", NEW payload, t.signed \in Nat,
           Signed(t, payload).authz # None,
           NEW r \in {Signed(t, payload)} \cup Astray(Signed(t, payload)),
           NEW key, NEW time \in Nat, Verify(r, key, time).err = "none"
    PROVE  /\ r = WithAccess(Signed(t, payload), key) /\ t.signer.secret = key.secret
           /\ t.signed - Skew <= time /\ time <= t.signed + Skew
<1> DEFINE s == Signed(t, payload)
           a == s.authz
           b == r.authz
<1>1. /\ RequestIs(s) /\ HeadersAre(s.headers) /\ AuthzIs(a) /\ s.presign = None
      /\ s.headers.date = t.signed /\ s.headers.payload = payload
      /\ AlwaysSigned \subseteq a.signed /\ (s.headers.copy # None => "copy" \in a.signed)
      /\ a.sig.date = t.signed /\ a.sig.key = signingKey(t.signer.secret, a.cred.day, a.cred.region)
      /\ a.sig.scope = <<a.cred.day, a.cred.region>>
      /\ a.sig.canon = [method |-> s.method, path |-> s.path, query |-> s.query, presign |-> None,
                        headers |-> [h \in a.signed |-> s.headers[h]], payload |-> payload]
  BY HeaderSigned
<1> HIDE DEF s
<1>2. /\ RequestIs(r) /\ HeadersAre(r.headers) /\ r.presign = None
      /\ r.headers.copy \in {s.headers.copy, None}
      /\ b # None => AuthzIs(b) /\ SameBut(b.sig, a.sig)
  BY <1>1, HeaderAstray, GarbledRefused DEF s
<1>3. HeaderError(r, key, time) = "none"
  BY <1>2 DEF Verify, Presigned
<1>4. b # None /\ b.cred.access = key.access /\ ~ Skewed(r.headers.date, time)
  BY <1>3, Zenon DEF HeaderError
<1>5. b.sig = sign(b.cred, key.secret, r.headers.date, canonicalRequest(r, b.signed, r.headers.payload, FALSE))
  BY <1>3, Zenon DEF HeaderError
<1>6. /\ b.sig.key = signingKey(key.secret, b.cred.day, b.cred.region)
      /\ b.sig.scope = <<b.cred.day, b.cred.region>> /\ b.sig.date = r.headers.date
      /\ b.sig.canon = [method |-> r.method, path |-> r.path, query |-> r.query, presign |-> None,
                        headers |-> [h \in b.signed |-> r.headers[h]], payload |-> r.headers.payload]
  BY <1>2, <1>5 DEF sign, canonicalRequest
<1> HIDE DEF a, b
<1>7. b.sig.key = a.sig.key /\ b.sig.scope = a.sig.scope /\ b.sig.canon = a.sig.canon
  BY <1>2, <1>4 DEF SameBut
<1>8. key.secret = t.signer.secret /\ b.cred.day = a.cred.day /\ b.cred.region = a.cred.region
  BY <1>1, <1>6, <1>7 DEF signingKey
<1>9. /\ r.method = s.method /\ r.path = s.path /\ r.query = s.query
      /\ b.signed = a.signed /\ \A h \in a.signed : r.headers[h] = s.headers[h]
  <2>1. [method |-> r.method, path |-> r.path, query |-> r.query, presign |-> None,
         headers |-> [h \in b.signed |-> r.headers[h]], payload |-> r.headers.payload]
        = [method |-> s.method, path |-> s.path, query |-> s.query, presign |-> None,
           headers |-> [h \in a.signed |-> s.headers[h]], payload |-> payload]
    BY <1>1, <1>6, <1>7, Zenon
  <2> QED BY <2>1, FieldsOfSig
<1>10. r.headers = s.headers /\ r.headers.date = t.signed
  <2>1. r.headers.host = s.headers.host /\ r.headers.date = s.headers.date /\ r.headers.payload = s.headers.payload
    BY <1>1, <1>9 DEF AlwaysSigned
  <2>2. r.headers.copy = s.headers.copy
    BY <1>1, <1>2, <1>9
  <2> QED BY <1>1, <1>2, <2>1, <2>2 DEF HeadersAre
<1>11. b = [a EXCEPT !.cred.access = key.access]
  <2>1. b.sig = a.sig
    BY <1>1, <1>2, <1>4, <1>6, <1>7, <1>10 DEF AuthzIs, SigIs
  <2>2. b.cred = [a.cred EXCEPT !.access = key.access]
    BY <1>1, <1>2, <1>4, <1>8 DEF AuthzIs, CredIs
  <2> QED BY <1>1, <1>2, <1>4, <1>9, <2>1, <2>2 DEF AuthzIs
<1>12. r = [s EXCEPT !.authz = b]
  BY <1>1, <1>2, <1>9, <1>10 DEF RequestIs, b
<1>13. r = WithAccess(s, key)
  <2>1. a # None
    BY DEF a, s
  <2>2. WithAccess(s, key) = [s EXCEPT !.authz = [a EXCEPT !.cred.access = key.access]]
    BY <2>1 DEF WithAccess, a
  <2> QED BY <1>11, <1>12, <2>2
<1>14. t.signed - Skew <= time /\ time <= t.signed + Skew
  BY <1>4, <1>10, ClockAssumption DEF Skewed
<1> QED BY <1>8, <1>13, <1>14 DEF s

LEMMA PayloadIsSigned ==
    ASSUME NEW t, t.auth = "header", NEW payload, t.signed \in Nat,
           Signed(t, payload).authz # None,
           NEW r, r \in {Signed(t, payload)} \cup Astray(Signed(t, payload)),
           NEW key, NEW time, time \in Nat, Verify(r, key, time).err = "none"
    PROVE  Verify(r, key, time).payload = payload
<1> DEFINE s == Signed(t, payload)
<1>1. RequestIs(s) /\ s.presign = None /\ s.headers.payload = payload
  <2> DEFINE a == s.authz
  <2>1. /\ RequestIs(s) /\ HeadersAre(s.headers) /\ AuthzIs(a) /\ s.presign = None
        /\ s.headers.date = t.signed /\ s.headers.payload = payload
        /\ AlwaysSigned \subseteq a.signed /\ (s.headers.copy # None => "copy" \in a.signed)
        /\ a.sig.date = t.signed /\ a.sig.key = signingKey(t.signer.secret, a.cred.day, a.cred.region)
        /\ a.sig.scope = <<a.cred.day, a.cred.region>>
        /\ a.sig.canon = [method |-> s.method, path |-> s.path, query |-> s.query, presign |-> None,
                          headers |-> [h \in a.signed |-> s.headers[h]], payload |-> payload]
    BY HeaderSigned
  <2> QED BY <2>1
<1>2. r = WithAccess(s, key)
  BY HeaderGenuine
<1> HIDE DEF s
<1>3. r.presign = None /\ r.headers.payload = payload
  BY <1>1, <1>2 DEF WithAccess, RequestIs
<1> QED BY <1>3 DEF Verify, Presigned

(* Of a request that is not signed in a header a presigned one gets past     *)
(* Verify, and it has no hash of a body.                                     *)
LEMMA NoPayload ==
    ASSUME NEW t, t.auth \in {"presign", "none"}, NEW payload, NEW r,
           r \in {Signed(t, payload)} \cup Astray(Signed(t, payload)),
           NEW key, NEW time, Verify(r, key, time).err = "none"
    PROVE  t.auth = "presign" /\ Verify(r, key, time).payload = "UNSIGNED-PAYLOAD"
<1> DEFINE s == Signed(t, payload)
           q == Unsigned(t, payload)
<1>1. /\ s = [method |-> s.method, path |-> s.path, query |-> s.query, headers |-> s.headers,
              authz |-> None, presign |-> s.presign]
      /\ t.auth = "none" => s.presign = None
  <2>1. q = [method |-> q.method, path |-> q.path, query |-> q.query, headers |-> q.headers,
             authz |-> None, presign |-> None]
    BY DEF Unsigned
  <2> HIDE DEF q
  <2>2. CASE t.auth = "none"
    <3>1. s = q
      BY <2>2 DEF Signed, q
    <3> HIDE DEF s
    <3> QED BY <2>1, <3>1
  <2>3. CASE t.auth = "presign"
    <3>1. s = Presign(q, t.signer, "auto", t.expires, t.signed)
      BY <2>3 DEF Signed, q
    <3>2. PICK p : s = [q EXCEPT !.presign = p]
      BY <2>1, <3>1 DEF Presign
    <3> HIDE DEF s
    <3> QED BY <2>1, <2>3, <3>2
  <2> QED BY <2>2, <2>3
<1> HIDE DEF s
<1> DEFINE Kept(v) == v.authz = None /\ (s.presign = None => v.presign = None)
<1>2. ASSUME NEW m
      PROVE  /\ Kept([s EXCEPT !.method = m]) /\ Kept([s EXCEPT !.path = m])
             /\ Kept([s EXCEPT !.query = m]) /\ Kept([s EXCEPT !.headers = m])
             /\ s.presign # None => Kept([s EXCEPT !.presign = m])
  BY <1>1
<1>3. Kept(r)
  <2>1. CASE r = s
    BY <1>1, <2>1
  <2>2. CASE r \in Astray(s)
    <3>1. s.authz = None /\ r # [s EXCEPT !.authz = Garbled]
      BY <1>1, GarbledRefused
    <3> DEFINE Gone == {[s EXCEPT !.presign = p] : p \in OtherCred(s.presign) \cup {OtherSig(s.presign)}}
                         \cup {[s EXCEPT !.presign.expires = @ + 1], [s EXCEPT !.presign.date = @ + 1],
                               [s EXCEPT !.presign.signed = {}]}
    <3>2. r \in Gone => \E m : r = [s EXCEPT !.presign = m]
      OBVIOUS
    <3>3. \/ \E m : r = [s EXCEPT !.method = m] \/ r = [s EXCEPT !.path = m] \/ r = [s EXCEPT !.query = m]
          \/ \E m : r = [s EXCEPT !.headers = m]
          \/ s.presign # None /\ r \in Gone
      BY <2>2, <3>1 DEF Astray
    <3> HIDE DEF Kept, Gone
    <3> QED BY <1>2, <3>2, <3>3, ZenonT(60)
  <2> QED BY <2>1, <2>2 DEF s
<1>4. Presigned(r)
  <2>1. ~ Presigned(r) => Verify(r, key, time).err = "missing"
    BY <1>3 DEF Verify, HeaderError
  <2> QED BY <2>1
<1>5. t.auth = "presign"
  BY <1>1, <1>3, <1>4 DEF Presigned
<1> QED BY <1>4, <1>5 DEF Verify

(* The server reads the body as the payload says. *)
LEMMA PayloadTells ==
    ASSUME Framing, NEW a, a.payload = PayloadOf(req)
    PROVE  req.framed = Streaming(a) /\ req.signed = SignedChunks(a) /\ req.trailers = HasTrailers(a)
BY DEF Framing, PayloadOf, Streaming, SignedChunks, HasTrailers

LEMMA StepsOfServer ==
    ASSUME [Next]_vars
    PROVE  trip' = trip /\ sent' = sent /\ req' = req
<1>1. CASE Body
  BY <1>1 DEF Body, front, openBody, Read, Refuse, PlainRead, ChunkRead, ReadAgain, BadSizeLine,
              ClosingFrame, StopInFrame, ReadFrame
<1>2. CASE Send \/ Tick \/ Preflight \/ WriteHeaders \/ Authorize \/ Route \/ Begin \/ Die \/ UNCHANGED vars
  BY <1>2 DEF Send, Tick, Preflight, WriteHeaders, Authorize, Route, Begin, Die, vars, body, front
<1>3. CASE StartUp /\ UNCHANGED <<body, front>>
  BY <1>3 DEF body, front
<1> QED BY <1>1, <1>2, <1>3 DEF Next, Handle

(* The keys. *)
KeysType ==
    /\ proc \in {"down", "new", "opened", "written", "up"}
    /\ Listens => keys \in WholeKeys
    /\ file \in Key \cup {Broken, Unset} /\ known \subseteq Key

LEMMA KeysAreWhole == Key \subseteq WholeKeys
<1> SUFFICES ASSUME NEW k \in Key PROVE k \in WholeKeys
  OBVIOUS
<1>1. k = [access |-> k.access, secret |-> k.secret] /\ Unset \notin {k.access, k.secret}
  BY KeyAssumption
<1>2. k \in Settings
  BY <1>1 DEF Settings
<1> QED BY <1>1, <1>2 DEF WholeKeys

LEMMA StartTypes ==
    ASSUME KeysType, NEW set \in Settings, Start(set)
    PROVE  KeysType'
<1>1. CASE set # NoVariables
  <2>1. Unset \notin {set.access, set.secret} => set \in WholeKeys
    BY DEF WholeKeys
  <2> QED BY <1>1, <2>1 DEF KeysType, Listens, Start, Load, Fail, Ready
<1>2. CASE set = NoVariables
  BY <1>2, KeysAreWhole DEF KeysType, Listens, Start, Load, Fail, Ready, Renew
<1> QED BY <1>1, <1>2

LEMMA StartUpTypes ==
    ASSUME KeysInv, KeysType, StartUp
    PROVE  KeysType'
<1>1. CASE OpenFile
  BY <1>1 DEF OpenFile, KeysType, Listens
<1>2. CASE FillFile
  BY <1>2, KeysAreWhole DEF FillFile, KeysType, Listens
<1>3. CASE PrintKeys
  BY <1>3 DEF PrintKeys, KeysType, Listens
<1> QED BY <1>1, <1>2, <1>3 DEF StartUp

LEMMA KeysTypeStep ==
    ASSUME Inv, KeysType, [Next]_vars
    PROVE  KeysType'
<1>1. CASE UNCHANGED credentials
  BY <1>1 DEF credentials, KeysType, Listens
<1>2. CASE Begin
  <2>1. PICK set \in trip.settings : Start(set)
    BY <1>2 DEF Begin
  <2>2. set \in Settings
    BY <2>1, TripsAssumption DEF Inv
  <2> QED BY <2>1, <2>2, StartTypes
<1>3. CASE StartUp
  BY <1>3, StartUpTypes DEF Inv
<1>4. CASE Die
  BY <1>4 DEF Die, Kill, KeysType, Listens
<1> QED BY <1>1, <1>2, <1>3, <1>4
        DEF Next, vars, Send, Tick, Handle, Preflight, WriteHeaders, Authorize, Route, Body

LEMMA ServerTypeStep ==
    ASSUME TypeInv, [Next]_vars
    PROVE  ServerType'
<1>1. trip' = trip /\ trip.until \in Nat
  BY StepsOfServer, TripsAssumption DEF TypeInv, Inv
<1>2. KeysType'
  BY KeysTypeStep DEF TypeInv, ServerType, KeysType
<1>3. pc' \in {"idle", "asks", "blocked", "sent", "authorize", "route", "body", "answered", "lost"}
  BY DEF TypeInv, ServerType, Next, Handle, vars, front, Send, Tick, Preflight, WriteHeaders,
         Authorize, Route, Body, Begin, Die
<1>4. now' \in 0..trip.until
  <2>1. CASE Tick
    BY <1>1, <2>1 DEF TypeInv, ServerType, Tick
  <2>2. CASE now' = now
    BY <2>2 DEF TypeInv, ServerType
  <2> QED BY <2>1, <2>2 DEF Next, Handle, vars, front, Send, Preflight, WriteHeaders, Authorize,
                            Route, Body, Begin, Die
<1> QED BY <1>1, <1>2, <1>3, <1>4 DEF ServerType, KeysType

LEMMA OnItsWayStep ==
    ASSUME TypeInv, [Next]_vars
    PROVE  OnItsWay'
<1>1. trip' = trip /\ sent' = sent /\ req' = req
  BY StepsOfServer
<1>2. CASE Send
  BY <1>1, <1>2 DEF TypeInv, OnItsWay, Send, PayloadOf, Signed, Unsigned
<1>3. CASE came' = came /\ (pc' # "idle" => pc # "idle")
  BY <1>1, <1>3 DEF TypeInv, OnItsWay, PayloadOf
<1>4. CASE Preflight \/ WriteHeaders \/ Authorize \/ Route
  BY <1>3, <1>4 DEF Preflight, WriteHeaders, Authorize, Route
<1>5. CASE Tick \/ Body \/ Begin \/ (StartUp /\ UNCHANGED <<body, front>>) \/ Die \/ UNCHANGED vars
  BY <1>3, <1>5 DEF Tick, Body, Begin, Die, InHand, Reading, vars, front
<1> QED BY <1>2, <1>4, <1>5 DEF Next, Handle

(* What gets past Verify has the payload that was signed. *)
LEMMA AuthorizeTells ==
    ASSUME TypeInv, Authorize, ar'.err = "none"
    PROVE  ar'.by \in WholeKeys /\ ar'.payload = PayloadOf(req)
<1>1. /\ ar'.by = keys /\ keys \in WholeKeys
      /\ Verify(came, keys, now).err = "none" /\ ar'.payload = Verify(came, keys, now).payload
  BY DEF TypeInv, ServerType, Authorize
<1>2. came \in {Signed(trip, PayloadOf(req))} \cup Astray(Signed(trip, PayloadOf(req)))
  BY DEF TypeInv, OnItsWay, Authorize
<1>3. CASE trip.auth = "header"
  <2> DEFINE payload == PayloadOf(req)
             s == Signed(trip, payload)
  <2>1. trip \in Trips /\ trip.signed \in Nat /\ now \in Nat
    BY TripsAssumption DEF TypeInv, Inv, ServerType
  <2>2. payload \in Payloads /\ keys \in Settings
    BY <1>1 DEF PayloadOf, Payloads, WholeKeys
  <2> HIDE DEF payload
  <2>3. s.authz # None
    BY <1>3, <2>1, <2>2, NoneAssumption DEF WithAccess
  <2>4. came \in {s} \cup Astray(s)
    BY <1>2 DEF payload
  <2>5. Verify(came, keys, now).payload = payload
    <3>1. Verify(came, keys, now).err = "none"
      BY <1>1
    <3>2. /\ trip.signed \in Nat /\ now \in Nat /\ Signed(trip, payload).authz # None
          /\ came \in {Signed(trip, payload)} \cup Astray(Signed(trip, payload))
      BY <2>1, <2>3, <2>4
    <3> HIDE DEF s
    <3> QED BY <1>3, <3>1, <3>2, PayloadIsSigned
  <2> QED BY <1>1, <2>5 DEF payload
<1>4. CASE trip.auth \in {"presign", "none"}
  <2>1. trip.auth = "presign" /\ Verify(came, keys, now).payload = "UNSIGNED-PAYLOAD"
    BY <1>1, <1>2, <1>4, NoPayload
  <2>2. PayloadOf(req) = "UNSIGNED-PAYLOAD"
    BY <2>1 DEF TypeInv, OnItsWay, PayloadOf
  <2> QED BY <1>1, <2>1, <2>2
<1> QED BY <1>3, <1>4, <1>1, TripsAssumption DEF TypeInv, Inv

LEMMA VerifiedStep ==
    ASSUME TypeInv, [Next]_vars
    PROVE  VerifiedInv'
<1> USE DEF TypeInv, VerifiedInv
<1>1. PayloadOf(req)' = PayloadOf(req)
  BY StepsOfServer DEF PayloadOf
<1>2. CASE Send
  BY <1>2 DEF Send
<1>3. CASE Authorize
  <2>1. ar'.err = "none" => ar'.by \in WholeKeys /\ ar'.payload = PayloadOf(req)
    BY <1>3, AuthorizeTells
  <2>2. op' = None /\ pc' \in {"route", "answered"} /\ (pc' = "route" => ar'.err = "none")
    BY <1>3 DEF Authorize
  <2>3. WholeKeys' = WholeKeys
    BY DEF WholeKeys
  <2> QED BY <1>1, <2>1, <2>2, <2>3
<1>4. CASE Route
  BY <1>1, <1>4 DEF Route, WholeKeys
<1>5. CASE Preflight \/ WriteHeaders
  BY <1>1, <1>5 DEF Preflight, WriteHeaders, WholeKeys
<1>6. CASE Tick \/ Body \/ Begin \/ (StartUp /\ UNCHANGED <<body, front>>) \/ UNCHANGED vars
  BY <1>1, <1>6 DEF Tick, Body, Begin, vars, front, WholeKeys
<1>7. CASE Die
  BY <1>1, <1>7 DEF Die, WholeKeys
<1> QED BY <1>2, <1>3, <1>4, <1>5, <1>6, <1>7 DEF Next, Handle

LEMMA InitTypeInv == Init => TypeInv
<1> SUFFICES ASSUME Init PROVE TypeInv
  OBVIOUS
<1>1. Inv /\ SomeBody /\ Framing
  BY InitInv, InitSomeBody, InitFraming DEF Init
<1>2. ServerType
  BY <1>1, TripsAssumption DEF Init, CredentialsInit, ServerType, Inv, Listens
<1> QED BY <1>1, <1>2 DEF Init, TypeInv, OnItsWay, VerifiedInv

LEMMA NextTypeInv == TypeInv /\ [Next]_vars => TypeInv'
<1> SUFFICES ASSUME TypeInv, [Next]_vars PROVE TypeInv'
  OBVIOUS
<1>1. Inv' /\ SomeBody'
  BY NextInv, NextSomeBody DEF TypeInv
<1>2. Framing'
  BY StepsOfServer DEF TypeInv, Framing
<1> QED BY <1>1, <1>2, ServerTypeStep, OnItsWayStep, VerifiedStep DEF TypeInv

(* The types of the server, and with them what its steps rely on: only what  *)
(* Verify let pass is routed, the keys it is verified with are never empty   *)
(* (loadKeys), and the body is read the way the signed payload says          *)
(* (openBody), whatever became of the request on its way.                    *)
THEOREM TypesKept == Spec => []TypeOK
<1>1. ASSUME TypeInv PROVE TypeOK
  <2>1. BodyTypeOK
    BY <1>1, SomeBodyWhole DEF TypeInv
  <2>2. pc = "body" => req.framed = Streaming(ar) /\ req.signed = SignedChunks(ar) /\ req.trailers = HasTrailers(ar)
    BY <1>1, PayloadTells DEF TypeInv, VerifiedInv
  <2> QED BY <1>1, <2>1, <2>2 DEF TypeInv, TypeOK, ServerType, VerifiedInv
<1> QED BY <1>1, InitTypeInv, NextTypeInv, PTL DEF Spec
LEMMA HeaderPasses ==
    ASSUME NEW t, t.auth = "header", NEW payload, t.signed \in Nat, None \notin Nat \cup {payload},
           NEW key, t.signer.secret = key.secret, WithAccess(Signed(t, payload), key).authz # None,
           NEW time \in Nat,
           t.signed - Skew <= time, time <= t.signed + Skew
    PROVE  Verify(WithAccess(Signed(t, payload), key), key, time).err = "none"
<1> DEFINE s == Signed(t, payload)
           a == s.authz
           b == [a EXCEPT !.cred.access = key.access]
           r == WithAccess(s, key)
<1>1. /\ RequestIs(s) /\ HeadersAre(s.headers) /\ AuthzIs(a) /\ s.presign = None
      /\ s.headers.date = t.signed /\ s.headers.payload = payload
      /\ AlwaysSigned \subseteq a.signed /\ a.cred.day = DayOf(t.signed)
      /\ a.sig.date = t.signed /\ a.sig.key = signingKey(t.signer.secret, a.cred.day, a.cred.region)
      /\ a.sig.scope = <<a.cred.day, a.cred.region>>
      /\ a.sig.canon = [method |-> s.method, path |-> s.path, query |-> s.query, presign |-> None,
                        headers |-> [h \in a.signed |-> s.headers[h]], payload |-> payload]
  BY HeaderSigned
<1>2. s.authz # None /\ r.authz # None
  BY DEF WithAccess
<1> HIDE DEF s
<1>3. r = [s EXCEPT !.authz = b]
  BY <1>2 DEF WithAccess
<1>4. /\ b.signed = a.signed /\ b.sig = a.sig /\ b.cred.access = key.access
      /\ b.cred.day = a.cred.day /\ b.cred.region = a.cred.region
  BY <1>1 DEF AuthzIs, CredIs
<1> HIDE DEF r
<1>5. /\ r.method = s.method /\ r.path = s.path /\ r.query = s.query /\ r.headers = s.headers
      /\ r.authz = b /\ r.presign = None
  BY <1>1, <1>3 DEF RequestIs
<1> HIDE DEF a, b
<1>6. canonicalRequest(r, b.signed, payload, FALSE) = a.sig.canon
  BY <1>1, <1>4, <1>5 DEF canonicalRequest
<1>7. b.sig = sign(b.cred, key.secret, t.signed, canonicalRequest(r, b.signed, payload, FALSE))
  BY <1>1, <1>4, <1>6 DEF sign, AuthzIs, SigIs
<1>8. b.signed # {} /\ ~ Skewed(t.signed, time) /\ t.signed # None /\ payload # None
  BY <1>1, <1>4, ClockAssumption DEF AlwaysSigned, Skewed
<1>9. HeaderError(r, key, time) = "none"
  <2>1. /\ r.authz # None /\ r.authz.signed # {} /\ r.authz.cred.access = key.access
        /\ r.headers.date # None /\ DayOf(r.headers.date) = r.authz.cred.day
        /\ ~ Skewed(r.headers.date, time) /\ r.headers.payload # None
    BY <1>1, <1>2, <1>4, <1>5, <1>8
  <2>2. r.authz.sig = sign(r.authz.cred, key.secret, r.headers.date,
                           canonicalRequest(r, r.authz.signed, r.headers.payload, FALSE))
    BY <1>1, <1>5, <1>7
  <2> QED BY <2>1, <2>2, Zenon DEF HeaderError
<1>10. Verify(r, key, time).err = "none"
  BY <1>5, <1>9 DEF Verify, Presigned
<1> QED BY <1>10 DEF r, s

(* A presigned request. *)
PresignIs(p) == /\ p = [cred |-> p.cred, date |-> p.date, expires |-> p.expires, signed |-> p.signed, sig |-> p.sig]
                /\ CredIs(p.cred) /\ SigIs(p.sig)

LEMMA PresignSigned ==
    ASSUME NEW t, t.auth = "presign", NEW payload
    PROVE  LET s == Signed(t, payload) p == s.presign IN
           /\ RequestIs(s) /\ HeadersAre(s.headers) /\ s.authz = None /\ PresignIs(p)
           /\ p.date = t.signed /\ p.expires = t.expires /\ p.signed = {"host"}
           /\ p.cred.access = t.signer.access /\ p.cred.day = DayOf(t.signed)
           /\ p.sig.date = t.signed /\ p.sig.key = signingKey(t.signer.secret, p.cred.day, p.cred.region)
           /\ p.sig.scope = <<p.cred.day, p.cred.region>>
           /\ p.sig.canon = [method |-> s.method, path |-> s.path, query |-> s.query,
                             presign |-> [p EXCEPT !.sig = None],
                             headers |-> [h \in p.signed |-> s.headers[h]], payload |-> "UNSIGNED-PAYLOAD"]
<1> DEFINE q == Unsigned(t, payload)
           cred == [access |-> t.signer.access, day |-> DayOf(t.signed), region |-> "auto"]
           bare == [cred |-> cred, date |-> t.signed, expires |-> t.expires, signed |-> {"host"}, sig |-> None]
           open == [q EXCEPT !.presign = bare]
           canon == canonicalRequest(open, {"host"}, "UNSIGNED-PAYLOAD", TRUE)
           g == sign(cred, t.signer.secret, t.signed, canon)
           p == [bare EXCEPT !.sig = g]
           s == Signed(t, payload)
<1>1. s = [open EXCEPT !.presign.sig = g]
  BY DEF Signed, Presign
<1>2. /\ q = [method |-> q.method, path |-> q.path, query |-> q.query, headers |-> q.headers,
              authz |-> None, presign |-> None]
      /\ HeadersAre(q.headers)
  BY DEF Unsigned, HeadersAre
<1> HIDE DEF q
<1>3. open = [method |-> q.method, path |-> q.path, query |-> q.query, headers |-> q.headers,
              authz |-> None, presign |-> bare]
  BY <1>2
<1>4. canon = [method |-> q.method, path |-> q.path, query |-> q.query, presign |-> bare,
               headers |-> [h \in {"host"} |-> q.headers[h]], payload |-> "UNSIGNED-PAYLOAD"]
  <2>1. [bare EXCEPT !.sig = None] = bare
    OBVIOUS
  <2> HIDE DEF bare
  <2> QED BY <1>3, <2>1 DEF canonicalRequest
<1> HIDE DEF canon
<1>5. /\ SigIs(g) /\ g.date = t.signed /\ g.canon = canon
      /\ g.key = signingKey(t.signer.secret, cred.day, cred.region)
      /\ g.scope = <<cred.day, cred.region>>
  BY DEF sign, SigIs
<1> HIDE DEF g
<1>6. /\ PresignIs(p) /\ p.cred = cred /\ p.date = t.signed /\ p.expires = t.expires
      /\ p.signed = {"host"} /\ p.sig = g /\ [p EXCEPT !.sig = None] = bare
      /\ cred.access = t.signer.access /\ cred.day = DayOf(t.signed)
  <2>1. CredIs(cred) /\ cred.access = t.signer.access /\ cred.day = DayOf(t.signed)
    BY DEF CredIs
  <2> HIDE DEF cred
  <2>2. /\ p = [cred |-> cred, date |-> t.signed, expires |-> t.expires, signed |-> {"host"}, sig |-> g]
    OBVIOUS
  <2> HIDE DEF p
  <2>3. [p EXCEPT !.sig = None] = bare
    BY <2>2
  <2> HIDE DEF bare
  <2> QED BY <1>5, <2>1, <2>2, <2>3 DEF PresignIs
<1>7. s = [method |-> q.method, path |-> q.path, query |-> q.query, headers |-> q.headers,
           authz |-> None, presign |-> p]
  <2> HIDE DEF bare
  <2> QED BY <1>1, <1>3
<1> HIDE DEF s, p, bare, cred
<1>8. /\ s.method = q.method /\ s.path = q.path /\ s.query = q.query /\ s.headers = q.headers
      /\ s.authz = None /\ s.presign = p /\ RequestIs(s)
  BY <1>7 DEF RequestIs
<1> QED BY <1>2, <1>4, <1>5, <1>6, <1>8 DEF s

LEMMA PresignAstray ==
    ASSUME NEW s, RequestIs(s), HeadersAre(s.headers), s.authz = None, PresignIs(s.presign),
           NEW r \in {s} \cup Astray(s), r.authz # Garbled
    PROVE  /\ RequestIs(r) /\ HeadersAre(r.headers) /\ r.authz = None
           /\ r.headers = [s.headers EXCEPT !.host = r.headers.host]
           /\ PresignIs(r.presign) /\ SameBut(r.presign.sig, s.presign.sig)
<1> DEFINE p == s.presign
           h == s.headers
           Kept(v) == /\ RequestIs(v) /\ HeadersAre(v.headers) /\ v.authz = None
                      /\ v.headers = [h EXCEPT !.host = v.headers.host]
                      /\ PresignIs(v.presign) /\ SameBut(v.presign.sig, p.sig)
           Good(b) == PresignIs(b) /\ SameBut(b.sig, p.sig)
<1>1. Kept(s) /\ Good(p)
  BY DEF SameBut, HeadersAre
<1>2. ASSUME NEW m PROVE Kept([s EXCEPT !.method = m]) /\ Kept([s EXCEPT !.path = m]) /\ Kept([s EXCEPT !.query = m])
  BY <1>1 DEF RequestIs
<1>3. ASSUME NEW m PROVE Kept([s EXCEPT !.headers = [h EXCEPT !.host = m]])
  <2> DEFINE g == [h EXCEPT !.host = m]
  <2>1. HeadersAre(g) /\ g = [h EXCEPT !.host = g.host]
    BY DEF HeadersAre
  <2> HIDE DEF g
  <2>2. Kept([s EXCEPT !.headers = g])
    BY <1>1, <2>1 DEF RequestIs
  <2> QED BY <2>2 DEF g
<1>4. ASSUME NEW b, Good(b) PROVE Kept([s EXCEPT !.presign = b])
  BY <1>1, <1>4 DEF RequestIs
<1>5. ASSUME NEW m PROVE /\ Good([p EXCEPT !.signed = m]) /\ Good([p EXCEPT !.expires = m])
                         /\ Good([p EXCEPT !.date = m])
  BY DEF PresignIs, CredIs, SigIs, SameBut
<1>6. ASSUME NEW m PROVE Good([p EXCEPT !.cred = [p.cred EXCEPT !.access = m]])
                         /\ Good([p EXCEPT !.cred = [p.cred EXCEPT !.region = m]])
                         /\ Good([p EXCEPT !.cred = [p.cred EXCEPT !.day = m]])
  BY DEF PresignIs, CredIs, SigIs, SameBut
<1>7. ASSUME NEW m PROVE Good([p EXCEPT !.sig = [p.sig EXCEPT !.date = m]])
  BY DEF PresignIs, CredIs, SigIs, SameBut
<1>8. ASSUME NEW b \in OtherCred(p) \cup {OtherSig(p)} PROVE Good(b)
  <2>1. b \in OtherCred(p) =>
          \E m : \/ b = [p EXCEPT !.cred = [p.cred EXCEPT !.access = m]]
                 \/ b = [p EXCEPT !.cred = [p.cred EXCEPT !.region = m]]
                 \/ b = [p EXCEPT !.cred = [p.cred EXCEPT !.day = m]]
    BY DEF OtherCred
  <2>2. b = OtherSig(p) => \E m : b = [p EXCEPT !.sig = [p.sig EXCEPT !.date = m]]
    BY DEF OtherSig
  <2> HIDE DEF Good
  <2> QED BY <1>6, <1>7, <2>1, <2>2
<1> DEFINE Dated(m) == [s EXCEPT !.presign = [p EXCEPT !.date = m]]
           Longer(m) == [s EXCEPT !.presign = [p EXCEPT !.expires = m]]
           Bare(m) == [s EXCEPT !.presign = [p EXCEPT !.signed = m]]
<1>0. r # [s EXCEPT !.authz = Garbled]
  BY DEF RequestIs
<1>9. ASSUME r \in Astray(s)
      PROVE  \/ \E m : r = [s EXCEPT !.method = m] \/ r = [s EXCEPT !.path = m] \/ r = [s EXCEPT !.query = m]
             \/ \E m : r = [s EXCEPT !.headers = [h EXCEPT !.host = m]]
             \/ \E b \in OtherCred(p) \cup {OtherSig(p)} : r = [s EXCEPT !.presign = b]
             \/ r \in {Longer(p.expires + 1), Dated(p.date + 1), Bare({})}
  BY <1>0, <1>9 DEF Astray
<1> HIDE DEF Good, p, h
<1>10. ASSUME NEW m PROVE Kept(Dated(m)) /\ Kept(Longer(m)) /\ Kept(Bare(m))
  <2> HIDE DEF Kept
  <2> QED BY <1>4, <1>5
<1>11. r \in Astray(s) => Kept(r)
  <2> HIDE DEF Kept
  <2>1. (\E m : r = [s EXCEPT !.method = m] \/ r = [s EXCEPT !.path = m] \/ r = [s EXCEPT !.query = m]) => Kept(r)
    BY <1>2
  <2>2. (\E m : r = [s EXCEPT !.headers = [h EXCEPT !.host = m]]) => Kept(r)
    BY <1>3
  <2>3. ASSUME NEW b \in OtherCred(p) \cup {OtherSig(p)}, r = [s EXCEPT !.presign = b] PROVE Kept(r)
    BY <1>4, <1>8, <2>3
  <2> HIDE DEF Dated, Longer, Bare
  <2>4. r \in {Longer(p.expires + 1), Dated(p.date + 1), Bare({})} => Kept(r)
    BY <1>10
  <2> QED BY <1>9, <2>1, <2>2, <2>3, <2>4, Zenon
<1> QED BY <1>1, <1>11 DEF p, h, Good

(* An expiry that is accepted is not more than it says, though the product   *)
(* may have wrapped; and one within the limit does not wrap.                 *)
LEMMA ModFacts ==
    ASSUME NEW x \in Nat, NEW w \in Nat \ {0}
    PROVE  x % w \in 0..x /\ (x < w => x % w = x)
<1>1. x % w \in 0..(w - 1)
  OBVIOUS
<1>2. x < w => x % w = x
  OBVIOUS
<1> QED BY <1>1, <1>2

LEMMA DurationFacts ==
    ASSUME NEW n \in Int, n > 0
    PROVE  /\ n * Second \in Nat /\ Duration(n) \in Int /\ Duration(n) <= n * Second
           /\ n * Second <= MaxPresign => Duration(n) = n * Second
<1> DEFINE x == n * Second
<1>1. x \in Nat
  BY ClockAssumption
<1> HIDE DEF x
<1>2. Word \in Nat \ {0} /\ 2 * MaxPresign < Word /\ MaxPresign \in Nat
  BY ClockAssumption
<1>3. x % Word \in 0..x /\ (x < Word => x % Word = x)
  BY <1>1, <1>2, ModFacts
<1>4. Duration(n) = IF 2 * (x % Word) < Word THEN x % Word ELSE (x % Word) - Word
  BY DEF Duration, x
<1> DEFINE d == x % Word
<1> HIDE DEF d
<1>5. d \in 0..x /\ (x < Word => d = x) /\ Duration(n) = IF 2 * d < Word THEN d ELSE d - Word
  BY <1>3, <1>4 DEF d
<1> QED BY <1>1, <1>2, <1>5 DEF x

(* What was presigned and got past Verify. *)
LEMMA PresignGenuine ==
    ASSUME NEW t, t.auth = "presign", NEW payload, t.signed \in Nat, t.expires \in Int,
           NEW r \in {Signed(t, payload)} \cup Astray(Signed(t, payload)),
           NEW key, NEW time \in Nat, Verify(r, key, time).err = "none"
    PROVE  /\ r = Signed(t, payload)
           /\ t.signer.secret = key.secret /\ t.signer.access = key.access
           /\ t.signed - Skew <= time /\ 0 < t.expires
           /\ time <= t.signed + Lesser(t.expires * Second, MaxPresign)
<1> DEFINE s == Signed(t, payload)
           p == s.presign
           b == r.presign
<1>1. /\ RequestIs(s) /\ HeadersAre(s.headers) /\ s.authz = None /\ PresignIs(p)
      /\ p.date = t.signed /\ p.expires = t.expires /\ p.cred.access = t.signer.access
      /\ "host" \in p.signed
      /\ p.sig.date = t.signed /\ p.sig.key = signingKey(t.signer.secret, p.cred.day, p.cred.region)
      /\ p.sig.scope = <<p.cred.day, p.cred.region>>
      /\ p.sig.canon = [method |-> s.method, path |-> s.path, query |-> s.query,
                        presign |-> [p EXCEPT !.sig = None],
                        headers |-> [h \in p.signed |-> s.headers[h]], payload |-> "UNSIGNED-PAYLOAD"]
  BY PresignSigned
<1>2. PresignError(r, key, time) = "none"
  <2>1. r.authz = None
    <3>1. r.authz # Garbled
      BY GarbledRefused
    <3>2. r = s \/ r \in Astray(s)
      OBVIOUS
    <3> HIDE DEF s
    <3> QED BY <1>1, <3>1, <3>2, PresignAstray
  <2>2. ~ Presigned(r) => Verify(r, key, time).err = "missing"
    BY <2>1 DEF Verify, HeaderError
  <2> QED BY <2>2 DEF Verify
<1> HIDE DEF s
<1>3. /\ RequestIs(r) /\ HeadersAre(r.headers) /\ r.authz = None
      /\ r.headers = [s.headers EXCEPT !.host = r.headers.host]
      /\ PresignIs(b) /\ SameBut(b.sig, p.sig)
  BY <1>1, PresignAstray, GarbledRefused DEF s
<1> HIDE DEF p, b
<1>4. /\ b.cred.access = key.access /\ ~ BadExpiry(b.expires)
      /\ ~ (time < b.date - Skew \/ time > b.date + Duration(b.expires))
      /\ b.sig = sign(b.cred, key.secret, b.date, canonicalRequest(r, b.signed, "UNSIGNED-PAYLOAD", TRUE))
  BY <1>2, Zenon DEF PresignError, b
<1>5. /\ b.sig.key = signingKey(key.secret, b.cred.day, b.cred.region) /\ b.sig.date = b.date
      /\ b.sig.scope = <<b.cred.day, b.cred.region>>
      /\ b.sig.canon = [method |-> r.method, path |-> r.path, query |-> r.query,
                        presign |-> [b EXCEPT !.sig = None],
                        headers |-> [h \in b.signed |-> r.headers[h]], payload |-> "UNSIGNED-PAYLOAD"]
  BY <1>4 DEF sign, canonicalRequest, b
<1>6. b.sig.key = p.sig.key /\ b.sig.scope = p.sig.scope /\ b.sig.canon = p.sig.canon
  BY <1>3 DEF SameBut
<1>7. key.secret = t.signer.secret
  BY <1>1, <1>5, <1>6 DEF signingKey
<1>8. /\ r.method = s.method /\ r.path = s.path /\ r.query = s.query
      /\ b.signed = p.signed /\ \A h \in b.signed : r.headers[h] = s.headers[h]
      /\ [b EXCEPT !.sig = None] = [p EXCEPT !.sig = None]
  <2>1. [method |-> r.method, path |-> r.path, query |-> r.query, presign |-> [b EXCEPT !.sig = None],
         headers |-> [h \in b.signed |-> r.headers[h]], payload |-> "UNSIGNED-PAYLOAD"]
        = [method |-> s.method, path |-> s.path, query |-> s.query, presign |-> [p EXCEPT !.sig = None],
           headers |-> [h \in p.signed |-> s.headers[h]], payload |-> "UNSIGNED-PAYLOAD"]
    BY <1>1, <1>5, <1>6, Zenon
  <2> DEFINE x == [b EXCEPT !.sig = None] y == [p EXCEPT !.sig = None]
  <2> HIDE DEF x, y
  <2>2. [method |-> r.method, path |-> r.path, query |-> r.query, presign |-> x,
         headers |-> [h \in b.signed |-> r.headers[h]], payload |-> "UNSIGNED-PAYLOAD"]
        = [method |-> s.method, path |-> s.path, query |-> s.query, presign |-> y,
           headers |-> [h \in p.signed |-> s.headers[h]], payload |-> "UNSIGNED-PAYLOAD"]
    BY <2>1, Zenon DEF x, y
  <2>3. /\ r.method = s.method /\ r.path = s.path /\ r.query = s.query /\ x = y
        /\ b.signed = p.signed /\ \A h \in b.signed : r.headers[h] = s.headers[h]
    BY <2>2, FieldsOfSig
  <2> QED BY <2>3 DEF x, y
<1>9. r.headers = s.headers
  BY <1>1, <1>3, <1>8 DEF HeadersAre
<1>10. b.cred = p.cred /\ b.date = p.date /\ b.expires = p.expires
  BY <1>1, <1>3, <1>8 DEF PresignIs
<1>11. b = p
  <2>1. b.sig = p.sig
    BY <1>1, <1>3, <1>5, <1>6, <1>10 DEF PresignIs, SigIs
  <2> QED BY <1>1, <1>3, <1>8, <1>10, <2>1 DEF PresignIs
<1>12. r = s
  BY <1>1, <1>3, <1>8, <1>9, <1>11 DEF RequestIs, b, p
<1>13. /\ t.signed - Skew <= time /\ 0 < t.expires
       /\ time <= t.signed + Duration(t.expires) /\ Duration(t.expires) <= MaxPresign
  <2>1. b.date = t.signed /\ b.expires = t.expires
    BY <1>1, <1>10
  <2>2. 0 < t.expires /\ ~ (Duration(t.expires) > MaxPresign)
    BY <1>4, <2>1 DEF BadExpiry
  <2>3. Duration(t.expires) \in Int
    BY <2>2, DurationFacts
  <2> QED BY <1>4, <2>1, <2>2, <2>3, ClockAssumption
<1>14. time <= t.signed + Lesser(t.expires * Second, MaxPresign)
  <2>1. Duration(t.expires) <= t.expires * Second /\ t.expires * Second \in Nat /\ Duration(t.expires) \in Int
    BY <1>13, DurationFacts
  <2> QED BY <1>13, <2>1, ClockAssumption DEF Lesser
<1> QED BY <1>1, <1>4, <1>7, <1>10, <1>12, <1>13, <1>14 DEF s

LEMMA PresignPasses ==
    ASSUME NEW t, t.auth = "presign", NEW payload, t.signed \in Nat, t.expires \in Int, None \notin Nat,
           None \notin {Signed(t, payload).presign, Signed(t, payload).presign.sig},
           NEW key, t.signer.secret = key.secret, t.signer.access = key.access, NEW time \in Nat,
           0 < t.expires, t.expires * Second <= MaxPresign,
           t.signed - Skew <= time, time <= t.signed + t.expires * Second
    PROVE  Verify(Signed(t, payload), key, time).err = "none"
<1> DEFINE s == Signed(t, payload)
           p == s.presign
<1>1. /\ RequestIs(s) /\ HeadersAre(s.headers) /\ s.authz = None /\ PresignIs(p)
      /\ p.date = t.signed /\ p.expires = t.expires /\ p.cred.access = t.signer.access
      /\ "host" \in p.signed /\ p.cred.day = DayOf(t.signed)
      /\ p.sig.date = t.signed /\ p.sig.key = signingKey(t.signer.secret, p.cred.day, p.cred.region)
      /\ p.sig.scope = <<p.cred.day, p.cred.region>>
      /\ p.sig.canon = [method |-> s.method, path |-> s.path, query |-> s.query,
                        presign |-> [p EXCEPT !.sig = None],
                        headers |-> [h \in p.signed |-> s.headers[h]], payload |-> "UNSIGNED-PAYLOAD"]
  BY PresignSigned
<1>2. p # None /\ p.sig # None
  OBVIOUS
<1>3. Duration(t.expires) = t.expires * Second
  BY DurationFacts
<1> HIDE DEF s
<1>4. canonicalRequest(s, p.signed, "UNSIGNED-PAYLOAD", TRUE) = p.sig.canon
  BY <1>1 DEF canonicalRequest
<1> HIDE DEF p
<1>5. p.sig = sign(p.cred, key.secret, p.date, canonicalRequest(s, p.signed, "UNSIGNED-PAYLOAD", TRUE))
  BY <1>1, <1>4 DEF sign, PresignIs, SigIs
<1>6. ~ BadExpiry(p.expires)
  BY <1>1, <1>3, ClockAssumption DEF BadExpiry
<1>7. ~ (time < p.date - Skew \/ time > p.date + Duration(p.expires))
  <2>1. t.expires * Second \in Nat
    BY DurationFacts
  <2> QED BY <1>1, <1>3, <2>1, ClockAssumption
<1>8. p.cred.access = key.access /\ p.date # None /\ DayOf(p.date) = p.cred.day
  BY <1>1
<1>9. PresignError(s, key, time) = "none"
  BY <1>1, <1>2, <1>5, <1>6, <1>7, <1>8, Zenon DEF PresignError, p
<1>10. Verify(s, key, time).err = "none"
  BY <1>1, <1>2, <1>9 DEF Verify, Presigned, p
<1> QED BY <1>10 DEF s

(* The bases of the hosts: a host lies under one of them, or under none.     *)
LEMMA BasesListed == \E n \in Nat : DOMAIN Bases = 1..n
<1> DEFINE n == Cardinality(ToSet(Listed))
<1>1. DOMAIN Bases = 1..n
  BY DEF Bases
<1>2. n \in Nat
  <2>1. ToSet(Listed) = {<<"localhost">>, <<"127.0.0.1">>, Addr, Public}
    <3>1. DOMAIN Listed = {1, 2, 3, 4}
      BY DEF Listed
    <3> QED BY <3>1 DEF ToSet, Listed
  <2>2. IsFiniteSet({}) /\ \A S, x : IsFiniteSet(S) => IsFiniteSet(S \cup {x})
    BY FS_EmptySet, FS_AddElement
  <2>3. IsFiniteSet(((({} \cup {<<"localhost">>}) \cup {<<"127.0.0.1">>}) \cup {Addr}) \cup {Public})
    BY <2>2, Zenon
  <2>4. ToSet(Listed) = ((({} \cup {<<"localhost">>}) \cup {<<"127.0.0.1">>}) \cup {Addr}) \cup {Public}
    BY <2>1
  <2> QED BY <2>3, <2>4, FS_CardinalityType
<1> HIDE DEF n
<1> QED BY <1>1, <1>2

LEMMA AfterEmpty ==
    ASSUME NEW s \in Seq(STRING)
    PROVE  /\ Len(Empty \o s) = 1 + Len(s) /\ (Empty \o s)[1] = Empty[1]
           /\ \A b \in Seq(STRING) : Len(b) = 1 /\ b[1] = Empty[1] => b = Empty
<1> DEFINE e == ""
           T == STRING \cup {e}
<1>1. Empty = <<e>>
  BY DEF Empty
<1> HIDE DEF e
<1>2. e \in T /\ s \in Seq(T) /\ \A b \in Seq(STRING) : b \in Seq(T)
  <2>1. STRING \subseteq T /\ e \in T
    OBVIOUS
  <2> HIDE DEF T
  <2> QED BY <2>1, SeqMonotonic
<1> HIDE DEF T
<1>3. Empty \in Seq(T) /\ Len(Empty) = 1
  BY <1>1, <1>2
<1>4. Len(Empty \o s) = 1 + Len(s) /\ (Empty \o s)[1] = Empty[1]
  BY <1>2, <1>3, ConcatProperties, SMTT(30)
<1>5. ASSUME NEW b \in Seq(STRING), Len(b) = 1, b[1] = Empty[1] PROVE b = Empty
  BY <1>2, <1>3, <1>5, SeqEqual
<1> QED BY <1>4, <1>5

LEMMA OneBase ==
    ASSUME NEW host \in Seq(STRING), NEW i \in DOMAIN Bases, NEW j \in DOMAIN Bases,
           IsSuffix(Bases[i], host), IsSuffix(Bases[j], host)
    PROVE  i = j
<1> SUFFICES ASSUME NEW k \in DOMAIN Bases, NEW l \in DOMAIN Bases,
                    IsSuffix(Bases[k], host), IsSuffix(Bases[l], host), Len(Bases[k]) <= Len(Bases[l])
             PROVE  k = l
  <2>1. Bases[i] \in Seq(STRING) /\ Bases[j] \in Seq(STRING)
    BY BasesAssumption
  <2>2. Len(Bases[i]) \in Nat /\ Len(Bases[j]) \in Nat
    BY <2>1
  <2>3. Len(Bases[i]) <= Len(Bases[j]) \/ Len(Bases[j]) <= Len(Bases[i])
    BY <2>2
  <2> QED BY <2>3
<1> DEFINE s == Bases[k]
           t == Bases[l]
<1>1. s \in Seq(STRING) /\ t \in Seq(STRING)
  BY BasesAssumption
<1> HIDE DEF s, t
<1>2. /\ \A m \in 1..Len(s) : s[m] = host[Len(host) - Len(s) + m]
      /\ \A m \in 1..Len(t) : t[m] = host[Len(host) - Len(t) + m]
  BY <1>1, SuffixFacts DEF s, t
<1>3. Len(s) \in Nat /\ Len(t) \in Nat /\ Len(host) \in Nat /\ Len(s) <= Len(t)
  BY <1>1 DEF s, t
<1>4. ASSUME NEW m \in 1..Len(s) PROVE s[m] = t[Len(t) - Len(s) + m]
  <2>1. /\ Len(t) - Len(s) + m \in 1..Len(t)
        /\ Len(host) - Len(t) + (Len(t) - Len(s) + m) = Len(host) - Len(s) + m
    BY <1>3
  <2> QED BY <1>2, <2>1
<1>5. IsSuffix(s, t)
  BY <1>1, <1>3, <1>4, SuffixFacts
<1> QED BY <1>5, BasesAssumption DEF s, t

LEMMA TargetUnder ==
    ASSUME NEW i \in DOMAIN Bases, NEW host \in Seq(STRING), NEW path,
           IsSuffix(Bases[i], host), host # Empty \o Bases[i]
    PROVE  target(host, path) =
             IF host # Bases[i]
             THEN [bucket |-> SubSeq(host, 1, Len(host) - Len(Bases[i])), key |-> KeyOf(path)]
             ELSE splitPath(path)
<1> DEFINE Fits(j) == IsSuffix(Bases[j], host) /\ host # Empty \o Bases[j]
           first == CHOOSE j \in DOMAIN Bases : Fits(j) /\ \A k \in 1..(j - 1) : ~ Fits(k)
<1>1. Fits(i) /\ \A j \in DOMAIN Bases : Fits(j) => j = i
  BY OneBase
<1> HIDE DEF Fits
<1>2. PICK n \in Nat : DOMAIN Bases = 1..n
  BY BasesListed
<1>3. \A k \in 1..(i - 1) : ~ Fits(k)
  BY <1>1, <1>2
<1>4. first = i
  BY <1>1, <1>3
<1>5. target(host, path) = IF (\E j \in DOMAIN Bases : Fits(j)) /\ host # Bases[first]
                           THEN [bucket |-> SubSeq(host, 1, Len(host) - Len(Bases[first])), key |-> KeyOf(path)]
                           ELSE splitPath(path)
  BY DEF target, Fits
<1> HIDE DEF first
<1> QED BY <1>1, <1>4, <1>5

LEMMA SuffixOf ==
    ASSUME NEW T, NEW b \in Seq(T), NEW s \in Seq(T)
    PROVE  IsSuffix(s, b \o s)
<1>1. IsSuffix(<<>>, b) /\ <<>> \in Seq(T)
  BY SuffixGrows
<1>2. IsSuffix(<<>> \o s, b \o s)
  BY <1>1, SuffixGrows
<1>3. <<>> \o s = s
  BY ConcatEmptySeq
<1> QED BY <1>2, <1>3

(* With the bucket in the host, and with the bucket in the path. *)
LEMMA TargetInHost ==
    ASSUME NEW i \in DOMAIN Bases, NEW bucket \in Seq(STRING) \ {<<>>, Empty}, NEW path
    PROVE  target(bucket \o Bases[i], path) = [bucket |-> bucket, key |-> KeyOf(path)]
<1> DEFINE s == Bases[i]
           host == bucket \o s
<1>1. s \in Seq(STRING)
  BY BasesAssumption
<1> HIDE DEF s
<1>2. host \in Seq(STRING) /\ IsSuffix(s, host)
  BY <1>1, SuffixOf
<1>3. /\ Len(host) = Len(bucket) + Len(s) /\ Len(bucket) \in Nat /\ Len(s) \in Nat /\ Len(bucket) > 0
      /\ SubSeq(host, 1, Len(bucket)) = bucket
      /\ \A k \in 1..Len(bucket) : host[k] = bucket[k]
  BY <1>1
<1>4. host # s /\ Len(host) - Len(s) = Len(bucket)
  BY <1>3
<1>5. host # Empty \o s
  <2> SUFFICES ASSUME host = Empty \o s PROVE FALSE
    OBVIOUS
  <2>1. Len(Empty \o s) = 1 + Len(s) /\ (Empty \o s)[1] = Empty[1]
    BY <1>1, AfterEmpty
  <2>2. Len(bucket) = 1 /\ bucket[1] = Empty[1]
    BY <1>3, <2>1
  <2> QED BY <1>1, <2>2, AfterEmpty
<1> HIDE DEF host
<1>6. target(host, path) = [bucket |-> SubSeq(host, 1, Len(host) - Len(s)), key |-> KeyOf(path)]
  BY <1>2, <1>4, <1>5, TargetUnder DEF s
<1> QED BY <1>3, <1>4, <1>6 DEF host, s

LEMMA TargetInPath ==
    ASSUME NEW i \in DOMAIN Bases, NEW path
    PROVE  target(Bases[i], path) = splitPath(path)
<1> DEFINE s == Bases[i]
<1>1. s \in Seq(STRING)
  BY BasesAssumption
<1> HIDE DEF s
<1>2. IsSuffix(s, s)
  <2>1. <<>> \o s = s /\ <<>> \in Seq(STRING)
    BY <1>1, ConcatEmptySeq
  <2> QED BY <1>1, <2>1, SuffixOf
<1>3. s # Empty \o s
  <2>1. Len(Empty \o s) = 1 + Len(s) /\ Len(s) \in Nat
    BY <1>1, AfterEmpty
  <2> QED BY <2>1
<1> QED BY <1>1, <1>2, <1>3, TargetUnder DEF s

(* The target of a request is what it was made for, in either style.         *)
LEMMA KeysOfPaths ==
    ASSUME NEW bucket \in Seq(STRING) \ {<<>>, Empty}, NEW key \in Seq(Seq(STRING)) \ {<<>>, <<Empty>>}
    PROVE  /\ KeyOf(<<Empty>>) = <<>> /\ KeyOf(key) = key
           /\ splitPath(<<Empty>>) = [bucket |-> Empty, key |-> <<>>]
           /\ splitPath(<<bucket>>) = [bucket |-> bucket, key |-> <<>>]
           /\ splitPath(<<bucket>> \o key) = [bucket |-> bucket, key |-> key]
<1>1. \A e, f : (<<e>> = <<f>> => e = f) /\ <<e>> # <<>>
  <2> SUFFICES ASSUME NEW e, NEW f PROVE (<<e>> = <<f>> => e = f) /\ <<e>> # <<>>
    OBVIOUS
  <2>1. <<e>>[1] = e /\ <<f>>[1] = f /\ Len(<<e>>) = 1 /\ Len(<<>>) = 0
    OBVIOUS
  <2> QED BY <2>1
<1>2. KeyOf(<<Empty>>) = <<>> /\ KeyOf(key) = key /\ KeyOf(<<>>) = <<>>
  BY <1>1 DEF KeyOf
<1>3. splitPath(<<Empty>>) = [bucket |-> Empty, key |-> <<>>]
  BY <1>2 DEF splitPath
<1>4. splitPath(<<bucket>>) = [bucket |-> bucket, key |-> <<>>]
  <2>1. KeyOf(<<bucket>>) = <<bucket>>
    BY <1>1 DEF KeyOf
  <2>2. Head(<<bucket>>) = bucket /\ Tail(<<bucket>>) = <<>>
    OBVIOUS
  <2> QED BY <1>1, <1>2, <2>1, <2>2 DEF splitPath
<1>5. splitPath(<<bucket>> \o key) = [bucket |-> bucket, key |-> key]
  <2> DEFINE path == <<bucket>> \o key
  <2>1. <<bucket>> \in Seq(Seq(STRING)) /\ Len(<<bucket>>) = 1 /\ <<bucket>>[1] = bucket
        /\ key \in Seq(Seq(STRING)) /\ Len(key) \in Nat /\ Len(key) > 0
    OBVIOUS
  <2>2. path \in Seq(Seq(STRING)) /\ Len(path) = 1 + Len(key) /\ path[1] = bucket
        /\ \A i \in 1..Len(key) : path[i + 1] = key[i]
    BY <2>1
  <2> HIDE DEF path
  <2>3. Len(<<Empty>>) = 1 /\ Len(<<>>) = 0
    OBVIOUS
  <2>4. path # <<Empty>> /\ path # <<>>
    BY <2>1, <2>2, <2>3
  <2>5. Head(path) = bucket /\ Tail(path) = key
    <3>1. Tail(path) \in Seq(Seq(STRING)) /\ Len(Tail(path)) = Len(key)
          /\ \A i \in 1..Len(key) : Tail(path)[i] = path[i + 1]
      BY <2>1, <2>2, <2>4
    <3>2. Tail(path) = key
      <4> DEFINE rest == Tail(path)
      <4>1. rest \in Seq(Seq(STRING)) /\ Len(rest) = Len(key) /\ \A i \in 1..Len(rest) : rest[i] = key[i]
        BY <2>2, <3>1
      <4> HIDE DEF rest
      <4>2. rest = key
        BY <2>1, <4>1, SeqEqual
      <4> QED BY <4>2 DEF rest
    <3> QED BY <2>2, <2>4, <3>2
  <2>6. splitPath(path) = [bucket |-> bucket, key |-> key]
    BY <1>2, <2>4, <2>5 DEF splitPath, KeyOf
  <2> QED BY <2>6 DEF path
<1> QED BY <1>2, <1>3, <1>4, <1>5

LEMMA AddressFound ==
    ASSUME NEW shape, NEW bucket \in Seq(STRING) \ {<<>>, Empty},
           NEW key \in Seq(Seq(STRING)) \ {<<>>, <<Empty>>}, NEW base \in Range(Bases), NEW inHost
    PROVE  LET a == AddressOf(shape, bucket, key, base, inHost)
               g == target(a.host, a.path)
           IN  /\ shape.at = "service" => g = [bucket |-> Empty, key |-> <<>>]
               /\ shape.at = "bucket" => g = [bucket |-> bucket, key |-> <<>>]
               /\ shape.at = "object" => g = [bucket |-> bucket, key |-> key]
<1> DEFINE a == AddressOf(shape, bucket, key, base, inHost)
<1>1. PICK i \in DOMAIN Bases : base = Bases[i]
  BY DEF Range
<1>2. CASE shape.at = "service"
  <2>1. a.host = base /\ a.path = <<Empty>>
    BY <1>2 DEF AddressOf
  <2> QED BY <1>1, <1>2, <2>1, TargetInPath, KeysOfPaths
<1>3. CASE shape.at = "bucket" /\ inHost
  <2>1. a.host = bucket \o base /\ a.path = <<Empty>>
    BY <1>3 DEF AddressOf
  <2>2. target(bucket \o base, <<Empty>>) = [bucket |-> bucket, key |-> KeyOf(<<Empty>>)]
    BY <1>1, TargetInHost
  <2> QED BY <1>3, <2>1, <2>2, KeysOfPaths
<1>4. CASE shape.at = "bucket" /\ ~ inHost
  <2>1. a.host = base /\ a.path = <<bucket>>
    BY <1>4 DEF AddressOf
  <2> QED BY <1>1, <1>4, <2>1, TargetInPath, KeysOfPaths
<1>5. CASE shape.at = "object" /\ inHost
  <2>1. a.host = bucket \o base /\ a.path = key
    BY <1>5 DEF AddressOf
  <2>2. target(bucket \o base, key) = [bucket |-> bucket, key |-> KeyOf(key)]
    BY <1>1, TargetInHost
  <2> QED BY <1>5, <2>1, <2>2, KeysOfPaths
<1>6. CASE shape.at = "object" /\ ~ inHost
  <2>1. a.host = base /\ a.path = <<bucket>> \o key
    BY <1>6 DEF AddressOf
  <2> QED BY <1>1, <1>6, <2>1, TargetInPath, KeysOfPaths
<1> QED BY <1>2, <1>3, <1>4, <1>5, <1>6

(* The first case of a switch that applies. *)
LEMMA SwitchTakes ==
    ASSUME NEW n \in Nat, NEW cases, DOMAIN cases = 1..n, NEW i \in 1..n, cases[i].when,
           \A j \in 1..(i - 1) : ~ cases[j].when
    PROVE  Switch(cases) = cases[i].do
<1>1. \A k \in 1..n : k = i <=> cases[k].when /\ \A j \in 1..(k - 1) : ~ cases[j].when
  OBVIOUS
<1>2. (CHOOSE k \in DOMAIN cases : cases[k].when /\ \A j \in 1..(k - 1) : ~ cases[j].when) = i
  BY <1>1
<1> QED BY <1>2 DEF Switch

(* The two switches, as far as the requests of the protocol go. *)
LEMMA BucketSwitch ==
    ASSUME NEW m, NEW q
    PROVE  /\ Has(q, "location") /\ m = "GET" => routeBucket(m, q) = "GetBucketLocation"
           /\ ~ Has(q, "location") /\ Has(q, "cors") /\ m = "GET" => routeBucket(m, q) = "GetBucketCors"
           /\ Has(q, "cors") /\ m = "PUT" => routeBucket(m, q) = "PutBucketCors"
           /\ Has(q, "cors") /\ m = "DELETE" => routeBucket(m, q) = "DeleteBucketCors"
           /\ ~ Has(q, "cors") /\ Has(q, "delete") /\ m = "POST" => routeBucket(m, q) = "DeleteObjects"
           /\ ~ Has(q, "cors") /\ m = "PUT" => routeBucket(m, q) = "CreateBucket"
           /\ ~ Has(q, "cors") /\ m = "DELETE" => routeBucket(m, q) = "DeleteBucket"
           /\ ~ Has(q, "cors") /\ m = "HEAD" => routeBucket(m, q) = "HeadBucket"
           /\ ~ Has(q, "location") /\ ~ Has(q, "cors") /\ m = "GET" => routeBucket(m, q) = "ListObjects"
<1> DEFINE cases == <<
      Case(Has(q, "location") /\ m = "GET", "GetBucketLocation"),
      Case(Has(q, "cors") /\ m = "GET", "GetBucketCors"),
      Case(Has(q, "cors") /\ m = "PUT", "PutBucketCors"),
      Case(Has(q, "cors") /\ m = "DELETE", "DeleteBucketCors"),
      Case(Has(q, "cors"), "MethodNotAllowed"),
      Case(Has(q, "delete") /\ m = "POST", "DeleteObjects"),
      Case(m = "PUT", "CreateBucket"),
      Case(m = "DELETE", "DeleteBucket"),
      Case(m = "HEAD", "HeadBucket"),
      Case(m = "GET", "ListObjects"),
      Case(TRUE, "MethodNotAllowed")>>
           On(i) == cases[i].when
<1>1. routeBucket(m, q) = Switch(cases)
  BY DEF routeBucket
<1>2. DOMAIN cases = 1..11
  OBVIOUS
<1>3. /\ On(1) <=> Has(q, "location") /\ m = "GET"
      /\ On(2) <=> Has(q, "cors") /\ m = "GET"
      /\ On(3) <=> Has(q, "cors") /\ m = "PUT"
      /\ On(4) <=> Has(q, "cors") /\ m = "DELETE"
      /\ On(5) <=> Has(q, "cors")
      /\ On(6) <=> Has(q, "delete") /\ m = "POST"
      /\ On(7) <=> m = "PUT"
      /\ On(8) <=> m = "DELETE"
      /\ On(9) <=> m = "HEAD"
      /\ On(10) <=> m = "GET"
  BY DEF Case
<1>4. /\ cases[1].do = "GetBucketLocation" /\ cases[2].do = "GetBucketCors"
      /\ cases[3].do = "PutBucketCors" /\ cases[4].do = "DeleteBucketCors"
      /\ cases[6].do = "DeleteObjects" /\ cases[7].do = "CreateBucket" /\ cases[8].do = "DeleteBucket"
      /\ cases[9].do = "HeadBucket" /\ cases[10].do = "ListObjects"
  BY DEF Case
<1>5. ASSUME NEW i \in 1..11, On(i), \A j \in 1..(i - 1) : ~ On(j)
      PROVE  routeBucket(m, q) = cases[i].do
  <2> HIDE DEF cases
  <2> QED BY <1>1, <1>2, <1>5, SwitchTakes
<1> HIDE DEF cases, On
<1>6. ASSUME Has(q, "location"), m = "GET" PROVE routeBucket(m, q) = "GetBucketLocation"
  <2>1. On(1) /\ \A j \in 1..(1 - 1) : ~ On(j)
    BY <1>3, <1>6
  <2> QED BY <1>4, <1>5, <2>1
<1>7. ASSUME ~ Has(q, "location"), Has(q, "cors"), m = "GET" PROVE routeBucket(m, q) = "GetBucketCors"
  <2>1. On(2) /\ \A j \in 1..(2 - 1) : ~ On(j)
    BY <1>3, <1>7
  <2> QED BY <1>4, <1>5, <2>1
<1>8. ASSUME Has(q, "cors"), m = "PUT" PROVE routeBucket(m, q) = "PutBucketCors"
  <2>1. On(3) /\ \A j \in 1..(3 - 1) : ~ On(j)
    BY <1>3, <1>8
  <2> QED BY <1>4, <1>5, <2>1
<1>9. ASSUME Has(q, "cors"), m = "DELETE" PROVE routeBucket(m, q) = "DeleteBucketCors"
  <2>1. On(4) /\ \A j \in 1..(4 - 1) : ~ On(j)
    BY <1>3, <1>9
  <2> QED BY <1>4, <1>5, <2>1
<1>10. ASSUME ~ Has(q, "cors"), Has(q, "delete"), m = "POST" PROVE routeBucket(m, q) = "DeleteObjects"
  <2>1. On(6) /\ \A j \in 1..(6 - 1) : ~ On(j)
    BY <1>3, <1>10
  <2> QED BY <1>4, <1>5, <2>1
<1>11. ASSUME ~ Has(q, "cors"), m = "PUT" PROVE routeBucket(m, q) = "CreateBucket"
  <2>1. On(7) /\ \A j \in 1..(7 - 1) : ~ On(j)
    BY <1>3, <1>11
  <2> QED BY <1>4, <1>5, <2>1
<1>12. ASSUME ~ Has(q, "cors"), m = "DELETE" PROVE routeBucket(m, q) = "DeleteBucket"
  <2>1. On(8) /\ \A j \in 1..(8 - 1) : ~ On(j)
    BY <1>3, <1>12
  <2> QED BY <1>4, <1>5, <2>1
<1>13. ASSUME ~ Has(q, "cors"), m = "HEAD" PROVE routeBucket(m, q) = "HeadBucket"
  <2>1. On(9) /\ \A j \in 1..(9 - 1) : ~ On(j)
    BY <1>3, <1>13
  <2> QED BY <1>4, <1>5, <2>1
<1>14. ASSUME ~ Has(q, "location"), ~ Has(q, "cors"), m = "GET" PROVE routeBucket(m, q) = "ListObjects"
  <2>1. On(10) /\ \A j \in 1..(10 - 1) : ~ On(j)
    BY <1>3, <1>14
  <2> QED BY <1>4, <1>5, <2>1
<1> QED BY <1>6, <1>7, <1>8, <1>9, <1>10, <1>11, <1>12, <1>13, <1>14
LEMMA ObjectSwitch ==
    ASSUME NEW m, NEW q, NEW copy
    PROVE  /\ Has(q, "uploads") /\ m = "POST" => routeObject(m, q, copy) = "CreateMultipartUpload"
           /\ Get(q, "uploadId") /\ Get(q, "partNumber") /\ m = "PUT" => routeObject(m, q, copy) = "UploadPart"
           /\ ~ Has(q, "uploads") /\ Get(q, "uploadId") /\ m = "POST" =>
                routeObject(m, q, copy) = "CompleteMultipartUpload"
           /\ Get(q, "uploadId") /\ m = "DELETE" => routeObject(m, q, copy) = "AbortMultipartUpload"
           /\ Get(q, "uploadId") /\ m = "GET" => routeObject(m, q, copy) = "ListParts"
           /\ ~ Get(q, "uploadId") /\ Has(q, "tagging") /\ m = "GET" =>
                routeObject(m, q, copy) = "GetObjectTagging"
           /\ ~ Get(q, "uploadId") /\ Has(q, "tagging") /\ m = "PUT" =>
                routeObject(m, q, copy) = "PutObjectTagging"
           /\ ~ Get(q, "uploadId") /\ Has(q, "tagging") /\ m = "DELETE" =>
                routeObject(m, q, copy) = "DeleteObjectTagging"
           /\ ~ Get(q, "uploadId") /\ ~ Has(q, "tagging") /\ Has(q, "acl") /\ m = "GET" =>
                routeObject(m, q, copy) = "GetObjectAcl"
           /\ ~ Get(q, "uploadId") /\ ~ Has(q, "tagging") /\ Has(q, "acl") /\ m = "PUT" =>
                routeObject(m, q, copy) = "PutObjectAcl"
           /\ ~ Has(q, "tagging") /\ ~ Has(q, "acl") /\ ~ Get(q, "uploadId") /\ m = "PUT" /\ copy =>
                routeObject(m, q, copy) = "CopyObject"
           /\ ~ Has(q, "tagging") /\ ~ Has(q, "acl") /\ ~ Get(q, "uploadId") /\ m = "PUT" /\ ~ copy =>
                routeObject(m, q, copy) = "PutObject"
           /\ ~ Has(q, "tagging") /\ ~ Has(q, "acl") /\ ~ Get(q, "uploadId") /\ m = "GET" =>
                routeObject(m, q, copy) = "GetObject"
           /\ ~ Has(q, "tagging") /\ ~ Has(q, "acl") /\ ~ Get(q, "uploadId") /\ m = "HEAD" =>
                routeObject(m, q, copy) = "HeadObject"
           /\ ~ Has(q, "tagging") /\ ~ Has(q, "acl") /\ ~ Get(q, "uploadId") /\ m = "DELETE" =>
                routeObject(m, q, copy) = "DeleteObject"
<1> DEFINE cases == <<
      Case(Has(q, "uploads") /\ m = "POST", "CreateMultipartUpload"),
      Case(Get(q, "uploadId") /\ Get(q, "partNumber") /\ m = "PUT", "UploadPart"),
      Case(Get(q, "uploadId") /\ m = "POST", "CompleteMultipartUpload"),
      Case(Get(q, "uploadId") /\ m = "DELETE", "AbortMultipartUpload"),
      Case(Get(q, "uploadId") /\ m = "GET", "ListParts"),
      Case(Has(q, "tagging") /\ m = "GET", "GetObjectTagging"),
      Case(Has(q, "tagging") /\ m = "PUT", "PutObjectTagging"),
      Case(Has(q, "tagging") /\ m = "DELETE", "DeleteObjectTagging"),
      Case(Has(q, "tagging"), "MethodNotAllowed"),
      Case(Has(q, "acl") /\ m \in {"GET", "HEAD"}, "GetObjectAcl"),
      Case(Has(q, "acl") /\ m = "PUT", "PutObjectAcl"),
      Case(m = "PUT" /\ copy, "CopyObject"),
      Case(m = "PUT", "PutObject"),
      Case(m = "GET", "GetObject"),
      Case(m = "HEAD", "HeadObject"),
      Case(m = "DELETE", "DeleteObject"),
      Case(TRUE, "MethodNotAllowed")>>
           On(i) == cases[i].when
<1>1. routeObject(m, q, copy) = Switch(cases)
  BY DEF routeObject
<1>2. DOMAIN cases = 1..17
  OBVIOUS
<1>3. /\ On(1) <=> Has(q, "uploads") /\ m = "POST"
      /\ On(2) <=> Get(q, "uploadId") /\ Get(q, "partNumber") /\ m = "PUT"
      /\ On(3) <=> Get(q, "uploadId") /\ m = "POST"
      /\ On(4) <=> Get(q, "uploadId") /\ m = "DELETE"
      /\ On(5) <=> Get(q, "uploadId") /\ m = "GET"
      /\ On(6) <=> Has(q, "tagging") /\ m = "GET"
      /\ On(7) <=> Has(q, "tagging") /\ m = "PUT"
      /\ On(8) <=> Has(q, "tagging") /\ m = "DELETE"
      /\ On(9) <=> Has(q, "tagging")
      /\ On(10) <=> Has(q, "acl") /\ m \in {"GET", "HEAD"}
      /\ On(11) <=> Has(q, "acl") /\ m = "PUT"
      /\ On(12) <=> m = "PUT" /\ copy
      /\ On(13) <=> m = "PUT"
      /\ On(14) <=> m = "GET"
      /\ On(15) <=> m = "HEAD"
      /\ On(16) <=> m = "DELETE"
  BY DEF Case
<1>4. /\ cases[1].do = "CreateMultipartUpload"
      /\ cases[2].do = "UploadPart"
      /\ cases[3].do = "CompleteMultipartUpload"
      /\ cases[4].do = "AbortMultipartUpload"
      /\ cases[5].do = "ListParts"
      /\ cases[6].do = "GetObjectTagging"
      /\ cases[7].do = "PutObjectTagging"
      /\ cases[8].do = "DeleteObjectTagging"
      /\ cases[10].do = "GetObjectAcl"
      /\ cases[11].do = "PutObjectAcl"
      /\ cases[12].do = "CopyObject"
      /\ cases[13].do = "PutObject"
      /\ cases[14].do = "GetObject"
      /\ cases[15].do = "HeadObject"
      /\ cases[16].do = "DeleteObject"
  BY DEF Case
<1>5. ASSUME NEW i \in 1..17, On(i), \A j \in 1..(i - 1) : ~ On(j)
      PROVE  routeObject(m, q, copy) = cases[i].do
  <2> HIDE DEF cases
  <2> QED BY <1>1, <1>2, <1>5, SwitchTakes
<1> HIDE DEF cases, On
<1>6. ASSUME Has(q, "uploads"), m = "POST" PROVE routeObject(m, q, copy) = "CreateMultipartUpload"
  <2>1. On(1) /\ \A j \in 1..(1 - 1) : ~ On(j)
    BY <1>3, <1>6
  <2> QED BY <1>4, <1>5, <2>1
<1>7. ASSUME Get(q, "uploadId"), Get(q, "partNumber"), m = "PUT" PROVE routeObject(m, q, copy) = "UploadPart"
  <2>1. On(2) /\ \A j \in 1..(2 - 1) : ~ On(j)
    BY <1>3, <1>7
  <2> QED BY <1>4, <1>5, <2>1
<1>8. ASSUME ~ Has(q, "uploads"), Get(q, "uploadId"), m = "POST"
      PROVE  routeObject(m, q, copy) = "CompleteMultipartUpload"
  <2>1. On(3) /\ \A j \in 1..(3 - 1) : ~ On(j)
    BY <1>3, <1>8
  <2> QED BY <1>4, <1>5, <2>1
<1>9. ASSUME Get(q, "uploadId"), m = "DELETE" PROVE routeObject(m, q, copy) = "AbortMultipartUpload"
  <2>1. On(4) /\ \A j \in 1..(4 - 1) : ~ On(j)
    BY <1>3, <1>9
  <2> QED BY <1>4, <1>5, <2>1
<1>10. ASSUME Get(q, "uploadId"), m = "GET" PROVE routeObject(m, q, copy) = "ListParts"
  <2>1. On(5) /\ \A j \in 1..(5 - 1) : ~ On(j)
    BY <1>3, <1>10
  <2> QED BY <1>4, <1>5, <2>1
<1>11. ASSUME ~ Get(q, "uploadId"), Has(q, "tagging"), m = "GET"
       PROVE  routeObject(m, q, copy) = "GetObjectTagging"
  <2>1. On(6) /\ \A j \in 1..(6 - 1) : ~ On(j)
    BY <1>3, <1>11
  <2> QED BY <1>4, <1>5, <2>1
<1>12. ASSUME ~ Get(q, "uploadId"), Has(q, "tagging"), m = "PUT"
       PROVE  routeObject(m, q, copy) = "PutObjectTagging"
  <2>1. On(7) /\ \A j \in 1..(7 - 1) : ~ On(j)
    BY <1>3, <1>12
  <2> QED BY <1>4, <1>5, <2>1
<1>13. ASSUME ~ Get(q, "uploadId"), Has(q, "tagging"), m = "DELETE"
       PROVE  routeObject(m, q, copy) = "DeleteObjectTagging"
  <2>1. On(8) /\ \A j \in 1..(8 - 1) : ~ On(j)
    BY <1>3, <1>13
  <2> QED BY <1>4, <1>5, <2>1
<1>14. ASSUME ~ Get(q, "uploadId"), ~ Has(q, "tagging"), Has(q, "acl"), m = "GET"
       PROVE  routeObject(m, q, copy) = "GetObjectAcl"
  <2>1. On(10) /\ \A j \in 1..(10 - 1) : ~ On(j)
    BY <1>3, <1>14
  <2> QED BY <1>4, <1>5, <2>1
<1>15. ASSUME ~ Get(q, "uploadId"), ~ Has(q, "tagging"), Has(q, "acl"), m = "PUT"
       PROVE  routeObject(m, q, copy) = "PutObjectAcl"
  <2>1. On(11) /\ \A j \in 1..(11 - 1) : ~ On(j)
    BY <1>3, <1>15
  <2> QED BY <1>4, <1>5, <2>1
<1>16. ASSUME ~ Has(q, "tagging"), ~ Has(q, "acl"), ~ Get(q, "uploadId"), m = "PUT", copy
       PROVE  routeObject(m, q, copy) = "CopyObject"
  <2>1. On(12) /\ \A j \in 1..(12 - 1) : ~ On(j)
    BY <1>3, <1>16
  <2> QED BY <1>4, <1>5, <2>1
<1>17. ASSUME ~ Has(q, "tagging"), ~ Has(q, "acl"), ~ Get(q, "uploadId"), m = "PUT", ~ copy
       PROVE  routeObject(m, q, copy) = "PutObject"
  <2>1. On(13) /\ \A j \in 1..(13 - 1) : ~ On(j)
    BY <1>3, <1>17
  <2> QED BY <1>4, <1>5, <2>1
<1>18. ASSUME ~ Has(q, "tagging"), ~ Has(q, "acl"), ~ Get(q, "uploadId"), m = "GET"
       PROVE  routeObject(m, q, copy) = "GetObject"
  <2>1. On(14) /\ \A j \in 1..(14 - 1) : ~ On(j)
    BY <1>3, <1>18
  <2> QED BY <1>4, <1>5, <2>1
<1>19. ASSUME ~ Has(q, "tagging"), ~ Has(q, "acl"), ~ Get(q, "uploadId"), m = "HEAD"
       PROVE  routeObject(m, q, copy) = "HeadObject"
  <2>1. On(15) /\ \A j \in 1..(15 - 1) : ~ On(j)
    BY <1>3, <1>19
  <2> QED BY <1>4, <1>5, <2>1
<1>20. ASSUME ~ Has(q, "tagging"), ~ Has(q, "acl"), ~ Get(q, "uploadId"), m = "DELETE"
       PROVE  routeObject(m, q, copy) = "DeleteObject"
  <2>1. On(16) /\ \A j \in 1..(16 - 1) : ~ On(j)
    BY <1>3, <1>20
  <2> QED BY <1>4, <1>5, <2>1
<1> QED BY <1>6, <1>7, <1>8, <1>9, <1>10, <1>11, <1>12, <1>13, <1>14, <1>15, <1>16, <1>17, <1>18, <1>19, <1>20

(* The requests of the protocol get to the operation that they are for. *)
LEMMA QueryFacts ==
    /\ \A n : ~ Has({}, n) /\ ~ Get({}, n)
    /\ \A n, a : (Has(Sub(a), n) <=> n = a) /\ ~ Get(Sub(a), n)
    /\ \A n : Has({<<"list-type", "2">>}, n) <=> n = "list-type"
    /\ \A n : (Has(OfUpload, n) <=> n = "uploadId") /\ (Get(OfUpload, n) <=> n = "uploadId")
    /\ \A n : LET q == OfUpload \cup {<<"partNumber", "1">>} IN
              /\ Has(q, n) <=> n \in {"uploadId", "partNumber"}
              /\ Get(q, n) <=> n \in {"uploadId", "partNumber"}
BY DEF Has, Get, Sub, OfUpload

LEMMA ShapesNamed ==
    ASSUME NEW X, NEW Y, NEW do, NEW where, NEW no, NEW s \in {Shape(do, m, where, Sub(name), no) : m \in X, name \in Y}
    PROVE  \E m \in X, n \in Y : s = Shape(do, m, where, Sub(n), no)
OBVIOUS

LEMMA ShapeRouted ==
    ASSUME NEW shape \in Shapes, NEW copy, copy <=> shape.copy, NEW t,
           shape.at = "service" => t.bucket = Empty /\ t.key = <<>>,
           shape.at = "bucket" => t.bucket # Empty /\ t.key = <<>>,
           shape.at = "object" => t.bucket # Empty /\ t.key # <<>>
    PROVE  /\ shape.at \in {"service", "bucket", "object"} /\ shape.copy \in BOOLEAN
           /\ route(shape.method, shape.query, copy, t) = shape.op
<1> DEFINE Goal == /\ shape.at \in {"service", "bucket", "object"} /\ shape.copy \in BOOLEAN
                   /\ route(shape.method, shape.query, copy, t) = shape.op
<1>1. ASSUME NEW do, NEW m, NEW q, NEW b \in BOOLEAN, shape = Shape(do, m, "object", q, b),
             \A n \in unsupported : ~ Has(q, n), routeObject(m, q, copy) = do
      PROVE  Goal
  <2>1. shape.at = "object" /\ shape.method = m /\ shape.query = q /\ shape.op = do /\ shape.copy \in BOOLEAN
    BY <1>1 DEF Shape
  <2> QED BY <1>1, <2>1 DEF route
<1>2. ASSUME NEW do, NEW m, NEW q, shape = Shape(do, m, "bucket", q, FALSE),
             \A n \in unsupported : ~ Has(q, n), routeBucket(m, q) = do
      PROVE  Goal
  <2>1. shape.at = "bucket" /\ shape.method = m /\ shape.query = q /\ shape.op = do /\ shape.copy \in BOOLEAN
    BY <1>2 DEF Shape
  <2> QED BY <1>2, <2>1 DEF route
<1>3. ASSUME NEW m, NEW n \in unsupported, shape = Shape("NotImplemented", m, "bucket", Sub(n), FALSE)
      PROVE  Goal
  <2>1. /\ shape.at = "bucket" /\ shape.query = Sub(n) /\ shape.op = "NotImplemented"
        /\ shape.copy \in BOOLEAN /\ Has(Sub(n), n)
    BY <1>3, QueryFacts DEF Shape
  <2> QED BY <2>1 DEF route
<1>4. shape = Shape("ListBuckets", "GET", "service", {}, FALSE) => Goal
  <2> SUFFICES ASSUME shape = Shape("ListBuckets", "GET", "service", {}, FALSE) PROVE Goal
    OBVIOUS
  <2>1. /\ shape.at = "service" /\ shape.method = "GET" /\ shape.query = {} /\ shape.op = "ListBuckets"
        /\ shape.copy \in BOOLEAN
    BY DEF Shape
  <2>2. (\A n \in unsupported : ~ Has({}, n)) /\ t.bucket = Empty /\ t.key = <<>>
    BY <2>1, QueryFacts
  <2> QED BY <2>1, <2>2 DEF route
<1>5. /\ \A n \in unsupported : n \notin {"list-type", "location", "delete", "cors", "tagging", "uploads",
                                         "uploadId", "partNumber", "acl"}
      /\ {"versioning", "lifecycle", "policy", "logging"} \subseteq unsupported
  BY DEF unsupported
<1> HIDE DEF Goal
<1>6. shape = Shape("CreateBucket", "PUT", "bucket", {}, FALSE) => Goal
  <2>1. (\A n \in unsupported : ~ Has({}, n)) /\ routeBucket("PUT", {}) = "CreateBucket"
    BY <1>5, QueryFacts, BucketSwitch
  <2> QED BY <1>2, <2>1
<1>7. shape = Shape("DeleteBucket", "DELETE", "bucket", {}, FALSE) => Goal
  <2>1. (\A n \in unsupported : ~ Has({}, n)) /\ routeBucket("DELETE", {}) = "DeleteBucket"
    BY <1>5, QueryFacts, BucketSwitch
  <2> QED BY <1>2, <2>1
<1>8. shape = Shape("HeadBucket", "HEAD", "bucket", {}, FALSE) => Goal
  <2>1. (\A n \in unsupported : ~ Has({}, n)) /\ routeBucket("HEAD", {}) = "HeadBucket"
    BY <1>5, QueryFacts, BucketSwitch
  <2> QED BY <1>2, <2>1
<1>9. shape = Shape("ListObjects", "GET", "bucket", {<<"list-type", "2">>}, FALSE) => Goal
  <2>1. (\A n \in unsupported : ~ Has({<<"list-type", "2">>}, n)) /\ routeBucket("GET", {<<"list-type", "2">>}) = "ListObjects"
    BY <1>5, QueryFacts, BucketSwitch
  <2> QED BY <1>2, <2>1
<1>10. shape = Shape("GetBucketLocation", "GET", "bucket", Sub("location"), FALSE) => Goal
  <2>1. (\A n \in unsupported : ~ Has(Sub("location"), n)) /\ routeBucket("GET", Sub("location")) = "GetBucketLocation"
    BY <1>5, QueryFacts, BucketSwitch
  <2> QED BY <1>2, <2>1
<1>11. shape = Shape("DeleteObjects", "POST", "bucket", Sub("delete"), FALSE) => Goal
  <2>1. (\A n \in unsupported : ~ Has(Sub("delete"), n)) /\ routeBucket("POST", Sub("delete")) = "DeleteObjects"
    BY <1>5, QueryFacts, BucketSwitch
  <2> QED BY <1>2, <2>1
<1>12. shape = Shape("PutObject", "PUT", "object", {}, FALSE) => Goal
  <2> SUFFICES ASSUME shape = Shape("PutObject", "PUT", "object", {}, FALSE) PROVE Goal
    OBVIOUS
  <2>1. copy <=> FALSE
    BY DEF Shape
  <2>2. (\A n \in unsupported : ~ Has({}, n)) /\ routeObject("PUT", {}, copy) = "PutObject"
    BY <1>5, <2>1, QueryFacts, ObjectSwitch
  <2> QED BY <1>1, <2>2
<1>13. shape = Shape("CopyObject", "PUT", "object", {}, TRUE) => Goal
  <2> SUFFICES ASSUME shape = Shape("CopyObject", "PUT", "object", {}, TRUE) PROVE Goal
    OBVIOUS
  <2>1. copy <=> TRUE
    BY DEF Shape
  <2>2. (\A n \in unsupported : ~ Has({}, n)) /\ routeObject("PUT", {}, copy) = "CopyObject"
    BY <1>5, <2>1, QueryFacts, ObjectSwitch, ZenonT(60)
  <2> QED BY <1>1, <2>2
<1>14. shape = Shape("GetObject", "GET", "object", {}, FALSE) => Goal
  <2> SUFFICES ASSUME shape = Shape("GetObject", "GET", "object", {}, FALSE) PROVE Goal
    OBVIOUS
  <2>1. copy <=> FALSE
    BY DEF Shape
  <2>2. (\A n \in unsupported : ~ Has({}, n)) /\ routeObject("GET", {}, copy) = "GetObject"
    BY <1>5, <2>1, QueryFacts, ObjectSwitch
  <2> QED BY <1>1, <2>2
<1>15. shape = Shape("HeadObject", "HEAD", "object", {}, FALSE) => Goal
  <2> SUFFICES ASSUME shape = Shape("HeadObject", "HEAD", "object", {}, FALSE) PROVE Goal
    OBVIOUS
  <2>1. copy <=> FALSE
    BY DEF Shape
  <2>2. (\A n \in unsupported : ~ Has({}, n)) /\ routeObject("HEAD", {}, copy) = "HeadObject"
    BY <1>5, <2>1, QueryFacts, ObjectSwitch
  <2> QED BY <1>1, <2>2
<1>16. shape = Shape("DeleteObject", "DELETE", "object", {}, FALSE) => Goal
  <2> SUFFICES ASSUME shape = Shape("DeleteObject", "DELETE", "object", {}, FALSE) PROVE Goal
    OBVIOUS
  <2>1. copy <=> FALSE
    BY DEF Shape
  <2>2. (\A n \in unsupported : ~ Has({}, n)) /\ routeObject("DELETE", {}, copy) = "DeleteObject"
    BY <1>5, <2>1, QueryFacts, ObjectSwitch
  <2> QED BY <1>1, <2>2
<1>17. shape = Shape("CreateMultipartUpload", "POST", "object", Sub("uploads"), FALSE) => Goal
  <2> SUFFICES ASSUME shape = Shape("CreateMultipartUpload", "POST", "object", Sub("uploads"), FALSE) PROVE Goal
    OBVIOUS
  <2>1. copy <=> FALSE
    BY DEF Shape
  <2>2. (\A n \in unsupported : ~ Has(Sub("uploads"), n)) /\ routeObject("POST", Sub("uploads"), copy) = "CreateMultipartUpload"
    BY <1>5, <2>1, QueryFacts, ObjectSwitch
  <2> QED BY <1>1, <2>2
<1>18. shape = Shape("UploadPart", "PUT", "object", OfUpload \cup {<<"partNumber", "1">>}, FALSE) => Goal
  <2> SUFFICES ASSUME shape = Shape("UploadPart", "PUT", "object", OfUpload \cup {<<"partNumber", "1">>}, FALSE) PROVE Goal
    OBVIOUS
  <2>1. copy <=> FALSE
    BY DEF Shape
  <2>2. (\A n \in unsupported : ~ Has(OfUpload \cup {<<"partNumber", "1">>}, n)) /\ routeObject("PUT", OfUpload \cup {<<"partNumber", "1">>}, copy) = "UploadPart"
    <3> DEFINE q == OfUpload \cup {<<"partNumber", "1">>}
    <3>1. \A n : (Has(q, n) <=> n \in {"uploadId", "partNumber"}) /\ (Get(q, n) <=> n \in {"uploadId", "partNumber"})
      BY QueryFacts
    <3> HIDE DEF q
    <3>2. (\A n \in unsupported : ~ Has(q, n)) /\ Get(q, "uploadId") /\ Get(q, "partNumber")
      BY <1>5, <3>1
    <3>3. routeObject("PUT", q, copy) = "UploadPart"
      BY <3>2, ObjectSwitch
    <3> QED BY <3>2, <3>3 DEF q
  <2> QED BY <1>1, <2>2
<1>19. shape = Shape("CompleteMultipartUpload", "POST", "object", OfUpload, FALSE) => Goal
  <2> SUFFICES ASSUME shape = Shape("CompleteMultipartUpload", "POST", "object", OfUpload, FALSE) PROVE Goal
    OBVIOUS
  <2>1. copy <=> FALSE
    BY DEF Shape
  <2>2. (\A n \in unsupported : ~ Has(OfUpload, n)) /\ routeObject("POST", OfUpload, copy) = "CompleteMultipartUpload"
    BY <1>5, <2>1, QueryFacts, ObjectSwitch
  <2> QED BY <1>1, <2>2
<1>20. shape = Shape("AbortMultipartUpload", "DELETE", "object", OfUpload, FALSE) => Goal
  <2> SUFFICES ASSUME shape = Shape("AbortMultipartUpload", "DELETE", "object", OfUpload, FALSE) PROVE Goal
    OBVIOUS
  <2>1. copy <=> FALSE
    BY DEF Shape
  <2>2. (\A n \in unsupported : ~ Has(OfUpload, n)) /\ routeObject("DELETE", OfUpload, copy) = "AbortMultipartUpload"
    BY <1>5, <2>1, QueryFacts, ObjectSwitch
  <2> QED BY <1>1, <2>2
<1>21. shape = Shape("ListParts", "GET", "object", OfUpload, FALSE) => Goal
  <2> SUFFICES ASSUME shape = Shape("ListParts", "GET", "object", OfUpload, FALSE) PROVE Goal
    OBVIOUS
  <2>1. copy <=> FALSE
    BY DEF Shape
  <2>2. (\A n \in unsupported : ~ Has(OfUpload, n)) /\ routeObject("GET", OfUpload, copy) = "ListParts"
    BY <1>5, <2>1, QueryFacts, ObjectSwitch
  <2> QED BY <1>1, <2>2
<1>22. shape = Shape("GetObjectAcl", "GET", "object", Sub("acl"), FALSE) => Goal
  <2> SUFFICES ASSUME shape = Shape("GetObjectAcl", "GET", "object", Sub("acl"), FALSE) PROVE Goal
    OBVIOUS
  <2>1. copy <=> FALSE
    BY DEF Shape
  <2>2. (\A n \in unsupported : ~ Has(Sub("acl"), n)) /\ routeObject("GET", Sub("acl"), copy) = "GetObjectAcl"
    BY <1>5, <2>1, QueryFacts, ObjectSwitch
  <2> QED BY <1>1, <2>2
<1>23. shape = Shape("PutObjectAcl", "PUT", "object", Sub("acl"), FALSE) => Goal
  <2> SUFFICES ASSUME shape = Shape("PutObjectAcl", "PUT", "object", Sub("acl"), FALSE) PROVE Goal
    OBVIOUS
  <2>1. copy <=> FALSE
    BY DEF Shape
  <2>2. (\A n \in unsupported : ~ Has(Sub("acl"), n)) /\ routeObject("PUT", Sub("acl"), copy) = "PutObjectAcl"
    BY <1>5, <2>1, QueryFacts, ObjectSwitch
  <2> QED BY <1>1, <2>2
<1>24. shape = Shape("GetBucketCors", "GET", "bucket", Sub("cors"), FALSE) => Goal
  <2>1. (\A n \in unsupported : ~ Has(Sub("cors"), n)) /\ routeBucket("GET", Sub("cors")) = "GetBucketCors"
    BY <1>5, QueryFacts, BucketSwitch
  <2> QED BY <1>2, <2>1
<1>25. shape = Shape("PutBucketCors", "PUT", "bucket", Sub("cors"), FALSE) => Goal
  <2>1. (\A n \in unsupported : ~ Has(Sub("cors"), n)) /\ routeBucket("PUT", Sub("cors")) = "PutBucketCors"
    BY <1>5, QueryFacts, BucketSwitch
  <2> QED BY <1>2, <2>1
<1>26. shape = Shape("DeleteBucketCors", "DELETE", "bucket", Sub("cors"), FALSE) => Goal
  <2>1. (\A n \in unsupported : ~ Has(Sub("cors"), n)) /\ routeBucket("DELETE", Sub("cors")) = "DeleteBucketCors"
    BY <1>5, QueryFacts, BucketSwitch
  <2> QED BY <1>2, <2>1
<1>27. shape = Shape("GetObjectTagging", "GET", "object", Sub("tagging"), FALSE) => Goal
  <2>1. (\A n \in unsupported : ~ Has(Sub("tagging"), n)) /\ routeObject("GET", Sub("tagging"), copy) = "GetObjectTagging"
    BY <1>5, QueryFacts, ObjectSwitch
  <2> QED BY <1>1, <2>1
<1>28. shape = Shape("PutObjectTagging", "PUT", "object", Sub("tagging"), FALSE) => Goal
  <2>1. (\A n \in unsupported : ~ Has(Sub("tagging"), n)) /\ routeObject("PUT", Sub("tagging"), copy) = "PutObjectTagging"
    BY <1>5, QueryFacts, ObjectSwitch
  <2> QED BY <1>1, <2>1
<1>29. shape = Shape("DeleteObjectTagging", "DELETE", "object", Sub("tagging"), FALSE) => Goal
  <2>1. (\A n \in unsupported : ~ Has(Sub("tagging"), n)) /\ routeObject("DELETE", Sub("tagging"), copy) = "DeleteObjectTagging"
    BY <1>5, QueryFacts, ObjectSwitch
  <2> QED BY <1>1, <2>1
<1>30. Goal
  <2> DEFINE CorsOps == {<<"GetBucketCors", "GET">>, <<"PutBucketCors", "PUT">>, <<"DeleteBucketCors", "DELETE">>}
             TagOps == {<<"GetObjectTagging", "GET">>, <<"PutObjectTagging", "PUT">>,
                    <<"DeleteObjectTagging", "DELETE">>}
             OfCors == {Shape(act[1], act[2], "bucket", Sub("cors"), FALSE) : act \in CorsOps}
             OfTags == {Shape(act[1], act[2], "object", Sub("tagging"), FALSE) : act \in TagOps}
             no == FALSE
             Unserved == {Shape("NotImplemented", m, "bucket", Sub(name), no) :
                          m \in {"GET", "PUT"}, name \in {"versioning", "lifecycle", "policy", "logging"}}
             Simple == {
               Shape("ListBuckets", "GET", "service", {}, FALSE),
               Shape("CreateBucket", "PUT", "bucket", {}, FALSE),
               Shape("DeleteBucket", "DELETE", "bucket", {}, FALSE),
               Shape("HeadBucket", "HEAD", "bucket", {}, FALSE),
               Shape("ListObjects", "GET", "bucket", {<<"list-type", "2">>}, FALSE),
               Shape("GetBucketLocation", "GET", "bucket", Sub("location"), FALSE),
               Shape("DeleteObjects", "POST", "bucket", Sub("delete"), FALSE),
               Shape("PutObject", "PUT", "object", {}, FALSE),
               Shape("CopyObject", "PUT", "object", {}, TRUE),
               Shape("GetObject", "GET", "object", {}, FALSE),
               Shape("HeadObject", "HEAD", "object", {}, FALSE),
               Shape("DeleteObject", "DELETE", "object", {}, FALSE),
               Shape("CreateMultipartUpload", "POST", "object", Sub("uploads"), FALSE),
               Shape("UploadPart", "PUT", "object", OfUpload \cup {<<"partNumber", "1">>}, FALSE),
               Shape("CompleteMultipartUpload", "POST", "object", OfUpload, FALSE),
               Shape("AbortMultipartUpload", "DELETE", "object", OfUpload, FALSE),
               Shape("ListParts", "GET", "object", OfUpload, FALSE),
               Shape("GetObjectAcl", "GET", "object", Sub("acl"), FALSE),
               Shape("PutObjectAcl", "PUT", "object", Sub("acl"), FALSE)}
  <2>1. Shapes = Simple \cup OfCors \cup OfTags \cup Unserved
    BY DEF Shapes
  <2>2. ASSUME shape \in OfCors PROVE Goal
    <3>1. PICK act \in CorsOps : shape = Shape(act[1], act[2], "bucket", Sub("cors"), FALSE)
      BY <2>2
    <3>2. act = <<"GetBucketCors", "GET">> \/ act = <<"PutBucketCors", "PUT">> \/ act = <<"DeleteBucketCors", "DELETE">>
      BY <3>1
    <3>3. \/ act[1] = "GetBucketCors" /\ act[2] = "GET"
          \/ act[1] = "PutBucketCors" /\ act[2] = "PUT"
          \/ act[1] = "DeleteBucketCors" /\ act[2] = "DELETE"
      BY <3>2
    <3> QED BY <1>24, <1>25, <1>26, <3>1, <3>3, Zenon
  <2>3. ASSUME shape \in OfTags PROVE Goal
    <3>1. PICK act \in TagOps : shape = Shape(act[1], act[2], "object", Sub("tagging"), FALSE)
      BY <2>3
    <3>2. act = <<"GetObjectTagging", "GET">> \/ act = <<"PutObjectTagging", "PUT">> \/ act = <<"DeleteObjectTagging", "DELETE">>
      BY <3>1
    <3>3. \/ act[1] = "GetObjectTagging" /\ act[2] = "GET"
          \/ act[1] = "PutObjectTagging" /\ act[2] = "PUT"
          \/ act[1] = "DeleteObjectTagging" /\ act[2] = "DELETE"
      BY <3>2
    <3> QED BY <1>27, <1>28, <1>29, <3>1, <3>3, Zenon
  <2>4. ASSUME shape \in Unserved PROVE Goal
    <3> HIDE DEF no
    <3>1. PICK m \in {"GET", "PUT"}, n \in {"versioning", "lifecycle", "policy", "logging"} :
               shape = Shape("NotImplemented", m, "bucket", Sub(n), no)
      BY <2>4, ShapesNamed
    <3>2. n \in unsupported
      BY <1>5, <3>1
    <3> QED BY <1>3, <3>1, <3>2 DEF no
  <2>5. ASSUME shape \in Simple PROVE Goal
    BY <1>4, <1>6, <1>7, <1>8, <1>9, <1>10, <1>11, <1>12, <1>13, <1>14, <1>15, <1>16, <1>17, <1>18, <1>19, <1>20, <1>21, <1>22, <1>23, <2>5, Zenon
  <2> HIDE DEF CorsOps, TagOps, OfCors, OfTags, Unserved, Simple
  <2> QED BY <2>1, <2>2, <2>3, <2>4, <2>5
<1> QED BY <1>30 DEF Goal

-------------------------------------------------------------------------------
(* What a request was made of, which its signature does not change. *)
LEMMA SentFields ==
    ASSUME NEW t, t.auth \in {"header", "presign"}, NEW payload, NEW k
    PROVE  LET s == Signed(t, payload)
               w == WithAccess(s, k)
               a == AddressOf(t.shape, t.bucket, t.key, t.base, t.inHost)
           IN  /\ s.method = t.shape.method /\ s.path = a.path /\ s.query = t.shape.query
               /\ s.headers.host = a.host /\ s.headers.copy = IF t.shape.copy THEN "source" ELSE None
               /\ w.method = s.method /\ w.path = s.path /\ w.query = s.query /\ w.headers = s.headers
               /\ t.auth = "presign" => w = s
<1> DEFINE q == Unsigned(t, payload)
           s == Signed(t, payload)
           a == AddressOf(t.shape, t.bucket, t.key, t.base, t.inHost)
           copy == IF t.shape.copy THEN "source" ELSE None
<1>1. /\ q.method = t.shape.method /\ q.path = a.path /\ q.query = t.shape.query
      /\ q.headers = [host |-> a.host, date |-> None, payload |-> payload, copy |-> copy]
      /\ q = [method |-> q.method, path |-> q.path, query |-> q.query, headers |-> q.headers,
              authz |-> None, presign |-> None]
  BY DEF Unsigned
<1> HIDE DEF q, copy
<1>2. ASSUME t.auth = "header"
      PROVE  /\ s.method = q.method /\ s.path = q.path /\ s.query = q.query
             /\ s.headers.host = q.headers.host /\ s.headers.copy = q.headers.copy
             /\ RequestIs(s)
  <2>1. PICK b : s = [[q EXCEPT !.headers.date = t.signed] EXCEPT !.authz = b]
    BY <1>2 DEF Signed, Sign, q
  <2> HIDE DEF s
  <2>2. RequestIs(s)
    BY <1>2, HeaderSigned DEF s
  <2> QED BY <1>1, <2>1, <2>2
<1>3. ASSUME t.auth = "presign"
      PROVE  /\ s.method = q.method /\ s.path = q.path /\ s.query = q.query /\ s.headers = q.headers
             /\ s.authz = None
  <2>1. s = Presign(q, t.signer, "auto", t.expires, t.signed)
    BY <1>3 DEF Signed, q
  <2>2. PICK p : s = [q EXCEPT !.presign = p]
    BY <1>1, <2>1 DEF Presign
  <2> HIDE DEF s
  <2> QED BY <1>1, <2>2
<1> HIDE DEF s, a
<1>4. ASSUME RequestIs(s)
      PROVE  LET w == WithAccess(s, k) IN
             w.method = s.method /\ w.path = s.path /\ w.query = s.query /\ w.headers = s.headers
  BY <1>4 DEF RequestIs, WithAccess
<1>5. t.auth = "presign" => WithAccess(s, k) = s
  BY <1>3 DEF WithAccess
<1>6. s.headers.host = a.host /\ s.headers.copy = copy
  BY <1>1, <1>2, <1>3
<1> QED BY <1>1, <1>2, <1>3, <1>4, <1>5, <1>6 DEF s, a, copy

(* A request that is what was sent, but for the access key in a header, goes *)
(* to the operation, the bucket and the key that it is for.                  *)
LEMMA GenuineIsRouted ==
    ASSUME NEW t \in Trips, t.auth \in {"header", "presign"}, NEW payload, NEW k, NEW r,
           r = WithAccess(Signed(t, payload), k)
    PROVE  LET g == Target(r) IN
           /\ route(r.method, r.query, r.headers.copy # None, g) = t.shape.op
           /\ t.shape.at # "service" => g.bucket = t.bucket
           /\ t.shape.at = "object" => g.key = t.key
<1> DEFINE a == AddressOf(t.shape, t.bucket, t.key, t.base, t.inHost)
           g == Target(r)
           copy == r.headers.copy # None
<1>1. /\ r.method = t.shape.method /\ r.path = a.path /\ r.query = t.shape.query
      /\ r.headers.host = a.host /\ r.headers.copy = IF t.shape.copy THEN "source" ELSE None
  BY SentFields
<1>2. /\ t.shape \in Shapes /\ t.base \in Range(Bases)
      /\ t.bucket \in Seq(STRING) \ {<<>>, Empty} /\ t.key \in Seq(Seq(STRING)) \ {<<>>, <<Empty>>}
  BY TripsAssumption
<1>3. g = target(a.host, a.path)
  BY <1>1 DEF Target
<1> HIDE DEF g
<1>4. /\ t.shape.at = "service" => g = [bucket |-> Empty, key |-> <<>>]
      /\ t.shape.at = "bucket" => g = [bucket |-> t.bucket, key |-> <<>>]
      /\ t.shape.at = "object" => g = [bucket |-> t.bucket, key |-> t.key]
  BY <1>2, <1>3, AddressFound
<1>5. /\ t.shape.at = "service" => g.bucket = Empty /\ g.key = <<>>
      /\ t.shape.at = "bucket" => g.bucket = t.bucket /\ g.key = <<>>
      /\ t.shape.at = "object" => g.bucket = t.bucket /\ g.key = t.key
      /\ t.bucket # Empty /\ t.key # <<>>
  BY <1>2, <1>4
<1>6. copy <=> t.shape.copy
  BY <1>1, NoneAssumption
<1> HIDE DEF copy
<1>7. t.shape.at \in {"service", "bucket", "object"} /\ route(t.shape.method, t.shape.query, copy, g) = t.shape.op
  BY <1>2, <1>5, <1>6, ShapeRouted
<1> QED BY <1>1, <1>5, <1>7 DEF g, copy

(* What the verdict and the route are of. *)
VerdictTold ==
    ar # None \/ op # None \/ pc \in {"route", "body"} =>
        /\ pc # "idle" /\ ar.by \in WholeKeys /\ ar.now \in Nat
        /\ ar.err = Verify(came, ar.by, ar.now).err

RoutedInv ==
    op # None =>
        /\ at = Target(came)
        /\ op = route(came.method, came.query, came.headers.copy # None, Target(came))

LEMMA UnsignedRefused ==
    ASSUME NEW t, t.auth = "none", NEW payload,
           NEW r \in {Signed(t, payload)} \cup Astray(Signed(t, payload)), NEW key, NEW time
    PROVE  Verify(r, key, time).err # "none"
<1> SUFFICES ASSUME r.authz # Garbled PROVE Verify(r, key, time).err # "none"
  BY GarbledRefused
<1> DEFINE s == Signed(t, payload)
<1>1. RequestIs(s) /\ s.authz = None /\ s.presign = None /\ r # [s EXCEPT !.authz = Garbled]
  <2>1. RequestIs(s) /\ s.authz = None /\ s.presign = None
    BY DEF Signed, Unsigned, RequestIs
  <2> HIDE DEF s
  <2> QED BY <2>1 DEF RequestIs
<1> HIDE DEF s
<1> DEFINE Kept(v) == v.authz = None /\ v.presign = None
<1>2. ASSUME NEW m
      PROVE  /\ Kept([s EXCEPT !.method = m]) /\ Kept([s EXCEPT !.path = m])
             /\ Kept([s EXCEPT !.query = m]) /\ Kept([s EXCEPT !.headers = m])
  BY <1>1 DEF RequestIs
<1>3. ASSUME r \in Astray(s)
      PROVE  \E m : \/ r = [s EXCEPT !.method = m] \/ r = [s EXCEPT !.path = m]
                    \/ r = [s EXCEPT !.query = m] \/ r = [s EXCEPT !.headers = m]
  BY <1>1, <1>3 DEF Astray
<1>4. Kept(r)
  <2>1. r = s \/ r \in Astray(s)
    BY DEF s
  <2>2. Kept(s)
    BY <1>1
  <2> HIDE DEF Kept
  <2> QED BY <1>2, <1>3, <2>1, <2>2
<1>5. Verify(r, key, time).err = "missing"
  BY <1>4 DEF Verify, Presigned, HeaderError
<1> QED BY <1>5

LEMMA VerdictTells ==
    ASSUME TypeInv, VerdictTold, ar # None \/ op # None
    PROVE  LET genuine == /\ came = WithAccess(sent, ar.by)
                          /\ trip.signer.secret = ar.by.secret
                          /\ trip.auth = "presign" => trip.signer = ar.by
                          /\ InTime(trip)
           IN  /\ ar.err = "none" => genuine /\ trip.auth \in {"header", "presign"}
               /\ genuine /\ (trip.auth = "presign" => trip.expires * Second <= MaxPresign) => ar.err = "none"
<1> DEFINE payload == PayloadOf(req)
           genuine == /\ came = WithAccess(sent, ar.by)
                      /\ trip.signer.secret = ar.by.secret
                      /\ trip.auth = "presign" => trip.signer = ar.by
                      /\ InTime(trip)
<1>1. /\ sent = Signed(trip, payload) /\ came \in {Signed(trip, payload)} \cup Astray(Signed(trip, payload))
      /\ ar.by \in WholeKeys /\ ar.now \in Nat /\ ar.err = Verify(came, ar.by, ar.now).err
  BY DEF TypeInv, OnItsWay, VerdictTold
<1>2. /\ trip \in Trips /\ trip.signed \in Nat /\ trip.expires \in Int /\ trip.signer \in Key
      /\ trip.auth \in {"header", "presign", "none"}
  BY TripsAssumption DEF TypeInv, Inv
<1>3. payload \in Payloads /\ ar.by \in Settings
  BY <1>1 DEF PayloadOf, Payloads, WholeKeys
<1>4. None \notin Nat \cup {payload}
  BY <1>3, NoneAssumption
<1> HIDE DEF payload
<1>5. CASE trip.auth = "header"
  <2>1. Signed(trip, payload).authz # None /\ WithAccess(Signed(trip, payload), ar.by).authz # None
    <3>1. \A k \in Settings : WithAccess(Signed(trip, payload), k).authz # None
      BY <1>2, <1>3, <1>5, NoneAssumption
    <3>2. WithAccess(Signed(trip, payload), ar.by).authz # None
      BY <1>3, <3>1
    <3> QED BY <3>2 DEF WithAccess
  <2>2. InTime(trip) <=> trip.signed - Skew <= ar.now /\ ar.now <= trip.signed + Skew
    BY <1>5 DEF InTime
  <2>3. ASSUME ar.err = "none" PROVE genuine
    <3>1. Verify(came, ar.by, ar.now).err = "none"
      BY <1>1, <2>3
    <3>2. /\ came = WithAccess(Signed(trip, payload), ar.by) /\ trip.signer.secret = ar.by.secret
          /\ trip.signed - Skew <= ar.now /\ ar.now <= trip.signed + Skew
      BY <1>1, <1>2, <1>5, <2>1, <3>1, HeaderGenuine
    <3> QED BY <1>1, <1>5, <2>2, <3>2
  <2>4. genuine => ar.err = "none"
    BY <1>1, <1>2, <1>4, <1>5, <2>1, <2>2, HeaderPasses
  <2> QED BY <1>5, <2>3, <2>4
<1>6. CASE trip.auth = "presign"
  <2>1. WithAccess(sent, ar.by) = sent
    BY <1>1, <1>6, SentFields
  <2>2. None \notin {Signed(trip, payload).presign, Signed(trip, payload).presign.sig}
    BY <1>2, <1>3, <1>6, NoneAssumption
  <2>3. InTime(trip) <=> /\ trip.signed - Skew <= ar.now /\ 0 < trip.expires
                         /\ ar.now <= trip.signed + Lesser(trip.expires * Second, MaxPresign)
    BY <1>6 DEF InTime
  <2>4. trip.signer = ar.by <=> trip.signer.access = ar.by.access /\ trip.signer.secret = ar.by.secret
    <3>1. trip.signer = [access |-> trip.signer.access, secret |-> trip.signer.secret]
      BY <1>2, KeyAssumption
    <3>2. ar.by = [access |-> ar.by.access, secret |-> ar.by.secret]
      BY <1>3 DEF Settings
    <3> QED BY <3>1, <3>2
  <2>5. ASSUME ar.err = "none" PROVE genuine
    <3>1. Verify(came, ar.by, ar.now).err = "none"
      BY <1>1, <2>5
    <3>2. /\ came = Signed(trip, payload)
          /\ trip.signer.secret = ar.by.secret /\ trip.signer.access = ar.by.access
          /\ trip.signed - Skew <= ar.now /\ 0 < trip.expires
          /\ ar.now <= trip.signed + Lesser(trip.expires * Second, MaxPresign)
      BY <1>1, <1>2, <1>6, <3>1, PresignGenuine
    <3> QED BY <1>1, <2>1, <2>3, <2>4, <3>2
  <2>6. ASSUME genuine, trip.expires * Second <= MaxPresign PROVE ar.err = "none"
    <3>1. Lesser(trip.expires * Second, MaxPresign) = trip.expires * Second
      <4>1. trip.expires * Second \in Int /\ MaxPresign \in Int
        BY <1>2, ClockAssumption
      <4> QED BY <2>6, <4>1 DEF Lesser
    <3>2. /\ trip.signed - Skew <= ar.now /\ 0 < trip.expires
          /\ ar.now <= trip.signed + trip.expires * Second
      BY <2>3, <2>6, <3>1
    <3> QED BY <1>1, <1>2, <1>4, <1>6, <2>1, <2>2, <2>4, <2>6, <3>2, PresignPasses
  <2> QED BY <1>6, <2>5, <2>6
<1>7. CASE trip.auth = "none"
  <2>1. ~ InTime(trip)
    BY <1>7 DEF InTime
  <2>2. ASSUME ar.err = "none" PROVE FALSE
    <3>1. Verify(came, ar.by, ar.now).err = "none"
      BY <1>1, <2>2
    <3> QED BY <1>1, <1>7, <3>1, UnsignedRefused
  <2> QED BY <2>1, <2>2
<1> QED BY <1>2, <1>5, <1>6, <1>7

LEMMA ServedFollows == TypeInv /\ VerdictTold /\ RoutedInv => ServedIffSigned
<1> SUFFICES ASSUME TypeInv, VerdictTold, RoutedInv PROVE ServedIffSigned
  OBVIOUS
<1> DEFINE genuine == /\ came = WithAccess(sent, ar.by)
                      /\ trip.signer.secret = ar.by.secret
                      /\ trip.auth = "presign" => trip.signer = ar.by
                      /\ InTime(trip)
<1>1. ar # None \/ op # None =>
        /\ ar.err = "none" => genuine /\ trip.auth \in {"header", "presign"}
        /\ genuine /\ (trip.auth = "presign" => trip.expires * Second <= MaxPresign) => ar.err = "none"
  BY VerdictTells
<1>2. ASSUME op # None
      PROVE  /\ op = trip.shape.op
             /\ trip.shape.at # "service" => at.bucket = trip.bucket
             /\ trip.shape.at = "object" => at.key = trip.key
  <2>1. ar.err = "none" /\ trip \in Trips /\ sent = Signed(trip, PayloadOf(req))
    BY <1>2 DEF TypeInv, VerifiedInv, Inv, OnItsWay
  <2>2. came = WithAccess(Signed(trip, PayloadOf(req)), ar.by) /\ trip.auth \in {"header", "presign"}
    BY <1>1, <1>2, <2>1
  <2>3. at = Target(came) /\ op = route(came.method, came.query, came.headers.copy # None, Target(came))
    BY <1>2 DEF RoutedInv
  <2> QED BY <2>1, <2>2, <2>3, GenuineIsRouted
<1> HIDE DEF genuine
<1>3. /\ ar # None /\ ar.err = "none" => genuine
      /\ ar # None /\ genuine /\ (trip.auth = "presign" => trip.expires * Second <= MaxPresign) => ar.err = "none"
  BY <1>1
<1> QED BY <1>2, <1>3 DEF ServedIffSigned, genuine

LEMMA VerdictStep ==
    ASSUME TypeInv, VerdictTold, RoutedInv, [Next]_vars
    PROVE  VerdictTold' /\ RoutedInv'
<1>1. CASE Send
  BY <1>1 DEF Send, VerdictTold, RoutedInv
<1>2. CASE Authorize
  <2>1. /\ op' = None /\ keys \in WholeKeys /\ now \in Nat /\ came' = came /\ pc' \in {"route", "answered"}
        /\ ar' = [err |-> Verify(came, keys, now).err, payload |-> Verify(came, keys, now).payload,
                  by |-> keys, now |-> now]
    <3>1. trip.until \in Nat
      BY TripsAssumption DEF TypeInv, Inv
    <3> QED BY <1>2, <3>1 DEF Authorize, TypeInv, ServerType, VerifiedInv
  <2>2. ar'.by \in WholeKeys /\ ar'.now \in Nat /\ ar'.err = Verify(came', ar'.by, ar'.now).err
    BY <2>1
  <2> QED BY <2>1, <2>2 DEF VerdictTold, RoutedInv, WholeKeys
<1>3. CASE Route
  BY <1>3 DEF Route, VerdictTold, RoutedInv, WholeKeys, Target
<1>4. ASSUME ar' = ar, op' = op, at' = at, came' = came,
             pc' \in {"route", "body"} => pc' = pc, pc' = "idle" => pc = "idle"
      PROVE  VerdictTold' /\ RoutedInv'
  BY <1>4 DEF VerdictTold, RoutedInv, WholeKeys, Target
<1>5. CASE Preflight
  BY <1>4, <1>5 DEF Preflight
<1>6. CASE WriteHeaders
  BY <1>4, <1>6 DEF WriteHeaders
<1>7. CASE Tick \/ Body \/ Begin \/ (StartUp /\ UNCHANGED <<body, front>>) \/ UNCHANGED vars
  BY <1>4, <1>7 DEF Tick, Body, Begin, vars, front
<1>8. CASE Die
  BY <1>4, <1>8 DEF Die
<1> QED BY <1>1, <1>2, <1>3, <1>5, <1>6, <1>7, <1>8 DEF Next, Handle

(* What Verify lets pass is what a client that has the secret of the server  *)
(* signed, in time; that passes; and then route takes it to the operation,   *)
(* the bucket and the key that it was made for, in either style: for all     *)
(* keys, clocks, hosts and requests of the protocol, and whatever one change *)
(* it met on its way.                                                        *)
THEOREM ServedWereSigned == Spec => []ServedIffSigned
<1>1. Init => VerdictTold /\ RoutedInv
  BY DEF Init, VerdictTold, RoutedInv
<1>2. TypeInv /\ VerdictTold /\ RoutedInv /\ [Next]_vars => (VerdictTold /\ RoutedInv)'
  BY VerdictStep
<1> QED BY <1>1, <1>2, InitTypeInv, NextTypeInv, ServedFollows, PTL DEF Spec
===============================================================================
