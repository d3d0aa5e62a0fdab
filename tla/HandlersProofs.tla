---------------------------- MODULE HandlersProofs -----------------------------
(***************************************************************************)
(* Conditional calls: one acts against its condition only after another    *)
(* call has changed its object, for every number of requests and keys.     *)
(* What makes the invariant inductive is Watched: from its check on, a     *)
(* request that nothing has raced finds its condition as it left it.       *)
(*                                                                         *)
(* Listings: what is due appears after the point where the next page       *)
(* begins (DueAhead), for every set of keys and every size of a page.      *)
(* That a page with something left out has a last item, and that what was  *)
(* left out comes after it, rests on the order of strings, which is total  *)
(* and transitive, on there being finitely many objects at any time, and   *)
(* on a finite set having a least and a greatest string (FirstOfFinite).   *)
(***************************************************************************)
EXTENDS Handlers, FiniteSetTheorems, SequenceTheorems, WellFoundedInduction, TLAPS

Watched ==
    \A r \in Req : step[r] = "act" /\ r \notin raced => Holds(call[r], objs[call[r].src])

Inv == CallsTypeOK /\ Watched /\ HonouredUnlessRaced

(* The check of the handler is the condition that the headers state.         *)
LEMMA ChecksCondition ==
    ASSUME NEW c \in Calls, NEW etag \in Body \cup {None}
    PROVE  preconditions(c, etag) <=> Holds(c, etag)
BY ConditionalAssumption DEF preconditions, Holds, etagMatch

(* Whatever a step writes, a request that Race does not name is still        *)
(* watched.                                                                  *)
LEMMA RaceKeepsWatch ==
    ASSUME Watched, NEW others \in SUBSET Req, Race(others), call' = call,
           \A q \in Req \ others : step'[q] # "act",
           \A q \in Req : step'[q] = "act" => step[q] = "act"
    PROVE  Watched'
<1> SUFFICES ASSUME NEW q \in Req, step'[q] = "act", q \notin raced'
             PROVE  Holds(call[q], objs'[call[q].src])
  BY DEF Watched, Holds
<1>1. q \in others /\ step[q] = "act" /\ q \notin raced
  BY DEF Race
<1>2. objs'[call[q].src] = objs[call[q].src]
  BY <1>1 DEF Race
<1> QED BY <1>1, <1>2 DEF Watched

LEMMA RaceGrows ==
    ASSUME NEW others \in SUBSET Req, Race(others), raced \subseteq Req
    PROVE  raced \subseteq raced' /\ raced' \subseteq Req
BY DEF Race

(* Going ahead breaks a condition only for a request that has been raced.    *)
LEMMA BrokenIsRaced ==
    ASSUME Inv, NEW r \in Req, GoAhead(r)
    PROVE  broken' \subseteq raced /\ broken' \subseteq Req
BY DEF Inv, CallsTypeOK, Watched, HonouredUnlessRaced, GoAhead

LEMMA InitInv == Init => Inv
<1> SUFFICES ASSUME Init PROVE Inv
  OBVIOUS
<1>1. CallsTypeOK
  BY DEF Init, CallsInit, CallsTypeOK
<1>2. Watched /\ HonouredUnlessRaced
  BY DEF Init, CallsInit, Watched, HonouredUnlessRaced
<1> QED BY <1>1, <1>2 DEF Inv

-------------------------------------------------------------------------------
(* Each step of a call keeps the invariant. *)
LEMMA PlainInv ==
    ASSUME Inv, NEW k \in Key, NEW v \in Body \cup {None}, Store(k, v), Race(Req),
           UNCHANGED <<call, step, got, answer, broken>>
    PROVE  Inv'
<1>1. CallsTypeOK'
  BY RaceGrows DEF Inv, CallsTypeOK, Store
<1>2. Watched'
  BY RaceKeepsWatch DEF Inv
<1>3. HonouredUnlessRaced'
  BY RaceGrows DEF Inv, HonouredUnlessRaced, CallsTypeOK
<1> QED BY <1>1, <1>2, <1>3 DEF Inv

LEMMA ArriveInv ==
    ASSUME Inv, NEW r \in Req, NEW c \in Calls, Arrive(r, c)
    PROVE  Inv'
<1>1. CallsTypeOK'
  BY ConditionalAssumption DEF Inv, CallsTypeOK, Arrive
<1>2. Watched'
  BY DEF Inv, CallsTypeOK, Arrive, Watched, Holds
<1>3. HonouredUnlessRaced'
  BY DEF Inv, HonouredUnlessRaced, Arrive
<1> QED BY <1>1, <1>2, <1>3 DEF Inv

LEMMA CheckInv ==
    ASSUME Inv, NEW r \in Req, Check(r)
    PROVE  Inv'
<1> USE DEF Inv
<1>1. call[r] \in Calls /\ call[r].src \in Key /\ objs[call[r].src] \in Body \cup {None}
  BY ConditionalAssumption DEF CallsTypeOK, Check
<1>2. CallsTypeOK'
  BY <1>1 DEF CallsTypeOK, Check, Finish
<1>3. ASSUME NEW q \in Req, step'[q] = "act", q \notin raced'
      PROVE  Holds(call[q], objs[call[q].src])
  <2>1. CASE q = r
    <3>1. preconditions(call[r], objs[call[r].src])
      BY <1>3, <2>1 DEF Check, Finish, CallsTypeOK
    <3> QED BY <1>1, <2>1, <3>1, ChecksCondition
  <2>2. CASE q # r
    <3>1. step[q] = "act" /\ q \notin raced
      BY <1>3, <2>2 DEF Check, Finish, CallsTypeOK
    <3> QED BY <3>1 DEF Watched
  <2> QED BY <2>1, <2>2
<1>4. Watched'
  BY <1>3 DEF Watched, Check, Holds
<1>5. HonouredUnlessRaced'
  BY DEF HonouredUnlessRaced, Check
<1> QED BY <1>2, <1>4, <1>5

(* Put and Delete: the call of the store and the end of the handler. *)
LEMMA WriteInv ==
    ASSUME Inv, NEW r \in Req, NEW v \in Body \cup {None}, GoAhead(r),
           Store(call[r].key, v), Race(Req \ {r}), Finish(r, "ok"), UNCHANGED got
    PROVE  Inv'
<1> USE DEF Inv
<1>1. broken' \subseteq raced /\ broken' \subseteq Req
  BY BrokenIsRaced
<1>2. raced \subseteq raced' /\ raced' \subseteq Req
  BY RaceGrows DEF CallsTypeOK
<1>3. CallsTypeOK'
  BY <1>1, <1>2 DEF CallsTypeOK, GoAhead, Store, Finish
<1>4. step'[r] # "act" /\ \A q \in Req : step'[q] = "act" => step[q] = "act"
  BY DEF CallsTypeOK, Finish
<1>5. Watched'
  BY <1>4, RaceKeepsWatch DEF GoAhead
<1>6. HonouredUnlessRaced'
  BY <1>1, <1>2 DEF HonouredUnlessRaced
<1> QED BY <1>3, <1>5, <1>6

LEMMA CopyGetInv ==
    ASSUME Inv, NEW r \in Req, CopyGet(r)
    PROVE  Inv'
<1> USE DEF Inv
<1>1. broken' \subseteq raced /\ broken' \subseteq Req
  BY BrokenIsRaced DEF CopyGet
<1>2. call[r] \in Calls /\ call[r].src \in Key
  BY ConditionalAssumption DEF CallsTypeOK, CopyGet, GoAhead
<1>3. CallsTypeOK'
  BY <1>1, <1>2 DEF CallsTypeOK, CopyGet, GoAhead
<1>4. Watched'
  BY DEF Watched, Holds, CopyGet, GoAhead, CallsTypeOK
<1>5. HonouredUnlessRaced'
  BY <1>1 DEF HonouredUnlessRaced, CopyGet
<1> QED BY <1>3, <1>4, <1>5

LEMMA CopyPutInv ==
    ASSUME Inv, NEW r \in Req, CopyPut(r)
    PROVE  Inv'
<1> USE DEF Inv
<1>1. raced \subseteq raced' /\ raced' \subseteq Req
  BY RaceGrows DEF CallsTypeOK, CopyPut
<1>2. CallsTypeOK'
  BY <1>1 DEF CallsTypeOK, CopyPut, Store, Finish
<1>3. \A q \in Req : step'[q] = "act" => step[q] = "act"
  BY DEF CallsTypeOK, CopyPut, Finish
<1>4. Watched'
  BY <1>3, RaceKeepsWatch DEF CopyPut
<1>5. HonouredUnlessRaced'
  BY <1>1 DEF HonouredUnlessRaced, CopyPut
<1> QED BY <1>2, <1>4, <1>5

(* RejectPut and CopyNothing: the handler ends without a change. *)
LEMMA EndInv ==
    ASSUME Inv, NEW r \in Req, NEW a \in {"rejected", "notfound"}, step[r] = "act",
           Finish(r, a), UNCHANGED <<objs, call, got, raced, broken>>
    PROVE  Inv'
<1>1. CallsTypeOK'
  BY DEF Inv, CallsTypeOK, Finish
<1>2. Watched'
  BY DEF Inv, CallsTypeOK, Watched, Holds, Finish
<1>3. HonouredUnlessRaced'
  BY DEF Inv, HonouredUnlessRaced
<1> QED BY <1>1, <1>2, <1>3 DEF Inv

LEMMA RespondInv ==
    ASSUME Inv, NEW r \in Req, Respond(r)
    PROVE  Inv'
<1>1. CallsTypeOK'
  BY DEF Inv, CallsTypeOK, Respond
<1>2. Watched'
  BY DEF Inv, CallsTypeOK, Watched, Holds, Respond
<1>3. HonouredUnlessRaced'
  BY DEF Inv, HonouredUnlessRaced, Respond
<1> QED BY <1>1, <1>2, <1>3 DEF Inv

LEMMA NextInv == Inv /\ [Next]_vars => Inv'
<1> SUFFICES ASSUME Inv, [Next]_vars PROVE Inv'
  OBVIOUS
<1>1. CASE CallsNext
  <2>1. ASSUME NEW k \in Key, PlainDelete(k) PROVE Inv'
    BY <2>1, PlainInv DEF PlainDelete
  <2>2. ASSUME NEW k \in Key, NEW b \in Body, PlainPut(k, b) PROVE Inv'
    BY <2>2, PlainInv DEF PlainPut
  <2>3. ASSUME NEW r \in Req, NEW c \in Calls, Arrive(r, c) PROVE Inv'
    BY <2>3, ArriveInv
  <2>4. ASSUME NEW r \in Req, Check(r) PROVE Inv'
    BY <2>4, CheckInv
  <2>5. ASSUME NEW r \in Req, Put(r) PROVE Inv'
    <3>1. call[r].body \in Body
      BY <2>5, ConditionalAssumption DEF Inv, CallsTypeOK, Put, GoAhead
    <3> QED BY <2>5, <3>1, WriteInv DEF Put
  <2>6. ASSUME NEW r \in Req, Delete(r) PROVE Inv'
    BY <2>6, WriteInv DEF Delete
  <2>7. ASSUME NEW r \in Req, CopyGet(r) PROVE Inv'
    BY <2>7, CopyGetInv
  <2>8. ASSUME NEW r \in Req, CopyPut(r) PROVE Inv'
    BY <2>8, CopyPutInv
  <2>9. ASSUME NEW r \in Req, RejectPut(r) \/ CopyNothing(r) PROVE Inv'
    BY <2>9, EndInv DEF RejectPut, CopyNothing
  <2>10. ASSUME NEW r \in Req, Respond(r) PROVE Inv'
    BY <2>10, RespondInv
  <2> QED BY <1>1, <2>1, <2>2, <2>3, <2>4, <2>5, <2>6, <2>7, <2>8, <2>9, <2>10 DEF CallsNext
<1>2. CASE UNCHANGED <<objs, requests>>
  BY <1>2 DEF Inv, CallsTypeOK, Watched, HonouredUnlessRaced, Holds, requests
<1>3. ListingNext => UNCHANGED objs
  BY DEF ListingNext, NextPage, EndScan, StartScan
<1> QED BY <1>1, <1>2, <1>3 DEF Next, vars

(* The variables of the conditional calls keep their types. *)
THEOREM CallsTypeCorrect == Spec => []CallsTypeOK
<1>1. Inv => CallsTypeOK
  BY DEF Inv
<1> QED BY <1>1, InitInv, NextInv, PTL DEF Spec

(* Whatever other requests do between the two calls of the store that a      *)
(* handler makes, it goes past its condition only when one of them has       *)
(* changed the object in between.                                            *)
THEOREM ConditionsHonoured == Spec => []HonouredUnlessRaced
<1>1. Inv => HonouredUnlessRaced
  BY DEF Inv
<1> QED BY <1>1, InitInv, NextInv, PTL DEF Spec
-------------------------------------------------------------------------------
(* The order of strings. *)
LEMMA StrictPrefixMeans ==
    ASSUME NEW s \in Seq(Nat), NEW t \in Seq(Nat)
    PROVE  IsStrictPrefix(s, t) <=> Len(s) < Len(t) /\ \A j \in 1..Len(s) : s[j] = t[j]
<1>1. IsStrictPrefix(s, t) => Len(s) < Len(t) /\ \A j \in 1..Len(s) : s[j] = t[j]
  <2> SUFFICES ASSUME IsStrictPrefix(s, t)
               PROVE  Len(s) < Len(t) /\ \A j \in 1..Len(s) : s[j] = t[j]
    OBVIOUS
  <2>1. Len(s) <= Len(t) /\ SubSeq(s, 1, Len(s)) = SubSeq(t, 1, Len(s)) /\ s # t
    BY DEF IsStrictPrefix, IsPrefix
  <2>2. \A j \in 1..Len(s) : SubSeq(s, 1, Len(s))[j] = s[j] /\ SubSeq(t, 1, Len(s))[j] = t[j]
    BY <2>1
  <2>3. \A j \in 1..Len(s) : s[j] = t[j]
    BY <2>1, <2>2
  <2>4. Len(s) # Len(t)
    BY <2>1, <2>3
  <2> QED BY <2>1, <2>3, <2>4
<1>2. ASSUME Len(s) < Len(t), \A j \in 1..Len(s) : s[j] = t[j]
      PROVE  IsStrictPrefix(s, t)
  <2>1. SubSeq(s, 1, Len(s)) \in Seq(Nat) /\ SubSeq(t, 1, Len(s)) \in Seq(Nat)
    BY <1>2
  <2>2. Len(SubSeq(s, 1, Len(s))) = Len(s) /\ Len(SubSeq(t, 1, Len(s))) = Len(s)
    BY <1>2
  <2>3. \A j \in 1..Len(s) : SubSeq(s, 1, Len(s))[j] = SubSeq(t, 1, Len(s))[j]
    BY <1>2
  <2>4. SubSeq(s, 1, Len(s)) = SubSeq(t, 1, Len(s))
    BY <2>1, <2>2, <2>3
  <2> QED BY <1>2, <2>4 DEF IsStrictPrefix, IsPrefix
<1> QED BY <1>1, <1>2

(* s and t differ at i first, where s ends or is smaller. *)
LessAt(s, t, i) ==
    /\ i <= Len(t) /\ i <= Len(s) + 1
    /\ \A j \in 1..(i - 1) : s[j] = t[j]
    /\ i <= Len(s) => s[i] < t[i]

LEMMA LessMeans ==
    ASSUME NEW s \in Seq(Nat), NEW t \in Seq(Nat)
    PROVE  Less(s, t) <=> \E i \in Nat \ {0} : LessAt(s, t, i)
<1>1. ASSUME IsStrictPrefix(s, t) PROVE LessAt(s, t, Len(s) + 1)
  BY <1>1, StrictPrefixMeans DEF LessAt
<1>2. ASSUME NEW i \in DOMAIN s \cap DOMAIN t, s[i] < t[i], \A j \in 1..(i - 1) : s[j] = t[j]
      PROVE  LessAt(s, t, i) /\ i \in Nat \ {0}
  BY <1>2 DEF LessAt
<1>3. ASSUME NEW i \in Nat \ {0}, LessAt(s, t, i), i <= Len(s) PROVE Less(s, t)
  <2>1. i \in DOMAIN s \cap DOMAIN t
    BY <1>3 DEF LessAt
  <2> QED BY <1>3, <2>1 DEF LessAt, Less
<1>4. ASSUME NEW i \in Nat \ {0}, LessAt(s, t, i), ~ (i <= Len(s)) PROVE Less(s, t)
  <2>1. i = Len(s) + 1
    BY <1>4 DEF LessAt
  <2>2. Len(s) < Len(t) /\ \A j \in 1..Len(s) : s[j] = t[j]
    BY <1>4, <2>1 DEF LessAt
  <2> QED BY <2>2, StrictPrefixMeans DEF Less
<1>5. Len(s) + 1 \in Nat \ {0}
  OBVIOUS
<1> QED BY <1>1, <1>2, <1>3, <1>4, <1>5 DEF Less

LEMMA LessIrreflexive ==
    ASSUME NEW s \in Seq(Nat)
    PROVE  ~ Less(s, s) /\ ~ Less(s, <<>>)
<1>1. ~ Less(s, s)
  <2>1. \A i \in Nat \ {0} : ~ LessAt(s, s, i)
    BY DEF LessAt
  <2> QED BY <2>1, LessMeans
<1>2. ~ Less(s, <<>>)
  <2>1. \A i \in Nat \ {0} : ~ LessAt(s, <<>>, i)
    BY DEF LessAt
  <2>2. <<>> \in Seq(Nat)
    OBVIOUS
  <2> QED BY <2>1, <2>2, LessMeans
<1> QED BY <1>1, <1>2

LEMMA LessTransitive ==
    ASSUME NEW s \in Seq(Nat), NEW t \in Seq(Nat), NEW u \in Seq(Nat), Less(s, t), Less(t, u)
    PROVE  Less(s, u)
<1>0. Len(s) \in Nat /\ Len(t) \in Nat /\ Len(u) \in Nat
  OBVIOUS
<1>1. PICK i \in Nat \ {0} : LessAt(s, t, i)
  BY LessMeans
<1>2. PICK j \in Nat \ {0} : LessAt(t, u, j)
  BY LessMeans
<1>3. CASE i < j
  <2>1. LessAt(s, u, i)
    <3>1. i <= Len(t) /\ t[i] = u[i] /\ i <= Len(u)
      BY <1>1, <1>2, <1>3 DEF LessAt
    <3>2. ASSUME NEW n \in 1..(i - 1) PROVE s[n] = t[n] /\ t[n] = u[n]
      <4>1. n \in 1..(i - 1) /\ n \in 1..(j - 1)
        BY <1>3
      <4> QED BY <1>1, <1>2, <4>1 DEF LessAt
    <3> QED BY <1>1, <3>1, <3>2 DEF LessAt
  <2> QED BY <2>1, LessMeans
<1>4. CASE j < i
  <2>1. LessAt(s, u, j)
    <3>1. j <= Len(s) /\ s[j] = t[j] /\ j <= Len(t)
      <4>1. j \in 1..(i - 1)
        BY <1>4
      <4>2. s[j] = t[j] /\ j <= Len(t) /\ i <= Len(s) + 1
        BY <1>1, <1>2, <4>1 DEF LessAt
      <4> QED BY <1>0, <1>4, <4>2
    <3>2. ASSUME NEW n \in 1..(j - 1) PROVE s[n] = t[n] /\ t[n] = u[n]
      <4>1. n \in 1..(i - 1) /\ n \in 1..(j - 1)
        BY <1>4
      <4> QED BY <1>1, <1>2, <4>1 DEF LessAt
    <3> QED BY <1>2, <3>1, <3>2 DEF LessAt
  <2> QED BY <2>1, LessMeans
<1>5. CASE i = j
  <2>1. LessAt(s, u, i)
    <3>1. \A n \in 1..(i - 1) : s[n] = t[n] /\ t[n] = u[n]
      BY <1>1, <1>2, <1>5 DEF LessAt
    <3>2. i <= Len(t) /\ i <= Len(u) /\ t[i] < u[i]
      BY <1>1, <1>2, <1>5 DEF LessAt
    <3>3. ASSUME i <= Len(s) PROVE s[i] < u[i]
      <4>1. s[i] < t[i]
        BY <1>1, <3>3 DEF LessAt
      <4>2. s[i] \in Nat /\ t[i] \in Nat /\ u[i] \in Nat
        <5>1. i \in 1..Len(s) /\ i \in 1..Len(t) /\ i \in 1..Len(u)
          BY <1>0, <3>2, <3>3
        <5> QED BY <5>1
      <4> QED BY <3>2, <4>1, <4>2
    <3> QED BY <1>1, <1>2, <1>5, <3>1, <3>3 DEF LessAt
  <2> QED BY <2>1, LessMeans
<1> QED BY <1>3, <1>4, <1>5

LEMMA LeastNat ==
    ASSUME NEW S \in SUBSET Nat, S # {}
    PROVE  \E m \in S : \A n \in S : m <= n
<1> DEFINE R == OpToRel(<, Nat)
<1>1. PICK m \in S : \A n \in S : <<n, m>> \notin R
  <2>1. IsWellFoundedOn(R, Nat)
    BY NatLessThanWellFounded
  <2> HIDE DEF R
  <2> QED BY <2>1, WFMin
<1>2. ASSUME NEW n \in S PROVE ~ (n < m)
  <2>1. n < m => <<n, m>> \in R
    BY DEF OpToRel
  <2> QED BY <1>1, <2>1
<1> QED BY <1>2

LEMMA LessTotal ==
    ASSUME NEW s \in Seq(Nat), NEW t \in Seq(Nat), s # t
    PROVE  Less(s, t) \/ Less(t, s)
<1> DEFINE Differ == {i \in Nat \ {0} : /\ i <= Len(s) \/ i <= Len(t)
                                        /\ i <= Len(s) /\ i <= Len(t) => s[i] # t[i]}
<1>0. Len(s) \in Nat /\ Len(t) \in Nat
  OBVIOUS
<1>1. Differ # {}
  <2>1. CASE Len(s) = Len(t)
    <3>1. PICK n \in 1..Len(s) : s[n] # t[n]
      BY <2>1, SeqEqual
    <3>2. n \in Differ
      BY <1>0, <2>1, <3>1
    <3> QED BY <3>2
  <2>2. CASE Len(s) < Len(t)
    <3>1. Len(s) + 1 \in Differ
      BY <1>0, <2>2
    <3> QED BY <3>1
  <2>3. CASE Len(t) < Len(s)
    <3>1. Len(t) + 1 \in Differ
      BY <1>0, <2>3
    <3> QED BY <3>1
  <2> QED BY <2>1, <2>2, <2>3
<1>2. PICK i \in Differ : \A j \in Differ : i <= j
  <2>1. Differ \in SUBSET Nat
    OBVIOUS
  <2> HIDE DEF Differ
  <2> QED BY <1>1, <2>1, LeastNat
<1>3. \A j \in 1..(i - 1) : j <= Len(s) /\ j <= Len(t) /\ s[j] = t[j]
  <2> SUFFICES ASSUME NEW j \in 1..(i - 1) PROVE j <= Len(s) /\ j <= Len(t) /\ s[j] = t[j]
    OBVIOUS
  <2>1. j \notin Differ
    BY <1>2
  <2>2. j <= Len(s) \/ j <= Len(t)
    OBVIOUS
  <2> QED BY <2>1, <2>2
<1>4. LessAt(s, t, i) \/ LessAt(t, s, i)
  <2>1. i <= Len(s) + 1 /\ i <= Len(t) + 1
    <3>1. CASE i = 1
      BY <3>1
    <3>2. CASE i > 1
      <4>1. (i - 1) \in 1..(i - 1)
        BY <3>2
      <4> QED BY <1>3, <4>1
    <3> QED BY <3>1, <3>2
  <2>2. CASE i <= Len(s) /\ i <= Len(t)
    <3>1. s[i] \in Nat /\ t[i] \in Nat /\ s[i] # t[i]
      <4>1. i \in 1..Len(s) /\ i \in 1..Len(t)
        BY <1>0, <2>2
      <4> QED BY <2>2, <4>1
    <3>2. s[i] < t[i] \/ t[i] < s[i]
      BY <3>1
    <3>3. \A j \in 1..(i - 1) : s[j] = t[j] /\ t[j] = s[j]
      BY <1>3
    <3> QED BY <2>1, <2>2, <3>2, <3>3 DEF LessAt
  <2>3. CASE ~ (i <= Len(s))
    BY <1>3, <2>1, <2>3 DEF LessAt
  <2>4. CASE ~ (i <= Len(t))
    BY <1>3, <2>1, <2>4 DEF LessAt
  <2> QED BY <2>2, <2>3, <2>4
<1> QED BY <1>4, LessMeans

(* A relation that is transitive and irreflexive has a first member in every *)
(* finite set: what has none, and is smallest of that kind, loses a member   *)
(* and still has none.                                                       *)
LEMMA FirstOfFinite ==
    ASSUME NEW S, IsFiniteSet(S), S # {}, NEW R,
           \A a \in S : <<a, a>> \notin R,
           \A a, b, d \in S : <<a, b>> \in R /\ <<b, d>> \in R => <<a, d>> \in R
    PROVE  \E m \in S : \A n \in S : <<n, m>> \notin R
<1> DEFINE Bad == {T \in SUBSET S : T # {} /\ \A m \in T : \E n \in T : <<n, m>> \in R}
<1>1. SUFFICES ASSUME Bad # {} PROVE FALSE
  <2>1. S \in SUBSET S
    OBVIOUS
  <2> QED BY <1>1, <2>1
<1>2. PICK T \in Bad : \A U \in Bad : <<U, T>> \notin StrictSubsetOrdering(S)
  <2>1. IsWellFoundedOn(StrictSubsetOrdering(S), FiniteSubsetsOf(S))
    BY FS_StrictSubsetOrderingWellFounded
  <2>2. Bad \subseteq FiniteSubsetsOf(S)
    BY FS_Subset DEF FiniteSubsetsOf
  <2> HIDE DEF Bad
  <2> QED BY <1>1, <2>1, <2>2, WFMin
<1>3. PICK x \in T : TRUE
  OBVIOUS
<1>4. T \ {x} \notin Bad
  <2>1. <<T \ {x}, T>> \in StrictSubsetOrdering(S)
    BY <1>3 DEF StrictSubsetOrdering
  <2> HIDE DEF Bad
  <2> QED BY <1>2, <2>1
<1>5. PICK y \in T : <<y, x>> \in R
  OBVIOUS
<1>6. y \in T \ {x}
  BY <1>5
<1>7. PICK m \in T \ {x} : \A n \in T \ {x} : <<n, m>> \notin R
  BY <1>4, <1>6
<1>8. PICK n \in T : <<n, m>> \in R
  BY <1>7
<1>9. n = x
  BY <1>7, <1>8
<1> QED BY <1>5, <1>6, <1>7, <1>8, <1>9

LEMMA LeastString ==
    ASSUME NEW S \in SUBSET Seq(Nat), IsFiniteSet(S), S # {}
    PROVE  \E m \in S : \A n \in S : ~ Less(n, m)
<1> DEFINE R == {p \in S \X S : Less(p[1], p[2])}
<1>1. \A a, b \in S : <<a, b>> \in R <=> Less(a, b)
  OBVIOUS
<1>2. \A a \in S : <<a, a>> \notin R
  BY <1>1, LessIrreflexive
<1>3. \A a, b, d \in S : <<a, b>> \in R /\ <<b, d>> \in R => <<a, d>> \in R
  BY <1>1, LessTransitive
<1> HIDE DEF R
<1> QED BY <1>1, <1>2, <1>3, FirstOfFinite

LEMMA GreatestString ==
    ASSUME NEW S \in SUBSET Seq(Nat), IsFiniteSet(S), S # {}
    PROVE  \E m \in S : \A n \in S : ~ Less(m, n)
<1> DEFINE R == {p \in S \X S : Less(p[2], p[1])}
<1>1. \A a, b \in S : <<a, b>> \in R <=> Less(b, a)
  OBVIOUS
<1>2. \A a \in S : <<a, a>> \notin R
  BY <1>1, LessIrreflexive
<1>3. \A a, b, d \in S : <<a, b>> \in R /\ <<b, d>> \in R => <<a, d>> \in R
  BY <1>1, LessTransitive
<1> HIDE DEF R
<1> QED BY <1>1, <1>2, <1>3, FirstOfFinite

-------------------------------------------------------------------------------
(* What a page of List is, of finitely many keys. *)
LEMMA ItemIsString ==
    ASSUME NEW q \in Query, NEW k \in Key
    PROVE  ItemOf(k, q) \in Seq(Nat)
<1>1. k \in Seq(Nat) /\ Len(q.prefix) \in Nat
  BY ListingAssumption
<1>2. ASSUME Len(k) > Len(q.prefix) + 1
      PROVE  Append(SubSeq(k, 1, Len(q.prefix) + 1), 0) \in Seq(Nat)
  <2>1. SubSeq(k, 1, Len(q.prefix) + 1) \in Seq(Nat)
    BY <1>1, <1>2
  <2> QED BY <2>1
<1> QED BY <1>1, <1>2 DEF ItemOf

LEMMA ItemsFinite ==
    ASSUME NEW q \in Query, NEW K \in SUBSET Key, IsFiniteSet(K)
    PROVE  Items(K, q) \in SUBSET Seq(Nat) /\ IsFiniteSet(Items(K, q))
<1> DEFINE sub == {k \in K : IsStrictPrefix(q.prefix, k)}
           f == [k \in sub |-> ItemOf(k, q)]
<1>1. Items(K, q) \in SUBSET Seq(Nat)
  BY ItemIsString DEF Items
<1>2. IsFiniteSet(sub)
  BY FS_Subset
<1>3. f \in Surjection(sub, Items(K, q))
  BY DEF Items, Surjection
<1> HIDE DEF f, sub
<1> QED BY <1>1, <1>2, <1>3, FS_Surjection

LEMMA PageFacts ==
    ASSUME NEW q \in Query, NEW after \in Seq(Nat), NEW K \in SUBSET Key, IsFiniteSet(K),
           NEW p, p = paginate(q, after, K)
    PROVE  /\ p.page \in SUBSET Seq(Nat) /\ p.last \in Seq(Nat) /\ p.trunc \in BOOLEAN
           /\ \A i \in p.page : Less(after, i) /\ (i = p.last \/ Less(i, p.last))
           /\ p.page = {} => p.last = <<>>
           /\ p.page # {} => p.last \in p.page
           /\ \A i \in Items(K, q) :
                Less(after, i) /\ i \notin p.page /\ q.max > 0 =>
                    p.trunc /\ p.last # <<>> /\ Less(p.last, i)
<1> DEFINE rest == {i \in Items(K, q) : Less(after, i)}
           Below(i) == {j \in rest : Less(j, i)}
           page == {i \in rest : Cardinality(Below(i)) < q.max}
           last == CHOOSE i \in page : \A j \in page : ~ Less(i, j)
<1>1. p = [page |-> page, trunc |-> page # rest, last |-> IF page = {} THEN <<>> ELSE last]
  BY DEF paginate
<1>2. rest \in SUBSET Seq(Nat) /\ IsFiniteSet(rest)
  BY ItemsFinite, FS_Subset
<1>3. page \in SUBSET rest
  OBVIOUS
<1>4. \A i \in rest : Less(after, i)
  OBVIOUS
<1>5. q.max \in Nat
  BY ListingAssumption
<1>6. \A i : IsFiniteSet(Below(i)) /\ Cardinality(Below(i)) \in Nat
  BY <1>2, FS_Subset, FS_CardinalityType
<1>7. \A i, j \in rest : Less(i, j) => Cardinality(Below(i)) <= Cardinality(Below(j))
  <2> SUFFICES ASSUME NEW i \in rest, NEW j \in rest, Less(i, j)
               PROVE  Cardinality(Below(i)) <= Cardinality(Below(j))
    OBVIOUS
  <2>1. Below(i) \in SUBSET Below(j)
    BY <1>2, LessTransitive
  <2> HIDE DEF Below
  <2> QED BY <1>6, <2>1, FS_Subset
<1>8. \A i \in page, j \in rest \ page : Less(i, j)
  <2> SUFFICES ASSUME NEW i \in page, NEW j \in rest \ page, ~ Less(i, j) PROVE FALSE
    OBVIOUS
  <2>1. Less(j, i)
    BY <1>2, LessTotal
  <2>2. Cardinality(Below(j)) <= Cardinality(Below(i))
    BY <1>7, <2>1
  <2>3. Cardinality(Below(i)) < q.max /\ ~ (Cardinality(Below(j)) < q.max)
    OBVIOUS
  <2> HIDE DEF Below
  <2> QED BY <1>5, <1>6, <2>2, <2>3
<1>9. ASSUME page # {}
      PROVE  last \in page /\ \A i \in page : ~ Less(last, i)
  <2>1. page \in SUBSET Seq(Nat) /\ IsFiniteSet(page)
    BY <1>2, <1>3, FS_Subset
  <2> HIDE DEF page
  <2> QED BY <1>9, <2>1, GreatestString
<1>10. ASSUME rest # {}, q.max > 0
       PROVE  page # {}
  <2>1. PICK m \in rest : \A n \in rest : ~ Less(n, m)
    <3> HIDE DEF rest
    <3> QED BY <1>2, <1>10, LeastString
  <2>2. Below(m) = {}
    BY <2>1
  <2>3. Cardinality(Below(m)) = 0
    BY <2>2, FS_EmptySet
  <2>4. Cardinality(Below(m)) < q.max
    BY <1>5, <1>10, <2>3
  <2> QED BY <2>4
<1> HIDE DEF rest, page, last
<1>11. ASSUME NEW i \in page
       PROVE  Less(after, i) /\ (i = last \/ Less(i, last))
  BY <1>2, <1>3, <1>4, <1>9, LessTotal
<1>12. ASSUME NEW i \in rest, i \notin page, q.max > 0
       PROVE  page # rest /\ page # {} /\ last # <<>> /\ Less(last, i)
  <2>1. page # {} /\ page # rest
    BY <1>10, <1>12
  <2>2. last \in page /\ Less(after, last)
    BY <1>3, <1>4, <1>9, <2>1
  <2>3. last # <<>>
    BY <2>2, LessIrreflexive
  <2> QED BY <1>8, <1>12, <2>1, <2>2, <2>3
<1>13. \A i \in Items(K, q) : Less(after, i) => i \in rest
  BY DEF rest
<1>14. page \in SUBSET Seq(Nat) /\ <<>> \in Seq(Nat)
  BY <1>2, <1>3
<1>15. p.page = page /\ p.trunc = (page # rest) /\ p.last = IF page = {} THEN <<>> ELSE last
  BY <1>1
<1> QED BY <1>9, <1>11, <1>12, <1>13, <1>14, <1>15

-------------------------------------------------------------------------------
(* The listing. *)
ScanTyped ==
    /\ IsFiniteSet(Present(objs))
    /\ due \subseteq Present(objs)
    /\ scan = None => due = {}
    /\ scan # None => scan \in Scans

(* Everything on the page comes before the point where the next one begins.  *)
ShownBefore == scan # None => \A i \in scan.page : i = scan.after \/ Less(i, scan.after)

(* What is due appears after that point. *)
DueAhead ==
    \A k \in due :
        /\ IsStrictPrefix(scan.query.prefix, k)
        /\ scan.query.max > 0 => scan.more /\ Less(scan.after, ItemOf(k, scan.query))

ListInv == ScanTyped /\ ShownBefore /\ DueAhead

LEMMA InitList == Init => ListInv
<1> SUFFICES ASSUME Init PROVE ListInv
  OBVIOUS
<1>1. Present(objs) = {}
  BY DEF Init, CallsInit, Present
<1>2. IsFiniteSet(Present(objs))
  BY <1>1, FS_EmptySet
<1> QED BY <1>2 DEF Init, ListingInit, ListInv, ScanTyped, ShownBefore, DueAhead

(* Other requests, of which each changes one object at most. *)
LEMMA CallsChangeOne ==
    ASSUME CallsTypeOK, CallsNext
    PROVE  \E k \in Key : \A j \in Key : j # k => objs'[j] = objs[j]
<1>1. ASSUME NEW k \in Key, NEW v, Store(k, v)
      PROVE  \A j \in Key : j # k => objs'[j] = objs[j]
  BY <1>1 DEF Store, CallsTypeOK
<1>2. ASSUME NEW r \in Req, step[r] # "idle"
      PROVE  call[r].key \in Key
  BY <1>2, ConditionalAssumption DEF CallsTypeOK
<1>3. ASSUME NEW k \in Key, PlainDelete(k) \/ \E b \in Body : PlainPut(k, b)
      PROVE  \E i \in Key : \A j \in Key : j # i => objs'[j] = objs[j]
  BY <1>1, <1>3 DEF PlainDelete, PlainPut
<1>4. ASSUME NEW r \in Req, Put(r) \/ Delete(r) \/ CopyPut(r)
      PROVE  \E i \in Key : \A j \in Key : j # i => objs'[j] = objs[j]
  <2>1. step[r] # "idle"
    BY <1>4 DEF Put, Delete, GoAhead, CopyPut
  <2>2. \E v : Store(call[r].key, v)
    BY <1>4 DEF Put, Delete, CopyPut
  <2> QED BY <1>1, <1>2, <2>1, <2>2
<1>5. ASSUME NEW r \in Req,
             (\E c \in Calls : Arrive(r, c)) \/ Check(r) \/ RejectPut(r) \/ CopyGet(r)
               \/ CopyNothing(r) \/ Respond(r)
      PROVE  \E i \in Key : \A j \in Key : j # i => objs'[j] = objs[j]
  <2>1. objs' = objs
    BY <1>5 DEF Arrive, Check, RejectPut, CopyGet, CopyNothing, Respond
  <2>2. call[r] \in Calls \/ \E c \in Calls : TRUE
    BY <1>5 DEF Arrive, Check, RejectPut, CopyGet, GoAhead, CopyNothing, Respond, CallsTypeOK
  <2>3. \E k \in Key : TRUE
    BY <2>2, ConditionalAssumption
  <2> QED BY <2>1, <2>3
<1> QED BY <1>3, <1>4, <1>5 DEF CallsNext

LEMMA ObserveList ==
    ASSUME ListInv, CallsTypeOK, CallsNext, Observe
    PROVE  ListInv'
<1>1. PICK k \in Key : \A j \in Key : j # k => objs'[j] = objs[j]
  BY CallsChangeOne
<1>2. Present(objs') \in SUBSET (Present(objs) \cup {k})
  BY <1>1 DEF Present
<1>3. IsFiniteSet(Present(objs'))
  <2>1. IsFiniteSet(Present(objs) \cup {k})
    BY FS_AddElement DEF ListInv, ScanTyped
  <2> QED BY <1>2, <2>1, FS_Subset
<1>4. due' \subseteq due /\ due' \subseteq Present(objs') /\ scan' = scan
  BY DEF Observe
<1>5. ScanTyped'
  BY <1>3, <1>4 DEF ListInv, ScanTyped, Present
<1> QED BY <1>4, <1>5 DEF ListInv, ShownBefore, DueAhead

LEMMA StartScanList ==
    ASSUME ListInv, NEW q \in Query, StartScan(q)
    PROVE  ListInv'
<1>1. Present(objs)' = Present(objs)
  BY DEF StartScan, Present
<1>2. scan' = [query |-> q, after |-> q.start, more |-> TRUE, page |-> {}, pages |-> 0]
  BY DEF StartScan
<1>3. scan' \in Scans /\ scan' # None
  <2>1. q.start \in Seq(Nat)
    BY ListingAssumption
  <2>2. scan' \in Scans
    BY <1>2, <2>1 DEF Scans
  <2> QED BY <2>2, ScansAssumption
<1>4. ScanTyped'
  BY <1>1, <1>3 DEF ListInv, ScanTyped, StartScan
<1>5. ShownBefore'
  BY <1>2 DEF ShownBefore
<1>6. DueAhead'
  <2> SUFFICES ASSUME NEW k \in due'
               PROVE  /\ IsStrictPrefix(q.prefix, k)
                      /\ Less(q.start, ItemOf(k, q))
    BY <1>2 DEF DueAhead
  <2> QED BY DEF StartScan
<1> QED BY <1>4, <1>5, <1>6 DEF ListInv

(* One page of a listing in progress. *)
LEMMA NextPageFacts ==
    ASSUME ListInv, NextPage, NEW p, p = paginate(scan.query, scan.after, Present(objs))
    PROVE  /\ scan \in Scans /\ scan.query \in Query /\ scan.after \in Seq(Nat)
           /\ scan' = [scan EXCEPT !.after = p.last, !.more = p.trunc /\ p.last # <<>>,
                                   !.page = p.page, !.pages = scan.pages + 1]
           /\ scan' \in Scans /\ scan'.query = scan.query
           /\ p.page \in SUBSET Seq(Nat) /\ p.last \in Seq(Nat)
           /\ \A i \in p.page : Less(scan.after, i) /\ (i = p.last \/ Less(i, p.last))
           /\ p.last # <<>> => p.last \in p.page
           /\ \A k \in due : k \in Present(objs) /\ k \in Key
           /\ \A i \in Items(Present(objs), scan.query) :
                Less(scan.after, i) /\ i \notin p.page /\ scan.query.max > 0 =>
                    p.trunc /\ p.last # <<>> /\ Less(p.last, i)
<1>1. scan \in Scans /\ scan.query \in Query /\ scan.after \in Seq(Nat) /\ scan.pages \in Nat
  BY DEF ListInv, ScanTyped, NextPage, Scans
<1>2. Present(objs) \in SUBSET Key /\ IsFiniteSet(Present(objs))
  BY DEF Present, ListInv, ScanTyped
<1>3. /\ p.page \in SUBSET Seq(Nat) /\ p.last \in Seq(Nat) /\ p.trunc \in BOOLEAN
      /\ \A i \in p.page : Less(scan.after, i) /\ (i = p.last \/ Less(i, p.last))
      /\ p.page = {} => p.last = <<>>
      /\ p.page # {} => p.last \in p.page
      /\ \A i \in Items(Present(objs), scan.query) :
           Less(scan.after, i) /\ i \notin p.page /\ scan.query.max > 0 =>
               p.trunc /\ p.last # <<>> /\ Less(p.last, i)
  <2> DEFINE K == Present(objs)
             q == scan.query
             after == scan.after
  <2>1. q \in Query /\ after \in Seq(Nat) /\ K \in SUBSET Key /\ IsFiniteSet(K)
    BY <1>1, <1>2
  <2>2. p = paginate(q, after, K)
    OBVIOUS
  <2> HIDE DEF K, q, after
  <2>3. /\ p.page \in SUBSET Seq(Nat) /\ p.last \in Seq(Nat) /\ p.trunc \in BOOLEAN
        /\ \A i \in p.page : Less(after, i) /\ (i = p.last \/ Less(i, p.last))
        /\ p.page = {} => p.last = <<>>
        /\ p.page # {} => p.last \in p.page
        /\ \A i \in Items(K, q) :
             Less(after, i) /\ i \notin p.page /\ q.max > 0 =>
                 p.trunc /\ p.last # <<>> /\ Less(p.last, i)
    BY <2>1, <2>2, PageFacts
  <2> QED BY <2>3 DEF K, q, after
<1>4. scan' = [scan EXCEPT !.after = p.last, !.more = p.trunc /\ p.last # <<>>,
                           !.page = p.page, !.pages = scan.pages + 1]
  BY DEF NextPage
<1>5. scan' \in Scans /\ scan'.query = scan.query
  <2> DEFINE more == p.trunc /\ p.last # <<>>
  <2>1. more \in BOOLEAN /\ scan.pages + 1 \in Nat
    BY <1>1, <1>3
  <2>2. scan' = [query |-> scan.query, after |-> p.last, more |-> more, page |-> p.page,
                 pages |-> scan.pages + 1]
    BY <1>1, <1>4 DEF Scans
  <2> HIDE DEF more
  <2> QED BY <1>1, <1>3, <2>1, <2>2 DEF Scans
<1>6. \A k \in due : k \in Present(objs) /\ k \in Key
  BY <1>2 DEF ListInv, ScanTyped
<1> QED BY <1>1, <1>3, <1>4, <1>5, <1>6

LEMMA NextPageList ==
    ASSUME ListInv, NextPage
    PROVE  ListInv'
<1> DEFINE p == paginate(scan.query, scan.after, Present(objs))
<1>1. /\ scan \in Scans /\ scan.query \in Query /\ scan.after \in Seq(Nat)
      /\ scan' = [scan EXCEPT !.after = p.last, !.more = p.trunc /\ p.last # <<>>,
                              !.page = p.page, !.pages = scan.pages + 1]
      /\ scan' \in Scans /\ scan'.query = scan.query
      /\ \A i \in p.page : Less(scan.after, i) /\ (i = p.last \/ Less(i, p.last))
      /\ \A k \in due : k \in Present(objs) /\ k \in Key
      /\ \A i \in Items(Present(objs), scan.query) :
           Less(scan.after, i) /\ i \notin p.page /\ scan.query.max > 0 =>
               p.trunc /\ p.last # <<>> /\ Less(p.last, i)
  BY NextPageFacts
<1>2. due' = {k \in due : ItemOf(k, scan.query) \notin p.page} /\ objs' = objs /\ scan # None
  BY DEF NextPage
<1> HIDE DEF p
<1>3. /\ scan'.after = p.last /\ scan'.more = (p.trunc /\ p.last # <<>>) /\ scan'.page = p.page
      /\ scan' # None
  BY <1>1, ScansAssumption DEF Scans
<1>4. ScanTyped'
  BY <1>1, <1>2, <1>3 DEF ListInv, ScanTyped, Present
<1>5. ShownBefore'
  BY <1>1, <1>3 DEF ShownBefore
<1>6. DueAhead'
  <2> SUFFICES ASSUME NEW k \in due'
               PROVE  /\ IsStrictPrefix(scan.query.prefix, k)
                      /\ scan.query.max > 0 =>
                            scan'.more /\ Less(scan'.after, ItemOf(k, scan.query))
    BY <1>1 DEF DueAhead
  <2>1. k \in due /\ ItemOf(k, scan.query) \notin p.page
    BY <1>2
  <2>2. /\ IsStrictPrefix(scan.query.prefix, k)
        /\ scan.query.max > 0 => Less(scan.after, ItemOf(k, scan.query))
    BY <2>1 DEF ListInv, DueAhead
  <2>3. ItemOf(k, scan.query) \in Items(Present(objs), scan.query)
    BY <1>1, <2>1, <2>2 DEF Items
  <2> QED BY <1>1, <1>3, <2>1, <2>2, <2>3
<1> QED BY <1>4, <1>5, <1>6 DEF ListInv

LEMMA NextList == Inv /\ ListInv /\ [Next]_vars => ListInv'
<1> SUFFICES ASSUME Inv, ListInv, [Next]_vars PROVE ListInv'
  OBVIOUS
<1>1. CASE CallsNext /\ Observe
  BY <1>1, ObserveList DEF Inv
<1>2. CASE NextPage
  BY <1>2, NextPageList
<1>3. CASE EndScan
  BY <1>3 DEF ListInv, ScanTyped, ShownBefore, DueAhead, EndScan, Present
<1>4. CASE \E q \in Query : StartScan(q)
  BY <1>4, StartScanList
<1>5. CASE UNCHANGED vars
  BY <1>5 DEF ListInv, ScanTyped, ShownBefore, DueAhead, Present, vars, listing
<1> QED BY <1>1, <1>2, <1>3, <1>4, <1>5 DEF Next, ListingNext

LEMMA ListInvHolds == Spec => [](Inv /\ ListInv)
<1>1. Init => Inv /\ ListInv
  BY InitInv, InitList
<1>2. Inv /\ ListInv /\ [Next]_vars => (Inv /\ ListInv)'
  BY NextInv, NextList
<1> QED BY <1>1, <1>2, PTL DEF Spec

(* No object that is there while a listing runs is left out of it, whatever  *)
(* keys there are, however many, and whatever other requests do between two  *)
(* pages (listObjects, paginate).                                            *)
THEOREM NothingLeftOut == Spec => []StableKeysListed
<1>1. Inv /\ ListInv => StableKeysListed
  BY DEF ListInv, DueAhead, StableKeysListed
<1> QED BY <1>1, ListInvHolds, PTL

(* The variables of the calls and of the listing keep their types. *)
THEOREM TypesKept == Spec => []TypeOK
<1>1. Inv /\ ListInv => TypeOK
  BY DEF Inv, ListInv, ScanTyped, Scans, TypeOK
<1> QED BY <1>1, ListInvHolds, PTL

LEMMA StepAdvances ==
    Inv /\ ListInv /\ [Next]_vars =>
        [scan # None /\ scan' # None =>
            /\ \A i \in scan.page, j \in scan'.page : Less(i, j)
            /\ scan'.more => Less(scan.after, scan'.after)]_scan
<1> SUFFICES ASSUME ListInv, [Next]_vars, scan # None, scan' # None, scan' # scan
             PROVE  /\ \A i \in scan.page, j \in scan'.page : Less(i, j)
                    /\ scan'.more => Less(scan.after, scan'.after)
  OBVIOUS
<1>1. NextPage
  BY DEF Next, ListingNext, Observe, EndScan, StartScan, vars, listing
<1> DEFINE p == paginate(scan.query, scan.after, Present(objs))
<1>2. /\ scan \in Scans /\ scan.after \in Seq(Nat)
      /\ scan' = [scan EXCEPT !.after = p.last, !.more = p.trunc /\ p.last # <<>>,
                              !.page = p.page, !.pages = scan.pages + 1]
      /\ p.page \in SUBSET Seq(Nat)
      /\ \A i \in p.page : Less(scan.after, i)
      /\ p.last # <<>> => p.last \in p.page
  BY <1>1, NextPageFacts
<1> HIDE DEF p
<1>3. scan'.after = p.last /\ scan'.more = (p.trunc /\ p.last # <<>>) /\ scan'.page = p.page
  BY <1>2 DEF Scans
<1>4. scan.page \in SUBSET Seq(Nat)
  BY <1>2 DEF Scans
<1>5. ASSUME NEW i \in scan.page, NEW j \in scan'.page PROVE Less(i, j)
  <2>1. i = scan.after \/ Less(i, scan.after)
    BY DEF ListInv, ShownBefore
  <2>2. Less(scan.after, j) /\ j \in Seq(Nat)
    BY <1>2, <1>3
  <2> QED BY <1>2, <1>4, <2>1, <2>2, LessTransitive
<1> QED BY <1>2, <1>3, <1>5

(* Every page comes after the one before it, and a token leads further on,   *)
(* for every set of keys and every size of a page.                           *)
THEOREM PagesGoForward == Spec => PagesAdvance
<1> QED BY StepAdvances, ListInvHolds, NextInv, PTL DEF PagesAdvance, Spec
===============================================================================
