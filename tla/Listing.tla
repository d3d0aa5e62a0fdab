-------------------------------- MODULE Listing --------------------------------
(***************************************************************************)
(* A listing that a client reads page by page: listObjects and paginate    *)
(* (internal/s3api/objects.go), with List of internal/store/store.go.  A   *)
(* page is one call of the store; between two of them objects come and go. *)
(*                                                                         *)
(* A key is a sequence of names, the parts between its slashes.  Names are *)
(* positive numbers and compare like them; a common prefix such as "d/" is *)
(* a sequence that ends in 0.  (So keys are in byte order as long as no    *)
(* name has a character that sorts before the slash.)  The prefix that a   *)
(* client asks for is the empty one or ends in a slash.                    *)
(***************************************************************************)
EXTENDS BucketMap, Naturals, Sequences, SequencesExt, FiniteSets

CONSTANT
    Query  \* the listings that clients ask for

ASSUME ListingAssumption ==
    /\ Key \subseteq Seq(Nat \ {0}) /\ <<>> \notin Key
    /\ Query \subseteq
         [prefix : Seq(Nat \ {0}), delim : BOOLEAN, start : Seq(Nat), max : Nat]

(* A listing in progress: what was asked, where it goes on and whether it    *)
(* does, the last page, how many there were.                                 *)
Scans == [query : Query, after : Seq(Nat), more : BOOLEAN, page : SUBSET Seq(Nat), pages : Nat]

ASSUME ScansAssumption == None \notin Scans

VARIABLES
    scan,  \* the listing in progress, or None
    due    \* history: keys there since the listing began and not shown yet

listing == <<scan, due>>

ListingInit == scan = None /\ due = {}

-------------------------------------------------------------------------------
(* The byte order of two strings. *)
Less(s, t) ==
    \/ IsStrictPrefix(s, t)
    \/ \E i \in DOMAIN s \cap DOMAIN t :
          s[i] < t[i] /\ \A j \in 1 .. i - 1 : s[j] = t[j]

(* What the key k appears as: itself, or the common prefix that ends at the  *)
(* first delimiter after the prefix of the query.                            *)
ItemOf(k, q) ==
    LET top == Len(q.prefix) + 1
    IN IF q.delim /\ Len(k) > top THEN Append(SubSeq(k, 1, top), 0) ELSE k

Items(K, q) == {ItemOf(k, q) : k \in {k \in K : IsStrictPrefix(q.prefix, k)}}

(* Mistakes, not part of the model: a page begins with the last item of the  *)
(* one before; the next page begins after the item that did not fit.         *)
paginateAgain(q, after, K) ==
    LET rest == {i \in Items(K, q) : ~ Less(i, after)}
        page == {i \in rest : Cardinality({j \in rest : Less(j, i)}) < q.max}
    IN [page |-> page, trunc |-> page # rest,
        last |-> IF page = {} THEN <<>> ELSE CHOOSE i \in page : \A j \in page : ~ Less(i, j)]

paginateSkipping(q, after, K) ==
    LET rest == {i \in Items(K, q) : Less(after, i)}
        page == {i \in rest : Cardinality({j \in rest : Less(j, i)}) < q.max}
        seen == {i \in rest : Cardinality({j \in rest : Less(j, i)}) <= q.max}
    IN [page |-> page, trunc |-> page # rest,
        last |-> IF seen = {} THEN <<>> ELSE CHOOSE i \in seen : \A j \in seen : ~ Less(i, j)]

(* The first max items after "after" (<<>> is before everything), whether    *)
(* there are more, and the last one, <<>> when the page is empty.            *)
paginate(q, after, K) ==
    LET rest == {i \in Items(K, q) : Less(after, i)}
        page == {i \in rest : Cardinality({j \in rest : Less(j, i)}) < q.max}
    IN [page |-> page, trunc |-> page # rest,
        last |-> IF page = {} THEN <<>> ELSE CHOOSE i \in page : \A j \in page : ~ Less(i, j)]

-------------------------------------------------------------------------------
(* The client asks for the first page.  Due from then on is what is there    *)
(* and appears after the point at which it wants the listing to start.       *)
StartScan(q) ==
    /\ scan = None
    /\ scan' = [query |-> q, after |-> q.start, more |-> TRUE, page |-> {}, pages |-> 0]
    /\ due' = {k \in Present(objs) :
                 IsStrictPrefix(q.prefix, k) /\ Less(q.start, ItemOf(k, q))}
    /\ UNCHANGED objs

(* It gets a page, with a token to go on from when the page is truncated and *)
(* not empty.                                                                *)
NextPage ==
    /\ scan # None /\ scan.more
    /\ LET p == paginate(scan.query, scan.after, Present(objs)) IN
       /\ scan' = [scan EXCEPT !.after = p.last,
                               !.more = p.trunc /\ p.last # <<>>,
                               !.page = p.page,
                               !.pages = scan.pages + 1]
       /\ due' = {k \in due : ItemOf(k, scan.query) \notin p.page}
    /\ UNCHANGED objs

EndScan ==
    /\ scan # None /\ ~ scan.more
    /\ scan' = None /\ due' = {}
    /\ UNCHANGED objs

ListingNext == NextPage \/ EndScan \/ \E q \in Query : StartScan(q)

(* Another request changes the map. *)
Observe == due' = due \cap Present(objs') /\ UNCHANGED scan

-------------------------------------------------------------------------------
(* No object that is there all along is missed, whatever comes and goes      *)
(* between two pages: it is shown, by its key or by its common prefix, or    *)
(* the pages have yet to come to it.  (A client that asks for 0 objects a    *)
(* page gets none.)                                                          *)
StableKeysListed ==
    \A k \in due :
        scan.query.max > 0 => scan.more /\ Less(scan.after, ItemOf(k, scan.query))

(* Every page comes after the one before it, so that nothing is shown twice, *)
(* neither a key nor a common prefix whose keys lie on both sides of a cut,  *)
(* and a token leads further on, so that a client that follows the tokens    *)
(* comes to an end, although others go on storing and deleting.              *)
PagesAdvance ==
    [][scan # None /\ scan' # None =>
          /\ \A i \in scan.page, j \in scan'.page : Less(i, j)
          /\ scan'.more => Less(scan.after, scan'.after)]_scan
===============================================================================
