--------------------------- MODULE BucketTreeProofs ----------------------------
(***************************************************************************)
(* What BucketTree promises, for every set of keys, every content and any  *)
(* number of crashes: the objects of other keys stay, deleted ones stay    *)
(* gone, and the tree stays a tree.                                        *)
(*                                                                         *)
(* The proof has three parts.  Paths: the files of two keys, the temporary *)
(* ones included, and those of the bucket itself are never the same (the   *)
(* suffixes are what keeps them apart).  The tree: one system call leaves  *)
(* the files that it does not name alone.  The operation: Inv says, for    *)
(* each operation, which calls are left of it and what those made have put *)
(* in the tree (OpInv); and for every key that the operation is not about, *)
(* that its files are what the last answer promised (Kept, Gone).  The     *)
(* invariants alone are not inductive: PutObject's last call only moves    *)
(* what an earlier one wrote, and only its answer makes the promise; and a *)
(* DeleteBucket half way, which leaves no promise standing, must have      *)
(* found none standing when it began (Dropping).                           *)
(***************************************************************************)
EXTENDS BucketTree, SequenceTheorems, WellFoundedInduction, TLAPS

Path == Seq(Name)

(* The temporary files of a PutObject and of the writers of bucket.json. *)
Temp(k) == Append(Front(objectPath(k)), TempName)
MetaTmp(k) == Suffixed(metaPath(k), ".tmp")
JSONTmp == Suffixed(BucketJSON, ".tmp")

-------------------------------------------------------------------------------
(* Paths. *)
LEMMA FrontFacts ==
    ASSUME NEW p \in Path, p # <<>>
    PROVE  /\ Front(p) \in Path /\ Len(Front(p)) = Len(p) - 1 /\ Len(p) > 0
           /\ \A i \in 1..(Len(p) - 1) : Front(p)[i] = p[i]
           /\ Last(p) \in Name /\ Last(p) = p[Len(p)]
<1>1. p \in Seq(Name) /\ Len(p) \in Nat /\ Len(p) > 0
  BY DEF Path
<1>2. Len(p) - 1 \in 0..Len(p)
  BY <1>1
<1>3. SubSeq(p, 1, Len(p) - 1) \in Seq(Name) /\ Len(SubSeq(p, 1, Len(p) - 1)) = Len(p) - 1
  <2> DEFINE n == Len(p) - 1
  <2>1. n \in Int /\ 1 \in Int /\ n >= 0 /\ \A i \in 1..n : p[i] \in Name
    BY <1>1
  <2> HIDE DEF n
  <2>2. /\ SubSeq(p, 1, n) \in Seq(Name)
        /\ Len(SubSeq(p, 1, n)) = IF 1 <= n THEN n - 1 + 1 ELSE 0
    BY <2>1, SubSeqProperties
  <2>3. Len(SubSeq(p, 1, n)) = n
    BY <2>1, <2>2
  <2> QED BY <2>2, <2>3 DEF n
<1>4. \A i \in 1..(Len(p) - 1) : SubSeq(p, 1, Len(p) - 1)[i] = p[i]
  BY <1>1, <1>2
<1>5. p[Len(p)] \in Name
  BY <1>1
<1> QED BY <1>1, <1>3, <1>4, <1>5 DEF Front, Last, Path

LEMMA AppendFacts ==
    ASSUME NEW d \in Path, NEW n \in Name
    PROVE  /\ Append(d, n) \in Path /\ Append(d, n) # <<>>
           /\ Len(Append(d, n)) = Len(d) + 1
           /\ Front(Append(d, n)) = d /\ Last(Append(d, n)) = n
           /\ \A i \in 1..Len(d) : Append(d, n)[i] = d[i]
           /\ Append(d, n)[Len(d) + 1] = n
<1>1. /\ Append(d, n) \in Path /\ Len(Append(d, n)) = Len(d) + 1
      /\ \A i \in 1..Len(d) : Append(d, n)[i] = d[i]
      /\ Append(d, n)[Len(d) + 1] = n
  BY DEF Path
<1>2. Append(d, n) # <<>>
  BY <1>1 DEF Path
<1>3. Front(Append(d, n)) = d
  <2> DEFINE x == Append(d, n)
  <2>1. x \in Path /\ x # <<>> /\ Len(x) = Len(d) + 1 /\ Len(d) \in Nat
        /\ \A i \in 1..Len(d) : x[i] = d[i]
    BY <1>1, <1>2 DEF Path
  <2> HIDE DEF x
  <2>2. /\ Front(x) \in Path /\ Len(Front(x)) = Len(x) - 1
        /\ \A i \in 1..(Len(x) - 1) : Front(x)[i] = x[i]
    BY <2>1, FrontFacts
  <2>3. Len(Front(x)) = Len(d) /\ \A i \in 1..Len(d) : Front(x)[i] = d[i]
    BY <2>1, <2>2
  <2>4. Front(x) = d
    BY <2>2, <2>3 DEF Path
  <2> QED BY <2>4 DEF x
<1> QED BY <1>1, <1>2, <1>3 DEF Last, Path

LEMMA NameWithSuffix ==
    ASSUME NEW n \in Name, NEW s \in Piece
    PROVE  /\ Append(n, s) \in Name /\ Len(Append(n, s)) = Len(n) + 1 /\ Len(n) > 0
           /\ Append(n, s)[1] = n[1] /\ Append(n, s)[Len(n) + 1] = s
BY DEF Name

LEMMA SuffixInjective ==
    ASSUME NEW n \in Name, NEW m \in Name, NEW s \in Piece, NEW t \in Piece,
           Append(n, s) = Append(m, t)
    PROVE  n = m /\ s = t
<1>1. n \in Seq(Piece) /\ m \in Seq(Piece)
  BY DEF Name
<1>2. Len(n) = Len(m) /\ s = t
  <2>1. Len(n) + 1 = Len(m) + 1
    BY NameWithSuffix
  <2>2. Len(n) = Len(m)
    BY <1>1, <2>1
  <2> QED BY <2>2, NameWithSuffix
<1>3. \A i \in 1..Len(n) : n[i] = m[i]
  <2> SUFFICES ASSUME NEW i \in 1..Len(n) PROVE n[i] = m[i]
    OBVIOUS
  <2>1. n[i] = Append(n, s)[i] /\ m[i] = Append(m, t)[i]
    BY <1>1, <1>2
  <2> QED BY <2>1
<1> QED BY <1>1, <1>2, <1>3

LEMMA SuffixedFacts ==
    ASSUME NEW p \in Path, p # <<>>, NEW s \in Piece
    PROVE  /\ Suffixed(p, s) \in Path /\ Suffixed(p, s) # <<>> /\ Len(Suffixed(p, s)) = Len(p)
           /\ Front(Suffixed(p, s)) = Front(p) /\ Last(Suffixed(p, s)) = Append(Last(p), s)
           /\ \A i \in 1..(Len(p) - 1) : Suffixed(p, s)[i] = p[i]
           /\ Suffixed(p, s)[Len(p)] = Append(p[Len(p)], s)
<1> DEFINE d == Front(p)
           n == Append(Last(p), s)
           x == Append(d, n)
<1>1. n \in Name
  BY FrontFacts, NameWithSuffix
<1>2. d \in Path /\ Len(d) = Len(p) - 1
  BY FrontFacts
<1>3. Len(p) \in Nat /\ Len(p) > 0 /\ \A i \in 1..(Len(p) - 1) : d[i] = p[i]
  BY FrontFacts DEF Path
<1>4. /\ x \in Path /\ x # <<>> /\ Len(x) = Len(d) + 1 /\ Front(x) = d /\ Last(x) = n
      /\ \A i \in 1..Len(d) : x[i] = d[i]
      /\ x[Len(d) + 1] = n
  <2> HIDE DEF d, n
  <2> QED BY <1>1, <1>2, AppendFacts
<1>5. x = Suffixed(p, s) /\ n = Append(p[Len(p)], s)
  BY FrontFacts DEF Suffixed
<1>6. Len(d) + 1 = Len(p)
  BY <1>2, <1>3
<1> HIDE DEF x
<1>7. x[Len(p)] = n /\ Len(x) = Len(p)
  BY <1>4, <1>6
<1>8. \A i \in 1..(Len(p) - 1) : x[i] = p[i]
  BY <1>2, <1>3, <1>4
<1> QED BY <1>4, <1>5, <1>7, <1>8

(* Where the bytes or the metadata of a key lie. *)
UnderTop(top, k) == << <<top>> >> \o k

LEMMA UnderTopFacts ==
    ASSUME NEW k \in Key, NEW top \in {"o", "m"}
    PROVE  /\ UnderTop(top, k) \in Path /\ UnderTop(top, k) # <<>>
           /\ Len(UnderTop(top, k)) = Len(k) + 1 /\ UnderTop(top, k)[1] = <<top>>
           /\ Len(k) \in Nat \ {0}
           /\ \A i \in 1..Len(k) : UnderTop(top, k)[i + 1] = k[i] /\ k[i] \in Name
<1>1. k \in Seq(Name) /\ Len(k) \in Nat \ {0}
  BY KeyAssumption
<1>2. << <<top>> >> \in Seq(Name)
  <2>1. top \in Piece
    BY KeyAssumption
  <2>2. <<top>> \in Name
    BY <2>1 DEF Name
  <2> QED BY <2>2
<1> QED BY <1>1, <1>2 DEF Path, UnderTop

LEMMA TopPath ==
    ASSUME NEW k \in Key, NEW top \in {"o", "m"}, NEW s \in Piece,
           NEW x, x = Suffixed(UnderTop(top, k), s)
    PROVE  /\ x \in Path /\ x # <<>> /\ Len(x) = Len(k) + 1 /\ x[1] = <<top>>
           /\ Len(k) \in Nat \ {0}
           /\ Front(x) \in Path /\ Len(Front(x)) = Len(k) /\ Front(x)[1] = <<top>>
           /\ \A i \in 2..Len(k) : x[i] = k[i - 1]
           /\ x[Len(k) + 1] = Append(k[Len(k)], s)
           /\ \A i \in 1..Len(k) : k[i] \in Name
<1> DEFINE p == UnderTop(top, k)
<1>1. /\ p \in Path /\ p # <<>> /\ Len(p) = Len(k) + 1 /\ p[1] = <<top>>
      /\ Len(k) \in Nat \ {0}
      /\ \A i \in 1..Len(k) : p[i + 1] = k[i] /\ k[i] \in Name
  BY UnderTopFacts
<1>2. x = Suffixed(p, s)
  OBVIOUS
<1> HIDE DEF p
<1>3. /\ x \in Path /\ x # <<>> /\ Len(x) = Len(p)
      /\ \A i \in 1..(Len(p) - 1) : x[i] = p[i]
      /\ x[Len(p)] = Append(p[Len(p)], s)
  <2>1. /\ Suffixed(p, s) \in Path /\ Suffixed(p, s) # <<>> /\ Len(Suffixed(p, s)) = Len(p)
        /\ \A i \in 1..(Len(p) - 1) : Suffixed(p, s)[i] = p[i]
        /\ Suffixed(p, s)[Len(p)] = Append(p[Len(p)], s)
    BY <1>1, SuffixedFacts
  <2> QED BY <1>2, <2>1
<1>4. /\ Front(x) \in Path /\ Len(Front(x)) = Len(x) - 1
      /\ \A i \in 1..(Len(x) - 1) : Front(x)[i] = x[i]
  BY <1>3, FrontFacts
<1>5. ASSUME NEW i \in 2..Len(k) PROVE x[i] = k[i - 1]
  <2>1. p[(i - 1) + 1] = k[i - 1] /\ (i - 1) + 1 = i
    BY <1>1
  <2>2. x[i] = p[i]
    BY <1>1, <1>3
  <2> QED BY <2>1, <2>2
<1>6. p[Len(k) + 1] = k[Len(k)] /\ \A i \in 1..Len(k) : k[i] \in Name
  BY <1>1
<1>7. x[1] = p[1] /\ Front(x)[1] = x[1]
  BY <1>1, <1>3, <1>4
<1>8. Len(Front(x)) = Len(k) /\ Len(x) = Len(k) + 1
  BY <1>1, <1>3, <1>4
<1>9. x[Len(k) + 1] = Append(k[Len(k)], s)
  BY <1>1, <1>3, <1>6
<1> QED BY <1>1, <1>3, <1>4, <1>5, <1>6, <1>7, <1>8, <1>9

(* The four files of a key: o is below the directory "o", and so on.         *)
OneFile(x, top, k, last) ==
    /\ x \in Path /\ x # <<>> /\ Len(x) = Len(k) + 1
    /\ x[1] = <<top>> /\ x[Len(k) + 1] = last
    /\ Front(x) \in Path /\ Len(Front(x)) = Len(k) /\ Front(x)[1] = <<top>>

LEMMA ObjectPathFacts ==
    ASSUME NEW k \in Key
    PROVE  /\ OneFile(objectPath(k), "o", k, Append(k[Len(k)], ".obj"))
           /\ \A i \in 2..Len(k) : objectPath(k)[i] = k[i - 1]
<1>1. objectPath(k) = Suffixed(UnderTop("o", k), ".obj")
  BY DEF objectPath, UnderTop
<1>2. ".obj" \in Piece /\ "o" \in {"o", "m"}
  BY KeyAssumption
<1> QED BY <1>1, <1>2, TopPath DEF OneFile

LEMMA MetaPathFacts ==
    ASSUME NEW k \in Key
    PROVE  /\ OneFile(metaPath(k), "m", k, Append(k[Len(k)], ".json"))
           /\ \A i \in 2..Len(k) : metaPath(k)[i] = k[i - 1]
<1>1. metaPath(k) = Suffixed(UnderTop("m", k), ".json")
  BY DEF metaPath, UnderTop
<1>2. ".json" \in Piece /\ "m" \in {"o", "m"}
  BY KeyAssumption
<1> QED BY <1>1, <1>2, TopPath DEF OneFile

LEMMA KeyNames ==
    ASSUME NEW k \in Key
    PROVE  k \in Seq(Name) /\ Len(k) \in Nat \ {0} /\ \A i \in 1..Len(k) : k[i] \in Name
BY KeyAssumption

LEMMA TempFacts ==
    ASSUME NEW k \in Key
    PROVE  OneFile(Temp(k), "o", k, TempName) /\ Front(Temp(k)) = Front(objectPath(k))
<1> DEFINE d == Front(objectPath(k))
<1>1. d \in Path /\ Len(d) = Len(k) /\ d[1] = <<"o">> /\ Len(k) \in Nat \ {0}
  BY ObjectPathFacts, KeyNames DEF OneFile
<1>2. TempName \in Name
  <2>1. ".up" \in Piece
    BY KeyAssumption
  <2> QED BY <2>1 DEF Name, TempName
<1>3. Temp(k) = Append(d, TempName)
  BY DEF Temp
<1> HIDE DEF d
<1>4. /\ Temp(k) \in Path /\ Temp(k) # <<>> /\ Len(Temp(k)) = Len(d) + 1 /\ Front(Temp(k)) = d
      /\ \A i \in 1..Len(d) : Temp(k)[i] = d[i]
      /\ Temp(k)[Len(d) + 1] = TempName
  BY <1>1, <1>2, <1>3, AppendFacts
<1>5. Temp(k)[1] = <<"o">>
  BY <1>1, <1>4
<1> QED BY <1>1, <1>4, <1>5 DEF OneFile, d

LEMMA MetaTmpFacts ==
    ASSUME NEW k \in Key
    PROVE  /\ OneFile(MetaTmp(k), "m", k, Append(Append(k[Len(k)], ".json"), ".tmp"))
           /\ Front(MetaTmp(k)) = Front(metaPath(k))
<1> DEFINE p == metaPath(k)
<1>1. OneFile(p, "m", k, Append(k[Len(k)], ".json")) /\ Len(k) \in Nat \ {0}
  BY MetaPathFacts, KeyNames
<1>2. ".tmp" \in Piece
  BY KeyAssumption
<1>3. MetaTmp(k) = Suffixed(p, ".tmp")
  BY DEF MetaTmp
<1> HIDE DEF p
<1>4. p \in Path /\ p # <<>> /\ Len(p) = Len(k) + 1
  BY <1>1 DEF OneFile
<1>5. /\ MetaTmp(k) \in Path /\ MetaTmp(k) # <<>> /\ Len(MetaTmp(k)) = Len(p)
      /\ Front(MetaTmp(k)) = Front(p)
      /\ \A i \in 1..(Len(p) - 1) : MetaTmp(k)[i] = p[i]
      /\ MetaTmp(k)[Len(p)] = Append(p[Len(p)], ".tmp")
  <2>1. /\ Suffixed(p, ".tmp") \in Path /\ Suffixed(p, ".tmp") # <<>>
        /\ Len(Suffixed(p, ".tmp")) = Len(p) /\ Front(Suffixed(p, ".tmp")) = Front(p)
        /\ \A i \in 1..(Len(p) - 1) : Suffixed(p, ".tmp")[i] = p[i]
        /\ Suffixed(p, ".tmp")[Len(p)] = Append(p[Len(p)], ".tmp")
    BY <1>2, <1>4, SuffixedFacts
  <2> QED BY <1>3, <2>1
<1>6. MetaTmp(k)[1] = p[1]
  BY <1>1, <1>4, <1>5
<1> QED BY <1>1, <1>4, <1>5, <1>6 DEF OneFile, p

(* The files of the bucket itself. *)
LEMMA BucketPathFacts ==
    /\ BucketJSON \in Path /\ BucketJSON # <<>> /\ Len(BucketJSON) = 1
    /\ BucketJSON[1] = <<"bucket", ".json">> /\ Front(BucketJSON) = <<>>
    /\ JSONTmp \in Path /\ JSONTmp # <<>> /\ Len(JSONTmp) = 1
    /\ JSONTmp[1] # BucketJSON[1] /\ Front(JSONTmp) = <<>>
<1> DEFINE n == <<"bucket", ".json">>
<1>1. n \in Name /\ ".tmp" \in Piece
  <2>1. "bucket" \in Piece /\ ".json" \in Piece /\ ".tmp" \in Piece
    BY KeyAssumption
  <2> QED BY <2>1 DEF Name
<1>2. Append(n, ".tmp") # n
  <2>1. n \in Seq(Piece)
    BY <1>1 DEF Name
  <2> HIDE DEF n
  <2>2. Len(Append(n, ".tmp")) = Len(n) + 1 /\ Len(n) \in Nat
    BY <1>1, <2>1
  <2> QED BY <2>2
<1>3. BucketJSON = <<n>>
  BY DEF BucketJSON
<1> HIDE DEF n
<1>4. BucketJSON \in Path /\ BucketJSON # <<>> /\ Len(BucketJSON) = 1 /\ BucketJSON[1] = n
  BY <1>1, <1>3 DEF Path
<1>5. /\ JSONTmp \in Path /\ JSONTmp # <<>> /\ Len(JSONTmp) = 1
      /\ Front(JSONTmp) = Front(BucketJSON) /\ JSONTmp[1] = Append(n, ".tmp")
  BY <1>1, <1>4, SuffixedFacts DEF JSONTmp
<1>6. Front(BucketJSON) \in Path /\ Len(Front(BucketJSON)) = 0
  BY <1>4, FrontFacts
<1>7. Front(BucketJSON) = <<>>
  BY <1>6 DEF Path
<1> QED BY <1>2, <1>4, <1>5, <1>7 DEF n

(* No two of them are the same. *)
LEMMA ObjectPathInjective ==
    ASSUME NEW j \in Key, NEW k \in Key, objectPath(j) = objectPath(k)
    PROVE  j = k
<1>1. Len(j) = Len(k)
  BY ObjectPathFacts, KeyNames DEF OneFile
<1>2. j[Len(j)] = k[Len(k)]
  <2>1. Append(j[Len(j)], ".obj") = Append(k[Len(k)], ".obj")
    BY <1>1, ObjectPathFacts DEF OneFile
  <2> QED BY <2>1, KeyNames, KeyAssumption, SuffixInjective
<1>3. ASSUME NEW i \in 1..(Len(k) - 1) PROVE j[i] = k[i]
  <2>1. i + 1 \in 2..Len(k) /\ (i + 1) - 1 = i
    BY KeyNames
  <2>2. objectPath(j)[i + 1] = j[(i + 1) - 1] /\ objectPath(k)[i + 1] = k[(i + 1) - 1]
    BY <1>1, <2>1, ObjectPathFacts
  <2> QED BY <2>1, <2>2
<1>4. \A i \in 1..Len(k) : i = Len(k) \/ i \in 1..(Len(k) - 1)
  BY KeyNames
<1> QED BY <1>1, <1>2, <1>3, <1>4, KeyNames

LEMMA MetaPathInjective ==
    ASSUME NEW j \in Key, NEW k \in Key, metaPath(j) = metaPath(k)
    PROVE  j = k
<1>1. Len(j) = Len(k)
  BY MetaPathFacts, KeyNames DEF OneFile
<1>2. j[Len(j)] = k[Len(k)]
  <2>1. Append(j[Len(j)], ".json") = Append(k[Len(k)], ".json")
    BY <1>1, MetaPathFacts DEF OneFile
  <2> QED BY <2>1, KeyNames, KeyAssumption, SuffixInjective
<1>3. ASSUME NEW i \in 1..(Len(k) - 1) PROVE j[i] = k[i]
  <2>1. i + 1 \in 2..Len(k) /\ (i + 1) - 1 = i
    BY KeyNames
  <2>2. metaPath(j)[i + 1] = j[(i + 1) - 1] /\ metaPath(k)[i + 1] = k[(i + 1) - 1]
    BY <1>1, <2>1, MetaPathFacts
  <2> QED BY <2>1, <2>2
<1>4. \A i \in 1..Len(k) : i = Len(k) \/ i \in 1..(Len(k) - 1)
  BY KeyNames
<1> QED BY <1>1, <1>2, <1>3, <1>4, KeyNames

(* What an operation on the key k writes, renames and removes. *)
Own(k) == {objectPath(k), metaPath(k), Temp(k), MetaTmp(k)}

LEMMA NamesDiffer ==
    /\ <<"o">> # <<"m">>
    /\ \A n \in Name : Append(n, ".obj") # TempName
    /\ \A n, m \in Name : Append(n, ".json") # Append(Append(m, ".json"), ".tmp")
<1>1. ASSUME NEW n \in Name PROVE Append(n, ".obj") # TempName
  <2>1. Len(Append(n, ".obj")) = Len(n) + 1 /\ Len(n) > 0 /\ Len(n) \in Nat
    BY NameWithSuffix, KeyAssumption DEF Name
  <2>2. Len(TempName) = 1
    BY DEF TempName
  <2> QED BY <2>1, <2>2
<1>2. ASSUME NEW n \in Name, NEW m \in Name
      PROVE  Append(n, ".json") # Append(Append(m, ".json"), ".tmp")
  <2>1. Append(m, ".json") \in Name /\ ".json" \in Piece /\ ".tmp" \in Piece
    BY NameWithSuffix, KeyAssumption
  <2>2. ".json" # ".tmp"
    OBVIOUS
  <2> QED BY <2>1, <2>2, SuffixInjective
<1>3. <<"o">> # <<"m">>
  OBVIOUS
<1> QED BY <1>1, <1>2, <1>3

LEMMA PathsApart ==
    ASSUME NEW j \in Key, NEW k \in Key
    PROVE  /\ j # k => objectPath(j) \notin Own(k) /\ metaPath(j) \notin Own(k)
           /\ objectPath(j) # metaPath(k) /\ objectPath(j) # MetaTmp(k)
           /\ objectPath(j) # Temp(k) /\ metaPath(j) # Temp(k) /\ metaPath(j) # MetaTmp(k)
           /\ {objectPath(j), metaPath(j)} \cap {BucketJSON, JSONTmp} = {}
           /\ BucketJSON \notin Own(k) /\ BucketJSON # JSONTmp
<1>1. /\ objectPath(j)[1] = <<"o">> /\ metaPath(j)[1] = <<"m">>
      /\ objectPath(k)[1] = <<"o">> /\ Temp(k)[1] = <<"o">>
      /\ metaPath(k)[1] = <<"m">> /\ MetaTmp(k)[1] = <<"m">>
  BY ObjectPathFacts, MetaPathFacts, TempFacts, MetaTmpFacts DEF OneFile
<1>2. objectPath(j) # Temp(k)
  <2> SUFFICES ASSUME objectPath(j) = Temp(k) PROVE FALSE
    OBVIOUS
  <2>1. Len(j) = Len(k)
    BY ObjectPathFacts, TempFacts, KeyNames DEF OneFile
  <2>2. Append(j[Len(j)], ".obj") = TempName
    BY <2>1, ObjectPathFacts, TempFacts DEF OneFile
  <2>3. j[Len(j)] \in Name
    BY KeyNames
  <2> QED BY <2>2, <2>3, NamesDiffer
<1>3. metaPath(j) # MetaTmp(k)
  <2> SUFFICES ASSUME metaPath(j) = MetaTmp(k) PROVE FALSE
    OBVIOUS
  <2>1. Len(j) = Len(k)
    BY MetaPathFacts, MetaTmpFacts, KeyNames DEF OneFile
  <2>2. Append(j[Len(j)], ".json") = Append(Append(k[Len(k)], ".json"), ".tmp")
    BY <2>1, MetaPathFacts, MetaTmpFacts DEF OneFile
  <2> QED BY <2>2, NamesDiffer, KeyNames
<1>4. \A x \in {objectPath(j), metaPath(j)} \cup Own(k) : Len(x) > 1
  <2>1. /\ Len(objectPath(j)) = Len(j) + 1 /\ Len(metaPath(j)) = Len(j) + 1
        /\ \A x \in Own(k) : Len(x) = Len(k) + 1
    BY ObjectPathFacts, MetaPathFacts, TempFacts, MetaTmpFacts DEF OneFile, Own
  <2> QED BY <2>1, KeyNames
<1>5. /\ {objectPath(j), metaPath(j)} \cap {BucketJSON, JSONTmp} = {}
      /\ BucketJSON \notin Own(k)
  <2>1. Len(BucketJSON) = 1 /\ Len(JSONTmp) = 1
    BY BucketPathFacts
  <2>2. \A x \in {objectPath(j), metaPath(j)} \cup Own(k) : x # BucketJSON /\ x # JSONTmp
    <3> SUFFICES ASSUME NEW x \in {objectPath(j), metaPath(j)} \cup Own(k)
                 PROVE  x # BucketJSON /\ x # JSONTmp
      OBVIOUS
    <3>1. ~ (1 > 1) /\ Len(x) > 1
      BY <1>4
    <3> QED BY <2>1, <3>1
  <2> QED BY <2>2
<1>6. BucketJSON # JSONTmp
  BY BucketPathFacts
<1>7. objectPath(j) # metaPath(k) /\ objectPath(j) # MetaTmp(k) /\ metaPath(j) # Temp(k)
      /\ metaPath(j) # objectPath(k)
  BY <1>1, NamesDiffer
<1>8. j # k => objectPath(j) # objectPath(k) /\ metaPath(j) # metaPath(k)
  BY ObjectPathInjective, MetaPathInjective
<1> QED BY <1>2, <1>3, <1>5, <1>6, <1>7, <1>8 DEF Own

-------------------------------------------------------------------------------
(* The tree, and what one system call makes of it. *)
Fits(p, v) ==
    v \in CASE p[1] = << "o" >> -> Body
            [] p[1] = << "m" >> -> {Described(b) : b \in Body}
            [] OTHER -> {BucketMeta}

Tree ==
    /\ DOMAIN fs \subseteq Path
    /\ \A p \in DOMAIN fs : p = <<>> \/ IsDir(Front(p))
    /\ \A p \in DOMAIN fs : IsFile(p) => p # <<>> /\ Fits(p, fs[p])

FileHolds(p, v) == IsFile(p) /\ fs[p] = v

(* Outside P the same files are there, with the same content. *)
FilesKept(P) == \A p \in Path \ P : (IsFile(p)' <=> IsFile(p)) /\ (IsFile(p) => fs'[p] = fs[p])

LEMMA FitsNotDir ==
    ASSUME NEW p, NEW v, Fits(p, v)
    PROVE  v # Dir
BY ContentAssumption DEF Fits

LEMMA PrefixFacts ==
    ASSUME NEW p \in Path
    PROVE  /\ Prefixes(p) \subseteq Path /\ p \in Prefixes(p) /\ <<>> \in Prefixes(p)
           /\ \A q \in Prefixes(p) : q = <<>> \/ Front(q) \in Prefixes(p)
<1>1. p \in Seq(Name) /\ Len(p) \in Nat
  BY DEF Path
<1>2. ASSUME NEW l \in 0..Len(p)
      PROVE  /\ SubSeq(p, 1, l) \in Seq(Name) /\ Len(SubSeq(p, 1, l)) = l
             /\ \A i \in 1..l : SubSeq(p, 1, l)[i] = p[i]
  <2>1. l \in Int /\ 1 \in Int /\ l >= 0 /\ \A i \in 1..l : p[i] \in Name
    BY <1>1
  <2>2. /\ SubSeq(p, 1, l) \in Seq(Name)
        /\ Len(SubSeq(p, 1, l)) = IF 1 <= l THEN l - 1 + 1 ELSE 0
        /\ \A i \in 1..(l - 1 + 1) : SubSeq(p, 1, l)[i] = p[1 + i - 1]
    BY <2>1, SubSeqProperties
  <2> QED BY <2>1, <2>2
<1>3. Prefixes(p) = {SubSeq(p, 1, l) : l \in 0..Len(p)}
  BY DEF Prefixes
<1>4. Prefixes(p) \subseteq Path
  BY <1>2, <1>3 DEF Path
<1>5. SubSeq(p, 1, Len(p)) = p /\ SubSeq(p, 1, 0) = <<>>
  BY <1>1, <1>2
<1>6. p \in Prefixes(p) /\ <<>> \in Prefixes(p)
  <2>1. Len(p) \in 0..Len(p) /\ 0 \in 0..Len(p)
    BY <1>1
  <2> QED BY <1>3, <1>5, <2>1
<1>7. ASSUME NEW q \in Prefixes(p), q # <<>> PROVE Front(q) \in Prefixes(p)
  <2>1. PICK l \in 0..Len(p) : q = SubSeq(p, 1, l)
    BY <1>3
  <2>2. l # 0 /\ l - 1 \in 0..Len(p)
    BY <1>5, <1>7, <2>1
  <2>3. /\ Front(q) \in Path /\ Len(Front(q)) = l - 1
        /\ \A i \in 1..(l - 1) : Front(q)[i] = q[i]
    <3>1. q \in Path /\ Len(q) = l
      BY <1>2, <1>4, <2>1
    <3> QED BY <1>7, <3>1, FrontFacts
  <2>4. Front(q) = SubSeq(p, 1, l - 1)
    <3> DEFINE f == Front(q)
               r == SubSeq(p, 1, l - 1)
    <3>1. r \in Seq(Name) /\ Len(r) = l - 1 /\ \A i \in 1..(l - 1) : r[i] = p[i]
      BY <1>2, <2>2
    <3>2. f \in Seq(Name) /\ Len(f) = l - 1
      BY <2>3 DEF Path
    <3>3. ASSUME NEW i \in 1..(l - 1) PROVE f[i] = r[i]
      <4>1. i \in 1..l
        BY <2>2
      <4>2. f[i] = q[i] /\ q[i] = p[i]
        BY <1>2, <2>1, <2>3, <4>1
      <4> QED BY <3>1, <4>2
    <3> HIDE DEF f, r
    <3>4. f = r
      BY <3>1, <3>2, <3>3, SeqEqual
    <3> QED BY <3>4 DEF f, r
  <2> QED BY <1>3, <2>2, <2>4
<1> QED BY <1>4, <1>6, <1>7

LEMMA MkdirTree ==
    ASSUME Tree, NEW p \in Path, Able(MkdirAll(p)), fs' = Effect(MkdirAll(p))
    PROVE  Tree' /\ FilesKept({})
<1>1. \A q \in Prefixes(p) : ~ IsFile(q)
  BY DEF Able, MkdirAll
<1>2. fs' = [q \in DOMAIN fs \cup Prefixes(p) |-> IF Exists(q) THEN fs[q] ELSE Dir]
  BY DEF Effect, MkdirAll
<1>3. /\ DOMAIN fs' = DOMAIN fs \cup Prefixes(p)
      /\ \A q \in DOMAIN fs : fs'[q] = fs[q]
      /\ \A q \in Prefixes(p) : fs'[q] = Dir
  BY <1>1, <1>2 DEF Exists, IsFile
<1>4. \A q : IsFile(q)' <=> IsFile(q)
  BY <1>3 DEF Exists, IsFile
<1>5. \A q : IsDir(q) => IsDir(q)'
  BY <1>3 DEF Exists, IsDir
<1>6. \A q \in Prefixes(p) : IsDir(q)'
  BY <1>3 DEF Exists, IsDir
<1>7. ASSUME NEW q \in DOMAIN fs' PROVE q = <<>> \/ IsDir(Front(q))'
  BY <1>3, <1>5, <1>6, PrefixFacts DEF Tree
<1>8. ASSUME NEW q \in DOMAIN fs', IsFile(q)' PROVE q # <<>> /\ Fits(q, fs'[q])
  BY <1>3, <1>4, <1>8 DEF Tree, IsFile, Exists
<1>9. DOMAIN fs' \subseteq Path
  BY <1>3, PrefixFacts DEF Tree
<1>10. Tree'
  BY <1>7, <1>8, <1>9 DEF Tree, Fits
<1> QED BY <1>3, <1>4, <1>10 DEF FilesKept, IsFile, Exists

LEMMA WriteTree ==
    ASSUME Tree, NEW p \in Path, p # <<>>, NEW v, Fits(p, v),
           Able(Write(p, v)), fs' = Effect(Write(p, v))
    PROVE  Tree' /\ FilesKept({p}) /\ FileHolds(p, v)'
<1>1. IsDir(Front(p)) /\ ~ IsDir(p) /\ v # Dir
  BY FitsNotDir DEF Able, Write
<1>2. fs' = [q \in DOMAIN fs \cup {p} |-> IF q = p THEN v ELSE fs[q]]
  BY DEF Effect, Write, With
<1>3. /\ DOMAIN fs' = DOMAIN fs \cup {p} /\ fs'[p] = v
      /\ \A q \in DOMAIN fs : q # p => fs'[q] = fs[q]
  BY <1>2
<1>4. \A q : q # p => (IsFile(q)' <=> IsFile(q))
  BY <1>3 DEF Exists, IsFile
<1>5. \A q : IsDir(q) => IsDir(q)'
  BY <1>1, <1>3 DEF Exists, IsDir
<1>6. FileHolds(p, v)'
  BY <1>1, <1>3 DEF FileHolds, IsFile, Exists
<1>7. ASSUME NEW q \in DOMAIN fs' PROVE q = <<>> \/ IsDir(Front(q))'
  BY <1>1, <1>3, <1>5 DEF Tree
<1>8. ASSUME NEW q \in DOMAIN fs', IsFile(q)' PROVE q # <<>> /\ Fits(q, fs'[q])
  BY <1>3, <1>4, <1>8 DEF Tree, IsFile, Exists
<1>9. Tree'
  BY <1>3, <1>7, <1>8 DEF Tree, Fits
<1> QED BY <1>3, <1>4, <1>6, <1>9 DEF FilesKept, IsFile, Exists

(* A file, which no path goes through, is removed, or an empty directory. *)
LEMMA WithoutTree ==
    ASSUME Tree, NEW p \in Path, Children(p) = {}, fs' = Without({p})
    PROVE  Tree' /\ FilesKept({p}) /\ ~ Exists(p)'
<1>1. /\ DOMAIN fs' = DOMAIN fs \ {p}
      /\ \A q \in DOMAIN fs' : fs'[q] = fs[q]
  BY DEF Without
<1>2. \A q : q # p => (IsFile(q)' <=> IsFile(q)) /\ (IsDir(q)' <=> IsDir(q))
  BY <1>1 DEF Exists, IsFile, IsDir
<1>3. ASSUME NEW q \in DOMAIN fs' PROVE q = <<>> \/ IsDir(Front(q))'
  <2>1. q \in DOMAIN fs
    BY <1>1
  <2>2. q = <<>> \/ (IsDir(Front(q)) /\ Front(q) # p)
    BY <2>1 DEF Tree, Children
  <2> QED BY <1>2, <2>2
<1>4. ASSUME NEW q \in DOMAIN fs', IsFile(q)' PROVE q # <<>> /\ Fits(q, fs'[q])
  BY <1>1, <1>2, <1>4 DEF Tree, IsFile, Exists
<1>5. Tree'
  BY <1>1, <1>3, <1>4 DEF Tree, Fits
<1> QED BY <1>1, <1>2, <1>5 DEF FilesKept, IsFile, Exists

LEMMA FileChildless ==
    ASSUME Tree, NEW p, IsFile(p)
    PROVE  Children(p) = {}
BY DEF Tree, Children, IsFile, IsDir

LEMMA RenameTree ==
    ASSUME Tree, NEW p \in Path, NEW q \in Path, p # q, q # <<>>, p # <<>>, Front(p) = Front(q),
           NEW v, FileHolds(p, v), Fits(q, v), Able(Rename(p, q)), fs' = Effect(Rename(p, q))
    PROVE  Tree' /\ FilesKept({p, q}) /\ FileHolds(q, v)' /\ ~ Exists(p)'
<1>1. ~ IsDir(q) /\ v # Dir /\ fs[p] = v /\ IsFile(p)
  BY FitsNotDir DEF Able, Rename, FileHolds
<1>2. fs' = [x \in (DOMAIN fs \cup {q}) \ {p} |-> IF x = q THEN v ELSE fs[x]]
  BY <1>1 DEF Effect, Rename
<1>3. /\ DOMAIN fs' = (DOMAIN fs \cup {q}) \ {p} /\ fs'[q] = v
      /\ \A x \in DOMAIN fs : x \notin {p, q} => fs'[x] = fs[x]
  BY <1>2
<1>4. \A x : x \notin {p, q} => (IsFile(x)' <=> IsFile(x)) /\ (IsDir(x)' <=> IsDir(x))
  BY <1>3 DEF Exists, IsFile, IsDir
<1>5. \A x : IsDir(x) => IsDir(x)'
  BY <1>1, <1>4 DEF IsDir, IsFile
<1>6. ~ Exists(p)'
  BY <1>3 DEF Exists
<1>7. FileHolds(q, v)'
  BY <1>1, <1>3 DEF FileHolds, IsFile, Exists
<1>8. IsDir(Front(q))
  BY <1>1 DEF Tree, IsFile, Exists
<1>9. ASSUME NEW x \in DOMAIN fs' PROVE x = <<>> \/ IsDir(Front(x))'
  BY <1>3, <1>5, <1>8 DEF Tree
<1>10. ASSUME NEW x \in DOMAIN fs', IsFile(x)' PROVE x # <<>> /\ Fits(x, fs'[x])
  <2>1. CASE x = q
    BY <1>3, <2>1
  <2>2. CASE x # q
    <3>1. x \in DOMAIN fs /\ x \notin {p, q} /\ fs'[x] = fs[x] /\ IsFile(x)
      BY <1>3, <1>4, <1>10, <2>2
    <3> QED BY <3>1 DEF Tree
  <2> QED BY <2>1, <2>2
<1>11. Tree'
  <2>1. DOMAIN fs' \subseteq Path
    BY <1>3 DEF Tree
  <2> QED BY <1>9, <1>10, <2>1 DEF Tree, Fits
<1> QED BY <1>3, <1>4, <1>6, <1>7, <1>11 DEF FilesKept, IsFile, Exists

LEMMA LeastNat ==
    ASSUME NEW S \in SUBSET Nat, S # {}
    PROVE  \E m \in S : \A n \in S : m <= n
<1> DEFINE R == OpToRel(<, Nat)
<1>1. PICK m \in S : \A n \in S : <<n, m>> \notin R
  <2>1. IsWellFoundedOn(R, Nat)
    BY NatLessThanWellFounded
  <2> HIDE DEF R
  <2> QED BY <2>1, WFMin
<1>2. ASSUME NEW n \in S PROVE ~ (n < m)
  <2>1. n < m => <<n, m>> \in R
    BY DEF OpToRel
  <2> QED BY <1>1, <2>1
<1> QED BY <1>2

(* Every directory on the way to a path is there. *)
LEMMA Ancestors ==
    ASSUME Tree, NEW p \in DOMAIN fs, NEW l \in 0..Len(p)
    PROVE  SubSeq(p, 1, l) \in DOMAIN fs
<1>1. p \in Path /\ Len(p) \in Nat
  BY DEF Tree, Path
<1>2. ASSUME NEW n \in 0..Len(p)
      PROVE  /\ SubSeq(p, 1, n) \in Path /\ Len(SubSeq(p, 1, n)) = n
             /\ \A i \in 1..n : SubSeq(p, 1, n)[i] = p[i]
  <2>1. n \in Int /\ 1 \in Int /\ n >= 0 /\ \A i \in 1..n : p[i] \in Name
    BY <1>1 DEF Path
  <2>2. /\ SubSeq(p, 1, n) \in Seq(Name)
        /\ Len(SubSeq(p, 1, n)) = IF 1 <= n THEN n - 1 + 1 ELSE 0
        /\ \A i \in 1..(n - 1 + 1) : SubSeq(p, 1, n)[i] = p[1 + i - 1]
    BY <2>1, SubSeqProperties
  <2> QED BY <2>1, <2>2 DEF Path
<1> DEFINE Gone == {d \in 0..Len(p) : SubSeq(p, 1, Len(p) - d) \notin DOMAIN fs}
<1>3. ASSUME Gone # {} PROVE FALSE
  <2>1. PICK d \in Gone : \A e \in Gone : ~ (e < d)
    <3>1. Gone \in SUBSET Nat
      OBVIOUS
    <3> HIDE DEF Gone
    <3>2. PICK d \in Gone : \A e \in Gone : d <= e
      BY <1>3, <3>1, LeastNat
    <3> QED BY <3>1, <3>2
  <2>2. d # 0
    <3>1. Len(p) - 0 = Len(p) /\ SubSeq(p, 1, Len(p)) = p
      BY <1>1, <1>2 DEF Path
    <3> QED BY <3>1
  <2>3. d - 1 \in 0..Len(p) /\ d - 1 \notin Gone
    BY <2>1, <2>2
  <2> DEFINE m == Len(p) - (d - 1)
             x == SubSeq(p, 1, m)
             y == SubSeq(p, 1, m - 1)
  <2>4. m \in 0..Len(p) /\ m - 1 \in 0..Len(p) /\ m - 1 = Len(p) - d /\ m > 0
    BY <2>2
  <2>5. x \in DOMAIN fs /\ y \notin DOMAIN fs
    BY <2>3, <2>4
  <2>6. /\ x \in Path /\ Len(x) = m /\ \A i \in 1..m : x[i] = p[i]
        /\ y \in Path /\ Len(y) = m - 1 /\ \A i \in 1..(m - 1) : y[i] = p[i]
    BY <1>2, <2>4
  <2> HIDE DEF m, x, y
  <2>7. x # <<>>
    BY <2>4, <2>6
  <2>8. /\ Front(x) \in Path /\ Len(Front(x)) = m - 1
        /\ \A i \in 1..(m - 1) : Front(x)[i] = x[i]
    BY <2>6, <2>7, FrontFacts
  <2>9. Front(x) = y
    BY <2>4, <2>6, <2>8 DEF Path
  <2>10. Front(x) \in DOMAIN fs
    BY <2>5, <2>7 DEF Tree, IsDir, Exists
  <2> QED BY <2>5, <2>9, <2>10
<1>4. Len(p) - l \in 0..Len(p) /\ Len(p) - (Len(p) - l) = l
  BY <1>1
<1> QED BY <1>3, <1>4

-------------------------------------------------------------------------------
(* The operation under the lock: which calls it has still to make, and what  *)
(* those that it has made have left in the tree.                             *)
OpShape == op = [do |-> op.do, key |-> op.key, todo |-> op.todo]

MkO == MkdirAll(<< <<"o">> >>)
MkM == MkdirAll(<< <<"m">> >>)
JSONWrite == Write(JSONTmp, BucketMeta)
JSONRename == Rename(JSONTmp, BucketJSON)

Creating ==
    /\ op.do = "create" /\ op.key = None
    /\ \/ op.todo \in {<<MkO, MkM, JSONWrite, JSONRename>>, <<MkM, JSONWrite, JSONRename>>,
                       <<JSONWrite, JSONRename>>, <<>>}
       \/ op.todo = <<JSONRename>> /\ FileHolds(JSONTmp, BucketMeta)

Setting ==
    /\ op.do = "cors" /\ op.key = None /\ readBucket
    /\ \/ op.todo \in {<<JSONWrite, JSONRename>>, <<>>}
       \/ op.todo = <<JSONRename>> /\ FileHolds(JSONTmp, BucketMeta)

ObjDir(k) == MkdirAll(Front(objectPath(k)))
ObjWrite(k, b) == Write(Temp(k), b)
ObjRename(k) == Rename(Temp(k), objectPath(k))
MetaDir(k) == MkdirAll(Front(metaPath(k)))
MetaWrite(k, b) == Write(MetaTmp(k), Described(b))
MetaRename(k) == Rename(MetaTmp(k), metaPath(k))

Putting(k) ==
    /\ op.do = "put" /\ op.key = k /\ readBucket
    /\ \E b \in Body :
         \/ op.todo = <<ObjDir(k), ObjWrite(k, b), ObjRename(k), MetaDir(k), MetaWrite(k, b), MetaRename(k)>>
         \/ op.todo = <<ObjWrite(k, b), ObjRename(k), MetaDir(k), MetaWrite(k, b), MetaRename(k)>>
         \/ /\ op.todo = <<ObjRename(k), MetaDir(k), MetaWrite(k, b), MetaRename(k)>>
            /\ FileHolds(Temp(k), b)
         \/ /\ op.todo \in {<<MetaDir(k), MetaWrite(k, b), MetaRename(k)>>,
                            <<MetaWrite(k, b), MetaRename(k)>>}
            /\ FileHolds(objectPath(k), b)
         \/ /\ op.todo = <<MetaRename(k)>>
            /\ FileHolds(objectPath(k), b) /\ FileHolds(MetaTmp(k), Described(b))
         \/ /\ op.todo = <<>>
            /\ FileHolds(objectPath(k), b) /\ FileHolds(metaPath(k), Described(b))

Deleting(k) ==
    /\ op.do = "delete" /\ op.key = k /\ readBucket
    /\ \/ op.todo \in {<<Unlink(objectPath(k)), Unlink(metaPath(k))>>, <<Unlink(metaPath(k))>>}
       \/ op.todo = <<>> /\ ~ IsFile(metaPath(k))

Uploading == op.do = "upload" /\ op.key = None /\ op.todo \in {<<MkdirAll(Upload)>>, <<>>}

OfUploads == {p \in Path : p # <<>> /\ p[1] = <<"u">>}

Ending ==
    /\ op.do = "end" /\ op.key = None
    /\ op.todo \in Seq([call : {"removeall"}, at : OfUploads])

(* No object that an answer has promised is in a bucket that is taken down.  *)
Dropping ==
    /\ op.do = "drop" /\ op.key = None
    /\ op.todo \in Seq([call : {"removeall"}, at : Path])
    /\ op.todo # <<>> => op.todo[Len(op.todo)] = RemoveAll(<<>>)
    /\ op.todo = <<>> => DOMAIN fs = {}
    /\ \A k \in Key \ doubt : want[k] # None => TopDotted(k)

OpInv ==
    /\ OpShape
    /\ \/ op = NoOp \/ Creating \/ Setting \/ Uploading \/ Ending \/ Dropping
       \/ \E k \in Key : Putting(k) \/ Deleting(k)

Kept ==
    \A k \in Key \ doubt :
        op.key # k /\ want[k] # None /\ ~ TopDotted(k) =>
            /\ readBucket
            /\ FileHolds(objectPath(k), want[k]) /\ FileHolds(metaPath(k), Described(want[k]))

Gone == \A k \in Key \ doubt : op.key # k /\ want[k] = None => ~ IsFile(metaPath(k))

Histories ==
    /\ want \in [Key -> Body \cup {None}]
    /\ doubt \subseteq Key
    /\ crashes \in 0..MaxCrashes

Inv == Tree /\ OpInv /\ Kept /\ Gone /\ Histories

(* A step that leaves the files of other keys alone, and bucket.json if it   *)
(* is there, keeps what was promised of them.                                *)
LEMMA OthersKept ==
    ASSUME Inv, NEW P, FilesKept(P), readBucket => readBucket', want' = want,
           \A k \in Key : k \notin doubt' /\ op'.key # k => k \notin doubt /\ op.key # k,
           \A k \in Key : k # op.key => objectPath(k) \notin P /\ metaPath(k) \notin P
    PROVE  Kept' /\ Gone'
<1>1. \A k \in Key : objectPath(k) \in Path /\ metaPath(k) \in Path
  BY ObjectPathFacts, MetaPathFacts DEF OneFile
<1>2. ASSUME NEW k \in Key \ doubt', op'.key # k, want'[k] # None, ~ TopDotted(k)
      PROVE  /\ readBucket'
             /\ FileHolds(objectPath(k), want[k])' /\ FileHolds(metaPath(k), Described(want[k]))'
  <2>1. /\ readBucket
        /\ FileHolds(objectPath(k), want[k]) /\ FileHolds(metaPath(k), Described(want[k]))
    BY <1>2 DEF Inv, Kept
  <2>2. objectPath(k) \in Path \ P /\ metaPath(k) \in Path \ P
    BY <1>1, <1>2
  <2> QED BY <2>1, <2>2 DEF FilesKept, FileHolds
<1>3. ASSUME NEW k \in Key \ doubt', op'.key # k, want'[k] = None
      PROVE  ~ IsFile(metaPath(k))'
  <2>1. ~ IsFile(metaPath(k))
    BY <1>3 DEF Inv, Gone
  <2>2. metaPath(k) \in Path \ P
    BY <1>1, <1>3
  <2> QED BY <2>1, <2>2 DEF FilesKept
<1>4. Kept'
  BY <1>2 DEF Kept, TopDotted, Dotted
<1>5. Gone'
  BY <1>3 DEF Gone
<1> QED BY <1>4, <1>5

LEMMA JSONKept ==
    ASSUME NEW P, FilesKept(P), BucketJSON \notin P
    PROVE  readBucket' <=> readBucket
BY BucketPathFacts DEF FilesKept, readBucket

LEMMA StepFacts ==
    ASSUME OpShape, Step
    PROVE  /\ op' = [do |-> op.do, key |-> op.key, todo |-> Tail(op.todo)]
           /\ Able(Head(op.todo)) /\ fs' = Effect(Head(op.todo)) /\ OpShape'
           /\ op'.do = op.do /\ op'.key = op.key /\ op'.todo = Tail(op.todo)
           /\ want' = want /\ doubt' = doubt /\ crashes' = crashes /\ op.todo # <<>>
BY DEF OpShape, Step, Call, Going

LEMMA TailsOfPut ==
    \A c1, c2, c3, c4, c5, c6 :
        /\ Head(<<c1, c2, c3, c4, c5, c6>>) = c1
        /\ Tail(<<c1, c2, c3, c4, c5, c6>>) = <<c2, c3, c4, c5, c6>>
        /\ Head(<<c2, c3, c4, c5, c6>>) = c2
        /\ Tail(<<c2, c3, c4, c5, c6>>) = <<c3, c4, c5, c6>>
        /\ Head(<<c3, c4, c5, c6>>) = c3
        /\ Tail(<<c3, c4, c5, c6>>) = <<c4, c5, c6>>
        /\ Head(<<c4, c5, c6>>) = c4 /\ Tail(<<c4, c5, c6>>) = <<c5, c6>>
        /\ Head(<<c5, c6>>) = c5 /\ Tail(<<c5, c6>>) = <<c6>>
        /\ Head(<<c6>>) = c6 /\ Tail(<<c6>>) = <<>>
OBVIOUS

(* What is left to show of a step of an operation on the key k. *)
LEMMA OwnStep ==
    ASSUME Inv, NEW k \in Key, op.key = k, op'.key = k, NEW P, P \subseteq Own(k), FilesKept(P),
           Tree', OpInv', want' = want, doubt' = doubt, crashes' = crashes
    PROVE  Inv'
<1>1. readBucket => readBucket'
  BY PathsApart, JSONKept
<1>2. \A j \in Key : j # k => objectPath(j) \notin P /\ metaPath(j) \notin P
  BY PathsApart
<1>3. Kept' /\ Gone'
  BY <1>1, <1>2, OthersKept
<1>4. Histories'
  BY DEF Inv, Histories
<1> QED BY <1>3, <1>4 DEF Inv

LEMMA OwnPaths ==
    ASSUME NEW k \in Key
    PROVE  /\ Own(k) \subseteq Path /\ <<>> \notin Own(k)
           /\ Front(Temp(k)) = Front(objectPath(k)) /\ Front(MetaTmp(k)) = Front(metaPath(k))
           /\ Front(objectPath(k)) \in Path /\ Front(metaPath(k)) \in Path
           /\ \A b \in Body : Fits(objectPath(k), b) /\ Fits(Temp(k), b)
           /\ \A b \in Body : Fits(metaPath(k), Described(b)) /\ Fits(MetaTmp(k), Described(b))
           /\ Temp(k) # objectPath(k) /\ MetaTmp(k) # metaPath(k)
           /\ objectPath(k) \notin {metaPath(k), MetaTmp(k)}
           /\ BucketJSON \notin Own(k) /\ BucketJSON \in Path
<1>1. /\ OneFile(objectPath(k), "o", k, Append(k[Len(k)], ".obj"))
      /\ OneFile(metaPath(k), "m", k, Append(k[Len(k)], ".json"))
      /\ OneFile(Temp(k), "o", k, TempName)
      /\ OneFile(MetaTmp(k), "m", k, Append(Append(k[Len(k)], ".json"), ".tmp"))
      /\ Front(Temp(k)) = Front(objectPath(k)) /\ Front(MetaTmp(k)) = Front(metaPath(k))
  BY ObjectPathFacts, MetaPathFacts, TempFacts, MetaTmpFacts
<1>2. \A b \in Body : Fits(objectPath(k), b) /\ Fits(Temp(k), b)
  BY <1>1 DEF OneFile, Fits
<1>3. \A b \in Body : Fits(metaPath(k), Described(b)) /\ Fits(MetaTmp(k), Described(b))
  BY <1>1, NamesDiffer DEF OneFile, Fits
<1>4. Own(k) \subseteq Path /\ <<>> \notin Own(k)
  BY <1>1 DEF OneFile, Own
<1> QED BY <1>1, <1>2, <1>3, <1>4, PathsApart, BucketPathFacts DEF OneFile

(* A file that a step leaves alone. *)
LEMMA HoldsOn ==
    ASSUME NEW P, FilesKept(P), NEW p \in Path, p \notin P, NEW v, FileHolds(p, v)
    PROVE  FileHolds(p, v)'
BY DEF FilesKept, FileHolds

LEMMA PutStep ==
    ASSUME Inv, NEW k \in Key, Putting(k), Step
    PROVE  Inv'
<1> DEFINE c1 == ObjDir(k)
           c3 == ObjRename(k)
           c4 == MetaDir(k)
           c6 == MetaRename(k)
<1>1. /\ Able(Head(op.todo)) /\ fs' = Effect(Head(op.todo)) /\ OpShape'
      /\ op'.do = "put" /\ op'.key = k /\ op.key = k /\ op'.todo = Tail(op.todo)
      /\ want' = want /\ doubt' = doubt /\ crashes' = crashes /\ op.todo # <<>>
  BY StepFacts DEF Inv, OpInv, Putting
<1>2. Tree
  BY DEF Inv
<1>3. readBucket /\ readBucket = IsFile(BucketJSON)
  BY DEF Putting, readBucket
<1>4. PICK b \in Body :
         \/ op.todo = <<c1, ObjWrite(k, b), c3, c4, MetaWrite(k, b), c6>>
         \/ op.todo = <<ObjWrite(k, b), c3, c4, MetaWrite(k, b), c6>>
         \/ op.todo = <<c3, c4, MetaWrite(k, b), c6>> /\ FileHolds(Temp(k), b)
         \/ op.todo \in {<<c4, MetaWrite(k, b), c6>>, <<MetaWrite(k, b), c6>>} /\ FileHolds(objectPath(k), b)
         \/ op.todo = <<c6>> /\ FileHolds(objectPath(k), b) /\ FileHolds(MetaTmp(k), Described(b))
         \/ op.todo = <<>> /\ FileHolds(objectPath(k), b) /\ FileHolds(metaPath(k), Described(b))
  BY DEF Putting
<1> DEFINE c2 == ObjWrite(k, b)
           c5 == MetaWrite(k, b)
<1> HIDE DEF c1, c2, c3, c4, c5, c6
<1>5. ASSUME NEW P, P \subseteq Own(k), FilesKept(P), Tree',
             \/ op'.todo = <<c2, c3, c4, c5, c6>>
             \/ op'.todo = <<c3, c4, c5, c6>> /\ FileHolds(Temp(k), b)'
             \/ op'.todo \in {<<c4, c5, c6>>, <<c5, c6>>} /\ FileHolds(objectPath(k), b)'
             \/ op'.todo = <<c6>> /\ FileHolds(objectPath(k), b)' /\ FileHolds(MetaTmp(k), Described(b))'
             \/ op'.todo = <<>> /\ FileHolds(objectPath(k), b)' /\ FileHolds(metaPath(k), Described(b))'
      PROVE  Inv'
  <2>1. readBucket'
    BY <1>3, <1>5, OwnPaths, JSONKept
  <2>2. Putting(k)'
    BY <1>1, <1>5, <2>1 DEF Putting, c1, c2, c3, c4, c5, c6
  <2>3. OpInv'
    BY <1>1, <2>2 DEF OpInv
  <2> QED BY <1>1, <1>5, <2>3, OwnStep
<1>6. CASE op.todo = <<c1, c2, c3, c4, c5, c6>>
  <2>1. Head(op.todo) = c1 /\ Tail(op.todo) = <<c2, c3, c4, c5, c6>>
    BY <1>6, TailsOfPut
  <2>2. Tree' /\ FilesKept({})
    BY <1>1, <1>2, <2>1, OwnPaths, MkdirTree DEF c1, ObjDir
  <2> QED BY <1>1, <1>5, <2>1, <2>2
<1>7. CASE op.todo = <<c2, c3, c4, c5, c6>>
  <2>1. Head(op.todo) = c2 /\ Tail(op.todo) = <<c3, c4, c5, c6>>
    BY <1>7, TailsOfPut
  <2>2. Temp(k) \in Own(k)
    BY DEF Own
  <2>3. Tree' /\ FilesKept({Temp(k)}) /\ FileHolds(Temp(k), b)'
    BY <1>1, <1>2, <2>1, <2>2, OwnPaths, WriteTree DEF c2, ObjWrite
  <2> QED BY <1>1, <1>5, <2>1, <2>2, <2>3
<1>8. CASE op.todo = <<c3, c4, c5, c6>> /\ FileHolds(Temp(k), b)
  <2>1. Head(op.todo) = c3 /\ Tail(op.todo) = <<c4, c5, c6>>
    BY <1>8, TailsOfPut
  <2>2. {Temp(k), objectPath(k)} \subseteq Own(k)
    BY DEF Own
  <2>3. Tree' /\ FilesKept({Temp(k), objectPath(k)}) /\ FileHolds(objectPath(k), b)'
    BY <1>1, <1>2, <1>8, <2>1, <2>2, OwnPaths, RenameTree DEF c3, ObjRename
  <2> QED BY <1>1, <1>5, <2>1, <2>2, <2>3
<1>9. CASE op.todo = <<c4, c5, c6>> /\ FileHolds(objectPath(k), b)
  <2>1. Head(op.todo) = c4 /\ Tail(op.todo) = <<c5, c6>>
    BY <1>9, TailsOfPut
  <2>2. Tree' /\ FilesKept({})
    BY <1>1, <1>2, <2>1, OwnPaths, MkdirTree DEF c4, MetaDir
  <2>3. FileHolds(objectPath(k), b)'
    BY <1>9, <2>2, OwnPaths, HoldsOn DEF Own
  <2> QED BY <1>1, <1>5, <2>1, <2>2, <2>3
<1>10. CASE op.todo = <<c5, c6>> /\ FileHolds(objectPath(k), b)
  <2>1. Head(op.todo) = c5 /\ Tail(op.todo) = <<c6>>
    BY <1>10, TailsOfPut
  <2>2. MetaTmp(k) \in Own(k) /\ objectPath(k) \in Own(k)
    BY DEF Own
  <2>3. Tree' /\ FilesKept({MetaTmp(k)}) /\ FileHolds(MetaTmp(k), Described(b))'
    BY <1>1, <1>2, <2>1, <2>2, OwnPaths, WriteTree DEF c5, MetaWrite
  <2>4. FileHolds(objectPath(k), b)'
    BY <1>10, <2>2, <2>3, OwnPaths, HoldsOn
  <2> QED BY <1>1, <1>5, <2>1, <2>2, <2>3, <2>4
<1>11. CASE op.todo = <<c6>> /\ FileHolds(objectPath(k), b) /\ FileHolds(MetaTmp(k), Described(b))
  <2>1. Head(op.todo) = c6 /\ Tail(op.todo) = <<>>
    BY <1>11, TailsOfPut
  <2>2. {MetaTmp(k), metaPath(k)} \subseteq Own(k) /\ objectPath(k) \in Own(k)
    BY DEF Own
  <2>3. /\ Tree' /\ FilesKept({MetaTmp(k), metaPath(k)}) /\ FileHolds(metaPath(k), Described(b))'
    BY <1>1, <1>2, <1>11, <2>1, <2>2, OwnPaths, RenameTree DEF c6, MetaRename
  <2>4. FileHolds(objectPath(k), b)'
    BY <1>11, <2>2, <2>3, OwnPaths, HoldsOn
  <2> QED BY <1>1, <1>5, <2>1, <2>2, <2>3, <2>4
<1> QED BY <1>1, <1>4, <1>6, <1>7, <1>8, <1>9, <1>10, <1>11 DEF c2, c5

(* What is left to show of a step of an operation on no key. *)
LEMMA BucketStep ==
    ASSUME Inv, op.key = None, op'.key = None, NEW P, FilesKept(P), readBucket => readBucket',
           \A k \in Key : objectPath(k) \notin P /\ metaPath(k) \notin P,
           Tree', OpInv', want' = want, doubt' = doubt, crashes' = crashes
    PROVE  Inv'
<1>1. Kept' /\ Gone'
  BY OthersKept
<1>2. Histories'
  BY DEF Inv, Histories
<1> QED BY <1>1, <1>2 DEF Inv

LEMMA TopFacts ==
    /\ << <<"o">> >> \in Path /\ << <<"m">> >> \in Path /\ Upload \in OfUploads
    /\ Len(Upload) = 2 /\ Upload[1] = <<"u">>
<1>1. <<"o">> \in Name /\ <<"m">> \in Name /\ <<"u">> \in Name /\ <<"id">> \in Name
  <2>1. "o" \in Piece /\ "m" \in Piece /\ "u" \in Piece /\ "id" \in Piece
    BY KeyAssumption
  <2> QED BY <2>1 DEF Name
<1>2. << <<"o">> >> \in Path /\ << <<"m">> >> \in Path
  BY <1>1 DEF Path
<1> DEFINE u == <<"u">>
           i == <<"id">>
<1>3. Upload = <<u, i>> /\ u \in Name /\ i \in Name
  BY <1>1 DEF Upload
<1> HIDE DEF u, i
<1>4. Upload \in Path /\ Upload # <<>> /\ Upload[1] = u /\ Len(Upload) = 2
  BY <1>3 DEF Path
<1> QED BY <1>2, <1>4 DEF OfUploads, u

(* The writers of bucket.json. *)
LEMMA JSONPaths ==
    /\ JSONTmp \in Path /\ BucketJSON \in Path /\ JSONTmp # <<>> /\ BucketJSON # <<>>
    /\ JSONTmp # BucketJSON /\ Front(JSONTmp) = Front(BucketJSON)
    /\ Fits(JSONTmp, BucketMeta) /\ Fits(BucketJSON, BucketMeta)
    /\ \A k \in Key : {objectPath(k), metaPath(k)} \cap {BucketJSON, JSONTmp} = {}
<1>1. ASSUME NEW n \in Name, n # <<"o">>, n # <<"m">>, NEW p, p[1] = n PROVE Fits(p, BucketMeta)
  BY <1>1 DEF Fits
<1>2. /\ BucketJSON[1] \in Name /\ Len(BucketJSON[1]) > 1
      /\ JSONTmp[1] \in Name /\ Len(JSONTmp[1]) > 1
  <2> DEFINE n == <<"bucket", ".json">>
  <2>1. n \in Name /\ Len(n) = 2 /\ ".tmp" \in Piece
    <3>1. "bucket" \in Piece /\ ".json" \in Piece /\ ".tmp" \in Piece
      BY KeyAssumption
    <3> QED BY <3>1 DEF Name
  <2>2. BucketJSON[1] = n /\ Len(BucketJSON) = 1 /\ BucketJSON \in Path /\ BucketJSON # <<>>
    BY BucketPathFacts
  <2> HIDE DEF n
  <2>3. JSONTmp[1] = Append(n, ".tmp")
    BY <2>1, <2>2, SuffixedFacts DEF JSONTmp
  <2>4. Append(n, ".tmp") \in Name /\ Len(Append(n, ".tmp")) = 3
    <3>1. Append(n, ".tmp") \in Name /\ Len(Append(n, ".tmp")) = Len(n) + 1
      BY <2>1, NameWithSuffix
    <3> QED BY <2>1, <3>1
  <2> QED BY <2>1, <2>2, <2>3, <2>4
<1>3. \A n : Len(n) > 1 => n # <<"o">> /\ n # <<"m">>
  <2>1. Len(<<"o">>) = 1 /\ Len(<<"m">>) = 1 /\ ~ (1 > 1)
    OBVIOUS
  <2> QED BY <2>1
<1>4. Fits(JSONTmp, BucketMeta) /\ Fits(BucketJSON, BucketMeta)
  BY <1>1, <1>2, <1>3
<1>5. JSONTmp # BucketJSON
  BY BucketPathFacts
<1>6. \A k \in Key : {objectPath(k), metaPath(k)} \cap {BucketJSON, JSONTmp} = {}
  BY PathsApart
<1> QED BY <1>4, <1>5, <1>6, BucketPathFacts

LEMMA JSONWriteStep ==
    ASSUME Tree, Able(JSONWrite), fs' = Effect(JSONWrite)
    PROVE  /\ Tree' /\ FilesKept({JSONTmp}) /\ FileHolds(JSONTmp, BucketMeta)'
           /\ readBucket' <=> readBucket
<1>1. Tree' /\ FilesKept({JSONTmp}) /\ FileHolds(JSONTmp, BucketMeta)'
  BY JSONPaths, WriteTree DEF JSONWrite
<1> QED BY <1>1, JSONPaths, JSONKept

LEMMA JSONRenameStep ==
    ASSUME Tree, FileHolds(JSONTmp, BucketMeta), Able(JSONRename), fs' = Effect(JSONRename)
    PROVE  Tree' /\ FilesKept({JSONTmp, BucketJSON}) /\ readBucket'
<1>1. Tree' /\ FilesKept({JSONTmp, BucketJSON}) /\ FileHolds(BucketJSON, BucketMeta)'
  BY JSONPaths, RenameTree DEF JSONRename
<1> QED BY <1>1 DEF FileHolds, readBucket

LEMMA CreateStep ==
    ASSUME Inv, Creating, Step
    PROVE  Inv'
<1>1. /\ Able(Head(op.todo)) /\ fs' = Effect(Head(op.todo)) /\ OpShape'
      /\ op'.do = "create" /\ op'.key = None /\ op.key = None /\ op'.todo = Tail(op.todo)
      /\ want' = want /\ doubt' = doubt /\ crashes' = crashes /\ op.todo # <<>>
  BY StepFacts DEF Inv, OpInv, Creating
<1>2. Tree
  BY DEF Inv
<1> DEFINE c1 == MkO
           c2 == MkM
           c3 == JSONWrite
           c4 == JSONRename
<1>3. \/ op.todo \in {<<c1, c2, c3, c4>>, <<c2, c3, c4>>, <<c3, c4>>}
      \/ op.todo = <<c4>> /\ FileHolds(JSONTmp, BucketMeta)
  BY <1>1 DEF Creating
<1> HIDE DEF c1, c2, c3, c4
<1>4. ASSUME NEW P, P \subseteq {JSONTmp, BucketJSON}, FilesKept(P), Tree', readBucket => readBucket',
             \/ op'.todo \in {<<c2, c3, c4>>, <<c3, c4>>, <<>>}
             \/ op'.todo = <<c4>> /\ FileHolds(JSONTmp, BucketMeta)'
      PROVE  Inv'
  <2>1. Creating'
    BY <1>1, <1>4 DEF Creating, c1, c2, c3, c4
  <2>2. OpInv'
    BY <1>1, <2>1 DEF OpInv
  <2>3. \A k \in Key : objectPath(k) \notin P /\ metaPath(k) \notin P
    BY <1>4, JSONPaths
  <2> QED BY <1>1, <1>4, <2>2, <2>3, BucketStep
<1>5. CASE op.todo = <<c1, c2, c3, c4>>
  <2>1. Head(op.todo) = c1 /\ Tail(op.todo) = <<c2, c3, c4>>
    BY <1>5, TailsOfPut
  <2>2. Tree' /\ FilesKept({})
    BY <1>1, <1>2, <2>1, TopFacts, MkdirTree DEF c1, MkO
  <2>3. readBucket => readBucket'
    BY <2>2, JSONKept
  <2> QED BY <1>1, <1>4, <2>1, <2>2, <2>3
<1>6. CASE op.todo = <<c2, c3, c4>>
  <2>1. Head(op.todo) = c2 /\ Tail(op.todo) = <<c3, c4>>
    BY <1>6, TailsOfPut
  <2>2. Tree' /\ FilesKept({})
    BY <1>1, <1>2, <2>1, TopFacts, MkdirTree DEF c2, MkM
  <2>3. readBucket => readBucket'
    BY <2>2, JSONKept
  <2> QED BY <1>1, <1>4, <2>1, <2>2, <2>3
<1>7. CASE op.todo = <<c3, c4>>
  <2>1. Head(op.todo) = c3 /\ Tail(op.todo) = <<c4>>
    BY <1>7, TailsOfPut
  <2>2. /\ Tree' /\ FilesKept({JSONTmp}) /\ FileHolds(JSONTmp, BucketMeta)'
        /\ readBucket => readBucket'
    BY <1>1, <1>2, <2>1, JSONWriteStep DEF c3
  <2> QED BY <1>1, <1>4, <2>1, <2>2
<1>8. CASE op.todo = <<c4>> /\ FileHolds(JSONTmp, BucketMeta)
  <2>1. Head(op.todo) = c4 /\ Tail(op.todo) = <<>>
    BY <1>8, TailsOfPut
  <2>2. Tree' /\ FilesKept({JSONTmp, BucketJSON}) /\ readBucket'
    BY <1>1, <1>2, <1>8, <2>1, JSONRenameStep DEF c4
  <2> QED BY <1>1, <1>4, <2>1, <2>2
<1> QED BY <1>3, <1>5, <1>6, <1>7, <1>8

LEMMA SettingStep ==
    ASSUME Inv, Setting, Step
    PROVE  Inv'
<1>1. /\ Able(Head(op.todo)) /\ fs' = Effect(Head(op.todo)) /\ OpShape'
      /\ op'.do = "cors" /\ op'.key = None /\ op.key = None /\ op'.todo = Tail(op.todo)
      /\ want' = want /\ doubt' = doubt /\ crashes' = crashes /\ op.todo # <<>>
  BY StepFacts DEF Inv, OpInv, Setting
<1>2. Tree /\ readBucket
  BY DEF Inv, Setting
<1> DEFINE c3 == JSONWrite
           c4 == JSONRename
<1>3. \/ op.todo = <<c3, c4>>
      \/ op.todo = <<c4>> /\ FileHolds(JSONTmp, BucketMeta)
  BY <1>1 DEF Setting
<1> HIDE DEF c3, c4
<1>4. ASSUME NEW P, P \subseteq {JSONTmp, BucketJSON}, FilesKept(P), Tree', readBucket',
             \/ op'.todo = <<>>
             \/ op'.todo = <<c4>> /\ FileHolds(JSONTmp, BucketMeta)'
      PROVE  Inv'
  <2>1. Setting'
    BY <1>1, <1>4 DEF Setting, c3, c4
  <2>2. OpInv'
    BY <1>1, <2>1 DEF OpInv
  <2>3. \A k \in Key : objectPath(k) \notin P /\ metaPath(k) \notin P
    BY <1>4, JSONPaths
  <2> QED BY <1>1, <1>4, <2>2, <2>3, BucketStep
<1>7. CASE op.todo = <<c3, c4>>
  <2>1. Head(op.todo) = c3 /\ Tail(op.todo) = <<c4>>
    BY <1>7, TailsOfPut
  <2>2. Tree' /\ FilesKept({JSONTmp}) /\ FileHolds(JSONTmp, BucketMeta)' /\ readBucket'
    BY <1>1, <1>2, <2>1, JSONWriteStep DEF c3
  <2> QED BY <1>1, <1>4, <2>1, <2>2
<1>8. CASE op.todo = <<c4>> /\ FileHolds(JSONTmp, BucketMeta)
  <2>1. Head(op.todo) = c4 /\ Tail(op.todo) = <<>>
    BY <1>8, TailsOfPut
  <2>2. Tree' /\ FilesKept({JSONTmp, BucketJSON}) /\ readBucket'
    BY <1>1, <1>2, <1>8, <2>1, JSONRenameStep DEF c4
  <2> QED BY <1>1, <1>4, <2>1, <2>2
<1> QED BY <1>3, <1>7, <1>8

LEMMA UploadStep ==
    ASSUME Inv, Uploading, Step
    PROVE  Inv'
<1>1. /\ Able(Head(op.todo)) /\ fs' = Effect(Head(op.todo)) /\ OpShape'
      /\ op'.do = "upload" /\ op'.key = None /\ op.key = None /\ op'.todo = Tail(op.todo)
      /\ want' = want /\ doubt' = doubt /\ crashes' = crashes /\ op.todo # <<>>
  BY StepFacts DEF Inv, OpInv, Uploading
<1>2. Head(op.todo) = MkdirAll(Upload) /\ Tail(op.todo) = <<>>
  BY <1>1, TailsOfPut DEF Uploading
<1>3. Tree' /\ FilesKept({})
  BY <1>1, <1>2, TopFacts, MkdirTree DEF Inv, OfUploads
<1>4. readBucket => readBucket'
  BY <1>3, JSONKept
<1>5. OpInv'
  BY <1>1, <1>2 DEF OpInv, Uploading
<1> QED BY <1>1, <1>3, <1>4, <1>5, BucketStep

(* A DeleteObject goes on, whether its call succeeds or not. *)
LEMMA DeleteStep ==
    ASSUME Inv, NEW k \in Key, Deleting(k), Step \/ IgnoredError
    PROVE  Inv'
<1>1. /\ OpShape' /\ op'.do = "delete" /\ op'.key = k /\ op.key = k /\ op'.todo = Tail(op.todo)
      /\ want' = want /\ doubt' = doubt /\ crashes' = crashes /\ op.todo # <<>>
  BY DEF Inv, OpInv, Deleting, Step, IgnoredError, Going, OpShape
<1> DEFINE c == Head(op.todo)
<1>2. \/ Able(c) /\ fs' = Effect(c)
      \/ ~ Able(c) /\ fs' = fs
  BY DEF Step, IgnoredError, Call
<1>3. Tree /\ readBucket
  BY DEF Inv, Deleting
<1> HIDE DEF c
<1>4. ASSUME NEW p \in Own(k), c = Unlink(p)
      PROVE  \E P \in SUBSET Own(k) : FilesKept(P) /\ Tree' /\ ~ IsFile(p)'
  <2>1. CASE Able(c) /\ fs' = Effect(c)
    <3>1. Children(p) = {} /\ fs' = Without({p})
      BY <1>4, <2>1 DEF Able, Effect, Unlink
    <3>2. p \in Path
      BY OwnPaths
    <3>3. Tree' /\ FilesKept({p}) /\ ~ Exists(p)'
      BY <1>3, <3>1, <3>2, WithoutTree
    <3> QED BY <3>3 DEF IsFile
  <2>2. CASE ~ Able(c) /\ fs' = fs
    <3>1. ~ (Exists(p) /\ Children(p) = {})
      BY <1>4, <2>2 DEF Able, Unlink
    <3>2. ~ IsFile(p)
      BY <1>3, <3>1, FileChildless DEF IsFile
    <3>3. Tree' /\ FilesKept({}) /\ ~ IsFile(p)'
      BY <1>3, <2>2, <3>2 DEF Tree, FilesKept, IsFile, IsDir, Exists
    <3> QED BY <3>3
  <2> QED BY <1>2, <2>1, <2>2
<1>5. CASE op.todo = <<Unlink(objectPath(k)), Unlink(metaPath(k))>>
  <2>1. c = Unlink(objectPath(k)) /\ op'.todo = <<Unlink(metaPath(k))>>
    BY <1>1, <1>5, TailsOfPut DEF c
  <2>2. PICK P \in SUBSET Own(k) : FilesKept(P) /\ Tree'
    BY <1>4, <2>1 DEF Own
  <2>3. readBucket'
    BY <1>3, <2>2, OwnPaths, JSONKept
  <2>4. OpInv'
    BY <1>1, <2>1, <2>3 DEF OpInv, Deleting
  <2> QED BY <1>1, <2>2, <2>4, OwnStep
<1>6. CASE op.todo = <<Unlink(metaPath(k))>>
  <2>1. c = Unlink(metaPath(k)) /\ op'.todo = <<>>
    BY <1>1, <1>6, TailsOfPut DEF c
  <2>2. PICK P \in SUBSET Own(k) : FilesKept(P) /\ Tree' /\ ~ IsFile(metaPath(k))'
    BY <1>4, <2>1 DEF Own
  <2>3. readBucket'
    BY <1>3, <2>2, OwnPaths, JSONKept
  <2>4. OpInv'
    BY <1>1, <2>1, <2>2, <2>3 DEF OpInv, Deleting
  <2> QED BY <1>1, <2>2, <2>4, OwnStep
<1> QED BY <1>1, <1>5, <1>6 DEF Deleting

-------------------------------------------------------------------------------
(* os.RemoveAll: the stack of the entries that it has begun. *)
Entries(S) == Seq([call : {"removeall"}, at : S])

LEMMA StackPush ==
    ASSUME NEW S, NEW s \in Entries(S), NEW q \in S
    PROVE  /\ <<RemoveAll(q)>> \o s \in Entries(S) /\ <<RemoveAll(q)>> \o s # <<>>
           /\ s # <<>> => (<<RemoveAll(q)>> \o s)[Len(<<RemoveAll(q)>> \o s)] = s[Len(s)]
<1> DEFINE T == [call : {"removeall"}, at : S]
           c == RemoveAll(q)
<1>1. c \in T /\ s \in Seq(T)
  BY DEF RemoveAll, Entries
<1> HIDE DEF T, c
<1>2. /\ <<c>> \o s \in Seq(T) /\ <<c>> \o s # <<>>
      /\ s # <<>> => (<<c>> \o s)[Len(<<c>> \o s)] = s[Len(s)]
  BY <1>1
<1> QED BY <1>2 DEF T, c, Entries

LEMMA StackPop ==
    ASSUME NEW S, NEW s \in Entries(S), s # <<>>
    PROVE  /\ Head(s).call = "removeall" /\ Head(s).at \in S /\ Tail(s) \in Entries(S)
           /\ Tail(s) # <<>> => Tail(s)[Len(Tail(s))] = s[Len(s)]
           /\ Tail(s) = <<>> => Head(s) = s[Len(s)]
<1> DEFINE T == [call : {"removeall"}, at : S]
<1>1. s \in Seq(T)
  BY DEF Entries
<1>2. \A c \in T : c.call = "removeall" /\ c.at \in S
  OBVIOUS
<1> HIDE DEF T
<1>3. /\ Head(s) \in T /\ Tail(s) \in Seq(T)
      /\ Tail(s) # <<>> => Tail(s)[Len(Tail(s))] = s[Len(s)]
      /\ Tail(s) = <<>> => Head(s) = s[Len(s)]
  <2>1. /\ Head(s) \in T /\ Tail(s) \in Seq(T) /\ Len(Tail(s)) = Len(s) - 1
        /\ \A i \in 1..Len(Tail(s)) : Tail(s)[i] = s[i + 1]
    BY <1>1, HeadTailProperties
  <2>2. Len(s) \in Nat /\ Len(Tail(s)) \in Nat /\ Len(s) > 0
    BY <1>1, <2>1
  <2>3. ASSUME Tail(s) # <<>> PROVE Tail(s)[Len(Tail(s))] = s[Len(s)]
    <3>1. Len(Tail(s)) \in 1..Len(Tail(s))
      BY <2>1, <2>2, <2>3
    <3>2. Tail(s)[Len(Tail(s))] = s[Len(Tail(s)) + 1]
      BY <2>1, <3>1
    <3>3. Len(Tail(s)) + 1 = Len(s)
      BY <2>1, <2>2
    <3> QED BY <3>2, <3>3
  <2>4. ASSUME Tail(s) = <<>> PROVE Head(s) = s[Len(s)]
    <3>1. Len(s) = 1
      BY <2>1, <2>2, <2>4
    <3>2. Head(s) = s[1]
      BY <1>1
    <3> QED BY <3>1, <3>2
  <2> QED BY <2>1, <2>3, <2>4
<1> QED BY <1>2, <1>3 DEF T, Entries

LEMMA RemoveFacts ==
    ASSUME OpShape, RemoveStep
    PROVE  /\ op.todo # <<>> /\ OpShape' /\ op'.do = op.do /\ op'.key = op.key
           /\ want' = want /\ doubt' = doubt /\ crashes' = crashes
           /\ \/ /\ Children(Head(op.todo).at) = {} /\ fs' = Without({Head(op.todo).at})
                 /\ op'.todo = Tail(op.todo)
              \/ /\ fs' = fs
                 /\ \E q \in Children(Head(op.todo).at) : op'.todo = <<RemoveAll(q)>> \o op.todo
BY DEF OpShape, RemoveStep, Call, Going

LEMMA NothingChanged ==
    ASSUME Tree, fs' = fs
    PROVE  Tree' /\ FilesKept({}) /\ (readBucket' <=> readBucket)
BY DEF Tree, FilesKept, IsFile, IsDir, Exists, readBucket

LEMMA EndStep ==
    ASSUME Inv, Ending, RemoveStep
    PROVE  Inv'
<1> DEFINE at == Head(op.todo).at
<1>1. /\ op.todo # <<>> /\ OpShape' /\ op'.do = "end" /\ op'.key = None /\ op.key = None
      /\ want' = want /\ doubt' = doubt /\ crashes' = crashes
      /\ \/ Children(at) = {} /\ fs' = Without({at}) /\ op'.todo = Tail(op.todo)
         \/ fs' = fs /\ \E q \in Children(at) : op'.todo = <<RemoveAll(q)>> \o op.todo
  BY RemoveFacts DEF Inv, OpInv, Ending
<1>2. op.todo \in Entries(OfUploads)
  BY DEF Ending, Entries
<1>3. at \in OfUploads /\ Tail(op.todo) \in Entries(OfUploads)
  BY <1>1, <1>2, StackPop
<1>4. at \in Path /\ at # <<>> /\ at[1] = <<"u">>
  BY <1>3 DEF OfUploads
<1>5. Tree
  BY DEF Inv
<1> HIDE DEF at
<1>6. CASE Children(at) = {} /\ fs' = Without({at}) /\ op'.todo = Tail(op.todo)
  <2>1. Tree' /\ FilesKept({at})
    BY <1>4, <1>5, <1>6, WithoutTree
  <2>2. at # BucketJSON /\ \A k \in Key : objectPath(k) # at /\ metaPath(k) # at
    <3>1. BucketJSON[1] # <<"u">>
      <4>1. Len(<<"bucket", ".json">>) = 2 /\ Len(<<"u">>) = 1
        OBVIOUS
      <4> QED BY <4>1, BucketPathFacts
    <3>2. ASSUME NEW k \in Key PROVE objectPath(k) # at /\ metaPath(k) # at
      <4>1. objectPath(k)[1] = <<"o">> /\ metaPath(k)[1] = <<"m">>
        BY ObjectPathFacts, MetaPathFacts DEF OneFile
      <4>2. <<"o">> # <<"u">> /\ <<"m">> # <<"u">>
        OBVIOUS
      <4> QED BY <1>4, <4>1, <4>2
    <3> QED BY <1>4, <3>1, <3>2
  <2>3. readBucket => readBucket'
    BY <2>1, <2>2, JSONKept
  <2>4. OpInv'
    BY <1>1, <1>3, <1>6 DEF OpInv, Ending, Entries
  <2> QED BY <1>1, <2>1, <2>2, <2>3, <2>4, BucketStep
<1>7. CASE fs' = fs /\ \E q \in Children(at) : op'.todo = <<RemoveAll(q)>> \o op.todo
  <2>1. PICK q \in Children(at) : op'.todo = <<RemoveAll(q)>> \o op.todo
    BY <1>7
  <2>2. q \in OfUploads
    <3>1. q \in Path /\ q # <<>> /\ Front(q) = at
      BY <1>5, <2>1 DEF Children, Tree
    <3>2. Len(at) \in Nat /\ Len(at) > 0
      BY <1>4 DEF Path
    <3>3. Len(at) = Len(q) - 1 /\ \A i \in 1..(Len(q) - 1) : at[i] = q[i]
      BY <3>1, FrontFacts
    <3>4. q[1] = at[1]
      BY <3>2, <3>3
    <3> QED BY <1>4, <3>1, <3>4 DEF OfUploads
  <2>3. op'.todo \in Entries(OfUploads)
    BY <1>2, <2>1, <2>2, StackPush
  <2>4. OpInv'
    BY <1>1, <2>3 DEF OpInv, Ending, Entries
  <2>5. Tree' /\ FilesKept({}) /\ (readBucket' <=> readBucket)
    BY <1>5, <1>7, NothingChanged
  <2> QED BY <1>1, <2>4, <2>5, BucketStep
<1> QED BY <1>1, <1>6, <1>7

(* A tree whose root is empty is empty. *)
LEMMA RootEmpty ==
    ASSUME Tree, Children(<<>>) = {}
    PROVE  DOMAIN fs \subseteq {<<>>}
<1> SUFFICES ASSUME NEW p \in DOMAIN fs, p # <<>> PROVE FALSE
  OBVIOUS
<1>1. p \in Path /\ Len(p) \in Nat /\ Len(p) > 0
  BY FrontFacts DEF Tree, Path
<1>2. 1 \in 0..Len(p)
  BY <1>1
<1> DEFINE x == SubSeq(p, 1, 1)
<1>3. x \in DOMAIN fs
  BY <1>2, Ancestors
<1>4. Len(x) = 1 /\ x \in Path
  <2>1. 1 \in Int /\ \A i \in 1..1 : p[i] \in Name
    BY <1>1 DEF Path
  <2>2. Len(SubSeq(p, 1, 1)) = IF 1 <= 1 THEN 1 - 1 + 1 ELSE 0
    BY <2>1, SubSeqProperties
  <2>3. Len(x) = 1
    BY <2>2
  <2> QED BY <1>3, <2>3 DEF Tree
<1> HIDE DEF x
<1>5. x # <<>> /\ Front(x) \in Path /\ Len(Front(x)) = 0
  <2>1. x # <<>>
    BY <1>4 DEF Path
  <2>2. Front(x) \in Path /\ Len(Front(x)) = Len(x) - 1
    BY <1>4, <2>1, FrontFacts
  <2>3. Len(Front(x)) = 0
    BY <1>4, <2>2
  <2> QED BY <2>1, <2>2, <2>3
<1>6. Front(x) = <<>>
  BY <1>5 DEF Path
<1> QED BY <1>3, <1>5, <1>6 DEF Children

LEMMA DropStep ==
    ASSUME Inv, Dropping, RemoveStep
    PROVE  Inv'
<1> DEFINE at == Head(op.todo).at
<1>1. /\ op.todo # <<>> /\ OpShape' /\ op'.do = "drop" /\ op'.key = None /\ op.key = None
      /\ want' = want /\ doubt' = doubt /\ crashes' = crashes
      /\ \/ Children(at) = {} /\ fs' = Without({at}) /\ op'.todo = Tail(op.todo)
         \/ fs' = fs /\ \E q \in Children(at) : op'.todo = <<RemoveAll(q)>> \o op.todo
  BY RemoveFacts DEF Inv, OpInv, Dropping
<1>2. op.todo \in Entries(Path) /\ op.todo[Len(op.todo)] = RemoveAll(<<>>)
  BY <1>1 DEF Dropping, Entries
<1>3. /\ at \in Path /\ Tail(op.todo) \in Entries(Path)
      /\ Tail(op.todo) # <<>> => Tail(op.todo)[Len(Tail(op.todo))] = RemoveAll(<<>>)
      /\ Tail(op.todo) = <<>> => Head(op.todo) = RemoveAll(<<>>)
  BY <1>1, <1>2, StackPop
<1>4. Tail(op.todo) = <<>> => at = <<>>
  BY <1>3 DEF RemoveAll
<1>5. Tree /\ \A k \in Key \ doubt' : want'[k] # None => TopDotted(k)
  BY <1>1 DEF Inv, Dropping
<1>9. Tree
  BY <1>5
<1> HIDE DEF at
<1>6. ASSUME NEW P, FilesKept(P), \A p \in P : ~ Exists(p)', Tree', op'.todo \in Entries(Path),
             op'.todo # <<>> => op'.todo[Len(op'.todo)] = RemoveAll(<<>>),
             op'.todo = <<>> => DOMAIN fs' = {}
      PROVE  Inv'
  <2>1. Dropping'
    BY <1>1, <1>5, <1>6 DEF Dropping, Entries, TopDotted, Dotted, RemoveAll
  <2>2. OpInv'
    BY <1>1, <2>1 DEF OpInv
  <2>3. Kept'
    BY <1>5 DEF Kept, TopDotted, Dotted
  <2>4. Gone'
    <3> SUFFICES ASSUME NEW k \in Key \ doubt', op'.key # k, want'[k] = None
                 PROVE  ~ IsFile(metaPath(k))'
      BY DEF Gone
    <3>1. ~ IsFile(metaPath(k)) /\ metaPath(k) \in Path
      BY <1>1, MetaPathFacts DEF Inv, Gone, OneFile
    <3> QED BY <1>6, <3>1 DEF FilesKept, IsFile
  <2>5. Histories'
    BY <1>1 DEF Inv, Histories
  <2> QED BY <1>6, <2>2, <2>3, <2>4, <2>5 DEF Inv
<1>7. CASE Children(at) = {} /\ fs' = Without({at}) /\ op'.todo = Tail(op.todo)
  <2>1. Tree' /\ FilesKept({at}) /\ at \notin DOMAIN fs'
    <3>1. at \in Path /\ Children(at) = {} /\ fs' = Without({at})
      BY <1>3, <1>7
    <3> QED BY <1>9, <3>1, WithoutTree DEF Exists
  <2>2. ASSUME op'.todo = <<>> PROVE DOMAIN fs' = {}
    <3>1. at = <<>>
      BY <1>4, <1>7, <2>2
    <3>2. Children(<<>>) = {} /\ fs' = Without({<<>>})
      BY <1>7, <3>1
    <3>3. DOMAIN fs \subseteq {<<>>}
      BY <1>9, <3>2, RootEmpty
    <3>4. DOMAIN fs' = DOMAIN fs \ {<<>>}
      BY <3>2 DEF Without
    <3> QED BY <3>3, <3>4
  <2>3. \A p \in {at} : ~ Exists(p)'
    BY <2>1 DEF Exists
  <2>4. /\ op'.todo \in Entries(Path)
        /\ op'.todo # <<>> => op'.todo[Len(op'.todo)] = RemoveAll(<<>>)
    BY <1>3, <1>7
  <2> QED BY <1>6, <2>1, <2>2, <2>3, <2>4
<1>8. CASE fs' = fs /\ \E q \in Children(at) : op'.todo = <<RemoveAll(q)>> \o op.todo
  <2>1. PICK q \in Children(at) : op'.todo = <<RemoveAll(q)>> \o op.todo
    BY <1>8
  <2>2. q \in Path
    BY <1>5, <2>1 DEF Children, Tree
  <2>3. /\ op'.todo \in Entries(Path) /\ op'.todo # <<>>
        /\ op'.todo[Len(op'.todo)] = RemoveAll(<<>>)
    <3> DEFINE todo == <<RemoveAll(q)>> \o op.todo
    <3>1. /\ todo \in Entries(Path) /\ todo # <<>>
          /\ op.todo # <<>> => todo[Len(todo)] = op.todo[Len(op.todo)]
      <4>1. op.todo \in Entries(Path)
        BY <1>1, <1>2
      <4> QED BY <2>2, <4>1, StackPush
    <3> HIDE DEF todo
    <3> QED BY <1>1, <1>2, <2>1, <3>1 DEF todo
  <2>4. Tree' /\ FilesKept({})
    BY <1>5, <1>8, NothingChanged
  <2> QED BY <1>6, <2>3, <2>4
<1> QED BY <1>1, <1>7, <1>8

-------------------------------------------------------------------------------
(* The end of an operation. *)
LEMMA Ended ==
    ASSUME Inv, NEW P, FilesKept(P), readBucket => readBucket', Tree', op' = NoOp, want' = want,
           doubt' = doubt \cup ({op.key} \cap Key), crashes' \in 0..MaxCrashes,
           \A k \in Key : k # op.key => objectPath(k) \notin P /\ metaPath(k) \notin P
    PROVE  Inv'
<1>1. \A k \in Key : k \notin doubt' /\ op'.key # k => k \notin doubt /\ op.key # k
  OBVIOUS
<1>2. Kept' /\ Gone'
  BY <1>1, OthersKept
<1>3. OpInv'
  BY DEF OpInv, OpShape, NoOp
<1>4. Histories'
  BY DEF Inv, Histories
<1> QED BY <1>2, <1>3, <1>4 DEF Inv

LEMMA CrashKeeps ==
    ASSUME Inv, Crash
    PROVE  Inv'
<1>1. Tree' /\ FilesKept({}) /\ (readBucket' <=> readBucket)
  BY NothingChanged DEF Inv, Crash
<1>2. crashes' \in 0..MaxCrashes
  BY CrashAssumption DEF Inv, Histories, Crash
<1> QED BY <1>1, <1>2, Ended DEF Crash, Return

(* A rename is of a temporary file that its operation has written. *)
LEMMA RenameCalls ==
    ASSUME OpInv, op.todo # <<>>, Head(op.todo).call = "rename"
    PROVE  \/ op.key = None /\ Head(op.todo).from = JSONTmp /\ IsFile(JSONTmp)
           \/ \E k \in Key : \E p \in {Temp(k), MetaTmp(k)} :
                 op.key = k /\ Head(op.todo).from = p /\ IsFile(p)
<1>1. op # NoOp
  BY DEF NoOp
<1>2. CASE Creating
  <2>1. \/ Head(op.todo) \in {MkO, MkM, JSONWrite}
        \/ Head(op.todo) = JSONRename /\ FileHolds(JSONTmp, BucketMeta)
    <3> HIDE DEF MkO, MkM, JSONWrite, JSONRename
    <3> QED BY <1>2, TailsOfPut DEF Creating
  <2>2. Head(op.todo) = JSONRename /\ IsFile(JSONTmp)
    BY <2>1 DEF MkO, MkM, JSONWrite, MkdirAll, Write, FileHolds
  <2> QED BY <1>2, <2>2 DEF Creating, JSONRename, Rename
<1>3. CASE Setting
  <2>1. \/ Head(op.todo) = JSONWrite
        \/ Head(op.todo) = JSONRename /\ FileHolds(JSONTmp, BucketMeta)
    BY <1>3, TailsOfPut DEF Setting
  <2>2. Head(op.todo) = JSONRename /\ IsFile(JSONTmp)
    BY <2>1 DEF JSONWrite, Write, FileHolds
  <2> QED BY <1>3, <2>2 DEF Setting, JSONRename, Rename
<1>4. CASE Uploading
  <2>1. Head(op.todo) = MkdirAll(Upload)
    BY <1>4, TailsOfPut DEF Uploading
  <2> QED BY <2>1 DEF MkdirAll
<1>5. CASE Ending
  <2>1. op.todo \in Entries(OfUploads)
    BY <1>5 DEF Ending, Entries
  <2> QED BY <2>1, StackPop
<1>6. CASE Dropping
  <2>1. op.todo \in Entries(Path)
    BY <1>6 DEF Dropping, Entries
  <2> QED BY <2>1, StackPop
<1>7. ASSUME NEW k \in Key, Putting(k)
      PROVE  \E p \in {Temp(k), MetaTmp(k)} : op.key = k /\ Head(op.todo).from = p /\ IsFile(p)
  <2>1. PICK b \in Body :
          \/ Head(op.todo) \in {ObjDir(k), ObjWrite(k, b), MetaDir(k), MetaWrite(k, b)}
          \/ Head(op.todo) = ObjRename(k) /\ FileHolds(Temp(k), b)
          \/ Head(op.todo) = MetaRename(k) /\ FileHolds(MetaTmp(k), Described(b))
    BY <1>7, TailsOfPut DEF Putting
  <2>2. \/ Head(op.todo) = ObjRename(k) /\ IsFile(Temp(k))
        \/ Head(op.todo) = MetaRename(k) /\ IsFile(MetaTmp(k))
    BY <2>1 DEF ObjDir, ObjWrite, MetaDir, MetaWrite, MkdirAll, Write, FileHolds
  <2> QED BY <1>7, <2>2 DEF Putting, ObjRename, MetaRename, Rename
<1>8. ASSUME NEW k \in Key, Deleting(k) PROVE FALSE
  <2>1. Head(op.todo) \in {Unlink(objectPath(k)), Unlink(metaPath(k))}
    BY <1>8, TailsOfPut DEF Deleting
  <2> QED BY <2>1 DEF Unlink
<1> QED BY <1>1, <1>2, <1>3, <1>4, <1>5, <1>6, <1>7, <1>8 DEF OpInv

LEMMA ErrorKeeps ==
    ASSUME Inv, Error
    PROVE  Inv'
<1>1. /\ op.todo # <<>> /\ op' = NoOp /\ want' = want /\ crashes' = crashes
      /\ doubt' = doubt \cup ({op.key} \cap Key)
      /\ fs' = IF Head(op.todo).call = "rename" THEN Without({Head(op.todo).from}) ELSE fs
  BY DEF Error, Going, Call, Return
<1>2. Tree /\ OpInv /\ crashes' \in 0..MaxCrashes
  BY <1>1 DEF Inv, Histories
<1>3. CASE Head(op.todo).call # "rename"
  <2>1. Tree' /\ FilesKept({}) /\ (readBucket' <=> readBucket)
    BY <1>1, <1>2, <1>3, NothingChanged
  <2> QED BY <1>1, <1>2, <2>1, Ended
<1>4. ASSUME NEW p \in Path, IsFile(p), fs' = Without({p}), p # BucketJSON,
             \A k \in Key : k # op.key => objectPath(k) # p /\ metaPath(k) # p
      PROVE  Inv'
  <2>1. Tree' /\ FilesKept({p})
    BY <1>2, <1>4, FileChildless, WithoutTree
  <2>2. readBucket => readBucket'
    BY <1>4, <2>1, JSONKept
  <2> QED BY <1>1, <1>2, <1>4, <2>1, <2>2, Ended
<1>5. CASE /\ Head(op.todo).call = "rename"
           /\ op.key = None /\ Head(op.todo).from = JSONTmp /\ IsFile(JSONTmp)
  <2>1. fs' = Without({JSONTmp})
    BY <1>1, <1>5
  <2> QED BY <1>4, <1>5, <2>1, JSONPaths
<1>6. CASE /\ Head(op.todo).call = "rename"
           /\ \E k \in Key : \E p \in {Temp(k), MetaTmp(k)} :
                 op.key = k /\ Head(op.todo).from = p /\ IsFile(p)
  <2>1. PICK k \in Key : \E p \in {Temp(k), MetaTmp(k)} :
                 op.key = k /\ Head(op.todo).from = p /\ IsFile(p)
    BY <1>6
  <2>2. PICK p \in {Temp(k), MetaTmp(k)} :
                 op.key = k /\ Head(op.todo).from = p /\ IsFile(p)
    BY <2>1
  <2>3. p \in Own(k) /\ p \in Path /\ p # BucketJSON
    BY OwnPaths DEF Own
  <2>4. fs' = Without({p})
    BY <1>1, <1>6, <2>2
  <2>5. \A j \in Key : j # op.key => objectPath(j) # p /\ metaPath(j) # p
    BY <2>2, <2>3, PathsApart
  <2> QED BY <1>4, <2>2, <2>3, <2>4, <2>5
<1> QED BY <1>1, <1>2, <1>3, <1>5, <1>6, RenameCalls

(* What the operation that is answered has done. *)
LEMMA Finished ==
    ASSUME OpInv, op.do # "none", op.todo = <<>>
    PROVE  \/ op.do \in {"create", "cors", "upload", "end"} /\ op.key = None
           \/ Dropping /\ op.key = None /\ op.do = "drop" /\ DOMAIN fs = {}
           \/ \E k \in Key :
                 /\ op.do = "put" /\ op.key = k /\ readBucket
                 /\ \E b \in Body : /\ FileHolds(objectPath(k), b)
                                    /\ FileHolds(metaPath(k), Described(b))
           \/ \E k \in Key : op.do = "delete" /\ op.key = k /\ ~ IsFile(metaPath(k))
<1>1. op # NoOp
  BY DEF NoOp
<1>2. CASE Creating \/ Setting \/ Uploading \/ Ending
  BY <1>2 DEF Creating, Setting, Uploading, Ending
<1>3. CASE Dropping
  BY <1>3 DEF Dropping
<1>4. ASSUME NEW k \in Key, Putting(k)
      PROVE  /\ op.do = "put" /\ op.key = k /\ readBucket
             /\ \E b \in Body : FileHolds(objectPath(k), b) /\ FileHolds(metaPath(k), Described(b))
  BY <1>4 DEF Putting
<1>5. ASSUME NEW k \in Key, Deleting(k)
      PROVE  op.do = "delete" /\ op.key = k /\ ~ IsFile(metaPath(k))
  BY <1>5 DEF Deleting
<1> QED BY <1>1, <1>2, <1>3, <1>4, <1>5 DEF OpInv

LEMMA AnswerKeeps ==
    ASSUME Inv, Answer
    PROVE  Inv'
<1>1. /\ op.do # "none" /\ op.todo = <<>> /\ op' = NoOp /\ fs' = fs /\ crashes' = crashes
      /\ want' = [k \in Key |->
                  IF k = op.key
                  THEN IF op.do = "put" THEN fs[objectPath(k)] ELSE None
                  ELSE IF op.do = "drop" /\ (k \in doubt \/ TopDotted(k)) THEN None ELSE want[k]]
      /\ doubt' = IF op.do = "drop" THEN {} ELSE doubt \ {op.key}
  BY DEF Answer, Going, Return
<1>2. Tree' /\ OpInv'
  BY <1>1, NothingChanged DEF Inv, OpInv, OpShape, NoOp
<1>3. Kept /\ Gone /\ Histories /\ OpInv /\ None \notin Key /\ None \notin Body
  BY ContentAssumption DEF Inv
<1>4. \A p : IsFile(p)' <=> IsFile(p)
  BY <1>1 DEF IsFile, Exists
<1>5. \A p, v : FileHolds(p, v)' <=> FileHolds(p, v)
  BY <1>1, <1>4 DEF FileHolds
<1>6. readBucket' <=> readBucket
  BY <1>4 DEF readBucket
<1>7. ASSUME op.do # "drop",
             \A k \in Key : k = op.key =>
                 \/ want'[k] = None /\ ~ IsFile(metaPath(k))
                 \/ /\ readBucket /\ want'[k] \in Body
                    /\ FileHolds(objectPath(k), want'[k])
                    /\ FileHolds(metaPath(k), Described(want'[k]))
      PROVE  Inv'
  <2>1. \A k \in Key \ {op.key} : k \notin doubt' => k \notin doubt /\ want'[k] = want[k] /\ op.key # k
    BY <1>1, <1>7
  <2>2. ASSUME NEW k \in Key \ doubt', want'[k] # None, ~ TopDotted(k)
        PROVE  /\ readBucket' /\ FileHolds(objectPath(k), want'[k])
               /\ FileHolds(metaPath(k), Described(want'[k]))
    BY <1>3, <1>6, <1>7, <2>1, <2>2 DEF Kept
  <2>3. Kept'
    <3> SUFFICES ASSUME NEW k \in Key \ doubt', want'[k] # None, ~ TopDotted(k)
                 PROVE  /\ readBucket'
                        /\ (FileHolds(objectPath(k), want[k]))'
                        /\ (FileHolds(metaPath(k), Described(want[k])))'
      BY DEF Kept, TopDotted, Dotted
    <3>1. /\ readBucket' /\ FileHolds(objectPath(k), want'[k])
          /\ FileHolds(metaPath(k), Described(want'[k]))
      BY <2>2
    <3> QED BY <1>1, <3>1 DEF FileHolds, IsFile, Exists
  <2>4. Gone'
    BY <1>3, <1>4, <1>7, <2>1 DEF Gone
  <2>5. Histories'
    BY <1>1, <1>3, <1>7, <2>1 DEF Histories
  <2> QED BY <1>2, <2>3, <2>4, <2>5 DEF Inv
<1>8. CASE op.do \in {"create", "cors", "upload", "end"} /\ op.key = None
  BY <1>3, <1>7, <1>8
<1>9. CASE \E k \in Key : op.do = "delete" /\ op.key = k /\ ~ IsFile(metaPath(k))
  <2>1. PICK k \in Key : op.do = "delete" /\ op.key = k /\ ~ IsFile(metaPath(k))
    BY <1>9
  <2>2. want'[k] = None
    BY <1>1, <2>1
  <2> QED BY <1>7, <2>1, <2>2
<1>10. CASE \E k \in Key :
                 /\ op.do = "put" /\ op.key = k /\ readBucket
                 /\ \E b \in Body : /\ FileHolds(objectPath(k), b)
                                    /\ FileHolds(metaPath(k), Described(b))
  <2>1. PICK k \in Key : /\ op.do = "put" /\ op.key = k /\ readBucket
                         /\ \E b \in Body : /\ FileHolds(objectPath(k), b)
                                            /\ FileHolds(metaPath(k), Described(b))
    BY <1>10
  <2>2. PICK b \in Body : FileHolds(objectPath(k), b) /\ FileHolds(metaPath(k), Described(b))
    BY <2>1
  <2>3. want'[k] = b
    BY <1>1, <2>1, <2>2 DEF FileHolds
  <2>4. b # None
    BY <1>3
  <2> QED BY <1>7, <2>1, <2>2, <2>3, <2>4
<1>11. CASE Dropping /\ op.key = None /\ op.do = "drop" /\ DOMAIN fs = {}
  <2>1. \A k \in Key : want'[k] = IF k \in doubt \/ TopDotted(k) THEN None ELSE want[k]
    BY <1>1, <1>3, <1>11
  <2>2. \A k \in Key : want'[k] = None \/ TopDotted(k)
    BY <1>11, <2>1 DEF Dropping
  <2>3. Kept'
    BY <2>2 DEF Kept, TopDotted, Dotted
  <2>4. \A p : ~ IsFile(p)'
    BY <1>4, <1>11 DEF IsFile, Exists
  <2>5. Gone'
    BY <2>4 DEF Gone
  <2>6. Histories'
    BY <1>1, <1>3, <1>11, <2>1 DEF Histories
  <2> QED BY <1>2, <2>3, <2>5, <2>6 DEF Inv
<1> QED BY <1>1, <1>3, <1>8, <1>9, <1>10, <1>11, Finished

-------------------------------------------------------------------------------
(* The beginning of an operation. *)
LEMMA Started ==
    ASSUME Inv, NEW name, NEW key, NEW todo, Start(name, key, todo), OpInv'
    PROVE  Inv'
<1>1. /\ op = NoOp /\ fs' = fs /\ want' = want /\ doubt' = doubt /\ crashes' = crashes
  BY DEF Start, Idle
<1>2. Tree' /\ FilesKept({}) /\ (readBucket' <=> readBucket)
  BY <1>1, NothingChanged DEF Inv
<1>3. \A k \in Key : k \notin doubt' /\ op'.key # k => k \notin doubt /\ op.key # k
  BY <1>1, ContentAssumption DEF NoOp
<1>4. Kept' /\ Gone'
  BY <1>1, <1>2, <1>3, OthersKept
<1>5. Histories'
  BY <1>1 DEF Inv, Histories
<1> QED BY <1>2, <1>4, <1>5 DEF Inv

LEMMA StartFacts ==
    ASSUME NEW name, NEW key, NEW todo, Start(name, key, todo)
    PROVE  /\ OpShape' /\ op'.do = name /\ op'.key = key /\ op'.todo = todo
           /\ fs' = fs /\ want' = want /\ doubt' = doubt /\ (readBucket' <=> readBucket)
BY DEF Start, OpShape, readBucket, IsFile, Exists

LEMMA TodoLists ==
    \A c1, c2, c3, c4 : <<c1, c2>> \o <<c3, c4>> = <<c1, c2, c3, c4>>
<1> SUFFICES ASSUME NEW c1, NEW c2, NEW c3, NEW c4
             PROVE  <<c1, c2>> \o <<c3, c4>> = <<c1, c2, c3, c4>>
  OBVIOUS
<1> DEFINE S == {c1, c2, c3, c4}
           q == <<c1, c2>>
           r == <<c3, c4>>
           t == <<c1, c2, c3, c4>>
<1>1. /\ q \in Seq(S) /\ Len(q) = 2 /\ q[1] = c1 /\ q[2] = c2
      /\ r \in Seq(S) /\ Len(r) = 2 /\ r[1] = c3 /\ r[2] = c4
  OBVIOUS
<1>2. t \in Seq(S) /\ Len(t) = 4 /\ t[1] = c1 /\ t[2] = c2 /\ t[3] = c3 /\ t[4] = c4
  OBVIOUS
<1> HIDE DEF S, q, r, t
<1>3. /\ q \o r \in Seq(S) /\ Len(q \o r) = Len(q) + Len(r)
      /\ \A i \in 1..Len(q) + Len(r) : (q \o r)[i] = IF i <= Len(q) THEN q[i] ELSE r[i - Len(q)]
  BY <1>1, ConcatProperties
<1>4. Len(q) + Len(r) = 4 /\ \A i \in 1..4 : i = 1 \/ i = 2 \/ i = 3 \/ i = 4
  BY <1>1
<1>5. \A i \in 1..4 : (q \o r)[i] = t[i]
  BY <1>1, <1>2, <1>3, <1>4
<1>6. q \o r = t
  BY <1>2, <1>3, <1>4, <1>5, SeqEqual
<1> QED BY <1>6 DEF q, r, t

LEMMA TodoOfPut ==
    \A c1, c2, c3, c4, c5, c6 : <<c1, c2, c3, c4>> \o <<c5, c6>> = <<c1, c2, c3, c4, c5, c6>>
<1> SUFFICES ASSUME NEW c1, NEW c2, NEW c3, NEW c4, NEW c5, NEW c6
             PROVE  <<c1, c2, c3, c4>> \o <<c5, c6>> = <<c1, c2, c3, c4, c5, c6>>
  OBVIOUS
<1> DEFINE S == {c1, c2, c3, c4, c5, c6}
           q == <<c1, c2, c3, c4>>
           r == <<c5, c6>>
           t == <<c1, c2, c3, c4, c5, c6>>
<1>1. /\ q \in Seq(S) /\ Len(q) = 4 /\ q[1] = c1 /\ q[2] = c2 /\ q[3] = c3 /\ q[4] = c4
      /\ r \in Seq(S) /\ Len(r) = 2 /\ r[1] = c5 /\ r[2] = c6
  OBVIOUS
<1>2. /\ t \in Seq(S) /\ Len(t) = 6
      /\ t[1] = c1 /\ t[2] = c2 /\ t[3] = c3 /\ t[4] = c4 /\ t[5] = c5 /\ t[6] = c6
  OBVIOUS
<1> HIDE DEF S, q, r, t
<1>3. /\ q \o r \in Seq(S) /\ Len(q \o r) = Len(q) + Len(r)
      /\ \A i \in 1..Len(q) + Len(r) : (q \o r)[i] = IF i <= Len(q) THEN q[i] ELSE r[i - Len(q)]
  BY <1>1, ConcatProperties
<1>4. /\ Len(q) + Len(r) = 6
      /\ \A i \in 1..6 : i = 1 \/ i = 2 \/ i = 3 \/ i = 4 \/ i = 5 \/ i = 6
  BY <1>1
<1>5. \A i \in 1..6 : (q \o r)[i] = t[i]
  BY <1>1, <1>2, <1>3, <1>4
<1>6. q \o r = t
  BY <1>2, <1>3, <1>4, <1>5, SeqEqual
<1> QED BY <1>6 DEF q, r, t

LEMMA CreateBucketKeeps ==
    ASSUME Inv, CreateBucket
    PROVE  Inv'
<1> DEFINE todo == <<MkO, MkM>> \o writeJSON(BucketJSON, BucketMeta)
<1>1. Start("create", None, todo)
  BY DEF CreateBucket, MkO, MkM
<1>2. todo = <<MkO, MkM, JSONWrite, JSONRename>>
  BY TodoLists DEF writeJSON, JSONWrite, JSONRename, JSONTmp
<1> HIDE DEF todo
<1>3. OpShape' /\ op'.do = "create" /\ op'.key = None /\ op'.todo = todo
  BY <1>1, StartFacts
<1>4. Creating'
  BY <1>2, <1>3 DEF Creating
<1>5. OpInv'
  BY <1>3, <1>4 DEF OpInv
<1> QED BY <1>1, <1>5, Started

LEMMA SetCORSKeeps ==
    ASSUME Inv, SetCORS
    PROVE  Inv'
<1> DEFINE todo == writeJSON(BucketJSON, BucketMeta)
<1>1. Start("cors", None, todo) /\ readBucket
  BY DEF SetCORS
<1>2. todo = <<JSONWrite, JSONRename>>
  BY DEF writeJSON, JSONWrite, JSONRename, JSONTmp
<1> HIDE DEF todo
<1>3. OpShape' /\ op'.do = "cors" /\ op'.key = None /\ op'.todo = todo /\ readBucket'
  BY <1>1, StartFacts
<1>4. Setting'
  BY <1>2, <1>3 DEF Setting
<1>5. OpInv'
  BY <1>3, <1>4 DEF OpInv
<1> QED BY <1>1, <1>5, Started

LEMMA PutObjectKeeps ==
    ASSUME Inv, NEW k \in Key, NEW b \in Body, PutObject(k, b)
    PROVE  Inv'
<1> DEFINE todo == <<ObjDir(k), ObjWrite(k, b), ObjRename(k), MetaDir(k)>>
                       \o writeJSON(metaPath(k), Described(b))
<1>1. Start("put", k, todo) /\ readBucket
  BY DEF PutObject, ObjDir, ObjWrite, ObjRename, MetaDir, Temp
<1>2. writeJSON(metaPath(k), Described(b)) = <<MetaWrite(k, b), MetaRename(k)>>
  BY DEF writeJSON, MetaWrite, MetaRename, MetaTmp
<1>3. todo = <<ObjDir(k), ObjWrite(k, b), ObjRename(k), MetaDir(k), MetaWrite(k, b), MetaRename(k)>>
  <2> HIDE DEF ObjDir, ObjWrite, ObjRename, MetaDir, MetaWrite, MetaRename
  <2> QED BY <1>2, TodoOfPut
<1> HIDE DEF todo
<1>4. OpShape' /\ op'.do = "put" /\ op'.key = k /\ op'.todo = todo /\ readBucket'
  BY <1>1, StartFacts
<1>5. Putting(k)'
  BY <1>3, <1>4 DEF Putting
<1>6. OpInv'
  BY <1>4, <1>5 DEF OpInv
<1> QED BY <1>1, <1>6, Started

LEMMA DeleteObjectKeeps ==
    ASSUME Inv, NEW k \in Key, DeleteObject(k)
    PROVE  Inv'
<1> DEFINE todo == <<Unlink(objectPath(k)), Unlink(metaPath(k))>>
<1>1. Start("delete", k, todo) /\ readBucket
  BY DEF DeleteObject
<1> HIDE DEF todo
<1>2. OpShape' /\ op'.do = "delete" /\ op'.key = k /\ op'.todo = todo /\ readBucket'
  BY <1>1, StartFacts
<1>3. Deleting(k)'
  BY <1>2 DEF Deleting, todo
<1>4. OpInv'
  BY <1>2, <1>3 DEF OpInv
<1> QED BY <1>1, <1>4, Started

LEMMA UploadsKeep ==
    ASSUME Inv, CreateUpload \/ EndUpload
    PROVE  Inv'
<1>1. CASE CreateUpload
  <2>1. Start("upload", None, <<MkdirAll(Upload)>>)
    BY <1>1 DEF CreateUpload
  <2>2. OpShape' /\ op'.do = "upload" /\ op'.key = None /\ op'.todo = <<MkdirAll(Upload)>>
    BY <2>1, StartFacts
  <2>3. OpInv'
    BY <2>2 DEF OpInv, Uploading
  <2> QED BY <2>1, <2>3, Started
<1>2. CASE EndUpload
  <2>1. Start("end", None, <<RemoveAll(Upload)>>)
    BY <1>2 DEF EndUpload
  <2>2. OpShape' /\ op'.do = "end" /\ op'.key = None /\ op'.todo = <<RemoveAll(Upload)>>
    BY <2>1, StartFacts
  <2>3. <<RemoveAll(Upload)>> \in Seq([call : {"removeall"}, at : OfUploads])
    BY TopFacts DEF RemoveAll
  <2>4. OpInv'
    BY <2>2, <2>3 DEF OpInv, Ending
  <2> QED BY <2>1, <2>4, Started
<1> QED BY <1>1, <1>2

(* An object's key begins with a dot when its name below o/, or the          *)
(* directory of its name there, does.                                        *)
LEMMA TopNames ==
    ASSUME Tree, NEW k \in Key, Exists(objectPath(k)), dirEmpty(<< <<"o">> >>)
    PROVE  TopDotted(k)
<1> DEFINE p == objectPath(k)
           x == SubSeq(p, 1, 2)
<1>1. /\ p \in DOMAIN fs /\ p \in Path /\ Len(p) = Len(k) + 1 /\ Len(k) \in Nat \ {0}
      /\ p[1] = <<"o">> /\ p[Len(k) + 1] = Append(k[Len(k)], ".obj")
      /\ \A i \in 2..Len(k) : p[i] = k[i - 1]
      /\ \A i \in 1..Len(k) : k[i] \in Name
  BY ObjectPathFacts, KeyNames DEF OneFile, Exists
<1> HIDE DEF p
<1>2. 2 \in 0..Len(p)
  BY <1>1
<1>3. x \in DOMAIN fs
  BY <1>1, <1>2, Ancestors
<1>4. Len(x) = 2 /\ x[1] = p[1] /\ x[2] = p[2]
  <2>1. 1 \in Int /\ 2 \in Int /\ \A i \in 1..2 : p[i] \in Name
    BY <1>1, <1>2 DEF Path
  <2>2. /\ Len(SubSeq(p, 1, 2)) = IF 1 <= 2 THEN 2 - 1 + 1 ELSE 0
        /\ \A i \in 1..(2 - 1 + 1) : SubSeq(p, 1, 2)[i] = p[1 + i - 1]
    BY <2>1, SubSeqProperties
  <2>3. SubSeq(p, 1, 2)[1] = p[1 + 1 - 1] /\ SubSeq(p, 1, 2)[2] = p[1 + 2 - 1]
    BY <2>2
  <2> QED BY <2>2, <2>3
<1> HIDE DEF x
<1>5. x \in Path /\ x # <<>>
  <2>1. x \in Path
    BY <1>3 DEF Tree
  <2>2. Len(x) # 0
    BY <1>4
  <2> QED BY <2>1, <2>2 DEF Path
<1>6. Front(x) = << <<"o">> >> /\ Last(x) = p[2]
  <2>1. /\ Front(x) \in Path /\ Len(Front(x)) = Len(x) - 1 /\ Last(x) = x[Len(x)]
        /\ \A i \in 1..(Len(x) - 1) : Front(x)[i] = x[i]
    BY <1>5, FrontFacts
  <2>2. Len(Front(x)) = 1 /\ Front(x)[1] = p[1] /\ Last(x) = x[2]
    BY <1>4, <2>1
  <2> QED BY <1>1, <1>4, <2>1, <2>2 DEF Path
<1>7. p[2][1] = k[1][1]
  <2>1. CASE Len(k) = 1
    <3>1. p[2] = Append(k[1], ".obj") /\ k[1] \in Name /\ ".obj" \in Piece
      BY <1>1, <2>1, KeyAssumption
    <3> QED BY <3>1, NameWithSuffix
  <2>2. CASE Len(k) # 1
    <3>1. 2 \in 2..Len(k)
      <4>1. Len(k) \in Nat /\ Len(k) # 0 /\ Len(k) # 1
        BY <1>1, <2>2
      <4> DEFINE n == Len(k)
      <4> HIDE DEF n
      <4>2. n \in Nat /\ n # 0 /\ n # 1 => 2 \in 2..n
        OBVIOUS
      <4> QED BY <4>1, <4>2 DEF n
    <3>2. p[2] = k[2 - 1]
      BY <1>1, <3>1
    <3> QED BY <3>2
  <2> QED BY <2>1, <2>2
<1>8. x \in Children(<< <<"o">> >>)
  BY <1>3, <1>5, <1>6 DEF Children
<1>9. Dotted(Last(x))
  BY <1>8 DEF dirEmpty
<1> QED BY <1>6, <1>7, <1>9 DEF Dotted, TopDotted

LEMMA DeleteBucketKeeps ==
    ASSUME Inv, DeleteBucket
    PROVE  Inv'
<1>1. Start("drop", None, <<RemoveAll(<<>>)>>) /\ dirEmpty(<< <<"o">> >>) /\ op = NoOp
  BY DEF DeleteBucket, Deletable, Start, Idle
<1>2. /\ OpShape' /\ op'.do = "drop" /\ op'.key = None /\ op'.todo = <<RemoveAll(<<>>)>>
      /\ want' = want /\ doubt' = doubt
  BY <1>1, StartFacts
<1>3. ASSUME NEW k \in Key \ doubt, want[k] # None PROVE TopDotted(k)
  <2> SUFFICES ASSUME ~ TopDotted(k) PROVE FALSE
    OBVIOUS
  <2>1. op.key # k
    BY <1>1, ContentAssumption DEF NoOp
  <2>2. Exists(objectPath(k))
    BY <1>3, <2>1 DEF Inv, Kept, FileHolds, IsFile
  <2> QED BY <1>1, <2>2, TopNames DEF Inv
<1>4. <<RemoveAll(<<>>)>> \in Seq([call : {"removeall"}, at : Path])
  <2>1. RemoveAll(<<>>) \in [call : {"removeall"}, at : Path]
    BY DEF RemoveAll, Path
  <2> QED BY <2>1
<1>5. /\ op'.todo # <<>> => op'.todo[Len(op'.todo)] = RemoveAll(<<>>)
      /\ op'.todo # <<>>
  BY <1>2
<1>6. Dropping'
  BY <1>2, <1>3, <1>4, <1>5 DEF Dropping, TopDotted, Dotted, RemoveAll
<1>7. OpInv'
  BY <1>2, <1>6 DEF OpInv
<1> QED BY <1>1, <1>7, Started

-------------------------------------------------------------------------------
LEMMA InitInv == Init => Inv
<1> SUFFICES ASSUME Init PROVE Inv
  OBVIOUS
<1>1. Tree
  BY DEF Init, Tree
<1>2. OpInv
  BY DEF Init, OpInv, OpShape, NoOp
<1>3. Kept
  BY DEF Init, Kept
<1>4. Gone
  BY DEF Init, Gone, IsFile, Exists
<1>5. Histories
  BY CrashAssumption DEF Init, Histories
<1> QED BY <1>1, <1>2, <1>3, <1>4, <1>5 DEF Inv

(* Only an operation that has calls to make makes one, and only the calls of *)
(* os.RemoveAll are made of steps.                                           *)
LEMMA CallKeeps ==
    ASSUME Inv, Step
    PROVE  Inv'
<1>1. op.todo # <<>> /\ Head(op.todo).call # "removeall"
  BY DEF Step, Going, Call
<1>2. op # NoOp
  BY <1>1 DEF NoOp
<1>3. ~ Ending
  <2>1. ASSUME Ending PROVE op.todo \in Entries(OfUploads)
    BY <2>1 DEF Ending, Entries
  <2> QED BY <1>1, <2>1, StackPop
<1>4. ~ Dropping
  <2>1. ASSUME Dropping PROVE op.todo \in Entries(Path)
    BY <2>1 DEF Dropping, Entries
  <2> QED BY <1>1, <2>1, StackPop
<1> QED BY <1>2, <1>3, <1>4, CreateStep, SettingStep, UploadStep, PutStep, DeleteStep DEF Inv, OpInv

LEMMA RemoveKeeps ==
    ASSUME Inv, RemoveStep
    PROVE  Inv'
<1>1. op.todo # <<>> /\ Head(op.todo).call = "removeall"
  BY DEF RemoveStep, Going, Call
<1>2. op # NoOp
  BY <1>1 DEF NoOp
<1>3. ~ Creating /\ ~ Setting /\ ~ Uploading
  <2>1. ASSUME Creating
        PROVE  Head(op.todo) \in {MkO, MkM, JSONWrite, JSONRename}
    <3> HIDE DEF MkO, MkM, JSONWrite, JSONRename
    <3> QED BY <1>1, <2>1, TailsOfPut DEF Creating
  <2>2. ASSUME Setting PROVE Head(op.todo) \in {JSONWrite, JSONRename}
    BY <1>1, <2>2, TailsOfPut DEF Setting
  <2>3. ASSUME Uploading PROVE Head(op.todo) = MkdirAll(Upload)
    BY <1>1, <2>3, TailsOfPut DEF Uploading
  <2>4. \A c \in {MkO, MkM, JSONWrite, JSONRename, MkdirAll(Upload)} : c.call # "removeall"
    BY DEF MkO, MkM, JSONWrite, JSONRename, MkdirAll, Write, Rename
  <2> QED BY <1>1, <2>1, <2>2, <2>3, <2>4
<1>4. ASSUME NEW k \in Key PROVE ~ Putting(k) /\ ~ Deleting(k)
  <2>1. ASSUME Putting(k)
        PROVE  \E b \in Body : Head(op.todo) \in {ObjDir(k), ObjWrite(k, b), ObjRename(k),
                                                  MetaDir(k), MetaWrite(k, b), MetaRename(k)}
    BY <1>1, <2>1, TailsOfPut DEF Putting
  <2>2. ASSUME Deleting(k)
        PROVE  Head(op.todo) \in {Unlink(objectPath(k)), Unlink(metaPath(k))}
    BY <1>1, <2>2, TailsOfPut DEF Deleting
  <2>3. \A b : \A c \in {ObjDir(k), ObjWrite(k, b), ObjRename(k), MetaDir(k), MetaWrite(k, b),
                         MetaRename(k), Unlink(objectPath(k)), Unlink(metaPath(k))} :
           c.call # "removeall"
    BY DEF ObjDir, ObjWrite, ObjRename, MetaDir, MetaWrite, MetaRename, MkdirAll, Write, Rename, Unlink
  <2> QED BY <1>1, <2>1, <2>2, <2>3
<1> QED BY <1>2, <1>3, <1>4, EndStep, DropStep DEF Inv, OpInv

LEMMA IgnoredKeeps ==
    ASSUME Inv, IgnoredError
    PROVE  Inv'
<1>1. op.do = "delete"
  BY DEF IgnoredError
<1>2. \E k \in Key : Deleting(k)
  BY <1>1 DEF Inv, OpInv, NoOp, Creating, Setting, Uploading, Ending, Dropping, Putting
<1> QED BY <1>2, DeleteStep

LEMMA NextInv == Inv /\ [Next]_vars => Inv'
<1> SUFFICES ASSUME Inv, [Next]_vars PROVE Inv'
  OBVIOUS
<1>1. CASE UNCHANGED vars
  BY <1>1 DEF vars, Inv, Tree, Fits, OpInv, OpShape, Creating, Setting, Uploading, Ending, Dropping,
              Putting, Deleting, Kept, Gone, Histories, FileHolds, readBucket, IsFile, IsDir, Exists,
              TopDotted, Dotted
<1>2. CASE Next
  BY <1>2, CreateBucketKeeps, DeleteBucketKeeps, SetCORSKeeps, PutObjectKeeps, DeleteObjectKeeps,
     UploadsKeep, CallKeeps, IgnoredKeeps, ErrorKeeps, RemoveKeeps, AnswerKeeps, CrashKeeps DEF Next
<1> QED BY <1>1, <1>2

LEMMA SpecInv == Spec => []Inv
BY InitInv, NextInv, PTL DEF Spec

-------------------------------------------------------------------------------
(* TypeOK: what CreateBucket, PutObject, DeleteObject, the uploads and      *)
(* os.RemoveAll leave on disk, between any two system calls and after a      *)
(* crash at any of them, is a tree of directories whose files hold what      *)
(* belongs under o/, m/ and at the top.                                      *)
THEOREM TypesKept == Spec => []TypeOK
<1>1. Inv => TypeOK
  <2> SUFFICES ASSUME Inv PROVE TypeOK
    OBVIOUS
  <2>1. \A p \in DOMAIN fs : p = <<>> \/ IsDir(Front(p))
    BY DEF Inv, Tree
  <2>2. \A p \in DOMAIN fs : IsFile(p) =>
          fs[p] \in CASE p[1] = << "o" >> -> Body
                     [] p[1] = << "m" >> -> {Described(b) : b \in Body}
                     [] OTHER -> {BucketMeta}
    BY DEF Inv, Tree, Fits
  <2>3. Histories
    BY DEF Inv
  <2> QED BY <2>1, <2>2, <2>3 DEF TypeOK, Histories
<1> QED BY <1>1, SpecInv, PTL

(* AckedObjectsKept: an object that PutObject has answered for can be read   *)
(* with its bytes and its metadata until a call on the same key, or a        *)
(* DeleteBucket of a bucket that may lose it, answers; whatever keys there   *)
(* are, their paths never meet.                                              *)
THEOREM ObjectsKept == Spec => []AckedObjectsKept
<1>1. Inv => AckedObjectsKept
  <2> SUFFICES ASSUME Inv, NEW k \in Key \ doubt, want[k] # None, ~ TopDotted(k), op.key # k
               PROVE  GetOf(k) = want[k] /\ HeadOf(k) = Described(want[k])
    BY DEF AckedObjectsKept
  <2>1. /\ readBucket
        /\ FileHolds(objectPath(k), want[k]) /\ FileHolds(metaPath(k), Described(want[k]))
    BY DEF Inv, Kept
  <2>2. HeadOf(k) = Described(want[k])
    BY <2>1 DEF HeadOf, FileHolds
  <2>3. Described(want[k]) # None
    <3>1. want[k] \in Body
      BY DEF Inv, Histories
    <3> QED BY <3>1, ContentAssumption
  <2>4. GetOf(k) = want[k]
    BY <2>1, <2>2, <2>3 DEF GetOf, FileHolds
  <2> QED BY <2>2, <2>4
<1> QED BY <1>1, SpecInv, PTL

(* DeletedStaysGone: a key that DeleteObject or DeleteBucket has answered    *)
(* for, or that was never stored, has no metadata, so that no HeadObject     *)
(* finds it, in this bucket or in one created again under its name.          *)
THEOREM DeletedGone == Spec => []DeletedStaysGone
<1>1. Inv => DeletedStaysGone
  BY DEF Inv, Gone, DeletedStaysGone, HeadOf
<1> QED BY <1>1, SpecInv, PTL
================================================================================
