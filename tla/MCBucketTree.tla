----------------------------- MODULE MCBucketTree -----------------------------
(* BucketTree for TLC.  The keys are chosen for the ways in which their      *)
(* paths meet: "a" and "d/b" lie apart, "a.obj/b" puts a directory where the *)
(* bytes of "a" go, "a.json.tmp/b" one where its metadata are first written, *)
(* and ".e" has a name that dirEmpty does not see.                           *)
EXTENDS BucketTree

Pieces == {"a", "b", "d", ".e", "o", "m", "u", "id", "bucket", ".obj", ".json", ".tmp", ".up"}

A == << <<"a">> >>
DB == << <<"d">>, <<"b">> >>
AObjB == << <<"a", ".obj">>, <<"b">> >>
AJsonB == << <<"a", ".json">>, <<"b">> >>
AJsonTmpB == << <<"a", ".json", ".tmp">>, <<"b">> >>
DotE == << <<".e">> >>

MCKeys == {A, AObjB, AJsonB, DotE}
TidyKeys == {A, DotE, DB} \* "a", ".e", "d/b"
MeetingKeys == {A, AJsonTmpB}

Dots == {".e", ".up"}
===============================================================================
