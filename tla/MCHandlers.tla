------------------------------ MODULE MCHandlers -------------------------------
(* Handlers for TLC, on the keys "d/a" and "d/b", which share a common        *)
(* prefix, and "e".  The conditional calls are on "d/a"; copies of it go to   *)
(* "e" and onto itself.                                                       *)
EXTENDS Handlers

DA == <<4, 1>>
DB == <<4, 2>>
E == <<5>>

Keys == {DA, DB, E}

CONSTANTS x, y

Conditions == {[match |-> {x}, none |-> {}], [match |-> {Star}, none |-> {}],
               [match |-> {}, none |-> {Star}], [match |-> {}, none |-> {x}]}

Call(op, k, s, b, c) ==
    [op |-> op, key |-> k, src |-> s, body |-> b, match |-> c.match, none |-> c.none]

MCCalls ==
    {Call("put", DA, DA, y, c) : c \in Conditions}
    \cup {Call("delete", DA, DA, y, c) : c \in {d \in Conditions : d.match # {}}}
    \cup {Call("copy", k, DA, y, c) :
              k \in {DA, E}, c \in {d \in Conditions : Star \notin d.match \cup d.none}}

(* Flat and with common prefixes, of everything and of "d/", from the         *)
(* beginning and from a key inside a common prefix, with pages of 0, 1 and 2. *)
Queries == [prefix : {<<>>, <<4>>}, delim : BOOLEAN, start : {<<>>, DA}, max : {0, 1, 2}]
===============================================================================
