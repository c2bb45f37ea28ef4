---------------------------- MODULE MCContainers ----------------------------
(***************************************************************************)
(* Vector with indices up to four, so that it doubles once and twice in a  *)
(* call, and NULL among what is put into it; LinkList with four nodes and  *)
(* elements some of which are equal.  They share nothing: one of them is   *)
(* used, the other stays as it was made.                                   *)
(***************************************************************************)
EXTENDS Containers

CONSTANTS a, b

MCIndex  == 0 .. 4
MCValues == {a, b}
WithNull == {a, b, Null}

VARIABLE part
array == <<alloced, max, index>>
list  == <<head, tail, count, cmp, next, prev, data, used>>

MCInit == Vec!Init /\ List!Init /\ part \in {"vector", "list"}

MCNext ==
    /\ \/ part = "vector" /\ Vec!Next /\ UNCHANGED list
       \/ part = "list" /\ List!Next /\ UNCHANGED array
    /\ UNCHANGED part

MCSpec == MCInit /\ [][MCNext]_<<array, list, part>>
=============================================================================
