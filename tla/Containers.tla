----------------------------- MODULE Containers -----------------------------
(***************************************************************************)
(* The two containers of mksh side by side: a struct _vector and a struct  *)
(* list.  They share no state.                                             *)
(***************************************************************************)
EXTENDS Integers

CONSTANTS
    Null,                                     \* the NULL pointer
    Index, Values, Puts, ByIndex, Size,       \* of the vector
    Nodes, Data, MaxUncounted                 \* of the list
VARIABLES
    alloced, max, index,                      \* struct _vector
    head, tail, count, cmp, next, prev, data, used
Vec  == INSTANCE Vector
List == INSTANCE LinkList

ASSUME ContainersAssumption == Vec!VectorAssumption /\ List!ListAssumption

(* The properties of Vector, of this vector. *)
InBounds        == Vec!InBounds
TrimsToValue    == Vec!TrimsToValue
ImplementsSlots == Vec!ImplementsSlots
SetTakesFirst   == Vec!SetTakesFirst

(* The properties of LinkList, of this list. *)
WellFormed    == List!WellFormed
CountFollows  == List!CountFollows
ImplementsSeq == List!ImplementsSeq
=============================================================================
