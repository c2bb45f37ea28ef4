------------------------------- MODULE Vector -------------------------------
(***************************************************************************)
(* The growing arrays of vector.c, in which the matcher keeps the words of *)
(* a line, the nodes and their commands, and the configuration its         *)
(* sections.  alloced doubles when an index runs short; max is one more    *)
(* than the last slot in use, and the loops of all users go up to it.      *)
(*                                                                         *)
(* vector_set puts its value into the smallest empty slot, and a value may *)
(* be NULL: vector_set (vline, '\0') stands for the word after a blank.    *)
(*                                                                         *)
(* Sources: src/vector.c, src/vector.h.                                    *)
(***************************************************************************)
EXTENDS Naturals

CONSTANTS
    Index,     \* the indices that are used (a bound)
    Values,    \* the pointers put into slots
    Null,      \* the NULL pointer
    Puts,      \* what users put: Values, or Values and NULL
    ByIndex,   \* whether users call vector_set_index
    Size       \* the argument of vector_init

(* Indices without gaps, and NULL is not a value. *)
VectorAssumption ==
    /\ Index \subseteq Nat /\ \A i \in Index : 0 .. i \subseteq Index
    /\ Null \notin Values /\ Puts \subseteq Values \cup {Null}
    /\ Size \in Nat /\ ByIndex \in BOOLEAN

VARIABLES
    alloced,   \* the slots that are allocated
    max,       \* ... and in use
    index      \* their contents

vars == <<alloced, max, index>>

Init ==
    /\ alloced = IF Size = 0 THEN 1 ELSE Size
    /\ max = 0
    /\ index = [i \in 0 .. alloced - 1 |-> Null]

(* vector_ensure: doubled, and doubled again, until it is more than n.     *)
(* Slip: doubled until it is n. *)
GrownToNum(n) ==
    {m \in alloced .. alloced + 2 * n :
        /\ m >= n /\ \E k \in 0 .. n : m = alloced * 2 ^ k
        /\ \A l \in alloced .. m - 1 : l < n \/ \A k \in 0 .. n : l # alloced * 2 ^ k}
Grown(n) ==
    {m \in alloced .. alloced + 2 * n :
        /\ m > n /\ \E k \in 0 .. n : m = alloced * 2 ^ k
        /\ \A l \in alloced .. m - 1 : l <= n \/ \A k \in 0 .. n : l # alloced * 2 ^ k}

(* The array after vector_ensure to m slots: the new ones are zero.        *)
(* Slip: the old ones are not copied (ImplementsSlots). *)
ExtendedEmpty(m) == [i \in 0 .. m - 1 |-> Null]
Extended(m) == [i \in 0 .. m - 1 |-> IF i < alloced THEN index[i] ELSE Null]

(* vector_empty_slot *)
(* Slip: the slot after the last one in use (SetTakesFirst). *)
EmptyAfterLast(i) == i = max
Empty(i) ==
    /\ i <= max /\ (i < max => index[i] = Null)
    /\ \A j \in 0 .. i - 1 : index[j] # Null

(* vector_set_index *)
PutAt(i, v) ==
    /\ alloced' \in Grown(i)
    /\ index' = [Extended(alloced') EXCEPT ![i] = v]
    /\ max' = IF max <= i THEN i + 1 ELSE max

SetIndex(i, v) == ByIndex /\ PutAt(i, v)

Set(v) == \E i \in Index : Empty(i) /\ PutAt(i, v)

(* vector_lookup_ensure and vector_ensure; vector_lookup changes nothing.  *)
Ensure(i) ==
    /\ alloced' \in Grown(i)
    /\ index' = Extended(alloced') /\ UNCHANGED max

(* vector_unset: when the last slot in use is emptied, max goes down over  *)
(* the empty ones before it.                                               *)
(* Slip: only by one (TrimsToValue). *)
TrimOne(i) == {i}
Trim(i) ==
    {j \in 0 .. i : /\ j = 0 \/ index[j - 1] # Null
                    /\ \A l \in j .. i - 1 : index[l] = Null}

Unset(i) ==
    /\ i < alloced
    /\ index' = [index EXCEPT ![i] = Null]
    /\ IF i + 1 = max THEN max' \in Trim(i) ELSE UNCHANGED max
    /\ UNCHANGED alloced

Next ==
    \/ \E v \in Puts : Set(v)
    \/ \E i \in Index : (\E v \in Puts : SetIndex(i, v)) \/ Ensure(i) \/ Unset(i)

Spec == Init /\ [][Next]_vars

-----------------------------------------------------------------------------
(* Properties *)

(* The array has alloced slots, each empty or with a value. *)
TypeOK ==
    /\ alloced \in Nat \ {0} /\ max \in Nat
    /\ index \in [0 .. alloced - 1 -> Values \cup {Null}]

(* No loop up to max leaves the array, and none misses a value: max is     *)
(* within what is allocated and nothing is beyond it.                      *)
NothingBeyond ==
    /\ max <= alloced
    /\ \A i \in 0 .. alloced - 1 : i >= max => index[i] = Null

(* Together: the loops of vector.c and of its users stay in bounds.        *)
InBounds == TypeOK /\ NothingBeyond

(* Where NULL is not put into slots, the last slot in use holds a value    *)
(* after any sequence of calls.                                            *)
Trimmed == max > 0 => index[max - 1] # Null

(* Users of a vector walk up to max: when it goes down, it goes down to a  *)
(* value, whatever was put and emptied before, NULL included.              *)
TrimsToValue == [][max' < max => max' = 0 \/ index'[max' - 1] # Null]_vars

(* Growing, max and trimming are invisible: the vector is slots.           *)
S == INSTANCE Slots WITH slots <- [i \in Index |-> IF i < alloced THEN index[i] ELSE Null]
ImplementsSlots == S!Spec

(* vector_set takes the first empty slot of all, wherever max and alloced  *)
(* are: the words of a line are found again in the order they were put.    *)
SetTakesFirst == [][\A v \in Puts : Set(v) => S!Set(v)]_vars
=============================================================================
