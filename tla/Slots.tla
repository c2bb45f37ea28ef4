------------------------------- MODULE Slots -------------------------------
(***************************************************************************)
(* What a vector is to its users: slots with an index, each empty or with  *)
(* a value, as many as anyone asks for.  Vector implements it with an      *)
(* array that grows (ImplementsSlots there).                               *)
(***************************************************************************)
EXTENDS Naturals

CONSTANTS Index, Values, Null, ByIndex   \* ByIndex: users choose slots for values

VARIABLE slots

Init == slots = [i \in Index |-> Null]

(* vector_set: the first empty slot. *)
Set(v) ==
    \E i \in Index :
        /\ slots[i] = Null /\ \A j \in Index : j < i => slots[j] # Null
        /\ slots' = [slots EXCEPT ![i] = v]

(* vector_set_index, vector_unset. *)
Put(i, v) == slots' = [slots EXCEPT ![i] = v]

Next ==
    \E v \in Values \cup {Null} :
        \/ Set(v)
        \/ (v = Null \/ ByIndex) /\ \E i \in Index : Put(i, v)

Spec == Init /\ [][Next]_slots
=============================================================================
