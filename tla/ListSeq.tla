------------------------------ MODULE ListSeq ------------------------------
(***************************************************************************)
(* What a struct list is to its users: a sequence of data, in the order    *)
(* they were put, or sorted when the list has an order.  LinkList          *)
(* implements it with nodes and pointers (ImplementsSeq there).            *)
(***************************************************************************)
EXTENDS Integers, Sequences, SequencesExt

CONSTANT Data      \* ordered as numbers

VARIABLES seq,
          sorted   \* list->cmp is set, and listnode_add is the only way in

Init == seq = <<>> /\ sorted \in BOOLEAN

(* In a sorted list before the first that is greater. *)
Insert(v) ==
    \E i \in 1 .. Len(seq) + 1 :
        /\ sorted => (\A j \in 1 .. i - 1 : seq[j] <= v) /\ (i <= Len(seq) => v < seq[i])
        /\ seq' = InsertAt(seq, i, v)

Delete == \E i \in DOMAIN seq : seq' = RemoveAt(seq, i)

Clear == seq' = <<>>

Next == ((\E v \in Data : Insert(v)) \/ Delete \/ Clear) /\ UNCHANGED sorted

Spec == Init /\ [][Next]_<<seq, sorted>>
=============================================================================
