------------------------------ MODULE LinkList ------------------------------
(***************************************************************************)
(* The doubly linked lists of linklist.c, pointer by pointer: what the     *)
(* versions, the projects and the lines of a configuration are kept in.    *)
(* One list; its nodes come from malloc and go back to free.               *)
(*                                                                         *)
(* Data are numbers, compared as list->cmp compares strings; two elements  *)
(* may be equal.                                                           *)
(*                                                                         *)
(* Sources: src/linklist.c, src/linklist.h.                                *)
(***************************************************************************)
EXTENDS Integers, Sequences, FiniteSets, SequencesExt

CONSTANTS
    Nodes,     \* the addresses malloc gives (a bound)
    Data,      \* what the nodes hold
    MaxUncounted,  \* bound of the nodes that are not counted
    Null

(* malloc has so many nodes, and no node and no element is NULL. *)
ListAssumption ==
    IsFiniteSet(Nodes) /\ Data \subseteq Int /\ Null \notin Nodes \cup Data

VARIABLES
    head, tail, count,   \* struct list
    cmp,                 \* list->cmp is set, by the creator of the list
    next, prev, data,    \* struct listnode
    used                 \* the nodes that are allocated

vars == <<head, tail, count, next, prev, data, used>>

Init ==
    /\ cmp \in BOOLEAN
    /\ head = Null /\ tail = Null /\ count = 0 /\ used = {}
    /\ next = [n \in Nodes |-> Null] /\ prev = [n \in Nodes |-> Null]
    /\ data = [n \in Nodes |-> Null]

(* The nodes from the head on, as LIST_LOOP visits them; a chain that is   *)
(* longer than there are nodes does not end.                               *)
Chain ==
    LET after == [n \in Nodes \cup {Null} |-> IF n = Null THEN Null ELSE next[n]]
        most  == 1 .. Cardinality(Nodes) + 1
        at[k \in most] == IF k = 1 THEN head ELSE after[at[k - 1]]
    IN [k \in 1 .. Cardinality({i \in most : at[i] # Null}) |-> at[k]]

(* f with the value v at p, if p is not NULL. *)
Put(f, p, v) == IF p = Null THEN f ELSE [f EXCEPT ![p] = v]

-----------------------------------------------------------------------------
(* Adding *)

(* listnode_new, and the new node n between p and q. *)
(* Slip: the node after it still points back past it (WellFormed). *)
LinkForward(n, p, q, v) ==
    /\ used' = used \cup {n} /\ data' = [data EXCEPT ![n] = v]
    /\ next' = Put([next EXCEPT ![n] = q], p, n)
    /\ prev' = [prev EXCEPT ![n] = p]
    /\ head' = IF p = Null THEN n ELSE head
    /\ tail' = IF q = Null THEN n ELSE tail
Link(n, p, q, v) ==
    /\ used' = used \cup {n} /\ data' = [data EXCEPT ![n] = v]
    /\ next' = Put([next EXCEPT ![n] = q], p, n)
    /\ prev' = Put([prev EXCEPT ![n] = p], q, n)
    /\ head' = IF p = Null THEN n ELSE head
    /\ tail' = IF q = Null THEN n ELSE tail

(* listnode_add_sort: before the first that is greater, or at the end.     *)
(* Slip: before the first that is less. *)
PlaceBeforeLess(v) ==
    LET greater == {i \in DOMAIN Chain : cmp /\ v > data[Chain[i]]}
    IN IF greater = {} THEN Null ELSE Chain[CHOOSE i \in greater : \A j \in greater : i <= j]
Place(v) ==
    LET greater == {i \in DOMAIN Chain : cmp /\ v < data[Chain[i]]}
    IN IF greater = {} THEN Null ELSE Chain[CHOOSE i \in greater : \A j \in greater : i <= j]

AddSort(n, v) ==
    /\ Link(n, IF Place(v) = Null THEN tail ELSE prev[Place(v)], Place(v), v)
    /\ count' = count + 1

AddOld(n, v) == Link(n, tail, Null, v) /\ count' = count + 1

(* p may be NULL: at the head.  It does not count. *)
AddAfter(n, p, v) ==
    /\ Len(Chain) - count < MaxUncounted
    /\ Link(n, p, IF p = Null THEN head ELSE next[p], v)
    /\ UNCHANGED count

AddPrev(n, p, v) == Link(n, prev[p], p, v) /\ count' = count + 1

AddNext(n, p, v) == Link(n, p, next[p], v) /\ count' = count + 1

(* list_add_list with a list of one element; more are this again.          *)
AddList(n, v) == AddSort(n, v)

-----------------------------------------------------------------------------
(* Deleting *)

Unlink(n) ==
    /\ next' = [Put(next, prev[n], next[n]) EXCEPT ![n] = Null]
    /\ prev' = [Put(prev, next[n], prev[n]) EXCEPT ![n] = Null]
    /\ head' = IF prev[n] = Null THEN next[n] ELSE head
    /\ tail' = IF next[n] = Null THEN prev[n] ELSE tail
    /\ count' = count - 1 /\ used' = used \ {n} /\ data' = [data EXCEPT ![n] = Null]

(* listnode_delete: the first node that holds v; none is no error.         *)
Delete(v) ==
    LET holds == {i \in DOMAIN Chain : data[Chain[i]] = v}
    IN IF holds = {} THEN UNCHANGED vars
       ELSE Unlink(Chain[CHOOSE i \in holds : \A j \in holds : i <= j])

(* list_delete_all_node; list_delete frees the list as well.               *)
(* Slip: the count stays. *)
DeleteAllKeepsCount ==
    /\ head' = Null /\ tail' = Null /\ count' = count /\ used' = used \ ToSet(Chain)
    /\ next' = [n \in Nodes |-> IF n \in ToSet(Chain) THEN Null ELSE next[n]]
    /\ prev' = [n \in Nodes |-> IF n \in ToSet(Chain) THEN Null ELSE prev[n]]
    /\ data' = [n \in Nodes |-> IF n \in ToSet(Chain) THEN Null ELSE data[n]]
DeleteAll ==
    /\ head' = Null /\ tail' = Null /\ count' = 0 /\ used' = used \ ToSet(Chain)
    /\ next' = [n \in Nodes |-> IF n \in ToSet(Chain) THEN Null ELSE next[n]]
    /\ prev' = [n \in Nodes |-> IF n \in ToSet(Chain) THEN Null ELSE prev[n]]
    /\ data' = [n \in Nodes |-> IF n \in ToSet(Chain) THEN Null ELSE data[n]]

-----------------------------------------------------------------------------
(* Users of a sorted list add with listnode_add and list_add_list only.    *)
Add(n, v) ==
    \/ AddSort(n, v) \/ AddList(n, v)
    \/ ~cmp /\ AddOld(n, v)
    \/ ~cmp /\ \E p \in used \cup {Null} : AddAfter(n, p, v)
    \/ ~cmp /\ \E p \in used : AddPrev(n, p, v) \/ AddNext(n, p, v)

Next ==
    /\ \/ \E n \in Nodes \ used, v \in Data : Add(n, v)
       \/ \E v \in Data : Delete(v)
       \/ \E n \in used : Unlink(n)
       \/ DeleteAll
    /\ UNCHANGED cmp

Spec == Init /\ [][Next]_<<vars, cmp>>

-----------------------------------------------------------------------------
(* Properties *)

(* Pointers are NULL or to nodes that are allocated. *)
TypeOK ==
    /\ used \subseteq Nodes /\ {head, tail} \subseteq used \cup {Null} /\ count \in Int
    /\ next \in [Nodes -> used \cup {Null}] /\ prev \in [Nodes -> used \cup {Null}]
    /\ data \in [Nodes -> Data \cup {Null}] /\ \A n \in used : data[n] # Null

(* The chain holds every allocated node once, no node is lost and none is  *)
(* visited twice; backward is forward reversed, and the list ends at its   *)
(* tail.                                                                   *)
WellFormed ==
    /\ TypeOK
    /\ ToSet(Chain) = used /\ Len(Chain) = Cardinality(used)
    /\ \A i \in DOMAIN Chain : prev[Chain[i]] = IF i = 1 THEN Null ELSE Chain[i - 1]
    /\ tail = IF Chain = <<>> THEN Null ELSE Last(Chain)

(* The count that versions_show prints goes up and down with the length,   *)
(* and is zero when the list is emptied at once, in every function but     *)
(* listnode_add_after, which forgets it.                                   *)
CountFollows ==
    [][\/ count' - count = Len(Chain') - Len(Chain)
       \/ Chain' = <<>> /\ count' = 0
       \/ \E n \in Nodes, p \in used \cup {Null}, v \in Data : AddAfter(n, p, v)]_vars

(* The pointers implement a sequence: whatever is deleted is one element,  *)
(* the others keep their order, and a sorted list stays sorted.            *)
L == INSTANCE ListSeq WITH seq <- [i \in DOMAIN Chain |-> data[Chain[i]]], sorted <- cmp
ImplementsSeq == L!Spec
=============================================================================
