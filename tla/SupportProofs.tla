---------------------------- MODULE SupportProofs ----------------------------
(***************************************************************************)
(* Proofs about what the commands are built on, which share no state: the  *)
(* containers and the processes behind a command.                          *)
(*                                                                         *)
(* Vector, for every set of indices and values and every initial size: the *)
(* array stays within bounds, nothing lies beyond max, max is tight when   *)
(* NULL is not put into slots, and the whole implements Slots.             *)
(*                                                                         *)
(* LinkList, for every set of nodes and of numbers: the pointers are those *)
(* of a sequence of nodes, which LIST_LOOP visits, the count follows its   *)
(* length, and the data in its order implement ListSeq.                    *)
(*                                                                         *)
(* Processes: what descriptors the tools hold, when the end of file comes, *)
(* and what a result of 0 means, for every pipe, every number of lines and *)
(* every set of calls that may fail.                                       *)
(***************************************************************************)
EXTENDS Containers, Processes, ListFacts, FiniteSetTheorems

-----------------------------------------------------------------------------
(* Vectors *)

(* What ContainersAssumption says of the vector. *)
LEMMA VectorConstants ==
    /\ Index \subseteq Nat /\ \A i \in Index : 0 .. i \subseteq Index
    /\ Null \notin Values /\ Puts \subseteq Values \cup {Null}
    /\ Size \in Nat /\ ByIndex \in BOOLEAN
  BY ContainersAssumption DEF Vec!VectorAssumption

LEMMA Below == ASSUME NEW k \in Nat, NEW n \in Nat, k < n PROVE k \in 0 .. n - 1
  OBVIOUS

LEMMA VectorInitInv == Vec!Init => Vec!InBounds
  BY VectorConstants DEF Vec!Init, Vec!InBounds, Vec!TypeOK, Vec!NothingBeyond

(* What vector_ensure returns: enough, and never less than there was. *)
LEMMA GrownEnough ==
    ASSUME Vec!TypeOK, NEW i \in Index, NEW m \in Vec!Grown(i)
    PROVE  m \in Nat \ {0} /\ m > i /\ m >= alloced
  BY VectorConstants DEF Vec!TypeOK, Vec!Grown

LEMMA ExtendedType ==
    ASSUME Vec!TypeOK, NEW m \in Nat \ {0}
    PROVE  Vec!Extended(m) \in [0 .. m - 1 -> Values \cup {Null}]
  BY DEF Vec!TypeOK, Vec!Extended

(* The array after vector_set_index, slot by slot. *)
LEMMA PutAtSlots ==
    ASSUME Vec!TypeOK, NEW i \in Index, NEW v, Vec!PutAt(i, v), NEW k \in 0 .. alloced' - 1
    PROVE  index'[k] = IF k = i THEN v ELSE IF k < alloced THEN index[k] ELSE Null
  <1>1. index' = [Vec!Extended(alloced') EXCEPT ![i] = v]
    BY DEF Vec!PutAt
  <1>2. Vec!Extended(alloced')[k] = IF k < alloced THEN index[k] ELSE Null
    BY DEF Vec!Extended
  <1>3. k \in DOMAIN Vec!Extended(alloced')
    BY DEF Vec!Extended
  <1> QED  BY <1>1, <1>2, <1>3

LEMMA EnsureSlots ==
    ASSUME Vec!TypeOK, NEW i \in Index, Vec!Ensure(i), NEW k \in 0 .. alloced' - 1
    PROVE  index'[k] = IF k < alloced THEN index[k] ELSE Null
  BY DEF Vec!Ensure, Vec!Extended

LEMMA PutAtInv ==
    ASSUME Vec!InBounds, NEW i \in Index, NEW v \in Values \cup {Null}, Vec!PutAt(i, v)
    PROVE  Vec!InBounds'
  <1> USE DEF Vec!InBounds
  <1>1. i \in Nat /\ max \in Nat /\ alloced \in Nat \ {0}
    BY VectorConstants DEF Vec!TypeOK
  <1>2. alloced' \in Nat \ {0} /\ alloced' > i /\ alloced' >= alloced
    BY GrownEnough DEF Vec!PutAt
  <1>3. index' = [Vec!Extended(alloced') EXCEPT ![i] = v] /\ max' = IF max <= i THEN i + 1 ELSE max
    BY DEF Vec!PutAt
  <1>4. Vec!TypeOK'
    <2>1. Vec!Extended(alloced') \in [0 .. alloced' - 1 -> Values \cup {Null}]
      BY <1>2, ExtendedType
    <2>2. index' \in [0 .. alloced' - 1 -> Values \cup {Null}]
      BY <1>3, <2>1
    <2>3. max' \in Nat
      BY <1>1, <1>3
    <2> QED  BY <1>2, <2>2, <2>3 DEF Vec!TypeOK
  <1>5. max' <= alloced'
    BY <1>1, <1>2, <1>3 DEF Vec!NothingBeyond
  <1>6. ASSUME NEW j \in 0 .. alloced' - 1, j >= max'
        PROVE  index'[j] = Null
    <2>1. j # i /\ j >= max /\ j \in Nat
      BY <1>1, <1>2, <1>3, <1>6
    <2>2. index'[j] = IF j < alloced THEN index[j] ELSE Null
      BY <2>1, PutAtSlots
    <2> QED  BY <1>1, <2>1, <2>2 DEF Vec!NothingBeyond
  <1> QED  BY <1>4, <1>5, <1>6 DEF Vec!NothingBeyond

LEMMA EnsureInv ==
    ASSUME Vec!InBounds, NEW i \in Index, Vec!Ensure(i)
    PROVE  Vec!InBounds'
  <1> USE DEF Vec!InBounds
  <1>1. alloced' \in Nat \ {0} /\ alloced' >= alloced /\ max \in Nat /\ alloced \in Nat \ {0}
    BY GrownEnough DEF Vec!Ensure, Vec!TypeOK
  <1>2. index' = Vec!Extended(alloced') /\ max' = max
    BY DEF Vec!Ensure
  <1>3. Vec!TypeOK'
    BY <1>1, <1>2, ExtendedType DEF Vec!TypeOK
  <1>4. ASSUME NEW j \in 0 .. alloced' - 1, j >= max'
        PROVE  index'[j] = Null
    <2>1. j >= max /\ j \in Nat
      BY <1>1, <1>2, <1>4
    <2>2. index'[j] = IF j < alloced THEN index[j] ELSE Null
      BY EnsureSlots
    <2> QED  BY <1>1, <2>1, <2>2 DEF Vec!NothingBeyond
  <1>5. max' <= alloced'
    BY <1>1, <1>2 DEF Vec!NothingBeyond, Vec!TypeOK
  <1> QED  BY <1>3, <1>4, <1>5 DEF Vec!NothingBeyond

LEMMA UnsetInv ==
    ASSUME Vec!InBounds, NEW i \in Index, Vec!Unset(i)
    PROVE  Vec!InBounds'
  <1> USE DEF Vec!InBounds
  <1>1. i \in Nat /\ max \in Nat /\ alloced \in Nat \ {0}
    BY VectorConstants DEF Vec!TypeOK
  <1>2. i < alloced /\ alloced' = alloced /\ index' = [index EXCEPT ![i] = Null]
    BY DEF Vec!Unset
  <1>3. index' \in [0 .. alloced - 1 -> Values \cup {Null}]
    BY <1>1, <1>2 DEF Vec!TypeOK
  <1>4. CASE i + 1 = max
    <2>1. PICK j \in Vec!Trim(i) : max' = j
      BY <1>4 DEF Vec!Unset
    <2>2. j \in 0 .. i /\ \A l \in j .. i - 1 : index[l] = Null
      BY DEF Vec!Trim
    <2>3. max' \in Nat /\ max' <= alloced'
      BY <1>1, <1>2, <2>1, <2>2
    <2>4. ASSUME NEW k \in 0 .. alloced - 1, k >= j
          PROVE  index'[k] = Null
      <3>1. CASE k = i  BY <1>1, <1>2, <3>1 DEF Vec!TypeOK
      <3>2. CASE k < i
        BY <1>1, <1>2, <2>2, <2>4, <3>2 DEF Vec!TypeOK
      <3>3. CASE k > i
        BY <1>1, <1>2, <1>4, <3>3 DEF Vec!TypeOK, Vec!NothingBeyond
      <3> QED  BY <1>1, <3>1, <3>2, <3>3
    <2> QED  BY <1>1, <1>2, <1>3, <2>1, <2>3, <2>4 DEF Vec!TypeOK, Vec!NothingBeyond
  <1>5. CASE i + 1 # max
    <2>1. max' = max
      BY <1>5 DEF Vec!Unset
    <2>2. ASSUME NEW k \in 0 .. alloced - 1, k >= max
          PROVE  index'[k] = Null
      BY <1>1, <1>2, <2>2 DEF Vec!TypeOK, Vec!NothingBeyond
    <2> QED  BY <1>1, <1>2, <1>3, <2>1, <2>2 DEF Vec!TypeOK, Vec!NothingBeyond
  <1> QED  BY <1>4, <1>5

LEMMA PutsAreValues == Puts \subseteq Values \cup {Null}
  BY VectorConstants

LEMMA VectorStepInv == Vec!InBounds /\ [Vec!Next]_Vec!vars => Vec!InBounds'
  <1> SUFFICES ASSUME Vec!InBounds, [Vec!Next]_Vec!vars PROVE Vec!InBounds'
    OBVIOUS
  <1>1. ASSUME NEW v \in Puts, Vec!Set(v) PROVE Vec!InBounds'
    BY <1>1, PutAtInv, PutsAreValues DEF Vec!Set
  <1>2. ASSUME NEW i \in Index, NEW v \in Puts, Vec!SetIndex(i, v) PROVE Vec!InBounds'
    BY <1>2, PutAtInv, PutsAreValues DEF Vec!SetIndex
  <1>3. ASSUME NEW i \in Index, Vec!Ensure(i) PROVE Vec!InBounds'
    BY <1>3, EnsureInv
  <1>4. ASSUME NEW i \in Index, Vec!Unset(i) PROVE Vec!InBounds'
    BY <1>4, UnsetInv
  <1>5. CASE UNCHANGED Vec!vars
    BY <1>5 DEF Vec!vars, Vec!InBounds, Vec!TypeOK, Vec!NothingBeyond
  <1> QED  BY <1>1, <1>2, <1>3, <1>4, <1>5 DEF Vec!Next

(* The array has alloced slots, each empty or with a value, and no slot    *)
(* from max on holds one, for every set of indices and every first size:   *)
(* the loops of vector.c's users stay inside and miss nothing.             *)
THEOREM VectorBounds == Vec!Spec => []InBounds
  <1> QED  BY VectorInitInv, VectorStepInv, PTL DEF Vec!Spec, InBounds

-----------------------------------------------------------------------------
(* max is tight *)

LEMMA PutAtTrimmed ==
    ASSUME Vec!InBounds, Vec!Trimmed, NEW i \in Index, NEW v \in Values, Vec!PutAt(i, v)
    PROVE  Vec!Trimmed'
  <1>1. i \in Nat /\ max \in Nat /\ alloced \in Nat \ {0} /\ max <= alloced /\ v # Null
    BY VectorConstants DEF Vec!InBounds, Vec!TypeOK, Vec!NothingBeyond
  <1>2. alloced' \in Nat \ {0} /\ alloced' > i /\ alloced' >= alloced
    BY GrownEnough DEF Vec!PutAt, Vec!InBounds
  <1>3. index' = [Vec!Extended(alloced') EXCEPT ![i] = v] /\ max' = IF max <= i THEN i + 1 ELSE max
    BY DEF Vec!PutAt
  <1>4. CASE max <= i
    <2>1. i \in 0 .. alloced' - 1
      BY <1>1, <1>2, Below
    <2>2. index'[i] = v
      BY <2>1, PutAtSlots DEF Vec!InBounds
    <2> QED  BY <1>1, <1>3, <1>4, <2>2 DEF Vec!Trimmed
  <1>5. CASE max > i
    <2>1. max - 1 \in Nat /\ max - 1 < alloced /\ max - 1 < alloced'
      BY <1>1, <1>2, <1>5
    <2>2. max - 1 \in 0 .. alloced' - 1
      BY <1>2, <2>1, Below
    <2>3. index'[max - 1] = IF max - 1 = i THEN v ELSE index[max - 1]
      BY <2>1, <2>2, PutAtSlots DEF Vec!InBounds
    <2> QED  BY <1>1, <1>3, <1>5, <2>3 DEF Vec!Trimmed
  <1> QED  BY <1>1, <1>4, <1>5

LEMMA UnsetTrimmed ==
    ASSUME Vec!InBounds, Vec!Trimmed, NEW i \in Index, Vec!Unset(i)
    PROVE  Vec!Trimmed'
  <1>1. /\ i \in Nat /\ max \in Nat /\ alloced \in Nat \ {0} /\ max <= alloced
        /\ index \in [0 .. alloced - 1 -> Values \cup {Null}]
    BY VectorConstants DEF Vec!InBounds, Vec!TypeOK, Vec!NothingBeyond
  <1>2. i < alloced /\ index' = [index EXCEPT ![i] = Null]
    BY DEF Vec!Unset
  <1>3. CASE i + 1 = max
    <2>1. PICK j \in Vec!Trim(i) : max' = j
      BY <1>3 DEF Vec!Unset
    <2>2. j \in 0 .. i /\ (j = 0 \/ index[j - 1] # Null)
      BY DEF Vec!Trim
    <2> QED  BY <1>1, <1>2, <2>1, <2>2 DEF Vec!Trimmed
  <1>4. CASE i + 1 # max
    <2>1. max' = max
      BY <1>4 DEF Vec!Unset
    <2> QED  BY <1>1, <1>2, <1>4, <2>1 DEF Vec!Trimmed
  <1> QED  BY <1>3, <1>4

LEMMA EnsureTrimmed ==
    ASSUME Vec!InBounds, Vec!Trimmed, NEW i \in Index, Vec!Ensure(i)
    PROVE  Vec!Trimmed'
  <1>1. /\ alloced' \in Nat \ {0} /\ alloced' >= alloced /\ max \in Nat /\ alloced \in Nat \ {0}
        /\ max <= alloced
    BY GrownEnough DEF Vec!Ensure, Vec!InBounds, Vec!TypeOK, Vec!NothingBeyond
  <1>2. index' = Vec!Extended(alloced') /\ max' = max
    BY DEF Vec!Ensure
  <1>3. CASE max > 0
    <2>1. max - 1 \in Nat /\ max - 1 < alloced /\ max - 1 < alloced'
      BY <1>1, <1>3
    <2>2. max - 1 \in 0 .. alloced' - 1
      BY <1>1, <2>1, Below
    <2>3. index'[max - 1] = index[max - 1]
      BY <2>1, <2>2, EnsureSlots DEF Vec!InBounds
    <2> QED  BY <1>2, <1>3, <2>3 DEF Vec!Trimmed
  <1>4. CASE ~(max > 0)
    BY <1>2, <1>4 DEF Vec!Trimmed
  <1> QED  BY <1>3, <1>4

LEMMA StepTrimmed ==
    ASSUME Puts \subseteq Values
    PROVE  Vec!InBounds /\ Vec!Trimmed /\ [Vec!Next]_Vec!vars => Vec!Trimmed'
  <1> SUFFICES ASSUME Vec!InBounds, Vec!Trimmed, [Vec!Next]_Vec!vars PROVE Vec!Trimmed'
    OBVIOUS
  <1>1. ASSUME NEW v \in Puts, Vec!Set(v) PROVE Vec!Trimmed'
    BY <1>1, PutAtTrimmed DEF Vec!Set
  <1>2. ASSUME NEW i \in Index, NEW v \in Puts, Vec!SetIndex(i, v) PROVE Vec!Trimmed'
    BY <1>2, PutAtTrimmed DEF Vec!SetIndex
  <1>3. ASSUME NEW i \in Index, Vec!Ensure(i) PROVE Vec!Trimmed'
    BY <1>3, EnsureTrimmed
  <1>4. ASSUME NEW i \in Index, Vec!Unset(i) PROVE Vec!Trimmed'
    BY <1>4, UnsetTrimmed
  <1>5. CASE UNCHANGED Vec!vars
    BY <1>5 DEF Vec!vars, Vec!Trimmed
  <1> QED  BY <1>1, <1>2, <1>3, <1>4, <1>5 DEF Vec!Next

(* Where NULL is never put into a slot, the last slot in use holds a value *)
(* after every sequence of vector_set, vector_set_index and vector_unset.  *)
THEOREM VectorTrimmed ==
    ASSUME Puts \subseteq Values
    PROVE  Vec!Spec => []Vec!Trimmed
  <1>1. Vec!Init => Vec!Trimmed
    BY DEF Vec!Init, Vec!Trimmed
  <1>2. Vec!InBounds /\ Vec!Trimmed /\ [Vec!Next]_Vec!vars => Vec!Trimmed'
    BY StepTrimmed
  <1> QED  BY <1>1, <1>2, VectorInitInv, VectorStepInv, PTL DEF Vec!Spec

LEMMA PutAtKeepsMax ==
    ASSUME Vec!InBounds, NEW i \in Index, NEW v, Vec!PutAt(i, v)
    PROVE  ~(max' < max)
  BY VectorConstants DEF Vec!InBounds, Vec!TypeOK, Vec!PutAt

LEMMA UnsetTrimsToValue ==
    ASSUME Vec!InBounds, NEW i \in Index, Vec!Unset(i), max' < max
    PROVE  max' = 0 \/ index'[max' - 1] # Null
  <1>1. i \in Nat /\ max \in Nat /\ i < alloced /\ index' = [index EXCEPT ![i] = Null]
    BY VectorConstants DEF Vec!InBounds, Vec!TypeOK, Vec!Unset
  <1>2. i + 1 = max
    BY <1>1 DEF Vec!Unset
  <1>3. PICK j \in Vec!Trim(i) : max' = j
    BY <1>2 DEF Vec!Unset
  <1>4. j \in 0 .. i /\ (j = 0 \/ index[j - 1] # Null)
    BY DEF Vec!Trim
  <1>5. j - 1 # i
    BY <1>1, <1>4
  <1> QED  BY <1>1, <1>3, <1>4, <1>5 DEF Vec!InBounds, Vec!TypeOK

(* When vector_unset lowers max, it lowers it to a value, whatever NULL    *)
(* was put into slots before: no user that walks to max ends on an emptied *)
(* slot.                                                                   *)
THEOREM VectorTrimsToValue == Vec!Spec => TrimsToValue
  <1>1. Vec!InBounds /\ [Vec!Next]_Vec!vars => [max' < max => max' = 0 \/ index'[max' - 1] # Null]_Vec!vars
    <2> SUFFICES ASSUME Vec!InBounds, Vec!Next, max' < max
                 PROVE  max' = 0 \/ index'[max' - 1] # Null
      OBVIOUS
    <2>1. ASSUME NEW v \in Puts, Vec!Set(v) PROVE FALSE
      BY <2>1, PutAtKeepsMax DEF Vec!Set
    <2>2. ASSUME NEW i \in Index, NEW v \in Puts, Vec!SetIndex(i, v) PROVE FALSE
      BY <2>2, PutAtKeepsMax DEF Vec!SetIndex
    <2>3. ASSUME NEW i \in Index, Vec!Ensure(i) PROVE FALSE
      BY <2>3 DEF Vec!Ensure, Vec!InBounds, Vec!TypeOK
    <2>4. ASSUME NEW i \in Index, Vec!Unset(i) PROVE max' = 0 \/ index'[max' - 1] # Null
      BY <2>4, UnsetTrimsToValue
    <2> QED  BY <2>1, <2>2, <2>3, <2>4 DEF Vec!Next
  <1> QED  BY <1>1, VectorInitInv, VectorStepInv, PTL DEF Vec!Spec, TrimsToValue, Vec!TrimsToValue

-----------------------------------------------------------------------------
(* Refinement *)

slots == [i \in Index |-> IF i < alloced THEN index[i] ELSE Null]

LEMMA SlotsType == ASSUME Vec!TypeOK PROVE slots \in [Index -> Values \cup {Null}]
  <1>1. ASSUME NEW k \in Index
        PROVE  (IF k < alloced THEN index[k] ELSE Null) \in Values \cup {Null}
    <2>1. k \in Nat
      BY VectorConstants
    <2> QED  BY <2>1 DEF Vec!TypeOK
  <1> QED  BY <1>1 DEF slots

(* Whatever vector_ensure did, putting v at i is seen as just that. *)
LEMMA PutAtSeen ==
    ASSUME Vec!InBounds, NEW i \in Index, NEW v, Vec!PutAt(i, v)
    PROVE  slots' = [slots EXCEPT ![i] = v]
  <1>1. Index \subseteq Nat /\ i \in Nat /\ alloced \in Nat \ {0}
    BY VectorConstants DEF Vec!InBounds, Vec!TypeOK
  <1>2. alloced' \in Nat \ {0} /\ alloced' > i /\ alloced' >= alloced
    BY GrownEnough DEF Vec!PutAt, Vec!InBounds
  <1>3. ASSUME NEW k \in Index
        PROVE  slots'[k] = IF k = i THEN v ELSE slots[k]
    <2>1. k \in Nat /\ slots'[k] = IF k < alloced' THEN index'[k] ELSE Null
      BY <1>1 DEF slots
    <2>2. CASE k < alloced'
      <3>1. k \in 0 .. alloced' - 1
        BY <1>2, <2>1, <2>2, Below
      <3>2. index'[k] = IF k = i THEN v ELSE IF k < alloced THEN index[k] ELSE Null
        BY <3>1, PutAtSlots DEF Vec!InBounds
      <3> QED  BY <2>1, <2>2, <3>2 DEF slots
    <2>3. CASE ~(k < alloced')
      BY <1>1, <1>2, <2>1, <2>3 DEF slots
    <2> QED  BY <2>2, <2>3
  <1>4. slots \in [Index -> Values \cup {Null} \cup {v}] /\ DOMAIN slots' = Index
    BY SlotsType DEF slots, Vec!InBounds
  <1> QED  BY <1>3, <1>4 DEF slots

LEMMA EnsureSeen ==
    ASSUME Vec!InBounds, NEW i \in Index, Vec!Ensure(i)
    PROVE  slots' = slots
  <1>1. Index \subseteq Nat /\ alloced' \in Nat /\ alloced' >= alloced /\ alloced \in Nat
    BY VectorConstants, GrownEnough DEF Vec!Ensure, Vec!InBounds, Vec!TypeOK
  <1>2. ASSUME NEW k \in Index
        PROVE  (IF k < alloced' THEN index'[k] ELSE Null) = IF k < alloced THEN index[k] ELSE Null
    <2>1. k \in Nat
      BY <1>1
    <2>2. CASE k < alloced'
      <3>1. k \in 0 .. alloced' - 1
        BY <1>1, <2>1, <2>2, Below
      <3> QED  BY <2>2, <3>1, EnsureSlots DEF Vec!InBounds
    <2>3. CASE ~(k < alloced')
      BY <1>1, <2>1, <2>3
    <2> QED  BY <2>2, <2>3
  <1> QED  BY <1>2 DEF slots

LEMMA UnsetSeen ==
    ASSUME Vec!InBounds, NEW i \in Index, Vec!Unset(i)
    PROVE  slots' = [slots EXCEPT ![i] = Null]
  <1>1. /\ Index \subseteq Nat /\ i \in Nat /\ alloced \in Nat \ {0} /\ i < alloced
        /\ alloced' = alloced /\ index' = [index EXCEPT ![i] = Null]
        /\ index \in [0 .. alloced - 1 -> Values \cup {Null}]
    BY VectorConstants DEF Vec!InBounds, Vec!TypeOK, Vec!Unset
  <1>2. ASSUME NEW k \in Index
        PROVE  slots'[k] = IF k = i THEN Null ELSE slots[k]
    <2>1. k \in Nat /\ slots'[k] = IF k < alloced' THEN index'[k] ELSE Null
      BY <1>1 DEF slots
    <2>2. CASE k < alloced
      <3>1. k \in 0 .. alloced - 1
        BY <1>1, <2>1, <2>2
      <3>2. index'[k] = IF k = i THEN Null ELSE index[k]
        BY <1>1, <3>1
      <3> QED  BY <1>1, <2>1, <2>2, <3>2 DEF slots
    <2>3. CASE ~(k < alloced)
      BY <1>1, <2>1, <2>3 DEF slots
    <2> QED  BY <2>2, <2>3
  <1> QED  BY <1>2 DEF slots

(* The slot vector_empty_slot finds is the first empty one of all, those   *)
(* beyond max and beyond alloced included.                                 *)
LEMMA EmptyIsFirst ==
    ASSUME Vec!InBounds, NEW i \in Index, Vec!Empty(i)
    PROVE  slots[i] = Null /\ \A j \in Index : j < i => slots[j] # Null
  <1>1. Index \subseteq Nat /\ i \in Nat /\ max \in Nat /\ alloced \in Nat \ {0} /\ max <= alloced
    BY VectorConstants DEF Vec!InBounds, Vec!TypeOK, Vec!NothingBeyond
  <1>2. i <= max /\ (i < max => index[i] = Null) /\ \A j \in 0 .. i - 1 : index[j] # Null
    BY DEF Vec!Empty
  <1>3. slots[i] = Null
    BY <1>1, <1>2 DEF slots, Vec!InBounds, Vec!NothingBeyond
  <1> QED  BY <1>1, <1>2, <1>3 DEF slots

LEMMA SetSeen ==
    ASSUME Vec!InBounds, NEW v \in Puts, Vec!Set(v)
    PROVE  Vec!S!Set(v)
  <1>1. PICK i \in Index : Vec!Empty(i) /\ Vec!PutAt(i, v)
    BY DEF Vec!Set
  <1>2. slots' = [slots EXCEPT ![i] = v]
    BY <1>1, PutAtSeen
  <1>3. slots[i] = Null /\ \A j \in Index : j < i => slots[j] # Null
    BY <1>1, EmptyIsFirst
  <1> QED  BY <1>2, <1>3 DEF Vec!S!Set, slots

LEMMA InitSeen == Vec!Init => Vec!S!Init
  BY VectorConstants DEF Vec!Init, Vec!S!Init

LEMMA StepSeen == Vec!InBounds /\ [Vec!Next]_Vec!vars => [Vec!S!Next]_slots
  <1> SUFFICES ASSUME Vec!InBounds, [Vec!Next]_Vec!vars PROVE Vec!S!Next \/ slots' = slots
    OBVIOUS
  <1>1. ASSUME NEW v \in Puts, Vec!Set(v) PROVE Vec!S!Next
    BY <1>1, SetSeen, PutsAreValues DEF Vec!S!Next
  <1>2. ASSUME NEW i \in Index, NEW v \in Puts, Vec!SetIndex(i, v) PROVE Vec!S!Next
    <2>1. Vec!S!Put(i, v)
      BY <1>2, PutAtSeen DEF Vec!SetIndex, Vec!S!Put, slots
    <2> QED  BY <1>2, <2>1, PutsAreValues DEF Vec!SetIndex, Vec!S!Next
  <1>3. ASSUME NEW i \in Index, Vec!Ensure(i) PROVE slots' = slots
    BY <1>3, EnsureSeen
  <1>4. ASSUME NEW i \in Index, Vec!Unset(i) PROVE Vec!S!Next
    <2>1. Vec!S!Put(i, Null)
      BY <1>4, UnsetSeen DEF Vec!S!Put, slots
    <2> QED  BY <2>1 DEF Vec!S!Next
  <1>5. CASE UNCHANGED Vec!vars
    BY <1>5 DEF Vec!vars, slots
  <1> QED  BY <1>1, <1>2, <1>3, <1>4, <1>5 DEF Vec!Next

(* Growing, max and trimming are invisible to the users of vector.c: every *)
(* step of the vector is a step of the slots, or changes none of them.     *)
THEOREM VectorImplementsSlots == Vec!Spec => ImplementsSlots
  <1>1. Vec!Init => Vec!S!Init
    BY InitSeen
  <1>2. Vec!InBounds /\ [Vec!Next]_Vec!vars => [Vec!S!Next]_slots
    BY StepSeen
  <1> QED  BY <1>1, <1>2, VectorInitInv, VectorStepInv, PTL DEF Vec!Spec, ImplementsSlots, Vec!ImplementsSlots, Vec!S!Spec, slots

(* vector_set takes the first empty slot of all, those beyond max and      *)
(* beyond what is allocated included, in every state a vector can reach.   *)
THEOREM VectorSetTakesFirst == Vec!Spec => SetTakesFirst
  <1>1. Vec!InBounds /\ [Vec!Next]_Vec!vars => [\A v \in Puts : Vec!Set(v) => Vec!S!Set(v)]_Vec!vars
    BY SetSeen
  <1> QED  BY <1>1, VectorInitInv, VectorStepInv, PTL DEF Vec!Spec, SetTakesFirst, Vec!SetTakesFirst

-----------------------------------------------------------------------------
(* Linked lists *)

LEMMA ListBounds == List!ListAssumption
  BY ContainersAssumption

(* The element at a place, NULL before the first and after the last. *)
Item(s, i) == IF i \in 1 .. Len(s) THEN s[i] ELSE Null

(* The nodes in use, in the order of s: every pointer is to a neighbour.   *)
Linked(s) ==
    /\ s \in Seq(Nodes) /\ IsInjective(s) /\ ToSet(s) = used
    /\ head = Item(s, 1) /\ tail = Item(s, Len(s))
    /\ \A i \in 1 .. Len(s) : next[s[i]] = Item(s, i + 1) /\ prev[s[i]] = Item(s, i - 1)

Clean == \A n \in Nodes \ used : next[n] = Null /\ prev[n] = Null

(* The inductive invariant: some order of the nodes in use is linked.       *)
ListInv == List!TypeOK /\ Clean /\ \E s : Linked(s)

(* List extends the library's modules anew. *)
LEMMA SameLibrary ==
    /\ \A X : List!IsFiniteSet(X) <=> IsFiniteSet(X)
    /\ \A X : List!Cardinality(X) = Cardinality(X)
    /\ \A s : List!ToSet(s) = ToSet(s) /\ List!Last(s) = Last(s)
<1>1. \A X : List!IsFiniteSet(X) <=> IsFiniteSet(X)
  BY DEF List!IsFiniteSet, IsFiniteSet
<1>2. \A X : List!Cardinality(X) = Cardinality(X)
  BY DEF List!Cardinality, Cardinality
<1>3. \A s : List!ToSet(s) = ToSet(s) /\ List!Last(s) = Last(s)
  BY DEF List!ToSet, ToSet, List!Last, Last
<1>4. QED
  BY <1>1, <1>2, <1>3

(* The number of the nodes in use. *)
LEMMA LinkedLength ==
    ASSUME List!ListAssumption, NEW s, Linked(s)
    PROVE  /\ Len(s) \in Nat /\ IsFiniteSet(used) /\ Len(s) = Cardinality(used)
           /\ Len(s) <= Cardinality(Nodes) /\ Cardinality(Nodes) \in Nat
           /\ used \subseteq Nodes
<1>1. /\ s \in Seq(Nodes) /\ Len(s) \in Nat
      /\ \A x : x \in used <=> \E i \in 1 .. Len(s) : s[i] = x
      /\ \A i, j \in 1 .. Len(s) : s[i] = s[j] => i = j
  BY InToSet DEF Linked
<1>2. used \subseteq Nodes
  BY <1>1
<1>3. IsFiniteSet(used) /\ Cardinality(used) <= Cardinality(Nodes) /\ Cardinality(Nodes) \in Nat
  BY <1>2, SameLibrary, FS_Subset, FS_CardinalityType DEF List!ListAssumption
<1>4. s \in Bijection(1 .. Len(s), used)
  <2>1. s \in [1 .. Len(s) -> used]
    BY <1>1
  <2>2. QED
    BY <1>1, <2>1 DEF Bijection, Injection, Surjection, IsInjective
<1>5. ExistsBijection(1 .. Len(s), used)
  BY <1>4 DEF ExistsBijection
<1>6. Len(s) = Cardinality(used)
  BY <1>1, <1>5, FS_CountingElements
<1>7. QED
  BY <1>1, <1>2, <1>3, <1>6

(* LIST_LOOP visits them in that order. *)
LEMMA ChainIs ==
    ASSUME List!ListAssumption, NEW s, Linked(s)
    PROVE  List!Chain = s
<1> DEFINE after == [n \in Nodes \cup {Null} |-> IF n = Null THEN Null ELSE next[n]]
           N == List!Cardinality(Nodes)
           most == 1 .. N + 1
           g == [k \in most |-> Item(s, k)]
           at == CHOOSE f : f = [k \in most |-> IF k = 1 THEN head ELSE after[f[k - 1]]]
<1>1. Len(s) \in Nat /\ N \in Nat /\ Len(s) <= N
  BY LinkedLength, SameLibrary
<1>2. \A i \in 1 .. Len(s) : s[i] \in Nodes /\ s[i] # Null
  BY DEF Linked, List!ListAssumption
<1>3. \A k \in Nat \ {0} : after[Item(s, k)] = Item(s, k + 1)
  <2> SUFFICES ASSUME NEW k \in Nat \ {0}
               PROVE  after[Item(s, k)] = Item(s, k + 1)
    OBVIOUS
  <2>1. CASE k \in 1 .. Len(s)
    BY <1>2, <2>1 DEF Item, Linked
  <2>2. CASE k \notin 1 .. Len(s)
    <3>1. k + 1 \notin 1 .. Len(s)
      BY <1>1, <2>2
    <3>2. QED
      BY <2>2, <3>1 DEF Item
  <2>3. QED
    BY <2>1, <2>2
<1>4. head = Item(s, 1)
  BY DEF Linked
<1> HIDE DEF after, N
<1>5. \A k \in most : k # 1 => k - 1 \in most /\ k - 1 \in Nat \ {0} /\ (k - 1) + 1 = k
  BY <1>1
<1>6. \A k \in most : g[k] = IF k = 1 THEN head ELSE after[g[k - 1]]
  BY <1>3, <1>4, <1>5
<1>7. g = [k \in most |-> IF k = 1 THEN head ELSE after[g[k - 1]]]
  BY <1>6
<1> HIDE DEF g
<1>8. at = [k \in most |-> IF k = 1 THEN head ELSE after[at[k - 1]]]
  BY <1>7
<1> HIDE DEF at
<1>9. \A k \in most : at[k] = Item(s, k)
  <2> DEFINE G == {k \in 0 .. N : at[k + 1] = Item(s, k + 1)}
  <2>1. 0 \in G
    BY <1>1, <1>4, <1>8
  <2>2. ASSUME NEW k \in 0 .. N - 1, k \in G
        PROVE  k + 1 \in G
    <3>1. k + 1 \in 0 .. N /\ (k + 1) + 1 \in most /\ (k + 1) + 1 # 1 /\ k + 1 \in Nat \ {0}
          /\ ((k + 1) + 1) - 1 = k + 1
      BY <1>1
    <3>2. at[(k + 1) + 1] = after[at[k + 1]]
      BY <1>8, <3>1
    <3>3. QED
      BY <1>3, <2>2, <3>1, <3>2
  <2> HIDE DEF G
  <2>3. 0 .. N \subseteq G
    BY <1>1, <2>1, <2>2, UpTo
  <2>4. \A k \in most : k - 1 \in 0 .. N /\ (k - 1) + 1 = k
    BY <1>1
  <2>5. QED
    BY <2>3, <2>4 DEF G
<1>10. List!Cardinality({i \in most : at[i] # Null}) = Len(s)
  <2>1. {i \in most : at[i] # Null} = 1 .. Len(s)
    BY <1>1, <1>2, <1>9 DEF Item
  <2>2. Cardinality(1 .. Len(s)) = Len(s)
    <3>1. Len(s) \in Int /\ 1 \in Int /\ (1 > Len(s) => Len(s) = 0) /\ Len(s) - 1 + 1 = Len(s)
      BY <1>1
    <3>2. QED
      BY <3>1, FS_Interval
  <2>3. QED
    BY <2>1, <2>2, SameLibrary
<1>11. List!Chain = [k \in 1 .. List!Cardinality({i \in most : at[i] # Null}) |-> at[k]]
  BY DEF List!Chain, at, after, N
<1>12. \A k \in 1 .. Len(s) : at[k] = s[k]
  BY <1>1, <1>9 DEF Item
<1>13. s = [k \in 1 .. Len(s) |-> s[k]]
  BY DEF Linked
<1>14. QED
  BY <1>10, <1>11, <1>12, <1>13

(* So that WellFormed follows from the invariant. *)
LEMMA ChainWellFormed ==
    ASSUME List!ListAssumption, ListInv
    PROVE  List!WellFormed
<1>1. PICK s : Linked(s)
  BY DEF ListInv
<1>2. List!Chain = s
  BY <1>1, ChainIs
<1>3. Len(s) \in Nat /\ Len(s) = Cardinality(used)
  BY <1>1, LinkedLength
<1>4. s \in Seq(Nodes) /\ ToSet(s) = used
  BY <1>1 DEF Linked
<1>5. \A i \in DOMAIN s : prev[s[i]] = IF i = 1 THEN Null ELSE s[i - 1]
  <2>1. \A i \in DOMAIN s : i \in 1 .. Len(s) /\ (i # 1 => i - 1 \in 1 .. Len(s))
    BY <1>4
  <2>2. 0 \notin 1 .. Len(s) /\ 1 - 1 = 0
    OBVIOUS
  <2>3. QED
    BY <1>1, <2>1, <2>2 DEF Linked, Item
<1>6. tail = IF s = <<>> THEN Null ELSE Last(s)
  <2>1. s = <<>> <=> Len(s) = 0
    BY <1>4
  <2>2. Len(s) # 0 => Len(s) \in 1 .. Len(s)
    BY <1>3
  <2>3. Len(s) = 0 => Len(s) \notin 1 .. Len(s)
    OBVIOUS
  <2>4. QED
    BY <1>1, <2>1, <2>2, <2>3 DEF Linked, Item, Last
<1>7. QED
  BY <1>2, <1>3, <1>4, <1>5, <1>6, SameLibrary DEF ListInv, List!WellFormed

(* What Linked says, place by place. *)
LEMMA LinkedPlaces ==
    ASSUME List!ListAssumption, NEW s, Linked(s)
    PROVE  /\ s \in Seq(Nodes) /\ Len(s) \in Nat
           /\ \A j \in Int : Item(s, j) # Null <=> j \in 1 .. Len(s)
           /\ \A j \in 1 .. Len(s) : s[j] = Item(s, j) /\ Item(s, j) \in used /\ Item(s, j) \in Nodes
           /\ \A j, k \in 1 .. Len(s) : Item(s, j) = Item(s, k) => j = k
           /\ \A j \in 1 .. Len(s) : /\ next[Item(s, j)] = Item(s, j + 1)
                                     /\ prev[Item(s, j)] = Item(s, j - 1)
           /\ \A x \in used : \E j \in 1 .. Len(s) : x = Item(s, j)
           /\ used \subseteq Nodes /\ Null \notin Nodes
<1>1. /\ s \in Seq(Nodes) /\ Len(s) \in Nat /\ Null \notin Nodes
      /\ \A x : x \in used <=> \E i \in 1 .. Len(s) : s[i] = x
      /\ \A i, j \in 1 .. Len(s) : s[i] = s[j] => i = j
  <2>1. s \in Seq(Nodes) /\ IsInjective(s) /\ ToSet(s) = used /\ Null \notin Nodes
    BY DEF Linked, List!ListAssumption
  <2>2. QED
    BY <2>1, InToSet
<1>2. \A j \in 1 .. Len(s) : s[j] = Item(s, j) /\ s[j] \in Nodes
  BY <1>1 DEF Item
<1>3. \A j \in Int : Item(s, j) # Null <=> j \in 1 .. Len(s)
  BY <1>1, <1>2 DEF Item
<1>4. \A j \in 1 .. Len(s) : next[Item(s, j)] = Item(s, j + 1) /\ prev[Item(s, j)] = Item(s, j - 1)
  BY <1>2 DEF Linked
<1>5. \A j \in 1 .. Len(s) : s[j] = Item(s, j) /\ Item(s, j) \in used /\ Item(s, j) \in Nodes
  <2> SUFFICES ASSUME NEW j \in 1 .. Len(s)
               PROVE  s[j] = Item(s, j) /\ Item(s, j) \in used /\ Item(s, j) \in Nodes
    OBVIOUS
  <2>1. s[j] \in used
    BY <1>1
  <2>2. QED
    BY <1>2, <2>1
<1>6. \A j, k \in 1 .. Len(s) : Item(s, j) = Item(s, k) => j = k
  <2> SUFFICES ASSUME NEW j \in 1 .. Len(s), NEW k \in 1 .. Len(s), Item(s, j) = Item(s, k)
               PROVE  j = k
    OBVIOUS
  <2>1. s[j] = s[k]
    BY <1>2
  <2>2. QED
    BY <1>1, <2>1
<1>7. \A x \in used : \E j \in 1 .. Len(s) : x = Item(s, j)
  <2> SUFFICES ASSUME NEW x \in used
               PROVE  \E j \in 1 .. Len(s) : x = Item(s, j)
    OBVIOUS
  <2>1. PICK j \in 1 .. Len(s) : s[j] = x
    BY <1>1
  <2>2. QED
    BY <1>2, <2>1
<1>8. used \subseteq Nodes
  BY <1>5, <1>7
<1>9. QED
  BY <1>1, <1>3, <1>4, <1>5, <1>6, <1>7, <1>8

(* The places after an insertion and after a removal. *)
LEMMA AtInsert ==
    ASSUME NEW s \in Seq(Nodes), NEW p \in 1 .. Len(s) + 1, NEW n \in Nodes, NEW j \in Int
    PROVE  Item(InsertAt(s, p, n), j) = IF j < p THEN Item(s, j) ELSE IF j = p THEN n ELSE Item(s, j - 1)
<1> DEFINE t == InsertAt(s, p, n)
           m == Len(s)
<1>1. /\ Len(t) = m + 1 /\ m \in Nat
      /\ \A k \in 1 .. m + 1 : t[k] = IF k < p THEN s[k] ELSE IF k = p THEN n ELSE s[k - 1]
  <2>1. m \in Nat
    OBVIOUS
  <2> HIDE DEF t, m
  <2>2. Len(InsertAt(s, p, n)) = Len(s) + 1
    BY InsertAtIs, SMTT(40)
  <2>4. ASSUME NEW k \in 1 .. Len(s) + 1
        PROVE  InsertAt(s, p, n)[k] = IF k < p THEN s[k] ELSE IF k = p THEN n ELSE s[k - 1]
    <3>1. /\ k < p => InsertAt(s, p, n)[k] = s[k]
          /\ k = p => InsertAt(s, p, n)[k] = n
          /\ k > p => InsertAt(s, p, n)[k] = s[k - 1]
      BY InsertAtPlaces
    <3>2. k \in Int /\ p \in Int
      BY <2>1 DEF m
    <3>3. QED
      BY <3>1, <3>2
  <2>3. QED
    BY <2>1, <2>2, <2>4 DEF t, m
<1>2. p \in 1 .. m + 1
  OBVIOUS
<1> HIDE DEF t, m
<1>3. CASE j < p
  <2>1. j \in 1 .. m + 1 <=> j \in 1 .. m
    BY <1>1, <1>2, <1>3
  <2>2. QED
    BY <1>1, <1>3, <2>1 DEF Item, t, m
<1>4. CASE j = p
  BY <1>1, <1>2, <1>4 DEF Item, t
<1>5. CASE j > p
  <2>1. (j \in 1 .. m + 1 <=> j - 1 \in 1 .. m) /\ ~(j < p) /\ j # p
    BY <1>1, <1>2, <1>5
  <2>2. QED
    BY <1>1, <2>1 DEF Item, t, m
<1>6. QED
  BY <1>2, <1>3, <1>4, <1>5

LEMMA AtRemove ==
    ASSUME NEW s \in Seq(Nodes), NEW i \in 1 .. Len(s), NEW j \in Int
    PROVE  Item(RemoveAt(s, i), j) = IF j < i THEN Item(s, j) ELSE Item(s, j + 1)
<1> DEFINE t == RemoveAt(s, i)
           m == Len(s)
<1>1. /\ Len(t) = m - 1 /\ m \in Nat
      /\ \A k \in 1 .. m - 1 : t[k] = IF k < i THEN s[k] ELSE s[k + 1]
  <2>1. m \in Nat
    OBVIOUS
  <2>2. /\ Len(RemoveAt(s, i)) = Len(s) - 1
        /\ \A k \in 1 .. Len(s) - 1 : RemoveAt(s, i)[k] = IF k < i THEN s[k] ELSE s[k + 1]
    BY RemoveAtIs, Zenon
  <2> HIDE DEF t, m
  <2>3. QED
    BY <2>1, <2>2 DEF t, m
<1>2. i \in 1 .. m
  OBVIOUS
<1> HIDE DEF t, m
<1>3. CASE j < i
  <2>1. j \in 1 .. m - 1 <=> j \in 1 .. m
    BY <1>1, <1>2, <1>3
  <2>2. QED
    BY <1>1, <1>3, <2>1 DEF Item, t, m
<1>4. CASE ~(j < i)
  <2>1. j \in 1 .. m - 1 <=> j + 1 \in 1 .. m
    BY <1>1, <1>2, <1>4
  <2>2. QED
    BY <1>1, <1>4, <2>1 DEF Item, t, m
<1>5. QED
  BY <1>3, <1>4

(* A new node between two neighbours, and what it does to the order. *)
LEMMA LinkStep ==
    ASSUME List!ListAssumption, List!TypeOK, Clean, NEW s, Linked(s),
           NEW n \in Nodes \ used, NEW v, NEW i \in 1 .. Len(s) + 1,
           List!Link(n, Item(s, i - 1), Item(s, i), v)
    PROVE  Linked(InsertAt(s, i, n))' /\ Clean'
<1> DEFINE t == InsertAt(s, i, n)
           m == Len(s)
           p == Item(s, i - 1)
           q == Item(s, i)
<1>1. /\ s \in Seq(Nodes) /\ m \in Nat
      /\ \A j \in Int : Item(s, j) # Null <=> j \in 1 .. m
      /\ \A j \in 1 .. m : s[j] = Item(s, j) /\ Item(s, j) \in used /\ Item(s, j) \in Nodes
      /\ \A j, k \in 1 .. m : Item(s, j) = Item(s, k) => j = k
      /\ \A j \in 1 .. m : next[Item(s, j)] = Item(s, j + 1) /\ prev[Item(s, j)] = Item(s, j - 1)
      /\ used \subseteq Nodes /\ Null \notin Nodes
  BY LinkedPlaces
<1>2. n \in Nodes /\ n \notin used /\ i \in 1 .. m + 1 /\ i \in Int
  OBVIOUS
<1>3. \A j \in Int : Item(t, j) = IF j < i THEN Item(s, j) ELSE IF j = i THEN n ELSE Item(s, j - 1)
  BY <1>1, AtInsert
<1>4. /\ t \in Seq(Nodes) /\ ToSet(t) = used \cup {n} /\ IsInjective(t) /\ Len(t) = m + 1
  BY <1>1, InsertAtFacts, InsertAtIs DEF Linked
<1>5. /\ next \in [Nodes -> used \cup {Null}] /\ prev \in [Nodes -> used \cup {Null}]
  BY DEF List!TypeOK
<1>6. head = Item(s, 1) /\ tail = Item(s, m)
  BY DEF Linked
<1>7. /\ p # Null <=> i - 1 \in 1 .. m
      /\ q # Null <=> i \in 1 .. m
      /\ p \in used \cup {Null} /\ q \in used \cup {Null}
  BY <1>1, <1>2
<1>8. /\ used' = used \cup {n}
      /\ next' = List!Put([next EXCEPT ![n] = q], p, n)
      /\ prev' = List!Put([prev EXCEPT ![n] = p], q, n)
      /\ head' = IF p = Null THEN n ELSE head
      /\ tail' = IF q = Null THEN n ELSE tail
  BY DEF List!Link
<1> HIDE DEF t, m
<1>9. \A x \in Nodes :
         /\ next'[x] = IF x = n THEN q ELSE IF x = p THEN n ELSE next[x]
         /\ prev'[x] = IF x = n THEN p ELSE IF x = q THEN n ELSE prev[x]
  <2> HIDE DEF p, q
  <2>1. n # p /\ n # q
    BY <1>1, <1>2, <1>7
  <2>2. QED
    BY <1>1, <1>2, <1>5, <1>7, <1>8, <2>1 DEF List!Put
<1>10. head' = Item(t, 1)
  <2>1. CASE i = 1
    BY <1>2, <1>3, <1>7, <1>8, <2>1
  <2>2. CASE i # 1
    <3>1. i - 1 \in 1 .. m /\ 1 < i
      BY <1>1, <1>2, <2>2
    <3>2. QED
      BY <1>3, <1>6, <1>7, <1>8, <3>1
  <2>3. QED
    BY <2>1, <2>2
<1>11. tail' = Item(t, m + 1)
  <2>1. CASE i = m + 1
    <3>1. i \notin 1 .. m /\ m + 1 \in Int
      BY <1>1, <2>1
    <3>2. QED
      BY <1>2, <1>3, <1>7, <1>8, <2>1, <3>1
  <2>2. CASE i # m + 1
    <3>1. i \in 1 .. m /\ m + 1 \in Int /\ ~(m + 1 < i) /\ m + 1 # i /\ (m + 1) - 1 = m
      <4>1. m \in Nat /\ i \in 1 .. m + 1
        BY <1>1, <1>2
      <4>2. QED
        BY <2>2, <4>1
    <3>2. QED
      BY <1>3, <1>6, <1>7, <1>8, <3>1
  <2>3. QED
    BY <2>1, <2>2
<1>12. ASSUME NEW j \in 1 .. m + 1
       PROVE  /\ next'[Item(t, j)] = Item(t, j + 1)
              /\ prev'[Item(t, j)] = Item(t, j - 1)
  <2>0. j \in Int /\ j + 1 \in Int /\ j - 1 \in Int
    BY <1>1
  <2>1. CASE j = i
    <3>1. /\ ~(j + 1 < i) /\ j + 1 # i /\ (j + 1) - 1 = i /\ j - 1 < i /\ ~(j < i)
      BY <1>2, <2>1
    <3>2. Item(t, j) = n /\ Item(t, j + 1) = q /\ Item(t, j - 1) = p
      BY <1>3, <2>0, <2>1, <3>1
    <3>3. QED
      BY <1>2, <1>9, <3>2
  <2>2. CASE j < i
    <3>1. j \in 1 .. m /\ j - 1 < i /\ j # i /\ (j + 1 = i \/ j + 1 < i) /\ (j = i - 1 <=> j + 1 = i)
      BY <1>1, <1>2, <2>2
    <3>2. /\ Item(t, j) = Item(s, j) /\ Item(t, j - 1) = Item(s, j - 1)
          /\ Item(t, j + 1) = IF j + 1 = i THEN n ELSE Item(s, j + 1)
      BY <1>3, <2>0, <2>2, <3>1
    <3>3. Item(s, j) # n /\ Item(s, j) # Null /\ Item(s, j) \in Nodes
      BY <1>1, <1>2, <3>1
    <3>4. Item(s, j) = p <=> j = i - 1
      BY <1>1, <1>7, <3>1, <3>3
    <3>5. Item(s, j) # q
      BY <1>1, <1>7, <3>1, <3>3
    <3>6. QED
      BY <1>1, <1>9, <3>1, <3>2, <3>3, <3>4, <3>5
  <2>3. CASE j > i
    <3>1. PICK k \in 1 .. m : k = j - 1 /\ j = k + 1 /\ k >= i
      <4>1. j - 1 \in 1 .. m /\ j = (j - 1) + 1 /\ j - 1 >= i
        BY <1>1, <1>2, <2>3
      <4>2. QED
        BY <4>1
    <3>2. /\ ~(j + 1 < i) /\ j + 1 # i /\ (j + 1) - 1 = k + 1 /\ ~(j < i) /\ j # i
          /\ ~(j - 1 < i) /\ (j - 1) - 1 = k - 1 /\ (j - 1 = i <=> k = i) /\ k # i - 1
      BY <1>1, <1>2, <2>3, <3>1
    <3>3. /\ Item(t, j) = Item(s, k) /\ Item(t, j + 1) = Item(s, k + 1)
          /\ Item(t, j - 1) = IF k = i THEN n ELSE Item(s, k - 1)
      BY <1>3, <2>0, <3>1, <3>2
    <3>4. Item(s, k) # n /\ Item(s, k) # Null /\ Item(s, k) \in Nodes
      BY <1>1, <1>2
    <3>5. Item(s, k) # p
      BY <1>1, <1>7, <3>2, <3>4
    <3>6. Item(s, k) = q <=> k = i
      BY <1>1, <1>7, <3>4
    <3>7. QED
      BY <1>1, <1>9, <3>3, <3>4, <3>5, <3>6
  <2>4. QED
    BY <1>2, <2>0, <2>1, <2>2, <2>3
<1>13. Clean'
  <2>1. ASSUME NEW x \in Nodes \ used'
        PROVE  next'[x] = Null /\ prev'[x] = Null
    <3>1. x \notin used /\ x # n /\ x \in Nodes /\ x # Null
      BY <1>1, <1>8
    <3>2. x # p /\ x # q
      BY <1>7, <3>1
    <3>3. QED
      BY <1>9, <3>1, <3>2 DEF Clean
  <2>2. QED
    BY <2>1 DEF Clean
<1>14. \A j \in 1 .. Len(t) : t[j] = Item(t, j)
  BY DEF Item
<1>15. Linked(t)'
  <2>1. \A j \in 1 .. Len(t) : next'[t[j]] = Item(t, j + 1) /\ prev'[t[j]] = Item(t, j - 1)
    BY <1>4, <1>12, <1>14
  <2> HIDE DEF p, q
  <2>2. QED
    BY <1>4, <1>8, <1>10, <1>11, <2>1 DEF Linked, Item
<1>16. QED
  BY <1>13, <1>15 DEF t

(* A node taken out from between its neighbours. *)
LEMMA UnlinkStep ==
    ASSUME List!ListAssumption, List!TypeOK, Clean, NEW s, Linked(s),
           NEW i \in 1 .. Len(s), List!Unlink(s[i])
    PROVE  Linked(RemoveAt(s, i))' /\ Clean'
<1> DEFINE t == RemoveAt(s, i)
           m == Len(s)
           n == Item(s, i)
           p == Item(s, i - 1)
           q == Item(s, i + 1)
<1>1. /\ s \in Seq(Nodes) /\ m \in Nat
      /\ \A j \in Int : Item(s, j) # Null <=> j \in 1 .. m
      /\ \A j \in 1 .. m : s[j] = Item(s, j) /\ Item(s, j) \in used /\ Item(s, j) \in Nodes
      /\ \A j, k \in 1 .. m : Item(s, j) = Item(s, k) => j = k
      /\ \A j \in 1 .. m : next[Item(s, j)] = Item(s, j + 1) /\ prev[Item(s, j)] = Item(s, j - 1)
      /\ used \subseteq Nodes /\ Null \notin Nodes
  BY LinkedPlaces
<1>2. i \in 1 .. m /\ i \in Int
  OBVIOUS
<1>3. \A j \in Int : Item(t, j) = IF j < i THEN Item(s, j) ELSE Item(s, j + 1)
  BY <1>1, AtRemove
<1>4. /\ t \in Seq(Nodes) /\ ToSet(t) = used \ {n} /\ IsInjective(t) /\ Len(t) = m - 1
  <2>1. s \in Seq(Nodes) /\ i \in 1 .. Len(s) /\ IsInjective(s) /\ ToSet(s) = used /\ s[i] = n
    BY <1>1, <1>2 DEF Linked
  <2>2. /\ RemoveAt(s, i) \in Seq(Nodes) /\ Len(RemoveAt(s, i)) = Len(s) - 1
        /\ ToSet(RemoveAt(s, i)) = ToSet(s) \ {s[i]} /\ IsInjective(RemoveAt(s, i))
    BY <2>1, RemoveAtFacts, RemoveAtIs
  <2>3. QED
    BY <2>1, <2>2
<1>5. /\ next \in [Nodes -> used \cup {Null}] /\ prev \in [Nodes -> used \cup {Null}]
  BY DEF List!TypeOK
<1>6. head = Item(s, 1) /\ tail = Item(s, m)
  BY DEF Linked
<1>7. /\ n \in Nodes /\ n \in used /\ n # Null /\ next[n] = q /\ prev[n] = p
      /\ p # Null <=> i - 1 \in 1 .. m
      /\ q # Null <=> i + 1 \in 1 .. m
  BY <1>1, <1>2
<1>8. /\ used' = used \ {n}
      /\ next' = [List!Put(next, p, q) EXCEPT ![n] = Null]
      /\ prev' = [List!Put(prev, q, p) EXCEPT ![n] = Null]
      /\ head' = IF p = Null THEN q ELSE head
      /\ tail' = IF q = Null THEN p ELSE tail
  <2>1. s[i] = n
    BY <1>1, <1>2
  <2>2. QED
    BY <1>7, <2>1 DEF List!Unlink
<1> HIDE DEF t, m
<1>9. /\ p # Null => p \in Nodes /\ p # n
      /\ q # Null => q \in Nodes /\ q # n
  <2>1. i - 1 # i /\ i + 1 # i
    BY <1>2
  <2>2. QED
    BY <1>1, <1>2, <1>7, <2>1
<1>10. \A x \in Nodes :
         /\ next'[x] = IF x = n THEN Null ELSE IF x = p THEN q ELSE next[x]
         /\ prev'[x] = IF x = n THEN Null ELSE IF x = q THEN p ELSE prev[x]
  <2> HIDE DEF p, q, n
  <2>1. QED
    BY <1>1, <1>5, <1>7, <1>8, <1>9 DEF List!Put
<1>11. head' = Item(t, 1)
  <2>1. CASE i = 1
    <3>1. ~(1 < i) /\ i - 1 \notin 1 .. m /\ 1 \in Int /\ i + 1 = 1 + 1
      BY <1>2, <2>1
    <3>2. QED
      BY <1>3, <1>7, <1>8, <3>1
  <2>2. CASE i # 1
    <3>1. i - 1 \in 1 .. m /\ 1 < i
      BY <1>1, <1>2, <2>2
    <3>2. QED
      BY <1>3, <1>6, <1>7, <1>8, <3>1
  <2>3. QED
    BY <2>1, <2>2
<1>12. tail' = Item(t, m - 1)
  <2>0. m \in Nat /\ i \in 1 .. m
    BY <1>1, <1>2
  <2>1. CASE i = m
    <3>1. i + 1 \notin 1 .. m /\ m - 1 \in Int /\ m - 1 < i /\ m - 1 = i - 1
      BY <2>0, <2>1
    <3>2. QED
      BY <1>3, <1>7, <1>8, <3>1
  <2>2. CASE i # m
    <3>1. i + 1 \in 1 .. m /\ m - 1 \in Int /\ ~(m - 1 < i) /\ (m - 1) + 1 = m
      BY <2>0, <2>2
    <3>2. QED
      BY <1>3, <1>6, <1>7, <1>8, <3>1
  <2>3. QED
    BY <2>1, <2>2
<1>13. ASSUME NEW j \in 1 .. m - 1
       PROVE  /\ next'[Item(t, j)] = Item(t, j + 1)
              /\ prev'[Item(t, j)] = Item(t, j - 1)
  <2>0. j \in Int /\ j + 1 \in Int /\ j - 1 \in Int /\ m \in Nat /\ i \in 1 .. m
    BY <1>1, <1>2
  <2>1. CASE j < i
    <3>1. j \in 1 .. m /\ j - 1 < i /\ j # i /\ (j + 1 = i \/ j + 1 < i)
          /\ (j + 1 = i <=> ~(j + 1 < i)) /\ (j = i - 1 <=> j + 1 = i) /\ j # i + 1
      BY <2>0, <2>1
    <3>2. /\ Item(t, j) = Item(s, j) /\ Item(t, j - 1) = Item(s, j - 1)
          /\ Item(t, j + 1) = IF j + 1 = i THEN q ELSE Item(s, j + 1)
      BY <1>3, <2>0, <2>1, <3>1
    <3>3. Item(s, j) # n /\ Item(s, j) # Null /\ Item(s, j) \in Nodes
      BY <1>1, <1>2, <3>1
    <3>4. Item(s, j) = p <=> j = i - 1
      BY <1>1, <1>7, <3>1, <3>3
    <3>5. Item(s, j) # q
      BY <1>1, <1>7, <3>1, <3>3
    <3>6. QED
      BY <1>1, <1>10, <3>1, <3>2, <3>3, <3>4, <3>5
  <2>2. CASE ~(j < i)
    <3>1. PICK k \in 1 .. m : k = j + 1 /\ k > i
      <4>1. j + 1 \in 1 .. m /\ j + 1 > i
        BY <2>0, <2>2
      <4>2. QED
        BY <4>1
    <3>2. /\ ~(j + 1 < i) /\ (j + 1) + 1 = k + 1 /\ k # i /\ k # i - 1
          /\ (j - 1 < i <=> k = i + 1) /\ (j - 1) + 1 = k - 1 /\ (k = i + 1 => j - 1 = i - 1)
      BY <2>0, <2>2, <3>1
    <3>3. /\ Item(t, j) = Item(s, k) /\ Item(t, j + 1) = Item(s, k + 1)
          /\ Item(t, j - 1) = IF k = i + 1 THEN p ELSE Item(s, k - 1)
      BY <1>3, <2>0, <2>2, <3>1, <3>2
    <3>4. Item(s, k) # n /\ Item(s, k) # Null /\ Item(s, k) \in Nodes
      BY <1>1, <1>2, <3>2
    <3>5. Item(s, k) # p
      BY <1>1, <1>7, <3>2, <3>4
    <3>6. Item(s, k) = q <=> k = i + 1
      BY <1>1, <1>7, <3>4
    <3>7. QED
      BY <1>1, <1>10, <3>3, <3>4, <3>5, <3>6
  <2>3. QED
    BY <2>1, <2>2
<1>14. Clean'
  <2>1. ASSUME NEW x \in Nodes \ used', x # n
        PROVE  next'[x] = Null /\ prev'[x] = Null
    <3>1. x \notin used /\ x \in Nodes /\ x # Null
      BY <1>1, <1>8, <2>1
    <3>2. x # p /\ x # q
      BY <1>1, <1>7, <3>1
    <3>3. QED
      BY <1>10, <2>1, <3>1, <3>2 DEF Clean
  <2>2. next'[n] = Null /\ prev'[n] = Null
    BY <1>7, <1>10
  <2>3. QED
    BY <2>1, <2>2 DEF Clean
<1>15. \A j \in 1 .. Len(t) : t[j] = Item(t, j)
  BY DEF Item
<1>16. Linked(t)'
  <2>1. \A j \in 1 .. Len(t) : next'[t[j]] = Item(t, j + 1) /\ prev'[t[j]] = Item(t, j - 1)
    BY <1>4, <1>13, <1>15
  <2> HIDE DEF p, q, n
  <2>2. QED
    BY <1>4, <1>8, <1>11, <1>12, <2>1 DEF Linked, Item
<1>17. QED
  BY <1>14, <1>16 DEF t

(* Where listnode_add_sort puts v: what is before is not greater, what is  *)
(* after it is.                                                            *)
Ordered(s, i, v) ==
    /\ \A j \in 1 .. i - 1 : data[s[j]] <= v
    /\ i <= Len(s) => v < data[s[i]]

(* What the nodes in use hold are numbers. *)
LEMMA DataOfLinked ==
    ASSUME List!ListAssumption, List!TypeOK, NEW s, Linked(s)
    PROVE  \A j \in 1 .. Len(s) : data[s[j]] \in Data /\ data[s[j]] \in Int /\ data[s[j]] # Null
<1>1. \A j \in 1 .. Len(s) : s[j] \in used /\ s[j] \in Nodes
  BY LinkedPlaces
<1>2. QED
  BY <1>1 DEF List!TypeOK, List!ListAssumption

(* The place before the first that is greater, or after the last. *)
LEMMA PlaceIs ==
    ASSUME List!ListAssumption, List!TypeOK, NEW s, Linked(s), NEW v \in Data
    PROVE  \E i \in 1 .. Len(s) + 1 :
              /\ List!Place(v) = Item(s, i)
              /\ (IF List!Place(v) = Null THEN tail ELSE prev[List!Place(v)]) = Item(s, i - 1)
              /\ cmp => Ordered(s, i, v)
<1> DEFINE G == {i \in DOMAIN s : cmp /\ v < data[s[i]]}
           m == Len(s)
<1>1. /\ s \in Seq(Nodes) /\ m \in Nat
      /\ \A j \in Int : Item(s, j) # Null <=> j \in 1 .. m
      /\ \A j \in 1 .. m : s[j] = Item(s, j) /\ prev[Item(s, j)] = Item(s, j - 1)
  BY LinkedPlaces
<1>2. /\ DOMAIN s = 1 .. m /\ v \in Int
      /\ \A j \in 1 .. m : data[s[j]] \in Int
  BY <1>1, DataOfLinked DEF List!ListAssumption
<1>3. List!Place(v) = IF G = {} THEN Null ELSE s[CHOOSE i \in G : \A j \in G : i <= j]
  <2> DEFINE C == List!Chain
             H == {i \in DOMAIN C : cmp /\ v < data[C[i]]}
  <2>1. List!Place(v) = IF H = {} THEN Null ELSE C[CHOOSE i \in H : \A j \in H : i <= j]
    BY DEF List!Place
  <2>2. C = s
    BY ChainIs
  <2> HIDE DEF C
  <2>3. H = G
    BY <2>2
  <2> HIDE DEF H, G
  <2>4. QED
    BY <2>1, <2>2, <2>3
<1>4. tail = Item(s, m)
  BY DEF Linked
<1>5. \A j \in 1 .. m : j \in G <=> cmp /\ v < data[s[j]]
  BY <1>2
<1>6. G \in SUBSET Nat /\ G \subseteq 1 .. m
  BY <1>2
<1> HIDE DEF m, G
<1>7. CASE G = {}
  <2>1. m + 1 \in 1 .. m + 1 /\ m + 1 \in Int /\ m + 1 \notin 1 .. m /\ (m + 1) - 1 = m /\ ~(m + 1 <= m)
    BY <1>1
  <2>2. List!Place(v) = Null /\ Item(s, m + 1) = Null
    BY <1>1, <1>3, <1>7, <2>1
  <2>3. cmp => \A j \in 1 .. (m + 1) - 1 : data[s[j]] <= v
    <3>1. (m + 1) - 1 = m
      BY <2>1
    <3>2. cmp => \A j \in 1 .. m : data[s[j]] <= v
      BY <1>2, <1>5, <1>7
    <3>3. QED
      BY <3>1, <3>2
  <2>4. cmp => Ordered(s, m + 1, v)
    BY <2>1, <2>3 DEF Ordered, m
  <2>5. QED
    BY <1>4, <2>1, <2>2, <2>4 DEF m
<1>8. CASE G # {}
  <2> DEFINE k == CHOOSE i \in G : \A j \in G : i <= j
  <2>1. k \in G /\ \A j \in G : k <= j
    BY <1>6, <1>8, LeastNat
  <2> HIDE DEF k
  <2>2. k \in 1 .. m /\ k \in 1 .. m + 1
    BY <1>1, <1>6, <2>1
  <2>3. List!Place(v) = s[k]
    BY <1>3, <1>8 DEF k
  <2>4. s[k] = Item(s, k) /\ s[k] # Null /\ prev[s[k]] = Item(s, k - 1)
    BY <1>1, <2>2
  <2>5. cmp => Ordered(s, k, v)
    <3>1. \A j \in 1 .. k - 1 : j \in 1 .. m /\ ~(k <= j)
      <4>1. m \in Nat /\ k \in 1 .. m
        BY <1>1, <2>2
      <4>2. QED
        BY <4>1
    <3>2. \A j \in 1 .. k - 1 : j \notin G /\ j \in 1 .. m
      BY <2>1, <3>1
    <3>3. cmp => \A j \in 1 .. k - 1 : data[s[j]] <= v
      BY <1>2, <1>5, <3>2
    <3>4. cmp => v < data[s[k]]
      BY <1>5, <2>1, <2>2
    <3>5. QED
      BY <3>3, <3>4 DEF Ordered
  <2>6. QED
    BY <2>2, <2>3, <2>4, <2>5 DEF m
<1>9. QED
  BY <1>7, <1>8

(* Whatever adds a node links it in between two neighbours. *)
LEMMA AddCases ==
    ASSUME List!ListAssumption, List!TypeOK, NEW s, Linked(s),
           NEW n \in Nodes \ used, NEW v \in Data, List!Add(n, v)
    PROVE  \E i \in 1 .. Len(s) + 1 :
              /\ List!Link(n, Item(s, i - 1), Item(s, i), v)
              /\ cmp => Ordered(s, i, v)
              /\ \/ count' = count + 1
                 \/ count' = count /\ \E p \in used \cup {Null} : List!AddAfter(n, p, v)
<1> DEFINE m == Len(s)
           Good(i) == /\ i \in 1 .. m + 1
                      /\ List!Link(n, Item(s, i - 1), Item(s, i), v)
                      /\ cmp => Ordered(s, i, v)
                      /\ \/ count' = count + 1
                         \/ count' = count /\ \E p \in used \cup {Null} : List!AddAfter(n, p, v)
<1>1. /\ s \in Seq(Nodes) /\ m \in Nat
      /\ \A j \in Int : Item(s, j) # Null <=> j \in 1 .. m
      /\ \A j \in 1 .. m : /\ next[Item(s, j)] = Item(s, j + 1)
                           /\ prev[Item(s, j)] = Item(s, j - 1)
      /\ \A x \in used : \E j \in 1 .. m : x = Item(s, j)
      /\ head = Item(s, 1) /\ tail = Item(s, m) /\ used \subseteq Nodes /\ Null \notin Nodes
  <2>1. head = Item(s, 1) /\ tail = Item(s, m)
    BY DEF Linked
  <2>2. QED
    BY <2>1, LinkedPlaces
<1>2. ASSUME List!AddSort(n, v) PROVE \E i : Good(i)
  <2>1. PICK i \in 1 .. m + 1 :
              /\ List!Place(v) = Item(s, i)
              /\ (IF List!Place(v) = Null THEN tail ELSE prev[List!Place(v)]) = Item(s, i - 1)
              /\ cmp => Ordered(s, i, v)
    BY PlaceIs
  <2>2. /\ List!Link(n, IF List!Place(v) = Null THEN tail ELSE prev[List!Place(v)], List!Place(v), v)
        /\ count' = count + 1
    BY <1>2 DEF List!AddSort
  <2>3. List!Link(n, Item(s, i - 1), Item(s, i), v)
    BY <2>1, <2>2
  <2>4. Good(i)
    BY <2>1, <2>2, <2>3
  <2>5. QED
    BY <2>4
<1> HIDE DEF m
<1>3. ASSUME ~cmp, List!AddOld(n, v) PROVE \E i : Good(i)
  <2>1. m + 1 \in 1 .. m + 1 /\ m + 1 \in Int /\ m + 1 \notin 1 .. m /\ (m + 1) - 1 = m
    BY <1>1
  <2>2. Item(s, m + 1) = Null /\ Item(s, (m + 1) - 1) = tail
    BY <1>1, <2>1
  <2>3. List!Link(n, Item(s, (m + 1) - 1), Item(s, m + 1), v) /\ count' = count + 1
    BY <1>3, <2>2 DEF List!AddOld
  <2>4. Good(m + 1)
    BY <1>3, <2>1, <2>3
  <2>5. QED
    BY <2>4
<1>4. ASSUME ~cmp, NEW p \in used \cup {Null}, List!AddAfter(n, p, v) PROVE \E i : Good(i)
  <2>1. List!Link(n, p, IF p = Null THEN head ELSE next[p], v) /\ count' = count
    BY <1>4 DEF List!AddAfter
  <2>2. CASE p = Null
    <3>1. 1 \in 1 .. m + 1 /\ 1 - 1 \in Int /\ 1 - 1 \notin 1 .. m
      BY <1>1
    <3>2. Item(s, 1 - 1) = Null
      BY <1>1, <3>1
    <3>3. List!Link(n, Item(s, 1 - 1), Item(s, 1), v)
      BY <1>1, <2>1, <2>2, <3>2
    <3>4. Good(1)
      BY <1>4, <2>1, <3>1, <3>3
    <3>5. QED
      BY <3>4
  <2>3. CASE p # Null
    <3>1. PICK j \in 1 .. m : p = Item(s, j)
      BY <1>1, <2>3
    <3>2. j + 1 \in 1 .. m + 1 /\ (j + 1) - 1 = j
      BY <1>1
    <3>3. List!Link(n, Item(s, (j + 1) - 1), Item(s, j + 1), v)
      BY <1>1, <2>1, <2>3, <3>1, <3>2
    <3>4. Good(j + 1)
      BY <1>4, <2>1, <3>2, <3>3
    <3>5. QED
      BY <3>4
  <2>4. QED
    BY <2>2, <2>3
<1>5. ASSUME ~cmp, NEW p \in used, List!AddPrev(n, p, v) PROVE \E i : Good(i)
  <2>1. List!Link(n, prev[p], p, v) /\ count' = count + 1
    BY <1>5 DEF List!AddPrev
  <2>2. PICK j \in 1 .. m : p = Item(s, j)
    BY <1>1
  <2>3. j \in 1 .. m + 1
    BY <1>1
  <2>4. List!Link(n, Item(s, j - 1), Item(s, j), v)
    BY <1>1, <2>1, <2>2
  <2>5. Good(j)
    BY <1>5, <2>1, <2>3, <2>4
  <2>6. QED
    BY <2>5
<1>6. ASSUME ~cmp, NEW p \in used, List!AddNext(n, p, v) PROVE \E i : Good(i)
  <2>1. List!Link(n, p, next[p], v) /\ count' = count + 1
    BY <1>6 DEF List!AddNext
  <2>2. PICK j \in 1 .. m : p = Item(s, j)
    BY <1>1
  <2>3. j + 1 \in 1 .. m + 1 /\ (j + 1) - 1 = j
    BY <1>1
  <2>4. List!Link(n, Item(s, (j + 1) - 1), Item(s, j + 1), v)
    BY <1>1, <2>1, <2>2, <2>3
  <2>5. Good(j + 1)
    BY <1>6, <2>1, <2>3, <2>4
  <2>6. QED
    BY <2>5
<1>7. \E i : Good(i)
  <2> HIDE DEF Good
  <2>1. QED
    BY <1>2, <1>3, <1>4, <1>5, <1>6 DEF List!Add, List!AddList
<1>8. QED
  BY <1>7 DEF m

(* ChainIs, to be used of the state after a step. *)
ChainLinked == List!ListAssumption => \A s : Linked(s) => List!Chain = s

LEMMA ChainOfLinked == ChainLinked
  BY ChainIs DEF ChainLinked

(* The same, after a step. *)
LEMMA ChainNext ==
    ASSUME List!ListAssumption, NEW s, Linked(s)' PROVE List!Chain' = s
<1>1. ChainLinked'
  BY ChainOfLinked, PTL
<1>2. QED
  BY <1>1 DEF ChainLinked, List!ListAssumption

(* What every function that adds does to the chain and to the data. *)
LEMMA LinkEffect ==
    ASSUME List!ListAssumption, List!TypeOK, Clean, NEW s, Linked(s),
           NEW n \in Nodes \ used, NEW v \in Data, NEW i \in 1 .. Len(s) + 1,
           List!Link(n, Item(s, i - 1), Item(s, i), v), count' \in Int
    PROVE  /\ ListInv' /\ List!Chain' = InsertAt(s, i, n)
           /\ data' = [data EXCEPT ![n] = v]
<1> DEFINE p == Item(s, i - 1)
           q == Item(s, i)
<1>1. Linked(InsertAt(s, i, n))' /\ Clean'
  BY LinkStep
<1>2. /\ p \in used \cup {Null} /\ q \in used \cup {Null} /\ used \subseteq Nodes /\ Null \notin Nodes
  <2>1. /\ Len(s) \in Nat
        /\ \A j \in Int : Item(s, j) # Null <=> j \in 1 .. Len(s)
        /\ \A j \in 1 .. Len(s) : Item(s, j) \in used
        /\ used \subseteq Nodes /\ Null \notin Nodes
    BY LinkedPlaces
  <2>2. i \in Int /\ i - 1 \in Int
    OBVIOUS
  <2>3. QED
    BY <2>1, <2>2
<1>3. List!Link(n, p, q, v)
  OBVIOUS
<1> HIDE DEF p, q
<1>4. List!TypeOK'
  <2>1. used' = used \cup {n} /\ data' = [data EXCEPT ![n] = v] /\ v # Null
    BY <1>3 DEF List!Link, List!ListAssumption
  <2>2. next' \in [Nodes -> used' \cup {Null}] /\ prev' \in [Nodes -> used' \cup {Null}]
    BY <1>2, <1>3 DEF List!Link, List!Put, List!TypeOK
  <2>3. head' \in used' \cup {Null} /\ tail' \in used' \cup {Null}
    BY <1>3 DEF List!Link, List!TypeOK
  <2>4. data' \in [Nodes -> Data \cup {Null}] /\ \A x \in used' : data'[x] # Null
    BY <2>1 DEF List!TypeOK
  <2>5. used' \subseteq Nodes
    BY <1>2, <2>1
  <2>6. QED
    BY <2>2, <2>3, <2>4, <2>5 DEF List!TypeOK
<1>5. List!Chain' = InsertAt(s, i, n)
  BY <1>1, ChainNext
<1>6. data' = [data EXCEPT ![n] = v]
  BY <1>3 DEF List!Link
<1>7. QED
  BY <1>1, <1>4, <1>5, <1>6 DEF ListInv

(* And every function that deletes one node. *)
LEMMA UnlinkEffect ==
    ASSUME List!ListAssumption, List!TypeOK, Clean, NEW s, Linked(s),
           NEW i \in 1 .. Len(s), List!Unlink(s[i])
    PROVE  /\ ListInv' /\ List!Chain' = RemoveAt(s, i) /\ count' = count - 1
           /\ data' = [data EXCEPT ![s[i]] = Null]
<1>1. Linked(RemoveAt(s, i))' /\ Clean'
  BY UnlinkStep
<1> DEFINE n == s[i]
           t == RemoveAt(s, i)
<1>2. n \in used /\ n \in Nodes /\ Null \notin Nodes /\ used \subseteq Nodes
  BY LinkedPlaces
<1>3. List!Unlink(n)
  OBVIOUS
<1>4. Linked(t)' /\ Clean'
  BY <1>1
<1> HIDE DEF n, t
<1>5. /\ used' = used \ {n} /\ data' = [data EXCEPT ![n] = Null] /\ count' = count - 1
      /\ next' = [List!Put(next, prev[n], next[n]) EXCEPT ![n] = Null]
      /\ prev' = [List!Put(prev, next[n], prev[n]) EXCEPT ![n] = Null]
  BY <1>3 DEF List!Unlink
<1>6. t \in Seq(Nodes) /\ ToSet(t) = used' /\ head' = Item(t, 1) /\ tail' = Item(t, Len(t))
      /\ \A j \in 1 .. Len(t) : next'[t[j]] = Item(t, j + 1) /\ prev'[t[j]] = Item(t, j - 1)
  BY <1>4 DEF Linked, Item
<1>7. List!TypeOK'
  <2>1. \A j : Item(t, j) \in used' \cup {Null}
    BY <1>6, InToSet DEF Item
  <2>2. head' \in used' \cup {Null} /\ tail' \in used' \cup {Null}
    BY <1>6, <2>1
  <2>3. DOMAIN next' = Nodes /\ DOMAIN prev' = Nodes
        /\ next' = [x \in Nodes |-> next'[x]] /\ prev' = [x \in Nodes |-> prev'[x]]
    BY <1>5 DEF List!Put, List!TypeOK
  <2>4. \A x \in Nodes : next'[x] \in used' \cup {Null} /\ prev'[x] \in used' \cup {Null}
    <3>1. \A x \in Nodes \ used' : next'[x] = Null /\ prev'[x] = Null
      BY <1>4 DEF Clean
    <3>2. \A x \in used' : \E j \in 1 .. Len(t) : x = t[j]
      BY <1>6, InToSet
    <3>3. \A x \in used' : next'[x] \in used' \cup {Null} /\ prev'[x] \in used' \cup {Null}
      BY <1>6, <2>1, <3>2
    <3>4. QED
      BY <3>1, <3>3
  <2>5. next' \in [Nodes -> used' \cup {Null}] /\ prev' \in [Nodes -> used' \cup {Null}]
    BY <2>3, <2>4
  <2>6. data' \in [Nodes -> Data \cup {Null}] /\ (\A x \in used' : data'[x] # Null) /\ count' \in Int
    BY <1>2, <1>5 DEF List!TypeOK
  <2>7. QED
    BY <1>2, <1>5, <2>2, <2>5, <2>6 DEF List!TypeOK
<1>8. List!Chain' = t
  BY <1>4, ChainNext
<1>9. QED
  BY <1>4, <1>5, <1>7, <1>8 DEF ListInv, n, t

(* And list_delete_all_node. *)
LEMMA DeleteAllEffect ==
    ASSUME List!ListAssumption, List!TypeOK, Clean, NEW s, Linked(s), List!DeleteAll
    PROVE  ListInv' /\ List!Chain' = <<>> /\ count' = 0
<1>1. List!ToSet(List!Chain) = used
  <2>1. List!Chain = s /\ ToSet(s) = used
    BY ChainIs DEF Linked
  <2>2. QED
    BY <2>1, SameLibrary
<1>2. /\ head' = Null /\ tail' = Null /\ count' = 0 /\ used' = {}
      /\ next' = [n \in Nodes |-> Null] /\ prev' = [n \in Nodes |-> Null]
      /\ data' = [n \in Nodes |-> IF n \in used THEN Null ELSE data[n]]
  BY <1>1 DEF List!DeleteAll, Clean
<1>3. Clean' /\ List!TypeOK'
  BY <1>2 DEF Clean, List!TypeOK
<1>4. Linked(<<>>)'
  <2>1. <<>> \in Seq(Nodes) /\ IsInjective(<<>>) /\ ToSet(<<>>) = {} /\ Len(<<>>) = 0
    BY DEF IsInjective, ToSet
  <2>2. QED
    BY <1>2, <2>1 DEF Linked, Item
<1>5. List!Chain' = <<>>
  BY <1>4, ChainNext
<1>6. QED
  BY <1>2, <1>3, <1>4, <1>5 DEF ListInv

(* What a step does to the chain. *)
Inserted ==
    \E n \in Nodes \ used, v \in Data, i \in 1 .. Len(List!Chain) + 1 :
        /\ List!Chain' = InsertAt(List!Chain, i, n) /\ data' = [data EXCEPT ![n] = v]
        /\ cmp => Ordered(List!Chain, i, v)
        /\ \/ count' = count + 1
           \/ count' = count /\ \E p \in used \cup {Null} : List!AddAfter(n, p, v)
Removed ==
    \E i \in 1 .. Len(List!Chain) :
        /\ List!Chain' = RemoveAt(List!Chain, i) /\ data' = [data EXCEPT ![List!Chain[i]] = Null]
        /\ count' = count - 1
Emptied == List!Chain' = <<>> /\ count' = 0

(* Every function of linklist.c does one of them, and keeps the invariant. *)
LEMMA ListStep ==
    ASSUME List!ListAssumption, ListInv, List!Next
    PROVE  ListInv' /\ cmp' = cmp /\ (UNCHANGED List!vars \/ Inserted \/ Removed \/ Emptied)
<1>1. PICK s : Linked(s)
  BY DEF ListInv
<1>2. List!Chain = s /\ s \in Seq(Nodes) /\ ToSet(s) = used
  BY <1>1, ChainIs DEF Linked
<1>3. List!TypeOK /\ Clean /\ count \in Int
  BY DEF ListInv, List!TypeOK
<1>4. ASSUME NEW n \in Nodes \ used, NEW v \in Data, List!Add(n, v)
      PROVE  ListInv' /\ Inserted
  <2>1. PICK i \in 1 .. Len(s) + 1 :
              /\ List!Link(n, Item(s, i - 1), Item(s, i), v)
              /\ cmp => Ordered(s, i, v)
              /\ \/ count' = count + 1
                 \/ count' = count /\ \E p \in used \cup {Null} : List!AddAfter(n, p, v)
    BY <1>1, <1>3, <1>4, AddCases
  <2>2. count' \in Int
    BY <1>3, <2>1
  <2>3. ListInv' /\ List!Chain' = InsertAt(s, i, n) /\ data' = [data EXCEPT ![n] = v]
    BY <1>1, <1>3, <2>1, <2>2, LinkEffect
  <2>4. QED
    BY <1>2, <2>1, <2>3 DEF Inserted
<1>5. ASSUME NEW i \in 1 .. Len(s), List!Unlink(s[i])
      PROVE  ListInv' /\ Removed
  <2>1. /\ ListInv' /\ List!Chain' = RemoveAt(s, i) /\ count' = count - 1
        /\ data' = [data EXCEPT ![s[i]] = Null]
    BY <1>1, <1>3, <1>5, UnlinkEffect
  <2>2. QED
    BY <1>2, <2>1 DEF Removed
<1>6. ASSUME NEW n \in used, List!Unlink(n)
      PROVE  ListInv' /\ Removed
  <2>1. PICK i \in 1 .. Len(s) : s[i] = n
    BY <1>2, InToSet
  <2>2. QED
    BY <1>5, <1>6, <2>1
<1>7. ASSUME NEW v \in Data, List!Delete(v)
      PROVE  ListInv' /\ (UNCHANGED <<List!vars, cmp>> \/ Removed)
  <2> DEFINE C == List!Chain
             H == {i \in DOMAIN C : data[C[i]] = v}
  <2>1. IF H = {} THEN UNCHANGED List!vars
        ELSE List!Unlink(C[CHOOSE i \in H : \A j \in H : i <= j])
    BY <1>7 DEF List!Delete
  <2>2. H \in SUBSET Nat /\ H \subseteq 1 .. Len(s)
    BY <1>2
  <2>3. C = s
    BY <1>2
  <2>4. cmp' = cmp
    BY DEF List!Next
  <2> HIDE DEF C, H
  <2>5. CASE H = {}
    <3>1. UNCHANGED List!vars /\ UNCHANGED <<List!vars, cmp>>
      BY <2>1, <2>4, <2>5
    <3>2. ListInv'
      <4>1. UNCHANGED <<head, tail, count, next, prev, data, used>>
        BY <3>1 DEF List!vars
      <4>2. Linked(s)'
        BY <1>1, <4>1 DEF Linked, Item
      <4>3. QED
        BY <1>3, <4>1, <4>2 DEF ListInv, List!TypeOK, Clean
    <3>3. QED
      BY <3>1, <3>2
  <2>6. CASE H # {}
    <3> DEFINE k == CHOOSE i \in H : \A j \in H : i <= j
    <3>1. k \in H
      BY <2>2, <2>6, LeastNat
    <3>2. List!Unlink(s[k])
      BY <2>1, <2>3, <2>6
    <3> HIDE DEF k
    <3>3. QED
      BY <1>5, <2>2, <3>1, <3>2
  <2>7. QED
    BY <2>5, <2>6
<1>8. ASSUME List!DeleteAll
      PROVE  ListInv' /\ Emptied
  BY <1>1, <1>3, <1>8, DeleteAllEffect DEF Emptied
<1>9. cmp' = cmp
  BY DEF List!Next
<1>10. QED
  BY <1>4, <1>6, <1>7, <1>8, <1>9 DEF List!Next

LEMMA ListStays ==
    ASSUME ListInv, UNCHANGED <<List!vars, cmp>>
    PROVE  ListInv' /\ List!Chain' = List!Chain
<1>1. UNCHANGED <<head, tail, count, next, prev, data, used>>
  BY DEF List!vars
<1>2. PICK s : Linked(s)
  BY DEF ListInv
<1>3. Linked(s)'
  BY <1>1, <1>2 DEF Linked, Item
<1>4. List!TypeOK' /\ Clean'
  BY <1>1 DEF ListInv, List!TypeOK, Clean
<1>5. List!Chain' = List!Chain
  BY <1>1 DEF List!Chain
<1>6. QED
  BY <1>3, <1>4, <1>5 DEF ListInv

LEMMA ListInitInv ==
    ASSUME List!ListAssumption, List!Init
    PROVE  ListInv /\ List!Chain = <<>>
<1>1. /\ head = Null /\ tail = Null /\ count = 0 /\ used = {}
      /\ next = [n \in Nodes |-> Null] /\ prev = [n \in Nodes |-> Null]
      /\ data = [n \in Nodes |-> Null]
  BY DEF List!Init
<1>2. Linked(<<>>)
  <2>1. <<>> \in Seq(Nodes) /\ IsInjective(<<>>) /\ ToSet(<<>>) = {} /\ Len(<<>>) = 0
    BY DEF IsInjective, ToSet
  <2>2. QED
    BY <1>1, <2>1 DEF Linked, Item
<1>3. List!TypeOK /\ Clean
  BY <1>1 DEF List!TypeOK, Clean
<1>4. List!Chain = <<>>
  BY <1>2, ChainIs
<1>5. QED
  BY <1>2, <1>3, <1>4 DEF ListInv

(* The order is there after any calls. *)
LEMMA ListInvHolds == List!ListAssumption => (List!Spec => []ListInv)
<1>1. SUFFICES ASSUME List!ListAssumption
               PROVE  List!Spec => []ListInv
  OBVIOUS
<1>2. List!Init => ListInv
  BY <1>1, ListInitInv
<1>3. ListInv /\ [List!Next]_<<List!vars, cmp>> => ListInv'
  BY <1>1, ListStep, ListStays
<1>4. QED
  BY <1>1, <1>2, <1>3, PTL DEF List!Spec

(* After any calls of linklist.c the nodes from the head on are the nodes  *)
(* allocated, each once; prev is next backwards and tail is the last: none *)
(* is lost, and none is visited after it was freed.                        *)
THEOREM WellFormedHolds == List!Spec => []WellFormed
<1>1. List!ListAssumption
  BY ListBounds
<1>2. ListInv => WellFormed
  BY <1>1, ChainWellFormed DEF WellFormed
<1>3. QED
  BY <1>1, <1>2, ListInvHolds, PTL

(* The count after one call. *)
LEMMA CountStep ==
    ASSUME List!ListAssumption, ListInv, List!Next
    PROVE  \/ UNCHANGED List!vars
           \/ count' - count = Len(List!Chain') - Len(List!Chain)
           \/ List!Chain' = <<>> /\ count' = 0
           \/ \E n \in Nodes, p \in used \cup {Null}, v \in Data : List!AddAfter(n, p, v)
<1>1. List!Chain \in Seq(Nodes) /\ Len(List!Chain) \in Nat /\ count \in Int
  BY ChainIs, LinkedPlaces DEF ListInv, List!TypeOK
<1>2. CASE Inserted
  <2>1. PICK n \in Nodes \ used, v \in Data, i \in 1 .. Len(List!Chain) + 1 :
        /\ List!Chain' = InsertAt(List!Chain, i, n)
        /\ \/ count' = count + 1
           \/ \E p \in used \cup {Null} : List!AddAfter(n, p, v)
    BY <1>2 DEF Inserted
  <2>2. Len(List!Chain') = Len(List!Chain) + 1
    BY <1>1, <2>1, InsertAtIs
  <2>3. CASE count' = count + 1
    BY <1>1, <2>2, <2>3
  <2>4. CASE \E p \in used \cup {Null} : List!AddAfter(n, p, v)
    BY <2>4
  <2>5. QED
    BY <2>1, <2>3, <2>4
<1>3. CASE Removed
  <2>1. PICK i \in 1 .. Len(List!Chain) :
        List!Chain' = RemoveAt(List!Chain, i) /\ count' = count - 1
    BY <1>3 DEF Removed
  <2>2. Len(List!Chain') = Len(List!Chain) - 1
    BY <1>1, <2>1, RemoveAtIs
  <2>3. QED
    BY <1>1, <2>1, <2>2
<1>4. CASE Emptied
  BY <1>4 DEF Emptied
<1>5. QED
  BY <1>2, <1>3, <1>4, ListStep

(* list->count goes up and down with the length of the list in every call  *)
(* but listnode_add_after, which does not count.                           *)
THEOREM CountFollowsHolds == List!Spec => CountFollows
<1>1. List!ListAssumption
  BY ListBounds
<1> DEFINE A == \/ count' - count = Len(List!Chain') - Len(List!Chain)
                \/ List!Chain' = <<>> /\ count' = 0
                \/ \E n \in Nodes, p \in used \cup {Null}, v \in Data : List!AddAfter(n, p, v)
<1>2. ListInv /\ [List!Next]_<<List!vars, cmp>> => [A]_(List!vars)
  BY <1>1, CountStep
<1> HIDE DEF A
<1>3. CountFollows <=> [][A]_(List!vars)
  BY DEF CountFollows, List!CountFollows, A
<1>4. QED
  BY <1>1, <1>2, <1>3, ListInvHolds, PTL DEF List!Spec

(* The data of the nodes of a sequence. *)
Mapped(s, d) == [k \in DOMAIN s |-> d[s[k]]]

(* They are as many, in the same places. *)
LEMMA MappedIs ==
    ASSUME NEW X, NEW d \in [Nodes -> X], NEW s \in Seq(Nodes)
    PROVE  /\ Mapped(s, d) \in Seq(X) /\ Len(Mapped(s, d)) = Len(s) /\ Len(s) \in Nat
           /\ DOMAIN Mapped(s, d) = 1 .. Len(s)
           /\ \A k \in 1 .. Len(s) : Mapped(s, d)[k] = d[s[k]]
<1>1. /\ DOMAIN s = 1 .. Len(s) /\ Len(s) \in Nat
      /\ \A k \in 1 .. Len(s) : s[k] \in Nodes /\ d[s[k]] \in X
  OBVIOUS
<1>2. Mapped(s, d) \in [1 .. Len(s) -> X]
  BY <1>1 DEF Mapped
<1>3. Mapped(s, d) \in Seq(X) /\ Len(Mapped(s, d)) = Len(s)
  BY <1>1, <1>2
<1>4. QED
  BY <1>1, <1>3 DEF Mapped

(* What can be put into such a sequence. *)
Fits(X, d, s, i, v) == d \in [Nodes -> X] /\ s \in Seq(Nodes) /\ i \in 1 .. Len(s) + 1 /\ v \in X

LEMMA InsertIntoMapped ==
    ASSUME NEW X, NEW d, NEW s, NEW i, NEW v, Fits(X, d, s, i, v)
    PROVE  /\ InsertAt(Mapped(s, d), i, v) \in Seq(X)
           /\ Len(InsertAt(Mapped(s, d), i, v)) = Len(s) + 1
           /\ \A k \in 1 .. Len(s) + 1 :
                InsertAt(Mapped(s, d), i, v)[k] = IF k < i THEN Mapped(s, d)[k]
                                                  ELSE IF k = i THEN v ELSE Mapped(s, d)[k - 1]
<1>1. PICK c \in Seq(X) : c = Mapped(s, d) /\ Len(c) = Len(s)
  BY MappedIs DEF Fits
<1>2. i \in 1 .. Len(c) + 1 /\ v \in X
  BY <1>1 DEF Fits
<1>3. /\ InsertAt(c, i, v) \in Seq(X) /\ Len(InsertAt(c, i, v)) = Len(c) + 1
      /\ \A k \in 1 .. Len(c) + 1 : InsertAt(c, i, v)[k] = IF k < i THEN c[k]
                                       ELSE IF k = i THEN v ELSE c[k - 1]
  BY <1>2, InsertAtIs
<1>4. QED
  BY <1>1, <1>3

(* The one is the other but for one node. *)
ButFor(n, d, e) == \A x \in Nodes : x # n => e[x] = d[x]

(* A node that is not among them can be inserted, with what it will hold. *)
MayInsert(X, d, e, s, i, n) ==
    /\ d \in [Nodes -> X] /\ e \in [Nodes -> X] /\ ButFor(n, d, e)
    /\ s \in Seq(Nodes) /\ i \in 1 .. Len(s) + 1 /\ n \in Nodes /\ n \notin ToSet(s)

(* The data after a node is inserted, and after one is removed. *)
LEMMA MappedInsert ==
    ASSUME NEW X, NEW d, NEW e, NEW s, NEW i, NEW n, MayInsert(X, d, e, s, i, n)
    PROVE  Mapped(InsertAt(s, i, n), e) = InsertAt(Mapped(s, d), i, e[n])
<1>0. /\ d \in [Nodes -> X] /\ e \in [Nodes -> X] /\ ButFor(n, d, e)
      /\ s \in Seq(Nodes) /\ i \in 1 .. Len(s) + 1 /\ n \in Nodes /\ n \notin ToSet(s)
  BY DEF MayInsert
<1> DEFINE m == Len(s)
           t == InsertAt(s, i, n)
           a == Mapped(t, e)
           b == InsertAt(Mapped(s, d), i, e[n])
<1>1. /\ t \in Seq(Nodes) /\ Len(t) = m + 1 /\ m \in Nat
      /\ \A k \in 1 .. m + 1 : t[k] = IF k < i THEN s[k] ELSE IF k = i THEN n ELSE s[k - 1]
  BY <1>0, InsertAtIs
<1>2. e \in [Nodes -> X] /\ e[n] \in X /\ \A x \in Nodes : x # n => e[x] = d[x]
  BY <1>0 DEF ButFor
<1>3. \A k \in 1 .. m : s[k] # n /\ s[k] \in Nodes
  BY <1>0, InToSet
<1>4. /\ Mapped(s, d) \in Seq(X) /\ Len(Mapped(s, d)) = m
      /\ \A k \in 1 .. m : Mapped(s, d)[k] = d[s[k]]
  BY <1>0, MappedIs
<1>5. /\ b \in Seq(X) /\ Len(b) = m + 1
      /\ \A k \in 1 .. m + 1 : b[k] = IF k < i THEN Mapped(s, d)[k]
                                       ELSE IF k = i THEN e[n] ELSE Mapped(s, d)[k - 1]
  <2>1. Fits(X, d, s, i, e[n])
    BY <1>0, <1>2 DEF Fits
  <2>2. /\ InsertAt(Mapped(s, d), i, e[n]) \in Seq(X)
        /\ Len(InsertAt(Mapped(s, d), i, e[n])) = Len(s) + 1
        /\ \A k \in 1 .. Len(s) + 1 :
             InsertAt(Mapped(s, d), i, e[n])[k] = IF k < i THEN Mapped(s, d)[k]
                                               ELSE IF k = i THEN e[n] ELSE Mapped(s, d)[k - 1]
    BY <2>1, InsertIntoMapped
  <2>3. QED
    BY <2>1, <2>2
<1> HIDE DEF t
<1>6. /\ a \in Seq(X) /\ Len(a) = m + 1 /\ \A k \in 1 .. m + 1 : a[k] = e[t[k]]
  <2>1. PICK u \in Seq(Nodes) : u = t
    BY <1>1
  <2>2. /\ Mapped(u, e) \in Seq(X) /\ Len(Mapped(u, e)) = Len(u)
        /\ \A k \in 1 .. Len(u) : Mapped(u, e)[k] = e[u[k]]
    BY <1>2, MappedIs
  <2>3. QED
    BY <1>1, <2>1, <2>2
<1>7. i \in 1 .. m + 1
  BY <1>0
<1> HIDE DEF m, a, b
<1>8. \A k \in 1 .. m + 1 : /\ k < i => k \in 1 .. m
                            /\ ~(k < i) /\ k # i => k - 1 \in 1 .. m
  BY <1>1, <1>7
<1>9. ASSUME NEW k \in 1 .. m + 1
      PROVE  a[k] = b[k]
  <2>1. CASE k < i
    <3>1. PICK j \in 1 .. m : j = k
      BY <1>8, <2>1
    <3>2. t[k] = s[k] /\ b[k] = Mapped(s, d)[k]
      BY <1>1, <1>5, <2>1
    <3>3. a[k] = e[s[j]] /\ b[k] = Mapped(s, d)[j]
      BY <1>6, <3>1, <3>2
    <3>4. QED
      BY <1>2, <1>3, <1>4, <3>3
  <2>2. CASE ~(k < i) /\ k = i
    BY <1>1, <1>2, <1>5, <1>6, <2>2
  <2>3. CASE ~(k < i) /\ k # i
    <3>1. PICK j \in 1 .. m : j = k - 1
      BY <1>8, <2>3
    <3>2. a[k] = e[s[j]] /\ b[k] = Mapped(s, d)[j]
      <4>1. t[k] = s[k - 1] /\ b[k] = Mapped(s, d)[k - 1]
        BY <1>1, <1>5, <2>3
      <4>2. QED
        BY <1>6, <3>1, <4>1
    <3>3. QED
      BY <1>2, <1>3, <1>4, <3>2
  <2>4. QED
    BY <2>1, <2>2, <2>3
<1>10. a = b
  BY <1>5, <1>6, <1>9, SameSequence
<1>11. QED
  BY <1>10 DEF a, b, t

LEMMA MappedRemove ==
    ASSUME NEW X, NEW d \in [Nodes -> X], NEW s \in Seq(Nodes), IsInjective(s),
           NEW i \in 1 .. Len(s),
           NEW e \in [Nodes -> X], ButFor(s[i], d, e)
    PROVE  Mapped(RemoveAt(s, i), e) = RemoveAt(Mapped(s, d), i)
<1> DEFINE m == Len(s)
           t == RemoveAt(s, i)
           a == Mapped(t, e)
           b == RemoveAt(Mapped(s, d), i)
<1>1. /\ t \in Seq(Nodes) /\ Len(t) = m - 1 /\ m \in Nat
      /\ \A k \in 1 .. m - 1 : t[k] = IF k < i THEN s[k] ELSE s[k + 1]
  BY RemoveAtIs
<1>2. e \in [Nodes -> X] /\ \A x \in Nodes : x # s[i] => e[x] = d[x]
  BY DEF ButFor
<1>3. \A k \in 1 .. m : s[k] \in Nodes /\ (k # i => s[k] # s[i])
  BY InToSet
<1>4. /\ Mapped(s, d) \in Seq(X) /\ Len(Mapped(s, d)) = m
      /\ \A k \in 1 .. m : Mapped(s, d)[k] = d[s[k]]
  BY MappedIs
<1>5. /\ b \in Seq(X) /\ Len(b) = m - 1
      /\ \A k \in 1 .. m - 1 : b[k] = IF k < i THEN Mapped(s, d)[k] ELSE Mapped(s, d)[k + 1]
  <2> DEFINE c == Mapped(s, d)
  <2>1. c \in Seq(X) /\ i \in 1 .. Len(c) /\ Len(c) = m
    BY <1>4
  <2> HIDE DEF c
  <2>2. /\ RemoveAt(c, i) \in Seq(X) /\ Len(RemoveAt(c, i)) = Len(c) - 1
        /\ \A k \in 1 .. Len(c) - 1 : RemoveAt(c, i)[k] = IF k < i THEN c[k] ELSE c[k + 1]
    BY <2>1, RemoveAtIs
  <2>3. QED
    BY <2>1, <2>2 DEF c
<1> HIDE DEF t
<1>6. /\ a \in Seq(X) /\ Len(a) = m - 1 /\ \A k \in 1 .. m - 1 : a[k] = e[t[k]]
  <2>1. PICK u \in Seq(Nodes) : u = t
    BY <1>1
  <2>2. /\ Mapped(u, e) \in Seq(X) /\ Len(Mapped(u, e)) = Len(u)
        /\ \A k \in 1 .. Len(u) : Mapped(u, e)[k] = e[u[k]]
    BY MappedIs
  <2>3. QED
    BY <1>1, <2>1, <2>2
<1>7. i \in 1 .. m
  OBVIOUS
<1> HIDE DEF m, a, b
<1>8. \A k \in 1 .. m - 1 : /\ k < i => k \in 1 .. m /\ k # i
                            /\ ~(k < i) => k + 1 \in 1 .. m /\ k + 1 # i
  BY <1>1, <1>7
<1>9. ASSUME NEW k \in 1 .. m - 1
      PROVE  a[k] = b[k]
  <2>1. PICK j \in 1 .. m : j # i /\ j = IF k < i THEN k ELSE k + 1
    BY <1>8
  <2>2. a[k] = e[s[j]] /\ b[k] = Mapped(s, d)[j]
    BY <1>1, <1>5, <1>6, <2>1
  <2>3. QED
    BY <1>2, <1>3, <1>4, <2>1, <2>2
<1>10. a = b
  BY <1>5, <1>6, <1>9, SameSequence
<1>11. QED
  BY <1>10 DEF a, b, t

-----------------------------------------------------------------------------
(* What the users of the list see of it. *)
Seen == Mapped(List!Chain, data)

(* A call of linklist.c, seen so. *)
LEMMA SeqInserted ==
    ASSUME List!ListAssumption, ListInv, Inserted
    PROVE  \E v \in Data, i \in 1 .. Len(Seen) + 1 :
              /\ cmp => (\A j \in 1 .. i - 1 : Seen[j] <= v) /\ (i <= Len(Seen) => v < Seen[i])
              /\ Seen' = InsertAt(Seen, i, v)
<1>1. PICK s : Linked(s)
  BY DEF ListInv
<1>2. List!Chain = s /\ s \in Seq(Nodes) /\ ToSet(s) = used
  BY <1>1, ChainIs DEF Linked
<1>3. data \in [Nodes -> Data \cup {Null}] /\ used \subseteq Nodes
  BY DEF ListInv, List!TypeOK
<1>4. PICK n \in Nodes \ used, v \in Data, i \in 1 .. Len(s) + 1 :
        /\ List!Chain' = InsertAt(s, i, n) /\ data' = [data EXCEPT ![n] = v]
        /\ cmp => Ordered(s, i, v)
  BY <1>2 DEF Inserted
<1>5. Seen = Mapped(s, data) /\ Seen' = Mapped(InsertAt(s, i, n), data')
  BY <1>2, <1>4 DEF Seen
<1>6. Mapped(InsertAt(s, i, n), data') = InsertAt(Mapped(s, data), i, v)
  <2> DEFINE T == Data \cup {Null}
  <2>1. /\ s \in Seq(Nodes) /\ n \in Nodes /\ n \notin ToSet(s) /\ v \in T /\ data \in [Nodes -> T]
        /\ i \in 1 .. Len(s) + 1
        /\ data' \in [Nodes -> T] /\ data'[n] = v /\ ButFor(n, data, data')
    BY <1>2, <1>3, <1>4 DEF ButFor
  <2> HIDE DEF T
  <2>2. MayInsert(T, data, data', s, i, n)
    BY <2>1 DEF MayInsert
  <2>3. Mapped(InsertAt(s, i, n), data') = InsertAt(Mapped(s, data), i, data'[n])
    BY <2>2, MappedInsert
  <2>4. QED
    BY <2>1, <2>3
<1>7. Seen' = InsertAt(Seen, i, v)
  BY <1>5, <1>6
<1>8. Len(Seen) = Len(s) /\ Len(s) \in Nat /\ \A k \in 1 .. Len(s) : Seen[k] = data[s[k]]
  <2>1. s \in Seq(Nodes)
    BY <1>2
  <2>2. /\ Len(Mapped(s, data)) = Len(s) /\ Len(s) \in Nat
        /\ \A k \in 1 .. Len(s) : Mapped(s, data)[k] = data[s[k]]
    BY <1>3, <2>1, MappedIs
  <2>3. QED
    BY <1>5, <2>2
<1>9. cmp => (\A j \in 1 .. i - 1 : Seen[j] <= v) /\ (i <= Len(Seen) => v < Seen[i])
  <2>1. \A j \in 1 .. i - 1 : j \in 1 .. Len(s)
    BY <1>8
  <2>2. i <= Len(s) => i \in 1 .. Len(s)
    BY <1>8
  <2>3. QED
    BY <1>4, <1>8, <2>1, <2>2 DEF Ordered
<1>10. QED
  BY <1>7, <1>8, <1>9

LEMMA SeqRemoved ==
    ASSUME List!ListAssumption, ListInv, Removed
    PROVE  \E i \in DOMAIN Seen : Seen' = RemoveAt(Seen, i)
<1>1. PICK s : Linked(s)
  BY DEF ListInv
<1>2. List!Chain = s /\ s \in Seq(Nodes) /\ IsInjective(s)
  BY <1>1, ChainIs DEF Linked
<1>3. data \in [Nodes -> Data \cup {Null}] /\ Null \in Data \cup {Null}
  BY DEF ListInv, List!TypeOK
<1>4. PICK i \in 1 .. Len(s) :
        List!Chain' = RemoveAt(s, i) /\ data' = [data EXCEPT ![s[i]] = Null]
  BY <1>2 DEF Removed
<1>5. Seen = Mapped(s, data) /\ Seen' = Mapped(RemoveAt(s, i), data')
  BY <1>2, <1>4 DEF Seen
<1>6. Mapped(RemoveAt(s, i), data') = RemoveAt(Mapped(s, data), i)
  <2> DEFINE T == Data \cup {Null}
  <2>1. /\ s \in Seq(Nodes) /\ IsInjective(s) /\ Null \in T /\ data \in [Nodes -> T]
        /\ i \in 1 .. Len(s)
        /\ data' \in [Nodes -> T] /\ ButFor(s[i], data, data')
    BY <1>2, <1>3, <1>4 DEF ButFor
  <2> HIDE DEF T
  <2>2. QED
    BY <2>1, MappedRemove
<1>7. DOMAIN Seen = 1 .. Len(s)
  BY <1>2, <1>3, <1>5, MappedIs
<1>8. QED
  BY <1>5, <1>6, <1>7

LEMMA SeqSteps ==
    ASSUME List!ListAssumption, ListInv, List!Next
    PROVE  List!L!Next \/ UNCHANGED <<Seen, cmp>>
<1>1. /\ \A s, i, v : List!L!InsertAt(s, i, v) = InsertAt(s, i, v)
      /\ \A s, i : List!L!RemoveAt(s, i) = RemoveAt(s, i)
  BY DEF List!L!InsertAt, InsertAt, List!L!RemoveAt, RemoveAt
<1>2. cmp' = cmp /\ (UNCHANGED List!vars \/ Inserted \/ Removed \/ Emptied)
  BY ListStep
<1>3. CASE UNCHANGED List!vars
  BY <1>2, <1>3 DEF List!vars, Seen, List!Chain, Mapped
<1>4. CASE Inserted
  <2>1. PICK v \in Data, i \in 1 .. Len(Seen) + 1 :
              /\ cmp => (\A j \in 1 .. i - 1 : Seen[j] <= v) /\ (i <= Len(Seen) => v < Seen[i])
              /\ Seen' = InsertAt(Seen, i, v)
    BY <1>4, SeqInserted
  <2>2. List!L!Insert(v)
    BY <1>1, <2>1 DEF List!L!Insert, Seen, Mapped
  <2>3. QED
    BY <1>2, <2>2 DEF List!L!Next
<1>5. CASE Removed
  <2>1. List!L!Delete
    BY <1>1, <1>5, SeqRemoved DEF List!L!Delete, Seen, Mapped
  <2>2. QED
    BY <1>2, <2>1 DEF List!L!Next
<1>6. CASE Emptied
  <2>1. Seen' = <<>>
    BY <1>6 DEF Emptied, Seen, Mapped
  <2>2. List!L!Clear
    BY <2>1 DEF List!L!Clear, Seen, Mapped
  <2>3. QED
    BY <1>2, <2>2 DEF List!L!Next
<1>7. QED
  BY <1>2, <1>3, <1>4, <1>5, <1>6

(* A struct list is a sequence of data to its users: every call inserts    *)
(* one, removes one or empties it, the others keep their order, and what   *)
(* listnode_add puts into a sorted list is put before the first that is    *)
(* greater and after those that are not.                                   *)
THEOREM ImplementsSeqHolds == List!Spec => ImplementsSeq
<1>1. List!ListAssumption
  BY ListBounds
<1>2. List!Init => List!L!Init
  <2>1. ASSUME List!Init PROVE List!L!Init
    <3>1. Seen = <<>> /\ cmp \in BOOLEAN
      BY <1>1, <2>1, ListInitInv DEF Seen, Mapped, List!Init
    <3>2. QED
      BY <3>1 DEF List!L!Init, Seen, Mapped
  <2>2. QED
    BY <2>1
<1>3. ListInv /\ [List!Next]_<<List!vars, cmp>>
      => [List!L!Next]_<<[i \in DOMAIN List!Chain |-> data[List!Chain[i]]], cmp>>
  <2>1. Seen = [i \in DOMAIN List!Chain |-> data[List!Chain[i]]]
    BY DEF Seen, Mapped
  <2>2. Seen' = [i \in DOMAIN List!Chain' |-> data'[List!Chain'[i]]]
    BY DEF Seen, Mapped
  <2>3. ASSUME ListInv, UNCHANGED <<List!vars, cmp>> PROVE UNCHANGED <<Seen, cmp>>
    BY <2>3, ListStays DEF Seen, Mapped, List!vars
  <2>4. QED
    BY <1>1, <2>1, <2>2, <2>3, SeqSteps
<1>4. QED
  BY <1>1, <1>2, <1>3, ListInvHolds, PTL DEF List!Spec, ImplementsSeq, List!ImplementsSeq, List!L!Spec

-----------------------------------------------------------------------------
(* Processes: the invariant *)

Kids == Procs \ {"shell"}

AllClosed == [s \in Slots |-> "closed"]
BothEnds  == [s \in Slots |-> CASE s = "pipe0" -> "read" [] s = "pipe1" -> "write" [] OTHER -> "tty"]
OneEnd(p) == [BothEnds EXCEPT ![Other(p)] = "closed"]
Joined(p) == [s \in Slots |-> IF s = Std(p) THEN BothEnds[Own(p)]
                              ELSE IF s \in {"stdin", "stdout"} THEN "tty" ELSE "closed"]

(* Where each process can be.                                              *)
Control ==
    /\ pc["shell"] \in {"prompt", "wait4", "back"}
    /\ pc["shell"] = "prompt" => op = "none"
    /\ op = "none" => pc["shell"] = "prompt" /\ pc["customer"] = "none"
    /\ op = "single" => pc["customer"] \in {"none", "exec", "tool", "dead"}
    /\ pc["customer"] \in {"none", "pipe", "fork"} \/ op = "single" => pc["producer"] = "none"
    /\ pc["customer"] \in {"close", "dup2", "exec", "tool"} /\ op = "pipe" => pc["producer"] # "none"
    /\ pc["producer"] \in {"none", "close", "dup2", "exec", "tool", "returned", "dead"}
    /\ pc["customer"] \notin {"prompt", "wait4", "back"}

(* What it holds there.  A child that has returned holds what it had when  *)
(* the call failed.                                                        *)
Holds(p) ==
    /\ pc[p] \in {"none", "pipe"} => fd[p] = Terminal
    /\ pc[p] \in {"fork", "close"} => fd[p] = BothEnds
    /\ pc[p] = "dup2" => fd[p] = OneEnd(p)
    /\ pc[p] \in {"exec", "tool"} => fd[p] = IF op = "pipe" THEN Joined(p) ELSE Terminal
    /\ pc[p] = "dead" => fd[p] = AllClosed
    /\ p = "producer" /\ pc[p] = "returned" => \E s \in Slots : fd[p][s] = "write"

(* What the shell has of a child of cmd_execute_system_command.            *)
Ends ==
    /\ op = "none" => ~failed /\ status = "run" /\ result = "none"
    /\ op = "single" =>
         /\ pc["customer"] \in {"exec", "tool"} => ~failed /\ status = "run" /\ result = "none"
         /\ pc["customer"] = "none" => result = "negative"
         /\ pc["customer"] = "dead" /\ status = "zero" => ~failed
         /\ result = "zero" => status = "zero" /\ pc["customer"] = "dead"
         /\ pc["shell"] = "wait4" => result = "none"

IInv ==
    /\ TypeOK /\ got \in Nat
    /\ Control
    /\ Holds("customer") /\ Holds("producer")
    /\ Ends

-----------------------------------------------------------------------------
(* Initially *)

LEMMA InitInv == Init => IInv
  <1> SUFFICES ASSUME Init PROVE IInv
    OBVIOUS
  <1>1. /\ pc["shell"] = "prompt" /\ pc["customer"] = "none" /\ pc["producer"] = "none"
        /\ pc \in [Procs -> {"prompt", "none"}]
    BY DEF Init, Procs
  <1>2. \A p \in Procs : fd[p] = Terminal
    BY DEF Init
  <1>3. Terminal \in [Slots -> {"tty", "read", "write", "closed"}]
    BY DEF Terminal
  <1>4. TypeOK /\ got \in Nat
    <2>1. fd \in [Procs -> [Slots -> {"tty", "read", "write", "closed"}]]
      BY <1>3 DEF Init
    <2>2. /\ written = 0 /\ pipe = 0 /\ got = 0 /\ failed = FALSE
          /\ op = "none" /\ status = "run" /\ result = "none"
      BY DEF Init
    <2>3. written \in 0 .. Lines /\ pipe \in 0 .. Capacity /\ written = got + pipe
      BY <2>2, ProcessAssumption
    <2> QED  BY <1>1, <2>1, <2>2, <2>3 DEF TypeOK
  <1>5. Control
    BY <1>1 DEF Init, Control
  <1>6. Holds("customer") /\ Holds("producer")
    BY <1>1, <1>2 DEF Holds, Procs
  <1>7. Ends
    BY DEF Init, Ends
  <1> QED  BY <1>4, <1>5, <1>6, <1>7 DEF IInv

-----------------------------------------------------------------------------
(* Steps of one process *)

(* A child that takes a step while the others stay where they are.         *)
LEMMA OtherHolds ==
    ASSUME NEW p, Holds(p), pc'[p] = pc[p], fd'[p] = fd[p], op' = op
    PROVE  Holds(p)'
  BY DEF Holds

(* A child's step within its function or its tool: what is left to show of *)
(* it is what it holds then, and how it ends.                              *)
LEMMA ChildStep ==
    ASSUME IInv, NEW p \in {"customer", "producer"}, NEW there,
           pc' = [pc EXCEPT ![p] = there], op' = op, fd' \in [Procs -> [Slots -> {"tty", "read", "write", "closed"}]],
           \A q \in Procs \ {p} : fd'[q] = fd[q],
           there \in {"close", "dup2", "exec", "tool", "returned", "dead"}
              \/ (p = "customer" /\ there = "fork"),
           pc[p] # "none", op # "none",
           there = "fork" => pc[p] = "pipe",
           there \in {"close", "dup2", "exec", "tool"} => pc[p] \in {"close", "dup2", "exec", "tool"},
           op = "single" => there \in {"tool", "dead"},
           Holds(p)'
    PROVE  pc' \in [Procs -> {"prompt", "wait4", "back", "none", "pipe", "fork", "close", "dup2", "exec",
                              "tool", "returned", "dead"}]
           /\ Control' /\ Holds("customer")' /\ Holds("producer")'
  <1> USE DEF IInv
  <1>1. pc \in [Procs -> {"prompt", "wait4", "back", "none", "pipe", "fork", "close", "dup2", "exec",
                          "tool", "returned", "dead"}]
    BY DEF TypeOK
  <1>2. p \in Procs /\ Procs = {"shell", "customer", "producer"}
    BY DEF Procs
  <1>3. pc'[p] = there /\ \A q \in Procs \ {p} : pc'[q] = pc[q]
    BY <1>1, <1>2
  <1>4. pc' \in [Procs -> {"prompt", "wait4", "back", "none", "pipe", "fork", "close", "dup2", "exec",
                          "tool", "returned", "dead"}]
    BY <1>1, <1>2
  <1>5. Holds("customer")' /\ Holds("producer")'
    BY <1>2, <1>3, OtherHolds
  <1>6. pc'["shell"] = pc["shell"]
    BY <1>2, <1>3
  <1>7. CASE p = "customer"
    <2>1. pc'["producer"] = pc["producer"] /\ pc'["customer"] = there
      BY <1>2, <1>3, <1>7
    <2> QED  BY <1>4, <1>5, <1>6, <1>7, <2>1 DEF Control
  <1>8. CASE p = "producer"
    <2>1. pc'["customer"] = pc["customer"] /\ pc'["producer"] = there
      BY <1>2, <1>3, <1>8
    <2> QED  BY <1>4, <1>5, <1>6, <1>8, <2>1 DEF Control
  <1> QED  BY <1>7, <1>8

LEMMA ClosedFds == AllClosed \in [Slots -> {"tty", "read", "write", "closed"}]
  BY DEF AllClosed

LEMMA EndInv ==
    ASSUME IInv, NEW p \in {"customer", "producer"}, NEW how \in {"zero", "nonzero", "signal"}, End(p, how),
           pc[p] \in {"exec", "tool", "returned"}, op = "single" => pc[p] # "returned",
           pipe' = pipe, written' = written, got' = got, failed' = failed \/ (failed' = TRUE /\ how = "nonzero")
    PROVE  IInv'
  <1> USE DEF IInv
  <1>1. /\ pc' = [pc EXCEPT ![p] = "dead"]
        /\ fd' = [fd EXCEPT ![p] = AllClosed]
        /\ status' = IF p = "customer" THEN how ELSE status
        /\ op' = op /\ result' = result
    BY DEF End, Goto, AllClosed
  <1>2. p \in Procs /\ pc \in [Procs -> {"prompt", "wait4", "back", "none", "pipe", "fork", "close", "dup2",
                                         "exec", "tool", "returned", "dead"}]
        /\ fd \in [Procs -> [Slots -> {"tty", "read", "write", "closed"}]]
    BY DEF TypeOK, Procs
  <1>3. /\ fd' \in [Procs -> [Slots -> {"tty", "read", "write", "closed"}]]
        /\ fd'[p] = AllClosed /\ \A q \in Procs \ {p} : fd'[q] = fd[q]
    BY <1>1, <1>2, ClosedFds
  <1>4. pc'[p] = "dead" /\ \A q \in Procs \ {p} : pc'[q] = pc[q]
    BY <1>1, <1>2
  <1>5. Holds(p)'
    BY <1>3, <1>4 DEF Holds
  <1>6. op # "none" /\ pc[p] # "none"
    BY DEF Control
  <1>7. /\ pc' \in [Procs -> {"prompt", "wait4", "back", "none", "pipe", "fork", "close", "dup2", "exec",
                              "tool", "returned", "dead"}]
        /\ Control' /\ Holds("customer")' /\ Holds("producer")'
    <2> HIDE DEF IInv
    <2> QED  BY <1>1, <1>3, <1>5, <1>6, ChildStep
  <1>8. TypeOK' /\ got' \in Nat
    BY <1>1, <1>3, <1>7 DEF TypeOK
  <1>9. Ends'
    <2>1. CASE op = "single"
      <3>1. p = "customer"
        BY <2>1 DEF Control
      <3>2. pc'["customer"] = "dead" /\ pc'["shell"] = pc["shell"] /\ status' = how
        BY <1>1, <1>4, <3>1 DEF Procs
      <3>3. ~failed /\ result = "none"
        BY <2>1, <3>1 DEF Ends
      <3> QED  BY <1>1, <2>1, <3>2, <3>3 DEF Ends
    <2>2. CASE op # "single"
      BY <1>1, <1>6, <2>2 DEF Ends
    <2> QED  BY <2>1, <2>2
  <1> QED  BY <1>7, <1>8, <1>9

(* A step of a child that does not end it: what it holds then is left.     *)
LEMMA GoesOnInv ==
    ASSUME IInv, NEW p \in {"customer", "producer"}, NEW there,
           pc' = [pc EXCEPT ![p] = there], op' = op, fd' \in [Procs -> [Slots -> {"tty", "read", "write", "closed"}]],
           \A q \in Procs \ {p} : fd'[q] = fd[q],
           there \in {"close", "dup2", "exec", "tool", "returned"} \/ (p = "customer" /\ there = "fork"),
           pc[p] \in {"pipe", "fork", "close", "dup2", "exec"},
           there = "fork" => pc[p] = "pipe",
           there \in {"close", "dup2", "exec", "tool"} => pc[p] \in {"close", "dup2", "exec"},
           op = "single" => there = "tool" /\ pc[p] = "exec",
           there = "returned" \/ failed' = failed, failed' \in BOOLEAN,
           status' = status, result' = result, pipe' = pipe, written' = written, got' = got,
           Holds(p)'
    PROVE  IInv'
  <1> USE DEF IInv
  <1>1. op # "none"
    BY DEF Control
  <1>2. /\ pc' \in [Procs -> {"prompt", "wait4", "back", "none", "pipe", "fork", "close", "dup2", "exec",
                              "tool", "returned", "dead"}]
        /\ Control' /\ Holds("customer")' /\ Holds("producer")'
    <2> HIDE DEF IInv
    <2> QED  BY <1>1, ChildStep
  <1>3. TypeOK' /\ got' \in Nat
    BY <1>2 DEF TypeOK
  <1>4. Ends'
    <2>1. CASE op = "single"
      <3>1. p = "customer" /\ there = "tool"
        BY <2>1 DEF Control
      <3>2. pc'["customer"] = "tool" /\ pc'["shell"] = pc["shell"]
        BY <3>1 DEF TypeOK, Procs
      <3> QED  BY <2>1, <3>1, <3>2 DEF Ends
    <2>2. CASE op # "single"
      BY <1>1, <2>2 DEF Ends
    <2> QED  BY <2>1, <2>2
  <1> QED  BY <1>2, <1>3, <1>4

-----------------------------------------------------------------------------
(* The actions of the children *)

LEMMA BothEndsIs ==
    /\ BothEnds \in [Slots -> {"tty", "read", "write", "closed"}]
    /\ BothEnds["stdin"] = "tty" /\ BothEnds["stdout"] = "tty"
    /\ BothEnds["pipe0"] = "read" /\ BothEnds["pipe1"] = "write"
  BY DEF BothEnds, Slots

LEMMA MakePipeInv ==
    ASSUME IInv, MakePipe
    PROVE  IInv'
  <1> USE DEF IInv
  <1>1. /\ pc["customer"] = "pipe" /\ pc' = [pc EXCEPT !["customer"] = "fork"]
        /\ fd' = [fd EXCEPT !["customer"]["pipe0"] = "read", !["customer"]["pipe1"] = "write"]
        /\ op' = op /\ status' = status /\ result' = result /\ pipe' = pipe /\ written' = written
        /\ got' = got /\ failed' = failed
    BY DEF MakePipe, At, Goto
  <1>2. "customer" \in Procs /\ pc["customer"] = "pipe"
        /\ fd \in [Procs -> [Slots -> {"tty", "read", "write", "closed"}]]
    BY <1>1 DEF TypeOK, Procs
  <1>3. fd["customer"] = Terminal
    BY <1>1 DEF Holds
  <1>4. fd' = [fd EXCEPT !["customer"] = [Terminal EXCEPT !["pipe0"] = "read", !["pipe1"] = "write"]]
    BY <1>1, <1>2, <1>3
  <1>5. [Terminal EXCEPT !["pipe0"] = "read", !["pipe1"] = "write"] = BothEnds
    BY DEF Terminal, BothEnds, Slots
  <1>6. /\ fd' \in [Procs -> [Slots -> {"tty", "read", "write", "closed"}]]
        /\ fd'["customer"] = BothEnds /\ \A q \in Procs \ {"customer"} : fd'[q] = fd[q]
    BY <1>2, <1>4, <1>5, BothEndsIs
  <1>7. pc'["customer"] = "fork"
    BY <1>1 DEF TypeOK, Procs
  <1>8. Holds("customer")'
    BY <1>6, <1>7 DEF Holds
  <1>9. op # "single" /\ failed' \in BOOLEAN
    BY <1>1 DEF Control, TypeOK
  <1> HIDE DEF IInv
  <1> QED  BY <1>1, <1>6, <1>8, <1>9, GoesOnInv

LEMMA ForkInv ==
    ASSUME IInv, Fork
    PROVE  IInv'
  <1> USE DEF IInv
  <1>1. /\ pc["customer"] = "fork" /\ pc' = [pc EXCEPT !["customer"] = "close", !["producer"] = "close"]
        /\ fd' = [fd EXCEPT !["producer"] = fd["customer"]]
        /\ op' = op /\ status' = status /\ result' = result /\ pipe' = pipe /\ written' = written
        /\ got' = got /\ failed' = failed
    BY DEF Fork, At
  <1>2. /\ pc'["customer"] = "close" /\ pc'["producer"] = "close" /\ pc'["shell"] = pc["shell"]
        /\ pc' \in [Procs -> {"prompt", "wait4", "back", "none", "pipe", "fork", "close", "dup2", "exec",
                              "tool", "returned", "dead"}]
    BY <1>1 DEF TypeOK, Procs
  <1>3. /\ fd'["customer"] = BothEnds /\ fd'["producer"] = BothEnds
        /\ fd' \in [Procs -> [Slots -> {"tty", "read", "write", "closed"}]]
    BY <1>1, BothEndsIs DEF TypeOK, Procs, Holds
  <1>4. op \notin {"single", "none"}
    BY <1>1 DEF Control
  <1>5. TypeOK' /\ got' \in Nat
    BY <1>1, <1>2, <1>3 DEF TypeOK
  <1>6. Control' /\ Ends'
    BY <1>1, <1>2, <1>4 DEF Control, Ends
  <1>7. Holds("customer")' /\ Holds("producer")'
    BY <1>2, <1>3 DEF Holds
  <1> QED  BY <1>5, <1>6, <1>7

LEMMA CloseOtherInv ==
    ASSUME IInv, NEW p \in Procs, CloseOther(p)
    PROVE  IInv'
  <1> USE DEF IInv
  <1>1. /\ pc[p] = "close" /\ pc' = [pc EXCEPT ![p] = "dup2"]
        /\ fd' = [fd EXCEPT ![p][Other(p)] = "closed"]
        /\ op' = op /\ status' = status /\ result' = result /\ pipe' = pipe /\ written' = written
        /\ got' = got /\ failed' = failed
    BY DEF CloseOther, At, Goto
  <1>2. p \in {"customer", "producer"} /\ op # "single"
    BY <1>1 DEF Control, Procs
  <1>3. fd[p] = BothEnds /\ fd \in [Procs -> [Slots -> {"tty", "read", "write", "closed"}]]
    BY <1>1, <1>2 DEF Holds, TypeOK
  <1>4. fd' = [fd EXCEPT ![p] = OneEnd(p)]
    BY <1>1, <1>3 DEF OneEnd
  <1>5. OneEnd(p) \in [Slots -> {"tty", "read", "write", "closed"}]
    BY BothEndsIs DEF OneEnd
  <1>6. /\ fd' \in [Procs -> [Slots -> {"tty", "read", "write", "closed"}]]
        /\ fd'[p] = OneEnd(p) /\ \A q \in Procs \ {p} : fd'[q] = fd[q]
    BY <1>3, <1>4, <1>5
  <1>7. pc'[p] = "dup2"
    BY <1>1 DEF TypeOK
  <1>8. Holds(p)'
    BY <1>6, <1>7 DEF Holds, OneEnd, Other
  <1>9. failed' \in BOOLEAN
    BY <1>1 DEF TypeOK
  <1> HIDE DEF IInv
  <1> QED  BY <1>1, <1>2, <1>6, <1>8, <1>9, GoesOnInv

LEMMA Dup2Inv ==
    ASSUME IInv, NEW p \in Procs, Dup2(p)
    PROVE  IInv'
  <1> USE DEF IInv
  <1>1. /\ pc[p] = "dup2" /\ pc' = [pc EXCEPT ![p] = "exec"]
        /\ fd' = [fd EXCEPT ![p][Std(p)] = fd[p][Own(p)], ![p][Own(p)] = "closed"]
        /\ op' = op /\ status' = status /\ result' = result /\ pipe' = pipe /\ written' = written
        /\ got' = got /\ failed' = failed
    BY DEF Dup2, At, Goto
  <1>2. p \in {"customer", "producer"} /\ op # "single" /\ op # "none"
    BY <1>1 DEF Control, Procs
  <1>3. fd[p] = OneEnd(p) /\ fd \in [Procs -> [Slots -> {"tty", "read", "write", "closed"}]]
    BY <1>1, <1>2 DEF Holds, TypeOK
  <1>4. fd' = [fd EXCEPT ![p] = [OneEnd(p) EXCEPT ![Std(p)] = OneEnd(p)[Own(p)], ![Own(p)] = "closed"]]
    BY <1>1, <1>3
  <1>5. [OneEnd(p) EXCEPT ![Std(p)] = OneEnd(p)[Own(p)], ![Own(p)] = "closed"] = Joined(p)
    BY <1>2 DEF OneEnd, Joined, BothEnds, Std, Own, Other, Slots
  <1>6. Joined(p) \in [Slots -> {"tty", "read", "write", "closed"}]
    BY <1>2, BothEndsIs DEF Joined, Own
  <1>7. /\ fd' \in [Procs -> [Slots -> {"tty", "read", "write", "closed"}]]
        /\ fd'[p] = Joined(p) /\ \A q \in Procs \ {p} : fd'[q] = fd[q]
    BY <1>3, <1>4, <1>5, <1>6
  <1>8. pc'[p] = "exec" /\ op' = "pipe"
    BY <1>1, <1>2, ProcessAssumption DEF TypeOK
  <1>9. Holds(p)'
    BY <1>7, <1>8 DEF Holds, Joined, Std, Own
  <1>10. failed' \in BOOLEAN
    BY <1>1 DEF TypeOK
  <1> HIDE DEF IInv
  <1> QED  BY <1>1, <1>2, <1>7, <1>9, <1>10, GoesOnInv

LEMMA ExecInv ==
    ASSUME IInv, NEW p \in Procs, Exec(p)
    PROVE  IInv'
  <1> USE DEF IInv
  <1>1. /\ pc[p] = "exec" /\ pc' = [pc EXCEPT ![p] = "tool"] /\ fd' = fd
        /\ op' = op /\ status' = status /\ result' = result /\ pipe' = pipe /\ written' = written
        /\ got' = got /\ failed' = failed
    BY DEF Exec, At, Goto
  <1>2. p \in {"customer", "producer"}
    BY <1>1 DEF Control, Procs
  <1>3. pc'[p] = "tool" /\ fd' \in [Procs -> [Slots -> {"tty", "read", "write", "closed"}]] /\ failed' \in BOOLEAN
    BY <1>1 DEF TypeOK
  <1>4. Holds(p)'
    BY <1>1, <1>2, <1>3 DEF Holds, Joined
  <1> HIDE DEF IInv
  <1> QED  BY <1>1, <1>2, <1>3, <1>4, GoesOnInv

(* A producer whose call fails keeps its end of the pipe.                  *)
LEMMA CallFailsInv ==
    ASSUME IInv, NEW p \in Procs, CallFails(p)
    PROVE  IInv'
  <1> USE DEF IInv
  <1>1. /\ op = "pipe" /\ pc[p] \in {"pipe", "fork", "dup2", "exec"}
        /\ pc' = [pc EXCEPT ![p] = "returned"] /\ failed' = TRUE
        /\ op' = op /\ fd' = fd /\ status' = status /\ result' = result /\ pipe' = pipe
        /\ written' = written /\ got' = got
    BY DEF CallFails, Returns, At, Goto
  <1>2. p \in {"customer", "producer"}
    BY <1>1 DEF Control, Procs
  <1>3. pc'[p] = "returned" /\ fd' \in [Procs -> [Slots -> {"tty", "read", "write", "closed"}]]
    BY <1>1 DEF TypeOK
  <1>4. ASSUME p = "producer" PROVE \E s \in Slots : fd[p][s] = "write"
    <2>1. CASE pc[p] = "dup2"
      BY <1>4, <2>1, BothEndsIs DEF Holds, OneEnd, Other, Slots
    <2>2. CASE pc[p] = "exec"
      BY <1>1, <1>4, <2>2, BothEndsIs DEF Holds, Joined, Own, Std, Slots
    <2> QED  BY <1>1, <1>4, <2>1, <2>2 DEF Control
  <1>5. Holds(p)'
    BY <1>1, <1>3, <1>4 DEF Holds
  <1> HIDE DEF IInv
  <1> QED  BY <1>1, <1>2, <1>3, <1>5, GoesOnInv

(* The steps that end a child.                                             *)
LEMMA EndsInv ==
    ASSUME IInv, \/ ExecFails \/ WriteFails \/ ProducerDone \/ EndOfFile \/ SingleDone \/ ExitsEarly
                 \/ \E p \in Procs : Killed(p) \/ Quit(p)
    PROVE  IInv'
  <1>1. CASE ExecFails
    BY <1>1, EndInv DEF ExecFails, At
  <1>2. CASE WriteFails
    BY <1>2, EndInv DEF WriteFails, At
  <1>3. CASE ProducerDone
    BY <1>3, EndInv DEF ProducerDone, At
  <1>4. CASE EndOfFile
    BY <1>4, EndInv DEF EndOfFile, At
  <1>5. CASE SingleDone
    BY <1>5, EndInv DEF SingleDone, At
  <1>6. CASE ExitsEarly
    BY <1>6, EndInv DEF ExitsEarly, At
  <1>7. ASSUME NEW p \in Procs, Killed(p) PROVE IInv'
    BY <1>7, EndInv DEF Killed, At, Procs
  <1>8. ASSUME NEW p \in Procs, Quit(p) PROVE IInv'
    <2>1. pc[p] = "returned" /\ p \in {"customer", "producer"} /\ op # "single"
      BY <1>8 DEF Quit, At, IInv, Control, Procs
    <2> QED  BY <1>8, <2>1, EndInv DEF Quit
  <1> QED  BY <1>1, <1>2, <1>3, <1>4, <1>5, <1>6, <1>7, <1>8

LEMMA LinesInv ==
    ASSUME IInv, Write \/ Read
    PROVE  IInv'
  <1> USE DEF IInv
  <1>1. /\ op' = op /\ pc' = pc /\ fd' = fd /\ status' = status /\ result' = result /\ failed' = failed
    BY DEF Write, Read
  <1>2. /\ written' \in 0 .. Lines /\ pipe' \in 0 .. Capacity /\ written' = got' + pipe' /\ got' \in Nat
    <2>1. /\ written \in 0 .. Lines /\ pipe \in 0 .. Capacity /\ written = got + pipe /\ got \in Nat
          /\ Lines \in Nat /\ Capacity \in Nat
      BY ProcessAssumption DEF TypeOK
    <2>2. CASE Write
      <3>1. written < Lines /\ pipe < Capacity /\ pipe' = pipe + 1 /\ written' = written + 1 /\ got' = got
        BY <2>2 DEF Write
      <3> QED  BY <2>1, <3>1
    <2>3. CASE Read
      <3>1. pipe > 0 /\ pipe' = pipe - 1 /\ got' = got + 1 /\ written' = written
        BY <2>3 DEF Read
      <3> QED  BY <2>1, <3>1
    <2> QED  BY <2>2, <2>3
  <1>3. TypeOK'
    BY <1>1, <1>2 DEF TypeOK
  <1>4. Control' /\ Ends' /\ Holds("customer")' /\ Holds("producer")'
    BY <1>1 DEF Control, Ends, Holds
  <1> QED  BY <1>2, <1>3, <1>4

-----------------------------------------------------------------------------
(* The actions of the shell *)

LEMMA ShellForksInv ==
    ASSUME IInv, NEW o \in Ops, ShellForks(o)
    PROVE  IInv'
  <1> USE DEF IInv
  <1>1. /\ pc["shell"] = "prompt" /\ op' = o /\ o \in {"single", "pipe"}
        /\ pc' = [pc EXCEPT !["shell"] = "wait4",
                            !["customer"] = IF o = "single" THEN "exec" ELSE "pipe"]
        /\ fd' = fd /\ status' = status /\ result' = result /\ pipe' = pipe /\ written' = written
        /\ got' = got /\ failed' = failed
    BY ProcessAssumption DEF ShellForks, At
  <1>2. /\ op = "none" /\ pc["customer"] = "none" /\ pc["producer"] = "none"
        /\ status = "run" /\ result = "none" /\ ~failed
    BY <1>1 DEF Control, Ends
  <1>3. /\ pc'["shell"] = "wait4" /\ pc'["customer"] = (IF o = "single" THEN "exec" ELSE "pipe")
        /\ pc'["producer"] = "none"
        /\ pc' \in [Procs -> {"prompt", "wait4", "back", "none", "pipe", "fork", "close", "dup2", "exec",
                              "tool", "returned", "dead"}]
    BY <1>1, <1>2 DEF TypeOK, Procs
  <1>4. TypeOK'
    BY <1>1, <1>3 DEF TypeOK
  <1>5. Control' /\ Ends'
    BY <1>1, <1>2, <1>3 DEF Control, Ends
  <1>6. Holds("customer")' /\ Holds("producer")'
    BY <1>1, <1>2, <1>3 DEF Holds
  <1> QED  BY <1>1, <1>4, <1>5, <1>6

LEMMA ForkFailsInv ==
    ASSUME IInv, NEW o \in Ops, ForkFails(o)
    PROVE  IInv'
  <1> USE DEF IInv
  <1>1. /\ pc["shell"] = "prompt" /\ op' = o /\ o \in {"single", "pipe"}
        /\ pc' = [pc EXCEPT !["shell"] = "back"] /\ result' = "negative" /\ failed' = TRUE
        /\ fd' = fd /\ status' = status /\ pipe' = pipe /\ written' = written /\ got' = got
    BY ProcessAssumption DEF ForkFails, At, Goto
  <1>2. op = "none" /\ pc["customer"] = "none" /\ pc["producer"] = "none"
    BY <1>1 DEF Control
  <1>3. /\ pc'["shell"] = "back" /\ pc'["customer"] = "none" /\ pc'["producer"] = "none"
        /\ pc' \in [Procs -> {"prompt", "wait4", "back", "none", "pipe", "fork", "close", "dup2", "exec",
                              "tool", "returned", "dead"}]
    BY <1>1, <1>2 DEF TypeOK, Procs
  <1>4. TypeOK'
    BY <1>1, <1>3 DEF TypeOK
  <1>5. Control' /\ Ends'
    BY <1>1, <1>2, <1>3 DEF Control, Ends
  <1>6. Holds("customer")' /\ Holds("producer")'
    BY <1>1, <1>2, <1>3 DEF Holds
  <1> QED  BY <1>1, <1>4, <1>5, <1>6

LEMMA Wait4Inv ==
    ASSUME IInv, Wait4
    PROVE  IInv'
  <1> USE DEF IInv
  <1>1. /\ pc["shell"] = "wait4" /\ pc["customer"] = "dead"
        /\ pc' = [pc EXCEPT !["shell"] = "back"] /\ result' = Result
        /\ op' = op /\ fd' = fd /\ status' = status /\ pipe' = pipe /\ written' = written
        /\ got' = got /\ failed' = failed
    BY DEF Wait4, At, Goto
  <1>2. /\ pc'["shell"] = "back" /\ pc'["customer"] = pc["customer"] /\ pc'["producer"] = pc["producer"]
        /\ pc' \in [Procs -> {"prompt", "wait4", "back", "none", "pipe", "fork", "close", "dup2", "exec",
                              "tool", "returned", "dead"}]
    BY <1>1 DEF TypeOK, Procs
  <1>3. /\ Result \in {"zero", "positive"}
        /\ op = "single" /\ Result = "zero" => status = "zero"
    BY DEF Result
  <1>4. TypeOK'
    BY <1>1, <1>2, <1>3 DEF TypeOK
  <1>5. Control'
    BY <1>1, <1>2 DEF Control
  <1>6. Ends'
    BY <1>1, <1>2, <1>3 DEF Ends, Control
  <1>7. Holds("customer")' /\ Holds("producer")'
    BY <1>1, <1>2 DEF Holds
  <1> QED  BY <1>1, <1>4, <1>5, <1>6, <1>7

-----------------------------------------------------------------------------
(* Theorems *)

LEMMA NextInv == IInv /\ [Next]_vars => IInv'
  <1> SUFFICES ASSUME IInv, [Next]_vars PROVE IInv'
    OBVIOUS
  <1>1. ASSUME NEW o \in Ops, ShellForks(o) \/ ForkFails(o) PROVE IInv'
    BY <1>1, ShellForksInv, ForkFailsInv
  <1>2. ASSUME NEW p \in Procs, Child(p) PROVE IInv'
    BY <1>2, CloseOtherInv, Dup2Inv, ExecInv, CallFailsInv DEF Child
  <1>3. ASSUME UNCHANGED vars PROVE IInv'
    BY <1>3 DEF vars, IInv, TypeOK, Control, Holds, Ends
  <1> QED
    BY <1>1, <1>2, <1>3, Wait4Inv, MakePipeInv, ForkInv, EndsInv, LinesInv DEF Next, Over

LEMMA InvariantHolds == Spec => []IInv
  BY InitInv, NextInv, PTL DEF Spec

(* Once exec has replaced a child by its tool, the tool's standard input   *)
(* or output is the end of the pipe it was forked for, and no other        *)
(* descriptor of it is one, however the two children's steps interleave    *)
(* and whatever call failed in the other.                                  *)
THEOREM ToolsHoldTheirEndHolds == Spec => []ToolsHoldTheirEnd
  <1>1. IInv => ToolsHoldTheirEnd
    <2> SUFFICES ASSUME IInv, NEW p \in Procs \ {"shell"}, pc[p] = "tool", op = "pipe"
                 PROVE  {s \in Slots : fd[p][s] \in {"read", "write"}} = {Std(p)}
      BY DEF ToolsHoldTheirEnd, IInv, At
    <2>1. p \in {"customer", "producer"}
      BY DEF Procs
    <2>2. fd[p] = Joined(p)
      BY <2>1 DEF IInv, Holds
    <2>3. Std(p) \in Slots /\ Std(p) \in {"stdin", "stdout"} /\ BothEnds[Own(p)] \in {"read", "write"}
      BY <2>1, BothEndsIs DEF Std, Own, Slots
    <2> QED  BY <2>2, <2>3 DEF Joined
  <1> QED  BY <1>1, InvariantHolds, PTL

(* The customer's tool finds no writer only when the producer has ended:   *)
(* the end of file never comes because the producer has not yet started,   *)
(* and a producer that became a shell keeps the pipe open.                 *)
THEOREM EndAfterAllHolds == Spec => []EndAfterAll
  <1>1. IInv => EndAfterAll
    <2> SUFFICES ASSUME IInv, pc["customer"] = "tool", op = "pipe", Holders("write") = {},
                        pc["producer"] # "dead"
                 PROVE  FALSE
      BY DEF EndAfterAll, At
    <2>1. pc["producer"] \in {"close", "dup2", "exec", "tool", "returned"}
      BY DEF IInv, Control
    <2>2. \E s \in Slots : fd["producer"][s] = "write"
      <3>1. CASE pc["producer"] = "close"
        BY <3>1, BothEndsIs DEF IInv, Holds, Slots
      <3>2. CASE pc["producer"] = "dup2"
        BY <3>2, BothEndsIs DEF IInv, Holds, OneEnd, Other, Slots
      <3>3. CASE pc["producer"] \in {"exec", "tool"}
        BY <3>3, BothEndsIs DEF IInv, Holds, Joined, Std, Own, Slots
      <3>4. CASE pc["producer"] = "returned"
        BY <3>4 DEF IInv, Holds
      <3> QED  BY <2>1, <3>1, <3>2, <3>3, <3>4
    <2> QED  BY <2>2 DEF Holders, Procs
  <1> QED  BY <1>1, InvariantHolds, PTL

(* When cmd_execute_system_command returns 0, its tool was executed and    *)
(* exited with 0, whichever calls failed and whoever was killed.           *)
THEOREM ZeroMeansDoneHolds == Spec => []ZeroMeansDone
  <1>1. IInv => ZeroMeansDone
    BY DEF IInv, Ends, ZeroMeansDone
  <1> QED  BY <1>1, InvariantHolds, PTL
=============================================================================
