------------------------- MODULE ThreadMasterProofs -------------------------
(***************************************************************************)
(* Proofs about ThreadMaster: types, lists, descriptor sets and handles,   *)
(* and the order of the timers, for any number of threads and clients, any *)
(* delays and any clock.                                                   *)
(*                                                                         *)
(* Keep is a recursive function: that it is what it says is shown first,   *)
(* by the least position where it would not be.                            *)
(***************************************************************************)
EXTENDS ThreadMaster, ListFacts, FiniteSetTheorems, TLAPS

-----------------------------------------------------------------------------
(* Keep *)

(* The step of Keep's recursion, and that there is a function it defines.  *)
KeptNext(kept, s, T, n) ==
    IF n = 0 THEN <<>>
    ELSE IF s[n] \in T THEN Append(kept[n - 1], s[n]) ELSE kept[n - 1]

LEMMA KeptExists ==
    ASSUME NEW s, NEW T, Len(s) \in Nat
    PROVE  \E f : f = [n \in 0 .. Len(s) |-> KeptNext(f, s, T, n)]
  <1> DEFINE G == {n \in 0 .. Len(s) : \E f : f = [k \in 0 .. n |-> KeptNext(f, s, T, k)]}
  <1>1. 0 \in G
    <2> DEFINE f == [k \in 0 .. 0 |-> <<>>]
    <2>1. f = [k \in 0 .. 0 |-> KeptNext(f, s, T, k)]
      BY DEF KeptNext
    <2> QED  BY <2>1
  <1>2. ASSUME NEW n \in 0 .. Len(s) - 1, n \in G
        PROVE  n + 1 \in G
    <2>1. PICK f : f = [k \in 0 .. n |-> KeptNext(f, s, T, k)]
      BY <1>2
    <2> DEFINE g == [k \in 0 .. n + 1 |-> IF k = n + 1 THEN KeptNext(f, s, T, n + 1) ELSE f[k]]
    <2>2. \A k \in 0 .. n : g[k] = f[k] /\ g[k] = KeptNext(f, s, T, k)
      BY <2>1
    <2>3. \A k \in 0 .. n + 1 : g[k] = KeptNext(g, s, T, k)
      <3>1. ASSUME NEW k \in 0 .. n
            PROVE  g[k] = KeptNext(g, s, T, k)
        <4>1. k # 0 => k - 1 \in 0 .. n
          OBVIOUS
        <4>2. k # 0 => g[k - 1] = f[k - 1]
          BY <2>2, <4>1
        <4>3. g[k] = KeptNext(f, s, T, k)
          BY <2>2
        <4> HIDE DEF g
        <4> QED  BY <4>2, <4>3 DEF KeptNext
      <3>2. g[n + 1] = KeptNext(g, s, T, n + 1)
        <4>1. n + 1 - 1 = n /\ n \in 0 .. n /\ n + 1 # 0
          OBVIOUS
        <4>2. g[n + 1] = KeptNext(f, s, T, n + 1)
          OBVIOUS
        <4> QED  BY <2>2, <4>1, <4>2 DEF KeptNext
      <3>3. \A k \in 0 .. n + 1 : k = n + 1 \/ k \in 0 .. n
        OBVIOUS
      <3> QED  BY <3>1, <3>2, <3>3
    <2>4. g = [k \in 0 .. n + 1 |-> KeptNext(g, s, T, k)]
      BY <2>3
    <2>5. n + 1 \in 0 .. Len(s)
      OBVIOUS
    <2> HIDE DEF g
    <2> QED  BY <2>4, <2>5
  <1> HIDE DEF G
  <1>3. 0 .. Len(s) \subseteq G
    BY <1>1, <1>2, UpTo
  <1>4. Len(s) \in G
    BY <1>3
  <1> QED  BY <1>4 DEF G

LEMMA KeepIsKept ==
    ASSUME NEW s, NEW T, Len(s) \in Nat
    PROVE  \E f : /\ f = [n \in 0 .. Len(s) |-> KeptNext(f, s, T, n)]
                  /\ Keep(s, T) = f[Len(s)]
  <1> DEFINE kept == CHOOSE f : f = [n \in 0 .. Len(s) |-> KeptNext(f, s, T, n)]
  <1>1. kept = [n \in 0 .. Len(s) |-> KeptNext(kept, s, T, n)]
    <2>1. \E f : f = [n \in 0 .. Len(s) |-> KeptNext(f, s, T, n)]
      BY KeptExists
    <2> QED  BY <2>1, Zenon
  <1>2. Keep(s, T) = kept[Len(s)]
    BY Zenon DEF Keep, KeptNext
  <1> HIDE DEF kept
  <1> QED  BY <1>1, <1>2

(* Keep(s, T) is a sequence of the elements of s that are in T, in the     *)
(* order of s.                                                             *)
InOrder(q, s, n) ==
    /\ \A i \in DOMAIN q : \E m \in 1 .. n : q[i] = s[m]
    /\ \A i, j \in DOMAIN q : i < j => \E m, k \in 1 .. n : m < k /\ q[i] = s[m] /\ q[j] = s[k]

LEMMA KeepFacts ==
    ASSUME NEW S, NEW s \in Seq(S), NEW T
    PROVE  /\ Keep(s, T) \in Seq(S)
           /\ ToSet(Keep(s, T)) = ToSet(s) \cap T
           /\ InOrder(Keep(s, T), s, Len(s))
  <1>9. Len(s) \in Nat
    OBVIOUS
  <1>1. PICK f : f = [n \in 0 .. Len(s) |-> KeptNext(f, s, T, n)] /\ Keep(s, T) = f[Len(s)]
    BY <1>9, KeepIsKept, Zenon
  <1> DEFINE Good(q, n) ==
               /\ q \in Seq(S)
               /\ \A x : x \in ToSet(q) <=> x \in T /\ \E m \in 1 .. n : s[m] = x
               /\ InOrder(q, s, n)
             G == {n \in 0 .. Len(s) : Good(f[n], n)}
  <1>0. \A n \in 0 .. Len(s) : f[n] = KeptNext(f, s, T, n)
    BY <1>1
  <1>2. 0 \in G
    <2>1. f[0] = <<>> /\ 0 \in 0 .. Len(s)
      BY <1>0 DEF KeptNext
    <2>2. Good(<<>>, 0)
      BY DEF InOrder, ToSet
    <2> QED  BY <2>1, <2>2
  <1>3. ASSUME NEW n \in 0 .. Len(s) - 1, n \in G
        PROVE  n + 1 \in G
    <2> DEFINE p == f[n]
               q == f[n + 1]
    <2>1. Good(p, n)
      BY <1>3
    <2>2. n + 1 - 1 = n /\ n + 1 # 0 /\ n + 1 \in 0 .. Len(s) /\ n + 1 \in 1 .. Len(s) /\ s[n + 1] \in S
      OBVIOUS
    <2>3. q = IF s[n + 1] \in T THEN Append(p, s[n + 1]) ELSE p
      BY <1>0, <2>2 DEF KeptNext
    <2>4. \A m \in 1 .. n + 1 : m \in 1 .. n \/ m = n + 1
      OBVIOUS
    <2>5. ASSUME s[n + 1] \notin T
          PROVE  Good(q, n + 1)
      <3>1. q = p
        BY <2>3, <2>5
      <3>2. \A m \in 1 .. n : m \in 1 .. n + 1
        OBVIOUS
      <3> HIDE DEF p, q
      <3>3. InOrder(q, s, n + 1)
        BY <2>1, <3>1, <3>2 DEF InOrder
      <3> QED  BY <2>1, <2>2, <2>4, <2>5, <3>1, <3>3
    <2>6. ASSUME s[n + 1] \in T PROVE Good(q, n + 1)
      <3> HIDE DEF p, q
      <3>1. q = Append(p, s[n + 1]) /\ p \in Seq(S)
        BY <2>1, <2>3, <2>6
      <3>2. /\ q \in Seq(S) /\ Len(q) = Len(p) + 1 /\ q[Len(p) + 1] = s[n + 1]
            /\ \A i \in 1 .. Len(p) : q[i] = p[i]
            /\ DOMAIN q = 1 .. Len(p) + 1 /\ DOMAIN p = 1 .. Len(p) /\ Len(p) \in Nat
        BY <2>2, <3>1
      <3>3. ToSet(q) = ToSet(p) \cup {s[n + 1]}
        BY <3>2 DEF ToSet
      <3>4. InOrder(q, s, n + 1)
        <4>1. \A i \in DOMAIN q : i \in DOMAIN p \/ i = Len(p) + 1
          BY <3>2
        <4>2. \A i \in DOMAIN p : q[i] = p[i] /\ i < Len(p) + 1
          BY <3>2
        <4>3. \A m \in 1 .. n : m \in 1 .. n + 1 /\ m < n + 1
          OBVIOUS
        <4>4. n + 1 \in 1 .. n + 1
          OBVIOUS
        <4>5. \A i \in DOMAIN q : \E m \in 1 .. n + 1 : q[i] = s[m]
          BY <2>1, <3>2, <4>1, <4>2, <4>3, <4>4 DEF InOrder
        <4>6. ASSUME NEW i \in DOMAIN q, NEW j \in DOMAIN q, i < j
              PROVE  \E m, k \in 1 .. n + 1 : m < k /\ q[i] = s[m] /\ q[j] = s[k]
          <5>1. i \in DOMAIN p
            BY <3>2, <4>6
          <5>2. CASE j \in DOMAIN p
            BY <2>1, <4>2, <4>3, <4>6, <5>1, <5>2 DEF InOrder
          <5>3. CASE j = Len(p) + 1
            <6>1. PICK m \in 1 .. n : p[i] = s[m]
              BY <2>1, <5>1 DEF InOrder
            <6> QED  BY <3>2, <4>2, <4>3, <4>4, <5>1, <5>3, <6>1
          <5> QED  BY <4>1, <5>2, <5>3
        <4> QED  BY <4>5, <4>6 DEF InOrder
      <3>5. \A x : x \in ToSet(q) <=> x \in T /\ \E m \in 1 .. n + 1 : s[m] = x
        BY <2>1, <2>4, <2>6, <3>3
      <3> QED  BY <3>2, <3>4, <3>5
    <2> HIDE DEF Good
    <2> QED  BY <2>2, <2>5, <2>6
  <1> HIDE DEF G
  <1>4. 0 .. Len(s) \subseteq G /\ Len(s) \in 0 .. Len(s)
    BY <1>2, <1>3, UpTo
  <1>5. Good(Keep(s, T), Len(s))
    BY <1>1, <1>4 DEF G
  <1>6. \A x : x \in ToSet(s) <=> \E m \in 1 .. Len(s) : s[m] = x
    BY DEF ToSet
  <1> QED  BY <1>5, <1>6

(* As used below: which elements are left, and that their order is.        *)
LEMMA KeepInjective ==
    ASSUME NEW S, NEW s \in Seq(S), NEW T, IsInjective(s)
    PROVE  IsInjective(Keep(s, T))
  <1> DEFINE q == Keep(s, T)
  <1>1. q \in Seq(S) /\ InOrder(q, s, Len(s))
    BY KeepFacts
  <1> HIDE DEF q
  <1>2. ASSUME NEW i \in DOMAIN q, NEW j \in DOMAIN q, i < j
        PROVE  q[i] # q[j]
    BY <1>1, <1>2 DEF InOrder, IsInjective
  <1>3. \A i, j \in DOMAIN q : i < j \/ j < i \/ i = j
    BY <1>1
  <1>4. IsInjective(q)
    BY <1>2, <1>3 DEF IsInjective
  <1> QED  BY <1>4 DEF q

LEMMA WithoutFacts ==
    ASSUME NEW s \in Seq(Threads), NEW t \in Threads
    PROVE  /\ Without(s, t) \in Seq(Threads)
           /\ ToSet(Without(s, t)) = ToSet(s) \ {t}
           /\ IsInjective(s) => IsInjective(Without(s, t))
  <1>1. ToSet(s) \subseteq Threads
    BY DEF ToSet
  <1>2. /\ Keep(s, Threads \ {t}) \in Seq(Threads)
        /\ ToSet(Keep(s, Threads \ {t})) = ToSet(s) \cap (Threads \ {t})
    BY KeepFacts
  <1>3. IsInjective(s) => IsInjective(Keep(s, Threads \ {t}))
    BY KeepInjective
  <1> QED  BY <1>1, <1>2, <1>3 DEF Without

-----------------------------------------------------------------------------
(* The invariant *)

(* What the fields of a thread are, by its type. *)
Fields ==
    \A t \in Threads :
        /\ thread[t].type = "unused" => thread[t] = Blank
        /\ thread[t].type # "unused" => thread[t].arg \in Clients
        /\ thread[t].type \in Held \cup {"event"} => thread[t].func = thread[t].type
        /\ thread[t].type = "ready" => thread[t].func \in IoKinds

(* A list has the threads of its type, each once; no unused one is in any  *)
(* but unuse, and alloc counts them all.                                   *)
Places ==
    /\ \A l \in Lists : IsInjective(list[l])
    /\ \A l \in Lists : ToSet(list[l]) = {t \in Threads : thread[t].type = l}
    /\ IsInjective(unuse)
    /\ ToSet(unuse) \subseteq {t \in Threads : thread[t].type = "unused"}
    /\ alloc = Cardinality(Listed)

(* Timers are sorted. *)
Ascending(s) == \A i, j \in DOMAIN s : i < j => thread[s[i]].val <= thread[s[j]].val

(* Threads that are scheduled for a handle are those of the handles, but   *)
(* for the one between thread_fetch and thread_call.                       *)
Owners ==
    /\ \A t \in Threads : thread[t].func \in Held => handle[thread[t].func][thread[t].arg] = t
    /\ \A k \in Held, c \in Clients :
          \/ handle[k][c] = Null
          \/ thread[handle[k][c]].func = k /\ thread[handle[k][c]].arg = c
          \/ pc = "call" /\ running.func = k /\ running.arg = c
    /\ pc = "call" /\ running.func \in Held =>
          \A t \in Threads : thread[t].func = running.func => thread[t].arg # running.arg

IInv == TypeOK /\ Fields /\ Places /\ FdsOfLists /\ Ascending(list["timer"]) /\ Owners

-----------------------------------------------------------------------------
(* Initially *)

Record == [type : Lists \cup {"unused"}, func : Held \cup {"event", Null},
           arg : Clients \cup {Null}, val : Int]

LEMMA EmptyFacts ==
    ToSet(<<>>) = {} /\ IsInjective(<<>>) /\ \A S : <<>> \in Seq(S)
  BY DEF ToSet, IsInjective

LEMMA BlankIsRecord == Blank \in Record
  BY DEF Blank, Record

LEMMA InitInv == Init => IInv
  <1> SUFFICES ASSUME Init PROVE IInv
    OBVIOUS
  <1> USE ThreadAssumption
  <1>1. /\ \A t \in Threads : thread[t] = Blank
        /\ \A l \in Lists : list[l] = <<>>
        /\ unuse = <<>> /\ alloc = 0
    BY DEF Init
  <1>2. Listed = {}
    BY <1>1, EmptyFacts DEF Listed
  <1>3. TypeOK
    <2>1. list \in [Lists -> Seq(Threads)] /\ unuse \in Seq(Threads)
      BY EmptyFacts DEF Init
    <2>2. thread \in [Threads -> Record] /\ running \in Record
      BY BlankIsRecord DEF Init
    <2>3. alloc \in 0 .. Cardinality(Threads)
      BY FS_CardinalityType DEF Init
    <2>4. /\ fds \in [IoKinds -> SUBSET Fds] /\ clock \in 0 .. MaxTime
          /\ handle \in [Held -> [Clients -> Threads \cup {Null}]]
          /\ pc \in {"client", "fetch", "call", "stopped"}
      BY DEF Init
    <2> QED  BY <2>1, <2>2, <2>3, <2>4 DEF TypeOK, Record
  <1>4. Fields
    BY <1>1 DEF Fields, Blank, Held, IoKinds
  <1>5. Places
    <2>1. alloc = Cardinality(Listed)
      BY <1>1, <1>2, FS_EmptySet
    <2>2. \A l \in Lists : ToSet(list[l]) = {t \in Threads : thread[t].type = l}
      BY <1>1, EmptyFacts DEF Blank, Lists
    <2> QED  BY <1>1, <2>1, <2>2, EmptyFacts DEF Places
  <1>6. FdsOfLists
    BY <1>1, EmptyFacts DEF FdsOfLists, Init, IoKinds, Lists
  <1>7. Ascending(list["timer"])
    BY <1>1 DEF Ascending, Lists
  <1>8. Owners
    <2>1. \A t \in Threads : thread[t].func \notin Held
      BY <1>1 DEF Blank
    <2> QED  BY <2>1 DEF Init, Owners
  <1> QED  BY <1>3, <1>4, <1>5, <1>6, <1>7, <1>8 DEF IInv

-----------------------------------------------------------------------------
(* Threads that are handed out *)

LEMMA ListsOf ==
    ASSUME TypeOK, Places
    PROVE  /\ \A l \in Lists : list[l] \in Seq(Threads) /\ IsInjective(list[l])
           /\ \A t \in Threads : thread[t] \in Record
           /\ \A l \in Lists, t \in Threads : t \in ToSet(list[l]) <=> thread[t].type = l
           /\ \A t \in Threads : thread[t].type \in Lists \/ thread[t].type = "unused"
           /\ \A t : t \in Listed <=> t \in ToSet(unuse) \/ (t \in Threads /\ thread[t].type \in Lists)
           /\ Listed \subseteq Threads /\ ToSet(unuse) \subseteq Threads
           /\ IsFiniteSet(Listed)
  <1>1. \A l \in Lists : list[l] \in Seq(Threads) /\ IsInjective(list[l])
    BY DEF TypeOK, Places
  <1>2. \A t \in Threads : thread[t] \in Record
    BY DEF TypeOK, Record
  <1>3. \A t \in Threads : thread[t].type \in Lists \/ thread[t].type = "unused"
    BY <1>2 DEF Record
  <1>4. \A l \in Lists, t \in Threads : t \in ToSet(list[l]) <=> thread[t].type = l
    BY DEF Places
  <1>5. \A t : t \in Listed <=> t \in ToSet(unuse) \/ (t \in Threads /\ thread[t].type \in Lists)
    <2>1. \A t : t \in Listed <=> t \in ToSet(unuse) \/ \E l \in Lists : t \in ToSet(list[l])
      BY DEF Listed
    <2>2. \A t : \A l \in Lists : t \in ToSet(list[l]) <=> t \in Threads /\ thread[t].type = l
      BY DEF Places
    <2> QED  BY <2>1, <2>2
  <1>6. Listed \subseteq Threads /\ ToSet(unuse) \subseteq Threads
    BY <1>5 DEF Places
  <1>7. IsFiniteSet(Listed)
    BY <1>6, ThreadAssumption, FS_Subset
  <1> QED  BY <1>1, <1>2, <1>3, <1>4, <1>5, <1>6, <1>7

(* What thread_get returns is at no place of a list and holds nothing.     *)
LEMMA AvailableIsFree ==
    ASSUME IInv, NEW t \in Available
    PROVE  /\ t \in Threads /\ thread[t] = Blank
           /\ \A l \in Lists : t \notin ToSet(list[l])
           /\ unuse # <<>> => t = Head(unuse) /\ t \in ToSet(unuse)
           /\ unuse = <<>> => t \notin Listed
  <1> USE DEF IInv
  <1>1. unuse \in Seq(Threads)
    BY DEF TypeOK
  <1>2. unuse # <<>> => t = Head(unuse) /\ t \in ToSet(unuse)
    BY <1>1, HeadTailFacts DEF Available
  <1>3. unuse = <<>> => t \in Threads /\ t \notin Listed
    BY DEF Available
  <1>4. t \in Threads /\ thread[t].type = "unused"
    BY <1>2, <1>3, ListsOf DEF Places
  <1>5. thread[t] = Blank
    BY <1>4 DEF Fields
  <1>6. \A l \in Lists : t \notin ToSet(list[l])
    BY <1>4, ListsOf DEF Lists
  <1> QED  BY <1>2, <1>3, <1>4, <1>5, <1>6

(* A thread that is handed out and put in its list.                        *)
LEMMA GetInv ==
    ASSUME IInv, NEW t \in Available, NEW k \in Held \cup {"event"}, NEW c \in Clients, NEW v \in Int,
           Get(t, k, c, v), NEW q \in Seq(Threads), list' = [list EXCEPT ![k] = q],
           ToSet(q) = ToSet(list[k]) \cup {t}, IsInjective(q)
    PROVE  /\ list' \in [Lists -> Seq(Threads)] /\ unuse' \in Seq(Threads)
           /\ thread' \in [Threads -> Record] /\ alloc' \in 0 .. Cardinality(Threads)
           /\ thread'[t] = [type |-> k, func |-> k, arg |-> c, val |-> v]
           /\ \A u \in Threads \ {t} : thread'[u] = thread[u]
           /\ Fields' /\ Places'
  <1> USE DEF IInv
  <1>1. /\ t \in Threads /\ thread[t] = Blank
        /\ \A l \in Lists : t \notin ToSet(list[l])
        /\ unuse # <<>> => t = Head(unuse) /\ t \in ToSet(unuse)
        /\ unuse = <<>> => t \notin Listed
    BY AvailableIsFree
  <1>2. k \in Lists /\ k # "ready" /\ k # "unused"
    BY DEF Held, IoKinds, Lists
  <1>3. /\ list \in [Lists -> Seq(Threads)] /\ unuse \in Seq(Threads)
        /\ thread \in [Threads -> Record]
    BY DEF TypeOK, Record
  <1>4. /\ list' \in [Lists -> Seq(Threads)]
        /\ list'[k] = q /\ \A l \in Lists \ {k} : list'[l] = list[l]
    BY <1>2, <1>3
  <1>5. /\ thread'[t] = [type |-> k, func |-> k, arg |-> c, val |-> v]
        /\ \A u \in Threads \ {t} : thread'[u] = thread[u]
        /\ DOMAIN thread' = Threads
    BY <1>1, <1>3 DEF Get
  <1>6. thread' \in [Threads -> Record]
    <2>1. thread'[t] \in Record
      BY <1>2, <1>5 DEF Record
    <2>2. thread' = [thread EXCEPT ![t] = [type |-> k, func |-> k, arg |-> c, val |-> v]]
      BY DEF Get
    <2> QED  BY <1>1, <1>3, <1>5, <2>1, <2>2
  <1>7. unuse' = (IF unuse # <<>> THEN Tail(unuse) ELSE unuse)
    BY DEF Get
  <1>8. /\ unuse' \in Seq(Threads) /\ IsInjective(unuse')
        /\ ToSet(unuse') = ToSet(unuse) \ {t}
    <2>1. CASE unuse # <<>>
      BY <1>1, <1>3, <1>7, <2>1, HeadTailFacts DEF Places
    <2>2. CASE unuse = <<>>
      BY <1>3, <1>7, <2>2, EmptyFacts
    <2> QED  BY <2>1, <2>2
  <1>9. Fields'
    <2>1. ASSUME NEW u \in Threads
          PROVE  /\ thread'[u].type = "unused" => thread'[u] = Blank
                 /\ thread'[u].type # "unused" => thread'[u].arg \in Clients
                 /\ thread'[u].type \in Held \cup {"event"} => thread'[u].func = thread'[u].type
                 /\ thread'[u].type = "ready" => thread'[u].func \in IoKinds
      <3>1. CASE u = t
        BY <1>2, <1>5, <3>1
      <3>2. CASE u # t
        BY <1>5, <3>2 DEF Fields
      <3> QED  BY <3>1, <3>2
    <2> QED  BY <2>1 DEF Fields, Blank
  <1>10. \A l \in Lists : ToSet(list'[l]) = {u \in Threads : thread'[u].type = l}
    <2>1. ASSUME NEW l \in Lists PROVE ToSet(list'[l]) = {u \in Threads : thread'[u].type = l}
      <3>1. thread[t].type = "unused" /\ l # "unused"
        BY <1>1 DEF Blank, Lists
      <3>2. ToSet(list[l]) = {u \in Threads : thread[u].type = l}
        BY DEF Places
      <3>3. CASE l = k
        BY <1>1, <1>4, <1>5, <3>2, <3>3
      <3>4. CASE l # k
        BY <1>1, <1>4, <1>5, <3>1, <3>2, <3>4
      <3> QED  BY <3>3, <3>4
    <2> QED  BY <2>1
  <1>11. Listed' = Listed \cup {t}
    <2>1. \A u : u \in Listed <=> u \in ToSet(unuse) \/ (u \in Threads /\ thread[u].type \in Lists)
      BY ListsOf
    <2>2. \A u : u \in Listed' <=> u \in ToSet(unuse') \/ (u \in Threads /\ thread'[u].type \in Lists)
      <3>1. \A u : u \in Listed' <=> u \in ToSet(unuse') \/ \E l \in Lists : u \in ToSet(list'[l])
        BY DEF Listed
      <3>2. \A u : \A l \in Lists : u \in ToSet(list'[l]) <=> u \in Threads /\ thread'[u].type = l
        BY <1>10
      <3> QED  BY <3>1, <3>2
    <2>3. ASSUME NEW u PROVE u \in Listed' <=> u \in Listed \cup {t}
      <3>1. CASE u = t
        BY <1>1, <1>2, <1>5, <2>2, <3>1
      <3>2. CASE u # t
        BY <1>5, <1>8, <2>1, <2>2, <3>2
      <3> QED  BY <3>1, <3>2
    <2> QED  BY <2>3
  <1>12. alloc' = Cardinality(Listed')
    <2>1. IsFiniteSet(Listed) /\ alloc = Cardinality(Listed)
      BY ListsOf DEF Places
    <2>2. CASE unuse # <<>>
      <3>1. t \in Listed
        BY <1>1, <2>2, ListsOf
      <3>2. alloc' = alloc
        BY <2>2 DEF Get
      <3>3. Listed' = Listed
        BY <1>11, <3>1
      <3> QED  BY <2>1, <3>2, <3>3
    <2>3. CASE unuse = <<>>
      <3>1. alloc' = alloc + 1
        BY <2>3 DEF Get
      <3> QED  BY <1>1, <1>11, <2>1, <2>3, <3>1, FS_AddElement
    <2> QED  BY <2>2, <2>3
  <1>13. alloc' \in 0 .. Cardinality(Threads)
    <2>1. Listed' \subseteq Threads
      BY <1>1, <1>11, ListsOf
    <2>2. Cardinality(Listed') <= Cardinality(Threads) /\ IsFiniteSet(Listed')
      BY <2>1, ThreadAssumption, FS_Subset
    <2> QED  BY <1>12, <2>2, ThreadAssumption, FS_CardinalityType
  <1>14. Places'
    <2>1. \A l \in Lists : IsInjective(list'[l])
      BY <1>4, ListsOf
    <2>2. \A u \in ToSet(unuse') : u \in Threads /\ thread'[u].type = "unused"
      BY <1>5, <1>8, ListsOf DEF Places
    <2> QED  BY <1>8, <1>10, <1>12, <2>1, <2>2 DEF Places
  <1> QED  BY <1>4, <1>5, <1>6, <1>8, <1>9, <1>13, <1>14

-----------------------------------------------------------------------------
(* Threads that are taken out of their lists *)

LEMMA GoneInv ==
    ASSUME IInv, NEW G \in SUBSET {t \in Threads : thread[t].type \in Lists},
           list' \in [Lists -> Seq(Threads)],
           \A l \in Lists : IsInjective(list'[l]) /\ ToSet(list'[l]) = ToSet(list[l]) \ G,
           unuse' \in Seq(Threads), IsInjective(unuse'), ToSet(unuse') = ToSet(unuse) \cup G,
           thread' = [t \in Threads |-> IF t \in G THEN Blank ELSE thread[t]],
           alloc' = alloc
    PROVE  thread' \in [Threads -> Record] /\ Fields' /\ Places'
  <1> USE DEF IInv
  <1>1. /\ \A t \in G : t \in Threads /\ thread[t].type \in Lists
        /\ \A t \in G : thread'[t] = Blank
        /\ \A t \in Threads \ G : thread'[t] = thread[t]
    OBVIOUS
  <1>2. thread' \in [Threads -> Record]
    <2>1. \A t \in Threads : (IF t \in G THEN Blank ELSE thread[t]) \in Record
      BY BlankIsRecord, ListsOf
    <2> QED  BY <2>1
  <1>3. "unused" \notin Lists /\ Blank.type = "unused"
    BY DEF Lists, Blank
  <1>4. Fields'
    <2>1. ASSUME NEW u \in Threads
          PROVE  /\ thread'[u].type = "unused" => thread'[u] = Blank
                 /\ thread'[u].type # "unused" => thread'[u].arg \in Clients
                 /\ thread'[u].type \in Held \cup {"event"} => thread'[u].func = thread'[u].type
                 /\ thread'[u].type = "ready" => thread'[u].func \in IoKinds
      <3>1. CASE u \in G
        <4>1. "unused" \notin Held \cup {"event"}
          BY DEF Held, IoKinds
        <4> QED  BY <1>1, <1>3, <3>1, <4>1
      <3>2. CASE u \notin G
        BY <1>1, <3>2 DEF Fields
      <3> QED  BY <3>1, <3>2
    <2> QED  BY <2>1 DEF Fields, Blank
  <1>5. \A l \in Lists : ToSet(list'[l]) = {u \in Threads : thread'[u].type = l}
    <2>1. ASSUME NEW l \in Lists PROVE ToSet(list'[l]) = {u \in Threads : thread'[u].type = l}
      <3>1. ToSet(list'[l]) = {u \in Threads : thread[u].type = l} \ G
        BY DEF Places
      <3> QED  BY <1>1, <1>3, <3>1
    <2> QED  BY <2>1
  <1>6. Listed' = Listed
    <2>1. \A u : u \in Listed <=> u \in ToSet(unuse) \/ (u \in Threads /\ thread[u].type \in Lists)
      BY ListsOf
    <2>2. \A u : u \in Listed' <=> u \in ToSet(unuse') \/ (u \in Threads /\ thread'[u].type \in Lists)
      <3>1. \A u : u \in Listed' <=> u \in ToSet(unuse') \/ \E l \in Lists : u \in ToSet(list'[l])
        BY DEF Listed
      <3>2. \A u : \A l \in Lists : u \in ToSet(list'[l]) <=> u \in Threads /\ thread'[u].type = l
        BY <1>5
      <3>3. ASSUME NEW u
            PROVE  u \in Listed' <=> u \in ToSet(unuse') \/ (u \in Threads /\ thread'[u].type \in Lists)
        <4>1. (\E l \in Lists : u \in ToSet(list'[l])) <=> u \in Threads /\ thread'[u].type \in Lists
          BY <3>2
        <4> QED  BY <3>1, <4>1, Zenon
      <3> QED  BY <3>3
    <2>3. ASSUME NEW u PROVE u \in Listed' <=> u \in Listed
      <3>1. CASE u \in G
        BY <1>1, <2>1, <2>2, <3>1
      <3>2. CASE u \notin G
        BY <1>1, <2>1, <2>2, <3>2
      <3> QED  BY <3>1, <3>2
    <2> QED  BY <2>3
  <1>7. \A u \in ToSet(unuse') : u \in Threads /\ thread'[u].type = "unused"
    <2>1. \A u \in ToSet(unuse) : u \in Threads /\ thread[u].type = "unused"
      BY DEF Places
    <2> QED  BY <1>1, <1>3, <2>1
  <1>8. Places'
    BY <1>5, <1>6, <1>7 DEF Places
  <1> QED  BY <1>2, <1>4, <1>8

(* The same for one thread, and what it means for its list.                *)
LEMMA OneGoneInv ==
    ASSUME IInv, NEW t \in Threads, thread[t].type \in Lists,
           list' = [list EXCEPT ![thread[t].type] = Without(@, t)],
           unuse' = Append(unuse, t), thread' = [thread EXCEPT ![t] = Blank], alloc' = alloc
    PROVE  /\ list' \in [Lists -> Seq(Threads)] /\ unuse' \in Seq(Threads)
           /\ thread' \in [Threads -> Record] /\ Fields' /\ Places'
           /\ thread'[t] = Blank /\ \A u \in Threads \ {t} : thread'[u] = thread[u]
  <1> USE DEF IInv
  <1> DEFINE k == thread[t].type
  <1>0. thread[t].type \in Lists /\ thread[t].type # "unused"
    BY DEF Lists
  <1>1. /\ list \in [Lists -> Seq(Threads)] /\ unuse \in Seq(Threads)
        /\ thread \in [Threads -> Record]
    BY DEF TypeOK, Record
  <1>2. /\ list' \in [Lists -> Seq(Threads)] /\ list'[k] = Without(list[k], t)
        /\ \A l \in Lists \ {k} : list'[l] = list[l]
    <2>1. Without(list[k], t) \in Seq(Threads)
      BY <1>0, <1>1, WithoutFacts
    <2> QED  BY <1>0, <1>1, <2>1
  <1>3. \A l \in Lists : IsInjective(list'[l]) /\ ToSet(list'[l]) = ToSet(list[l]) \ {t}
    <2>1. ASSUME NEW l \in Lists
          PROVE  IsInjective(list'[l]) /\ ToSet(list'[l]) = ToSet(list[l]) \ {t}
      <3>1. list[l] \in Seq(Threads) /\ IsInjective(list[l])
        BY ListsOf
      <3>2. CASE l = k
        <4>1. list'[l] = Without(list[l], t)
          BY <1>2, <3>2
        <4> QED  BY <3>1, <4>1, WithoutFacts
      <3>3. CASE l # k
        <4>1. t \notin ToSet(list[l])
          BY <3>3, ListsOf
        <4> QED  BY <1>2, <3>1, <3>3, <4>1
      <3> QED  BY <3>2, <3>3
    <2> QED  BY <2>1
  <1>4. t \notin ToSet(unuse)
    BY <1>0 DEF Places
  <1>5. unuse' \in Seq(Threads) /\ IsInjective(unuse') /\ ToSet(unuse') = ToSet(unuse) \cup {t}
    BY <1>1, <1>4, AppendFacts DEF Places
  <1>6. thread' = [u \in Threads |-> IF u \in {t} THEN Blank ELSE thread[u]]
    BY <1>1
  <1>7. {t} \in SUBSET {u \in Threads : thread[u].type \in Lists}
    BY <1>0
  <1>8. thread' \in [Threads -> Record] /\ Fields' /\ Places'
    <2> HIDE DEF IInv
    <2> QED  BY <1>2, <1>3, <1>5, <1>6, <1>7, GoneInv
  <1> QED  BY <1>2, <1>5, <1>6, <1>8

(* Sorted timers remain sorted when some are left out.                     *)
LEMMA KeepAscending ==
    ASSUME NEW s \in Seq(Threads), NEW T, Ascending(s),
           \A t \in ToSet(Keep(s, T)) : thread'[t].val = thread[t].val
    PROVE  \A i, j \in DOMAIN Keep(s, T) :
             i < j => thread'[Keep(s, T)[i]].val <= thread'[Keep(s, T)[j]].val
  <1> DEFINE q == Keep(s, T)
  <1>1. q \in Seq(Threads) /\ InOrder(q, s, Len(s))
    BY KeepFacts
  <1>2. \A t \in ToSet(q) : thread'[t].val = thread[t].val
    OBVIOUS
  <1> HIDE DEF q
  <1>3. \A i \in DOMAIN q : q[i] \in ToSet(q)
    BY <1>1, InToSet
  <1>4. ASSUME NEW i \in DOMAIN q, NEW j \in DOMAIN q, i < j
        PROVE  thread'[q[i]].val <= thread'[q[j]].val
    <2>1. PICK m, n \in 1 .. Len(s) : m < n /\ q[i] = s[m] /\ q[j] = s[n]
      BY <1>1, <1>4 DEF InOrder
    <2>2. thread[s[m]].val <= thread[s[n]].val
      BY <2>1 DEF Ascending
    <2> QED  BY <1>2, <1>3, <2>1, <2>2
  <1> QED  BY <1>4 DEF q

-----------------------------------------------------------------------------
(* Adding threads *)

(* What a step that leaves a list and its threads alone keeps.             *)
LEMMA TimersSame ==
    ASSUME IInv, list'["timer"] = list["timer"],
           \A t \in ToSet(list["timer"]) : thread'[t] = thread[t]
    PROVE  Ascending(list["timer"])'
  <1>1. list["timer"] \in Seq(Threads)
    BY DEF IInv, TypeOK, Lists
  <1>2. \A i \in DOMAIN list["timer"] : thread'[list["timer"][i]] = thread[list["timer"][i]]
    BY <1>1, InToSet
  <1> QED  BY <1>2 DEF Ascending, IInv

LEMMA FdsSame ==
    ASSUME IInv, fds' = fds,
           \A k \in IoKinds : list'[k] = list[k] /\ \A t \in ToSet(list[k]) : thread'[t] = thread[t]
    PROVE  FdsOfLists'
  BY DEF IInv, FdsOfLists

(* A thread that a handle is set to.                                       *)
LEMMA NewOwner ==
    ASSUME IInv, NEW t \in Threads, thread[t] = Blank, NEW kind \in Held, NEW c \in Clients, NEW v \in Int,
           handle[kind][c] = Null, pc = "client", pc' = "client",
           thread'[t] = [type |-> kind, func |-> kind, arg |-> c, val |-> v],
           \A u \in Threads \ {t} : thread'[u] = thread[u],
           handle'[kind][c] = t,
           \A k \in Held, d \in Clients : k # kind \/ d # c => handle'[k][d] = handle[k][d]
    PROVE  Owners'
  <1> USE DEF IInv
  <1>0. handle \in [Held -> [Clients -> Threads \cup {Null}]]
    BY DEF TypeOK
  <1>1. \A u \in Threads : thread'[u].func \in Held => handle'[thread'[u].func][thread'[u].arg] = u
    <2>1. ASSUME NEW u \in Threads, u # t, thread'[u].func \in Held
          PROVE  handle'[thread'[u].func][thread'[u].arg] = u
      <3>1. /\ handle[thread[u].func][thread[u].arg] = u /\ thread[u] = thread'[u] /\ u # Null
            /\ thread[u].type # "unused"
        <4>1. Blank.func \notin Held
          BY ThreadAssumption DEF Blank
        <4> QED  BY <2>1, <4>1, ThreadAssumption DEF Owners, Fields
      <3>2. thread[u].arg \in Clients
        BY <3>1 DEF Fields
      <3> QED  BY <2>1, <3>1, <3>2
    <2> QED  BY <2>1
  <1>2. \A k \in Held, d \in Clients :
           \/ handle'[k][d] = Null
           \/ thread'[handle'[k][d]].func = k /\ thread'[handle'[k][d]].arg = d
    <2>1. ASSUME NEW k \in Held, NEW d \in Clients
          PROVE  \/ handle'[k][d] = Null
                 \/ thread'[handle'[k][d]].func = k /\ thread'[handle'[k][d]].arg = d
      <3>1. CASE k = kind /\ d = c
        BY <3>1
      <3>2. CASE (k # kind \/ d # c) /\ handle[k][d] # Null
        <4>1. thread[handle[k][d]].func = k /\ thread[handle[k][d]].arg = d /\ handle[k][d] \in Threads
          BY <1>0, <3>2 DEF Owners
        <4>2. handle[k][d] # t
          BY <4>1, ThreadAssumption DEF Blank
        <4> QED  BY <3>2, <4>1, <4>2
      <3> QED  BY <3>1, <3>2
    <2> QED  BY <2>1
  <1> QED  BY <1>1, <1>2 DEF Owners

(* The descriptors of a kind's list, and its owners, when one is added.    *)
LEMMA IoOnInv ==
    ASSUME IInv, NEW kind \in IoKinds, NEW c \in Clients, NEW fd \in FdsOf[c], IoOn(kind, c, fd)
    PROVE  IInv'
  <1> USE DEF IInv
  <1>0. kind \in Held \cup {"event"} /\ kind \in Held /\ kind \in Lists /\ fd \in Int /\ fd \in Fds
    BY ThreadAssumption DEF Held, IoKinds, Lists, Fds
  <1>1. PICK t \in Available :
          /\ Get(t, kind, c, fd)
          /\ list' = [list EXCEPT ![kind] = Append(@, t)]
          /\ handle' = [handle EXCEPT ![kind][c] = t]
    BY DEF IoOn
  <1>2. /\ t \in Threads /\ thread[t] = Blank
        /\ \A l \in Lists : t \notin ToSet(list[l])
    BY AvailableIsFree
  <1>3. /\ list \in [Lists -> Seq(Threads)] /\ handle \in [Held -> [Clients -> Threads \cup {Null}]]
        /\ fds \in [IoKinds -> SUBSET Fds]
    BY DEF TypeOK
  <1> DEFINE q == Append(list[kind], t)
  <1>4. q \in Seq(Threads) /\ ToSet(q) = ToSet(list[kind]) \cup {t} /\ IsInjective(q)
    BY <1>0, <1>2, <1>3, AppendFacts, ListsOf
  <1>5. list' = [list EXCEPT ![kind] = q]
    BY <1>1
  <1> HIDE DEF q
  <1>6. /\ list' \in [Lists -> Seq(Threads)] /\ unuse' \in Seq(Threads)
        /\ thread' \in [Threads -> Record] /\ alloc' \in 0 .. Cardinality(Threads)
        /\ thread'[t] = [type |-> kind, func |-> kind, arg |-> c, val |-> fd]
        /\ \A u \in Threads \ {t} : thread'[u] = thread[u]
        /\ Fields' /\ Places'
    <2> HIDE DEF IInv
    <2> QED  BY <1>0, <1>1, <1>4, <1>5, GetInv
  <1>7. /\ handle'[kind][c] = t /\ handle' \in [Held -> [Clients -> Threads \cup {Null}]]
        /\ \A k \in Held, d \in Clients : k # kind \/ d # c => handle'[k][d] = handle[k][d]
        /\ handle[kind][c] = Null
    BY <1>0, <1>1, <1>2, <1>3 DEF IoOn
  <1>8. /\ fds' \in [IoKinds -> SUBSET Fds] /\ fds'[kind] = fds[kind] \cup {fd}
        /\ \A k \in IoKinds \ {kind} : fds'[k] = fds[k]
        /\ fd \notin fds[kind]
    BY <1>0, <1>3 DEF IoOn
  <1>9. pc' = "client" /\ pc = "client" /\ clock' = clock /\ running' = running
    BY DEF IoOn
  <1>10. TypeOK'
    BY <1>6, <1>7, <1>8, <1>9 DEF TypeOK, Record
  <1>11. \A l \in Lists : \A u \in ToSet(list[l]) : thread'[u] = thread[u] /\ u \in Threads
    BY <1>2, <1>6, ListsOf DEF Places
  <1>12. \A l \in Lists \ {kind} : list'[l] = list[l]
    BY <1>3, <1>5
  <1>13. list'[kind] = q
    BY <1>0, <1>3, <1>5
  <1>14. FdsOfLists'
    <2>1. ASSUME NEW k \in IoKinds
          PROVE  /\ fds'[k] = {thread'[u].val : u \in ToSet(list'[k])}
                 /\ \A u, w \in ToSet(list'[k]) : thread'[u].val = thread'[w].val => u = w
      <3>0. k \in Lists
        BY DEF IoKinds, Lists
      <3>1. /\ fds[k] = {thread[u].val : u \in ToSet(list[k])}
            /\ \A u, w \in ToSet(list[k]) : thread[u].val = thread[w].val => u = w
        BY DEF FdsOfLists
      <3>2. CASE k = kind
        <4>1. ToSet(list'[k]) = ToSet(list[k]) \cup {t}
          BY <1>4, <1>13, <3>2
        <4>2. thread'[t].val = fd
          BY <1>6
        <4>3. \A u \in ToSet(list[k]) : thread'[u].val \in fds[k] /\ thread'[u].val = thread[u].val
          BY <1>11, <3>0, <3>1
        <4> QED  BY <1>8, <3>1, <3>2, <4>1, <4>2, <4>3
      <3>3. CASE k # kind
        BY <1>8, <1>11, <1>12, <3>0, <3>1, <3>3
      <3> QED  BY <3>2, <3>3
    <2> QED  BY <2>1 DEF FdsOfLists
  <1>15. Ascending(list["timer"])'
    <2>1. "timer" \in Lists /\ list'["timer"] = list["timer"]
      BY <1>12 DEF Lists, IoKinds
    <2> HIDE DEF IInv
    <2> QED  BY <1>11, <2>1, TimersSame
  <1>16. Owners'
    <2> HIDE DEF IInv
    <2> QED  BY <1>0, <1>2, <1>6, <1>7, <1>9, NewOwner
  <1> QED  BY <1>6, <1>10, <1>14, <1>15, <1>16

(* Where a timer is put, those before it are due earlier and the others    *)
(* are not.                                                                *)
LEMMA TimerPlaceSplits ==
    ASSUME IInv, NEW due \in Int
    PROVE  /\ TimerPlace(due) \in 1 .. Len(list["timer"]) + 1
           /\ \A i \in 1 .. Len(list["timer"]) :
                IF i < TimerPlace(due) THEN thread[list["timer"][i]].val < due
                                       ELSE due <= thread[list["timer"][i]].val
  <1> USE DEF IInv
  <1> DEFINE s == list["timer"]
             N == Len(s)
             T == {i \in DOMAIN s : due <= thread[s[i]].val} \cup {N + 1}
             p == Min(T)
  <1>1. s \in Seq(Threads) /\ N \in Nat /\ DOMAIN s = 1 .. N
    BY DEF TypeOK, Lists
  <1>2. \A i \in 1 .. N : s[i] \in Threads /\ thread[s[i]].val \in Int
    BY <1>1 DEF TypeOK
  <1>3. T \in SUBSET Nat /\ T # {} /\ \A i \in T : i \in 1 .. N + 1
    BY <1>1
  <1>4. TimerPlace(due) = p
    BY DEF TimerPlace
  <1>5. p \in T /\ \A i \in T : p <= i
    <2> HIDE DEF T
    <2> QED  BY <1>3, MinIsLeast
  <1> HIDE DEF p
  <1>6. ASSUME NEW i \in 1 .. N
        PROVE  IF i < p THEN thread[s[i]].val < due ELSE due <= thread[s[i]].val
    <2>1. i \in Nat /\ p \in Nat /\ p \in 1 .. N + 1
      BY <1>1, <1>3, <1>5
    <2>2. CASE i < p
      <3>1. i \notin T
        BY <1>5, <2>1, <2>2
      <3> QED  BY <1>1, <1>2, <2>2, <3>1
    <2>3. CASE ~(i < p)
      <3>1. p \in 1 .. N /\ p # N + 1
        BY <1>1, <2>1, <2>3
      <3>2. due <= thread[s[p]].val
        BY <1>5, <3>1
      <3>3. thread[s[p]].val <= thread[s[i]].val
        <4>1. CASE p = i
          BY <1>2, <4>1
        <4>2. CASE p < i
          BY <1>1, <3>1, <4>2 DEF Ascending
        <4> QED  BY <2>1, <2>3, <4>1, <4>2
      <3> QED  BY <1>2, <2>3, <3>1, <3>2, <3>3
    <2> QED  BY <2>2, <2>3
  <1>7. p \in 1 .. N + 1
    BY <1>3, <1>5
  <1> QED  BY <1>4, <1>6, <1>7

LEMMA TimerOnInv ==
    ASSUME IInv, NEW c \in Clients, NEW delay \in Delays, TimerOn(c, delay)
    PROVE  IInv'
  <1> USE DEF IInv
  <1> DEFINE due == clock + delay
             s == list["timer"]
             p == TimerPlace(due)
             N == Len(s)
  <1>0. "timer" \in Held /\ "timer" \in Lists /\ due \in Int
    BY ThreadAssumption DEF Held, Lists, TypeOK
  <1>1. PICK t \in Available :
          /\ Get(t, "timer", c, due)
          /\ list' = [list EXCEPT !["timer"] = InsertAt(s, p, t)]
          /\ handle' = [handle EXCEPT !["timer"][c] = t]
    BY DEF TimerOn
  <1>2. /\ t \in Threads /\ thread[t] = Blank
        /\ \A l \in Lists : t \notin ToSet(list[l])
    BY AvailableIsFree
  <1>3. /\ list \in [Lists -> Seq(Threads)] /\ handle \in [Held -> [Clients -> Threads \cup {Null}]]
    BY DEF TypeOK
  <1> DEFINE q == InsertAt(s, p, t)
  <1> HIDE DEF due
  <1>4. /\ s \in Seq(Threads) /\ N \in Nat /\ p \in 1 .. N + 1
        /\ \A i \in 1 .. N : IF i < p THEN thread[s[i]].val < due ELSE due <= thread[s[i]].val
    <2>1. s \in Seq(Threads) /\ N \in Nat
      BY <1>0, <1>3
    <2> HIDE DEF IInv
    <2>2. /\ TimerPlace(due) \in 1 .. Len(list["timer"]) + 1
          /\ \A i \in 1 .. Len(list["timer"]) :
                IF i < TimerPlace(due) THEN thread[list["timer"][i]].val < due
                                       ELSE due <= thread[list["timer"][i]].val
      BY <1>0, TimerPlaceSplits, Zenon
    <2> QED  BY <2>1, <2>2, Zenon
  <1> HIDE DEF p
  <1>5. q \in Seq(Threads) /\ ToSet(q) = ToSet(s) \cup {t} /\ IsInjective(q)
    <2> HIDE DEF s
    <2>1. IsInjective(s) /\ t \notin ToSet(s)
      BY <1>0, <1>2, ListsOf DEF s
    <2>2. /\ InsertAt(s, p, t) \in Seq(Threads)
          /\ ToSet(InsertAt(s, p, t)) = ToSet(s) \cup {t}
          /\ IsInjective(s) /\ t \notin ToSet(s) => IsInjective(InsertAt(s, p, t))
      BY <1>2, <1>4, InsertAtFacts
    <2> QED  BY <2>1, <2>2
  <1>6. /\ Len(q) = N + 1
        /\ \A i \in 1 .. N + 1 : q[i] = IF i < p THEN s[i] ELSE IF i = p THEN t ELSE s[i - 1]
    <2> HIDE DEF s
    <2> QED  BY <1>2, <1>4, InsertAtIs
  <1>7. list' = [list EXCEPT !["timer"] = q]
    BY <1>1
  <1> HIDE DEF q
  <1>8. /\ list' \in [Lists -> Seq(Threads)] /\ unuse' \in Seq(Threads)
        /\ thread' \in [Threads -> Record] /\ alloc' \in 0 .. Cardinality(Threads)
        /\ thread'[t] = [type |-> "timer", func |-> "timer", arg |-> c, val |-> due]
        /\ \A u \in Threads \ {t} : thread'[u] = thread[u]
        /\ Fields' /\ Places'
    <2> HIDE DEF IInv
    <2> QED  BY <1>0, <1>1, <1>5, <1>7, GetInv
  <1>9. /\ handle'["timer"][c] = t /\ handle' \in [Held -> [Clients -> Threads \cup {Null}]]
        /\ \A k \in Held, d \in Clients : k # "timer" \/ d # c => handle'[k][d] = handle[k][d]
        /\ handle["timer"][c] = Null
    BY <1>0, <1>1, <1>2, <1>3 DEF TimerOn
  <1>10. pc' = "client" /\ pc = "client" /\ clock' = clock /\ running' = running /\ fds' = fds
    BY DEF TimerOn
  <1>11. TypeOK'
    BY <1>8, <1>9, <1>10 DEF TypeOK, Record
  <1>12. \A l \in Lists : \A u \in ToSet(list[l]) : thread'[u] = thread[u] /\ u \in Threads
    BY <1>2, <1>8, ListsOf DEF Places
  <1>13. FdsOfLists'
    <2>1. \A k \in IoKinds : k \in Lists /\ list'[k] = list[k]
      BY <1>3, <1>7 DEF IoKinds, Lists
    <2> HIDE DEF IInv
    <2> QED  BY <1>10, <1>12, <2>1, FdsSame
  <1>14. Ascending(list["timer"])'
    <2>1. list'["timer"] = q
      BY <1>0, <1>3, <1>7
    <2>2. \A i \in 1 .. N : s[i] \in Threads /\ thread'[s[i]].val = thread[s[i]].val /\ thread[s[i]].val \in Int
      BY <1>0, <1>4, <1>12, InToSet DEF TypeOK
    <2>3. thread'[t].val = due
      BY <1>8
    <2>4. ASSUME NEW i \in 1 .. N + 1, NEW j \in 1 .. N + 1, i < j
          PROVE  thread'[q[i]].val <= thread'[q[j]].val
      <3>1. /\ i < p => i \in 1 .. N /\ q[i] = s[i]
            /\ i > p => i - 1 \in 1 .. N /\ q[i] = s[i - 1]
            /\ i = p => q[i] = t
        BY <1>4, <1>6
      <3>2. /\ j < p => j \in 1 .. N /\ q[j] = s[j]
            /\ j > p => j - 1 \in 1 .. N /\ q[j] = s[j - 1]
            /\ j = p => q[j] = t
        BY <1>4, <1>6
      <3>3. DOMAIN s = 1 .. N /\ p \in Nat /\ i \in Nat /\ j \in Nat
        BY <1>4
      <3>4. CASE j < p
        BY <2>2, <2>4, <3>1, <3>2, <3>3, <3>4 DEF Ascending
      <3>5. CASE j = p
        BY <1>0, <1>4, <2>2, <2>3, <2>4, <3>1, <3>2, <3>3, <3>5
      <3>6. CASE j > p /\ i < p
        <4>1. i < j - 1 \/ i = j - 1
          BY <3>3, <3>6
        <4> QED  BY <2>2, <3>1, <3>2, <3>3, <3>6, <4>1 DEF Ascending
      <3>7. CASE j > p /\ i = p
        <4>1. ~(j - 1 < p)
          BY <3>3, <3>7
        <4> QED  BY <1>0, <1>4, <2>2, <2>3, <3>1, <3>2, <3>3, <3>7, <4>1
      <3>8. CASE j > p /\ i > p
        <4>1. i - 1 < j - 1
          BY <2>4, <3>3
        <4> QED  BY <2>2, <3>1, <3>2, <3>3, <3>8, <4>1 DEF Ascending
      <3> QED  BY <3>3, <3>4, <3>5, <3>6, <3>7, <3>8
    <2>5. DOMAIN q = 1 .. N + 1
      BY <1>5, <1>6
    <2> QED  BY <2>1, <2>4, <2>5 DEF Ascending
  <1>15. Owners'
    <2> HIDE DEF IInv
    <2> QED  BY <1>0, <1>2, <1>8, <1>9, <1>10, NewOwner
  <1> QED  BY <1>8, <1>11, <1>13, <1>14, <1>15

(* A step that leaves the handles and the threads they own alone.          *)
LEMMA OwnersSame ==
    ASSUME IInv, handle' = handle, pc' # "call", pc # "call",
           \A t \in Threads : thread[t].func \in Held \/ thread'[t].func \in Held => thread'[t] = thread[t]
    PROVE  Owners'
  <1> USE DEF IInv
  <1>1. handle \in [Held -> [Clients -> Threads \cup {Null}]]
    BY DEF TypeOK
  <1>2. \A t \in Threads : thread'[t].func \in Held => handle'[thread'[t].func][thread'[t].arg] = t
    BY DEF Owners
  <1>3. ASSUME NEW k \in Held, NEW c \in Clients, handle'[k][c] # Null
        PROVE  thread'[handle'[k][c]].func = k /\ thread'[handle'[k][c]].arg = c
    <2>1. handle[k][c] \in Threads /\ thread[handle[k][c]].func = k /\ thread[handle[k][c]].arg = c
      BY <1>1, <1>3 DEF Owners
    <2> QED  BY <2>1
  <1> QED  BY <1>2, <1>3 DEF Owners

LEMMA AddEventInv ==
    ASSUME IInv, NEW c \in Clients, AddEvent(c)
    PROVE  IInv'
  <1> USE DEF IInv
  <1>0. "event" \in Held \cup {"event"} /\ "event" \in Lists /\ "event" \notin Held /\ 0 \in Int
    BY DEF Held, IoKinds, Lists
  <1>1. PICK t \in Available :
          Get(t, "event", c, 0) /\ list' = [list EXCEPT !["event"] = Append(@, t)]
    BY DEF AddEvent
  <1>2. /\ t \in Threads /\ thread[t] = Blank
        /\ \A l \in Lists : t \notin ToSet(list[l])
    BY AvailableIsFree
  <1>3. list \in [Lists -> Seq(Threads)]
    BY DEF TypeOK
  <1> DEFINE q == Append(list["event"], t)
  <1>4. q \in Seq(Threads) /\ ToSet(q) = ToSet(list["event"]) \cup {t} /\ IsInjective(q)
    BY <1>0, <1>2, <1>3, AppendFacts, ListsOf
  <1>5. list' = [list EXCEPT !["event"] = q]
    BY <1>1
  <1> HIDE DEF q
  <1>6. /\ list' \in [Lists -> Seq(Threads)] /\ unuse' \in Seq(Threads)
        /\ thread' \in [Threads -> Record] /\ alloc' \in 0 .. Cardinality(Threads)
        /\ thread'[t] = [type |-> "event", func |-> "event", arg |-> c, val |-> 0]
        /\ \A u \in Threads \ {t} : thread'[u] = thread[u]
        /\ Fields' /\ Places'
    <2> HIDE DEF IInv
    <2> QED  BY <1>0, <1>1, <1>4, <1>5, GetInv
  <1>7. /\ pc' = "client" /\ pc = "client" /\ clock' = clock /\ running' = running
        /\ fds' = fds /\ handle' = handle
    BY DEF AddEvent
  <1>8. TypeOK'
    BY <1>6, <1>7 DEF TypeOK, Record
  <1>9. \A l \in Lists : \A u \in ToSet(list[l]) : thread'[u] = thread[u] /\ u \in Threads
    BY <1>2, <1>6, ListsOf DEF Places
  <1>10. \A l \in Lists \ {"event"} : list'[l] = list[l]
    BY <1>3, <1>5
  <1>11. FdsOfLists'
    <2>1. \A k \in IoKinds : k \in Lists /\ list'[k] = list[k]
      BY <1>10 DEF IoKinds, Lists
    <2> HIDE DEF IInv
    <2> QED  BY <1>7, <1>9, <2>1, FdsSame
  <1>12. Ascending(list["timer"])'
    <2>1. "timer" \in Lists /\ list'["timer"] = list["timer"]
      BY <1>10 DEF Lists
    <2> HIDE DEF IInv
    <2> QED  BY <1>9, <2>1, TimersSame
  <1>13. Owners'
    <2>1. Blank.func \notin Held
      BY ThreadAssumption DEF Blank
    <2>2. \A u \in Threads : thread[u].func \in Held \/ thread'[u].func \in Held => thread'[u] = thread[u]
      BY <1>0, <1>2, <1>6, <2>1
    <2> HIDE DEF IInv
    <2> QED  BY <1>7, <2>2, OwnersSame
  <1> QED  BY <1>6, <1>8, <1>11, <1>12, <1>13

-----------------------------------------------------------------------------
(* Cancelling *)

(* Descriptors that are cleared with the threads that waited for them.     *)
LEMMA FdsGone ==
    ASSUME IInv, NEW D \in [IoKinds -> SUBSET Int],
           \A k \in IoKinds :
             /\ fds'[k] = fds[k] \ D[k]
             /\ ToSet(list'[k]) = {t \in ToSet(list[k]) : thread[t].val \notin D[k]}
             /\ \A t \in ToSet(list'[k]) : thread'[t].val = thread[t].val
    PROVE  FdsOfLists'
  <1> SUFFICES ASSUME NEW k \in IoKinds
               PROVE  /\ fds'[k] = {thread'[t].val : t \in ToSet(list'[k])}
                      /\ \A t, u \in ToSet(list'[k]) : thread'[t].val = thread'[u].val => t = u
    BY DEF FdsOfLists
  <1>1. /\ fds[k] = {thread[t].val : t \in ToSet(list[k])}
        /\ \A t, u \in ToSet(list[k]) : thread[t].val = thread[u].val => t = u
    BY DEF IInv, FdsOfLists
  <1> QED  BY <1>1

LEMMA OffInv ==
    ASSUME IInv, NEW kind \in Held, NEW c \in Clients, Off(kind, c)
    PROVE  IInv'
  <1> USE DEF IInv
  <1> DEFINE t == handle[kind][c]
             l == thread[t].type
  <1>0. /\ handle \in [Held -> [Clients -> Threads \cup {Null}]]
        /\ list \in [Lists -> Seq(Threads)] /\ thread \in [Threads -> Record]
        /\ fds \in [IoKinds -> SUBSET Fds]
    BY DEF TypeOK, Record
  <1>1. /\ pc = "client" /\ pc' = "client" /\ t # Null
        /\ handle' = [handle EXCEPT ![kind][c] = Null]
        /\ alloc' = alloc /\ clock' = clock /\ running' = running
        /\ list' = IF l \in Lists THEN [list EXCEPT ![l] = Without(@, t)] ELSE list
        /\ fds' = IF l \in IoKinds THEN [fds EXCEPT ![l] = @ \ {thread[t].val}] ELSE fds
        /\ thread' = [thread EXCEPT ![t] = Blank]
        /\ unuse' = Append(unuse, t)
    BY DEF Off, Cancel
  <1>2. t \in Threads /\ thread[t].func = kind /\ thread[t].arg = c
    BY <1>0, <1>1 DEF Owners
  <1> HIDE DEF t
  <1>3. /\ l \in Lists /\ l # "unused"
        /\ \A k \in Held \cup {"event"} : l = k => k = kind
    <2>1. Blank.func \notin Held
      BY ThreadAssumption DEF Blank
    <2>2. l # "unused"
      BY <1>2, <2>1 DEF Fields
    <2> QED  BY <1>2, <2>2, ListsOf DEF Fields
  <1>4. list' = [list EXCEPT ![l] = Without(@, t)]
    BY <1>1, <1>3
  <1>5. /\ list' \in [Lists -> Seq(Threads)] /\ unuse' \in Seq(Threads)
        /\ thread' \in [Threads -> Record] /\ Fields' /\ Places'
        /\ thread'[t] = Blank /\ \A u \in Threads \ {t} : thread'[u] = thread[u]
    <2> HIDE DEF IInv
    <2> QED  BY <1>1, <1>2, <1>3, <1>4, OneGoneInv
  <1>6. /\ handle'[kind][c] = Null /\ handle' \in [Held -> [Clients -> Threads \cup {Null}]]
        /\ \A k \in Held, d \in Clients : k # kind \/ d # c => handle'[k][d] = handle[k][d]
    BY <1>0, <1>1
  <1>7. /\ fds' \in [IoKinds -> SUBSET Fds]
        /\ \A k \in IoKinds : fds'[k] = IF k = l THEN fds[k] \ {thread[t].val} ELSE fds[k]
    BY <1>0, <1>1
  <1>8. TypeOK'
    <2>1. alloc' \in 0 .. Cardinality(Threads) /\ clock' \in 0 .. MaxTime /\ running' \in Record
      BY <1>1 DEF TypeOK, Record
    <2> QED  BY <1>1, <1>5, <1>6, <1>7, <2>1 DEF TypeOK, Record
  <1>9. /\ list'[l] = Without(list[l], t) /\ \A k \in Lists \ {l} : list'[k] = list[k]
        /\ ToSet(list'[l]) = ToSet(list[l]) \ {t}
        /\ \A k \in Lists : \A u \in ToSet(list'[k]) : u # t /\ u \in Threads
    <2>1. list'[l] = Without(list[l], t) /\ \A k \in Lists \ {l} : list'[k] = list[k]
      BY <1>0, <1>3, <1>4
    <2>2. ToSet(list'[l]) = ToSet(list[l]) \ {t}
      BY <1>0, <1>2, <1>3, <2>1, WithoutFacts
    <2>3. \A k \in Lists \ {l} : t \notin ToSet(list[k])
      BY <1>2, ListsOf
    <2>4. \A k \in Lists : \A u \in ToSet(list[k]) : u \in Threads
      BY DEF Places
    <2> QED  BY <2>1, <2>2, <2>3, <2>4
  <1>10. FdsOfLists'
    <2> DEFINE D == [k \in IoKinds |-> IF k = l THEN {thread[t].val} ELSE {}]
    <2>1. D \in [IoKinds -> SUBSET Int]
      BY <1>0, <1>2 DEF Record
    <2>2. ASSUME NEW k \in IoKinds
          PROVE  /\ fds'[k] = fds[k] \ D[k]
                 /\ ToSet(list'[k]) = {u \in ToSet(list[k]) : thread[u].val \notin D[k]}
                 /\ \A u \in ToSet(list'[k]) : thread'[u].val = thread[u].val
      <3>1. k \in Lists
        BY DEF Lists, IoKinds
      <3>2. CASE k = l
        <4>1. \A u \in ToSet(list[k]) : thread[u].val = thread[t].val => u = t
          BY <1>2, <3>1, <3>2, ListsOf DEF FdsOfLists
        <4> QED  BY <1>5, <1>7, <1>9, <3>1, <3>2, <4>1
      <3>3. CASE k # l
        BY <1>5, <1>7, <1>9, <3>1, <3>3
      <3> QED  BY <3>2, <3>3
    <2> HIDE DEF IInv, D
    <2> QED  BY <2>1, <2>2, FdsGone
  <1>11. Ascending(list["timer"])'
    <2>0. "timer" \in Lists /\ list["timer"] \in Seq(Threads)
      BY <1>0 DEF Lists
    <2>1. CASE l = "timer"
      <3>1. list'["timer"] = Keep(list["timer"], Threads \ {t})
        BY <1>9, <2>1 DEF Without
      <3>2. \A u \in ToSet(list'["timer"]) : thread'[u].val = thread[u].val
        BY <1>5, <1>9, <2>0
      <3> QED  BY <2>0, <3>1, <3>2, KeepAscending DEF Ascending
    <2>2. CASE l # "timer"
      <3>1. list'["timer"] = list["timer"] /\ \A u \in ToSet(list["timer"]) : thread'[u] = thread[u]
        BY <1>5, <1>9, <2>0, <2>2
      <3> HIDE DEF IInv
      <3> QED  BY <3>1, TimersSame
    <2> QED  BY <2>1, <2>2
  <1>12. Owners'
    <2>0. Blank.func \notin Held
      BY ThreadAssumption DEF Blank
    <2>1. ASSUME NEW u \in Threads, thread'[u].func \in Held
          PROVE  handle'[thread'[u].func][thread'[u].arg] = u
      <3>1. u # t /\ thread'[u] = thread[u] /\ handle[thread[u].func][thread[u].arg] = u
        BY <1>5, <2>0, <2>1 DEF Owners
      <3>2. thread[u].arg \in Clients
        BY <2>0, <2>1, <3>1 DEF Fields
      <3> QED  BY <1>6, <2>1, <3>1, <3>2 DEF t
    <2>2. ASSUME NEW k \in Held, NEW d \in Clients, handle'[k][d] # Null
          PROVE  thread'[handle'[k][d]].func = k /\ thread'[handle'[k][d]].arg = d
      <3>1. (k # kind \/ d # c) /\ handle'[k][d] = handle[k][d]
        BY <1>6, <2>2
      <3>2. handle[k][d] \in Threads /\ thread[handle[k][d]].func = k /\ thread[handle[k][d]].arg = d
        BY <1>0, <1>1, <2>2, <3>1 DEF Owners
      <3> QED  BY <1>2, <1>5, <3>1, <3>2
    <2> QED  BY <1>1, <2>1, <2>2 DEF Owners
  <1> QED  BY <1>5, <1>8, <1>10, <1>11, <1>12

LEMMA CancelEventInv ==
    ASSUME IInv, NEW c \in Clients, CancelEvent(c)
    PROVE  IInv'
  <1> USE DEF IInv
  <1> DEFINE s    == list["event"]
             gone == Keep(s, ThreadsOf(c))
             left == Keep(s, Threads \ ThreadsOf(c))
             G    == ToSet(gone)
  <1>0. /\ list \in [Lists -> Seq(Threads)] /\ thread \in [Threads -> Record] /\ "event" \in Lists
        /\ s \in Seq(Threads) /\ unuse \in Seq(Threads) /\ IsInjective(s) /\ IsInjective(unuse)
    BY DEF TypeOK, Record, Lists, Places
  <1>1. /\ list' = [list EXCEPT !["event"] = left]
        /\ thread' = [t \in Threads |-> IF t \in G THEN Blank ELSE thread[t]]
        /\ unuse' = unuse \o gone
        /\ fds' = fds /\ alloc' = alloc /\ clock' = clock /\ handle' = handle
        /\ running' = running /\ pc' = pc /\ pc = "client"
    BY DEF CancelEvent
  <1> HIDE DEF s
  <1>2. /\ gone \in Seq(Threads) /\ IsInjective(gone) /\ G = ToSet(s) \cap ThreadsOf(c)
        /\ left \in Seq(Threads) /\ IsInjective(left) /\ ToSet(left) = ToSet(s) \cap (Threads \ ThreadsOf(c))
    BY <1>0, KeepFacts, KeepInjective
  <1> HIDE DEF gone, left
  <1>3. /\ G \subseteq ToSet(s) /\ G \subseteq Threads
        /\ \A t \in G : thread[t].type = "event" /\ thread[t].func = "event"
    <2>1. \A t \in ToSet(s) : t \in Threads /\ thread[t].type = "event"
      BY <1>0 DEF Places, s
    <2> QED  BY <1>2, <2>1 DEF Fields
  <1>4. ToSet(left) = ToSet(s) \ G
    <2>1. \A t \in ToSet(s) : t \in Threads
      BY <1>0, InToSet
    <2> QED  BY <1>2, <2>1
  <1>5. unuse' \in Seq(Threads) /\ IsInjective(unuse') /\ ToSet(unuse') = ToSet(unuse) \cup G
    <2>1. ToSet(unuse) \cap G = {}
      BY <1>3 DEF Places
    <2> QED  BY <1>0, <1>1, <1>2, <2>1, ConcatFacts
  <1> HIDE DEF G
  <1>6. /\ list' \in [Lists -> Seq(Threads)] /\ list'["event"] = left
        /\ \A l \in Lists \ {"event"} : list'[l] = list[l]
    BY <1>0, <1>1, <1>2
  <1>7. \A l \in Lists : IsInjective(list'[l]) /\ ToSet(list'[l]) = ToSet(list[l]) \ G
    <2>1. ASSUME NEW l \in Lists
          PROVE  IsInjective(list'[l]) /\ ToSet(list'[l]) = ToSet(list[l]) \ G
      <3>1. CASE l = "event"
        BY <1>2, <1>4, <1>6, <3>1 DEF s
      <3>2. CASE l # "event"
        <4>1. ToSet(list[l]) \cap G = {} /\ IsInjective(list[l])
          BY <1>3, <3>2, ListsOf
        <4> QED  BY <1>6, <3>2, <4>1
      <3> QED  BY <3>1, <3>2
    <2> QED  BY <2>1
  <1>8. thread' \in [Threads -> Record] /\ Fields' /\ Places'
    <2>1. G \in SUBSET {t \in Threads : thread[t].type \in Lists}
      BY <1>0, <1>3
    <2> HIDE DEF IInv
    <2> QED  BY <1>1, <1>5, <1>6, <1>7, <2>1, GoneInv
  <1>9. TypeOK'
    <2>1. /\ alloc' \in 0 .. Cardinality(Threads) /\ clock' \in 0 .. MaxTime /\ running' \in Record
          /\ fds' \in [IoKinds -> SUBSET Fds] /\ handle' \in [Held -> [Clients -> Threads \cup {Null}]]
      BY <1>1 DEF TypeOK, Record
    <2> QED  BY <1>1, <1>5, <1>6, <1>8, <2>1 DEF TypeOK, Record
  <1>10. \A l \in Lists \ {"event"} : \A t \in ToSet(list[l]) : thread'[t] = thread[t]
    <2>1. \A l \in Lists \ {"event"} : \A t \in ToSet(list[l]) : t \in Threads /\ t \notin G
      BY <1>3 DEF Places
    <2> QED  BY <1>1, <2>1
  <1>11. FdsOfLists'
    <2>1. \A k \in IoKinds : k \in Lists \ {"event"} /\ list'[k] = list[k]
      BY <1>6 DEF IoKinds, Lists
    <2> HIDE DEF IInv
    <2> QED  BY <1>1, <1>10, <2>1, FdsSame
  <1>12. Ascending(list["timer"])'
    <2>1. "timer" \in Lists \ {"event"} /\ list'["timer"] = list["timer"]
      BY <1>6 DEF Lists
    <2> HIDE DEF IInv
    <2> QED  BY <1>10, <2>1, TimersSame
  <1>13. Owners'
    <2>1. "event" \notin Held /\ Blank.func \notin Held
      BY ThreadAssumption DEF Held, IoKinds, Blank
    <2>2. \A t \in Threads : thread[t].func \in Held \/ thread'[t].func \in Held => thread'[t] = thread[t]
      BY <1>1, <1>3, <2>1
    <2> HIDE DEF IInv
    <2> QED  BY <1>1, <2>2, OwnersSame
  <1> QED  BY <1>8, <1>9, <1>11, <1>12, <1>13

LEMMA ReturnInv ==
    ASSUME IInv, Return
    PROVE  IInv'
  <1> USE DEF IInv
  <1>1. /\ list' = list /\ unuse' = unuse /\ thread' = thread /\ fds' = fds /\ alloc' = alloc
        /\ clock' = clock /\ handle' = handle /\ pc = "client" /\ pc' = "fetch" /\ running' = Blank
    BY DEF Return
  <1>2. TypeOK'
    <2>1. running' \in Record
      BY <1>1, BlankIsRecord
    <2> QED  BY <1>1, <2>1 DEF TypeOK, Record
  <1>3. Fields' /\ Places' /\ FdsOfLists' /\ Ascending(list["timer"])'
    BY <1>1 DEF Fields, Places, FdsOfLists, Ascending, Listed
  <1>4. Owners'
    <2> HIDE DEF IInv
    <2> QED  BY <1>1, OwnersSame
  <1> QED  BY <1>2, <1>3, <1>4

-----------------------------------------------------------------------------
(* Running *)

(* The thread that was fetched is the only one of its handle, and no other *)
(* thread has its owner.                                                   *)
LEMMA OwnersFetched ==
    ASSUME IInv, NEW t \in Threads, pc = "fetch", pc' = "call", handle' = handle,
           running'.func = thread[t].func, running'.arg = thread[t].arg,
           thread'[t] = Blank,
           \A u \in Threads \ {t} : thread'[u].func = thread[u].func /\ thread'[u].arg = thread[u].arg
    PROVE  Owners'
  <1> USE DEF IInv
  <1>0. handle \in [Held -> [Clients -> Threads \cup {Null}]]
    BY DEF TypeOK
  <1>1. Blank.func \notin Held
    BY ThreadAssumption DEF Blank
  <1>2. ASSUME NEW u \in Threads, thread'[u].func \in Held
        PROVE  u # t /\ handle'[thread'[u].func][thread'[u].arg] = u
    <2>1. u # t
      BY <1>1, <1>2
    <2> QED  BY <1>2, <2>1 DEF Owners
  <1>3. ASSUME NEW k \in Held, NEW c \in Clients, handle'[k][c] # Null
        PROVE  \/ thread'[handle'[k][c]].func = k /\ thread'[handle'[k][c]].arg = c
               \/ running'.func = k /\ running'.arg = c
    <2>1. handle[k][c] \in Threads /\ thread[handle[k][c]].func = k /\ thread[handle[k][c]].arg = c
      BY <1>0, <1>3 DEF Owners
    <2> QED  BY <2>1
  <1>4. ASSUME running'.func \in Held, NEW u \in Threads, thread'[u].func = running'.func
        PROVE  thread'[u].arg # running'.arg
    <2>1. u # t /\ thread[u].func = thread[t].func
      BY <1>1, <1>4
    <2>2. /\ handle[thread[u].func][thread[u].arg] = u
          /\ handle[thread[t].func][thread[t].arg] = t
      BY <1>4, <2>1 DEF Owners
    <2> QED  BY <2>1, <2>2
  <1>5. \A k \in Held, c \in Clients :
          \/ handle'[k][c] = Null
          \/ thread'[handle'[k][c]].func = k /\ thread'[handle'[k][c]].arg = c
          \/ running'.func = k /\ running'.arg = c
    BY <1>3
  <1> QED  BY <1>2, <1>4, <1>5 DEF Owners

LEMMA RunFromInv ==
    ASSUME IInv, pc = "fetch", NEW l \in Lists \ IoKinds, NEW t \in ToSet(list[l]), RunFrom(l, t)
    PROVE  IInv'
  <1> USE DEF IInv
  <1>0. /\ list \in [Lists -> Seq(Threads)] /\ thread \in [Threads -> Record]
        /\ t \in Threads /\ thread[t].type = l /\ l \in Lists
    BY DEF TypeOK, Record, Places
  <1>1. /\ list' = [list EXCEPT ![l] = Without(@, t)]
        /\ running' = thread[t] /\ thread' = [thread EXCEPT ![t] = Blank]
        /\ unuse' = Append(unuse, t) /\ pc' = "call"
        /\ fds' = fds /\ alloc' = alloc /\ clock' = clock /\ handle' = handle
    BY DEF RunFrom
  <1>2. /\ list' \in [Lists -> Seq(Threads)] /\ unuse' \in Seq(Threads)
        /\ thread' \in [Threads -> Record] /\ Fields' /\ Places'
        /\ thread'[t] = Blank /\ \A u \in Threads \ {t} : thread'[u] = thread[u]
    <2> HIDE DEF IInv
    <2> QED  BY <1>0, <1>1, OneGoneInv
  <1>3. TypeOK'
    <2>1. /\ alloc' \in 0 .. Cardinality(Threads) /\ clock' \in 0 .. MaxTime /\ running' \in Record
          /\ fds' \in [IoKinds -> SUBSET Fds] /\ handle' \in [Held -> [Clients -> Threads \cup {Null}]]
      BY <1>0, <1>1 DEF TypeOK
    <2> QED  BY <1>1, <1>2, <2>1 DEF TypeOK, Record
  <1>4. /\ list'[l] = Without(list[l], t) /\ \A k \in Lists \ {l} : list'[k] = list[k]
        /\ \A k \in Lists \ {l} : \A u \in ToSet(list[k]) : thread'[u] = thread[u]
    <2>1. list'[l] = Without(list[l], t) /\ \A k \in Lists \ {l} : list'[k] = list[k]
      BY <1>0, <1>1
    <2>2. \A k \in Lists \ {l} : \A u \in ToSet(list[k]) : u # t /\ u \in Threads
      BY <1>0 DEF Places
    <2> QED  BY <1>2, <2>1, <2>2
  <1>5. FdsOfLists'
    <2>1. \A k \in IoKinds : k \in Lists \ {l}
      BY DEF IoKinds, Lists
    <2> HIDE DEF IInv
    <2> QED  BY <1>1, <1>4, <2>1, FdsSame
  <1>6. Ascending(list["timer"])'
    <2>0. "timer" \in Lists /\ list["timer"] \in Seq(Threads)
      BY <1>0 DEF Lists
    <2>1. CASE l = "timer"
      <3>1. list'["timer"] = Keep(list["timer"], Threads \ {t})
        BY <1>4, <2>1 DEF Without
      <3>2. \A u \in ToSet(list'["timer"]) : thread'[u].val = thread[u].val
        <4>1. ToSet(list'["timer"]) = ToSet(list["timer"]) \ {t}
          BY <1>0, <1>4, <2>0, <2>1, WithoutFacts
        <4>2. \A u \in ToSet(list["timer"]) : u \in Threads
          BY <2>0, InToSet
        <4> QED  BY <1>2, <4>1, <4>2
      <3> QED  BY <2>0, <3>1, <3>2, KeepAscending DEF Ascending
    <2>2. CASE l # "timer"
      <3>1. list'["timer"] = list["timer"] /\ \A u \in ToSet(list["timer"]) : thread'[u] = thread[u]
        BY <1>4, <2>0, <2>2
      <3> HIDE DEF IInv
      <3> QED  BY <3>1, TimersSame
    <2> QED  BY <2>1, <2>2
  <1>7. Owners'
    <2> HIDE DEF IInv
    <2> QED  BY <1>0, <1>1, <1>2, OwnersFetched
  <1> QED  BY <1>2, <1>3, <1>5, <1>6, <1>7

(* The due timer of the least position is due before all others.           *)
LEMMA MinDueIsEarliest ==
    ASSUME IInv, Due # {}
    PROVE  /\ list["timer"][Min(Due)] \in ToSet(list["timer"])
           /\ thread[list["timer"][Min(Due)]].val <= clock
           /\ \A t \in ToSet(list["timer"]) : thread[list["timer"][Min(Due)]].val <= thread[t].val
  <1> USE DEF IInv
  <1> DEFINE s == list["timer"]
             m == Min(Due)
  <1>1. s \in Seq(Threads) /\ DOMAIN s = 1 .. Len(s) /\ Len(s) \in Nat
    BY DEF TypeOK, Lists
  <1>2. Due = {i \in DOMAIN s : thread[s[i]].val <= clock}
    BY DEF Due
  <1>3. m \in Due /\ \A i \in Due : m <= i
    <2>1. Due \in SUBSET Nat
      BY <1>1, <1>2
    <2> QED  BY <2>1, MinIsLeast
  <1> HIDE DEF m, s
  <1>4. m \in 1 .. Len(s) /\ thread[s[m]].val <= clock /\ s[m] \in ToSet(s)
    BY <1>1, <1>2, <1>3, InToSet
  <1>5. \A i \in 1 .. Len(s) : s[i] \in Threads /\ thread[s[i]].val \in Int
    BY <1>1 DEF TypeOK
  <1>6. clock \in Int
    BY ThreadAssumption DEF TypeOK
  <1>7. ASSUME NEW i \in 1 .. Len(s)
        PROVE  thread[s[m]].val <= thread[s[i]].val
    <2>1. CASE m < i
      BY <1>1, <1>4, <2>1 DEF Ascending, s
    <2>2. CASE m = i
      BY <1>5, <2>2
    <2>3. CASE i < m
      <3>1. i \notin Due
        BY <1>1, <1>3, <1>4, <2>3
      <3> QED  BY <1>1, <1>2, <1>4, <1>5, <1>6, <3>1
    <2> QED  BY <1>1, <1>4, <2>1, <2>2, <2>3
  <1>8. \A t \in ToSet(s) : thread[s[m]].val <= thread[t].val
    BY <1>1, <1>7, InToSet
  <1> QED  BY <1>4, <1>8 DEF m, s

LEMMA FetchInv ==
    ASSUME IInv, FetchEvent \/ FetchTimer \/ FetchReady
    PROVE  IInv'
  <1>1. /\ {"event", "timer", "ready"} \subseteq Lists \ IoKinds
        /\ \A l \in Lists : list[l] \in Seq(Threads)
    BY DEF Lists, IoKinds, IInv, TypeOK
  <1>2. CASE FetchEvent
    <2>1. Head(list["event"]) \in ToSet(list["event"])
      BY <1>1, <1>2, HeadTailFacts DEF FetchEvent
    <2> QED  BY <1>1, <1>2, <2>1, RunFromInv DEF FetchEvent
  <1>3. CASE FetchTimer
    BY <1>1, <1>3, RunFromInv, MinDueIsEarliest DEF FetchTimer
  <1>4. CASE FetchReady
    <2>1. Head(list["ready"]) \in ToSet(list["ready"])
      BY <1>1, <1>4, HeadTailFacts DEF FetchReady
    <2> QED  BY <1>1, <1>4, <2>1, RunFromInv DEF FetchReady
  <1> QED  BY <1>2, <1>3, <1>4

LEMMA SelectFailsInv ==
    ASSUME IInv, SelectFails
    PROVE  IInv'
  <1> USE DEF IInv
  <1>1. /\ list' = list /\ unuse' = unuse /\ thread' = thread /\ fds' = fds /\ alloc' = alloc
        /\ clock' = clock /\ handle' = handle /\ pc = "fetch" /\ pc' = "stopped" /\ running' = running
    BY DEF SelectFails
  <1>2. TypeOK' /\ Fields' /\ Places' /\ FdsOfLists' /\ Ascending(list["timer"])'
    BY <1>1 DEF TypeOK, Fields, Places, FdsOfLists, Ascending, Listed
  <1>3. Owners'
    <2> HIDE DEF IInv
    <2> QED  BY <1>1, OwnersSame
  <1> QED  BY <1>2, <1>3

LEMMA SetClockInv ==
    ASSUME IInv, NEW time \in 0 .. MaxTime, SetClock(time)
    PROVE  IInv'
  <1> USE DEF IInv
  <1>1. /\ list' = list /\ unuse' = unuse /\ thread' = thread /\ fds' = fds /\ alloc' = alloc
        /\ clock' = time /\ handle' = handle /\ pc' = pc /\ running' = running
    BY DEF SetClock
  <1>2. TypeOK' /\ Fields' /\ Places' /\ FdsOfLists' /\ Ascending(list["timer"])'
    BY <1>1 DEF TypeOK, Fields, Places, FdsOfLists, Ascending, Listed
  <1>3. Owners'
    BY <1>1 DEF Owners
  <1> QED  BY <1>2, <1>3

LEMMA CallInv ==
    ASSUME IInv, Call
    PROVE  IInv'
  <1> USE DEF IInv
  <1>1. /\ list' = list /\ unuse' = unuse /\ thread' = thread /\ fds' = fds /\ alloc' = alloc
        /\ clock' = clock /\ pc = "call" /\ pc' = "client" /\ running' = Blank
    BY DEF Call
  <1>2. /\ handle \in [Held -> [Clients -> Threads \cup {Null}]]
        /\ handle' \in [Held -> [Clients -> Threads \cup {Null}]]
        /\ \A k \in Held, c \in Clients :
             handle'[k][c] = IF k = running.func /\ c = running.arg THEN Null ELSE handle[k][c]
    BY DEF Call, TypeOK
  <1>3. TypeOK'
    <2>1. running' \in Record
      BY <1>1, BlankIsRecord
    <2> QED  BY <1>1, <1>2, <2>1 DEF TypeOK, Record
  <1>4. Fields' /\ Places' /\ FdsOfLists' /\ Ascending(list["timer"])'
    BY <1>1 DEF Fields, Places, FdsOfLists, Ascending, Listed
  <1>5. Owners'
    <2>1. ASSUME NEW t \in Threads, thread'[t].func \in Held
          PROVE  handle'[thread'[t].func][thread'[t].arg] = t
      <3>1. thread[t].arg \in Clients
        <4>1. Blank.func \notin Held
          BY ThreadAssumption DEF Blank
        <4> QED  BY <1>1, <2>1, <4>1 DEF Fields
      <3>2. ~(thread[t].func = running.func /\ thread[t].arg = running.arg)
        BY <1>1, <2>1 DEF Owners
      <3> QED  BY <1>1, <1>2, <2>1, <3>1, <3>2 DEF Owners
    <2>2. ASSUME NEW k \in Held, NEW c \in Clients, handle'[k][c] # Null
          PROVE  thread'[handle'[k][c]].func = k /\ thread'[handle'[k][c]].arg = c
      BY <1>1, <1>2, <2>2 DEF Owners
    <2> QED  BY <1>1, <2>1, <2>2 DEF Owners
  <1> QED  BY <1>3, <1>4, <1>5

(* Whom thread_process_fd moves, and that the first of them runs.          *)
LEMMA SelectRunsIo ==
    ASSUME IInv, NEW R, NEW W, Select(R, W)
    PROVE  \E t \in Threads : thread[t].type \in IoKinds /\ running'.func = thread[t].func
  <1> USE DEF IInv
  <1> DEFINE mr    == Keep(list["read"], WaitingFor(R))
             mw    == Keep(list["write"], WaitingFor(W))
             moved == mr \o mw
             marked == [t \in Threads |-> IF t \in ToSet(moved)
                                     THEN [thread[t] EXCEPT !.type = "ready"]
                                     ELSE thread[t]]
  <1>1. moved # <<>> /\ running' = marked[Head(moved)]
    BY DEF Select
  <1>2. list["read"] \in Seq(Threads) /\ list["write"] \in Seq(Threads) /\ thread \in [Threads -> Record]
    BY DEF TypeOK, Record, Lists
  <1>3. /\ mr \in Seq(Threads) /\ ToSet(mr) = ToSet(list["read"]) \cap WaitingFor(R)
        /\ mw \in Seq(Threads) /\ ToSet(mw) = ToSet(list["write"]) \cap WaitingFor(W)
    BY <1>2, KeepFacts
  <1> HIDE DEF mr, mw
  <1>4. moved \in Seq(Threads) /\ ToSet(moved) = ToSet(mr) \cup ToSet(mw)
    BY <1>3, ConcatFacts
  <1>5. Head(moved) \in Threads /\ Head(moved) \in ToSet(moved)
    <2> HIDE DEF moved
    <2> QED  BY <1>1, <1>4, HeadTailFacts
  <1>6. \A t \in ToSet(moved) : thread[t].type \in IoKinds
    BY <1>3, <1>4 DEF Places, Lists, IoKinds
  <1>7. marked[Head(moved)].func = thread[Head(moved)].func
    <2>1. thread[Head(moved)] \in Record
      BY <1>2, <1>5
    <2>2. marked[Head(moved)] = [thread[Head(moved)] EXCEPT !.type = "ready"]
      BY <1>5
    <2> HIDE DEF marked, moved
    <2> QED  BY <2>1, <2>2 DEF Record
  <1> QED  BY <1>1, <1>5, <1>6, <1>7

(* Select: the threads that wait for R or W become ready, and one of them  *)
(* runs.                                                                   *)
LEMMA SelectInv ==
    ASSUME IInv, NEW R \in SUBSET fds["read"], NEW W \in SUBSET fds["write"], Select(R, W)
    PROVE  IInv'
  <1> USE DEF IInv
  <1> DEFINE r     == list["read"]
             w     == list["write"]
             mr    == Keep(r, WaitingFor(R))
             mw    == Keep(w, WaitingFor(W))
             moved == mr \o mw
             h     == Head(moved)
             M     == ToSet(moved)
             marked == [t \in Threads |-> IF t \in ToSet(moved)
                                     THEN [thread[t] EXCEPT !.type = "ready"]
                                     ELSE thread[t]]
             lr    == Keep(r, Threads \ WaitingFor(R))
             lw    == Keep(w, Threads \ WaitingFor(W))
  <1>0. /\ list \in [Lists -> Seq(Threads)] /\ thread \in [Threads -> Record]
        /\ fds \in [IoKinds -> SUBSET Fds] /\ unuse \in Seq(Threads) /\ IsInjective(unuse)
        /\ r \in Seq(Threads) /\ IsInjective(r) /\ w \in Seq(Threads) /\ IsInjective(w)
        /\ {"read", "write", "ready", "event", "timer"} = Lists /\ IoKinds = {"read", "write"}
    BY DEF TypeOK, Record, Lists, IoKinds, Places
  <1>1. /\ pc = "fetch" /\ pc' = "call" /\ moved # <<>> /\ list["ready"] = <<>>
        /\ list' = [list EXCEPT !["read"] = lr, !["write"] = lw, !["ready"] = Tail(moved)]
        /\ fds' = [fds EXCEPT !["read"] = @ \ R, !["write"] = @ \ W]
        /\ running' = marked[h]
        /\ thread' = [marked EXCEPT ![h] = Blank]
        /\ unuse' = Append(unuse, h)
        /\ alloc' = alloc /\ clock' = clock /\ handle' = handle
    BY DEF Select
  <1>2. /\ \A t : t \in ToSet(r) <=> t \in Threads /\ thread[t].type = "read"
        /\ \A t : t \in ToSet(w) <=> t \in Threads /\ thread[t].type = "write"
    BY <1>0 DEF Places
  <1> HIDE DEF r, w
  <1>3. /\ mr \in Seq(Threads) /\ IsInjective(mr) /\ ToSet(mr) = ToSet(r) \cap WaitingFor(R)
        /\ mw \in Seq(Threads) /\ IsInjective(mw) /\ ToSet(mw) = ToSet(w) \cap WaitingFor(W)
        /\ lr \in Seq(Threads) /\ IsInjective(lr) /\ ToSet(lr) = ToSet(r) \cap (Threads \ WaitingFor(R))
        /\ lw \in Seq(Threads) /\ IsInjective(lw) /\ ToSet(lw) = ToSet(w) \cap (Threads \ WaitingFor(W))
    BY <1>0, KeepFacts, KeepInjective
  <1> HIDE DEF mr, mw, lr, lw
  <1>4. moved \in Seq(Threads) /\ IsInjective(moved) /\ M = ToSet(mr) \cup ToSet(mw)
    <2>1. ToSet(mr) \cap ToSet(mw) = {}
      BY <1>2, <1>3
    <2> QED  BY <1>3, <2>1, ConcatFacts
  <1> HIDE DEF moved
  <1>5. /\ h \in Threads /\ Tail(moved) \in Seq(Threads) /\ h \in M
        /\ ToSet(Tail(moved)) = M \ {h} /\ IsInjective(Tail(moved))
    <2>1. /\ h \in Threads /\ Tail(moved) \in Seq(Threads)
          /\ M = {h} \cup ToSet(Tail(moved))
          /\ h \notin ToSet(Tail(moved)) /\ IsInjective(Tail(moved))
      BY <1>1, <1>4, HeadTailFacts
    <2> QED  BY <2>1
  <1>6. \A t : t \in M <=> /\ t \in Threads
                           /\ \/ thread[t].type = "read" /\ thread[t].val \in R
                              \/ thread[t].type = "write" /\ thread[t].val \in W
    BY <1>2, <1>3, <1>4 DEF WaitingFor
  <1>7. M = ToSet(moved)
    OBVIOUS
  <1>8. /\ \A t \in M : marked[t] = [thread[t] EXCEPT !.type = "ready"]
        /\ \A t \in Threads \ M : marked[t] = thread[t]
        /\ DOMAIN marked = Threads
    BY <1>6, <1>7
  <1> HIDE DEF M
  <1>9. ASSUME NEW t \in M
        PROVE  /\ marked[t] \in Record
               /\ marked[t].type = "ready" /\ marked[t].func = thread[t].func
               /\ marked[t].arg = thread[t].arg /\ marked[t].val = thread[t].val
    <2>1. thread[t] \in Record /\ "ready" \in Lists
      BY <1>0, <1>6
    <2>2. marked[t] = [thread[t] EXCEPT !.type = "ready"]
      BY <1>8
    <2> HIDE DEF marked
    <2> QED  BY <2>1, <2>2 DEF Record
  <1>10. marked \in [Threads -> Record]
    <2>1. ASSUME NEW t \in Threads PROVE marked[t] \in Record
      <3>1. thread[t] \in Record
        BY <1>0
      <3> QED  BY <1>8, <1>9, <3>1
    <2> QED  BY <1>8, <2>1
  <1> HIDE DEF marked
  <1>11. /\ thread'[h] = Blank /\ thread' \in [Threads -> Record]
         /\ \A t \in Threads \ {h} : thread'[t] = marked[t]
         /\ running' \in Record /\ running'.func = thread[h].func /\ running'.arg = thread[h].arg
    <2> HIDE DEF h
    <2>1. thread'[h] = Blank /\ thread' \in [Threads -> Record]
      BY <1>1, <1>5, <1>10, BlankIsRecord
    <2>2. \A t \in Threads \ {h} : thread'[t] = marked[t]
      BY <1>1, <1>5, <1>10
    <2>3. running' \in Record /\ running'.func = thread[h].func /\ running'.arg = thread[h].arg
      BY <1>1, <1>5, <1>9
    <2> QED  BY <2>1, <2>2, <2>3
  <1> HIDE DEF h
  <1>12. /\ list' \in [Lists -> Seq(Threads)]
         /\ list'["read"] = lr /\ list'["write"] = lw /\ list'["ready"] = Tail(moved)
         /\ list'["event"] = list["event"] /\ list'["timer"] = list["timer"]
    BY <1>0, <1>1, <1>3, <1>5
  <1>13. /\ fds' \in [IoKinds -> SUBSET Fds]
         /\ fds'["read"] = fds["read"] \ R /\ fds'["write"] = fds["write"] \ W
    BY <1>0, <1>1
  <1>14. h \notin ToSet(unuse) /\ thread[h].type \in {"read", "write"}
    <2>1. \A t \in ToSet(unuse) : thread[t].type = "unused"
      BY DEF Places
    <2> QED  BY <1>5, <1>6, <2>1
  <1>15. unuse' \in Seq(Threads) /\ IsInjective(unuse') /\ ToSet(unuse') = ToSet(unuse) \cup {h}
    BY <1>0, <1>1, <1>5, <1>14, AppendFacts
  <1>16. TypeOK'
    <2>1. /\ alloc' \in 0 .. Cardinality(Threads) /\ clock' \in 0 .. MaxTime
          /\ handle' \in [Held -> [Clients -> Threads \cup {Null}]]
      BY <1>1 DEF TypeOK
    <2> QED  BY <1>1, <1>11, <1>12, <1>13, <1>15, <2>1 DEF TypeOK, Record
  <1>17. Fields'
    <2>1. ASSUME NEW t \in Threads
          PROVE  /\ thread'[t].type = "unused" => thread'[t] = Blank
                 /\ thread'[t].type # "unused" => thread'[t].arg \in Clients
                 /\ thread'[t].type \in Held \cup {"event"} => thread'[t].func = thread'[t].type
                 /\ thread'[t].type = "ready" => thread'[t].func \in IoKinds
      <3>1. CASE t = h
        <4>1. Blank.type = "unused" /\ "unused" \notin Held \cup {"event"}
          BY DEF Blank, Held, IoKinds
        <4> QED  BY <1>11, <3>1, <4>1
      <3>2. CASE t # h /\ t \in M
        <4>1. /\ thread'[t].type = "ready" /\ thread'[t].func = thread[t].func
              /\ thread'[t].arg = thread[t].arg
          BY <1>9, <1>11, <3>2
        <4>2. thread[t].type \in IoKinds
          BY <1>0, <1>6, <3>2
        <4>3. thread[t].func = thread[t].type /\ thread[t].arg \in Clients
          BY <4>2 DEF Fields, Held, IoKinds
        <4>4. "ready" \notin Held \cup {"event"}
          BY DEF Held, IoKinds
        <4> QED  BY <4>1, <4>2, <4>3, <4>4
      <3>3. CASE t # h /\ t \notin M
        BY <1>8, <1>11, <3>3 DEF Fields
      <3> QED  BY <3>1, <3>2, <3>3
    <2> QED  BY <2>1 DEF Fields, Blank
  <1>18. \A t \in Threads : /\ t \in M \ {h} => thread'[t].type = "ready" /\ thread'[t].val = thread[t].val
                            /\ t \notin M => thread'[t] = thread[t]
                            /\ t = h => thread'[t].type = "unused"
    BY <1>5, <1>8, <1>9, <1>11 DEF Blank
  <1>19. \A l \in Lists : ToSet(list'[l]) = {t \in Threads : thread'[t].type = l} /\ IsInjective(list'[l])
    <2>1. ToSet(list'["read"]) = ToSet(r) \ M /\ ToSet(list'["write"]) = ToSet(w) \ M
      BY <1>2, <1>3, <1>6, <1>12 DEF WaitingFor
    <2>2. ToSet(list'["ready"]) = M \ {h}
      BY <1>5, <1>12
    <2>3. \A t \in Threads : thread[t].type # "ready"
      <3>1. ToSet(list["ready"]) = {}
        BY <1>1, EmptyFacts
      <3> QED  BY <1>0, <3>1 DEF Places
    <2>4. ToSet(list'["read"]) = {t \in Threads : thread'[t].type = "read"}
      BY <1>2, <1>18, <2>1
    <2>5. ToSet(list'["write"]) = {t \in Threads : thread'[t].type = "write"}
      BY <1>2, <1>18, <2>1
    <2>6. ToSet(list'["ready"]) = {t \in Threads : thread'[t].type = "ready"}
      BY <1>6, <1>18, <2>2, <2>3
    <2>7. ASSUME NEW l \in {"event", "timer"}
          PROVE  ToSet(list'[l]) = {t \in Threads : thread'[t].type = l} /\ IsInjective(list'[l])
      <3>1. list'[l] = list[l] /\ l \in Lists
        BY <1>0, <1>12
      <3>2. ToSet(list[l]) = {t \in Threads : thread[t].type = l} /\ IsInjective(list[l])
        BY <3>1 DEF Places
      <3> QED  BY <1>6, <1>18, <3>1, <3>2
    <2>8. IsInjective(list'["read"]) /\ IsInjective(list'["write"]) /\ IsInjective(list'["ready"])
      BY <1>3, <1>5, <1>12
    <2>9. \A l \in Lists : l = "read" \/ l = "write" \/ l = "ready" \/ l \in {"event", "timer"}
      BY <1>0
    <2> QED  BY <2>4, <2>5, <2>6, <2>7, <2>8, <2>9
  <1>20. Places'
    <2>1. Listed' = Listed
      <3>1. \A t : t \in Listed <=> t \in ToSet(unuse) \/ (t \in Threads /\ thread[t].type \in Lists)
        BY ListsOf
      <3>2. \A t : t \in Listed' <=> t \in ToSet(unuse') \/ \E l \in Lists : t \in ToSet(list'[l])
        BY DEF Listed
      <3>3. ASSUME NEW t
            PROVE  t \in Listed' <=> t \in ToSet(unuse') \/ (t \in Threads /\ thread'[t].type \in Lists)
        <4>1. (\E l \in Lists : t \in ToSet(list'[l])) <=> t \in Threads /\ thread'[t].type \in Lists
          BY <1>19
        <4> QED  BY <3>2, <4>1, Zenon
      <3>4. ASSUME NEW t PROVE t \in Listed' <=> t \in Listed
        <4>1. CASE t \in M
          BY <1>0, <1>6, <1>15, <1>18, <3>1, <3>3, <4>1
        <4>2. CASE t \notin M
          BY <1>5, <1>15, <1>18, <3>1, <3>3, <4>2
        <4> QED  BY <4>1, <4>2
      <3> QED  BY <3>4
    <2>2. \A t \in ToSet(unuse') : t \in Threads /\ thread'[t].type = "unused"
      <3>1. \A t \in ToSet(unuse) : t \in Threads /\ thread[t].type = "unused"
        BY DEF Places
      <3> QED  BY <1>5, <1>6, <1>15, <1>18, <3>1
    <2>3. alloc' = Cardinality(Listed')
      BY <1>1, <2>1 DEF Places
    <2> QED  BY <1>15, <1>19, <2>2, <2>3 DEF Places
  <1>21. FdsOfLists'
    <2> DEFINE D == [k \in IoKinds |-> IF k = "read" THEN R ELSE W]
    <2>1. D \in [IoKinds -> SUBSET Int]
      <3>1. Fds \subseteq Int
        BY ThreadAssumption DEF Fds
      <3>2. R \subseteq Fds /\ W \subseteq Fds
        BY <1>0
      <3> QED  BY <3>1, <3>2
    <2>2. ASSUME NEW k \in IoKinds
          PROVE  /\ fds'[k] = fds[k] \ D[k]
                 /\ ToSet(list'[k]) = {t \in ToSet(list[k]) : thread[t].val \notin D[k]}
                 /\ \A t \in ToSet(list'[k]) : thread'[t].val = thread[t].val
      <3>1. CASE k = "read"
        <4>1. ToSet(list'[k]) = {t \in ToSet(r) : thread[t].val \notin R}
          BY <1>2, <1>3, <1>12, <3>1 DEF WaitingFor
        <4>2. \A t \in ToSet(list'[k]) : t \in Threads /\ t \notin M
          BY <1>2, <1>6, <4>1
        <4> QED  BY <1>13, <1>18, <3>1, <4>1, <4>2 DEF r
      <3>2. CASE k = "write"
        <4>1. ToSet(list'[k]) = {t \in ToSet(w) : thread[t].val \notin W}
          BY <1>2, <1>3, <1>12, <3>2 DEF WaitingFor
        <4>2. \A t \in ToSet(list'[k]) : t \in Threads /\ t \notin M
          BY <1>2, <1>6, <4>1
        <4> QED  BY <1>13, <1>18, <3>2, <4>1, <4>2 DEF w
      <3> QED  BY <1>0, <3>1, <3>2
    <2> HIDE DEF IInv, D
    <2> QED  BY <2>1, <2>2, FdsGone
  <1>22. Ascending(list["timer"])'
    <2>1. \A t \in ToSet(list["timer"]) : t \in Threads /\ t \notin M
      BY <1>0, <1>6 DEF Places
    <2> HIDE DEF IInv
    <2> QED  BY <1>12, <1>18, <2>1, TimersSame
  <1>23. Owners'
    <2>1. \A u \in Threads \ {h} : thread'[u].func = thread[u].func /\ thread'[u].arg = thread[u].arg
      BY <1>8, <1>9, <1>11
    <2> HIDE DEF IInv
    <2> QED  BY <1>1, <1>5, <1>11, <2>1, OwnersFetched
  <1> QED  BY <1>16, <1>17, <1>20, <1>21, <1>22, <1>23

-----------------------------------------------------------------------------
(* Theorems *)

LEMMA StutterInv ==
    ASSUME IInv, UNCHANGED vars
    PROVE  IInv'
  <1> USE DEF IInv
  <1>1. /\ list' = list /\ unuse' = unuse /\ thread' = thread /\ fds' = fds /\ alloc' = alloc
        /\ clock' = clock /\ handle' = handle /\ pc' = pc /\ running' = running
    BY DEF vars
  <1>2. TypeOK' /\ Fields' /\ Places' /\ FdsOfLists' /\ Ascending(list["timer"])' /\ Owners'
    BY <1>1 DEF TypeOK, Fields, Places, FdsOfLists, Ascending, Listed, Owners
  <1> QED  BY <1>2

LEMMA NextInv == IInv /\ [Next]_vars => IInv'
  <1> SUFFICES ASSUME IInv, [Next]_vars PROVE IInv'
    OBVIOUS
  <1>1. ASSUME NEW kind \in IoKinds, NEW c \in Clients, NEW fd \in FdsOf[c], IoOn(kind, c, fd)
        PROVE  IInv'
    BY <1>1, IoOnInv
  <1>2. ASSUME NEW c \in Clients, NEW delay \in Delays, TimerOn(c, delay) PROVE IInv'
    BY <1>2, TimerOnInv
  <1>3. ASSUME NEW c \in Clients, AddEvent(c) PROVE IInv'
    BY <1>3, AddEventInv
  <1>4. ASSUME NEW kind \in Held, NEW c \in Clients, Off(kind, c) PROVE IInv'
    BY <1>4, OffInv
  <1>5. ASSUME NEW c \in Clients, CancelEvent(c) PROVE IInv'
    BY <1>5, CancelEventInv
  <1>6. ASSUME NEW R \in SUBSET fds["read"], NEW W \in SUBSET fds["write"], Select(R, W) PROVE IInv'
    BY <1>6, SelectInv
  <1>7. ASSUME NEW time \in 0 .. MaxTime, SetClock(time) PROVE IInv'
    BY <1>7, SetClockInv
  <1> QED
    BY <1>1, <1>2, <1>3, <1>4, <1>5, <1>6, <1>7,
       ReturnInv, FetchInv, SelectFailsInv, CallInv, StutterInv DEF Next

LEMMA InvariantHolds == Spec => []IInv
  BY InitInv, NextInv, PTL DEF Spec

LEMMA OneListFollows == IInv => OneList
  <1> SUFFICES ASSUME IInv PROVE OneList
    OBVIOUS
  <1>1. TypeOK /\ Places
    BY DEF IInv
  <1>2. \A l \in Lists : \A t \in ToSet(list[l]) : thread[t].type = l
    BY <1>1 DEF Places
  <1>3. \A t \in ToSet(unuse) : thread[t].type = "unused"
    BY <1>1 DEF Places
  <1> QED  BY <1>1, <1>2, <1>3 DEF OneList, Places

LEMMA HandleOfThreadFollows == IInv => HandleOfThread
  <1> SUFFICES ASSUME IInv, NEW k \in Held, NEW c \in Clients
               PROVE  LET mine == {t \in Threads : thread[t].func = k /\ thread[t].arg = c}
                      IN \/ mine = {} /\ handle[k][c] = Null
                         \/ mine # {} /\ mine = {handle[k][c]}
                         \/ pc = "call" /\ running.func = k /\ running.arg = c /\ mine = {}
    BY DEF HandleOfThread
  <1> USE DEF IInv
  <1> DEFINE mine == {t \in Threads : thread[t].func = k /\ thread[t].arg = c}
  <1>1. \A t \in mine : t = handle[k][c]
    BY DEF Owners
  <1>2. handle[k][c] \in Threads \cup {Null}
    BY DEF TypeOK
  <1>3. CASE handle[k][c] = Null
    BY <1>1, <1>3, ThreadAssumption
  <1>4. CASE handle[k][c] # Null /\ handle[k][c] \in mine
    BY <1>1, <1>4
  <1>5. CASE handle[k][c] # Null /\ handle[k][c] \notin mine
    <2>1. pc = "call" /\ running.func = k /\ running.arg = c
      BY <1>2, <1>5 DEF Owners
    <2> QED  BY <1>1, <1>5, <2>1
  <1> QED  BY <1>3, <1>4, <1>5

(* The fields of the threads and of the master keep their types, and alloc *)
(* never exceeds the threads there are: thread_get and thread_add_unuse    *)
(* account for every thread.                                               *)
THEOREM TypeCorrect == Spec => []TypeOK
  <1>1. IInv => TypeOK
    BY DEF IInv
  <1> QED  BY <1>1, InvariantHolds, PTL

(* Every thread is at one place of one list, the one of its type, where    *)
(* thread_cancel looks for it, and alloc counts them, whatever is added,   *)
(* cancelled and run.                                                      *)
THEOREM OneListHolds == Spec => []OneList
  BY InvariantHolds, OneListFollows, PTL

(* The sets that select is given are the descriptors of the read and the   *)
(* write list, each waited for by one thread.                              *)
THEOREM FdsOfListsHolds == Spec => []FdsOfLists
  <1>1. IInv => FdsOfLists
    BY DEF IInv
  <1> QED  BY <1>1, InvariantHolds, PTL

(* A client's handle is NULL or its own thread, whatever threads are used  *)
(* again: THREAD_OFF never cancels another client's.                       *)
THEOREM HandleOfThreadHolds == Spec => []HandleOfThread
  BY InvariantHolds, HandleOfThreadFollows, PTL

(* The timer that thread_fetch runs is due, and no timer was due before    *)
(* it, though the clock may have been set while they waited.               *)
THEOREM EarliestFirstHolds == Spec => EarliestFirst
  <1> DEFINE Earliest == pc = "fetch" /\ pc' = "call" /\ running'.func = "timer" =>
                           /\ running'.val <= clock
                           /\ \A t \in ToSet(list["timer"]) : running'.val <= thread[t].val
  <1>1. IInv /\ [Next]_vars => [Earliest]_vars
    <2> SUFFICES ASSUME IInv, Next, pc = "fetch", pc' = "call", running'.func = "timer"
                 PROVE  /\ running'.val <= clock
                        /\ \A t \in ToSet(list["timer"]) : running'.val <= thread[t].val
      OBVIOUS
    <2>1. /\ \A k \in IoKinds, c \in Clients : \A fd \in FdsOf[c] : ~IoOn(k, c, fd)
          /\ \A c \in Clients : ~AddEvent(c) /\ ~CancelEvent(c) /\ \A d \in Delays : ~TimerOn(c, d)
          /\ \A k \in Held, c \in Clients : ~Off(k, c)
          /\ ~Return /\ ~SelectFails /\ ~Call
          /\ \A time \in 0 .. MaxTime : ~SetClock(time)
      BY DEF IoOn, AddEvent, CancelEvent, TimerOn, Off, Return, SelectFails, Call, SetClock
    <2>2. "event" \in Lists /\ "ready" \in Lists /\ \A l \in Lists : list[l] \in Seq(Threads)
      BY DEF Lists, IInv, TypeOK
    <2>3. ASSUME FetchEvent PROVE FALSE
      <3>1. Head(list["event"]) \in ToSet(list["event"])
        BY <2>2, <2>3, HeadTailFacts DEF FetchEvent
      <3>2. thread[Head(list["event"])].func = "event"
        BY <2>2, <3>1 DEF IInv, Places, Fields
      <3> QED  BY <2>3, <3>2 DEF FetchEvent, RunFrom
    <2>4. ASSUME FetchReady PROVE FALSE
      <3>1. Head(list["ready"]) \in ToSet(list["ready"])
        BY <2>2, <2>4, HeadTailFacts DEF FetchReady
      <3>2. thread[Head(list["ready"])].func \in IoKinds
        BY <2>2, <3>1 DEF IInv, Places, Fields
      <3> QED  BY <2>4, <3>2 DEF FetchReady, RunFrom, IoKinds
    <2>5. ASSUME NEW R \in SUBSET fds["read"], NEW W \in SUBSET fds["write"], Select(R, W)
          PROVE  FALSE
      <3>1. IInv'
        BY <2>5, SelectInv
      <3>2. \E t \in Threads : /\ running'.func = thread[t].func
                               /\ thread[t].type \in IoKinds
        BY <2>5, SelectRunsIo
      <3> QED  BY <3>2 DEF IInv, Fields, Held, IoKinds
    <2>6. FetchTimer
      BY <2>1, <2>3, <2>4, <2>5 DEF Next
    <2>7. running' = thread[list["timer"][Min(Due)]] /\ Due # {}
      BY <2>6 DEF FetchTimer, RunFrom
    <2> QED  BY <2>7, MinDueIsEarliest
  <1> QED  BY <1>1, InvariantHolds, PTL DEF Spec, EarliestFirst

=============================================================================
