----------------------------- MODULE ListFacts -----------------------------
(***************************************************************************)
(* What the proofs about lists need of numbers and of sequences: that a    *)
(* set of numbers has a least one, an induction that takes a set and no    *)
(* operator, and what the elements of a sequence are after an operation,   *)
(* and that none of them comes twice.                                      *)
(***************************************************************************)
EXTENDS Integers, Sequences, FiniteSets, SequencesExt, FiniteSetsExt, WellFoundedInduction, TLAPS

-----------------------------------------------------------------------------
(* Least elements, and induction up to a number *)

LEMMA LeastNat ==
    ASSUME NEW T \in SUBSET Nat, T # {}
    PROVE  \E x \in T : \A y \in T : x <= y
  <1> DEFINE R == OpToRel(<, Nat)
  <1>1. \A x, y \in Nat : x < y => <<x, y>> \in R
    BY DEF OpToRel
  <1>2. IsWellFoundedOn(R, Nat)
    BY NatLessThanWellFounded
  <1> HIDE DEF R
  <1>3. PICK x \in T : \A y \in T : ~(<<y, x>> \in R)
    BY <1>2, WFMin
  <1>4. \A y \in T : ~(y < x)
    BY <1>1, <1>3
  <1> QED  BY <1>4

LEMMA MinIsLeast ==
    ASSUME NEW T \in SUBSET Nat, T # {}
    PROVE  Min(T) \in T /\ \A y \in T : Min(T) <= y
  BY LeastNat DEF Min

LEMMA MaxIsGreatest ==
    ASSUME NEW n \in Nat, NEW T \in SUBSET (0 .. n), T # {}
    PROVE  Max(T) \in T /\ \A y \in T : y <= Max(T)
  <1> DEFINE U == {n - x : x \in T}
  <1>1. U \in SUBSET Nat /\ U # {}
    OBVIOUS
  <1> HIDE DEF U
  <1>2. PICK u \in U : \A y \in U : u <= y
    BY <1>1, LeastNat
  <1>3. PICK x \in T : u = n - x
    BY <1>2 DEF U
  <1>4. \A y \in T : n - x <= n - y
    BY <1>2, <1>3 DEF U
  <1>5. x \in T /\ \A y \in T : x >= y
    BY <1>4
  <1>6. Max(T) \in T /\ \A y \in T : Max(T) >= y
    BY <1>5 DEF Max
  <1> QED  BY <1>6

LEMMA UpTo ==
    ASSUME NEW N \in Nat, NEW G, 0 \in G,
           \A n \in 0 .. N - 1 : n \in G => n + 1 \in G
    PROVE  0 .. N \subseteq G
  <1> SUFFICES ASSUME (0 .. N) \ G # {} PROVE FALSE
    OBVIOUS
  <1> DEFINE Bad == (0 .. N) \ G
  <1>1. Bad \in SUBSET Nat /\ Bad # {}
    OBVIOUS
  <1> HIDE DEF Bad
  <1>2. PICK m \in Bad : \A y \in Bad : m <= y
    BY <1>1, LeastNat
  <1> USE DEF Bad
  <1>3. m # 0 /\ m - 1 \in 0 .. N - 1
    BY <1>2
  <1>4. m - 1 \in G
    BY <1>2, <1>3
  <1>5. m - 1 + 1 = m
    BY <1>2
  <1> QED  BY <1>2, <1>3, <1>4, <1>5

(* A recursion over 0 .. n has a solution, so that the function that a     *)
(* recursive definition chooses is one.                                    *)
IsRecursion(n, S, a, step) == n \in Nat /\ a \in S /\ step \in [1 .. n -> [S -> S]]

LEMMA RecursionExists ==
    ASSUME NEW n, NEW S, NEW a, NEW step, IsRecursion(n, S, a, step)
    PROVE  \E f \in [0 .. n -> S] : f[0] = a /\ \A i \in 1 .. n : f[i] = step[i][f[i - 1]]
  <1> USE DEF IsRecursion
  <1> DEFINE Reaches(f, m) == f[0] = a /\ \A i \in 1 .. m : f[i] = step[i][f[i - 1]]
             G == {m \in 0 .. n : \E f \in [0 .. n -> S] : Reaches(f, m)}
  <1>1. 0 \in G
    <2> DEFINE h == [i \in 0 .. n |-> a]
    <2>1. 0 \in 0 .. n /\ h \in [0 .. n -> S] /\ h[0] = a
      OBVIOUS
    <2> HIDE DEF h
    <2>2. Reaches(h, 0)
      BY <2>1
    <2> QED  BY <2>1, <2>2
  <1>2. ASSUME NEW m \in 0 .. n - 1, m \in G
        PROVE  m + 1 \in G
    <2>1. PICK f \in [0 .. n -> S] : Reaches(f, m)
      BY <1>2
    <2> DEFINE g == [f EXCEPT ![m + 1] = step[m + 1][f[m]]]
    <2>2. m \in 0 .. n /\ m + 1 \in 1 .. n /\ m + 1 \in 0 .. n /\ m + 1 # 0
      OBVIOUS
    <2>3. g \in [0 .. n -> S]
      BY <2>2
    <2>4. g[m + 1] = step[m + 1][f[m]] /\ \A i \in 0 .. m : g[i] = f[i]
      BY <2>2
    <2> HIDE DEF g
    <2>5. \A i \in 1 .. m : i \in 0 .. m /\ i - 1 \in 0 .. m
      OBVIOUS
    <2>6. \A i \in 1 .. m + 1 : i \in 1 .. m \/ i = m + 1
      OBVIOUS
    <2>7. (m + 1) - 1 = m /\ m \in 0 .. m /\ 0 \in 0 .. m
      OBVIOUS
    <2>8. Reaches(g, m + 1)
      BY <2>1, <2>4, <2>5, <2>6, <2>7
    <2> QED  BY <2>2, <2>3, <2>8
  <1> HIDE DEF G
  <1>3. 0 .. n \subseteq G
    BY <1>1, <1>2, UpTo
  <1>4. PICK f \in [0 .. n -> S] : Reaches(f, n)
    <2>1. n \in G
      BY <1>3
    <2> QED  BY <2>1 DEF G
  <1> QED  BY <1>4

-----------------------------------------------------------------------------
(* Sequences as lists *)

LEMMA InToSet ==
    ASSUME NEW S, NEW s \in Seq(S)
    PROVE  /\ Len(s) \in Nat /\ \A i \in 1 .. Len(s) : s[i] \in S
           /\ \A x : x \in ToSet(s) <=> \E i \in 1 .. Len(s) : s[i] = x
           /\ IsInjective(s) <=> \A i, j \in 1 .. Len(s) : s[i] = s[j] => i = j
  BY DEF ToSet, IsInjective

LEMMA AppendFacts ==
    ASSUME NEW S, NEW s \in Seq(S), NEW t \in S
    PROVE  /\ Append(s, t) \in Seq(S)
           /\ ToSet(Append(s, t)) = ToSet(s) \cup {t}
           /\ IsInjective(s) /\ t \notin ToSet(s) => IsInjective(Append(s, t))
  <1> DEFINE q == Append(s, t)
  <1>1. /\ q \in Seq(S) /\ Len(q) = Len(s) + 1 /\ q[Len(s) + 1] = t
        /\ \A i \in 1 .. Len(s) : q[i] = s[i]
    OBVIOUS
  <1> HIDE DEF q
  <1>2. Len(s) \in Nat /\ \A i \in 1 .. Len(s) + 1 : i \in 1 .. Len(s) \/ i = Len(s) + 1
    OBVIOUS
  <1>3. \A i \in 1 .. Len(s) : i \in 1 .. Len(s) + 1 /\ i # Len(s) + 1
    OBVIOUS
  <1>4. Len(s) + 1 \in 1 .. Len(s) + 1
    OBVIOUS
  <1>5. /\ \A x : x \in ToSet(s) <=> \E i \in 1 .. Len(s) : s[i] = x
        /\ \A x : x \in ToSet(q) <=> \E i \in 1 .. Len(s) + 1 : q[i] = x
    BY <1>1, InToSet
  <1>6. ToSet(q) = ToSet(s) \cup {t}
    BY <1>1, <1>2, <1>3, <1>4, <1>5
  <1>7. ASSUME IsInjective(s), t \notin ToSet(s)
        PROVE  IsInjective(q)
    <2>1. \A i, j \in 1 .. Len(s) : s[i] = s[j] => i = j
      BY <1>7, InToSet
    <2>2. \A i, j \in 1 .. Len(s) + 1 : q[i] = q[j] => i = j
      BY <1>1, <1>2, <1>5, <1>7, <2>1
    <2> QED  BY <1>1, <2>2, InToSet
  <1> QED  BY <1>1, <1>6, <1>7 DEF q

LEMMA ConcatFacts ==
    ASSUME NEW S, NEW s \in Seq(S), NEW u \in Seq(S)
    PROVE  /\ s \o u \in Seq(S)
           /\ ToSet(s \o u) = ToSet(s) \cup ToSet(u)
           /\ IsInjective(s) /\ IsInjective(u) /\ ToSet(s) \cap ToSet(u) = {}
              => IsInjective(s \o u)
  <1> DEFINE q == s \o u
             N == Len(q)
  <1>1. /\ q \in Seq(S) /\ N = Len(s) + Len(u) /\ Len(s) \in Nat /\ Len(u) \in Nat
        /\ \A i \in 1 .. Len(s) : i \in 1 .. N /\ q[i] = s[i]
        /\ \A i \in 1 .. Len(u) : i + Len(s) \in 1 .. N /\ q[i + Len(s)] = u[i]
    OBVIOUS
  <1>2. \A i \in 1 .. N : \/ i \in 1 .. Len(s) /\ q[i] = s[i]
                          \/ i - Len(s) \in 1 .. Len(u) /\ q[i] = u[i - Len(s)]
    OBVIOUS
  <1> HIDE DEF q
  <1>3. /\ \A x : x \in ToSet(s) <=> \E i \in 1 .. Len(s) : s[i] = x
        /\ \A x : x \in ToSet(u) <=> \E i \in 1 .. Len(u) : u[i] = x
        /\ \A x : x \in ToSet(q) <=> \E i \in 1 .. N : q[i] = x
    BY <1>1, InToSet
  <1> HIDE DEF N
  <1>4. ToSet(q) = ToSet(s) \cup ToSet(u)
    <2>1. ToSet(q) \subseteq ToSet(s) \cup ToSet(u)
      BY <1>2, <1>3
    <2>2. ToSet(s) \subseteq ToSet(q)
      BY <1>1, <1>3
    <2>3. ToSet(u) \subseteq ToSet(q)
      BY <1>1, <1>3
    <2> QED  BY <2>1, <2>2, <2>3
  <1>5. ASSUME IsInjective(s), IsInjective(u), ToSet(s) \cap ToSet(u) = {}
        PROVE  IsInjective(q)
    <2>1. \A k \in 1 .. Len(s), m \in 1 .. Len(u) : s[k] # u[m]
      BY <1>3, <1>5
    <2>2. \A i, j \in 1 .. Len(s) : s[i] = s[j] => i = j
      BY <1>5, InToSet
    <2>3. \A i, j \in 1 .. Len(u) : u[i] = u[j] => i = j
      BY <1>5, InToSet
    <2>4. ASSUME NEW i \in 1 .. N, NEW j \in 1 .. N, q[i] = q[j]
          PROVE  i = j
      <3>1. i \in Int /\ j \in Int /\ Len(s) \in Int /\ (i - Len(s) = j - Len(s) => i = j)
        BY <1>1
      <3>2. CASE i \in 1 .. Len(s) /\ q[i] = s[i]
        BY <1>2, <2>1, <2>2, <2>4, <3>2
      <3>3. CASE i - Len(s) \in 1 .. Len(u) /\ q[i] = u[i - Len(s)]
        BY <1>2, <2>1, <2>3, <2>4, <3>1, <3>3
      <3> QED  BY <1>2, <3>2, <3>3
    <2> QED  BY <1>1, <2>4, InToSet DEF N
  <1> QED  BY <1>1, <1>4, <1>5 DEF q

LEMMA HeadTailFacts ==
    ASSUME NEW S, NEW s \in Seq(S), s # <<>>
    PROVE  /\ Head(s) \in S /\ Tail(s) \in Seq(S)
           /\ ToSet(s) = {Head(s)} \cup ToSet(Tail(s))
           /\ IsInjective(s) => Head(s) \notin ToSet(Tail(s)) /\ IsInjective(Tail(s))
  <1> DEFINE q == Tail(s)
             N == Len(s)
  <1>1. /\ N \in Nat \ {0} /\ Head(s) = s[1] /\ s[1] \in S /\ q \in Seq(S) /\ Len(q) = N - 1
        /\ \A i \in 1 .. N - 1 : q[i] = s[i + 1]
    OBVIOUS
  <1> HIDE DEF q, N
  <1>2. \A i \in 1 .. N : i = 1 \/ (i - 1 \in 1 .. N - 1 /\ q[i - 1] = s[i])
    <2> SUFFICES ASSUME NEW i \in 1 .. N, i # 1 PROVE i - 1 \in 1 .. N - 1 /\ q[i - 1] = s[i]
      OBVIOUS
    <2>1. i - 1 \in 1 .. N - 1 /\ (i - 1) + 1 = i
      BY <1>1
    <2> QED  BY <1>1, <2>1
  <1>3. 1 \in 1 .. N /\ \A i \in 1 .. N - 1 : i + 1 \in 1 .. N /\ i + 1 # 1
    BY <1>1
  <1>4. /\ \A x : x \in ToSet(s) <=> \E i \in 1 .. N : s[i] = x
        /\ \A x : x \in ToSet(q) <=> \E i \in 1 .. N - 1 : q[i] = x
    BY <1>1, InToSet DEF N
  <1>5. ToSet(s) = {s[1]} \cup ToSet(q)
    <2>1. ToSet(s) \subseteq {s[1]} \cup ToSet(q)
      BY <1>2, <1>4
    <2>2. {s[1]} \cup ToSet(q) \subseteq ToSet(s)
      BY <1>1, <1>3, <1>4
    <2> QED  BY <2>1, <2>2
  <1>6. ASSUME IsInjective(s)
        PROVE  s[1] \notin ToSet(q) /\ IsInjective(q)
    <2>1. \A i, j \in 1 .. N : s[i] = s[j] => i = j
      BY <1>6, InToSet DEF N
    <2>2. s[1] \notin ToSet(q)
      BY <1>1, <1>3, <1>4, <2>1
    <2>3. \A i, j \in 1 .. N - 1 : q[i] = q[j] => i = j
      <3> SUFFICES ASSUME NEW i \in 1 .. N - 1, NEW j \in 1 .. N - 1, q[i] = q[j] PROVE i = j
        OBVIOUS
      <3>1. i + 1 = j + 1
        BY <1>1, <1>3, <2>1
      <3> QED  BY <1>1, <3>1
    <2> QED  BY <1>1, <2>2, <2>3, InToSet
  <1> QED  BY <1>1, <1>5, <1>6 DEF q

LEMMA InsertAtIs ==
    ASSUME NEW S, NEW s \in Seq(S), NEW p \in 1 .. Len(s) + 1, NEW e \in S
    PROVE  /\ InsertAt(s, p, e) \in Seq(S) /\ Len(InsertAt(s, p, e)) = Len(s) + 1
           /\ \A i \in 1 .. Len(s) + 1 :
                InsertAt(s, p, e)[i] = IF i < p THEN s[i] ELSE IF i = p THEN e ELSE s[i - 1]
  <1> DEFINE a == SubSeq(s, 1, p - 1)
             b == SubSeq(s, p, Len(s))
             c == a \o <<e>>
             N == Len(s)
  <1>0. N \in Nat /\ p \in Nat /\ 1 <= p /\ p <= N + 1
    OBVIOUS
  <1>1. a \in Seq(S) /\ Len(a) = p - 1 /\ \A i \in 1 .. p - 1 : a[i] = s[i]
    OBVIOUS
  <1>2. b \in Seq(S) /\ Len(b) = N + 1 - p /\ \A i \in 1 .. N + 1 - p : b[i] = s[p + i - 1]
    OBVIOUS
  <1>3. InsertAt(s, p, e) = c \o b
    BY DEF InsertAt
  <1> HIDE DEF a, b, N
  <1>4. c \in Seq(S) /\ Len(c) = p /\ c[p] = e /\ \A i \in 1 .. p - 1 : c[i] = s[i]
    BY <1>0, <1>1
  <1> HIDE DEF c
  <1>5. c \o b \in Seq(S) /\ Len(c \o b) = N + 1
    <2>1. c \in Seq(S) /\ b \in Seq(S)
      BY <1>2, <1>4
    <2>2. c \o b \in Seq(S) /\ Len(c \o b) = Len(c) + Len(b)
      BY <2>1
    <2> QED  BY <1>0, <1>2, <1>4, <2>2
  <1>6. /\ \A i \in 1 .. Len(c) : (c \o b)[i] = c[i]
        /\ \A i \in 1 .. Len(b) : (c \o b)[Len(c) + i] = b[i]
    BY <1>2, <1>4
  <1>7. ASSUME NEW i \in 1 .. N + 1
        PROVE  (c \o b)[i] = IF i < p THEN s[i] ELSE IF i = p THEN e ELSE s[i - 1]
    <2>0. i \in Nat /\ (i < p \/ i = p \/ i > p)
      BY <1>0
    <2>1. CASE i < p
      <3>1. i \in 1 .. p /\ i \in 1 .. p - 1
        BY <1>0, <2>1
      <3> QED  BY <1>4, <1>6, <2>1, <3>1
    <2>2. CASE i = p
      <3>1. i \in 1 .. p
        BY <1>0, <2>2
      <3> QED  BY <1>4, <1>6, <2>2, <3>1
    <2>3. CASE i > p
      <3>1. i - p \in 1 .. N + 1 - p /\ p + (i - p) - 1 = i - 1 /\ p + (i - p) = i
        BY <1>0, <2>3
      <3>2. (c \o b)[i] = b[i - p]
        BY <1>2, <1>4, <1>6, <3>1
      <3>3. b[i - p] = s[i - 1]
        BY <1>2, <3>1
      <3> QED  BY <1>0, <2>3, <3>2, <3>3
    <2> QED  BY <2>0, <2>1, <2>2, <2>3
  <1> QED  BY <1>3, <1>5, <1>7 DEF N

(* The same, place by place. *)
LEMMA InsertAtPlaces ==
    ASSUME NEW S, NEW s \in Seq(S), NEW p \in 1 .. Len(s) + 1, NEW e \in S, NEW k \in 1 .. Len(s) + 1
    PROVE  /\ k < p => InsertAt(s, p, e)[k] = s[k]
           /\ k = p => InsertAt(s, p, e)[k] = e
           /\ k > p => InsertAt(s, p, e)[k] = s[k - 1]
  <1> DEFINE t == InsertAt(s, p, e)
  <1>1. \A i \in 1 .. Len(s) + 1 : t[i] = IF i < p THEN s[i] ELSE IF i = p THEN e ELSE s[i - 1]
    BY InsertAtIs
  <1> HIDE DEF t
  <1>2. t[k] = IF k < p THEN s[k] ELSE IF k = p THEN e ELSE s[k - 1]
    BY <1>1
  <1>3. k \in Int /\ p \in Int
    OBVIOUS
  <1>4. QED
    BY <1>2, <1>3 DEF t

LEMMA InsertAtFacts ==
    ASSUME NEW S, NEW s \in Seq(S), NEW p \in 1 .. Len(s) + 1, NEW e \in S
    PROVE  /\ InsertAt(s, p, e) \in Seq(S)
           /\ ToSet(InsertAt(s, p, e)) = ToSet(s) \cup {e}
           /\ IsInjective(s) /\ e \notin ToSet(s) => IsInjective(InsertAt(s, p, e))
  <1> DEFINE q == InsertAt(s, p, e)
             N == Len(s)
  <1>0. N \in Nat /\ p \in 1 .. N + 1
    OBVIOUS
  <1>1. /\ q \in Seq(S) /\ Len(q) = N + 1
        /\ \A i \in 1 .. N + 1 : q[i] = IF i < p THEN s[i] ELSE IF i = p THEN e ELSE s[i - 1]
    <2> HIDE DEF q, N
    <2> SUFFICES /\ q = InsertAt(s, p, e) /\ N = Len(s)
                 /\ InsertAt(s, p, e) \in Seq(S) /\ Len(InsertAt(s, p, e)) = Len(s) + 1
                 /\ \A i \in 1 .. Len(s) + 1 :
                      InsertAt(s, p, e)[i] = IF i < p THEN s[i] ELSE IF i = p THEN e ELSE s[i - 1]
      BY Zenon
    <2> QED  BY InsertAtIs DEF q, N
  <1>2. /\ \A x : x \in ToSet(s) <=> \E i \in 1 .. N : s[i] = x
        /\ \A x : x \in ToSet(q) <=> \E i \in 1 .. N + 1 : q[i] = x
    BY <1>0, <1>1, InToSet
  <1> HIDE DEF q, N
  <1>3. \A i \in 1 .. N + 1 : /\ i < p => i \in 1 .. N /\ q[i] = s[i]
                              /\ i > p => i - 1 \in 1 .. N /\ q[i] = s[i - 1]
                              /\ i = p => q[i] = e
    BY <1>0, <1>1
  <1>4. \A i \in 1 .. N + 1 : i < p \/ i > p \/ i = p
    BY <1>0, <1>1
  <1>5. ToSet(q) \subseteq ToSet(s) \cup {e}
    BY <1>0, <1>2, <1>3, <1>4
  <1>6. ToSet(s) \cup {e} \subseteq ToSet(q)
    <2>1. ASSUME NEW i \in 1 .. N
          PROVE  \E j \in 1 .. N + 1 : q[j] = s[i]
      <3>1. CASE i < p
        BY <1>0, <1>1, <3>1
      <3>2. CASE ~(i < p)
        <4>1. i + 1 - 1 = i /\ i + 1 \in 1 .. N + 1 /\ i + 1 > p
          BY <1>0, <1>1, <3>2
        <4> QED  BY <1>0, <1>3, <4>1
      <3> QED  BY <3>1, <3>2
    <2> QED  BY <1>0, <1>1, <1>2, <1>3, <2>1
  <1>7. ASSUME IsInjective(s), e \notin ToSet(s)
        PROVE  IsInjective(q)
    <2>1. \A k, m \in 1 .. N : s[k] = s[m] => k = m
      BY <1>7, InToSet DEF N
    <2>2. \A k \in 1 .. N : s[k] # e
      BY <1>0, <1>2, <1>7
    <2>3. ASSUME NEW i \in 1 .. N + 1, NEW j \in 1 .. N + 1, i < j, q[i] = q[j]
          PROVE  FALSE
      <3>1. CASE i < p /\ j < p
        BY <1>3, <2>1, <2>3, <3>1
      <3>2. CASE i < p /\ j > p
        <4>1. i = j - 1
          BY <1>3, <2>1, <2>3, <3>2
        <4> QED  BY <1>0, <1>1, <3>2, <4>1
      <3>3. CASE i > p /\ j > p
        <4>1. i - 1 = j - 1
          BY <1>3, <2>1, <2>3, <3>3
        <4> QED  BY <2>3, <4>1
      <3>4. CASE i = p \/ j = p
        BY <1>0, <1>1, <1>3, <2>2, <2>3, <3>4
      <3> QED  BY <1>0, <1>1, <2>3, <3>1, <3>2, <3>3, <3>4
    <2>4. \A i, j \in 1 .. N + 1 : i < j \/ j < i \/ i = j
      BY <1>0, <1>1
    <2>5. \A i, j \in 1 .. N + 1 : q[i] = q[j] => i = j
      BY <2>3, <2>4
    <2> QED  BY <1>0, <1>1, <2>5, InToSet
  <1> QED  BY <1>0, <1>1, <1>5, <1>6, <1>7 DEF q

LEMMA RemoveAtIs ==
    ASSUME NEW S, NEW s \in Seq(S), NEW p \in 1 .. Len(s)
    PROVE  /\ RemoveAt(s, p) \in Seq(S) /\ Len(RemoveAt(s, p)) = Len(s) - 1
           /\ \A i \in 1 .. Len(s) - 1 : RemoveAt(s, p)[i] = IF i < p THEN s[i] ELSE s[i + 1]
  <1> DEFINE a == SubSeq(s, 1, p - 1)
             b == SubSeq(s, p + 1, Len(s))
             N == Len(s)
  <1>0. N \in Nat /\ p \in Nat /\ 1 <= p /\ p <= N
    OBVIOUS
  <1>1. a \in Seq(S) /\ Len(a) = p - 1 /\ \A i \in 1 .. p - 1 : a[i] = s[i]
    OBVIOUS
  <1>2. b \in Seq(S) /\ Len(b) = N - p /\ \A i \in 1 .. N - p : b[i] = s[p + i]
    OBVIOUS
  <1>3. RemoveAt(s, p) = a \o b
    BY DEF RemoveAt
  <1> HIDE DEF a, b, N
  <1>4. /\ a \o b \in Seq(S) /\ Len(a \o b) = Len(a) + Len(b)
        /\ \A i \in 1 .. Len(a) : (a \o b)[i] = a[i]
        /\ \A i \in 1 .. Len(b) : (a \o b)[Len(a) + i] = b[i]
    <2>1. a \in Seq(S) /\ b \in Seq(S)
      BY <1>1, <1>2
    <2> QED  BY <2>1
  <1>5. (p - 1) + (N - p) = N - 1
    BY <1>0
  <1>6. ASSUME NEW i \in 1 .. N - 1
        PROVE  (a \o b)[i] = IF i < p THEN s[i] ELSE s[i + 1]
    <2>1. CASE i < p
      <3>1. i \in 1 .. p - 1
        BY <1>0, <2>1
      <3> QED  BY <1>1, <1>4, <2>1, <3>1
    <2>2. CASE ~(i < p)
      <3>1. PICK k \in 1 .. N - p : (p - 1) + k = i /\ p + k = i + 1
        <4>1. i - (p - 1) \in 1 .. N - p /\ (p - 1) + (i - (p - 1)) = i /\ p + (i - (p - 1)) = i + 1
          BY <1>0, <2>2
        <4> QED  BY <4>1
      <3>2. (a \o b)[i] = b[k] /\ b[k] = s[i + 1]
        <4>1. (a \o b)[(p - 1) + k] = b[k] /\ b[k] = s[p + k]
          BY <1>1, <1>2, <1>4
        <4> QED  BY <3>1, <4>1
      <3> QED  BY <2>2, <3>2
    <2> QED  BY <2>1, <2>2
  <1> QED  BY <1>1, <1>2, <1>3, <1>4, <1>5, <1>6 DEF N

LEMMA RemoveAtFacts ==
    ASSUME NEW S, NEW s \in Seq(S), NEW p \in 1 .. Len(s), IsInjective(s)
    PROVE  ToSet(RemoveAt(s, p)) = ToSet(s) \ {s[p]} /\ IsInjective(RemoveAt(s, p))
  <1> DEFINE q == RemoveAt(s, p)
             N == Len(s)
  <1>0. N \in Nat /\ p \in 1 .. N
    OBVIOUS
  <1>1. /\ q \in Seq(S) /\ Len(q) = N - 1
        /\ \A i \in 1 .. N - 1 : q[i] = IF i < p THEN s[i] ELSE s[i + 1]
    <2> HIDE DEF q, N
    <2> SUFFICES /\ q = RemoveAt(s, p) /\ N = Len(s)
                 /\ RemoveAt(s, p) \in Seq(S) /\ Len(RemoveAt(s, p)) = Len(s) - 1
                 /\ \A i \in 1 .. Len(s) - 1 :
                      RemoveAt(s, p)[i] = IF i < p THEN s[i] ELSE s[i + 1]
      BY Zenon
    <2> QED  BY RemoveAtIs DEF q, N
  <1>2. /\ \A x : x \in ToSet(s) <=> \E i \in 1 .. N : s[i] = x
        /\ \A x : x \in ToSet(q) <=> \E i \in 1 .. N - 1 : q[i] = x
        /\ \A i, j \in 1 .. N : s[i] = s[j] => i = j
    BY <1>0, <1>1, InToSet
  <1> HIDE DEF q, N
  <1>3. \A i \in 1 .. N - 1 : /\ i < p => i \in 1 .. N /\ i # p /\ q[i] = s[i]
                              /\ ~(i < p) => i + 1 \in 1 .. N /\ i + 1 # p /\ q[i] = s[i + 1]
    BY <1>0, <1>1
  <1>4. \A i \in 1 .. N : /\ i < p => i \in 1 .. N - 1
                          /\ i > p => i - 1 \in 1 .. N - 1 /\ ~(i - 1 < p) /\ (i - 1) + 1 = i
                          /\ i < p \/ i > p \/ i = p
    BY <1>0
  <1>5. ASSUME NEW x PROVE x \in ToSet(q) <=> x \in ToSet(s) /\ x # s[p]
    <2>1. ASSUME x \in ToSet(q) PROVE x \in ToSet(s) /\ x # s[p]
      <3>1. PICK i \in 1 .. N - 1 : q[i] = x
        BY <1>2, <2>1
      <3> QED  BY <1>0, <1>2, <1>3, <3>1
    <2>2. ASSUME x \in ToSet(s), x # s[p] PROVE x \in ToSet(q)
      <3>1. PICK i \in 1 .. N : s[i] = x
        BY <1>2, <2>2
      <3>2. i < p \/ i > p
        BY <1>4, <2>2, <3>1
      <3> QED  BY <1>2, <1>3, <1>4, <3>1, <3>2
    <2> QED  BY <2>1, <2>2
  <1>6. \A i, j \in 1 .. N - 1 : q[i] = q[j] => i = j
    <2> SUFFICES ASSUME NEW i \in 1 .. N - 1, NEW j \in 1 .. N - 1, q[i] = q[j] PROVE i = j
      OBVIOUS
    <2>1. i \in Int /\ j \in Int /\ (i + 1 = j + 1 => i = j) /\ p \in Int
      BY <1>0
    <2>2. CASE i < p /\ ~(j < p)
      <3>1. i = j + 1
        BY <1>2, <1>3, <2>2
      <3> QED  BY <2>1, <2>2, <3>1
    <2>3. CASE ~(i < p) /\ j < p
      <3>1. i + 1 = j
        BY <1>2, <1>3, <2>3
      <3> QED  BY <2>1, <2>3, <3>1
    <2>4. CASE i < p /\ j < p
      BY <1>2, <1>3, <2>4
    <2>5. CASE ~(i < p) /\ ~(j < p)
      BY <1>2, <1>3, <2>1, <2>5
    <2> QED  BY <2>2, <2>3, <2>4, <2>5
  <1> QED  BY <1>0, <1>1, <1>5, <1>6, InToSet DEF q

(* Two sequences that agree in every place. *)
LEMMA SameSequence ==
    ASSUME NEW S, NEW a \in Seq(S), NEW b \in Seq(S), Len(a) = Len(b),
           \A k \in 1 .. Len(a) : a[k] = b[k]
    PROVE  a = b
  OBVIOUS
=============================================================================
