--------------------------- MODULE MatchersProofs ---------------------------
(***************************************************************************)
(* Proofs about Matchers, for every word, every range and every user: a    *)
(* word that was refused is not accepted later, exact is said of the       *)
(* notations, and who types an address without a slip is refused at no     *)
(* character.                                                              *)
(*                                                                         *)
(* A loop over a word is a recursive function of its positions.  What it   *)
(* computes is shown by an invariant of the position, from 0 on (UpTo of   *)
(* ListFacts); that the functions exist at all, by RecursionExists there.  *)
(***************************************************************************)
EXTENDS Matchers, ListFacts, FiniteSetTheorems

-----------------------------------------------------------------------------
(* Words: their characters and the numbers they are *)

(* The codes of the characters. *)
LEMMA CodeOfSigns ==
    ASSUME NEW i \in 1 .. 13
    PROVE  Signs[i] \in Alphabet /\ Code[Signs[i]] = 45 + i
<1>1. ToSet(Signs) = {".", "/", "0", "1", "2", "3", "4", "5", "6", "7", "8", "9", ":"}
  BY DEF ToSet, Signs
<1>2. Signs[i] \in ToSet(Signs) /\ DOMAIN Signs = 1 .. 13
  BY DEF ToSet, Signs
<1>3. \A j \in 1 .. 13 : Signs[j] = Signs[i] => j = i
  BY DEF Signs
<1>4. (CHOOSE j \in DOMAIN Signs : Signs[j] = Signs[i]) = i
  BY <1>2, <1>3
<1>5. Signs[i] \in Alphabet /\ Signs[i] \notin {"%", "*", "-", "a", "f", "g", End}
  BY <1>1, <1>2 DEF Alphabet, End
<1>6. QED
  BY <1>4, <1>5 DEF Code

LEMMA CodeOf ==
    /\ Code["."] = 46 /\ Code["/"] = 47 /\ Code[":"] = 58
    /\ Code["0"] = 48 /\ Code["1"] = 49 /\ Code["2"] = 50 /\ Code["3"] = 51 /\ Code["4"] = 52
    /\ Code["5"] = 53 /\ Code["6"] = 54 /\ Code["7"] = 55 /\ Code["8"] = 56 /\ Code["9"] = 57
    /\ Code["%"] = 37 /\ Code["*"] = 42 /\ Code["-"] = 45
    /\ Code["a"] = 97 /\ Code["f"] = 102 /\ Code["g"] = 103 /\ Code[End] = 0
<1>1. \A i \in 1 .. 13 : Code[Signs[i]] = 45 + i
  BY CodeOfSigns
<1>2. /\ Signs[1] = "." /\ Signs[2] = "/" /\ Signs[3] = "0" /\ Signs[4] = "1" /\ Signs[5] = "2"
      /\ Signs[6] = "3" /\ Signs[7] = "4" /\ Signs[8] = "5" /\ Signs[9] = "6" /\ Signs[10] = "7"
      /\ Signs[11] = "8" /\ Signs[12] = "9" /\ Signs[13] = ":"
  BY DEF Signs
<1>3. /\ Code["%"] = 37 /\ Code["*"] = 42 /\ Code["-"] = 45
      /\ Code["a"] = 97 /\ Code["f"] = 102 /\ Code["g"] = 103 /\ Code[End] = 0
  BY DEF Code, Alphabet, End
<1>4. QED
  BY <1>1, <1>2, <1>3

LEMMA AlphabetIs ==
    Alphabet = {".", "/", "0", "1", "2", "3", "4", "5", "6", "7", "8", "9", ":",
                "%", "*", "-", "a", "f", "g"}
  BY DEF Alphabet, ToSet, Signs

LEMMA CodeType == \A c \in Alphabet \cup {End} : Code[c] \in Nat
  BY CodeOf, AlphabetIs

(* Digits and separators are different characters. *)
LEMMA DigitsApart ==
    /\ End \notin Alphabet
    /\ \A c \in {".", "/", ":", "%", "*", "-", "a", "f", "g", End} : ~IsDigit(c)
    /\ \A c \in {"0", "1", "2", "3", "4", "5", "6", "7", "8", "9"} : IsDigit(c) /\ IsHex(c) /\ ~IsAlpha(c)
    /\ \A c \in {"a", "f"} : IsHex(c) /\ IsAlpha(c)
    /\ \A c \in {".", "/", ":", "%", "*", "-", "g", End} : ~IsHex(c)
<1>1. End \notin Alphabet
  BY AlphabetIs DEF End
<1>2. QED
  BY <1>1, CodeOf DEF IsDigit, IsHex, IsAlpha

(* Two recursions of the same steps agree. *)
SameSteps(f, g, m) ==
    /\ m \in Nat /\ f[0] = g[0]
    /\ \A i \in 1 .. m : f[i - 1] = g[i - 1] => f[i] = g[i]

LEMMA Agree ==
    ASSUME NEW m, NEW f, NEW g, SameSteps(f, g, m)
    PROVE  \A i \in 0 .. m : f[i] = g[i]
<1> USE DEF SameSteps
<1> DEFINE G == {i \in 0 .. m : f[i] = g[i]}
<1>1. 0 \in G
  OBVIOUS
<1>2. ASSUME NEW i \in 0 .. m - 1, i \in G PROVE i + 1 \in G
  <2>1. i + 1 \in 1 .. m /\ (i + 1) - 1 = i /\ i + 1 \in 0 .. m
    OBVIOUS
  <2>2. f[i + 1] = g[i + 1]
    BY <1>2, <2>1
  <2>3. QED
    BY <2>1, <2>2
<1> HIDE DEF G
<1>3. 0 .. m \subseteq G
  BY <1>1, <1>2, UpTo
<1>4. QED
  BY <1>3 DEF G

Word == Seq(Alphabet)

LEMMA WordIs ==
    ASSUME NEW s \in Word
    PROVE  /\ Len(s) \in Nat /\ DOMAIN s = 1 .. Len(s) /\ \A i \in 1 .. Len(s) : s[i] \in Alphabet
           /\ \A i \in 1 .. Len(s) : Code[s[i]] \in Nat /\ s[i] # End
           /\ \A i \in Int : At(s, i) = IF i \in 1 .. Len(s) THEN s[i] ELSE End
           /\ \A i \in Int : At(s, i) \in Alphabet \cup {End}
  BY CodeType, DigitsApart DEF Word, At

(* A part of a word. *)
LEMMA PartIs ==
    ASSUME NEW s \in Word, NEW a \in Nat \ {0}, NEW b \in 0 .. Len(s)
    PROVE  /\ SubSeq(s, a, b) \in Word
           /\ Len(SubSeq(s, a, b)) = IF a <= b THEN b - a + 1 ELSE 0
           /\ \A i \in 1 .. Len(SubSeq(s, a, b)) : SubSeq(s, a, b)[i] = s[a + i - 1]
           /\ a > b => SubSeq(s, a, b) = <<>>
<1>1. SubSeq(s, a, b) = [i \in 1 .. (b - a + 1) |-> s[a + i - 1]]
  OBVIOUS
<1>2. Len(s) \in Nat /\ \A i \in 1 .. (b - a + 1) : s[a + i - 1] \in Alphabet
  BY DEF Word
<1>3. CASE a <= b
  <2>1. b - a + 1 \in Nat
    BY <1>2, <1>3
  <2>2. SubSeq(s, a, b) \in [1 .. (b - a + 1) -> Alphabet]
    BY <1>1, <1>2
  <2>3. SubSeq(s, a, b) \in Word
    BY <2>1, <2>2 DEF Word
  <2>4. Len(SubSeq(s, a, b)) = b - a + 1
    BY <2>1, <2>2, <2>3
  <2>5. QED
    BY <1>1, <1>3, <2>1, <2>3, <2>4
<1>4. CASE a > b
  <2>1. 1 .. (b - a + 1) = {}
    BY <1>2, <1>4
  <2>2. SubSeq(s, a, b) = <<>>
    BY <1>1, <2>1
  <2>3. QED
    BY <1>2, <1>4, <2>2 DEF Word
<1>5. QED
  BY <1>2, <1>3, <1>4

(* A beginning of a word, and its parts. *)
LEMMA BeginningIs ==
    ASSUME NEW s \in Word, NEW k \in 0 .. Len(s)
    PROVE  /\ SubSeq(s, 1, k) \in Word /\ Len(SubSeq(s, 1, k)) = k
           /\ \A i \in 1 .. k : SubSeq(s, 1, k)[i] = s[i]
           /\ \A i \in 1 .. k : At(SubSeq(s, 1, k), i) = At(s, i)
           /\ \A a \in Nat \ {0}, b \in 0 .. k : SubSeq(SubSeq(s, 1, k), a, b) = SubSeq(s, a, b)
<1> DEFINE p == SubSeq(s, 1, k)
<1>1. p \in Word /\ Len(p) = k /\ k \in Nat /\ Len(s) \in Nat /\ \A i \in 1 .. k : p[i] = s[i]
  BY PartIs, WordIs
<1> HIDE DEF p
<1>2. \A i \in 1 .. k : At(p, i) = At(s, i)
  BY <1>1, WordIs
<1>3. ASSUME NEW a \in Nat \ {0}, NEW b \in 0 .. k
      PROVE  SubSeq(p, a, b) = SubSeq(s, a, b)
  <2>1. b \in 0 .. Len(s) /\ b \in 0 .. Len(p)
    BY <1>1
  <2>2. /\ SubSeq(p, a, b) \in Word /\ SubSeq(s, a, b) \in Word
        /\ Len(SubSeq(p, a, b)) = Len(SubSeq(s, a, b))
    BY <1>1, <2>1, PartIs
  <2>3. ASSUME NEW i \in 1 .. Len(SubSeq(s, a, b))
        PROVE  SubSeq(p, a, b)[i] = SubSeq(s, a, b)[i]
    <3>1. SubSeq(p, a, b)[i] = p[a + i - 1] /\ SubSeq(s, a, b)[i] = s[a + i - 1]
      BY <1>1, <2>1, <2>2, PartIs
    <3>2. Len(SubSeq(s, a, b)) = IF a <= b THEN b - a + 1 ELSE 0
      BY <2>1, PartIs
    <3>3. a + i - 1 \in 1 .. k
      BY <1>1, <2>1, <3>2
    <3>4. QED
      BY <1>1, <3>1, <3>3
  <2>4. QED
    BY <2>2, <2>3, SameSequence DEF Word
<1>4. QED
  BY <1>1, <1>2, <1>3 DEF p

-----------------------------------------------------------------------------
(* Numbers *)

LEMMA NumberIs ==
    ASSUME NEW s \in Word
    PROVE  \E f \in [0 .. Len(s) -> Int] :
               /\ Number(s) = f[Len(s)] /\ f[0] = 0
               /\ \A i \in 1 .. Len(s) : f[i] = 10 * f[i - 1] + Code[s[i]] - 48
<1> DEFINE n == Len(s)
           step == [i \in 1 .. n |-> [x \in Int |-> 10 * x + Code[s[i]] - 48]]
<1>1. n \in Nat /\ \A i \in 1 .. n : Code[s[i]] \in Nat
  BY WordIs
<1>2. step \in [1 .. n -> [Int -> Int]]
  BY <1>1
<1>3. \E f \in [0 .. n -> Int] : f[0] = 0 /\ \A i \in 1 .. n : f[i] = step[i][f[i - 1]]
  <2>1. IsRecursion(n, Int, 0, step)
    BY <1>1, <1>2 DEF IsRecursion
  <2> HIDE DEF n, step
  <2>2. QED
    BY <2>1, RecursionExists
<1>4. PICK f \in [0 .. n -> Int] : f[0] = 0 /\ \A i \in 1 .. n : f[i] = step[i][f[i - 1]]
  BY <1>3
<1>5. f = [i \in 0 .. n |-> IF i = 0 THEN 0 ELSE 10 * f[i - 1] + Code[s[i]] - 48]
  <2>1. \A i \in 0 .. n : i # 0 => i \in 1 .. n /\ i - 1 \in 0 .. n
    BY <1>1
  <2>2. \A i \in 0 .. n : i # 0 => step[i][f[i - 1]] = 10 * f[i - 1] + Code[s[i]] - 48
    BY <1>4, <2>1
  <2> HIDE DEF step
  <2>3. \A i \in 0 .. n : f[i] = IF i = 0 THEN 0 ELSE 10 * f[i - 1] + Code[s[i]] - 48
    BY <1>4, <2>1, <2>2
  <2>4. f = [i \in 0 .. n |-> f[i]]
    BY <1>4
  <2>5. QED
    BY <2>3, <2>4
<1> DEFINE g == CHOOSE g : g = [i \in 0 .. n |-> IF i = 0 THEN 0 ELSE 10 * g[i - 1] + Code[s[i]] - 48]
<1>6. Number(s) = g[n]
  BY DEF Number
<1>7. g = [i \in 0 .. n |-> IF i = 0 THEN 0 ELSE 10 * g[i - 1] + Code[s[i]] - 48]
  BY <1>5
<1> HIDE DEF g
<1>8. g[0] = 0 /\ \A i \in 1 .. n : g[i] = 10 * g[i - 1] + Code[s[i]] - 48
  BY <1>1, <1>7
<1>9. \A i \in 1 .. n : f[i] = 10 * f[i - 1] + Code[s[i]] - 48
  <2>1. \A i \in 1 .. n : i - 1 \in 0 .. n
    BY <1>1
  <2>2. QED
    BY <1>4, <2>1
<1>10. \A i \in 0 .. n : f[i] = g[i]
  <2> HIDE DEF n, step
  <2>1. \A i \in 1 .. n : f[i - 1] = g[i - 1] => f[i] = g[i]
    BY <1>8, <1>9
  <2>2. SameSteps(f, g, n)
    BY <1>1, <1>4, <1>8, <2>1 DEF SameSteps
  <2>3. QED
    BY <2>2, Agree
<1>11. QED
  BY <1>1, <1>4, <1>6, <1>9, <1>10

LEMMA NumberType ==
    ASSUME NEW s \in Word
    PROVE  Number(s) \in Int /\ (AllDigits(s) => Number(s) >= 0)
<1> DEFINE n == Len(s)
<1>1. n \in Nat /\ n \in 0 .. n /\ DOMAIN s = 1 .. n /\ \A i \in 1 .. n : Code[s[i]] \in Nat
  BY WordIs
<1>2. PICK f \in [0 .. n -> Int] :
         /\ Number(s) = f[n] /\ f[0] = 0
         /\ \A i \in 1 .. n : f[i] = 10 * f[i - 1] + Code[s[i]] - 48
  BY NumberIs
<1> HIDE DEF n
<1>3. ASSUME AllDigits(s) PROVE f[n] >= 0
  <2> DEFINE G == {i \in 0 .. n : f[i] >= 0}
  <2>1. 0 \in G
    BY <1>1, <1>2
  <2>2. ASSUME NEW j \in 0 .. n - 1, j \in G PROVE j + 1 \in G
    <3>1. j + 1 \in 1 .. n /\ j + 1 \in 0 .. n /\ j \in 0 .. n /\ (j + 1) - 1 = j
      BY <1>1
    <3>2. PICK d \in 48 .. 57 : Code[s[j + 1]] = d
      BY <1>1, <1>3, <3>1 DEF AllDigits, IsDigit
    <3>3. PICK x \in Int : f[j] = x /\ x >= 0
      BY <1>2, <2>2, <3>1
    <3>4. f[j + 1] = 10 * x + d - 48
      BY <1>2, <3>1, <3>2, <3>3
    <3>5. 10 * x + d - 48 >= 0
      BY <3>3
    <3>6. QED
      BY <3>1, <3>4, <3>5
  <2> HIDE DEF G
  <2>3. 0 .. n \subseteq G
    BY <1>1, <2>1, <2>2, UpTo
  <2>4. QED
    BY <1>1, <2>3 DEF G
<1>4. QED
  BY <1>1, <1>2, <1>3

LEMMA NumberNext ==
    ASSUME NEW s \in Word, NEW t \in Word, Len(t) = Len(s) + 1, \A i \in 1 .. Len(s) : t[i] = s[i]
    PROVE  Number(s) \in Int /\ Number(t) = 10 * Number(s) + Code[t[Len(t)]] - 48
<1>1. PICK f \in [0 .. Len(s) -> Int] :
         /\ Number(s) = f[Len(s)] /\ f[0] = 0
         /\ \A i \in 1 .. Len(s) : f[i] = 10 * f[i - 1] + Code[s[i]] - 48
  BY NumberIs
<1>2. PICK g \in [0 .. Len(t) -> Int] :
         /\ Number(t) = g[Len(t)] /\ g[0] = 0
         /\ \A i \in 1 .. Len(t) : g[i] = 10 * g[i - 1] + Code[t[i]] - 48
  BY NumberIs
<1>3. Len(s) \in Nat /\ Len(s) \in 0 .. Len(s) /\ Len(t) \in 1 .. Len(t)
  BY WordIs
<1>4. \A i \in 1 .. Len(s) : f[i - 1] = g[i - 1] => f[i] = g[i]
  BY <1>1, <1>2, <1>3
<1>5. f[Len(s)] = g[Len(s)]
  <2> DEFINE m == Len(s)
  <2>1. SameSteps(f, g, m)
    BY <1>1, <1>2, <1>3, <1>4 DEF SameSteps
  <2> HIDE DEF m
  <2>2. \A i \in 0 .. m : f[i] = g[i]
    BY <2>1, Agree
  <2>3. QED
    BY <1>3, <2>2 DEF m
<1>6. Len(t) - 1 = Len(s)
  BY <1>3
<1>7. QED
  BY <1>1, <1>2, <1>3, <1>5, <1>6

LEMMA NumberOfNone == Number(<<>>) = 0 /\ <<>> \in Word
<1>1. <<>> \in Word /\ Len(<<>>) = 0
  BY DEF Word
<1>2. QED
  BY <1>1, NumberIs

(* One digit more makes a number no less, however large it was. *)
LEMMA LongerNumber ==
    ASSUME NEW s \in Word, NEW a \in Nat \ {0}, NEW b \in 0 .. Len(s), a <= b + 1,
           b + 1 <= Len(s), IsDigit(s[b + 1])
    PROVE  /\ Number(SubSeq(s, a, b)) \in Int /\ Number(SubSeq(s, a, b + 1)) \in Int
           /\ Number(SubSeq(s, a, b)) >= 0 => Number(SubSeq(s, a, b + 1)) >= Number(SubSeq(s, a, b))
<1> DEFINE u == SubSeq(s, a, b)
           w == SubSeq(s, a, b + 1)
<1>1. Len(s) \in Nat /\ b + 1 \in 0 .. Len(s) /\ b \in Nat /\ b + 1 \in 1 .. Len(s)
  BY WordIs
<1>a. u \in Word /\ Len(u) = b - a + 1 /\ \A i \in 1 .. Len(u) : u[i] = s[a + i - 1]
  BY <1>1, PartIs
<1>b. w \in Word /\ Len(w) = b + 1 - a + 1 /\ \A i \in 1 .. Len(w) : w[i] = s[a + i - 1]
  <2> DEFINE r == b + 1
  <2>1. r \in 0 .. Len(s) /\ a <= r + 1
    BY <1>1
  <2> HIDE DEF r
  <2>2. SubSeq(s, a, r) \in Word /\ Len(SubSeq(s, a, r)) = r - a + 1
        /\ \A i \in 1 .. Len(SubSeq(s, a, r)) : SubSeq(s, a, r)[i] = s[a + i - 1]
    BY <2>1, PartIs
  <2>3. QED
    BY <2>2 DEF r
<1>2. u \in Word /\ w \in Word /\ Len(w) = b + 1 - a + 1 /\ Len(u) = b - a + 1
  BY <1>a, <1>b
<1>3. /\ \A i \in 1 .. Len(u) : u[i] = s[a + i - 1]
      /\ \A i \in 1 .. Len(w) : w[i] = s[a + i - 1]
  BY <1>a, <1>b
<1> HIDE DEF u, w
<1>4. Len(w) = Len(u) + 1 /\ \A i \in 1 .. Len(u) : w[i] = u[i]
  BY <1>1, <1>2, <1>3
<1>5. w[Len(w)] = s[b + 1]
  <2>1. Len(w) \in 1 .. Len(w) /\ a + Len(w) - 1 = b + 1
    BY <1>1, <1>2
  <2>2. QED
    BY <1>3, <2>1
<1>6. Number(u) \in Int /\ Number(w) = 10 * Number(u) + Code[s[b + 1]] - 48
  BY <1>2, <1>4, <1>5, NumberNext
<1>7. PICK d \in 48 .. 57 : Code[s[b + 1]] = d
  BY DEF IsDigit
<1>8. Number(w) \in Int /\ (Number(u) >= 0 => Number(w) >= Number(u))
  <2>1. PICK x \in Int : Number(u) = x /\ Number(w) = 10 * x + d - 48
    BY <1>6, <1>7
  <2>2. QED
    BY <2>1
<1>9. QED
  BY <1>6, <1>8 DEF u, w

LEMMA From ==
    ASSUME NEW i \in Nat, NEW n \in Nat, i <= n, NEW G, i \in G,
           \A j \in i .. n - 1 : j \in G => j + 1 \in G
    PROVE  i .. n \subseteq G
<1> DEFINE H == {j \in 0 .. n : j < i \/ j \in G}
<1>1. 0 \in H
  OBVIOUS
<1>2. ASSUME NEW j \in 0 .. n - 1, j \in H PROVE j + 1 \in H
  <2>1. j + 1 \in 0 .. n
    OBVIOUS
  <2>2. CASE j + 1 <= i
    BY <2>1, <2>2
  <2>3. CASE j >= i
    <3>1. j \in i .. n - 1 /\ j \in G
      BY <1>2, <2>3
    <3>2. QED
      BY <2>1, <3>1
  <2>4. QED
    BY <2>2, <2>3
<1> HIDE DEF H
<1>3. 0 .. n \subseteq H
  BY <1>1, <1>2, UpTo
<1>4. QED
  BY <1>3 DEF H

-----------------------------------------------------------------------------
(* IPv4: the scans *)

GroupStates == [v : {No, Partly, Go}, dots : Nat, sp : Nat \ {0}, mask : Nat]

LEMMA GroupStepType ==
    ASSUME NEW s \in Word, NEW st \in GroupStates, NEW i \in 1 .. Len(s), NEW ends
    PROVE  /\ GroupStep(s, st, i, ends) \in GroupStates
           /\ GroupStep(s, st, i, ends).mask = st.mask
           /\ GroupStep(s, st, i, ends).sp \in {st.sp, i + 1}
<1>1. i \in Nat /\ i + 1 \in Nat \ {0}
  OBVIOUS
<1>2. \A w \in {No, Partly} : LET e == [st EXCEPT !.v = w] IN e \in GroupStates /\ e.mask = st.mask /\ e.sp = st.sp
  BY DEF GroupStates
<1>3. LET e == [st EXCEPT !.dots = IF s[i] = "." THEN @ + 1 ELSE @, !.sp = i + 1]
      IN  e \in GroupStates /\ e.mask = st.mask /\ e.sp = i + 1
  <2> DEFINE d == IF s[i] = "." THEN st.dots + 1 ELSE st.dots
             q == i + 1
  <2>1. d \in Nat /\ q \in Nat \ {0}
    BY <1>1 DEF GroupStates
  <2> HIDE DEF d, q
  <2>2. LET e == [st EXCEPT !.dots = d, !.sp = q] IN e \in GroupStates /\ e.mask = st.mask /\ e.sp = q
    BY <2>1 DEF GroupStates
  <2>3. QED
    BY <2>2 DEF d, q
<1>4. QED
  BY <1>2, <1>3 DEF GroupStep

LEMMA Ipv4StepType ==
    ASSUME NEW s \in Word, NEW st \in GroupStates, NEW i \in 1 .. Len(s)
    PROVE  Ipv4Step(s, st, i) \in GroupStates /\ Ipv4Step(s, st, i).sp \in {st.sp, i + 1}
  BY GroupStepType DEF Ipv4Step

LEMMA PrefixStepType ==
    ASSUME NEW s \in Word, NEW st \in GroupStates, NEW i \in 1 .. Len(s)
    PROVE  /\ PrefixStep(s, st, i) \in GroupStates
           /\ PrefixStep(s, st, i).sp \in {st.sp, i + 1} /\ PrefixStep(s, st, i).mask \in {st.mask, i + 1}
<1>1. /\ GroupStep(s, st, i, {".", "/"}) \in GroupStates
      /\ GroupStep(s, st, i, {".", "/"}).sp \in {st.sp, i + 1}
      /\ GroupStep(s, st, i, {".", "/"}).mask = st.mask
  BY GroupStepType
<1>2. [st EXCEPT !.v = No] \in GroupStates /\ [st EXCEPT !.v = No].sp = st.sp /\ [st EXCEPT !.v = No].mask = st.mask
  BY DEF GroupStates
<1>3. \A w \in {Partly, Go} :
        /\ [st EXCEPT !.v = w, !.mask = i + 1] \in GroupStates
        /\ [st EXCEPT !.v = w, !.mask = i + 1].sp = st.sp
        /\ [st EXCEPT !.v = w, !.mask = i + 1].mask = i + 1
  <2>1. i + 1 \in Nat
    OBVIOUS
  <2>2. QED
    BY <2>1 DEF GroupStates
<1>4. QED
  BY <1>1, <1>2, <1>3 DEF PrefixStep

LEMMA StartType == GroupStart \in GroupStates /\ GroupStart.v = Go /\ GroupStart.sp = 1
                   /\ GroupStart.dots = 0 /\ GroupStart.mask = 0
  BY DEF GroupStart, GroupStates

LEMMA Ipv4ScanIs ==
    ASSUME NEW s \in Word
    PROVE  /\ Ipv4Scan(s) \in [0 .. Len(s) -> GroupStates] /\ Ipv4Scan(s)[0] = GroupStart
           /\ \A i \in 1 .. Len(s) : Ipv4Scan(s)[i] = Ipv4Step(s, Ipv4Scan(s)[i - 1], i)
<1> DEFINE n == Len(s)
           step == [i \in 1 .. n |-> [st \in GroupStates |-> Ipv4Step(s, st, i)]]
<1>1. n \in Nat
  BY WordIs
<1>2. step \in [1 .. n -> [GroupStates -> GroupStates]]
  BY Ipv4StepType
<1>3. \E f \in [0 .. n -> GroupStates] : f[0] = GroupStart /\ \A i \in 1 .. n : f[i] = step[i][f[i - 1]]
  <2>1. IsRecursion(n, GroupStates, GroupStart, step)
    BY <1>1, <1>2, StartType DEF IsRecursion
  <2> HIDE DEF n, step
  <2>2. QED
    BY <2>1, RecursionExists
<1>4. PICK f \in [0 .. n -> GroupStates] : f[0] = GroupStart /\ \A i \in 1 .. n : f[i] = step[i][f[i - 1]]
  BY <1>3
<1>5. \A i \in 1 .. n : i \in 0 .. n /\ i - 1 \in 0 .. n /\ i # 0
  BY <1>1
<1>6. \A i \in 1 .. n : f[i] = Ipv4Step(s, f[i - 1], i)
  BY <1>4, <1>5
<1> HIDE DEF step
<1>7. f = [i \in 0 .. n |-> IF i = 0 THEN GroupStart ELSE Ipv4Step(s, f[i - 1], i)]
  <2>1. \A i \in 0 .. n : f[i] = IF i = 0 THEN GroupStart ELSE Ipv4Step(s, f[i - 1], i)
    BY <1>1, <1>4, <1>6
  <2>2. f = [i \in 0 .. n |-> f[i]]
    BY <1>4
  <2>3. QED
    BY <2>1, <2>2
<1> DEFINE g == CHOOSE g : g = [i \in 0 .. n |-> IF i = 0 THEN GroupStart ELSE Ipv4Step(s, g[i - 1], i)]
<1>8. Ipv4Scan(s) = g
  BY DEF Ipv4Scan
<1>9. g = [i \in 0 .. n |-> IF i = 0 THEN GroupStart ELSE Ipv4Step(s, g[i - 1], i)]
  BY <1>7
<1> HIDE DEF g
<1>10. /\ DOMAIN g = 0 .. n /\ g[0] = GroupStart
       /\ \A i \in 1 .. n : g[i] = Ipv4Step(s, g[i - 1], i)
  BY <1>1, <1>5, <1>9
<1>11. \A i \in 0 .. n : g[i] = f[i]
  <2>1. SameSteps(g, f, n)
    BY <1>1, <1>4, <1>6, <1>10 DEF SameSteps
  <2> HIDE DEF n
  <2>2. QED
    BY <2>1, Agree
<1>12. g = [i \in 0 .. n |-> g[i]]
  BY <1>9
<1>13. g \in [0 .. n -> GroupStates]
  BY <1>4, <1>11, <1>12
<1>14. QED
  BY <1>8, <1>10, <1>13

LEMMA PrefixScanIs ==
    ASSUME NEW s \in Word
    PROVE  /\ PrefixScan(s) \in [0 .. Len(s) -> GroupStates] /\ PrefixScan(s)[0] = GroupStart
           /\ \A i \in 1 .. Len(s) : PrefixScan(s)[i] = PrefixStep(s, PrefixScan(s)[i - 1], i)
<1> DEFINE n == Len(s)
           step == [i \in 1 .. n |-> [st \in GroupStates |-> PrefixStep(s, st, i)]]
<1>1. n \in Nat
  BY WordIs
<1>2. step \in [1 .. n -> [GroupStates -> GroupStates]]
  BY PrefixStepType
<1>3. \E f \in [0 .. n -> GroupStates] : f[0] = GroupStart /\ \A i \in 1 .. n : f[i] = step[i][f[i - 1]]
  <2>1. IsRecursion(n, GroupStates, GroupStart, step)
    BY <1>1, <1>2, StartType DEF IsRecursion
  <2> HIDE DEF n, step
  <2>2. QED
    BY <2>1, RecursionExists
<1>4. PICK f \in [0 .. n -> GroupStates] : f[0] = GroupStart /\ \A i \in 1 .. n : f[i] = step[i][f[i - 1]]
  BY <1>3
<1>5. \A i \in 1 .. n : i \in 0 .. n /\ i - 1 \in 0 .. n /\ i # 0
  BY <1>1
<1>6. \A i \in 1 .. n : f[i] = PrefixStep(s, f[i - 1], i)
  BY <1>4, <1>5
<1> HIDE DEF step
<1>7. f = [i \in 0 .. n |-> IF i = 0 THEN GroupStart ELSE PrefixStep(s, f[i - 1], i)]
  <2>1. \A i \in 0 .. n : f[i] = IF i = 0 THEN GroupStart ELSE PrefixStep(s, f[i - 1], i)
    BY <1>1, <1>4, <1>6
  <2>2. f = [i \in 0 .. n |-> f[i]]
    BY <1>4
  <2>3. QED
    BY <2>1, <2>2
<1> DEFINE g == CHOOSE g : g = [i \in 0 .. n |-> IF i = 0 THEN GroupStart ELSE PrefixStep(s, g[i - 1], i)]
<1>8. PrefixScan(s) = g
  BY DEF PrefixScan
<1>9. g = [i \in 0 .. n |-> IF i = 0 THEN GroupStart ELSE PrefixStep(s, g[i - 1], i)]
  BY <1>7
<1> HIDE DEF g
<1>10. /\ DOMAIN g = 0 .. n /\ g[0] = GroupStart
       /\ \A i \in 1 .. n : g[i] = PrefixStep(s, g[i - 1], i)
  BY <1>1, <1>5, <1>9
<1>11. \A i \in 0 .. n : g[i] = f[i]
  <2>1. SameSteps(g, f, n)
    BY <1>1, <1>4, <1>6, <1>10 DEF SameSteps
  <2> HIDE DEF n
  <2>2. QED
    BY <2>1, Agree
<1>12. g = [i \in 0 .. n |-> g[i]]
  BY <1>9
<1>13. g \in [0 .. n -> GroupStates]
  BY <1>4, <1>11, <1>12
<1>14. QED
  BY <1>8, <1>10, <1>13

(* Where a group begins is not beyond the next character. *)
LEMMA Ipv4Begins ==
    ASSUME NEW s \in Word
    PROVE  \A i \in 0 .. Len(s) : Ipv4Scan(s)[i] \in GroupStates /\ Ipv4Scan(s)[i].sp <= i + 1
<1> DEFINE f == Ipv4Scan(s)
           n == Len(s)
           G == {i \in 0 .. n : f[i].sp <= i + 1}
<1>1. /\ n \in Nat /\ f \in [0 .. n -> GroupStates] /\ f[0] = GroupStart
      /\ \A i \in 1 .. n : f[i] = Ipv4Step(s, f[i - 1], i)
  BY WordIs, Ipv4ScanIs
<1> HIDE DEF f
<1>2. 0 \in G
  BY <1>1, StartType
<1>3. ASSUME NEW i \in 0 .. n - 1, i \in G PROVE i + 1 \in G
  <2>1. i + 1 \in 1 .. n /\ i + 1 \in 0 .. n /\ i \in 0 .. n /\ (i + 1) - 1 = i
    BY <1>1
  <2>2. f[i + 1] = Ipv4Step(s, f[i], i + 1) /\ f[i] \in GroupStates
    BY <1>1, <2>1
  <2>3. f[i + 1].sp \in {f[i].sp, i + 1 + 1} /\ f[i].sp \in Nat
    BY <2>1, <2>2, Ipv4StepType DEF GroupStates
  <2>4. QED
    BY <1>3, <2>1, <2>3
<1> HIDE DEF G
<1>4. 0 .. n \subseteq G
  BY <1>1, <1>2, <1>3, UpTo
<1>5. QED
  BY <1>1, <1>4 DEF G, f

LEMMA PrefixBegins ==
    ASSUME NEW s \in Word
    PROVE  \A i \in 0 .. Len(s) : PrefixScan(s)[i] \in GroupStates /\ PrefixScan(s)[i].sp <= i + 1
                                  /\ PrefixScan(s)[i].mask <= i + 1
<1> DEFINE f == PrefixScan(s)
           n == Len(s)
           G == {i \in 0 .. n : f[i].sp <= i + 1 /\ f[i].mask <= i + 1}
<1>1. /\ n \in Nat /\ f \in [0 .. n -> GroupStates] /\ f[0] = GroupStart
      /\ \A i \in 1 .. n : f[i] = PrefixStep(s, f[i - 1], i)
  BY WordIs, PrefixScanIs
<1> HIDE DEF f
<1>2. 0 \in G
  BY <1>1, StartType
<1>3. ASSUME NEW i \in 0 .. n - 1, i \in G PROVE i + 1 \in G
  <2>1. i + 1 \in 1 .. n /\ i + 1 \in 0 .. n /\ i \in 0 .. n /\ (i + 1) - 1 = i
    BY <1>1
  <2>2. f[i + 1] = PrefixStep(s, f[i], i + 1) /\ f[i] \in GroupStates
    BY <1>1, <2>1
  <2>3. /\ f[i + 1].sp \in {f[i].sp, i + 1 + 1} /\ f[i].sp \in Nat
        /\ f[i + 1].mask \in {f[i].mask, i + 1 + 1} /\ f[i].mask \in Nat
    BY <2>1, <2>2, PrefixStepType DEF GroupStates
  <2>4. QED
    BY <1>3, <2>1, <2>3
<1> HIDE DEF G
<1>4. 0 .. n \subseteq G
  BY <1>1, <1>2, <1>3, UpTo
<1>5. QED
  BY <1>1, <1>4 DEF G, f

(* A group that is too long or too large stays so with every digit. *)
LEMMA BadGroupStays ==
    ASSUME NEW s \in Word, NEW a \in Nat \ {0}, NEW i \in 1 .. Len(s), a <= i,
           ~Group(s, a, i), IsDigit(s[i])
    PROVE  ~Group(s, a, i + 1)
<1>1. Len(s) \in Nat /\ i \in Nat /\ i - 1 \in 0 .. Len(s) /\ (i - 1) + 1 = i /\ (i + 1) - 1 = i
  BY WordIs
<1>2. PICK x \in Int, y \in Int :
        /\ Number(SubSeq(s, a, i - 1)) = x /\ Number(SubSeq(s, a, i)) = y
        /\ x >= 0 => y >= x
  <2> DEFINE b == i - 1
  <2>1. b \in 0 .. Len(s) /\ a <= b + 1 /\ b + 1 <= Len(s) /\ b + 1 = i
    BY <1>1
  <2> HIDE DEF b
  <2>2. /\ Number(SubSeq(s, a, b)) \in Int /\ Number(SubSeq(s, a, b + 1)) \in Int
        /\ Number(SubSeq(s, a, b)) >= 0 => Number(SubSeq(s, a, b + 1)) >= Number(SubSeq(s, a, b))
    BY <2>1, LongerNumber
  <2>3. QED
    BY <2>1, <2>2 DEF b
<1>3. ~(i - a <= 3 /\ x <= 255)
  BY <1>2 DEF Group
<1>4. ~(i + 1 - a <= 3 /\ y <= 255)
  BY <1>1, <1>2, <1>3
<1>5. QED
  BY <1>1, <1>2, <1>4 DEF Group

(* No digits are a group. *)
LEMMA NoDigitsGroup ==
    ASSUME NEW s \in Word, NEW i \in 1 .. Len(s) + 1
    PROVE  Group(s, i, i)
<1>1. Len(s) \in Nat /\ i \in Nat \ {0} /\ i - 1 \in 0 .. Len(s) /\ i > i - 1
  BY WordIs
<1>2. SubSeq(s, i, i - 1) = <<>>
  BY <1>1, PartIs
<1>3. Number(SubSeq(s, i, i - 1)) = 0
  BY <1>2, NumberOfNone
<1>4. i - i <= 3
  BY <1>1
<1>5. QED
  BY <1>3, <1>4 DEF Group

-----------------------------------------------------------------------------
(* IPv4: a refusal is final *)

(* What a step does to a state that goes on: refusals do not look ahead. *)
LEMMA GroupStepIs ==
    ASSUME NEW s \in Word, NEW st \in GroupStates, st.v = Go, NEW i \in 1 .. Len(s), NEW ends,
           "." \in ends, ends \subseteq {".", "/"}
    PROVE  LET e == GroupStep(s, st, i, ends)
           IN  /\ s[i] = "." /\ At(s, i + 1) = End => e.v \in {No, Partly} /\ (e.v = No <=> st.dots = 3)
               /\ s[i] = "." /\ st.dots = 3 => e.v = No
               /\ s[i] \in ends /\ ~Group(s, st.sp, i) => e.v \in {No, Partly}
               /\ IsDigit(s[i]) => e = st
               /\ s[i] \notin ends /\ ~IsDigit(s[i]) => e.v = No
               /\ s[i] = "/" /\ "/" \in ends =>
                     IF Group(s, st.sp, i) THEN e = [st EXCEPT !.sp = i + 1] ELSE e.v = No
<1>1. End \notin ends /\ "." # "/"
  BY DEF End
<1>2. IsDigit(s[i]) => s[i] \notin ends /\ s[i] # "."
  BY DigitsApart
<1>3. \A w : [st EXCEPT !.v = w].v = w
  BY DEF GroupStates
<1>4. No # Partly /\ Go # No /\ Go # Partly
  BY DEF No, Partly, Go
<1>5. s[i] # "." => [st EXCEPT !.dots = IF s[i] = "." THEN @ + 1 ELSE @, !.sp = i + 1] = [st EXCEPT !.sp = i + 1]
  BY DEF GroupStates
<1> DEFINE e == GroupStep(s, st, i, ends)
<1>6. CASE s[i] = "."
  BY <1>1, <1>2, <1>3, <1>4, <1>6 DEF GroupStep
<1>7. CASE s[i] # "."
  <2>1. e = IF s[i] \in ends THEN IF Group(s, st.sp, i) THEN [st EXCEPT !.sp = i + 1] ELSE [st EXCEPT !.v = No]
            ELSE IF IsDigit(s[i]) THEN st ELSE [st EXCEPT !.v = No]
    BY <1>5, <1>7 DEF GroupStep
  <2> HIDE DEF e
  <2>2. QED
    BY <1>1, <1>2, <1>3, <1>4, <1>7, <2>1 DEF e
<1>8. QED
  BY <1>6, <1>7

LEMMA GoIsNot == No # Partly /\ No # Exact /\ Partly # Exact /\ Go # No /\ Go # Partly /\ Go # Exact
  BY DEF No, Partly, Exact, Go

(* The scan of a beginning of a word is the beginning of its scan, but for *)
(* its last step, which looks ahead.                                       *)
LEMMA Ipv4Same ==
    ASSUME NEW s \in Word, NEW k \in 1 .. Len(s)
    PROVE  Ipv4Scan(SubSeq(s, 1, k))[k - 1] = Ipv4Scan(s)[k - 1]
<1> DEFINE p == SubSeq(s, 1, k)
           f == Ipv4Scan(s)
           g == Ipv4Scan(p)
           m == k - 1
<1>1. /\ Len(s) \in Nat /\ k \in 0 .. Len(s) /\ k \in Nat /\ m \in Nat /\ m \in 0 .. m
      /\ \A i \in 1 .. m : i \in 1 .. k /\ i + 1 \in 1 .. k /\ i \in 1 .. Len(s) /\ i - 1 \in 0 .. k /\ i - 1 \in 0 .. Len(s)
  BY WordIs
<1>2. p \in Word /\ Len(p) = k
  BY <1>1, BeginningIs
<1>3. /\ f[0] = GroupStart /\ f \in [0 .. Len(s) -> GroupStates]
      /\ \A i \in 1 .. m : f[i] = Ipv4Step(s, f[i - 1], i)
  BY <1>1, Ipv4ScanIs
<1>4. g[0] = GroupStart /\ \A i \in 1 .. m : g[i] = Ipv4Step(p, g[i - 1], i)
  BY <1>1, <1>2, Ipv4ScanIs
<1> HIDE DEF f, g
<1>5. ASSUME NEW i \in 1 .. m, NEW st \in GroupStates PROVE Ipv4Step(p, st, i) = Ipv4Step(s, st, i)
  <2>1. p[i] = s[i] /\ At(p, i + 1) = At(s, i + 1)
    BY <1>1, BeginningIs
  <2>2. SubSeq(p, st.sp, i - 1) = SubSeq(s, st.sp, i - 1)
    <3>1. st.sp \in Nat \ {0}
      BY DEF GroupStates
    <3>2. QED
      BY <1>1, <3>1, BeginningIs
  <2> HIDE DEF p, m
  <2>3. Group(p, st.sp, i) = Group(s, st.sp, i)
    BY <2>2 DEF Group
  <2>4. GroupStep(p, st, i, {"."}) = GroupStep(s, st, i, {"."})
    BY <2>1, <2>3 DEF GroupStep
  <2>5. QED
    BY <2>4 DEF Ipv4Step
<1>6. \A i \in 1 .. m : f[i - 1] = g[i - 1] => f[i] = g[i]
  BY <1>1, <1>3, <1>4, <1>5
<1>7. SameSteps(f, g, m)
  BY <1>1, <1>3, <1>4, <1>6 DEF SameSteps
<1> HIDE DEF m
<1>8. f[m] = g[m]
  BY <1>1, <1>7, Agree
<1>9. QED
  BY <1>8 DEF m, f, g, p

(* Once nothing can come of the word, nothing does. *)
LEMMA Ipv4Dead ==
    ASSUME NEW s \in Word, NEW k \in 1 .. Len(s),
           LET st == Ipv4Scan(s)[k] IN st.v = Go => ~Group(s, st.sp, k + 1)
    PROVE  Ipv4(s) # Exact
<1> DEFINE n == Len(s)
           f == Ipv4Scan(s)
           G == {j \in k .. n : f[j].v = Go => ~Group(s, f[j].sp, j + 1)}
<1>1. /\ n \in Nat /\ k \in Nat /\ k <= n
      /\ \A j \in k .. n - 1 : j \in 0 .. n /\ j + 1 \in 1 .. n /\ j + 1 \in k .. n /\ (j + 1) - 1 = j
  BY WordIs
<1>2. \A j \in 1 .. n : f[j] = Ipv4Step(s, f[j - 1], j)
  BY Ipv4ScanIs
<1>3. \A j \in 0 .. n : f[j] \in GroupStates /\ f[j].sp <= j + 1
  BY Ipv4Begins
<1>4. k \in G
  BY <1>1
<1> HIDE DEF f, n
<1>5. ASSUME NEW j \in k .. n - 1, j \in G PROVE j + 1 \in G
  <2>1. f[j] \in GroupStates /\ f[j].sp <= j + 1 /\ f[j + 1] = Ipv4Step(s, f[j], j + 1)
    BY <1>1, <1>2, <1>3
  <2>2. CASE f[j].v # Go
    BY <1>1, <2>1, <2>2 DEF Ipv4Step
  <2>3. CASE f[j].v = Go
    <3> DEFINE i == j + 1
               e == GroupStep(s, f[j], i, {"."})
    <3>1. i \in 1 .. Len(s) /\ i \in Nat /\ ~Group(s, f[j].sp, i) /\ f[i] = e
      BY <1>1, <1>5, <2>1, <2>3 DEF Ipv4Step, n
    <3>2. /\ s[i] = "." => e.v \in {No, Partly}
          /\ s[i] # "." /\ ~IsDigit(s[i]) => e.v = No
          /\ IsDigit(s[i]) => e = f[j]
      BY <2>1, <2>3, <3>1, GroupStepIs
    <3> HIDE DEF e
    <3>3. CASE ~IsDigit(s[i])
      BY <1>1, <3>1, <3>2, <3>3, GoIsNot
    <3>4. CASE IsDigit(s[i])
      <4>1. f[j].sp \in Nat \ {0} /\ f[j].sp <= i
        BY <2>1 DEF GroupStates
      <4>2. ~Group(s, f[j].sp, i + 1)
        BY <3>1, <3>4, <4>1, BadGroupStays
      <4>3. QED
        BY <1>1, <3>1, <3>2, <3>4, <4>2
    <3>5. QED
      BY <3>3, <3>4
  <2>4. QED
    BY <2>2, <2>3
<1> HIDE DEF G
<1>6. k .. n \subseteq G
  BY <1>1, <1>4, <1>5, From
<1>7. n \in G /\ f[n] \in GroupStates
  BY <1>1, <1>3, <1>6
<1>8. QED
  BY <1>7, GoIsNot DEF G, Ipv4, GroupStates, f, n

LEMMA Ipv4Refused ==
    ASSUME NEW s \in Word, NEW k \in 0 .. Len(s), Ipv4(SubSeq(s, 1, k)) = No
    PROVE  Ipv4(s) # Exact
<1> DEFINE p == SubSeq(s, 1, k)
<1>1. p \in Word /\ Len(p) = k /\ k \in Nat /\ Len(s) \in Nat
  BY BeginningIs, WordIs
<1>2. CASE k = 0
  <2>1. Ipv4Scan(p)[0] = GroupStart
    BY <1>1, Ipv4ScanIs
  <2>2. Group(p, 1, 1)
    BY <1>1, <1>2, NoDigitsGroup
  <2>3. Ipv4(p) = Partly
    BY <1>1, <1>2, <2>1, <2>2, StartType DEF Ipv4
  <2>4. QED
    BY <2>3, GoIsNot
<1>3. CASE k # 0
  <2> DEFINE st == Ipv4Scan(s)[k - 1]
  <2>1. k \in 1 .. Len(s) /\ k \in 1 .. Len(p) /\ k - 1 \in 0 .. Len(s) /\ k \in 0 .. Len(p)
    BY <1>1, <1>3
  <2>2. /\ Ipv4Scan(p)[k - 1] = st /\ Ipv4Scan(p)[k] = Ipv4Step(p, st, k)
        /\ Ipv4Scan(s)[k] = Ipv4Step(s, st, k) /\ st \in GroupStates
    BY <1>1, <2>1, Ipv4Same, Ipv4ScanIs
  <2>3. p[k] = s[k] /\ At(p, k + 1) = End
    <3>1. k \in 1 .. k /\ k + 1 \in Int /\ k + 1 \notin 1 .. k
      BY <1>1, <2>1
    <3>2. p[k] = s[k]
      BY <3>1, BeginningIs
    <3> HIDE DEF p
    <3>3. At(p, k + 1) = End
      BY <1>1, <3>1, WordIs
    <3>4. QED
      BY <3>2, <3>3
  <2> HIDE DEF st, p
  <2>4. CASE st.v # Go
    <3>1. Ipv4Scan(s)[k].v # Go
      BY <2>2, <2>4 DEF Ipv4Step
    <3>2. QED
      BY <2>1, <3>1, Ipv4Dead
  <2>5. CASE st.v = Go
    <3>1. /\ Ipv4Scan(p)[k] = GroupStep(p, st, k, {"."})
          /\ Ipv4Scan(s)[k] = GroupStep(s, st, k, {"."})
      BY <2>2, <2>5 DEF Ipv4Step
    <3>2. CASE s[k] = "."
      <4>1. /\ GroupStep(p, st, k, {"."}).v \in {No, Partly}
            /\ GroupStep(p, st, k, {"."}).v = No <=> st.dots = 3
            /\ st.dots = 3 => GroupStep(s, st, k, {"."}).v = No
        BY <1>1, <2>1, <2>2, <2>3, <2>5, <3>2, GroupStepIs
      <4>2. st.dots = 3
        BY <1>1, <3>1, <4>1, GoIsNot DEF Ipv4, p
      <4>3. QED
        BY <2>1, <3>1, <4>1, <4>2, GoIsNot, Ipv4Dead
    <3>3. CASE IsDigit(s[k])
      <4>1. GroupStep(p, st, k, {"."}) = st /\ GroupStep(s, st, k, {"."}) = st
        BY <1>1, <2>1, <2>2, <2>3, <2>5, <3>3, GroupStepIs
      <4>2. ~Group(p, st.sp, k + 1)
        BY <1>1, <2>5, <3>1, <4>1, GoIsNot DEF Ipv4, p
      <4>3. SubSeq(p, st.sp, k) = SubSeq(s, st.sp, k)
        <5>1. st.sp \in Nat \ {0} /\ k \in 0 .. k
          BY <1>1, <2>2 DEF GroupStates
        <5>2. QED
          BY <5>1, BeginningIs DEF p
      <4>4. (k + 1) - 1 = k
        BY <1>1
      <4>5. ~Group(s, st.sp, k + 1)
        BY <4>2, <4>3, <4>4 DEF Group
      <4>6. QED
        BY <2>1, <3>1, <4>1, <4>5, Ipv4Dead
    <3>4. CASE s[k] # "." /\ ~IsDigit(s[k])
      <4>1. GroupStep(s, st, k, {"."}).v = No
        BY <2>1, <2>2, <2>5, <3>4, GroupStepIs
      <4>2. QED
        BY <2>1, <3>1, <4>1, GoIsNot, Ipv4Dead
    <3>5. QED
      BY <3>2, <3>3, <3>4
  <2>6. QED
    BY <2>4, <2>5
<1>4. QED
  BY <1>2, <1>3

-----------------------------------------------------------------------------
(* IPv4 with a mask: a refusal is final *)

LEMMA PrefixSame ==
    ASSUME NEW s \in Word, NEW k \in 1 .. Len(s)
    PROVE  PrefixScan(SubSeq(s, 1, k))[k - 1] = PrefixScan(s)[k - 1]
<1> DEFINE p == SubSeq(s, 1, k)
           f == PrefixScan(s)
           g == PrefixScan(p)
           m == k - 1
<1>1. /\ Len(s) \in Nat /\ k \in 0 .. Len(s) /\ k \in Nat /\ m \in Nat /\ m \in 0 .. m
      /\ \A i \in 1 .. m : i \in 1 .. k /\ i + 1 \in 1 .. k /\ i \in 1 .. Len(s) /\ i - 1 \in 0 .. k /\ i - 1 \in 0 .. Len(s)
  BY WordIs
<1>2. p \in Word /\ Len(p) = k
  BY <1>1, BeginningIs
<1>3. /\ f[0] = GroupStart /\ f \in [0 .. Len(s) -> GroupStates]
      /\ \A i \in 1 .. m : f[i] = PrefixStep(s, f[i - 1], i)
  BY <1>1, PrefixScanIs
<1>4. g[0] = GroupStart /\ \A i \in 1 .. m : g[i] = PrefixStep(p, g[i - 1], i)
  BY <1>1, <1>2, PrefixScanIs
<1> HIDE DEF f, g
<1>5. ASSUME NEW i \in 1 .. m, NEW st \in GroupStates PROVE PrefixStep(p, st, i) = PrefixStep(s, st, i)
  <2>1. p[i] = s[i] /\ At(p, i + 1) = At(s, i + 1)
    BY <1>1, BeginningIs
  <2>2. SubSeq(p, st.sp, i - 1) = SubSeq(s, st.sp, i - 1)
    <3>1. st.sp \in Nat \ {0}
      BY DEF GroupStates
    <3>2. QED
      BY <1>1, <3>1, BeginningIs
  <2> HIDE DEF p, m
  <2>3. Group(p, st.sp, i) = Group(s, st.sp, i)
    BY <2>2 DEF Group
  <2>4. GroupStep(p, st, i, {".", "/"}) = GroupStep(s, st, i, {".", "/"})
    BY <2>1, <2>3 DEF GroupStep
  <2>5. QED
    BY <2>1, <2>3, <2>4 DEF PrefixStep
<1>6. \A i \in 1 .. m : f[i - 1] = g[i - 1] => f[i] = g[i]
  BY <1>1, <1>3, <1>4, <1>5
<1>7. SameSteps(f, g, m)
  BY <1>1, <1>3, <1>4, <1>6 DEF SameSteps
<1> HIDE DEF m
<1>8. f[m] = g[m]
  BY <1>1, <1>7, Agree
<1>9. QED
  BY <1>8 DEF m, f, g, p

(* A step where no mask begins. *)
LEMMA PrefixStepIs ==
    ASSUME NEW s \in Word, NEW st \in GroupStates, st.v = Go, st.mask = 0, NEW i \in 1 .. Len(s),
           ~(s[i] = "/" /\ st.dots = 3 /\ Group(s, st.sp, i))
    PROVE  LET e == PrefixStep(s, st, i)
           IN  /\ e = GroupStep(s, st, i, {".", "/"})
               /\ s[i] = "." /\ At(s, i + 1) = End => e.v \in {No, Partly} /\ (e.v = No <=> st.dots = 3)
               /\ s[i] = "." /\ st.dots = 3 => e.v = No
               /\ s[i] \in {".", "/"} /\ ~Group(s, st.sp, i) => e.v \in {No, Partly}
               /\ IsDigit(s[i]) => e = st
               /\ s[i] \notin {".", "/"} /\ ~IsDigit(s[i]) => e.v = No
               /\ s[i] = "/" => IF Group(s, st.sp, i) THEN e = [st EXCEPT !.sp = i + 1] ELSE e.v = No
<1> DEFINE ends == {".", "/"}
<1>1. "." \in ends /\ "/" \in ends /\ ends \subseteq {".", "/"}
  OBVIOUS
<1>2. PrefixStep(s, st, i) = GroupStep(s, st, i, ends)
  BY DEF PrefixStep
<1> HIDE DEF ends
<1>3. LET e == GroupStep(s, st, i, ends)
      IN  /\ s[i] = "." /\ At(s, i + 1) = End => e.v \in {No, Partly} /\ (e.v = No <=> st.dots = 3)
          /\ s[i] = "." /\ st.dots = 3 => e.v = No
          /\ s[i] \in ends /\ ~Group(s, st.sp, i) => e.v \in {No, Partly}
          /\ IsDigit(s[i]) => e = st
          /\ s[i] \notin ends /\ ~IsDigit(s[i]) => e.v = No
          /\ s[i] = "/" => IF Group(s, st.sp, i) THEN e = [st EXCEPT !.sp = i + 1] ELSE e.v = No
  BY <1>1, GroupStepIs
<1>4. QED
  BY <1>2, <1>3 DEF ends

(* A number whose digits are too large, or a mask. *)
TooLarge(s, st, j) ==
    IF st.mask = 0 THEN ~Group(s, st.sp, j + 1) ELSE Number(SubSeq(s, st.mask, j)) > 32

LEMMA PrefixDead ==
    ASSUME NEW s \in Word, NEW k \in 1 .. Len(s),
           LET st == PrefixScan(s)[k] IN st.v = Go => TooLarge(s, st, k)
    PROVE  Ipv4Prefix(s) # Exact
<1> DEFINE n == Len(s)
           f == PrefixScan(s)
           G == {j \in k .. n : f[j].v = Go => TooLarge(s, f[j], j)}
<1>1. /\ n \in Nat /\ k \in Nat /\ k <= n
      /\ \A j \in k .. n - 1 : j \in 0 .. n /\ j + 1 \in 1 .. n /\ j + 1 \in k .. n /\ (j + 1) - 1 = j
  BY WordIs
<1>2. \A j \in 1 .. n : f[j] = PrefixStep(s, f[j - 1], j)
  BY PrefixScanIs
<1>3. \A j \in 0 .. n : f[j] \in GroupStates /\ f[j].sp <= j + 1 /\ f[j].mask <= j + 1
  BY PrefixBegins
<1>4. k \in G
  BY <1>1
<1> HIDE DEF f, n
<1>5. ASSUME NEW j \in k .. n - 1, j \in G PROVE j + 1 \in G
  <2>1. f[j] \in GroupStates /\ f[j].sp <= j + 1 /\ f[j].mask <= j + 1 /\ f[j + 1] = PrefixStep(s, f[j], j + 1)
    BY <1>1, <1>2, <1>3
  <2> DEFINE i == j + 1
  <2>2. i \in 1 .. Len(s) /\ i \in Nat /\ i - 1 = j /\ i \in k .. n
    BY <1>1 DEF n
  <2>3. f[j].sp \in Nat \ {0} /\ f[j].sp <= i /\ f[j].mask \in Nat /\ f[j].mask <= i
    BY <2>1 DEF GroupStates
  <2>4. CASE f[j].v # Go
    BY <2>1, <2>2, <2>4 DEF PrefixStep
  <2>5. CASE f[j].v = Go /\ f[j].mask = 0
    <3>1. ~Group(s, f[j].sp, i)
      BY <1>5, <2>5 DEF TooLarge
    <3>2. /\ s[i] = "." => f[i].v \in {No, Partly}
          /\ s[i] # "." /\ ~IsDigit(s[i]) => f[i].v \in {No, Partly}
          /\ IsDigit(s[i]) => f[i] = f[j]
      BY <2>1, <2>2, <2>5, <3>1, PrefixStepIs
    <3>3. CASE ~IsDigit(s[i])
      BY <2>2, <3>2, <3>3, GoIsNot
    <3>4. CASE IsDigit(s[i])
      <4>1. ~Group(s, f[j].sp, i + 1)
        BY <2>2, <2>3, <3>1, <3>4, BadGroupStays
      <4>2. QED
        BY <2>2, <2>5, <3>2, <3>4, <4>1 DEF TooLarge
    <3>5. QED
      BY <3>3, <3>4
  <2>6. CASE f[j].v = Go /\ f[j].mask # 0
    <3> DEFINE a == f[j].mask
    <3>1. a \in Nat \ {0} /\ a <= j + 1 /\ Number(SubSeq(s, a, j)) > 32
      BY <1>5, <2>3, <2>6 DEF TooLarge
    <3>2. f[i] = IF IsDigit(s[i]) THEN f[j] ELSE [f[j] EXCEPT !.v = No]
      BY <2>1, <2>3, <2>6 DEF PrefixStep
    <3>3. CASE ~IsDigit(s[i])
      <4>1. f[i].v = No
        BY <2>1, <3>2, <3>3 DEF GroupStates
      <4>2. QED
        BY <2>2, <4>1, GoIsNot
    <3>4. CASE IsDigit(s[i])
      <4> HIDE DEF a
      <4>0. j \in 0 .. Len(s) /\ j + 1 <= Len(s)
        BY <1>1 DEF n
      <4>1. /\ Number(SubSeq(s, a, j)) \in Int /\ Number(SubSeq(s, a, j + 1)) \in Int
            /\ Number(SubSeq(s, a, j)) >= 0 => Number(SubSeq(s, a, j + 1)) >= Number(SubSeq(s, a, j))
        BY <3>1, <3>4, <4>0, LongerNumber
      <4>2. Number(SubSeq(s, a, i)) > 32
        <5>1. PICK x \in Int, y \in Int :
                Number(SubSeq(s, a, j)) = x /\ Number(SubSeq(s, a, i)) = y /\ (x >= 0 => y >= x) /\ x > 32
          BY <3>1, <4>1
        <5>2. y > 32
          BY <5>1
        <5>3. QED
          BY <5>1, <5>2
      <4>3. QED
        BY <2>2, <2>6, <3>2, <3>4, <4>2 DEF TooLarge, a
    <3>5. QED
      BY <3>3, <3>4
  <2>7. QED
    BY <2>4, <2>5, <2>6
<1> HIDE DEF G
<1>6. k .. n \subseteq G
  BY <1>1, <1>4, <1>5, From
<1>7. n \in G /\ f[n] \in GroupStates
  BY <1>1, <1>3, <1>6
<1>8. QED
  BY <1>7, GoIsNot DEF G, Ipv4Prefix, GroupStates, TooLarge, f, n

LEMMA PrefixRefused ==
    ASSUME NEW s \in Word, NEW k \in 0 .. Len(s), Ipv4Prefix(SubSeq(s, 1, k)) = No
    PROVE  Ipv4Prefix(s) # Exact
<1> DEFINE p == SubSeq(s, 1, k)
<1>1. p \in Word /\ Len(p) = k /\ k \in Nat /\ Len(s) \in Nat
  BY BeginningIs, WordIs
<1>2. CASE k = 0
  <2>1. PrefixScan(p)[0] = GroupStart
    BY <1>1, PrefixScanIs
  <2>2. Group(p, 1, 1)
    BY <1>1, <1>2, NoDigitsGroup
  <2>3. Ipv4Prefix(p) = Partly
    BY <1>1, <1>2, <2>1, <2>2, StartType DEF Ipv4Prefix
  <2>4. QED
    BY <2>3, GoIsNot
<1>3. CASE k # 0
  <2> DEFINE st == PrefixScan(s)[k - 1]
  <2>1. k \in 1 .. Len(s) /\ k \in 1 .. Len(p) /\ k - 1 \in 0 .. Len(s) /\ k \in 0 .. Len(p)
    BY <1>1, <1>3
  <2>2. /\ PrefixScan(p)[k - 1] = st /\ PrefixScan(p)[k] = PrefixStep(p, st, k)
        /\ PrefixScan(s)[k] = PrefixStep(s, st, k) /\ st \in GroupStates
    BY <1>1, <2>1, PrefixSame, PrefixScanIs
  <2>3. p[k] = s[k] /\ At(p, k + 1) = End
    <3>1. k \in 1 .. k /\ k + 1 \in Int /\ k + 1 \notin 1 .. k
      BY <1>1, <2>1
    <3>2. p[k] = s[k]
      BY <3>1, BeginningIs
    <3> HIDE DEF p
    <3>3. At(p, k + 1) = End
      BY <1>1, <3>1, WordIs
    <3>4. QED
      BY <3>2, <3>3
  <2>4. \A b \in {k - 1, k} : SubSeq(p, st.sp, b) = SubSeq(s, st.sp, b)
    <3>1. st.sp \in Nat \ {0} /\ k \in 0 .. k /\ k - 1 \in 0 .. k
      BY <1>1, <2>1, <2>2 DEF GroupStates
    <3>2. QED
      BY <3>1, BeginningIs
  <2>5. st.mask # 0 => SubSeq(p, st.mask, k) = SubSeq(s, st.mask, k)
    <3>1. st.mask \in Nat /\ k \in 0 .. k
      BY <1>1, <2>2 DEF GroupStates
    <3>2. QED
      BY <3>1, BeginningIs
  <2> HIDE DEF st, p
  <2>6. CASE st.v # Go
    <3>1. PrefixScan(s)[k].v # Go
      BY <2>2, <2>6 DEF PrefixStep
    <3>2. QED
      BY <2>1, <3>1, PrefixDead
  <2>7. CASE st.v = Go /\ st.mask # 0
    <3>1. st.mask > 0
      BY <2>2, <2>7 DEF GroupStates
    <3>2. /\ PrefixScan(s)[k] = IF IsDigit(s[k]) THEN st ELSE [st EXCEPT !.v = No]
          /\ PrefixScan(p)[k] = IF IsDigit(s[k]) THEN st ELSE [st EXCEPT !.v = No]
      BY <2>2, <2>3, <2>7, <3>1 DEF PrefixStep
    <3>3. CASE IsDigit(s[k])
      <4>1. Number(SubSeq(p, st.mask, k)) > 32
        BY <1>1, <2>7, <3>2, <3>3, GoIsNot DEF Ipv4Prefix, p
      <4>2. TooLarge(s, st, k)
        BY <2>5, <2>7, <4>1 DEF TooLarge
      <4>3. QED
        BY <2>1, <3>2, <3>3, <4>2, PrefixDead
    <3>4. CASE ~IsDigit(s[k])
      <4>1. PrefixScan(s)[k].v = No
        BY <2>2, <3>2, <3>4 DEF GroupStates
      <4>2. QED
        BY <2>1, <4>1, GoIsNot, PrefixDead
    <3>5. QED
      BY <3>3, <3>4
  <2>8. CASE st.v = Go /\ st.mask = 0
    <3>1. Group(p, st.sp, k) = Group(s, st.sp, k) /\ Group(p, st.sp, k + 1) = Group(s, st.sp, k + 1)
      <4>1. (k + 1) - 1 = k
        BY <1>1
      <4>2. QED
        BY <2>4, <4>1 DEF Group
    <3>2. ~(s[k] = "/" /\ st.dots = 3 /\ Group(s, st.sp, k))
      <4>1. SUFFICES ASSUME s[k] = "/" /\ st.dots = 3 /\ Group(s, st.sp, k) PROVE FALSE
        OBVIOUS
      <4>2. PrefixStep(p, st, k) = [st EXCEPT !.v = Partly, !.mask = k + 1]
        BY <2>3, <2>8, <3>1, <4>1 DEF PrefixStep
      <4>3. PrefixScan(p)[k].v = Partly
        BY <2>2, <4>2 DEF GroupStates
      <4>4. QED
        BY <1>1, <4>3, GoIsNot DEF Ipv4Prefix, p
    <3>3. CASE s[k] = "."
      <4>1. /\ PrefixStep(p, st, k).v \in {No, Partly}
            /\ PrefixStep(p, st, k).v = No <=> st.dots = 3
            /\ st.dots = 3 => PrefixStep(s, st, k).v = No
        BY <1>1, <2>1, <2>2, <2>3, <2>8, <3>1, <3>2, <3>3, PrefixStepIs
      <4>2. st.dots = 3
        BY <1>1, <2>2, <4>1, GoIsNot DEF Ipv4Prefix, p
      <4>3. QED
        BY <2>1, <2>2, <4>1, <4>2, GoIsNot, PrefixDead
    <3>4. CASE IsDigit(s[k])
      <4>1. PrefixStep(p, st, k) = st /\ PrefixStep(s, st, k) = st
        BY <1>1, <2>1, <2>2, <2>3, <2>8, <3>1, <3>2, <3>4, PrefixStepIs
      <4>2. ~Group(p, st.sp, k + 1)
        BY <1>1, <2>2, <2>8, <4>1, GoIsNot DEF Ipv4Prefix, p
      <4>3. QED
        BY <2>1, <2>2, <2>8, <3>1, <4>1, <4>2, PrefixDead DEF TooLarge
    <3>5. CASE s[k] = "/"
      <4>1. Group(s, st.sp, k) => FALSE
        <5>1. SUFFICES ASSUME Group(s, st.sp, k) PROVE FALSE
          OBVIOUS
        <5>2. PrefixStep(p, st, k) = [st EXCEPT !.sp = k + 1]
          <6>1. p[k] = "/" /\ st.dots # 3 /\ Group(p, st.sp, k)
            BY <2>3, <3>1, <3>2, <3>5, <5>1
          <6>2. IF Group(p, st.sp, k) THEN PrefixStep(p, st, k) = [st EXCEPT !.sp = k + 1]
                ELSE PrefixStep(p, st, k).v = No
            BY <1>1, <2>1, <2>2, <2>8, <6>1, PrefixStepIs
          <6>3. QED
            BY <6>1, <6>2
        <5>3. /\ PrefixScan(p)[k].v = Go /\ PrefixScan(p)[k].mask = 0 /\ PrefixScan(p)[k].sp = k + 1
          BY <2>2, <2>8, <5>2 DEF GroupStates
        <5>4. Group(p, k + 1, k + 1)
          <6>1. k + 1 \in 1 .. Len(p) + 1
            BY <1>1, <2>1
          <6>2. QED
            BY <1>1, <6>1, NoDigitsGroup
        <5>5. QED
          BY <1>1, <5>3, <5>4, GoIsNot DEF Ipv4Prefix, p
      <4>2. PrefixStep(s, st, k).v = No
        BY <2>1, <2>2, <2>8, <3>2, <3>5, <4>1, PrefixStepIs
      <4>3. QED
        BY <2>1, <2>2, <4>2, GoIsNot, PrefixDead
    <3>6. CASE s[k] \notin {".", "/"} /\ ~IsDigit(s[k])
      <4>1. PrefixStep(s, st, k).v = No
        BY <2>1, <2>2, <2>8, <3>2, <3>6, PrefixStepIs
      <4>2. QED
        BY <2>1, <2>2, <4>1, GoIsNot, PrefixDead
    <3>7. QED
      BY <3>3, <3>4, <3>5, <3>6
  <2>9. QED
    BY <2>6, <2>7, <2>8
<1>4. QED
  BY <1>2, <1>3

-----------------------------------------------------------------------------
(* IPv6: the scan.  Without a mask, the words have no dots.                *)

Ends(prefix) == {":", End} \cup IF prefix THEN {".", "/"} ELSE {}
Most(prefix) == IF prefix THEN 11 ELSE 8
Undotted(s, prefix) == prefix \/ \A i \in 1 .. Len(s) : s[i] # "."
SixStates(prefix) ==
    [v : {No, Go} \cup IF prefix THEN {Partly} ELSE {},
     state : {"addr", "colon", "double"} \cup IF prefix THEN {"dot", "slash", "mask"} ELSE {},
     colons : Int, nums : Nat, double : BOOLEAN, sp : Nat \ {0}]
TooLong(s, st, i, prefix) == i - st.sp > 3 \/ (prefix /\ "/" \in ToSet(SubSeq(s, st.sp, i)))
AfterGroup(nx) == IF nx = "." THEN "dot" ELSE IF nx = "/" THEN "slash" ELSE "colon"

(* What a step does, before the limits. *)
SteppedTo(s, st, i, prefix, e) ==
    LET nx == At(s, i + 1)
    IN  /\ st.state = "colon" =>
              IF prefix /\ nx = "/" THEN e.v = No
              ELSE e.v = Go /\ e.colons = st.colons + 1 /\ e.nums = st.nums /\ e.double = st.double
                   /\ e.sp = i + 1 /\ e.state = IF nx = ":" THEN "double" ELSE "addr"
        /\ st.state = "double" =>
              IF st.double \/ nx = ":" THEN e.v = No
              ELSE e.v = Go /\ e.nums = st.nums + 1 /\ e.double = TRUE /\ e.sp = i + 1
                   /\ e.colons = (IF nx = End \/ (prefix /\ nx = "/") THEN st.colons ELSE st.colons + 1)
                   /\ e.state = IF prefix /\ nx = "/" THEN "slash" ELSE "addr"
        /\ st.state = "addr" =>
              IF nx \notin Ends(prefix) THEN e = st
              ELSE IF TooLong(s, st, i, prefix) THEN e.v = No
              ELSE e.v = Go /\ e.nums = st.nums + 1 /\ e.colons = st.colons /\ e.double = st.double
                   /\ e.sp = (IF prefix THEN i + 1 ELSE st.sp) /\ e.state = AfterGroup(nx)
        /\ st.state = "dot" =>
              e.v = Go /\ e.nums = st.nums /\ e.colons = st.colons /\ e.double = st.double
              /\ e.sp = st.sp /\ e.state = "addr"
        /\ st.state = "slash" =>
              IF nx = End THEN e.v = Partly
              ELSE e.v = Go /\ e.nums = st.nums /\ e.colons = st.colons /\ e.double = st.double
                   /\ e.sp = i + 1 /\ e.state = "mask"
        /\ st.state = "mask" => e = st

LEMMA SixStateIs ==
    ASSUME NEW s \in Word, NEW prefix \in BOOLEAN, Undotted(s, prefix),
           NEW st \in SixStates(prefix), st.v = Go, NEW i \in 1 .. Len(s)
    PROVE  /\ Ipv6State(s, st, i, prefix) \in SixStates(prefix)
           /\ Ipv6State(s, st, i, prefix).sp \in {st.sp, i + 1}
           /\ SteppedTo(s, st, i, prefix, Ipv6State(s, st, i, prefix))
<1> USE DEF SteppedTo
<1> DEFINE nx == At(s, i + 1)
           e == Ipv6State(s, st, i, prefix)
           refuse == [st EXCEPT !.v = No]
<1>1. i \in Nat /\ i + 1 \in Nat \ {0} /\ i + 1 \in Int /\ Len(s) \in Nat
  BY WordIs
<1>2. (prefix \/ nx # ".") /\ nx \in Alphabet \cup {End} /\ End \notin {":", ".", "/"}
  BY <1>1, WordIs DEF Undotted, End
<1>3. /\ st.colons \in Int /\ st.colons + 1 \in Int /\ st.nums \in Nat /\ st.nums + 1 \in Nat
      /\ st.double \in BOOLEAN /\ st.sp \in Nat \ {0}
  BY DEF SixStates
<1>4. refuse \in SixStates(prefix) /\ refuse.v = No /\ refuse.sp = st.sp
  BY DEF SixStates
<1> HIDE DEF refuse, nx
<1>5. CASE st.state = "colon"
  <2> DEFINE w == [st EXCEPT !.colons = @ + 1, !.sp = i + 1, !.state = IF nx = ":" THEN "double" ELSE "addr"]
  <2>1. e = IF prefix /\ nx = "/" THEN refuse ELSE w
    BY <1>5 DEF Ipv6State, nx, refuse
  <2>2. w \in SixStates(prefix)
    BY <1>1, <1>3 DEF SixStates
  <2>3. /\ w.v = Go /\ w.colons = st.colons + 1 /\ w.nums = st.nums /\ w.double = st.double
        /\ w.sp = i + 1 /\ w.state = IF nx = ":" THEN "double" ELSE "addr"
    BY DEF SixStates
  <2> HIDE DEF w, e
  <2>4. QED
    BY <1>4, <1>5, <2>1, <2>2, <2>3 DEF e, nx
<1>6. CASE st.state = "double"
  <2> DEFINE w == [st EXCEPT !.double = TRUE, !.nums = @ + 1, !.sp = i + 1,
                       !.colons = IF nx = End \/ (prefix /\ nx = "/") THEN @ ELSE @ + 1,
                       !.state = IF prefix /\ nx = "/" THEN "slash" ELSE "addr"]
  <2>1. e = IF st.double \/ nx = ":" THEN refuse ELSE w
    BY <1>6 DEF Ipv6State, Double, nx, refuse
  <2>2. w \in SixStates(prefix)
    BY <1>1, <1>3 DEF SixStates
  <2>3. /\ w.v = Go /\ w.nums = st.nums + 1 /\ w.double = TRUE /\ w.sp = i + 1
        /\ w.colons = (IF nx = End \/ (prefix /\ nx = "/") THEN st.colons ELSE st.colons + 1)
        /\ w.state = IF prefix /\ nx = "/" THEN "slash" ELSE "addr"
    BY DEF SixStates
  <2> HIDE DEF w, e
  <2>4. QED
    BY <1>4, <1>6, <2>1, <2>2, <2>3 DEF e, nx
<1>7. CASE st.state = "addr"
  <2> DEFINE w == [st EXCEPT !.nums = @ + 1, !.state = AfterGroup(nx), !.sp = IF prefix THEN i + 1 ELSE @]
  <2>1. e = Addr(s, st, i, prefix)
    BY <1>7 DEF Ipv6State
  <2>2. nx \notin Ends(prefix) => [st EXCEPT !.state = IF nx = "." THEN "dot" ELSE "addr"] = st
    BY <1>2, <1>7 DEF SixStates, Ends
  <2>3. nx \in Ends(prefix) =>
          (CASE nx = ":" -> "colon" [] nx = "." -> "dot" [] nx = "/" -> "slash" [] nx = End -> "colon") = AfterGroup(nx)
    BY <1>2 DEF AfterGroup, Ends, End
  <2>4. e = IF nx \notin Ends(prefix) THEN st ELSE IF TooLong(s, st, i, prefix) THEN refuse ELSE w
    BY <2>1, <2>2, <2>3 DEF Addr, nx, refuse, Ends, TooLong
  <2>5. nx \in Ends(prefix) => AfterGroup(nx) \in {"colon"} \cup IF prefix THEN {"dot", "slash"} ELSE {}
    BY <1>2 DEF AfterGroup, Ends
  <2>6. nx \in Ends(prefix) => w \in SixStates(prefix)
    BY <1>1, <1>3, <2>5 DEF SixStates
  <2>7. /\ w.v = Go /\ w.nums = st.nums + 1 /\ w.colons = st.colons /\ w.double = st.double
        /\ w.sp = (IF prefix THEN i + 1 ELSE st.sp) /\ w.state = AfterGroup(nx)
    BY DEF SixStates
  <2> HIDE DEF w, e
  <2>8. QED
    BY <1>4, <1>7, <2>4, <2>6, <2>7 DEF e, nx
<1>8. CASE st.state = "dot"
  <2>1. e = [st EXCEPT !.state = "addr"]
    BY <1>8 DEF Ipv6State
  <2> HIDE DEF e
  <2>2. e \in SixStates(prefix)
    BY <2>1 DEF SixStates
  <2>3. /\ e.v = Go /\ e.nums = st.nums /\ e.colons = st.colons /\ e.double = st.double
        /\ e.sp = st.sp /\ e.state = "addr"
    BY <2>1 DEF SixStates
  <2>4. QED
    BY <1>8, <2>2, <2>3 DEF e
<1>9. CASE st.state = "slash"
  <2> DEFINE w == [st EXCEPT !.state = "mask", !.sp = i + 1]
             part == [st EXCEPT !.v = Partly]
  <2>1. e = IF nx = End THEN part ELSE w
    BY <1>9 DEF Ipv6State, nx
  <2>2. prefix
    BY <1>9 DEF SixStates
  <2>3. w \in SixStates(prefix) /\ part \in SixStates(prefix)
    BY <1>1, <2>2 DEF SixStates
  <2>4. /\ part.v = Partly /\ part.sp = st.sp
        /\ w.v = Go /\ w.nums = st.nums /\ w.colons = st.colons /\ w.double = st.double
        /\ w.sp = i + 1 /\ w.state = "mask"
    BY DEF SixStates
  <2> HIDE DEF w, e, part
  <2>5. QED
    BY <1>9, <2>1, <2>3, <2>4 DEF e, nx
<1>10. CASE st.state = "mask"
  <2>1. e = st
    BY <1>10 DEF Ipv6State
  <2>2. QED
    BY <1>10, <2>1
<1>11. st.state \in {"addr", "colon", "double", "dot", "slash", "mask"}
  BY DEF SixStates
<1>12. QED
  BY <1>5, <1>6, <1>7, <1>8, <1>9, <1>10, <1>11

LEMMA LimitedIs ==
    ASSUME NEW prefix \in BOOLEAN, NEW e \in SixStates(prefix)
    PROVE  /\ Limited(e, prefix) \in SixStates(prefix) /\ Limited(e, prefix).sp = e.sp
           /\ IF e.v = Go /\ (e.nums > Most(prefix) \/ e.colons > 7)
              THEN Limited(e, prefix).v = No ELSE Limited(e, prefix) = e
  BY DEF Limited, SixStates, Most

LEMMA SixStepType ==
    ASSUME NEW s \in Word, NEW prefix \in BOOLEAN, Undotted(s, prefix),
           NEW st \in SixStates(prefix), NEW i \in 1 .. Len(s)
    PROVE  /\ Ipv6Step(s, st, i, prefix) \in SixStates(prefix)
           /\ Ipv6Step(s, st, i, prefix).sp \in {st.sp, i + 1}
<1>1. CASE st.v # Go
  BY <1>1 DEF Ipv6Step
<1>2. CASE st.v = Go
  <2> DEFINE e == Ipv6State(s, st, i, prefix)
  <2>1. e \in SixStates(prefix) /\ e.sp \in {st.sp, i + 1}
    BY <1>2, SixStateIs
  <2>2. Ipv6Step(s, st, i, prefix) = Limited(e, prefix)
    BY <1>2 DEF Ipv6Step
  <2> HIDE DEF e
  <2>3. QED
    BY <2>1, <2>2, LimitedIs
<1>3. QED
  BY <1>1, <1>2

LEMMA SixStartType ==
    ASSUME NEW s \in Word, NEW prefix \in BOOLEAN
    PROVE  LET st == Ipv6Start(s)
           IN  /\ st \in SixStates(prefix) /\ st.sp = 1 /\ st.nums = 0 /\ ~st.double
               /\ At(s, 1) # ":" => st.v = Go /\ st.state = "addr" /\ st.colons = 0
               /\ At(s, 1) = ":" /\ At(s, 2) \in {":", End} => st.v = Go /\ st.state = "colon" /\ st.colons = -1
               /\ At(s, 1) = ":" /\ At(s, 2) \notin {":", End} => st.v = No
<1> DEFINE init == [v |-> Go, state |-> "addr", colons |-> 0, nums |-> 0, double |-> FALSE, sp |-> 1]
           two  == [init EXCEPT !.state = "colon", !.colons = -1]
           bad  == [init EXCEPT !.v = No]
<1>1. Ipv6Start(s) = IF At(s, 1) # ":" THEN init ELSE IF At(s, 2) \in {":", End} THEN two ELSE bad
  BY DEF Ipv6Start
<1>2. /\ init \in SixStates(prefix) /\ init.sp = 1 /\ init.nums = 0 /\ ~init.double
      /\ init.v = Go /\ init.state = "addr" /\ init.colons = 0
  BY DEF SixStates
<1> HIDE DEF init
<1>3. /\ two \in SixStates(prefix) /\ two.sp = 1 /\ two.nums = 0 /\ ~two.double
      /\ two.v = Go /\ two.state = "colon" /\ two.colons = -1
  <2> DEFINE q == -1
  <2>1. q \in Int
    OBVIOUS
  <2> HIDE DEF q
  <2>2. \A e : e = [init EXCEPT !.state = "colon", !.colons = q] =>
           /\ e \in SixStates(prefix) /\ e.sp = 1 /\ e.nums = 0 /\ ~e.double
           /\ e.v = Go /\ e.state = "colon" /\ e.colons = q
    BY <1>2, <2>1 DEF SixStates
  <2>3. QED
    BY <2>2 DEF q
<1>4. bad \in SixStates(prefix) /\ bad.sp = 1 /\ bad.nums = 0 /\ ~bad.double /\ bad.v = No
  BY <1>2 DEF SixStates
<1> HIDE DEF two, bad
<1>5. QED
  BY <1>1, <1>2, <1>3, <1>4

LEMMA Ipv6ScanIs ==
    ASSUME NEW s \in Word, NEW prefix \in BOOLEAN, Undotted(s, prefix)
    PROVE  /\ Ipv6Scan(s, prefix) \in [0 .. Len(s) -> SixStates(prefix)] /\ Ipv6Scan(s, prefix)[0] = Ipv6Start(s)
           /\ \A i \in 1 .. Len(s) : Ipv6Scan(s, prefix)[i] = Ipv6Step(s, Ipv6Scan(s, prefix)[i - 1], i, prefix)
<1> DEFINE n == Len(s)
           S == SixStates(prefix)
           step == [i \in 1 .. n |-> [st \in S |-> Ipv6Step(s, st, i, prefix)]]
<1>1. n \in Nat
  BY WordIs
<1>2. step \in [1 .. n -> [S -> S]]
  BY SixStepType
<1>3. \E f \in [0 .. n -> S] : f[0] = Ipv6Start(s) /\ \A i \in 1 .. n : f[i] = step[i][f[i - 1]]
  <2>1. IsRecursion(n, S, Ipv6Start(s), step)
    BY <1>1, <1>2, SixStartType DEF IsRecursion
  <2> HIDE DEF n, step, S
  <2>2. QED
    BY <2>1, RecursionExists
<1>4. PICK f \in [0 .. n -> S] : f[0] = Ipv6Start(s) /\ \A i \in 1 .. n : f[i] = step[i][f[i - 1]]
  BY <1>3
<1>5. \A i \in 1 .. n : i \in 0 .. n /\ i - 1 \in 0 .. n /\ i # 0
  BY <1>1
<1> HIDE DEF S
<1>6. \A i \in 1 .. n : f[i] = Ipv6Step(s, f[i - 1], i, prefix)
  BY <1>4, <1>5
<1> HIDE DEF step
<1>7. f = [i \in 0 .. n |-> IF i = 0 THEN Ipv6Start(s) ELSE Ipv6Step(s, f[i - 1], i, prefix)]
  <2>1. \A i \in 0 .. n : f[i] = IF i = 0 THEN Ipv6Start(s) ELSE Ipv6Step(s, f[i - 1], i, prefix)
    BY <1>1, <1>4, <1>6
  <2>2. f = [i \in 0 .. n |-> f[i]]
    BY <1>4
  <2>3. QED
    BY <2>1, <2>2
<1> DEFINE g == CHOOSE g : g = [i \in 0 .. n |-> IF i = 0 THEN Ipv6Start(s) ELSE Ipv6Step(s, g[i - 1], i, prefix)]
<1>8. Ipv6Scan(s, prefix) = g
  BY DEF Ipv6Scan
<1>9. g = [i \in 0 .. n |-> IF i = 0 THEN Ipv6Start(s) ELSE Ipv6Step(s, g[i - 1], i, prefix)]
  BY <1>7
<1> HIDE DEF g
<1>10. /\ DOMAIN g = 0 .. n /\ g[0] = Ipv6Start(s)
       /\ \A i \in 1 .. n : g[i] = Ipv6Step(s, g[i - 1], i, prefix)
  BY <1>1, <1>5, <1>9
<1>11. \A i \in 0 .. n : g[i] = f[i]
  <2>1. SameSteps(g, f, n)
    BY <1>1, <1>4, <1>6, <1>10 DEF SameSteps
  <2> HIDE DEF n
  <2>2. QED
    BY <2>1, Agree
<1>12. g = [i \in 0 .. n |-> g[i]]
  BY <1>9
<1>13. g \in [0 .. n -> S]
  BY <1>4, <1>11, <1>12
<1>14. QED
  BY <1>8, <1>10, <1>13 DEF S

LEMMA Ipv6Begins ==
    ASSUME NEW s \in Word, NEW prefix \in BOOLEAN, Undotted(s, prefix)
    PROVE  \A i \in 0 .. Len(s) : Ipv6Scan(s, prefix)[i] \in SixStates(prefix) /\ Ipv6Scan(s, prefix)[i].sp <= i + 1
<1> DEFINE f == Ipv6Scan(s, prefix)
           n == Len(s)
           G == {i \in 0 .. n : f[i].sp <= i + 1}
<1>1. /\ n \in Nat /\ f \in [0 .. n -> SixStates(prefix)] /\ f[0] = Ipv6Start(s)
      /\ \A i \in 1 .. n : f[i] = Ipv6Step(s, f[i - 1], i, prefix)
  BY WordIs, Ipv6ScanIs
<1> HIDE DEF f
<1>2. 0 \in G
  BY <1>1, SixStartType
<1>3. ASSUME NEW i \in 0 .. n - 1, i \in G PROVE i + 1 \in G
  <2>1. i + 1 \in 1 .. n /\ i + 1 \in 0 .. n /\ i \in 0 .. n /\ (i + 1) - 1 = i
    BY <1>1
  <2>2. f[i + 1] = Ipv6Step(s, f[i], i + 1, prefix) /\ f[i] \in SixStates(prefix)
    BY <1>1, <2>1
  <2>3. f[i + 1].sp \in {f[i].sp, i + 1 + 1}
    BY <2>1, <2>2, SixStepType
  <2>4. f[i].sp \in Nat
    BY <2>2 DEF SixStates
  <2>5. QED
    BY <1>3, <2>1, <2>3, <2>4
<1> HIDE DEF G
<1>4. 0 .. n \subseteq G
  BY <1>1, <1>2, <1>3, UpTo
<1>5. QED
  BY <1>1, <1>4 DEF G, f

-----------------------------------------------------------------------------
(* IPv6: a refusal is final *)

LEMMA Ipv6Same ==
    ASSUME NEW s \in Word, NEW prefix \in BOOLEAN, Undotted(s, prefix), NEW k \in 1 .. Len(s),
           Ipv6Start(SubSeq(s, 1, k)) = Ipv6Start(s)
    PROVE  /\ Undotted(SubSeq(s, 1, k), prefix)
           /\ Ipv6Scan(SubSeq(s, 1, k), prefix)[k - 1] = Ipv6Scan(s, prefix)[k - 1]
<1> DEFINE p == SubSeq(s, 1, k)
           f == Ipv6Scan(s, prefix)
           g == Ipv6Scan(p, prefix)
           m == k - 1
<1>1. /\ Len(s) \in Nat /\ k \in 0 .. Len(s) /\ k \in Nat /\ m \in Nat /\ m \in 0 .. m
      /\ \A i \in 1 .. k : i \in 1 .. Len(s)
      /\ \A i \in 1 .. m : i \in 1 .. k /\ i + 1 \in 1 .. k /\ i \in 1 .. Len(s) /\ i - 1 \in 0 .. k
                           /\ i - 1 \in 0 .. Len(s) /\ i \in 0 .. k
  BY WordIs
<1>2. p \in Word /\ Len(p) = k /\ \A i \in 1 .. k : p[i] = s[i]
  BY <1>1, BeginningIs
<1>3. Undotted(p, prefix)
  BY <1>1, <1>2 DEF Undotted
<1>4. /\ f[0] = Ipv6Start(s) /\ f \in [0 .. Len(s) -> SixStates(prefix)]
      /\ \A i \in 1 .. m : f[i] = Ipv6Step(s, f[i - 1], i, prefix)
  BY <1>1, Ipv6ScanIs
<1>5. g[0] = Ipv6Start(s) /\ \A i \in 1 .. m : g[i] = Ipv6Step(p, g[i - 1], i, prefix)
  BY <1>1, <1>2, <1>3, Ipv6ScanIs
<1> HIDE DEF f, g
<1>6. ASSUME NEW i \in 1 .. m, NEW st \in SixStates(prefix)
      PROVE  Ipv6Step(p, st, i, prefix) = Ipv6Step(s, st, i, prefix)
  <2>1. At(p, i + 1) = At(s, i + 1)
    BY <1>1, BeginningIs
  <2>2. SubSeq(p, st.sp, i) = SubSeq(s, st.sp, i)
    <3>1. st.sp \in Nat \ {0}
      BY DEF SixStates
    <3>2. QED
      BY <1>1, <3>1, BeginningIs
  <2> HIDE DEF p, m
  <2>3. Addr(p, st, i, prefix) = Addr(s, st, i, prefix)
    <3> DEFINE ends == {":", End} \cup IF prefix THEN {".", "/"} ELSE {}
               A(nx, w) ==
                 IF nx \notin ends THEN [st EXCEPT !.state = IF nx = "." THEN "dot" ELSE "addr"]
                 ELSE IF i - st.sp > 3 \/ (prefix /\ "/" \in ToSet(w)) THEN [st EXCEPT !.v = No]
                 ELSE [st EXCEPT !.nums = @ + 1,
                                 !.state = CASE nx = ":" -> "colon" [] nx = "." -> "dot" [] nx = "/" -> "slash" [] nx = End -> "colon",
                                 !.sp = IF prefix THEN i + 1 ELSE @]
    <3>1. Addr(p, st, i, prefix) = A(At(p, i + 1), SubSeq(p, st.sp, i))
      BY DEF Addr
    <3>2. Addr(s, st, i, prefix) = A(At(s, i + 1), SubSeq(s, st.sp, i))
      BY DEF Addr
    <3> HIDE DEF A
    <3>3. QED
      BY <2>1, <2>2, <3>1, <3>2
  <2>4. Double(p, st, i, prefix) = Double(s, st, i, prefix)
    BY <2>1 DEF Double
  <2>5. Ipv6State(p, st, i, prefix) = Ipv6State(s, st, i, prefix)
    BY <2>1, <2>3, <2>4 DEF Ipv6State
  <2>6. QED
    BY <2>5 DEF Ipv6Step
<1>7. \A i \in 1 .. m : f[i - 1] = g[i - 1] => f[i] = g[i]
  BY <1>1, <1>4, <1>5, <1>6
<1>8. SameSteps(f, g, m)
  BY <1>1, <1>4, <1>5, <1>7 DEF SameSteps
<1> HIDE DEF m
<1>9. f[m] = g[m]
  BY <1>1, <1>8, Agree
<1>10. QED
  BY <1>3, <1>9 DEF m, f, g, p

LEMMA TooLongStays ==
    ASSUME NEW s \in Word, NEW prefix \in BOOLEAN, NEW st \in SixStates(prefix), NEW j \in 0 .. Len(s) - 1,
           TooLong(s, st, j, prefix)
    PROVE  TooLong(s, st, j + 1, prefix)
<1> DEFINE a == st.sp
<1>1. a \in Nat \ {0} /\ Len(s) \in Nat /\ j \in Nat /\ j \in 0 .. Len(s) /\ j + 1 \in 0 .. Len(s)
  BY WordIs DEF SixStates
<1>2. CASE j - a > 3
  BY <1>1, <1>2 DEF TooLong
<1>3. CASE prefix /\ "/" \in ToSet(SubSeq(s, a, j))
  <2> HIDE DEF a
  <2>1. /\ SubSeq(s, a, j) \in Word /\ SubSeq(s, a, j + 1) \in Word
        /\ Len(SubSeq(s, a, j)) = (IF a <= j THEN j - a + 1 ELSE 0)
        /\ Len(SubSeq(s, a, j + 1)) = (IF a <= j + 1 THEN j + 1 - a + 1 ELSE 0)
        /\ \A i \in 1 .. Len(SubSeq(s, a, j)) : SubSeq(s, a, j)[i] = s[a + i - 1]
        /\ \A i \in 1 .. Len(SubSeq(s, a, j + 1)) : SubSeq(s, a, j + 1)[i] = s[a + i - 1]
    BY <1>1, PartIs
  <2> DEFINE u == SubSeq(s, a, j)
             w == SubSeq(s, a, j + 1)
  <2>2. u \in Seq(Alphabet) /\ w \in Seq(Alphabet)
    BY <2>1 DEF Word
  <2> HIDE DEF u, w
  <2>3. PICK i \in 1 .. Len(u) : u[i] = "/"
    <3>1. \A x : x \in ToSet(u) <=> \E i \in 1 .. Len(u) : u[i] = x
      BY <2>2, InToSet
    <3>2. QED
      BY <1>3, <3>1 DEF u
  <2>4. i \in 1 .. Len(w) /\ w[i] = "/"
    <3>1. i \in 1 .. Len(w)
      BY <1>1, <2>1 DEF u, w
    <3>2. QED
      BY <2>1, <2>3, <3>1 DEF u, w
  <2>5. "/" \in ToSet(SubSeq(s, a, j + 1))
    BY <2>2, <2>4, InToSet DEF w
  <2>6. QED
    BY <1>3, <2>5 DEF TooLong, a
<1>4. QED
  BY <1>2, <1>3 DEF TooLong

(* A mask that is not one. *)
BadMask(s, st, j) ==
    ~(AllDigits(SubSeq(s, st.sp, j)) /\ Number(SubSeq(s, st.sp, j)) <= 128)

LEMMA BadMaskStays ==
    ASSUME NEW s \in Word, NEW st, st.sp \in Nat \ {0}, NEW j \in 0 .. Len(s) - 1, st.sp <= j + 1, BadMask(s, st, j)
    PROVE  BadMask(s, st, j + 1)
<1> DEFINE a == st.sp
           u == SubSeq(s, a, j)
           w == SubSeq(s, a, j + 1)
<1>1. a \in Nat \ {0} /\ Len(s) \in Nat /\ j \in Nat /\ j \in 0 .. Len(s) /\ j + 1 \in 0 .. Len(s) /\ a <= j + 1
  BY WordIs
<1> HIDE DEF a
<1>2. /\ u \in Word /\ w \in Word /\ Len(u) = j - a + 1 /\ Len(w) = j + 1 - a + 1
      /\ \A i \in 1 .. Len(u) : u[i] = s[a + i - 1]
      /\ \A i \in 1 .. Len(w) : w[i] = s[a + i - 1]
  BY <1>1, PartIs
<1>3. DOMAIN u = 1 .. Len(u) /\ DOMAIN w = 1 .. Len(w)
  BY <1>2, WordIs
<1>4. \A i \in 1 .. Len(u) : i \in 1 .. Len(w) /\ w[i] = u[i]
  BY <1>1, <1>2
<1>5. Len(w) \in 1 .. Len(w) /\ w[Len(w)] = s[j + 1]
  <2>1. Len(w) \in 1 .. Len(w) /\ a + Len(w) - 1 = j + 1
    BY <1>1, <1>2
  <2>2. QED
    BY <1>2, <2>1
<1>6. AllDigits(w) => AllDigits(u) /\ IsDigit(s[j + 1])
  BY <1>3, <1>4, <1>5 DEF AllDigits
<1>7. CASE AllDigits(w)
  <2>1. /\ Number(u) \in Int /\ Number(w) \in Int
        /\ Number(u) >= 0 => Number(w) >= Number(u)
    BY <1>1, <1>6, <1>7, LongerNumber
  <2>2. ~(Number(u) <= 128)
    BY <1>6, <1>7 DEF BadMask, a
  <2> HIDE DEF u, w
  <2>3. PICK x \in Int, y \in Int : x = Number(u) /\ y = Number(w) /\ (x >= 0 => y >= x) /\ ~(x <= 128)
    BY <2>1, <2>2
  <2>4. ~(y <= 128)
    BY <2>3
  <2>5. QED
    BY <2>3, <2>4 DEF BadMask, a, w
<1>8. QED
  BY <1>7 DEF BadMask, a

(* Nothing can come of the word any more. *)
SixDead(s, st, j, prefix) ==
    \/ st.v # Go
    \/ /\ st.state = "addr" /\ At(s, j + 1) \notin Ends(prefix)
       /\ TooLong(s, st, j, prefix) \/ st.nums >= Most(prefix)
    \/ st.state = "mask" /\ BadMask(s, st, j)

LEMMA SixDeadStays ==
    ASSUME NEW s \in Word, NEW prefix \in BOOLEAN, Undotted(s, prefix), NEW st \in SixStates(prefix),
           NEW j \in 0 .. Len(s) - 1, st.sp <= j + 1, SixDead(s, st, j, prefix)
    PROVE  SixDead(s, Ipv6Step(s, st, j + 1, prefix), j + 1, prefix)
<1> DEFINE i == j + 1
           e == Ipv6State(s, st, i, prefix)
<1>1. Len(s) \in Nat /\ i \in 1 .. Len(s) /\ j + 1 = i
  BY WordIs
<1>2. CASE st.v # Go
  BY <1>2 DEF Ipv6Step, SixDead
<1>3. CASE st.v = Go
  <2> DEFINE d == Ipv6Step(s, st, i, prefix)
  <2>1. d = Limited(e, prefix)
    BY <1>3 DEF Ipv6Step
  <2>2. e \in SixStates(prefix) /\ SteppedTo(s, st, i, prefix, e)
    BY <1>1, <1>3, SixStateIs
  <2>3. st.sp \in Nat \ {0} /\ st.nums \in Nat /\ Most(prefix) \in Nat
    BY DEF SixStates, Most
  <2> HIDE DEF e, d, i
  <2>4. IF e.v = Go /\ (e.nums > Most(prefix) \/ e.colons > 7) THEN d.v = No ELSE d = e
    BY <2>1, <2>2, LimitedIs
  <2>5. CASE st.state = "addr" /\ (TooLong(s, st, j, prefix) \/ st.nums >= Most(prefix))
    <3>1. TooLong(s, st, j, prefix) => TooLong(s, st, i, prefix)
      BY <1>1, TooLongStays
    <3>2. CASE At(s, i + 1) \notin Ends(prefix)
      <4>1. e = st
        BY <2>2, <2>5, <3>2 DEF SteppedTo
      <4>2. QED
        BY <2>4, <2>5, <3>1, <3>2, <4>1, GoIsNot DEF SixDead, d, i
    <3>3. CASE At(s, i + 1) \in Ends(prefix)
      <4>1. e.v = No \/ (e.v = Go /\ e.nums > Most(prefix))
        BY <2>2, <2>3, <2>5, <3>1, <3>3 DEF SteppedTo
      <4>2. d.v = No
        BY <2>4, <4>1, GoIsNot
      <4>3. QED
        BY <4>2, GoIsNot DEF SixDead, d, i
    <3>4. QED
      BY <3>2, <3>3
  <2>6. CASE st.state = "mask" /\ BadMask(s, st, j)
    <3>1. e = st
      BY <2>2, <2>6 DEF SteppedTo
    <3>2. BadMask(s, st, i)
      BY <1>1, <2>3, <2>6, BadMaskStays
    <3>3. QED
      BY <2>4, <2>6, <3>1, <3>2, GoIsNot DEF SixDead, d, i
  <2>7. QED
    BY <1>3, <2>5, <2>6 DEF SixDead
<1>4. QED
  BY <1>2, <1>3

LEMMA SixDeadAtEnd ==
    ASSUME NEW s \in Word, NEW prefix \in BOOLEAN, Undotted(s, prefix), NEW k \in 0 .. Len(s),
           SixDead(s, Ipv6Scan(s, prefix)[k], k, prefix)
    PROVE  LET st == Ipv6Scan(s, prefix)[Len(s)]
           IN  st \in SixStates(prefix) /\ (st.v # Go \/ (st.state = "mask" /\ BadMask(s, st, Len(s))))
<1> DEFINE n == Len(s)
           f == Ipv6Scan(s, prefix)
           G == {j \in k .. n : SixDead(s, f[j], j, prefix)}
<1>1. /\ n \in Nat /\ k \in Nat /\ k <= n
      /\ \A j \in k .. n - 1 : j \in 0 .. n /\ j \in 0 .. n - 1 /\ j + 1 \in 1 .. n /\ j + 1 \in k .. n /\ (j + 1) - 1 = j
  BY WordIs
<1>2. \A j \in 1 .. n : f[j] = Ipv6Step(s, f[j - 1], j, prefix)
  BY Ipv6ScanIs
<1>3. \A j \in 0 .. n : f[j] \in SixStates(prefix) /\ f[j].sp <= j + 1
  BY Ipv6Begins
<1>4. k \in G
  BY <1>1
<1> HIDE DEF f
<1>5. ASSUME NEW j \in k .. n - 1, j \in G PROVE j + 1 \in G
  <2>1. f[j + 1] = Ipv6Step(s, f[j], j + 1, prefix) /\ f[j] \in SixStates(prefix) /\ f[j].sp <= j + 1
    BY <1>1, <1>2, <1>3
  <2>2. SixDead(s, f[j + 1], j + 1, prefix)
    BY <1>1, <1>5, <2>1, SixDeadStays
  <2>3. QED
    BY <1>1, <2>2
<1> HIDE DEF G
<1>6. k .. n \subseteq G
  <2> HIDE DEF n
  <2>1. QED
    BY <1>1, <1>4, <1>5, From
<1>7. n \in G /\ f[n] \in SixStates(prefix)
  BY <1>1, <1>3, <1>6
<1>8. At(s, n + 1) = End /\ End \in Ends(prefix)
  BY <1>1, WordIs DEF Ends
<1>9. QED
  BY <1>7, <1>8 DEF G, SixDead, f

(* What refuses the beginning refuses the word, or dooms it. *)
LEMMA SixRefused ==
    ASSUME NEW s \in Word, NEW p \in Word, NEW prefix \in BOOLEAN, Undotted(s, prefix), Undotted(p, prefix),
           NEW k \in 1 .. Len(s), Len(p) = k, At(p, k + 1) = End,
           NEW st \in SixStates(prefix), SubSeq(p, st.sp, k) = SubSeq(s, st.sp, k),
           Ipv6Step(p, st, k, prefix).v = No
             \/ (Ipv6Step(p, st, k, prefix).state = "mask" /\ BadMask(p, Ipv6Step(p, st, k, prefix), k)
                 /\ Ipv6Step(p, st, k, prefix).v = Go)
    PROVE  SixDead(s, Ipv6Step(s, st, k, prefix), k, prefix)
<1>1. CASE st.v # Go
  BY <1>1 DEF Ipv6Step, SixDead
<1>2. CASE st.v = Go
  <2> DEFINE ep == Ipv6State(p, st, k, prefix)
             es == Ipv6State(s, st, k, prefix)
             dp == Ipv6Step(p, st, k, prefix)
             ds == Ipv6Step(s, st, k, prefix)
             nx == At(s, k + 1)
  <2>1. dp = Limited(ep, prefix) /\ ds = Limited(es, prefix)
    BY <1>2 DEF Ipv6Step
  <2>2. /\ ep \in SixStates(prefix) /\ SteppedTo(p, st, k, prefix, ep)
        /\ es \in SixStates(prefix) /\ SteppedTo(s, st, k, prefix, es)
    <3>1. k \in 1 .. Len(p)
      BY WordIs
    <3>2. QED
      BY <1>2, <3>1, SixStateIs
  <2>3. /\ st.sp \in Nat \ {0} /\ st.nums \in Nat /\ st.colons \in Int /\ st.double \in BOOLEAN
        /\ Most(prefix) \in Nat /\ k \in Nat
        /\ st.state \in {"addr", "colon", "double", "dot", "slash", "mask"}
    BY WordIs DEF SixStates, Most
  <2>4. /\ nx \in Alphabet \cup {End} /\ End \in Ends(prefix) /\ End \notin {":", ".", "/"}
        /\ TooLong(p, st, k, prefix) = TooLong(s, st, k, prefix)
        /\ BadMask(p, st, k) = BadMask(s, st, k)
    <3>1. k + 1 \in Int
      BY WordIs
    <3>2. QED
      BY <3>1, WordIs DEF Ends, End, TooLong, BadMask
  <2>5. dp.v = No \/ (dp.state = "mask" /\ BadMask(p, dp, k) /\ dp.v = Go)
    OBVIOUS
  <2>6. SUFFICES SixDead(s, ds, k, prefix)
    OBVIOUS
  <2> HIDE DEF ep, es, dp, ds, nx
  <2>7. /\ IF ep.v = Go /\ (ep.nums > Most(prefix) \/ ep.colons > 7) THEN dp.v = No ELSE dp = ep
        /\ IF es.v = Go /\ (es.nums > Most(prefix) \/ es.colons > 7) THEN ds.v = No ELSE ds = es
    BY <2>1, <2>2, LimitedIs
  <2>8. CASE st.state = "colon"
    <3>1. /\ ep.v = Go /\ ep.colons = st.colons + 1 /\ ep.nums = st.nums /\ ep.state = "addr"
      BY <2>2, <2>4, <2>8 DEF SteppedTo
    <3>2. es.v = No \/ (es.v = Go /\ es.colons = st.colons + 1 /\ es.nums = st.nums)
      BY <2>2, <2>8 DEF SteppedTo
    <3>3. ep.nums > Most(prefix) \/ ep.colons > 7
      BY <2>5, <2>7, <3>1, GoIsNot
    <3>4. ds.v = No
      BY <2>7, <3>1, <3>2, <3>3, GoIsNot
    <3>5. QED
      BY <3>4, GoIsNot DEF SixDead
  <2>9. CASE st.state = "double"
    <3>1. IF st.double THEN ep.v = No
          ELSE ep.v = Go /\ ep.nums = st.nums + 1 /\ ep.colons = st.colons /\ ep.state = "addr"
      BY <2>2, <2>4, <2>9 DEF SteppedTo
    <3>2. IF st.double \/ nx = ":" THEN es.v = No
          ELSE es.v = Go /\ es.nums = st.nums + 1 /\ es.colons \in {st.colons, st.colons + 1}
      BY <2>2, <2>9 DEF SteppedTo, nx
    <3>3. st.double \/ ep.nums > Most(prefix) \/ ep.colons > 7
      BY <2>5, <2>7, <3>1, GoIsNot
    <3>4. es.v = No \/ (es.v = Go /\ (es.nums > Most(prefix) \/ es.colons > 7))
      BY <2>3, <3>1, <3>2, <3>3
    <3>5. ds.v = No
      BY <2>7, <3>4, GoIsNot
    <3>6. QED
      BY <3>5, GoIsNot DEF SixDead
  <2>10. CASE st.state = "addr"
    <3>1. IF TooLong(s, st, k, prefix) THEN ep.v = No
          ELSE ep.v = Go /\ ep.nums = st.nums + 1 /\ ep.colons = st.colons /\ ep.state = "colon"
      BY <2>2, <2>4, <2>10 DEF SteppedTo, AfterGroup
    <3>2. IF nx \notin Ends(prefix) THEN es = st
          ELSE IF TooLong(s, st, k, prefix) THEN es.v = No
          ELSE es.v = Go /\ es.nums = st.nums + 1 /\ es.colons = st.colons
      BY <2>2, <2>10 DEF SteppedTo, nx
    <3>3. TooLong(s, st, k, prefix) \/ st.nums + 1 > Most(prefix) \/ st.colons > 7
      BY <2>5, <2>7, <3>1, GoIsNot
    <3>4. CASE nx \in Ends(prefix)
      <4>1. es.v = No \/ (es.v = Go /\ (es.nums > Most(prefix) \/ es.colons > 7))
        BY <3>2, <3>3, <3>4
      <4>2. ds.v = No
        BY <2>7, <4>1, GoIsNot
      <4>3. QED
        BY <4>2, GoIsNot DEF SixDead
    <3>5. CASE nx \notin Ends(prefix)
      <4>1. es = st
        BY <3>2, <3>5
      <4>2. ds.v = No \/ (ds = st /\ (TooLong(s, st, k, prefix) \/ st.nums >= Most(prefix)))
        BY <1>2, <2>3, <2>7, <3>3, <4>1
      <4>3. QED
        BY <2>10, <3>5, <4>2, GoIsNot DEF SixDead, nx
    <3>6. QED
      BY <3>4, <3>5
  <2>11. CASE st.state = "dot"
    <3>1. /\ ep.v = Go /\ ep.nums = st.nums /\ ep.colons = st.colons /\ ep.state = "addr"
          /\ es.v = Go /\ es.nums = st.nums /\ es.colons = st.colons
      BY <2>2, <2>11 DEF SteppedTo
    <3>2. ds.v = No
      BY <2>5, <2>7, <3>1, GoIsNot
    <3>3. QED
      BY <3>2, GoIsNot DEF SixDead
  <2>12. CASE st.state = "slash"
    <3>1. ep.v = Partly
      BY <2>2, <2>12 DEF SteppedTo
    <3>2. FALSE
      BY <2>5, <2>7, <3>1, GoIsNot
    <3>3. QED
      BY <3>2
  <2>13. CASE st.state = "mask"
    <3>1. ep = st /\ es = st
      BY <2>2, <2>13 DEF SteppedTo
    <3>2. ds.v = No \/ (ds = st /\ BadMask(s, st, k))
      BY <1>2, <2>4, <2>5, <2>7, <3>1, GoIsNot
    <3>3. QED
      BY <2>13, <3>2, GoIsNot DEF SixDead
  <2>14. QED
    BY <2>3, <2>8, <2>9, <2>10, <2>11, <2>12, <2>13
<1>3. QED
  BY <1>1, <1>2

(* Whether a scan ends in a refusal. *)
SixNo(s, prefix) ==
    LET st == Ipv6Scan(s, prefix)[Len(s)]
    IN  st.v = No \/ (st.v = Go /\ st.state = "mask" /\ BadMask(s, st, Len(s)))

LEMMA SixNoForGood ==
    ASSUME NEW s \in Word, NEW prefix \in BOOLEAN, Undotted(s, prefix), NEW k \in 0 .. Len(s),
           SixNo(SubSeq(s, 1, k), prefix)
    PROVE  LET st == Ipv6Scan(s, prefix)[Len(s)]
           IN  st \in SixStates(prefix) /\ (st.v # Go \/ (st.state = "mask" /\ BadMask(s, st, Len(s))))
<1> DEFINE p == SubSeq(s, 1, k)
<1>1. p \in Word /\ Len(p) = k /\ k \in Nat /\ Len(s) \in Nat /\ \A i \in 1 .. k : p[i] = s[i] /\ At(p, i) = At(s, i)
  BY BeginningIs, WordIs
<1>2. /\ \A i \in Int : i \notin 1 .. k => At(p, i) = End
      /\ Undotted(p, prefix)
  <2> HIDE DEF p
  <2>1. \A i \in Int : i \notin 1 .. k => At(p, i) = End
    BY <1>1, WordIs
  <2>2. \A i \in 1 .. k : i \in 1 .. Len(s)
    BY <1>1
  <2>3. Undotted(p, prefix)
    BY <1>1, <2>2 DEF Undotted
  <2>4. QED
    BY <2>1, <2>3
<1>3. SixNo(p, prefix)
  OBVIOUS
<1> DEFINE f == Ipv6Scan(s, prefix)
           g == Ipv6Scan(p, prefix)
<1>4. g[0] = Ipv6Start(p) /\ \A i \in 1 .. k : g[i] = Ipv6Step(p, g[i - 1], i, prefix)
  <2> HIDE DEF p
  <2>1. QED
    BY <1>1, <1>2, Ipv6ScanIs
<1>5. SixNo(p, prefix) <=> g[k].v = No \/ (g[k].v = Go /\ g[k].state = "mask" /\ BadMask(p, g[k], k))
  BY <1>1 DEF SixNo
<1> HIDE DEF g, p
<1>6. k # 0
  <2>1. SUFFICES ASSUME k = 0 PROVE FALSE
    OBVIOUS
  <2>2. At(p, 1) = End
    BY <1>2, <2>1
  <2>3. g[k].v = Go /\ g[k].state = "addr"
    BY <1>1, <1>4, <2>1, <2>2, SixStartType DEF End
  <2>4. QED
    BY <1>3, <1>5, <2>3, GoIsNot
<1>7. ~(k = 1 /\ At(s, 1) = ":")
  <2>1. SUFFICES ASSUME k = 1, At(s, 1) = ":" PROVE FALSE
    OBVIOUS
  <2>2. At(p, 1) = ":" /\ At(p, 2) = End
    BY <1>1, <1>2, <2>1
  <2>3. /\ g[0] \in SixStates(prefix) /\ g[0].v = Go /\ g[0].state = "colon" /\ g[0].colons = -1 /\ g[0].nums = 0
    BY <1>1, <1>4, <2>2, SixStartType
  <2> DEFINE e == Ipv6State(p, g[0], 1, prefix)
  <2>4. g[1] = Limited(e, prefix)
    BY <1>4, <2>1, <2>3 DEF Ipv6Step
  <2>5. e \in SixStates(prefix) /\ SteppedTo(p, g[0], 1, prefix, e)
    <3>1. 1 \in 1 .. Len(p)
      BY <1>1, <2>1
    <3>2. QED
      BY <1>1, <1>2, <2>3, <3>1, SixStateIs
  <2> HIDE DEF e
  <2>6. e.v = Go /\ e.colons = 0 /\ e.nums = 0 /\ e.state = "addr"
    BY <2>2, <2>3, <2>5 DEF SteppedTo, End
  <2>7. g[1] = e
    BY <2>4, <2>5, <2>6, LimitedIs DEF Most
  <2>8. QED
    BY <1>3, <1>5, <2>1, <2>6, <2>7, GoIsNot
<1>8. k \in 1 .. Len(s) /\ k - 1 \in 0 .. Len(s) /\ k \in 1 .. k /\ 1 \in 1 .. k /\ k \in 0 .. k
  BY <1>1, <1>6
<1>9. Ipv6Start(p) = Ipv6Start(s)
  <2>1. At(p, 1) = At(s, 1)
    BY <1>1, <1>8
  <2>2. At(s, 1) = ":" => At(p, 2) = At(s, 2)
    BY <1>1, <1>6, <1>7
  <2>3. QED
    BY <2>1, <2>2 DEF Ipv6Start
<1> DEFINE st == f[k - 1]
<1>10. g[k - 1] = st
  BY <1>8, <1>9, Ipv6Same DEF g, p
<1>11. /\ st \in SixStates(prefix) /\ f[k] = Ipv6Step(s, st, k, prefix)
  BY <1>8, Ipv6ScanIs
<1>12. g[k] = Ipv6Step(p, st, k, prefix)
  BY <1>4, <1>8, <1>10
<1> HIDE DEF st
<1>13. SubSeq(p, st.sp, k) = SubSeq(s, st.sp, k)
  <2>1. st.sp \in Nat \ {0}
    BY <1>11 DEF SixStates
  <2>2. QED
    BY <1>8, <2>1, BeginningIs DEF p
<1>14. At(p, k + 1) = End
  BY <1>1, <1>2
<1>15. SixDead(s, f[k], k, prefix)
  BY <1>1, <1>2, <1>3, <1>5, <1>8, <1>11, <1>12, <1>13, <1>14, SixRefused
<1>16. QED
  BY <1>15, SixDeadAtEnd

LEMMA CharsOfBeginning ==
    ASSUME NEW s \in Word, NEW prefix \in BOOLEAN, NEW k \in 0 .. Len(s), Ipv6Chars(s, prefix)
    PROVE  Ipv6Chars(SubSeq(s, 1, k), prefix)
<1> DEFINE p == SubSeq(s, 1, k)
<1>1. p \in Word /\ Len(p) = k /\ k \in Nat /\ Len(s) \in Nat /\ \A i \in 1 .. k : p[i] = s[i]
  BY BeginningIs, WordIs
<1> HIDE DEF p
<1>2. DOMAIN p = 1 .. k /\ DOMAIN s = 1 .. Len(s) /\ \A i \in 1 .. k : i \in 1 .. Len(s)
  BY <1>1, WordIs
<1>3. Ipv6Chars(p, prefix)
  BY <1>1, <1>2 DEF Ipv6Chars
<1>4. QED
  BY <1>3 DEF p

LEMMA Ipv6Refused ==
    ASSUME NEW s \in Word, NEW k \in 0 .. Len(s), \A i \in 1 .. Len(s) : s[i] # ".",
           Ipv6(SubSeq(s, 1, k)) = No
    PROVE  Ipv6(s) # Exact
<1> SUFFICES ASSUME Ipv6(s) = Exact PROVE FALSE
  OBVIOUS
<1> DEFINE p == SubSeq(s, 1, k)
<1>1. Ipv6Chars(s, FALSE) /\ Ipv6Scan(s, FALSE)[Len(s)].v = Go
  BY GoIsNot DEF Ipv6
<1>2. Ipv6Chars(p, FALSE)
  BY <1>1, CharsOfBeginning
<1>3. Undotted(s, FALSE)
  BY DEF Undotted
<1>4. p \in Word /\ Len(p) = k /\ k \in Nat /\ \A i \in 1 .. k : p[i] = s[i]
  BY BeginningIs
<1>5. Ipv6Scan(p, FALSE)[Len(p)].v # Go
  BY <1>2, GoIsNot DEF Ipv6
<1> HIDE DEF p
<1>6. Undotted(p, FALSE)
  <2>1. \A i \in 1 .. k : i \in 1 .. Len(s)
    BY WordIs
  <2>2. QED
    BY <1>4, <2>1 DEF Undotted
<1>7. Ipv6Scan(p, FALSE)[Len(p)] \in SixStates(FALSE)
  <2>1. Len(p) \in 0 .. Len(p)
    BY <1>4
  <2>2. QED
    BY <1>4, <1>6, <2>1, Ipv6ScanIs
<1>8. SixNo(p, FALSE)
  BY <1>5, <1>7 DEF SixNo, SixStates
<1>9. LET st == Ipv6Scan(s, FALSE)[Len(s)]
      IN  st \in SixStates(FALSE) /\ (st.v # Go \/ (st.state = "mask" /\ BadMask(s, st, Len(s))))
  BY <1>3, <1>8, SixNoForGood DEF p
<1>10. QED
  BY <1>1, <1>9 DEF SixStates

LEMMA Ipv6PrefixRefused ==
    ASSUME NEW s \in Word, NEW k \in 0 .. Len(s), Ipv6Prefix(SubSeq(s, 1, k)) = No
    PROVE  Ipv6Prefix(s) # Exact
<1> SUFFICES ASSUME Ipv6Prefix(s) = Exact PROVE FALSE
  OBVIOUS
<1> DEFINE p == SubSeq(s, 1, k)
           st == Ipv6Scan(s, TRUE)[Len(s)]
           sp == Ipv6Scan(p, TRUE)[Len(p)]
<1>1. Ipv6Chars(s, TRUE) /\ st.v \in {Go, Exact} /\ (st.v = Go => st.state = "mask" /\ ~BadMask(s, st, Len(s)))
  BY GoIsNot DEF Ipv6Prefix, BadMask
<1>2. Ipv6Chars(p, TRUE)
  BY <1>1, CharsOfBeginning
<1>3. Undotted(s, TRUE)
  BY DEF Undotted
<1>4. SixNo(p, TRUE)
  BY <1>2, GoIsNot DEF Ipv6Prefix, SixNo, BadMask
<1>5. st \in SixStates(TRUE) /\ (st.v # Go \/ (st.state = "mask" /\ BadMask(s, st, Len(s))))
  BY <1>3, <1>4, SixNoForGood
<1>6. QED
  BY <1>1, <1>5, GoIsNot DEF SixStates

(* What was refused once is not accepted when more is typed. *)
LEMMA NotAcceptedLater ==
    ASSUME NEW s \in Word, NEW k \in 0 .. Len(s), NEW kind \in {"ipv4", "ipv4 prefix", "ipv6", "ipv6 prefix"},
           kind = "ipv6" => \A i \in 1 .. Len(s) : s[i] # ".",
           Verdict(kind, SubSeq(s, 1, k)) = No
    PROVE  Verdict(kind, s) # Exact
<1>1. CASE kind = "ipv4"
  BY <1>1, Ipv4Refused DEF Verdict
<1>2. CASE kind = "ipv4 prefix"
  BY <1>2, PrefixRefused DEF Verdict
<1>3. CASE kind = "ipv6"
  BY <1>3, Ipv6Refused DEF Verdict
<1>4. CASE kind = "ipv6 prefix"
  BY <1>4, Ipv6PrefixRefused DEF Verdict
<1>5. QED
  BY <1>1, <1>2, <1>3, <1>4

-----------------------------------------------------------------------------
(* The user *)

(* refused is because of a beginning of the word, and the word without a   *)
(* slip is a beginning of the one that is meant.                           *)
TypingInv ==
    /\ goal \in Goals /\ typed \in Word /\ slips \in Nat
    /\ place \in 1 .. Len(goal.word) + 1
    /\ refused \in BOOLEAN
    /\ refused => \E k \in 0 .. Len(typed) : Verdict(goal.kind, SubSeq(typed, 1, k)) = No
    /\ slips = 0 => typed = SubSeq(goal.word, 1, place - 1)

LEMMA GoalIs ==
    ASSUME NEW g \in Goals
    PROVE  g.kind \in MatcherKinds /\ g.word \in Word /\ Len(g.word) \in Nat
  BY MatchersAssumption, WordIs DEF Word

LEMMA WholeWord ==
    ASSUME NEW s \in Word
    PROVE  SubSeq(s, 1, Len(s)) = s
<1>1. /\ Len(s) \in 0 .. Len(s) /\ Len(s) \in Nat
  BY WordIs
<1>2. /\ SubSeq(s, 1, Len(s)) \in Word /\ Len(SubSeq(s, 1, Len(s))) = Len(s)
      /\ \A i \in 1 .. Len(s) : SubSeq(s, 1, Len(s))[i] = s[i]
  BY <1>1, BeginningIs
<1>3. QED
  BY <1>2, SameSequence DEF Word

LEMMA HitKeeps ==
    ASSUME NEW c \in Alphabet, typed \in Word, goal \in Goals, refused \in BOOLEAN, Hit(c),
           refused => \E k \in 0 .. Len(typed) : Verdict(goal.kind, SubSeq(typed, 1, k)) = No
    PROVE  /\ typed' \in Word /\ refused' \in BOOLEAN
           /\ refused' => \E k \in 0 .. Len(typed') : Verdict(goal'.kind, SubSeq(typed', 1, k)) = No
<1> DEFINE t == typed'
           n == Len(typed)
<1>1. t \in Word /\ n \in Nat /\ Len(t) = n + 1 /\ \A i \in 1 .. n : t[i] = typed[i]
  BY DEF Hit, Word
<1>2. goal' = goal /\ refused' = (refused \/ Verdict(goal.kind, t) = No)
  BY DEF Hit
<1>3. ASSUME NEW k \in 0 .. n PROVE SubSeq(t, 1, k) = SubSeq(typed, 1, k)
  <2> HIDE DEF t
  <2>1. k \in 0 .. Len(t) /\ k \in 0 .. Len(typed) /\ k \in Nat /\ \A i \in 1 .. k : i \in 1 .. n
    BY <1>1
  <2>2. /\ SubSeq(t, 1, k) \in Word /\ Len(SubSeq(t, 1, k)) = k /\ \A i \in 1 .. k : SubSeq(t, 1, k)[i] = t[i]
        /\ SubSeq(typed, 1, k) \in Word /\ Len(SubSeq(typed, 1, k)) = k
        /\ \A i \in 1 .. k : SubSeq(typed, 1, k)[i] = typed[i]
    BY <1>1, <2>1, BeginningIs
  <2>3. \A i \in 1 .. k : SubSeq(t, 1, k)[i] = SubSeq(typed, 1, k)[i]
    BY <1>1, <2>1, <2>2
  <2>4. QED
    BY <2>2, <2>3, SameSequence DEF Word
<1>4. SubSeq(t, 1, n + 1) = t
  BY <1>1, WholeWord
<1> HIDE DEF t
<1>5. refused' \in BOOLEAN
  BY <1>2
<1>6. ASSUME refused' PROVE \E k \in 0 .. Len(t) : Verdict(goal'.kind, SubSeq(t, 1, k)) = No
  <2>1. CASE refused
    <3>1. PICK k \in 0 .. n : Verdict(goal.kind, SubSeq(typed, 1, k)) = No
      BY <2>1
    <3>2. k \in 0 .. Len(t)
      BY <1>1
    <3>3. QED
      BY <1>2, <1>3, <3>1, <3>2
  <2>2. CASE Verdict(goal.kind, t) = No
    <3>1. n + 1 \in 0 .. Len(t)
      BY <1>1
    <3>2. QED
      BY <1>2, <1>4, <2>2, <3>1
  <2>3. QED
    BY <1>2, <1>6, <2>1, <2>2
<1>7. QED
  BY <1>1, <1>5, <1>6 DEF t

LEMMA FreshKeeps ==
    ASSUME NEW g \in Goals, NEW t, t = <<>>, NEW r, r = (Verdict(g.kind, <<>>) = No)
    PROVE  /\ t \in Word /\ r \in BOOLEAN /\ 1 \in 1 .. Len(g.word) + 1
           /\ r => \E k \in 0 .. Len(t) : Verdict(g.kind, SubSeq(t, 1, k)) = No
           /\ t = SubSeq(g.word, 1, 1 - 1)
<1>1. t \in Word /\ Len(t) = 0 /\ g.word \in Word /\ Len(g.word) \in Nat
  BY NumberOfNone, GoalIs
<1>2. SubSeq(t, 1, 0) = <<>> /\ SubSeq(g.word, 1, 1 - 1) = <<>>
  BY <1>1, PartIs
<1>3. 0 \in 0 .. Len(t) /\ 1 \in 1 .. Len(g.word) + 1
  BY <1>1
<1>4. r => Verdict(g.kind, SubSeq(t, 1, 0)) = No
  BY <1>2
<1>5. r => \E k \in 0 .. Len(t) : Verdict(g.kind, SubSeq(t, 1, k)) = No
  BY <1>3, <1>4
<1>6. QED
  BY <1>1, <1>2, <1>3, <1>5

LEMMA TypingInvInit == Init => TypingInv
<1>1. SUFFICES ASSUME Init PROVE TypingInv
  OBVIOUS
<1>2. goal \in Goals /\ place = 1 /\ typed = <<>> /\ slips = 0 /\ refused = (Verdict(goal.kind, <<>>) = No)
  BY <1>1 DEF Init
<1>3. /\ typed \in Word /\ refused \in BOOLEAN /\ 1 \in 1 .. Len(goal.word) + 1
      /\ refused => \E k \in 0 .. Len(typed) : Verdict(goal.kind, SubSeq(typed, 1, k)) = No
      /\ typed = SubSeq(goal.word, 1, 1 - 1)
  BY <1>2, FreshKeeps
<1>4. QED
  BY <1>2, <1>3 DEF TypingInv

LEMMA TypingInvNext == TypingInv /\ [Next]_vars => TypingInv'
<1>1. SUFFICES ASSUME TypingInv, [Next]_vars PROVE TypingInv'
  OBVIOUS
<1>2. /\ goal \in Goals /\ typed \in Word /\ slips \in Nat /\ refused \in BOOLEAN
      /\ place \in 1 .. Len(goal.word) + 1
      /\ refused => \E k \in 0 .. Len(typed) : Verdict(goal.kind, SubSeq(typed, 1, k)) = No
      /\ slips = 0 => typed = SubSeq(goal.word, 1, place - 1)
  BY <1>1 DEF TypingInv
<1>3. goal.word \in Word /\ Len(goal.word) \in Nat /\ \A i \in 1 .. Len(goal.word) : goal.word[i] \in Alphabet
  BY <1>2, GoalIs, WordIs
<1>4. CASE Type
  <2>1. /\ place <= Len(goal.word) /\ Hit(goal.word[place]) /\ place' = place + 1 /\ slips' = slips
        /\ goal' = goal /\ typed' = Append(typed, goal.word[place])
    BY <1>4 DEF Type, Hit
  <2>2. place \in 1 .. Len(goal.word) /\ place' \in 1 .. Len(goal'.word) + 1
    BY <1>2, <1>3, <2>1
  <2>3. /\ typed' \in Word /\ refused' \in BOOLEAN
        /\ refused' => \E k \in 0 .. Len(typed') : Verdict(goal'.kind, SubSeq(typed', 1, k)) = No
    <3> DEFINE c == goal.word[place]
    <3>1. c \in Alphabet /\ Hit(c)
      BY <1>3, <2>1, <2>2
    <3> HIDE DEF c
    <3>2. QED
      BY <1>2, <3>1, HitKeeps
  <2>4. slips' = 0 => typed' = SubSeq(goal'.word, 1, place' - 1)
    <3>1. SUFFICES ASSUME slips = 0 PROVE Append(typed, goal.word[place]) = SubSeq(goal.word, 1, place)
      <4>1. place' - 1 = place
        BY <1>2, <2>1
      <4>2. QED
        BY <2>1, <4>1
    <3> DEFINE w == goal.word
               m == place - 1
               p == SubSeq(w, 1, m)
               q == SubSeq(w, 1, place)
    <3>2. m \in 0 .. Len(w) /\ place \in 0 .. Len(w) /\ m + 1 = place /\ m \in Nat /\ typed = p
      BY <1>2, <1>3, <2>2, <3>1
    <3> HIDE DEF w, m
    <3>3. /\ p \in Word /\ Len(p) = m /\ \A i \in 1 .. m : p[i] = w[i]
          /\ q \in Word /\ Len(q) = place /\ \A i \in 1 .. place : q[i] = w[i]
      BY <1>3, <3>2, BeginningIs DEF w
    <3> HIDE DEF p, q
    <3> DEFINE a == Append(p, w[place])
    <3>4. a \in Word /\ Len(a) = m + 1 /\ a[m + 1] = w[place] /\ \A i \in 1 .. m : a[i] = p[i]
      BY <1>3, <2>2, <3>2, <3>3 DEF Word, w
    <3> HIDE DEF a
    <3>5. \A i \in 1 .. place : i \in 1 .. m \/ i = m + 1
      BY <3>2
    <3>6. \A i \in 1 .. place : a[i] = q[i]
      BY <3>2, <3>3, <3>4, <3>5
    <3>7. a = q
      BY <3>2, <3>3, <3>4, <3>6, SameSequence DEF Word
    <3>8. QED
      BY <3>2, <3>7 DEF a, p, q, w
  <2>5. QED
    BY <1>2, <2>1, <2>2, <2>3, <2>4 DEF TypingInv
<1>5. CASE Mistype
  <2>1. PICK c \in Keys : Hit(c)
    BY <1>5 DEF Mistype
  <2>2. c \in Alphabet
    BY MatchersAssumption
  <2>3. /\ typed' \in Word /\ refused' \in BOOLEAN
        /\ refused' => \E k \in 0 .. Len(typed') : Verdict(goal'.kind, SubSeq(typed', 1, k)) = No
    BY <1>2, <2>1, <2>2, HitKeeps
  <2>4. goal' = goal /\ slips' = slips + 1
    BY <1>5, <2>1 DEF Mistype, Hit
  <2>5. place' \in {place} \cup IF place <= Len(goal.word) THEN {place + 1} ELSE {}
    BY <1>5 DEF Mistype
  <2>6. place' \in 1 .. Len(goal'.word) + 1 /\ slips' \in Nat /\ slips' # 0
    BY <1>2, <1>3, <2>4, <2>5
  <2>7. QED
    BY <1>2, <2>3, <2>4, <2>6 DEF TypingInv
<1>6. CASE Skip
  <2>1. /\ slips' = slips + 1 /\ place <= Len(goal.word) /\ place' = place + 1
        /\ goal' = goal /\ typed' = typed /\ refused' = refused
    BY <1>6 DEF Skip
  <2>2. place' \in 1 .. Len(goal'.word) + 1 /\ slips' \in Nat /\ slips' # 0
    BY <1>2, <1>3, <2>1
  <2>3. QED
    BY <1>2, <2>1, <2>2 DEF TypingInv
<1>7. CASE Enter
  <2>1. goal' \in Goals /\ place' = 1 /\ typed' = <<>> /\ slips' = 0 /\ refused' = (Verdict(goal'.kind, <<>>) = No)
    BY <1>7 DEF Enter
  <2>2. /\ typed' \in Word /\ refused' \in BOOLEAN /\ 1 \in 1 .. Len(goal'.word) + 1
        /\ refused' => \E k \in 0 .. Len(typed') : Verdict(goal'.kind, SubSeq(typed', 1, k)) = No
        /\ typed' = SubSeq(goal'.word, 1, 1 - 1)
    BY <2>1, FreshKeeps
  <2>3. QED
    BY <2>1, <2>2 DEF TypingInv
<1>8. CASE UNCHANGED vars
  BY <1>2, <1>8 DEF vars, TypingInv
<1>9. QED
  BY <1>1, <1>4, <1>5, <1>6, <1>7, <1>8 DEF Next

(* Whatever a user meant, typed and mistyped, a word that was refused is   *)
(* not accepted when more is typed.                                        *)
THEOREM RefusedStays == Spec => []RefusedForGood
<1>1. TypingInv => RefusedForGood
  <2>1. SUFFICES ASSUME TypingInv, goal.kind \in {"ipv4", "ipv4 prefix", "ipv6", "ipv6 prefix"}, refused,
                        goal.kind = "ipv6" => "." \notin ToSet(typed)
                 PROVE  Verdict(goal.kind, typed) # Exact
    BY DEF RefusedForGood
  <2>2. typed \in Word
    BY <2>1 DEF TypingInv
  <2>3. PICK k \in 0 .. Len(typed) : Verdict(goal.kind, SubSeq(typed, 1, k)) = No
    BY <2>1 DEF TypingInv
  <2>4. goal.kind = "ipv6" => \A i \in 1 .. Len(typed) : typed[i] # "."
    BY <2>1, <2>2, InToSet DEF Word
  <2> DEFINE kind == goal.kind
  <2>5. QED
    BY <2>1, <2>2, <2>3, <2>4, NotAcceptedLater
<1>2. QED
  BY <1>1, TypingInvInit, TypingInvNext, PTL DEF Spec

-----------------------------------------------------------------------------
(* A word that is cut *)

LEMMA CutsIs ==
    ASSUME NEW s \in Word, NEW sep
    PROVE  /\ Cuts(s, sep) \in [0 .. Len(s) -> Seq(Nat)] /\ Cuts(s, sep)[0] = <<0>>
           /\ \A i \in 1 .. Len(s) :
                Cuts(s, sep)[i] = IF s[i] = sep THEN Append(Cuts(s, sep)[i - 1], i) ELSE Cuts(s, sep)[i - 1]
<1> DEFINE n == Len(s)
           S == Seq(Nat)
           step == [i \in 1 .. n |-> [x \in S |-> IF s[i] = sep THEN Append(x, i) ELSE x]]
<1>1. n \in Nat /\ <<0>> \in S
  BY WordIs
<1>2. step \in [1 .. n -> [S -> S]]
  OBVIOUS
<1>3. \E f \in [0 .. n -> S] : f[0] = <<0>> /\ \A i \in 1 .. n : f[i] = step[i][f[i - 1]]
  <2> DEFINE a == <<0>>
  <2>1. IsRecursion(n, S, a, step)
    BY <1>1, <1>2 DEF IsRecursion
  <2> HIDE DEF n, step, S, a
  <2>2. \E f \in [0 .. n -> S] : f[0] = a /\ \A i \in 1 .. n : f[i] = step[i][f[i - 1]]
    BY <2>1, RecursionExists
  <2>3. QED
    BY <2>2 DEF a
<1>4. PICK f \in [0 .. n -> S] : f[0] = <<0>> /\ \A i \in 1 .. n : f[i] = step[i][f[i - 1]]
  BY <1>3
<1>5. \A i \in 1 .. n : i \in 0 .. n /\ i - 1 \in 0 .. n /\ i # 0
  BY <1>1
<1> DEFINE Longer(x, i) == IF s[i] = sep THEN Append(x, i) ELSE x
<1> HIDE DEF S
<1>6. \A i \in 1 .. n : f[i] = Longer(f[i - 1], i)
  BY <1>4, <1>5
<1> HIDE DEF step
<1> HIDE DEF Longer
<1>7. f = [i \in 0 .. n |-> IF i = 0 THEN <<0>> ELSE Longer(f[i - 1], i)]
  <2>1. \A i \in 0 .. n : f[i] = IF i = 0 THEN <<0>> ELSE Longer(f[i - 1], i)
    BY <1>1, <1>4, <1>6
  <2>2. f = [i \in 0 .. n |-> f[i]]
    BY <1>4
  <2>3. QED
    BY <2>1, <2>2
<1> DEFINE g == CHOOSE g : g = [i \in 0 .. n |-> IF i = 0 THEN <<0>> ELSE Longer(g[i - 1], i)]
<1>8. Cuts(s, sep) = g
  BY DEF Cuts, Longer
<1>9. g = [i \in 0 .. n |-> IF i = 0 THEN <<0>> ELSE Longer(g[i - 1], i)]
  BY <1>7
<1> HIDE DEF g
<1>10. /\ DOMAIN g = 0 .. n /\ g[0] = <<0>>
       /\ \A i \in 1 .. n : g[i] = Longer(g[i - 1], i)
  BY <1>1, <1>5, <1>9
<1>11. \A i \in 0 .. n : g[i] = f[i]
  <2>1. \A i \in 1 .. n : g[i - 1] = f[i - 1] => g[i] = f[i]
    BY <1>6, <1>10
  <2>2. SameSteps(g, f, n)
    BY <1>1, <1>4, <1>10, <2>1 DEF SameSteps
  <2> HIDE DEF n
  <2>3. QED
    BY <2>2, Agree
<1>12. g = [i \in 0 .. n |-> g[i]]
  BY <1>9
<1>13. g \in [0 .. n -> S]
  BY <1>4, <1>11, <1>12
<1>14. QED
  BY <1>8, <1>10, <1>13 DEF S, Longer

(* The cuts of the first i characters: 0, and then the separators in order.*)
Cut(s, sep, i, x) ==
    /\ x \in Seq(Nat) /\ Len(x) >= 1 /\ x[1] = 0
    /\ \A k \in 1 .. Len(x) : x[k] <= i
    /\ \A k \in 2 .. Len(x) : x[k] >= 1 /\ s[x[k]] = sep
    /\ \A k \in 1 .. Len(x) - 1 : x[k] < x[k + 1] /\ \A q \in x[k] + 1 .. x[k + 1] - 1 : s[q] # sep
    /\ \A q \in x[Len(x)] + 1 .. i : s[q] # sep

LEMMA CutNext ==
    ASSUME NEW s, NEW sep, NEW i \in Nat, NEW x, Cut(s, sep, i, x)
    PROVE  Cut(s, sep, i + 1, IF s[i + 1] = sep THEN Append(x, i + 1) ELSE x)
<1> DEFINE m == Len(x)
<1>1. /\ x \in Seq(Nat) /\ m \in Nat /\ m >= 1 /\ x[1] = 0
      /\ \A k \in 1 .. m : x[k] \in Nat /\ x[k] <= i
      /\ \A k \in 2 .. m : x[k] >= 1 /\ s[x[k]] = sep
      /\ \A k \in 1 .. m - 1 : x[k] < x[k + 1] /\ \A q \in x[k] + 1 .. x[k + 1] - 1 : s[q] # sep
      /\ \A q \in x[m] + 1 .. i : s[q] # sep
  BY DEF Cut
<1>2. CASE s[i + 1] # sep
  <2>1. m \in 1 .. m /\ x[m] \in Nat /\ x[m] <= i
    BY <1>1
  <2>2. \A q \in x[m] + 1 .. i + 1 : q \in x[m] + 1 .. i \/ q = i + 1
    BY <2>1
  <2>3. \A q \in x[m] + 1 .. i + 1 : s[q] # sep
    BY <1>1, <1>2, <2>2
  <2>4. \A k \in 1 .. m : x[k] <= i + 1
    BY <1>1
  <2>5. QED
    BY <1>1, <1>2, <2>3, <2>4 DEF Cut
<1>3. CASE s[i + 1] = sep
  <2> DEFINE y == Append(x, i + 1)
  <2>1. y \in Seq(Nat) /\ Len(y) = m + 1 /\ y[m + 1] = i + 1 /\ \A k \in 1 .. m : y[k] = x[k]
    BY <1>1
  <2> HIDE DEF y, m
  <2>2. \A k \in 1 .. m + 1 : k \in 1 .. m \/ k = m + 1
    BY <1>1
  <2>3. Len(y) >= 1 /\ y[1] = 0
    <3>1. 1 \in 1 .. m
      BY <1>1
    <3>2. QED
      BY <1>1, <2>1, <3>1
  <2>4. \A k \in 1 .. Len(y) : y[k] <= i + 1
    <3>1. ASSUME NEW k \in 1 .. m PROVE y[k] <= i + 1
      <4>1. y[k] = x[k]
        BY <2>1
      <4>2. x[k] \in Nat /\ x[k] <= i
        BY <1>1
      <4>3. QED
        BY <4>1, <4>2
    <3>2. y[m + 1] <= i + 1
      BY <2>1
    <3>3. QED
      BY <2>1, <2>2, <3>1, <3>2
  <2>5. \A k \in 2 .. Len(y) : y[k] >= 1 /\ s[y[k]] = sep
    <3>1. \A k \in 2 .. m + 1 : (k \in 1 .. m /\ k \in 2 .. m) \/ k = m + 1
      BY <1>1
    <3>2. \A k \in 2 .. m : k \in 1 .. m
      BY <1>1
    <3>3. y[m + 1] >= 1 /\ s[y[m + 1]] = sep
      BY <1>3, <2>1
    <3>4. \A k \in 2 .. m : y[k] >= 1 /\ s[y[k]] = sep
      BY <1>1, <2>1, <3>2
    <3>5. QED
      BY <2>1, <3>1, <3>3, <3>4
  <2>6. \A k \in 1 .. Len(y) - 1 : y[k] < y[k + 1] /\ \A q \in y[k] + 1 .. y[k + 1] - 1 : s[q] # sep
    <3>1. ASSUME NEW k \in 1 .. m PROVE y[k] < y[k + 1] /\ \A q \in y[k] + 1 .. y[k + 1] - 1 : s[q] # sep
      <4>1. CASE k = m
        <5>1. m \in 1 .. m /\ x[m] \in Nat /\ x[m] <= i /\ y[m] = x[m]
          BY <1>1, <2>1
        <5>2. (i + 1) - 1 = i
          OBVIOUS
        <5>3. QED
          BY <1>1, <2>1, <4>1, <5>1, <5>2
      <4>2. CASE k # m
        <5>1. k \in 1 .. m - 1 /\ k + 1 \in 1 .. m
          BY <1>1, <4>2
        <5>2. y[k] = x[k] /\ y[k + 1] = x[k + 1]
          BY <2>1, <5>1
        <5>3. QED
          BY <1>1, <5>1, <5>2
      <4>3. QED
        BY <4>1, <4>2
    <3>2. Len(y) - 1 = m
      BY <1>1, <2>1
    <3>3. QED
      BY <3>1, <3>2
  <2>7. \A q \in y[Len(y)] + 1 .. i + 1 : s[q] # sep
    <3>1. y[Len(y)] = i + 1
      BY <2>1
    <3>2. QED
      BY <3>1
  <2>8. Cut(s, sep, i + 1, y)
    BY <2>1, <2>3, <2>4, <2>5, <2>6, <2>7 DEF Cut
  <2>9. QED
    BY <1>3, <2>8 DEF y
<1>4. QED
  BY <1>2, <1>3

LEMMA CutsAre ==
    ASSUME NEW s \in Word, NEW sep
    PROVE  \A i \in 0 .. Len(s) : Cut(s, sep, i, Cuts(s, sep)[i])
<1> DEFINE n == Len(s)
           c == Cuts(s, sep)
           G == {i \in 0 .. n : Cut(s, sep, i, c[i])}
<1>1. n \in Nat /\ c[0] = <<0>> /\ \A i \in 1 .. n : c[i] = IF s[i] = sep THEN Append(c[i - 1], i) ELSE c[i - 1]
  BY WordIs, CutsIs
<1> HIDE DEF c, n
<1>2. Cut(s, sep, 0, <<0>>)
  <2> DEFINE x == <<0>>
  <2>1. x \in Seq(Nat) /\ Len(x) = 1 /\ x[1] = 0
    OBVIOUS
  <2> HIDE DEF x
  <2>2. Cut(s, sep, 0, x)
    BY <2>1 DEF Cut
  <2>3. QED
    BY <2>2 DEF x
<1>3. 0 \in G
  BY <1>1, <1>2
<1>4. ASSUME NEW i \in 0 .. n - 1, i \in G PROVE i + 1 \in G
  <2>1. i + 1 \in 1 .. n /\ i + 1 \in 0 .. n /\ (i + 1) - 1 = i /\ i \in Nat
    BY <1>1
  <2>2. c[i + 1] = IF s[i + 1] = sep THEN Append(c[i], i + 1) ELSE c[i]
    BY <1>1, <2>1
  <2>3. Cut(s, sep, i + 1, c[i + 1])
    BY <1>4, <2>1, <2>2, CutNext
  <2>4. QED
    BY <2>1, <2>3
<1> HIDE DEF G
<1>5. 0 .. n \subseteq G
  BY <1>1, <1>3, <1>4, UpTo
<1>6. QED
  BY <1>5 DEF G, c, n

(* Later cuts come after the earlier ones. *)
LEMMA CutsGrow ==
    ASSUME NEW s \in Word, NEW sep, NEW i \in 0 .. Len(s), NEW j \in i .. Len(s)
    PROVE  LET x == Cuts(s, sep)[i]  y == Cuts(s, sep)[j]
           IN  /\ x \in Seq(Nat) /\ y \in Seq(Nat) /\ Len(x) \in Nat /\ Len(y) \in Nat /\ Len(x) <= Len(y)
               /\ \A k \in 1 .. Len(x) : y[k] = x[k]
               /\ \A k \in Len(x) + 1 .. Len(y) : y[k] > i
<1> DEFINE n == Len(s)
           c == Cuts(s, sep)
           x == c[i]
           Grown(y) == /\ y \in Seq(Nat) /\ Len(x) <= Len(y)
                       /\ \A k \in 1 .. Len(x) : y[k] = x[k]
                       /\ \A k \in Len(x) + 1 .. Len(y) : y[k] > i
           G == {m \in i .. n : Grown(c[m])}
<1>1. /\ n \in Nat /\ i \in Nat /\ i <= n /\ j \in i .. n /\ x \in Seq(Nat)
      /\ \A m \in 1 .. n : c[m] = IF s[m] = sep THEN Append(c[m - 1], m) ELSE c[m - 1]
  BY WordIs, CutsIs
<1>2. Len(x) \in Nat
  BY <1>1
<1> HIDE DEF c, n, x
<1>3. i \in G
  BY <1>1, <1>2 DEF x
<1>4. ASSUME NEW m \in i .. n - 1, m \in G PROVE m + 1 \in G
  <2>1. m + 1 \in 1 .. n /\ m + 1 \in i .. n /\ (m + 1) - 1 = m /\ m \in Nat /\ m + 1 > i
    BY <1>1
  <2> DEFINE y == c[m]
             z == Append(y, m + 1)
  <2>2. c[m + 1] = IF s[m + 1] = sep THEN z ELSE y
    BY <1>1, <2>1
  <2>3. Grown(y)
    BY <1>4
  <2>4. z \in Seq(Nat) /\ Len(z) = Len(y) + 1 /\ z[Len(y) + 1] = m + 1 /\ \A k \in 1 .. Len(y) : z[k] = y[k]
    BY <2>1, <2>3
  <2>5. Len(y) \in Nat
    BY <2>3
  <2> HIDE DEF y, z
  <2>6. Grown(z)
    <3>1. \A k \in 1 .. Len(x) : k \in 1 .. Len(y)
      BY <1>2, <2>3, <2>5
    <3>2. \A k \in Len(x) + 1 .. Len(z) : (k \in Len(x) + 1 .. Len(y) /\ k \in 1 .. Len(y)) \/ k = Len(y) + 1
      BY <1>2, <2>4, <2>5
    <3>3. \A k \in Len(x) + 1 .. Len(z) : z[k] > i
      BY <2>1, <2>3, <2>4, <3>2
    <3>4. QED
      BY <1>2, <2>3, <2>4, <2>5, <3>1, <3>3
  <2>7. Grown(c[m + 1])
    BY <2>2, <2>3, <2>6
  <2>8. QED
    BY <2>1, <2>7
<1> HIDE DEF G
<1>5. i .. n \subseteq G
  BY <1>1, <1>3, <1>4, From
<1>6. j \in G
  BY <1>1, <1>5
<1>7. Grown(c[j])
  BY <1>6 DEF G
<1>8. Len(c[j]) \in Nat
  BY <1>7
<1>9. QED
  BY <1>1, <1>2, <1>7, <1>8 DEF x, c

(* The groups are what lies between the cuts. *)
LEMMA GroupsAre ==
    ASSUME NEW s \in Word, NEW sep
    PROVE  LET x == Cuts(s, sep)[Len(s)]
               g == Groups(s, sep)
           IN  /\ g \in Seq(Word) /\ Len(g) = Len(x) /\ Len(x) \in Nat \ {0}
               /\ \A k \in 1 .. Len(x) - 1 : g[k] = SubSeq(s, x[k] + 1, x[k + 1] - 1)
               /\ g[Len(x)] = SubSeq(s, x[Len(x)] + 1, Len(s))
<1> DEFINE x == Cuts(s, sep)[Len(s)]
           m == Len(x)
           n == Len(s)
           y == Append(x, n + 1)
           g == Groups(s, sep)
<1>1. n \in Nat /\ n \in 0 .. n /\ Cut(s, sep, n, x)
  BY WordIs, CutsAre
<1> HIDE DEF x, n
<1>2. /\ x \in Seq(Nat) /\ m \in Nat /\ m >= 1 /\ \A k \in 1 .. m : x[k] \in Nat /\ x[k] <= n
  BY <1>1 DEF Cut
<1>3. Len(y) = m + 1 /\ y[m + 1] = n + 1 /\ \A k \in 1 .. m : y[k] = x[k]
  BY <1>1, <1>2
<1>4. g = [k \in 1 .. Len(y) - 1 |-> SubSeq(s, y[k] + 1, y[k + 1] - 1)]
  BY DEF Groups, x, n
<1> HIDE DEF y, g, m
<1>5. Len(y) - 1 = m
  BY <1>2, <1>3
<1>6. \A k \in 1 .. m : k \in 1 .. m + 1 /\ (k + 1 \in 1 .. m \/ k = m)
  BY <1>2
<1>7. /\ \A k \in 1 .. m - 1 : g[k] = SubSeq(s, x[k] + 1, x[k + 1] - 1)
      /\ g[m] = SubSeq(s, x[m] + 1, n)
  <2>1. \A k \in 1 .. m - 1 : k \in 1 .. m /\ k + 1 \in 1 .. m
    BY <1>2
  <2>2. m \in 1 .. m /\ (n + 1) - 1 = n
    BY <1>1, <1>2
  <2>3. QED
    BY <1>3, <1>4, <1>5, <2>1, <2>2
<1>8. \A k \in 1 .. m : g[k] \in Word
  <2>1. TAKE k \in 1 .. m
  <2>2. x[k] + 1 \in Nat \ {0}
    BY <1>2
  <2>3. CASE k = m
    <3>1. n \in 0 .. Len(s)
      BY <1>1 DEF n
    <3>2. SubSeq(s, x[m] + 1, n) \in Word
      BY <2>2, <2>3, <3>1, PartIs
    <3>3. QED
      BY <1>7, <2>3, <3>2
  <2>4. CASE k # m
    <3>1. k \in 1 .. m - 1 /\ k + 1 \in 1 .. m
      BY <1>2, <2>4
    <3>2. Cut(s, sep, n, x) => x[k] < x[k + 1]
      BY <3>1 DEF Cut, m
    <3>3. x[k + 1] - 1 \in 0 .. Len(s)
      BY <1>1, <1>2, <3>1, <3>2 DEF n
    <3>4. SubSeq(s, x[k] + 1, x[k + 1] - 1) \in Word
      BY <2>2, <3>3, PartIs
    <3>5. QED
      BY <1>7, <3>1, <3>4
  <2>5. QED
    BY <2>3, <2>4
<1>9. g = [k \in 1 .. m |-> g[k]]
  BY <1>4, <1>5
<1>10. g \in Seq(Word) /\ Len(g) = m
  <2>1. g \in [1 .. m -> Word]
    BY <1>8, <1>9
  <2>2. g \in Seq(Word)
    BY <1>2, <2>1
  <2>3. QED
    BY <1>2, <2>1, <2>2
<1>11. QED
  BY <1>2, <1>7, <1>10 DEF g, m, n, x

(* The cuts of a beginning are those of the word. *)
LEMMA CutsOfBeginning ==
    ASSUME NEW s \in Word, NEW sep, NEW k \in 0 .. Len(s)
    PROVE  \A i \in 0 .. k : Cuts(SubSeq(s, 1, k), sep)[i] = Cuts(s, sep)[i]
<1> DEFINE p == SubSeq(s, 1, k)
           c == Cuts(s, sep)
           d == Cuts(p, sep)
<1>1. p \in Word /\ Len(p) = k /\ k \in Nat /\ Len(s) \in Nat /\ \A i \in 1 .. k : p[i] = s[i]
  BY BeginningIs, WordIs
<1> HIDE DEF p
<1>2. \A i \in 1 .. k : i \in 1 .. Len(s)
  BY <1>1
<1>3. c[0] = <<0>> /\ \A i \in 1 .. k : c[i] = IF s[i] = sep THEN Append(c[i - 1], i) ELSE c[i - 1]
  BY <1>2, CutsIs
<1>4. d[0] = <<0>> /\ \A i \in 1 .. k : d[i] = IF p[i] = sep THEN Append(d[i - 1], i) ELSE d[i - 1]
  BY <1>1, CutsIs
<1> HIDE DEF c, d
<1>5. \A i \in 1 .. k : d[i - 1] = c[i - 1] => d[i] = c[i]
  BY <1>1, <1>3, <1>4
<1>6. SameSteps(d, c, k)
  BY <1>1, <1>3, <1>4, <1>5 DEF SameSteps
<1>7. QED
  BY <1>6, Agree DEF c, d, p

-----------------------------------------------------------------------------
(* IPv4: exact is four octets *)

LEMMA OctetIs ==
    ASSUME NEW s \in Word, NEW a \in Nat \ {0}, NEW b \in 0 .. Len(s), a <= b + 1
    PROVE  /\ Octet(SubSeq(s, a, b)) <=> Group(s, a, b + 1) /\ \A q \in a .. b : IsDigit(s[q])
           /\ SubSeq(s, a, b) = <<>> <=> a = b + 1
<1> DEFINE u == SubSeq(s, a, b)
<1>1. /\ u \in Word /\ b \in Nat /\ Len(u) = b - a + 1 /\ \A i \in 1 .. Len(u) : u[i] = s[a + i - 1]
      /\ a > b => u = <<>>
  <2>1. b \in Nat
    BY WordIs
  <2>2. Len(u) = IF a <= b THEN b - a + 1 ELSE 0
    BY PartIs
  <2>3. Len(u) = b - a + 1
    BY <2>1, <2>2
  <2>4. QED
    BY <2>1, <2>3, PartIs
<1> HIDE DEF u
<1>2. DOMAIN u = 1 .. Len(u)
  BY <1>1, WordIs
<1>3. AllDigits(u) <=> \A q \in a .. b : IsDigit(s[q])
  <2>1. ASSUME AllDigits(u), NEW q \in a .. b PROVE IsDigit(s[q])
    <3>1. q - a + 1 \in 1 .. Len(u) /\ a + (q - a + 1) - 1 = q
      BY <1>1
    <3>2. QED
      BY <1>1, <1>2, <2>1, <3>1 DEF AllDigits
  <2>2. ASSUME \A q \in a .. b : IsDigit(s[q]), NEW i \in 1 .. Len(u) PROVE IsDigit(u[i])
    <3>1. a + i - 1 \in a .. b
      BY <1>1
    <3>2. QED
      BY <1>1, <2>2, <3>1
  <2>3. QED
    BY <1>2, <2>1, <2>2 DEF AllDigits
<1>4. (b + 1) - 1 = b /\ (b + 1 - a <= 3 <=> Len(u) <= 3)
  BY <1>1
<1>5. Group(s, a, b + 1) <=> Len(u) <= 3 /\ Number(u) <= 255
  BY <1>4 DEF Group, u
<1>6. u = <<>> <=> a = b + 1
  <2>1. CASE a = b + 1
    BY <1>1, <2>1
  <2>2. CASE a # b + 1
    <3>1. Len(u) # 0
      BY <1>1, <2>2
    <3>2. u # <<>>
      BY <3>1
    <3>3. QED
      BY <2>2, <3>2
  <2>3. QED
    BY <2>1, <2>2
<1>7. QED
  BY <1>3, <1>5, <1>6 DEF Octet, u

(* A dot that is passed. *)
LEMMA DotStepIs ==
    ASSUME NEW s \in Word, NEW st \in GroupStates, st.v = Go, NEW i \in 1 .. Len(s), NEW ends,
           "." \in ends, s[i] = "."
    PROVE  LET e == GroupStep(s, st, i, ends)
           IN  /\ e.v = Go <=> st.dots # 3 /\ At(s, i + 1) \notin ends \cup {End} /\ Group(s, st.sp, i)
               /\ e.v = Go => e.dots = st.dots + 1 /\ e.sp = i + 1 /\ e.mask = st.mask
<1> DEFINE refuse == [st EXCEPT !.v = No]
           part   == [st EXCEPT !.v = Partly]
           over   == [st EXCEPT !.dots = st.dots + 1, !.sp = i + 1]
           e      == GroupStep(s, st, i, ends)
<1>1. e = IF st.dots = 3 \/ At(s, i + 1) \in ends THEN refuse
          ELSE IF At(s, i + 1) = End THEN part
          ELSE IF Group(s, st.sp, i) THEN over ELSE refuse
  BY DEF GroupStep
<1>2. /\ refuse.v = No /\ part.v = Partly
      /\ over.v = Go /\ over.dots = st.dots + 1 /\ over.sp = i + 1 /\ over.mask = st.mask
  BY DEF GroupStates
<1> HIDE DEF refuse, part, over, e
<1>3. CASE st.dots = 3 \/ At(s, i + 1) \in ends
  BY <1>1, <1>2, <1>3, GoIsNot DEF e
<1>4. CASE ~(st.dots = 3 \/ At(s, i + 1) \in ends)
  BY <1>1, <1>2, <1>4, GoIsNot DEF e
<1>5. QED
  BY <1>3, <1>4

(* What a state that goes on knows of the characters so far. *)
Shape(s, st, i, ends) ==
    LET x == Cuts(s, ".")[i]
    IN  /\ st.dots = Len(x) - 1 /\ st.sp = x[Len(x)] + 1
        /\ \A q \in st.sp .. i : IsDigit(s[q])
        /\ \A k \in 1 .. Len(x) - 1 :
             /\ Octet(SubSeq(s, x[k] + 1, x[k + 1] - 1))
             /\ SubSeq(s, x[k] + 1, x[k + 1] - 1) = <<>> => k = 1
        /\ st.dots > 0 /\ st.sp = i + 1 => At(s, i + 1) \notin ends \cup {End}

LEMMA ShapeFirst ==
    ASSUME NEW s \in Word, NEW ends
    PROVE  Shape(s, GroupStart, 0, ends)
<1> DEFINE x == <<0>>
<1>1. Cuts(s, ".")[0] = x /\ Len(x) = 1 /\ x[1] = 0
  BY CutsIs
<1> HIDE DEF x
<1> DEFINE st == GroupStart
<1>2. st.dots = 0 /\ st.sp = 1
  BY StartType
<1> HIDE DEF st
<1>3. st.dots = Len(x) - 1 /\ st.sp = x[Len(x)] + 1 /\ ~(st.dots > 0)
  BY <1>1, <1>2
<1>4. (\A q \in st.sp .. 0 : IsDigit(s[q])) /\ 1 .. Len(x) - 1 = {}
  BY <1>1, <1>2
<1>5. Shape(s, st, 0, ends)
  BY <1>1, <1>3, <1>4 DEF Shape
<1>6. QED
  BY <1>5 DEF st

LEMMA ShapeNext ==
    ASSUME NEW s \in Word, NEW st \in GroupStates, st.v = Go, NEW j \in 0 .. Len(s) - 1, NEW ends,
           "." \in ends, ends \subseteq {".", "/"}, s[j + 1] = "/" => "/" \notin ends,
           Shape(s, st, j, ends), GroupStep(s, st, j + 1, ends).v = Go
    PROVE  /\ Shape(s, GroupStep(s, st, j + 1, ends), j + 1, ends)
           /\ GroupStep(s, st, j + 1, ends).mask = st.mask
<1> DEFINE n == Len(s)
           i == j + 1
           e == GroupStep(s, st, i, ends)
           x == Cuts(s, ".")[j]
           z == Cuts(s, ".")[i]
<1>1. n \in Nat /\ j \in Nat /\ i \in 1 .. Len(s) /\ j \in 0 .. Len(s) /\ i - 1 = j /\ i \in Nat
  BY WordIs
<1>2. z = IF s[i] = "." THEN Append(x, i) ELSE x
  BY <1>1, CutsIs
<1>3. Cut(s, ".", j, x)
  BY <1>1, CutsAre
<1>4. /\ st.dots = Len(x) - 1 /\ st.sp = x[Len(x)] + 1
      /\ \A q \in st.sp .. j : IsDigit(s[q])
      /\ \A k \in 1 .. Len(x) - 1 :
           /\ Octet(SubSeq(s, x[k] + 1, x[k + 1] - 1))
           /\ SubSeq(s, x[k] + 1, x[k + 1] - 1) = <<>> => k = 1
      /\ st.dots > 0 /\ st.sp = j + 1 => At(s, j + 1) \notin ends \cup {End}
  BY DEF Shape
<1>5. e.v = Go
  OBVIOUS
<1>6. /\ IsDigit(s[i]) => e = st
      /\ s[i] # "." /\ ~IsDigit(s[i]) => e.v = No
  BY <1>1, GroupStepIs
<1>7. s[i] = "." => /\ e.v = Go <=> st.dots # 3 /\ At(s, i + 1) \notin ends \cup {End} /\ Group(s, st.sp, i)
                    /\ e.v = Go => e.dots = st.dots + 1 /\ e.sp = i + 1 /\ e.mask = st.mask
  BY <1>1, DotStepIs
<1>8. SUFFICES Shape(s, e, i, ends) /\ e.mask = st.mask
  OBVIOUS
<1> HIDE DEF x, z, e, n, i
<1>9. /\ x \in Seq(Nat) /\ Len(x) \in Nat /\ Len(x) >= 1 /\ \A k \in 1 .. Len(x) : x[k] \in Nat /\ x[k] <= j
  BY <1>3 DEF Cut
<1>10. Len(x) \in 1 .. Len(x) /\ st.sp \in Nat \ {0} /\ st.sp <= j + 1
  <2>1. Len(x) \in 1 .. Len(x)
    BY <1>9
  <2>2. PICK y \in Nat : x[Len(x)] = y /\ y <= j
    BY <1>9, <2>1
  <2>3. st.sp = y + 1
    BY <1>4, <2>2
  <2>4. QED
    BY <1>1, <2>1, <2>2, <2>3
<1>11. CASE s[i] = "."
  <2>1. st.dots # 3 /\ At(s, i + 1) \notin ends \cup {End} /\ Group(s, st.sp, i)
        /\ e.dots = st.dots + 1 /\ e.sp = i + 1 /\ e.mask = st.mask
    BY <1>5, <1>7, <1>11
  <2> DEFINE m == Len(x)
  <2>2. z \in Seq(Nat) /\ Len(z) = m + 1 /\ z[m + 1] = i /\ \A k \in 1 .. m : z[k] = x[k]
    BY <1>1, <1>2, <1>9, <1>11
  <2>3. Octet(SubSeq(s, st.sp, j)) /\ (SubSeq(s, st.sp, j) = <<>> => m = 1)
    <3>1. j + 1 = i
      BY DEF i
    <3>2. /\ Octet(SubSeq(s, st.sp, j)) <=> Group(s, st.sp, j + 1) /\ \A q \in st.sp .. j : IsDigit(s[q])
          /\ SubSeq(s, st.sp, j) = <<>> <=> st.sp = j + 1
      BY <1>1, <1>10, OctetIs
    <3>3. At(s, j + 1) = "."
      BY <1>1, <1>11, <3>1, WordIs
    <3>4. st.sp = j + 1 => m = 1
      <4>1. SUFFICES ASSUME st.sp = j + 1, m # 1 PROVE FALSE
        OBVIOUS
      <4>2. st.dots > 0
        <5>1. st.dots = m - 1 /\ m \in Nat /\ m >= 1
          BY <1>4, <1>9
        <5> HIDE DEF m
        <5>2. QED
          BY <4>1, <5>1
      <4>3. QED
        BY <1>4, <3>3, <4>1, <4>2
    <3>5. QED
      BY <1>4, <2>1, <3>1, <3>2, <3>4
  <2>4. ASSUME NEW k \in 1 .. Len(z) - 1
        PROVE  /\ Octet(SubSeq(s, z[k] + 1, z[k + 1] - 1))
               /\ SubSeq(s, z[k] + 1, z[k + 1] - 1) = <<>> => k = 1
    <3>1. CASE k = m
      <4>1. z[k] + 1 = st.sp /\ z[k + 1] - 1 = j
        BY <1>1, <1>4, <1>10, <2>2, <3>1
      <4>2. QED
        BY <2>3, <3>1, <4>1
    <3>2. CASE k # m
      <4>1. k \in 1 .. m - 1 /\ k \in 1 .. m /\ k + 1 \in 1 .. m
        BY <1>9, <2>2, <3>2
      <4>2. z[k] = x[k] /\ z[k + 1] = x[k + 1]
        BY <2>2, <4>1
      <4>3. QED
        BY <1>4, <4>1, <4>2
    <3>3. QED
      BY <3>1, <3>2
  <2>5. e.dots = Len(z) - 1 /\ e.sp = z[Len(z)] + 1
    BY <1>4, <1>9, <2>1, <2>2
  <2>6. \A q \in e.sp .. i : IsDigit(s[q])
    BY <1>1, <2>1
  <2>7. At(s, i + 1) \notin ends \cup {End}
    BY <2>1
  <2>8. Shape(s, e, i, ends)
    BY <2>4, <2>5, <2>6, <2>7 DEF Shape, z
  <2>9. QED
    BY <2>1, <2>8
<1>12. CASE s[i] # "."
  <2>1. IsDigit(s[i]) /\ e = st
    BY <1>5, <1>6, <1>12, GoIsNot
  <2>2. z = x
    BY <1>2, <1>12
  <2>3. \A q \in st.sp .. i : q \in st.sp .. j \/ q = i
    BY <1>1, <1>10
  <2>4. st.sp # i + 1
    BY <1>1, <1>10 DEF i
  <2>5. \A q \in st.sp .. i : IsDigit(s[q])
    BY <1>4, <2>1, <2>3
  <2>6. Shape(s, e, i, ends)
    BY <1>4, <2>1, <2>2, <2>4, <2>5 DEF Shape, z
  <2>7. QED
    BY <2>1, <2>6
<1>13. QED
  BY <1>11, <1>12

(* The shape at the end is the notation. *)
LEMMA ShapeAtEnd ==
    ASSUME NEW s \in Word, NEW st \in GroupStates, NEW ends, Shape(s, st, Len(s), ends)
    PROVE  Group(s, st.sp, Len(s) + 1) /\ st.dots = 3 <=> Dotted(s)
<1> DEFINE n == Len(s)
           x == Cuts(s, ".")[n]
           g == Groups(s, ".")
<1>1. n \in Nat /\ n \in 0 .. n
  BY WordIs
<1>2. Cut(s, ".", n, x)
  BY <1>1, CutsAre
<1>3. /\ st.dots = Len(x) - 1 /\ st.sp = x[Len(x)] + 1
      /\ \A q \in st.sp .. n : IsDigit(s[q])
      /\ \A k \in 1 .. Len(x) - 1 :
           /\ Octet(SubSeq(s, x[k] + 1, x[k + 1] - 1))
           /\ SubSeq(s, x[k] + 1, x[k + 1] - 1) = <<>> => k = 1
      /\ st.dots > 0 /\ st.sp = n + 1 => At(s, n + 1) \notin ends \cup {End}
  BY DEF Shape
<1>4. /\ Len(g) = Len(x) /\ Len(x) \in Nat \ {0}
      /\ \A k \in 1 .. Len(x) - 1 : g[k] = SubSeq(s, x[k] + 1, x[k + 1] - 1)
      /\ g[Len(x)] = SubSeq(s, x[Len(x)] + 1, n)
  BY GroupsAre
<1>5. At(s, n + 1) = End
  BY <1>1, WordIs
<1> HIDE DEF x, g, n
<1>6. Len(x) \in 1 .. Len(x) /\ x[Len(x)] \in Nat /\ x[Len(x)] <= n
  BY <1>2, <1>4 DEF Cut
<1>7. /\ Octet(g[Len(x)]) <=> Group(s, st.sp, n + 1)
      /\ g[Len(x)] = <<>> <=> st.sp = n + 1
  <2>1. st.sp \in Nat \ {0} /\ st.sp <= n + 1
    BY <1>1, <1>3, <1>6
  <2>2. /\ Octet(SubSeq(s, st.sp, n)) <=> Group(s, st.sp, n + 1) /\ \A q \in st.sp .. n : IsDigit(s[q])
        /\ SubSeq(s, st.sp, n) = <<>> <=> st.sp = n + 1
    BY <1>1, <2>1, OctetIs DEF n
  <2>3. QED
    BY <1>3, <1>4, <2>2
<1>8. ASSUME Group(s, st.sp, n + 1), st.dots = 3 PROVE Dotted(s)
  <2>1. Len(x) = 4
    BY <1>3, <1>4, <1>8
  <2>2. ASSUME NEW k \in 1 .. 4 PROVE Octet(g[k]) /\ (g[k] = <<>> => k = 1)
    <3>1. CASE k = 4
      BY <1>3, <1>5, <1>7, <1>8, <2>1, <3>1
    <3>2. CASE k # 4
      <4>1. k \in 1 .. Len(x) - 1
        BY <2>1, <3>2
      <4>2. QED
        BY <1>3, <1>4, <4>1
    <3>3. QED
      BY <3>1, <3>2
  <2>3. QED
    BY <1>4, <2>1, <2>2 DEF Dotted, g
<1>9. ASSUME Dotted(s) PROVE Group(s, st.sp, n + 1) /\ st.dots = 3
  <2>1. Len(g) = 4 /\ \A k \in 1 .. 4 : Octet(g[k])
    BY <1>9 DEF Dotted, g
  <2>2. Len(x) = 4 /\ st.dots = 3
    BY <1>3, <1>4, <2>1
  <2>3. QED
    BY <1>7, <2>1, <2>2
<1>10. QED
  BY <1>8, <1>9 DEF n

LEMMA Ipv4Shape ==
    ASSUME NEW s \in Word
    PROVE  \A i \in 0 .. Len(s) : Ipv4Scan(s)[i].v = Go => Shape(s, Ipv4Scan(s)[i], i, {"."})
<1> DEFINE f == Ipv4Scan(s)
           n == Len(s)
           G == {i \in 0 .. n : f[i].v = Go => Shape(s, f[i], i, {"."})}
<1>1. /\ n \in Nat /\ f \in [0 .. n -> GroupStates] /\ f[0] = GroupStart
      /\ \A i \in 1 .. n : f[i] = Ipv4Step(s, f[i - 1], i)
  BY WordIs, Ipv4ScanIs
<1> HIDE DEF f
<1>2. 0 \in G
  BY <1>1, ShapeFirst
<1>3. ASSUME NEW j \in 0 .. n - 1, j \in G PROVE j + 1 \in G
  <2>1. j + 1 \in 1 .. n /\ j + 1 \in 0 .. n /\ j \in 0 .. n /\ (j + 1) - 1 = j
    BY <1>1
  <2>2. f[j + 1] = Ipv4Step(s, f[j], j + 1) /\ f[j] \in GroupStates
    BY <1>1, <2>1
  <2>3. SUFFICES ASSUME f[j + 1].v = Go PROVE Shape(s, f[j + 1], j + 1, {"."})
    BY <2>1
  <2>4. f[j].v = Go /\ f[j + 1] = GroupStep(s, f[j], j + 1, {"."})
    BY <2>2, <2>3 DEF Ipv4Step
  <2>5. Shape(s, f[j], j, {"."})
    BY <1>3, <2>4
  <2> DEFINE ends == {"."}
  <2>6. "." \in ends /\ ends \subseteq {".", "/"} /\ "/" \notin ends
    OBVIOUS
  <2>7. f[j + 1] = GroupStep(s, f[j], j + 1, ends)
    BY <2>4
  <2> HIDE DEF ends
  <2>8. s[j + 1] = "/" => "/" \notin ends
    BY <2>6
  <2>9. Shape(s, GroupStep(s, f[j], j + 1, ends), j + 1, ends)
    <3> DEFINE st == f[j]
    <3>1. st \in GroupStates /\ st.v = Go /\ Shape(s, st, j, ends) /\ GroupStep(s, st, j + 1, ends).v = Go
      BY <2>2, <2>3, <2>4, <2>5, <2>7 DEF ends
    <3>2. j \in 0 .. Len(s) - 1
      OBVIOUS
    <3> HIDE DEF st, n
    <3>3. Shape(s, GroupStep(s, st, j + 1, ends), j + 1, ends)
      BY <2>6, <2>8, <3>1, <3>2, ShapeNext
    <3>4. QED
      BY <3>3 DEF st
  <2>10. QED
    BY <2>7, <2>9 DEF ends
<1> HIDE DEF G
<1>4. 0 .. n \subseteq G
  BY <1>1, <1>2, <1>3, UpTo
<1>5. QED
  BY <1>4 DEF G, f

(* Four octets are scanned to their end. *)
LEMMA DottedStep ==
    ASSUME NEW s \in Word, Dotted(s), NEW st \in GroupStates, st.v = Go, NEW j \in 0 .. Len(s) - 1, Shape(s, st, j, {"."})
    PROVE  GroupStep(s, st, j + 1, {"."}).v = Go
<1> DEFINE n == Len(s)
           i == j + 1
           x == Cuts(s, ".")[j]
           z == Cuts(s, ".")[i]
           y == Cuts(s, ".")[n]
           g == Groups(s, ".")
           m == Len(x)
<1>1. n \in Nat /\ j \in Nat /\ i \in 1 .. Len(s) /\ j \in 0 .. Len(s) /\ i - 1 = j /\ i \in Nat /\ i \in 0 .. n /\ n \in 0 .. n
  BY WordIs
<1>2. z = IF s[i] = "." THEN Append(x, i) ELSE x
  BY <1>1, CutsIs
<1>3. Cut(s, ".", j, x) /\ Cut(s, ".", n, y)
  BY <1>1, CutsAre
<1>4. /\ st.dots = m - 1 /\ st.sp = x[m] + 1 /\ \A q \in st.sp .. j : IsDigit(s[q])
  BY DEF Shape
<1>5. /\ Len(g) = 4 /\ Len(y) = 4 /\ \A k \in 1 .. 4 : Octet(g[k]) /\ (g[k] = <<>> => k = 1)
      /\ \A k \in 1 .. 3 : g[k] = SubSeq(s, y[k] + 1, y[k + 1] - 1)
      /\ g[4] = SubSeq(s, y[4] + 1, n)
  <2>1. /\ Len(g) = Len(y)
        /\ \A k \in 1 .. Len(y) - 1 : g[k] = SubSeq(s, y[k] + 1, y[k + 1] - 1)
        /\ g[Len(y)] = SubSeq(s, y[Len(y)] + 1, n)
    BY GroupsAre
  <2>2. Len(g) = 4 /\ \A k \in 1 .. 4 : Octet(g[k]) /\ (g[k] = <<>> => k = 1)
    BY DEF Dotted
  <2> HIDE DEF g, y, n
  <2>3. Len(y) = 4 /\ 4 - 1 = 3
    BY <2>1, <2>2
  <2>4. QED
    BY <2>1, <2>2, <2>3
<1>6. /\ z \in Seq(Nat) /\ Len(z) \in Nat /\ Len(z) <= Len(y)
      /\ \A k \in 1 .. Len(z) : y[k] = z[k]
      /\ \A k \in Len(z) + 1 .. Len(y) : y[k] > i
  <2>1. i \in 0 .. Len(s) /\ n \in i .. Len(s)
    BY <1>1
  <2> HIDE DEF i
  <2>2. QED
    BY <2>1, CutsGrow
<1>7. /\ x \in Seq(Nat) /\ m \in Nat /\ m >= 1 /\ \A k \in 1 .. m : x[k] \in Nat /\ x[k] <= j
  BY <1>3 DEF Cut
<1>8. \A k \in 1 .. 4 : y[k] \in Nat /\ y[k] <= n
  <2> HIDE DEF y, n
  <2>1. y \in Seq(Nat) /\ (\A k \in 1 .. Len(y) : y[k] <= n) /\ Len(y) = 4
    BY <1>3, <1>5 DEF Cut
  <2>2. \A k \in 1 .. 4 : y[k] \in Nat
    <3>1. y \in Seq(Nat)
      BY <2>1
    <3>2. \A k \in 1 .. Len(y) : y[k] \in Nat
      BY <3>1
    <3>3. QED
      BY <2>1, <3>2
  <2>3. QED
    BY <2>1, <2>2
<1> HIDE DEF x, z, y, g
<1>9. m \in 1 .. m /\ st.sp \in Nat \ {0} /\ st.sp <= i
  <2>1. m \in 1 .. m
    BY <1>7
  <2>2. PICK w \in Nat : x[m] = w /\ w <= j
    BY <1>7, <2>1
  <2>3. st.sp = w + 1
    BY <1>4, <2>2
  <2>4. QED
    BY <1>1, <2>1, <2>2, <2>3
<1>10. CASE s[i] = "."
  <2>1. z = Append(x, i) /\ Len(z) = m + 1 /\ z[m + 1] = i /\ \A k \in 1 .. m : z[k] = x[k]
    BY <1>1, <1>2, <1>7, <1>10
  <2> HIDE DEF m, i
  <2>2. m + 1 <= 4 /\ y[m + 1] = i /\ y[m] = x[m]
    <3>1. Len(z) <= 4 /\ m + 1 \in 1 .. Len(z) /\ m \in 1 .. Len(z)
      BY <1>5, <1>6, <1>7, <2>1
    <3>2. y[m + 1] = z[m + 1] /\ y[m] = z[m]
      BY <1>6, <3>1
    <3>3. QED
      BY <1>9, <2>1, <3>1, <3>2
  <2>3. st.dots # 3
    BY <1>4, <1>7, <2>2
  <2>4. Group(s, st.sp, i)
    <3>1. m \in 1 .. 3 /\ m \in 1 .. 4
      BY <1>7, <2>2
    <3>2. g[m] = SubSeq(s, st.sp, j)
      BY <1>1, <1>4, <1>5, <2>2, <3>1
    <3>3. Octet(SubSeq(s, st.sp, j))
      BY <1>5, <3>1, <3>2
    <3>4. j + 1 = i /\ st.sp <= j + 1
      BY <1>9 DEF i
    <3>5. QED
      BY <1>1, <1>9, <3>3, <3>4, OctetIs
  <2>5. At(s, i + 1) # "."
    <3>1. SUFFICES ASSUME At(s, i + 1) = "." PROVE FALSE
      OBVIOUS
    <3>2. i + 1 \in 1 .. n /\ s[i + 1] = "."
      BY <1>1, <3>1, WordIs DEF End, n
    <3> DEFINE u == Cuts(s, ".")[i + 1]
    <3>3. u = Append(z, i + 1)
      <4>1. u = IF s[i + 1] = "." THEN Append(Cuts(s, ".")[(i + 1) - 1], i + 1) ELSE Cuts(s, ".")[(i + 1) - 1]
        <5> DEFINE r == i + 1
        <5>1. r \in 1 .. Len(s)
          BY <3>2 DEF n
        <5> HIDE DEF r
        <5>2. Cuts(s, ".")[r] = IF s[r] = "." THEN Append(Cuts(s, ".")[r - 1], r) ELSE Cuts(s, ".")[r - 1]
          BY <5>1, CutsIs
        <5>3. QED
          BY <5>2 DEF r
      <4>2. (i + 1) - 1 = i
        BY <1>1
      <4>3. QED
        BY <3>2, <4>1, <4>2 DEF z
    <3>4. /\ Len(u) <= Len(y) /\ \A k \in 1 .. Len(u) : y[k] = u[k]
      <4>1. i + 1 \in 0 .. Len(s) /\ n \in i + 1 .. Len(s)
        BY <1>1, <3>2 DEF n
      <4> DEFINE r == i + 1
      <4>2. r \in 0 .. Len(s) /\ n \in r .. Len(s)
        BY <4>1
      <4> HIDE DEF r
      <4>3. /\ Len(Cuts(s, ".")[r]) <= Len(Cuts(s, ".")[n])
            /\ \A k \in 1 .. Len(Cuts(s, ".")[r]) : Cuts(s, ".")[n][k] = Cuts(s, ".")[r][k]
        BY <4>2, CutsGrow
      <4>4. QED
        BY <4>3 DEF r, y
    <3>5. Len(u) = Len(z) + 1 /\ u[Len(z) + 1] = i + 1
      BY <1>1, <1>6, <3>3
    <3> HIDE DEF u
    <3>6. Len(u) = m + 2 /\ u[m + 2] = i + 1 /\ m + 2 <= 4
      BY <1>5, <1>7, <2>1, <3>4, <3>5
    <3>7. y[m + 2] = i + 1
      <4>1. m + 2 \in 1 .. Len(u)
        BY <1>7, <3>6
      <4>2. QED
        BY <3>4, <3>6, <4>1
    <3> DEFINE k == m + 1
    <3>8. k \in 1 .. 3 /\ k \in 1 .. 4 /\ k + 1 = m + 2 /\ k # 1
      BY <1>7, <3>6
    <3>9. g[k] = SubSeq(s, i + 1, i)
      <4>1. (i + 1) - 1 = i
        BY <1>1
      <4>2. QED
        BY <1>5, <2>2, <3>7, <3>8, <4>1
    <3>10. SubSeq(s, i + 1, i) = <<>>
      <4>1. i + 1 \in Nat \ {0} /\ i \in 0 .. Len(s) /\ i + 1 > i
        BY <1>1
      <4>2. QED
        BY <4>1, PartIs
    <3>11. QED
      BY <1>5, <3>8, <3>9, <3>10
  <2>6. At(s, i + 1) # End
    <3>1. SUFFICES ASSUME At(s, i + 1) = End PROVE FALSE
      OBVIOUS
    <3>2. i = n
      BY <1>1, <3>1, WordIs DEF n
    <3>3. y = z
      BY <3>2 DEF y, z
    <3>4. m + 1 = 4 /\ y[4] = n
      BY <1>5, <1>7, <2>1, <2>2, <3>2, <3>3
    <3>5. SubSeq(s, n + 1, n) = <<>>
      <4>1. n + 1 \in Nat \ {0} /\ n \in 0 .. Len(s) /\ n + 1 > n
        BY <1>1
      <4>2. QED
        BY <4>1, PartIs
    <3>6. g[4] = <<>>
      BY <1>5, <3>4, <3>5
    <3>7. 4 \in 1 .. 4 /\ 4 # 1
      OBVIOUS
    <3>8. QED
      BY <1>5, <3>6, <3>7
  <2>7. GroupStep(s, st, i, {"."}).v = Go
    <3> DEFINE ends == {"."}
    <3>1. "." \in ends /\ At(s, i + 1) \notin ends \cup {End}
      BY <2>5, <2>6
    <3> HIDE DEF ends
    <3>2. GroupStep(s, st, i, ends).v = Go
      BY <1>1, <1>10, <2>3, <2>4, <3>1, DotStepIs
    <3>3. QED
      BY <3>2 DEF ends
  <2>8. QED
    BY <2>7 DEF i
<1>11. CASE s[i] # "."
  <2>1. z = x
    BY <1>2, <1>11
  <2> HIDE DEF m, i
  <2>2. m \in 1 .. 4 /\ y[m] = x[m]
    <3>1. m <= 4 /\ m \in 1 .. Len(z)
      BY <1>5, <1>6, <1>7, <2>1 DEF m
    <3>2. QED
      BY <1>6, <1>7, <2>1, <3>1
  <2>3. \E b \in i .. n : g[m] = SubSeq(s, st.sp, b)
    <3>1. CASE m = 4
      <4>1. g[m] = SubSeq(s, st.sp, n) /\ n \in i .. n
        BY <1>1, <1>4, <1>5, <2>2, <3>1
      <4>2. QED
        BY <4>1
    <3>2. CASE m # 4
      <4>1. m \in 1 .. 3 /\ m + 1 \in 1 .. 4 /\ m + 1 \in Len(z) + 1 .. Len(y)
        BY <1>5, <2>1, <2>2, <3>2 DEF m
      <4>2. y[m + 1] > i /\ y[m + 1] \in Nat /\ y[m + 1] <= n
        BY <1>6, <1>8, <4>1
      <4>3. y[m + 1] - 1 \in i .. n
        BY <1>1, <4>2
      <4>4. g[m] = SubSeq(s, st.sp, y[m + 1] - 1)
        BY <1>4, <1>5, <2>2, <4>1
      <4>5. QED
        BY <4>3, <4>4
    <3>3. QED
      BY <3>1, <3>2
  <2>4. PICK b \in i .. n : g[m] = SubSeq(s, st.sp, b)
    BY <2>3
  <2>5. b \in 0 .. Len(s) /\ st.sp <= b + 1 /\ i \in st.sp .. b
    BY <1>1, <1>9, <2>4
  <2>6. Octet(SubSeq(s, st.sp, b))
    BY <1>5, <2>2, <2>4
  <2>7. IsDigit(s[i])
    BY <1>9, <2>5, <2>6, OctetIs
  <2>8. GroupStep(s, st, i, {"."}) = st
    <3> DEFINE ends == {"."}
    <3>1. "." \in ends /\ ends \subseteq {".", "/"}
      OBVIOUS
    <3> HIDE DEF ends
    <3>2. GroupStep(s, st, i, ends) = st
      BY <1>1, <2>7, <3>1, GroupStepIs
    <3>3. QED
      BY <3>2 DEF ends
  <2>9. QED
    BY <2>8 DEF i
<1>12. QED
  BY <1>10, <1>11

LEMMA Ipv4ExactIs ==
    ASSUME NEW s \in Word
    PROVE  (Ipv4(s) = Exact <=> Dotted(s)) /\ (GoodIp(s) <=> Dotted(s))
<1> DEFINE f == Ipv4Scan(s)
           n == Len(s)
           st == f[n]
<1>1. /\ n \in Nat /\ n \in 0 .. n /\ f \in [0 .. n -> GroupStates] /\ f[0] = GroupStart
      /\ \A i \in 1 .. n : f[i] = Ipv4Step(s, f[i - 1], i)
  BY WordIs, Ipv4ScanIs
<1>2. \A i \in 0 .. n : f[i].v = Go => Shape(s, f[i], i, {"."})
  BY Ipv4Shape
<1> HIDE DEF f
<1>3. st.v = Go => (Group(s, st.sp, n + 1) /\ st.dots = 3 <=> Dotted(s))
  <2>1. SUFFICES ASSUME st.v = Go PROVE Group(s, st.sp, n + 1) /\ st.dots = 3 <=> Dotted(s)
    OBVIOUS
  <2>2. st \in GroupStates /\ Shape(s, st, n, {"."})
    BY <1>1, <1>2, <2>1
  <2> HIDE DEF st
  <2>3. QED
    BY <2>2, ShapeAtEnd
<1>4. Dotted(s) => st.v = Go
  <2>1. SUFFICES ASSUME Dotted(s) PROVE st.v = Go
    OBVIOUS
  <2> DEFINE G == {i \in 0 .. n : f[i].v = Go}
  <2>2. 0 \in G
    BY <1>1, StartType
  <2>3. ASSUME NEW j \in 0 .. n - 1, j \in G PROVE j + 1 \in G
    <3>1. j + 1 \in 1 .. n /\ j + 1 \in 0 .. n /\ j \in 0 .. n /\ (j + 1) - 1 = j
      BY <1>1
    <3>2. f[j].v = Go /\ f[j] \in GroupStates /\ f[j + 1] = Ipv4Step(s, f[j], j + 1)
      BY <1>1, <2>3, <3>1
    <3>3. GroupStep(s, f[j], j + 1, {"."}).v = Go
      BY <1>2, <2>1, <3>1, <3>2, DottedStep
    <3>4. QED
      BY <3>1, <3>2, <3>3 DEF Ipv4Step
  <2> HIDE DEF G
  <2>4. 0 .. n \subseteq G
    BY <1>1, <2>2, <2>3, UpTo
  <2>5. QED
    BY <1>1, <2>4 DEF G
<1>5. st \in GroupStates
  BY <1>1
<1>6. Ipv4(s) = Exact <=> st.v = Go /\ Group(s, st.sp, n + 1) /\ st.dots = 3
  <2>1. Ipv4(s) = IF st.v # Go THEN st.v
                  ELSE IF ~Group(s, st.sp, n + 1) THEN No ELSE IF st.dots < 3 THEN Partly ELSE Exact
    BY DEF Ipv4, f
  <2>2. st.v \in {No, Partly, Go} /\ st.dots \in Nat
    BY <1>5 DEF GroupStates
  <2>3. st.v = Go /\ Group(s, st.sp, n + 1) => st.dots <= 3
    <3>1. SUFFICES ASSUME st.v = Go, st.dots > 3 PROVE FALSE
      BY <2>2
    <3> DEFINE G == {i \in 0 .. n : f[i].dots <= 3}
    <3>2. 0 \in G
      BY <1>1, StartType
    <3>3. ASSUME NEW j \in 0 .. n - 1, j \in G PROVE j + 1 \in G
      <4>1. j + 1 \in 1 .. n /\ j + 1 \in 0 .. n /\ j \in 0 .. n /\ (j + 1) - 1 = j
        BY <1>1
      <4>2. f[j].dots <= 3 /\ f[j] \in GroupStates /\ f[j + 1] = Ipv4Step(s, f[j], j + 1)
        BY <1>1, <3>3, <4>1
      <4>3. GroupStep(s, f[j], j + 1, {"."}).dots <= 3
        BY <4>2 DEF GroupStep, GroupStates
      <4>4. QED
        BY <4>1, <4>2, <4>3 DEF Ipv4Step
    <3> HIDE DEF G
    <3>4. 0 .. n \subseteq G
      BY <1>1, <3>2, <3>3, UpTo
    <3>5. st.dots <= 3
      BY <1>1, <3>4 DEF G
    <3>6. QED
      BY <2>2, <3>1, <3>5
  <2> HIDE DEF st, n
  <2>4. QED
    BY <2>1, <2>2, <2>3, GoIsNot
<1>7. GoodIp(s) <=> st.v = Go /\ Group(s, st.sp, n + 1) /\ st.dots = 3
  BY DEF GoodIp, f
<1>8. QED
  BY <1>3, <1>4, <1>6, <1>7

-----------------------------------------------------------------------------
(* IPv4 with a mask: exact is a mask of at most 32, and four octets before *)
(* a slash that is the only one.                                           *)

PrefixShape(s, st, i) ==
    IF st.mask = 0
    THEN (\A q \in 1 .. i : s[q] # "/") => Shape(s, st, i, {".", "/"})
    ELSE /\ st.mask \in 2 .. i + 1 /\ st.mask <= Len(s) /\ s[st.mask - 1] = "/"
         /\ \A q \in st.mask .. i : IsDigit(s[q])
         /\ (\A q \in 1 .. st.mask - 2 : s[q] # "/") => Dotted(SubSeq(s, 1, st.mask - 2))

(* Four groups and a slash. *)
LEMMA SlashAfterFour ==
    ASSUME NEW s \in Word, NEW st \in GroupStates, NEW j \in 0 .. Len(s) - 1, Shape(s, st, j, {".", "/"}),
           s[j + 1] = "/", st.dots = 3, Group(s, st.sp, j + 1)
    PROVE  Dotted(SubSeq(s, 1, j))
<1> DEFINE p == SubSeq(s, 1, j)
           x == Cuts(s, ".")[j]
           m == Len(x)
<1>1. Len(s) \in Nat /\ j \in Nat /\ j \in 0 .. Len(s) /\ j \in 0 .. j
  BY WordIs
<1>2. p \in Word /\ Len(p) = j /\ \A i \in 1 .. j : p[i] = s[i]
  BY <1>1, BeginningIs
<1>3. Cuts(p, ".")[j] = x
  BY <1>1, CutsOfBeginning
<1>4. Cut(s, ".", j, x)
  BY <1>1, CutsAre
<1>5. /\ st.dots = m - 1 /\ st.sp = x[m] + 1
      /\ \A q \in st.sp .. j : IsDigit(s[q])
      /\ \A k \in 1 .. m - 1 :
           /\ Octet(SubSeq(s, x[k] + 1, x[k + 1] - 1))
           /\ SubSeq(s, x[k] + 1, x[k + 1] - 1) = <<>> => k = 1
      /\ st.dots > 0 /\ st.sp = j + 1 => At(s, j + 1) \notin {".", "/"} \cup {End}
  BY DEF Shape
<1> HIDE DEF x
<1>6. /\ x \in Seq(Nat) /\ m \in Nat /\ m >= 1 /\ \A k \in 1 .. m : x[k] \in Nat /\ x[k] <= j
      /\ \A k \in 1 .. m - 1 : x[k] < x[k + 1]
  BY <1>4 DEF Cut
<1>7. st.sp # j + 1
  <2>1. At(s, j + 1) = "/"
    <3>1. j + 1 \in 1 .. Len(s)
      BY <1>1
    <3>2. QED
      BY <3>1, WordIs
  <2>2. QED
    BY <1>5, <2>1
<1>8. ASSUME NEW k \in 1 .. m - 1
      PROVE  SubSeq(p, x[k] + 1, x[k + 1] - 1) = SubSeq(s, x[k] + 1, x[k + 1] - 1)
  <2>1. k \in 1 .. m /\ k + 1 \in 1 .. m /\ x[k] < x[k + 1]
    BY <1>6
  <2>2. PICK a \in Nat, b \in Nat : x[k] = a /\ x[k + 1] = b /\ a < b /\ b <= j
    BY <1>6, <2>1
  <2>3. a + 1 \in Nat \ {0} /\ b - 1 \in 0 .. j
    BY <1>1, <2>2
  <2>4. QED
    BY <1>1, <2>2, <2>3, BeginningIs
<1>9. st.sp \in Nat \ {0}
  BY DEF GroupStates
<1>10. \A q \in st.sp .. j : q \in 1 .. j
  BY <1>9
<1>11. SubSeq(p, st.sp, j) = SubSeq(s, st.sp, j)
  BY <1>1, <1>9, BeginningIs
<1> HIDE DEF p, m
<1>12. Shape(p, st, j, {"."})
  <2>1. \A q \in st.sp .. j : IsDigit(p[q])
    BY <1>2, <1>5, <1>10
  <2>2. \A k \in 1 .. m - 1 :
           /\ Octet(SubSeq(p, x[k] + 1, x[k + 1] - 1))
           /\ SubSeq(p, x[k] + 1, x[k + 1] - 1) = <<>> => k = 1
    BY <1>5, <1>8
  <2>3. QED
    BY <1>3, <1>5, <1>7, <2>1, <2>2 DEF Shape, m
<1>13. Group(p, st.sp, j + 1)
  <2>1. (j + 1) - 1 = j
    BY <1>1
  <2>2. QED
    BY <1>11, <2>1 DEF Group
<1>14. Dotted(p)
  BY <1>2, <1>12, <1>13, ShapeAtEnd
<1>15. QED
  BY <1>14 DEF p

LEMMA PrefixShapeNext ==
    ASSUME NEW s \in Word, NEW st \in GroupStates, st.v = Go, NEW j \in 0 .. Len(s) - 1,
           PrefixShape(s, st, j), PrefixStep(s, st, j + 1).v = Go
    PROVE  PrefixShape(s, PrefixStep(s, st, j + 1), j + 1)
<1> DEFINE i == j + 1
           e == PrefixStep(s, st, i)
<1>1. Len(s) \in Nat /\ j \in Nat /\ i \in 1 .. Len(s) /\ i \in Nat /\ i + 1 \in Nat /\ st.mask \in Nat /\ i - 1 = j
  BY WordIs DEF GroupStates
<1>2. e.v = Go
  OBVIOUS
<1>3. SUFFICES PrefixShape(s, e, i)
  OBVIOUS
<1>4. CASE st.mask # 0
  <2>1. e = IF IsDigit(s[i]) THEN st ELSE [st EXCEPT !.v = No]
    BY <1>1, <1>4 DEF PrefixStep
  <2>2. [st EXCEPT !.v = No].v = No
    BY DEF GroupStates
  <2> HIDE DEF e
  <2>3. IsDigit(s[i]) /\ e = st
    BY <1>2, <2>1, <2>2, GoIsNot
  <2>4. /\ st.mask \in 2 .. j + 1 /\ st.mask <= Len(s) /\ s[st.mask - 1] = "/"
        /\ \A q \in st.mask .. j : IsDigit(s[q])
        /\ (\A q \in 1 .. st.mask - 2 : s[q] # "/") => Dotted(SubSeq(s, 1, st.mask - 2))
    BY <1>4 DEF PrefixShape
  <2>5. st.mask \in 2 .. i + 1
    BY <1>1, <2>4
  <2>6. \A q \in st.mask .. i : q \in st.mask .. j \/ q = i
    BY <1>1, <2>4
  <2>7. \A q \in st.mask .. i : IsDigit(s[q])
    BY <2>3, <2>4, <2>6
  <2>8. QED
    BY <1>4, <2>3, <2>4, <2>5, <2>7 DEF PrefixShape
<1>5. CASE st.mask = 0 /\ s[i] = "/" /\ st.dots = 3 /\ Group(s, st.sp, i)
  <2>1. e = [st EXCEPT !.v = IF At(s, i + 1) = End THEN Partly ELSE Go, !.mask = i + 1]
    BY <1>5 DEF PrefixStep
  <2>2. e.mask = i + 1 /\ e.v = IF At(s, i + 1) = End THEN Partly ELSE Go
    BY <2>1 DEF GroupStates
  <2> HIDE DEF e
  <2>3. At(s, i + 1) # End
    BY <1>2, <2>2, GoIsNot
  <2>4. i + 1 \in 1 .. Len(s)
    BY <1>1, <2>3, WordIs
  <2>5. (\A q \in 1 .. j : s[q] # "/") => Dotted(SubSeq(s, 1, j))
    <3>1. SUFFICES ASSUME \A q \in 1 .. j : s[q] # "/" PROVE Dotted(SubSeq(s, 1, j))
      OBVIOUS
    <3>2. Shape(s, st, j, {".", "/"})
      BY <1>5, <3>1 DEF PrefixShape
    <3>3. QED
      BY <1>5, <3>2, SlashAfterFour
  <2>6. e.mask \in 2 .. i + 1 /\ e.mask <= Len(s) /\ e.mask - 1 = i /\ e.mask - 2 = j /\ e.mask .. i = {} /\ e.mask # 0
    BY <1>1, <2>2, <2>4
  <2>7. s[e.mask - 1] = "/" /\ \A q \in e.mask .. i : IsDigit(s[q])
    BY <1>5, <2>6
  <2>8. (\A q \in 1 .. e.mask - 2 : s[q] # "/") => Dotted(SubSeq(s, 1, e.mask - 2))
    BY <2>5, <2>6
  <2> HIDE DEF i
  <2>9. QED
    BY <2>6, <2>7, <2>8 DEF PrefixShape
<1>6. CASE st.mask = 0 /\ ~(s[i] = "/" /\ st.dots = 3 /\ Group(s, st.sp, i))
  <2> DEFINE ends == {".", "/"}
  <2>1. e = GroupStep(s, st, i, ends)
    BY <1>6 DEF PrefixStep
  <2>2. "." \in ends /\ ends \subseteq {".", "/"}
    OBVIOUS
  <2>3. (\A q \in 1 .. j : s[q] # "/") => Shape(s, st, j, ends)
    BY <1>6 DEF PrefixShape
  <2> HIDE DEF ends, e
  <2>4. e.mask = 0
    <3>1. GroupStep(s, st, i, ends).mask = st.mask
      BY <1>1, GroupStepType
    <3>2. QED
      BY <1>6, <2>1, <3>1
  <2>5. ASSUME \A q \in 1 .. i : s[q] # "/" PROVE Shape(s, e, i, ends)
    <3>1. i \in 1 .. i /\ \A q \in 1 .. j : q \in 1 .. i
      BY <1>1
    <3>2. Shape(s, st, j, ends) /\ s[j + 1] # "/"
      BY <2>3, <2>5, <3>1
    <3>3. GroupStep(s, st, j + 1, ends).v = Go
      BY <1>2, <2>1
    <3>4. Shape(s, GroupStep(s, st, j + 1, ends), j + 1, ends)
      BY <2>2, <3>2, <3>3, ShapeNext
    <3>5. QED
      BY <2>1, <3>4
  <2>6. QED
    BY <2>4, <2>5 DEF PrefixShape, ends
<1>7. QED
  BY <1>4, <1>5, <1>6

LEMMA PrefixShapes ==
    ASSUME NEW s \in Word
    PROVE  \A i \in 0 .. Len(s) : PrefixScan(s)[i].v = Go => PrefixShape(s, PrefixScan(s)[i], i)
<1> DEFINE f == PrefixScan(s)
           n == Len(s)
           G == {i \in 0 .. n : f[i].v = Go => PrefixShape(s, f[i], i)}
<1>1. /\ n \in Nat /\ f \in [0 .. n -> GroupStates] /\ f[0] = GroupStart
      /\ \A i \in 1 .. n : f[i] = PrefixStep(s, f[i - 1], i)
  BY WordIs, PrefixScanIs
<1> HIDE DEF f
<1>2. 0 \in G
  <2> DEFINE st == GroupStart
  <2>1. st.mask = 0
    BY StartType
  <2>2. Shape(s, st, 0, {".", "/"})
    BY ShapeFirst
  <2> HIDE DEF st
  <2>3. PrefixShape(s, st, 0)
    BY <2>1, <2>2 DEF PrefixShape
  <2>4. QED
    BY <1>1, <2>3 DEF st
<1>3. ASSUME NEW j \in 0 .. n - 1, j \in G PROVE j + 1 \in G
  <2>1. j + 1 \in 1 .. n /\ j + 1 \in 0 .. n /\ j \in 0 .. n /\ (j + 1) - 1 = j
    BY <1>1
  <2>2. f[j + 1] = PrefixStep(s, f[j], j + 1) /\ f[j] \in GroupStates
    BY <1>1, <2>1
  <2>3. SUFFICES ASSUME f[j + 1].v = Go PROVE PrefixShape(s, f[j + 1], j + 1)
    BY <2>1
  <2>4. f[j].v = Go
    BY <2>2, <2>3 DEF PrefixStep
  <2>5. PrefixShape(s, f[j], j)
    BY <1>3, <2>4
  <2>6. QED
    BY <2>2, <2>3, <2>4, <2>5, PrefixShapeNext
<1> HIDE DEF G
<1>4. 0 .. n \subseteq G
  BY <1>1, <1>2, <1>3, UpTo
<1>5. QED
  BY <1>4 DEF G, f

(* The last group, where the last separator is known. *)
LEMMA LastGroup ==
    ASSUME NEW s \in Word, NEW sep, NEW m \in 1 .. Len(s), s[m] = sep, \A q \in m + 1 .. Len(s) : s[q] # sep
    PROVE  LET g == Groups(s, sep)
           IN  /\ Len(g) > 1 /\ Last(g) = SubSeq(s, m + 1, Len(s))
               /\ Len(g) = 2 => g[1] = SubSeq(s, 1, m - 1) /\ \A q \in 1 .. m - 1 : s[q] # sep
<1> DEFINE n == Len(s)
           x == Cuts(s, sep)[n]
           g == Groups(s, sep)
           l == Len(x)
<1>1. n \in Nat /\ n \in 0 .. n /\ m \in Nat
  BY WordIs
<1>2. Cut(s, sep, n, x)
  BY <1>1, CutsAre
<1>3. /\ Len(g) = l /\ l \in Nat \ {0}
      /\ \A k \in 1 .. l - 1 : g[k] = SubSeq(s, x[k] + 1, x[k + 1] - 1)
      /\ g[l] = SubSeq(s, x[l] + 1, n)
  BY GroupsAre
<1>4. /\ x \in Seq(Nat) /\ x[1] = 0
      /\ \A k \in 1 .. l : x[k] \in Nat /\ x[k] <= n
      /\ \A k \in 2 .. l : x[k] >= 1 /\ s[x[k]] = sep
      /\ \A k \in 1 .. l - 1 : x[k] < x[k + 1] /\ \A q \in x[k] + 1 .. x[k + 1] - 1 : s[q] # sep
      /\ \A q \in x[l] + 1 .. n : s[q] # sep
  BY <1>2 DEF Cut
<1> HIDE DEF x, g, l
<1>5. l \in 1 .. l /\ x[l] \in Nat /\ x[l] <= n
  BY <1>3, <1>4
<1>6. m <= x[l]
  BY <1>1, <1>4, <1>5
<1>7. l \in 2 .. l
  BY <1>3, <1>4, <1>5, <1>6
<1>8. x[l] = m
  BY <1>1, <1>4, <1>5, <1>6, <1>7
<1>9. Len(g) > 1 /\ Last(g) = SubSeq(s, m + 1, n)
  BY <1>3, <1>7, <1>8 DEF Last
<1>10. ASSUME l = 2 PROVE g[1] = SubSeq(s, 1, m - 1) /\ \A q \in 1 .. m - 1 : s[q] # sep
  <2>1. 1 \in 1 .. l - 1 /\ x[1] = 0 /\ x[1 + 1] = m /\ x[1] + 1 = 1
    BY <1>4, <1>8, <1>10
  <2>2. QED
    BY <1>3, <1>4, <2>1
<1>11. QED
  BY <1>3, <1>9, <1>10 DEF g, n

LEMMA PrefixExactIs ==
    ASSUME NEW s \in Word, Ipv4Prefix(s) = Exact
    PROVE  Masked(s, 32) /\ (Len(Groups(s, "/")) = 2 => Dotted(Address(s)))
<1> DEFINE n == Len(s)
           st == PrefixScan(s)[n]
<1>1. n \in Nat /\ n \in 0 .. n /\ st \in GroupStates
  BY WordIs, PrefixBegins
<1>2. st.v = Go /\ st.mask # 0 /\ ~(Number(SubSeq(s, st.mask, n)) > 32)
  BY <1>1, GoIsNot DEF Ipv4Prefix, GroupStates
<1>3. PrefixShape(s, st, n)
  BY <1>1, <1>2, PrefixShapes
<1> HIDE DEF st
<1> DEFINE m == st.mask
<1>4. /\ m \in 2 .. n + 1 /\ m <= n /\ s[m - 1] = "/"
      /\ \A q \in m .. n : IsDigit(s[q])
      /\ (\A q \in 1 .. m - 2 : s[q] # "/") => Dotted(SubSeq(s, 1, m - 2))
  BY <1>2, <1>3 DEF PrefixShape
<1> HIDE DEF m
<1>5. m \in Nat \ {0} /\ m - 1 \in 1 .. n /\ (m - 1) + 1 = m /\ (m - 1) - 1 = m - 2
  BY <1>1, <1>4
<1>6. \A q \in (m - 1) + 1 .. n : s[q] # "/"
  BY <1>4, <1>5, DigitsApart
<1>7. LET g == Groups(s, "/")
      IN  /\ Len(g) > 1 /\ Last(g) = SubSeq(s, m, n)
          /\ Len(g) = 2 => g[1] = SubSeq(s, 1, m - 2) /\ \A q \in 1 .. m - 2 : s[q] # "/"
  <2> DEFINE r == m - 1
  <2>1. r \in 1 .. Len(s) /\ s[r] = "/" /\ \A q \in r + 1 .. Len(s) : s[q] # "/"
    BY <1>4, <1>5, <1>6
  <2> HIDE DEF r, n
  <2>2. LET g == Groups(s, "/")
        IN  /\ Len(g) > 1 /\ Last(g) = SubSeq(s, r + 1, Len(s))
            /\ Len(g) = 2 => g[1] = SubSeq(s, 1, r - 1) /\ \A q \in 1 .. r - 1 : s[q] # "/"
    BY <2>1, LastGroup
  <2>3. r + 1 = m /\ r - 1 = m - 2
    BY <1>5 DEF r
  <2>4. QED
    BY <2>2, <2>3 DEF n
<1> DEFINE u == SubSeq(s, m, n)
<1>8. IsNumber(u)
  <2>1. /\ u \in Word /\ Len(u) = n - m + 1 /\ \A i \in 1 .. Len(u) : u[i] = s[m + i - 1]
    BY <1>1, <1>4, <1>5, PartIs
  <2> HIDE DEF u
  <2>2. DOMAIN u = 1 .. Len(u) /\ u # <<>>
    <3>1. Len(u) # 0
      BY <1>1, <1>4, <1>5, <2>1
    <3>2. u # <<>>
      BY <3>1
    <3>3. QED
      BY <2>1, <3>2, WordIs
  <2>3. ASSUME NEW i \in 1 .. Len(u) PROVE IsDigit(u[i])
    <3>1. m + i - 1 \in m .. n
      BY <1>1, <1>5, <2>1
    <3>2. QED
      BY <1>4, <2>1, <3>1
  <2>4. QED
    BY <2>2, <2>3 DEF IsNumber, AllDigits
<1>9. Number(u) <= 32
  <2>1. u \in Word
    BY <1>1, <1>5, PartIs
  <2>2. Number(u) \in Int
    BY <2>1, NumberType
  <2>3. ~(Number(u) > 32)
    BY <1>2 DEF m
  <2> HIDE DEF u
  <2>4. QED
    BY <2>2, <2>3
<1> HIDE DEF u, n
<1>10. Masked(s, 32)
  BY <1>7, <1>8, <1>9 DEF Masked, u
<1>11. Len(Groups(s, "/")) = 2 => Dotted(Address(s))
  BY <1>4, <1>7 DEF Address
<1>12. QED
  BY <1>10, <1>11

(* And conversely: an address with a mask is complete.  Before the slash   *)
(* the scan is that of the address alone, which ends in a digit.           *)
LEMMA OneSlash ==
    ASSUME NEW s \in Word, Len(Groups(s, "/")) = 2
    PROVE  \E m \in 1 .. Len(s) : /\ s[m] = "/" /\ \A q \in 1 .. m - 1 : s[q] # "/"
                                  /\ \A q \in m + 1 .. Len(s) : s[q] # "/"
<1> DEFINE n == Len(s)
           x == Cuts(s, "/")[n]
<1>1. n \in Nat /\ n \in 0 .. n
  BY WordIs
<1>2. Cut(s, "/", n, x)
  BY <1>1, CutsAre
<1>3. Len(x) = 2
  BY GroupsAre
<1> HIDE DEF x, n
<1>4. /\ x[1] = 0 /\ \A k \in 1 .. 2 : x[k] \in Nat /\ x[k] <= n
      /\ \A k \in 2 .. 2 : x[k] >= 1 /\ s[x[k]] = "/"
      /\ \A k \in 1 .. 1 : \A q \in x[k] + 1 .. x[k + 1] - 1 : s[q] # "/"
      /\ \A q \in x[2] + 1 .. n : s[q] # "/"
  BY <1>2, <1>3 DEF Cut
<1>5. x[2] \in Nat /\ x[2] <= n /\ x[2] >= 1 /\ s[x[2]] = "/"
  BY <1>4
<1>6. \A q \in 1 .. x[2] - 1 : s[q] # "/"
  <2>1. \A q \in x[1] + 1 .. x[1 + 1] - 1 : s[q] # "/"
    BY <1>4
  <2>2. x[1] + 1 = 1 /\ 1 + 1 = 2
    BY <1>4
  <2>3. QED
    BY <2>1, <2>2
<1>7. x[2] \in 1 .. n
  BY <1>1, <1>5
<1>8. QED
  BY <1>4, <1>5, <1>6, <1>7 DEF n

(* A step before the slash is one of the address alone. *)
LEMMA BeforeSlash ==
    ASSUME NEW s \in Word, NEW m \in 1 .. Len(s), \A q \in 1 .. m - 1 : s[q] # "/",
           m > 1 => s[m - 1] # ".",
           NEW st \in GroupStates, st.mask = 0, NEW i \in 1 .. m - 1, st.sp <= i
    PROVE  PrefixStep(s, st, i) = Ipv4Step(SubSeq(s, 1, m - 1), st, i)
<1> DEFINE p == SubSeq(s, 1, m - 1)
<1>1. Len(s) \in Nat /\ m \in Nat /\ m - 1 \in 0 .. Len(s) /\ i \in Nat /\ i \in 1 .. Len(s) /\ i \in Int /\ i + 1 \in Int
  BY WordIs
<1>2. /\ p \in Word /\ Len(p) = m - 1 /\ \A q \in 1 .. m - 1 : p[q] = s[q]
      /\ \A a \in Nat \ {0}, b \in 0 .. m - 1 : SubSeq(p, a, b) = SubSeq(s, a, b)
  BY <1>1, BeginningIs
<1>3. p[i] = s[i] /\ s[i] # "/"
  BY <1>2
<1>4. Group(p, st.sp, i) = Group(s, st.sp, i)
  <2>1. st.sp \in Nat \ {0} /\ i - 1 \in 0 .. m - 1
    BY <1>1 DEF GroupStates
  <2>2. SubSeq(p, st.sp, i - 1) = SubSeq(s, st.sp, i - 1)
    BY <1>2, <2>1
  <2>3. QED
    BY <2>2 DEF Group
<1>5. s[i] = "." => /\ At(p, i + 1) = At(s, i + 1)
                    /\ At(s, i + 1) # "/"
  <2>1. SUFFICES ASSUME s[i] = "." PROVE At(p, i + 1) = At(s, i + 1) /\ At(s, i + 1) # "/"
    OBVIOUS
  <2>2. i # m - 1
    BY <1>1, <2>1
  <2>3. i + 1 \in 1 .. m - 1 /\ i + 1 \in 1 .. Len(s) /\ i + 1 \in 1 .. Len(p)
    BY <1>1, <1>2, <2>2
  <2>4. At(p, i + 1) = p[i + 1] /\ At(s, i + 1) = s[i + 1]
    BY <1>1, <1>2, <2>3, WordIs
  <2>5. p[i + 1] = s[i + 1] /\ s[i + 1] # "/"
    BY <1>2, <2>3
  <2>6. QED
    BY <2>4, <2>5
<1> HIDE DEF p
<1>6. GroupStep(s, st, i, {".", "/"}) = GroupStep(p, st, i, {"."})
  <2>1. CASE s[i] = "."
    <3>1. At(s, i + 1) \in {".", "/"} <=> At(p, i + 1) \in {"."}
      BY <1>5, <2>1
    <3>2. QED
      BY <1>3, <1>4, <1>5, <2>1, <3>1 DEF GroupStep
  <2>2. CASE s[i] # "."
    BY <1>3, <2>2 DEF GroupStep
  <2>3. QED
    BY <2>1, <2>2
<1>7. PrefixStep(s, st, i) = IF st.v = Go THEN GroupStep(s, st, i, {".", "/"}) ELSE st
  BY <1>3 DEF PrefixStep
<1>8. QED
  BY <1>6, <1>7 DEF Ipv4Step, p

LEMMA PrefixComplete ==
    ASSUME NEW s \in Word, Len(Groups(s, "/")) = 2, Dotted(Address(s)), Masked(s, 32)
    PROVE  Ipv4Prefix(s) = Exact
<1> DEFINE n == Len(s)
           f == PrefixScan(s)
<1>1. /\ n \in Nat /\ f \in [0 .. n -> GroupStates] /\ f[0] = GroupStart
      /\ \A i \in 1 .. n : f[i] = PrefixStep(s, f[i - 1], i)
  BY WordIs, PrefixScanIs
<1>2. PICK m \in 1 .. n : /\ s[m] = "/" /\ \A q \in 1 .. m - 1 : s[q] # "/"
                          /\ \A q \in m + 1 .. n : s[q] # "/"
  BY OneSlash
<1> DEFINE p == SubSeq(s, 1, m - 1)
           u == SubSeq(s, m + 1, n)
           h == Ipv4Scan(p)
           b == m - 1
<1>3. b \in Nat /\ b \in 0 .. n /\ m \in Nat /\ m + 1 \in Nat \ {0} /\ n \in 0 .. n /\ m = b + 1
  BY <1>1
<1>4. /\ p \in Word /\ Len(p) = b /\ \A q \in 1 .. b : p[q] = s[q]
      /\ \A a \in Nat \ {0}, c \in 0 .. b : SubSeq(p, a, c) = SubSeq(s, a, c)
  BY <1>3, BeginningIs
<1>5. Address(s) = p
  BY <1>2, LastGroup DEF Address
<1>6. Last(Groups(s, "/")) = u
  BY <1>2, LastGroup
<1>7. u # <<>> /\ AllDigits(u) /\ Number(u) <= 32
  BY <1>6 DEF Masked, IsNumber
<1>8. /\ h \in [0 .. b -> GroupStates] /\ h[0] = GroupStart
      /\ \A i \in 1 .. b : h[i] = Ipv4Step(p, h[i - 1], i)
      /\ \A i \in 0 .. b : h[i] \in GroupStates /\ h[i].sp <= i + 1
  BY <1>4, Ipv4ScanIs, Ipv4Begins
<1>9. h[b].v = Go /\ Group(p, h[b].sp, b + 1) /\ h[b].dots = 3
  <2>1. GoodIp(p)
    BY <1>4, <1>5, Ipv4ExactIs
  <2>2. QED
    BY <1>4, <2>1 DEF GoodIp
<1> HIDE DEF f, h, p, u, n
<1>10. m > 1 => s[m - 1] # "."
  <2>1. SUFFICES ASSUME m > 1, s[b] = "." PROVE FALSE
    OBVIOUS
  <2>2. b \in 1 .. b /\ b \in 1 .. Len(p) /\ b - 1 \in 0 .. b /\ b \in Int /\ b + 1 \in Int
    BY <1>3, <1>4, <2>1
  <2>3. h[b] = Ipv4Step(p, h[b - 1], b) /\ h[b - 1] \in GroupStates /\ p[b] = "."
    BY <1>4, <1>8, <2>1, <2>2
  <2>4. h[b - 1].v = Go
    BY <1>9, <2>3 DEF Ipv4Step
  <2>5. h[b] = GroupStep(p, h[b - 1], b, {"."})
    BY <2>3, <2>4 DEF Ipv4Step
  <2>6. At(p, b + 1) = End
    <3>1. b + 1 \notin 1 .. Len(p)
      BY <1>3, <1>4
    <3>2. QED
      BY <1>4, <2>2, <3>1, WordIs
  <2>7. GroupStep(p, h[b - 1], b, {"."}).v \in {No, Partly}
    <3> DEFINE e == h[b - 1]
               ends == {"."}
    <3>1. e \in GroupStates /\ e.v = Go /\ p \in Word /\ "." \in ends /\ ends \subseteq {".", "/"}
      BY <1>4, <2>3, <2>4
    <3>2. b \in 1 .. Len(p) /\ p[b] = "." /\ At(p, b + 1) = End
      BY <2>2, <2>3, <2>6
    <3> HIDE DEF e, ends, b
    <3>3. GroupStep(p, e, b, ends).v \in {No, Partly}
      BY <3>1, <3>2, GroupStepIs
    <3>4. QED
      BY <3>3 DEF e, ends
  <2>8. QED
    BY <1>9, <2>5, <2>7, GoIsNot
<1>11. \A k \in 0 .. b : f[k] = h[k] /\ f[k].mask = 0
  <2> DEFINE G == {k \in 0 .. b : f[k] = h[k] /\ f[k].mask = 0}
  <2>1. 0 \in G
    BY <1>1, <1>3, <1>8, StartType DEF GroupStart
  <2>2. ASSUME NEW k \in 0 .. b - 1, k \in G PROVE k + 1 \in G
    <3> DEFINE i == k + 1
    <3>1. i \in 1 .. b /\ i \in 0 .. b /\ i \in 1 .. n /\ k \in 0 .. b /\ i - 1 = k
      BY <1>1, <1>3
    <3>2. /\ f[i] = PrefixStep(s, f[k], i) /\ h[i] = Ipv4Step(p, h[k], i)
          /\ f[k] = h[k] /\ f[k].mask = 0 /\ h[k] \in GroupStates /\ h[k].sp <= k + 1
      BY <1>1, <1>8, <2>2, <3>1
    <3> HIDE DEF i
    <3>3. PrefixStep(s, h[k], i) = Ipv4Step(p, h[k], i)
      <4>1. h[k].sp <= i /\ h[k].mask = 0 /\ h[k] \in GroupStates /\ i \in 1 .. m - 1 /\ m \in 1 .. Len(s)
        BY <1>3, <3>1, <3>2 DEF i, n
      <4>2. \A q \in 1 .. m - 1 : s[q] # "/"
        BY <1>2
      <4> DEFINE e == h[k]
      <4> HIDE DEF e, b
      <4>3. PrefixStep(s, e, i) = Ipv4Step(SubSeq(s, 1, m - 1), e, i)
        BY <1>10, <4>1, <4>2, BeforeSlash DEF e
      <4>4. QED
        BY <4>3 DEF e, p
    <3>4. Ipv4Step(p, h[k], i).mask = 0
      <4>1. i \in 1 .. Len(p)
        BY <1>4, <3>1
      <4>2. GroupStep(p, h[k], i, {"."}).mask = h[k].mask
        BY <1>4, <3>2, <4>1, GroupStepType
      <4>3. QED
        BY <3>2, <4>2 DEF Ipv4Step
    <3>5. f[i] = h[i] /\ f[i].mask = 0
      BY <3>2, <3>3, <3>4
    <3>6. i \in G
      BY <3>1, <3>5
    <3>7. QED
      BY <3>6 DEF i
  <2> HIDE DEF G
  <2>3. 0 .. b \subseteq G
    BY <1>3, <2>1, <2>2, UpTo
  <2>4. QED
    BY <2>3 DEF G
<1> DEFINE st == [h[b] EXCEPT !.v = Go, !.mask = m + 1]
<1>12. h[b] \in GroupStates /\ h[b].sp \in Nat \ {0} /\ f[b] = h[b] /\ h[b].mask = 0
  BY <1>3, <1>8, <1>11 DEF GroupStates
<1>13. st.v = Go /\ st.mask = m + 1
  BY <1>12 DEF GroupStates
<1>14. /\ u \in Word /\ Len(u) = n - m /\ m + 1 \in 1 .. n
       /\ \A q \in m + 1 .. n : IsDigit(s[q])
  <2>1. /\ u \in Word /\ Len(u) = IF m + 1 <= n THEN n - (m + 1) + 1 ELSE 0
        /\ \A i \in 1 .. Len(u) : u[i] = s[(m + 1) + i - 1]
    <3> DEFINE c == m + 1
    <3>1. c \in Nat \ {0} /\ n \in 0 .. Len(s)
      BY <1>3 DEF n
    <3> HIDE DEF c
    <3>2. /\ SubSeq(s, c, n) \in Word /\ Len(SubSeq(s, c, n)) = IF c <= n THEN n - c + 1 ELSE 0
          /\ \A i \in 1 .. Len(SubSeq(s, c, n)) : SubSeq(s, c, n)[i] = s[c + i - 1]
      BY <3>1, PartIs
    <3>3. QED
      BY <3>2 DEF c, u
  <2>2. Len(u) # 0
    BY <1>7, <2>1 DEF Word
  <2>3. m + 1 <= n /\ Len(u) = n - m
    BY <1>1, <1>3, <2>1, <2>2
  <2>4. ASSUME NEW q \in m + 1 .. n PROVE IsDigit(s[q])
    <3>1. q - m \in 1 .. Len(u) /\ (m + 1) + (q - m) - 1 = q
      BY <1>1, <1>3, <2>3
    <3>2. u[q - m] = s[q] /\ q - m \in DOMAIN u
      BY <2>1, <3>1, WordIs
    <3>3. QED
      BY <1>7, <3>2 DEF AllDigits
  <2>5. QED
    BY <1>3, <2>1, <2>3, <2>4
<1>15. f[m] = st
  <2>1. f[m] = PrefixStep(s, h[b], m)
    BY <1>1, <1>2, <1>12
  <2>2. Group(s, h[b].sp, m)
    <3>1. SubSeq(p, h[b].sp, b) = SubSeq(s, h[b].sp, b)
      <4>1. PICK a \in Nat \ {0} : a = h[b].sp
        BY <1>12
      <4>2. b \in 0 .. b
        BY <1>3
      <4> HIDE DEF b
      <4>3. SubSeq(p, a, b) = SubSeq(s, a, b)
        BY <1>4, <4>2
      <4>4. QED
        BY <4>1, <4>3
    <3>2. (b + 1) - 1 = b /\ m - 1 = b
      BY <1>3
    <3> HIDE DEF b
    <3>3. QED
      BY <1>3, <1>9, <3>1, <3>2 DEF Group
  <2>3. At(s, m + 1) # End
    BY <1>14, WordIs DEF n
  <2>4. QED
    BY <1>2, <1>9, <1>12, <2>1, <2>2, <2>3 DEF PrefixStep
<1> HIDE DEF st
<1>16. m .. n \subseteq {k \in m .. n : f[k] = st}
  <2> DEFINE G == {k \in m .. n : f[k] = st}
  <2>1. m \in G /\ m <= n
    BY <1>1, <1>3, <1>15
  <2>2. ASSUME NEW k \in m .. n - 1, k \in G PROVE k + 1 \in G
    <3>1. k + 1 \in 1 .. n /\ k + 1 \in m .. n /\ k + 1 \in m + 1 .. n /\ (k + 1) - 1 = k
      BY <1>1, <1>3
    <3>2. f[k + 1] = PrefixStep(s, st, k + 1) /\ IsDigit(s[k + 1])
      BY <1>1, <1>14, <2>2, <3>1
    <3>3. st.mask > 0
      BY <1>3, <1>13
    <3>4. QED
      BY <1>13, <3>1, <3>2, <3>3 DEF PrefixStep
  <2> HIDE DEF G
  <2>3. m .. n \subseteq G
    BY <1>1, <1>3, <2>1, <2>2, From
  <2>4. QED
    BY <2>3 DEF G
<1>17. f[n] = st
  <2>1. n \in m .. n
    BY <1>1, <1>2
  <2>2. QED
    BY <1>16, <2>1
<1>18. ~(Number(SubSeq(s, st.mask, n)) > 32) /\ st.mask # 0
  <2>1. Number(u) \in Int
    BY <1>14, NumberType
  <2>2. ~(Number(u) > 32)
    BY <1>7, <2>1
  <2>3. QED
    BY <1>3, <1>13, <2>2 DEF u
<1>19. QED
  BY <1>13, <1>17, <1>18 DEF Ipv4Prefix, f, n

(* cmd_ipv4_prefix_match of an address with one slash *)
LEMMA OneSlashExact ==
    ASSUME NEW s \in Word, Len(Groups(s, "/")) = 2
    PROVE  Ipv4Prefix(s) = Exact <=> Masked(s, 32) /\ Dotted(Address(s))
  BY PrefixComplete, PrefixExactIs

-----------------------------------------------------------------------------
(* IPv6: exact, without dots, is groups of four and one double colon       *)

(* A step that goes on, before the mask. *)
SixSteps(s, st, i, prefix, d) ==
    LET nx == At(s, i + 1)
    IN  /\ d.colons <= 7
        /\ \/ st.state = "addr" /\ nx \notin Ends(prefix) /\ d = st
           \/ /\ st.state = "addr" /\ nx \in Ends(prefix) /\ ~TooLong(s, st, i, prefix)
              /\ d.state = AfterGroup(nx) /\ d.colons = st.colons /\ d.double = st.double
           \/ /\ st.state = "colon" /\ (prefix => nx # "/") /\ d.colons = st.colons + 1 /\ d.double = st.double
              /\ d.sp = i + 1 /\ d.state = IF nx = ":" THEN "double" ELSE "addr"
           \/ /\ st.state = "double" /\ ~st.double /\ nx # ":" /\ d.double /\ d.sp = i + 1
              /\ d.colons = (IF nx = End \/ (prefix /\ nx = "/") THEN st.colons ELSE st.colons + 1)
              /\ d.state = IF prefix /\ nx = "/" THEN "slash" ELSE "addr"

LEMMA SixStepsIs ==
    ASSUME NEW s \in Word, NEW prefix \in BOOLEAN, Undotted(s, prefix), NEW st \in SixStates(prefix), st.v = Go,
           NEW i \in 1 .. Len(s), st.state \in {"addr", "colon", "double"}, Ipv6Step(s, st, i, prefix).v = Go
    PROVE  SixSteps(s, st, i, prefix, Ipv6Step(s, st, i, prefix))
<1> DEFINE e == Ipv6State(s, st, i, prefix)
           d == Ipv6Step(s, st, i, prefix)
           nx == At(s, i + 1)
<1>1. d = Limited(e, prefix)
  BY DEF Ipv6Step
<1>2. e \in SixStates(prefix) /\ SteppedTo(s, st, i, prefix, e)
  BY SixStateIs
<1>3. d.v = Go
  OBVIOUS
<1>4. SUFFICES SixSteps(s, st, i, prefix, d)
  OBVIOUS
<1> HIDE DEF e, d, nx
<1>5. IF e.v = Go /\ (e.nums > Most(prefix) \/ e.colons > 7) THEN d.v = No ELSE d = e
  BY <1>1, <1>2, LimitedIs
<1>6. d = e /\ e.v = Go /\ e.colons <= 7
  <2>1. d = e /\ e.v = Go /\ ~(e.colons > 7)
    BY <1>3, <1>5, GoIsNot
  <2>2. e.colons \in Int
    BY <1>2 DEF SixStates
  <2>3. QED
    BY <2>1, <2>2
<1>7. CASE st.state = "colon"
  BY <1>2, <1>6, <1>7, GoIsNot DEF SteppedTo, SixSteps
<1>8. CASE st.state = "double"
  <2>1. st.double \in BOOLEAN
    BY DEF SixStates
  <2>2. QED
    BY <1>2, <1>6, <1>8, <2>1, GoIsNot DEF SteppedTo, SixSteps
<1>9. CASE st.state = "addr"
  BY <1>2, <1>6, <1>9, GoIsNot DEF SteppedTo, SixSteps
<1>10. QED
  BY <1>7, <1>8, <1>9

(* The groups so far. *)
SixGroups(s, st, i, prefix) ==
    LET x  == Cuts(s, ":")[i]
        nx == At(s, i + 1)
    IN  /\ \A k \in 1 .. Len(x) - 1 : x[k + 1] - x[k] <= 5
        /\ st.state \in {"addr", "colon", "double", "slash"}
        /\ st.state = "addr" =>
             /\ nx # ":" /\ st.sp = x[Len(x)] + 1 /\ (nx = End => x[Len(x)] = i)
             /\ prefix => \A q \in 1 .. x[Len(x)] : s[q] # "/"
        /\ st.state # "addr" => i - x[Len(x)] <= 4 /\ (prefix => \A q \in 1 .. i : s[q] # "/")
        /\ st.state = "colon" => nx \in {":", End}
        /\ st.state = "double" => nx = ":"
        /\ st.state = "slash" => prefix /\ nx = "/"

(* The colons so far: a double one at the end is counted once. *)
SixColons(s, st, i) ==
    LET m  == Len(Cuts(s, ":")[i]) - 1
        nx == At(s, i + 1)
    IN  /\ st.colons <= 7
        /\ m <= st.colons + 1 \/ (m <= 2 /\ (nx = End \/ st.state = "slash"))
        /\ m <= st.colons \/ At(s, 1) = ":" \/ nx = End \/ st.state = "slash"
        /\ At(s, 1) = ":" =>
             /\ i <= 2 => m <= i
             /\ i = 0 => st.state = "colon" /\ At(s, 2) \in {":", End}
             /\ i = 1 => st.state = "double" \/ nx = End
             /\ i >= 2 => st.double

(* The double ones. *)
DoubleColons(s, i) == {q \in 1 .. i : s[q] = ":" /\ At(s, q + 1) = ":"}
SixDoubles(s, st, i) ==
    /\ st.state # "double" /\ DoubleColons(s, i) # {} => st.double
    /\ st.state = "double" /\ (\E q \in DoubleColons(s, i) : q # i) => st.double
    /\ \A q, r \in DoubleColons(s, i) : q = r \/ (st.state = "double" /\ (q = i \/ r = i))

LEMMA SixGroupsNext ==
    ASSUME NEW s \in Word, NEW prefix \in BOOLEAN, \A q \in 1 .. Len(s) : s[q] # ".", NEW st \in SixStates(prefix),
           NEW j \in 0 .. Len(s) - 1, SixGroups(s, st, j, prefix), NEW d, SixSteps(s, st, j + 1, prefix, d)
    PROVE  SixGroups(s, d, j + 1, prefix) /\ (st.state # "addr" <=> s[j + 1] = ":")
<1> DEFINE i == j + 1
           x == Cuts(s, ":")[j]
           z == Cuts(s, ":")[i]
           nx == At(s, i + 1)
           m == Len(x)
<1>1. Len(s) \in Nat /\ j \in Nat /\ i \in 1 .. Len(s) /\ j \in 0 .. Len(s) /\ i - 1 = j /\ i \in Nat /\ i + 1 \in Int /\ i \in 0 .. Len(s)
  BY WordIs
<1>2. z = IF s[i] = ":" THEN Append(x, i) ELSE x
  BY <1>1, CutsIs
<1>3. Cut(s, ":", j, x)
  BY <1>1, CutsAre
<1>4. /\ \A k \in 1 .. m - 1 : x[k + 1] - x[k] <= 5
      /\ st.state \in {"addr", "colon", "double", "slash"}
      /\ st.state = "addr" =>
           /\ s[i] # ":" /\ st.sp = x[m] + 1
           /\ prefix => \A q \in 1 .. x[m] : s[q] # "/"
      /\ st.state # "addr" => j - x[m] <= 4 /\ (prefix => \A q \in 1 .. j : s[q] # "/")
      /\ st.state \in {"colon", "double"} => s[i] = ":"
  <2>1. At(s, j + 1) = s[i] /\ s[i] # End
    BY <1>1, WordIs
  <2>2. QED
    BY <2>1 DEF SixGroups
<1>5. nx # "." /\ (nx \in Alphabet \cup {End}) /\ End \notin {":", "/", "."}
  BY <1>1, WordIs DEF End
<1>6. \/ st.state = "addr" /\ nx \notin Ends(prefix) /\ d = st
      \/ /\ st.state = "addr" /\ nx \in Ends(prefix) /\ ~TooLong(s, st, i, prefix)
         /\ d.state = AfterGroup(nx)
      \/ /\ st.state = "colon" /\ (prefix => nx # "/")
         /\ d.sp = i + 1 /\ d.state = IF nx = ":" THEN "double" ELSE "addr"
      \/ /\ st.state = "double" /\ nx # ":" /\ d.sp = i + 1
         /\ d.state = IF prefix /\ nx = "/" THEN "slash" ELSE "addr"
  BY DEF SixSteps
<1>7. st.sp \in Nat \ {0}
  BY DEF SixStates
<1> HIDE DEF x, z, nx, i
<1>8. /\ x \in Seq(Nat) /\ m \in Nat /\ m >= 1 /\ \A k \in 1 .. m : x[k] \in Nat /\ x[k] <= j
  BY <1>3 DEF Cut
<1>9. m \in 1 .. m /\ x[m] \in Nat /\ x[m] <= j
  BY <1>8
<1>10. st.state # "addr" <=> s[i] = ":"
  BY <1>4, <1>6
<1>11. CASE st.state = "addr" /\ nx \notin Ends(prefix) /\ d = st
  <2>1. z = x
    BY <1>2, <1>4, <1>11
  <2>2. nx # ":" /\ nx # End
    BY <1>11 DEF Ends
  <2>3. SixGroups(s, d, i, prefix)
    BY <1>4, <1>11, <2>1, <2>2 DEF SixGroups, z, nx
  <2>4. QED
    BY <1>10, <2>3 DEF i
<1>12. CASE st.state = "addr" /\ nx \in Ends(prefix) /\ ~TooLong(s, st, i, prefix) /\ d.state = AfterGroup(nx)
  <2>1. z = x
    BY <1>2, <1>4, <1>12
  <2>2. ~(i - st.sp > 3) /\ (prefix => "/" \notin ToSet(SubSeq(s, st.sp, i)))
    BY <1>12 DEF TooLong
  <2>3. i - x[m] <= 4
    <3>1. PICK l \in Nat : x[m] = l /\ st.sp = l + 1
      BY <1>4, <1>9, <1>12
    <3>2. QED
      BY <1>1, <2>2, <3>1
  <2>4. prefix => \A q \in 1 .. i : s[q] # "/"
    <3>1. SUFFICES ASSUME prefix, NEW q \in 1 .. i, s[q] = "/" PROVE FALSE
      OBVIOUS
    <3>2. CASE q <= x[m]
      <4>1. q \in 1 .. x[m]
        BY <1>9, <3>2
      <4>2. QED
        BY <1>4, <1>12, <3>1, <4>1
    <3>3. CASE q > x[m]
      <4> DEFINE u == SubSeq(s, st.sp, i)
      <4>1. PICK l \in Nat : x[m] = l /\ st.sp = l + 1 /\ l <= j
        BY <1>4, <1>9, <1>12
      <4>2. st.sp <= i /\ q >= st.sp /\ i >= q
        BY <1>1, <3>3, <4>1
      <4>3. u \in Word /\ Len(u) = i - st.sp + 1 /\ \A k \in 1 .. Len(u) : u[k] = s[st.sp + k - 1]
        BY <1>1, <1>7, <4>2, PartIs
      <4> HIDE DEF u
      <4>4. q - st.sp + 1 \in 1 .. Len(u) /\ st.sp + (q - st.sp + 1) - 1 = q
        <5>1. PICK a \in Nat \ {0} : st.sp = a
          BY <1>7
        <5>2. Len(u) = i - a + 1 /\ a <= i /\ q >= a /\ i >= q /\ q \in Int
          BY <4>2, <4>3, <5>1
        <5>3. q - a + 1 \in 1 .. Len(u) /\ a + (q - a + 1) - 1 = q
          BY <1>1, <5>2
        <5>4. QED
          BY <5>1, <5>3
      <4>5. u[q - st.sp + 1] = "/"
        BY <3>1, <4>3, <4>4
      <4>6. "/" \in ToSet(u)
        BY <4>3, <4>4, <4>5, InToSet DEF Word
      <4>7. QED
        BY <2>2, <3>1, <4>6 DEF u
    <3>4. QED
      BY <1>9, <3>2, <3>3
  <2>5. /\ d.state \in {"colon", "slash"} /\ (d.state = "colon" => nx \in {":", End})
        /\ d.state = "slash" => prefix /\ nx = "/"
    BY <1>5, <1>12 DEF AfterGroup, Ends
  <2>6. SixGroups(s, d, i, prefix)
    BY <1>4, <2>1, <2>3, <2>4, <2>5 DEF SixGroups, z, nx
  <2>7. QED
    BY <1>10, <2>6 DEF i
<1>13. CASE st.state \in {"colon", "double"}
  <2>1. z = Append(x, i)
    BY <1>2, <1>4, <1>13
  <2> HIDE DEF m
  <2>2. z \in Seq(Nat) /\ Len(z) = m + 1 /\ z[m + 1] = i /\ \A k \in 1 .. m : z[k] = x[k]
    BY <1>1, <1>8, <2>1 DEF m
  <2>3. ASSUME NEW k \in 1 .. Len(z) - 1 PROVE z[k + 1] - z[k] <= 5
    <3>1. CASE k = m
      <4>1. PICK l \in Nat : x[m] = l /\ j - l <= 4
        BY <1>4, <1>9, <1>13
      <4>2. z[k + 1] = i /\ z[k] = l
        BY <1>9, <2>2, <3>1, <4>1
      <4>3. i - l <= 5
        BY <1>1, <4>1
      <4>4. QED
        BY <4>2, <4>3
    <3>2. CASE k # m
      <4>1. k \in 1 .. m - 1 /\ k \in 1 .. m /\ k + 1 \in 1 .. m
        BY <1>8, <2>2, <3>2
      <4>2. QED
        BY <1>4, <2>2, <4>1
    <3>3. QED
      BY <3>1, <3>2
  <2>4. prefix => \A q \in 1 .. i : s[q] # "/"
    <3>1. \A q \in 1 .. i : q \in 1 .. j \/ q = i
      BY <1>1
    <3>2. QED
      BY <1>4, <1>13, <3>1
  <2>5. z[Len(z)] = i /\ i - i <= 4
    BY <1>1, <2>2
  <2>6. /\ d.state \in {"addr", "double", "slash"}
        /\ d.state = "addr" => nx # ":" /\ d.sp = i + 1
        /\ d.state = "double" => nx = ":"
        /\ d.state = "slash" => prefix /\ nx = "/"
    BY <1>6, <1>13
  <2>7. SixGroups(s, d, i, prefix)
    BY <2>3, <2>4, <2>5, <2>6 DEF SixGroups, z, nx
  <2>8. QED
    BY <1>10, <2>7 DEF i
<1>14. QED
  BY <1>6, <1>11, <1>12, <1>13

LEMMA SixColonsNext ==
    ASSUME NEW s \in Word, NEW prefix \in BOOLEAN, NEW st \in SixStates(prefix), NEW d \in SixStates(prefix),
           NEW j \in 0 .. Len(s) - 1, SixColons(s, st, j), NEW i, i = j + 1, st.state # "addr" <=> s[i] = ":",
           SixSteps(s, st, i, prefix, d)
    PROVE  SixColons(s, d, i)
<1> DEFINE x == Cuts(s, ":")[j]
           z == Cuts(s, ":")[i]
           nx == At(s, i + 1)
<1>1. Len(s) \in Nat /\ j \in Nat /\ i \in 1 .. Len(s) /\ j \in 0 .. Len(s) /\ i - 1 = j
  BY WordIs
<1>2. z = IF s[i] = ":" THEN Append(x, i) ELSE x
  BY <1>1, CutsIs
<1>3. x \in Seq(Nat) /\ Len(x) \in Nat
  BY <1>1, CutsAre DEF Cut
<1> HIDE DEF x, z
<1>4. Len(z) = IF s[i] = ":" THEN Len(x) + 1 ELSE Len(x)
  BY <1>1, <1>2, <1>3
<1>5. PICK m \in Int : m = Len(x) - 1
  BY <1>3
<1>6. PICK n \in Int : n = Len(z) - 1 /\ n = IF s[i] = ":" THEN m + 1 ELSE m
  BY <1>3, <1>4, <1>5
<1>7. PICK c \in Int : c = st.colons
  BY DEF SixStates
<1>8. PICK e \in Int : e = d.colons
  BY DEF SixStates
<1>9. At(s, i) # End /\ st.state # "slash" /\ (st.state = "addr" \/ st.state = "colon" \/ st.state = "double")
  BY <1>1, WordIs DEF SixSteps, At, Word
<1>10. /\ m <= c + 1
       /\ m <= c \/ At(s, 1) = ":"
       /\ At(s, 1) = ":" =>
            /\ j <= 2 => m <= j
            /\ j = 0 => st.state = "colon" /\ At(s, 2) \in {":", End}
            /\ j = 1 => st.state = "double"
            /\ j >= 2 => st.double
  <2>1. /\ m <= c + 1 \/ (m <= 2 /\ (At(s, i) = End \/ st.state = "slash"))
        /\ m <= c \/ At(s, 1) = ":" \/ At(s, i) = End \/ st.state = "slash"
        /\ At(s, 1) = ":" =>
             /\ j <= 2 => m <= j
             /\ j = 0 => st.state = "colon" /\ At(s, 2) \in {":", End}
             /\ j = 1 => st.state = "double" \/ At(s, i) = End
             /\ j >= 2 => st.double
    BY <1>5, <1>7 DEF SixColons, x
  <2>2. QED
    BY <1>9, <2>1
<1>11. e <= 7
  BY <1>8 DEF SixSteps
<1>12. nx = At(s, i + 1) /\ (i = 1 => nx = At(s, 2))
  OBVIOUS
<1>13. SUFFICES
         /\ n <= e + 1 \/ (n <= 2 /\ (nx = End \/ d.state = "slash"))
         /\ n <= e \/ At(s, 1) = ":" \/ nx = End \/ d.state = "slash"
         /\ At(s, 1) = ":" =>
              /\ i <= 2 => n <= i
              /\ i = 0 => d.state = "colon" /\ At(s, 2) \in {":", End}
              /\ i = 1 => d.state = "double" \/ nx = End
              /\ i >= 2 => d.double
  BY <1>6, <1>8, <1>11 DEF SixColons, z
<1>14. CASE st.state = "addr"
  <2>1. e = c /\ n = m /\ d.double = st.double
    BY <1>6, <1>7, <1>8, <1>14 DEF SixSteps
  <2>2. At(s, 1) = ":" => j >= 2
    BY <1>1, <1>10, <1>14
  <2> HIDE DEF nx
  <2>3. QED
    BY <1>1, <1>10, <2>1, <2>2
<1>15. CASE st.state = "colon"
  <2>1. e = c + 1 /\ n = m + 1 /\ d.double = st.double /\ d.state = IF nx = ":" THEN "double" ELSE "addr"
    BY <1>6, <1>7, <1>8, <1>15 DEF SixSteps
  <2>2. At(s, 1) = ":" => j # 1
    BY <1>10, <1>15
  <2> HIDE DEF nx
  <2>3. At(s, 1) = ":" /\ i = 1 => d.state = "double" \/ nx = End
    BY <1>1, <1>10, <1>12, <2>1
  <2>4. QED
    BY <1>1, <1>10, <2>1, <2>2, <2>3
<1>16. CASE st.state = "double"
  <2>1. n = m + 1 /\ d.double /\ ~st.double /\ (e = c + 1 \/ (e = c /\ (nx = End \/ d.state = "slash")))
    BY <1>6, <1>7, <1>8, <1>16 DEF SixSteps
  <2> HIDE DEF nx
  <2>2. m <= c \/ (At(s, 1) = ":" /\ j = 1 /\ m <= j)
    BY <1>1, <1>10, <1>16, <2>1
  <2>3. At(s, 1) = ":" => j # 0
    BY <1>10, <1>16
  <2>4. QED
    BY <1>1, <1>10, <2>1, <2>2, <2>3
<1>17. QED
  BY <1>9, <1>14, <1>15, <1>16

LEMMA SixDoublesNext ==
    ASSUME NEW s \in Word, NEW prefix \in BOOLEAN, NEW st \in SixStates(prefix), NEW d,
           \A q \in 1 .. Len(s) : s[q] # ".",
           NEW j \in 0 .. Len(s) - 1, SixDoubles(s, st, j), NEW i, i = j + 1, st.state # "addr" <=> s[i] = ":",
           SixSteps(s, st, i, prefix, d)
    PROVE  SixDoubles(s, d, i)
<1> DEFINE nx == At(s, i + 1)
           X == DoubleColons(s, j)
           Z == DoubleColons(s, i)
<1>1. Len(s) \in Nat /\ j \in Nat /\ i \in 1 .. Len(s) /\ i - 1 = j
  BY WordIs
<1>2. \A q : q \in Z <=> q \in X \/ (q = i /\ s[i] = ":" /\ nx = ":")
  <2>1. \A q : q \in 1 .. i <=> q \in 1 .. j \/ q = i
    BY <1>1
  <2>2. QED
    BY <2>1 DEF DoubleColons
<1>3. \A q \in X : q # i
  BY <1>1 DEF DoubleColons
<1>4. /\ st.state # "double" /\ X # {} => st.double
      /\ st.state = "double" /\ (\E q \in X : q # j) => st.double
      /\ \A q, r \in X : q = r \/ (st.state = "double" /\ (q = j \/ r = j))
  BY DEF SixDoubles
<1>5. nx # "."
  BY <1>1, WordIs DEF End, At
<1>6. SUFFICES
        /\ d.state # "double" /\ Z # {} => d.double
        /\ d.state = "double" /\ (\E q \in Z : q # i) => d.double
        /\ \A q, r \in Z : q = r \/ (d.state = "double" /\ (q = i \/ r = i))
  BY DEF SixDoubles
<1>7. \/ st.state = "addr" /\ d = st
      \/ st.state = "addr" /\ d.state \in {"colon", "slash"} /\ d.double = st.double
      \/ st.state = "colon" /\ d.double = st.double /\ d.state = IF nx = ":" THEN "double" ELSE "addr"
      \/ st.state = "double" /\ ~st.double /\ nx # ":" /\ d.double /\ d.state \in {"slash", "addr"}
  BY <1>5 DEF SixSteps, AfterGroup
<1> HIDE DEF nx, X, Z
<1>8. CASE st.state = "addr"
  BY <1>2, <1>4, <1>7, <1>8
<1>9. CASE st.state = "colon"
  BY <1>2, <1>3, <1>4, <1>7, <1>9
<1>10. CASE st.state = "double"
  BY <1>2, <1>4, <1>7, <1>10
<1>11. QED
  BY <1>7, <1>8, <1>9, <1>10

(* What holds as long as the scan goes on, before the mask. *)
SixGood(s, st, i, prefix) ==
    st.v = Go /\ st.state # "mask" => SixGroups(s, st, i, prefix) /\ SixColons(s, st, i) /\ SixDoubles(s, st, i)

LEMMA SixGoodFirst ==
    ASSUME NEW s \in Word, NEW prefix \in BOOLEAN
    PROVE  SixGood(s, Ipv6Start(s), 0, prefix)
<1> DEFINE st == Ipv6Start(s)
           x  == Cuts(s, ":")[0]
           nx == At(s, 0 + 1)
<1>1. Len(s) \in Nat /\ 0 \in 0 .. Len(s)
  BY WordIs
<1>2. x = <<0>>
  BY CutsIs
<1> HIDE DEF x
<1>3. Len(x) = 1 /\ x[1] = 0 /\ x[Len(x)] = 0
  BY <1>2
<1>4. nx = At(s, 1)
  OBVIOUS
<1>5. /\ st.sp = 1 /\ ~st.double
      /\ nx # ":" => st.state = "addr" /\ st.colons = 0
      /\ nx = ":" /\ st.v = Go => st.state = "colon" /\ st.colons = -1 /\ At(s, 2) \in {":", End}
  BY <1>4, SixStartType, GoIsNot
<1>6. PICK c \in Int : c = st.colons
  BY SixStartType DEF SixStates
<1>7. (nx # ":" => c = 0) /\ (nx = ":" /\ st.v = Go => c = 0 - 1)
  <2>1. 0 - 1 = -1
    OBVIOUS
  <2>2. QED
    BY <1>5, <1>6, <2>1
<1> HIDE DEF st, nx
<1>8. SUFFICES ASSUME st.v = Go PROVE SixGroups(s, st, 0, prefix) /\ SixColons(s, st, 0) /\ SixDoubles(s, st, 0)
  BY DEF SixGood, st
<1>9. SixGroups(s, st, 0, prefix)
  <2>1. \A k \in 1 .. Len(x) - 1 : x[k + 1] - x[k] <= 5
    BY <1>3
  <2>2. \A q \in 1 .. 0 : s[q] # "/"
    OBVIOUS
  <2>3. QED
    BY <1>3, <1>5, <1>8, <2>1, <2>2 DEF SixGroups, x, nx
<1>10. SixColons(s, st, 0)
  <2>1. Len(x) - 1 = 0
    BY <1>3
  <2>2. c <= 7 /\ 0 <= c + 1 /\ (0 <= c \/ nx = ":")
    BY <1>7, <1>8
  <2>3. At(s, 1) = ":" => /\ 0 <= 2 => 0 <= 0
                          /\ st.state = "colon" /\ At(s, 2) \in {":", End}
                          /\ ~(0 = 1) /\ ~(0 >= 2)
    BY <1>4, <1>5, <1>8
  <2>4. nx = ":" => At(s, 1) = ":"
    BY <1>4
  <2>5. st.colons <= 7 /\ 0 <= st.colons + 1 /\ (0 <= st.colons \/ At(s, 1) = ":")
    BY <1>6, <2>2, <2>4
  <2>6. QED
    BY <2>1, <2>3, <2>5 DEF SixColons, x
<1>11. SixDoubles(s, st, 0)
  <2>1. DoubleColons(s, 0) = {}
    BY DEF DoubleColons
  <2>2. QED
    BY <2>1 DEF SixDoubles
<1>12. QED
  BY <1>9, <1>10, <1>11

LEMMA SixGoodNext ==
    ASSUME NEW s \in Word, NEW prefix \in BOOLEAN, \A q \in 1 .. Len(s) : s[q] # ".",
           NEW st \in SixStates(prefix), NEW j \in 0 .. Len(s) - 1, SixGood(s, st, j, prefix)
    PROVE  SixGood(s, Ipv6Step(s, st, j + 1, prefix), j + 1, prefix)
<1> DEFINE i == j + 1
           d == Ipv6Step(s, st, i, prefix)
           e == Ipv6State(s, st, i, prefix)
<1>1. i \in 1 .. Len(s) /\ Undotted(s, prefix)
  BY WordIs DEF Undotted
<1>2. SUFFICES ASSUME d.v = Go, d.state # "mask"
               PROVE  SixGroups(s, d, i, prefix) /\ SixColons(s, d, i) /\ SixDoubles(s, d, i)
  BY DEF SixGood
<1>3. st.v = Go
  BY <1>2 DEF Ipv6Step
<1>4. d = Limited(e, prefix)
  BY <1>3 DEF Ipv6Step
<1>5. e \in SixStates(prefix) /\ SteppedTo(s, st, i, prefix, e)
  BY <1>1, <1>3, SixStateIs
<1>6. d \in SixStates(prefix)
  BY <1>1, SixStepType
<1> DEFINE r == i
<1>7. r = j + 1 /\ r \in 1 .. Len(s)
  BY <1>1
<1> HIDE DEF e, d
<1>8. d = e
  BY <1>2, <1>4, <1>5, LimitedIs, GoIsNot
<1>9. st.state # "mask" /\ st.state # "slash"
  BY <1>2, <1>5, <1>8, GoIsNot DEF SteppedTo
<1>10. SixGroups(s, st, j, prefix) /\ SixColons(s, st, j) /\ SixDoubles(s, st, j)
  BY <1>3, <1>9 DEF SixGood
<1>11. st.state \in {"addr", "colon", "double"}
  BY <1>9, <1>10 DEF SixGroups
<1>12. SixSteps(s, st, i, prefix, d)
  <2>1. SixSteps(s, st, i, prefix, Ipv6Step(s, st, i, prefix))
    <3>1. Ipv6Step(s, st, i, prefix).v = Go
      BY <1>2 DEF d
    <3> HIDE DEF i
    <3>2. QED
      BY <1>1, <1>3, <1>11, <3>1, SixStepsIs
  <2>2. QED
    BY <2>1 DEF d
<1>13. SixGroups(s, d, i, prefix) /\ (st.state # "addr" <=> s[i] = ":")
  BY <1>10, <1>12, SixGroupsNext
<1>14. i = j + 1
  OBVIOUS
<1> HIDE DEF i
<1>15. SixColons(s, d, i)
  BY <1>6, <1>10, <1>12, <1>13, <1>14, SixColonsNext
<1>16. SixDoubles(s, d, i)
  BY <1>10, <1>12, <1>13, <1>14, SixDoublesNext
<1>17. QED
  BY <1>13, <1>15, <1>16

LEMMA SixGoodAll ==
    ASSUME NEW s \in Word, NEW prefix \in BOOLEAN, \A q \in 1 .. Len(s) : s[q] # "."
    PROVE  \A i \in 0 .. Len(s) : SixGood(s, Ipv6Scan(s, prefix)[i], i, prefix)
<1> DEFINE f == Ipv6Scan(s, prefix)
           n == Len(s)
           R == {i \in 0 .. n : SixGood(s, f[i], i, prefix)}
<1>1. /\ n \in Nat /\ f \in [0 .. n -> SixStates(prefix)] /\ f[0] = Ipv6Start(s)
      /\ \A i \in 1 .. n : f[i] = Ipv6Step(s, f[i - 1], i, prefix)
  BY WordIs, Ipv6ScanIs DEF Undotted
<1> HIDE DEF f
<1>2. 0 \in R
  BY <1>1, SixGoodFirst
<1>3. ASSUME NEW i \in 0 .. n - 1, i \in R PROVE i + 1 \in R
  <2>1. i + 1 \in 1 .. n /\ i + 1 \in 0 .. n /\ i \in 0 .. n /\ (i + 1) - 1 = i
    BY <1>1
  <2>2. f[i + 1] = Ipv6Step(s, f[i], i + 1, prefix) /\ f[i] \in SixStates(prefix) /\ SixGood(s, f[i], i, prefix)
    BY <1>1, <1>3, <2>1
  <2>3. SixGood(s, f[i + 1], i + 1, prefix)
    BY <1>3, <2>2, SixGoodNext
  <2>4. QED
    BY <2>1, <2>3
<1> HIDE DEF R
<1>4. 0 .. n \subseteq R
  BY <1>1, <1>2, <1>3, UpTo
<1>5. QED
  BY <1>1, <1>4 DEF R, f

LEMMA HexedUpTo ==
    ASSUME NEW s \in Word, NEW prefix \in BOOLEAN, NEW k \in 0 .. Len(s), NEW st \in SixStates(prefix),
           SixGroups(s, st, k, prefix), SixColons(s, st, k), SixDoubles(s, st, k),
           At(s, k + 1) = End \/ st.state = "slash", \A q \in 1 .. k : IsHex(s[q]) \/ s[q] = ":"
    PROVE  Hexed(SubSeq(s, 1, k))
<1> DEFINE p == SubSeq(s, 1, k)
           x == Cuts(s, ":")[k]
           g == Groups(p, ":")
           l == Len(x)
           D == {q \in DOMAIN p : p[q] = ":" /\ At(p, q + 1) = ":"}
<1>1. p \in Word /\ Len(p) = k /\ k \in Nat /\ Len(s) \in Nat /\ \A q \in 1 .. k : p[q] = s[q]
  BY BeginningIs, WordIs
<1>2. Cuts(p, ":")[k] = x
  BY <1>1, CutsOfBeginning
<1>3. Cut(s, ":", k, x)
  BY CutsAre
<1> HIDE DEF p
<1>4. /\ g \in Seq(Word) /\ Len(g) = l /\ l \in Nat \ {0}
      /\ \A j \in 1 .. l - 1 : g[j] = SubSeq(p, x[j] + 1, x[j + 1] - 1)
      /\ g[l] = SubSeq(p, x[l] + 1, k)
  <2> DEFINE y == Cuts(p, ":")[Len(p)]
  <2>1. y = x
    BY <1>1, <1>2
  <2>2. /\ g \in Seq(Word) /\ Len(g) = Len(y) /\ Len(y) \in Nat \ {0}
        /\ \A j \in 1 .. Len(y) - 1 : g[j] = SubSeq(p, y[j] + 1, y[j + 1] - 1)
        /\ g[Len(y)] = SubSeq(p, y[Len(y)] + 1, Len(p))
    BY <1>1, GroupsAre
  <2> HIDE DEF y, x, g
  <2>3. QED
    BY <1>1, <2>1, <2>2
<1>5. /\ \A j \in 1 .. l : x[j] \in Nat /\ x[j] <= k
      /\ \A j \in 1 .. l - 1 : x[j] < x[j + 1] /\ \A q \in x[j] + 1 .. x[j + 1] - 1 : s[q] # ":"
      /\ \A q \in x[l] + 1 .. k : s[q] # ":"
  <2> HIDE DEF x, g
  <2>1. \A j \in 1 .. l : x[j] \in Nat /\ x[j] <= k
    BY <1>3 DEF Cut
  <2>2. \A j \in 1 .. l - 1 : x[j] < x[j + 1] /\ \A q \in x[j] + 1 .. x[j + 1] - 1 : s[q] # ":"
    BY <1>3 DEF Cut
  <2>3. \A q \in x[l] + 1 .. k : s[q] # ":"
    BY <1>3 DEF Cut
  <2>4. QED
    BY <2>1, <2>2, <2>3
<1> HIDE DEF g
<1>6. /\ \A j \in 1 .. l - 1 : x[j + 1] - x[j] <= 5
      /\ k - x[l] <= 4
  <2>1. /\ \A j \in 1 .. l - 1 : x[j + 1] - x[j] <= 5
        /\ st.state \in {"addr", "colon", "double", "slash"}
        /\ st.state = "addr" /\ At(s, k + 1) = End => x[l] = k
        /\ st.state # "addr" => k - x[l] <= 4
    BY DEF SixGroups
  <2> HIDE DEF x, l
  <2>2. CASE st.state = "addr"
    BY <1>1, <2>1, <2>2
  <2>3. QED
    BY <2>1, <2>2
<1>7. Len(g) <= 9
  <2>1. PICK c \in Int : c = st.colons
    BY DEF SixStates
  <2>2. c <= 7 /\ (l - 1 <= c + 1 \/ l - 1 <= 2)
    BY <2>1 DEF SixColons
  <2> HIDE DEF x, l
  <2>3. QED
    BY <1>4, <2>2
<1> HIDE DEF x, l
<1>8. ASSUME NEW j \in DOMAIN g PROVE Len(g[j]) <= 4 /\ \A i \in DOMAIN g[j] : IsHex(g[j][i])
  <2>1. j \in 1 .. l /\ j \in Nat
    BY <1>4
  <2>2. PICK a \in Nat : a = x[j] /\ a <= k
    BY <1>5, <2>1
  <2>3. PICK b \in 0 .. k : g[j] = SubSeq(p, a + 1, b) /\ b - a <= 4 /\ \A q \in a + 1 .. b : s[q] # ":"
    <3>1. CASE j = l
      <4>1. k \in 0 .. k
        BY <1>1
      <4>2. QED
        BY <1>4, <1>5, <1>6, <2>2, <3>1, <4>1
    <3>2. CASE j # l
      <4>1. j \in 1 .. l - 1 /\ j + 1 \in 1 .. l
        BY <1>4, <2>1, <3>2
      <4>2. PICK z \in Nat : z = x[j + 1] /\ z <= k /\ z - a <= 5 /\ a < z
        BY <1>5, <1>6, <2>2, <4>1
      <4>3. z - 1 \in 0 .. k /\ (z - 1) - a <= 4
        BY <1>1, <2>2, <4>2
      <4>4. g[j] = SubSeq(p, a + 1, z - 1) /\ \A q \in a + 1 .. z - 1 : s[q] # ":"
        BY <1>4, <1>5, <2>2, <4>1, <4>2
      <4>5. QED
        BY <4>3, <4>4
    <3>3. QED
      BY <3>1, <3>2
  <2>4. a + 1 \in Nat \ {0} /\ b \in Int /\ b <= k
    BY <1>1, <2>2
  <2> DEFINE u == SubSeq(p, a + 1, b)
             v == a + 1
  <2>5. v \in Nat \ {0}
    BY <2>4
  <2>6. /\ u \in Word
        /\ Len(u) = IF v <= b THEN b - v + 1 ELSE 0
        /\ \A i \in 1 .. Len(u) : u[i] = p[v + i - 1]
    <3> HIDE DEF v
    <3>1. SubSeq(p, v, b) \in Word
          /\ Len(SubSeq(p, v, b)) = (IF v <= b THEN b - v + 1 ELSE 0)
          /\ \A i \in 1 .. Len(SubSeq(p, v, b)) : SubSeq(p, v, b)[i] = p[v + i - 1]
      BY <1>1, <2>3, <2>5, PartIs
    <3>2. QED
      BY <3>1 DEF v
  <2> HIDE DEF u
  <2>7. Len(u) <= 4
    BY <2>2, <2>3, <2>4, <2>6
  <2>8. ASSUME NEW i \in 1 .. Len(u) PROVE IsHex(u[i])
    <3>1. v + i - 1 \in a + 1 .. b /\ v + i - 1 \in 1 .. k
      <4>1. v = a + 1
        OBVIOUS
      <4> HIDE DEF v
      <4>2. v <= b /\ i \in 1 .. b - v + 1 /\ v \in Int
        BY <2>4, <2>5, <2>6
      <4>3. i \in Int /\ i >= 1 /\ i <= b - v + 1 /\ v \in Int /\ v >= 1 /\ b \in Int /\ b <= k /\ k \in Int
        BY <1>1, <2>2, <2>4, <2>5, <4>2
      <4>4. v + i - 1 \in v .. b /\ v + i - 1 \in 1 .. k
        BY <4>3
      <4>5. QED
        BY <4>1, <4>4
    <3>2. u[i] = s[v + i - 1] /\ s[v + i - 1] # ":"
      BY <1>1, <2>3, <2>6, <3>1
    <3>3. QED
      BY <3>1, <3>2
  <2>9. DOMAIN u = 1 .. Len(u)
    BY <2>6, WordIs
  <2>10. QED
    BY <2>3, <2>7, <2>8, <2>9 DEF u
<1>9. Doubles(p) <= 1
  <2>1. D \subseteq DoubleColons(s, k)
    <3>1. ASSUME NEW q \in D PROVE q \in DoubleColons(s, k)
      <4>1. q \in 1 .. k /\ q + 1 \in Int /\ p[q] = ":" /\ At(p, q + 1) = ":"
        BY <1>1, WordIs
      <4>2. q + 1 \in 1 .. k
        BY <1>1, <4>1, WordIs DEF End
      <4>3. At(p, q + 1) = p[q + 1] /\ At(s, q + 1) = s[q + 1]
        BY <1>1, <4>2, WordIs
      <4>4. QED
        BY <1>1, <4>1, <4>2, <4>3 DEF DoubleColons
    <3>2. QED
      BY <3>1
  <2>2. st.state # "double"
    BY DEF SixGroups, End
  <2>3. \A q, r \in D : q = r
    BY <2>1, <2>2 DEF SixDoubles
  <2>4. Doubles(p) = Cardinality(D)
    BY DEF Doubles
  <2> HIDE DEF D
  <2>5. D = {} \/ \E q : D = {q}
    <3>1. SUFFICES ASSUME NEW q \in D PROVE D = {q}
      OBVIOUS
    <3>2. QED
      BY <2>3, <3>1
  <2>6. Cardinality(D) = 0 \/ Cardinality(D) = 1
    BY <2>5, FS_EmptySet, FS_Singleton
  <2>7. QED
    BY <2>4, <2>6
<1>10. QED
  BY <1>7, <1>8, <1>9 DEF Hexed, g, p

(* cmd_ipv6_match: exact, without a dot or a zone, is groups of four. *)
LEMMA Ipv6ExactIs ==
    ASSUME NEW s \in Word, Ipv6(s) = Exact, \A q \in 1 .. Len(s) : s[q] # "." /\ s[q] # "%"
    PROVE  Hexed(s)
<1> DEFINE n == Len(s)
           st == Ipv6Scan(s, FALSE)[n]
<1>1. Ipv6Chars(s, FALSE) /\ st.v = Go
  BY GoIsNot DEF Ipv6
<1>2. n \in Nat /\ n \in 0 .. n /\ DOMAIN s = 1 .. n /\ At(s, n + 1) = End
  BY WordIs
<1>3. st \in SixStates(FALSE) /\ SixGood(s, st, n, FALSE)
  BY <1>2, Ipv6ScanIs, SixGoodAll DEF Undotted
<1>4. st.state # "mask"
  BY <1>3 DEF SixStates
<1>5. \A q \in 1 .. n : IsHex(s[q]) \/ s[q] = ":"
  BY <1>1, <1>2 DEF Ipv6Chars
<1> HIDE DEF st
<1>6. SixGroups(s, st, n, FALSE) /\ SixColons(s, st, n) /\ SixDoubles(s, st, n)
  BY <1>1, <1>3, <1>4, st.v = Go DEF SixGood, st
<1>7. Hexed(SubSeq(s, 1, n))
  BY <1>2, <1>3, <1>5, <1>6, HexedUpTo
<1>8. SubSeq(s, 1, n) = s
  BY WholeWord
<1>9. QED
  BY <1>7, <1>8

(* Where the mask of an IPv6 prefix begins: after a slash that ended the   *)
(* address.                                                                *)
SixMask(s, f, i) ==
    f[i].v = Go =>
        /\ f[i].state = "slash" => At(s, i + 1) = "/"
        /\ f[i].state = "mask" =>
             \E m \in 1 .. i :
                 /\ f[i].sp = m + 1 /\ m < Len(s) /\ s[m] = "/"
                 /\ f[m - 1].v = Go /\ f[m - 1].state = "slash"

LEMMA SixMaskAll ==
    ASSUME NEW s \in Word
    PROVE  \A i \in 0 .. Len(s) : SixMask(s, Ipv6Scan(s, TRUE), i)
<1> DEFINE f == Ipv6Scan(s, TRUE)
           n == Len(s)
           R == {i \in 0 .. n : SixMask(s, f, i)}
<1>1. /\ n \in Nat /\ f \in [0 .. n -> SixStates(TRUE)] /\ f[0] = Ipv6Start(s)
      /\ \A i \in 1 .. n : f[i] = Ipv6Step(s, f[i - 1], i, TRUE)
      /\ \A i \in 1 .. n : s[i] \in Alphabet /\ s[i] # End
      /\ \A i \in Int : At(s, i) = IF i \in 1 .. n THEN s[i] ELSE End
  BY WordIs, Ipv6ScanIs DEF Undotted
<1> HIDE DEF f
<1>2. 0 \in R
  <2>1. f[0].v = Go => f[0].state \in {"addr", "colon"}
    BY <1>1, SixStartType, GoIsNot
  <2>2. QED
    BY <1>1, <2>1 DEF SixMask
<1>3. ASSUME NEW j \in 0 .. n - 1, j \in R PROVE j + 1 \in R
  <2> DEFINE i  == j + 1
             st == f[j]
             e  == Ipv6State(s, st, i, TRUE)
             nx == At(s, i + 1)
  <2>1. i \in 1 .. n /\ i \in 0 .. n /\ j \in 0 .. n /\ i - 1 = j /\ i + 1 \in Int /\ i \in Nat /\ j \in Nat
    BY <1>1
  <2>2. f[i] = Ipv6Step(s, st, i, TRUE) /\ st \in SixStates(TRUE) /\ SixMask(s, f, j)
    BY <1>1, <1>3, <2>1
  <2>3. At(s, i) = s[i]
    BY <1>1, <2>1
  <2>4. nx # End => i < n
    BY <1>1, <2>1
  <2> HIDE DEF i, st, nx
  <2>5. SUFFICES ASSUME f[i].v = Go PROVE SixMask(s, f, i)
    BY <2>1 DEF SixMask, i
  <2>6. st.v = Go
    BY <2>2, <2>5 DEF Ipv6Step
  <2>7. f[i] = Limited(e, TRUE)
    BY <2>2, <2>6 DEF Ipv6Step
  <2>8. e \in SixStates(TRUE) /\ SteppedTo(s, st, i, TRUE, e)
    BY <2>1, <2>2, <2>6, SixStateIs DEF Undotted
  <2> HIDE DEF e
  <2>9. f[i] = e /\ e.v = Go
    BY <2>5, <2>7, <2>8, LimitedIs, GoIsNot
  <2>10. nx # "/" => e.state # "slash"
    <3>1. CASE st.state = "addr"
      BY <2>8, <2>9, <3>1, GoIsNot DEF SteppedTo, AfterGroup, Ends, nx
    <3>2. CASE st.state # "addr"
      BY <2>2, <2>8, <2>9, <3>2, GoIsNot DEF SteppedTo, SixStates, nx
    <3>3. QED
      BY <3>1, <3>2
  <2>11. e.state = "mask" => st.state \in {"slash", "mask"}
    <3>1. CASE st.state = "addr"
      BY <2>8, <2>9, <3>1, GoIsNot DEF SteppedTo, AfterGroup, nx
    <3>2. CASE st.state # "addr"
      BY <2>2, <2>8, <2>9, <3>2, GoIsNot DEF SteppedTo, SixStates, nx
    <3>3. QED
      BY <3>1, <3>2
  <2>12. ASSUME e.state = "mask"
         PROVE  \E m \in 1 .. i :
                    /\ e.sp = m + 1 /\ m < n /\ s[m] = "/"
                    /\ f[m - 1].v = Go /\ f[m - 1].state = "slash"
    <3>1. CASE st.state = "slash"
      <4>1. nx # End /\ e.sp = i + 1
        BY <2>8, <2>9, <3>1, GoIsNot DEF SteppedTo, nx
      <4>2. s[i] = "/"
        BY <2>2, <2>3, <2>6, <3>1 DEF SixMask, st, i
      <4>3. i < n /\ i \in 1 .. i
        BY <2>1, <2>4, <4>1
      <4>4. f[i - 1].v = Go /\ f[i - 1].state = "slash"
        BY <2>1, <2>6, <3>1 DEF st
      <4>5. QED
        BY <4>1, <4>2, <4>3, <4>4
    <3>2. CASE st.state = "mask"
      <4>1. e = st
        BY <2>8, <3>2 DEF SteppedTo
      <4>2. PICK m \in 1 .. j : /\ st.sp = m + 1 /\ m < n /\ s[m] = "/"
                                /\ f[m - 1].v = Go /\ f[m - 1].state = "slash"
        BY <2>2, <2>6, <3>2 DEF SixMask, st
      <4>3. m \in 1 .. i
        BY <2>1 DEF i
      <4>4. QED
        BY <4>1, <4>2, <4>3
    <3>3. QED
      BY <2>11, <2>12, <3>1, <3>2
  <2>13. QED
    BY <2>9, <2>10, <2>12 DEF SixMask, nx
<1> HIDE DEF R
<1>4. 0 .. n \subseteq R
  BY <1>1, <1>2, <1>3, UpTo
<1>5. QED
  BY <1>1, <1>4 DEF R, f

LEMMA FirstGroup ==
    ASSUME NEW s \in Word, NEW sep, NEW m \in 1 .. Len(s), s[m] = sep, \A q \in 1 .. m - 1 : s[q] # sep
    PROVE  Groups(s, sep)[1] = SubSeq(s, 1, m - 1)
<1> DEFINE n == Len(s)
           x == Cuts(s, sep)[n]
           g == Groups(s, sep)
           l == Len(x)
<1>1. n \in Nat /\ n \in 0 .. n /\ m \in Nat
  BY WordIs
<1>2. Cut(s, sep, n, x)
  BY <1>1, CutsAre
<1>3. /\ Len(g) = l /\ l \in Nat \ {0}
      /\ \A k \in 1 .. l - 1 : g[k] = SubSeq(s, x[k] + 1, x[k + 1] - 1)
  BY GroupsAre
<1>4. /\ x \in Seq(Nat) /\ x[1] = 0
      /\ \A k \in 1 .. l : x[k] \in Nat /\ x[k] <= n
      /\ \A k \in 2 .. l : x[k] >= 1 /\ s[x[k]] = sep
      /\ \A k \in 1 .. l - 1 : x[k] < x[k + 1] /\ \A q \in x[k] + 1 .. x[k + 1] - 1 : s[q] # sep
      /\ \A q \in x[l] + 1 .. n : s[q] # sep
  BY <1>2 DEF Cut
<1> HIDE DEF x, g, l
<1>5. l # 1
  BY <1>1, <1>3, <1>4
<1>6. 1 \in 1 .. l - 1 /\ 2 \in 2 .. l /\ 2 \in 1 .. l /\ 1 + 1 = 2
  BY <1>3, <1>5
<1>7. PICK z \in Nat : z = x[2] /\ z >= 1 /\ s[z] = sep /\ z <= n /\ \A q \in 0 + 1 .. z - 1 : s[q] # sep
  BY <1>4, <1>6
<1>8. z = m
  BY <1>1, <1>7
<1>9. x[1] + 1 = 1 /\ x[1 + 1] = m
  BY <1>4, <1>6, <1>7, <1>8
<1>10. g[1] = SubSeq(s, x[1] + 1, x[1 + 1] - 1)
  BY <1>3, <1>6
<1>11. QED
  BY <1>9, <1>10 DEF g

(* cmd_ipv6_prefix_match: exact is a mask of at most 128, and without a dot *)
(* or a zone the address is groups of four.                                *)
LEMMA Ipv6PrefixExactIs ==
    ASSUME NEW s \in Word, Ipv6Prefix(s) = Exact
    PROVE  /\ Masked(s, 128)
           /\ (\A q \in 1 .. Len(s) : s[q] # "." /\ s[q] # "%") => Hexed(Address(s))
<1> DEFINE n == Len(s)
           f == Ipv6Scan(s, TRUE)
           st == f[n]
           mask == SubSeq(s, st.sp, n)
<1>1. /\ n \in Nat /\ n \in 0 .. n
      /\ f \in [0 .. n -> SixStates(TRUE)]
      /\ \A i \in 1 .. n : s[i] \in Alphabet /\ s[i] # End
  <2>1. n \in Nat /\ \A i \in 1 .. n : s[i] \in Alphabet /\ s[i] # End
    BY WordIs
  <2>2. f \in [0 .. n -> SixStates(TRUE)]
    BY Ipv6ScanIs DEF Undotted
  <2> HIDE DEF f, n
  <2>3. n \in 0 .. n
    BY <2>1
  <2>4. QED
    BY <2>1, <2>2, <2>3
<1>2. /\ Ipv6Chars(s, TRUE)
      /\ st.v # Go => st.v = Exact
      /\ st.v = Go => st.state = "mask" /\ AllDigits(mask) /\ Number(mask) <= 128
  BY GoIsNot DEF Ipv6Prefix
<1>3. st.v = Go
  BY <1>1, <1>2, GoIsNot DEF SixStates
<1>4. SixMask(s, f, n)
  BY <1>1, SixMaskAll
<1> HIDE DEF f
<1>5. PICK m \in 1 .. n : /\ st.sp = m + 1 /\ m < n /\ s[m] = "/"
                          /\ f[m - 1].v = Go /\ f[m - 1].state = "slash"
  BY <1>2, <1>3, <1>4 DEF SixMask
<1> DEFINE u == SubSeq(s, m + 1, n)
           k == m - 1
<1>6. mask = u
  BY <1>5
<1>7. AllDigits(u) /\ Number(u) <= 128
  BY <1>2, <1>3, <1>6
<1> HIDE DEF mask, st
<1>8. m + 1 \in Nat \ {0} /\ m + 1 <= n /\ k \in 0 .. n /\ k + 1 = m /\ m \in Int
  BY <1>1, <1>5
<1>9. u \in Word /\ Len(u) = n - (m + 1) + 1 /\ \A i \in 1 .. Len(u) : u[i] = s[(m + 1) + i - 1]
  BY <1>1, <1>8, PartIs
<1> HIDE DEF u
<1>10. u # <<>> /\ DOMAIN u = 1 .. Len(u)
  BY <1>1, <1>8, <1>9, WordIs
<1>11. \A q \in m + 1 .. n : s[q] # "/"
  <2>1. ASSUME NEW q \in m + 1 .. n PROVE IsDigit(s[q])
    <3>1. PICK a \in Int : a = q - m
      BY <1>8
    <3>2. a \in 1 .. Len(u) /\ (m + 1) + a - 1 = q
      BY <1>1, <1>8, <1>9, <3>1
    <3>3. QED
      BY <1>7, <1>9, <1>10, <3>2 DEF AllDigits
  <2>2. QED
    BY <2>1, DigitsApart
<1>12. Len(Groups(s, "/")) > 1 /\ Last(Groups(s, "/")) = u
  BY <1>1, <1>5, <1>11, LastGroup DEF u
<1>13. Masked(s, 128)
  BY <1>7, <1>10, <1>12 DEF Masked, IsNumber
<1>14. ASSUME \A q \in 1 .. n : s[q] # "." /\ s[q] # "%" PROVE Hexed(Address(s))
  <2> DEFINE e == f[k]
  <2>1. e \in SixStates(TRUE) /\ e.v = Go /\ e.state = "slash"
    BY <1>1, <1>5, <1>8
  <2>2. SixGood(s, e, k, TRUE)
    BY <1>8, <1>14, SixGoodAll DEF f
  <2> HIDE DEF e, k
  <2>3. SixGroups(s, e, k, TRUE) /\ SixColons(s, e, k) /\ SixDoubles(s, e, k)
    BY <2>1, <2>2 DEF SixGood
  <2>4. \A q \in 1 .. k : s[q] # "/"
    BY <2>1, <2>3 DEF SixGroups
  <2>5. \A q \in 1 .. k : IsHex(s[q]) \/ s[q] = ":"
    <3>1. ASSUME NEW q \in 1 .. k PROVE IsHex(s[q]) \/ s[q] = ":"
      <4>1. q \in 1 .. n /\ q \in DOMAIN s
        BY <1>1, <1>8, WordIs
      <4>2. IsHex(s[q]) \/ s[q] \in {":", ".", "%"} \/ s[q] = "/"
        BY <1>2, <4>1 DEF Ipv6Chars
      <4>3. QED
        BY <1>14, <2>4, <4>1, <4>2
    <3>2. QED
      BY <3>1
  <2>6. Hexed(SubSeq(s, 1, k))
    BY <1>8, <2>1, <2>3, <2>5, HexedUpTo
  <2>7. Groups(s, "/")[1] = SubSeq(s, 1, k)
    BY <1>5, <2>4, FirstGroup DEF k
  <2>8. QED
    BY <2>6, <2>7 DEF Address
<1>15. QED
  BY <1>13, <1>14

-----------------------------------------------------------------------------
(* IPv6: an address that is written in full is exact, with a mask or not   *)

Lead(s) == IF At(s, 1) = ":" THEN 1 ELSE 0

(* The first e characters of s, as the scan needs them. *)
Clear(s, e) ==
    /\ \A q \in 1 .. e : s[q] = ":" \/ IsHex(s[q])
    /\ \A lo \in 1 .. e : \A hi \in lo .. e : (\A q \in lo .. hi : s[q] # ":") => hi - lo <= 3
    /\ \A p, q \in 1 .. e - 1 : s[p] = ":" /\ s[p + 1] = ":" /\ s[q] = ":" /\ s[q + 1] = ":" => p = q
    /\ s[1] = ":" => e >= 2 /\ s[2] = ":"
    /\ s[e] = ":" => e >= 2 /\ s[e - 1] = ":"
    /\ Len(Cuts(s, ":")[e]) - Lead(s) - (IF s[e] = ":" THEN 1 ELSE 0) <= 8

(* The characters of s from lo to hi are in u, after o others. *)
HasAt(u, o, s, lo, hi) ==
    /\ u \in Word /\ o + (hi - lo + 1) <= Len(u)
    /\ \A t \in lo .. hi : u[t - lo + o + 1] = s[t]

(* Characters without a separator among them are in one group. *)
LEMMA InOneGroup ==
    ASSUME NEW s \in Word, NEW sep, NEW lo \in 1 .. Len(s), NEW hi \in lo .. Len(s),
           \A q \in lo .. hi : s[q] # sep
    PROVE  \E k \in 1 .. Len(Groups(s, sep)) : \E o \in Nat : HasAt(Groups(s, sep)[k], o, s, lo, hi)
<1> DEFINE n == Len(s)
           x == Cuts(s, sep)[hi]
           y == Cuts(s, sep)[n]
           g == Groups(s, sep)
           k == Len(x)
<1>1. n \in Nat /\ lo \in Nat /\ hi \in Nat /\ 1 <= lo /\ lo <= hi /\ hi <= n /\ hi \in 0 .. n /\ n \in 0 .. n /\ n \in hi .. n
  BY WordIs
<1>2. Cut(s, sep, hi, x)
  BY <1>1, CutsAre
<1>3. /\ g \in Seq(Word) /\ Len(g) = Len(y) /\ Len(y) \in Nat \ {0}
      /\ \A i \in 1 .. Len(y) - 1 : g[i] = SubSeq(s, y[i] + 1, y[i + 1] - 1)
      /\ g[Len(y)] = SubSeq(s, y[Len(y)] + 1, n)
  BY GroupsAre
<1>4. /\ k \in Nat /\ k <= Len(y)
      /\ \A i \in 1 .. k : y[i] = x[i]
      /\ \A i \in k + 1 .. Len(y) : y[i] > hi
  <2>1. hi \in 0 .. Len(s) /\ Len(s) \in hi .. Len(s)
    BY <1>1
  <2> DEFINE r == Len(s)
  <2>2. hi \in 0 .. Len(s) /\ r \in hi .. Len(s)
    BY <2>1
  <2> HIDE DEF x, y, k, n, r
  <2>3. LET v == Cuts(s, sep)[hi]  w == Cuts(s, sep)[r]
        IN  /\ v \in Seq(Nat) /\ w \in Seq(Nat) /\ Len(v) \in Nat /\ Len(w) \in Nat /\ Len(v) <= Len(w)
            /\ \A i \in 1 .. Len(v) : w[i] = v[i]
            /\ \A i \in Len(v) + 1 .. Len(w) : w[i] > hi
    BY <2>2, CutsGrow, Zenon
  <2>4. QED
    BY <2>3 DEF k, x, y, n, r
<1>5. Cut(s, sep, n, y)
  BY <1>1, CutsAre
<1> HIDE DEF n, x, y, g
<1>6. k >= 1 /\ k \in 1 .. k /\ x[k] \in Nat /\ x[k] <= hi /\ (k >= 2 => s[x[k]] = sep /\ x[k] >= 1) /\ (k = 1 => x[k] = 0)
  <2>1. x \in Seq(Nat) /\ k >= 1 /\ x[1] = 0
    BY <1>2 DEF Cut
  <2>2. k \in 1 .. k
    BY <1>4, <2>1
  <2>3. x[k] \in Nat /\ x[k] <= hi
    BY <1>2, <2>1, <2>2 DEF Cut
  <2>4. k >= 2 => k \in 2 .. k
    BY <1>4
  <2>5. k >= 2 => s[x[k]] = sep /\ x[k] >= 1
    BY <1>2, <2>4 DEF Cut
  <2> HIDE DEF k
  <2>6. QED
    BY <2>1, <2>2, <2>3, <2>5
<1> HIDE DEF k
<1>7. x[k] < lo
  <2>1. SUFFICES ASSUME x[k] >= lo PROVE FALSE
    BY <1>1, <1>6
  <2>2. x[k] \in lo .. hi /\ k # 1
    BY <1>1, <1>6, <2>1
  <2>3. s[x[k]] = sep
    BY <1>4, <1>6, <2>2
  <2>4. QED
    BY <2>2, <2>3
<1> DEFINE o == lo - 1 - x[k]
           a == x[k] + 1
<1>8. o \in Nat /\ a \in Nat \ {0} /\ y[k] = x[k] /\ o + a = lo
  BY <1>1, <1>4, <1>6, <1>7
<1>9. PICK b \in hi .. n : g[k] = SubSeq(s, a, b)
  <2>1. CASE k = Len(y)
    <3>1. g[k] = SubSeq(s, a, n) /\ n \in hi .. n
      BY <1>1, <1>3, <1>8, <2>1
    <3>2. QED
      BY <3>1
  <2>2. CASE k # Len(y)
    <3>1. k \in 1 .. Len(y) - 1 /\ k + 1 \in k + 1 .. Len(y) /\ k + 1 \in 1 .. Len(y)
      BY <1>3, <1>4, <1>6, <2>2
    <3>2. g[k] = SubSeq(s, a, y[k + 1] - 1) /\ y[k + 1] > hi
      BY <1>3, <1>4, <1>8, <3>1
    <3>3. y[k + 1] \in Nat /\ y[k + 1] <= n
      BY <1>5, <3>1 DEF Cut
    <3>4. y[k + 1] - 1 \in hi .. n
      BY <1>1, <3>2, <3>3
    <3>5. QED
      BY <3>2, <3>4
  <2>3. QED
    BY <2>1, <2>2
<1>10. b \in 0 .. Len(s) /\ b \in Nat /\ hi <= b /\ b <= n
  BY <1>1, <1>9 DEF n
<1>11. g[k] \in Word /\ Len(g[k]) = b - a + 1 /\ \A i \in 1 .. Len(g[k]) : g[k][i] = s[a + i - 1]
  <2>1. a <= b
    BY <1>1, <1>8, <1>10
  <2> HIDE DEF a
  <2>2. /\ SubSeq(s, a, b) \in Word /\ Len(SubSeq(s, a, b)) = IF a <= b THEN b - a + 1 ELSE 0
        /\ \A i \in 1 .. Len(SubSeq(s, a, b)) : SubSeq(s, a, b)[i] = s[a + i - 1]
    BY <1>8, <1>10, PartIs
  <2>3. QED
    BY <1>9, <2>1, <2>2
<1> HIDE DEF o, a
<1>12. o + (hi - lo + 1) <= Len(g[k])
  BY <1>1, <1>8, <1>10, <1>11
<1>13. ASSUME NEW t \in lo .. hi PROVE g[k][t - lo + o + 1] = s[t]
  <2> DEFINE i == t - lo + o + 1
  <2>1. i \in 1 .. Len(g[k]) /\ a + i - 1 = t
    BY <1>1, <1>8, <1>11, <1>12
  <2> HIDE DEF i
  <2>2. g[k][i] = s[t]
    BY <1>11, <2>1
  <2>3. QED
    BY <2>2 DEF i
<1>14. k \in 1 .. Len(g)
  BY <1>3, <1>4, <1>6
<1>15. QED
  BY <1>8, <1>11, <1>12, <1>13, <1>14 DEF g, HasAt

LEMMA AtMostOne ==
    ASSUME NEW S, IsFiniteSet(S), Cardinality(S) <= 1, NEW p \in S, NEW q \in S
    PROVE  p = q
<1>1. SUFFICES ASSUME p # q PROVE FALSE
  OBVIOUS
<1>2. Cardinality(S) \in Nat /\ Cardinality(S \ {p}) \in Nat
      /\ IsFiniteSet(S \ {p}) /\ Cardinality(S \ {p}) = Cardinality(S) - 1
  BY FS_RemoveElement, FS_CardinalityType
<1>3. Cardinality(S \ {p}) = 0
  BY <1>2
<1>4. S \ {p} = {}
  BY <1>2, <1>3, FS_EmptySet
<1>5. QED
  BY <1>1, <1>4

LEMMA WholeIsClear ==
    ASSUME NEW s \in Word, NEW e \in 0 .. Len(s), Whole(SubSeq(s, 1, e))
    PROVE  e >= 1 /\ Clear(s, e)
<1> DEFINE a == SubSeq(s, 1, e)
           g == Groups(a, ":")
<1>1. /\ Len(s) \in Nat /\ e \in Nat /\ a \in Word /\ Len(a) = e
      /\ \A q \in 1 .. e : a[q] = s[q] /\ At(a, q) = At(s, q)
  BY WordIs, BeginningIs
<1>2. /\ Doubles(a) <= 1
      /\ \A k \in DOMAIN g : Len(g[k]) <= 4 /\ \A i \in DOMAIN g[k] : IsHex(g[k][i])
      /\ Written(a) <= 8 /\ (Doubles(a) = 0 => Written(a) = 8)
      /\ At(a, 1) = ":" => At(a, 2) = ":"
      /\ At(a, Len(a)) = ":" => At(a, Len(a) - 1) = ":"
  BY DEF Whole, Hexed
<1>3. /\ g \in Seq(Word) /\ Len(g) = Len(Cuts(a, ":")[Len(a)]) /\ Len(g) \in Nat /\ DOMAIN g = 1 .. Len(g)
  <2> HIDE DEF a
  <2>1. LET x == Cuts(a, ":")[Len(a)]
        IN  Groups(a, ":") \in Seq(Word) /\ Len(Groups(a, ":")) = Len(x) /\ Len(x) \in Nat \ {0}
    BY <1>1, GroupsAre
  <2>2. g \in Seq(Word) /\ Len(g) = Len(Cuts(a, ":")[Len(a)]) /\ Len(g) \in Nat
    BY <2>1
  <2> HIDE DEF g
  <2>3. QED
    BY <2>2
<1>4. Cuts(a, ":")[e] = Cuts(s, ":")[e]
  BY <1>1, CutsOfBeginning
<1> DEFINE D == {q \in DOMAIN a : a[q] = ":" /\ At(a, q + 1) = ":"}
<1>5. Doubles(a) = Cardinality(D)
  BY DEF Doubles
<1> HIDE DEF a, g
<1>6. DOMAIN a = 1 .. e /\ \A i \in Int : At(a, i) = IF i \in 1 .. e THEN a[i] ELSE End
  BY <1>1, WordIs
<1>7. e >= 1
  <2>1. SUFFICES ASSUME e = 0 PROVE FALSE
    BY <1>1
  <2>2. D = {}
    BY <1>6, <2>1
  <2>3. Doubles(a) = 0
    BY <1>5, <2>2, FS_EmptySet
  <2>4. At(a, 1) = End /\ At(a, Len(a)) = End
    BY <1>1, <1>6, <2>1
  <2>5. Len(g) = 1
    <3>1. Cuts(s, ":")[0] = <<0>>
      BY CutsIs
    <3>2. Len(<<0>>) = 1
      OBVIOUS
    <3>3. Cuts(a, ":")[Len(a)] = <<0>>
      BY <1>1, <1>4, <2>1, <3>1
    <3>4. QED
      BY <1>3, <3>2, <3>3
  <2>6. Written(a) = 1
    BY <2>4, <2>5 DEF Written, g, End
  <2>7. QED
    BY <1>2, <2>3, <2>6
<1>8. ASSUME NEW lo \in 1 .. e, NEW hi \in lo .. e, \A q \in lo .. hi : s[q] # ":"
      PROVE  hi - lo <= 3 /\ \A q \in lo .. hi : IsHex(s[q])
  <2>1. lo \in 1 .. Len(a) /\ hi \in lo .. Len(a) /\ \A q \in lo .. hi : a[q] = s[q] /\ a[q] # ":"
    BY <1>1, <1>8
  <2>2. PICK k \in 1 .. Len(g), o \in Nat :
          /\ g[k] \in Word /\ o + (hi - lo + 1) <= Len(g[k])
          /\ \A t \in lo .. hi : g[k][t - lo + o + 1] = a[t]
    <3>1. \E k \in 1 .. Len(Groups(a, ":")) : \E o \in Nat : HasAt(Groups(a, ":")[k], o, a, lo, hi)
      <4>1. a \in Word /\ lo \in 1 .. Len(a) /\ hi \in lo .. Len(a) /\ \A q \in lo .. hi : a[q] # ":"
        BY <1>1, <2>1
      <4>2. QED
        BY <4>1, InOneGroup
    <3>2. QED
      BY <3>1 DEF g, HasAt
  <2>3. Len(g[k]) <= 4 /\ DOMAIN g[k] = 1 .. Len(g[k]) /\ Len(g[k]) \in Nat
    BY <1>2, <1>3, <2>2, WordIs
  <2>4. hi - lo <= 3
    BY <1>1, <2>2, <2>3
  <2>5. ASSUME NEW q \in lo .. hi PROVE IsHex(s[q])
    <3>1. q - lo + o + 1 \in DOMAIN g[k]
      BY <1>1, <2>2, <2>3
    <3>2. IsHex(g[k][q - lo + o + 1])
      BY <1>2, <1>3, <3>1
    <3>3. QED
      BY <2>1, <2>2, <3>2
  <2>6. QED
    BY <2>4, <2>5
<1>9. ASSUME NEW q \in 1 .. e PROVE s[q] = ":" \/ IsHex(s[q])
  <2>1. SUFFICES ASSUME s[q] # ":" PROVE IsHex(s[q])
    OBVIOUS
  <2>2. q \in q .. e /\ q \in q .. q /\ \A r \in q .. q : s[r] # ":"
    BY <2>1
  <2>3. QED
    BY <1>8, <2>2
<1>10. ASSUME NEW p \in 1 .. e - 1, NEW q \in 1 .. e - 1, s[p] = ":", s[p + 1] = ":", s[q] = ":", s[q + 1] = ":"
       PROVE  p = q
  <2>1. IsFiniteSet(D)
    <3>1. IsFiniteSet(1 .. e)
      BY <1>1, FS_Interval
    <3>2. D \in SUBSET (1 .. e)
      BY <1>6
    <3> HIDE DEF D
    <3>3. QED
      BY <3>1, <3>2, FS_Subset
  <2>2. ASSUME NEW r \in 1 .. e - 1, s[r] = ":", s[r + 1] = ":" PROVE r \in D
    <3>1. r \in 1 .. e /\ r + 1 \in 1 .. e /\ r + 1 \in Int
      BY <1>1
    <3>2. a[r] = ":" /\ At(a, r + 1) = ":"
      BY <1>1, <1>6, <2>2, <3>1
    <3>3. QED
      BY <1>6, <3>1, <3>2
  <2>3. p \in D /\ q \in D
    BY <1>10, <2>2
  <2>4. Cardinality(D) <= 1
    BY <1>2, <1>5
  <2> HIDE DEF D
  <2>5. QED
    BY <2>1, <2>3, <2>4, AtMostOne
<1>11. 1 \in 1 .. e /\ e \in 1 .. e /\ At(a, 1) = s[1] /\ At(s, 1) = s[1] /\ At(a, Len(a)) = s[e]
  BY <1>1, <1>6, <1>7
<1>12. s[1] = ":" => e >= 2 /\ s[2] = ":"
  <2>1. SUFFICES ASSUME At(a, 2) = ":" PROVE e >= 2 /\ s[2] = ":"
    BY <1>2, <1>11
  <2>2. 2 \in 1 .. e /\ a[2] = ":"
    BY <1>6, <2>1 DEF End
  <2>3. QED
    BY <1>1, <2>2
<1>13. s[e] = ":" => e >= 2 /\ s[e - 1] = ":"
  <2>1. SUFFICES ASSUME At(a, e - 1) = ":" PROVE e >= 2 /\ s[e - 1] = ":"
    BY <1>1, <1>2, <1>11
  <2>2. e - 1 \in 1 .. e /\ a[e - 1] = ":"
    BY <1>1, <1>6, <2>1 DEF End
  <2>3. QED
    BY <1>1, <2>2
<1>14. Len(Cuts(s, ":")[e]) - Lead(s) - (IF s[e] = ":" THEN 1 ELSE 0) <= 8
  BY <1>1, <1>2, <1>3, <1>4, <1>11 DEF Written, Lead, g
<1> HIDE DEF D
<1>15. Clear(s, e)
  BY <1>8, <1>9, <1>10, <1>12, <1>13, <1>14 DEF Clear
<1>16. QED
  BY <1>7, <1>15

(* What the scan knows in the middle of such an address. *)
Track(s, st, i, e, prefix) ==
    LET k == Len(Cuts(s, ":")[i])
    IN  /\ st.v = Go /\ st.colons <= 7 /\ st.nums <= 8
        /\ i < e =>
             /\ st.colons <= k - 1 - Lead(s)
             /\ st.nums <= k - Lead(s) - (IF st.state = "colon" THEN 0 ELSE 1)
             /\ \/ /\ st.state = "addr" /\ s[i + 1] # ":"
                   /\ st.sp <= i + 1 /\ \A q \in st.sp .. i : s[q] # ":"
                \/ st.state = "colon" /\ s[i + 1] = ":" /\ (i = 0 \/ s[i] # ":")
                \/ st.state = "double" /\ i >= 1 /\ s[i] = ":" /\ s[i + 1] = ":"
             /\ st.double => \E q \in 1 .. i - 1 : s[q] = ":" /\ s[q + 1] = ":"
        /\ i = e /\ prefix => st.state = "slash"

LEMMA TrackOpen ==
    ASSUME NEW s, NEW prefix, NEW e, NEW i, NEW st, Track(s, st, i, e, prefix), i < e
    PROVE  /\ st.v = Go /\ st.colons <= 7 /\ st.nums <= 8
           /\ st.colons <= Len(Cuts(s, ":")[i]) - 1 - Lead(s)
           /\ st.state = "colon" => st.nums <= Len(Cuts(s, ":")[i]) - Lead(s) - 0
           /\ st.state # "colon" => st.nums <= Len(Cuts(s, ":")[i]) - Lead(s) - 1
           /\ st.state \in {"addr", "colon", "double"}
           /\ st.state = "addr" => s[i + 1] # ":" /\ st.sp <= i + 1 /\ \A q \in st.sp .. i : s[q] # ":"
           /\ st.state = "colon" => s[i + 1] = ":" /\ (i = 0 \/ s[i] # ":")
           /\ st.state = "double" => i >= 1 /\ s[i] = ":" /\ s[i + 1] = ":"
           /\ st.double => \E q \in 1 .. i - 1 : s[q] = ":" /\ s[q + 1] = ":"
<1>1. /\ st.v = Go /\ st.colons <= 7 /\ st.nums <= 8
      /\ st.colons <= Len(Cuts(s, ":")[i]) - 1 - Lead(s)
      /\ st.nums <= Len(Cuts(s, ":")[i]) - Lead(s) - (IF st.state = "colon" THEN 0 ELSE 1)
      /\ \/ /\ st.state = "addr" /\ s[i + 1] # ":"
            /\ st.sp <= i + 1 /\ \A q \in st.sp .. i : s[q] # ":"
         \/ st.state = "colon" /\ s[i + 1] = ":" /\ (i = 0 \/ s[i] # ":")
         \/ st.state = "double" /\ i >= 1 /\ s[i] = ":" /\ s[i + 1] = ":"
      /\ st.double => \E q \in 1 .. i - 1 : s[q] = ":" /\ s[q + 1] = ":"
  BY DEF Track
<1>2. st.state = "colon" => st.nums <= Len(Cuts(s, ":")[i]) - Lead(s) - 0
  BY <1>1
<1>3. st.state # "colon" => st.nums <= Len(Cuts(s, ":")[i]) - Lead(s) - 1
  BY <1>1
<1>4. st.state \in {"addr", "colon", "double"}
  BY <1>1
<1>5. /\ st.state = "addr" => s[i + 1] # ":" /\ st.sp <= i + 1 /\ \A q \in st.sp .. i : s[q] # ":"
      /\ st.state = "colon" => s[i + 1] = ":" /\ (i = 0 \/ s[i] # ":")
      /\ st.state = "double" => i >= 1 /\ s[i] = ":" /\ s[i + 1] = ":"
  BY <1>1
<1>6. QED
  BY <1>1, <1>2, <1>3, <1>4, <1>5, Zenon

(* The address is followed by the end, or by the slash. *)
Closed(s, e, prefix) == At(s, e + 1) = IF prefix THEN "/" ELSE End

LEMMA NextInside ==
    ASSUME NEW s \in Word, NEW prefix \in BOOLEAN, NEW e \in 1 .. Len(s), Clear(s, e), NEW j \in 1 .. e, j < e
    PROVE  /\ At(s, j + 1) = s[j + 1] /\ s[j + 1] # End /\ s[j + 1] # "/" /\ s[j + 1] # "."
           /\ s[j + 1] \in Ends(prefix) => s[j + 1] = ":"
<1>1. Len(s) \in Nat /\ e \in Nat /\ j \in Nat /\ j + 1 \in Int
  BY WordIs
<1>2. j + 1 \in 1 .. e /\ j + 1 \in 1 .. Len(s)
  BY <1>1
<1>3. s[j + 1] = ":" \/ IsHex(s[j + 1])
  BY <1>2 DEF Clear
<1>4. s[j + 1] # End /\ s[j + 1] # "/" /\ s[j + 1] # "."
  BY <1>3, DigitsApart DEF End
<1>5. At(s, j + 1) = s[j + 1]
  BY <1>1, <1>2, WordIs
<1>6. QED
  BY <1>4, <1>5 DEF Ends

LEMMA NextLast ==
    ASSUME NEW s, NEW prefix \in BOOLEAN, NEW e, Closed(s, e, prefix)
    PROVE  /\ At(s, e + 1) = (IF prefix THEN "/" ELSE End)
           /\ At(s, e + 1) \in Ends(prefix) /\ At(s, e + 1) # ":" /\ At(s, e + 1) # "."
  BY DEF Closed, Ends, End

LEMMA CutsCount ==
    ASSUME NEW s \in Word, NEW e \in 1 .. Len(s), Clear(s, e), NEW i \in 0 .. e - 1
    PROVE  LET k == Len(Cuts(s, ":")[i])
               m == Len(Cuts(s, ":")[i + 1])
           IN  /\ k \in Nat /\ m \in Nat /\ m = (IF s[i + 1] = ":" THEN k + 1 ELSE k)
               /\ i + 1 < e \/ s[i + 1] # ":" => m - Lead(s) <= 8
               /\ m - Lead(s) <= 9 /\ Lead(s) \in {0, 1}
<1> DEFINE c == Cuts(s, ":")
           j == i + 1
           k == Len(c[i])
           m == Len(c[j])
           l == Len(c[e])
           b == e - 1
<1>1. /\ Len(s) \in Nat /\ e \in Nat /\ i \in Nat /\ j \in 1 .. e /\ j \in 1 .. Len(s) /\ j \in 0 .. Len(s) /\ i \in 0 .. Len(s)
      /\ e \in j .. Len(s) /\ j - 1 = i /\ e \in 1 .. Len(s) /\ e \in 0 .. Len(s) /\ b \in 0 .. Len(s) /\ e - 1 = b
      /\ (j < e => b \in j .. Len(s))
  BY WordIs
<1>2. /\ c \in [0 .. Len(s) -> Seq(Nat)]
      /\ \A q \in 1 .. Len(s) : c[q] = IF s[q] = ":" THEN Append(c[q - 1], q) ELSE c[q - 1]
  BY CutsIs
<1> HIDE DEF j, b
<1>3. ASSUME NEW p \in 0 .. Len(s), NEW q \in p .. Len(s) PROVE Len(c[p]) <= Len(c[q])
  BY CutsGrow
<1> HIDE DEF c
<1>4. ASSUME NEW q \in 1 .. Len(s), NEW p \in 0 .. Len(s), p = q - 1
      PROVE  Len(c[q]) = IF s[q] = ":" THEN Len(c[p]) + 1 ELSE Len(c[p])
  <2>1. c[p] \in Seq(Nat) /\ c[q] = IF s[q] = ":" THEN Append(c[p], q) ELSE c[p]
    BY <1>2, <1>4
  <2>2. QED
    BY <2>1
<1>5. \A q \in 0 .. Len(s) : Len(c[q]) \in Nat
  BY <1>2
<1>6. k \in Nat /\ m \in Nat /\ l \in Nat /\ Len(c[b]) \in Nat
  BY <1>1, <1>5
<1>7. m = IF s[j] = ":" THEN k + 1 ELSE k
  BY <1>1, <1>4
<1>8. l = IF s[e] = ":" THEN Len(c[b]) + 1 ELSE Len(c[b])
  BY <1>1, <1>4
<1>9. m <= l /\ (j < e => m <= Len(c[b]))
  BY <1>1, <1>3
<1>10. l - Lead(s) - (IF s[e] = ":" THEN 1 ELSE 0) <= 8 /\ Lead(s) \in {0, 1}
  BY DEF Clear, Lead, c
<1> HIDE DEF k, m, l
<1>11. j < e \/ s[j] # ":" => m - Lead(s) <= 8
  <2>1. CASE j < e
    BY <1>6, <1>8, <1>9, <1>10, <2>1
  <2>2. CASE j = e /\ s[j] # ":"
    BY <1>6, <1>9, <1>10, <2>2
  <2>3. QED
    BY <1>1, <2>1, <2>2
<1>12. m - Lead(s) <= 9
  BY <1>6, <1>9, <1>10
<1>13. QED
  BY <1>6, <1>7, <1>10, <1>11, <1>12 DEF k, m, j, c

(* The first of two colons, or the only one. *)
LEMMA TrackColon ==
    ASSUME NEW s \in Word, NEW prefix \in BOOLEAN, NEW e \in 1 .. Len(s), Clear(s, e), Closed(s, e, prefix),
           NEW i \in 0 .. e - 1, NEW st \in SixStates(prefix), Track(s, st, i, e, prefix), st.state = "colon",
           NEW x \in SixStates(prefix), SteppedTo(s, st, i + 1, prefix, x)
    PROVE  Track(s, x, i + 1, e, prefix)
<1> DEFINE j == i + 1
           k == Len(Cuts(s, ":")[i])
           m == Len(Cuts(s, ":")[j])
           nx == At(s, j + 1)
<1>1. Len(s) \in Nat /\ e \in Nat /\ i \in Nat /\ j \in 1 .. e /\ i < e /\ j = i + 1
  BY WordIs
<1>2. /\ st.colons <= k - 1 - Lead(s) /\ st.nums <= k - Lead(s) - 0 /\ st.nums <= 8
      /\ s[j] = ":" /\ (i = 0 \/ s[i] # ":")
      /\ st.double => \E q \in 1 .. i - 1 : s[q] = ":" /\ s[q + 1] = ":"
  BY <1>1, TrackOpen
<1>3. j < e
  <2>1. SUFFICES ASSUME j = e PROVE FALSE
    BY <1>1
  <2>2. e >= 2 /\ s[e - 1] = ":" /\ e - 1 = i
    BY <1>1, <1>2, <2>1 DEF Clear
  <2>3. QED
    BY <1>1, <1>2, <2>2
<1>4. nx = s[j + 1] /\ nx # "/"
  <2> HIDE DEF j, nx
  <2>1. At(s, j + 1) = s[j + 1] /\ s[j + 1] # "/"
    BY <1>1, <1>3, NextInside
  <2>2. QED
    BY <2>1 DEF nx
<1>5. /\ x.v = Go /\ x.colons = st.colons + 1 /\ x.nums = st.nums /\ x.double = st.double
      /\ x.sp = j + 1 /\ x.state = IF nx = ":" THEN "double" ELSE "addr"
  BY <1>4 DEF SteppedTo
<1>6. k \in Nat /\ m = k + 1 /\ m - Lead(s) <= 8 /\ Lead(s) \in {0, 1}
  BY <1>1, <1>2, <1>3, CutsCount
<1>7. st.colons \in Int /\ st.nums \in Nat
  BY DEF SixStates
<1> HIDE DEF j, k, m, nx
<1>8. x.colons <= m - 1 - Lead(s) /\ x.nums <= m - Lead(s) - 1 /\ x.colons <= 7 /\ x.nums <= 8
  <2> DEFINE c == st.colons
             n == st.nums
             l == Lead(s)
  <2>1. c \in Int /\ n \in Nat /\ l \in {0, 1} /\ c <= k - 1 - l /\ n <= k - l /\ n <= 8 /\ k \in Nat /\ m = k + 1 /\ m - l <= 8
    BY <1>2, <1>6, <1>7 DEF k
  <2>2. x.colons = c + 1 /\ x.nums = n
    BY <1>5
  <2> HIDE DEF c, n, l
  <2>3. c + 1 <= m - 1 - l /\ n <= m - l - 1 /\ c + 1 <= 7
    BY <2>1
  <2>4. QED
    BY <2>1, <2>2, <2>3 DEF l
<1>9. x.double => \E q \in 1 .. j - 1 : s[q] = ":" /\ s[q + 1] = ":"
  <2>1. \A q \in 1 .. i - 1 : q \in 1 .. j - 1
    BY <1>1
  <2>2. QED
    BY <1>2, <1>5, <2>1
<1>10. \/ /\ x.state = "addr" /\ s[j + 1] # ":"
          /\ x.sp <= j + 1 /\ \A q \in x.sp .. j : s[q] # ":"
       \/ x.state = "double" /\ j >= 1 /\ s[j] = ":" /\ s[j + 1] = ":"
  <2>1. x.sp = j + 1 /\ j \in Nat /\ j >= 1 /\ \A q \in j + 1 .. j : FALSE
    BY <1>1, <1>5
  <2>2. QED
    BY <1>2, <1>4, <1>5, <2>1
<1>11. Track(s, x, j, e, prefix)
  BY <1>3, <1>5, <1>8, <1>9, <1>10 DEF Track, m
<1>12. QED
  BY <1>11 DEF j

(* The second of two colons: no other two are in the address. *)
LEMMA TrackDouble ==
    ASSUME NEW s \in Word, NEW prefix \in BOOLEAN, NEW e \in 1 .. Len(s), Clear(s, e), Closed(s, e, prefix),
           NEW i \in 0 .. e - 1, NEW st \in SixStates(prefix), Track(s, st, i, e, prefix), st.state = "double",
           NEW x \in SixStates(prefix), SteppedTo(s, st, i + 1, prefix, x)
    PROVE  Track(s, x, i + 1, e, prefix)
<1> DEFINE j == i + 1
           k == Len(Cuts(s, ":")[i])
           m == Len(Cuts(s, ":")[j])
           nx == At(s, j + 1)
<1>1. Len(s) \in Nat /\ e \in Nat /\ i \in Nat /\ j \in 1 .. e /\ i < e /\ j = i + 1
  BY WordIs
<1>2. /\ st.colons <= k - 1 - Lead(s) /\ st.nums <= k - Lead(s) - 1 /\ st.colons <= 7
      /\ s[j] = ":" /\ i >= 1 /\ s[i] = ":"
      /\ st.double => \E q \in 1 .. i - 1 : s[q] = ":" /\ s[q + 1] = ":"
  BY <1>1, TrackOpen
<1>3. i \in 1 .. e - 1 /\ s[i] = ":" /\ s[i + 1] = ":"
  BY <1>1, <1>2
<1>4. \A p, q \in 1 .. e - 1 : s[p] = ":" /\ s[p + 1] = ":" /\ s[q] = ":" /\ s[q + 1] = ":" => p = q
  BY DEF Clear
<1>5. ~st.double
  <2>1. SUFFICES ASSUME NEW q \in 1 .. i - 1, s[q] = ":", s[q + 1] = ":" PROVE FALSE
    BY <1>2
  <2>2. q \in 1 .. e - 1 /\ q # i
    BY <1>1
  <2>3. QED
    BY <1>3, <1>4, <2>1, <2>2
<1>6. (j < e => nx = s[j + 1]) /\ (j = e => nx = IF prefix THEN "/" ELSE End)
  <2> HIDE DEF j, nx
  <2>1. j < e => At(s, j + 1) = s[j + 1]
    BY <1>1, NextInside
  <2>2. j = e => At(s, j + 1) = IF prefix THEN "/" ELSE End
    BY NextLast
  <2>3. QED
    BY <2>1, <2>2 DEF nx
<1>7. nx # ":"
  <2>1. SUFFICES ASSUME nx = ":" PROVE FALSE
    OBVIOUS
  <2>2. j < e /\ s[j + 1] = ":"
    BY <1>1, <1>6, <2>1 DEF End
  <2>3. j \in 1 .. e - 1 /\ j # i
    BY <1>1, <2>2
  <2>4. QED
    BY <1>2, <1>3, <1>4, <2>2, <2>3
<1>8. /\ x.v = Go /\ x.nums = st.nums + 1 /\ x.double = TRUE /\ x.sp = j + 1
      /\ x.colons = (IF nx = End \/ (prefix /\ nx = "/") THEN st.colons ELSE st.colons + 1)
      /\ x.state = IF prefix /\ nx = "/" THEN "slash" ELSE "addr"
  BY <1>5, <1>7 DEF SteppedTo
<1>9. k \in Nat /\ m = k + 1 /\ (j < e => m - Lead(s) <= 8) /\ m - Lead(s) <= 9 /\ Lead(s) \in {0, 1}
  BY <1>1, <1>2, CutsCount
<1>10. st.colons \in Int /\ st.nums \in Nat
  BY DEF SixStates
<1> HIDE DEF j, k, m, nx
<1> DEFINE c == st.colons
           n == st.nums
           l == Lead(s)
<1>11. /\ c \in Int /\ n \in Nat /\ l \in {0, 1} /\ k \in Nat /\ m = k + 1
       /\ c <= k - 1 - l /\ n <= k - l - 1 /\ c <= 7 /\ (j < e => m - l <= 8) /\ m - l <= 9
       /\ x.nums = n + 1
  BY <1>2, <1>8, <1>9, <1>10 DEF k
<1> HIDE DEF c, n, l
<1>15. n + 1 <= 8 /\ n + 1 <= m - l - 1 /\ c + 1 <= m - 1 - l /\ (j < e => c + 1 <= 7)
  BY <1>11
<1>12. CASE j < e
  <2>1. nx = s[j + 1] /\ s[j + 1] # End /\ s[j + 1] # "/"
    <3>1. At(s, j + 1) = s[j + 1] /\ s[j + 1] # End /\ s[j + 1] # "/"
      BY <1>1, <1>12, NextInside
    <3>2. QED
      BY <3>1 DEF nx
  <2>2. x.colons = c + 1 /\ x.state = "addr"
    BY <1>8, <2>1 DEF c
  <2>3. x.colons <= m - 1 - Lead(s) /\ x.nums <= m - Lead(s) - 1 /\ x.colons <= 7
    BY <1>11, <1>12, <1>15, <2>2 DEF l
  <2>4. x.double => \E q \in 1 .. j - 1 : s[q] = ":" /\ s[q + 1] = ":"
    <3>1. i \in 1 .. j - 1
      BY <1>1, <1>2
    <3>2. QED
      BY <1>3, <3>1
  <2>5. s[j + 1] # ":" /\ x.sp <= j + 1 /\ \A q \in x.sp .. j : s[q] # ":"
    <3>1. x.sp = j + 1 /\ j \in Nat /\ \A q \in j + 1 .. j : FALSE
      BY <1>1, <1>8
    <3>2. QED
      BY <1>7, <2>1, <3>1
  <2>6. Track(s, x, j, e, prefix)
    <3>1. x.v = Go /\ x.nums <= 8 /\ j # e
      BY <1>1, <1>8, <1>11, <1>12, <1>15
    <3>2. x.nums <= m - Lead(s) - (IF x.state = "colon" THEN 0 ELSE 1)
      BY <2>2, <2>3
    <3>3. QED
      BY <2>2, <2>3, <2>4, <2>5, <3>1, <3>2 DEF Track, m
  <2>7. QED
    BY <2>6 DEF j
<1>13. CASE j = e
  <2>1. x.colons = st.colons /\ (prefix => x.state = "slash")
    BY <1>6, <1>8, <1>13
  <2>2. Track(s, x, j, e, prefix)
    BY <1>1, <1>2, <1>8, <1>11, <1>13, <1>15, <2>1 DEF Track
  <2>3. QED
    BY <2>2 DEF j
<1>14. QED
  BY <1>1, <1>12, <1>13

(* A character of a group: no group is too long. *)
LEMMA TrackAddr ==
    ASSUME NEW s \in Word, NEW prefix \in BOOLEAN, NEW e \in 1 .. Len(s), Clear(s, e), Closed(s, e, prefix),
           NEW i \in 0 .. e - 1, NEW st \in SixStates(prefix), Track(s, st, i, e, prefix), st.state = "addr",
           NEW x \in SixStates(prefix), SteppedTo(s, st, i + 1, prefix, x)
    PROVE  Track(s, x, i + 1, e, prefix)
<1> DEFINE j == i + 1
           k == Len(Cuts(s, ":")[i])
           m == Len(Cuts(s, ":")[j])
           nx == At(s, j + 1)
           c == st.colons
           n == st.nums
           l == Lead(s)
           a == st.sp
<1>1. Len(s) \in Nat /\ e \in Nat /\ i \in Nat /\ j \in 1 .. e /\ j \in 0 .. Len(s) /\ j \in Nat /\ i < e /\ j = i + 1
  BY WordIs
<1>2. /\ c <= k - 1 - l /\ n <= k - l - 1 /\ c <= 7 /\ st.v = Go /\ n <= 8
      /\ s[j] # ":" /\ a <= j /\ \A q \in a .. i : s[q] # ":"
      /\ st.double => \E q \in 1 .. i - 1 : s[q] = ":" /\ s[q + 1] = ":"
  BY <1>1, TrackOpen
<1>3. c \in Int /\ n \in Nat /\ a \in Nat \ {0}
  BY DEF SixStates
<1>4. k \in Nat /\ m = k /\ m - l <= 8 /\ l \in {0, 1}
  BY <1>1, <1>2, CutsCount
<1> HIDE DEF j, k, m, nx, c, n, l, a
<1>5. a \in 1 .. e /\ j \in a .. e /\ \A q \in a .. j : s[q] # ":" /\ q \in 1 .. e
  <2>1. a \in 1 .. e /\ j \in a .. e
    BY <1>1, <1>2, <1>3
  <2>2. \A q \in a .. j : (q \in a .. i \/ q = j) /\ q \in 1 .. e
    BY <1>1, <2>1
  <2>3. QED
    BY <1>2, <2>1, <2>2
<1>6. st.double => \E q \in 1 .. j - 1 : s[q] = ":" /\ s[q + 1] = ":"
  <2>1. \A q \in 1 .. i - 1 : q \in 1 .. j - 1
    BY <1>1
  <2>2. QED
    BY <1>2, <2>1
<1>7. (j < e => nx = s[j + 1] /\ (nx \in Ends(prefix) => nx = ":")) /\ (j = e => nx = (IF prefix THEN "/" ELSE End) /\ nx \in Ends(prefix))
  <2>1. j < e => At(s, j + 1) = s[j + 1] /\ (s[j + 1] \in Ends(prefix) => s[j + 1] = ":")
    BY <1>1, NextInside
  <2>2. j = e => At(s, j + 1) = (IF prefix THEN "/" ELSE End) /\ At(s, j + 1) \in Ends(prefix)
    BY NextLast
  <2>3. QED
    BY <2>1, <2>2 DEF nx
<1>8. CASE nx \notin Ends(prefix)
  <2>1. x = st
    BY <1>8 DEF SteppedTo, nx, j
  <2>2. j < e /\ nx # ":" /\ s[j + 1] # ":"
    BY <1>1, <1>7, <1>8 DEF Ends
  <2>3. c <= m - 1 - l /\ n <= m - l - 1 /\ a <= j + 1
    BY <1>1, <1>2, <1>3, <1>4
  <2>4. st.colons <= m - 1 - Lead(s) /\ st.nums <= m - Lead(s) - 1 /\ st.sp <= j + 1 /\ st.colons <= 7 /\ st.nums <= 8
    BY <1>2, <2>3 DEF c, n, l, a
  <2>5. \A q \in st.sp .. j : s[q] # ":"
    BY <1>5 DEF a
  <2>6. j # e
    BY <1>1, <2>2
  <2>7. Track(s, st, j, e, prefix)
    BY <1>2, <1>6, <2>2, <2>4, <2>5, <2>6 DEF Track, m
  <2>8. QED
    BY <2>1, <2>7 DEF j
<1>9. CASE nx \in Ends(prefix)
  <2>1. ~TooLong(s, st, j, prefix)
    <3>1. j - a <= 3
      BY <1>5 DEF Clear
    <3> DEFINE u == SubSeq(s, a, j)
    <3>2. u \in Word /\ Len(u) = j - a + 1 /\ \A q \in 1 .. Len(u) : u[q] = s[a + q - 1]
      <4>1. a <= j
        BY <1>1, <1>5
      <4>2. QED
        BY <1>1, <1>3, <4>1, PartIs
    <3> HIDE DEF u
    <3>3. "/" \notin ToSet(u)
      <4>1. SUFFICES ASSUME NEW q \in 1 .. Len(u), u[q] = "/" PROVE FALSE
        BY <3>2, InToSet DEF Word
      <4>2. a + q - 1 \in a .. j
        BY <1>1, <1>3, <3>2
      <4>3. a + q - 1 \in 1 .. e
        BY <1>5, <4>2
      <4>4. s[a + q - 1] = "/"
        BY <3>2, <4>1
      <4>5. s[a + q - 1] = ":" \/ IsHex(s[a + q - 1])
        BY <4>3 DEF Clear
      <4>6. QED
        BY <4>4, <4>5, DigitsApart
    <3>4. QED
      BY <1>1, <1>3, <3>1, <3>3 DEF TooLong, u, a
  <2>2. x.v = Go /\ x.nums = n + 1 /\ x.colons = c /\ x.double = st.double /\ x.state = AfterGroup(nx)
    BY <1>9, <2>1 DEF SteppedTo, nx, j, n, c
  <2>3. n + 1 <= 8 /\ c <= m - 1 - l /\ n + 1 <= m - l
    BY <1>2, <1>3, <1>4
  <2>4. CASE j < e
    <3>1. nx = ":" /\ s[j + 1] = ":"
      BY <1>7, <1>9, <2>4
    <3>2. x.state = "colon"
      BY <2>2, <3>1 DEF AfterGroup
    <3>3. x.nums <= m - Lead(s) - 0 /\ x.colons <= m - 1 - Lead(s) /\ x.nums <= 8 /\ x.colons <= 7
      <4>1. n + 1 <= m - l - 0
        BY <1>3, <1>4, <2>3
      <4>2. QED
        BY <1>2, <2>2, <2>3, <4>1 DEF l
    <3>4. j # e /\ j # 0
      BY <1>1, <2>4
    <3>5. x.nums <= m - Lead(s) - (IF x.state = "colon" THEN 0 ELSE 1)
      BY <3>2, <3>3
    <3>6. x.double => \E q \in 1 .. j - 1 : s[q] = ":" /\ s[q + 1] = ":"
      BY <1>6, <2>2
    <3>7. Track(s, x, j, e, prefix)
      BY <1>2, <2>2, <3>1, <3>2, <3>3, <3>4, <3>5, <3>6 DEF Track, m
    <3>8. QED
      BY <3>7 DEF j
  <2>5. CASE j = e
    <3>1. prefix => x.state = "slash"
      BY <1>7, <2>2, <2>5 DEF AfterGroup
    <3>2. x.nums <= 8 /\ x.colons <= 7 /\ ~(j < e)
      BY <1>1, <1>2, <2>2, <2>3, <2>5
    <3>3. Track(s, x, j, e, prefix)
      BY <2>2, <3>1, <3>2 DEF Track
    <3>4. QED
      BY <3>3 DEF j
  <2>6. QED
    BY <1>1, <2>4, <2>5
<1>10. QED
  BY <1>8, <1>9

LEMMA TrackNext ==
    ASSUME NEW s \in Word, NEW prefix \in BOOLEAN, Undotted(s, prefix),
           NEW e \in 1 .. Len(s), Clear(s, e), Closed(s, e, prefix),
           NEW i \in 0 .. e - 1, NEW st \in SixStates(prefix), Track(s, st, i, e, prefix)
    PROVE  Track(s, Ipv6Step(s, st, i + 1, prefix), i + 1, e, prefix)
<1> DEFINE j == i + 1
           x == Ipv6State(s, st, j, prefix)
<1>1. i < e /\ j \in 1 .. Len(s)
  BY WordIs
<1>2. st.v = Go /\ st.state \in {"addr", "colon", "double"}
  BY <1>1, TrackOpen
<1>3. x \in SixStates(prefix) /\ SteppedTo(s, st, j, prefix, x)
  <2> HIDE DEF j
  <2>1. QED
    BY <1>1, <1>2, SixStateIs
<1> HIDE DEF x
<1>4. Track(s, x, j, e, prefix)
  BY <1>2, <1>3, TrackColon, TrackDouble, TrackAddr
<1>5. x.v = Go /\ x.colons <= 7 /\ x.nums <= 8
  BY <1>4 DEF Track
<1>6. Limited(x, prefix) = x
  <2>1. x.colons \in Int /\ x.nums \in Nat
    BY <1>3 DEF SixStates
  <2>2. ~(x.nums > Most(prefix)) /\ ~(x.colons > 7)
    BY <1>5, <2>1 DEF Most
  <2>3. QED
    BY <1>3, <2>2, LimitedIs
<1>7. Ipv6Step(s, st, j, prefix) = x
  BY <1>2, <1>6 DEF Ipv6Step, x
<1>8. QED
  BY <1>4, <1>7 DEF j

LEMMA TrackFirst ==
    ASSUME NEW s \in Word, NEW prefix \in BOOLEAN, NEW e \in 1 .. Len(s), Clear(s, e)
    PROVE  Track(s, Ipv6Start(s), 0, e, prefix)
<1> DEFINE st == Ipv6Start(s)
<1>1. Len(s) \in Nat /\ e \in Nat /\ 1 \in 1 .. Len(s) /\ 0 < e /\ 0 # e /\ At(s, 1) = s[1]
  BY WordIs
<1>2. Cuts(s, ":")[0] = <<0>> /\ Len(<<0>>) = 1
  BY CutsIs
<1>3. CASE s[1] = ":"
  <2>1. e >= 2 /\ s[2] = ":"
    BY <1>3 DEF Clear
  <2>2. At(s, 2) = ":"
    BY <1>1, <2>1, WordIs
  <2>3. st.v = Go /\ st.state = "colon" /\ st.colons = -1 /\ st.nums = 0 /\ ~st.double
    BY <1>1, <1>3, <2>2 DEF Ipv6Start
  <2>4. Lead(s) = 1
    BY <1>1, <1>3 DEF Lead
  <2> HIDE DEF st
  <2>5. Track(s, st, 0, e, prefix)
    <3> DEFINE k == Len(Cuts(s, ":")[0])
    <3>1. k = 1
      BY <1>2
    <3> HIDE DEF k
    <3>2. st.colons <= 7 /\ st.nums <= 8 /\ st.colons <= k - 1 - Lead(s) /\ st.nums <= k - Lead(s) - 0
      BY <2>3, <2>4, <3>1
    <3>3. st.state = "colon" /\ s[0 + 1] = ":"
      BY <1>3, <2>3
    <3>4. QED
      BY <1>1, <2>3, <3>2, <3>3 DEF Track, k
  <2>6. QED
    BY <2>5 DEF st
<1>4. CASE s[1] # ":"
  <2>1. st.v = Go /\ st.state = "addr" /\ st.colons = 0 /\ st.nums = 0 /\ ~st.double /\ st.sp = 1
    BY <1>1, <1>4 DEF Ipv6Start
  <2>2. Lead(s) = 0
    BY <1>1, <1>4 DEF Lead
  <2> HIDE DEF st
  <2>3. Track(s, st, 0, e, prefix)
    <3> DEFINE k == Len(Cuts(s, ":")[0])
    <3>1. k = 1
      BY <1>2
    <3> HIDE DEF k
    <3>2. st.colons <= 7 /\ st.nums <= 8 /\ st.colons <= k - 1 - Lead(s) /\ st.nums <= k - Lead(s) - 1
      BY <2>1, <2>2, <3>1
    <3>3. st.state = "addr" /\ s[0 + 1] # ":" /\ st.sp <= 0 + 1 /\ st.sp .. 0 = {}
      BY <1>4, <2>1
    <3>4. st.state # "colon" /\ \A q \in st.sp .. 0 : s[q] # ":"
      BY <3>3
    <3>5. QED
      BY <1>1, <2>1, <3>2, <3>3, <3>4 DEF Track, k
  <2>4. QED
    BY <2>3 DEF st
<1>5. QED
  BY <1>3, <1>4

LEMMA TrackToEnd ==
    ASSUME NEW s \in Word, NEW prefix \in BOOLEAN, Undotted(s, prefix),
           NEW e \in 1 .. Len(s), Clear(s, e), Closed(s, e, prefix)
    PROVE  Track(s, Ipv6Scan(s, prefix)[e], e, e, prefix)
<1> DEFINE f == Ipv6Scan(s, prefix)
           n == Len(s)
           G == {i \in 0 .. e : Track(s, f[i], i, e, prefix)}
<1>1. /\ n \in Nat /\ e \in Nat /\ e <= n
      /\ f \in [0 .. n -> SixStates(prefix)] /\ f[0] = Ipv6Start(s)
      /\ \A i \in 1 .. n : f[i] = Ipv6Step(s, f[i - 1], i, prefix)
  BY WordIs, Ipv6ScanIs
<1> HIDE DEF f
<1>2. 0 \in G
  BY <1>1, TrackFirst
<1>3. ASSUME NEW i \in 0 .. e - 1, i \in G PROVE i + 1 \in G
  <2>1. i + 1 \in 1 .. n /\ i + 1 \in 0 .. e /\ i \in 0 .. n /\ (i + 1) - 1 = i
    BY <1>1
  <2>2. f[i + 1] = Ipv6Step(s, f[i], i + 1, prefix) /\ f[i] \in SixStates(prefix) /\ Track(s, f[i], i, e, prefix)
    BY <1>1, <1>3, <2>1
  <2>3. Track(s, f[i + 1], i + 1, e, prefix)
    BY <2>2, TrackNext
  <2>4. QED
    BY <2>1, <2>3
<1> HIDE DEF G
<1>4. 0 .. e \subseteq G
  BY <1>1, <1>2, <1>3, UpTo
<1>5. e \in G
  BY <1>1, <1>4
<1>6. QED
  BY <1>5 DEF G, f

(* cmd_ipv6_match of an address in full *)
LEMMA Ipv6Complete ==
    ASSUME NEW s \in Word, Whole(s)
    PROVE  Ipv6(s) = Exact
<1> DEFINE n == Len(s)
           st == Ipv6Scan(s, FALSE)[n]
<1>1. n \in Nat /\ n \in 0 .. n /\ DOMAIN s = 1 .. n /\ At(s, n + 1) = End
  BY WordIs
<1>2. SubSeq(s, 1, n) = s
  BY <1>1 DEF Word
<1>3. n >= 1 /\ Clear(s, n)
  BY <1>1, <1>2, WholeIsClear
<1>4. \A q \in 1 .. n : s[q] = ":" \/ IsHex(s[q])
  BY <1>3 DEF Clear
<1>5. Undotted(s, FALSE)
  BY <1>4, DigitsApart DEF Undotted
<1>6. Closed(s, n, FALSE)
  BY <1>1 DEF Closed
<1>7. n \in 1 .. n
  BY <1>1, <1>3
<1> HIDE DEF n
<1>8. Track(s, st, n, n, FALSE)
  BY <1>3, <1>5, <1>6, <1>7, TrackToEnd DEF n
<1>9. st.v = Go
  BY <1>8 DEF Track
<1>10. Ipv6Chars(s, FALSE)
  BY <1>1, <1>4 DEF Ipv6Chars
<1>11. QED
  BY <1>9, <1>10 DEF Ipv6, n

(* cmd_ipv6_prefix_match of one with a mask: the scan reaches the slash,   *)
(* and what follows is the mask.                                           *)
LEMMA Ipv6PrefixComplete ==
    ASSUME NEW s \in Word, OneMask(s, 128), Whole(Address(s))
    PROVE  Ipv6Prefix(s) = Exact
<1> DEFINE n == Len(s)
           f == Ipv6Scan(s, TRUE)
<1>1. /\ n \in Nat /\ f \in [0 .. n -> SixStates(TRUE)]
      /\ \A i \in 1 .. n : f[i] = Ipv6Step(s, f[i - 1], i, TRUE)
  BY WordIs, Ipv6ScanIs DEF Undotted
<1>2. Masked(s, 128) /\ Len(Groups(s, "/")) = 2
  BY DEF OneMask
<1>3. PICK m \in 1 .. n : /\ s[m] = "/" /\ \A q \in 1 .. m - 1 : s[q] # "/"
                          /\ \A q \in m + 1 .. n : s[q] # "/"
  BY <1>2, OneSlash
<1> DEFINE b == m - 1
           u == SubSeq(s, m + 1, n)
<1>4. /\ b \in Nat /\ b \in 0 .. n /\ m \in Nat /\ m + 1 \in Nat \ {0} /\ m = b + 1 /\ n \in 0 .. n
      /\ At(s, m) = "/" /\ DOMAIN s = 1 .. n
  BY <1>1, <1>3, WordIs
<1>5. Address(s) = SubSeq(s, 1, b)
  BY <1>3, FirstGroup DEF Address
<1>6. Last(Groups(s, "/")) = u
  BY <1>3, LastGroup
<1>7. u # <<>> /\ AllDigits(u) /\ Number(u) <= 128
  BY <1>2, <1>6 DEF Masked, IsNumber
<1> HIDE DEF f, u
<1>8. b >= 1 /\ Clear(s, b)
  <2> HIDE DEF b
  <2>1. QED
    BY <1>4, <1>5, WholeIsClear
<1>9. Closed(s, b, TRUE)
  BY <1>4 DEF Closed
<1>10. Track(s, f[b], b, b, TRUE)
  <2>1. b \in 1 .. Len(s) /\ Undotted(s, TRUE)
    BY <1>4, <1>8 DEF Undotted
  <2> HIDE DEF b
  <2>2. QED
    BY <1>8, <1>9, <2>1, TrackToEnd DEF f
<1>11. f[b].v = Go /\ f[b].state = "slash" /\ f[b].colons <= 7 /\ f[b].nums <= 8 /\ f[b] \in SixStates(TRUE)
  BY <1>1, <1>4, <1>10 DEF Track
<1>12. /\ u \in Word /\ Len(u) = n - m /\ m + 1 \in 1 .. n
       /\ \A q \in m + 1 .. n : IsDigit(s[q])
  <2>1. /\ u \in Word /\ Len(u) = IF m + 1 <= n THEN n - (m + 1) + 1 ELSE 0
        /\ \A i \in 1 .. Len(u) : u[i] = s[(m + 1) + i - 1]
    <3> DEFINE c == m + 1
    <3>1. c \in Nat \ {0} /\ n \in 0 .. Len(s)
      BY <1>4
    <3> HIDE DEF c, n
    <3>2. /\ SubSeq(s, c, n) \in Word /\ Len(SubSeq(s, c, n)) = IF c <= n THEN n - c + 1 ELSE 0
          /\ \A i \in 1 .. Len(SubSeq(s, c, n)) : SubSeq(s, c, n)[i] = s[c + i - 1]
      BY <3>1, PartIs
    <3>3. QED
      BY <3>2 DEF c, u
  <2>2. Len(u) # 0
    BY <1>7, <2>1 DEF Word
  <2>3. m + 1 <= n /\ Len(u) = n - m
    <3>1. n \in Int /\ m \in Int
      BY <1>1, <1>4
    <3> HIDE DEF n
    <3>2. QED
      BY <2>1, <2>2, <3>1
  <2>4. ASSUME NEW q \in m + 1 .. n PROVE IsDigit(s[q])
    <3>1. q - m \in 1 .. Len(u) /\ (m + 1) + (q - m) - 1 = q
      BY <1>1, <1>4, <2>3
    <3>2. u[q - m] = s[q] /\ q - m \in DOMAIN u
      BY <2>1, <3>1, WordIs
    <3>3. QED
      BY <1>7, <3>2 DEF AllDigits
  <2>5. QED
    BY <1>4, <2>1, <2>3, <2>4
<1> DEFINE st == f[m]
<1>13. st.v = Go /\ st.state = "mask" /\ st.sp = m + 1 /\ st \in SixStates(TRUE) /\ st.nums <= 8 /\ st.colons <= 7
  <2> DEFINE x == Ipv6State(s, f[b], m, TRUE)
  <2>1. st = Ipv6Step(s, f[b], m, TRUE)
    BY <1>1, <1>3
  <2>2. x \in SixStates(TRUE) /\ SteppedTo(s, f[b], m, TRUE, x)
    BY <1>3, <1>11, SixStateIs DEF Undotted
  <2>3. At(s, m + 1) # End
    BY <1>12, WordIs
  <2> HIDE DEF x, st
  <2>4. x.v = Go /\ x.nums = f[b].nums /\ x.colons = f[b].colons /\ x.sp = m + 1 /\ x.state = "mask"
    BY <1>11, <2>2, <2>3 DEF SteppedTo
  <2>5. x.nums <= 8 /\ x.colons <= 7
    BY <1>11, <2>4
  <2>6. Limited(x, TRUE) = x
    <3>1. x.colons \in Int /\ x.nums \in Nat
      BY <2>2 DEF SixStates
    <3>2. ~(x.nums > Most(TRUE)) /\ ~(x.colons > 7)
      BY <2>5, <3>1 DEF Most
    <3>3. QED
      BY <2>2, <3>2, LimitedIs
  <2>7. st = x
    BY <1>11, <2>1, <2>6 DEF Ipv6Step, x
  <2>8. QED
    BY <2>2, <2>4, <2>5, <2>7
<1> HIDE DEF st
<1>14. m .. n \subseteq {k \in m .. n : f[k] = st}
  <2> DEFINE G == {k \in m .. n : f[k] = st}
  <2>1. m \in G /\ m <= n
    BY <1>1, <1>4, <1>12 DEF st
  <2>2. ASSUME NEW k \in m .. n - 1, k \in G PROVE k + 1 \in G
    <3> DEFINE j == k + 1
    <3>1. j \in 1 .. n /\ j \in m .. n /\ j - 1 = k
      BY <1>1, <1>4
    <3>2. f[j] = Ipv6Step(s, st, j, TRUE)
      BY <1>1, <2>2, <3>1
    <3> HIDE DEF j
    <3>3. Ipv6State(s, st, j, TRUE) = st
      <4>1. SteppedTo(s, st, j, TRUE, Ipv6State(s, st, j, TRUE))
        BY <1>13, <3>1, SixStateIs DEF Undotted
      <4>2. QED
        BY <1>13, <4>1 DEF SteppedTo
    <3>4. Limited(st, TRUE) = st
      <4>1. st.colons \in Int /\ st.nums \in Nat
        BY <1>13 DEF SixStates
      <4>2. ~(st.nums > Most(TRUE)) /\ ~(st.colons > 7)
        BY <1>13, <4>1 DEF Most
      <4>3. QED
        BY <1>13, <4>2, LimitedIs
    <3>5. f[j] = st
      BY <1>13, <3>2, <3>3, <3>4 DEF Ipv6Step
    <3>6. QED
      BY <3>1, <3>5 DEF j
  <2> HIDE DEF G
  <2>3. m .. n \subseteq G
    BY <1>1, <1>4, <2>1, <2>2, From
  <2>4. QED
    BY <2>3 DEF G
<1>15. f[n] = st
  <2>1. n \in m .. n
    BY <1>1, <1>4, <1>12
  <2>2. QED
    BY <1>14, <2>1
<1>16. Ipv6Chars(s, TRUE)
  <2>1. SUFFICES ASSUME NEW q \in 1 .. n PROVE IsHex(s[q]) \/ s[q] \in {":", ".", "%"} \/ s[q] = "/"
    BY <1>4 DEF Ipv6Chars
  <2>2. CASE q \in 1 .. b
    BY <1>8, <2>2 DEF Clear
  <2>3. CASE q = m
    BY <1>3, <2>3
  <2>4. CASE q \in m + 1 .. n
    BY <1>12, <2>4 DEF IsHex
  <2>5. QED
    BY <1>4, <2>2, <2>3, <2>4
<1>17. SubSeq(s, st.sp, n) = u
  BY <1>13 DEF u
<1>18. QED
  BY <1>7, <1>13, <1>15, <1>16, <1>17 DEF Ipv6Prefix, f

-----------------------------------------------------------------------------
(* Ranges: strtoul as numbers in two's complement                          *)

LEMMA UnsignedIs ==
    ASSUME NEW s \in Word
    PROVE  /\ Unsigned(s) \in Word
           /\ At(s, 1) = "-" => s # <<>> /\ Unsigned(s) = Tail(s)
           /\ At(s, 1) # "-" => Unsigned(s) = s
           /\ AllDigits(Unsigned(s)) => Number(Unsigned(s)) \in Nat
<1>1. At(s, 1) = "-" => s # <<>> /\ Tail(s) \in Word
  <2>1. At(s, 1) = "-" => Len(s) >= 1
    BY WordIs DEF End
  <2>2. s # <<>> => Tail(s) \in Word
    BY DEF Word
  <2>3. QED
    BY <2>1, <2>2
<1>2. Unsigned(s) \in Word
  BY <1>1 DEF Unsigned
<1>3. AllDigits(Unsigned(s)) => Number(Unsigned(s)) \in Nat
  BY <1>2, NumberType
<1>4. QED
  BY <1>1, <1>2, <1>3 DEF Unsigned

(* cmd_range_match *)
LEMMA RangeIs ==
    ASSUME NEW s \in Word
    PROVE  InRange(s) <=> InTwosComplement(s)
<1> DEFINE u == Unsigned(s)
           num == Number(u)
           minus == At(s, 1) = "-"
<1>1. /\ u \in Word
      /\ minus => s # <<>> /\ u = Tail(s)
      /\ ~minus => u = s
      /\ AllDigits(u) => num \in Nat
  BY UnsignedIs
<1>2. UlongMax \in Nat /\ Low \in Nat /\ High \in Nat /\ Low <= High /\ High <= UlongMax
  BY MatchersAssumption
<1>3. s = <<>> => ~minus /\ AllDigits(u) /\ num = 0
  <2>1. s = <<>> => Len(s) = 0
    OBVIOUS
  <2>2. s = <<>> => ~minus
    BY <2>1, WordIs DEF End
  <2>3. AllDigits(<<>>)
    BY DEF AllDigits
  <2>4. QED
    BY <1>1, <2>2, <2>3, NumberOfNone
<1>4. s = <<"-">> <=> minus /\ u = <<>>
  <2>1. s = <<"-">> => minus /\ u = <<>>
    <3>1. ASSUME s = <<"-">> PROVE minus /\ Tail(s) = <<>>
      <4>1. Len(s) = 1 /\ s[1] = "-"
        BY <3>1
      <4>2. minus
        BY <4>1, WordIs
      <4>3. QED
        BY <3>1, <4>2
    <3>2. QED
      BY <1>1, <3>1
  <2>2. minus /\ u = <<>> => s = <<"-">>
    <3>1. ASSUME minus, Tail(s) = <<>> PROVE s = <<"-">>
      <4>1. s \in Seq(Alphabet) /\ s # <<>>
        BY <1>1, <3>1 DEF Word
      <4>2. Len(s) = 1
        <5>1. Len(Tail(s)) = Len(s) - 1 /\ Len(s) \in Nat
          BY <4>1
        <5>2. <<>> = Tail(s)
          BY <3>1
        <5>3. Len(Tail(s)) = 0
          <6>1. Len(<<>>) = 0
            OBVIOUS
          <6>2. QED
            BY <5>2, <6>1, Zenon
        <5>4. QED
          BY <5>1, <5>3
      <4>3. s[1] = "-"
        <5>1. 1 \in 1 .. Len(s)
          BY <4>2
        <5>2. At(s, 1) = s[1]
          BY <5>1, WordIs
        <5>3. At(s, 1) = "-"
          BY <3>1
        <5>4. QED
          BY <5>2, <5>3
      <4>4. QED
        BY <4>1, <4>2, <4>3
    <3>2. QED
      BY <1>1, <3>1
  <2>3. QED
    BY <2>1, <2>2
<1>5. Strtoul(s) = IF num > UlongMax THEN UlongMax ELSE IF minus /\ num > 0 THEN UlongMax + 1 - num ELSE num
  BY DEF Strtoul
<1>6. InRange(s) <=> s # <<"-">> /\ AllDigits(u) /\ Strtoul(s) >= Low /\ Strtoul(s) <= High
  <2>1. AllDigits(u) => Strtoul(s) \in Int
    BY <1>1, <1>2, <1>5
  <2>2. QED
    BY <1>2, <2>1 DEF InRange
<1>7. InTwosComplement(s) <=>
        \E n \in Low .. High :
          \/ s # <<>> /\ AllDigits(s) /\ Number(s) = n
          \/ s = <<>> /\ n = 0
          \/ u # <<>> /\ AllDigits(u) /\ num > UlongMax /\ n = UlongMax
          \/ minus /\ Tail(s) # <<>> /\ AllDigits(Tail(s)) /\ Number(Tail(s)) <= UlongMax
             /\ Number(Tail(s)) + n \in {0, UlongMax + 1}
  BY DEF InTwosComplement, IsNumber
<1> HIDE DEF u, num, minus
<1>8. minus => ~AllDigits(s)
  <2>1. minus => 1 \in DOMAIN s /\ s[1] = "-"
    BY <1>1, WordIs DEF minus, End
  <2>2. QED
    BY <2>1, DigitsApart DEF AllDigits
<1>9. num = Number(u)
  BY DEF num
<1>10. ASSUME InRange(s) PROVE InTwosComplement(s)
  <2>1. /\ num \in Nat /\ AllDigits(u) /\ s # <<"-">> /\ (minus => u # <<>>)
        /\ Strtoul(s) >= Low /\ Strtoul(s) <= High
    BY <1>1, <1>4, <1>6, <1>10
  <2>2. CASE num > UlongMax
    <3>1. UlongMax \in Low .. High
      BY <1>2, <1>5, <2>1, <2>2
    <3>2. u # <<>>
      BY <1>2, <1>3, <1>1, <2>1, <2>2
    <3>3. QED
      BY <1>7, <2>1, <2>2, <3>1, <3>2
  <2>3. CASE ~(num > UlongMax) /\ minus /\ num > 0
    <3> DEFINE m == UlongMax + 1 - num
    <3>1. m \in Low .. High /\ num + m = UlongMax + 1 /\ num <= UlongMax
      BY <1>2, <1>5, <2>1, <2>3
    <3> HIDE DEF m
    <3>2. QED
      BY <1>1, <1>7, <1>9, <2>1, <2>3, <3>1
  <2>4. CASE ~(num > UlongMax) /\ minus /\ ~(num > 0)
    <3>1. num = 0 /\ 0 \in Low .. High /\ num + 0 = 0 /\ num <= UlongMax
      BY <1>2, <1>5, <2>1, <2>4
    <3>2. QED
      BY <1>1, <1>7, <1>9, <2>1, <2>4, <3>1
  <2>5. CASE ~(num > UlongMax) /\ ~minus
    <3>1. num \in Low .. High
      BY <1>2, <1>5, <2>1, <2>5
    <3>2. QED
      BY <1>1, <1>3, <1>7, <1>9, <2>1, <2>5, <3>1
  <2>6. QED
    BY <2>2, <2>3, <2>4, <2>5
<1>11. ASSUME InTwosComplement(s) PROVE InRange(s)
  <2>1. PICK n \in Low .. High :
          \/ s # <<>> /\ AllDigits(s) /\ Number(s) = n
          \/ s = <<>> /\ n = 0
          \/ u # <<>> /\ AllDigits(u) /\ num > UlongMax /\ n = UlongMax
          \/ minus /\ Tail(s) # <<>> /\ AllDigits(Tail(s)) /\ Number(Tail(s)) <= UlongMax
             /\ Number(Tail(s)) + n \in {0, UlongMax + 1}
    BY <1>7, <1>11
  <2>2. n \in Int /\ n >= Low /\ n <= High /\ n <= UlongMax
    BY <1>2
  <2>3. CASE (s # <<>> /\ AllDigits(s) /\ Number(s) = n) \/ (s = <<>> /\ n = 0)
    <3>1. ~minus /\ AllDigits(u) /\ num = n
      BY <1>1, <1>3, <1>8, <1>9, <2>3
    <3>2. Strtoul(s) = n
      BY <1>2, <1>5, <2>2, <3>1
    <3>3. QED
      BY <1>4, <1>6, <2>2, <3>1, <3>2
  <2>4. CASE u # <<>> /\ AllDigits(u) /\ num > UlongMax /\ n = UlongMax
    <3>1. Strtoul(s) = n
      BY <1>5, <2>4
    <3>2. QED
      BY <1>4, <1>6, <2>2, <2>4, <3>1
  <2>5. CASE minus /\ Tail(s) # <<>> /\ AllDigits(Tail(s)) /\ Number(Tail(s)) <= UlongMax
             /\ Number(Tail(s)) + n \in {0, UlongMax + 1}
    <3>1. u # <<>> /\ AllDigits(u) /\ num \in Nat /\ num <= UlongMax /\ (num + n = 0 \/ num + n = UlongMax + 1)
      BY <1>1, <1>9, <2>5
    <3>2. Strtoul(s) = n
      BY <1>2, <1>5, <2>2, <2>5, <3>1
    <3>3. QED
      BY <1>4, <1>6, <2>2, <3>1, <3>2
  <2>6. QED
    BY <2>1, <2>3, <2>4, <2>5
<1>12. QED
  BY <1>10, <1>11

-----------------------------------------------------------------------------
(* MAC addresses                                                           *)

LEMMA HexitIs ==
    ASSUME NEW c \in Alphabet, IsHex(c)
    PROVE  Nibble(c) = Hexit(c) /\ Nibble(c) \in 0 .. 15
<1> DEFINE H == <<"0", "1", "2", "3", "4", "5", "6", "7", "8", "9", "a", "b", "c", "d", "e", "f">>
<1>1. c \in {"0", "1", "2", "3", "4", "5", "6", "7", "8", "9", "a", "f"}
  BY AlphabetIs, DigitsApart
<1>2. /\ Code["0"] = 48 /\ Code["1"] = 49 /\ Code["2"] = 50 /\ Code["3"] = 51 /\ Code["4"] = 52
      /\ Code["5"] = 53 /\ Code["6"] = 54 /\ Code["7"] = 55 /\ Code["8"] = 56 /\ Code["9"] = 57
      /\ Code["a"] = 97 /\ Code["f"] = 102
  BY CodeOf
<1>3. /\ H[1] = "0" /\ H[2] = "1" /\ H[3] = "2" /\ H[4] = "3" /\ H[5] = "4" /\ H[6] = "5"
      /\ H[7] = "6" /\ H[8] = "7" /\ H[9] = "8" /\ H[10] = "9" /\ H[11] = "a" /\ H[12] = "b"
      /\ H[13] = "c" /\ H[14] = "d" /\ H[15] = "e" /\ H[16] = "f"
  OBVIOUS
<1> HIDE DEF H
<1>4. ASSUME NEW n \in 0 .. 15, NEW m \in 0 .. 15, H[n + 1] = H[m + 1] PROVE n = m
  BY <1>3, <1>4
<1>5. \A n \in 0 .. 15 : c = H[n + 1] => Hexit(c) = n
  BY <1>4 DEF Hexit, H
<1>6. CASE c = "a"
  <2>1. Nibble(c) = 10
    BY <1>2, <1>6, DigitsApart DEF Nibble
  <2>2. 10 \in 0 .. 15 /\ c = H[10 + 1]
    BY <1>3, <1>6
  <2>3. QED
    BY <1>5, <2>1, <2>2
<1>7. CASE c = "f"
  <2>1. Nibble(c) = 15
    BY <1>2, <1>7, DigitsApart DEF Nibble
  <2>2. 15 \in 0 .. 15 /\ c = H[15 + 1]
    BY <1>3, <1>7
  <2>3. QED
    BY <1>5, <2>1, <2>2
<1>8. CASE c \notin {"a", "f"}
  <2>1. PICK n \in 0 .. 9 : c = H[n + 1] /\ Code[c] = 48 + n
    BY <1>1, <1>2, <1>3, <1>8
  <2>2. Nibble(c) = n
    BY <1>1, <1>2, <1>8, <2>1, DigitsApart DEF Nibble
  <2>3. n \in 0 .. 15
    OBVIOUS
  <2>4. QED
    BY <1>5, <2>1, <2>2, <2>3
<1>9. QED
  BY <1>6, <1>7, <1>8

LEMMA MacGroups ==
    ASSUME NEW s \in Word, Len(s) = 17, \A i \in 1 .. 17 : s[i] = ":" <=> i % 3 = 0
    PROVE  LET g == Groups(s, ":")
           IN  /\ Len(g) = 6
               /\ \A k \in 1 .. 6 : /\ g[k] \in Word /\ Len(g[k]) = 2
                                    /\ g[k][1] = s[3 * k - 2] /\ g[k][2] = s[3 * k - 1]
<1> DEFINE c == Cuts(s, ":")
           g == Groups(s, ":")
<1>1. c[0] = <<0>> /\ \A i \in 1 .. 17 : c[i] = IF s[i] = ":" THEN Append(c[i - 1], i) ELSE c[i - 1]
  <2>1. c[0] = <<0>> /\ \A i \in 1 .. Len(s) : c[i] = IF s[i] = ":" THEN Append(c[i - 1], i) ELSE c[i - 1]
    BY CutsIs
  <2> HIDE DEF c
  <2>2. QED
    BY <2>1
<1> DEFINE x == c[17]
<1>2. /\ g \in Seq(Word) /\ Len(g) = Len(x)
      /\ \A k \in 1 .. Len(x) - 1 : g[k] = SubSeq(s, x[k] + 1, x[k + 1] - 1)
      /\ g[Len(x)] = SubSeq(s, x[Len(x)] + 1, 17)
  <2>1. /\ g \in Seq(Word) /\ Len(g) = Len(c[Len(s)])
        /\ \A k \in 1 .. Len(c[Len(s)]) - 1 : g[k] = SubSeq(s, c[Len(s)][k] + 1, c[Len(s)][k + 1] - 1)
        /\ g[Len(c[Len(s)])] = SubSeq(s, c[Len(s)][Len(c[Len(s)])] + 1, Len(s))
    BY GroupsAre
  <2> HIDE DEF c, g
  <2>2. QED
    BY <2>1
<1> HIDE DEF c, g
<1>3. ASSUME NEW i \in {0, 3, 6, 9, 12} PROVE c[i + 3] = Append(c[i], i + 3)
  <2>1. /\ i + 1 \in 1 .. 17 /\ i + 2 \in 1 .. 17 /\ i + 3 \in 1 .. 17
        /\ (i + 1) % 3 # 0 /\ (i + 2) % 3 # 0 /\ (i + 3) % 3 = 0
        /\ (i + 1) - 1 = i /\ (i + 2) - 1 = i + 1 /\ (i + 3) - 1 = i + 2
    OBVIOUS
  <2>2. s[i + 1] # ":" /\ s[i + 2] # ":" /\ s[i + 3] = ":"
    BY <2>1
  <2>3. c[i + 1] = c[i]
    BY <1>1, <2>1, <2>2
  <2>4. c[i + 2] = c[i + 1]
    BY <1>1, <2>1, <2>2
  <2>5. QED
    BY <1>1, <2>1, <2>2, <2>3, <2>4
<1> DEFINE P(j) == /\ c[3 * j - 3] \in Seq(Nat) /\ Len(c[3 * j - 3]) = j
                   /\ \A k \in 1 .. j : c[3 * j - 3][k] = 3 * k - 3
<1>4. P(1)
  <2>1. 3 * 1 - 3 = 0
    OBVIOUS
  <2>2. <<0>> \in Seq(Nat) /\ Len(<<0>>) = 1 /\ \A k \in 1 .. 1 : <<0>>[k] = 3 * k - 3
    OBVIOUS
  <2>3. QED
    BY <1>1, <2>1, <2>2
<1>5. ASSUME NEW j \in 1 .. 5, P(j) PROVE P(j + 1)
  <2>1. PICK i \in {0, 3, 6, 9, 12} : i = 3 * j - 3
    OBVIOUS
  <2>2. i + 3 = 3 * (j + 1) - 3 /\ i + 3 \in Nat
    BY <2>1
  <2>3. c[i + 3] = Append(c[i], i + 3)
    BY <1>3
  <2>4. c[i] \in Seq(Nat) /\ Len(c[i]) = j /\ \A k \in 1 .. j : c[i][k] = 3 * k - 3
    BY <1>5, <2>1
  <2> DEFINE y == c[i]
             z == c[i + 3]
             l == i + 3
  <2>5. z = Append(y, l) /\ l = 3 * (j + 1) - 3 /\ l \in Nat
    BY <2>2, <2>3
  <2>6. y \in Seq(Nat) /\ Len(y) = j /\ \A k \in 1 .. j : y[k] = 3 * k - 3
    BY <2>4
  <2> HIDE DEF y, z, l
  <2>7. z \in Seq(Nat) /\ Len(z) = j + 1 /\ z[j + 1] = l /\ \A k \in 1 .. j : z[k] = y[k]
    <3>1. Append(y, l) \in Seq(Nat) /\ Len(Append(y, l)) = Len(y) + 1 /\ Append(y, l)[Len(y) + 1] = l
      BY <2>5, <2>6
    <3>2. ASSUME NEW k \in 1 .. Len(y) PROVE Append(y, l)[k] = y[k]
      BY <2>5, <2>6
    <3> HIDE DEF P
    <3>3. QED
      BY <2>5, <2>6, <3>1, <3>2
  <2>8. \A k \in 1 .. j + 1 : k \in 1 .. j \/ k = j + 1
    OBVIOUS
  <2>9. \A k \in 1 .. j + 1 : z[k] = 3 * k - 3
    BY <2>5, <2>6, <2>7, <2>8
  <2>10. z = c[3 * (j + 1) - 3]
    BY <2>2 DEF z
  <2>11. QED
    BY <2>7, <2>9, <2>10
<1>6. P(2) /\ P(3)
  <2>1. 1 \in 1 .. 5 /\ 2 \in 1 .. 5 /\ 1 + 1 = 2 /\ 2 + 1 = 3
    OBVIOUS
  <2> HIDE DEF P
  <2>2. P(2)
    BY <1>4, <1>5, <2>1
  <2>3. QED
    BY <1>5, <2>1, <2>2
<1>7. P(4) /\ P(5)
  <2>1. 3 \in 1 .. 5 /\ 4 \in 1 .. 5 /\ 3 + 1 = 4 /\ 4 + 1 = 5
    OBVIOUS
  <2> HIDE DEF P
  <2>2. P(4)
    BY <1>5, <1>6, <2>1
  <2>3. QED
    BY <1>5, <2>1, <2>2
<1>8. Len(c[15]) = 6 /\ \A k \in 1 .. 6 : c[15][k] = 3 * k - 3
  <2>1. 5 \in 1 .. 5 /\ 5 + 1 = 6
    OBVIOUS
  <2> HIDE DEF P
  <2>2. P(6)
    BY <1>5, <1>7, <2>1
  <2>3. 3 * 6 - 3 = 15
    OBVIOUS
  <2>4. QED
    BY <2>2, <2>3 DEF P
<1> HIDE DEF P
<1>9. x = c[15]
  <2>1. 16 \in 1 .. 17 /\ 17 \in 1 .. 17 /\ 16 % 3 # 0 /\ 17 % 3 # 0 /\ 16 - 1 = 15 /\ 17 - 1 = 16
    OBVIOUS
  <2>2. c[16] = c[15]
    BY <1>1, <2>1
  <2>3. c[17] = c[16]
    BY <1>1, <2>1
  <2>4. QED
    BY <2>2, <2>3
<1>10. Len(x) = 6 /\ \A k \in 1 .. 6 : x[k] = 3 * k - 3
  BY <1>8, <1>9
<1> HIDE DEF x
<1>11. ASSUME NEW k \in 1 .. 6 PROVE g[k] = SubSeq(s, 3 * k - 2, 3 * k - 1)
  <2>1. CASE k = 6
    <3>1. x[6] = 15 /\ g[6] = SubSeq(s, x[6] + 1, 17)
      BY <1>2, <1>10
    <3>2. 15 + 1 = 3 * 6 - 2 /\ 3 * 6 - 1 = 17
      OBVIOUS
    <3>3. QED
      BY <2>1, <3>1, <3>2
  <2>2. CASE k # 6
    <3>1. k \in 1 .. 6 - 1 /\ k + 1 \in 1 .. 6
      BY <2>2
    <3>2. x[k] + 1 = 3 * k - 2 /\ x[k + 1] - 1 = 3 * k - 1
      BY <1>10, <3>1
    <3>3. QED
      BY <1>2, <1>10, <3>1, <3>2
  <2>3. QED
    BY <2>1, <2>2
<1>12. ASSUME NEW k \in 1 .. 6
       PROVE  g[k] \in Word /\ Len(g[k]) = 2 /\ g[k][1] = s[3 * k - 2] /\ g[k][2] = s[3 * k - 1]
  <2>1. PICK a \in Nat \ {0} : a = 3 * k - 2
    OBVIOUS
  <2>2. PICK b \in 0 .. 17 : b = 3 * k - 1 /\ b = a + 1
    BY <2>1
  <2> DEFINE u == SubSeq(s, a, b)
  <2>3. g[k] = u
    BY <1>11, <2>1, <2>2
  <2>4. u \in Word /\ Len(u) = (IF a <= b THEN b - a + 1 ELSE 0) /\ \A i \in 1 .. Len(u) : u[i] = s[a + i - 1]
    BY PartIs
  <2> HIDE DEF u
  <2>5. Len(u) = 2 /\ u[1] = s[a + 1 - 1] /\ u[2] = s[a + 2 - 1]
    BY <2>2, <2>4
  <2>6. a + 1 - 1 = a /\ a + 2 - 1 = b
    BY <2>2
  <2>7. QED
    BY <2>1, <2>2, <2>3, <2>4, <2>5, <2>6
<1>13. QED
  BY <1>2, <1>10, <1>12 DEF g

(* is_mac_valid and macstr_to_macaddr, of a word with colons. *)
LEMMA MacIs ==
    ASSUME NEW s \in Word, MacValid(s), "-" \notin ToSet(s)
    PROVE  /\ MacGood(s)
           /\ MacBytes(s) = [k \in 1 .. 6 |-> 16 * Hexit(s[3 * k - 2]) + Hexit(s[3 * k - 1])]
<1> DEFINE g == Groups(s, ":")
<1>1. Len(s) = 17 /\ DOMAIN s = 1 .. 17 /\ \A i \in 1 .. 17 : s[i] \in Alphabet
  BY WordIs DEF MacValid
<1>2. \A i \in 1 .. 17 : IF i % 3 = 0 THEN s[i] = ":" ELSE IsHex(s[i])
  BY <1>1 DEF MacValid, ToSet
<1>3. \A i \in 1 .. 17 : s[i] = ":" <=> i % 3 = 0
  BY <1>2, DigitsApart
<1>4. /\ Len(g) = 6
      /\ \A k \in 1 .. 6 : /\ g[k] \in Word /\ Len(g[k]) = 2
                           /\ g[k][1] = s[3 * k - 2] /\ g[k][2] = s[3 * k - 1]
  BY <1>1, <1>3, MacGroups
<1> HIDE DEF g
<1>5. ASSUME NEW k \in 1 .. 6
      PROVE  /\ g[k][1] \in Alphabet /\ g[k][2] \in Alphabet /\ IsHex(g[k][1]) /\ IsHex(g[k][2])
             /\ g[k][1] = s[3 * k - 2] /\ g[k][2] = s[3 * k - 1]
  <2>1. /\ 3 * k - 2 \in 1 .. 17 /\ 3 * k - 1 \in 1 .. 17
        /\ (3 * k - 2) % 3 # 0 /\ (3 * k - 1) % 3 # 0
    OBVIOUS
  <2>2. QED
    BY <1>1, <1>2, <1>4, <2>1
<1>6. \A c, d \in Alphabet : IsHex(c) /\ IsHex(d) => Pair(c, d)
  BY CodeType DEF Pair, IsHex, IsDigit, IsAlpha
<1>7. MacFirst(g) = <<g[1][1], g[1][2]>>
  <2>1. g[1] \in Word /\ Len(g[1]) = 2
    BY <1>4
  <2>2. g[1] # <<>> /\ At(g[1], 1) = g[1][1] /\ At(g[1], 2) = g[1][2]
    BY <2>1, WordIs
  <2>3. QED
    BY <2>2 DEF MacFirst
<1>8. MacGood(s)
  <2>1. \A k \in 1 .. 6 : Len(g[k]) = 2 /\ Pair(g[k][1], g[k][2])
    BY <1>4, <1>5, <1>6
  <2>2. Pair(MacFirst(g)[1], MacFirst(g)[2])
    BY <1>7, <2>1
  <2>3. Len(g[1]) # 1
    BY <1>4
  <2>4. QED
    BY <1>4, <2>1, <2>2, <2>3 DEF MacGood, g
<1>9. \A c, d \in Alphabet : IsHex(c) /\ IsHex(d) => Byte(c, d) = 16 * Hexit(c) + Hexit(d)
  <2>1. ASSUME NEW c \in Alphabet, NEW d \in Alphabet, IsHex(c), IsHex(d)
        PROVE  Byte(c, d) = 16 * Hexit(c) + Hexit(d)
    <3>1. PICK a \in 0 .. 15 : a = Nibble(c) /\ a = Hexit(c)
      BY <2>1, HexitIs
    <3>2. PICK b \in 0 .. 15 : b = Nibble(d) /\ b = Hexit(d)
      BY <2>1, HexitIs
    <3>3. (16 * a + b) % 256 = 16 * a + b
      OBVIOUS
    <3>4. QED
      BY <3>1, <3>2, <3>3 DEF Byte
  <2>2. QED
    BY <2>1
<1> DEFINE B(k) == 16 * Hexit(s[3 * k - 2]) + Hexit(s[3 * k - 1])
<1>10. \A k \in 1 .. 6 : Byte(g[k][1], g[k][2]) = B(k)
  BY <1>5, <1>9
<1>11. MacBytes(s) = <<Byte(g[1][1], g[1][2])>> \o [k \in 1 .. 5 |-> Byte(g[k + 1][1], g[k + 1][2])]
  BY <1>7 DEF MacBytes, g
<1>12. Byte(g[1][1], g[1][2]) = B(1) /\ \A k \in 1 .. 5 : Byte(g[k + 1][1], g[k + 1][2]) = B(k + 1)
  BY <1>10
<1> HIDE DEF B
<1>13. MacBytes(s) = <<B(1)>> \o [k \in 1 .. 5 |-> B(k + 1)]
  BY <1>11, <1>12
<1>14. <<B(1)>> \o [k \in 1 .. 5 |-> B(k + 1)] = [k \in 1 .. 6 |-> B(k)]
  OBVIOUS
<1>15. QED
  BY <1>8, <1>13, <1>14 DEF B

-----------------------------------------------------------------------------
(* Exact is said of the notations: whatever is typed, exact is an address, *)
(* a prefix, a number of the range or the bytes of a MAC address, as the   *)
(* notation has them, and every address in full is exact.                  *)
THEOREM ExactStands == Spec => []ExactIsRight
<1>1. TypingInv => ExactIsRight
  <2>1. SUFFICES ASSUME TypingInv PROVE ExactIsRight
    OBVIOUS
  <2>2. typed \in Word /\ goal.kind \in MatcherKinds
    BY <2>1, GoalIs DEF TypingInv
  <2> DEFINE v == Verdict(goal.kind, typed)
             undotted == {".", "%"} \cap ToSet(typed) = {}
  <2>3. undotted => \A q \in 1 .. Len(typed) : typed[q] # "." /\ typed[q] # "%"
    BY <2>2, InToSet DEF Word
  <2>4. CASE goal.kind = "ipv4"
    <3>1. v = Ipv4(typed) /\ ((v = Exact) <=> Dotted(typed)) /\ (GoodIp(typed) <=> Dotted(typed))
      BY <2>2, <2>4, Ipv4ExactIs DEF Verdict
    <3>2. GoodIp(typed) \in BOOLEAN /\ Dotted(typed) \in BOOLEAN
      BY DEF GoodIp, Dotted
    <3>3. QED
      BY <2>4, <3>1, <3>2, Zenon DEF ExactIsRight
  <2>5. CASE goal.kind = "ipv4 prefix"
    <3> DEFINE one == Len(Groups(typed, "/")) = 2
               masked == Masked(typed, 32) /\ Dotted(Address(typed))
    <3>1. v = Ipv4Prefix(typed)
      BY <2>5 DEF Verdict
    <3>2. v = Exact => Masked(typed, 32)
      BY <2>2, <3>1, PrefixExactIs
    <3>3. one => (v = Exact <=> masked)
      BY <2>2, <3>1, OneSlashExact
    <3>4. masked \in BOOLEAN
      OBVIOUS
    <3>5. one => (v = Exact) = masked
      <4> HIDE DEF one, masked, v
      <4>1. QED
        BY <3>3, <3>4, Zenon
    <3> HIDE DEF v
    <3>6. QED
      BY <2>5, <3>2, <3>5 DEF ExactIsRight, v
  <2>6. CASE goal.kind = "ipv6"
    <3>1. v = Ipv6(typed)
      BY <2>6 DEF Verdict
    <3>2. v = Exact /\ undotted => Hexed(typed)
      BY <2>2, <2>3, <3>1, Ipv6ExactIs
    <3>3. Whole(typed) => v = Exact
      BY <2>2, <3>1, Ipv6Complete
    <3>4. QED
      BY <2>6, <3>2, <3>3 DEF ExactIsRight
  <2>7. CASE goal.kind = "ipv6 prefix"
    <3>1. v = Ipv6Prefix(typed)
      BY <2>7 DEF Verdict
    <3>2. (v = Exact => Masked(typed, 128)) /\ (v = Exact /\ undotted => Hexed(Address(typed)))
      BY <2>2, <2>3, <3>1, Ipv6PrefixExactIs
    <3>3. OneMask(typed, 128) /\ Whole(Address(typed)) => v = Exact
      BY <2>2, <3>1, Ipv6PrefixComplete
    <3>4. QED
      BY <2>7, <3>2, <3>3 DEF ExactIsRight
  <2>8. CASE goal.kind = "range"
    <3>1. (v = Exact) <=> InTwosComplement(typed)
      BY <2>2, <2>8, RangeIs, GoIsNot DEF Verdict
    <3>2. InTwosComplement(typed) \in BOOLEAN
      BY DEF InTwosComplement
    <3>3. QED
      BY <2>8, <3>1, <3>2, Zenon DEF ExactIsRight
  <2>9. CASE goal.kind = "mac"
    <3>1. v = Exact /\ "-" \notin ToSet(typed) =>
            /\ MacGood(typed)
            /\ MacBytes(typed) = [k \in 1 .. 6 |-> 16 * Hexit(typed[3 * k - 2]) + Hexit(typed[3 * k - 1])]
      BY <2>2, <2>9, MacIs, GoIsNot DEF Verdict
    <3>2. QED
      BY <2>9, <3>1 DEF ExactIsRight
  <2>10. QED
    BY <2>2, <2>4, <2>5, <2>6, <2>7, <2>8, <2>9 DEF MatcherKinds
<1>2. QED
  BY <1>1, TypingInvInit, TypingInvNext, PTL DEF Spec

LEMMA TypedBeginning ==
    ASSUME TypingInv, slips = 0
    PROVE  \E k \in 0 .. Len(goal.word) : typed = SubSeq(goal.word, 1, k)
<1>1. goal \in Goals /\ place \in 1 .. Len(goal.word) + 1 /\ typed = SubSeq(goal.word, 1, place - 1)
  BY DEF TypingInv
<1>2. Len(goal.word) \in Nat
  BY <1>1, GoalIs
<1> DEFINE k == place - 1
<1>3. k \in 0 .. Len(goal.word)
  BY <1>1, <1>2
<1>4. QED
  BY <1>1, <1>3

LEMMA WholeUndotted ==
    ASSUME NEW s \in Word, Whole(s)
    PROVE  \A i \in 1 .. Len(s) : s[i] # "."
<1>1. Len(s) \in 0 .. Len(s)
  BY WordIs
<1>2. Whole(SubSeq(s, 1, Len(s)))
  BY WholeWord, Zenon
<1>3. Clear(s, Len(s))
  BY <1>1, <1>2, WholeIsClear
<1>4. \A i \in 1 .. Len(s) : s[i] = ":" \/ IsHex(s[i])
  BY <1>3 DEF Clear
<1>5. QED
  BY <1>4, DigitsApart

(* Who types a complete address without a slip is refused at no character: *)
(* the matchers of beginnings keep up with those of whole words, and those *)
(* know every address that is written in full (GoalsAssumption).           *)
THEOREM TypedIsThrough == Spec => []TypedThrough
<1>1. TypingInv => TypedThrough
  <2>1. SUFFICES ASSUME TypingInv, slips = 0, goal.kind \notin {"range", "mac"}
                 PROVE  /\ Verdict(goal.kind, typed) # No
                        /\ typed = goal.word => Verdict(goal.kind, typed) = Exact
    BY DEF TypedThrough
  <2>2. goal \in Goals
    BY <2>1 DEF TypingInv
  <2>3. /\ goal.word \in Word /\ Len(goal.word) \in Nat
        /\ goal.kind \in {"ipv4", "ipv4 prefix", "ipv6", "ipv6 prefix"}
    BY <2>1, <2>2, GoalIs DEF MatcherKinds
  <2>4. Verdict(goal.kind, goal.word) = Exact
    <3>1. CASE goal.kind = "ipv4"
      BY <2>2, <2>3, <3>1, GoalsAssumption, Ipv4ExactIs DEF GoalsComplete, Verdict
    <3>2. CASE goal.kind = "ipv4 prefix"
      <4>1. Masked(goal.word, 32) /\ Len(Groups(goal.word, "/")) = 2 /\ Dotted(Address(goal.word))
        BY <2>2, <3>2, GoalsAssumption DEF GoalsComplete, OneMask
      <4>2. QED
        BY <2>3, <3>2, <4>1, OneSlashExact DEF Verdict
    <3>3. CASE goal.kind = "ipv6"
      BY <2>2, <2>3, <3>3, GoalsAssumption, Ipv6Complete DEF GoalsComplete, Verdict
    <3>4. CASE goal.kind = "ipv6 prefix"
      <4>1. CASE OneMask(goal.word, 128) /\ Whole(Address(goal.word))
        BY <2>3, <3>4, <4>1, Ipv6PrefixComplete DEF Verdict
      <4>2. CASE Verdict(goal.kind, goal.word) = Exact
        BY <4>2
      <4>3. QED
        BY <2>2, <3>4, <4>1, <4>2, GoalsAssumption DEF GoalsComplete
    <3>5. QED
      BY <2>3, <3>1, <3>2, <3>3, <3>4
  <2>5. goal.kind = "ipv6" => \A i \in 1 .. Len(goal.word) : goal.word[i] # "."
    BY <2>2, <2>3, GoalsAssumption, WholeUndotted DEF GoalsComplete
  <2>6. PICK k \in 0 .. Len(goal.word) : typed = SubSeq(goal.word, 1, k)
    BY <2>1, TypedBeginning
  <2> DEFINE kind == goal.kind
             w == goal.word
  <2>7. Verdict(kind, SubSeq(w, 1, k)) # No
    <3>1. /\ w \in Word /\ kind \in {"ipv4", "ipv4 prefix", "ipv6", "ipv6 prefix"}
          /\ kind = "ipv6" => \A i \in 1 .. Len(w) : w[i] # "."
          /\ Verdict(kind, w) = Exact /\ k \in 0 .. Len(w)
      BY <2>3, <2>4, <2>5
    <3> HIDE DEF kind, w
    <3>2. QED
      BY <3>1, NotAcceptedLater
  <2>8. typed = goal.word => Verdict(goal.kind, typed) = Exact
    BY <2>4
  <2>9. QED
    BY <2>6, <2>7, <2>8
<1>2. QED
  BY <1>1, TypingInvInit, TypingInvNext, PTL DEF Spec
=============================================================================
