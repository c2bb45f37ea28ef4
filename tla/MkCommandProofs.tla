-------------------------- MODULE MkCommandProofs --------------------------
(***************************************************************************)
(* What the matcher of the command line guarantees, whatever commands are  *)
(* registered in whatever nodes and whatever words are typed.              *)
(***************************************************************************)
EXTENDS MkCommand, ListFacts, SequenceTheorems, FiniteSetTheorems, TLAPS

(* The words up to the n-th tell nothing between two commands. *)
SameRanks(c, e, n) == \A j \in 1..n : Rank(e, line[j], j) = Rank(c, line[j], j)

(* e is better than c at some word up to the n-th, and as good before. *)
Beats(e, c, n) ==
    \E i \in 1..n : Rank(e, line[i], i) > Rank(c, line[i], i) /\ SameRanks(c, e, i - 1)

AcceptsUpTo(c, n) == \A i \in 1..n : Accepts(c, line[i], i)

(* What the loop over the words knows after each of them: the candidates   *)
(* accept the words so far, and a command that accepts them is still a     *)
(* candidate, no better and no worse than the others, or beaten by all.    *)
CandidatesAccept ==
    pc = "match" =>
        /\ index \in Nat
        /\ cands \subseteq Installed[node]
        /\ \A c \in cands : AcceptsUpTo(c, index)
CandidatesAreBest ==
    pc = "match" =>
        \A c \in Installed[node], e \in cands :
            AcceptsUpTo(c, index) =>
                \/ c \in cands /\ SameRanks(c, e, index)
                \/ Beats(e, c, index)

MatcherInv ==
    /\ node \in Nodes
    /\ pc \in {"run", "rerun"} => chosen \in Commands
    /\ CandidatesAccept
    /\ CandidatesAreBest
    /\ RunsWhatAccepts
    /\ BestRuns

-----------------------------------------------------------------------------
(* The matcher's operators *)

(* What a match says of the alternative. *)
LEMMA MatchCases ==
    ASSUME NEW d, NEW w
    PROVE  /\ MatchOf(d, w) \in 0..3
           /\ MatchOf(d, w) = 3 <=> d.kind = "keyword" /\ d.word = w
           /\ MatchOf(d, w) = 2 <=> d.kind = "keyword" /\ d.word # w /\ Abbreviates(w, d.word)
           /\ MatchOf(d, w) = 1 <=> d.kind # "keyword"
<1>1. CASE d.kind # "keyword"
  <2>1. MatchOf(d, w) = 1
    BY <1>1 DEF MatchOf, ExtendMatch
  <2>2. QED
    BY <1>1, <2>1
<1>2. CASE d.kind = "keyword" /\ d.word = w
  <2>1. MatchOf(d, w) = 3
    BY <1>2 DEF MatchOf, ExactMatch
  <2>2. QED
    BY <1>2, <2>1
<1>3. CASE d.kind = "keyword" /\ d.word # w /\ Abbreviates(w, d.word)
  <2>1. MatchOf(d, w) = 2
    BY <1>3 DEF MatchOf, PartlyMatch
  <2>2. QED
    BY <1>3, <2>1
<1>4. CASE d.kind = "keyword" /\ d.word # w /\ ~Abbreviates(w, d.word)
  <2>1. MatchOf(d, w) = 0
    BY <1>4 DEF MatchOf, NoMatch
  <2>2. QED
    BY <1>4, <2>1
<1>5. QED
  BY <1>1, <1>2, <1>3, <1>4

(* The rank of a command is that of the best match of its alternatives. *)
LEMMA RankCases ==
    ASSUME NEW c, NEW w, NEW i
    PROVE  /\ Rank(c, w, i) \in 0..2
           /\ Rank(c, w, i) = 2 <=> \E d \in DescsAt(c, i) : MatchOf(d, w) = 3
           /\ Rank(c, w, i) = 1 <=> /\ \E d \in DescsAt(c, i) : MatchOf(d, w) = 2
                                    /\ \A d \in DescsAt(c, i) : MatchOf(d, w) # 3
  BY MatchCases DEF Rank

(* A word leaves a command that has a match for it. *)
LEMMA AcceptsMatch ==
    ASSUME NEW c, NEW w, NEW i
    PROVE  Accepts(c, w, i) <=> \E d \in DescsAt(c, i) : MatchOf(d, w) # 0
  BY MatchCases DEF Accepts

LEMMA MaxOfMatches ==
    ASSUME NEW S \in SUBSET (0..3), S # {}
    PROVE  Max(S) \in S /\ \A y \in S : y <= Max(S)
<1>1. \E x \in S : \A y \in S : x >= y
  <2>1. CASE 3 \in S
    BY <2>1
  <2>2. CASE 3 \notin S /\ 2 \in S
    BY <2>2
  <2>3. CASE 3 \notin S /\ 2 \notin S /\ 1 \in S
    BY <2>3
  <2>4. CASE 3 \notin S /\ 2 \notin S /\ 1 \notin S
    <3>1. \A x \in S : x = 0
      BY <2>4
    <3>2. PICK x \in S : TRUE
      OBVIOUS
    <3>3. QED
      BY <3>1, <3>2
  <2>5. QED
    BY <2>1, <2>2, <2>3, <2>4
<1>2. QED
  BY <1>1 DEF Max

(* After a word: the commands left accept it, and every other one that     *)
(* accepts it has a lower rank.                                            *)
LEMMA WordFilters ==
    ASSUME NEW C, NEW w, NEW i, NEW e \in FilterWord(C, w, i)
    PROVE  /\ e \in C /\ Accepts(e, w, i)
           /\ \A c \in C : Accepts(c, w, i) =>
                  \/ c \in FilterWord(C, w, i) /\ Rank(e, w, i) = Rank(c, w, i)
                  \/ Rank(e, w, i) > Rank(c, w, i)
<1> DEFINE F == Filter(C, w, i)
           m == MatchType(F, w, i)
           S == {NoMatch} \cup {MatchOf(d, w) : d \in UNION {DescsAt(c, i) : c \in F}}
<1>1. m \in S /\ \A y \in S : y <= m
  <2>1. S \in SUBSET (0..3) /\ S # {}
    BY MatchCases DEF NoMatch
  <2>2. QED
    BY <2>1, MaxOfMatches DEF MatchType
<1>2. S \subseteq 0..3
  BY MatchCases DEF NoMatch
<1>3. \A c \in F : \A d \in DescsAt(c, i) : MatchOf(d, w) <= m
  BY <1>1
<1>4. \A c \in C : Accepts(c, w, i) => c \in F
  BY AcceptsMatch DEF Filter, NoMatch
<1>5. e \in F /\ \E d \in DescsAt(e, i) : MatchOf(d, w) = m
  BY DEF FilterWord, Narrow
<1>6. e \in C /\ Accepts(e, w, i)
  BY <1>5, AcceptsMatch DEF Filter, NoMatch
<1>7. m \in 1..3
  <2>1. PICK d \in DescsAt(e, i) : MatchOf(d, w) # 0
    BY <1>6, AcceptsMatch
  <2>2. MatchOf(d, w) \in 0..3 /\ MatchOf(d, w) <= m /\ m \in 0..3
    BY <2>1, <1>1, <1>2, <1>3, <1>5, MatchCases
  <2>3. QED
    BY <2>1, <2>2
<1>8. ASSUME NEW c \in C, Accepts(c, w, i)
      PROVE  \/ c \in FilterWord(C, w, i) /\ Rank(e, w, i) = Rank(c, w, i)
             \/ Rank(e, w, i) > Rank(c, w, i)
  <2>1. c \in F
    BY <1>4, <1>8
  <2>2. c \in FilterWord(C, w, i) <=> \E d \in DescsAt(c, i) : MatchOf(d, w) = m
    BY <2>1 DEF FilterWord, Narrow
  <2>3. \E d \in DescsAt(c, i) : MatchOf(d, w) # 0
    BY <1>8, AcceptsMatch
  <2>4. /\ \A d \in DescsAt(c, i) : MatchOf(d, w) \in 0..3 /\ MatchOf(d, w) <= m
        /\ \A d \in DescsAt(e, i) : MatchOf(d, w) \in 0..3 /\ MatchOf(d, w) <= m
    BY <1>3, <1>5, <2>1, MatchCases
  <2>5. CASE m = 3
    <3>1. Rank(e, w, i) = 2
      BY <2>5, <1>5, RankCases
    <3>2. QED
      BY <3>1, <2>2, <2>5, RankCases
  <2>6. CASE m = 2
    <3>1. Rank(e, w, i) = 1
      BY <2>6, <2>4, <1>5, RankCases
    <3>2. Rank(c, w, i) # 2
      BY <2>6, <2>4, RankCases
    <3>3. QED
      BY <3>1, <3>2, <2>2, <2>4, <2>6, RankCases
  <2>7. CASE m = 1
    <3>1. Rank(e, w, i) = 0 /\ Rank(c, w, i) = 0
      BY <2>7, <2>4, RankCases
    <3>2. QED
      BY <3>1, <2>2, <2>3, <2>4, <2>7
  <2>8. QED
    BY <1>7, <2>5, <2>6, <2>7
<1>9. QED
  BY <1>6, <1>8

-----------------------------------------------------------------------------
(* The loop *)

LEMMA MatchWordStep ==
    ASSUME MatcherInv, MatchWord
    PROVE  CandidatesAccept' /\ CandidatesAreBest'
<1>0. pc = "match" /\ index \in Nat
  BY DEF MatchWord, MatcherInv, CandidatesAccept
<1> PICK n \in Nat : n = index + 1
  BY <1>0
<1>1. /\ pc = "match" /\ index \in Nat
      /\ cands' = FilterWord(cands, line[n], n) /\ index' = n
      /\ UNCHANGED <<node, line>>
  BY <1>0 DEF MatchWord, FilterWord
<1>2. \A c : AcceptsUpTo(c, n) <=> AcceptsUpTo(c, index) /\ Accepts(c, line[n], n)
  <2>1. 1..n = 1..index \cup {n}
    BY <1>1
  <2>2. QED
    BY <2>1 DEF AcceptsUpTo
<1>3. \A c : AcceptsUpTo(c, n)' <=> AcceptsUpTo(c, n)
  BY <1>1 DEF AcceptsUpTo
<1>4. \A c, e : SameRanks(c, e, n) <=>
                   SameRanks(c, e, index) /\ Rank(e, line[n], n) = Rank(c, line[n], n)
  <2>1. 1..n = 1..index \cup {n}
    BY <1>1
  <2>2. QED
    BY <2>1 DEF SameRanks
<1>5. \A c, e : /\ SameRanks(c, e, n)' <=> SameRanks(c, e, n)
                /\ Beats(e, c, n)' <=> Beats(e, c, n)
  BY <1>1 DEF SameRanks, Beats
<1>6. CandidatesAccept'
  <2>1. \A c \in cands' : c \in cands /\ Accepts(c, line[n], n)
    BY <1>1, WordFilters
  <2>2. \A c \in cands' : AcceptsUpTo(c, n)'
    BY <2>1, <1>1, <1>2, <1>3 DEF MatcherInv, CandidatesAccept
  <2>3. cands \subseteq Installed[node]
    BY <1>1 DEF MatcherInv, CandidatesAccept
  <2>4. QED
    BY <2>1, <2>2, <2>3, <1>1 DEF CandidatesAccept
<1>7. ASSUME NEW c \in Installed[node], NEW e \in cands', AcceptsUpTo(c, n)
      PROVE  (c \in cands' /\ SameRanks(c, e, n)) \/ Beats(e, c, n)
  <2>1. e \in cands /\ AcceptsUpTo(c, index) /\ Accepts(c, line[n], n)
    BY <1>1, <1>2, <1>7, WordFilters
  <2>2. CASE c \in cands /\ SameRanks(c, e, index)
    <3>1. \/ c \in cands' /\ Rank(e, line[n], n) = Rank(c, line[n], n)
          \/ Rank(e, line[n], n) > Rank(c, line[n], n)
      BY <1>1, <2>1, <2>2, WordFilters
    <3>2. n \in 1..n /\ n - 1 = index
      BY <1>1
    <3>3. QED
      BY <3>1, <3>2, <1>4, <2>2 DEF Beats
  <2>3. CASE Beats(e, c, index)
    <3>1. 1..index \subseteq 1..n
      BY <1>1
    <3>2. QED
      BY <3>1, <2>3 DEF Beats
  <2>4. QED
    BY <1>1, <2>1, <2>2, <2>3 DEF MatcherInv, CandidatesAreBest
<1>8. CandidatesAreBest'
  BY <1>1, <1>3, <1>5, <1>7 DEF CandidatesAreBest
<1>9. QED
  BY <1>6, <1>8

LEMMA DispatchStep ==
    ASSUME MatcherInv, Dispatch
    PROVE  RunsWhatAccepts' /\ BestRuns'
<1> SUFFICES ASSUME pc' = "run"
             PROVE  RunsWhatAccepts' /\ BestRuns'
  BY DEF RunsWhatAccepts, BestRuns
<1> DEFINE complete == {c \in cands : Complete(c, Len(line))}
<1>1. /\ pc = "match" /\ index = Len(line) /\ index \in Nat
      /\ cands \subseteq Installed[node]
      /\ Cardinality(complete) = 1 /\ chosen' \in complete
      /\ UNCHANGED <<node, line>>
  BY DEF Dispatch, Report, MatcherInv, CandidatesAccept
<1>2. complete = {chosen'}
  <2>1. IsFiniteSet(complete)
    <3>1. complete \subseteq Commands
      BY <1>1, CommandAssumption DEF MatcherInv
    <3>2. QED
      BY <3>1, CommandAssumption, FS_Subset
  <2>2. \E x : complete = {x}
    <3> HIDE DEF complete
    <3>1. QED
      BY <1>1, <2>1, FS_Singleton
  <2>3. QED
    BY <1>1, <2>2
<1>3. \A c : AcceptsLine(c, line) <=>
               Complete(c, Len(line)) /\ AcceptsUpTo(c, index)
  BY <1>1 DEF AcceptsLine, AcceptsWords, AcceptsUpTo, Complete
<1>4. RunsWhatAccepts'
  <2>1. chosen' \in Installed[node] /\ AcceptsLine(chosen', line)
    BY <1>1, <1>3 DEF MatcherInv, CandidatesAccept
  <2>2. QED
    BY <1>1, <2>1 DEF RunsWhatAccepts, AcceptsLine, AcceptsWords
<1>5. ASSUME NEW c \in Installed[node] \ {chosen'}, AcceptsLine(c, line)
      PROVE  Beats(chosen', c, index)
  <2>1. c \notin cands
    BY <1>2, <1>3, <1>5
  <2>2. QED
    BY <1>1, <1>3, <1>5, <2>1 DEF MatcherInv, CandidatesAreBest
<1>6. BestRuns'
  BY <1>1, <1>5 DEF BestRuns, Beats, SameRanks, AcceptsLine, AcceptsWords
<1>7. QED
  BY <1>4, <1>6

LEMMA MatcherInvInit == Init => MatcherInv
  BY CommandAssumption
     DEF Init, MatcherInv, CandidatesAccept, CandidatesAreBest, RunsWhatAccepts, BestRuns

LEMMA MatcherInvNext == MatcherInv /\ [Next]_vars => MatcherInv'
<1> SUFFICES ASSUME MatcherInv, [Next]_vars
             PROVE  MatcherInv'
  OBVIOUS
<1> USE DEF MatcherInv, CandidatesAccept, CandidatesAreBest, RunsWhatAccepts, BestRuns
<1>1. CASE Start
  BY <1>1, CommandAssumption DEF Start
<1>2. CASE Eof
  BY <1>2, CommandAssumption DEF Eof
<1>3. ASSUME NEW ws, Edit(ws)
      PROVE  MatcherInv'
  BY <1>3 DEF Edit
<1>4. CASE TabWord
  BY <1>3, <1>4 DEF TabWord
<1>5. CASE TabBlank
  BY <1>3, <1>5 DEF TabBlank
<1>6. ASSUME NEW w \in Typed[node], TypeWord(w)
      PROVE  MatcherInv'
  BY <1>3, <1>6 DEF TypeWord
<1>7. CASE Enter
  BY <1>7 DEF Enter, AcceptsUpTo, SameRanks
<1>8. CASE MatchWord
  <2>1. pc' \notin {"run", "rerun"} /\ UNCHANGED node
    BY <1>8 DEF MatchWord, Report
  <2>2. QED
    BY <1>8, <2>1, MatchWordStep
<1>9. CASE Dispatch
  <2>1. pc' # "match" /\ UNCHANGED node
    BY <1>9 DEF Dispatch, Report
  <2>2. pc' # "rerun" /\ (pc' = "run" => chosen' \in cands)
    BY <1>9 DEF Dispatch, Report
  <2>3. QED
    BY <1>9, <2>1, <2>2, DispatchStep, CommandAssumption
<1>10. ASSUME NEW c \in Commands, NEW o \in Outcomes[c]
       PROVE  GoesTo(o[2]) \in Nodes
  BY <1>10, CommandAssumption DEF GoesTo
<1>11. CASE HandlerReturns
  <2>1. pc' \in {"rerun", "done"} /\ chosen' = chosen /\ chosen \in Commands
    BY <1>11 DEF HandlerReturns
  <2>2. node' \in Nodes
    BY <1>10, <1>11, <2>1 DEF HandlerReturns
  <2>3. QED
    BY <2>1, <2>2
<1>12. CASE RunAgain
  <2>1. pc' = "done" /\ chosen \in Commands
    BY <1>12 DEF RunAgain
  <2>2. node' \in Nodes
    BY <1>10, <1>12, <2>1 DEF RunAgain
  <2>3. QED
    BY <2>1, <2>2
<1>13. CASE NextLine
  BY <1>13 DEF NextLine
<1>14. CASE UNCHANGED vars
  BY <1>14 DEF vars, AcceptsUpTo, SameRanks, Beats, AcceptsLine, AcceptsWords
<1>15. QED
  BY <1>1, <1>2, <1>4, <1>5, <1>6, <1>7, <1>8, <1>9, <1>11, <1>12, <1>13, <1>14 DEF Next

(* The handler that runs is that of the one command of the prompt's node   *)
(* that takes the whole line and, at the first word where another command  *)
(* that takes it differs, takes the word more literally.                   *)
THEOREM MatcherCorrect == Spec => []RightCommandRuns
<1>1. MatcherInv => RightCommandRuns
  BY DEF RightCommandRuns, MatcherInv
<1>2. QED
  BY <1>1, MatcherInvInit, MatcherInvNext, PTL DEF Spec

-----------------------------------------------------------------------------
(* Refusals.  The matcher never goes back to a command it dropped, so that *)
(* a refusal is right only in a grammar without traps: there a dropped     *)
(* command always leaves one behind that takes the rest of the line too.   *)

(* Candidates that took the same words were not told apart by any of them. *)
CandidatesTogether ==
    pc = "match" => \A c, e \in cands : \A j \in 1..index : ~Separated(c, e, j)
(* Of a command that takes the words so far, or of one that takes whatever *)
(* it takes from here on, a candidate is left.                             *)
NoneLost ==
    pc = "match" =>
        \A c \in Installed[node] :
            AcceptsUpTo(c, index) => \E e \in cands : TakesTheRest(e, c, index)
OfItsWords(s) == s \in Seq({s[i] : i \in DOMAIN s})
IsALine == OfItsWords(line)
Counts ==
    /\ pc \in {"edit", "match"} => runs = 0
    /\ pc \in {"run", "rerun"} => runs \in Nat \ {0}

RefusalInv == CandidatesTogether /\ NoneLost /\ Counts /\ RefusalTrue

LEMMA IsItsOwnRange ==
    ASSUME NEW S, NEW s \in Seq(S)
    PROVE  OfItsWords(s)
<1>1. s \in [1..Len(s) -> {s[i] : i \in DOMAIN s}] /\ Len(s) \in Nat
  OBVIOUS
<1>2. s \in Seq({s[i] : i \in DOMAIN s})
  BY <1>1, IsASeq
<1>3. QED
  BY <1>2 DEF OfItsWords

LEMMA EditedLine ==
    ASSUME IsALine
    PROVE  /\ Len(line) \in Nat /\ DOMAIN line = 1..Len(line)
           /\ \A w : OfItsWords(Append(line, w))
           /\ \A k, w : OfItsWords([line EXCEPT ![k] = w])
<1> DEFINE S == {line[i] : i \in DOMAIN line}
<1>1. line \in Seq(S)
  BY DEF IsALine, OfItsWords
<1> HIDE DEF S
<1>2. Len(line) \in Nat /\ DOMAIN line = 1..Len(line) /\ line \in [1..Len(line) -> S]
  BY <1>1
<1>3. ASSUME NEW w
      PROVE  OfItsWords(Append(line, w))
  <2>1. line \in Seq(S \cup {w})
    BY <1>1
  <2>2. Append(line, w) \in Seq(S \cup {w})
    BY <2>1, AppendProperties
  <2>3. QED
    BY <2>2, IsItsOwnRange
<1>4. ASSUME NEW k, NEW w
      PROVE  OfItsWords([line EXCEPT ![k] = w])
  <2>1. [line EXCEPT ![k] = w] \in [1..Len(line) -> S \cup {w}]
    BY <1>2
  <2>2. [line EXCEPT ![k] = w] \in Seq(S \cup {w})
    BY <1>2, <2>1, IsASeq
  <2>3. QED
    BY <2>2, IsItsOwnRange
<1>5. QED
  BY <1>2, <1>3, <1>4

(* The words before the n-th, as the properties name them. *)
LEMMA WordsBefore ==
    ASSUME IsALine, NEW c, NEW n \in 0..Len(line)
    PROVE  AcceptsWords(c, SubSeq(line, 1, n)) <=> AcceptsUpTo(c, n)
<1> DEFINE S == {line[i] : i \in DOMAIN line}
<1>1. line \in Seq(S) /\ n \in Nat /\ n <= Len(line)
  BY EditedLine DEF IsALine, OfItsWords
<1> HIDE DEF S
<1>2. Len(SubSeq(line, 1, n)) = n /\ \A i \in 1..n : SubSeq(line, 1, n)[i] = line[i]
  BY <1>1
<1>3. QED
  BY <1>2 DEF AcceptsWords, AcceptsUpTo

LEMMA PatternLengths ==
    ASSUME NEW c \in Commands
    PROVE  Len(Pattern[c]) \in Nat /\ CmdSize(c) \in Nat /\ CmdSize(c) <= Len(Pattern[c])
<1> DEFINE n == Len(Pattern[c])
           options == {i \in 1..n : \E d \in Pattern[c][i] :
                          Pattern[c][i] = {d} /\ d.kind = "option"}
<1>1. n \in Nat
  BY CommandAssumption
<1>2. CmdSize(c) = IF options = {} THEN n ELSE Min(options) - 1
  BY DEF CmdSize
<1>3. options \subseteq 1..n
  OBVIOUS
<1> HIDE DEF options, n
<1>4. ASSUME options # {}
      PROVE  Min(options) \in 1..n
  <2>1. options \in SUBSET Nat
    BY <1>1, <1>3
  <2>2. QED
    BY <1>3, <1>4, <2>1, MinIsLeast
<1>5. QED
  BY <1>1, <1>2, <1>4 DEF n

LEMMA AcceptsWithin ==
    ASSUME NEW c \in Commands, NEW w, NEW i \in Nat \ {0}, Accepts(c, w, i)
    PROVE  i \in 1..Len(Pattern[c])
<1>1. DescsAt(c, i) # {}
  BY DEF Accepts
<1>2. i <= Len(Pattern[c])
  BY <1>1 DEF DescsAt
<1>3. QED
  BY <1>2, PatternLengths

(* A command drops out for a word that is more of a keyword to another.    *)
LEMMA RankOutranks ==
    ASSUME NEW c, NEW e, NEW w, NEW i, Accepts(c, w, i), Rank(e, w, i) > Rank(c, w, i)
    PROVE  Outranks(e, c, i)
<1>1. PICK f \in DescsAt(c, i) : MatchOf(f, w) # 0
  BY AcceptsMatch
<1>2. Rank(e, w, i) \in 0..2 /\ Rank(c, w, i) \in 0..2
  BY RankCases
<1>3. Rank(c, w, i) # 2 /\ Rank(e, w, i) # 0
  BY <1>2
<1>4. MatchOf(f, w) # 3 /\ MatchOf(f, w) \in 0..3
  BY <1>3, RankCases, MatchCases
<1>5. CASE MatchOf(f, w) = 1
  <2>1. f \in Blanks(c, i)
    BY <1>5, MatchCases DEF Blanks, Keywords
  <2>2. PICK d \in DescsAt(e, i) : MatchOf(d, w) \in {2, 3}
    BY <1>2, <1>3, RankCases
  <2>3. d \in Keywords(e, i)
    BY <2>2, MatchCases DEF Keywords
  <2>4. QED
    BY <2>1, <2>3 DEF Outranks
<1>6. CASE MatchOf(f, w) = 2
  <2>1. Rank(c, w, i) = 1
    BY <1>3, <1>6, RankCases
  <2>2. Rank(e, w, i) = 2
    BY <1>2, <2>1
  <2>3. PICK d \in DescsAt(e, i) : MatchOf(d, w) = 3
    BY <2>2, RankCases
  <2>4. d \in Keywords(e, i) /\ d.word = w
    BY <2>3, MatchCases DEF Keywords
  <2>5. f \in Keywords(c, i) /\ f.word # w /\ Abbreviates(w, f.word)
    BY <1>6, MatchCases DEF Keywords
  <2>6. QED
    BY <2>4, <2>5 DEF Outranks
<1>7. QED
  BY <1>1, <1>4, <1>5, <1>6

(* A word that a command accepts leaves a command. *)
LEMMA FilterLeaves ==
    ASSUME NEW C, NEW w, NEW i, NEW e \in C, Accepts(e, w, i)
    PROVE  FilterWord(C, w, i) # {}
<1> DEFINE F == Filter(C, w, i)
           m == MatchType(F, w, i)
           S == {NoMatch} \cup {MatchOf(d, w) : d \in UNION {DescsAt(c, i) : c \in F}}
<1>1. S \in SUBSET (0..3) /\ S # {}
  BY MatchCases DEF NoMatch
<1>2. m \in S /\ \A y \in S : y <= m
  BY <1>1, MaxOfMatches DEF MatchType
<1>3. PICK d \in DescsAt(e, i) : MatchOf(d, w) # 0
  BY AcceptsMatch
<1>4. e \in F /\ MatchOf(d, w) \in S
  BY <1>3 DEF Filter, NoMatch
<1>5. m # 0
  <2>1. MatchOf(d, w) \in 0..3 /\ MatchOf(d, w) <= m
    BY <1>2, <1>4, MatchCases
  <2>2. QED
    BY <1>1, <1>2, <1>3, <2>1
<1>6. \E c \in F : \E f \in DescsAt(c, i) : MatchOf(f, w) = m
  BY <1>2, <1>5 DEF NoMatch
<1>7. QED
  BY <1>6 DEF FilterWord, Narrow

LEMMA RestOfRest ==
    ASSUME NEW c \in Commands, NEW e \in Commands, NEW n \in Nat, TakesTheRest(e, c, n)
    PROVE  /\ TakesTheRest(e, c, n + 1)
           /\ \A w : Accepts(c, w, n + 1) => Accepts(e, w, n + 1)
           /\ \A g : TakesTheRest(g, e, n + 1) => TakesTheRest(g, c, n + 1)
<1>0. Len(Pattern[c]) \in Nat /\ Len(Pattern[e]) \in Nat
  BY PatternLengths
<1>1. \A j \in (n+1)..Len(Pattern[c]) :
          Blanks(e, j) # {} \/ DescsAt(c, j) \subseteq DescsAt(e, j)
  BY DEF TakesTheRest
<1>2. (n+1+1)..Len(Pattern[c]) \subseteq (n+1)..Len(Pattern[c])
  BY <1>0
<1>3. TakesTheRest(e, c, n + 1)
  BY <1>1, <1>2 DEF TakesTheRest
<1>4. ASSUME NEW w, Accepts(c, w, n + 1)
      PROVE  Accepts(e, w, n + 1)
  <2>1. n + 1 \in (n+1)..Len(Pattern[c])
    BY <1>0, <1>4, AcceptsWithin
  <2>2. CASE Blanks(e, n + 1) # {}
    BY <2>2 DEF Blanks, Keywords, Accepts
  <2>3. CASE DescsAt(c, n + 1) \subseteq DescsAt(e, n + 1)
    BY <1>4, <2>3 DEF Accepts
  <2>4. QED
    BY <1>1, <2>1, <2>2, <2>3
<1>5. ASSUME NEW g, TakesTheRest(g, e, n + 1), NEW j \in (n+1+1)..Len(Pattern[c])
      PROVE  Blanks(g, j) # {} \/ DescsAt(c, j) \subseteq DescsAt(g, j)
  <2>1. j \in Nat /\ (j <= Len(Pattern[e]) => j \in (n+1+1)..Len(Pattern[e]))
    BY <1>0, <1>5
  <2>2. CASE j <= Len(Pattern[e])
    <3>1. Blanks(g, j) # {} \/ DescsAt(e, j) \subseteq DescsAt(g, j)
      BY <1>5, <2>1, <2>2 DEF TakesTheRest
    <3>2. Blanks(e, j) # {} \/ DescsAt(c, j) \subseteq DescsAt(e, j)
      BY <1>1, <1>2, <1>5
    <3>3. DescsAt(e, j) \subseteq DescsAt(g, j) => Blanks(e, j) \subseteq Blanks(g, j)
      BY DEF Blanks, Keywords
    <3>4. QED
      BY <3>1, <3>2, <3>3
  <2>3. CASE ~(j <= Len(Pattern[e]))
    <3>1. DescsAt(e, j) = {} /\ Blanks(e, j) = {}
      BY <2>3 DEF DescsAt, Blanks
    <3>2. QED
      BY <3>1, <1>1, <1>2, <1>5
  <2>4. QED
    BY <2>2, <2>3
<1>6. QED
  BY <1>3, <1>4, <1>5 DEF TakesTheRest

LEMMA NoneLostStep ==
    ASSUME NoTraps, MatcherInv, CandidatesTogether, NoneLost, MatchWord
    PROVE  NoneLost'
<1>1. pc = "match" /\ index \in Nat /\ node \in Nodes /\ cands \subseteq Installed[node]
  BY DEF MatchWord, MatcherInv, CandidatesAccept
<1> PICK n \in Nat : n = index + 1
  BY <1>1
<1>2. /\ cands' = FilterWord(cands, line[n], n) /\ index' = n
      /\ UNCHANGED <<node, line>>
  BY <1>1 DEF MatchWord, FilterWord
<1>3. n \in Nat \ {0} /\ 1..(n - 1) = 1..index /\ 1..n = 1..index \cup {n}
  BY <1>1
<1>4. Installed[node] \subseteq Commands
  BY <1>1, CommandAssumption
<1>5. ASSUME NEW c \in Installed[node], AcceptsUpTo(c, n)
      PROVE  \E g \in cands' : TakesTheRest(g, c, n)
  <2>1. AcceptsUpTo(c, index) /\ Accepts(c, line[n], n)
    BY <1>3, <1>5 DEF AcceptsUpTo
  <2>2. PICK e \in cands : TakesTheRest(e, c, index)
    BY <1>1, <2>1 DEF NoneLost
  <2>3. /\ TakesTheRest(e, c, n) /\ Accepts(e, line[n], n)
        /\ \A g : TakesTheRest(g, e, n) => TakesTheRest(g, c, n)
    BY <1>1, <1>4, <2>1, <2>2, RestOfRest
  <2>4. CASE e \in cands'
    BY <2>3, <2>4
  <2>5. CASE e \notin cands'
    <3>1. PICK g \in FilterWord(cands, line[n], n) : TRUE
      BY <2>2, <2>3, FilterLeaves
    <3>2. g \in cands /\ Rank(g, line[n], n) > Rank(e, line[n], n)
      BY <1>2, <2>2, <2>3, <2>5, <3>1, WordFilters
    <3>3. Outranks(g, e, n)
      BY <2>3, <3>2, RankOutranks
    <3>4. \A j \in 1..(n - 1) : ~Separated(e, g, j)
      BY <1>1, <1>3, <2>2, <3>2 DEF CandidatesTogether
    <3>5. e \in Installed[node] /\ g \in Installed[node] /\ n \in 1..Len(Pattern[e])
      BY <1>1, <1>3, <1>4, <2>2, <2>3, <3>2, AcceptsWithin
    <3>6. TakesTheRest(g, e, n)
      BY <1>1, <3>3, <3>4, <3>5 DEF NoTraps
    <3>7. QED
      BY <1>2, <2>3, <3>1, <3>6
  <2>6. QED
    BY <2>4, <2>5
<1>6. \A c : AcceptsUpTo(c, n)' <=> AcceptsUpTo(c, n)
  BY <1>2 DEF AcceptsUpTo
<1>7. QED
  BY <1>2, <1>5, <1>6 DEF NoneLost

(* A word that was not ambiguous does not stand for different keywords of *)
(* the commands it leaves.                                                 *)
LEMMA NotSeparated ==
    ASSUME NEW C, NEW w, NEW i, ~Ambiguous(Filter(C, w, i), w, i),
           NEW c \in FilterWord(C, w, i), NEW e \in FilterWord(C, w, i)
    PROVE  ~Separated(c, e, i)
<1> DEFINE F == Filter(C, w, i)
           m == MatchType(F, w, i)
<1>1. \A x \in FilterWord(C, w, i) : x \in F /\ \E d \in DescsAt(x, i) : MatchOf(d, w) = m
  BY DEF FilterWord, Narrow
<1> HIDE DEF F
<1> SUFFICES ASSUME Separated(c, e, i)
             PROVE  FALSE
  OBVIOUS
<1>2. PICK d \in DescsAt(c, i) : MatchOf(d, w) = m
  BY <1>1
<1>3. PICK f \in DescsAt(e, i) : MatchOf(f, w) = m
  BY <1>1
<1>4. d \in Keywords(c, i) /\ f \in Keywords(e, i) /\ d.word # f.word
  BY <1>2, <1>3 DEF Separated, Blanks
<1>5. m # 1 /\ m # 3 /\ m \in 0..3
  BY <1>2, <1>3, <1>4, MatchCases DEF Keywords
<1>6. m # 0
  <2>1. PICK x \in DescsAt(c, i) : MatchOf(x, w) # 0
    BY <1>1 DEF F, Filter, NoMatch
  <2>2. MatchOf(x, w) \in {NoMatch} \cup {MatchOf(y, w) : y \in UNION {DescsAt(z, i) : z \in F}}
    BY <1>1
  <2>3. {NoMatch} \cup {MatchOf(y, w) : y \in UNION {DescsAt(z, i) : z \in F}} \in SUBSET (0..3)
    BY MatchCases DEF NoMatch
  <2>4. MatchOf(x, w) <= m
    BY <2>2, <2>3, MaxOfMatches DEF MatchType
  <2>5. QED
    BY <2>1, <2>4, <1>5, MatchCases
<1>7. m = PartlyMatch
  BY <1>5, <1>6 DEF PartlyMatch
<1>8. Ambiguous(F, w, i)
  BY <1>1, <1>2, <1>3, <1>4, <1>7 DEF Ambiguous
<1>9. QED
  BY <1>8 DEF F

LEMMA TogetherStep ==
    ASSUME MatcherInv, CandidatesTogether, MatchWord
    PROVE  CandidatesTogether'
<1>1. pc = "match" /\ index \in Nat
  BY DEF MatchWord, MatcherInv, CandidatesAccept
<1> PICK n \in Nat : n = index + 1
  BY <1>1
<1>2. /\ cands' = FilterWord(cands, line[n], n) /\ index' = n
      /\ pc' = "match" => ~Ambiguous(Filter(cands, line[n], n), line[n], n)
  BY DEF MatchWord, FilterWord, Report
<1>3. 1..n = 1..index \cup {n}
  BY <1>1
<1>4. cands' \subseteq cands
  BY <1>2 DEF FilterWord, Narrow, Filter
<1>5. ASSUME pc' = "match", NEW c \in cands', NEW e \in cands'
      PROVE  ~Separated(c, e, n)
  BY <1>2, <1>5, NotSeparated
<1>6. ASSUME NEW c \in cands', NEW e \in cands', NEW j \in 1..index
      PROVE  ~Separated(c, e, j)
  BY <1>1, <1>4 DEF CandidatesTogether
<1>7. QED
  BY <1>2, <1>3, <1>5, <1>6 DEF CandidatesTogether

(* A word found ambiguous begins two keywords. *)
LEMMA AmbiguousStep ==
    ASSUME MatcherInv, IsALine, MatchWord
    PROVE  RefusalTrue'
<1> SUFFICES ASSUME pc' = "done"
             PROVE  said' = ErrAmbiguous /\ \E i \in 1..Len(line) : BeginsTwo(line, i)'
  BY DEF RefusalTrue, MatchWord, Report, ErrAmbiguous, ErrNoMatch, ErrIncomplete
<1>1. pc = "match" /\ index \in Nat /\ cands \subseteq Installed[node] /\ UNCHANGED <<node, line>>
  BY DEF MatchWord, MatcherInv, CandidatesAccept
<1> PICK n \in Nat : n = index + 1
  BY <1>1
<1> DEFINE F == Filter(cands, line[n], n)
<1>2. said' = ErrAmbiguous /\ Ambiguous(F, line[n], n)
  BY <1>1 DEF MatchWord, Report
<1>3. n \in 1..Len(line) /\ n - 1 = index /\ index \in 0..Len(line)
  BY <1>1, EditedLine DEF MatchWord
<1>4. PICK d, f \in UNION {DescsAt(c, n) : c \in F} :
          d.word # f.word /\ MatchOf(d, line[n]) = PartlyMatch /\ MatchOf(f, line[n]) = PartlyMatch
  BY <1>2 DEF Ambiguous
<1>5. /\ d.kind = "keyword" /\ Abbreviates(line[n], d.word)
      /\ f.kind = "keyword" /\ Abbreviates(line[n], f.word)
  BY <1>4, MatchCases DEF PartlyMatch
<1>6. PICK c \in F, e \in F : d \in DescsAt(c, n) /\ f \in DescsAt(e, n)
  BY <1>4
<1>7. \A x \in F : x \in Installed[node] /\ AcceptsWords(x, SubSeq(line, 1, n - 1))
  BY <1>1, <1>3, WordsBefore DEF Filter, MatcherInv, CandidatesAccept
<1>8. BeginsTwo(line, n)
  BY <1>4, <1>5, <1>6, <1>7 DEF BeginsTwo
<1>9. BeginsTwo(line, n)'
  BY <1>1, <1>8 DEF BeginsTwo
<1>10. QED
  BY <1>2, <1>3, <1>9

(* Two commands that may not be told apart by the words of a line do not   *)
(* both end with it.                                                       *)
LEMMA NotBothComplete ==
    ASSUME NEW c \in Commands, NEW e \in Commands, Apart(c, e), NEW n \in Nat,
           AcceptsUpTo(c, n), AcceptsUpTo(e, n), n >= CmdSize(c), n >= CmdSize(e),
           SameRanks(c, e, n), \A j \in 1..n : ~Separated(c, e, j)
    PROVE  FALSE
<1>1. /\ Len(Pattern[c]) \in Nat /\ CmdSize(c) \in Nat
      /\ Len(Pattern[e]) \in Nat /\ CmdSize(e) \in Nat
  BY PatternLengths
<1>2. \A i \in 1..n : Accepts(c, line[i], i) /\ Accepts(e, line[i], i)
  BY DEF AcceptsUpTo
<1>3. n <= Len(Pattern[c]) /\ n <= Len(Pattern[e])
  <2>1. CASE n = 0
    BY <1>1, <2>1
  <2>2. CASE n # 0
    <3>1. n \in 1..n /\ n \in Nat \ {0}
      BY <2>2
    <3>2. n \in 1..Len(Pattern[c]) /\ n \in 1..Len(Pattern[e])
      BY <1>2, <3>1, AcceptsWithin
    <3>3. QED
      BY <3>2
  <2>3. QED
    BY <2>1, <2>2
<1>4. PICK i \in 1..CmdSize(c) :
          /\ i <= CmdSize(e)
          /\ \/ Separated(c, e, i)
             \/ Blanks(c, i) = {} /\ Keywords(e, i) = {}
             \/ Keywords(c, i) = {} /\ Blanks(e, i) = {}
  BY <1>1, <1>3 DEF Apart
<1>5. i \in 1..n
  BY <1>1, <1>4
<1>6. /\ Accepts(c, line[i], i) /\ Accepts(e, line[i], i)
      /\ Rank(e, line[i], i) = Rank(c, line[i], i) /\ ~Separated(c, e, i)
  BY <1>2, <1>5 DEF SameRanks
<1>7. ASSUME NEW x, Accepts(x, line[i], i), Blanks(x, i) = {}
      PROVE  Rank(x, line[i], i) # 0
  <2>1. PICK d \in DescsAt(x, i) : MatchOf(d, line[i]) # 0
    BY <1>7, AcceptsMatch
  <2>2. MatchOf(d, line[i]) \in {2, 3}
    BY <1>7, <2>1, MatchCases DEF Blanks, Keywords
  <2>3. QED
    BY <2>2, RankCases
<1>8. ASSUME NEW x, Keywords(x, i) = {}
      PROVE  Rank(x, line[i], i) = 0
  <2>1. \A d \in DescsAt(x, i) : MatchOf(d, line[i]) = 1
    BY <1>8, MatchCases DEF Keywords
  <2>2. QED
    BY <2>1, RankCases
<1>9. QED
  BY <1>4, <1>6, <1>7, <1>8

LEMMA RefusedAtTheEnd ==
    ASSUME AllApart, MatcherInv, IsALine, CandidatesTogether, NoneLost, Dispatch
    PROVE  RefusalTrue'
<1> SUFFICES ASSUME pc' = "done", runs' = 0
             PROVE  /\ said' \in {ErrNoMatch, ErrIncomplete}
                    /\ said' = ErrNoMatch => \A c \in Installed[node] : ~AcceptsLine(c, line)
                    /\ said' = ErrIncomplete =>
                          \E c \in Installed[node] :
                              AcceptsWords(c, line) /\ CmdSize(c) > Len(line)
  <2>1. UNCHANGED <<node, line>>
    BY DEF Dispatch
  <2>2. \A c : /\ AcceptsLine(c, line)' <=> AcceptsLine(c, line)
              /\ AcceptsWords(c, line)' <=> AcceptsWords(c, line)
    BY <2>1 DEF AcceptsLine, AcceptsWords
  <2>3. ErrNoMatch = 2 /\ ErrIncomplete = 4 /\ ErrAmbiguous = 3
    BY DEF ErrNoMatch, ErrIncomplete, ErrAmbiguous
  <2>4. ASSUME pc' = "done", runs' = 0, said' = ErrNoMatch,
               \A c \in Installed[node] : ~AcceptsLine(c, line)
        PROVE  RefusalTrue'
    BY <2>1, <2>2, <2>3, <2>4 DEF RefusalTrue
  <2>5. ASSUME pc' = "done", runs' = 0, said' = ErrIncomplete,
               \E c \in Installed[node] : AcceptsWords(c, line) /\ CmdSize(c) > Len(line)
        PROVE  RefusalTrue'
    BY <2>1, <2>2, <2>3, <2>5 DEF RefusalTrue
  <2>6. ~(pc' = "done" /\ runs' = 0) => RefusalTrue'
    BY DEF RefusalTrue
  <2>7. QED
    BY <2>4, <2>5, <2>6
<1> DEFINE complete == {c \in cands : Complete(c, Len(line))}
<1>1. /\ pc = "match" /\ index = Len(line) /\ index \in Nat /\ node \in Nodes
      /\ cands \subseteq Installed[node] /\ UNCHANGED <<node, line>>
  BY DEF Dispatch, MatcherInv, CandidatesAccept
<1>2. Installed[node] \subseteq Commands
  BY <1>1, CommandAssumption
<1>3. \A c : AcceptsWords(c, line) <=> AcceptsUpTo(c, index)
  BY <1>1 DEF AcceptsWords, AcceptsUpTo
<1>4. \A c \in cands : AcceptsUpTo(c, index)
  BY <1>1 DEF MatcherInv, CandidatesAccept
<1>5. \/ complete = {} /\ cands = {} /\ said' = ErrNoMatch
      \/ complete = {} /\ cands # {} /\ said' = ErrIncomplete
      \/ Cardinality(complete) > 1 /\ said' = ErrAmbiguous
  BY DEF Dispatch, Report
<1>6. CASE complete = {} /\ cands = {} /\ said' = ErrNoMatch
  <2>1. \A c \in Installed[node] : ~AcceptsUpTo(c, index)
    BY <1>1, <1>6 DEF NoneLost
  <2>2. \A c \in Installed[node] : ~AcceptsLine(c, line)
    BY <1>3, <2>1 DEF AcceptsLine
  <2>3. QED
    BY <1>6, <2>2 DEF ErrNoMatch, ErrIncomplete, ErrAmbiguous
<1>7. CASE complete = {} /\ cands # {} /\ said' = ErrIncomplete
  <2>1. PICK c \in cands : ~(Len(line) >= CmdSize(c))
    BY <1>7 DEF Complete
  <2>2. CmdSize(c) \in Nat /\ Len(line) \in Nat
    BY <1>1, <1>2, PatternLengths
  <2>3. CmdSize(c) > Len(line)
    BY <2>1, <2>2
  <2>4. QED
    BY <1>1, <1>3, <1>4, <1>7, <2>3 DEF ErrNoMatch, ErrIncomplete, ErrAmbiguous
<1>8. CASE Cardinality(complete) > 1 /\ said' = ErrAmbiguous
  <2>1. IsFiniteSet(complete)
    <3>1. complete \subseteq Commands
      BY <1>1, <1>2
    <3>2. QED
      BY <3>1, CommandAssumption, FS_Subset
  <2>2. \E c, e \in complete : c # e
    <3> HIDE DEF complete
    <3>1. Cardinality(complete) # 0 /\ Cardinality(complete) # 1
      BY <1>8, <2>1, FS_CardinalityType
    <3>2. complete # {}
      BY <3>1, FS_EmptySet
    <3>3. \A x : complete # {x}
      BY <3>1, <2>1, FS_Singleton
    <3>4. QED
      BY <3>2, <3>3
  <2>3. PICK c, e \in complete : c # e
    BY <2>2
  <2>4. /\ c \in cands /\ e \in cands /\ Len(line) >= CmdSize(c) /\ Len(line) >= CmdSize(e)
        /\ c \in Installed[node] /\ e \in Installed[node]
    BY <2>3, <1>1 DEF Complete
  <2>5. SameRanks(c, e, index)
    <3>1. SameRanks(c, e, index) \/ Beats(e, c, index)
      BY <1>1, <1>4, <2>4 DEF MatcherInv, CandidatesAreBest
    <3>2. SameRanks(e, c, index) \/ Beats(c, e, index)
      BY <1>1, <1>4, <2>4 DEF MatcherInv, CandidatesAreBest
    <3>3. SameRanks(e, c, index) => SameRanks(c, e, index)
      BY DEF SameRanks
    <3>4. ~(Beats(e, c, index) /\ Beats(c, e, index))
      <4> SUFFICES ASSUME Beats(e, c, index), Beats(c, e, index)
                   PROVE  FALSE
        OBVIOUS
      <4>1. PICK i \in 1..index :
                Rank(e, line[i], i) > Rank(c, line[i], i) /\ SameRanks(c, e, i - 1)
        BY DEF Beats
      <4>2. PICK j \in 1..index :
                Rank(c, line[j], j) > Rank(e, line[j], j) /\ SameRanks(e, c, j - 1)
        BY DEF Beats
      <4>3. /\ Rank(e, line[i], i) # Rank(c, line[i], i)
            /\ Rank(e, line[j], j) # Rank(c, line[j], j)
        BY <4>1, <4>2, RankCases
      <4>4. CASE i < j
        <5>1. i \in 1..(j - 1)
          BY <4>4
        <5>2. QED
          BY <4>2, <4>3, <5>1 DEF SameRanks
      <4>5. CASE j < i
        <5>1. j \in 1..(i - 1)
          BY <4>5
        <5>2. QED
          BY <4>1, <4>3, <5>1 DEF SameRanks
      <4>6. CASE i = j
        BY <4>1, <4>2, <4>6, RankCases
      <4>7. QED
        BY <1>1, <4>4, <4>5, <4>6
    <3>5. QED
      BY <3>1, <3>2, <3>3, <3>4
  <2>6. \A j \in 1..index : ~Separated(c, e, j)
    BY <1>1, <2>4 DEF CandidatesTogether
  <2>7. Apart(c, e)
    BY <1>1, <2>3, <2>4 DEF AllApart
  <2>8. FALSE
    BY <1>1, <1>2, <1>4, <2>4, <2>5, <2>6, <2>7, NotBothComplete
  <2>9. QED
    BY <2>8
<1>9. QED
  BY <1>5, <1>6, <1>7, <1>8

LEMMA LineInit == Init => IsALine
<1>1. <<>> \in Seq({}) /\ DOMAIN <<>> = {}
  OBVIOUS
<1>2. QED
  BY <1>1 DEF Init, IsALine, OfItsWords

LEMMA LineNext == IsALine /\ [Next]_vars => IsALine'
<1> SUFFICES ASSUME IsALine, [Next]_vars
             PROVE  IsALine'
  OBVIOUS
<1>1. ASSUME NEW w, \/ line' = line
                    \/ line' = <<>>
                    \/ line' = Append(line, w)
                    \/ line' = [line EXCEPT ![Len(line)] = w]
      PROVE  IsALine'
  <2>1. <<>> \in Seq({}) /\ DOMAIN <<>> = {}
    OBVIOUS
  <2>2. OfItsWords(<<>>) /\ OfItsWords(line)
    BY <2>1 DEF OfItsWords, IsALine
  <2>3. /\ OfItsWords(Append(line, w))
        /\ OfItsWords([line EXCEPT ![Len(line)] = w])
    BY EditedLine
  <2>4. QED
    BY <1>1, <2>2, <2>3 DEF IsALine
<1>2. CASE TabWord
  BY <1>1, <1>2 DEF TabWord, Edit
<1>3. CASE TabBlank \/ \E w \in Typed[node] : TypeWord(w)
  BY <1>1, <1>3 DEF TabBlank, TypeWord, Edit
<1>4. CASE Start \/ Eof \/ Enter \/ MatchWord \/ Dispatch
  BY <1>1, <1>4 DEF Start, Eof, Enter, MatchWord, Dispatch
<1>5. CASE HandlerReturns \/ RunAgain \/ NextLine \/ UNCHANGED vars
  BY <1>1, <1>5 DEF HandlerReturns, RunAgain, NextLine, vars
<1>6. QED
  BY <1>2, <1>3, <1>4, <1>5 DEF Next

LEMMA RefusalInvInit == Init => RefusalInv
  BY DEF Init, RefusalInv, CandidatesTogether, NoneLost, Counts, RefusalTrue

LEMMA RefusalInvNext ==
    /\ NoTraps /\ AllApart
    /\ MatcherInv /\ IsALine /\ RefusalInv /\ [Next]_vars
    => RefusalInv'
<1> SUFFICES ASSUME NoTraps, AllApart, MatcherInv, IsALine, RefusalInv, [Next]_vars
             PROVE  RefusalInv'
  OBVIOUS
<1> USE DEF RefusalInv
<1>1. ASSUME pc' = "edit", runs' = 0
      PROVE  RefusalInv'
  BY <1>1 DEF CandidatesTogether, NoneLost, Counts, RefusalTrue
<1>2. CASE Start \/ Eof \/ NextLine
  BY <1>1, <1>2 DEF Start, Eof, NextLine, Counts
<1>3. CASE TabWord \/ TabBlank \/ \E w \in Typed[node] : TypeWord(w)
  BY <1>1, <1>3 DEF TabWord, TabBlank, TypeWord, Edit, Counts
<1>4. CASE Enter
  <2>1. \A c : TakesTheRest(c, c, 0)
    BY DEF TakesTheRest
  <2>2. /\ pc' = "match" /\ cands' = Installed[node] /\ index' = 0 /\ runs' = 0
        /\ UNCHANGED <<node, line>>
    BY <1>4 DEF Enter, Counts
  <2>3. CandidatesTogether' /\ NoneLost'
    BY <2>1, <2>2 DEF CandidatesTogether, NoneLost
  <2>4. QED
    BY <2>2, <2>3 DEF Counts, RefusalTrue
<1>5. CASE MatchWord
  <2>1. pc' \in {"match", "done"} /\ line' = line /\ (pc' = "match" => runs' = runs /\ pc = "match")
    BY <1>5 DEF MatchWord, Report
  <2>2. CandidatesTogether' /\ NoneLost' /\ RefusalTrue'
    BY <1>5, NoneLostStep, TogetherStep, AmbiguousStep
  <2>3. QED
    BY <2>1, <2>2 DEF Counts
<1>6. CASE Dispatch
  <2>1. pc' \in {"run", "done"} /\ line' = line /\ (pc' = "run" => runs' = 1)
    BY <1>6 DEF Dispatch, Report
  <2>2. RefusalTrue'
    BY <1>6, RefusedAtTheEnd
  <2>3. QED
    BY <2>1, <2>2 DEF Counts, CandidatesTogether, NoneLost
<1>7. CASE HandlerReturns \/ RunAgain
  <2>1. pc' \in {"rerun", "done"} /\ line' = line /\ runs' \in Nat \ {0}
    BY <1>7 DEF HandlerReturns, RunAgain, Counts
  <2>2. QED
    BY <2>1 DEF Counts, CandidatesTogether, NoneLost, RefusalTrue
<1>8. CASE UNCHANGED vars
  <2>1. UNCHANGED <<node, pc, line, cands, index, runs, said>>
    BY <1>8 DEF vars
  <2>2. RefusalTrue'
    <3>1. \A c : /\ AcceptsLine(c, line)' <=> AcceptsLine(c, line)
                /\ AcceptsWords(c, line)' <=> AcceptsWords(c, line)
      BY <2>1 DEF AcceptsLine, AcceptsWords
    <3>2. \A i : BeginsTwo(line, i)' <=> BeginsTwo(line, i)
      BY <2>1 DEF BeginsTwo
    <3>3. ErrNoMatch = 2 /\ ErrIncomplete = 4 /\ ErrAmbiguous = 3
      BY DEF ErrNoMatch, ErrIncomplete, ErrAmbiguous
    <3>4. QED
      BY <2>1, <3>1, <3>2, <3>3 DEF RefusalTrue
  <2>3. CandidatesTogether' /\ NoneLost'
    BY <2>1 DEF CandidatesTogether, NoneLost, AcceptsUpTo
  <2>4. QED
    BY <2>1, <2>2, <2>3 DEF Counts
<1>9. QED
  BY <1>2, <1>3, <1>4, <1>5, <1>6, <1>7, <1>8 DEF Next

(* In a grammar without traps, whose commands are told apart by a word or  *)
(* by their length, every refusal is right: "Unknown command" is one that  *)
(* no command accepts, an incomplete one goes on, and an ambiguous one has *)
(* a word that begins two keywords.                                        *)
THEOREM RefusalTrueHolds ==
    NoTraps /\ AllApart => (Spec => []RefusalTrue)
<1> SUFFICES ASSUME NoTraps, AllApart
             PROVE  Spec => []RefusalTrue
  OBVIOUS
<1>1. Init => MatcherInv /\ IsALine /\ RefusalInv
  BY MatcherInvInit, LineInit, RefusalInvInit
<1>2. MatcherInv /\ IsALine /\ RefusalInv /\ [Next]_vars
      => (MatcherInv /\ IsALine /\ RefusalInv)'
  BY MatcherInvNext, LineNext, RefusalInvNext
<1>3. RefusalInv => RefusalTrue
  BY DEF RefusalInv
<1>4. QED
  BY <1>1, <1>2, <1>3, PTL DEF Spec

-----------------------------------------------------------------------------
(* The loops of TAB and '?': what they leave.                              *)

(* The recursive definitions have the solution they describe. *)
LEMMA LeftIs ==
    ASSUME NEW nd \in Nodes, NEW ws, Len(ws) \in Nat
    PROVE  /\ Left(nd, ws)[0] = Installed[nd]
           /\ \A i \in 1..Len(ws) :
                 Left(nd, ws)[i] = FilterWord(Left(nd, ws)[i-1], ws[i], i)
<1> DEFINE n == Len(ws)
           A == Installed[nd]
           step == [i \in 1..n |-> [C \in SUBSET A |-> FilterWord(C, ws[i], i)]]
<1>1. step \in [1..n -> [SUBSET A -> SUBSET A]]
  BY DEF FilterWord, Filter, Narrow
<1>2. A \in SUBSET A
  OBVIOUS
<1>3. PICK f \in [0..n -> SUBSET A] : f[0] = A /\ \A i \in 1..n : f[i] = step[i][f[i-1]]
  <2> DEFINE S == SUBSET A
  <2>1. IsRecursion(n, S, A, step)
    BY <1>1 DEF IsRecursion
  <2> HIDE DEF step, A, n, S
  <2>2. \E f \in [0..n -> S] : f[0] = A /\ \A i \in 1..n : f[i] = step[i][f[i-1]]
    BY <2>1, RecursionExists
  <2>3. QED
    BY <2>2 DEF S
<1>4. f = [i \in 0..n |-> IF i = 0 THEN A ELSE FilterWord(f[i-1], ws[i], i)]
  <2>1. \A i \in 0..n : i # 0 => i \in 1..n /\ i - 1 \in 0..n
    OBVIOUS
  <2>2. \A i \in 0..n : i # 0 => step[i][f[i-1]] = FilterWord(f[i-1], ws[i], i)
    BY <2>1
  <2> HIDE DEF step
  <2>3. \A i \in 0..n : f[i] = IF i = 0 THEN A ELSE FilterWord(f[i-1], ws[i], i)
    BY <1>3, <2>1, <2>2
  <2>4. f = [i \in 0..n |-> f[i]]
    OBVIOUS
  <2>5. QED
    BY <2>3, <2>4
<1> DEFINE L == Left(nd, ws)
<1>5. L = [i \in 0..n |-> IF i = 0 THEN A ELSE FilterWord(L[i-1], ws[i], i)]
  BY <1>4 DEF Left
<1> HIDE DEF L
<1>6. L[0] = A /\ \A i \in 1..n : L[i] = FilterWord(L[i-1], ws[i], i)
  BY <1>5
<1>7. QED
  BY <1>6 DEF L

(* What the words of the line leave when none of them was ambiguous. *)
LEMMA LeftFacts ==
    ASSUME node \in Nodes, IsALine, NEW n \in 0..Len(line), ~AmbiguousUpTo(node, line, n)
    PROVE  /\ Left(node, line)[n] \subseteq Installed[node]
           /\ \A c \in Left(node, line)[n] : AcceptsUpTo(c, n)
           /\ \A c, e \in Left(node, line)[n] :
                 SameRanks(c, e, n) /\ \A j \in 1..n : ~Separated(c, e, j)
<1> DEFINE L == Left(node, line)
           Alike(i) == /\ L[i] \subseteq Installed[node]
                       /\ \A c \in L[i] : AcceptsUpTo(c, i)
                       /\ \A c, e \in L[i] :
                             SameRanks(c, e, i) /\ \A j \in 1..i : ~Separated(c, e, j)
           G == {i \in 0..n : Alike(i)}
<1>0. Len(line) \in Nat /\ n \in Nat /\ n <= Len(line)
  BY EditedLine
<1>1. L[0] = Installed[node] /\ \A i \in 1..n : L[i] = FilterWord(L[i-1], line[i], i)
  BY <1>0, LeftIs
<1>2. \A i \in 1..n : ~Ambiguous(Filter(L[i-1], line[i], i), line[i], i)
  BY DEF AmbiguousUpTo
<1> HIDE DEF L
<1>3. 0 \in G
  BY <1>0, <1>1 DEF AcceptsUpTo, SameRanks
<1>4. ASSUME NEW i \in 0..n-1, i \in G
      PROVE  i + 1 \in G
  <2> PICK k \in Nat : k = i + 1
    OBVIOUS
  <2>1. k \in 1..n /\ k - 1 = i /\ k \in 0..n /\ 1..k = 1..i \cup {k}
    OBVIOUS
  <2>2. Alike(i)
    BY <1>4
  <2>3. L[k] = FilterWord(L[i], line[k], k) /\ ~Ambiguous(Filter(L[i], line[k], k), line[k], k)
    BY <1>1, <1>2, <2>1
  <2>4. L[k] \subseteq L[i]
    BY <2>3 DEF FilterWord, Narrow, Filter
  <2>5. \A c \in L[k] : Accepts(c, line[k], k)
    BY <2>3, WordFilters
  <2>6. \A c, e \in L[k] : ~Separated(c, e, k)
    BY <2>3, NotSeparated
  <2>7. ASSUME NEW c \in L[k], NEW e \in L[k]
        PROVE  Rank(e, line[k], k) = Rank(c, line[k], k)
    <3>1. \/ Rank(e, line[k], k) = Rank(c, line[k], k)
          \/ Rank(e, line[k], k) > Rank(c, line[k], k)
      BY <2>3, <2>4, <2>5, <2>7, WordFilters
    <3>2. \/ Rank(e, line[k], k) = Rank(c, line[k], k)
          \/ Rank(c, line[k], k) > Rank(e, line[k], k)
      BY <2>3, <2>4, <2>5, <2>7, WordFilters
    <3>3. QED
      BY <3>1, <3>2, RankCases
  <2>8. /\ L[k] \subseteq Installed[node]
        /\ \A c \in L[k] : AcceptsUpTo(c, k)
        /\ \A c, e \in L[k] : SameRanks(c, e, k)
        /\ \A c, e \in L[k] : \A j \in 1..k : ~Separated(c, e, j)
    BY <2>1, <2>2, <2>4, <2>5, <2>6, <2>7 DEF AcceptsUpTo, SameRanks
  <2>9. QED
    BY <2>1, <2>8
<1> HIDE DEF G
<1>5. 0..n \subseteq G
  BY <1>0, <1>3, <1>4, UpTo
<1>6. n \in G
  BY <1>0, <1>5
<1>7. QED
  BY <1>6 DEF G, L

(* A line that one command ends with stands for it. *)
LEMMA ResultOf ==
    ASSUME node \in Nodes, IsALine, AllApart, ~AmbiguousUpTo(node, line, Len(line)),
           NEW c \in Left(node, line)[Len(line)], Complete(c, Len(line))
    PROVE  Result(node, line) = c
<1> DEFINE n == Len(line)
           complete == {e \in Left(node, line)[n] : Complete(e, n)}
<1>0. n \in Nat /\ n \in 0..n
  BY EditedLine
<1>1. /\ Left(node, line)[n] \subseteq Installed[node]
      /\ \A e \in Left(node, line)[n] : AcceptsUpTo(e, n)
      /\ \A e, g \in Left(node, line)[n] :
            SameRanks(e, g, n) /\ \A j \in 1..n : ~Separated(e, g, j)
  BY <1>0, LeftFacts
<1>2. Installed[node] \subseteq Commands
  BY CommandAssumption
<1>3. ASSUME NEW e \in complete, e # c
      PROVE  FALSE
  <2>1. /\ c \in Commands /\ e \in Commands
        /\ AcceptsUpTo(c, n) /\ AcceptsUpTo(e, n)
        /\ n >= CmdSize(c) /\ n >= CmdSize(e)
        /\ SameRanks(c, e, n) /\ \A j \in 1..n : ~Separated(c, e, j)
    BY <1>1, <1>2, <1>3 DEF Complete
  <2>2. Apart(c, e)
    BY <1>1, <1>3 DEF AllApart
  <2>3. QED
    BY <1>0, <2>1, <2>2, NotBothComplete
<1>4. complete = {c}
  BY <1>3
<1>5. Cardinality(complete) = 1
  BY <1>4, FS_Singleton
<1>6. QED
  BY <1>4, <1>5 DEF Result

LEMMA HelpLemma ==
    ASSUME node \in Nodes, IsALine, AllApart, EndUnnamed
    PROVE  HelpAgrees
<1> DEFINE n == Len(line)
           C == Left(node, line)[n]
<1>0. n \in Nat /\ n \in 0..n
  BY EditedLine
<1>1. NextWords(node, line) \subseteq Help(node, line)
  BY DEF NextWords, Help, Entries
<1>2. ASSUME "<cr>" \in Help(node, line)
      PROVE  Result(node, line) # NoCommand
  <2>1. ~AmbiguousUpTo(node, line, n)
    BY <1>2 DEF Help
  <2>2. C \subseteq Commands
    BY <1>0, <2>1, LeftFacts, CommandAssumption
  <2>3. \A c \in C : \A d \in DescsAt(c, n + 1) : d.word # "<cr>"
    <3>1. \A c \in C : n + 1 <= Len(Pattern[c]) => n + 1 \in 1..Len(Pattern[c])
      BY <1>0, <2>2, PatternLengths
    <3>2. QED
      BY <2>2, <3>1 DEF EndUnnamed, DescsAt
  <2>4. PICK c \in C : Len(Pattern[c]) = n
    BY <1>2, <2>1, <2>3 DEF Help
  <2>5. Complete(c, n)
    BY <1>0, <2>2, <2>4, PatternLengths DEF Complete
  <2>6. Result(node, line) = c
    BY <2>1, <2>4, <2>5, ResultOf
  <2>7. QED
    BY <2>2, <2>6, CommandAssumption
<1>3. QED
  BY <1>1, <1>2 DEF HelpAgrees

(* '?' offers <cr> where Enter runs a command, and what TAB offers next. *)
THEOREM HelpAgreesHolds == AllApart /\ EndUnnamed => (Spec => []HelpAgrees)
<1> SUFFICES ASSUME AllApart, EndUnnamed
             PROVE  Spec => []HelpAgrees
  OBVIOUS
<1>1. Init => MatcherInv /\ IsALine
  BY MatcherInvInit, LineInit
<1>2. MatcherInv /\ IsALine /\ [Next]_vars => (MatcherInv /\ IsALine)'
  BY MatcherInvNext, LineNext
<1>3. MatcherInv /\ IsALine => HelpAgrees
  BY HelpLemma DEF MatcherInv
<1>4. QED
  BY <1>1, <1>2, <1>3, PTL DEF Spec

(* The words before a place leave the same, whatever comes after. *)
LEMMA LeftBefore ==
    ASSUME NEW nd \in Nodes, NEW ws, NEW us, Len(ws) \in Nat, Len(us) \in Nat,
           NEW m \in Nat, m <= Len(ws), m <= Len(us), \A i \in 1..m : us[i] = ws[i]
    PROVE  \A i \in 0..m : Left(nd, us)[i] = Left(nd, ws)[i]
<1> DEFINE L == Left(nd, ws)
           M == Left(nd, us)
           G == {i \in 0..m : M[i] = L[i]}
<1>1. L[0] = Installed[nd] /\ \A i \in 1..Len(ws) : L[i] = FilterWord(L[i-1], ws[i], i)
  BY LeftIs
<1>2. M[0] = Installed[nd] /\ \A i \in 1..Len(us) : M[i] = FilterWord(M[i-1], us[i], i)
  BY LeftIs
<1> HIDE DEF L, M
<1>3. 0 \in G
  BY <1>1, <1>2
<1>4. ASSUME NEW i \in 0..m-1, i \in G
      PROVE  i + 1 \in G
  <2>1. /\ i + 1 \in 1..Len(ws) /\ i + 1 \in 1..Len(us) /\ i + 1 \in 1..m
        /\ (i + 1) - 1 = i /\ i + 1 \in 0..m
    OBVIOUS
  <2>2. M[i+1] = L[i+1]
    BY <1>1, <1>2, <1>4, <2>1
  <2>3. QED
    BY <2>1, <2>2
<1> HIDE DEF G
<1>5. 0..m \subseteq G
  BY <1>3, <1>4, UpTo
<1>6. QED
  BY <1>5 DEF G, L, M

(* What the keywords begin with together. *)
LEMMA PrefixOfOne ==
    ASSUME NEW x, ProperWord(x)
    PROVE  CommonPrefix({x}) = x
<1> DEFINE v == CHOOSE w \in {x} : \A y \in {x} : Len(w) <= Len(y)
           T == {k \in 0..Len(v) : \A y \in {x} : SubSeq(y, 1, k) = SubSeq(v, 1, k)}
<1>1. v = x
  BY DEF ProperWord
<1>2. T = 0..Len(x) /\ Len(x) \in Nat
  BY <1>1 DEF ProperWord
<1>3. Max(0..Len(x)) = Len(x)
  <2>1. 0..Len(x) \in SUBSET (0..Len(x)) /\ 0..Len(x) # {} /\ Len(x) \in 0..Len(x)
    BY <1>2
  <2>2. Max(0..Len(x)) \in 0..Len(x) /\ \A y \in 0..Len(x) : y <= Max(0..Len(x))
    BY <1>2, <2>1, MaxIsGreatest
  <2>3. QED
    BY <1>2, <2>1, <2>2
<1>4. CommonPrefix({x}) = SubSeq(v, 1, Max(T))
  BY DEF CommonPrefix
<1> HIDE DEF v, T
<1>5. CommonPrefix({x}) = SubSeq(x, 1, Len(x))
  BY <1>1, <1>2, <1>3, <1>4
<1>6. QED
  BY <1>5 DEF ProperWord

LEMMA PrefixWithAll ==
    ASSUME NEW S, NEW w \in S, \A x \in S : ProperWord(x) /\ Abbreviates(w, x)
    PROVE  Len(CommonPrefix(S)) \in 0..Len(w)
<1> DEFINE v == CHOOSE u \in S : \A x \in S : Len(u) <= Len(x)
           T == {k \in 0..Len(v) : \A x \in S : SubSeq(x, 1, k) = SubSeq(v, 1, k)}
<1>1. \A x \in S : Len(x) \in Nat /\ Len(w) <= Len(x) /\ SubSeq(x, 1, Len(w)) = w
  BY DEF ProperWord, Abbreviates
<1>2. v \in S /\ \A x \in S : Len(v) <= Len(x)
  BY <1>1
<1>3. CommonPrefix(S) = SubSeq(v, 1, Max(T))
  BY DEF CommonPrefix
<1> HIDE DEF v
<1>4. Len(v) = Len(w) /\ Len(v) \in Nat
  BY <1>1, <1>2
<1>5. Len(v) \in T /\ T \in SUBSET (0..Len(v)) /\ T # {}
  BY <1>1, <1>2, <1>4
<1> HIDE DEF T
<1>6. Max(T) \in 0..Len(v)
  BY <1>4, <1>5, MaxIsGreatest
<1>7. Len(SubSeq(v, 1, Max(T))) = Max(T)
  BY <1>2, <1>6 DEF ProperWord
<1>8. QED
  BY <1>3, <1>4, <1>6, <1>7

(* A word short for one keyword leaves what the keyword leaves. *)
LEMMA OneKeyword ==
    ASSUME NEW C, NEW w, NEW i, NEW k \in Entries(C, i, w),
           ~Ambiguous(Filter(C, w, i), w, i),
           \A c \in C : \A d \in DescsAt(c, i) : MatchOf(d, w) # 3
    PROVE  /\ Entries(C, i, w) = {k}
           /\ FilterWord(C, k, i) = FilterWord(C, w, i)
           /\ ~Ambiguous(Filter(C, k, i), k, i)
           /\ \A c \in FilterWord(C, w, i) : Keywords(c, i) # {}
<1> DEFINE F == Filter(C, w, i)
           m == MatchType(F, w, i)
           S == {NoMatch} \cup {MatchOf(d, w) : d \in UNION {DescsAt(c, i) : c \in F}}
           E == Filter(C, k, i)
           p == MatchType(E, k, i)
           R == {NoMatch} \cup {MatchOf(d, k) : d \in UNION {DescsAt(c, i) : c \in E}}
           Has(c) == \E d \in DescsAt(c, i) : d.kind = "keyword" /\ d.word = k
<1>0. PICK a \in C : \E g \in DescsAt(a, i) :
          g.kind = "keyword" /\ g.word = k /\ Abbreviates(w, k)
  BY DEF Entries
<1>1. PICK g \in DescsAt(a, i) :
          g.kind = "keyword" /\ g.word = k /\ Abbreviates(w, k)
  BY <1>0
<1>2. MatchOf(g, w) = 2 /\ k # w
  BY <1>1, MatchCases
<1>3. \A d : MatchOf(d, k) = 3 <=> d.kind = "keyword" /\ d.word = k
  BY MatchCases
<1>4. a \in F /\ a \in E
  BY <1>1, <1>2, <1>3 DEF Filter, NoMatch
<1>5. m = 2
  <2>1. S \in SUBSET (0..3) /\ S # {}
    BY MatchCases DEF NoMatch
  <2>2. m \in S /\ \A y \in S : y <= m
    BY <2>1, MaxOfMatches DEF MatchType
  <2>3. 2 \in S
    BY <1>1, <1>2, <1>4
  <2>4. \A y \in S : y # 3
    BY DEF Filter, NoMatch
  <2> HIDE DEF S, m
  <2>5. QED
    BY <2>1, <2>2, <2>3, <2>4
<1>6. p = 3
  <2>1. R \in SUBSET (0..3) /\ R # {}
    BY MatchCases DEF NoMatch
  <2>2. p \in R /\ \A y \in R : y <= p
    BY <2>1, MaxOfMatches DEF MatchType
  <2>3. 3 \in R
    BY <1>1, <1>3, <1>4
  <2> HIDE DEF R, p
  <2>4. QED
    BY <2>1, <2>2, <2>3
<1>7. ASSUME NEW c \in C, NEW d \in DescsAt(c, i), d.kind = "keyword", Abbreviates(w, d.word)
      PROVE  c \in F /\ MatchOf(d, w) = 2 /\ d.word = k
  <2>1. MatchOf(d, w) = 2
    BY <1>7, MatchCases
  <2>2. c \in F
    BY <1>7, <2>1 DEF Filter, NoMatch
  <2>3. d.word = k
    BY <1>1, <1>2, <1>4, <1>5, <2>1, <2>2, <1>7 DEF Ambiguous, PartlyMatch
  <2>4. QED
    BY <2>1, <2>2, <2>3
<1>8. Entries(C, i, w) = {k}
  BY <1>7 DEF Entries
<1>9. \A c \in C : c \in FilterWord(C, w, i) <=> Has(c)
  <2>1. \A c \in C : c \in FilterWord(C, w, i) <=>
                       c \in F /\ \E d \in DescsAt(c, i) : MatchOf(d, w) = 2
    BY <1>5 DEF FilterWord, Narrow
  <2>2. ASSUME NEW c \in C, NEW d \in DescsAt(c, i), MatchOf(d, w) = 2
        PROVE  Has(c)
    BY <1>7, <2>2, MatchCases
  <2>3. ASSUME NEW c \in C, NEW d \in DescsAt(c, i), d.kind = "keyword", d.word = k
        PROVE  c \in F /\ MatchOf(d, w) = 2
    BY <1>1, <1>7, <2>3
  <2>4. QED
    BY <2>1, <2>2, <2>3
<1>10. \A c \in C : c \in FilterWord(C, k, i) <=> Has(c)
  <2>1. \A c \in C : c \in FilterWord(C, k, i) <=>
                       c \in E /\ \E d \in DescsAt(c, i) : MatchOf(d, k) = 3
    BY <1>6 DEF FilterWord, Narrow
  <2>2. QED
    BY <2>1, <1>3 DEF Filter, NoMatch
<1>11. FilterWord(C, k, i) \subseteq C /\ FilterWord(C, w, i) \subseteq C
  BY DEF FilterWord, Narrow, Filter
<1>12. ~Ambiguous(E, k, i)
  BY <1>6 DEF Ambiguous, PartlyMatch
<1>13. \A c \in FilterWord(C, w, i) : Keywords(c, i) # {}
  BY <1>9, <1>11 DEF Keywords
<1> HIDE DEF Has
<1>14. FilterWord(C, k, i) = FilterWord(C, w, i)
  BY <1>9, <1>10, <1>11
<1>15. QED
  BY <1>8, <1>12, <1>13, <1>14

LEMMA TabStep ==
    ASSUME node \in Nodes, IsALine, ProperKeywords, TabWord, Result(node, line) # NoCommand
    PROVE  /\ Result(node, line') = Result(node, line)
           /\ \A i \in 1..Len(line) :
                 (\A d \in Pattern[Result(node, line)][i] : d.kind # "keyword") => line'[i] = line[i]
<1> DEFINE n == Len(line)
           w == line[n]
           L == Left(node, line)
           K == Entries(L[n-1], n, w)
           x == CommonPrefix(K)
           complete == {c \in L[n] : Complete(c, n)}
           c == Result(node, line)
<1>0. /\ n \in Nat /\ n # 0 /\ n - 1 \in Nat /\ n \in 1..n /\ n - 1 \in 0..n
      /\ DOMAIN line = 1..n
  BY EditedLine DEF TabWord, IsALine, OfItsWords
<1>a. \A i \in 1..n : i # n => i \in 1..(n-1)
  <2>1. \A q \in Nat : \A i \in 1..q : i # q => i \in 1..(q-1)
    OBVIOUS
  <2>2. QED
    BY <1>0, <2>1
<1>1. /\ ~AmbiguousUpTo(node, line, n)
      /\ c \in L[n]
  <2>1. ~AmbiguousUpTo(node, line, n) /\ Cardinality(complete) = 1
    BY DEF Result
  <2>2. c = CHOOSE e \in complete : TRUE
    BY <2>1 DEF Result
  <2>3. complete # {}
    BY <2>1, FS_EmptySet
  <2>4. QED
    BY <2>1, <2>2, <2>3
<1>2. ~AmbiguousUpTo(node, line, n - 1)
  <2>1. 1..(n - 1) \subseteq 1..n
    BY <1>0
  <2>2. QED
    BY <1>1, <2>1 DEF AmbiguousUpTo
<1>3. Completions(node, line) = K
  BY <1>2 DEF Completions
<1>4. L[n] = FilterWord(L[n-1], w, n) /\ ~Ambiguous(Filter(L[n-1], w, n), w, n)
  BY <1>0, <1>1, LeftIs DEF AmbiguousUpTo
<1>5. L[n-1] \subseteq Commands
  BY <1>0, <1>2, LeftFacts, CommandAssumption
<1>6. \A e \in L[n-1] : \A d \in Keywords(e, n) : ProperWord(d.word)
  <2>1. ASSUME NEW e \in L[n-1], NEW d \in Keywords(e, n)
        PROVE  ProperWord(d.word)
    <3>1. n <= Len(Pattern[e])
      BY <2>1 DEF Keywords, DescsAt
    <3>2. n \in 1..Len(Pattern[e])
      BY <1>0, <1>5, <3>1, PatternLengths
    <3>3. QED
      BY <1>5, <3>2 DEF ProperKeywords
  <2>2. QED
    BY <2>1
<1>7. K # {} /\ \A y \in K : ProperWord(y) /\ Abbreviates(w, y)
  BY <1>3, <1>6 DEF TabWord, Entries, Keywords
<1>8. line' = [line EXCEPT ![n] = IF Len(x) > Len(w) THEN x ELSE w]
  BY <1>3 DEF TabWord, Edit
<1> HIDE DEF c, complete
<1>9. CASE ~(Len(x) > Len(w))
  <2>1. line' = [line EXCEPT ![n] = w]
    BY <1>8, <1>9
  <2>2. line' = line
    BY <1>0, <2>1 DEF IsALine, OfItsWords
  <2>3. QED
    BY <2>2 DEF c
<1>10. CASE Len(x) > Len(w)
  <2>1. \A e \in L[n-1] : \A d \in DescsAt(e, n) : MatchOf(d, w) # 3
    <3> SUFFICES ASSUME NEW e \in L[n-1], NEW d \in DescsAt(e, n), MatchOf(d, w) = 3
                 PROVE  FALSE
      OBVIOUS
    <3>1. d.kind = "keyword" /\ d.word = w /\ d \in Keywords(e, n)
      BY MatchCases DEF Keywords
    <3>2. ProperWord(w)
      BY <1>6, <3>1
    <3>3. Len(w) \in Nat /\ Abbreviates(w, w)
      BY <3>2 DEF ProperWord, Abbreviates
    <3>4. w \in K
      BY <3>1, <3>3 DEF Entries
    <3>5. Len(x) \in 0..Len(w)
      BY <1>7, <3>4, PrefixWithAll
    <3>6. QED
      BY <1>10, <3>3, <3>5
  <2>2. PICK k \in K : TRUE
    BY <1>7
  <2>3. /\ K = {k} /\ FilterWord(L[n-1], k, n) = L[n]
        /\ ~Ambiguous(Filter(L[n-1], k, n), k, n)
        /\ \A e \in L[n] : Keywords(e, n) # {}
    BY <1>4, <2>1, OneKeyword
  <2>4. x = k
    BY <1>7, <2>3, PrefixOfOne
  <2> HIDE DEF x
  <2>5. line' = [line EXCEPT ![n] = k]
    BY <1>8, <1>10, <2>4
  <2>6. line'[n] = k /\ Len(line') = n /\ \A i \in 1..(n-1) : line'[i] = line[i]
    BY <1>0, <2>5 DEF IsALine, OfItsWords
  <2> DEFINE M == Left(node, line')
  <2>7. \A i \in 0..(n-1) : M[i] = L[i]
    <3>1. /\ Len(line) \in Nat /\ Len(line') \in Nat /\ n - 1 \in Nat
          /\ n - 1 <= Len(line) /\ n - 1 <= Len(line')
      BY <1>0, <2>6
    <3> DEFINE m == n - 1
    <3>2. m \in Nat /\ m <= Len(line) /\ m <= Len(line') /\ \A i \in 1..m : line'[i] = line[i]
      BY <2>6, <3>1
    <3> HIDE DEF m
    <3>3. \A i \in 0..m : Left(node, line')[i] = Left(node, line)[i]
      BY <3>1, <3>2, LeftBefore
    <3>4. QED
      BY <3>3 DEF m
  <2>8. M[n] = FilterWord(M[n-1], line'[n], n)
    BY <1>0, <2>6, LeftIs
  <2>9. M[n] = L[n]
    BY <1>0, <2>3, <2>6, <2>7, <2>8
  <2>10. ~AmbiguousUpTo(node, line', n)
    <3>1. ASSUME NEW i \in 1..n
          PROVE  ~Ambiguous(Filter(M[i-1], line'[i], i), line'[i], i)
      <4>1. M[i-1] = L[i-1]
        BY <1>0, <2>7
      <4>2. CASE i = n
        BY <2>3, <2>6, <4>1, <4>2
      <4>3. CASE i # n
        <5>1. i \in 1..(n-1)
          BY <1>a, <4>3
        <5>2. line'[i] = line[i]
          BY <2>6, <5>1
        <5>3. QED
          BY <1>1, <4>1, <5>2 DEF AmbiguousUpTo
      <4>4. QED
        BY <4>2, <4>3
    <3>2. QED
      BY <3>1 DEF AmbiguousUpTo
  <2>11. Result(node, line') = Result(node, line)
    BY <1>1, <2>6, <2>9, <2>10 DEF Result
  <2>12. ASSUME NEW i \in 1..n, \A d \in Pattern[c][i] : d.kind # "keyword"
         PROVE  line'[i] = line[i]
    <3>1. PICK d \in DescsAt(c, n) : d.kind = "keyword"
      BY <1>1, <2>3 DEF Keywords
    <3>2. d \in Pattern[c][n]
      BY <3>1 DEF DescsAt
    <3>3. i # n
      BY <2>12, <3>1, <3>2
    <3>4. i \in 1..(n-1)
      BY <1>a, <3>3
    <3>5. QED
      BY <2>6, <3>4
  <2>13. QED
    BY <2>11, <2>12 DEF c
<1>11. QED
  BY <1>9, <1>10

(* TAB never changes what a line stands for, nor a word the user made up.  *)
THEOREM TabKeepsCommandHolds == ProperKeywords => (Spec => TabKeepsCommand)
<1> SUFFICES ASSUME ProperKeywords
             PROVE  Spec => TabKeepsCommand
  OBVIOUS
<1>1. Init => MatcherInv /\ IsALine
  BY MatcherInvInit, LineInit
<1>2. MatcherInv /\ IsALine /\ [Next]_vars => (MatcherInv /\ IsALine)'
  BY MatcherInvNext, LineNext
<1>3. MatcherInv /\ IsALine /\ [Next]_vars
      => [TabWord /\ Result(node, line) # NoCommand =>
            LET c == Result(node, line)
            IN /\ Result(node, line') = c
               /\ \A i \in 1..Len(line) :
                     (\A d \in Pattern[c][i] : d.kind # "keyword") => line'[i] = line[i]]_vars
  BY TabStep DEF MatcherInv
<1>4. QED
  BY <1>1, <1>2, <1>3, PTL DEF Spec, TabKeepsCommand

=============================================================================
