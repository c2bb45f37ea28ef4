----------------------------- MODULE MkCommand -----------------------------
(***************************************************************************)
(* The command line of mksh: words are typed, TAB completes the last one,  *)
(* '?' lists what may come next, and Enter looks for the one command of    *)
(* the prompt's node that the words stand for, runs its handler and prints *)
(* a message for the number the handler returns.                           *)
(*                                                                         *)
(* Matching filters the commands of the node word by word.  A word may     *)
(* abbreviate a keyword; a keyword spelled out beats an abbreviated one,   *)
(* and both beat a variable (WORD, NUM) or an optional argument.  The      *)
(* three users of that filter, execution, completion and description, each *)
(* have a loop of their own in the code; the last two share Left here.     *)
(*                                                                         *)
(* A handler is what it may return and which node it may leave the prompt  *)
(* at; MkSession models what it does besides.                              *)
(*                                                                         *)
(* The patterns the program registers have keywords, variables, choices of *)
(* keywords and options; ranges, addresses and varargs (match types no     *)
(* command asks for) are left out, and so is the limit of CMD_ARGC_MAX     *)
(* arguments, which no registered pattern is long enough to reach.         *)
(*                                                                         *)
(* Sources: src/command.c, src/command.h, src/vtysh.c, src/vtysh_main.c.   *)
(***************************************************************************)
EXTENDS Naturals, Sequences, FiniteSets, FiniteSetsExt

CONSTANTS
    Nodes,      \* the nodes of the command tree, with "DOWN" for no process
    Words,      \* the words a user may type
    Commands,   \* the registered command elements
    Installed,  \* Nodes -> the commands of the node's cmd_vector
    Pattern,    \* Commands -> sequence of sets of [kind, word]: their strvec
    Outcomes,   \* Commands -> set of <<what the handler returns, node it leaves>>
    Typed,      \* Nodes -> the words typed at the node's prompt
    MaxWords    \* bound on the words of a line

Kinds == {"keyword", "variable", "option"}

(* What a handler returns: a CMD_ code, or the exit status of the tool it  *)
(* ran, in the same integers.  Other stands for those with no CMD_ code.   *)
Success       == 0
Warning       == 1
ErrNoMatch    == 2
ErrAmbiguous  == 3
ErrIncomplete == 4
SuccessDaemon == 10
Other         == 99
Results == {Success, Warning, ErrNoMatch, ErrAmbiguous, ErrIncomplete, SuccessDaemon, Other}

(* The node a handler leaves alone. *)
SameNode == "SAME"

NoCommand == "none"

ASSUME CommandAssumption ==
    /\ {"DOWN", "ENABLE"} \subseteq Nodes /\ SameNode \notin Nodes
    /\ IsFiniteSet(Commands) /\ NoCommand \notin Commands
    /\ Installed \in [Nodes -> SUBSET Commands]
    /\ DOMAIN Pattern = Commands
    /\ \A c \in Commands : Pattern[c] \in Seq(SUBSET [kind : Kinds, word : STRING])
    /\ Outcomes \in [Commands -> SUBSET (Results \X (Nodes \cup {SameNode}))]
    /\ Typed \in [Nodes -> SUBSET Words]
    /\ Words \subseteq STRING
    /\ MaxWords \in Nat

VARIABLES
    node,   \* vty->node
    pc,     \* where the loop of main is: "edit", "match", "run", "rerun", "done"
    line,   \* the words typed
    cands,  \* cmd_vector: the commands not filtered out yet
    index,  \* how many words cmd_execute_command has filtered by
    chosen, \* matched_element, the command that runs
    argv,   \* the arguments its handler gets
    runs,   \* how often the handler was called for this line
    said    \* the number a message was printed for, or Success

vars == <<node, pc, line, cands, index, chosen, argv, runs, said>>

-----------------------------------------------------------------------------
(* The matcher *)

(* enum match_type, the values registered patterns can produce. *)
(* Slip: a variable beats a keyword (RightCommandRuns). *)
ExtendMatchHighest == 4
NoMatch     == 0
ExtendMatch == 1
PartlyMatch == 2
ExactMatch  == 3

Abbreviates(w, keyword) ==
    Len(w) <= Len(keyword) /\ SubSeq(keyword, 1, Len(w)) = w

(* How a word matches one alternative of a pattern. *)
MatchOf(d, w) ==
    CASE d.kind # "keyword" -> ExtendMatch
      [] d.kind = "keyword" /\ d.word = w -> ExactMatch
      [] d.kind = "keyword" /\ d.word # w /\ Abbreviates(w, d.word) -> PartlyMatch
      [] OTHER -> NoMatch

DescsAt(c, i) == IF i <= Len(Pattern[c]) THEN Pattern[c][i] ELSE {}

(* cmd_filter_by_completion: the commands a word leaves ... *)
Filter(C, w, i) == {c \in C : \E d \in DescsAt(c, i) : MatchOf(d, w) # NoMatch}
(* ... and the highest match among them. *)
MatchType(C, w, i) ==
    Max({NoMatch} \cup {MatchOf(d, w) : d \in UNION {DescsAt(c, i) : c \in C}})

(* is_cmd_ambiguous: a word abbreviates two different keywords ... *)
(* Slip: one keyword of two commands counts twice (RefusalTrue). *)
AmbiguousByCommands(C, w, i) ==
    /\ MatchType(C, w, i) = PartlyMatch
    /\ Cardinality({c \in C : \E d \in DescsAt(c, i) : MatchOf(d, w) = PartlyMatch}) > 1
Ambiguous(C, w, i) ==
    /\ MatchType(C, w, i) = PartlyMatch
    /\ \E d, e \in UNION {DescsAt(c, i) : c \in C} :
          d.word # e.word /\ MatchOf(d, w) = PartlyMatch /\ MatchOf(e, w) = PartlyMatch
(* ... or it leaves the commands that match it as well as any. *)
Narrow(C, w, i) == {c \in C : \E d \in DescsAt(c, i) : MatchOf(d, w) = MatchType(C, w, i)}

FilterWord(C, w, i) == Narrow(Filter(C, w, i), w, i)

(* cmd_cmdsize: the words a command cannot do without. *)
CmdSize(c) ==
    LET options == {i \in 1..Len(Pattern[c]) : \E d \in Pattern[c][i] :
                      Pattern[c][i] = {d} /\ d.kind = "option"}
    IN IF options = {} THEN Len(Pattern[c]) ELSE Min(options) - 1

(* The arguments: every word but the keyword of a place with no choice. *)
Argv(c, ws) ==
    LET Given(i) == ~\E d \in Pattern[c][i] : Pattern[c][i] = {d} /\ d.kind = "keyword"
        places   == SelectSeq([i \in 1..Len(ws) |-> i], Given)
    IN [k \in DOMAIN places |-> ws[places[k]]]

(* What the loop over the first words of ws leaves of the node's commands. *)
Left(nd, ws) ==
    LET f[i \in 0..Len(ws)] == IF i = 0 THEN Installed[nd] ELSE FilterWord(f[i-1], ws[i], i)
    IN f
AmbiguousUpTo(nd, ws, n) ==
    \E i \in 1..n : Ambiguous(Filter(Left(nd, ws)[i-1], ws[i], i), ws[i], i)

(* cmd_entry_function: the keywords TAB may put at place i for the word.   *)
Entries(C, i, w) ==
    {d.word : d \in {d \in UNION {DescsAt(c, i) : c \in C} :
                       d.kind = "keyword" /\ Abbreviates(w, d.word)}}

(* cmd_complete_command, of the last word and of one not begun. *)
(* Slip: the words before the last do not filter (TabKeepsCommand). *)
CompletionsOfNode(nd, ws) == Entries(Installed[nd], Len(ws), ws[Len(ws)])
Completions(nd, ws) ==
    LET n == Len(ws)
    IN IF AmbiguousUpTo(nd, ws, n - 1) THEN {} ELSE Entries(Left(nd, ws)[n-1], n, ws[n])
NextWords(nd, ws) ==
    IF AmbiguousUpTo(nd, ws, Len(ws)) THEN {} ELSE Entries(Left(nd, ws)[Len(ws)], Len(ws) + 1, "")

(* cmd_lcd: the longest beginning all the keywords share. *)
CommonPrefix(S) ==
    LET w == CHOOSE w \in S : \A x \in S : Len(w) <= Len(x)
        n == Max({k \in 0..Len(w) : \A x \in S : SubSeq(x, 1, k) = SubSeq(w, 1, k)})
    IN SubSeq(w, 1, n)

(* cmd_describe_command after a blank: what '?' lists. *)
Help(nd, ws) ==
    LET n == Len(ws)
        C == Left(nd, ws)[n]
    IN IF AmbiguousUpTo(nd, ws, n)
       THEN {}
       ELSE {d.word : d \in UNION {DescsAt(c, n + 1) : c \in C}}
            \cup {"<cr>" : c \in {c \in C : Len(Pattern[c]) = n}}

-----------------------------------------------------------------------------
(* main's loop: readline, vtysh_execute *)

Init ==
    /\ node = "DOWN" /\ pc = "edit" /\ line = <<>>
    /\ cands = {} /\ index = 0 /\ chosen = NoCommand
    /\ argv = <<>> /\ runs = 0 /\ said = Success

Start ==
    /\ node = "DOWN" /\ pc = "edit"
    /\ node' = "ENABLE"
    /\ UNCHANGED <<pc, line, cands, index, chosen, argv, runs, said>>

(* readline returns NULL at an empty line only. *)
Eof ==
    /\ node # "DOWN" /\ pc = "edit" /\ line = <<>>
    /\ node' = "DOWN"
    /\ UNCHANGED <<pc, line, cands, index, chosen, argv, runs, said>>

Edit(ws) ==
    /\ pc = "edit"
    /\ line' = ws
    /\ UNCHANGED <<node, pc, cands, index, chosen, argv, runs, said>>

TypeWord(w) == Len(line) < MaxWords /\ Edit(Append(line, w))

(* new_completion: one candidate, or what all of them begin with, replaces *)
(* the last word ...                                                       *)
TabWord ==
    /\ line # <<>>
    /\ Completions(node, line) # {}
    /\ Edit([line EXCEPT ![Len(line)] =
                IF Len(CommonPrefix(Completions(node, line))) > Len(@)
                THEN CommonPrefix(Completions(node, line)) ELSE @])
(* ... and after a blank the only keyword that may follow is inserted. *)
TabBlank ==
    /\ line # <<>> /\ Len(line) < MaxWords
    /\ \E w \in NextWords(node, line) :
          NextWords(node, line) = {w} /\ Edit(Append(line, w))

Enter ==
    /\ pc = "edit" /\ line # <<>>
    /\ pc' = "match"
    /\ cands' = Installed[node] /\ index' = 0
    /\ UNCHANGED <<node, line, chosen, argv, runs, said>>

Report(code) ==
    /\ pc' = "done"
    /\ said' = code
    /\ UNCHANGED <<chosen, argv, runs>>

(* One round of the loop of cmd_execute_command. *)
MatchWord ==
    LET i == index + 1
        C == Filter(cands, line[i], i)
    IN /\ pc = "match" /\ index < Len(line)
       /\ cands' = Narrow(C, line[i], i) /\ index' = i
       /\ IF Ambiguous(C, line[i], i)
          THEN Report(ErrAmbiguous)
          ELSE UNCHANGED <<pc, chosen, argv, runs, said>>
       /\ UNCHANGED <<node, line>>

(* Slips: the last mandatory argument may be missing (RunsWhatAccepts); *)
(* a command needs a word too many (HelpAgrees).                           *)
CompleteEarly(c, n) == n + 1 >= CmdSize(c)
CompleteLate(c, n)  == n > CmdSize(c)
Complete(c, n) == n >= CmdSize(c)

(* All words are read: exactly one command must be complete. *)
Dispatch ==
    LET complete == {c \in cands : Complete(c, Len(line))}
    IN /\ pc = "match" /\ index = Len(line)
       /\ \/ complete = {} /\ cands = {} /\ Report(ErrNoMatch)
          \/ complete = {} /\ cands # {} /\ Report(ErrIncomplete)
          \/ Cardinality(complete) > 1 /\ Report(ErrAmbiguous)
          \/ /\ Cardinality(complete) = 1
             /\ chosen' \in complete
             /\ argv' = Argv(chosen', line)
             /\ runs' = 1
             /\ pc' = "run"
             /\ UNCHANGED said
       /\ UNCHANGED <<node, line, cands, index>>

GoesTo(nd) == IF nd = SameNode THEN node ELSE nd

(* The handler returns: vtysh_execute_func prints a message for the number *)
(* when it is one of its own, and runs the handler again for another.      *)
HandlerReturns ==
    /\ pc = "run"
    /\ \E o \in Outcomes[chosen] :
          /\ node' = GoesTo(o[2])
          /\ pc' = IF o[1] = SuccessDaemon THEN "rerun" ELSE "done"
          /\ said' = IF o[1] \in {ErrNoMatch, ErrAmbiguous, ErrIncomplete} THEN o[1] ELSE Success
    /\ UNCHANGED <<line, cands, index, chosen, argv, runs>>

(* The handler is called with argc 0 and no argv; its result is dropped.   *)
RunAgain ==
    /\ pc = "rerun"
    /\ runs' = runs + 1
    /\ argv' = <<>>
    /\ \E o \in Outcomes[chosen] : node' = GoesTo(o[2])
    /\ pc' = "done"
    /\ UNCHANGED <<line, cands, index, chosen, said>>

NextLine ==
    /\ pc = "done"
    /\ pc' = "edit" /\ line' = <<>>
    /\ cands' = {} /\ index' = 0 /\ chosen' = NoCommand
    /\ argv' = <<>> /\ runs' = 0 /\ said' = Success
    /\ UNCHANGED node

Next ==
    \/ Start \/ Eof \/ TabWord \/ TabBlank \/ Enter
    \/ \E w \in Typed[node] : TypeWord(w)
    \/ MatchWord \/ Dispatch \/ HandlerReturns \/ RunAgain \/ NextLine

Spec == Init /\ [][Next]_vars

-----------------------------------------------------------------------------
(* Properties *)

Accepts(c, w, i) ==
    \E d \in DescsAt(c, i) : d.kind # "keyword" \/ d.word = w \/ Abbreviates(w, d.word)
AcceptsWords(c, ws) == \A i \in 1..Len(ws) : Accepts(c, ws[i], i)
AcceptsLine(c, ws) == Len(ws) >= CmdSize(c) /\ AcceptsWords(c, ws)

(* The handler that runs belongs to a command of the prompt's node which   *)
(* accepts every word of the line and needs no more of them: it may read   *)
(* all the arguments its pattern makes mandatory.                          *)
RunsWhatAccepts ==
    pc = "run" => chosen \in Installed[node] /\ AcceptsLine(chosen, line)

(* How much of a keyword a word is for a command. *)
Rank(c, w, i) ==
    CASE \E d \in DescsAt(c, i) : d.kind = "keyword" /\ d.word = w -> 2
      [] \E d \in DescsAt(c, i) : d.kind = "keyword" /\ Abbreviates(w, d.word)
         /\ ~\E e \in DescsAt(c, i) : e.kind = "keyword" /\ e.word = w -> 1
      [] OTHER -> 0

(* What runs is the best of the commands that accept the line: at the      *)
(* first word where another one differs, the word is more of a keyword.    *)
BestRuns ==
    pc = "run" =>
        \A c \in Installed[node] \ {chosen} :
            AcceptsLine(c, line) =>
                \E i \in 1..Len(line) :
                    /\ Rank(chosen, line[i], i) > Rank(c, line[i], i)
                    /\ \A j \in 1..(i-1) : Rank(chosen, line[j], j) = Rank(c, line[j], j)

(* Together: what runs is the one right command.                           *)
RightCommandRuns == RunsWhatAccepts /\ BestRuns

(* Word i begins two keywords that may stand there, after the words before. *)
BeginsTwo(ws, i) ==
    \E c, e \in {c \in Installed[node] : AcceptsWords(c, SubSeq(ws, 1, i - 1))} :
        \E d \in DescsAt(c, i), f \in DescsAt(e, i) :
            /\ d.kind = "keyword" /\ f.kind = "keyword" /\ d.word # f.word
            /\ Abbreviates(ws[i], d.word) /\ Abbreviates(ws[i], f.word)

Keywords(c, i) == {d \in DescsAt(c, i) : d.kind = "keyword"}
Blanks(c, i)   == DescsAt(c, i) \ Keywords(c, i)

(* No word stands for both at place i: they ask for different keywords.    *)
Separated(c, e, i) ==
    /\ Blanks(c, i) = {} /\ Blanks(e, i) = {}
    /\ \A d \in Keywords(c, i), f \in Keywords(e, i) : d.word # f.word

(* A word at place i may be more of a keyword for e than it is for c, so   *)
(* that c is dropped, and only later e turns out not to take the rest.     *)
Outranks(e, c, i) ==
    \E d \in Keywords(e, i) :
        \/ Blanks(c, i) # {}
        \/ \E f \in Keywords(c, i) : f.word # d.word /\ Abbreviates(d.word, f.word)
TakesTheRest(e, c, i) ==
    \A j \in (i+1)..Len(Pattern[c]) : Blanks(e, j) # {} \/ DescsAt(c, j) \subseteq DescsAt(e, j)

(* The matcher never goes back, so the commands must not set such traps.   *)
NoTraps ==
    \A nd \in Nodes : \A c, e \in Installed[nd] : \A i \in 1..Len(Pattern[c]) :
        Outranks(e, c, i) /\ (\A j \in 1..(i-1) : ~Separated(c, e, j)) => TakesTheRest(e, c, i)

(* Two commands differ in the number of their words, or in a word that     *)
(* both need: a keyword for one only, or another keyword.                  *)
Apart(c, e) ==
    \/ Len(Pattern[c]) < CmdSize(e) \/ Len(Pattern[e]) < CmdSize(c)
    \/ \E i \in 1..CmdSize(c) :
          /\ i <= CmdSize(e)
          /\ \/ Separated(c, e, i)
             \/ Blanks(c, i) = {} /\ Keywords(e, i) = {}
             \/ Keywords(c, i) = {} /\ Blanks(e, i) = {}
AllApart == \A nd \in Nodes : \A c, e \in Installed[nd] : c # e => Apart(c, e)

(* '?' lists "<cr>" for the end of a line only. *)
EndUnnamed ==
    \A c \in Commands : \A i \in 1..Len(Pattern[c]) : \A d \in Pattern[c][i] : d.word # "<cr>"
(* The beginnings of a keyword are as long as they are asked to be. *)
ProperWord(x) ==
    /\ Len(x) \in Nat /\ SubSeq(x, 1, Len(x)) = x
    /\ \A n \in 0..Len(x) : Len(SubSeq(x, 1, n)) = n
ProperKeywords ==
    \A c \in Commands : \A i \in 1..Len(Pattern[c]) : \A d \in Keywords(c, i) : ProperWord(d.word)

(* A line the matcher refuses is told the truth: an unknown command is one *)
(* that no command accepts, an incomplete one has a continuation, and an   *)
(* ambiguous one a word that begins two keywords.                          *)
RefusalTrue ==
    pc = "done" /\ runs = 0 =>
        CASE said = ErrNoMatch    -> \A c \in Installed[node] : ~AcceptsLine(c, line)
          [] said = ErrIncomplete -> \E c \in Installed[node] :
                                        AcceptsWords(c, line) /\ CmdSize(c) > Len(line)
          [] said = ErrAmbiguous  -> \E i \in 1..Len(line) : BeginsTwo(line, i)

(* The command a line stands for, if any. *)
Result(nd, ws) ==
    LET complete == {c \in Left(nd, ws)[Len(ws)] : Complete(c, Len(ws))}
    IN IF AmbiguousUpTo(nd, ws, Len(ws)) \/ Cardinality(complete) # 1
       THEN NoCommand ELSE CHOOSE c \in complete : TRUE

(* TAB changes the spelling of a keyword, never the command a line stands  *)
(* for nor an argument the user made up.                                   *)
TabKeepsCommand ==
    [][TabWord /\ Result(node, line) # NoCommand =>
         LET c == Result(node, line)
         IN /\ Result(node, line') = c
            /\ \A i \in 1..Len(line) :
                  (\A d \in Pattern[c][i] : d.kind # "keyword") => line'[i] = line[i]]_vars

(* Execution, TAB and '?' have a loop each over the same commands.  They   *)
(* agree: where '?' offers <cr>, Enter runs a command, and what TAB offers *)
(* next is on the list of '?'.                                             *)
HelpAgrees ==
    pc = "edit" /\ line # <<>> =>
        /\ "<cr>" \in Help(node, line) => Result(node, line) # NoCommand
        /\ NextWords(node, line) \subseteq Help(node, line)

(* Where a pattern has a choice of keywords, its handler gets a keyword.   *)
KeywordArguments ==
    pc = "run" =>
        \A i \in 1..Len(line) :
            LET D == Pattern[chosen][i]
            IN (\A d \in D : d.kind = "keyword") /\ Cardinality(D) > 1
                 => \E k \in DOMAIN argv : argv[k] = line[i] /\ \E d \in D : d.word = line[i]
=============================================================================
