------------------------------ MODULE Matchers ------------------------------
(***************************************************************************)
(* The matchers of words that are addresses, ranges and numbers: command.c *)
(* answers no, partly or exact while a word is typed, utils.c valid or not *)
(* for a whole one.                                                        *)
(*                                                                         *)
(* A word is a sequence of characters.  The loops that walk a word with    *)
(* one character of lookahead are functions of its positions, from 0 for   *)
(* before the loop; a return in the loop is a verdict that later positions *)
(* keep.  What atoi and strtol read are words of digits, too short to      *)
(* overflow; strtoul saturates.                                            *)
(*                                                                         *)
(* Sources: src/command.c, src/utils.c, src/utils.h.                       *)
(***************************************************************************)
EXTENDS Integers, Sequences, SequencesExt, FiniteSets, FiniteSetsExt

CONSTANTS
    UlongMax,  \* ULONG_MAX
    Low, High, \* a range, <Low-High>
    Goals,     \* what a user means to type: records of kind and word
    Keys,      \* the characters that are hit by mistake
    MaxSlips   \* of the user, a bound

(* The characters that occur and their codes; End is the '\0'.             *)
End      == "end"
Signs    == <<".", "/", "0", "1", "2", "3", "4", "5", "6", "7", "8", "9", ":">>
Alphabet == ToSet(Signs) \cup {"%", "*", "-", "a", "f", "g"}
Code ==
    [c \in Alphabet \cup {End} |->
       CASE c = "%" -> 37 [] c = "*" -> 42 [] c = "-" -> 45 [] c = "a" -> 97 [] c = "f" -> 102 [] c = "g" -> 103
         [] c = End -> 0  [] OTHER -> 45 + CHOOSE i \in DOMAIN Signs : Signs[i] = c]

MatcherKinds == {"ipv4", "ipv4 prefix", "ipv6", "ipv6 prefix", "range", "mac"}

ASSUME MatchersAssumption ==
    /\ {UlongMax, Low, High, MaxSlips} \subseteq Nat
    /\ Low <= High /\ High <= UlongMax
    /\ \A g \in Goals : g.kind \in MatcherKinds /\ g.word \in Seq(Alphabet)
    /\ Keys \subseteq Alphabet

VARIABLES
    goal,      \* the word the user means
    place,     \* the position of its next character
    typed,     \* the word so far
    slips,     \* mistakes so far
    refused    \* whether a beginning of typed was refused
vars == <<goal, place, typed, slips, refused>>

(* enum match_type, and the verdict of a loop that goes on. *)
No == "no"  Partly == "partly"  Exact == "exact"  Go == "go"

IsDigit(c) == Code[c] \in 48 .. 57
IsAlpha(c) == Code[c] \in 97 .. 122
IsHex(c)   == IsDigit(c) \/ Code[c] \in 97 .. 102

AllDigits(s) == \A i \in DOMAIN s : IsDigit(s[i])
At(s, i) == IF i \in DOMAIN s THEN s[i] ELSE End

(* The number a word of digits is, and is_number. *)
Number(s) ==
    LET n[i \in 0 .. Len(s)] == IF i = 0 THEN 0 ELSE 10 * n[i - 1] + Code[s[i]] - 48
    IN n[Len(s)]
IsNumber(s) == s # <<>> /\ AllDigits(s)

(* A word cut at every sep; the cuts among its first characters. *)
Cuts(s, sep) ==
    LET c[i \in 0 .. Len(s)] ==
          IF i = 0 THEN <<0>> ELSE IF s[i] = sep THEN Append(c[i - 1], i) ELSE c[i - 1]
    IN c
Groups(s, sep) ==
    LET cuts == Append(Cuts(s, sep)[Len(s)], Len(s) + 1)
    IN [k \in 1 .. Len(cuts) - 1 |-> SubSeq(s, cuts[k] + 1, cuts[k + 1] - 1)]

-----------------------------------------------------------------------------
(* IPv4 *)

(* The end of a group, the characters from sp to before i.                 *)
(* Slip: any number of digits (ExactIsRight). *)
GroupAnyLength(s, sp, i) == Number(SubSeq(s, sp, i - 1)) <= 255
Group(s, sp, i) == i - sp <= 3 /\ Number(SubSeq(s, sp, i - 1)) <= 255

(* A character of a group, or the dot or slash after one.  A dot that ends *)
(* the word is a part of an address; two in a row, or a fourth, are not.   *)
GroupStep(s, st, i, ends) ==
    LET refuse == [st EXCEPT !.v = No]
    IN IF s[i] = "." /\ (st.dots = 3 \/ At(s, i + 1) \in ends) THEN refuse
       ELSE IF s[i] = "." /\ At(s, i + 1) = End THEN [st EXCEPT !.v = Partly]
       ELSE IF s[i] \in ends THEN
            IF Group(s, st.sp, i)
            THEN [st EXCEPT !.dots = IF s[i] = "." THEN @ + 1 ELSE @, !.sp = i + 1]
            ELSE refuse
       ELSE IF IsDigit(s[i]) THEN st ELSE refuse

GroupStart == [v |-> Go, dots |-> 0, sp |-> 1, mask |-> 0]

Ipv4Step(s, st, i) == IF st.v = Go THEN GroupStep(s, st, i, {"."}) ELSE st
Ipv4Scan(s) ==
    LET st[i \in 0 .. Len(s)] == IF i = 0 THEN GroupStart ELSE Ipv4Step(s, st[i - 1], i)
    IN st

(* cmd_ipv4_match *)
Ipv4(s) ==
    LET st == Ipv4Scan(s)[Len(s)]
    IN IF st.v # Go THEN st.v
       ELSE IF ~Group(s, st.sp, Len(s) + 1) THEN No
       ELSE IF st.dots < 3 THEN Partly ELSE Exact

(* bad_ip_address, a copy of it that knows no parts: whether it returns 0. *)
GoodIp(s) ==
    LET st == Ipv4Scan(s)[Len(s)]
    IN st.v = Go /\ Group(s, st.sp, Len(s) + 1) /\ st.dots = 3

(* cmd_ipv4_prefix_match: the slash after the fourth group begins the      *)
(* mask; an earlier one ends a group.                                      *)
PrefixStep(s, st, i) ==
    IF st.v # Go THEN st
    ELSE IF st.mask > 0 THEN IF IsDigit(s[i]) THEN st ELSE [st EXCEPT !.v = No]
    ELSE IF s[i] = "/" /\ st.dots = 3 /\ Group(s, st.sp, i)
         THEN [st EXCEPT !.v = IF At(s, i + 1) = End THEN Partly ELSE Go, !.mask = i + 1]
    ELSE GroupStep(s, st, i, {".", "/"})
PrefixScan(s) ==
    LET st[i \in 0 .. Len(s)] == IF i = 0 THEN GroupStart ELSE PrefixStep(s, st[i - 1], i)
    IN st
Ipv4Prefix(s) ==
    LET st == PrefixScan(s)[Len(s)]
    IN IF st.v # Go THEN st.v
       ELSE IF st.mask = 0 THEN IF Group(s, st.sp, Len(s) + 1) THEN Partly ELSE No
       ELSE IF Number(SubSeq(s, st.mask, Len(s))) > 32 THEN No ELSE Exact

-----------------------------------------------------------------------------
(* IPv6 *)

Ipv6Start(s) ==
    LET st == [v |-> Go, state |-> "addr", colons |-> 0, nums |-> 0, double |-> FALSE, sp |-> 1]
    IN IF At(s, 1) # ":" THEN st
       ELSE IF At(s, 2) \in {":", End} THEN [st EXCEPT !.state = "colon", !.colons = -1]
       ELSE [st EXCEPT !.v = No]

(* The end of a group at i, or its middle; only the prefix form has an end *)
(* of a group before a dot, and begins the next one.                       *)
(* Slip: a group is measured at the end of the word only (RefusedForGood). *)
AddrEndOnly(s, st, i, prefix) ==
    LET nx   == At(s, i + 1)
        ends == {":", End} \cup IF prefix THEN {".", "/"} ELSE {}
        then == CASE nx = ":" -> "colon" [] nx = "." -> "dot" [] nx = "/" -> "slash" [] nx = End -> "colon"
    IN IF nx \notin ends THEN [st EXCEPT !.state = IF nx = "." THEN "dot" ELSE "addr"]
       ELSE IF (i - st.sp > 3 /\ nx = End) \/ (prefix /\ "/" \in ToSet(SubSeq(s, st.sp, i))) THEN [st EXCEPT !.v = No]
       ELSE [st EXCEPT !.nums = @ + 1, !.state = then, !.sp = IF prefix THEN i + 1 ELSE @]
Addr(s, st, i, prefix) ==
    LET nx   == At(s, i + 1)
        ends == {":", End} \cup IF prefix THEN {".", "/"} ELSE {}
        then == CASE nx = ":" -> "colon" [] nx = "." -> "dot" [] nx = "/" -> "slash" [] nx = End -> "colon"
    IN IF nx \notin ends THEN [st EXCEPT !.state = IF nx = "." THEN "dot" ELSE "addr"]
       ELSE IF i - st.sp > 3 \/ (prefix /\ "/" \in ToSet(SubSeq(s, st.sp, i))) THEN [st EXCEPT !.v = No]
       ELSE [st EXCEPT !.nums = @ + 1, !.state = then, !.sp = IF prefix THEN i + 1 ELSE @]

(* The second of two colons. *)
Double(s, st, i, prefix) ==
    LET nx == At(s, i + 1)
    IN IF st.double \/ nx = ":" THEN [st EXCEPT !.v = No]
       ELSE [st EXCEPT !.double = TRUE, !.nums = @ + 1, !.sp = i + 1,
                       !.colons = IF nx = End \/ (prefix /\ nx = "/") THEN @ ELSE @ + 1,
                       !.state = IF prefix /\ nx = "/" THEN "slash" ELSE "addr"]

Ipv6State(s, st, i, prefix) ==
    LET nx == At(s, i + 1)
    IN CASE st.state = "colon" ->
              IF prefix /\ nx = "/" THEN [st EXCEPT !.v = No]
              ELSE [st EXCEPT !.colons = @ + 1, !.sp = i + 1,
                              !.state = IF nx = ":" THEN "double" ELSE "addr"]
         [] st.state = "double" -> Double(s, st, i, prefix)
         [] st.state = "addr"   -> Addr(s, st, i, prefix)
         [] st.state = "dot"    -> [st EXCEPT !.state = "addr"]
         [] st.state = "slash"  ->
              IF nx = End THEN [st EXCEPT !.v = Partly] ELSE [st EXCEPT !.state = "mask", !.sp = i + 1]
         [] OTHER -> st

(* The limits, after every character: the prefix form counts the numbers   *)
(* of a dotted end too.                                                    *)
(* Slip: one colon less (TypedThrough). *)
LimitedSix(st, prefix) ==
    IF st.v = Go /\ (st.nums > (IF prefix THEN 11 ELSE 8) \/ st.colons > 6) THEN [st EXCEPT !.v = No] ELSE st
Limited(st, prefix) ==
    IF st.v = Go /\ (st.nums > (IF prefix THEN 11 ELSE 8) \/ st.colons > 7) THEN [st EXCEPT !.v = No] ELSE st

Ipv6Step(s, st, i, prefix) ==
    IF st.v = Go THEN Limited(Ipv6State(s, st, i, prefix), prefix) ELSE st
Ipv6Scan(s, prefix) ==
    LET st[i \in 0 .. Len(s)] == IF i = 0 THEN Ipv6Start(s) ELSE Ipv6Step(s, st[i - 1], i, prefix)
    IN st

(* What strspn is asked first. *)
Ipv6Chars(s, prefix) ==
    \A i \in DOMAIN s : IsHex(s[i]) \/ s[i] \in {":", ".", "%"} \/ (prefix /\ s[i] = "/")

(* cmd_ipv6_match: there is no part of an address, everything fits.        *)
Ipv6(s) ==
    IF Ipv6Chars(s, FALSE) /\ Ipv6Scan(s, FALSE)[Len(s)].v = Go THEN Exact ELSE No

(* cmd_ipv6_prefix_match *)
Ipv6Prefix(s) ==
    LET st   == Ipv6Scan(s, TRUE)[Len(s)]
        mask == SubSeq(s, st.sp, Len(s))
    IN IF ~Ipv6Chars(s, TRUE) THEN No
       ELSE IF st.v # Go THEN st.v
       ELSE IF st.state # "mask" THEN Partly
       ELSE IF AllDigits(mask) /\ Number(mask) <= 128 THEN Exact ELSE No

-----------------------------------------------------------------------------
(* Ranges *)

(* strtoul of a word of digits, with a sign or without: a number too large *)
(* is ULONG_MAX, a negative one is taken from ULONG_MAX + 1.               *)
Unsigned(s) == IF At(s, 1) = "-" THEN Tail(s) ELSE s
Strtoul(s) ==
    LET n == Number(Unsigned(s))
    IN IF n > UlongMax THEN UlongMax ELSE IF At(s, 1) = "-" /\ n > 0 THEN UlongMax + 1 - n ELSE n

(* cmd_range_match: whether it returns 1. *)
InRange(s) ==
    s # <<"-">> /\ AllDigits(Unsigned(s)) /\ Strtoul(s) \in Low .. High

-----------------------------------------------------------------------------
(* MAC addresses *)

(* is_mac_valid: whether it returns 0. *)
MacValid(s) ==
    /\ Len(s) = 17
    /\ \A i \in DOMAIN s : IF i % 3 = 0 THEN s[i] \in {"-", ":"} ELSE IsHex(s[i])

(* The value of a character, whatever it is, and of two. *)
Nibble(c)  == IF IsAlpha(c) THEN Code[c] - Code["a"] + 10 ELSE Code[c] - Code["0"]
Byte(c, d) == (16 * Nibble(c) + Nibble(d)) % 256

(* Two characters of a group, one of which at least is a letter or a digit.*)
Pair(c, d) ==
    /\ IsDigit(c) \/ IsDigit(d) \/ IsAlpha(c) \/ IsAlpha(d)
    /\ \A x \in {c, d} : IsAlpha(x) => IsHex(x)

(* macstr_to_macaddr cuts the word at its colons from the right; the first *)
(* group may be longer, and if it is empty the second is read with it.     *)
MacFirst(g) ==
    IF g[1] = <<>> THEN <<End, At(g[2], 1)>> ELSE <<At(g[1], 1), At(g[1], 2)>>
MacGood(s) ==
    LET g == Groups(s, ":")
    IN /\ Len(g) = 6 /\ Len(g[1]) # 1
       /\ \A k \in 2 .. 6 : Len(g[k]) = 2 /\ Pair(g[k][1], g[k][2])
       /\ Pair(MacFirst(g)[1], MacFirst(g)[2])
MacBytes(s) ==
    LET g == Groups(s, ":")
    IN <<Byte(MacFirst(g)[1], MacFirst(g)[2])>> \o [k \in 1 .. 5 |-> Byte(g[k + 1][1], g[k + 1][2])]

-----------------------------------------------------------------------------
(* A user types a word, with slips, and every beginning is matched, as TAB *)
(* and ? do.                                                               *)

Verdict(kind, s) ==
    CASE kind = "ipv4"        -> Ipv4(s)
      [] kind = "ipv4 prefix" -> Ipv4Prefix(s)
      [] kind = "ipv6"        -> Ipv6(s)
      [] kind = "ipv6 prefix" -> Ipv6Prefix(s)
      [] kind = "range"       -> IF InRange(s) THEN Exact ELSE No
      [] kind = "mac"         -> IF MacValid(s) THEN Exact ELSE No

Init ==
    /\ goal \in Goals /\ place = 1 /\ typed = <<>> /\ slips = 0
    /\ refused = (Verdict(goal.kind, <<>>) = No)

Hit(c) ==
    /\ typed' = Append(typed, c)
    /\ refused' = (refused \/ Verdict(goal.kind, typed') = No)
    /\ UNCHANGED goal

Type ==
    /\ place <= Len(goal.word)
    /\ Hit(goal.word[place])
    /\ place' = place + 1 /\ UNCHANGED slips

(* The wrong key, instead of the right one or before it. *)
Mistype ==
    /\ slips < MaxSlips /\ slips' = slips + 1
    /\ \E c \in Keys : Hit(c)
    /\ place' \in {place} \cup IF place <= Len(goal.word) THEN {place + 1} ELSE {}

Skip ==
    /\ slips < MaxSlips /\ slips' = slips + 1
    /\ place <= Len(goal.word) /\ place' = place + 1
    /\ UNCHANGED <<goal, typed, refused>>

(* The word is complete and the next one begins. *)
Enter ==
    /\ place > Len(goal.word)
    /\ goal' \in Goals /\ place' = 1 /\ typed' = <<>> /\ slips' = 0
    /\ refused' = (Verdict(goal'.kind, <<>>) = No)

Next == Type \/ Mistype \/ Skip \/ Enter
Spec == Init /\ [][Next]_vars

-----------------------------------------------------------------------------
(* Who types a valid address without a slip is refused at no character,    *)
(* and it is complete at the last: the matchers decide with one character  *)
(* of lookahead and a count of groups, dots and colons, and TAB, ? and the *)
(* dispatch of a half typed line all ask them.                             *)
TypedThrough ==
    slips = 0 /\ goal.kind \notin {"range", "mac"} =>
        /\ Verdict(goal.kind, typed) # No
        /\ typed = goal.word => Verdict(goal.kind, typed) = Exact

(* A word that was refused is not accepted when more is typed: whoever     *)
(* stops at a refusal, as the user sees it, gives up nothing.  The end of  *)
(* a group is looked at with the character after it, or with the end of    *)
(* the word, and both must measure alike.  An IPv6 address with a dot is   *)
(* left out: cmd_ipv6_match does not measure the group before a dot.       *)
RefusedForGood ==
    /\ goal.kind \in {"ipv4", "ipv4 prefix", "ipv6", "ipv6 prefix"} /\ refused
    /\ goal.kind = "ipv6" => "." \notin ToSet(typed)
    => Verdict(goal.kind, typed) # Exact

(* What the notations are, without a scan. *)
Octet(g)   == AllDigits(g) /\ Len(g) <= 3 /\ Number(g) <= 255
Dotted(s)  ==
    LET g == Groups(s, ".")
    IN Len(g) = 4 /\ \A k \in 1 .. 4 : Octet(g[k]) /\ (g[k] = <<>> => k = 1)
Doubles(s) == Cardinality({i \in DOMAIN s : s[i] = ":" /\ At(s, i + 1) = ":"})
Hexed(s)   ==
    LET g == Groups(s, ":")
    IN Doubles(s) <= 1 /\ Len(g) <= 9 /\ \A k \in DOMAIN g : Len(g[k]) <= 4 /\ \A i \in DOMAIN g[k] : IsHex(g[k][i])
Masked(s, most) ==
    LET g == Groups(s, "/") IN Len(g) > 1 /\ IsNumber(Last(g)) /\ Number(Last(g)) <= most
Address(s) == Groups(s, "/")[1]

(* The groups of an IPv6 address, that which :: stands for included, and   *)
(* an address in full: eight, or fewer and a double colon.                 *)
Written(s) ==
    LET none(c) == IF c = ":" THEN 1 ELSE 0
    IN Len(Groups(s, ":")) - none(At(s, 1)) - none(At(s, Len(s)))
Whole(s)   ==
    /\ Hexed(s) /\ Written(s) <= 8 /\ (Doubles(s) = 0 => Written(s) = 8)
    /\ At(s, 1) = ":" => At(s, 2) = ":"
    /\ At(s, Len(s)) = ":" => At(s, Len(s) - 1) = ":"
OneMask(s, most) == Masked(s, most) /\ Len(Groups(s, "/")) = 2

(* The words that are meant are addresses.  A dotted end of an IPv6 prefix *)
(* is no part of the notation above: that it is accepted has to be said.   *)
GoalsComplete ==
    \A g \in Goals :
        /\ g.kind = "ipv4" => Dotted(g.word)
        /\ g.kind = "ipv4 prefix" => OneMask(g.word, 32) /\ Dotted(Address(g.word))
        /\ g.kind = "ipv6" => Whole(g.word)
        /\ g.kind = "ipv6 prefix" =>
              \/ OneMask(g.word, 128) /\ Whole(Address(g.word))
              \/ "." \in ToSet(g.word) /\ Verdict(g.kind, g.word) = Exact
ASSUME GoalsAssumption == GoalsComplete

InTwosComplement(s) ==
    \E n \in Low .. High :
        \/ IsNumber(s) /\ Number(s) = n
        \/ s = <<>> /\ n = 0
        \/ IsNumber(Unsigned(s)) /\ Number(Unsigned(s)) > UlongMax /\ n = UlongMax
        \/ /\ At(s, 1) = "-" /\ IsNumber(Tail(s)) /\ Number(Tail(s)) <= UlongMax
           /\ Number(Tail(s)) + n \in {0, UlongMax + 1}
Hexit(c) == CHOOSE n \in 0 .. 15 : c = <<"0", "1", "2", "3", "4", "5", "6", "7", "8", "9", "a", "b", "c", "d", "e", "f">>[n + 1]

(* Exact is said of the notation: four octets, of which the scan takes the *)
(* first to be empty, and bad_ip_address says the same; a mask of at most  *)
(* 32 or 128; one double colon and groups of four, and of every address    *)
(* that is written in full, with a mask or without; numbers of the range,  *)
(* as strtoul has them, a sign included.  The two functions for MAC        *)
(* addresses know different separators, but agree where both know them,    *)
(* and the bytes are those that are written.                               *)
ExactIsRight ==
    LET v == Verdict(goal.kind, typed)
    IN CASE goal.kind = "ipv4" ->
              (v = Exact) = Dotted(typed) /\ GoodIp(typed) = Dotted(typed)
         [] goal.kind = "ipv4 prefix" ->
              /\ v = Exact => Masked(typed, 32)
              /\ Len(Groups(typed, "/")) = 2 =>
                    (v = Exact) = (Masked(typed, 32) /\ Dotted(Address(typed)))
         [] goal.kind = "ipv6" ->
              /\ v = Exact /\ {".", "%"} \cap ToSet(typed) = {} => Hexed(typed)
              /\ Whole(typed) => v = Exact
         [] goal.kind = "ipv6 prefix" ->
              /\ v = Exact => Masked(typed, 128)
              /\ v = Exact /\ {".", "%"} \cap ToSet(typed) = {} => Hexed(Address(typed))
              /\ OneMask(typed, 128) /\ Whole(Address(typed)) => v = Exact
         [] goal.kind = "range" -> (v = Exact) = InTwosComplement(typed)
         [] goal.kind = "mac" /\ v = Exact /\ "-" \notin ToSet(typed) ->
              /\ MacGood(typed)
              /\ MacBytes(typed) = [k \in 1 .. 6 |-> 16 * Hexit(typed[3 * k - 2]) + Hexit(typed[3 * k - 1])]
         [] OTHER -> TRUE
=============================================================================
