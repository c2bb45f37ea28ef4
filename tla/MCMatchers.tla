----------------------------- MODULE MCMatchers -----------------------------
(***************************************************************************)
(* Addresses with every feature of the notations: the shortest and the     *)
(* longest of the groups, dotted ends, a double colon first, within and    *)
(* last, masks at their limits, numbers next to the bounds of the range    *)
(* and next to ULONG_MAX, here 999, with a sign and without.               *)
(***************************************************************************)
EXTENDS Matchers, TLC

Chars(str) == [i \in 1 .. Len(str) |-> SubSeq(str, i, i)]
Words(kind, strs) == {[kind |-> kind, word |-> Chars(w)] : w \in strs}

MCGoals ==
    UNION {Words("ipv4", {"001.0.0.1", "255.25.5.255"}),
           Words("ipv4 prefix", {"1.1.1.1/32", "10.0.0.0/8"}),
           Words("ipv6", {"::", "::1", "f::", "1:2::f", "1:2:3:4:5:6:7:8"}),
           Words("ipv6 prefix", {"::/0", "f::/16", "ff:a::1/128", "a::1.2.3.4/99", "1:2:3:4:5:6:7:8/64"}),
           Words("range", {"5", "17", "994", "1005", "-994", "-983"}),
           Words("mac", {"00:1a:0f:fa:90:01"})}
MCKeys == {".", ":", "/", "0", "g", "-"}
=============================================================================
