---------------------------- MODULE MCMkCommand ----------------------------
(***************************************************************************)
(* MkCommand with the commands mksh registers, and a small vocabulary for  *)
(* every prompt: keywords in full, abbreviations of one and of several of  *)
(* them, and arguments, among them one that also begins a keyword.         *)
(***************************************************************************)
EXTENDS MkCommand, MkGrammar

MCTyped ==
    [n \in MkNodes |->
       CASE n = "DOWN"     -> {}
         [] n = "ENABLE"   -> {"p", "ping", "password", "show", "ver", "v1", "x86", "arm_32"}
         [] n = "VERSION"  -> {"pro", "p", "l", "mkdir", "-p", "exit", "r"}
         [] n = "PROJECT"  -> {"make", "-", "-C", "install", "in", "conf", "e", "end"}
         [] n = "PRO_CONF" -> {"exit", "kernel-config-file", "k", "a"}]
MCWords == UNION {MCTyped[n] : n \in MkNodes}

(* The commands of mksh are such that every refusal is right, that the   *)
(* three loops agree, and that TAB only spells a keyword out.            *)
ASSUME ClearGrammar == NoTraps /\ AllApart /\ EndUnnamed /\ ProperKeywords
=============================================================================
