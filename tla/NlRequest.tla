----------------------------- MODULE NlRequest -----------------------------
(***************************************************************************)
(* What a caller of the netlink client relies on: requests are made one at *)
(* a time, the kernel decides on each of them, and a request is reported   *)
(* as a success only when the kernel has decided for this very request,    *)
(* or the caller asked not to wait for it.                                 *)
(* A failure may be reported whatever the kernel did.  NlClient implements *)
(* this (ImplementsRequest there).                                         *)
(***************************************************************************)
EXTENDS Naturals

VARIABLES
    number,    \* the requests made so far
    waiting,   \* the last of them has not returned
    verdict,   \* what the kernel decided on it: "none" when it never got it
    unawaited, \* it was made not to wait for the decision
    outcome    \* what its caller was told: "none" before it returns

vars == <<number, waiting, verdict, unawaited, outcome>>

Init == number = 0 /\ ~waiting /\ verdict = "none" /\ ~unawaited /\ outcome = "none"

Ask ==
    /\ ~waiting /\ number' = number + 1
    /\ waiting' \in BOOLEAN /\ verdict' \in {"none", "ok", "fail"}
    /\ unawaited' \in BOOLEAN
    /\ outcome' = IF waiting' THEN "none" ELSE "fail"

Return ==
    /\ waiting /\ waiting' = FALSE
    /\ outcome' \in {"ok", "fail"}
    /\ outcome' = "ok" => (verdict = "ok" \/ unawaited)
    /\ UNCHANGED <<number, verdict, unawaited>>

Spec == Init /\ [][Ask \/ Return]_vars
=============================================================================
