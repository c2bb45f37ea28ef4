--------------------------- MODULE MCThreadMaster ---------------------------
(***************************************************************************)
(* ThreadMaster with two clients, one of whose descriptors both use.       *)
(***************************************************************************)
EXTENDS ThreadMaster, TLC

CONSTANTS t1, t2, t3, a, b

MCThreads == {t1, t2, t3}
MCClients == {a, b}
MCFdsOf   == a :> {1} @@ b :> {1, 2}
=============================================================================
