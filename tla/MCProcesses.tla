---------------------------- MODULE MCProcesses ----------------------------
(***************************************************************************)
(* Processes with a pipe shorter than what is written to it, and every     *)
(* call failing.                                                           *)
(***************************************************************************)
EXTENDS Processes

AllOps   == {"single", "pipe"}
AllCalls == Calls
=============================================================================
