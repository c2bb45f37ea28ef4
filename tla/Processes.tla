----------------------------- MODULE Processes -----------------------------
(***************************************************************************)
(* The processes behind a command: cmd_execute_system_command, one child   *)
(* that the shell waits for, and cmd_exec_system_cmd_pipe, two of them     *)
(* joined by a pipe.  The shell forks the customer, the customer makes the *)
(* pipe and forks the producer, and both exec their tools.                 *)
(*                                                                         *)
(* A process is modelled by where it is in the function and by what its    *)
(* descriptors stand for; the tools are external: a producer writes its    *)
(* lines and exits, a customer reads to the end of file or exits before.   *)
(* SIGPIPE is ignored by the shell and so by its tools: who writes to a    *)
(* pipe without a reader gets EPIPE, and exits.                            *)
(*                                                                         *)
(* Sources: src/utils.c, src/command.c.                                    *)
(***************************************************************************)
EXTENDS Naturals, FiniteSets

CONSTANTS
    Ops,        \* which functions are called: a subset of {"single", "pipe"}
    Failing,    \* the calls that may fail: a subset of Calls
    Lines,      \* what the producer has to write
    Capacity    \* what the pipe holds

Calls  == {"fork", "pipe", "dup2", "exec"}
Procs  == {"shell", "customer", "producer"}
Slots  == {"stdin", "stdout", "pipe0", "pipe1"}   \* 0, 1, pipe_id[0], pipe_id[1]

ASSUME ProcessAssumption ==
    Ops \subseteq {"single", "pipe"} /\ Failing \subseteq Calls /\ Lines \in Nat /\ Capacity \in Nat \ {0}

VARIABLES
    op,       \* the function the shell has called
    pc,       \* where each process is
    fd,       \* its descriptors: "tty", "read" or "write" end of the pipe, "closed"
    status,   \* how the shell's child ended: "run", "zero", "nonzero", "signal"
    result,   \* what the function returns to the shell: "none" before it does
    pipe,     \* lines in the pipe
    written, got, \* lines the producer wrote and the customer read
    failed    \* some call of this command has failed

vars == <<op, pc, fd, status, result, pipe, written, got, failed>>

Terminal == [s \in Slots |-> IF s \in {"stdin", "stdout"} THEN "tty" ELSE "closed"]

Init ==
    /\ op = "none" /\ pc = [p \in Procs |-> IF p = "shell" THEN "prompt" ELSE "none"]
    /\ fd = [p \in Procs |-> Terminal]
    /\ status = "run" /\ result = "none" /\ pipe = 0 /\ written = 0 /\ got = 0 /\ failed = FALSE

(* Who has an end of the pipe open. *)
Holders(end) == {p \in Procs : \E s \in Slots : fd[p][s] = end}

At(p, here) == pc[p] = here
Goto(p, there) == pc' = [pc EXCEPT ![p] = there]

(* A process that ends closes what it holds; the shell's child leaves a    *)
(* status.                                                                 *)
End(p, how) ==
    /\ Goto(p, "dead") /\ fd' = [fd EXCEPT ![p] = [s \in Slots |-> "closed"]]
    /\ status' = IF p = "customer" THEN how ELSE status
    /\ UNCHANGED <<op, result>>

(* A failed call in a child of cmd_exec_system_cmd_pipe: the function      *)
(* returns, and the child goes on as a shell.                              *)
Returns(p) ==
    /\ Goto(p, "returned") /\ failed' = TRUE
    /\ UNCHANGED <<op, fd, status, result, pipe, written, got>>

-----------------------------------------------------------------------------
(* The shell *)

ShellForks(o) ==
    /\ At("shell", "prompt") /\ op' = o
    /\ pc' = [pc EXCEPT !["shell"] = "wait4", !["customer"] = IF o = "single" THEN "exec" ELSE "pipe"]
    /\ UNCHANGED <<fd, status, result, pipe, written, got, failed>>

ForkFails(o) ==
    /\ At("shell", "prompt") /\ "fork" \in Failing /\ op' = o
    /\ Goto("shell", "back") /\ result' = "negative" /\ failed' = TRUE
    /\ UNCHANGED <<fd, status, pipe, written, got>>

(* What the function makes of the child's end: the exit status, or, when a *)
(* signal ended it, the pid that wait4 returned; the pipe's returns 0.     *)
(* Slip: a child ended by a signal counts as done (ZeroMeansDone). *)
ResultSignalZero ==
    IF op = "pipe" \/ status \in {"zero", "signal"} THEN "zero" ELSE "positive"
Result ==
    IF op = "pipe" \/ status = "zero" THEN "zero" ELSE "positive"

Wait4 ==
    /\ At("shell", "wait4") /\ At("customer", "dead")
    /\ Goto("shell", "back") /\ result' = Result
    /\ UNCHANGED <<op, fd, status, pipe, written, got, failed>>

-----------------------------------------------------------------------------
(* The customer: makes the pipe, forks, joins its stdin to the pipe *)

MakePipe ==
    /\ At("customer", "pipe") /\ Goto("customer", "fork")
    /\ fd' = [fd EXCEPT !["customer"]["pipe0"] = "read", !["customer"]["pipe1"] = "write"]
    /\ UNCHANGED <<op, status, result, pipe, written, got, failed>>

(* Slip: the customer closes the producer's end before it forks. *)
ForkAfterClose ==
    /\ At("customer", "fork")
    /\ pc' = [pc EXCEPT !["customer"] = "close", !["producer"] = "close"]
    /\ fd' = [fd EXCEPT !["customer"]["pipe1"] = "closed",
                        !["producer"] = [fd["customer"] EXCEPT !["pipe1"] = "closed"]]
    /\ UNCHANGED <<op, status, result, pipe, written, got, failed>>
Fork ==
    /\ At("customer", "fork")
    /\ pc' = [pc EXCEPT !["customer"] = "close", !["producer"] = "close"]
    /\ fd' = [fd EXCEPT !["producer"] = fd["customer"]]
    /\ UNCHANGED <<op, status, result, pipe, written, got, failed>>

(* Each closes the end that the other one uses, makes its own end its      *)
(* standard descriptor, and closes the first copy.                         *)
Other(p) == IF p = "customer" THEN "pipe1" ELSE "pipe0"
Own(p)   == IF p = "customer" THEN "pipe0" ELSE "pipe1"
Std(p)   == IF p = "customer" THEN "stdin" ELSE "stdout"

(* Slip: the customer keeps the end it does not use (ShellComesBack). *)
CloseOtherProducerOnly(p) ==
    /\ At(p, "close") /\ Goto(p, "dup2")
    /\ fd' = IF p = "customer" THEN fd ELSE [fd EXCEPT ![p][Other(p)] = "closed"]
    /\ UNCHANGED <<op, status, result, pipe, written, got, failed>>
(* Slip: ... and the producer does (ToolsEnd). *)
CloseOtherCustomerOnly(p) ==
    /\ At(p, "close") /\ Goto(p, "dup2")
    /\ fd' = IF p = "producer" THEN fd ELSE [fd EXCEPT ![p][Other(p)] = "closed"]
    /\ UNCHANGED <<op, status, result, pipe, written, got, failed>>
CloseOther(p) ==
    /\ At(p, "close") /\ Goto(p, "dup2")
    /\ fd' = [fd EXCEPT ![p][Other(p)] = "closed"]
    /\ UNCHANGED <<op, status, result, pipe, written, got, failed>>

Dup2(p) ==
    /\ At(p, "dup2") /\ Goto(p, "exec")
    /\ fd' = [fd EXCEPT ![p][Std(p)] = fd[p][Own(p)], ![p][Own(p)] = "closed"]
    /\ UNCHANGED <<op, status, result, pipe, written, got, failed>>

Exec(p) ==
    /\ At(p, "exec") /\ Goto(p, "tool")
    /\ UNCHANGED <<op, fd, status, result, pipe, written, got, failed>>

(* exec fails, or there are more than 8 arguments and none is called: the  *)
(* child of cmd_execute_system_command exits with 1.                       *)
ExecFails ==
    /\ At("customer", "exec") /\ op = "single" /\ "exec" \in Failing
    /\ End("customer", "nonzero") /\ failed' = TRUE /\ UNCHANGED <<pipe, written, got>>

CallFails(p) ==
    /\ op = "pipe"
    /\ \/ At(p, "pipe") /\ "pipe" \in Failing
       \/ At(p, "fork") /\ "fork" \in Failing
       \/ At(p, "dup2") /\ "dup2" \in Failing
       \/ At(p, "exec") /\ "exec" \in Failing
    /\ Returns(p)

-----------------------------------------------------------------------------
(* The tools, and the shells that children become *)

Write ==
    /\ At("producer", "tool") /\ written < Lines /\ pipe < Capacity
    /\ Holders("read") # {}
    /\ pipe' = pipe + 1 /\ written' = written + 1
    /\ UNCHANGED <<op, pc, fd, status, result, got, failed>>

WriteFails ==
    /\ At("producer", "tool") /\ written < Lines /\ Holders("read") = {}
    /\ End("producer", "nonzero") /\ UNCHANGED <<pipe, written, got, failed>>

ProducerDone ==
    /\ At("producer", "tool") /\ written = Lines
    /\ End("producer", "zero") /\ UNCHANGED <<pipe, written, got, failed>>

Read ==
    /\ At("customer", "tool") /\ op = "pipe" /\ pipe > 0
    /\ pipe' = pipe - 1 /\ got' = got + 1
    /\ UNCHANGED <<op, pc, fd, status, result, written, failed>>

EndOfFile ==
    /\ At("customer", "tool") /\ op = "pipe" /\ pipe = 0 /\ Holders("write") = {}
    /\ End("customer", "zero") /\ UNCHANGED <<pipe, written, got, failed>>

SingleDone ==
    /\ At("customer", "tool") /\ op = "single"
    /\ \E how \in {"zero", "nonzero"} : End("customer", how)
    /\ UNCHANGED <<pipe, written, got, failed>>

(* A customer that does not read to the end. *)
ExitsEarly ==
    /\ At("customer", "tool") /\ op = "pipe"
    /\ End("customer", "nonzero") /\ UNCHANGED <<pipe, written, got, failed>>

Killed(p) ==
    /\ p # "shell" /\ At(p, "tool")
    /\ End(p, "signal") /\ UNCHANGED <<pipe, written, got, failed>>

(* The user ends the shell a child has become. *)
Quit(p) ==
    /\ At(p, "returned") /\ End(p, "zero") /\ UNCHANGED <<pipe, written, got, failed>>

Over ==
    /\ At("shell", "back") /\ \A p \in Procs \ {"shell"} : pc[p] \in {"none", "dead"}
    /\ UNCHANGED vars

Child(p) == CloseOther(p) \/ Dup2(p) \/ Exec(p) \/ CallFails(p)

Next ==
    \/ \E o \in Ops : ShellForks(o) \/ ForkFails(o)
    \/ Wait4 \/ MakePipe \/ Fork \/ ExecFails
    \/ \E p \in Procs : Child(p) \/ Killed(p) \/ Quit(p)
    \/ Write \/ WriteFails \/ ProducerDone
    \/ Read \/ EndOfFile \/ SingleDone \/ ExitsEarly \/ Over

(* Every process that can run does; nobody has to be killed, to quit or to *)
(* exit early.                                                             *)
Fairness ==
    /\ WF_vars(Wait4) /\ WF_vars(MakePipe \/ Fork \/ ExecFails)
    /\ \A p \in Procs : WF_vars(Child(p))
    /\ WF_vars(Write \/ WriteFails \/ ProducerDone) /\ WF_vars(Read \/ EndOfFile \/ SingleDone)

Spec == Init /\ [][Next]_vars /\ Fairness

-----------------------------------------------------------------------------
(* Properties *)

(* The processes and their descriptors; the pipe holds what was written    *)
(* and not read.                                                           *)
TypeOK ==
    /\ op \in Ops \cup {"none"} /\ failed \in BOOLEAN
    /\ pc \in [Procs -> {"prompt", "wait4", "back", "none", "pipe", "fork", "close", "dup2", "exec",
                         "tool", "returned", "dead"}]
    /\ fd \in [Procs -> [Slots -> {"tty", "read", "write", "closed"}]]
    /\ status \in {"run", "zero", "nonzero", "signal"} /\ result \in {"none", "zero", "positive", "negative"}
    /\ written \in 0 .. Lines /\ pipe \in 0 .. Capacity /\ written = got + pipe

(* A tool has its end of the pipe as its standard descriptor and holds no  *)
(* other: what a tool inherits beyond that keeps the pipe open for ever.   *)
ToolsHoldTheirEnd ==
    /\ TypeOK
    /\ \A p \in Procs \ {"shell"} : At(p, "tool") /\ op = "pipe" =>
          {s \in Slots : fd[p][s] \in {"read", "write"}} = {Std(p)}

(* The end of file comes after everything: the customer cannot find the    *)
(* pipe without a writer before the producer has opened it.                *)
EndAfterAll ==
    At("customer", "tool") /\ op = "pipe" /\ Holders("write") = {} => pc["producer"] = "dead"

(* 0 from cmd_execute_system_command means a tool ran and exited with 0:   *)
(* not one that could not be executed, nor one a signal ended.             *)
ZeroMeansDone == op = "single" /\ result = "zero" => ~failed /\ status = "zero"

(* Both tools end: the customer sees the end of the pipe, unless the       *)
(* producer has become a shell, which keeps the pipe as its stdout, and    *)
(* the producer is not left blocked on a full pipe that nobody reads,      *)
(* unless a customer that became a shell still holds it.                   *)
ToolsEnd ==
    /\ At("customer", "tool") ~> ~At("customer", "tool") \/ At("producer", "returned")
    /\ At("producer", "tool") ~> ~At("producer", "tool") \/ At("customer", "returned")

(* The shell gets back, unless a child has become another shell.           *)
ShellComesBack ==
    At("shell", "wait4") ~> At("shell", "back") \/ (\E p \in Procs : At(p, "returned"))

=============================================================================
