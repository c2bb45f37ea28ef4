------------------------------ MODULE NlClient ------------------------------
(***************************************************************************)
(* The netlink client of ldsec_nlclient.c: a socket to the kernel, one     *)
(* request at a time, and the loop that reads datagrams until one of them  *)
(* ends the request.                                                       *)
(*                                                                         *)
(* The kernel is external: it takes a request and answers it with one of   *)
(* its replies, a sequence of datagrams of messages.  Datagrams may get    *)
(* lost (the receive buffer overruns), be cut to the 4096 bytes of         *)
(* recv_buff, and come from other processes.  recvmsg may fail with EINTR  *)
(* or ENOBUFS: the loop tries again, which changes nothing.                *)
(*                                                                         *)
(* nlmsg_seq is written and never read: which request a datagram answers   *)
(* is known to the model (of) and not to the code.                         *)
(*                                                                         *)
(* Sources: src/ldsec_nlclient.c, src/ldsec_nlclient.h.                    *)
(***************************************************************************)
EXTENDS Naturals, Sequences, FiniteSets, SequencesExt, FiniteSetsExt

CONSTANTS
    Callers,       \* what callers do, see below
    Kernel,        \* nl_pid 0
    Others,        \* the pids of other processes that send to the socket
    MaxRequests,   \* bound of the requests made
    MaxForeign     \* bound of the datagrams of other processes

Messages == {"data", "done", "ack", "error", "rest"}

(* Whether a datagram of these messages can end a request as a success,    *)
(* and whether it can end it at all.                                       *)
Reports(mode, msgs) == "ack" \in ToSet(msgs) \/ (mode = "dump" /\ "done" \in ToSet(msgs))
Decides(mode, msgs) == Reports(mode, msgs) \/ "error" \in ToSet(msgs) \/ "rest" \in ToSet(msgs)

(* The kernel's decision, from its answer. *)
VerdictOf(answer) ==
    IF \E d \in ToSet(answer) : "error" \in ToSet(d) THEN "fail" ELSE "ok"

(* A caller keeps its nlsock_t for all its requests or takes a new one for *)
(* each (request_comm); it passes some of the flags, subsets of            *)
(* {"dump", "append"}; the kernel has some answers to its "ack" and "dump" *)
(* requests, none of which both refuses and reports a success, and so many *)
(* datagrams of them may get lost or cut.                                  *)
ASSUME NlAssumption ==
    /\ \A c \in Callers :
          /\ c.kept \in BOOLEAN /\ c.flags \subseteq SUBSET {"dump", "append"}
          /\ c.replies \in [{"ack", "dump"} -> SUBSET Seq(Seq(Messages))] /\ c.faults \in Nat
          /\ \A mode \in {"ack", "dump"} : \A answer \in c.replies[mode] :
                VerdictOf(answer) = "fail" => \A d \in ToSet(answer) : ~Reports(mode, d)
    /\ Kernel \notin Others
    /\ {MaxRequests, MaxForeign} \subseteq Nat

VARIABLES
    caller,    \* the caller of this socket, one of Callers
    pc,        \* "idle" (no nlsock), "connected", "parse" or "done"
    sock,      \* sk->sock: "closed" (-1) or "open"
    nonblock,  \* O_NONBLOCK of the socket
    peer,      \* sk->s_peer.nl_pid
    flags,     \* the flags of the request that is waiting
    ret,       \* ret of nl_parse_info, by its sign
    queue,     \* the datagrams the socket has received
    script,    \* the datagrams the kernel still has to send
    asked,     \* the requests made
    outcome,   \* what the last of them returned, by its sign: "none" before it does
    verdict,   \* what the kernel decided on it
    sentTo,    \* where it went
    lost,      \* a datagram that answers it was lost or cut
    used       \* the datagrams of others, and the faults, so far

client == <<pc, sock, nonblock, peer, flags, ret, asked, outcome, verdict, sentTo>>
vars == <<client, queue, script, lost, used>>

Mode == IF "dump" \in flags THEN "dump" ELSE "ack"

Init ==
    /\ caller \in Callers
    /\ pc = "idle" /\ sock = "closed" /\ nonblock = FALSE /\ peer = Kernel
    /\ flags = {} /\ ret = "ok" /\ queue = <<>> /\ script = <<>>
    /\ asked = 0 /\ outcome = "none" /\ verdict = "none" /\ sentTo = Kernel
    /\ lost = FALSE /\ used = [foreign |-> 0, faults |-> 0]

-----------------------------------------------------------------------------
(* The socket *)

(* A request that is not made: connecting, allocating or sending failed,   *)
(* or the data is longer than a trace_msg_t.                               *)
NotAsked == asked' = asked + 1 /\ outcome' = "fail" /\ verdict' = "none"

(* nlsock_connect of a new nlsock: the call of socket or one of the five   *)
(* steps after it may fail; errout closes what was opened.                 *)
(* Slip: errout forgets the socket (NoSocketLeft).                         *)
ConnectLeaves ==
    /\ pc = "idle" /\ asked < MaxRequests
    /\ \/ pc' = "connected" /\ sock' = "open" /\ nonblock' = TRUE
          /\ UNCHANGED <<asked, outcome, verdict>>
       \/ sock' \in {"open", "closed"} /\ NotAsked /\ UNCHANGED <<pc, nonblock>>
    /\ peer' = Kernel
    /\ UNCHANGED <<flags, ret, queue, script, sentTo, lost, used>>
Connect ==
    /\ pc = "idle" /\ asked < MaxRequests
    /\ \/ pc' = "connected" /\ sock' = "open" /\ nonblock' = TRUE
          /\ UNCHANGED <<asked, outcome, verdict>>
       \/ sock' = "closed" /\ NotAsked /\ UNCHANGED <<pc, nonblock>>
    /\ peer' = Kernel
    /\ UNCHANGED <<flags, ret, queue, script, sentTo, lost, used>>

(* free_nlsock closes the socket: what it holds is gone and the kernel     *)
(* sends it no more.                                                       *)
Free ==
    /\ pc \in (IF caller.kept THEN {"connected"} ELSE {"done"})
    /\ pc' = "idle" /\ sock' = "closed" /\ queue' = <<>> /\ script' = <<>>
    /\ UNCHANGED <<nonblock, peer, flags, ret, asked, outcome, verdict, sentTo, lost, used>>

-----------------------------------------------------------------------------
(* A request: nlsock_kernel_comm up to nl_parse_info *)

After == IF caller.kept THEN "connected" ELSE "done"

(* The socket gets the netlink flags as its file flags: NLM_F_APPEND has   *)
(* the value of O_NONBLOCK.                                                *)
(* Slip: O_NONBLOCK is left as nlsock_connect set it.                      *)
BlockingStays(f) == nonblock
(* Slip: ... or is always cleared (ComesBack). *)
BlockingAlways(f) == FALSE
Blocking(f) == "append" \in f

(* The kernel has a request only when it was sent to it. *)
Send(f) ==
    /\ pc = "connected" /\ asked < MaxRequests
    /\ asked' = asked + 1 /\ flags' = f /\ ret' = "ok"
    /\ pc' = "parse" /\ nonblock' = Blocking(f) /\ outcome' = "none" /\ sentTo' = peer
    /\ IF peer = Kernel
       THEN \E answer \in caller.replies[IF "dump" \in f THEN "dump" ELSE "ack"] :
              /\ verdict' = VerdictOf(answer)
              /\ script' = script \o [i \in DOMAIN answer |-> [of |-> asked + 1, msgs |-> answer[i]]]
       ELSE verdict' = "none" /\ UNCHANGED script
    /\ lost' = FALSE
    /\ UNCHANGED <<sock, peer, queue, used>>

SendFails ==
    /\ pc = "connected" /\ asked < MaxRequests
    /\ NotAsked /\ pc' = After
    /\ UNCHANGED <<sock, nonblock, peer, flags, ret, queue, script, sentTo, lost, used>>

-----------------------------------------------------------------------------
(* nl_parse_info *)

(* The end of nl_parse_info and of nlsock_kernel_comm. *)
Return(status) ==
    /\ pc' = After /\ outcome' = status /\ nonblock' = TRUE
    /\ UNCHANGED <<sock, flags, asked, verdict, sentTo>>

Continue == UNCHANGED <<pc, sock, nonblock, flags, asked, outcome, verdict, sentTo>>

(* The first message of a datagram that ends its reading, 0 if none does.  *)
Ending(d) ==
    LET ends == {i \in DOMAIN d.msgs : d.msgs[i] \in {"done", "ack", "error", "rest"}}
    IN IF ends = {} THEN 0 ELSE Min(ends)

(* What the filter makes of the messages before it.  It is called for dumps. *)
Filtered(d) ==
    IF Mode = "dump" /\ "data" \in ToSet(SubSeq(d.msgs, 1, IF Ending(d) = 0 THEN Len(d.msgs) ELSE Ending(d)))
    THEN {"ok", "fail"} ELSE {ret}

(* One datagram.  "done" ends a dump and is read over, with the rest of    *)
(* its datagram, when an acknowledgement is still to come; an "ack" of a   *)
(* multipart message returns what the filter did; "rest" are bytes left    *)
(* that are no message, an empty datagram or a wrong address.              *)
(* Slip: an error is read over like data. *)
ParseErrorReadOver(d) ==
    LET last == IF Ending(d) = 0 THEN "none" ELSE d.msgs[Ending(d)]
    IN \/ last = "done" /\ ret' = "ok" /\ IF Mode = "dump" THEN Return("ok") ELSE Continue
       \/ last = "ack" /\ UNCHANGED ret /\ \E status \in {"ok"} \cup Filtered(d) : Return(status)
       \/ last \in {"none", "error", "rest"} /\ Continue /\ ret' \in Filtered(d)
Parse(d) ==
    LET last == IF Ending(d) = 0 THEN "none" ELSE d.msgs[Ending(d)]
    IN \/ last = "done" /\ ret' = "ok" /\ IF Mode = "dump" THEN Return("ok") ELSE Continue
       \/ last = "ack" /\ UNCHANGED ret /\ \E status \in {"ok"} \cup Filtered(d) : Return(status)
       \/ last \in {"error", "rest"} /\ Return("fail") /\ UNCHANGED ret
       \/ last = "none" /\ Continue /\ ret' \in Filtered(d)

(* recvmsg overwrites s_peer; what is not the kernel's is ignored.         *)
(* Slip: it is parsed like the kernel's. *)
ReceiveFromAny ==
    /\ pc = "parse" /\ queue # <<>>
    /\ queue' = Tail(queue) /\ peer' = Head(queue).from
    /\ Parse(Head(queue))
    /\ UNCHANGED <<script, lost, used>>
Receive ==
    /\ pc = "parse" /\ queue # <<>>
    /\ queue' = Tail(queue) /\ peer' = Head(queue).from
    /\ IF Head(queue).from = Kernel THEN Parse(Head(queue)) ELSE Continue /\ UNCHANGED ret
    /\ UNCHANGED <<script, lost, used>>

(* recvmsg of a socket that does not block: EAGAIN ends the loop.          *)
NothingThere ==
    /\ pc = "parse" /\ queue = <<>> /\ nonblock
    /\ Return(ret) /\ UNCHANGED <<peer, ret, queue, script, lost, used>>

-----------------------------------------------------------------------------
(* The kernel, the other processes and the faults *)

(* The kernel sends its next datagram: it arrives whole, cut or not at all. *)
Deliver ==
    /\ script # <<>> /\ script' = Tail(script)
    /\ \/ queue' = Append(queue, [from |-> Kernel, of |-> Head(script).of, msgs |-> Head(script).msgs])
          /\ UNCHANGED <<lost, used>>
       \/ /\ used.faults < caller.faults /\ used' = [used EXCEPT !.faults = @ + 1]
          /\ lost' = (lost \/ Head(script).of = asked)
          /\ \/ queue' = queue
             \/ \E n \in 0 .. Len(Head(script).msgs) - 1 :
                  queue' = Append(queue, [from |-> Kernel, of |-> Head(script).of,
                                          msgs |-> SubSeq(Head(script).msgs, 1, n)])
    /\ UNCHANGED client

Foreign(p) ==
    /\ sock = "open" /\ used.foreign < MaxForeign
    /\ used' = [used EXCEPT !.foreign = @ + 1]
    /\ queue' = Append(queue, [from |-> p, of |-> 0, msgs |-> <<"ack">>])
    /\ UNCHANGED <<client, script, lost>>

(* The callers have made all their requests. *)
AllAsked == asked = MaxRequests /\ pc \in {"idle", "connected"} /\ UNCHANGED vars

Next ==
    \/ Connect \/ Free \/ SendFails \/ Receive \/ NothingThere \/ Deliver \/ AllAsked
    \/ \E f \in caller.flags : Send(f)
    \/ \E p \in Others : Foreign(p)

(* The process runs on while there is something to read, and the kernel    *)
(* sends what it has to send.                                              *)
Fairness == WF_vars(Receive) /\ WF_vars(NothingThere) /\ WF_vars(Deliver)

Spec == Init /\ [][Next /\ UNCHANGED caller]_<<vars, caller>> /\ Fairness

-----------------------------------------------------------------------------
(* Properties *)

(* The socket's state, the queue and the request that waits. *)
TypeOK ==
    /\ pc \in {"idle", "connected", "parse", "done"} /\ sock \in {"open", "closed"}
    /\ nonblock \in BOOLEAN /\ peer \in Others \cup {Kernel} /\ flags \in caller.flags \cup {{}}
    /\ ret \in {"ok", "fail"} /\ outcome \in {"none", "ok", "fail"}
    /\ verdict \in {"none", "ok", "fail"} /\ asked \in 0 .. MaxRequests
    /\ pc = "parse" <=> (outcome = "none" /\ asked > 0)

(* Whatever step of nlsock_connect fails, in any sequence of failures and  *)
(* requests, no socket stays open that nobody holds: the next              *)
(* nlsock_connect would say -EEXIST.                                       *)
NoSocketLeft == TypeOK /\ (sock = "open") = (pc # "idle")

(* A request is sent to the kernel, whatever other processes have sent to  *)
(* the socket before: s_peer is both where requests go and where recvmsg   *)
(* writes the sender.                                                      *)
AsksKernel == pc = "parse" => sentTo = Kernel

(* A caller that keeps its socket asks the kernel whatever the others send *)
(* when it waits for every answer: a wait ends with a datagram of the      *)
(* kernel's.  A new socket for each request needs no such thing.           *)
Waits(c) == c.kept => \A f \in c.flags : "append" \notin f

(* It can rely on what it is told when moreover all that the kernel sends  *)
(* arrives and only the last datagram of an answer ends the request: then  *)
(* none of an earlier answer is left for the next.                         *)
Orderly(c) ==
    /\ Waits(c)
    /\ c.kept => /\ c.faults = 0
                 /\ \A mode \in {"ack", "dump"} : \A answer \in c.replies[mode] :
                       \A i \in 1 .. Len(answer) - 1 : ~Decides(mode, answer[i])

(* Success is reported only when the kernel acknowledged this request:     *)
(* "This ensures we wait for a reply in nl_parse_info()."                  *)
(* (ldsec_nlclient.c:265).                                                 *)
WaitsForReply == outcome = "ok" => verdict = "ok"

(* The client, whatever is lost, cut, odd or sent by others, does no more  *)
(* than NlRequest allows: requests one at a time, each told its own        *)
(* kernel's decision or a failure, and told once.                          *)
R == INSTANCE NlRequest WITH number <- asked, waiting <- (pc = "parse"),
                            unawaited <- ("append" \in flags)
ImplementsRequest == R!Spec

(* Every request comes back, unless a datagram that answers it got lost:   *)
(* there is no timeout.  One made with NLM_F_APPEND comes back even then:    *)
(* its socket does not block.                                              *)
ComesBack ==
    /\ pc = "parse" ~> (pc # "parse" \/ lost)
    /\ (pc = "parse" /\ "append" \in flags) ~> pc # "parse"
=============================================================================
