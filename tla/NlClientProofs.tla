--------------------------- MODULE NlClientProofs ---------------------------
(***************************************************************************)
(* Proofs about NlClient, for every set of callers, answers, processes and *)
(* bounds.  No socket is left, whatever fails.  A caller that waits for    *)
(* its answers asks the kernel, and the client of orderly callers          *)
(* implements NlRequest.                                                   *)
(*                                                                         *)
(* Behind the refinement: while a request waits, whatever of the kernel's  *)
(* is on its way and reports a success belongs to it and is true, and only *)
(* the last of it can end the request, so that nothing is on its way when  *)
(* the next request is made.                                               *)
(***************************************************************************)
EXTENDS NlClient, ListFacts

-----------------------------------------------------------------------------
(* The invariants *)

Received == [from : Others \cup {Kernel}, of : Nat, msgs : Seq(Messages)]
Sent == [of : Nat, msgs : Seq(Messages)]

Types ==
    /\ TypeOK
    /\ caller \in Callers /\ queue \in Seq(Received) /\ script \in Seq(Sent)
    /\ used \in [foreign : Nat, faults : Nat]

Socket == (sock = "open") = (pc # "idle")

TInv == Types /\ Socket

(* A request goes to the kernel, and its wait ends as it was made to. *)
Asking ==
    /\ pc = "connected" => peer = Kernel
    /\ pc = "parse" => sentTo = Kernel /\ nonblock = ("append" \in flags)

(* Nothing of the kernel's is on its way when a request is made. *)
Quiet ==
    /\ pc = "idle" => queue = <<>>
    /\ pc \in {"idle", "connected"} =>
          script = <<>> /\ \A i \in DOMAIN queue : queue[i].from # Kernel

(* What is on its way says what the kernel decided. *)
Truthful ==
    pc = "parse" /\ verdict # "ok" =>
       /\ \A i \in DOMAIN queue : queue[i].from = Kernel => ~Reports(Mode, queue[i].msgs)
       /\ \A i \in DOMAIN script : ~Reports(Mode, script[i].msgs)

(* For a caller that keeps its socket, what can end a request comes last. *)
DecidesLast ==
    pc = "parse" /\ caller.kept =>
       /\ \A i \in DOMAIN queue :
             queue[i].from = Kernel /\ Decides(Mode, queue[i].msgs) =>
                script = <<>> /\ \A j \in DOMAIN queue : j > i => queue[j].from # Kernel
       /\ \A i \in DOMAIN script : Decides(Mode, script[i].msgs) => i = Len(script)

RInv == Asking /\ Quiet /\ Truthful /\ DecidesLast

-----------------------------------------------------------------------------
(* What the operators give *)

LEMMA EndingIs ==
    ASSUME NEW d \in Received
    PROVE  \/ Ending(d) = 0
           \/ /\ Ending(d) \in 1 .. Len(d.msgs) /\ Ending(d) # 0
              /\ d.msgs[Ending(d)] \in ToSet(d.msgs)
              /\ d.msgs[Ending(d)] \in {"done", "ack", "error", "rest"}
  <1> DEFINE ends == {i \in DOMAIN d.msgs : d.msgs[i] \in {"done", "ack", "error", "rest"}}
  <1>1. d.msgs \in Seq(Messages)
    BY DEF Received
  <1>2. Ending(d) = IF ends = {} THEN 0 ELSE Min(ends)
    BY DEF Ending
  <1>3. ends \in SUBSET Nat /\ ends \subseteq 1 .. Len(d.msgs) /\ 0 \notin ends
    BY <1>1
  <1>4. ASSUME ends # {}
        PROVE  Min(ends) \in ends
    <2> HIDE DEF ends
    <2> QED  BY <1>3, <1>4, MinIsLeast
  <1>5. \A i \in 1 .. Len(d.msgs) : d.msgs[i] \in ToSet(d.msgs)
    BY <1>1, InToSet
  <1> QED  BY <1>2, <1>3, <1>4, <1>5

(* A step of the loop over a datagram goes on, or ends the request, with a *)
(* success only if the datagram reports it.                                *)
LEMMA ParseDoes ==
    ASSUME TInv, NEW d \in Received, Parse(d)
    PROVE  /\ ret' \in {"ok", "fail"}
           /\ \/ Continue
              \/ Return("ok") /\ Reports(Mode, d.msgs)
              \/ Return("fail") /\ Decides(Mode, d.msgs)
  <1> DEFINE last == IF Ending(d) = 0 THEN "none" ELSE d.msgs[Ending(d)]
  <1>1. last = "none" \/ last \in ToSet(d.msgs)
    BY EndingIs
  <1>2. /\ \/ last = "done" /\ ret' = "ok" /\ IF Mode = "dump" THEN Return("ok") ELSE Continue
           \/ last = "ack" /\ UNCHANGED ret /\ \E status \in {"ok"} \cup Filtered(d) : Return(status)
           \/ last \in {"error", "rest"} /\ Return("fail") /\ UNCHANGED ret
           \/ last = "none" /\ Continue /\ ret' \in Filtered(d)
        /\ ret \in {"ok", "fail"} /\ Filtered(d) \subseteq {"ok", "fail"}
    BY DEF Parse, TInv, Types, TypeOK, Filtered
  <1> HIDE DEF last
  <1> QED  BY <1>1, <1>2 DEF Reports, Decides

LEMMA ReceiveDoes ==
    ASSUME TInv, Receive
    PROVE  /\ Head(queue) \in Received /\ queue # <<>> /\ queue \in Seq(Received)
           /\ ret' \in {"ok", "fail"}
           /\ \/ Continue
              \/ /\ Head(queue).from = Kernel
                 /\ \/ Return("ok") /\ Reports(Mode, Head(queue).msgs)
                    \/ Return("fail") /\ Decides(Mode, Head(queue).msgs)
  <1> DEFINE d == Head(queue)
  <1>1. d \in Received /\ queue # <<>> /\ queue \in Seq(Received)
    BY DEF TInv, Types, Receive
  <1>2. CASE d.from = Kernel
    <2>1. Parse(d)
      BY <1>2 DEF Receive
    <2> HIDE DEF d
    <2>2. /\ ret' \in {"ok", "fail"}
          /\ \/ Continue
             \/ Return("ok") /\ Reports(Mode, d.msgs)
             \/ Return("fail") /\ Decides(Mode, d.msgs)
      BY <1>1, <2>1, ParseDoes
    <2> QED  BY <1>1, <1>2, <2>2 DEF d
  <1>3. CASE d.from # Kernel
    BY <1>1, <1>3 DEF Receive, TInv, Types, TypeOK
  <1> QED  BY <1>2, <1>3

LEMMA CallerFacts ==
    ASSUME caller \in Callers
    PROVE  /\ caller.kept \in BOOLEAN /\ caller.flags \subseteq SUBSET {"dump", "append"}
           /\ \A mode \in {"ack", "dump"} : \A answer \in caller.replies[mode] :
                 /\ answer \in Seq(Seq(Messages))
                 /\ VerdictOf(answer) \in {"ok", "fail"}
                 /\ VerdictOf(answer) # "ok" =>
                       \A i \in 1 .. Len(answer) : ~Reports(mode, answer[i])
  <1>1. /\ caller.kept \in BOOLEAN /\ caller.flags \subseteq SUBSET {"dump", "append"}
        /\ caller.replies \in [{"ack", "dump"} -> SUBSET Seq(Seq(Messages))]
        /\ \A mode \in {"ack", "dump"} : \A answer \in caller.replies[mode] :
              VerdictOf(answer) = "fail" => \A d \in ToSet(answer) : ~Reports(mode, d)
    BY NlAssumption
  <1>2. ASSUME NEW mode \in {"ack", "dump"}, NEW answer \in caller.replies[mode]
        PROVE  /\ answer \in Seq(Seq(Messages))
               /\ VerdictOf(answer) \in {"ok", "fail"}
               /\ VerdictOf(answer) # "ok" =>
                     \A i \in 1 .. Len(answer) : ~Reports(mode, answer[i])
    <2>1. answer \in Seq(Seq(Messages))
      BY <1>1, <1>2
    <2>2. VerdictOf(answer) \in {"ok", "fail"}
      BY DEF VerdictOf
    <2>3. \A i \in 1 .. Len(answer) : answer[i] \in ToSet(answer)
      BY <2>1, InToSet
    <2> QED  BY <1>1, <1>2, <2>1, <2>2, <2>3
  <1> QED  BY <1>1, <1>2

(* A datagram that is cut says no more than the whole one. *)
LEMMA CutSaysNoMore ==
    ASSUME NEW msgs \in Seq(Messages), NEW n \in 0 .. Len(msgs) - 1, NEW mode
    PROVE  /\ SubSeq(msgs, 1, n) \in Seq(Messages)
           /\ Reports(mode, SubSeq(msgs, 1, n)) => Reports(mode, msgs)
  <1> DEFINE cut == SubSeq(msgs, 1, n)
  <1>1. cut \in Seq(Messages) /\ Len(cut) = n /\ n \in Nat /\ n <= Len(msgs)
        /\ \A i \in 1 .. n : cut[i] = msgs[i] /\ i \in 1 .. Len(msgs)
    OBVIOUS
  <1> HIDE DEF cut
  <1>2. ToSet(cut) \subseteq ToSet(msgs)
    <2>1. \A x : x \in ToSet(cut) <=> \E i \in 1 .. n : cut[i] = x
      BY <1>1, InToSet
    <2>2. \A x : x \in ToSet(msgs) <=> \E i \in 1 .. Len(msgs) : msgs[i] = x
      BY InToSet
    <2> QED  BY <1>1, <2>1, <2>2
  <1>3. Reports(mode, cut) => Reports(mode, msgs)
    BY <1>2 DEF Reports
  <1> QED  BY <1>1, <1>3 DEF cut

-----------------------------------------------------------------------------
(* No socket is left *)

LEMMA TInit == Init => TInv
  <1> SUFFICES ASSUME Init PROVE TInv
    OBVIOUS
  <1>1. /\ queue \in Seq(Received) /\ script \in Seq(Sent)
        /\ used \in [foreign : Nat, faults : Nat] /\ MaxRequests \in Nat
    BY NlAssumption DEF Init
  <1>2. TypeOK
    <2>1. asked \in 0 .. MaxRequests /\ ~(pc = "parse") /\ ~(asked > 0)
      BY <1>1 DEF Init
    <2>2. flags \in caller.flags \cup {{}} /\ nonblock \in BOOLEAN /\ peer \in Others \cup {Kernel}
      BY Zenon DEF Init
    <2> QED  BY <2>1, <2>2 DEF Init, TypeOK
  <1>3. Socket
    BY DEF Init, Socket
  <1> QED  BY <1>1, <1>2, <1>3 DEF Init, TInv, Types

LEMMA SendTyped ==
    ASSUME TInv, NEW f \in caller.flags, Send(f), UNCHANGED caller
    PROVE  TInv'
  <1> USE DEF TInv, Types, TypeOK, Socket
  <1>1. /\ caller.flags \subseteq SUBSET {"dump", "append"} /\ caller \in Callers
        /\ asked \in Nat /\ script \in Seq(Sent)
    BY CallerFacts, NlAssumption
  <1>2. script' \in Seq(Sent) /\ verdict' \in {"none", "ok", "fail"}
    <2>1. CASE peer = Kernel
      <3>1. PICK answer \in caller.replies[IF "dump" \in f THEN "dump" ELSE "ack"] :
              /\ verdict' = VerdictOf(answer)
              /\ script' = script \o [i \in DOMAIN answer |-> [of |-> asked + 1, msgs |-> answer[i]]]
        BY <2>1 DEF Send
      <3>2. answer \in Seq(Seq(Messages)) /\ VerdictOf(answer) \in {"ok", "fail"}
        BY <1>1, <3>1, CallerFacts
      <3>3. [i \in DOMAIN answer |-> [of |-> asked + 1, msgs |-> answer[i]]] \in Seq(Sent)
        <4>1. \A i \in 1 .. Len(answer) : [of |-> asked + 1, msgs |-> answer[i]] \in Sent
          BY <1>1, <3>2 DEF Sent
        <4>2. DOMAIN answer = 1 .. Len(answer) /\ Len(answer) \in Nat
          BY <3>2
        <4> QED  BY <4>1, <4>2
      <3> QED  BY <1>1, <3>1, <3>2, <3>3
    <2>2. CASE peer # Kernel
      BY <1>1, <2>2 DEF Send
    <2> QED  BY <2>1, <2>2
  <1>3. asked' \in 0 .. MaxRequests /\ asked' > 0
    BY <1>1, NlAssumption DEF Send
  <1> QED  BY <1>1, <1>2, <1>3 DEF Send, Blocking

LEMMA DeliverTyped ==
    ASSUME TInv, Deliver, UNCHANGED caller
    PROVE  TInv'
  <1> USE DEF TInv, Types
  <1> DEFINE h == Head(script)
  <1>1. h \in Sent /\ script' \in Seq(Sent) /\ script \in Seq(Sent)
    BY DEF Deliver
  <1>2. h.of \in Nat /\ h.msgs \in Seq(Messages)
    BY <1>1 DEF Sent
  <1> HIDE DEF h
  <1>3. \A msgs \in Seq(Messages) : Append(queue, [from |-> Kernel, of |-> h.of, msgs |-> msgs]) \in Seq(Received)
    BY <1>2 DEF Received
  <1>4. \A n \in 0 .. Len(h.msgs) - 1 : SubSeq(h.msgs, 1, n) \in Seq(Messages)
    BY <1>2, CutSaysNoMore
  <1>5. \/ queue' = Append(queue, [from |-> Kernel, of |-> h.of, msgs |-> h.msgs])
        \/ queue' = queue
        \/ \E n \in 0 .. Len(h.msgs) - 1 :
              queue' = Append(queue, [from |-> Kernel, of |-> h.of, msgs |-> SubSeq(h.msgs, 1, n)])
    BY DEF Deliver, h
  <1>6. queue' \in Seq(Received)
    BY <1>2, <1>3, <1>4, <1>5
  <1>7. used' \in [foreign : Nat, faults : Nat]
    <2>1. used.faults + 1 \in Nat /\ used \in [foreign : Nat, faults : Nat]
      OBVIOUS
    <2> QED  BY <2>1 DEF Deliver, vars
  <1> QED  BY <1>1, <1>6, <1>7 DEF Deliver, client, TypeOK, Socket

LEMMA TNext ==
    ASSUME TInv, [Next /\ UNCHANGED caller]_<<vars, caller>>
    PROVE  TInv'
  <1>0. MaxRequests \in Nat /\ <<>> \in Seq(Received) /\ <<>> \in Seq(Sent)
    BY NlAssumption
  <1>1. CASE Connect /\ UNCHANGED caller
    <2>1. asked' \in 0 .. MaxRequests /\ asked \in Nat
      BY <1>0, <1>1 DEF TInv, Types, TypeOK, Connect, NotAsked
    <2>2. pc' # "parse" /\ ~(outcome' = "none" /\ asked' > 0)
      BY <1>1 DEF TInv, Types, TypeOK, Connect, NotAsked
    <2>3. /\ nonblock' \in BOOLEAN /\ peer' \in Others \cup {Kernel}
          /\ pc' \in {"idle", "connected"} /\ (sock' = "open") = (pc' # "idle")
      BY <1>1 DEF TInv, Types, TypeOK, Connect, NotAsked
    <2> QED  BY <1>1, <2>1, <2>2, <2>3 DEF TInv, Types, TypeOK, Socket, Connect, NotAsked
  <1>2. CASE Free /\ UNCHANGED caller
    BY <1>0, <1>2 DEF TInv, Types, TypeOK, Socket, Free
  <1>3. CASE SendFails /\ UNCHANGED caller
    BY <1>0, <1>3 DEF TInv, Types, TypeOK, Socket, SendFails, NotAsked, After
  <1>4. CASE Receive /\ UNCHANGED caller
    <2>1. /\ Head(queue) \in Received /\ queue # <<>> /\ queue \in Seq(Received)
          /\ ret' \in {"ok", "fail"}
          /\ Continue \/ Return("ok") \/ Return("fail")
      BY <1>4, ReceiveDoes
    <2>2. queue' \in Seq(Received) /\ peer' \in Others \cup {Kernel}
      BY <1>4, <2>1 DEF Receive, Received
    <2> QED  BY <1>4, <2>1, <2>2 DEF TInv, Types, TypeOK, Socket, Receive, Continue, Return, After
  <1>5. CASE NothingThere /\ UNCHANGED caller
    BY <1>5 DEF TInv, Types, TypeOK, Socket, NothingThere, Return, After
  <1>6. CASE Deliver /\ UNCHANGED caller
    BY <1>6, DeliverTyped
  <1>7. CASE AllAsked /\ UNCHANGED caller
    BY <1>7 DEF TInv, Types, TypeOK, Socket, AllAsked, vars, client
  <1>8. CASE (\E f \in caller.flags : Send(f)) /\ UNCHANGED caller
    <2>1. PICK f \in caller.flags : Send(f)
      BY <1>8
    <2> QED  BY <1>8, <2>1, SendTyped
  <1>9. CASE (\E p \in Others : Foreign(p)) /\ UNCHANGED caller
    <2>1. PICK p \in Others : Foreign(p)
      BY <1>9
    <2>2. [from |-> p, of |-> 0, msgs |-> <<"ack">>] \in Received
      BY DEF Received, Messages
    <2>3. queue' \in Seq(Received)
      BY <2>1, <2>2 DEF Foreign, TInv, Types
    <2>4. used' \in [foreign : Nat, faults : Nat]
      <3>1. used.foreign + 1 \in Nat /\ used \in [foreign : Nat, faults : Nat]
        BY DEF TInv, Types
      <3> QED  BY <2>1, <3>1 DEF Foreign
    <2> QED  BY <1>9, <2>1, <2>3, <2>4 DEF TInv, Types, TypeOK, Socket, Foreign, client
  <1>10. CASE UNCHANGED <<vars, caller>>
    BY <1>10 DEF TInv, Types, TypeOK, Socket, vars, client
  <1> QED  BY <1>1, <1>2, <1>3, <1>4, <1>5, <1>6, <1>7, <1>8, <1>9, <1>10 DEF Next

(* Whatever fails, and however many requests are made, no socket stays     *)
(* open that nobody holds (nlsock_connect).                                *)
THEOREM NoSocketLeftHolds == Spec => []NoSocketLeft
  <1>1. TInv /\ [Next /\ UNCHANGED caller]_<<vars, caller>> => TInv'
    BY TNext
  <1>2. TInv => NoSocketLeft
    BY DEF TInv, Types, Socket, NoSocketLeft
  <1> QED  BY TInit, <1>1, <1>2, PTL DEF Spec

-----------------------------------------------------------------------------
(* Requests go to the kernel *)

LEMMA AskingInit == Init => Asking
  BY DEF Init, Asking

LEMMA AskingNext ==
    ASSUME Waits(caller), TInv, Asking, [Next /\ UNCHANGED caller]_<<vars, caller>>
    PROVE  Asking'
  <1>1. CASE Connect
    BY <1>1 DEF Asking, Connect, TInv, Types, TypeOK
  <1>2. CASE Free
    BY <1>2 DEF Asking, Free
  <1>3. CASE SendFails
    BY <1>3 DEF Asking, SendFails, After
  <1>4. CASE Receive
    <2>1. Continue \/ (Head(queue).from = Kernel /\ \E status \in {"ok", "fail"} : Return(status))
      BY <1>4, ReceiveDoes
    <2> QED  BY <1>4, <2>1 DEF Asking, Receive, Continue, Return, After
  <1>5. CASE NothingThere
    <2>1. ~caller.kept
      BY <1>5 DEF Asking, NothingThere, Waits, TInv, Types, TypeOK
    <2> QED  BY <1>5, <2>1 DEF Asking, NothingThere, Return, After
  <1>6. CASE Deliver
    BY <1>6 DEF Asking, Deliver, client
  <1>7. CASE AllAsked
    BY <1>7 DEF Asking, AllAsked, vars, client
  <1>8. CASE \E f \in caller.flags : Send(f)
    BY <1>8 DEF Asking, Send, Blocking
  <1>9. CASE \E p \in Others : Foreign(p)
    BY <1>9 DEF Asking, Foreign, client
  <1>10. CASE UNCHANGED <<vars, caller>>
    BY <1>10 DEF Asking, vars, client
  <1> QED  BY <1>1, <1>2, <1>3, <1>4, <1>5, <1>6, <1>7, <1>8, <1>9, <1>10 DEF Next

(* If the callers that keep their socket wait for their answers, a request *)
(* is sent to the kernel whoever wrote to the socket before (s_peer).      *)
THEOREM AsksKernelHolds ==
    ASSUME \A c \in Callers : Waits(c)
    PROVE  Spec => []AsksKernel
  <1>1. Init => TInv /\ Asking
    BY TInit, AskingInit
  <1>2. TInv /\ Asking /\ [Next /\ UNCHANGED caller]_<<vars, caller>> => (TInv /\ Asking)'
    BY TNext, AskingNext DEF TInv, Types
  <1>3. Asking => AsksKernel
    BY DEF Asking, AsksKernel
  <1> QED  BY <1>1, <1>2, <1>3, PTL DEF Spec

-----------------------------------------------------------------------------
(* What is on its way belongs to the request that waits *)

LEMMA RInit == Init => RInv
  BY DEF Init, RInv, Asking, Quiet, Truthful, DecidesLast

LEMMA QuietNext ==
    ASSUME Orderly(caller), TInv, RInv, [Next /\ UNCHANGED caller]_<<vars, caller>>
    PROVE  Quiet'
  <1> USE DEF RInv
  <1>0. queue \in Seq(Received) /\ script \in Seq(Sent)
    BY DEF TInv, Types
  <1>1. CASE Connect
    BY <1>1 DEF Quiet, Connect
  <1>2. CASE Free
    BY <1>2 DEF Quiet, Free
  <1>3. CASE SendFails
    BY <1>3 DEF Quiet, SendFails, After
  <1>4. CASE Receive
    <2>1. CASE Continue
      BY <1>4, <2>1 DEF Quiet, Receive, Continue
    <2>2. CASE ~caller.kept
      <3>1. Continue \/ Return("ok") \/ Return("fail")
        BY <1>4, ReceiveDoes
      <3> QED  BY <1>4, <2>1, <2>2, <3>1 DEF Quiet, Return, After
    <2>3. CASE caller.kept /\ ~Continue
      <3>1. /\ Head(queue).from = Kernel /\ Decides(Mode, Head(queue).msgs) /\ queue # <<>>
            /\ Return("ok") \/ Return("fail")
        BY <1>4, <2>3, ReceiveDoes DEF Decides
      <3>2. Head(queue) = queue[1] /\ 1 \in DOMAIN queue /\ pc = "parse"
        BY <1>0, <1>4, <3>1 DEF Receive
      <3>3. script = <<>> /\ \A j \in DOMAIN queue : j > 1 => queue[j].from # Kernel
        BY <2>3, <3>1, <3>2 DEF DecidesLast
      <3>4. \A j \in DOMAIN Tail(queue) : Tail(queue)[j] = queue[j + 1] /\ j + 1 \in DOMAIN queue /\ j + 1 > 1
        BY <1>0, <3>1
      <3>5. pc' = "connected" /\ script' = <<>> /\ queue' = Tail(queue)
        BY <1>4, <2>3, <3>1, <3>3 DEF Return, After, Receive
      <3> QED  BY <3>3, <3>4, <3>5 DEF Quiet
    <2> QED  BY <2>1, <2>2, <2>3, CallerFacts DEF TInv, Types
  <1>5. CASE NothingThere
    <2>1. ~caller.kept
      BY <1>5 DEF Asking, NothingThere, Orderly, Waits, TInv, Types, TypeOK
    <2> QED  BY <1>5, <2>1 DEF Quiet, NothingThere, Return, After
  <1>6. CASE Deliver
    BY <1>6 DEF Quiet, Deliver, client
  <1>7. CASE AllAsked
    BY <1>7 DEF Quiet, AllAsked, vars, client
  <1>8. CASE \E f \in caller.flags : Send(f)
    BY <1>8 DEF Quiet, Send
  <1>9. CASE \E p \in Others : Foreign(p)
    <2>1. PICK p \in Others : Foreign(p)
      BY <1>9
    <2>2. p # Kernel /\ pc # "idle"
      BY <2>1, NlAssumption DEF Foreign, TInv, Socket, Types, TypeOK
    <2> DEFINE new == [from |-> p, of |-> 0, msgs |-> <<"ack">>]
    <2>3. queue' = Append(queue, new) /\ UNCHANGED <<pc, script>> /\ new.from = p
      BY <2>1 DEF Foreign, client
    <2> HIDE DEF new
    <2>4. \A i \in DOMAIN queue' : (i \in DOMAIN queue /\ queue'[i] = queue[i]) \/ queue'[i] = new
      BY <1>0, <2>3
    <2> QED  BY <2>2, <2>3, <2>4 DEF Quiet
  <1>10. CASE UNCHANGED <<vars, caller>>
    BY <1>10 DEF Quiet, vars, client
  <1> QED  BY <1>1, <1>2, <1>3, <1>4, <1>5, <1>6, <1>7, <1>8, <1>9, <1>10 DEF Next

(* What a step may add to the queue: a datagram of the kernel's, as it was *)
(* sent or cut, or one of another process.                                 *)
LEMMA DeliverDoes ==
    ASSUME TInv, Deliver
    PROVE  /\ script # <<>> /\ script' = Tail(script) /\ UNCHANGED client
           /\ queue' # queue =>
                 \E msgs \in Seq(Messages) :
                    /\ queue' = Append(queue, [from |-> Kernel, of |-> Head(script).of, msgs |-> msgs])
                    /\ \A mode : Reports(mode, msgs) => Reports(mode, Head(script).msgs)
                    /\ caller.faults = 0 => msgs = Head(script).msgs
           /\ caller.faults = 0 => queue' # queue
  <1> DEFINE h == Head(script)
  <1>1. queue \in Seq(Received) /\ h \in Sent /\ script # <<>>
    BY DEF TInv, Types, Deliver
  <1>2. h.msgs \in Seq(Messages)
    BY <1>1 DEF Sent
  <1>3. \A x : Append(queue, x) # queue
    <2>1. \A x : Len(Append(queue, x)) = Len(queue) + 1 /\ Len(queue) \in Nat
      BY <1>1
    <2> QED  BY <2>1
  <1>4. CASE queue' = Append(queue, [from |-> Kernel, of |-> h.of, msgs |-> h.msgs])
    BY <1>1, <1>2, <1>3, <1>4 DEF Deliver
  <1>5. CASE used.faults < caller.faults /\ queue' = queue
    BY <1>1, <1>5 DEF Deliver, TInv, Types
  <1>6. CASE /\ used.faults < caller.faults
             /\ \E n \in 0 .. Len(h.msgs) - 1 :
                  queue' = Append(queue, [from |-> Kernel, of |-> h.of, msgs |-> SubSeq(h.msgs, 1, n)])
    <2>1. PICK n \in 0 .. Len(h.msgs) - 1 :
                  queue' = Append(queue, [from |-> Kernel, of |-> h.of, msgs |-> SubSeq(h.msgs, 1, n)])
      BY <1>6
    <2>2. /\ SubSeq(h.msgs, 1, n) \in Seq(Messages)
          /\ \A mode : Reports(mode, SubSeq(h.msgs, 1, n)) => Reports(mode, h.msgs)
      BY <1>2, CutSaysNoMore
    <2>3. caller.faults # 0
      BY <1>6 DEF TInv, Types
    <2> HIDE DEF h
    <2>4. \E msgs \in Seq(Messages) :
             /\ queue' = Append(queue, [from |-> Kernel, of |-> h.of, msgs |-> msgs])
             /\ \A mode : Reports(mode, msgs) => Reports(mode, h.msgs)
      BY <2>1, <2>2
    <2> QED  BY <1>1, <2>3, <2>4 DEF Deliver, h
  <1> QED  BY <1>4, <1>5, <1>6 DEF Deliver

LEMMA SendDoes ==
    ASSUME TInv, RInv, NEW f \in caller.flags, Send(f)
    PROVE  /\ queue' = queue /\ flags' = f /\ pc' = "parse"
           /\ \A i \in DOMAIN queue : queue[i].from # Kernel
           /\ \E answer \in caller.replies[Mode'] :
                 /\ verdict' = VerdictOf(answer) /\ Len(script') = Len(answer)
                 /\ DOMAIN script' = 1 .. Len(answer) /\ Len(answer) \in Nat
                 /\ \A i \in 1 .. Len(answer) : script'[i].msgs = answer[i]
  <1>1. /\ queue' = queue /\ flags' = f /\ pc' = "parse" /\ peer = Kernel
        /\ script = <<>> /\ \A i \in DOMAIN queue : queue[i].from # Kernel
    BY DEF RInv, Asking, Quiet, Send
  <1>2. Mode' = IF "dump" \in f THEN "dump" ELSE "ack"
    BY <1>1 DEF Mode
  <1>3. PICK answer \in caller.replies[Mode'] :
          /\ verdict' = VerdictOf(answer)
          /\ script' = script \o [i \in DOMAIN answer |-> [of |-> asked + 1, msgs |-> answer[i]]]
    BY <1>1, <1>2 DEF Send
  <1>4. answer \in Seq(Seq(Messages))
    BY <1>2, <1>3, CallerFacts DEF TInv, Types
  <1> DEFINE new == [i \in DOMAIN answer |-> [of |-> asked + 1, msgs |-> answer[i]]]
  <1>5. /\ DOMAIN answer = 1 .. Len(answer) /\ Len(answer) \in Nat
        /\ new \in Seq([of : {asked + 1}, msgs : Seq(Messages)]) /\ Len(new) = Len(answer)
        /\ \A i \in 1 .. Len(answer) : new[i].msgs = answer[i]
    <2>1. DOMAIN answer = 1 .. Len(answer) /\ Len(answer) \in Nat
      BY <1>4
    <2>2. \A i \in 1 .. Len(answer) : [of |-> asked + 1, msgs |-> answer[i]] \in [of : {asked + 1}, msgs : Seq(Messages)]
      BY <1>4
    <2> QED  BY <2>1, <2>2
  <1> HIDE DEF new
  <1>6. script' = new
    BY <1>1, <1>3, <1>5 DEF new
  <1> QED  BY <1>1, <1>3, <1>5, <1>6

LEMMA TruthfulNext ==
    ASSUME Orderly(caller), TInv, RInv, [Next /\ UNCHANGED caller]_<<vars, caller>>
    PROVE  Truthful'
  <1> USE DEF RInv
  <1>0. queue \in Seq(Received) /\ script \in Seq(Sent)
    BY DEF TInv, Types
  <1>1. CASE Connect
    BY <1>1 DEF Truthful, Connect
  <1>2. CASE Free
    BY <1>2 DEF Truthful, Free
  <1>3. CASE SendFails
    BY <1>3 DEF Truthful, SendFails, After
  <1>4. CASE Receive
    <2>1. Continue \/ Return("ok") \/ Return("fail")
      BY <1>4, ReceiveDoes
    <2>2. CASE Continue
      <3>1. queue' = Tail(queue) /\ queue # <<>> /\ UNCHANGED <<script, flags, pc, verdict>>
        BY <1>4, <2>2 DEF Receive, Continue
      <3>2. \A j \in DOMAIN queue' : queue'[j] = queue[j + 1] /\ j + 1 \in DOMAIN queue
        BY <1>0, <3>1
      <3> QED  BY <3>1, <3>2 DEF Truthful, Mode
    <2> QED  BY <2>1, <2>2 DEF Truthful, Return, After
  <1>5. CASE NothingThere
    BY <1>5 DEF Truthful, NothingThere, Return, After
  <1>6. CASE Deliver
    <2>1. /\ script # <<>> /\ script' = Tail(script) /\ UNCHANGED client
          /\ queue' # queue =>
                 \E msgs \in Seq(Messages) :
                    /\ queue' = Append(queue, [from |-> Kernel, of |-> Head(script).of, msgs |-> msgs])
                    /\ \A mode : Reports(mode, msgs) => Reports(mode, Head(script).msgs)
      BY <1>6, DeliverDoes
    <2>2. UNCHANGED <<pc, verdict, flags, Mode>>
      BY <2>1 DEF client, Mode
    <2>3. SUFFICES ASSUME pc = "parse", verdict # "ok"
                   PROVE  Truthful'
      BY <2>2 DEF Truthful
    <2>4. \A i \in DOMAIN script' : script'[i] = script[i + 1] /\ i + 1 \in DOMAIN script
      BY <1>0, <2>1
    <2>5. Head(script) = script[1] /\ 1 \in DOMAIN script
      BY <1>0, <2>1
    <2>6. \A i \in DOMAIN queue' : queue'[i].from = Kernel => ~Reports(Mode, queue'[i].msgs)
      <3>1. CASE queue' = queue
        BY <2>3, <3>1 DEF Truthful
      <3>2. CASE queue' # queue
        <4>1. PICK msgs \in Seq(Messages) :
                /\ queue' = Append(queue, [from |-> Kernel, of |-> Head(script).of, msgs |-> msgs])
                /\ \A mode : Reports(mode, msgs) => Reports(mode, Head(script).msgs)
          BY <2>1, <3>2
        <4>2. ~Reports(Mode, msgs)
          BY <2>3, <2>5, <4>1 DEF Truthful
        <4>3. \A i \in DOMAIN queue' : (i \in DOMAIN queue /\ queue'[i] = queue[i]) \/ queue'[i].msgs = msgs
          BY <1>0, <4>1
        <4> QED  BY <2>3, <4>2, <4>3 DEF Truthful
      <3> QED  BY <3>1, <3>2
    <2> QED  BY <2>2, <2>3, <2>4, <2>6 DEF Truthful
  <1>7. CASE AllAsked
    BY <1>7 DEF Truthful, AllAsked, vars, client
  <1>8. CASE \E f \in caller.flags : Send(f)
    <2>1. PICK f \in caller.flags : Send(f)
      BY <1>8
    <2>2. PICK answer \in caller.replies[Mode'] :
                 /\ verdict' = VerdictOf(answer)
                 /\ DOMAIN script' = 1 .. Len(answer)
                 /\ \A i \in 1 .. Len(answer) : script'[i].msgs = answer[i]
      BY <2>1, SendDoes
    <2>3. queue' = queue /\ \A i \in DOMAIN queue : queue[i].from # Kernel
      BY <2>1, SendDoes
    <2>4. Mode' \in {"ack", "dump"}
      BY DEF Mode
    <2>5. verdict' # "ok" => \A i \in 1 .. Len(answer) : ~Reports(Mode', answer[i])
      BY <2>2, <2>4, CallerFacts DEF TInv, Types
    <2> QED  BY <2>2, <2>3, <2>5 DEF Truthful
  <1>9. CASE \E p \in Others : Foreign(p)
    <2>1. PICK p \in Others : Foreign(p)
      BY <1>9
    <2> DEFINE new == [from |-> p, of |-> 0, msgs |-> <<"ack">>]
    <2>3. queue' = Append(queue, new) /\ UNCHANGED <<pc, script, verdict, flags>> /\ new.from # Kernel
      BY <2>1, NlAssumption DEF Foreign, client
    <2> HIDE DEF new
    <2>4. \A i \in DOMAIN queue' : (i \in DOMAIN queue /\ queue'[i] = queue[i]) \/ queue'[i] = new
      BY <1>0, <2>3
    <2> QED  BY <2>3, <2>4 DEF Truthful, Mode
  <1>10. CASE UNCHANGED <<vars, caller>>
    BY <1>10 DEF Truthful, vars, client, Mode
  <1> QED  BY <1>1, <1>2, <1>3, <1>4, <1>5, <1>6, <1>7, <1>8, <1>9, <1>10 DEF Next

LEMMA DecidesLastNext ==
    ASSUME Orderly(caller), TInv, RInv, [Next /\ UNCHANGED caller]_<<vars, caller>>
    PROVE  DecidesLast'
  <1> USE DEF RInv
  <1>0. queue \in Seq(Received) /\ script \in Seq(Sent)
    BY DEF TInv, Types
  <1>1. CASE Connect
    BY <1>1 DEF DecidesLast, Connect
  <1>2. CASE Free
    BY <1>2 DEF DecidesLast, Free
  <1>3. CASE SendFails
    BY <1>3 DEF DecidesLast, SendFails, After
  <1>4. CASE Receive
    <2>1. Continue \/ Return("ok") \/ Return("fail")
      BY <1>4, ReceiveDoes
    <2>2. CASE Continue /\ UNCHANGED caller
      <3>1. queue' = Tail(queue) /\ queue # <<>> /\ UNCHANGED <<script, flags, pc, caller>>
        BY <1>4, <2>2 DEF Receive, Continue
      <3>2. \A j \in DOMAIN queue' : queue'[j] = queue[j + 1] /\ j + 1 \in DOMAIN queue /\ j \in Int
        BY <1>0, <3>1
      <3>3. \A i, j \in DOMAIN queue' : j > i => j + 1 > i + 1
        BY <3>2
      <3> QED  BY <3>1, <3>2, <3>3 DEF DecidesLast, Mode
    <2> QED  BY <1>4, <2>1, <2>2 DEF DecidesLast, Return, After, vars, client, Receive
  <1>5. CASE NothingThere
    BY <1>5 DEF DecidesLast, NothingThere, Return, After
  <1>6. CASE Deliver /\ UNCHANGED caller
    <2> SUFFICES ASSUME pc = "parse", caller.kept PROVE DecidesLast'
      BY <1>6 DEF DecidesLast, Deliver, client
    <2>0. caller.faults = 0
      BY DEF Orderly
    <2>1. PICK msgs \in Seq(Messages) :
            /\ queue' = Append(queue, [from |-> Kernel, of |-> Head(script).of, msgs |-> msgs])
            /\ msgs = Head(script).msgs
      BY <1>6, <2>0, DeliverDoes
    <2>2. /\ script # <<>> /\ script' = Tail(script) /\ UNCHANGED client
          /\ Head(script) = script[1] /\ 1 \in DOMAIN script
      BY <1>0, <1>6, DeliverDoes
    <2>3. UNCHANGED <<pc, Mode, caller>>
      BY <1>6, <2>2 DEF client, Mode
    <2>4. /\ Len(script) \in Nat /\ Len(script') = Len(script) - 1
          /\ \A i \in DOMAIN script' : script'[i] = script[i + 1] /\ i + 1 \in DOMAIN script /\ i \in Int
      BY <1>0, <2>2
    <2>5. \A i \in DOMAIN script' : Decides(Mode, script'[i].msgs) => i = Len(script')
      BY <2>4 DEF DecidesLast
    <2>6. /\ \A i \in DOMAIN queue' : \/ i \in DOMAIN queue /\ queue'[i] = queue[i]
                                      \/ i = Len(queue) + 1 /\ queue'[i].msgs = msgs
          /\ \A i \in DOMAIN queue' : ~(i > Len(queue) + 1)
      BY <1>0, <2>1
    <2>7. \A i \in DOMAIN queue : ~(queue[i].from = Kernel /\ Decides(Mode, queue[i].msgs))
      BY <2>2 DEF DecidesLast
    <2>8. Decides(Mode, msgs) => script' = <<>>
      <3>1. Decides(Mode, msgs) => Len(script) = 1
        BY <2>1, <2>2 DEF DecidesLast
      <3> QED  BY <1>0, <2>2, <3>1
    <2>9. \A i \in DOMAIN queue' : queue'[i].from = Kernel /\ Decides(Mode, queue'[i].msgs) =>
                script' = <<>> /\ \A j \in DOMAIN queue' : j > i => queue'[j].from # Kernel
      BY <2>6, <2>7, <2>8
    <2> QED  BY <2>3, <2>5, <2>9 DEF DecidesLast
  <1>7. CASE AllAsked
    BY <1>7 DEF DecidesLast, AllAsked, vars, client, Mode
  <1>8. CASE (\E f \in caller.flags : Send(f)) /\ UNCHANGED caller
    <2> SUFFICES ASSUME caller.kept PROVE DecidesLast'
      BY <1>8 DEF DecidesLast
    <2>1. PICK f \in caller.flags : Send(f)
      BY <1>8
    <2>2. PICK answer \in caller.replies[Mode'] :
                 /\ Len(script') = Len(answer) /\ Len(answer) \in Nat
                 /\ DOMAIN script' = 1 .. Len(answer)
                 /\ \A i \in 1 .. Len(answer) : script'[i].msgs = answer[i]
      BY <2>1, SendDoes
    <2>3. queue' = queue /\ \A i \in DOMAIN queue : queue[i].from # Kernel
      BY <2>1, SendDoes
    <2>4. Mode' \in {"ack", "dump"}
      BY DEF Mode
    <2>5. \A i \in 1 .. Len(answer) - 1 : ~Decides(Mode', answer[i])
      BY <2>2, <2>4 DEF Orderly
    <2>6. \A n \in Nat : \A i \in 1 .. n : i \in 1 .. n - 1 \/ i = n
      OBVIOUS
    <2> QED  BY <2>2, <2>3, <2>5, <2>6 DEF DecidesLast
  <1>9. CASE (\E p \in Others : Foreign(p)) /\ UNCHANGED caller
    <2>1. PICK p \in Others : Foreign(p)
      BY <1>9
    <2> DEFINE new == [from |-> p, of |-> 0, msgs |-> <<"ack">>]
    <2>3. queue' = Append(queue, new) /\ UNCHANGED <<pc, script, flags, caller>> /\ new.from # Kernel
      BY <1>9, <2>1, NlAssumption DEF Foreign, client
    <2> HIDE DEF new
    <2>4. \A i \in DOMAIN queue' : (i \in DOMAIN queue /\ queue'[i] = queue[i]) \/ queue'[i] = new
      BY <1>0, <2>3
    <2> QED  BY <2>3, <2>4 DEF DecidesLast, Mode
  <1>10. CASE UNCHANGED <<vars, caller>>
    BY <1>10 DEF DecidesLast, vars, client, Mode
  <1> QED  BY <1>1, <1>2, <1>3, <1>4, <1>5, <1>6, <1>7, <1>8, <1>9, <1>10 DEF Next

LEMMA RNext ==
    ASSUME Orderly(caller), TInv, RInv, [Next /\ UNCHANGED caller]_<<vars, caller>>
    PROVE  RInv'
  BY AskingNext, QuietNext, TruthfulNext, DecidesLastNext DEF RInv, Orderly

-----------------------------------------------------------------------------
(* The refinement *)

LEMMA RefinesInit == Init => R!Init
  BY DEF Init, R!Init

LEMMA ReceiveRefines ==
    ASSUME TInv, RInv, Receive
    PROVE  R!Return \/ UNCHANGED R!vars
  <1>1. CASE Continue
    BY <1>1 DEF Continue, R!vars
  <1>2. CASE ~Continue
    <2>1. /\ pc = "parse" /\ Head(queue).from = Kernel /\ queue # <<>> /\ queue \in Seq(Received)
          /\ \/ Return("ok") /\ Reports(Mode, Head(queue).msgs)
             \/ Return("fail")
      BY <1>2, ReceiveDoes DEF Receive
    <2>2. Head(queue) = queue[1] /\ 1 \in DOMAIN queue
      BY <2>1
    <2>3. Reports(Mode, Head(queue).msgs) => verdict = "ok"
      BY <2>1, <2>2 DEF RInv, Truthful
    <2> QED  BY <2>1, <2>3 DEF Return, After, R!Return
  <1> QED  BY <1>1, <1>2

LEMMA RefinesNext ==
    ASSUME TInv, RInv, [Next /\ UNCHANGED caller]_<<vars, caller>>
    PROVE  [R!Ask \/ R!Return]_(R!vars)
  <1>1. CASE Connect
    <2>1. CASE pc' = "connected" /\ UNCHANGED <<asked, outcome, verdict>>
      BY <1>1, <2>1 DEF Connect, R!vars
    <2>2. CASE NotAsked /\ UNCHANGED pc
      BY <1>1, <2>2 DEF Connect, NotAsked, R!Ask
    <2> QED  BY <1>1, <2>1, <2>2 DEF Connect
  <1>2. CASE Free
    BY <1>2, CallerFacts DEF Free, TInv, Types, R!vars
  <1>3. CASE SendFails
    BY <1>3 DEF SendFails, NotAsked, After, R!Ask
  <1>4. CASE Receive
    BY <1>4, ReceiveRefines
  <1>5. CASE NothingThere
    BY <1>5 DEF NothingThere, Return, After, RInv, Asking, TInv, Types, TypeOK, R!Return
  <1>6. CASE Deliver
    BY <1>6 DEF Deliver, client, R!vars
  <1>7. CASE AllAsked
    BY <1>7 DEF AllAsked, vars, client, R!vars
  <1>8. CASE \E f \in caller.flags : Send(f)
    <2>1. PICK f \in caller.flags : Send(f)
      BY <1>8
    <2>2. PICK answer \in caller.replies[Mode'] : verdict' = VerdictOf(answer)
      BY <2>1, SendDoes
    <2>3. verdict' \in {"ok", "fail"}
      BY <2>2 DEF VerdictOf
    <2> QED  BY <2>1, <2>3 DEF Send, R!Ask
  <1>9. CASE \E p \in Others : Foreign(p)
    BY <1>9 DEF Foreign, client, R!vars
  <1>10. CASE UNCHANGED <<vars, caller>>
    BY <1>10 DEF vars, client, R!vars
  <1> QED  BY <1>1, <1>2, <1>3, <1>4, <1>5, <1>6, <1>7, <1>8, <1>9, <1>10 DEF Next

(* The client of orderly callers implements NlRequest: whatever is sent by *)
(* others, lost, cut or odd where the socket is new for each request, what *)
(* a request returns is the kernel's decision on it, or a failure, or what *)
(* its caller did not wait for (nlsock_kernel_comm, nl_parse_info).        *)
THEOREM ClientImplementsRequest ==
    ASSUME \A c \in Callers : Orderly(c)
    PROVE  Spec => ImplementsRequest
  <1>1. Init => TInv /\ RInv /\ R!Init
    BY TInit, RInit, RefinesInit
  <1>2. TInv /\ RInv /\ [Next /\ UNCHANGED caller]_<<vars, caller>> => (TInv /\ RInv)'
    BY TNext, RNext DEF TInv, Types
  <1>3. TInv /\ RInv /\ [Next /\ UNCHANGED caller]_<<vars, caller>> => [R!Ask \/ R!Return]_(R!vars)
    BY RefinesNext
  <1> QED  BY <1>1, <1>2, <1>3, PTL DEF Spec, ImplementsRequest, R!Spec

=============================================================================
