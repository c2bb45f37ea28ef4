---------------------------- MODULE ThreadMaster ----------------------------
(***************************************************************************)
(* The event loop of thread.c: a thread_master holds six lists of threads, *)
(* one per kind of work, one for those whose descriptor is ready and one   *)
(* for those to be used again, and two sets of descriptors for select.     *)
(*                                                                         *)
(* Nothing in the repository runs the loop, so its client is modelled from *)
(* the macros of thread.h: a client keeps a handle for each of its read,   *)
(* write and timer threads, adds one only when the handle is NULL          *)
(* (THREAD_READ_ON, ...), resets the handle when it cancels (THREAD_OFF)   *)
(* and when its function is called, and has no handle for its events.  The *)
(* loop is   while (thread_fetch (m, &t)) thread_call (&t);                *)
(*                                                                         *)
(* Time is gettimeofday: a clock that may be set forward and back.         *)
(*                                                                         *)
(* Sources: src/thread.c, src/thread.h.                                    *)
(***************************************************************************)
EXTENDS Integers, Sequences, FiniteSets, SequencesExt, FiniteSetsExt

CONSTANTS
    Threads,    \* the struct thread's that may ever be allocated (a bound)
    Clients,    \* who adds threads: the argument of the function
    FdsOf,      \* Clients -> the descriptors a client waits for
    Delays,     \* the arguments of thread_add_timer
    MaxTime,    \* bound of the clock
    Null        \* the null pointer

Fds     == UNION {FdsOf[c] : c \in Clients}
IoKinds == {"read", "write"}
Held    == IoKinds \cup {"timer"}
Lists   == {"read", "write", "timer", "event", "ready"}

ASSUME ThreadAssumption ==
    /\ IsFiniteSet(Threads) /\ Null \notin Threads \cup Clients \cup Held \cup {"event"}
    /\ FdsOf \in [Clients -> SUBSET Nat]
    /\ Delays \subseteq Nat /\ MaxTime \in Nat

VARIABLES
    list,     \* the lists of the thread_master
    unuse,    \* ... and the one of the threads to be used again
    thread,   \* what a scheduled thread holds: type, function, argument, fd or time
    fds,      \* readfd and writefd
    alloc,    \* m->alloc
    clock,    \* what gettimeofday returns
    handle,   \* the clients' pointers to their threads
    running,  \* the copy thread_fetch made for its caller
    pc        \* "client", "fetch", "call" or "stopped"

vars == <<list, unuse, thread, fds, alloc, clock, handle, running, pc>>

Blank == [type |-> "unused", func |-> Null, arg |-> Null, val |-> 0]

(* What is left of a list when the threads that are not in T were taken    *)
(* out of it, one thread_list_delete after the other: its elements that    *)
(* are in T, in their order.                                               *)
Keep(s, T) ==
    LET kept[n \in 0 .. Len(s)] ==
          IF n = 0 THEN <<>>
          ELSE IF s[n] \in T THEN Append(kept[n - 1], s[n]) ELSE kept[n - 1]
    IN kept[Len(s)]
Without(s, t) == Keep(s, Threads \ {t})

(* The threads of an argument, and those that wait for one of the          *)
(* descriptors D.                                                          *)
ThreadsOf(c)   == {t \in Threads : thread[t].arg = c}
WaitingFor(D)  == {t \in Threads : thread[t].val \in D}

-----------------------------------------------------------------------------
(* Allocation and scheduling *)

Listed == (UNION {ToSet(list[l]) : l \in Lists}) \cup ToSet(unuse)

(* thread_get: the head of the unused ones, or a new one. *)
Available == IF unuse # <<>> THEN {Head(unuse)} ELSE Threads \ Listed

(* Slip: alloc counts every thread handed out (OneList). *)
GetAlwaysCounts(t, type, c, val) ==
    /\ thread' = [thread EXCEPT ![t] = [type |-> type, func |-> type, arg |-> c, val |-> val]]
    /\ unuse' = IF unuse # <<>> THEN Tail(unuse) ELSE unuse
    /\ alloc' = alloc + 1
Get(t, type, c, val) ==
    /\ thread' = [thread EXCEPT ![t] = [type |-> type, func |-> type, arg |-> c, val |-> val]]
    /\ unuse' = IF unuse # <<>> THEN Tail(unuse) ELSE unuse
    /\ alloc' = IF unuse # <<>> THEN alloc ELSE alloc + 1

Init ==
    /\ list = [l \in Lists |-> <<>>] /\ unuse = <<>>
    /\ thread = [t \in Threads |-> Blank]
    /\ fds = [k \in IoKinds |-> {}]
    /\ alloc = 0 /\ clock = 0
    /\ handle = [k \in Held |-> [c \in Clients |-> Null]]
    /\ running = Blank /\ pc = "client"

(* THREAD_READ_ON, THREAD_WRITE_ON.  A descriptor that is in the set       *)
(* already makes thread_add_read return NULL and nothing else.             *)
IoOn(kind, c, fd) ==
    /\ pc = "client" /\ handle[kind][c] = Null
    /\ fd \notin fds[kind]
    /\ \E t \in Available :
          /\ Get(t, kind, c, fd)
          /\ list' = [list EXCEPT ![kind] = Append(@, t)]
          /\ handle' = [handle EXCEPT ![kind][c] = t]
    /\ fds' = [fds EXCEPT ![kind] = @ \cup {fd}]
    /\ UNCHANGED <<clock, running, pc>>

(* Where thread_add_timer puts a time: before the first that is not less.  *)
(* Slip: before the first that is less (EarliestFirst).                    *)
TimerPlaceSwapped(due) ==
    Min({i \in DOMAIN list["timer"] : due >= thread[list["timer"][i]].val}
        \cup {Len(list["timer"]) + 1})
TimerPlace(due) ==
    Min({i \in DOMAIN list["timer"] : due <= thread[list["timer"][i]].val}
        \cup {Len(list["timer"]) + 1})

TimerOn(c, delay) ==
    /\ pc = "client" /\ handle["timer"][c] = Null
    /\ \E t \in Available :
          /\ Get(t, "timer", c, clock + delay)
          /\ list' = [list EXCEPT !["timer"] = InsertAt(@, TimerPlace(clock + delay), t)]
          /\ handle' = [handle EXCEPT !["timer"][c] = t]
    /\ UNCHANGED <<fds, clock, running, pc>>

AddEvent(c) ==
    /\ pc = "client"
    /\ \E t \in Available :
          /\ Get(t, "event", c, 0)
          /\ list' = [list EXCEPT !["event"] = Append(@, t)]
    /\ UNCHANGED <<fds, clock, handle, running, pc>>

-----------------------------------------------------------------------------
(* Cancelling *)

(* thread_cancel: which list a thread is taken from, its type says. *)
Cancel(t) ==
    LET type == thread[t].type
    IN /\ list' = IF type \in Lists THEN [list EXCEPT ![type] = Without(@, t)] ELSE list
       /\ fds' = IF type \in IoKinds THEN [fds EXCEPT ![type] = @ \ {thread[t].val}] ELSE fds
       /\ thread' = [thread EXCEPT ![t] = Blank]
       /\ unuse' = Append(unuse, t)

(* THREAD_OFF *)
(* Slip: the descriptor of a thread that was ready is cleared, too         *)
(* (FdsOfLists).                                                           *)
OffClearsReady(kind, c) ==
    LET t == handle[kind][c]
    IN /\ pc = "client" /\ t # Null
       /\ list' = [list EXCEPT ![thread[t].type] = Without(@, t)]
       /\ fds' = IF kind \in IoKinds THEN [fds EXCEPT ![kind] = @ \ {thread[t].val}] ELSE fds
       /\ thread' = [thread EXCEPT ![t] = Blank]
       /\ unuse' = Append(unuse, t)
       /\ handle' = [handle EXCEPT ![kind][c] = Null]
       /\ UNCHANGED <<alloc, clock, running, pc>>
Off(kind, c) ==
    /\ pc = "client" /\ handle[kind][c] # Null
    /\ Cancel(handle[kind][c])
    /\ handle' = [handle EXCEPT ![kind][c] = Null]
    /\ UNCHANGED <<alloc, clock, running, pc>>

(* thread_cancel_event: every event of the argument.                       *)
(* Slip: the timers are gone through (HandleOfThread). *)
CancelEventTimers(c) ==
    LET gone == Keep(list["timer"], ThreadsOf(c))
    IN /\ pc = "client" /\ gone # <<>>
       /\ list' = [list EXCEPT !["timer"] = Keep(@, Threads \ ThreadsOf(c))]
       /\ thread' = [t \in Threads |-> IF t \in ToSet(gone) THEN Blank ELSE thread[t]]
       /\ unuse' = unuse \o gone
       /\ UNCHANGED <<fds, alloc, clock, handle, running, pc>>
CancelEvent(c) ==
    LET gone == Keep(list["event"], ThreadsOf(c))
    IN /\ pc = "client" /\ gone # <<>>
       /\ list' = [list EXCEPT !["event"] = Keep(@, Threads \ ThreadsOf(c))]
       /\ thread' = [t \in Threads |-> IF t \in ToSet(gone) THEN Blank ELSE thread[t]]
       /\ unuse' = unuse \o gone
       /\ UNCHANGED <<fds, alloc, clock, handle, running, pc>>

(* The function, or the start of the program, is done. *)
Return ==
    /\ pc = "client"
    /\ pc' = "fetch" /\ running' = Blank
    /\ UNCHANGED <<list, unuse, thread, fds, alloc, clock, handle>>

-----------------------------------------------------------------------------
(* thread_fetch *)

(* thread_run: the caller gets a copy, the thread may be used again. *)
RunFrom(l, t) ==
    /\ list' = [list EXCEPT ![l] = Without(@, t)]
    /\ running' = thread[t]
    /\ thread' = [thread EXCEPT ![t] = Blank]
    /\ unuse' = Append(unuse, t)
    /\ pc' = "call"
    /\ UNCHANGED <<fds, alloc, clock, handle>>

Due == {i \in DOMAIN list["timer"] : thread[list["timer"][i]].val <= clock}

(* Slip: the last event first (EventsRun). *)
FetchEventLast ==
    /\ pc = "fetch" /\ list["event"] # <<>>
    /\ RunFrom("event", Last(list["event"]))
FetchEvent ==
    /\ pc = "fetch" /\ list["event"] # <<>>
    /\ RunFrom("event", Head(list["event"]))

FetchTimer ==
    /\ pc = "fetch" /\ list["event"] = <<>>
    /\ Due # {}
    /\ RunFrom("timer", list["timer"][Min(Due)])

(* Slip: any timer comes first, due or not (ReadyRuns). *)
FetchReadyNoTimer ==
    /\ pc = "fetch" /\ list["event"] = <<>> /\ list["timer"] = <<>>
    /\ list["ready"] # <<>>
    /\ RunFrom("ready", Head(list["ready"]))
FetchReady ==
    /\ pc = "fetch" /\ list["event"] = <<>> /\ Due = {}
    /\ list["ready"] # <<>>
    /\ RunFrom("ready", Head(list["ready"]))

(* Nothing to run: select, for as long as it takes.  It returns the        *)
(* descriptors R and W that are ready; thread_process_fd moves their       *)
(* threads to the ready list, readers first, and the first of them runs.   *)
(* Slip: a moved thread keeps its type (OneList).                          *)
SelectKeepsType(R, W) ==
    LET moved == Keep(list["read"], WaitingFor(R)) \o Keep(list["write"], WaitingFor(W))
    IN /\ pc = "fetch" /\ list["event"] = <<>> /\ Due = {} /\ list["ready"] = <<>>
       /\ moved # <<>>
       /\ list' = [list EXCEPT !["read"]  = Keep(@, Threads \ WaitingFor(R)),
                               !["write"] = Keep(@, Threads \ WaitingFor(W)),
                               !["ready"] = Tail(moved)]
       /\ fds' = [fds EXCEPT !["read"] = @ \ R, !["write"] = @ \ W]
       /\ running' = thread[Head(moved)]
       /\ thread' = [thread EXCEPT ![Head(moved)] = Blank]
       /\ unuse' = Append(unuse, Head(moved))
       /\ pc' = "call"
       /\ UNCHANGED <<alloc, clock, handle>>
Select(R, W) ==
    LET moved  == Keep(list["read"], WaitingFor(R)) \o Keep(list["write"], WaitingFor(W))
        marked == [t \in Threads |-> IF t \in ToSet(moved)
                                     THEN [thread[t] EXCEPT !.type = "ready"]
                                     ELSE thread[t]]
    IN /\ pc = "fetch" /\ list["event"] = <<>> /\ Due = {} /\ list["ready"] = <<>>
       /\ moved # <<>>
       /\ list' = [list EXCEPT !["read"]  = Keep(@, Threads \ WaitingFor(R)),
                               !["write"] = Keep(@, Threads \ WaitingFor(W)),
                               !["ready"] = Tail(moved)]
       /\ fds' = [fds EXCEPT !["read"] = @ \ R, !["write"] = @ \ W]
       /\ running' = marked[Head(moved)]
       /\ thread' = [marked EXCEPT ![Head(moved)] = Blank]
       /\ unuse' = Append(unuse, Head(moved))
       /\ pc' = "call"
       /\ UNCHANGED <<alloc, clock, handle>>

(* An error of select other than EINTR: NULL, and the loop is over. *)
SelectFails ==
    /\ pc = "fetch" /\ list["event"] = <<>> /\ Due = {} /\ list["ready"] = <<>>
    /\ pc' = "stopped"
    /\ UNCHANGED <<list, unuse, thread, fds, alloc, clock, handle, running>>

-----------------------------------------------------------------------------
(* thread_call, and the world *)

(* The function of the copy is called; it resets the handle it was held by. *)
Call ==
    /\ pc = "call"
    /\ handle' = [k \in Held |-> [c \in Clients |->
                     IF k = running.func /\ c = running.arg THEN Null ELSE handle[k][c]]]
    /\ pc' = "client" /\ running' = Blank
    /\ UNCHANGED <<list, unuse, thread, fds, alloc, clock>>

SetClock(time) ==
    /\ clock' = time
    /\ UNCHANGED <<list, unuse, thread, fds, alloc, handle, running, pc>>

Next ==
    \/ \E kind \in IoKinds, c \in Clients : \E fd \in FdsOf[c] : IoOn(kind, c, fd)
    \/ \E c \in Clients, delay \in Delays : TimerOn(c, delay)
    \/ \E c \in Clients : AddEvent(c)
    \/ \E kind \in Held, c \in Clients : Off(kind, c)
    \/ \E c \in Clients : CancelEvent(c)
    \/ Return
    \/ FetchEvent \/ FetchTimer \/ FetchReady
    \/ \E R \in SUBSET fds["read"], W \in SUBSET fds["write"] : Select(R, W)
    \/ SelectFails
    \/ Call
    \/ \E time \in 0..MaxTime : SetClock(time)

(* The loop goes on: a function returns, and thread_fetch, which does not  *)
(* block while there is something to run, is called again.  Whether a      *)
(* descriptor becomes ready is not up to the program.                      *)
Fairness == WF_vars(Return) /\ WF_vars(Call)
            /\ WF_vars(FetchEvent \/ FetchTimer \/ FetchReady)

Spec == Init /\ [][Next]_vars /\ Fairness

-----------------------------------------------------------------------------
(* Properties *)

(* The fields of threads and masters, and no more threads than allocated.  *)
TypeOK ==
    /\ list \in [Lists -> Seq(Threads)] /\ unuse \in Seq(Threads)
    /\ thread \in [Threads -> [type : Lists \cup {"unused"},
                               func : Held \cup {"event", Null},
                               arg : Clients \cup {Null}, val : Int]]
    /\ fds \in [IoKinds -> SUBSET Fds]
    /\ alloc \in 0..Cardinality(Threads)
    /\ clock \in 0..MaxTime
    /\ handle \in [Held -> [Clients -> Threads \cup {Null}]]
    /\ running \in [type : Lists \cup {"unused"}, func : Held \cup {"event", Null},
                    arg : Clients \cup {Null}, val : Int]
    /\ pc \in {"client", "fetch", "call", "stopped"}

(* A thread is at one place of one list, the one its type says: where      *)
(* thread_cancel will look for it.  One that is to be used again has the   *)
(* type thread_add_unuse asserts.  alloc, which thread_master_debug prints *)
(* and thread_list_free counts down, is the number of all of them.         *)
OneList ==
    /\ alloc = Cardinality(Listed)
    /\ \A l \in Lists : IsInjective(list[l])
    /\ IsInjective(unuse)
    /\ \A l \in Lists : \A t \in ToSet(list[l]) : thread[t].type = l
    /\ \A t \in ToSet(unuse) : thread[t].type = "unused"

(* select waits for the descriptors of the read and of the write list, no  *)
(* more and no fewer, and each is waited for by one thread: the assertions *)
(* of thread_cancel and thread_process_fd hold.                            *)
FdsOfLists ==
    \A k \in IoKinds :
        /\ fds[k] = {thread[t].val : t \in ToSet(list[k])}
        /\ \A t, u \in ToSet(list[k]) : thread[t].val = thread[u].val => t = u

(* A client's handle is NULL, or its own thread, waiting or ready: though  *)
(* threads are used again, THREAD_OFF never takes another client's, and    *)
(* no thread waits that its client has lost.  Between thread_fetch and     *)
(* thread_call alone the handle of the running thread points to an unused  *)
(* one.                                                                    *)
HandleOfThread ==
    \A k \in Held, c \in Clients :
        LET mine == {t \in Threads : thread[t].func = k /\ thread[t].arg = c}
        IN \/ mine = {} /\ handle[k][c] = Null
           \/ mine # {} /\ mine = {handle[k][c]}
           \/ pc = "call" /\ running.func = k /\ running.arg = c /\ mine = {}

(* A timer runs when its time has come, and before every later one. *)
EarliestFirst ==
    [][pc = "fetch" /\ pc' = "call" /\ running'.func = "timer" =>
         /\ running'.val <= clock
         /\ \A t \in ToSet(list["timer"]) : running'.val <= thread[t].val]_vars

(* An event is run or cancelled, however many others are added. *)
EventsRun ==
    \A t \in Threads : Contains(list["event"], t) ~> ~Contains(list["event"], t)

(* A thread whose descriptor was ready is run or cancelled, if events and  *)
(* due timers cease.                                                       *)
ReadyRuns ==
    <>[](list["event"] = <<>> /\ Due = {}) =>
        \A t \in Threads : Contains(list["ready"], t) ~> ~Contains(list["ready"], t)
=============================================================================
