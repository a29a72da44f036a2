---------------------------- MODULE EventThreads ----------------------------
(***************************************************************************)
(* The event threads of the chassis (src/src/chassis-event-thread.c), with *)
(* the main loop and the shutdown order of src/src/chassis-mainloop.c.     *)
(*                                                                         *)
(* A connection that has to wait pushes a wait-for-event request on the    *)
(* global event_queue and writes one byte to the notification socketpair.  *)
(* Every thread polls a dup() of the reading end; a woken thread takes     *)
(* requests until the queue is empty and arms them in its own event_base.  *)
(* When an armed event fires, the thread runs network_mysqld_con_handle(). *)
(***************************************************************************)
EXTENDS Integers, Sequences, FiniteSets

CONSTANTS
    Cons,        \* connections; each stands for the event it waits on
    Threads,     \* event threads, the main thread included
    MainThread,        \* the thread that runs chassis_mainloop()
    Failing,     \* threads whose event_base_dispatch() may return -1
    PipeSize,    \* bytes the notification socketpair holds
    NoCon        \* the value of cur outside a callback

ASSUME MainAssumption == MainThread \in Threads
ASSUME FailingAssumption == Failing \subseteq Threads
ASSUME PipeSizeAssumption == PipeSize \in Nat \ {0}
ASSUME NoConAssumption == NoCon \notin Cons

VARIABLES
    event_queue,  \* GAsyncQueue of chassis_event_op_t
    notify,       \* unread bytes in event_notify_fds
    event_base,   \* thread -> events armed in its event base
    pc,           \* thread -> where it is
    cur,          \* thread -> the connection its callback works on
    shutdown,     \* signal_shutdown
    alive         \* connections in priv->cons, not yet freed

threadVars == <<event_queue, notify, event_base, pc, cur, shutdown, alive>>

Queued == {event_queue[i] : i \in DOMAIN event_queue}
Handled == {cur[t] : t \in {u \in Threads : pc[u] = "callback"}}
Armed == UNION {event_base[t] : t \in Threads}

PC == {"dispatch", "callback", "event_handle", "priv_shutdown", "stopped"}

ThreadsTypeOK ==
    /\ event_queue \in Seq(Cons)
    /\ notify \in 0..PipeSize
    /\ event_base \in [Threads -> SUBSET Cons]
    /\ pc \in [Threads -> PC]
    /\ cur \in [Threads -> Cons \cup {NoCon}]
    /\ shutdown \in BOOLEAN
    /\ alive \in SUBSET Cons

ThreadsInit ==
    /\ event_queue = <<>>
    /\ notify = 0
    /\ event_base = [t \in Threads |-> {}]
    /\ pc = [t \in Threads |-> "dispatch"]
    /\ cur = [t \in Threads |-> NoCon]
    /\ shutdown = FALSE
    /\ alive = {}
-----------------------------------------------------------------------------
\* network_mysqld_con_accept(): the listening event is armed in the main
\* thread's event base, and the new connection is handled there at once.
Accept(c) ==
    /\ pc[MainThread] = "dispatch"
    /\ c \notin alive \cup Queued \cup Handled \cup Armed
    /\ alive' = alive \cup {c}
    /\ pc' = [pc EXCEPT ![MainThread] = "callback"]
    /\ cur' = [cur EXCEPT ![MainThread] = c]
    /\ UNCHANGED <<event_queue, notify, event_base, shutdown>>

\* Mutant: the event stays armed while its callback runs.
FirePersistent(t, c) ==
    /\ pc[t] = "dispatch"
    /\ c \in event_base[t]
    /\ pc' = [pc EXCEPT ![t] = "callback"]
    /\ cur' = [cur EXCEPT ![t] = c]
    /\ UNCHANGED <<event_queue, notify, event_base, shutdown, alive>>

\* An armed event fires in t's event base (the event is not persistent).
Fire(t, c) ==
    /\ pc[t] = "dispatch"
    /\ c \in event_base[t]
    /\ event_base' = [event_base EXCEPT ![t] = @ \ {c}]
    /\ pc' = [pc EXCEPT ![t] = "callback"]
    /\ cur' = [cur EXCEPT ![t] = c]
    /\ UNCHANGED <<event_queue, notify, shutdown, alive>>

\* Mutant: the request is pushed and nobody is woken.
chassis_event_add_silent(t) ==
    /\ pc[t] = "callback"
    /\ event_queue' = Append(event_queue, cur[t])
    /\ pc' = [pc EXCEPT ![t] = "dispatch"]
    /\ cur' = [cur EXCEPT ![t] = NoCon]
    /\ UNCHANGED <<notify, event_base, shutdown, alive>>

\* WAIT_FOR_EVENT(); return: under the queue's lock the request is pushed and
\* a byte is sent, unless the socketpair is full (EAGAIN, "that's fine").
chassis_event_add(t) ==
    /\ pc[t] = "callback"
    /\ event_queue' = Append(event_queue, cur[t])
    /\ notify' = IF notify < PipeSize THEN notify + 1 ELSE notify
    /\ pc' = [pc EXCEPT ![t] = "dispatch"]
    /\ cur' = [cur EXCEPT ![t] = NoCon]
    /\ UNCHANGED <<event_base, shutdown, alive>>

\* The connection is done: network_mysqld_con_free(); return.
CloseCon(t) ==
    /\ pc[t] = "callback"
    /\ alive' = alive \ {cur[t]}
    /\ pc' = [pc EXCEPT ![t] = "dispatch"]
    /\ cur' = [cur EXCEPT ![t] = NoCon]
    /\ UNCHANGED <<event_queue, notify, event_base, shutdown>>
-----------------------------------------------------------------------------
\* notify_fd_event is EV_READ|EV_PERSIST and level triggered: one byte can
\* wake every thread that polls.
Notify(t) ==
    /\ pc[t] = "dispatch"
    /\ notify > 0
    /\ pc' = [pc EXCEPT ![t] = "event_handle"]
    /\ UNCHANGED <<event_queue, notify, event_base, cur, shutdown, alive>>

\* Mutant: the handler takes one request per wake-up and goes back to poll.
TakeOneOp(t) ==
    /\ pc[t] = "event_handle"
    /\ event_queue # <<>>
    /\ event_base' = [event_base EXCEPT ![t] = @ \cup {Head(event_queue)}]
    /\ event_queue' = Tail(event_queue)
    /\ notify' = IF notify > 0 THEN notify - 1 ELSE 0
    /\ pc' = [pc EXCEPT ![t] = "dispatch"]
    /\ UNCHANGED <<cur, shutdown, alive>>

\* Mutant: the request is armed but left at the head of the queue.
TakeOpTwice(t) ==
    /\ pc[t] = "event_handle"
    /\ event_queue # <<>>
    /\ event_base' = [event_base EXCEPT ![t] = @ \cup {Head(event_queue)}]
    /\ notify' = IF notify > 0 THEN notify - 1 ELSE 0
    /\ pc' = [pc EXCEPT ![t] = "dispatch"]
    /\ UNCHANGED <<event_queue, cur, shutdown, alive>>

\* One round of chassis_event_handle()'s loop, under the queue's lock: take a
\* request, arm it, and read one byte (EAGAIN when there is none).
TakeOp(t) ==
    /\ pc[t] = "event_handle"
    /\ event_queue # <<>>
    /\ event_base' = [event_base EXCEPT ![t] = @ \cup {Head(event_queue)}]
    /\ event_queue' = Tail(event_queue)
    /\ notify' = IF notify > 0 THEN notify - 1 ELSE 0
    /\ UNCHANGED <<pc, cur, shutdown, alive>>

\* The last round: nothing to take.
QueueEmpty(t) ==
    /\ pc[t] = "event_handle"
    /\ event_queue = <<>>
    /\ pc' = [pc EXCEPT ![t] = "dispatch"]
    /\ UNCHANGED <<event_queue, notify, event_base, cur, shutdown, alive>>
-----------------------------------------------------------------------------
\* SIGTERM or SIGINT, handled in the main thread, or a request for shutdown
\* from elsewhere (chassis_set_shutdown_location).
SetShutdown ==
    /\ ~shutdown
    /\ shutdown' = TRUE
    /\ UNCHANGED <<event_queue, notify, event_base, pc, cur, alive>>

\* Mutant: only the main thread looks at the shutdown flag.
LeaveLoopMainOnly(t) ==
    /\ pc[t] = "dispatch"
    /\ (shutdown /\ t = MainThread) \/ t \in Failing
    /\ pc' = [pc EXCEPT ![t] = IF t = MainThread THEN "priv_shutdown" ELSE "stopped"]
    /\ UNCHANGED <<event_queue, notify, event_base, cur, shutdown, alive>>

\* event_base_loopexit() ends dispatch once a second, the loop condition
\* looks at the flag; a failing dispatch leaves the loop early.  The main
\* thread goes on to chassis_free() and its priv_shutdown.
LeaveLoop(t) ==
    /\ pc[t] = "dispatch"
    /\ shutdown \/ t \in Failing
    /\ pc' = [pc EXCEPT ![t] = IF t = MainThread THEN "priv_shutdown" ELSE "stopped"]
    /\ UNCHANGED <<event_queue, notify, event_base, cur, shutdown, alive>>

\* network_mysqld_priv_shutdown() frees one connection after the other;
\* network_socket_free() deletes the event from the base it is armed in.
PrivShutdown(c) ==
    /\ pc[MainThread] = "priv_shutdown"
    /\ c \in alive
    /\ alive' = alive \ {c}
    /\ event_base' = [t \in Threads |-> event_base[t] \ {c}]
    /\ UNCHANGED <<event_queue, notify, pc, cur, shutdown>>

\* chassis_event_threads_free(): joins every thread, then drops the requests
\* that are still queued and closes the socketpair.
ThreadsFree ==
    /\ pc[MainThread] = "priv_shutdown"
    /\ alive = {}
    /\ \A t \in Threads \ {MainThread} : pc[t] = "stopped"
    /\ pc' = [pc EXCEPT ![MainThread] = "stopped"]
    /\ event_queue' = <<>>
    /\ notify' = 0
    /\ UNCHANGED <<event_base, cur, shutdown, alive>>
-----------------------------------------------------------------------------
ThreadsNext ==
    \/ \E c \in Cons : Accept(c) \/ PrivShutdown(c)
    \/ \E t \in Threads :
          \/ \E c \in Cons : Fire(t, c)
          \/ chassis_event_add(t)
          \/ CloseCon(t)
          \/ Notify(t)
          \/ TakeOp(t)
          \/ QueueEmpty(t)
          \/ LeaveLoop(t)
    \/ SetShutdown
    \/ ThreadsFree

(***************************************************************************)
(* A callback and a handler round always end.  libevent runs every event   *)
(* it found active before it polls again, so a readable notify fd is       *)
(* handled even when other events keep coming: strong fairness.  The       *)
(* one-second loopexit ends dispatch however busy the thread is.           *)
(***************************************************************************)
ThreadsFairness ==
    /\ \A t \in Threads :
          /\ WF_threadVars(chassis_event_add(t) \/ CloseCon(t))
          /\ WF_threadVars(TakeOp(t))
          /\ WF_threadVars(QueueEmpty(t))
          /\ SF_threadVars(Notify(t))
          /\ SF_threadVars(LeaveLoop(t) /\ shutdown)
    /\ WF_threadVars(\E c \in Cons : PrivShutdown(c))
    /\ WF_threadVars(ThreadsFree)

ThreadsSpec == ThreadsInit /\ [][ThreadsNext]_threadVars /\ ThreadsFairness
-----------------------------------------------------------------------------
\* A queued request is never forgotten (chassis_event_add against
\* chassis_event_handle): while the queue holds one, a byte is left that will
\* wake a polling thread, or some thread is inside chassis_event_handle() and
\* will look at the queue again.  The byte may have been lost to a full pipe.
NoLostWakeup ==
    event_queue # <<>> =>
        notify > 0 \/ \E t \in Threads : pc[t] = "event_handle"

\* One request per connection, in one place: no connection is queued twice,
\* armed in two event bases or armed while it is queued or handled ...
OneRequest ==
    /\ \A i, j \in DOMAIN event_queue :
          event_queue[i] = event_queue[j] => i = j
    /\ \A t, u \in Threads :
          t # u => event_base[t] \cap event_base[u] = {}
    /\ Queued \cap Armed = {}

\* ... and network_mysqld_con_handle() never runs for the same connection in
\* two threads, nor for one that also waits.
OneHandler ==
    /\ \A t, u \in Threads :
          pc[t] = "callback" /\ pc[u] = "callback" /\ cur[t] = cur[u] => t = u
    /\ Handled \cap (Queued \cup Armed) = {}

\* A connection moves between threads only through the queue.
Exclusive == OneRequest /\ OneHandler

\* chassis_free() runs priv_shutdown "without freeing share structures": no
\* thread works on a connection that has been freed.
HandlersOwnLiveCons == Handled \subseteq alive

\* Every wait-for-event request leaves the queue: some thread arms it, or the
\* chassis has joined its threads and drops it.
RequestsAreTaken ==
    \A c \in Cons : c \in Queued ~> c \notin Queued

\* After a signal every thread leaves its loop, and the main thread frees the
\* connections, joins the others and ends.
ShutdownCompletes == shutdown ~> \A t \in Threads : pc[t] = "stopped"

Abs == INSTANCE WaitRequests
          WITH running <- Handled, requested <- Queued, armed <- Armed

\* The event threads keep the promise of WaitRequests.
ImplementsWaitRequests == Abs!Spec
=============================================================================
