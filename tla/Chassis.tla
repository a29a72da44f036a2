---------------------------------- MODULE Chassis ----------------------------------
(***************************************************************************)
(* The processes of --keepalive: the angel (chassis_unix_proc_keepalive()) *)
(* that forks the proxy, forwards signals to it and forks it again when it *)
(* died, and the proxy itself from the fork over chassis_mainloop() to its *)
(* exit, with its log.                                                     *)
(*                                                                         *)
(* The main thread of the proxy runs the signal handlers; a worker stands  *)
(* for the event threads.  todo is what the main thread has to do before   *)
(* it is back in its loop.                                                 *)
(***************************************************************************)
EXTENDS ChassisLog

CONSTANTS Signals,      \* SIGTERM, SIGINT and SIGHUP
          Texts,        \* what the event threads log
          MaxMessages,  \* messages of a proxy after which the worker is silent
          MaxSignals,   \* signals sent from outside
          MaxCrashes    \* times the proxy dies on a signal of its own making

ASSUME ChassisAssumption ==
    /\ MaxMessages \in Nat /\ MaxSignals \in Nat /\ MaxCrashes \in Nat
    /\ Signals \subseteq {"TERM", "INT", "HUP"} /\ NoText \notin Texts

VARIABLES angel,        \* where the angel is in chassis_unix_proc_keepalive()
          disposition,  \* of the angel's signals
          exit_status,  \* the angel's, once it is gone
          child,        \* the phase of the proxy
          todo, caught, signal_shutdown, exit_code,
          child_disposition, inherited,
          quiet,        \* the log level leaves out g_message()
          signals, crashes,
          asked,        \* the file that had the name when this proxy was asked to rotate
          announced     \* the same, when the last SIGHUP was sent

angelVars == <<angel, disposition, exit_status>>
mainVars == <<todo, caught, signal_shutdown, exit_code, child_disposition, inherited>>
countVars == <<quiet, signals, crashes>>
vars == <<angelVars, child, mainVars, countVars, asked, announced, logVars>>

Alive == child \in {"starting", "entering", "loop", "leaving"}

Init ==
    /\ angel = "fork" /\ exit_status = -1 /\ child = "none"
    /\ \E hup \in {"default", "ignore"} :       \* chassis_unix_daemonize() ignores SIGHUP
         disposition = [s \in Signals |-> IF s = "HUP" THEN hup ELSE "default"]
    /\ todo = <<>> /\ caught = {} /\ signal_shutdown = FALSE /\ exit_code = 0
    /\ child_disposition = disposition /\ inherited = disposition
    /\ quiet \in BOOLEAN /\ signals = 0 /\ crashes = 0 /\ asked = 0 /\ announced = 0
    /\ named = 0 /\ LogIs(0)

-----------------------------------------------------------------------------
\* The angel forks.  The proxy gets a copy of its log, opened when the angel started.
angel_fork ==
    /\ angel = "fork"
    /\ \/ /\ angel' = "install" /\ child' = "starting" /\ UNCHANGED exit_status
          /\ todo' = <<>> /\ caught' = {} /\ signal_shutdown' = FALSE /\ exit_code' = 0
          /\ child_disposition' = disposition /\ inherited' = disposition
          /\ asked' = 0 /\ announced' = 0 /\ log_new(0)
       \/ /\ angel' = "gone" /\ exit_status' = 1
          /\ UNCHANGED <<child, mainVars, asked, announced, logVars>>
    /\ UNCHANGED <<disposition, countVars>>

angel_install ==
    /\ angel = "install" /\ angel' = "wait"
    /\ disposition' = [s \in Signals |-> "forward"]
    /\ UNCHANGED <<exit_status, child, mainVars, countVars, asked, announced, logVars>>

\* Mutant: a proxy that has exited is restarted, too.
RestartAlways ==
    /\ angel = "wait" /\ child \in {"exited", "killed"}
    /\ angel' = "sleep" /\ disposition' = [s \in Signals |-> "default"]
    /\ UNCHANGED <<exit_status, child, mainVars, countVars, asked, announced, logVars>>

\* wait4(): the proxy has exited, and so does the angel; or a signal killed it.
angel_wait ==
    /\ angel = "wait"
    /\ \/ /\ child = "exited" /\ angel' = "gone" /\ exit_status' = exit_code
          /\ UNCHANGED disposition
       \/ /\ child = "killed" /\ angel' = "sleep"
          /\ disposition' = [s \in Signals |-> "default"] /\ UNCHANGED exit_status
    /\ UNCHANGED <<child, mainVars, countVars, asked, announced, logVars>>

\* Mutant: nprocs is not counted down.
WaitAgain ==
    /\ angel = "sleep" /\ angel' = "wait"
    /\ UNCHANGED <<disposition, exit_status, child, mainVars, countVars, asked, announced, logVars>>

angel_sleep ==
    /\ angel = "sleep" /\ angel' = "fork"
    /\ UNCHANGED <<disposition, exit_status, child, mainVars, countVars, asked, announced, logVars>>

-----------------------------------------------------------------------------
\* A signal reaches the proxy: it is left to libevent, kills the process or is ignored.
deliver(s) ==
    IF ~Alive \/ child_disposition[s] = "ignore"
    THEN UNCHANGED <<child, caught>>
    ELSE IF child_disposition[s] = "handler"
    THEN caught' = caught \cup {s} /\ UNCHANGED child
    ELSE child' = "killed" /\ UNCHANGED caught

Announce(s) ==
    announced' = IF s = "HUP" /\ child = "loop" /\ ~signal_shutdown /\ angel = "wait"
                 THEN named ELSE announced

\* The angel gets a signal.  chassis_unix_signal_forward() ignores it from now on and
\* sends it to the process group.
SignalAngel(s) ==
    /\ angel # "gone" /\ signals < MaxSignals /\ signals' = signals + 1
    /\ \/ /\ disposition[s] = "default"
          /\ angel' = "gone" /\ exit_status' = -1
          /\ UNCHANGED <<disposition, child, caught, announced>>
       \/ /\ disposition[s] = "forward" /\ disposition' = [disposition EXCEPT ![s] = "ignore"]
          /\ deliver(s) /\ Announce(s)
          /\ UNCHANGED <<angel, exit_status>>
       \/ /\ disposition[s] = "ignore" /\ Announce(s)
          /\ UNCHANGED <<angelVars, child, caught>>
    /\ UNCHANGED <<todo, signal_shutdown, exit_code, child_disposition, inherited, quiet, crashes,
                   asked, logVars>>

SignalChild(s) ==
    /\ Alive /\ signals < MaxSignals /\ signals' = signals + 1
    /\ deliver(s) /\ Announce(s)
    /\ UNCHANGED <<angelVars, todo, signal_shutdown, exit_code, child_disposition, inherited, quiet,
                   crashes, asked, logVars>>

Crash ==
    /\ Alive /\ crashes < MaxCrashes /\ crashes' = crashes + 1 /\ child' = "killed"
    /\ UNCHANGED <<angelVars, mainVars, quiet, signals, asked, announced, logVars>>

-----------------------------------------------------------------------------
\* What the main thread has to do for a signal, and at exit_nicely.
sigterm_handler == IF signal_shutdown THEN <<>> ELSE <<"initiating", "shutdown">>

sighup_handler == <<"closing", "rotate", "re-opened">>

exit_nicely == sigterm_handler \o <<"bye", "free">>

\* The proxy writes its pid file and sets its limits, which may fail.
child_setup ==
    /\ child = "starting"
    /\ \/ child' = "entering" /\ UNCHANGED <<todo, exit_code>>
       \/ child' = "leaving" /\ exit_code' = 1 /\ todo' = <<"failure">> \o exit_nicely
    /\ UNCHANGED <<angelVars, caught, signal_shutdown, child_disposition, inherited, countVars, asked,
                   announced, logVars>>

\* chassis_mainloop() up to its loop: the plugins' config and the privileges may fail,
\* and behind the installation of the signal handlers the event threads.
child_start ==
    /\ child = "entering"
    /\ \/ /\ child' = "loop" /\ child_disposition' = [s \in Signals |-> "handler"]
          /\ UNCHANGED <<todo, exit_code>>
       \/ /\ child' = "leaving" /\ exit_code' = 1 /\ todo' = <<"failure">> \o exit_nicely
          /\ child_disposition' \in {child_disposition, [s \in Signals |-> "handler"]}
    /\ UNCHANGED <<angelVars, caught, signal_shutdown, inherited, countVars, asked, announced, logVars>>

\* The loop of the main thread calls the handler of a signal.
child_signal(s) ==
    /\ child = "loop" /\ todo = <<>> /\ s \in caught /\ caught' = caught \ {s}
    /\ todo' = IF s = "HUP" THEN sighup_handler ELSE sigterm_handler
    /\ UNCHANGED <<angelVars, child, signal_shutdown, exit_code, child_disposition, inherited,
                   countVars, asked, announced, logVars>>

\* It ends on the shutdown flag; signal_del() gives the signals back their old dispositions.
child_leave ==
    /\ child = "loop" /\ todo = <<>> /\ signal_shutdown
    /\ child' = "leaving" /\ child_disposition' = inherited /\ todo' = exit_nicely
    /\ UNCHANGED <<angelVars, caught, signal_shutdown, exit_code, inherited, countVars, asked,
                   announced, logVars>>

\* One thing the main thread has to do: set a flag, exit (behind the event threads, which
\* chassis_free() joins), or log a message.
Silent == {"rotate", "shutdown", "free"}

child_step ==
    /\ Alive /\ todo # <<>> /\ Head(todo) \in Silent /\ todo' = Tail(todo)
    /\ \/ /\ Head(todo) = "rotate" /\ log_set_logrotate /\ asked' = named
          /\ UNCHANGED <<child, signal_shutdown>>
       \/ /\ Head(todo) = "shutdown" /\ signal_shutdown' = TRUE
          /\ UNCHANGED <<child, asked, logVars>>
       \/ /\ Head(todo) = "free" /\ mutex.holder = "none" /\ child' = "exited"
          /\ UNCHANGED <<signal_shutdown, asked, logVars>>
    /\ UNCHANGED <<angelVars, caught, exit_code, child_disposition, inherited, countVars, announced>>

child_say ==
    /\ Alive /\ todo # <<>> /\ Head(todo) \notin Silent
    /\ log_begin("main", Head(todo), quiet /\ Head(todo) # "failure")
    /\ UNCHANGED <<angelVars, child, mainVars, countVars, asked, announced>>

child_said ==
    /\ Alive /\ todo # <<>> /\ log_end("main") /\ todo' = Tail(todo)
    /\ UNCHANGED <<angelVars, child, caught, signal_shutdown, exit_code, child_disposition,
                   inherited, countVars, asked, announced>>

\* An event thread logs something, until the threads are joined.
worker_say ==
    /\ child \in {"loop", "leaving"} /\ exit_code = 0 /\ Len(given) < MaxMessages
    /\ \E text \in Texts, verbose \in BOOLEAN : log_begin("worker", text, verbose)
    /\ UNCHANGED <<angelVars, child, mainVars, countVars, asked, announced>>

worker_said ==
    /\ Alive /\ log_end("worker")
    /\ UNCHANGED <<angelVars, child, mainVars, countVars, asked, announced>>

Move == MoveFile /\ UNCHANGED <<angelVars, child, mainVars, countVars, asked, announced>>

\* Nothing is left to do: both processes are gone, or the proxy waits for events.
Rest ==
    /\ \/ angel = "gone" /\ ~Alive
       \/ child = "loop" /\ todo = <<>> /\ caught = {} /\ ~signal_shutdown /\ mutex = Unlocked
    /\ UNCHANGED vars

Angel == angel_fork \/ angel_install \/ angel_wait \/ angel_sleep
Main == child_setup \/ child_start \/ (\E s \in Signals : child_signal(s)) \/ child_leave \/ child_step
        \/ child_say \/ child_said

Next ==
    \/ Angel \/ Main \/ worker_say \/ worker_said \/ Move \/ Crash
    \/ \E s \in Signals : SignalAngel(s) \/ SignalChild(s)
    \/ Rest

\* The kernel schedules both processes and all their threads.  The mutex of the log is
\* passed on: a main thread that waits for it gets it although the worker may be quicker.
\* The event threads end when they see the shutdown flag, which is what "free" waits for.
Fairness == WF_vars(Angel) /\ WF_vars(worker_said) /\ SF_vars(Main)

Spec == Init /\ [][Next]_vars /\ Fairness
-----------------------------------------------------------------------------
\* A rotation is not lost: when the handler of a SIGHUP is through, the log is not written
\* to a file that was moved away before, whatever the log level is and whichever thread
\* does the rotation (sighup_handler(), "see Bug#55711" in chassis_log_func_locked()).
\* A file that could not be opened is not written to at all.
RotationDone ==
    todo = <<>> => log_file_fd = -1 \/ log_file_fd >= asked

\* A proxy that a signal killed is started again, unless the angel is gone, too.
KeptAlive == (child = "killed") ~> (Alive \/ angel = "gone")

\* A SIGTERM or SIGINT that the proxy's loop catches ends the proxy and the angel, unless
\* another signal kills the proxy on its way out.
TermEnds ==
    (child = "loop" /\ caught \cap {"TERM", "INT"} # {}) ~> (child = "killed" \/ (angel = "gone" /\ ~Alive))

\* "forward a few signals that are sent to us to the child instead": after each SIGHUP to
\* a running proxy, or to the angel that has its forwarders in place, the log is in a file
\* that had not been moved before.
HupRotates ==
    \A n \in 1..MaxMoves :
        (child = "loop" /\ announced = n)
            ~> (child # "loop" \/ signal_shutdown \/ log_file_fd = -1 \/ log_file_fd >= n)

\* A restarted proxy logs into the file its predecessor logged into.
NoWayBack == [][child' = "starting" /\ log_file_fd # -1 => log_file_fd' >= log_file_fd]_vars

\* "if we or the child gets a SIGTERM, we quit too": no proxy lives on without its angel.
NoOrphan == angel = "gone" => ~Alive
=============================================================================
