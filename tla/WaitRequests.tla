---------------------------- MODULE WaitRequests ----------------------------
(***************************************************************************)
(* What the threaded event layer promises a connection: it is handled by   *)
(* one thread, or its wait-for-event request is queued, or the request is  *)
(* armed in some event base, and it moves between the three in that order. *)
(* EventThreads implements this specification.                             *)
(***************************************************************************)
CONSTANT Cons

VARIABLES
    running,    \* connections inside network_mysqld_con_handle()
    requested,  \* connections whose request waits in the global event-queue
    armed       \* connections whose event is added to an event base

vars == <<running, requested, armed>>

Init == running = {} /\ requested = {} /\ armed = {}

Known == running \cup requested \cup armed

\* A new connection is accepted and handled at once.
Accept(c) ==
    /\ c \in Cons \ Known
    /\ running' = running \cup {c}
    /\ UNCHANGED <<requested, armed>>

Request(c) ==
    /\ c \in running
    /\ running' = running \ {c}
    /\ requested' = requested \cup {c}
    /\ UNCHANGED armed

Arm(c) ==
    /\ c \in requested
    /\ requested' = requested \ {c}
    /\ armed' = armed \cup {c}
    /\ UNCHANGED running

Fire(c) ==
    /\ c \in armed
    /\ armed' = armed \ {c}
    /\ running' = running \cup {c}
    /\ UNCHANGED requested

Close(c) ==
    /\ c \in running
    /\ running' = running \ {c}
    /\ UNCHANGED <<requested, armed>>

\* The chassis goes down: waiting connections and requests are dropped.
Drop ==
    /\ requested' \subseteq requested
    /\ armed' \subseteq armed
    /\ UNCHANGED running

Next ==
    \/ \E c \in Cons : Accept(c) \/ Request(c) \/ Arm(c) \/ Fire(c) \/ Close(c)
    \/ Drop

Spec == Init /\ [][Next]_vars
=============================================================================
