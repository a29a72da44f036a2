---------------------------- MODULE ChassisProofs ---------------------------
(***************************************************************************)
(* The chassis: its event threads (EventThreads), for any number of        *)
(* connections and threads, any pipe size and any set of failing threads;  *)
(* and its log (Chassis), for any number of messages, signals, crashes and *)
(* moves of the log file: no rotation is lost, and every message is told.  *)
(***************************************************************************)
EXTENDS Chassis, EventThreads, SequenceTheorems, TLAPS

(***************************************************************************)
(* The event threads.                                                      *)
(***************************************************************************)
\* A thread inside a callback works on a connection.
CallbackHasCon == \A t \in Threads : pc[t] = "callback" => cur[t] \in Cons

\* ThreadsTypeOK alone is not inductive: what chassis_event_add() pushes is cur[t].
TypeInv == ThreadsTypeOK /\ CallbackHasCon

\* Every step of the event threads keeps the state well typed and every
\* callback attached to a connection.
LEMMA TypeInvStep == TypeInv /\ [ThreadsNext]_threadVars => TypeInv'
<1> SUFFICES ASSUME TypeInv, [ThreadsNext]_threadVars PROVE TypeInv'
  OBVIOUS
<1> USE MainAssumption, PipeSizeAssumption, NoConAssumption
<1> USE DEF TypeInv, ThreadsTypeOK, CallbackHasCon, PC
<1>1. ASSUME NEW c \in Cons, Accept(c) PROVE TypeInv'
  BY <1>1 DEF Accept
<1>2. ASSUME NEW c \in Cons, PrivShutdown(c) PROVE TypeInv'
  BY <1>2 DEF PrivShutdown
<1>3. ASSUME NEW t \in Threads, NEW c \in Cons, Fire(t, c) PROVE TypeInv'
  BY <1>3 DEF Fire
<1>4. ASSUME NEW t \in Threads, chassis_event_add(t) PROVE TypeInv'
  BY <1>4 DEF chassis_event_add
<1>5. ASSUME NEW t \in Threads, CloseCon(t) PROVE TypeInv'
  BY <1>5 DEF CloseCon
<1>6. ASSUME NEW t \in Threads, Notify(t) PROVE TypeInv'
  BY <1>6 DEF Notify
<1>7. ASSUME NEW t \in Threads, TakeOp(t) PROVE TypeInv'
  BY <1>7 DEF TakeOp
<1>8. ASSUME NEW t \in Threads, QueueEmpty(t) PROVE TypeInv'
  BY <1>8 DEF QueueEmpty
<1>9. ASSUME NEW t \in Threads, LeaveLoop(t) PROVE TypeInv'
  BY <1>9 DEF LeaveLoop
<1>10. CASE SetShutdown
  BY <1>10 DEF SetShutdown
<1>11. CASE ThreadsFree
  BY <1>11 DEF ThreadsFree
<1>12. CASE UNCHANGED threadVars
  BY <1>12 DEF threadVars
<1> QED
  BY <1>1, <1>2, <1>3, <1>4, <1>5, <1>6, <1>7, <1>8, <1>9, <1>10, <1>11,
     <1>12 DEF ThreadsNext

\* The initial state is well typed.
LEMMA InitTypeInv == ThreadsInit => TypeInv
<1> SUFFICES ASSUME ThreadsInit PROVE TypeInv
  OBVIOUS
<1>1. shutdown \in BOOLEAN
  BY Zenon DEF ThreadsInit
<1>2. /\ event_queue \in Seq(Cons)
      /\ notify \in 0..PipeSize
  BY PipeSizeAssumption, SMT DEF ThreadsInit
<1>3. /\ event_base \in [Threads -> SUBSET Cons]
      /\ pc \in [Threads -> PC]
      /\ cur \in [Threads -> Cons \cup {NoCon}]
      /\ alive \in SUBSET Cons
  BY SMT DEF ThreadsInit, PC
<1>4. CallbackHasCon
  BY SMT DEF ThreadsInit, CallbackHasCon
<1> QED
  BY <1>1, <1>2, <1>3, <1>4, Zenon DEF TypeInv, ThreadsTypeOK

\* The state of the event threads keeps its type.
THEOREM ThreadsTypeCorrect == ThreadsSpec => []ThreadsTypeOK
<1>1. TypeInv => ThreadsTypeOK
  BY DEF TypeInv
<1> QED
  BY <1>1, InitTypeInv, TypeInvStep, PTL DEF ThreadsSpec
-----------------------------------------------------------------------------
\* No step forgets a queued request: only a thread inside
\* chassis_event_handle() takes requests, and it leaves on an empty queue.
LEMMA WakeupStep == TypeInv /\ NoLostWakeup /\ [ThreadsNext]_threadVars => NoLostWakeup'
<1> SUFFICES ASSUME TypeInv, NoLostWakeup, [ThreadsNext]_threadVars PROVE NoLostWakeup'
  OBVIOUS
<1> USE MainAssumption, PipeSizeAssumption
<1> USE DEF TypeInv, ThreadsTypeOK, NoLostWakeup
<1>1. ASSUME NEW c \in Cons, Accept(c) PROVE NoLostWakeup'
  BY <1>1 DEF Accept
<1>2. ASSUME NEW c \in Cons, PrivShutdown(c) PROVE NoLostWakeup'
  BY <1>2 DEF PrivShutdown
<1>3. ASSUME NEW t \in Threads, NEW c \in Cons, Fire(t, c)
      PROVE  NoLostWakeup'
  BY <1>3 DEF Fire
<1>4. ASSUME NEW t \in Threads, chassis_event_add(t) PROVE NoLostWakeup'
  BY <1>4 DEF chassis_event_add
<1>5. ASSUME NEW t \in Threads, CloseCon(t) PROVE NoLostWakeup'
  BY <1>5 DEF CloseCon
<1>6. ASSUME NEW t \in Threads, Notify(t) PROVE NoLostWakeup'
  BY <1>6 DEF Notify
<1>7. ASSUME NEW t \in Threads, TakeOp(t) PROVE NoLostWakeup'
  BY <1>7 DEF TakeOp
<1>8. ASSUME NEW t \in Threads, QueueEmpty(t) PROVE NoLostWakeup'
  BY <1>8 DEF QueueEmpty
<1>9. ASSUME NEW t \in Threads, LeaveLoop(t) PROVE NoLostWakeup'
  BY <1>9 DEF LeaveLoop
<1>10. CASE SetShutdown
  BY <1>10 DEF SetShutdown
<1>11. CASE ThreadsFree
  BY <1>11 DEF ThreadsFree
<1>12. CASE UNCHANGED threadVars
  BY <1>12 DEF threadVars
<1> QED
  BY <1>1, <1>2, <1>3, <1>4, <1>5, <1>6, <1>7, <1>8, <1>9, <1>10, <1>11,
     <1>12 DEF ThreadsNext

\* A wait-for-event request is never stranded in the queue, whatever the size
\* of the notification pipe and however many threads race for the requests.
THEOREM WakeupsAreNotLost == ThreadsSpec => []NoLostWakeup
<1>1. ThreadsInit => NoLostWakeup
  BY DEF ThreadsInit, NoLostWakeup
<1> QED
  BY <1>1, InitTypeInv, TypeInvStep, WakeupStep, PTL DEF ThreadsSpec
-----------------------------------------------------------------------------
\* Exclusive, pointwise: the form the provers work on.
Apart ==
    /\ \A i, j \in 1..Len(event_queue) :
          event_queue[i] = event_queue[j] => i = j
    /\ \A i \in 1..Len(event_queue), t \in Threads :
          event_queue[i] \notin event_base[t]
    /\ \A t, u \in Threads : \A c \in event_base[t] :
          c \in event_base[u] => t = u
    /\ \A t \in Threads : pc[t] = "callback" =>
          /\ \A i \in 1..Len(event_queue) : event_queue[i] # cur[t]
          /\ \A u \in Threads : cur[t] \notin event_base[u]
          /\ \A u \in Threads :
                pc[u] = "callback" /\ cur[u] = cur[t] => u = t

\* Apart says what Exclusive says.
LEMMA ApartImpliesExclusive == TypeInv /\ Apart => Exclusive
<1> SUFFICES ASSUME TypeInv, Apart PROVE Exclusive
  OBVIOUS
<1>1. DOMAIN event_queue = 1..Len(event_queue)
  BY DEF TypeInv, ThreadsTypeOK
<1>2. Queued \cap Armed = {}
  BY <1>1 DEF Apart, Queued, Armed
<1>3. \A t, u \in Threads : t # u => event_base[t] \cap event_base[u] = {}
  BY DEF Apart
<1>4. OneRequest
  BY <1>1, <1>2, <1>3 DEF Apart, OneRequest
<1>5. Handled \cap Queued = {}
  BY <1>1 DEF Apart, Handled, Queued
<1>6. Handled \cap Armed = {}
  BY DEF Apart, Handled, Armed
<1>7. OneHandler
  BY <1>5, <1>6 DEF Apart, OneHandler
<1> QED
  BY <1>4, <1>7 DEF Exclusive

\* Every step moves a connection from one place to another.
LEMMA ApartStep == TypeInv /\ Apart /\ [ThreadsNext]_threadVars => Apart'
<1> SUFFICES ASSUME TypeInv, Apart, [ThreadsNext]_threadVars PROVE Apart'
  OBVIOUS
<1> USE MainAssumption
<1> USE DEF TypeInv, ThreadsTypeOK, CallbackHasCon, Apart
<1>1. ASSUME NEW c \in Cons, Accept(c) PROVE Apart'
  <2>1. /\ \A i \in 1..Len(event_queue) : event_queue[i] # c
        /\ \A t \in Threads : c \notin event_base[t]
        /\ \A t \in Threads : pc[t] = "callback" => cur[t] # c
    BY <1>1 DEF Accept, Queued, Handled, Armed
  <2> QED
    BY <1>1, <2>1 DEF Accept
<1>2. ASSUME NEW c \in Cons, PrivShutdown(c) PROVE Apart'
  BY <1>2 DEF PrivShutdown
<1>3. ASSUME NEW t \in Threads, NEW c \in Cons, Fire(t, c) PROVE Apart'
  BY <1>3 DEF Fire
<1>4. ASSUME NEW t \in Threads, chassis_event_add(t) PROVE Apart'
  BY <1>4 DEF chassis_event_add
<1>5. ASSUME NEW t \in Threads, CloseCon(t) PROVE Apart'
  BY <1>5 DEF CloseCon
<1>6. ASSUME NEW t \in Threads, Notify(t) PROVE Apart'
  BY <1>6 DEF Notify
<1>7. ASSUME NEW t \in Threads, TakeOp(t) PROVE Apart'
  BY <1>7 DEF TakeOp
<1>8. ASSUME NEW t \in Threads, QueueEmpty(t) PROVE Apart'
  BY <1>8 DEF QueueEmpty
<1>9. ASSUME NEW t \in Threads, LeaveLoop(t) PROVE Apart'
  BY <1>9 DEF LeaveLoop
<1>10. CASE SetShutdown
  BY <1>10 DEF SetShutdown
<1>11. CASE ThreadsFree
  BY <1>11 DEF ThreadsFree
<1>12. CASE UNCHANGED threadVars
  BY <1>12 DEF threadVars
<1> QED
  BY <1>1, <1>2, <1>3, <1>4, <1>5, <1>6, <1>7, <1>8, <1>9, <1>10, <1>11,
     <1>12 DEF ThreadsNext

\* A connection is never queued twice, armed twice, or handled by two threads,
\* and it is not handled while it also waits.
THEOREM ConnectionsAreExclusive == ThreadsSpec => []Exclusive
<1>1. ThreadsInit => Apart
  BY DEF ThreadsInit, Apart
<1> QED
  BY <1>1, ApartImpliesExclusive, InitTypeInv, TypeInvStep, ApartStep, PTL DEF ThreadsSpec
-----------------------------------------------------------------------------
\* Each step of the event threads is a step of WaitRequests, or changes none of
\* its three sets: only Accept, Fire, chassis_event_add(), CloseCon and TakeOp
\* move a connection, and the shutdown drops some.
LEMMA WaitRequestsStep == TypeInv /\ Apart /\ [ThreadsNext]_threadVars => [Abs!Next]_(Abs!vars)
<1> SUFFICES ASSUME TypeInv, Apart, [ThreadsNext]_threadVars PROVE [Abs!Next]_(Abs!vars)
  OBVIOUS
<1> USE MainAssumption, NoConAssumption
<1> USE DEF TypeInv, ThreadsTypeOK, CallbackHasCon, Queued, Handled, Armed
<1>q. DOMAIN event_queue = 1..Len(event_queue)
  OBVIOUS
<1>1. ASSUME NEW c \in Cons, Accept(c) PROVE Abs!Accept(c)
  <2>1. c \in Cons \ Abs!Known
    BY <1>1 DEF Accept, Abs!Known
  <2>2. Handled' = Handled \cup {c}
    BY <1>1 DEF Accept
  <2>3. UNCHANGED <<Queued, Armed>>
    BY <1>1 DEF Accept
  <2> QED
    BY <2>1, <2>2, <2>3, Zenon DEF Abs!Accept
<1>2. ASSUME NEW c \in Cons, PrivShutdown(c) PROVE Abs!Drop
  <2>1. UNCHANGED <<Queued, Handled>>
    BY <1>2 DEF PrivShutdown
  <2>2. Armed' \subseteq Armed
    BY <1>2 DEF PrivShutdown
  <2> QED
    BY <2>1, <2>2, Zenon DEF Abs!Drop
<1>3. ASSUME NEW t \in Threads, NEW c \in Cons, Fire(t, c) PROVE Abs!Fire(c)
  <2>1. c \in Armed
    BY <1>3 DEF Fire
  <2>2. Armed' = Armed \ {c}
    BY <1>3 DEF Fire, Apart
  <2>3. Handled' = Handled \cup {c}
    BY <1>3 DEF Fire
  <2>4. UNCHANGED Queued
    BY <1>3 DEF Fire
  <2> QED
    BY <2>1, <2>2, <2>3, <2>4, Zenon DEF Abs!Fire
<1>4. ASSUME NEW t \in Threads, chassis_event_add(t) PROVE Abs!Request(cur[t])
  <2>1. cur[t] \in Handled
    BY <1>4 DEF chassis_event_add
  <2>2. Handled' = Handled \ {cur[t]}
    BY <1>4 DEF chassis_event_add, Apart
  <2>3. Queued' = Queued \cup {cur[t]}
    BY <1>4, <1>q DEF chassis_event_add
  <2>4. UNCHANGED Armed
    BY <1>4 DEF chassis_event_add
  <2> QED
    BY <2>1, <2>2, <2>3, <2>4, Zenon DEF Abs!Request
<1>5. ASSUME NEW t \in Threads, CloseCon(t) PROVE Abs!Close(cur[t])
  <2>1. cur[t] \in Handled
    BY <1>5 DEF CloseCon
  <2>2. Handled' = Handled \ {cur[t]}
    BY <1>5 DEF CloseCon, Apart
  <2>3. UNCHANGED <<Queued, Armed>>
    BY <1>5 DEF CloseCon
  <2> QED
    BY <2>1, <2>2, <2>3, Zenon DEF Abs!Close
<1>6. ASSUME NEW t \in Threads, TakeOp(t) PROVE Abs!Arm(Head(event_queue))
  <2>1. Head(event_queue) \in Queued
    BY <1>6, <1>q DEF TakeOp
  <2>2. Queued' = Queued \ {Head(event_queue)}
    <3>1. /\ event_queue' \in Seq(Cons) /\ Len(event_queue') = Len(event_queue) - 1
          /\ \A i \in 1..Len(event_queue') : event_queue'[i] = event_queue[i + 1]
          /\ DOMAIN event_queue' = 1..Len(event_queue')
          /\ Len(event_queue) \in Nat \ {0} /\ Head(event_queue) = event_queue[1]
      BY <1>6 DEF TakeOp
    <3>2. ASSUME NEW c \in Queued' PROVE c \in Queued \ {Head(event_queue)}
      <4>1. PICK i \in 1..Len(event_queue') : c = event_queue'[i]
        BY <3>1, <3>2
      <4>2. i + 1 \in 1..Len(event_queue) /\ 1 \in 1..Len(event_queue) /\ i + 1 # 1
        BY <4>1, <3>1
      <4>3. c = event_queue[i + 1] /\ event_queue[i + 1] # event_queue[1]
        BY <4>1, <4>2, <3>1, Zenon DEF Apart
      <4> QED
        BY <4>2, <4>3, <3>1, <1>q, Zenon
    <3>3. ASSUME NEW c \in Queued, c # Head(event_queue) PROVE c \in Queued'
      <4>1. PICK i \in 1..Len(event_queue) : c = event_queue[i]
        BY <1>q
      <4>2. i - 1 \in 1..Len(event_queue') /\ (i - 1) + 1 = i
        BY <4>1, <3>1, <3>3
      <4> QED
        BY <4>1, <4>2, <3>1, Zenon
    <3> QED
      BY <3>2, <3>3, Zenon
  <2>3. Armed' = Armed \cup {Head(event_queue)}
    BY <1>6 DEF TakeOp
  <2>4. UNCHANGED Handled
    BY <1>6 DEF TakeOp
  <2> QED
    BY <2>1, <2>2, <2>3, <2>4, Zenon DEF Abs!Arm
<1>7. ASSUME ThreadsFree PROVE Abs!Drop
  <2>1. Queued' = {}
    BY <1>7 DEF ThreadsFree
  <2>2. UNCHANGED <<Handled, Armed>>
    BY <1>7 DEF ThreadsFree
  <2> QED
    BY <2>1, <2>2, Zenon DEF Abs!Drop
<1>8. ASSUME NEW t \in Threads, Notify(t) \/ QueueEmpty(t) \/ LeaveLoop(t)
      PROVE  UNCHANGED Abs!vars
  BY <1>8 DEF Notify, QueueEmpty, LeaveLoop, Abs!vars
<1>9. ASSUME SetShutdown \/ UNCHANGED threadVars PROVE UNCHANGED Abs!vars
  BY <1>9 DEF SetShutdown, threadVars, Abs!vars
<1>10. /\ \A t \in Threads : chassis_event_add(t) \/ CloseCon(t) => cur[t] \in Cons
       /\ \A t \in Threads : TakeOp(t) => Head(event_queue) \in Cons
  BY DEF chassis_event_add, CloseCon, TakeOp
<1> HIDE DEF TypeInv, ThreadsTypeOK, CallbackHasCon, Queued, Handled, Armed
<1>11. (\E c \in Cons : Accept(c) \/ PrivShutdown(c)) => Abs!Next
  BY <1>1, <1>2 DEF Abs!Next
<1>12. ASSUME NEW t \in Threads PROVE
         /\ (\E c \in Cons : Fire(t, c)) => Abs!Next
         /\ chassis_event_add(t) \/ CloseCon(t) \/ TakeOp(t) => Abs!Next
  BY <1>3, <1>4, <1>5, <1>6, <1>10 DEF Abs!Next
<1>13. ThreadsFree => Abs!Next
  BY <1>7 DEF Abs!Next
<1> QED
  BY <1>8, <1>9, <1>11, <1>12, <1>13 DEF ThreadsNext

\* The event threads keep what WaitRequests promises a connection, for any
\* number of threads and connections: the initial states map to its initial
\* state and every step to one of its steps or to a stutter.
THEOREM WaitRequestsImplemented == ThreadsSpec => ImplementsWaitRequests
<1>1. ThreadsInit => Apart
  BY DEF ThreadsInit, Apart
<1>2. ThreadsInit => Abs!Init
  BY DEF ThreadsInit, Abs!Init, Queued, Handled, Armed
<1> QED
  BY <1>1, <1>2, InitTypeInv, TypeInvStep, ApartStep, WaitRequestsStep, PTL
     DEF ThreadsSpec, ImplementsWaitRequests, Abs!Spec
-----------------------------------------------------------------------------
(***************************************************************************)
(* RotationDone.                                                           *)
(***************************************************************************)
\* What the main thread may have to do: a part of the handler of a SIGHUP, or steps that
\* have nothing to do with the rotation.
RotateSteps == {<<"closing", "rotate", "re-opened">>, <<"rotate", "re-opened">>, <<"re-opened">>}
OtherSteps == {"initiating", "shutdown", "bye", "free", "failure"}

RotationTypes ==
    /\ named \in Nat /\ asked \in Nat /\ asked <= named
    /\ log_file_fd \in Int /\ rotate_logs \in BOOLEAN
    /\ todo \in RotateSteps \cup Seq(OtherSteps)
    /\ mutex = [holder |-> mutex.holder, text |-> mutex.text, verbose |-> mutex.verbose,
                rotated |-> mutex.rotated]
    /\ mutex.rotated \in BOOLEAN

\* The log may be in a file from before only as long as the flag is set and the main thread
\* has still to log its "re-opened", which re-opens the file if no worker did.  A thread
\* that has re-opened the file clears the flag when it gives the mutex back; it is gone
\* before the flag is set again, since the main thread needs the mutex for "re-opened".
RotationInv ==
    /\ RotationTypes
    /\ child \in {"starting", "entering"} => todo = <<>>
    /\ mutex.holder = "main" => todo # <<>> /\ Head(todo) \notin Silent
    /\ rotate_logs /\ log_file_fd # -1 => todo = <<"re-opened">>
    /\ mutex.rotated => rotate_logs /\ (log_file_fd = -1 \/ log_file_fd >= asked)
    /\ mutex.holder = "main" /\ rotate_logs /\ log_file_fd # -1 => mutex.rotated
    /\ \/ log_file_fd = -1 \/ log_file_fd >= asked
       \/ rotate_logs /\ todo = <<"re-opened">> /\ mutex.holder # "main"

rotationVars == <<named, log_file_fd, rotate_logs, mutex, asked, todo>>

LEMMA HandlersAreSteps ==
    /\ sighup_handler \in RotateSteps
    /\ sigterm_handler \in Seq(OtherSteps)
    /\ exit_nicely \in Seq(OtherSteps)
    /\ <<"failure">> \o exit_nicely \in Seq(OtherSteps)
<1>1. sigterm_handler \in Seq(OtherSteps)
  <2>1. "initiating" \in OtherSteps /\ "shutdown" \in OtherSteps
    BY DEF OtherSteps
  <2>2. <<>> \in Seq(OtherSteps) /\ <<"initiating", "shutdown">> \in Seq(OtherSteps)
    BY <2>1
  <2> QED BY <2>2, Zenon DEF sigterm_handler
<1>2. <<"bye", "free">> \in Seq(OtherSteps) /\ <<"failure">> \in Seq(OtherSteps)
  BY DEF OtherSteps
<1>3. exit_nicely \in Seq(OtherSteps)
  BY <1>1, <1>2 DEF exit_nicely
<1>4. <<"failure">> \o exit_nicely \in Seq(OtherSteps)
  BY <1>2, <1>3
<1> QED BY <1>1, <1>3, <1>4 DEF sighup_handler, RotateSteps

\* What is left after a step of the main thread.
LEMMA StepsLeft ==
    ASSUME NEW steps \in RotateSteps \cup Seq(OtherSteps), steps # <<>>
    PROVE  /\ Tail(steps) \in RotateSteps \cup Seq(OtherSteps)
           /\ Tail(steps) = <<"re-opened">> => Head(steps) = "rotate"
           /\ Head(steps) = "rotate" => steps = <<"rotate", "re-opened">>
           /\ steps = <<"re-opened">> => Tail(steps) = <<>> /\ Head(steps) = "re-opened"
           /\ steps = <<"rotate", "re-opened">> => Tail(steps) = <<"re-opened">>
<1>1. CASE steps \in RotateSteps
  <2>1. CASE steps = <<"closing", "rotate", "re-opened">>
    <3>1. Head(steps) = "closing" /\ Tail(steps) = <<"rotate", "re-opened">>
      BY <2>1
    <3>2. <<"rotate", "re-opened">> # <<"re-opened">> /\ steps # <<"re-opened">> /\ steps # <<"rotate", "re-opened">>
      BY <2>1
    <3> QED BY <3>1, <3>2 DEF RotateSteps
  <2>2. CASE steps = <<"rotate", "re-opened">>
    <3>1. Head(steps) = "rotate" /\ Tail(steps) = <<"re-opened">> /\ steps # <<"re-opened">>
      BY <2>2
    <3> QED BY <2>2, <3>1, Zenon DEF RotateSteps
  <2>3. CASE steps = <<"re-opened">>
    <3>1. Head(steps) = "re-opened" /\ Tail(steps) = <<>> /\ <<>> # <<"re-opened">>
          /\ steps # <<"rotate", "re-opened">>
      BY <2>3
    <3>2. <<>> \in Seq(OtherSteps)
      OBVIOUS
    <3> QED BY <3>1, <3>2, Zenon
  <2> QED BY <1>1, <2>1, <2>2, <2>3, Zenon DEF RotateSteps
<1>2. CASE steps \in Seq(OtherSteps)
  <2>1. /\ Head(steps) \in OtherSteps /\ Tail(steps) \in Seq(OtherSteps)
        /\ \A t \in Seq(OtherSteps) : t # <<"re-opened">> /\ t # <<"rotate", "re-opened">>
    <3>1. Head(steps) \in OtherSteps /\ Tail(steps) \in Seq(OtherSteps)
      BY <1>2
    <3>2. ASSUME NEW t \in Seq(OtherSteps) PROVE t # <<"re-opened">> /\ t # <<"rotate", "re-opened">>
      <4>1. t # <<>> => t[1] \in OtherSteps
        OBVIOUS
      <4> QED BY <4>1, SMTT(30) DEF OtherSteps
    <3> QED BY <3>1, <3>2
  <2> QED BY <1>2, <2>1, Zenon DEF OtherSteps
<1> QED BY <1>1, <1>2

LEMMA RotationInit == Init => RotationInv
<1> SUFFICES ASSUME Init PROVE RotationInv
  OBVIOUS
<1>1. /\ named = 0 /\ asked = 0 /\ log_file_fd = 0 /\ rotate_logs = FALSE /\ todo = <<>>
      /\ mutex = Unlocked
  BY DEF Init, LogIs
<1>2. <<>> \in Seq(OtherSteps)
  OBVIOUS
<1>3. mutex.holder = "none" /\ mutex.rotated = FALSE
      /\ mutex = [holder |-> mutex.holder, text |-> mutex.text, verbose |-> mutex.verbose,
                  rotated |-> mutex.rotated]
  BY <1>1 DEF Unlocked
<1>4. RotationTypes
  <2>1. todo \in RotateSteps \cup Seq(OtherSteps)
    BY <1>1, <1>2, Zenon
  <2>2. 0 \in Nat /\ 0 <= 0 /\ 0 \in Int /\ FALSE \in BOOLEAN
    OBVIOUS
  <2> QED BY <1>1, <1>3, <2>1, <2>2, Zenon DEF RotationTypes
<1> QED BY <1>1, <1>3, <1>4 DEF RotationInv

LEMMA RotationElsewhere ==
    ASSUME RotationInv, UNCHANGED rotationVars, child' \in {"starting", "entering"} => child' = child
    PROVE  RotationInv'
BY DEF RotationInv, RotationTypes, rotationVars

\* The mutex is taken: whoever takes it while the flag is set re-opens the file.
LEMMA RotationBegin ==
    ASSUME RotationInv, NEW t \in {"main", "worker"}, NEW text, NEW verbose, log_begin(t, text, verbose),
           UNCHANGED <<asked, todo, child>>, t = "main" => todo # <<>> /\ Head(todo) \notin Silent
    PROVE  RotationInv'
<1>1. UNCHANGED <<named, rotate_logs, asked, todo, child>> /\ mutex.holder = "none"
  BY DEF log_begin
<1>2. CASE /\ log_file_fd # -1 /\ rotate_logs /\ log_file_fd' \in log_open
           /\ mutex' = [holder |-> t, text |-> text, verbose |-> verbose, rotated |-> TRUE]
  <2>1. log_file_fd' = -1 \/ log_file_fd' = named
    BY <1>2 DEF log_open
  <2>2. log_file_fd' \in Int /\ (log_file_fd' = -1 \/ log_file_fd' >= asked)
    BY <2>1 DEF RotationInv, RotationTypes
  <2>3. /\ mutex'.holder = t /\ mutex'.rotated = TRUE
        /\ mutex' = [holder |-> mutex'.holder, text |-> mutex'.text, verbose |-> mutex'.verbose,
                     rotated |-> mutex'.rotated]
    BY <1>2
  <2>4. RotationTypes'
    BY <1>1, <2>2, <2>3, Zenon DEF RotationInv, RotationTypes
  <2> QED BY <1>1, <1>2, <2>2, <2>3, <2>4 DEF RotationInv
<1>3. CASE /\ ~(log_file_fd # -1 /\ rotate_logs) /\ UNCHANGED log_file_fd
           /\ mutex' = [holder |-> t, text |-> text, verbose |-> verbose, rotated |-> FALSE]
  <2>1. /\ mutex'.holder = t /\ mutex'.rotated = FALSE
        /\ mutex' = [holder |-> mutex'.holder, text |-> mutex'.text, verbose |-> mutex'.verbose,
                     rotated |-> mutex'.rotated]
    BY <1>3
  <2>2. RotationTypes'
    BY <1>1, <1>3, <2>1 DEF RotationInv, RotationTypes
  <2> QED BY <1>1, <1>3, <2>1, <2>2 DEF RotationInv
<1> QED BY <1>2, <1>3 DEF log_begin, log_rotate_reopen

\* The mutex is given back: by a worker, or by the main thread that goes on to its next step.
LEMMA RotationEnd ==
    ASSUME RotationInv, NEW t \in {"main", "worker"}, log_end(t), UNCHANGED <<asked, child>>,
           IF t = "main" THEN todo # <<>> /\ todo' = Tail(todo) ELSE UNCHANGED todo
    PROVE  RotationInv'
<1>1. /\ mutex.holder = t /\ mutex' = Unlocked /\ UNCHANGED <<named, log_file_fd>>
      /\ rotate_logs' = IF mutex.rotated THEN FALSE ELSE rotate_logs
  BY DEF log_end
<1>2. /\ mutex'.holder = "none" /\ mutex'.rotated = FALSE
      /\ mutex' = [holder |-> mutex'.holder, text |-> mutex'.text, verbose |-> mutex'.verbose,
                   rotated |-> mutex'.rotated]
  BY <1>1 DEF Unlocked
<1>3. todo' \in RotateSteps \cup Seq(OtherSteps)
  BY StepsLeft, Zenon DEF RotationInv, RotationTypes
<1>4. RotationTypes'
  BY <1>1, <1>2, <1>3, Zenon DEF RotationInv, RotationTypes
<1>5. CASE t = "worker"
  BY <1>1, <1>2, <1>4, <1>5 DEF RotationInv
<1>6. CASE t = "main"
  <2>1. /\ todo # <<>> /\ Head(todo) # "rotate" /\ todo' = Tail(todo)
        /\ log_file_fd = -1 \/ log_file_fd >= asked
        /\ rotate_logs /\ log_file_fd # -1 => mutex.rotated
    BY <1>1, <1>6 DEF RotationInv, Silent
  <2>2. child \in {"starting", "entering"} => FALSE
    BY <2>1 DEF RotationInv
  <2>3. rotate_logs' => log_file_fd = -1
    BY <1>1, <2>1, Zenon DEF RotationInv, RotationTypes
  <2> QED BY <1>1, <1>2, <1>4, <2>1, <2>2, <2>3 DEF RotationInv
<1> QED BY <1>5, <1>6

\* The handler of a SIGHUP sets the flag, with "re-opened" still to be logged.
LEMMA RotationStep == ASSUME RotationInv, child_step PROVE RotationInv'
<1>1. /\ todo # <<>> /\ Head(todo) \in Silent /\ todo' = Tail(todo)
      /\ todo' \in RotateSteps \cup Seq(OtherSteps)
  BY StepsLeft DEF child_step, RotationInv, RotationTypes
<1>2. mutex.holder # "main" /\ child \notin {"starting", "entering"}
  BY <1>1 DEF RotationInv
<1>3. CASE Head(todo) = "rotate"
  <2>1. /\ rotate_logs' = TRUE /\ asked' = named
        /\ UNCHANGED <<named, log_file_fd, mutex, child>>
    BY <1>3 DEF child_step, log_set_logrotate
  <2>2. todo' = <<"re-opened">>
    BY <1>1, <1>3, StepsLeft DEF RotationInv, RotationTypes
  <2>3. todo # <<"re-opened">>
    BY <1>3
  <2>4. ~mutex.rotated \/ log_file_fd = -1
    BY <2>3 DEF RotationInv
  <2>5. RotationTypes'
    BY <1>1, <2>1 DEF RotationInv, RotationTypes
  <2> QED BY <1>2, <2>1, <2>2, <2>4, <2>5 DEF RotationInv
<1>4. CASE Head(todo) # "rotate"
  <2>1. /\ UNCHANGED <<asked, named, log_file_fd, rotate_logs, mutex>>
        /\ child' = child \/ child' = "exited"
    BY <1>4 DEF child_step, logVars
  <2>2. todo # <<"re-opened">>
    BY <1>1 DEF Silent
  <2>3. (log_file_fd = -1 \/ log_file_fd >= asked) /\ ~(rotate_logs /\ log_file_fd # -1)
    BY <2>2 DEF RotationInv
  <2>4. RotationTypes'
    BY <1>1, <2>1 DEF RotationInv, RotationTypes
  <2> QED BY <1>2, <2>1, <2>3, <2>4 DEF RotationInv
<1> QED BY <1>3, <1>4

\* The main thread, which had nothing to do, starts on a handler or on its way out.
LEMMA RotationPlan ==
    ASSUME RotationInv, todo = <<>>, todo' \in RotateSteps \cup Seq(OtherSteps),
           UNCHANGED <<named, log_file_fd, rotate_logs, mutex, asked>>,
           child' \in {"starting", "entering"} => todo' = <<>>
    PROVE  RotationInv'
<1>1. todo # <<"re-opened">>
  OBVIOUS
<1>2. /\ mutex.holder # "main" /\ ~(rotate_logs /\ log_file_fd # -1)
      /\ log_file_fd = -1 \/ log_file_fd >= asked
  BY <1>1 DEF RotationInv
<1>3. RotationTypes'
  BY DEF RotationInv, RotationTypes
<1> QED BY <1>2, <1>3 DEF RotationInv

\* A new proxy starts with the log as the angel has it.
LEMMA RotationFork == ASSUME RotationInv, angel_fork PROVE RotationInv'
<1>1. CASE UNCHANGED <<child, mainVars, asked, announced, logVars>>
  BY <1>1, RotationElsewhere DEF rotationVars, mainVars, logVars
<1>2. CASE todo' = <<>> /\ asked' = 0 /\ log_new(0)
  <2>1. /\ named' = named /\ log_file_fd' = 0 /\ rotate_logs' = FALSE /\ mutex' = Unlocked
    BY <1>2 DEF log_new
  <2>2. /\ mutex'.holder = "none" /\ mutex'.rotated = FALSE
        /\ mutex' = [holder |-> mutex'.holder, text |-> mutex'.text, verbose |-> mutex'.verbose,
                     rotated |-> mutex'.rotated]
    BY <2>1 DEF Unlocked
  <2>3. named \in Nat /\ 0 \in Nat /\ 0 <= named /\ 0 \in Int /\ 0 >= 0 /\ <<>> \in Seq(OtherSteps)
    BY DEF RotationInv, RotationTypes
  <2>4. todo' \in RotateSteps \cup Seq(OtherSteps)
    BY <1>2, <2>3, Zenon
  <2>5. RotationTypes'
    BY <1>2, <2>1, <2>2, <2>3, <2>4, Zenon DEF RotationTypes
  <2> QED BY <1>2, <2>1, <2>2, <2>3, <2>5 DEF RotationInv
<1> QED BY <1>1, <1>2 DEF angel_fork

LEMMA RotationMove == ASSUME RotationInv, Move PROVE RotationInv'
<1>1. /\ named' = named + 1
      /\ UNCHANGED <<log_file_fd, rotate_logs, mutex, asked, todo, child>>
  BY DEF Move, MoveFile, mainVars
<1>2. RotationTypes'
  BY <1>1 DEF RotationInv, RotationTypes
<1> QED BY <1>1, <1>2 DEF RotationInv

LEMMA RotationMain == ASSUME RotationInv, Main PROVE RotationInv'
<1>0. <<"failure">> \o exit_nicely \in RotateSteps \cup Seq(OtherSteps)
      /\ exit_nicely \in RotateSteps \cup Seq(OtherSteps)
      /\ sighup_handler \in RotateSteps \cup Seq(OtherSteps)
      /\ sigterm_handler \in RotateSteps \cup Seq(OtherSteps)
      /\ <<>> \in RotateSteps \cup Seq(OtherSteps)
  <2>1. <<>> \in Seq(OtherSteps)
    OBVIOUS
  <2> QED BY <2>1, HandlersAreSteps, Zenon
<1>1. CASE child_setup
  <2>1. /\ todo = <<>> /\ UNCHANGED <<named, log_file_fd, rotate_logs, mutex, asked>>
        /\ todo' \in {<<>>, <<"failure">> \o exit_nicely}
        /\ child' \in {"starting", "entering"} => todo' = <<>>
    BY <1>1 DEF child_setup, RotationInv, logVars
  <2> QED BY <1>0, <2>1, RotationPlan, Zenon
<1>2. CASE child_start
  <2>1. /\ todo = <<>> /\ UNCHANGED <<named, log_file_fd, rotate_logs, mutex, asked>>
        /\ todo' \in {<<>>, <<"failure">> \o exit_nicely}
        /\ child' \notin {"starting", "entering"}
    BY <1>2 DEF child_start, RotationInv, logVars
  <2> QED BY <1>0, <2>1, RotationPlan, Zenon
<1>3. CASE \E s \in Signals : child_signal(s)
  <2>1. /\ todo = <<>> /\ UNCHANGED <<named, log_file_fd, rotate_logs, mutex, asked>>
        /\ todo' \in {sighup_handler, sigterm_handler}
        /\ child' \notin {"starting", "entering"}
    BY <1>3 DEF child_signal, logVars
  <2> QED BY <1>0, <2>1, RotationPlan
<1>4. CASE child_leave
  <2>1. /\ todo = <<>> /\ UNCHANGED <<named, log_file_fd, rotate_logs, mutex, asked>>
        /\ todo' = exit_nicely /\ child' \notin {"starting", "entering"}
    BY <1>4 DEF child_leave, logVars
  <2> QED BY <1>0, <2>1, RotationPlan
<1>5. CASE child_step
  BY <1>5, RotationStep
<1>6. CASE child_say
  <2>1. /\ log_begin("main", Head(todo), quiet /\ Head(todo) # "failure")
        /\ UNCHANGED <<asked, todo, child>> /\ todo # <<>> /\ Head(todo) \notin Silent
    BY <1>6 DEF child_say, mainVars
  <2> QED BY <2>1, RotationBegin
<1>7. CASE child_said
  BY <1>7, RotationEnd DEF child_said
<1> QED BY <1>1, <1>2, <1>3, <1>4, <1>5, <1>6, <1>7 DEF Main

LEMMA RotationNext == ASSUME RotationInv, [Next]_vars PROVE RotationInv'
<1>1. CASE Angel
  <2>1. CASE angel_fork
    BY <2>1, RotationFork
  <2>2. CASE angel_install \/ angel_wait \/ angel_sleep
    BY <2>2, RotationElsewhere DEF angel_install, angel_wait, angel_sleep, rotationVars, mainVars, logVars
  <2> QED BY <1>1, <2>1, <2>2 DEF Angel
<1>2. CASE Main
  BY <1>2, RotationMain
<1>3. CASE worker_say
  <2>1. PICK text \in Texts, verbose \in BOOLEAN : log_begin("worker", text, verbose)
    BY <1>3 DEF worker_say
  <2>2. UNCHANGED <<asked, todo, child>>
    BY <1>3 DEF worker_say, mainVars
  <2> QED BY <2>1, <2>2, RotationBegin
<1>4. CASE worker_said
  <2>1. log_end("worker") /\ UNCHANGED <<asked, child, todo>>
    BY <1>4 DEF worker_said, mainVars
  <2> QED BY <2>1, RotationEnd
<1>5. CASE Move
  BY <1>5, RotationMove
<1>6. CASE Crash
  BY <1>6, RotationElsewhere DEF Crash, rotationVars, mainVars, logVars
<1>7. ASSUME NEW s \in Signals, SignalAngel(s) \/ SignalChild(s) PROVE RotationInv'
  <2>1. UNCHANGED rotationVars /\ (child' = child \/ child' = "killed")
    BY <1>7 DEF SignalAngel, SignalChild, deliver, rotationVars, logVars, angelVars
  <2> QED BY <2>1, RotationElsewhere
<1>8. CASE Rest \/ UNCHANGED vars
  <2>1. UNCHANGED rotationVars /\ child' = child
    BY <1>8 DEF Rest, vars, rotationVars, mainVars, logVars
  <2> QED BY <2>1, RotationElsewhere
<1> QED BY <1>1, <1>2, <1>3, <1>4, <1>5, <1>6, <1>7, <1>8 DEF Next

\* However often the log file is moved and the proxy is asked to rotate, killed and started
\* again, and whichever thread logs first: once the handler of a SIGHUP is through, no
\* thread writes to a file that had been moved away before.
THEOREM RotationsAreNotLost == Spec => []RotationDone
<1>1. RotationInv => RotationDone
  <2>1. <<>> # <<"re-opened">>
    OBVIOUS
  <2> QED BY <2>1 DEF RotationInv, RotationDone
<1> QED BY <1>1, RotationInit, RotationNext, PTL DEF Spec

-----------------------------------------------------------------------------
(***************************************************************************)
(* AllTold.  Told is a function defined by recursion over the lines.  That *)
(* the lines have exactly one such function is itself a part of the        *)
(* invariant: a line more extends it.                                      *)
(***************************************************************************)
Logged == Texts \cup OtherSteps \cup {"closing", "re-opened"}
Lines == [text : Logged \cup {NoText}, repeated : Nat]

IsTelling(f, ls) ==
    f = [n \in 0..Len(ls) |-> IF n = 0 THEN <<>> ELSE Tell(f[n - 1], ls[n])]

\* The lines ls, with the repeats written out, are t.
Tells(ls, t) ==
    /\ \E f : IsTelling(f, ls)
    /\ \A f : IsTelling(f, ls) => f[Len(ls)] = t

LEMMA ToldIsTelling == ASSUME NEW t, Tells(lines, t) PROVE Told = t
<1> DEFINE g == CHOOSE f : IsTelling(f, lines)
<1>1. IsTelling(g, lines)
  BY Zenon DEF Tells
<1>2. g[Len(lines)] = t
  BY <1>1, Zenon DEF Tells
<1>3. Told = g[Len(lines)]
  BY Zenon DEF Told, IsTelling
<1> QED BY <1>2, <1>3

LEMMA NothingTold == Tells(<<>>, <<>>)
<1> DEFINE f0 == [n \in 0..0 |-> <<>>]
<1>1. Len(<<>>) = 0 /\ 0..0 = {0}
  OBVIOUS
<1>2. IsTelling(f0, <<>>)
  BY <1>1 DEF IsTelling
<1>3. ASSUME NEW f, IsTelling(f, <<>>) PROVE f[Len(<<>>)] = <<>>
  BY <1>1, <1>3 DEF IsTelling
<1> QED BY <1>2, <1>3 DEF Tells

LEMMA OneLineMore ==
    ASSUME NEW ls \in Seq(Lines), NEW t, Tells(ls, t), NEW line \in Lines
    PROVE  Tells(Append(ls, line), Tell(t, line))
<1> DEFINE more == Append(ls, line)
           N == Len(ls)
<1>1. /\ N \in Nat /\ Len(more) = N + 1 /\ more[N + 1] = line
      /\ \A n \in 1..N : more[n] = ls[n]
  BY AppendProperties
<1> HIDE DEF more, N
<1>2. N = Len(ls)
  BY DEF N
<1>3. ASSUME NEW f, IsTelling(f, more) PROVE f[N + 1] = Tell(t, line)
  <2> DEFINE g == [n \in 0..N |-> f[n]]
  <2>1. \A n \in 0..N + 1 : f[n] = IF n = 0 THEN <<>> ELSE Tell(f[n - 1], more[n])
    BY <1>1, <1>3 DEF IsTelling
  <2>2. \A n \in 0..N : n \in 0..N + 1 /\ (n # 0 => n - 1 \in 0..N /\ n \in 1..N)
    BY <1>1
  <2>3. \A n \in 0..N : g[n] = IF n = 0 THEN <<>> ELSE Tell(g[n - 1], ls[n])
    BY <1>1, <2>1, <2>2, Zenon
  <2>4. IsTelling(g, ls)
    BY <1>2, <2>3, Zenon DEF IsTelling
  <2>5. g[N] = t
    BY <1>2, <2>4, Zenon DEF Tells
  <2>6. N + 1 \in 0..N + 1 /\ N \in 0..N /\ N + 1 # 0 /\ (N + 1) - 1 = N
    BY <1>1
  <2>7. f[N + 1] = Tell(f[N], line)
    BY <1>1, <2>1, <2>6
  <2> QED BY <2>5, <2>6, <2>7
<1>4. \E f : IsTelling(f, more)
  <2>1. PICK g : IsTelling(g, ls)
    BY DEF Tells
  <2> DEFINE f == [n \in 0..N + 1 |-> IF n = N + 1 THEN Tell(g[N], line) ELSE g[n]]
  <2>2. \A n \in 0..N : g[n] = IF n = 0 THEN <<>> ELSE Tell(g[n - 1], ls[n])
    BY <1>1, <1>2, <2>1, Zenon DEF IsTelling
  <2>3. ASSUME NEW n \in 0..N + 1 PROVE f[n] = IF n = 0 THEN <<>> ELSE Tell(f[n - 1], more[n])
    <3>1. CASE n = N + 1
      <4>1. N \in 0..N + 1 /\ N # N + 1 /\ n # 0 /\ n - 1 = N
        BY <1>1, <3>1
      <4>2. f[N] = g[N] /\ f[n] = Tell(g[N], line)
        BY <3>1, <4>1
      <4> QED BY <1>1, <3>1, <4>1, <4>2
    <3>2. CASE n # N + 1
      <4>1. n \in 0..N /\ (n # 0 => n - 1 \in 0..N + 1 /\ n - 1 # N + 1 /\ n \in 1..N)
        BY <1>1, <3>2
      <4>2. f[n] = g[n] /\ (n # 0 => f[n - 1] = g[n - 1])
        BY <3>2, <4>1
      <4> QED BY <1>1, <2>2, <4>1, <4>2
    <3> QED BY <3>1, <3>2
  <2>4. f = [n \in 0..N + 1 |-> IF n = 0 THEN <<>> ELSE Tell(f[n - 1], more[n])]
    BY <2>3, Zenon
  <2>5. IsTelling(f, more)
    BY <1>1, <2>4, Zenon DEF IsTelling
  <2> QED BY <2>5, Zenon
<1> QED BY <1>1, <1>3, <1>4, Zenon DEF Tells, more

Repeats(text, n) == [i \in 1..n |-> text]

LEMMA RepeatsAreTexts ==
    ASSUME NEW S, NEW text \in S, NEW n \in Nat
    PROVE  /\ Repeats(text, n) \in Seq(S) /\ Len(Repeats(text, n)) = n
           /\ Repeats(text, 0) = <<>>
           /\ \A i \in 1..n : Repeats(text, n)[i] = text
BY DEF Repeats

LEMMA OneRepeatMore ==
    ASSUME NEW S, NEW t \in Seq(S), NEW text \in S, NEW n \in Nat
    PROVE  t \o Repeats(text, n + 1) = Append(t \o Repeats(text, n), text)
<1> DEFINE r == Repeats(text, n)
<1>1. r \in Seq(S) /\ <<text>> \in Seq(S)
  BY RepeatsAreTexts
<1>2. Repeats(text, n + 1) = Append(r, text)
  BY DEF Repeats
<1> HIDE DEF r
<1>3. Append(r, text) = r \o <<text>>
  BY <1>1, AppendIsConcat
<1>4. (t \o r) \o <<text>> = t \o (r \o <<text>>)
  BY <1>1, ConcatAssociative
<1>5. Append(t \o r, text) = (t \o r) \o <<text>>
  BY <1>1, AppendIsConcat
<1> QED BY <1>2, <1>3, <1>4, <1>5, Zenon DEF r

\* What is held back are repeats of the last message that was written.
LogTells(t) ==
    /\ t \in Seq(Logged) /\ Tells(lines, t)
    /\ last_msg = IF t = <<>> THEN NoText ELSE t[Len(t)]
    /\ given = t \o Repeats(last_msg, last_msg_count)
    /\ last_msg_count > 0 => t # <<>>

LogInv ==
    /\ lines \in Seq(Lines) /\ last_msg_count \in Nat
    /\ \E t : LogTells(t)
    /\ mutex.holder # "none" => mutex.text \in Logged

writtenVars == <<last_msg, last_msg_count, lines, given>>

LEMMA NoTextIsNotLogged == NoText \notin Logged
<1>1. NoText \notin Texts
  BY ChassisAssumption
<1>2. NoText \notin OtherSteps /\ NoText \notin {"closing", "re-opened"}
  BY DEF NoText, OtherSteps
<1> QED BY <1>1, <1>2, Zenon DEF Logged

LEMMA LogStarts ==
    ASSUME lines = <<>>, given = <<>>, last_msg = NoText, last_msg_count = 0, mutex = Unlocked
    PROVE  LogInv
<1>1. <<>> \in Seq(Lines) /\ <<>> \in Seq(Logged) /\ ~(0 > 0) /\ 0 \in Nat
  OBVIOUS
<1>2. <<>> \o Repeats(NoText, 0) = <<>>
  <2>1. Repeats(NoText, 0) = <<>>
    BY DEF Repeats
  <2> QED BY <2>1
<1>3. LogTells(<<>>)
  BY <1>1, <1>2, NothingTold, Zenon DEF LogTells
<1>4. mutex.holder = "none"
  BY DEF Unlocked
<1> QED BY <1>1, <1>3, <1>4, Zenon DEF LogInv

LEMMA LogElsewhere ==
    ASSUME LogInv, UNCHANGED writtenVars, mutex' = mutex PROVE LogInv'
<1>1. UNCHANGED <<last_msg, last_msg_count, lines, given, mutex>>
  BY DEF writtenVars
<1> QED BY <1>1, Zenon DEF LogInv, LogTells, Tells, IsTelling

LEMMA LogBegin ==
    ASSUME LogInv, NEW t, NEW text \in Logged, NEW verbose, log_begin(t, text, verbose) PROVE LogInv'
<1>1. UNCHANGED <<last_msg, last_msg_count, lines, given>>
  BY DEF log_begin, stateVars
<1>2. mutex'.text = text
  BY DEF log_begin
<1>3. (\E u : LogTells(u)) => (\E u : LogTells(u))'
  BY <1>1, ZenonT(60) DEF LogTells, Tells, IsTelling
<1> QED BY <1>1, <1>2, <1>3 DEF LogInv

LEMMA LogHoldBack ==
    ASSUME LogInv, NEW text \in Logged, NEW rotated, hold_back(text, rotated),
           given' = Append(given, text)
    PROVE  lines' \in Seq(Lines) /\ last_msg_count' \in Nat /\ \E t : LogTells(t)'
<1>1. PICK t : LogTells(t)
  BY DEF LogInv
<1>2. UNCHANGED <<lines, last_msg>> /\ text = last_msg /\ last_msg_count' = last_msg_count + 1
      /\ last_msg_count \in Nat
  BY DEF hold_back, LogInv
<1>3. t # <<>>
  BY <1>1, <1>2, NoTextIsNotLogged DEF LogTells
<1>4. given' = t \o Repeats(last_msg, last_msg_count')
  BY <1>1, <1>2, OneRepeatMore, Zenon DEF LogTells
<1>5. LogTells(t)'
  BY <1>1, <1>2, <1>3, <1>4, Zenon DEF LogTells, Tells, IsTelling
<1> QED BY <1>2, <1>5 DEF LogInv

LEMMA LogWrite ==
    ASSUME LogInv, NEW text \in Logged, log_write(text), given' = Append(given, text)
    PROVE  lines' \in Seq(Lines) /\ last_msg_count' \in Nat /\ \E t : LogTells(t)'
<1>1. PICK t : LogTells(t)
  BY DEF LogInv
<1>2. lines \in Seq(Lines) /\ last_msg_count \in Nat /\ t \in Seq(Logged) /\ Tells(lines, t)
  BY <1>1 DEF LogInv, LogTells
<1> DEFINE told == [text |-> NoText, repeated |-> last_msg_count]
           new == [text |-> text, repeated |-> 0]
<1>3. told \in Lines /\ new \in Lines /\ new.repeated = 0 /\ new.text = text
      /\ told.repeated = last_msg_count
  BY <1>2 DEF Lines
<1> HIDE DEF told, new
\* First the repeats, if there are any ...
<1>4. PICK ls \in Seq(Lines) : Tells(ls, given) /\ lines' = Append(ls, new)
  <2>1. CASE last_msg_count > 0
    <3>1. lines' = lines \o <<told, new>>
      BY <2>1 DEF log_write, Written, told, new
    <3>2. lines \o <<told, new>> = Append(Append(lines, told), new)
      BY <1>2, <1>3
    <3>3. last_msg = t[Len(t)] /\ given = t \o Repeats(last_msg, last_msg_count)
      BY <1>1, <2>1 DEF LogTells
    <3>4. Tell(t, told) = given
      BY <1>2, <1>3, <2>1, <3>3 DEF Tell, Repeats
    <3>5. Append(lines, told) \in Seq(Lines) /\ Tells(Append(lines, told), given)
      BY <1>2, <1>3, <3>4, OneLineMore
    <3> QED BY <3>1, <3>2, <3>5, Zenon
  <2>2. CASE ~(last_msg_count > 0)
    <3>1. lines' = lines \o <<new>> /\ lines \o <<new>> = Append(lines, new)
      BY <1>2, <1>3, <2>2, AppendIsConcat DEF log_write, Written, new
    <3>2. last_msg_count = 0
      BY <1>2, <2>2
    <3>3. Repeats(last_msg, 0) = <<>>
      BY DEF Repeats
    <3>4. given = t
      <4>1. given = t \o <<>>
        BY <1>1, <3>2, <3>3, Zenon DEF LogTells
      <4> QED BY <1>2, <4>1
    <3> QED BY <1>2, <3>1, <3>4
  <2> QED BY <2>1, <2>2
\* ... and then the message.
<1>5. given \in Seq(Logged)
  <2>1. CASE last_msg_count > 0
    <3>1. last_msg \in Logged
      BY <1>1, <1>2, <2>1 DEF LogTells
    <3>2. Repeats(last_msg, last_msg_count) \in Seq(Logged)
      BY <1>2, <3>1, RepeatsAreTexts
    <3> QED BY <1>1, <1>2, <3>2 DEF LogTells
  <2>2. CASE ~(last_msg_count > 0)
    <3>1. last_msg_count = 0 /\ Repeats(last_msg, 0) = <<>>
      BY <1>2, <2>2 DEF Repeats
    <3>2. given = t \o <<>>
      BY <1>1, <3>1, Zenon DEF LogTells
    <3> QED BY <1>2, <3>2
  <2> QED BY <2>1, <2>2
<1>6. Tell(given, new) = given'
  <2>1. Tell(given, new) = given \o <<text>>
    BY <1>3 DEF Tell
  <2> QED BY <1>5, <2>1, AppendIsConcat
<1>7. lines' \in Seq(Lines) /\ Tells(lines', given')
  <2>1. Tells(Append(ls, new), Tell(given, new))
    BY <1>3, <1>4, OneLineMore, Zenon
  <2>2. Append(ls, new) \in Seq(Lines)
    BY <1>3
  <2> QED BY <1>4, <1>6, <2>1, <2>2, Zenon
<1>8. given' \in Seq(Logged) /\ given' # <<>> /\ given'[Len(given')] = text
  <2>1. Len(Append(given, text)) = Len(given) + 1 /\ Append(given, text)[Len(given) + 1] = text
    BY <1>5, AppendProperties
  <2>2. Append(given, text) \in Seq(Logged) /\ Append(given, text) # <<>>
    BY <1>5, AppendProperties
  <2> QED BY <2>1, <2>2
<1>9. last_msg' = text /\ last_msg_count' = 0
  BY DEF log_write
<1>10. given' = given' \o Repeats(last_msg', 0)
  <2>1. Repeats(last_msg', 0) = <<>>
    BY DEF Repeats
  <2> QED BY <1>8, <2>1
<1>11. LogTells(given)'
  BY <1>7, <1>8, <1>9, <1>10, Zenon DEF LogTells, Tells, IsTelling
<1> QED BY <1>7, <1>9, <1>11

LEMMA LogEnd == ASSUME LogInv, NEW t \in {"main", "worker"}, log_end(t) PROVE LogInv'
<1>1. mutex.text \in Logged /\ mutex'.holder = "none"
  BY DEF LogInv, log_end, Unlocked
<1>2. CASE UNCHANGED <<lines, given, last_msg, last_msg_count>>
  <2>1. (\E u : LogTells(u)) => (\E u : LogTells(u))'
    BY <1>2, ZenonT(60) DEF LogTells, Tells, IsTelling
  <2> QED BY <1>1, <1>2, <2>1 DEF LogInv
<1>3. CASE given' = Append(given, mutex.text) /\ log_write(mutex.text)
  BY <1>1, <1>3, LogWrite DEF LogInv
<1>4. CASE given' = Append(given, mutex.text) /\ hold_back(mutex.text, mutex.rotated \/ is_rotated)
  BY <1>1, <1>4, LogHoldBack DEF LogInv
<1> QED BY <1>2, <1>3, <1>4 DEF log_end

\* The main thread logs what it has to do.
LEMMA StepsAreLogged == ASSUME RotationTypes, todo # <<>>, Head(todo) \notin Silent PROVE Head(todo) \in Logged
<1>1. CASE todo \in RotateSteps
  BY <1>1 DEF RotateSteps, Silent, Logged
<1>2. CASE todo \in Seq(OtherSteps)
  BY <1>2 DEF Logged
<1> QED BY <1>1, <1>2 DEF RotationTypes

LEMMA LogNext == ASSUME RotationTypes, LogInv, [Next]_vars PROVE LogInv'
<1>1. CASE angel_fork
  <2>1. CASE UNCHANGED logVars
    BY <2>1, LogElsewhere DEF logVars, writtenVars
  <2>2. CASE log_new(0)
    <3>1. (lines = <<>> /\ given = <<>> /\ last_msg = NoText /\ last_msg_count = 0 /\ mutex = Unlocked)'
      BY <2>2 DEF log_new
    <3> QED BY <3>1, LogStarts, PTL
  <2> QED BY <1>1, <2>1, <2>2 DEF angel_fork
<1>2. CASE child_say
  BY <1>2, StepsAreLogged, LogBegin DEF child_say
<1>3. CASE child_said
  BY <1>3, LogEnd DEF child_said
<1>4. CASE worker_say
  <2>1. PICK text \in Texts, verbose \in BOOLEAN : log_begin("worker", text, verbose)
    BY <1>4 DEF worker_say
  <2>2. text \in Logged
    BY DEF Logged
  <2> QED BY <2>1, <2>2, LogBegin
<1>5. CASE worker_said
  BY <1>5, LogEnd DEF worker_said
<1>6. CASE UNCHANGED <<stateVars, mutex, lines, given>>
  BY <1>6, LogElsewhere DEF stateVars, writtenVars
<1>7. CASE Move \/ child_step
  BY <1>6, <1>7 DEF Move, MoveFile, child_step, log_set_logrotate, logVars, stateVars
<1>8. CASE UNCHANGED logVars
  BY <1>6, <1>8 DEF logVars, stateVars
<1>9. CASE angel_install \/ angel_wait \/ angel_sleep \/ child_setup \/ child_start \/ child_leave
  BY <1>8, <1>9, ZenonT(60) DEF angel_install, angel_wait, angel_sleep, child_setup, child_start, child_leave
<1>10. ASSUME NEW s \in Signals, child_signal(s) \/ SignalAngel(s) \/ SignalChild(s) PROVE LogInv'
  BY <1>8, <1>10, Zenon DEF child_signal, SignalAngel, SignalChild
<1>11. CASE Crash \/ Rest \/ UNCHANGED vars
  BY <1>8, <1>11 DEF Crash, Rest, vars
<1> QED BY <1>1, <1>2, <1>3, <1>4, <1>5, <1>7, <1>9, <1>10, <1>11 DEF Next, Angel, Main

\* Whatever the threads log, at whichever level, in whichever order they get the mutex, and
\* however often the log is rotated in between: the lines with their "last message repeated
\* n times" and what is still held back are the messages that were given, in order.
THEOREM EveryMessageIsTold == Spec => []AllTold
<1>1. Init => LogInv
  BY LogStarts DEF Init, LogIs
<1>2. RotationInv => RotationTypes
  BY DEF RotationInv
<1>3. LogInv => AllTold
  <2>1. SUFFICES ASSUME LogInv PROVE AllTold
    OBVIOUS
  <2>2. PICK t : LogTells(t)
    BY <2>1 DEF LogInv
  <2>3. Told = t
    BY <2>2, ToldIsTelling DEF LogTells
  <2> QED BY <2>2, <2>3, Zenon DEF AllTold, LogTells, Repeats
<1> QED BY <1>1, <1>2, <1>3, RotationInit, RotationNext, LogNext, PTL DEF Spec

=============================================================================
