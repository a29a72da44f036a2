-------------------------------- MODULE ChassisLog --------------------------------
(***************************************************************************)
(* The log of the chassis (src/chassis-log.c): messages of several threads *)
(* under a mutex, repeated messages that are counted instead of written,   *)
(* and the log file that is re-opened after it was moved away.             *)
(*                                                                         *)
(* A message is a text and whether its level is too verbose to be logged.  *)
(* The files that have had the name of the log are numbered.               *)
(***************************************************************************)
EXTENDS Integers, Sequences

CONSTANTS MaxMoves,     \* how often the log file is moved away
          MaxRepeats,   \* repeats that are held back (100)
          OpenFails     \* a re-open may fail

ASSUME LogAssumption == MaxMoves \in Nat /\ MaxRepeats \in Nat /\ OpenFails \in BOOLEAN

VARIABLES named,        \* the file that has the name of the log, or gets it when it is opened
          log_file_fd,  \* the file the log is written to; -1 is closed
          rotate_logs, is_rotated, last_msg, last_msg_count,
          mutex,        \* log_mutex: its holder and the message it logs
          lines,        \* what was written
          given         \* messages the level let pass

logVars == <<named, log_file_fd, rotate_logs, is_rotated, last_msg, last_msg_count, mutex,
             lines, given>>
stateVars == <<is_rotated, last_msg, last_msg_count>>

NoText == "none"
Unlocked == [holder |-> "none", text |-> NoText, verbose |-> FALSE, rotated |-> FALSE]

\* A process starts with the log its parent has opened.
LogIs(fd) ==
    /\ log_file_fd = fd /\ rotate_logs = FALSE /\ is_rotated = FALSE
    /\ last_msg = NoText /\ last_msg_count = 0
    /\ mutex = Unlocked /\ lines = <<>> /\ given = <<>>

log_new(fd) ==
    /\ log_file_fd' = fd /\ rotate_logs' = FALSE /\ is_rotated' = FALSE
    /\ last_msg' = NoText /\ last_msg_count' = 0
    /\ mutex' = Unlocked /\ lines' = <<>> /\ given' = <<>>
    /\ UNCHANGED named

\* Somebody moves the log file out of the way.
MoveFile ==
    /\ named < MaxMoves /\ named' = named + 1
    /\ UNCHANGED <<log_file_fd, rotate_logs, stateVars, mutex, lines, given>>

-----------------------------------------------------------------------------
\* What open() makes of the name of the log, once the old file is closed.
log_open == {named} \cup (IF OpenFails THEN {-1} ELSE {})

log_rotate_reopen == log_file_fd' \in log_open

\* Mutant: what is too verbose is ignored first of all.
IgnoreFirst(t, text, verbose) ==
    /\ mutex.holder = "none"
    /\ IF log_file_fd # -1 /\ rotate_logs /\ ~verbose
       THEN log_rotate_reopen /\ mutex' = [holder |-> t, text |-> text, verbose |-> verbose, rotated |-> TRUE]
       ELSE /\ mutex' = [holder |-> t, text |-> text, verbose |-> verbose, rotated |-> FALSE]
            /\ UNCHANGED log_file_fd
    /\ UNCHANGED <<named, rotate_logs, stateVars, lines, given>>

\* chassis_log_func() takes the mutex; a rotation that was asked for comes before anything.
log_begin(t, text, verbose) ==
    /\ mutex.holder = "none"
    /\ IF log_file_fd # -1 /\ rotate_logs
       THEN log_rotate_reopen /\ mutex' = [holder |-> t, text |-> text, verbose |-> verbose, rotated |-> TRUE]
       ELSE /\ mutex' = [holder |-> t, text |-> text, verbose |-> verbose, rotated |-> FALSE]
            /\ UNCHANGED log_file_fd
    /\ UNCHANGED <<named, rotate_logs, stateVars, lines, given>>

\* What was held back is told before the message that ends it.
Written(text) ==
    IF last_msg_count > 0 THEN <<[text |-> NoText, repeated |-> last_msg_count],
                                 [text |-> text, repeated |-> 0]>>
    ELSE <<[text |-> text, repeated |-> 0]>>

\* Mutant: the count is kept.
CountKept(text) ==
    /\ lines' = lines \o Written(text)
    /\ last_msg' = text /\ UNCHANGED last_msg_count

\* The message is written: it is the first after a rotation, a new one, or one that was
\* held back often or long enough.
log_write(text) ==
    /\ lines' = lines \o Written(text)
    /\ last_msg' = text /\ last_msg_count' = 0

hold_back(text, rotated) ==
    /\ ~rotated /\ text = last_msg /\ last_msg_count <= MaxRepeats
    /\ last_msg_count' = last_msg_count + 1
    /\ UNCHANGED <<lines, last_msg>>

\* The rest of chassis_log_func_locked(), up to the release of the mutex.  The time since
\* a message was last written is anything.
log_end(t) ==
    LET rotated == mutex.rotated \/ is_rotated
    IN  /\ mutex.holder = t /\ mutex' = Unlocked
        /\ rotate_logs' = IF mutex.rotated THEN FALSE ELSE rotate_logs
        /\ \/ /\ mutex.verbose /\ is_rotated' = rotated
              /\ UNCHANGED <<lines, given, last_msg, last_msg_count>>
           \/ /\ ~mutex.verbose /\ is_rotated' = FALSE /\ given' = Append(given, mutex.text)
              /\ \/ log_write(mutex.text)
                 \/ hold_back(mutex.text, rotated)
        /\ UNCHANGED <<named, log_file_fd>>

log_set_logrotate ==
    /\ rotate_logs' = TRUE
    /\ UNCHANGED <<named, log_file_fd, stateVars, mutex, lines, given>>

-----------------------------------------------------------------------------
\* The lines with the repeats written out, up to the nth.
Tell(told, line) ==
    told \o IF line.repeated = 0 THEN <<line.text>>
            ELSE [i \in 1..line.repeated |-> told[Len(told)]]

Told ==
    LET told[n \in 0..Len(lines)] == IF n = 0 THEN <<>> ELSE Tell(told[n - 1], lines[n])
    IN  told[Len(lines)]

\* The log tells every message, in order: what was written, with the repeats it counts,
\* and those that are still held back are all the messages that were given to it, also
\* over rotations and with several threads (chassis_log_func_locked()).
AllTold == Told \o [i \in 1..last_msg_count |-> last_msg] = given
=============================================================================
