------------------------------ MODULE Snapshot ------------------------------
(***************************************************************************)
(* Snapshots on SIGUSR1 or SIGUSR2: a handler that only latches a request, *)
(* a worker that takes the request and writes the frame to a configured    *)
(* file or FIFO, and the calls that configure, replace, disable and shut   *)
(* down the two under control_mutex.  data_mutex guards the font and the   *)
(* completion status.  Every step is one atomic access, one lock step, or  *)
(* one system call of one thread.                                          *)
(***************************************************************************)
EXTENDS Naturals, FiniteSets

CONSTANTS Callers,      \* the application's threads
          Lifecycle,    \* the one of them that starts and ends sessions
          Handlers,     \* invocations of the handler that a run may see
          Signals,      \* SIGUSR1 and SIGUSR2
          Kinds,        \* of path: a subset of {"file", "fifo"}
          Formats,      \* a subset of {"png", "text"}
          Units,        \* buffers' worth of output that a frame encodes to
          Room,         \* units the sink's buffer holds
          MaxCalls,     \* bound on the calls
          MaxApp,       \* bound on the application's own sigaction calls
          MaxFaults,    \* bound on failing system calls of the lifecycle
          AppRaces,     \* the application may call sigaction during a call
          None

ASSUME SnapshotAssumption == /\ Lifecycle \in Callers
                             /\ Kinds \subseteq {"file", "fifo"}
                             /\ Formats \subseteq {"png", "text"}
                             /\ Units \in Nat \ {0}
                             /\ Room \in Nat \ {0}
                             /\ AppRaces \in BOOLEAN

VARIABLES
  requested, installed_signal, worker_running,  \* the atomics
  control_mutex, data_mutex,
  session,              \* "down", "reset", "up", "suspended" or "closing"
  session_active,
  configured,           \* path (its kind) and format, or None
  worker_created,
  worker,               \* the worker thread: its step and its capture
  disposition,          \* of each signal: "default", "snapshot", "app"
  previous_action,
  font,                 \* a font is set
  call,                 \* of each caller: the call it is in
  handler,              \* of each handler invocation: its step
  completed_sequence,
  stored, begun,        \* history: requests latched; captures begun since the reset
  calls, changes, faults

atomics == <<requested, installed_signal, worker_running>>
config == <<configured, worker_created>>
actions == <<disposition, previous_action>>
counts == <<completed_sequence, stored, begun>>
limits == <<calls, changes, faults>>
vars == <<atomics, control_mutex, data_mutex, session, session_active, config, worker,
          actions, font, call, handler, counts, limits>>

Configurations == [kind : Kinds, format : Formats]
ASSUME NoneAssumption == None \notin Callers \cup Signals \cup Configurations \cup {"worker"}

Idle == [op |-> "none", at |-> "idle", sig |-> None, cfg |-> None, ours |-> FALSE,
         number |-> None, failed |-> FALSE]
NoWorker == [at |-> "none", cfg |-> None, bounded |-> FALSE, late |-> FALSE,
             left |-> 0, used |-> 0, fontAtFrame |-> FALSE, font |-> FALSE,
               failed |-> FALSE]

Init ==
  /\ requested = FALSE /\ installed_signal = None /\ worker_running = FALSE
  /\ control_mutex = None /\ data_mutex = None
  /\ session = "down" /\ session_active = FALSE
  /\ configured = None /\ worker_created = FALSE
  /\ worker = NoWorker
  /\ disposition \in [Signals -> {"default"}] /\ previous_action = "default"
  /\ font = FALSE
  /\ call = [c \in Callers |-> Idle]
  /\ handler = [h \in Handlers |-> None]
  /\ completed_sequence = 0 /\ stored = 0 /\ begun = 0
  /\ calls = 0 /\ changes = 0 /\ faults = 0

-----------------------------------------------------------------------------
(* snapshot_signal: the invocation h enters on a signal whose disposition  *)
(* is ours, compares its number with installed_signal, and latches.        *)
Delivered(h) ==
  /\ handler[h] = None
  /\ \E s \in Signals : /\ disposition[s] = "snapshot"
                        /\ handler' = [handler EXCEPT ![h] = [at |-> "entered", sig |-> s]]
  /\ UNCHANGED <<atomics, control_mutex, data_mutex, session, session_active, config, worker,
                 actions, font, call, counts, limits>>

Compares(h) ==
  /\ handler[h] # None /\ handler[h].at = "entered"
  /\ handler' = [handler EXCEPT ![h].at =
                   IF handler[h].sig = installed_signal THEN "passed" ELSE "done"]
  /\ UNCHANGED <<atomics, control_mutex, data_mutex, session, session_active, config, worker,
                 actions, font, call, counts, limits>>

Latches(h) ==
  /\ handler[h] # None /\ handler[h].at = "passed"
  /\ handler' = [handler EXCEPT ![h].at = "done"]
  /\ requested' = TRUE
  /\ stored' = stored + 1
  /\ UNCHANGED <<installed_signal, worker_running, control_mutex, data_mutex, session,
                 session_active, config, worker, actions, font, call, completed_sequence,
                 begun, limits>>

-----------------------------------------------------------------------------
(* The worker.  Its steps: top (tests worker_running), take, open, lock,   *)
(* copy (the font, under data_mutex), encode, flush, close, publish,       *)
(* exited.                                                                 *)
WorkerAt(at) == worker.at = at
WorkerUnchanged == UNCHANGED <<control_mutex, session, session_active, config, actions, font,
                               call, handler, stored, limits>>

Tests == /\ WorkerAt("top")
         /\ worker' = [worker EXCEPT !.at = IF worker_running THEN "take" ELSE "exited"]
         /\ UNCHANGED <<atomics, data_mutex, completed_sequence, begun>> /\ WorkerUnchanged

TakesLoaded == /\ WorkerAt("take")     \* the latch is read, not exchanged
               /\ worker' = IF requested THEN [worker EXCEPT !.at = "open", !.left = Units,
                                                             !.used = 0, !.failed = FALSE]
                            ELSE [worker EXCEPT !.at = "top"]
               /\ begun' = IF requested THEN begun + 1 ELSE begun
               /\ UNCHANGED <<atomics, data_mutex, completed_sequence>> /\ WorkerUnchanged
(* atomic_exchange(&requested, 0) *)
Takes == /\ WorkerAt("take")
         /\ requested' = FALSE
         /\ worker' = IF requested THEN [worker EXCEPT !.at = "open", !.left = Units, !.used = 0,
                                                       !.failed = FALSE]
                      ELSE [worker EXCEPT !.at = "top"]
         /\ begun' = IF requested THEN begun + 1 ELSE begun
         /\ UNCHANGED <<installed_signal, worker_running, data_mutex, completed_sequence>>
         /\ WorkerUnchanged

(* open, fstat and ftruncate: a FIFO without a reader, a replaced path or  *)
(* any error fails the capture; only a FIFO is bounded.                    *)
Opens == /\ WorkerAt("open")
         /\ \/ worker' = [worker EXCEPT !.at = "lock", !.bounded = (configured.kind = "fifo"),
                                        !.late = FALSE]
            \/ worker' = [worker EXCEPT !.at = "publish", !.failed = TRUE]
         /\ UNCHANGED <<atomics, data_mutex, completed_sequence, begun>> /\ WorkerUnchanged

CapturesUnlocked ==  \* data_mutex does not cover the font's copy
  /\ WorkerAt("lock") /\ data_mutex = None
  /\ worker' = IF session = "up" THEN [worker EXCEPT !.at = "copy", !.fontAtFrame = font]
               ELSE [worker EXCEPT !.at = "close", !.failed = TRUE]
  /\ UNCHANGED <<atomics, data_mutex, completed_sequence, begun>> /\ WorkerUnchanged
(* write_snapshot: under data_mutex the frame and, for a text frame in     *)
(* PNG, the font; then the format test.                                    *)
Captures == /\ WorkerAt("lock")
            /\ data_mutex = None
            /\ IF session = "up"
               THEN \/ /\ data_mutex' = "worker"
                       /\ worker' = [worker EXCEPT !.at = "copy", !.fontAtFrame = font]
                    \/ /\ worker' = [worker EXCEPT !.at = "close", !.failed = TRUE] \* no frame yet
                       /\ UNCHANGED data_mutex
               ELSE /\ worker' = [worker EXCEPT !.at = "close", !.failed = TRUE]
                    /\ UNCHANGED data_mutex
            /\ UNCHANGED <<atomics, completed_sequence, begun>> /\ WorkerUnchanged

Copies == /\ WorkerAt("copy")
          /\ data_mutex' = None
          /\ worker' = IF configured.format = "png" /\ ~font
                       THEN [worker EXCEPT !.at = "close", !.font = FALSE, !.failed = TRUE]
                       ELSE [worker EXCEPT !.at = "encode", !.font = font]
          /\ UNCHANGED <<atomics, completed_sequence, begun>> /\ WorkerUnchanged

(* sink_available *)
Available == worker_running /\ ~(worker.bounded /\ worker.late)

Full(left, used) == used = Room \/ left = 0
(* sink_bytes: a unit goes to the buffer, which is flushed when it is full *)
(* or nothing is left; encode_png asks sink_available at every row.        *)
Encodes == /\ WorkerAt("encode")
           /\ worker' = IF configured.format = "png" /\ ~Available
                        THEN [worker EXCEPT !.at = "close", !.failed = TRUE]
                        ELSE LET left == worker.left - 1
                                 used == worker.used + 1
                             IN [worker EXCEPT !.left = left, !.used = used,
                                   !.at = IF Full(left, used) THEN "flush" ELSE "encode"]
           /\ UNCHANGED <<atomics, data_mutex, completed_sequence, begun>> /\ WorkerUnchanged

AfterShortWrite(rest) == IF worker.left = 0 THEN "close" ELSE "encode" \* the rest is dropped
AfterWrite(rest) == IF rest > 0 THEN "flush" ELSE IF worker.left = 0 THEN "close" ELSE "encode"
(* One turn of sink_flush: it gives up when cancelled or late, writes some *)
(* units, fails, or (a full FIFO) polls and tries again.                   *)
Flushes == /\ WorkerAt("flush")
           /\ \/ /\ ~Available
                 /\ worker' = [worker EXCEPT !.at = "close", !.failed = TRUE]
              \/ /\ Available
                 /\ \E n \in 1..worker.used :
                      worker' = [worker EXCEPT !.used = @ - n,
                                   !.at = AfterWrite(worker.used - n)]
              \/ /\ Available
                 /\ worker' = [worker EXCEPT !.at = "close", !.failed = TRUE]
              \/ /\ Available /\ worker.bounded
                 /\ UNCHANGED worker
           /\ UNCHANGED <<atomics, data_mutex, completed_sequence, begun>> /\ WorkerUnchanged

(* The 250 ms of a FIFO capture pass. *)
DeadlinePasses == /\ worker.at \in {"encode", "flush"}
                  /\ worker.bounded /\ ~worker.late
                  /\ worker' = [worker EXCEPT !.late = TRUE]
                  /\ UNCHANGED <<atomics, data_mutex, completed_sequence, begun>>
                  /\ WorkerUnchanged

(* close() too may fail a capture. *)
Closes == /\ WorkerAt("close")
          /\ \E failed \in {worker.failed, TRUE} :
               worker' = [worker EXCEPT !.at = "publish", !.failed = failed]
          /\ UNCHANGED <<atomics, data_mutex, completed_sequence, begun>> /\ WorkerUnchanged

PublishesOnce == /\ WorkerAt("publish") /\ data_mutex = None  \* the loop ends with a capture
                 /\ completed_sequence' = completed_sequence + 1
                 /\ worker' = [worker EXCEPT !.at = "exited"]
                 /\ UNCHANGED <<atomics, data_mutex, begun>> /\ WorkerUnchanged

(* completed_sequence and completed_result, under data_mutex; nanosleep.   *)
Publishes == /\ WorkerAt("publish")
             /\ data_mutex = None
             /\ completed_sequence' = completed_sequence + 1
             /\ worker' = [worker EXCEPT !.at = "top"]
             /\ UNCHANGED <<atomics, data_mutex, begun>> /\ WorkerUnchanged

WorkerStep == \/ Tests \/ Takes \/ Opens \/ Captures \/ Copies \/ Encodes \/ Flushes
              \/ Closes \/ Publishes

-----------------------------------------------------------------------------
(* The callers.  A call waits for control_mutex at "enter"; the steps that *)
(* follow hold it, until Leave.                                            *)
CallerUnchanged == UNCHANGED <<worker, handler, begun, stored>>
CallAt(c, at) == call[c].at = at
Goto(c, at) == call' = [call EXCEPT ![c].at = at]
Leave(c) == call' = [call EXCEPT ![c] = Idle] /\ control_mutex' = None

(* What the lifecycle thread does before it calls the session operation:   *)
(* renderer_active changes with it (tigt.c).                               *)
SessionBegins(op) ==
  CASE op = "reset"    -> session = "down" /\ session' = "reset"
    [] op = "start"    -> session \in {"reset", "suspended"} /\ session' = "up"
    [] op = "suspend"  -> session = "up" /\ session' = "suspended"
    [] op = "shutdown" -> session \in {"reset", "suspended"} /\ session' = "closing"
    [] OTHER           -> UNCHANGED session

Calls(c) ==
  /\ call[c].op = "none" /\ calls < MaxCalls
  /\ calls' = calls + 1
  /\ \E op \in {"configure", "disable", "font"}
              \cup (IF c = Lifecycle THEN {"reset", "start", "suspend", "shutdown"} ELSE {}),
        s \in Signals, cfg \in Configurations :
       /\ SessionBegins(op)
       /\ call' = [call EXCEPT ![c] =
            IF op = "configure" THEN [Idle EXCEPT !.op = op, !.at = "enter", !.sig = s, !.cfg = cfg]
            ELSE [Idle EXCEPT !.op = op, !.at = "enter"]]
  /\ UNCHANGED <<atomics, control_mutex, data_mutex, session_active, config, actions, font,
                 completed_sequence, changes, faults>>
  /\ CallerUnchanged

(* Every operation's first step under control_mutex. *)
Enters(c) ==
  /\ CallAt(c, "enter") /\ control_mutex = None
  /\ control_mutex' = c
  /\ session_active' = CASE call[c].op = "start" -> TRUE
                          [] call[c].op \in {"suspend", "shutdown"} -> FALSE
                          [] OTHER -> session_active
  /\ Goto(c, CASE call[c].op \in {"configure", "font"} -> "admit"
               [] call[c].op \in {"disable", "shutdown"} -> "clear"
               [] call[c].op = "reset" -> "data"
               [] OTHER -> "leave")
  /\ UNCHANGED <<atomics, data_mutex, session, config, actions, font, completed_sequence, limits>>
  /\ CallerUnchanged

(* Both need an active session; configure then looks at the path (lstat,   *)
(* and strdup, may refuse it) and asks for the signal's disposition: only  *)
(* a default one, or ours for the same signal, can be taken.               *)
AdmissibleAlways == TRUE
Admissible == session_active
Ours(c) == installed_signal = call[c].sig /\ disposition[call[c].sig] = "snapshot"
Admits(c) ==
  /\ CallAt(c, "admit")
  /\ \/ /\ call[c].op = "configure" \/ ~Admissible
        /\ Goto(c, "leave")
     \/ /\ call[c].op = "font" /\ Admissible
        /\ Goto(c, "data")
     \/ /\ call[c].op = "configure" /\ Admissible
        /\ Ours(c) \/ disposition[call[c].sig] = "default"
        /\ call' = [call EXCEPT ![c].ours = Ours(c),
                                ![c].at = IF Ours(c) THEN "stop" ELSE "clear"]
  /\ UNCHANGED <<atomics, control_mutex, data_mutex, session, session_active, config, actions,
                 font, completed_sequence, limits>>
  /\ CallerUnchanged

(* disable_configuration: installed_signal is exchanged first, so that a   *)
(* late handler finds nothing installed; then the disposition is asked for *)
(* (either system call may fail) and put back if it is still ours.         *)
Clears(c) ==
  /\ CallAt(c, "clear")
  /\ call' = [call EXCEPT ![c].number = installed_signal,
                          ![c].at = IF installed_signal = None THEN "stop" ELSE "ask"]
  /\ installed_signal' = None
  /\ UNCHANGED <<requested, worker_running, control_mutex, data_mutex, session, session_active,
                 config, actions, font, completed_sequence, limits>>
  /\ CallerUnchanged

Undoes(c) == IF disposition[call[c].number] = "snapshot" THEN "restore" ELSE "stop"

Asks(c) ==
  /\ CallAt(c, "ask")
  /\ \/ /\ call' = [call EXCEPT ![c].at = Undoes(c)]
        /\ UNCHANGED faults
     \/ /\ faults < MaxFaults /\ faults' = faults + 1
        /\ call' = [call EXCEPT ![c].at = "stop", ![c].failed = TRUE]
  /\ UNCHANGED <<atomics, control_mutex, data_mutex, session, session_active, config, actions,
                 font, completed_sequence, calls, changes>>
  /\ CallerUnchanged

Restores(c) ==
  /\ CallAt(c, "restore")
  /\ \/ /\ disposition' = [disposition EXCEPT ![call[c].number] = previous_action]
        /\ Goto(c, "stop")
        /\ UNCHANGED faults
     \/ /\ faults < MaxFaults /\ faults' = faults + 1
        /\ call' = [call EXCEPT ![c].at = "stop", ![c].failed = TRUE]
        /\ UNCHANGED disposition
  /\ UNCHANGED <<atomics, control_mutex, data_mutex, session, session_active, config,
                 previous_action, font, completed_sequence, calls, changes>>
  /\ CallerUnchanged

(* stop_worker: the flag, the join, and only then the latch and the path.  *)
Stops(c) ==
  /\ CallAt(c, "stop")
  /\ worker_running' = FALSE
  /\ Goto(c, "join")
  /\ UNCHANGED <<requested, installed_signal, control_mutex, data_mutex, session,
                 session_active, config, actions, font, completed_sequence, limits>>
  /\ CallerUnchanged

NotJoined == TRUE
Joined == worker_created => WorkerAt("exited")
Joins(c) ==
  /\ CallAt(c, "join")
  /\ Joined
  /\ worker_created' = FALSE
  /\ Goto(c, "unlatch")
  /\ UNCHANGED <<atomics, control_mutex, data_mutex, session, session_active, configured, actions,
                 font, completed_sequence, limits>>
  /\ CallerUnchanged

Unlatches(c) ==
  /\ CallAt(c, "unlatch")
  /\ requested' = FALSE
  /\ configured' = None
  /\ Goto(c, CASE call[c].op = "configure" /\ ~call[c].failed -> "spawn"
               [] call[c].op = "shutdown" -> "data"
               [] OTHER -> "leave")
  /\ UNCHANGED <<installed_signal, worker_running, control_mutex, data_mutex, session,
                 session_active, worker_created, actions, font, completed_sequence, limits>>
  /\ CallerUnchanged

KeepsParts(c) == call' = [call EXCEPT ![c].at = "leave", ![c].failed = TRUE]
GivesBack(c) == call' = [call EXCEPT ![c].at = "clear", ![c].failed = TRUE]

(* The new configuration and its worker; without a thread it is disabled.  *)
Spawns(c) ==
  /\ CallAt(c, "spawn")
  /\ configured' = call[c].cfg
  /\ worker_running' = TRUE
  /\ \/ /\ worker_created' = TRUE
        /\ worker' = [NoWorker EXCEPT !.at = "top", !.cfg = call[c].cfg]
        /\ Goto(c, IF call[c].ours THEN "leave" ELSE "install")
        /\ UNCHANGED faults
     \/ /\ faults < MaxFaults /\ faults' = faults + 1
        /\ GivesBack(c)
        /\ UNCHANGED <<worker, worker_created>>
  /\ UNCHANGED <<requested, installed_signal, control_mutex, data_mutex, session, session_active,
                 actions, font, handler, counts, calls, changes>>

(* installed_signal is stored before the handler can be called. *)
Installs(c) ==
  /\ CallAt(c, "install")
  /\ installed_signal' = call[c].sig
  /\ Goto(c, "act")
  /\ UNCHANGED <<requested, worker_running, control_mutex, data_mutex, session, session_active,
                 config, actions, font, completed_sequence, limits>>
  /\ CallerUnchanged

Acts(c) ==
  /\ CallAt(c, "act")
  /\ \/ /\ previous_action' = disposition[call[c].sig]
        /\ disposition' = [disposition EXCEPT ![call[c].sig] = "snapshot"]
        /\ Goto(c, "leave")
        /\ UNCHANGED <<installed_signal, faults>>
     \/ /\ faults < MaxFaults /\ faults' = faults + 1
        /\ installed_signal' = None
        /\ GivesBack(c)
        /\ UNCHANGED actions
  /\ UNCHANGED <<requested, worker_running, control_mutex, data_mutex, session, session_active,
                 config, font, completed_sequence, calls, changes>>
  /\ CallerUnchanged

(* The font, and for a session's reset the status too, under data_mutex.   *)
Data(c) ==
  /\ CallAt(c, "data")
  /\ data_mutex = None
  /\ \E height \in (IF call[c].op = "font" THEN BOOLEAN ELSE {FALSE}) : font' = height
  /\ completed_sequence' = IF call[c].op = "reset" THEN 0 ELSE completed_sequence
  /\ begun' = IF call[c].op = "reset" THEN 0 ELSE begun
  /\ Goto(c, "leave")
  /\ UNCHANGED <<atomics, control_mutex, data_mutex, session, session_active, config, worker,
                 actions, handler, stored, limits>>

Leaves(c) ==
  /\ CallAt(c, "leave")
  /\ Leave(c)
  /\ session' = IF call[c].op = "shutdown" THEN "down" ELSE session
  /\ UNCHANGED <<atomics, data_mutex, session_active, config, actions, font, completed_sequence,
                 limits>>
  /\ CallerUnchanged

CallerStep(c) == \/ Enters(c) \/ Admits(c) \/ Clears(c) \/ Asks(c) \/ Restores(c) \/ Stops(c)
                 \/ Joins(c) \/ Unlatches(c) \/ Spawns(c) \/ Installs(c) \/ Acts(c) \/ Data(c)
                 \/ Leaves(c)

(* The application sets its own disposition for a signal: external code.   *)
AppSigaction ==
  /\ changes < MaxApp /\ changes' = changes + 1
  /\ AppRaces \/ control_mutex = None
  /\ \E s \in Signals, d \in {"default", "app"} :
       disposition[s] # d /\ disposition' = [disposition EXCEPT ![s] = d]
  /\ UNCHANGED <<atomics, control_mutex, data_mutex, session, session_active, config, worker,
                 previous_action, font, call, handler, counts, calls, faults>>

Next == \/ WorkerStep
        \/ DeadlinePasses
        \/ \E h \in Handlers : Delivered(h) \/ Compares(h) \/ Latches(h)
        \/ \E c \in Callers : Calls(c) \/ CallerStep(c)
        \/ AppSigaction

(* A FIFO need not ever have a reader again: the worker's progress is fair *)
(* everywhere but in a write that a reader would have to take.             *)
Stalled == WorkerAt("flush") /\ worker.bounded /\ Available
WorkerProgress == ~Stalled /\ WorkerStep

Fairness == /\ WF_vars(WorkerProgress)
            /\ WF_vars(DeadlinePasses)
            /\ \A c \in Callers : WF_vars(CallerStep(c))
            /\ \A h \in Handlers : WF_vars(Compares(h) \/ Latches(h))

Spec == Init /\ [][Next]_vars
FairSpec == Spec /\ Fairness
=============================================================================
