------------------------------ MODULE Terminal ------------------------------
(***************************************************************************)
(* The ownership of the process's terminal (src/terminal.c): the atomics   *)
(* that signal handlers touch, the I/O gate, release and restore, the      *)
(* owner's operations, the native session's use of them (src/tigt.c), the  *)
(* threads that draw and read under the gate, the wrapper handlers and the *)
(* dispatcher that replays their records.                                  *)
(*                                                                         *)
(* A step of a thread is the code between two accesses whose order another *)
(* thread can tell; taking the gate is the first access of its section.  A *)
(* thread calls tigt_terminal_release() by jumping to "r_take", and ret[t] *)
(* is the label the release returns to.                                    *)
(***************************************************************************)
EXTENDS Naturals, Sequences, FiniteSets

CONSTANTS
  Workers,       \* the threads that use the gate: renderer, input, presenter
  Handlers,      \* the wrapper invocations that may be in progress at once
  InputTty,      \* is the captured input a TTY (otherwise a pipe or a file)?
  OutputTty,     \* is the captured output a TTY?
  Operations,    \* the operations that the run exercises
  Modes,         \* the input modes [raw, keyboard] that the owner asks for
  Signals,       \* the kinds of signals that the run delivers
  PipeCapacity,  \* records that the signal pipe holds
  PipeMayFill,   \* may a handler find the pipe full?
  IoMayFail      \* may tcsetattr, write and newterm fail?

Owner      == "owner"
Dispatcher == "dispatcher"
Free       == "free"
Threads    == Workers \cup Handlers \cup {Owner, Dispatcher}

Ordinary == {"stop", "term", "chained"}   \* replayed; named by their prior disposition

ASSUME ThreadsAssumption ==
  /\ Workers \cap Handlers = {}
  /\ {Owner, Dispatcher, Free} \cap (Workers \cup Handlers) = {}
ASSUME OptionsAssumption ==
  /\ {InputTty, OutputTty, PipeMayFill, IoMayFail} \subseteq BOOLEAN
  /\ PipeCapacity \in Nat \ {0}
  /\ Modes \subseteq [raw : BOOLEAN, keyboard : BOOLEAN]
  /\ Signals \subseteq Ordinary \cup {"fatal", "cont", "winch", "request"}

VARIABLES
  captured, last_foreground,                 \* the capture, and what the last poll saw
  blocked, faulted, deferred_restore,        \* latches that handlers set
  policy,                                    \* desired_*, input_disabled, probe_mode
  owned, pending_protocols,                  \* what a release must undo, now or later
  failure, events,                           \* the sticky status and the bits for poll
  observed,                                  \* threads whose cached generation is current
  io_mutex, pipe,                            \* the gate's holder, the queued records
  pc, ret, rel, cur, job,                    \* the threads' places and locals
  active, renderer_screen,                   \* the session's workers; curses' shell termios
  pending_fullscreen,
  tty, foreground, proc,                     \* the terminal, its job, the process
  lost,                                      \* history: cleanup whose system call failed
  abandoned,                                 \* history: on before this capture
  intact,                                    \* history: no teardown since w's full frame
  told                                       \* history: the last transition that poll told

life     == <<captured, last_foreground>>
latches  == <<blocked, faulted, deferred_restore>>
duties   == <<owned, pending_protocols>>
reports  == <<failure, events, observed>>
terminal == <<life, latches, policy, duties, reports>>
locals   == <<ret, rel, cur, job>>
session  == <<active, renderer_screen, pending_fullscreen>>
world    == <<tty, foreground, proc>>
history  == <<lost, abandoned, intact, told>>
rest     == <<session, world, history>>
vars     == <<terminal, io_mutex, pipe, pc, locals, rest>>

Protocols == {"keyboard", "mouse", "screen"}
Transitions == {"released", "restored"}       \* the bits that tell the terminal's state
Owns      == Protocols \cup {"input", "output"}
Results   == {"ok", "background", "system"}

NoPolicy  == [raw |-> FALSE, keyboard |-> FALSE, mouse |-> FALSE,
              disabled |-> FALSE, probe |-> FALSE]
NoRelease == [took |-> {}, was |-> FALSE, out |-> FALSE]
NoJob     == [op |-> "none", result |-> "ok", was |-> FALSE, fg |-> FALSE]

\* tigt_terminal_is_foreground(), for a value of input_disabled.
ForegroundIf(disabled) ==
  /\ captured
  /\ ~InputTty \/ disabled \/ foreground
  /\ ~OutputTty \/ foreground
IsForeground == ForegroundIf(policy.disabled)

\* The cleanup descriptor is open and its terminal is ours.
OutputForeground == captured /\ OutputTty /\ foreground

\* tigt_terminal_record_error(): the first error stays.
Recorded(result)   == IF failure = "ok" THEN result ELSE failure

\* generation + 1: no thread's cached generation is current any more.  The
\* bits for poll are set after it, in a step of their own.
SameGeneration == UNCHANGED observed                       \* a slip
NextGeneration == observed' = {}
Report(bits)   == events' = events \cup bits

\* Which of some independent system calls fail.
Failing(calls) == IF IoMayFail THEN SUBSET calls ELSE {{}}

\* Threads at labels, jumps, calls of release, the gate.
At(t, label) == proc = "running" /\ pc[t] = label
Goto(t, label) == pc' = [pc EXCEPT ![t] = label]
CallRelease(t, return) ==
  /\ pc' = [pc EXCEPT ![t] = "r_take"]
  /\ ret' = [ret EXCEPT ![t] = return]
Lock(t) == io_mutex = Free /\ io_mutex' = t
KeepLock == UNCHANGED io_mutex                             \* a slip: a missing unlock
Unlock   == io_mutex' = Free
Idle(op) == At(Owner, "idle") /\ op \in Operations
Begin(op) == job' = [NoJob EXCEPT !.op = op]
\* An operation that poll called returns to poll.
Finish == /\ Goto(Owner, IF job.op = "poll" THEN "poll_end" ELSE "idle")
          /\ job' = IF job.op = "poll" THEN job ELSE NoJob

-----------------------------------------------------------------------------
(***************************************************************************)
(* tigt_terminal_release(), by any thread, with or without the gate.       *)
(***************************************************************************)
Return(t) == /\ Goto(t, ret[t])
             /\ ret' = [ret EXCEPT ![t] = "idle"]
             /\ rel' = [rel EXCEPT ![t] = NoRelease]

\* A handler may have blocked the terminal without undoing anything.
UndoneIfBlocked == blocked                                 \* slips: one of the two
NothingOwned    == owned = {}                              \* conditions only
NothingToUndo   == owned = {} /\ blocked

ReleaseTake(t) ==
  /\ At(t, "r_take")
  /\ blocked' = TRUE
  /\ owned' = {}
  /\ failure' = IF captured /\ ~IsForeground /\ pending_fullscreen
                THEN Recorded("background") ELSE failure
  /\ IF NothingToUndo
     THEN Return(t)
     ELSE /\ rel' = [rel EXCEPT ![t] = [took |-> owned, was |-> ~blocked,
                                        out |-> OutputForeground]]
          /\ Goto(t, IF owned = {} THEN "r_publish" ELSE "r_undo")
          /\ UNCHANGED ret
  /\ UNCHANGED <<life, faulted, deferred_restore, policy, pending_protocols, events,
                 observed, io_mutex, pipe, cur, job, rest>>

(***************************************************************************)
(* The termios are restored from the background too (SIGTTOU is blocked);  *)
(* there the protocols' cleanup is left to the next restore.               *)
(***************************************************************************)
CleanupDropped(took, off) == {}                            \* slips: nothing left,
CleanupUnmasked(took, off) == took \ off                   \* and the termios too
CleanupLater(took, off) == (took \cap Protocols) \ off

ReleaseUndo(t) ==
  LET modes == rel[t].took \cap {"input", "output"}
      off   == IF rel[t].out THEN rel[t].took \cap Protocols ELSE {}
  IN /\ At(t, "r_undo")
     /\ \E failed \in Failing(modes \cup off) :
          /\ tty' = [mode |-> IF modes \ failed # {} THEN "baseline" ELSE tty.mode,
                     on   |-> tty.on \ (off \ failed)]
          /\ failure' = IF failed # {} THEN Recorded("system") ELSE failure
          /\ lost' = lost \cup (failed \cap Protocols)
                          \cup (IF modes # {} /\ modes \subseteq failed THEN {"input"} ELSE {})
     /\ pending_protocols' = pending_protocols \cup CleanupLater(rel[t].took, off)
     /\ intact' = [w \in Workers |-> FALSE]
     /\ Goto(t, "r_publish")
     /\ UNCHANGED <<life, latches, policy, owned, events, observed, io_mutex, pipe, locals,
                    session, foreground, proc, abandoned, told>>

\* A release that changed something starts a new epoch and then reports it.
ReleasePublish(t) ==
  /\ At(t, "r_publish")
  /\ IF captured THEN NextGeneration /\ Goto(t, "r_report") /\ UNCHANGED <<ret, rel>>
                 ELSE UNCHANGED observed /\ Return(t)
  /\ UNCHANGED <<life, latches, policy, duties, failure, events, io_mutex, pipe, cur, job,
                 rest>>

ReleaseReport(t) ==
  /\ At(t, "r_report")
  /\ Report({"released", "input_reset"})
  /\ Return(t)
  /\ UNCHANGED <<life, latches, policy, duties, failure, observed, io_mutex, pipe, cur, job,
                 rest>>

Release(t) == ReleaseTake(t) \/ ReleaseUndo(t) \/ ReleasePublish(t) \/ ReleaseReport(t)

-----------------------------------------------------------------------------
(***************************************************************************)
(* Capture and forget.  The baseline is the termios of this moment,        *)
(* whatever it is; the protocols that are on are nobody's any more.        *)
(***************************************************************************)
Capture ==
  /\ Idle("capture")
  /\ ~captured
  /\ captured' = TRUE
  /\ last_foreground' = ((InputTty \/ OutputTty) => foreground)
  /\ blocked' = ~last_foreground'
  /\ faulted' = FALSE /\ deferred_restore' = FALSE
  /\ policy' = NoPolicy
  /\ owned' = {} /\ pending_protocols' = {}
  /\ failure' = "ok" /\ events' = {} /\ observed' = {Owner}
  /\ tty' = [tty EXCEPT !.mode = "baseline"]
  /\ lost' = {} /\ abandoned' = tty.on
  /\ told' = IF last_foreground' THEN {"restored"} ELSE {"released"}
  /\ UNCHANGED <<io_mutex, pipe, pc, locals, session, foreground, proc, intact>>

\* The session stops before it forgets (tigt_init, tigt_shutdown).
Forget ==
  /\ Idle("forget")
  /\ ~active /\ renderer_screen = "none"
  /\ Lock(Owner)
  /\ CallRelease(Owner, "forgotten")
  /\ UNCHANGED <<terminal, pipe, rel, cur, job, rest>>

Forgotten ==
  /\ At(Owner, "forgotten")
  /\ captured' = FALSE
  /\ Unlock
  /\ Goto(Owner, "idle")
  /\ UNCHANGED <<last_foreground, latches, policy, duties, reports, pipe, locals, rest>>

-----------------------------------------------------------------------------
(***************************************************************************)
(* The owner's policy operations.  set_input_mode, set_probe_mode, restore *)
(* and mouse share a pipeline: input termios, keyboard, mouse, conclusion. *)
(***************************************************************************)
AppliesBlocked(disabled) == ForegroundIf(disabled)         \* a slip
Applies(disabled)        == ForegroundIf(disabled) /\ ~blocked

SetInputMode(mode) ==
  /\ Idle("set_mode")
  /\ captured
  /\ Lock(Owner)
  /\ policy' = [policy EXCEPT !.raw = mode.raw, !.keyboard = mode.keyboard,
                            !.disabled = FALSE]
  /\ job' = [NoJob EXCEPT !.op = "set_mode", !.was = policy.disabled]
  /\ Goto(Owner, IF Applies(FALSE) THEN "own_input" ELSE "conclude")
  /\ UNCHANGED <<life, latches, duties, reports, pipe, ret, rel, cur, rest>>

SetProbeMode(enabled) ==
  /\ Idle("probe")
  /\ captured
  /\ ~(enabled /\ policy.disabled)
  /\ Lock(Owner)
  /\ policy' = [policy EXCEPT !.probe = IF Applies(policy.disabled) THEN enabled
                                        ELSE @ /\ enabled]
  /\ Begin("probe")
  /\ Goto(Owner, IF Applies(policy.disabled) THEN "own_input" ELSE "conclude")
  /\ UNCHANGED <<life, latches, duties, reports, pipe, ret, rel, cur, rest>>

\* apply_input(): a bit is owned before the change that it undoes.
InputMode == IF policy.raw /\ ~policy.disabled THEN "raw"
             ELSE IF policy.probe THEN "probe"
             ELSE IF policy.disabled THEN "baseline" ELSE "cooked"

OwnInput ==
  /\ At(Owner, "own_input")
  /\ owned' = IF InputTty THEN owned \cup {"input"} ELSE owned
  /\ Goto(Owner, IF InputTty THEN "set_input" ELSE "own_keyboard")
  /\ UNCHANGED <<life, latches, policy, pending_protocols, reports, io_mutex, pipe, locals,
                 rest>>

\* In the background tcsetattr raises SIGTTOU and may fail.
SetInput ==
  /\ At(Owner, "set_input")
  /\ \/ /\ tty' = [tty EXCEPT !.mode = InputMode]
        /\ Goto(Owner, "own_keyboard")
        /\ UNCHANGED job
     \/ /\ IoMayFail \/ ~foreground
        /\ job' = [job EXCEPT !.result = "system"]
        /\ Goto(Owner, "conclude")
        /\ UNCHANGED tty
  /\ UNCHANGED <<terminal, io_mutex, pipe, ret, rel, cur, session, foreground, proc, history>>

(***************************************************************************)
(* normal_write() checks the foreground (in the Own... steps) and then     *)
(* writes; a write that fails may have sent a part of the text.            *)
(***************************************************************************)
Writes(result, sent) ==
  \/ result = "ok" /\ sent
  \/ result = "background" /\ OutputTty /\ IoMayFail /\ ~IsForeground
  \/ result = "system" /\ OutputTty /\ IoMayFail

\* apply_protocols(); a probe ends before it.
WantsKeyboard == ~policy.disabled /\ policy.keyboard
OwnKeyboard ==
  LET change == OutputTty /\ job.op # "probe" /\ (WantsKeyboard # ("keyboard" \in owned))
  IN /\ At(Owner, "own_keyboard")
     /\ owned' = IF change /\ WantsKeyboard THEN owned \cup {"keyboard"} ELSE owned
     /\ job' = IF change /\ ~IsForeground THEN [job EXCEPT !.result = "background"] ELSE job
     /\ Goto(Owner, IF change /\ IsForeground THEN "write_keyboard"
                    ELSE IF change \/ job.op = "probe" THEN "conclude" ELSE "own_mouse")
     /\ UNCHANGED <<life, latches, policy, pending_protocols, reports, io_mutex, pipe, ret,
                    rel, cur, rest>>

WriteKeyboard ==
  /\ At(Owner, "write_keyboard")
  /\ \E result \in Results, sent \in BOOLEAN :
       /\ Writes(result, sent)
       /\ tty' = IF ~sent THEN tty
                 ELSE [tty EXCEPT !.on = IF WantsKeyboard THEN @ \cup {"keyboard"}
                                                          ELSE @ \ {"keyboard"}]
       /\ owned' = IF result = "ok" /\ ~WantsKeyboard THEN owned \ {"keyboard"} ELSE owned
       /\ job' = [job EXCEPT !.result = result]
       /\ Goto(Owner, IF result = "ok" THEN "own_mouse" ELSE "conclude")
  /\ UNCHANGED <<life, latches, policy, pending_protocols, reports, io_mutex, pipe, ret, rel,
                 cur, session, foreground, proc, history>>

\* tigt_terminal_mouse() as these operations call it.
WantsMouse == /\ ~policy.disabled /\ policy.mouse
              /\ job.op = "set_mode" => job.was
OwnMouse ==
  /\ At(Owner, "own_mouse")
  /\ \/ /\ WantsMouse /\ IsForeground
        /\ owned' = owned \cup {"mouse"}
        /\ Goto(Owner, "write_mouse")
        /\ UNCHANGED job
     \/ /\ ~(WantsMouse /\ IsForeground)
        /\ job' = IF WantsMouse THEN [job EXCEPT !.result = "background"] ELSE job
        /\ Goto(Owner, "conclude")
        /\ UNCHANGED owned
  /\ UNCHANGED <<life, latches, policy, pending_protocols, reports, io_mutex, pipe, ret, rel,
                 cur, rest>>

WriteMouse ==
  /\ At(Owner, "write_mouse")
  /\ \E result \in Results, sent \in BOOLEAN :
       /\ Writes(result, sent)
       /\ tty' = IF sent /\ OutputTty THEN [tty EXCEPT !.on = @ \cup {"mouse"}] ELSE tty
       /\ job' = [job EXCEPT !.result = result]
  /\ Goto(Owner, "conclude")
  /\ UNCHANGED <<terminal, io_mutex, pipe, ret, rel, cur, session, foreground, proc, history>>

\* set_input_mode and restore answer an error with a release.
Restoring == job.op \in {"restore", "poll"}
Conclude ==
  /\ At(Owner, "conclude")
  /\ ~(job.result # "ok" /\ job.op \in {"restore", "poll", "set_mode"})
  /\ IF Restoring /\ job.was
     THEN NextGeneration /\ Goto(Owner, "report") /\ UNCHANGED <<events, io_mutex, job>>
     ELSE /\ IF job.op = "set_mode" /\ job.was THEN Report({"input_reset"})
                                               ELSE UNCHANGED events
          /\ UNCHANGED observed
          /\ Unlock
          /\ Finish
  /\ UNCHANGED <<life, latches, policy, duties, failure, pipe, ret, rel, cur, rest>>

ReportRestored ==
  /\ At(Owner, "report")
  /\ Report({"restored", "input_reset"})
  /\ Unlock
  /\ Finish
  /\ UNCHANGED <<life, latches, policy, duties, failure, observed, pipe, ret, rel, cur, rest>>

ConcludeFailed ==
  /\ At(Owner, "conclude")
  /\ job.result # "ok" /\ job.op \in {"restore", "poll", "set_mode"}
  /\ failure' = IF Restoring THEN Recorded(job.result) ELSE failure
  /\ CallRelease(Owner, "failed")
  /\ UNCHANGED <<life, latches, policy, duties, events, observed, io_mutex, pipe, rel, cur,
                 job, rest>>

Failed ==
  /\ At(Owner, "failed")
  /\ failure' = Recorded(job.result)
  /\ Unlock
  /\ Finish
  /\ UNCHANGED <<life, latches, policy, duties, events, observed, pipe, ret, rel, cur, rest>>

(***************************************************************************)
(* tigt_terminal_disable_input(): the output keeps its lease.  A step that *)
(* fails takes its bit back, so that a later release tries again.          *)
(***************************************************************************)
DisableInput ==
  LET taken == owned \cap {"input", "keyboard", "mouse"}
  IN /\ Idle("disable")
     /\ captured
     /\ Lock(Owner)
     /\ policy' = [policy EXCEPT !.disabled = TRUE, !.probe = FALSE]
     /\ owned' = owned \ taken
     /\ rel' = [rel EXCEPT ![Owner].took = taken]
     /\ job' = [NoJob EXCEPT !.op = "disable", !.was = ~policy.disabled]
     /\ Goto(Owner, "disable_undo")
     /\ UNCHANGED <<life, latches, pending_protocols, reports, pipe, ret, cur, rest>>

DisableUndo ==
  LET mode  == rel[Owner].took \cap {"input"}
      off   == IF OutputForeground THEN rel[Owner].took \cap Protocols ELSE {}
  IN /\ At(Owner, "disable_undo")
     /\ \E failed \in Failing(mode \cup off) :
          /\ tty' = [mode |-> IF mode \ failed # {} THEN "baseline" ELSE tty.mode,
                     on   |-> tty.on \ (off \ failed)]
          /\ owned' = owned \cup failed
          /\ failure' = IF failed # {} THEN Recorded("system") ELSE failure
     /\ pending_protocols' = pending_protocols \cup CleanupLater(rel[Owner].took, off)
     /\ events' = IF job.was THEN events \cup {"input_reset"} ELSE events
     /\ rel' = [rel EXCEPT ![Owner] = NoRelease]
     /\ Unlock
     /\ Finish
     /\ UNCHANGED <<life, latches, policy, observed, pipe, ret, cur, session, foreground,
                    proc, history>>

-----------------------------------------------------------------------------
(***************************************************************************)
(* restore and poll.                                                       *)
(***************************************************************************)
Restore ==
  /\ Idle("restore")
  /\ captured
  /\ faulted' = FALSE
  /\ Begin("restore")
  /\ Goto(Owner, "restore_lock")
  /\ UNCHANGED <<life, blocked, deferred_restore, policy, duties, reports, io_mutex, pipe,
                 ret, rel, cur, rest>>

RestoreRefused ==
  /\ At(Owner, "restore_lock")
  /\ Lock(Owner)
  /\ ~IsForeground
  /\ CallRelease(Owner, "refused")
  /\ UNCHANGED <<terminal, pipe, rel, cur, job, rest>>

Refused ==
  /\ At(Owner, "refused")
  /\ deferred_restore' = TRUE
  /\ Unlock
  /\ Finish
  /\ UNCHANGED <<life, blocked, faulted, policy, duties, reports, pipe, ret, rel, cur, rest>>

RestoreUnblock ==
  /\ At(Owner, "restore_lock")
  /\ Lock(Owner)
  /\ IsForeground
  /\ deferred_restore' = FALSE
  /\ blocked' = FALSE
  /\ job' = [job EXCEPT !.was = blocked]
  /\ Goto(Owner, "restore_pending")
  /\ UNCHANGED <<life, faulted, policy, duties, reports, pipe, ret, rel, cur, rest>>

\* The cleanup that the background could not do.
RestorePending ==
  /\ At(Owner, "restore_pending")
  /\ \E failed \in Failing(IF OutputTty THEN pending_protocols ELSE {}) :
       /\ tty' = [tty EXCEPT !.on = @ \ (pending_protocols \ failed)]
       /\ lost' = lost \cup failed
       /\ failure' = IF failed # {} THEN Recorded("system") ELSE failure
  /\ pending_protocols' = {}
  /\ policy' = [policy EXCEPT !.probe = FALSE]
  /\ Goto(Owner, "own_input")
  /\ UNCHANGED <<life, latches, owned, events, observed, io_mutex, pipe, locals, session,
                 foreground, proc, abandoned, intact, told>>

\* Poll reads the foreground before it waits for the gate.
ServesOnlyMoves == ~IsForeground \/ (~faulted /\ ~last_foreground)     \* a slip
HasTransition   == \/ ~IsForeground
                   \/ ~faulted /\ (~last_foreground \/ deferred_restore)
Poll ==
  /\ Idle("poll")
  /\ captured
  /\ job' = [NoJob EXCEPT !.op = "poll", !.fg = IsForeground]
  /\ Goto(Owner, IF HasTransition THEN "poll_lock" ELSE "poll_end")
  /\ UNCHANGED <<terminal, io_mutex, pipe, ret, rel, cur, rest>>

PollLock ==
  /\ At(Owner, "poll_lock")
  /\ Lock(Owner)
  /\ CallRelease(Owner, IF job.fg THEN "poll_restore" ELSE "refused")
  /\ UNCHANGED <<terminal, pipe, rel, cur, job, rest>>

PollRestore ==
  /\ At(Owner, "poll_restore")
  /\ Unlock
  /\ faulted' = FALSE
  /\ Goto(Owner, "restore_lock")
  /\ UNCHANGED <<life, blocked, deferred_restore, policy, duties, reports, pipe, locals, rest>>

\* The bits are taken and the owner compares generations.
PollEnd ==
  /\ At(Owner, "poll_end")
  /\ last_foreground' = job.fg
  /\ events' = {}
  /\ told' = IF events \cap Transitions = {} THEN told ELSE events \cap Transitions
  /\ observed' = observed \cup {Owner}
  /\ Goto(Owner, "idle")
  /\ job' = NoJob
  /\ UNCHANGED <<captured, latches, policy, duties, failure, io_mutex, pipe, ret, rel, cur,
                 session, world, lost, abandoned, intact>>

-----------------------------------------------------------------------------
(***************************************************************************)
(* tigt_terminal_begin_io(special).  A refusal changes nothing, except in  *)
(* the background, where it releases first.                                *)
(***************************************************************************)
Admitted(special) ==
  /\ ~faulted
  /\ ~(captured /\ blocked /\ IsForeground)
  /\ special /\ captured => IsForeground /\ ~blocked

BeginRefused(t) ==
  /\ ~faulted /\ captured /\ ~IsForeground
  /\ Lock(t)
  /\ CallRelease(t, "io_refused")
  /\ UNCHANGED <<terminal, pipe, rel, cur, job, rest>>

IoRefused(t) ==
  /\ At(t, "io_refused")
  /\ deferred_restore' = TRUE
  /\ Unlock
  /\ Goto(t, IF t = Owner THEN "suspend_release" ELSE "idle")
  /\ UNCHANGED <<life, blocked, faulted, policy, duties, reports, pipe, locals, rest>>

(***************************************************************************)
(* The native session's use of the terminal: the mouse mode, curses, the   *)
(* worker threads and stop_session().                                      *)
(***************************************************************************)
Mouse ==
  /\ Idle("mouse")
  /\ captured
  /\ Admitted(TRUE)
  /\ Lock(Owner)
  /\ policy' = [policy EXCEPT !.mouse = TRUE]
  /\ Begin("mouse")
  /\ Goto(Owner, "own_mouse")
  /\ UNCHANGED <<life, latches, duties, reports, pipe, ret, rel, cur, rest>>

EnterScreen ==
  /\ Idle("screen")
  /\ captured /\ InputTty /\ OutputTty /\ ~active /\ renderer_screen = "none"
  /\ Admitted(TRUE)
  /\ Lock(Owner)
  /\ owned' = owned \cup {"screen", "output", "input"}
  /\ Goto(Owner, "newterm")
  /\ UNCHANGED <<life, latches, policy, pending_protocols, reports, pipe, locals, rest>>

Newterm ==
  /\ At(Owner, "newterm")
  /\ \/ renderer_screen' = tty.mode
     \/ IoMayFail /\ UNCHANGED renderer_screen
  /\ tty' = [mode |-> "curses", on |-> tty.on \cup {"screen"}]
  /\ Unlock
  /\ Goto(Owner, "idle")
  /\ UNCHANGED <<terminal, pipe, locals, active, pending_fullscreen, foreground, proc,
                 history>>

\* A new worker caches the generation, but its first frame is a full one.
StartWorkers ==
  /\ Idle("workers")
  /\ captured /\ ~active
  /\ active' = TRUE
  /\ observed' = observed \ Workers
  /\ UNCHANGED <<life, latches, policy, duties, failure, events, io_mutex, pipe, pc, locals,
                 renderer_screen, pending_fullscreen, world, history>>

Suspend ==
  /\ Idle("suspend")
  /\ active' = FALSE
  /\ Begin("suspend")
  /\ Goto(Owner, "suspend_join")
  /\ UNCHANGED <<terminal, io_mutex, pipe, ret, rel, cur, renderer_screen,
                 pending_fullscreen, world, history>>

\* The workers are joined; curses is left only if the gate admits it.
Joined == At(Owner, "suspend_join") /\ \A w \in Workers : pc[w] = "idle"

SuspendRefused == Joined /\ renderer_screen # "none" /\ BeginRefused(Owner)

SuspendQuietly ==
  /\ Joined
  /\ \/ renderer_screen = "none"
     \/ io_mutex = Free /\ (faulted \/ (captured /\ IsForeground /\ blocked))
  /\ Goto(Owner, "suspend_release")
  /\ UNCHANGED <<terminal, io_mutex, pipe, locals, rest>>

SuspendAdmitted ==
  /\ Joined
  /\ renderer_screen # "none"
  /\ Admitted(TRUE)
  /\ Lock(Owner)
  /\ Goto(Owner, "endwin")
  /\ UNCHANGED <<terminal, pipe, locals, rest>>

\* endwin() puts newterm's termios back; then tigt_terminal_screen(0).
Endwin ==
  /\ At(Owner, "endwin")
  /\ \E sent \in BOOLEAN, result \in Results :
       /\ \/ sent /\ result = (IF IsForeground THEN "ok" ELSE "background")
          \/ IoMayFail /\ result = "system"
       /\ tty' = [mode |-> renderer_screen, on |-> IF sent THEN tty.on \ {"screen"} ELSE tty.on]
       /\ owned' = IF result = "ok" THEN owned \ {"screen"} ELSE owned
       /\ failure' = IF result = "ok" THEN failure ELSE Recorded(result)
  /\ Unlock
  /\ Goto(Owner, "suspend_release")
  /\ UNCHANGED <<life, latches, policy, pending_protocols, events, observed, pipe, locals,
                 session, foreground, proc, history>>

\* The last line of stop_session(), without the gate.
SuspendRelease ==
  /\ At(Owner, "suspend_release")
  /\ renderer_screen' = "none"
  /\ job' = NoJob
  /\ IF captured THEN CallRelease(Owner, "idle") ELSE Goto(Owner, "idle") /\ UNCHANGED ret
  /\ UNCHANGED <<terminal, io_mutex, pipe, rel, cur, active, pending_fullscreen, world,
                 history>>

-----------------------------------------------------------------------------
(***************************************************************************)
(* The workers: the renderer and the input reader pass begin_io(1), glass  *)
(* text begin_io(0); the key filter releases before it raises a signal.    *)
(***************************************************************************)
Working(w) == At(w, "idle") /\ active

\* renderer_main() compares generations under the gate: a stale cache means
\* a full frame, and a full frame makes the screen intact.
BeginFrame(w) ==
  /\ Working(w)
  /\ Admitted(TRUE)
  /\ Lock(w)
  /\ observed' = observed \cup {w}
  /\ intact' = IF w \in observed THEN intact ELSE [intact EXCEPT ![w] = TRUE]
  /\ Goto(w, "frame")
  /\ UNCHANGED <<life, latches, policy, duties, failure, events, pipe, locals, session,
                 world, lost, abandoned, told>>

FrameRefused(w) == Working(w) /\ BeginRefused(w)

BeginGlass(w) ==
  /\ Working(w)
  /\ "glass" \in Operations
  /\ Admitted(FALSE)
  /\ Lock(w)
  /\ Goto(w, "glass")
  /\ UNCHANGED <<terminal, pipe, locals, rest>>

\* The filter decides before it waits for the gate.
HostKey(w) ==
  /\ Working(w)
  /\ "key" \in Operations
  /\ policy.raw /\ ~policy.disabled /\ IsForeground /\ ~blocked
  /\ Goto(w, "key_lock")
  /\ UNCHANGED <<terminal, io_mutex, pipe, locals, rest>>

KeyRelease(w) ==
  /\ At(w, "key_lock")
  /\ Lock(w)
  /\ CallRelease(w, "key_released")
  /\ UNCHANGED <<terminal, pipe, rel, cur, job, rest>>

\* end_io(), after a frame, glass text and the key filter's release.
EndIo(w) ==
  /\ proc = "running" /\ pc[w] \in {"frame", "glass", "key_released"}
  /\ Unlock
  /\ Goto(w, "idle")
  /\ UNCHANGED <<terminal, pipe, locals, rest>>

\* tigt_terminal_pending_fullscreen(+1 or -1).
PendingFullscreen(w) ==
  /\ Working(w)
  /\ "fullscreen" \in Operations
  /\ pending_fullscreen' = ~pending_fullscreen
  /\ UNCHANGED <<terminal, io_mutex, pipe, pc, locals, active, renderer_screen, world,
                 history>>

-----------------------------------------------------------------------------
(***************************************************************************)
(* The wrapper handlers.  An ordinary signal blocks the terminal, queues a *)
(* record and returns; a full pipe or a fault releases without the gate.   *)
(***************************************************************************)
Arrives(h, signal) == At(h, "idle") /\ signal \in Signals
Queueing == {h \in Handlers : pc[h] \in {"s_generation", "s_report", "s_write"}}

HandleOrdinary(h, signal) ==
  /\ Arrives(h, signal)
  /\ PipeMayFill \/ Len(pipe) + Cardinality(Queueing) < PipeCapacity
  /\ blocked' = TRUE
  /\ cur' = [cur EXCEPT ![h] = signal]
  /\ Goto(h, IF ~blocked /\ captured THEN "s_generation" ELSE "s_write")
  /\ UNCHANGED <<life, faulted, deferred_restore, policy, duties, reports, io_mutex, pipe,
                 ret, rel, job, rest>>

HandlerGeneration(h) ==
  /\ At(h, "s_generation")
  /\ NextGeneration
  /\ Goto(h, "s_report")
  /\ UNCHANGED <<life, latches, policy, duties, failure, events, io_mutex, pipe, locals, rest>>

HandlerReport(h) ==
  /\ At(h, "s_report")
  /\ Report({"released", "input_reset"})
  /\ Goto(h, "s_write")
  /\ UNCHANGED <<life, latches, policy, duties, failure, observed, io_mutex, pipe, locals,
                 rest>>

HandlerQueue(h) ==
  /\ At(h, "s_write")
  /\ Len(pipe) < PipeCapacity
  /\ pipe' = Append(pipe, cur[h])
  /\ cur' = [cur EXCEPT ![h] = "none"]
  /\ Goto(h, "idle")
  /\ UNCHANGED <<terminal, io_mutex, ret, rel, job, rest>>

HandlerPipeFull(h) ==
  /\ At(h, "s_write")
  /\ PipeMayFill
  /\ Len(pipe) = PipeCapacity
  /\ failure' = Recorded("system")
  /\ CallRelease(h, "s_forward")
  /\ UNCHANGED <<life, latches, policy, duties, events, observed, io_mutex, pipe, rel, cur,
                 job, rest>>

HandleFatal(h) ==
  /\ Arrives(h, "fatal")
  /\ faulted' = TRUE
  /\ deferred_restore' = FALSE
  /\ cur' = [cur EXCEPT ![h] = "fatal"]
  /\ CallRelease(h, "s_forward")
  /\ UNCHANGED <<life, blocked, policy, duties, reports, io_mutex, pipe, rel, job, rest>>

\* SIGCONT continues the process before any thread runs its handler.
HandleCont(h) ==
  /\ "cont" \in Signals
  /\ proc \in {"running", "stopped"} /\ pc[h] = "idle"
  /\ proc' = "running"
  /\ Goto(h, "s_cont")
  /\ UNCHANGED <<terminal, io_mutex, pipe, locals, session, tty, foreground, history>>

HandlerCont(h) ==
  /\ At(h, "s_cont")
  /\ deferred_restore' = TRUE
  /\ Goto(h, "idle")
  /\ UNCHANGED <<life, blocked, faulted, policy, duties, reports, io_mutex, pipe, locals,
                 rest>>

HandleWinch(h) ==
  /\ Arrives(h, "winch")
  /\ events' = events \cup {"resized"}
  /\ UNCHANGED <<life, latches, policy, duties, failure, observed, io_mutex, pipe, pc, locals,
                 rest>>

\* tigt_terminal_request_restore() in an application's handler.
RequestRestore(h) ==
  /\ Arrives(h, "request")
  /\ faulted' = FALSE
  /\ deferred_restore' = TRUE
  /\ UNCHANGED <<life, blocked, policy, duties, reports, io_mutex, pipe, pc, locals, rest>>

\* forward_signal(): what the prior disposition does to the process.
Disposition(signal) == CASE signal = "stop"    -> {"stopped"}
                         [] signal = "term"    -> {"dead"}
                         [] signal = "chained" -> {"running"}
                         [] OTHER              -> {"running", "dead"}

Forward(t) ==
  /\ At(t, "s_forward")
  /\ proc' \in Disposition(cur[t])
  /\ cur' = [cur EXCEPT ![t] = "none"]
  /\ Goto(t, "idle")
  /\ UNCHANGED <<terminal, io_mutex, pipe, ret, rel, job, session, tty, foreground, history>>

(***************************************************************************)
(* The dispatcher: one record at a time, a release under the gate, and the *)
(* delivery once the gate is free again.                                   *)
(***************************************************************************)
Dispatch ==
  /\ At(Dispatcher, "idle")
  /\ pipe # <<>>
  /\ cur' = [cur EXCEPT ![Dispatcher] = Head(pipe)]
  /\ pipe' = Tail(pipe)
  /\ Goto(Dispatcher, "d_lock")
  /\ UNCHANGED <<terminal, io_mutex, ret, rel, job, rest>>

DispatchRelease ==
  /\ At(Dispatcher, "d_lock")
  /\ Lock(Dispatcher)
  /\ CallRelease(Dispatcher, "d_unlock")
  /\ UNCHANGED <<terminal, pipe, rel, cur, job, rest>>

DispatchUnlock ==
  /\ At(Dispatcher, "d_unlock")
  /\ Unlock
  /\ Goto(Dispatcher, "s_forward")
  /\ UNCHANGED <<terminal, pipe, locals, rest>>

\* The shell moves the job between foreground and background.
MoveJob ==
  /\ proc # "dead"
  /\ foreground' = ~foreground
  /\ UNCHANGED <<terminal, io_mutex, pipe, pc, locals, session, tty, proc, history>>

\* After its death nothing of the process moves.
Dead == proc = "dead" /\ UNCHANGED vars

-----------------------------------------------------------------------------
Init ==
  /\ captured = FALSE /\ last_foreground = FALSE
  /\ blocked = FALSE /\ faulted = FALSE /\ deferred_restore = FALSE
  /\ policy = NoPolicy
  /\ owned = {} /\ pending_protocols = {}
  /\ failure = "ok" /\ events = {} /\ observed = Workers \cup {Owner}
  /\ io_mutex = Free /\ pipe = <<>>
  /\ pc = [t \in Threads |-> "idle"]
  /\ ret = [t \in Threads |-> "idle"]
  /\ rel = [t \in Threads |-> NoRelease]
  /\ cur = [t \in Handlers \cup {Dispatcher} |-> "none"]
  /\ job = NoJob
  /\ active = FALSE /\ renderer_screen = "none" /\ pending_fullscreen = FALSE
  /\ tty = [mode |-> "baseline", on |-> {}]
  /\ foreground \in BOOLEAN /\ proc = "running"
  /\ lost = {} /\ abandoned = {} /\ told = {} /\ intact = [w \in Workers |-> FALSE]

OwnerStarts ==
  \/ Capture \/ Forget \/ DisableInput \/ Restore \/ Mouse \/ EnterScreen
  \/ StartWorkers \/ Suspend
  \/ \E mode \in Modes : SetInputMode(mode)
  \/ \E enabled \in BOOLEAN : SetProbeMode(enabled)
OwnerContinues ==
  \/ Release(Owner) \/ Forgotten \/ DisableUndo
  \/ OwnInput \/ SetInput \/ OwnKeyboard \/ WriteKeyboard \/ OwnMouse \/ WriteMouse
  \/ Conclude \/ ReportRestored \/ ConcludeFailed \/ Failed
  \/ RestoreRefused \/ Refused \/ RestoreUnblock \/ RestorePending
  \/ PollLock \/ PollRestore \/ PollEnd
  \/ Newterm \/ SuspendRefused \/ SuspendQuietly \/ SuspendAdmitted \/ IoRefused(Owner)
  \/ Endwin \/ SuspendRelease
WorkerStarts(w) == \/ BeginFrame(w) \/ FrameRefused(w) \/ BeginGlass(w) \/ HostKey(w)
                   \/ PendingFullscreen(w)
WorkerContinues(w) == Release(w) \/ IoRefused(w) \/ EndIo(w) \/ KeyRelease(w)
HandlerStarts(h) ==
  \/ \E signal \in Ordinary : HandleOrdinary(h, signal)
  \/ HandleFatal(h) \/ HandleCont(h) \/ HandleWinch(h) \/ RequestRestore(h)
HandlerContinues(h) ==
  \/ HandlerGeneration(h) \/ HandlerReport(h) \/ HandlerQueue(h) \/ HandlerPipeFull(h)
  \/ Release(h) \/ HandlerCont(h) \/ Forward(h)
DispatcherStep == \/ Dispatch \/ DispatchRelease \/ Release(Dispatcher) \/ DispatchUnlock
                  \/ Forward(Dispatcher)

Next ==
  \/ OwnerStarts \/ Poll \/ OwnerContinues
  \/ \E w \in Workers : WorkerStarts(w) \/ WorkerContinues(w)
  \/ \E h \in Handlers : HandlerStarts(h) \/ HandlerContinues(h)
  \/ DispatcherStep
  \/ MoveJob \/ Dead

Spec == Init /\ [][Next]_vars

(***************************************************************************)
(* Every thread goes on with what it started and gets the gate it waits    *)
(* for: the sections are bounded and the workers sleep between them.  The  *)
(* owner polls regularly, as the header requires.                          *)
(***************************************************************************)
Fairness == /\ SF_vars(OwnerContinues) /\ SF_vars(Poll) /\ SF_vars(DispatcherStep)
            /\ \A w \in Workers : SF_vars(WorkerContinues(w))
            /\ \A h \in Handlers : WF_vars(HandlerContinues(h))
FairSpec == Spec /\ Fairness

=============================================================================
