# Verification of tigt

tigt shows the display of an emulated PC in a terminal and turns the terminal's
input into PC keys. This directory holds TLA+ models of its stateful parts, the
TLC runs that check them on small instances and TLAPS proofs for every instance.
Source paths below are relative to the repository's root.

## Inventory

| Part | State it keeps | Operations | Interacts through |
|---|---|---|---|
| Process-terminal ownership (`src/terminal.c` 1-447) | captured descriptors and termios, `owned`, `blocked`, `faulted`, `deferred_restore`, `pending_protocols`, the desired policy, `generation`, `events`, `failure`, the I/O gate | capture, forget, set_input_mode, disable_input, set_probe_mode, mouse, release, restore, request_restore, poll, begin_io/end_io | atomics that signal handlers touch; `io_mutex` for everybody else |
| Host-key filter and guest keys (`terminal.c` 449-529, `tigt.c` 826-870) | literal-next, the quoted gesture, suppressed keys, the keys the guest holds | filter_input, release_guest_keys | the generation; a release and `kill` |
| Signal chaining (`terminal.c` 531-814) | prior dispositions, the record pipe, consumed one-shot actions, stopped wrappers | install, uninstall, the wrapper, the dispatcher, rearming | `sigaction`, a pipe, a thread |
| Native session and renderer (`src/tigt.c`) | the copied frame, serials, the worker threads, curses | init, resume, suspend, shutdown, submit, the input and renderer workers, terminal_transition | `renderer_mutex`, the I/O gate, the owner callback |
| Presenter (`src/presenter.c`) | the committed image, the cursor, one resumable output transaction, hold timers | present, resume, reset, observe/forget_cursor | the I/O gate, the pending-fullscreen count |
| Notifications and local echo (`presenter.c`) | a bounded queue of predictions, 64 recent ids, the echo ring | notify, cancel, local_echo | trial copies that commit with a presented frame |
| Snapshots (`src/snapshot.c`) | the request latch, the configured signal, path and format, the worker, the completion status | configure, set_font, status, session start/stop | a signal handler, `control_mutex`, `data_mutex` |
| Input decoder (`src/input.c`) | the partial escape sequence, UTF-8 and paste states, mouse buttons | feed, flush | callbacks of the input worker |
| PC keyboard mapper (`keyboard/`) | reference counts of guest keys, implicit modifiers | handle, release_source | none |
| Video, graphics (`src/video.c`, `src/graphics.c`) | none between calls | decode, encode | none |
| Rust wrappers (`rust/`) | a session flag, caught panics | thin calls | the C interface |

What is hard, part by part:

* **Ownership.** A release may come from any thread and any signal handler, at
  any moment, while the owner changes the same termios and protocols under a
  mutex that handlers must not take. It must undo exactly what was done, once,
  in the background leave the protocols' cleanup for later, survive failed
  system calls, and every cached picture of the screen must notice.
* **Signals.** Ordinary signals are queued for a dispatcher that releases under
  the gate and replays them to their prior disposition; faults and a full pipe
  cannot wait. Stops, continuations and restores overlap.
* **Session.** Joins of workers that wait for the gate; curses' own termios.
* **Filter and guest keys.** Gestures that straddle a generation change.
* **Snapshots.** A signal latch that outlives the configuration it was for.
* **Presenter.** One transaction that backpressure suspends at any byte, while
  time passes, notifications age and the terminal is released under it.

## Plan

Done, in the order of importance: `Terminal`, `SignalChain` and `GuestKeys` (the terminal's
owner, its signals and its keys); `Snapshot` with `Transfer`, the promise that both
writers refine; `Presenter` with its notifications; `Keyboard`, `Decoder` and `Mouse`.

Left, in this order:

1. `Session` - frame serials, the glass hand-over and `terminal_transition`, composed with
   the abstract behaviour of `Terminal` (a lease that is granted and revoked).
2. The presenter's glass planner (`plan_glass`: which changes of the cells are text), with
   the matching of expectations and the local echo's ring; `Presenter` chooses its
   answers freely.
3. Bounded checks of `video.c`'s address arithmetic and of `ffi.rs`'s event buffer.

## The modules

`Terminal.tla` models `src/terminal.c`'s ownership and its clients. One action is
the code between two accesses whose order another thread can tell. The variables
carry the source's names; `owned`, `pending_protocols` and `events` are sets of
the source's bits. `observed` stands for `generation`: the set of threads whose
cached generation is the current one; a new generation empties it. `tty` is the
terminal itself: the termios in force and the protocols that are on. `job` holds
the locals of the owner's operation in progress, `rel[t]` those of a release,
`ret[t]` the place a release returns to.

| Actions | Code |
|---|---|
| `ReleaseTake`, `ReleaseUndo`, `ReleasePublish`, `ReleaseReport` | `tigt_terminal_release`, by any thread, gated or not |
| `Capture`, `Forget`, `Forgotten` | `tigt_terminal_capture`, `tigt_terminal_forget` |
| `SetInputMode`, `SetProbeMode`, `OwnInput` ... `Conclude`, `ReportRestored`, `ConcludeFailed`, `Failed` | the pipeline set_input_mode, set_probe_mode, restore and mouse share: apply_input, apply_protocols, tigt_terminal_mouse, the conclusion |
| `DisableInput`, `DisableUndo` | `tigt_terminal_disable_input` |
| `Restore`, `RestoreRefused`, `Refused`, `RestoreUnblock`, `RestorePending` | `tigt_terminal_restore` |
| `Poll`, `PollLock`, `PollRestore`, `PollEnd` | `tigt_terminal_poll` |
| `BeginRefused`, `IoRefused`, `EndIo`, `BeginFrame`, `BeginGlass` | `begin_io`, `end_io` and who calls them: the renderer, the input reader, the presenter |
| `HostKey`, `KeyRelease` | `tigt_terminal_filter_input`'s release before `kill` |
| `Mouse`, `EnterScreen`, `Newterm`, `StartWorkers`, `Suspend` ... `SuspendRelease` | the native session: `resolve_terminal_modes`, `tigt_resume`, `stop_session` |
| `HandleOrdinary`, `HandlerGeneration`, `HandlerReport`, `HandlerQueue`, `HandlerPipeFull`, `HandleFatal`, `HandleCont`, `HandlerCont`, `HandleWinch`, `RequestRestore`, `Forward` | `signal_handler`, `forward_signal`, an application's own handler |
| `Dispatch`, `DispatchRelease`, `DispatchUnlock` | `signal_main` |
| `MoveJob` | the shell's `tcsetpgrp` |

Abstractions: input and output are the same terminal when both are TTYs; a bit of
`owned` is set in the same step as the foreground check that precedes the write;
the texts of the protocols are a member of a set. A handler's or a release's new
generation (`NextGeneration`) and the bits for poll (`Report`) are two atomics in the
code and two steps here, as is the exchange of `blocked` before them. The history
variable `told` keeps the last of the transition bits RELEASED and RESTORED that a poll
took (at first, what capture found); `lost`, `abandoned` and `intact` are history too: cleanup
whose system call failed, protocols that were on before this capture, and whether a
worker's screen is as it drew it. The session's owner callback (it may be NULL) is not
called from `Poll`: its effects are the owner's own operations `Suspend`,
`EnterScreen`, `StartWorkers` and `Restore`, which may follow in any order, so
every order the callback produces is among them.

`TerminalProperties.tla` states what is promised. `MCTerminal.tla` names the input
modes of the instances.

`SignalChain.tla` models the optional chained handlers. Signals fall into four
classes by what the wrapper does with them (`Terms`, `Stops`, `Faults`, `Cont`; WINCH
only sets an event bit, which `Terminal` has). An invocation of the wrapper is a
frame on its thread's stack, `stack[t]`, and only the innermost frame runs: this is
how a signal interrupts a handler, a replay or an installation. `disposition` is the
kernel's table, `prior` is `prior_actions`, `consumed` and `stopped` are the masks
of claimed one-shot actions and of wrappers that a stop replaced, `descriptor` says
what `signal_pipe[1]` refers to, `replaying` is `replaying_signal`. `lifecycle` is the
owner inside install or uninstall, between any two of their system calls.

| Actions | Code |
|---|---|
| `Deliver`, `Continue`, `Register`, `Open` | the kernel, the shell, the application's `sigaction`, another thread's `open` |
| `Write` | `signal_handler`: the record goes to the pipe, or the handler forwards itself |
| `Exchange`, `RearmInstalled`, `RearmCheck`, `RearmPut` | `rearm_stopped_handlers` |
| `Forward`, `Claim`, `SetDefault`, `MarkStopped`, `Raise` | `forward_signal` |
| `Read`, `Exit`, `Replaying`, `ReplayRaise`, `Replayed` | `signal_main` |
| `Install`, `InstallFailed`, `Create`, `Wrap` | `install_signal_handlers` and its failure paths |
| `Uninstall`, `CloseWrite`, `Join`, `Uncovered`, `PutBack` | `tigt_terminal_uninstall_signal_handlers` |

Abstractions: a siginfo is the number of the delivery it came with, 0 for the
siginfo of tigt's own raise; masks of prior actions are empty and none has
SA_NODEFER; the order of the descriptors and the texts of errors are left out; the
terminal's release on the same path is in `Terminal`.

`GuestKeys.tla` models the filter together with the worker that feeds it. The
keyboard (`Press`, `Repeat`, `LetGo`) puts events in the terminal's queue, which the
worker reads in batches; the decoder is abstracted to whole events that carry the
Ctrl bit. `current` holds those whose cached generation is the current one: the
worker's (`generation`) and the filter's (`filter_generation`).

| Actions | Code |
|---|---|
| `Released`, `Restored`, `Disable`, `Stop`, `Start` | release, restore, disable_input, `stop_input_worker`, `start_input_worker` |
| `Exit`, `Renew`, `Renewed`, `Go`, `EndsItself`, `Idle`, `ReadEvents`, `Fed` | `input_main` |
| `FilterEpoch`, `FilterInput` (`Decide`: one disjunct per branch) | `tigt_terminal_filter_input`, `terminal_input` |
| `HostSignal` | the release before `kill` |

`fate` follows each key's gesture (to the guest, the host, or quoted) as decided by
the first event the filter sees of it. Three things the person or the timing may do
are recorded in `odd`, because no property covers them: a key typed while nobody
read the terminal (`unseen`), Ctrl changed while a character's key was down (`mixed`),
a second gesture quoted during the first (`overlap`). `MaxOdd` bounds how many kinds
a run combines. Cooked and paste input bypasses the filter and is left out, with
the unsupported SIGINFO and the mouse buttons the guest holds.

`Transfer.tla` is abstract: what a bounded writer promises of one message after
another. Its receiver holds a prefix, nothing follows a failure, and a message is called
whole only when the receiver has all of it. `Snapshot` and `Presenter` refine it
(`CaptureIsTransfer`, `OutputIsTransfer`), through a state function that reads the units
sent from the worker's buffer or from the history of what reached the terminal.

`Snapshot.tla` models `src/snapshot.c`: invocations of the handler, the worker, and callers
whose calls take `control_mutex` at their first step and give it back at `Leaves`. A step
is one atomic access, lock step or system call. `worker` holds the thread's step and the
locals of its capture (`left` to encode, `used` in the sink's buffer, `late` past the
FIFO's 250 ms), `call[c]` those of a call (`number` is what `disable_configuration`
exchanged, `ours` whether the signal already has the library's handler).

| Actions | Code |
|---|---|
| `Delivered`, `Compares`, `Latches` | `snapshot_signal`: entry, the comparison, the store |
| `Tests`, `Takes`, `Publishes` | `snapshot_worker`'s loop |
| `Opens`, `Captures`, `Copies`, `Encodes`, `Flushes`, `Closes`, `DeadlinePasses` | `write_configured_snapshot`, `write_snapshot`, `sink_bytes`, `sink_flush` |
| `Calls`, `Enters`, `Admits`, `Leaves` | `tigt_snapshot_configure`, `set_font`, `session_reset`, `session_start`, `session_stop` |
| `Clears`, `Asks`, `Restores` | `disable_configuration` |
| `Stops`, `Joins`, `Unlatches` | `stop_worker` |
| `Spawns`, `Installs`, `Acts`, `Data` | the rest of configure, the font and the status |
| `AppSigaction` | the application's own registrations |

Abstractions: a path is its kind (file or FIFO), the encoded frame is a number of buffers'
worth of units, a read of a FIFO's reader is a write that succeeds; PNG and text differ
in where they look for cancellation and in the font.

`Presenter.tla` models `src/presenter.c`. `p` is `struct tigt_presenter`; the operations on
it (`Observed`, `Seen`, `Finished`, ...) are functions of it, as in the code. A call that
writes has a step that begins the output (`Present`), one at the I/O gate (`Gate`) and one
for every `write` (`Write`), then `Commit`; between them the shell may change the
foreground, and outside the gate the terminal may be released. `wire` is what the
terminal has of the output in hand. `hist` is history: the image the terminal shows,
whether fullscreen bytes are on it, and how long frames have been saying the same.

| Actions | Code |
|---|---|
| `Present` (`Observed`, `Seen`, `ShowsFullscreen`, `ShowsGlass`, `Draws`, `Begins`) | `present`, `observe_terminal`, the holds, `recovering`, `prepare_plan`, `draw_fullscreen`, `begin_output` |
| `Gate`, `Write`, `Commit` | `finish_output`, `write_output` |
| `Resume`, `Reset`, `Destroy` | `tigt_presenter_resume`, `reset`, `destroy` |
| `ObserveCursor`, `ForgetCursor`, `LocalEcho` | the calls of that name |
| `Notify`, `Cancel` | `tigt_presenter_notify`, `cancel` |
| `Released`, `Flipped` | the terminal's generation and foreground, from outside |

Abstractions: what the planner finds in a frame is part of the frame: whether rows are
being copied (`scroll`), whether the change can be glass text (`fit`) and what recovery
looks at (`trace`). A trial confirms, keeps or discards any of the queued operations. The
bytes of an output are units. 100, 200 and 500 ms are `Confirm`, `BlankHold` and
`ScrollHold` ticks, in the same order.

`Keyboard.tla` models `keyboard/src/lib.rs`: `Press`, `Release`, `Repeat` and `ReleaseAll` are
`handle` and `release_all`; `held`, `counts` and `shift_suppressions` carry the source's
names; the mapping is translated branch by branch with one or two keys for each.
`guest` and `positions` follow the emitted transitions. The order in which a hash map's
sources are released is any order.

`Decoder.tla` models `tigt_input_feed` and `tigt_input_flush` (`src/input.c`) byte by byte, with
the bytes named by what the decoder tells apart. Which fragment a byte came in does
not matter to the code; where the escape timeout falls does (`Timeout`). `raw`, `damaged`
and `whole` remember what arrived since the last escape, `received`, `pasted` and `literal`
the paste. Two special cases of the code are left out, and no property depends on them:
U+F746, which is reported as Insert, and a `-` in the parameters of a mouse report (it is no
intermediate byte after `<`).

`Mouse.tla` models `handle_mouse` and what follows from it: the mask of held buttons,
inferred from reports that leave out releases (X10), name no button (legacy) or show a
drag whose press was lost, while the renderer changes the mode.

## The runs

A run checks several scenarios where the instances differ only in their constants: an
MC module instantiates the module for each, and a variable `scenario`, which no step
changes, says which one a behaviour belongs to. Properties about one hazard are
conjoined: `OwnerIsTold` is `EpochIsReported /\ PictureIsTrue`, `NothingHangs` is
`TeardownCompletes /\ SuspendReturns`, `WrappersInPlace` is `StopsStayManaged /\
WrappersRemoved`, and so on at the end of each properties module.

| Run | Scenarios | Checked |
|---|---|---|
| `terminal_gated` | `signalled`: two overlapping handlers and a pipe of two, against capture, set_input_mode and poll; `polled`: a stop and its SIGCONT against poll, forget and another capture; `session`: curses, a worker, a suspension, a handler | `BlockedMeansReleased`, `DrawsOnIntactTerminal`, `ReleasedMeansBaseline`, `OwnerIsTold`, `TypeOK` |
| `terminal_troubled` | `troubled`: every tcsetattr and write may fail and the job moves; `emergency`: faults and a full pipe | `CleanupOwed`, `GateDiscipline` |
| `terminal_live` | `resuming`: SIGCONT, faults, requests; `waiting`: a worker, a suspension and queued signals | liveness `PolledRestoreHappens` (`RestoreHappens` of the owner that polls), `NothingHangs` |
| `terminal_stop_race` | `racing`: a stop that arrives in raw mode, its SIGCONT, and a poll after the dispatcher's release | violation of `StoppedMeansReleased` |
| `chain_lifecycle` | installations and removals, two signals, a pipe of one, each kind of prior disposition | `PerformedOnce`, liveness `EverythingSettles`, `TypeOK` |
| `chain` | `deliveries`: two threads and the dispatcher, three signals, a pipe of two; `kept`: installations that fail anywhere, removals and later registrations among signals that neither stop nor continue | `OneShot`, `InformationOnce`, `WrappersInPlace`, `RecordIsLive`, `RegistrationsKept` |
| `keys` | `gestures`: two events to a read, a record of two; `epochs`: releases, restorations, disabled input, a worker that stops or fails | `NoStuckKey`, `GesturesKeepSides`, `RecordIsKept` (with `TypeOK`), liveness `EpochReleases` |
| `snapshot` | `threads`: two callers over both signals; `captured`: files, FIFOs and failing system calls; `repeated`: two requests | `WorkerOwnsConfiguration`, `ConfigurationIsWhole` (with `TypeOK`), `ShutdownClears`, `CapturesAreCounted`, `FontOfFrame`, refinement `CaptureIsTransfer`, liveness `SnapshotProgress` |
| `snapshot_race` | the same, with registrations of the application at any time | violation of `ApplicationKept` |
| `presenter` | `holds`: copied, disabled and unfitting frames of one and two ticks; `recovery`: traces, clears, a release; `terminal`: the foreground changes three times and the terminal is released during outputs of two units; `notes`: three operations, a queue and a memory of two | `ImageIsShown`, `OutputIsAtomic` (with the refinement `OutputIsTransfer`), `TransactionConsistent`, `FullscreenIsKnown`, `PendingIsBounded`, `RecoveryEarned`, `NotificationsAccounted` |
| `presenter_policy` | the same | violation of `PolicyKept` |
| `input` | the mapper: `chords`, `aliases` (XT), `layer` (AT), `special`, `graves`; the decoder: `pastes`, `sequences`; the `mouse` | `HeldInGuest`, `NoStuckPosition`, `PastesAreText`, `SequencesAreWhole`, `ButtonsFollow` |

Bounds. In `Terminal` handlers share no data but the atomics, so two of them show
every overlap of two invocations; a pipe of one record is full after one signal, and
two distinguish the queued from the dispatched. The `emergency` scenario's operations
enable no protocol, so `CleanupOwed` is put to the test in `troubled`, whose releases are
gated; `racing` keeps only the schedules that lead to the disagreement
(`ArrivesInRaw`, `PollsInBetween`). Nothing else there needs a bound:
the generation and the event bits are sets. The scenarios divide the operations among
them (`Operations`, `Signals`) so that each stays small. In `SignalChain` `MaxSignals`
bounds the signals that arrive by themselves: two overlap any two invocations,
the third in `deliveries` adds one nested in a replay while a record waits; `heard`
is indexed up to twice that number because a continuation may add one delivery to
each. In `GuestKeys` the queue is bounded by `MaxTyped`, one read by `BatchSize` (the
code's 128 bytes) and the record by `HeldMax` (256): a batch of two lets an epoch
change between its events, and three keys overfill a record of two.

In `Snapshot` `MaxCalls` bounds the calls of all threads (six or seven: a session's start, a
configuration, its replacement, a suspension, a shutdown and one more), `Units` the
encoded frame and `Room` the sink's buffer (2, so that a write may be partial), `MaxFaults`
the failing calls of the lifecycle and `MaxApp` the application's registrations.
A second handler shows a request latched while the first is served. In `Presenter`
outputs have up to `MaxUnits` = 2 units: one write may be short, and a second follows.
`MaxFlips` = 3 changes of the foreground let an output be begun in the background, taken
over by the foreground and lost again; one release (`MaxEpoch`) invalidates an output
at any of its steps. Two confirming ticks, three of blanking and four of scrolling keep
the three deadlines apart, and frames of two ticks step over them; `notes` uses one.
`Capacity` and `Recent` (32 and 64) are 2, so that the third identifier overflows both.
`Capacity` of the decoder's buffer (63) is 5, one more than its longest known
sequence, so that overlong ones occur; `MaxPaste` = 6 holds a marker and a character on
either side. The mapper's and the mouse's state spaces are finite by themselves.

### Disagreements

Three runs show the code do what a sentence of the repository denies:

* `terminal_stop_race`, `docs/reference.md:53` (release, then stop): the dispatcher unlocks
  the gate (`terminal.c:709`) before it raises the stop signal. In the trace a stop arrives
  while the terminal is raw, SIGCONT sets `deferred_restore`, the dispatcher's release puts
  the captured termios back, a poll then restores raw mode, and the process stops in it.
* `snapshot_race`, `docs/reference.md:501` (a non-default disposition is not replaced):
  `tigt_snapshot_configure` asks for the disposition (`snapshot.c:651`) long before it sets
  its own (694), and overwrites a handler registered in between.
* `presenter_policy`, `include/tigt_presenter.h:140` (the fullscreen policy is retained): glass
  output begun in the background and pending when the foreground returns commits with
  `fullscreen = false` (`presenter.c:1253`) after the return took the policy back.

The other properties hold under the conditions their comments name. Outside them
the models reach behaviours in which the code does not do what a sentence of the
documentation says, or that no sentence speaks of, and no property claims that it does:

* A full pipe makes the handler of an ordinary signal release without the gate
  (`terminal.c:687`), under a frame (`include/tigt_terminal.h:83`). If the owner restores
  the terminal and polls before that release sets its bits, the next poll tells RELEASED of
  a terminal that is restored: `OwnerIsTold` is claimed only where the pipe has room.
* The same release, or a fault's on another thread, between the owning of a protocol's bit
  and the write that enables it leaves the protocol on and unowned (`terminal.c:241-242`):
  `CleanupOwed` is proved, and checked with protocols, only without it.
* RELEASED and RESTORED that one poll takes together do not tell which came last;
  `OwnerIsTold` asks nothing of such a poll.
* A fault between poll's check (`terminal.c:434`) and restore's first store
  (`terminal.c:368`) is forgotten (`include/tigt_terminal.h:81`).
* Restore, disable_input, suspend: `endwin()` (`tigt.c:1139`) puts back the termios that
  newterm saved after the baseline's bit was given up (`docs/reference.md:30`).
* A removal closes `signal_pipe[1]` (`terminal.c:800`) while wrappers still write to its
  number; a file opened meanwhile takes the record.
* A SIGCONT handler that read `handlers_installed` (`terminal.c:595`) before a removal
  puts a wrapper back after it (`docs/reference.md:42`); the next installation takes it
  for a prior handler, and forwarding then calls itself without end.
* Forwarding a prior default action sets SIG_DFL (`terminal.c:629`) over a handler
  registered after the installation (`docs/reference.md:42`).
* A delivery between the dispatcher's unblocking and its raise (`terminal.c:720`) takes
  the record; the raise is then queued with its own siginfo (`docs/reference.md:60`).
* A removal reads that a one-shot action is unconsumed and registers it again
  (`terminal.c:807-808`) after a handler in flight ran it (`docs/reference.md:44`).
* Ctrl up before a host key: the key's release goes to the guest
  (`terminal.c:500`, `docs/reference.md:93`).
* A second quote during the first overwrites `quoted_key` (`terminal.c:493`,
  `docs/reference.md:95`).
* Poll's check of the foreground, and the ownership that release read, are stale when used
  (`terminal.c:235`, `256`, `434`); `TCSANOW` keeps keys typed before a release for after it (232).
* A policy that turns to cooked while a key is down (`terminal.c:474`): no generation changes
  and the release is never reported.
* A wrapper of an earlier installation reads `prior_actions` while the next one writes
  them (`terminal.c:751`): the torn read is not modelled.
* A paste's last bytes that look like its end marker wait for the next byte:
  `tigt_input_flush` does not report them (`input.c:501`).
* Shifted digits, Tab and unknown characters share one source (`keyboard/src/lib.rs:577`):
  two of them held at once are one to the mapper.
* UNREPRESENTABLE from a foreground lost between observation and drawing (`presenter.c:1336`)
  stays until a reset; BUSY may follow an observation that changed the policy (1730).
* An operation that was cancelled and forgotten by the ring of 64 may be queued again
  (`presenter.c:1690`).

## Fairness

`FairSpec` assumes strong fairness of each thread's steps that continue what it
started, and of the dispatcher: the gate is a mutex whose sections are bounded,
and its other users sleep 20 ms or more between sections (`renderer_main`,
`input_main`), so a waiting thread gets it. It assumes that the owner polls again
and again: `include/tigt_terminal.h:39` demands it ("Poll regularly even with no frame
submissions"). Handlers run to their end (weak fairness). Nothing is assumed of
signals, of the shell, or of operations that the application may never call.

`SignalChain`'s `FairSpec` assumes weak fairness of each thread's handler steps, of
the dispatcher and of the owner inside an installation or removal: each is code that
the scheduler runs on. It assumes that the shell continues a stopped process and that
the pending SIGCONT is then delivered. `EverythingSettles` excepts a process that ended,
an application that reinstalls for ever, and a wrapper taken for a prior handler.
`GuestKeys` assumes weak fairness
of the input worker alone.

`Snapshot`'s `Fairness` assumes weak fairness of callers inside a call and of handlers that
have been entered; of the passing of the 250 ms; and of the worker everywhere but in a
write to a FIFO that a reader would have to take (`Stalled`). That captures to a FIFO end
all the same is what `CaptureEnds` shows: the deadline or the cancellation ends them.
`Presenter`, `Keyboard`, `Decoder` and `Mouse` are called: they state safety, and the presenter's
deadlines are bounds on what the frames' ticks add up to, not liveness.

## The proofs

Every theorem below is about all values of the constants: any number of threads, callers,
signals, keys or operations, any queue, pipe and buffer sizes, any failures. A hypothesis
on the constants is named where there is one, with the reason: outside it the property is
false, and the list of disagreements says how. Each proof has the same outline: an
invariant whose parts are tied to labels or to places, one lemma for each group of
actions, and the property read off the invariant.

### Ownership

`TerminalProofs.tla` proves type correctness (`TypesHold`; `TypeInv` adds to `TypeOK` where
a release and a record can be) and `GateHeld`: a thread is inside a section of the gate
exactly when it holds the mutex. That formula is not inductive alone, because a release
returns to a label it was given; `GateKept` adds which return labels a thread may carry.

Its second half proves five more under `NoEmergency` (no faults, room in
the pipe), the case in which every release but the session's last one is gated:
`GatedReleases` first, then `CleanupIsOwed` (what is on at the terminal is owned, or
pending, or in a release's hands), `FramesAreIntact` (a worker inside a frame holds
the gate, so no release is between its two halves; a worker whose cache is current
has seen no release since its full frame), `BlockedIsReleased` and `BaselineTheorem`.
The last says that a released terminal has its captured termios: `ModeOwed` (whoever
changed the termios has the bit in `owned`, or is about to undo it, or its undoing failed)
needs `CursesInv` (the termios that newterm saved are put back before the bit is given up).
It takes `SeparateOperations` as well, which says that the application does not mix
curses with `tigt_terminal_disable_input`. Without `NoEmergency` the frames are not
intact, for a full pipe releases under one; and a fault on another thread that releases
between the owning of the keyboard's bit (`terminal.c:241`) and the write that enables the
protocol (242) leaves it on and owed by nobody.

The fifth, `ToldTheorem`, proves `OwnerIsTold`: no epoch is lost between its generation and
its bits, and once all is settled the transition that poll told last is the state of the
terminal. `PictureIsTrue` alone is not inductive. `PictureInv` says what is known between
its steps: if all the owner has been told, with the bits that wait, is RELEASED, then the
terminal is blocked, or a restore is about to tell (`WillTellRestored`), or a teardown
about to block it (`WillBlock`); if it is RESTORED, then it is not blocked or a thread is
between its exchange of `blocked` and its bits (`WillTellReleased`). A
restore that found the terminal blocked must also be sure that RELEASED was set before its
own bit. It rests on `AwayInv` (where owner and workers may be while nothing
is captured) and `UncapturedInv` (a terminal that is not captured is released, so a
teardown that is still queued at forget or the next capture finds nothing to undo).

### Signals

`SignalChainProofs.tla` proves, of every step of every invocation at any depth of nesting:

* `TypesHold` (a frame is about to remember a stop only if its signal is one, so `stopped`
  never leaves `Stops`) and `ReplayedRecordIsLive` (a new dispatcher starts only after the
  last one was joined, so a record outlives every raise that reads it).
* `OneShotHolds` under `NoLifecycle` (no installation or removal during the behaviour): a
  handler ran only if its bit in `consumed` is set, and no managed signal's disposition is
  itself the one-shot action.
* `PerformedTheorem`: `PerformedOnce`, which counts. What is in flight is the cardinality of a
  set of places (`Invocations`: thread and depth, a position in the pipe, the dispatcher),
  so a push, a pop, a write and a read each move one element (`CountInv`); `PipeInv` says
  that records lie in the pipe only while a dispatcher will read them. `NoStrays`: no
  other file gets the number of the closed descriptor, and no failed installation throws
  the pipe away with a record in it.
* `InformationTheorem`, without hypotheses: a siginfo reaches at most one prior handler.
  `InfoInv` follows each number: it is on one stack, or in one record, or with the
  dispatcher (`OnStack`, `InPipe`, `Held`), and once heard it is nowhere.
* `ManagedTheorem` under `Unregistered` (`NoLifecycle`, and no handler is registered later): a
  stop whose default was set for the raise gets its wrapper back. Between the raise and
  the rearming the duty passes from frame to frame: some active frame `Covers` each stop, and
  the pending continuation is `ManagedInv`'s second half. A registered CONT handler would
  never rearm.
* `RemovalTheorem` under `HandledStops` (the application handles or ignores the stops): after a
  removal, or an installation that failed at any step, no wrapper is left. `OwnerInv`
  says which signals the owner has yet to wrap or to put back at each label. Otherwise a
  continuation that read `handlers_installed` in time rearms after the removal.
* `RegistrationTheorem`: where every managed signal was handled or ignored, whatever the
  application registers later stays. `KeptTheorem` gives the same signal by signal. Over a
  default or a one-shot action forwarding sets SIG_DFL.

`GuestKeysProofs.tla` proves `RecordTheorem` (the record of the keys that the guest holds never
exceeds `HeldMax`, and a worker that has ended holds nothing), `StuckTheorem` and
`SidesTheorem`. `StreamInv` ties what the person's hands do to what is in the queue and the
batch (an event of a key is followed by events that continue it); `HeldInv` says that a key
down in the guest is in the record or has its release ahead; `SidesInv` says to whom the
gesture under way belongs, and that what was decided in an older generation has `Expired`.

### Snapshots

`SnapshotProofs.tla`: its lemma `Routes` says once which labels a step of a call leads to and
under which condition, `Effects` what the steps change of the state that the callers
share; each invariant then needs only the few rows that touch it. `IInv` has these parts:
`Shape` (labels, and what a call or the worker must carry at each), `MutexInv` (a caller
past "enter" holds `control_mutex`), `OwnInv` (a live worker is remembered in
`worker_created`, so a path is freed only past the join: `OwnershipTheorem`), `SessionInv`
(each call that goes on after `session_active` was lowered is on its course to clear;
nothing is admitted while the session is down: `ShutdownTheorem`), `CountInv` (begun captures
and a pending request never exceed the stored ones: `CountsTheorem`), `FontInv` (the
worker copies under `data_mutex`: `FontTheorem`), `WholeInv` (at each label of the call that
holds the mutex, which of worker, path and signal are there; nobody holds it: all or none:
`ConfigurationTheorem`), `ReturnInv` and `KeptInv` (the handler that is put back is the one that
was taken), and `UnitInv` (what is left, buffered and sent is the frame).
`CaptureTheorem` is the refinement of `Transfer`: a flush is a transfer's step, a close its
end, every other step a stutter. `ApplicationTheorem` proves `ApplicationKept` of an
application that does not race the library's calls (`~AppRaces`): the run `snapshot_race`
shows that nothing less will do.

### Presenter

`PresenterProofs.tla` proves three facts about one output. A step either leaves it
alone (`SameOutput`, lemma `Stays`), begins one, writes to it, gives it up or commits it;
`TInv` says that what is under way is pending (`UnderWay`), that the wire and `written` are in
step (`InStep`) and that a fullscreen output is of the epoch that it is written in
(`InEpoch`). From it follow `ImageTheorem` (the committed image was delivered entirely),
`RegistrationTheorem` (a conjunct of `TransactionConsistent`) and `RepaintTheorem` (a conjunct of
`OutputIsAtomic`).

`PresenterSafetyProofs.tla` has the rest. A call's first step is a chain of five functions
of the presenter, so it is summed up first: what observing, seeing and judging a frame
may change (`ObservedFields` and its like), then one summary for each action (`Looks`,
`Judges`, `WritesUnit`, `CommitsOutput`, `Renews`, `Rests`). `Sound` is `TInv` with three relations
between the presenter and the history of what it was shown: `HoldFollows`,
`RecoveryFollows` and `PolicyFollows`; `HoldTheorem`, `RecoveryTheorem` and `PolicyTheorem` read
the run's invariants off it. `Books` balances an account: what was taken is queued, confirmed,
expired, discarded or cancelled, in the presenter and in the trial that waits for a
commit (`NotificationsTheorem`). `TransferTheorem` is the refinement, with `Closed` (an output
that ended stays as it ended) and `Outcome` (what each step is of a transfer);
`MatchesTheorem` and `RepaintTheorem` complete `OutputTheorem`. The constants' assumptions are that
frames are `FrameTypes` (`FramesAssumption`) and that the limits are positive
(`BoundsAssumption`); `MaxTicks` is the longest step of time a frame may bring, since the
counters of the code are capped at the deadline plus one frame.

### Input

`DecoderProofs.tla` proves `PastesTheorem` and `SequencesTheorem` for whatever bytes arrive, from
`CapacityAssumption` alone: the sequence buffer holds an introducer (the code's has 64
bytes). The text of a paste is `FlattenSeq` of what each byte says, which depends on its
neighbours; the library's induction cannot be used, so `Steps` derives induction
over a set of numbers from the well-foundedness of their order, `FlattenSolved` shows that
the recursion has a solution and `TextNext` what one more byte adds to a text (it
completes a half character or cuts it). Then `PlainKey` computes the same of the decoder.
`DInv` says what can be under way at once (`Shaped`: a sequence in the buffer excludes a
paste, a legacy report and half a character), that what was received of a paste is the
text and the matched part of the marker (`PasteFollows`), and that a sequence which may
still be reported is what arrived since its escape (`SequenceFollows`). The next bytes that
`PasteEnds`, `EscapeOnce` and `Resynchronises` speak of are then computed.

The module also proves `ButtonsTheorem` of `Mouse`: each event of a report follows from the one
before it (`Follows`, `Chain`), and the mask is what the events add up to (`Current`), for every
order of X10, legacy and drag reports and every change of mode between them.

`KeyboardProofs.tla` proves `HeldTheorem` and `PositionsTheorem` for every finite set of reports
(`KeysAssumption`) and every set of modifiers. `Tells(out, was, now)` says that transitions
alternate and take the guest's keys from one set to another; `TellsBreaks`, `TellsMakes` and
`TellsMore` compose what an operation emits out of its parts. `Kept` is the mapper's
books: a key is counted by its holders, and only `F13` hides the shifts. `MapKey` and
`ReusedChord` show that the keys of a mapping differ, a reused right-hand modifier included, on
which counting a chord's keys as a set rests. A walk over sources, in any order, is a
recursion as above (`WalkSolved`). `PositionsTheorem` assumes `OneSource`: all that a host key
reports has one source. That is so of the code's keys but for the shifted digits: a
`*` that comes up as an `8` is released as another source, and stays held until another
character without a source of its own is pressed or comes up, or the focus is lost.

### Only model-checked

The liveness properties `PolledRestoreHappens`, `NothingHangs`,
`EverythingSettles`, `EpochReleases` and `SnapshotProgress` (fairness is out of the prover's
reach). Where a theorem has a hypothesis, the runs' instances go beyond it
as far as the property does: `chain_lifecycle` and `chain` check `OneShot`, `PerformedOnce` and
`WrappersInPlace` through installations and removals.

## Not modelled

* The glass planner's analysis of cells (`presenter.c` 264-875), and the matching of
  expectations: they compare cells and text, and `Presenter` lets them answer anything.
* Frame serials and the drawing of cells in `tigt.c`; palettes.
* `video.c` and `graphics.c` (Sixel, iTerm2, blocks, ASCII art): pure conversions of memory to
  cells or pixels to text, without state between calls.
* The Rust wrappers and `keyboard/src/ffi.rs`: thin calls; scan-code bytes.
* In the filter, cooked and paste input, which bypasses it, and the unsupported SIGINFO.
* `tigt_snapshot_write_fd`, which changes no state, and the status's readers.
