----------------------------- MODULE MCTerminal -----------------------------
(***************************************************************************)
(* Small instances of Terminal for TLC.  A run checks several scenarios:   *)
(* each is Terminal with its own operations, signals and failures, and the *)
(* variable scenario, which no step changes, says which one a behaviour    *)
(* belongs to.                                                             *)
(***************************************************************************)
EXTENDS TerminalProperties

CONSTANT h1
VARIABLE scenario

RawOnly == {[raw |-> TRUE, keyboard |-> TRUE]}
all     == <<vars, scenario>>

\* Two handlers of one teardown each, against the owner's operations.
Signalled == INSTANCE Terminal WITH PipeCapacity <- 2,
  Operations <- {"capture", "set_mode", "poll"}, Signals <- {"chained"}
\* A stop or continue handler, and an owner that polls, forgets and captures again.
Polled == INSTANCE Terminal WITH Handlers <- {h1},
  Operations <- {"capture", "set_mode", "poll", "forget"}, Signals <- {"stop", "cont"}
\* A native session, its worker and its suspension, with one handler.
Session == INSTANCE Terminal WITH Handlers <- {h1},
  Operations <- {"capture", "restore", "screen", "workers", "suspend", "glass", "fullscreen"},
  Signals <- {"chained"}
GatedNext ==
  \/ scenario = "signalled" /\ UNCHANGED scenario /\ Signalled!Next
  \/ scenario = "polled" /\ UNCHANGED scenario /\ Polled!Next
  \/ scenario = "session" /\ UNCHANGED scenario /\ Session!Next
GatedInit == Init /\ scenario \in {"signalled", "polled", "session"}
GatedSpec == GatedInit /\ [][GatedNext]_all

\* Every system call may fail, and the job moves.
Troubled == INSTANCE Terminal WITH IoMayFail <- TRUE,
  Operations <- {"capture", "set_mode", "restore", "disable", "mouse"}, Signals <- {}
\* Faults and a full pipe release without the gate.
Emergency == INSTANCE Terminal WITH PipeMayFill <- TRUE,
  Operations <- {"capture", "restore"}, Signals <- {"term", "fatal", "winch"}
TroubledNext ==
  \/ scenario = "troubled" /\ UNCHANGED scenario /\ Troubled!Next
  \/ scenario = "emergency" /\ UNCHANGED scenario /\ Emergency!Next
TroubledInit == Init /\ scenario \in {"troubled", "emergency"}
TroubledSpec == TroubledInit /\ [][TroubledNext]_all

\* Restores asked for by a continuation, a foreground change or the application.
Resuming == INSTANCE Terminal WITH Workers <- {},
  Operations <- {"capture", "poll"}, Signals <- {"cont", "fatal", "request"}
\* The gate under a worker, a suspension and queued signals.
Waiting == INSTANCE Terminal WITH
  Operations <- {"capture", "set_mode", "probe", "workers", "suspend", "key"},
  Signals <- {"chained"}
LiveNext ==
  \/ scenario = "resuming" /\ UNCHANGED scenario /\ Resuming!Next
  \/ scenario = "waiting" /\ UNCHANGED scenario /\ Waiting!Next
Steady(A) == A /\ UNCHANGED scenario
LiveInit  == Init /\ scenario \in {"resuming", "waiting"}
LiveSpec ==
  /\ LiveInit /\ [][LiveNext]_all
  /\ SF_all(Steady(OwnerContinues)) /\ SF_all(Steady(DispatcherStep))
  /\ SF_all(Steady(scenario = "resuming" /\ Resuming!Poll))
  /\ \A w \in Workers : SF_all(Steady(WorkerContinues(w)))
  /\ \A h \in Handlers : WF_all(Steady(HandlerContinues(h)))
\* Only the resuming owner polls.
PolledRestoreHappens == scenario = "resuming" => RestoreHappens

\* The schedule of interest: the stop arrives once the owner has applied raw mode, so
\* that its release has something to undo, and the owner polls after that release.
Racing == INSTANCE Terminal WITH
  Operations <- {"capture", "set_mode", "poll"}, Signals <- {"stop", "cont"}
ArrivesInRaw == Queueing = {} /\ Queueing' # {} => tty.mode = "raw" /\ pc[Owner] = "idle"
PollsInBetween == job.op = "none" /\ job'.op = "poll" => pc[Dispatcher] = "s_forward"
RaceNext == UNCHANGED scenario /\ Racing!Next /\ ArrivesInRaw /\ PollsInBetween
RaceInit == Init /\ scenario = "racing"
RaceSpec == RaceInit /\ [][RaceNext]_all
=============================================================================
