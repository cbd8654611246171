----------------------------- MODULE MCSnapshot -----------------------------
(***************************************************************************)
(* One run over three instances of Snapshot, told apart by a variable that *)
(* no step changes: two threads that configure, replace, disable and shut  *)
(* down over both signals; one thread whose captures go to a file or a     *)
(* FIFO, with system calls that fail; and requests that follow each other. *)
(***************************************************************************)
EXTENDS SnapshotProperties

VARIABLE scenario

OneSignal  == {CHOOSE s \in Signals : TRUE}
OneHandler == {CHOOSE h \in Handlers : TRUE}
Threads  == INSTANCE Snapshot WITH Handlers <- OneHandler,
  MaxApp <- 0, MaxFaults <- 0, Kinds <- {"fifo"}, Formats <- {"png"}, MaxCalls <- MaxCalls - 1
Captured == INSTANCE Snapshot WITH
  Callers <- {Lifecycle}, Signals <- OneSignal, Handlers <- OneHandler
Repeated == INSTANCE Snapshot WITH
  Callers <- {Lifecycle}, Signals <- OneSignal, MaxApp <- 0, MaxFaults <- 0, Kinds <- {"file"},
  MaxCalls <- MaxCalls - 1

all == <<vars, scenario>>
Steady(A) == A /\ UNCHANGED scenario
SnapshotInit == Init /\ scenario \in {"threads", "captured", "repeated"}
SnapshotNext ==
  \/ scenario = "threads" /\ UNCHANGED scenario /\ Threads!Next
  \/ scenario = "captured" /\ UNCHANGED scenario /\ Captured!Next
  \/ scenario = "repeated" /\ UNCHANGED scenario /\ Repeated!Next
SnapshotSpec ==
  /\ SnapshotInit /\ [][SnapshotNext]_all
  /\ WF_all(Steady(WorkerProgress)) /\ WF_all(Steady(DeadlinePasses))
  /\ \A c \in Callers : WF_all(Steady(CallerStep(c)))
  /\ \A h \in Handlers : WF_all(Steady(Compares(h) \/ Latches(h)))
=============================================================================
