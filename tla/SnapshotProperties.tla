------------------------- MODULE SnapshotProperties -------------------------
(***************************************************************************)
(* What must hold of the snapshot worker, its handler and its callers.     *)
(***************************************************************************)
EXTENDS Snapshot

WorkerSteps == {"none", "top", "take", "open", "lock", "copy", "encode", "flush", "close",
                "publish", "exited"}
CallSteps == {"idle", "enter", "admit", "clear", "ask", "restore", "stop", "join", "unlatch",
              "spawn", "install", "act", "data", "leave"}
Dispositions == {"default", "snapshot", "app"}
MaybeConfigured == Configurations \cup {None}

(* The types of the state. *)
TypeOK ==
  /\ requested \in BOOLEAN /\ worker_running \in BOOLEAN
  /\ installed_signal \in Signals \cup {None}
  /\ control_mutex \in Callers \cup {None} /\ data_mutex \in {None, "worker"}
  /\ session \in {"down", "reset", "up", "suspended", "closing"} /\ session_active \in BOOLEAN
  /\ configured \in MaybeConfigured /\ worker_created \in BOOLEAN
  /\ worker \in [at : WorkerSteps, cfg : MaybeConfigured, bounded : BOOLEAN, late : BOOLEAN,
                 left : 0..Units, used : 0..Units, fontAtFrame : BOOLEAN, font : BOOLEAN,
                 failed : BOOLEAN]
  /\ disposition \in [Signals -> Dispositions] /\ previous_action \in Dispositions
  /\ font \in BOOLEAN
  /\ call \in [Callers -> [op : {"none", "configure", "disable", "font", "reset", "start",
                                "suspend", "shutdown"},
                           at : CallSteps, sig : Signals \cup {None}, cfg : MaybeConfigured,
                           ours : BOOLEAN, number : Signals \cup {None},
                           failed : BOOLEAN]]
  /\ \A h \in Handlers : handler[h] # None =>
       handler[h] \in [at : {"entered", "passed", "done"}, sig : Signals]
  /\ completed_sequence \in Nat /\ stored \in Nat /\ begun \in Nat

-----------------------------------------------------------------------------
Alive == worker.at \notin {"none", "exited"}

(* A worker reads the path and the format without a lock: as long as it    *)
(* runs they are those it was created with, never replaced and never freed *)
(* (snapshot.c, comment at 49-51).                                         *)
WorkerOwnsConfiguration == Alive => /\ configured # None
                                    /\ configured = worker.cfg

(* Whenever no call is in progress, the signal, the path and the worker    *)
(* are all there or all gone: a configuration that fails at any of its     *)
(* steps, or replaces another one, leaves no part of itself behind.        *)
WholeWhenFree == control_mutex = None =>
  /\ worker_created <=> configured # None
  /\ worker_created <=> installed_signal # None
  /\ worker_created <=> worker_running
  /\ worker_created => Alive
  /\ ~worker_created => ~Alive

(* Whenever no call is in progress and no system call has failed, the      *)
(* handler is the disposition of no signal but the installed one: every    *)
(* other got back what it had (tigt.h, "restores the prior disposition").  *)
DispositionsReturned == control_mutex = None /\ faults = 0 =>
  \A s \in Signals : disposition[s] = "snapshot" => s = installed_signal

(* After a shutdown no worker, signal, path or font is left of the         *)
(* session's snapshots, whatever calls other threads had under way when it *)
(* began.  (A request that a handler stores late may be left.)             *)
ShutdownClears == session = "down" => /\ ~worker_created /\ ~Alive
                                      /\ installed_signal = None
                                      /\ configured = None /\ ~font

(* One latched request starts at most one capture.                         *)
OneCapturePerRequest == begun <= stored

(* The font a capture draws its text with is the one set when the frame    *)
(* was copied: neither a shutdown nor set_font comes in between            *)
(* (snapshot.c, comment at 416-418).                                       *)
FontOfFrame == worker.at \in {"encode", "flush"} => worker.font = worker.fontAtFrame

(* The status counts each capture of the session once, successful or not,  *)
(* and none before it has ended, however often the worker is replaced.     *)
StatusCounts == begun = completed_sequence +
  (IF worker.at \in {"open", "lock", "copy", "encode", "flush", "close",
                     "publish"} THEN 1 ELSE 0)

(* A step of the library never takes a signal from a handler that the      *)
(* application has installed (docs/reference.md:501).                      *)
ApplicationKept == [][changes' = changes =>
                        \A s \in Signals : disposition[s] = "app" => disposition'[s] = "app"]_vars

(* Every call returns, those that join the worker in the middle of a       *)
(* capture to a FIFO that nobody reads included.                           *)
CallsReturn == \A c \in Callers : call[c].op # "none" ~> call[c].op = "none"

(* A capture ends, and the status says so.                                 *)
CaptureEnds == worker.at = "open" ~> worker.at = "publish"

(* A latched request is taken while the worker runs.                       *)
RequestTaken == requested /\ worker_running ~> ~requested \/ ~worker_running

-----------------------------------------------------------------------------
(* A capture is a transfer: the file or FIFO holds a prefix of the encoded *)
(* frame, nothing follows a failure, and success means all of it.          *)
Sending == worker.at \in {"open", "lock", "copy", "encode", "flush", "close"}
InHand == Sending \/ worker.at = "publish"
Message == INSTANCE Transfer WITH
  MaxUnits  <- Units,
  total     <- IF InHand THEN Units ELSE 0,
  delivered <- IF InHand THEN Units - worker.left - worker.used ELSE 0,
  outcome   <- IF Sending THEN "open"
               ELSE IF ~InHand THEN "none" ELSE IF worker.failed THEN "partial" ELSE "whole"
CaptureIsTransfer == Message!TSpec

(* Between calls a configuration is there with all of its parts or gone    *)
(* with all of them, its signal's disposition included.                    *)
ConfigurationIsWhole == TypeOK /\ WholeWhenFree /\ DispositionsReturned

(* A request starts at most one capture, and a capture is counted once.    *)
CapturesAreCounted == OneCapturePerRequest /\ StatusCounts

(* Calls return, captures end, requests are taken.                         *)
SnapshotProgress == CallsReturn /\ CaptureEnds /\ RequestTaken
=============================================================================
