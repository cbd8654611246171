------------------------- MODULE TerminalProperties -------------------------
(***************************************************************************)
(* What the terminal's ownership promises, over the module Terminal.       *)
(***************************************************************************)
EXTENDS Terminal

GateLabels == {"own_input", "set_input", "own_keyboard", "write_keyboard", "own_mouse",
               "write_mouse", "conclude", "report", "disable_undo", "restore_pending", "newterm",
               "endwin", "frame", "glass"}
GateReturns == {"forgotten", "failed", "refused", "poll_restore", "io_refused",
                "key_released", "d_unlock"}
ReleaseLabels == {"r_take", "r_undo", "r_publish", "r_report"}
FreeLabels == {"idle", "restore_lock", "poll_lock", "poll_end", "suspend_join",
               "suspend_release", "key_lock", "s_generation", "s_report", "s_write", "s_cont",
              "s_forward", "d_lock"}
Labels == GateLabels \cup GateReturns \cup ReleaseLabels \cup FreeLabels

EventBits == {"released", "restored", "resized", "input_reset"}
ReleaseRecords == [took : SUBSET Owns, was : BOOLEAN, out : BOOLEAN]
JobRecords == [op : {"none", "set_mode", "probe", "disable", "restore", "poll", "mouse",
                     "suspend"}, result : Results, was : BOOLEAN, fg : BOOLEAN]
TtyModes == {"baseline", "cooked", "raw", "probe", "curses"}

TerminalTypes ==
  /\ captured \in BOOLEAN /\ last_foreground \in BOOLEAN
  /\ blocked \in BOOLEAN /\ faulted \in BOOLEAN /\ deferred_restore \in BOOLEAN
  /\ policy \in [raw : BOOLEAN, keyboard : BOOLEAN, mouse : BOOLEAN, disabled : BOOLEAN,
                 probe : BOOLEAN]
  /\ owned \subseteq Owns /\ pending_protocols \subseteq Protocols
  /\ failure \in Results
  /\ events \subseteq EventBits
  /\ observed \subseteq Workers \cup {Owner}
ThreadTypes ==
  /\ io_mutex \in Threads \cup {Free}
  /\ pipe \in Seq(Ordinary)
  /\ pc \in [Threads -> Labels] /\ ret \in [Threads -> Labels]
  /\ rel \in [Threads -> ReleaseRecords]
  /\ cur \in [Handlers \cup {Dispatcher} -> Ordinary \cup {"fatal", "none"}]
  /\ job \in JobRecords
WorldTypes ==
  /\ active \in BOOLEAN /\ pending_fullscreen \in BOOLEAN /\ foreground \in BOOLEAN
  /\ renderer_screen \in TtyModes \cup {"none"}
  /\ tty \in [mode : TtyModes, on : SUBSET Protocols]
  /\ proc \in {"running", "stopped", "dead"}
  /\ lost \subseteq Protocols \cup {"input"} /\ abandoned \subseteq Protocols
  /\ intact \in [Workers -> BOOLEAN] /\ told \subseteq Transitions
TypeOK == TerminalTypes /\ ThreadTypes /\ WorldTypes

\* Thread t is inside a section of the gate.
InGate(t) == \/ pc[t] \in GateLabels \cup GateReturns
             \/ pc[t] \in ReleaseLabels /\ ret[t] \in GateReturns

(***************************************************************************)
(* Every path through a gate section, its refusals and failures included,  *)
(* gives the gate back exactly once: who holds it is inside, and nobody    *)
(* else is.  (The owner's locks and early returns, begin_io, end_io.)      *)
(***************************************************************************)
GateDiscipline == \A t \in Threads : InGate(t) <=> io_mutex = t

\* What a release or disable_input in progress has taken and not yet undone.
InFlight == UNION {rel[t].took : t \in {u \in Threads : pc[u] \in {"r_undo", "disable_undo"}}}

(***************************************************************************)
(* Whatever protocol the process enabled at the terminal, somebody owes its*)
(* cleanup: a later release (owned), the next restore (pending_protocols), *)
(* a release in progress, unless the cleanup's system call failed.         *)
(***************************************************************************)
CleanupOwed ==
  tty.on \subseteq owned \cup pending_protocols \cup InFlight \cup lost \cup abandoned

(***************************************************************************)
(* A released terminal has the termios that capture saved: "the exact      *)
(* saved termios" of the manual, after any sequence of the owner's calls.  *)
(***************************************************************************)
ReleasedMeansBaseline ==
  blocked /\ owned = {} /\ InFlight = {} /\ "input" \notin lost => tty.mode = "baseline"

(***************************************************************************)
(* A blocked terminal is a released one, or the teardown that blocked it   *)
(* is still on its way to the gate: an operation of the owner that races   *)
(* with a signal cannot leave the terminal in a released-looking raw mode. *)
(***************************************************************************)
TeardownOnItsWay == \/ Queueing # {} \/ pipe # <<>>
                    \/ pc[Dispatcher] \in {"d_lock", "r_take"}
BlockedMeansReleased == blocked /\ owned # {} => TeardownOnItsWay

(***************************************************************************)
(* The bits of a changed generation wait for the next poll, or a thread is *)
(* between the generation and the bits: a poll that takes the bits at any  *)
(* moment, and the session's comparison with it, never lose an epoch.      *)
(***************************************************************************)
Reporting == \E t \in Threads : pc[t] \in {"r_report", "s_report", "report"}
EpochIsReported == captured /\ Owner \notin observed => events \cap Transitions # {} \/ Reporting

(***************************************************************************)
(* Once nothing is under way and no bits wait, the transition that poll    *)
(* told last (at first: what capture found) is the terminal's state, in    *)
(* whatever order restores, handlers and the dispatcher set their bits.    *)
(* RELEASED and RESTORED in one poll tell nothing of their order.          *)
(***************************************************************************)
UnderWay == \/ io_mutex # Free \/ TeardownOnItsWay
            \/ \E t \in Threads : pc[t] \in ReleaseLabels
PictureIsTrue ==
  captured /\ events \cap Transitions = {} /\ ~UnderWay
    => /\ told = {"released"} => blocked
       /\ told = {"restored"} => ~blocked

(***************************************************************************)
(* The owner's picture of the terminal: no epoch is lost, and the last one *)
(* it was told of is the one that the terminal is in.                      *)
(***************************************************************************)
OwnerIsTold == EpochIsReported /\ PictureIsTrue

(***************************************************************************)
(* A frame, full or incremental, is drawn on the screen that it assumes:   *)
(* no release ran under it, and none ran between the last full frame and   *)
(* an incremental one (renderer_main's epoch, the gate, generation).       *)
(***************************************************************************)
DrawsOnIntactTerminal == \A w \in Workers : pc[w] = "frame" => intact[w]

(***************************************************************************)
(* The default action of a stop signal finds the terminal released: the    *)
(* order release, then stop, that the signal table of the manual promises. *)
(***************************************************************************)
StoppedMeansReleased == proc = "stopped" /\ lost = {} => tty.mode = "baseline"

(***************************************************************************)
(* A queued teardown gets through the gate to its prior disposition.       *)
(***************************************************************************)
TeardownCompletes ==
  (pipe # <<>> \/ pc[Dispatcher] = "d_lock")
    ~> (pc[Dispatcher] = "s_forward" \/ proc # "running")

(***************************************************************************)
(* stop_session() returns: its join meets no worker that waits for it.     *)
(***************************************************************************)
SuspendReturns == pc[Owner] = "suspend_join" ~> (pc[Owner] = "idle" \/ proc # "running")

(***************************************************************************)
(* A restore that SIGCONT, a refusal or the application asked for happens  *)
(* once the job is in the foreground; a fault cancels it.                  *)
(***************************************************************************)
RestoreHappens ==
  (deferred_restore /\ captured)
    ~> (~deferred_restore \/ ~foreground \/ faulted \/ proc # "running" \/ ~captured)

(***************************************************************************)
(* Neither a queued teardown nor the session's suspension waits for ever   *)
(* for the gate, or for each other.                                        *)
(***************************************************************************)
NothingHangs == TeardownCompletes /\ SuspendReturns
=============================================================================
