----------------------------- MODULE SignalChain -----------------------------
(***************************************************************************)
(* Optional chained signal handlers (src/terminal.c, 531-814): the         *)
(* installation, the wrapper, the dispatcher that replays records to the   *)
(* prior dispositions, one-shot actions, rearming after a stop, removal.   *)
(*                                                                         *)
(* An invocation of the wrapper is a frame on its thread's stack: a signal *)
(* may interrupt any thread that does not block it, inside another         *)
(* invocation too.  The terminal's release and gate are in Terminal.       *)
(***************************************************************************)
EXTENDS Naturals, Sequences

CONSTANTS
  Apps,        \* the application's threads
  Owner,       \* the one that installs and uninstalls
  Terms,       \* managed signals whose default action terminates
  Stops,       \* TSTP, TTIN, TTOU
  Faults,      \* SEGV, ILL, FPE, BUS
  Cont,        \* CONT
  Application, \* the dispositions the application may have had
  Events,      \* what happens besides signals in the run
  Installed,   \* does the run start after an installation?
  PipeSize,    \* records the pipe holds
  MaxSignals   \* signals that arrive by themselves

Dispatcher == "dispatcher"
Threads    == Apps \cup {Dispatcher}
Signals    == Terms \cup Stops \cup Faults \cup {Cont}

\* What a signal may be set to: SIG_DFL, SIG_IGN, a handler, a handler with
\* SA_RESETHAND, one that the application registered later, signal_handler.
Kinds      == {"default", "ignore", "handler", "once", "later", "wrapper"}
IsHandler(kind) == kind \notin {"default", "ignore"}

ASSUME SignalsAssumption ==
  /\ Terms \cap Stops = {} /\ Terms \cap Faults = {} /\ Stops \cap Faults = {}
  /\ Cont \notin Terms \cup Stops \cup Faults
ASSUME ThreadsAssumption == Owner \in Apps /\ Dispatcher \notin Apps
ASSUME OptionsAssumption ==
  /\ Application \subseteq [Signals -> {"default", "ignore", "handler", "once"}]
  /\ Events \subseteq {"install", "uninstall", "fail", "register", "open"}
  /\ Installed \in BOOLEAN /\ PipeSize \in Nat /\ MaxSignals \in Nat

VARIABLES
  disposition, prior,      \* what each signal is set to, and prior_actions
  consumed, stopped,       \* consumed_actions, stopped_handlers
  handlers_installed,
  pipe, descriptor,        \* the records, and what signal_pipe[1] refers to
  stack,                   \* the invocations in progress, innermost first
  replaying, dispatcher,   \* replaying_signal, the dispatcher's place and record
  lifecycle,               \* the owner's install or uninstall
  process, continued,      \* the process, and a SIGCONT that is pending
  arrived, settled,        \* history: signals delivered, dispositions performed
  heard, ran               \* history: siginfos that prior handlers were given;
                           \* runs of one-shot handlers

registry == <<prior, consumed, stopped, handlers_installed>>
records  == <<pipe, descriptor, replaying, dispatcher>>
history  == <<arrived, settled, heard, ran>>
world    == <<process, continued>>
vars     == <<disposition, registry, records, stack, lifecycle, world, history>>

NoRecord == [sig |-> Cont, info |-> 0]

-----------------------------------------------------------------------------
(* Frames: a frame works on its signal at its label; todo and at are the    *)
(* locals of rearm_stopped_handlers().                                      *)
Frame(s, info, label) ==
  [sig |-> s, info |-> info, at |-> label, todo |-> {}, next |-> s]

At(t, label) == process = "running" /\ stack[t] # <<>> /\ stack[t][1].at = label
Top(t)       == stack[t][1]
Goto(t, label) == stack' = [stack EXCEPT ![t][1].at = label]
Pop(t)       == stack' = [stack EXCEPT ![t] = Tail(@)]
Push(t, f)   == stack' = [stack EXCEPT ![t] = <<f>> \o @]
Settled      == settled' = settled + 1

\* The signals that t blocks: those of its invocations (a raise unblocks its
\* own), and on the dispatcher all but the faults, except during a replay.
Replay == dispatcher.at \in {"replay", "replayed"}
Blocks(t) ==
  {stack[t][i].sig : i \in {i \in 1..Len(stack[t]) : stack[t][i].at # "raise"}}
    \cup (IF t = Dispatcher /\ ~Replay
          THEN (Terms \cup Stops \cup {Cont})
                 \ {stack[t][i].sig : i \in {i \in 1..Len(stack[t]) : stack[t][i].at = "raise"}}
          ELSE {})
\* Faults are synchronous: the program's own, never the dispatcher's.
MayTake(t, s) ==
  /\ s \notin Blocks(t)
  /\ t = Dispatcher => s \notin Faults /\ dispatcher.at \notin {"none", "done"}

\* effective_action(): a consumed one-shot action is the default one.
Effective(s) == IF s \in consumed THEN "default" ELSE prior[s]

\* signal_handler(): where an invocation goes.  On the dispatcher, one for the
\* signal that is being replayed takes the record and gets its siginfo.
Label(s) == IF s = Cont THEN "exchange" ELSE IF s \in Faults THEN "forward" ELSE "write"
Takes(t, s) == t = Dispatcher /\ replaying # NoRecord /\ replaying.sig = s
KeepRecord  == UNCHANGED replaying                     \* a slip: the record stays
TakeRecord  == replaying' = NoRecord
Invocation(t, s, info) ==
  IF Takes(t, s) THEN Frame(s, replaying.info, "forward") ELSE Frame(s, info, Label(s))
Takeover(t, s) == IF Takes(t, s) THEN TakeRecord ELSE UNCHANGED replaying

\* The system's own delivery to a disposition that is not the wrapper.
Native(s) ==
  /\ disposition' = IF disposition[s] = "once" THEN [disposition EXCEPT ![s] = "default"]
                                               ELSE disposition
  /\ ran' = IF disposition[s] = "once" THEN [ran EXCEPT ![s] = @ + 1] ELSE ran
  /\ process' = IF disposition[s] # "default" \/ s = Cont THEN process
                ELSE IF s \in Stops THEN "stopped" ELSE "dead"
  /\ continued' = (continued /\ process' # "stopped" /\ s # Cont)
  /\ Settled

-----------------------------------------------------------------------------
(* Signals, and what else happens in the process                            *)

\* A signal is delivered to thread t.
Deliver(t, s) ==
  /\ process = "running" /\ MayTake(t, s)
  /\ arrived < MaxSignals \/ (s = Cont /\ continued)
  /\ arrived' = arrived + 1
  /\ IF disposition[s] = "wrapper"
     THEN /\ Push(t, Invocation(t, s, arrived + 1)) /\ Takeover(t, s)
          /\ continued' = (continued /\ s # Cont)
          /\ UNCHANGED <<disposition, settled, ran, process>>
     ELSE /\ Native(s) /\ UNCHANGED <<stack, replaying>>
  /\ UNCHANGED <<registry, pipe, descriptor, dispatcher, lifecycle, heard>>

\* The shell continues the stopped process; SIGCONT is then pending.
Continue ==
  /\ process = "stopped" /\ process' = "running" /\ continued' = TRUE
  /\ UNCHANGED <<disposition, registry, records, stack, lifecycle, history>>

\* The application registers a handler of its own; it serialises that with
\* installation and removal.
Register(s) ==
  /\ "register" \in Events /\ process = "running" /\ lifecycle.at = "idle" /\ stack[Owner] = <<>>
  /\ disposition[s] # "later" /\ disposition' = [disposition EXCEPT ![s] = "later"]
  /\ UNCHANGED <<registry, records, stack, lifecycle, world, history>>

\* Another thread opens a file: it gets the lowest free descriptor.
Open ==
  /\ "open" \in Events /\ process = "running" /\ descriptor = "closed"
  /\ descriptor' = "file"
  /\ UNCHANGED <<disposition, registry, pipe, replaying, dispatcher, stack, lifecycle,
                 world, history>>

-----------------------------------------------------------------------------
(* The wrapper                                                               *)

\* An ordinary signal's record goes to the pipe; when that fails the handler
\* forwards the signal itself.  A descriptor that was closed, and that another
\* thread reused, takes the record.
Write(t) ==
  LET f == Top(t) IN
  /\ At(t, "write")
  /\ \/ /\ descriptor = "pipe" /\ Len(pipe) < PipeSize
        /\ pipe' = Append(pipe, [sig |-> f.sig, info |-> f.info]) /\ Pop(t)
     \/ /\ descriptor = "pipe" => Len(pipe) >= PipeSize
        /\ descriptor # "file"
        /\ Goto(t, "forward") /\ UNCHANGED pipe
     \/ /\ descriptor = "file" /\ Pop(t) /\ UNCHANGED pipe
  /\ UNCHANGED <<disposition, registry, descriptor, replaying, dispatcher, lifecycle,
                 world, history>>

\* rearm_stopped_handlers(): the wrappers that a forwarded stop replaced.
Exchange(t) ==
  /\ At(t, "exchange")
  /\ stopped' = {}
  /\ stack' = [stack EXCEPT ![t][1] = [@ EXCEPT !.at = "installed", !.todo = stopped]]
  /\ UNCHANGED <<disposition, prior, consumed, handlers_installed, records, lifecycle,
                 world, history>>
RearmInstalled(t) ==
  /\ At(t, "installed")
  /\ Goto(t, IF handlers_installed THEN "rearm" ELSE "forward")
  /\ UNCHANGED <<disposition, registry, records, lifecycle, world, history>>

Checked(f, s) ==
  [f EXCEPT !.todo = @ \ {s}, !.next = s,
            !.at = IF disposition[s] = "default" THEN "put" ELSE "rearm"]
RearmCheck(t) ==
  /\ At(t, "rearm")
  /\ IF Top(t).todo = {} THEN Goto(t, "forward")
     ELSE \E s \in Top(t).todo : stack' = [stack EXCEPT ![t][1] = Checked(Top(t), s)]
  /\ UNCHANGED <<disposition, registry, records, lifecycle, world, history>>

RearmPut(t) ==
  /\ At(t, "put") /\ Goto(t, "rearm")
  /\ disposition' = [disposition EXCEPT ![Top(t).next] = "wrapper"]
  /\ UNCHANGED <<registry, records, lifecycle, world, history>>

\* forward_signal(): the prior disposition is performed here and now.  A prior
\* handler gets the frame's siginfo; a prior wrapper (one that an earlier
\* removal left behind) is a new invocation.
Perform(t, kind) ==
  LET f == Top(t) IN
  CASE kind = "wrapper" ->
         /\ stack' = [stack EXCEPT ![t][1] = Invocation(t, f.sig, f.info)] /\ Takeover(t, f.sig)
         /\ UNCHANGED <<settled, heard>>
    [] kind # "wrapper" /\ IsHandler(kind) ->
         /\ Pop(t) /\ Settled /\ heard' = [heard EXCEPT ![f.info] = @ + 1]
         /\ UNCHANGED replaying
    [] kind = "ignore" \/ (kind = "default" /\ f.sig = Cont) ->
         Pop(t) /\ Settled /\ UNCHANGED <<heard, replaying>>
    [] OTHER -> Goto(t, "default") /\ UNCHANGED <<settled, heard, replaying>>

Forward(t) ==
  LET kind == Effective(Top(t).sig) IN
  /\ At(t, "forward")
  /\ IF kind = "once" THEN Goto(t, "claim") /\ UNCHANGED <<settled, heard, replaying>>
                      ELSE Perform(t, kind)
  /\ UNCHANGED <<disposition, registry, pipe, descriptor, dispatcher, lifecycle, world,
                 arrived, ran>>

\* A one-shot action is claimed by fetch_or: one invocation gets it.
Unclaimed(s) == FALSE                                  \* a slip: the result is not looked at
Claimed(s)   == s \in consumed
Claim(t) ==
  LET s == Top(t).sig IN
  /\ At(t, "claim")
  /\ consumed' = consumed \cup {s}
  /\ IF Claimed(s) THEN Perform(t, "default") /\ UNCHANGED ran
                   ELSE Perform(t, "once") /\ ran' = [ran EXCEPT ![s] = @ + 1]
  /\ UNCHANGED <<disposition, prior, stopped, handlers_installed, pipe, descriptor,
                 dispatcher, lifecycle, world, arrived>>

\* The default action is put back, a stop remembers that its wrapper is gone.
SetDefaultMarked(t) ==                                 \* a slip: whatever the signal
  /\ At(t, "default")
  /\ disposition' = [disposition EXCEPT ![Top(t).sig] = "default"]
  /\ Goto(t, "mark")
  /\ UNCHANGED <<registry, records, lifecycle, world, history>>
SetDefault(t) ==
  /\ At(t, "default")
  /\ disposition' = [disposition EXCEPT ![Top(t).sig] = "default"]
  /\ Goto(t, IF Top(t).sig \in Stops THEN "mark" ELSE "raise")
  /\ UNCHANGED <<registry, records, lifecycle, world, history>>

Forget(s)   == UNCHANGED stopped                       \* a slip: the wrapper is not rearmed
Remember(s) == stopped' = stopped \cup {s}
MarkStopped(t) ==
  /\ At(t, "mark") /\ Remember(Top(t).sig) /\ Goto(t, "raise")
  /\ UNCHANGED <<disposition, prior, consumed, handlers_installed, records, lifecycle,
                 world, history>>

\* raise(number) under its unblocked mask: the default action, or a wrapper
\* that a continuation put back meanwhile, or the application's new handler.
Raise(t) ==
  LET s == Top(t).sig IN
  /\ At(t, "raise")
  /\ IF disposition[s] = "wrapper"
     THEN /\ stack' = [stack EXCEPT ![t][1] = Invocation(t, s, 0)] /\ Takeover(t, s)
          /\ UNCHANGED <<disposition, settled, ran, world>>
     ELSE Native(s) /\ Pop(t) /\ UNCHANGED replaying
  /\ UNCHANGED <<registry, pipe, descriptor, dispatcher, lifecycle, arrived, heard>>

-----------------------------------------------------------------------------
(* The dispatcher: signal_main()                                             *)
Dispatching(label) ==
  process = "running" /\ dispatcher.at = label /\ stack[Dispatcher] = <<>>
Dispatch(label) == dispatcher' = [dispatcher EXCEPT !.at = label]

\* A record is read (and the terminal released, under the gate).
Read ==
  /\ Dispatching("read") /\ pipe # <<>>
  /\ dispatcher' = [at |-> "taken", rec |-> Head(pipe)] /\ pipe' = Tail(pipe)
  /\ UNCHANGED <<disposition, registry, descriptor, replaying, stack, lifecycle, world, history>>

\* The write end is closed and the records are drained: the thread returns.
Hasty   == TRUE                                        \* a slip: records are left behind
Drained == pipe = <<>>
Exit ==
  /\ Dispatching("read") /\ Drained /\ descriptor # "pipe"
  /\ Dispatch("done")
  /\ UNCHANGED <<disposition, registry, pipe, descriptor, replaying, stack, lifecycle,
                 world, history>>

\* A prior handler is replayed by a raise, to run in a live signal context; any
\* other disposition is performed directly.
Replaying ==
  /\ Dispatching("taken")
  /\ IF IsHandler(Effective(dispatcher.rec.sig))
     THEN /\ replaying' = dispatcher.rec /\ Dispatch("replay")
          /\ UNCHANGED stack
     ELSE /\ Push(Dispatcher, Frame(dispatcher.rec.sig, dispatcher.rec.info, "forward"))
          /\ Dispatch("read") /\ UNCHANGED replaying
  /\ UNCHANGED <<disposition, registry, pipe, descriptor, lifecycle, world, history>>

ReplayRaise ==
  LET s == dispatcher.rec.sig IN
  /\ Dispatching("replay") /\ Dispatch("replayed")
  /\ IF disposition[s] = "wrapper"
     THEN /\ Push(Dispatcher, Invocation(Dispatcher, s, 0)) /\ Takeover(Dispatcher, s)
          /\ UNCHANGED <<disposition, settled, ran, world>>
     ELSE Native(s) /\ UNCHANGED <<stack, replaying>>
  /\ UNCHANGED <<registry, pipe, descriptor, lifecycle, arrived, heard>>

ReplayedStale ==                                       \* a slip: the pointer stays
  /\ Dispatching("replayed") /\ Dispatch("read")
  /\ UNCHANGED <<disposition, registry, pipe, descriptor, replaying, stack, lifecycle, world,
                 history>>
Replayed ==
  /\ Dispatching("replayed") /\ Dispatch("read") /\ replaying' = NoRecord
  /\ UNCHANGED <<disposition, registry, pipe, descriptor, stack, lifecycle, world, history>>

-----------------------------------------------------------------------------
(* Installation and removal, by the owner                                    *)
Lifecycle(label) ==
  process = "running" /\ lifecycle.at = label /\ stack[Owner] = <<>>
Step(label) == lifecycle' = [lifecycle EXCEPT !.at = label]
Idle        == [at |-> "idle", todo |-> {}, next |-> Cont, kind |-> "default"]

\* The pipe is made, the dispositions are read.
Install ==
  /\ "install" \in Events /\ Lifecycle("idle") /\ ~handlers_installed
  /\ stopped' = {} /\ consumed' = {}
  /\ prior' = disposition /\ descriptor' = "pipe" /\ pipe' = <<>>
  /\ Step("create")
  /\ UNCHANGED <<disposition, handlers_installed, replaying, dispatcher, stack, world, history>>

InstallFailed ==
  /\ "fail" \in Events /\ Lifecycle("create")
  /\ descriptor' = "none" /\ lifecycle' = Idle
  /\ UNCHANGED <<disposition, registry, pipe, replaying, dispatcher, stack, world, history>>

\* The dispatcher runs before the first wrapper is installed.
Create ==
  /\ Lifecycle("create")
  /\ dispatcher' = [at |-> "read", rec |-> NoRecord] /\ handlers_installed' = TRUE
  /\ lifecycle' = [lifecycle EXCEPT !.at = "wrap", !.todo = Signals]
  /\ UNCHANGED <<disposition, prior, consumed, stopped, pipe, descriptor, replaying, stack,
                 world, history>>

\* One sigaction() of the loop; one that fails undoes the installation.
Wrap ==
  /\ Lifecycle("wrap")
  /\ \/ /\ lifecycle.todo = {} /\ lifecycle' = Idle /\ UNCHANGED disposition
      \/ \E s \in lifecycle.todo :
          /\ disposition' = [disposition EXCEPT ![s] = "wrapper"]
          /\ lifecycle' = [lifecycle EXCEPT !.todo = @ \ {s}]
     \/ /\ "fail" \in Events /\ lifecycle.todo # {}
        /\ lifecycle' = [Idle EXCEPT !.at = "uninstall"] /\ UNCHANGED disposition
  /\ UNCHANGED <<registry, records, stack, world, history>>

Uninstall ==
  /\ \/ /\ "uninstall" \in Events /\ Lifecycle("idle") /\ handlers_installed
     \/ Lifecycle("uninstall")
  /\ handlers_installed' = FALSE /\ Step("close")
  /\ UNCHANGED <<disposition, prior, consumed, stopped, records, stack, world, history>>

CloseAfterJoin ==                                      \* a slip: in the other order
  /\ Lifecycle("close") /\ Step("join")
  /\ UNCHANGED <<disposition, registry, records, stack, world, history>>
CloseWrite ==
  /\ Lifecycle("close") /\ descriptor' = "closed" /\ Step("join")
  /\ UNCHANGED <<disposition, registry, pipe, replaying, dispatcher, stack, world, history>>

\* pthread_join, then the read end is closed.
Join ==
  /\ Lifecycle("join") /\ dispatcher.at = "done" /\ stack[Dispatcher] = <<>>
  /\ dispatcher' = [at |-> "none", rec |-> NoRecord] /\ pipe' = <<>>
  /\ lifecycle' = [lifecycle EXCEPT !.at = "restore", !.todo = Signals]
  /\ UNCHANGED <<disposition, registry, descriptor, replaying, stack, world, history>>

\* A disposition that is still the wrapper gets its effective prior action.
Regardless(s) == TRUE                                  \* a slip: whoever owns it
Owned(s)      == disposition[s] = "wrapper"
Uncovered ==
  /\ Lifecycle("restore")
  /\ \/ /\ lifecycle.todo = {} /\ descriptor' = "none" /\ lifecycle' = Idle
      \/ \E s \in lifecycle.todo :
          /\ lifecycle' = [lifecycle EXCEPT !.todo = @ \ {s}, !.next = s, !.kind = Effective(s),
                                            !.at = IF Owned(s) THEN "put" ELSE @]
          /\ UNCHANGED descriptor
  /\ UNCHANGED <<disposition, registry, pipe, replaying, dispatcher, stack, world, history>>

PutBack ==
  /\ Lifecycle("put") /\ Step("restore")
  /\ disposition' = [disposition EXCEPT ![lifecycle.next] = lifecycle.kind]
  /\ UNCHANGED <<registry, records, stack, world, history>>

-----------------------------------------------------------------------------
Init ==
  /\ prior \in Application
  /\ disposition = IF Installed THEN [s \in Signals |-> "wrapper"] ELSE prior
  /\ handlers_installed = Installed
  /\ consumed = {} /\ stopped = {} /\ pipe = <<>>
  /\ descriptor = IF Installed THEN "pipe" ELSE "none"
  /\ dispatcher = [at |-> IF Installed THEN "read" ELSE "none", rec |-> NoRecord]
  /\ stack = [t \in Threads |-> <<>>] /\ replaying = NoRecord /\ lifecycle = Idle
  /\ process = "running" /\ continued = FALSE
  /\ arrived = 0 /\ settled = 0
  /\ heard = [i \in 0..(2 * MaxSignals) |-> 0] /\ ran = [s \in Signals |-> 0]

WrapperStep(t) ==
  \/ Write(t) \/ Exchange(t) \/ RearmInstalled(t) \/ RearmCheck(t) \/ RearmPut(t)
  \/ Forward(t) \/ Claim(t) \/ SetDefault(t) \/ MarkStopped(t) \/ Raise(t)
DispatcherStep == Read \/ Exit \/ Replaying \/ ReplayRaise \/ Replayed
OwnerStep == Create \/ Wrap \/ CloseWrite \/ Join \/ Uncovered \/ PutBack
             \/ (Lifecycle("uninstall") /\ Uninstall)

Next ==
  \/ \E t \in Threads : (WrapperStep(t) \/ \E s \in Signals : Deliver(t, s))
  \/ DispatcherStep \/ OwnerStep
  \/ Install \/ InstallFailed \/ Uninstall
  \/ Continue \/ Open \/ \E s \in Signals : Register(s)

Spec == Init /\ [][Next]_vars

\* Threads run, and the shell continues what it stopped.
Fairness ==
  /\ \A t \in Threads : WF_vars(WrapperStep(t))
  /\ WF_vars(DispatcherStep) /\ WF_vars(OwnerStep) /\ WF_vars(Continue)
  /\ WF_vars(\E t \in Apps : continued /\ Deliver(t, Cont))
FairSpec == Spec /\ Fairness
=============================================================================
