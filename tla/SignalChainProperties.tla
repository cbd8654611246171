------------------------ MODULE SignalChainProperties ------------------------
(***************************************************************************)
(* What chained signal handlers promise the application.                   *)
(***************************************************************************)
EXTENDS SignalChain, FiniteSets

Record == [sig : Signals, info : Nat]
Labels == {"write", "exchange", "installed", "rearm", "put", "forward", "claim",
           "default", "mark", "raise"}
Frames == {f \in [sig : Signals, info : Nat, todo : SUBSET Signals, next : Signals, at : Labels] :
             f.at = "mark" => f.sig \in Stops}

Lifecycles ==
  [at : {"idle", "create", "wrap", "uninstall", "close", "join", "restore", "put"},
   todo : SUBSET Signals, next : Signals, kind : Kinds]

\* Every variable has its type; only stop signals wait for a continuation
\* (forward_signal marks no other default action).
TypeOK ==
  /\ disposition \in [Signals -> Kinds] /\ prior \in [Signals -> Kinds]
  /\ consumed \subseteq Signals /\ stopped \subseteq Stops
  /\ handlers_installed \in BOOLEAN
  /\ pipe \in Seq(Record) /\ descriptor \in {"none", "pipe", "closed", "file"}
  /\ stack \in [Threads -> Seq(Frames)]
  /\ replaying \in Record
  /\ dispatcher \in [at : {"none", "read", "taken", "replay", "replayed", "done"}, rec : Record]
  /\ lifecycle \in Lifecycles
  /\ process \in {"running", "stopped", "dead"} /\ continued \in BOOLEAN
  /\ arrived \in Nat /\ settled \in Nat
  /\ heard \in [0..(2 * MaxSignals) -> Nat] /\ ran \in [Signals -> Nat]

\* The deliveries whose disposition is still to be performed: invocations on the
\* stacks, records in the pipe, the record that the dispatcher holds.
Invocations == UNION {{t} \X (1..Len(stack[t])) : t \in Threads}
Holds       == dispatcher.at \in {"taken", "replay"}
InFlight    == Cardinality(Invocations) + Len(pipe) + (IF Holds THEN 1 ELSE 0)

\* A delivery is performed once: neither a removal that overlaps a handler, nor
\* a full pipe, a nested delivery or a rearmed wrapper loses or repeats one.  (As
\* long as no other thread's file gets the descriptor that a removal closed.)
PerformedOnce == process # "dead" => arrived = settled + InFlight

\* A handler with SA_RESETHAND runs at most once, whoever forwards to it and on
\* however many threads (fetch_or in forward_signal), while no installation or
\* removal overlaps its deliveries.
OneShot == \A s \in Signals : ran[s] <= 1

\* Once nothing is in flight in a running process, every stop signal is managed
\* again: the default action that forward_signal put back did not stay.
Quiet == process = "running" /\ InFlight = 0 /\ ~continued
StopsStayManaged ==
  Quiet /\ handlers_installed /\ lifecycle.at = "idle" =>
    \A s \in Stops : disposition[s] \in {"wrapper", "later"}

\* A signal's information reaches at most one run of a prior handler: a replay's
\* record is taken once.
InformationOnce == \A i \in DOMAIN heard \ {0} : heard[i] <= 1

\* replaying_signal points to the dispatcher's local record while that record is
\* being replayed and at no other time: the next read would change what it
\* points to.
RecordIsLive == replaying # NoRecord => Replay /\ replaying = dispatcher.rec

\* After a removal, or an installation that failed, no managed signal is set to
\* the wrapper, whatever arrived meanwhile.  (A SIGCONT that rearms a stopped
\* wrapper across the removal is the exception: the run has no stops across one.)
WrappersRemoved ==
  lifecycle.at = "idle" /\ ~handlers_installed =>
    \A s \in Signals : disposition[s] # "wrapper"

\* A disposition that the application registered after the installation is its
\* own: only a new installation chains it.  (For signals whose prior action
\* is a handler: forwarding a default action sets SIG_DFL whoever owns it.)
Registered(s) == disposition[s] = "later" => disposition'[s] = "later" \/ lifecycle.at = "wrap"
RegistrationsKept == [][\A s \in Signals : Registered(s)]_vars

\* An installation or a removal that began comes to its end, and what arrived is
\* performed, unless the process ends or the application reinstalls for ever.
\* (Reinstallation may wrap a signal between SIG_DFL and its raise again and
\* again; and one that takes a wrapper left behind for a prior handler makes
\* signal_handler and forward_signal call each other without end.)
EverythingSettles ==
  <>[](lifecycle.at # "create" /\ \A s \in Signals : prior[s] # "wrapper") =>
    <>[](process = "dead" \/ (InFlight = 0 /\ lifecycle.at = "idle"))

\* The wrapper is where it should be: back on every stop signal once nothing is
\* in flight, and nowhere after a removal or an installation that failed.
WrappersInPlace == StopsStayManaged /\ WrappersRemoved
=============================================================================
