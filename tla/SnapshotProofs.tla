--------------------------- MODULE SnapshotProofs ---------------------------
(***************************************************************************)
(* What holds of Snapshot for all callers, signals, captures and failures. *)
(***************************************************************************)
EXTENDS SnapshotProperties, Integers, TLAPS

-----------------------------------------------------------------------------
(* The fields of the records, as far as the proofs read them: how many     *)
(* units a capture has left plays no part in them.                         *)
Lifecycles == {"reset", "start", "suspend", "shutdown"}
WorkerShapes == [at : WorkerSteps, cfg : MaybeConfigured, bounded : BOOLEAN, late : BOOLEAN,
                 left : Int, used : Int, fontAtFrame : BOOLEAN, font : BOOLEAN, failed : BOOLEAN]
CallShapes == [op : {"none", "configure", "disable", "font"} \cup Lifecycles, at : CallSteps,
               sig : Signals \cup {None}, cfg : MaybeConfigured, ours : BOOLEAN,
               number : Signals \cup {None}, failed : BOOLEAN]
Shape == /\ worker \in WorkerShapes
         /\ call \in [Callers -> CallShapes]
         /\ installed_signal \in Signals \cup {None}
         /\ font \in BOOLEAN /\ requested \in BOOLEAN
         /\ completed_sequence \in Nat /\ stored \in Nat /\ begun \in Nat

\* What the worker and the passing of time leave alone.
LEMMA WorkerEffect ==
  ASSUME Shape, WorkerStep \/ DeadlinePasses
  PROVE  /\ worker' \in WorkerShapes /\ worker'.cfg = worker.cfg
         /\ Alive /\ worker'.at # "none"
         /\ UNCHANGED <<control_mutex, session, session_active, configured, worker_created,
                        installed_signal, font, call, stored>>
<1> USE DEF WorkerShapes, WorkerSteps, Shape
<1>0. UNCHANGED <<control_mutex, session, session_active, configured, worker_created,
                  installed_signal, font, call, stored>>
  BY DEF WorkerStep, DeadlinePasses, Tests, Takes, Opens, Captures, Copies, Encodes, Flushes,
     Closes, Publishes, WorkerUnchanged, config, atomics
<1>a. Alive
  BY DEF WorkerStep, DeadlinePasses, Tests, Takes, Opens, Captures, Copies, Encodes, Flushes,
     Closes, Publishes, WorkerAt, Alive
<1> DEFINE Moves == worker' \in WorkerShapes /\ worker'.cfg = worker.cfg /\ worker'.at # "none"
<1>1. ASSUME Tests PROVE Moves
  BY <1>1 DEF Tests
<1>2. ASSUME Takes PROVE Moves
  <2>1. \/ worker' = [worker EXCEPT !.at = "open", !.left = Units, !.used = 0, !.failed = FALSE]
        \/ worker' = [worker EXCEPT !.at = "top"]
    BY <1>2 DEF Takes
  <2>2. Units \in Int
    BY SnapshotAssumption
  <2>3. 0 \in Int
    OBVIOUS
  <2>4. [worker EXCEPT !.at = "open", !.left = Units, !.used = 0, !.failed = FALSE] \in WorkerShapes
    BY <2>2, <2>3
  <2>. QED
    BY <2>1, <2>4
<1>3. ASSUME Opens PROVE Moves
  <2>1. \/ \E bounded \in BOOLEAN :
             worker' = [worker EXCEPT !.at = "lock", !.bounded = bounded, !.late = FALSE]
        \/ worker' = [worker EXCEPT !.at = "publish", !.failed = TRUE]
    BY <1>3 DEF Opens
  <2>. QED
    BY <2>1
<1>4. ASSUME Captures PROVE Moves
  <2>1. \/ worker' = [worker EXCEPT !.at = "copy", !.fontAtFrame = font]
        \/ worker' = [worker EXCEPT !.at = "close", !.failed = TRUE]
    BY <1>4 DEF Captures
  <2>. QED
    BY <2>1
<1>5. ASSUME Copies PROVE Moves
  <2>1. \/ worker' = [worker EXCEPT !.at = "close", !.font = FALSE, !.failed = TRUE]
        \/ worker' = [worker EXCEPT !.at = "encode", !.font = font]
    BY <1>5 DEF Copies
  <2>. QED
    BY <2>1
<1>6. ASSUME Encodes PROVE Moves
  <2>1. \/ worker' = [worker EXCEPT !.at = "close", !.failed = TRUE]
        \/ worker' = [worker EXCEPT !.left = worker.left - 1, !.used = worker.used + 1, !.at =
                        IF Full(worker.left - 1, worker.used + 1) THEN "flush" ELSE "encode"]
    BY <1>6 DEF Encodes
  <2>2. worker.left - 1 \in Int /\ worker.used + 1 \in Int
    OBVIOUS
  <2>. QED
    BY <2>1, <2>2
<1>7. ASSUME Flushes PROVE Moves
  <2>1. \/ worker' = [worker EXCEPT !.at = "close", !.failed = TRUE]
        \/ worker' = worker /\ worker.at = "flush"
        \/ \E n \in 1..worker.used :
             worker' = [worker EXCEPT !.used = worker.used - n, !.at = AfterWrite(worker.used - n)]
    BY <1>7 DEF Flushes, WorkerAt
  <2>2. \A n : AfterWrite(n) \in {"flush", "close", "encode"}
    BY DEF AfterWrite
  <2>3. \A n \in 1..worker.used : worker.used - n \in Int
    OBVIOUS
  <2>. QED
    BY <2>1, <2>2, <2>3
<1>8. ASSUME Closes PROVE Moves
  <2>1. \E failed \in BOOLEAN : worker' = [worker EXCEPT !.at = "publish", !.failed = failed]
    BY <1>8 DEF Closes
  <2>. QED
    BY <2>1
<1>9. ASSUME Publishes PROVE Moves
  BY <1>9 DEF Publishes
<1>10. ASSUME DeadlinePasses PROVE Moves
  BY <1>10 DEF DeadlinePasses
<1>. QED
  BY <1>0, <1>a, <1>1, <1>2, <1>3, <1>4, <1>5, <1>6, <1>7, <1>8, <1>9, <1>10 DEF WorkerStep

\* A caller's step changes its own call only.
LEMMA CallerEffect ==
  ASSUME Shape, NEW c \in Callers, Calls(c) \/ CallerStep(c)
  PROVE  /\ call' \in [Callers -> CallShapes]
         /\ \A d \in Callers \ {c} : call'[d] = call[d]
<1> USE DEF Shape, CallShapes, CallSteps, Lifecycles
<1> DEFINE Moves == /\ call' \in [Callers -> CallShapes]
                    /\ \A d \in Callers \ {c} : call'[d] = call[d]
<1>0. ASSUME NEW at \in CallSteps, Goto(c, at) PROVE Moves
  BY <1>0 DEF Goto
<1>1. ASSUME Calls(c) PROVE Moves
  <2>1. Idle \in CallShapes
    BY DEF Idle, MaybeConfigured
  <2>2. PICK op \in {"configure", "disable", "font"} \cup Lifecycles, s \in Signals,
             cfg \in Configurations :
          call' = [call EXCEPT ![c] =
            IF op = "configure" THEN [Idle EXCEPT !.op = op, !.at = "enter", !.sig = s, !.cfg = cfg]
            ELSE [Idle EXCEPT !.op = op, !.at = "enter"]]
    BY <1>1 DEF Calls
  <2>3. [Idle EXCEPT !.op = op, !.at = "enter", !.sig = s, !.cfg = cfg] \in CallShapes
    BY <2>1 DEF MaybeConfigured
  <2>4. [Idle EXCEPT !.op = op, !.at = "enter"] \in CallShapes
    BY <2>1
  <2>. QED
    BY <2>2, <2>3, <2>4
<1>2. ASSUME Enters(c) PROVE Moves
  <2>1. \E at \in {"admit", "clear", "data", "leave"} : Goto(c, at)
    BY <1>2 DEF Enters
  <2>. QED
    BY <1>0, <2>1
<1>3. ASSUME Admits(c) PROVE Moves
  <2>1. \/ \E at \in {"leave", "data"} : Goto(c, at)
        \/ \E ours \in BOOLEAN, at \in {"stop", "clear"} :
             call' = [call EXCEPT ![c].ours = ours, ![c].at = at]
    BY <1>3 DEF Admits, Ours
  <2>2. CASE \E at \in {"leave", "data"} : Goto(c, at)
    BY <1>0, <2>2
  <2>3. ASSUME NEW ours \in BOOLEAN, NEW at \in {"stop", "clear"},
               call' = [call EXCEPT ![c].ours = ours, ![c].at = at]
        PROVE  Moves
    <3>1. [call[c] EXCEPT !.ours = ours, !.at = at] \in CallShapes
      OBVIOUS
    <3>2. call' = [call EXCEPT ![c] = [call[c] EXCEPT !.ours = ours, !.at = at]]
      BY <2>3
    <3>. QED
      BY <3>1, <3>2
  <2>. QED
    BY <2>1, <2>2, <2>3
<1>4. ASSUME Clears(c) PROVE Moves
  <2>1. PICK at \in {"stop", "ask"} :
          call' = [call EXCEPT ![c].number = installed_signal, ![c].at = at]
    BY <1>4 DEF Clears
  <2>2. [call[c] EXCEPT !.number = installed_signal, !.at = at] \in CallShapes
    OBVIOUS
  <2>3. call' = [call EXCEPT ![c] = [call[c] EXCEPT !.number = installed_signal, !.at = at]]
    BY <2>1
  <2>. QED
    BY <2>2, <2>3
<1>5. ASSUME Asks(c) PROVE Moves
  BY <1>5 DEF Asks, Undoes
<1>6. ASSUME Restores(c) PROVE Moves
  BY <1>6 DEF Restores, Goto
<1>7. ASSUME Stops(c) PROVE Moves
  BY <1>0, <1>7 DEF Stops
<1>8. ASSUME Joins(c) PROVE Moves
  BY <1>0, <1>8 DEF Joins
<1>9. ASSUME Unlatches(c) PROVE Moves
  <2>1. \E at \in {"spawn", "data", "leave"} : Goto(c, at)
    BY <1>9 DEF Unlatches
  <2>. QED
    BY <1>0, <2>1
<1>10. ASSUME Spawns(c) PROVE Moves
  <2>1. GivesBack(c) \/ \E at \in {"leave", "install"} : Goto(c, at)
    BY <1>10 DEF Spawns
  <2>. QED
    BY <1>0, <2>1 DEF GivesBack
<1>11. ASSUME Installs(c) PROVE Moves
  BY <1>0, <1>11 DEF Installs
<1>12. ASSUME Acts(c) PROVE Moves
  <2>1. GivesBack(c) \/ Goto(c, "leave")
    BY <1>12 DEF Acts
  <2>. QED
    BY <1>0, <2>1 DEF GivesBack
<1>13. ASSUME Data(c) PROVE Moves
  BY <1>0, <1>13 DEF Data
<1>14. ASSUME Leaves(c) PROVE Moves
  BY <1>14 DEF Leaves, Leave, Idle, MaybeConfigured
<1>. QED
  BY <1>1, <1>2, <1>3, <1>4, <1>5, <1>6, <1>7, <1>8, <1>9, <1>10, <1>11, <1>12, <1>13, <1>14
     DEF CallerStep

\* Every step keeps the shape.
LEMMA ShapeStep == Shape /\ [Next]_vars => Shape'
<1> SUFFICES ASSUME Shape, [Next]_vars PROVE Shape'
  OBVIOUS
<1> USE DEF Shape, atomics, counts, limits, config, actions
<1>1. CASE WorkerStep \/ DeadlinePasses
  <2> HIDE DEF Shape
  <2>1. requested' \in BOOLEAN /\ completed_sequence' \in Nat /\ begun' \in Nat
    <3>0. requested \in BOOLEAN /\ completed_sequence \in Nat /\ begun \in Nat
      BY DEF Shape
    <3>1. requested' \in {requested, FALSE}
      BY <1>1 DEF WorkerStep, DeadlinePasses, Tests, Takes, Opens, Captures, Copies, Encodes,
         Flushes, Closes, Publishes
    <3>2. completed_sequence' \in {completed_sequence, completed_sequence + 1}
      BY <1>1 DEF WorkerStep, DeadlinePasses, Tests, Takes, Opens, Captures, Copies, Encodes,
         Flushes, Closes, Publishes
    <3>3. begun' \in {begun, begun + 1}
      BY <1>1 DEF WorkerStep, DeadlinePasses, Tests, Takes, Opens, Captures, Copies, Encodes,
         Flushes, Closes, Publishes
    <3>4. requested' \in BOOLEAN
      BY <3>0, <3>1, Zenon
    <3>5. completed_sequence' \in Nat /\ begun' \in Nat
      BY <3>0, <3>2, <3>3, SMT
    <3>. QED
      BY <3>4, <3>5
  <2>. QED
    BY <1>1, <2>1, WorkerEffect DEF Shape
<1>2. ASSUME NEW h \in Handlers, Delivered(h) \/ Compares(h) \/ Latches(h) PROVE Shape'
  <2>1. /\ requested' \in {requested, TRUE} /\ stored' \in {stored, stored + 1}
        /\ UNCHANGED <<worker, call, installed_signal, font, completed_sequence, begun>>
    BY <1>2 DEF Delivered, Compares, Latches
  <2>2. requested' \in BOOLEAN
    BY <2>1, Zenon
  <2>. QED
    BY <2>1, <2>2
<1>3. ASSUME NEW c \in Callers, Calls(c) \/ CallerStep(c) PROVE Shape'
  <2>1. call' \in [Callers -> CallShapes]
    BY <1>3, CallerEffect
  <2>2. worker' \in WorkerShapes
    <3>1. CASE Spawns(c)
      <4>1. call[c].cfg \in MaybeConfigured
        BY DEF CallShapes
      <4>2. [NoWorker EXCEPT !.at = "top", !.cfg = call[c].cfg] \in WorkerShapes
        <5>1. NoWorker \in WorkerShapes
          BY DEF NoWorker, WorkerShapes, WorkerSteps, MaybeConfigured
        <5>. QED
          BY <4>1, <5>1 DEF WorkerShapes, WorkerSteps
      <4>. QED
        BY <3>1, <4>2 DEF Spawns
    <3>. QED
      BY <1>3, <3>1 DEF CallerStep, Calls, Enters, Admits, Clears, Asks, Restores, Stops, Joins,
         Unlatches, Installs, Acts, Data, Leaves, CallerUnchanged
  <2>3. installed_signal' \in Signals \cup {None}
    BY <1>3 DEF CallerStep, Calls, Enters, Admits, Clears, Asks, Restores, Stops, Joins, Unlatches,
       Spawns, Installs, Acts, Data, Leaves, CallShapes
  <2>4. font' \in BOOLEAN
    BY <1>3 DEF CallerStep, Calls, Enters, Admits, Clears, Asks, Restores, Stops, Joins, Unlatches,
       Spawns, Installs, Acts, Data, Leaves
  <2>6. requested' \in {requested, FALSE}
    BY <1>3 DEF CallerStep, Calls, Enters, Admits, Clears, Asks, Restores, Stops, Joins, Unlatches,
       Spawns, Installs, Acts, Data, Leaves
  <2>5. /\ completed_sequence' \in {completed_sequence, 0} /\ begun' \in {begun, 0}
        /\ stored' = stored
    BY <1>3 DEF CallerStep, Calls, Enters, Admits, Clears, Asks, Restores, Stops, Joins, Unlatches,
       Spawns, Installs, Acts, Data, Leaves, CallerUnchanged
  <2>7. requested' \in BOOLEAN
    BY <2>6, Zenon
  <2>. QED
    BY <2>1, <2>2, <2>3, <2>4, <2>5, <2>7
<1>4. CASE AppSigaction
  BY <1>4 DEF AppSigaction
<1>5. CASE UNCHANGED vars
  BY <1>5 DEF vars
<1>. QED
  BY <1>1, <1>2, <1>3, <1>4, <1>5 DEF Next

-----------------------------------------------------------------------------
(***************************************************************************)
(* control_mutex: a caller past its first step holds it.                   *)
(***************************************************************************)
Waits(c) == call[c].at \in {"idle", "enter"}
MutexInv == \A c \in Callers : Waits(c) \/ control_mutex = c

\* Every step keeps it: Enters takes a free mutex, only its holder leaves.
LEMMA MutexStep == Shape /\ MutexInv /\ [Next]_vars => MutexInv'
<1> SUFFICES ASSUME Shape, MutexInv, [Next]_vars PROVE MutexInv'
  OBVIOUS
<1> USE NoneAssumption DEF MutexInv, Waits
<1>0. ASSUME UNCHANGED <<call, control_mutex>> PROVE MutexInv'
  BY <1>0
<1>1. CASE WorkerStep \/ DeadlinePasses
  BY <1>0, <1>1, WorkerEffect
<1>2. ASSUME NEW h \in Handlers, Delivered(h) \/ Compares(h) \/ Latches(h) PROVE MutexInv'
  BY <1>0, <1>2 DEF Delivered, Compares, Latches
<1>3. ASSUME NEW c \in Callers, Calls(c) \/ CallerStep(c) PROVE MutexInv'
  <2>1. \A d \in Callers \ {c} : call'[d] = call[d]
    BY <1>3, CallerEffect
  <2>2. CASE Calls(c)
    BY <2>1, <2>2 DEF Calls, Idle, Shape, CallShapes
  <2>3. CASE Enters(c)
    BY <2>1, <2>3 DEF Enters
  <2>4. CASE Leaves(c)
    BY <2>1, <2>4 DEF Leaves, Leave, CallAt, Idle, Shape
  <2>5. CASE CallerStep(c) /\ ~Enters(c) /\ ~Leaves(c)
    <3>1. control_mutex' = control_mutex
      BY <2>5 DEF CallerStep, Admits, Clears, Asks, Restores, Stops, Joins, Unlatches, Spawns,
         Installs, Acts, Data
    <3>2. ~Waits(c)
      BY <2>5 DEF CallerStep, Admits, Clears, Asks, Restores, Stops, Joins, Unlatches, Spawns,
         Installs, Acts, Data, CallAt
    <3>. QED
      BY <2>1, <3>1, <3>2
  <2>. QED
    BY <1>3, <2>2, <2>3, <2>4, <2>5
<1>4. CASE AppSigaction
  BY <1>0, <1>4 DEF AppSigaction
<1>5. CASE UNCHANGED vars
  BY <1>0, <1>5 DEF vars
<1>. QED
  BY <1>1, <1>2, <1>3, <1>4, <1>5 DEF Next

-----------------------------------------------------------------------------
(***************************************************************************)
(* The way of a call through its steps.                                    *)
(***************************************************************************)
Goes(c, from, to) == call[c].at \in from /\ call'[c].at \in to
Op(c) == call[c].op

\* Where each step under control_mutex leads; only Calls and Leaves change
\* what the call is.
LEMMA Routes ==
  ASSUME Shape, NEW c \in Callers, CallerStep(c), ~Leaves(c)
  PROVE  /\ call'[c].op = call[c].op /\ call'[c].cfg = call[c].cfg
         /\ \/ /\ Enters(c) /\ Goes(c, {"enter"}, {"admit", "clear", "data", "leave"})
               /\ call'[c].at = "admit" <=> Op(c) \in {"configure", "font"}
               /\ call'[c].at = "clear" <=> Op(c) \in {"disable", "shutdown"}
               /\ call'[c].at = "data" <=> Op(c) = "reset"
            \/ /\ Admits(c) /\ Goes(c, {"admit"}, {"leave", "data", "stop", "clear"})
               /\ call'[c].at # "leave" => session_active
               /\ call'[c].at = "data" => Op(c) = "font"
               /\ call'[c].at \in {"stop", "clear"} => Op(c) = "configure"
            \/ Clears(c) /\ Goes(c, {"clear"}, {"stop", "ask"})
            \/ Asks(c) /\ Goes(c, {"ask"}, {"restore", "stop"})
            \/ Restores(c) /\ Goes(c, {"restore"}, {"stop"})
            \/ Stops(c) /\ Goes(c, {"stop"}, {"join"})
            \/ Joins(c) /\ Goes(c, {"join"}, {"unlatch"})
            \/ /\ Unlatches(c) /\ Goes(c, {"unlatch"}, {"spawn", "data", "leave"})
               /\ call'[c].at = "spawn" => Op(c) = "configure"
               /\ call'[c].at = "data" <=> Op(c) = "shutdown"
            \/ Spawns(c) /\ Goes(c, {"spawn"}, {"leave", "install", "clear"})
            \/ Installs(c) /\ Goes(c, {"install"}, {"act"})
            \/ Acts(c) /\ Goes(c, {"act"}, {"leave", "clear"})
            \/ Data(c) /\ Goes(c, {"data"}, {"leave"})
<1> DEFINE Kept == call'[c].op = call[c].op /\ call'[c].cfg = call[c].cfg
<1> USE DEF Goes, Op, CallAt
<1>0. call \in [Callers -> CallShapes] /\ call[c] \in CallShapes
  BY DEF Shape
<1>1. ASSUME NEW at \in CallSteps, Goto(c, at)
      PROVE  Kept /\ call'[c].at = at
  BY <1>0, <1>1 DEF Goto, CallShapes
<1>2. CASE Enters(c)
  <2>1. PICK at \in {"admit", "clear", "data", "leave"} :
          /\ Goto(c, at)
          /\ at = "admit" <=> Op(c) \in {"configure", "font"}
          /\ at = "clear" <=> Op(c) \in {"disable", "shutdown"}
          /\ at = "data" <=> Op(c) = "reset"
    BY <1>2 DEF Enters
  <2>2. Kept /\ call'[c].at = at
    BY <1>1, <2>1 DEF CallSteps
  <2>. QED
    BY <1>2, <2>1, <2>2 DEF Enters
<1>3. CASE Admits(c)
  <2>1. \/ Goto(c, "leave")
        \/ Goto(c, "data") /\ Op(c) = "font" /\ session_active
        \/ /\ Op(c) = "configure" /\ session_active
           /\ \E ours \in BOOLEAN, at \in {"stop", "clear"} :
                call' = [call EXCEPT ![c].ours = ours, ![c].at = at]
    BY <1>3 DEF Admits, Ours, Admissible
  <2>2. CASE Goto(c, "leave")
    <3>1. Kept /\ call'[c].at = "leave"
      BY <1>1, <2>2 DEF CallSteps
    <3>. QED
      BY <1>3, <3>1 DEF Admits
  <2>3. CASE Goto(c, "data") /\ Op(c) = "font" /\ session_active
    <3>1. Kept /\ call'[c].at = "data"
      BY <1>1, <2>3 DEF CallSteps
    <3>. QED
      BY <1>3, <2>3, <3>1 DEF Admits
  <2>4. ASSUME Op(c) = "configure", session_active, NEW ours \in BOOLEAN,
               NEW at \in {"stop", "clear"}, call' = [call EXCEPT ![c].ours = ours, ![c].at = at]
        PROVE  /\ Kept /\ Admits(c) /\ Goes(c, {"admit"}, {"stop", "clear"})
    <3>1. Kept /\ call'[c].at = at
      BY <1>0, <2>4 DEF CallShapes
    <3>. QED
      BY <1>3, <3>1 DEF Admits
  <2>. QED
    BY <2>1, <2>2, <2>3, <2>4
<1>4. CASE Clears(c)
  <2>1. PICK at \in {"stop", "ask"} :
          call' = [call EXCEPT ![c].number = installed_signal, ![c].at = at]
    BY <1>4 DEF Clears
  <2>2. Kept /\ call'[c].at = at
    BY <1>0, <2>1 DEF CallShapes
  <2>. QED
    BY <1>4, <2>2 DEF Clears
<1>5. CASE Asks(c)
  <2>1. \/ \E at \in {"restore", "stop"} : call' = [call EXCEPT ![c].at = at]
        \/ call' = [call EXCEPT ![c].at = "stop", ![c].failed = TRUE]
    BY <1>5 DEF Asks, Undoes
  <2>2. Kept /\ call'[c].at \in {"restore", "stop"}
    BY <1>0, <2>1 DEF CallShapes
  <2>. QED
    BY <1>5, <2>2 DEF Asks
<1>6. CASE Restores(c)
  <2>1. Goto(c, "stop") \/ call' = [call EXCEPT ![c].at = "stop", ![c].failed = TRUE]
    BY <1>6 DEF Restores
  <2>2. Kept /\ call'[c].at = "stop"
    BY <1>0, <2>1 DEF Goto, CallShapes
  <2>. QED
    BY <1>6, <2>2 DEF Restores
<1>7. CASE Stops(c)
  <2>1. Kept /\ call'[c].at = "join"
    BY <1>1, <1>7 DEF Stops, CallSteps
  <2>. QED
    BY <1>7, <2>1 DEF Stops
<1>8. CASE Joins(c)
  <2>1. Kept /\ call'[c].at = "unlatch"
    BY <1>1, <1>8 DEF Joins, CallSteps
  <2>. QED
    BY <1>8, <2>1 DEF Joins
<1>9. CASE Unlatches(c)
  <2>1. PICK at \in {"spawn", "data", "leave"} :
          /\ Goto(c, at)
          /\ at = "spawn" => Op(c) = "configure"
          /\ at = "data" <=> Op(c) = "shutdown"
    BY <1>9 DEF Unlatches
  <2>2. Kept /\ call'[c].at = at
    BY <1>1, <2>1 DEF CallSteps
  <2>. QED
    BY <1>9, <2>1, <2>2 DEF Unlatches
<1>10. CASE Spawns(c)
  <2>1. GivesBack(c) \/ \E at \in {"leave", "install"} : Goto(c, at)
    BY <1>10 DEF Spawns
  <2>2. CASE GivesBack(c)
    <3>1. Kept /\ call'[c].at = "clear"
      BY <1>0, <2>2 DEF GivesBack, CallShapes
    <3>. QED
      BY <1>10, <3>1 DEF Spawns
  <2>3. CASE \E at \in {"leave", "install"} : Goto(c, at)
    <3>1. Kept /\ call'[c].at \in {"leave", "install"}
      BY <1>1, <2>3 DEF CallSteps
    <3>. QED
      BY <1>10, <3>1 DEF Spawns
  <2>. QED
    BY <2>1, <2>2, <2>3
<1>11. CASE Installs(c)
  <2>1. Kept /\ call'[c].at = "act"
    BY <1>1, <1>11 DEF Installs, CallSteps
  <2>. QED
    BY <1>11, <2>1 DEF Installs
<1>12. CASE Acts(c)
  <2>1. GivesBack(c) \/ Goto(c, "leave")
    BY <1>12 DEF Acts
  <2>2. CASE GivesBack(c)
    <3>1. Kept /\ call'[c].at = "clear"
      BY <1>0, <2>2 DEF GivesBack, CallShapes
    <3>. QED
      BY <1>12, <3>1 DEF Acts
  <2>3. CASE Goto(c, "leave")
    <3>1. Kept /\ call'[c].at = "leave"
      BY <1>1, <2>3 DEF CallSteps
    <3>. QED
      BY <1>12, <3>1 DEF Acts
  <2>. QED
    BY <2>1, <2>2, <2>3
<1>13. CASE Data(c)
  <2>1. Kept /\ call'[c].at = "leave"
    BY <1>1, <1>13 DEF Data, CallSteps
  <2>. QED
    BY <1>13, <2>1 DEF Data
<1>. QED
  BY <1>2, <1>3, <1>4, <1>5, <1>6, <1>7, <1>8, <1>9, <1>10, <1>11, <1>12, <1>13 DEF CallerStep

-----------------------------------------------------------------------------
(***************************************************************************)
(* The worker's configuration: it can be alive only while worker_created,  *)
(* and a caller that frees or replaces the path has joined it before.      *)
(***************************************************************************)
\* Only a join leads to the freeing of the path, and only a configure on to a
\* new worker.
LEMMA Advances ==
  ASSUME Shape, NEW c \in Callers, CallerStep(c), ~Leaves(c)
  PROVE  /\ call'[c].op = call[c].op /\ call'[c].cfg = call[c].cfg
         /\ call'[c].at = "unlatch" => Joins(c)
         /\ call'[c].at = "spawn" => Unlatches(c) /\ call[c].op = "configure"
BY Routes DEF Goes, Op

\* A call frees or replaces the path only after the join.
Prepared(c) == /\ call[c].op = "configure" => call[c].cfg \in Configurations
               /\ call[c].at = "unlatch" => ~worker_created
               /\ call[c].at = "spawn" => call[c].op = "configure" /\ ~worker_created
OwnInv == /\ \A c \in Callers : Prepared(c)
          /\ Alive => worker_created
          /\ WorkerOwnsConfiguration

\* Every step keeps what is owned.
LEMMA OwnStep == Shape /\ MutexInv /\ OwnInv /\ [Next]_vars => OwnInv'
<1> SUFFICES ASSUME Shape, MutexInv, OwnInv, [Next]_vars PROVE OwnInv'
  OBVIOUS
<1>0. ASSUME UNCHANGED <<call, configured, worker_created>>, Alive' => Alive,
             worker'.cfg = worker.cfg
      PROVE  OwnInv'
  BY <1>0 DEF OwnInv, Prepared, WorkerOwnsConfiguration
<1>1. CASE WorkerStep \/ DeadlinePasses
  BY <1>0, <1>1, WorkerEffect
<1>2. CASE (\E h \in Handlers : Delivered(h) \/ Compares(h) \/ Latches(h)) \/ AppSigaction
  BY <1>0, <1>2 DEF Delivered, Compares, Latches, AppSigaction, config, Alive
<1>3. ASSUME NEW c \in Callers, Calls(c) PROVE OwnInv'
  <2>1. \A d \in Callers \ {c} : call'[d] = call[d]
    BY <1>3, CallerEffect
  <2>2. UNCHANGED <<configured, worker_created, worker>>
    BY <1>3 DEF Calls, config, CallerUnchanged
  <2>3. /\ call'[c].op = "configure" => call'[c].cfg \in Configurations
        /\ call'[c].at = "enter"
    BY <1>3 DEF Calls, Shape, Idle
  <2>. QED
    BY <2>1, <2>2, <2>3 DEF OwnInv, Prepared, WorkerOwnsConfiguration, Alive
<1>4. ASSUME NEW c \in Callers, CallerStep(c) PROVE OwnInv'
  <2>0. \A d \in Callers \ {c} : call'[d] = call[d]
    BY <1>4, CallerEffect
  <2>1. ~Waits(c) \/ Enters(c)
    BY <1>4 DEF CallerStep, Admits, Clears, Asks, Restores, Stops, Joins, Unlatches, Spawns,
       Installs, Acts, Data, Leaves, Waits, CallAt
  <2>2. ASSUME ~Enters(c), NEW d \in Callers \ {c} PROVE Waits(d)
    BY <2>1, <2>2, NoneAssumption DEF MutexInv
  <2>3. CASE Spawns(c)
    <3>1. /\ call[c].at = "spawn" /\ configured' = call[c].cfg
          /\ \/ worker_created' /\ worker' = [NoWorker EXCEPT !.at = "top", !.cfg = call[c].cfg]
             \/ UNCHANGED <<worker, worker_created>>
      BY <2>3 DEF Spawns, CallAt
    <3>2. call[c].cfg \in Configurations /\ ~worker_created /\ ~Alive
      BY <3>1 DEF OwnInv, Prepared
    <3>3. call[c].cfg # None
      BY <3>2, NoneAssumption
    <3>4. ~Leaves(c) /\ ~Joins(c) /\ ~Unlatches(c)
      BY <3>1 DEF Leaves, Joins, Unlatches, CallAt
    <3>5. Prepared(c)'
      BY <1>4, <3>2, <3>4, Advances DEF OwnInv, Prepared
    <3>6. ASSUME NEW d \in Callers \ {c} PROVE Prepared(d)'
      <4>1. ~Enters(c)
        BY <3>1 DEF Enters, CallAt
      <4>. QED
        BY <2>0, <2>2, <4>1 DEF OwnInv, Prepared, Waits
    <3>7. (Alive' => worker_created') /\ WorkerOwnsConfiguration'
      BY <3>1, <3>2, <3>3 DEF WorkerOwnsConfiguration, Alive, NoWorker
    <3>. QED
      BY <3>5, <3>6, <3>7 DEF OwnInv
  <2>4. CASE Joins(c)
    <3>1. /\ ~worker_created' /\ UNCHANGED <<configured, worker>> /\ ~Leaves(c) /\ ~Unlatches(c)
          /\ ~Alive
      BY <2>4 DEF Joins, Joined, CallAt, WorkerAt, CallerUnchanged, Leaves, Unlatches, OwnInv, Alive
    <3>2. Prepared(c)'
      BY <1>4, <3>1, Advances DEF OwnInv, Prepared
    <3>3. \A d \in Callers \ {c} : Prepared(d)'
      BY <2>0, <3>1 DEF OwnInv, Prepared
    <3>. QED
      BY <3>1, <3>2, <3>3 DEF OwnInv, WorkerOwnsConfiguration, Alive
  <2>5. CASE Unlatches(c)
    <3>1. UNCHANGED <<worker_created, worker>> /\ call[c].at = "unlatch" /\ ~Leaves(c) /\ ~Joins(c)
      BY <2>5 DEF Unlatches, CallAt, CallerUnchanged, Leaves, Joins
    <3>2. ~worker_created /\ ~Alive
      BY <3>1 DEF OwnInv, Prepared
    <3>3. Prepared(c)'
      BY <1>4, <3>1, <3>2, Advances DEF OwnInv, Prepared
    <3>4. \A d \in Callers \ {c} : Prepared(d)'
      BY <2>0, <3>1 DEF OwnInv, Prepared
    <3>. QED
      BY <3>1, <3>2, <3>3, <3>4 DEF OwnInv, WorkerOwnsConfiguration, Alive
  <2>6. CASE Leaves(c)
    <3>1. UNCHANGED <<configured, worker_created, worker>> /\ call'[c] = Idle
      BY <2>6 DEF Leaves, Leave, config, CallerUnchanged, Shape
    <3>2. \A d \in Callers : Prepared(d)'
      BY <2>0, <3>1 DEF OwnInv, Prepared, Idle
    <3>. QED
      BY <3>1, <3>2 DEF OwnInv, WorkerOwnsConfiguration, Alive
  <2>7. CASE ~Spawns(c) /\ ~Joins(c) /\ ~Unlatches(c) /\ ~Leaves(c)
    <3>1. UNCHANGED <<configured, worker_created, worker>>
      BY <1>4, <2>7 DEF CallerStep, Enters, Admits, Clears, Asks, Restores, Stops, Installs, Acts,
         Data, config, CallerUnchanged
    <3>2. Prepared(c)'
      BY <1>4, <2>7, Advances DEF OwnInv, Prepared
    <3>3. \A d \in Callers \ {c} : Prepared(d)'
      BY <2>0, <3>1 DEF OwnInv, Prepared
    <3>. QED
      BY <3>1, <3>2, <3>3 DEF OwnInv, WorkerOwnsConfiguration, Alive
  <2>. QED
    BY <2>3, <2>4, <2>5, <2>6, <2>7
<1>5. CASE UNCHANGED vars
  BY <1>0, <1>5 DEF vars, config, Alive
<1>. QED
  BY <1>1, <1>2, <1>3, <1>4, <1>5 DEF Next

-----------------------------------------------------------------------------
(***************************************************************************)
(* The session: while it is down or reset no snapshot is configured, since *)
(* the shutdown before it has taken everything back and no call that waits *)
(* for the mutex gets past admission.                                      *)
(***************************************************************************)
\* The session's state follows from the lifecycle call under way, and what a
\* call is from the step it has reached.
Course(c) == /\ Op(c) \in Lifecycles => c = Lifecycle
             /\ Op(c) = "reset" => session = "reset"
             /\ Op(c) = "start" => session = "up"
             /\ Op(c) = "suspend" => session = "suspended"
             /\ Op(c) = "shutdown" => session = "closing"
             /\ call[c].at = "admit" => Op(c) \in {"configure", "font"}
             /\ call[c].at \in {"install", "act"} => Op(c) = "configure"
             /\ call[c].at = "data" => Op(c) \in {"font", "reset", "shutdown"}
\* What has been done of a shutdown, and that a call once admitted stays
\* admitted.
Done(c) ==
  /\ Op(c) = "configure" /\ call[c].at \notin {"idle", "enter", "admit", "leave"} => session_active
  /\ Op(c) = "font" /\ call[c].at = "data" => session_active
  /\ Op(c) = "shutdown" =>
       /\ ~Waits(c) => ~session_active
       /\ ~Waits(c) /\ call[c].at # "clear" => installed_signal = None
       /\ call[c].at \in {"unlatch", "data", "leave"} => ~worker_created
       /\ call[c].at \in {"data", "leave"} => configured = None
       /\ call[c].at = "leave" => ~font
Cleared == /\ ~session_active /\ ~worker_created /\ installed_signal = None
           /\ configured = None /\ ~font
SessionInv == /\ \A c \in Callers : Course(c) /\ Done(c)
              /\ session \in {"down", "reset"} => Cleared

\* What each step under control_mutex changes of the shared state.
LEMMA Effects ==
  ASSUME Shape, NEW c \in Callers, CallerStep(c), ~Leaves(c)
  PROVE  /\ session' = session
         /\ session_active' = IF ~Enters(c) THEN session_active
                              ELSE IF Op(c) = "start" THEN TRUE
                              ELSE IF Op(c) \in {"suspend", "shutdown"} THEN FALSE
                              ELSE session_active
         /\ \/ installed_signal' = installed_signal /\ ~Clears(c)
            \/ installed_signal' = None
            \/ Installs(c)
         /\ Joins(c) => ~worker_created'
         /\ ~Joins(c) /\ ~Spawns(c) => worker_created' = worker_created
         /\ (configured' = configured /\ ~Unlatches(c)) \/ configured' = None \/ Spawns(c)
         /\ ~Data(c) => font' = font
         /\ Data(c) /\ Op(c) # "font" => ~font'
<1> USE DEF Op, CallAt, atomics, config
<1>1. /\ session' = session
      /\ session_active' = IF ~Enters(c) THEN session_active
                           ELSE IF Op(c) = "start" THEN TRUE
                           ELSE IF Op(c) \in {"suspend", "shutdown"} THEN FALSE
                           ELSE session_active
  BY DEF CallerStep, Enters, Admits, Clears, Asks, Restores, Stops, Joins, Unlatches, Spawns,
     Installs, Acts, Data
<1>2. \/ installed_signal' = installed_signal /\ ~Clears(c)
      \/ installed_signal' = None
      \/ Installs(c)
  BY DEF CallerStep, Enters, Admits, Clears, Asks, Restores, Stops, Joins, Unlatches, Spawns,
     Acts, Data
<1>3. /\ Joins(c) => ~worker_created'
      /\ ~Joins(c) /\ ~Spawns(c) => worker_created' = worker_created
  <2>1. Joins(c) => ~worker_created'
    BY DEF Joins
  <2>2. ~Joins(c) /\ ~Spawns(c) => worker_created' = worker_created
    BY DEF CallerStep, Enters, Admits, Clears, Asks, Restores, Stops, Unlatches, Installs, Acts, Data
  <2>. QED
    BY <2>1, <2>2
<1>4. (configured' = configured /\ ~Unlatches(c)) \/ configured' = None \/ Spawns(c)
  BY DEF CallerStep, Enters, Admits, Clears, Asks, Restores, Stops, Joins, Unlatches,
     Installs, Acts, Data
<1>5. /\ ~Data(c) => font' = font
      /\ Data(c) /\ Op(c) # "font" => ~font'
  <2>1. Data(c) /\ Op(c) # "font" => ~font'
    BY DEF Data
  <2>2. ~Data(c) => font' = font
    BY DEF CallerStep, Enters, Admits, Clears, Asks, Restores, Stops, Joins, Unlatches, Spawns,
       Installs, Acts
  <2>. QED
    BY <2>1, <2>2
<1>. QED
  BY <1>1, <1>2, <1>3, <1>4, <1>5

\* Every step keeps the session's part.
LEMMA SessionStep == Shape /\ MutexInv /\ OwnInv /\ SessionInv /\ [Next]_vars => SessionInv'
<1> SUFFICES ASSUME Shape, MutexInv, OwnInv, SessionInv, [Next]_vars PROVE SessionInv'
  OBVIOUS
<1> USE DEF Op, Lifecycles
<1>0. ASSUME UNCHANGED <<call, session, session_active, configured, worker_created,
                         installed_signal, font>>
      PROVE  SessionInv'
  BY <1>0 DEF SessionInv, Course, Done, Cleared, Waits
<1>1. CASE WorkerStep \/ DeadlinePasses
  BY <1>0, <1>1, WorkerEffect
<1>2. CASE (\E h \in Handlers : Delivered(h) \/ Compares(h) \/ Latches(h)) \/ AppSigaction
  BY <1>0, <1>2 DEF Delivered, Compares, Latches, AppSigaction, config, atomics
<1>3. ASSUME NEW c \in Callers, Calls(c) PROVE SessionInv'
  <2>1. \A d \in Callers \ {c} : call'[d] = call[d]
    BY <1>3, CallerEffect
  <2>2. UNCHANGED <<session_active, configured, worker_created, installed_signal, font>>
    BY <1>3 DEF Calls, atomics, config
  <2>3. PICK op \in {"configure", "disable", "font"}
                    \cup (IF c = Lifecycle THEN {"reset", "start", "suspend", "shutdown"} ELSE {}) :
          SessionBegins(op) /\ call'[c].op = op /\ call'[c].at = "enter"
    BY <1>3 DEF Calls, Idle, Shape
  <2>4. c # Lifecycle => session' = session
    BY <2>3 DEF SessionBegins
  <2>5. Course(c)' /\ Done(c)'
    BY <2>3 DEF Course, Done, Waits, SessionBegins
  <2>6. ASSUME NEW d \in Callers \ {c} PROVE Course(d)' /\ Done(d)'
    <3>1. Course(d) /\ Done(d) /\ call'[d] = call[d]
      BY <2>1 DEF SessionInv
    <3>2. c = Lifecycle => d # Lifecycle
      OBVIOUS
    <3>3. Course(d)'
      BY <2>4, <3>1, <3>2 DEF Course
    <3>. QED
      BY <2>2, <3>1, <3>3 DEF Done, Waits
  <2>7. session' \in {"down", "reset"} => session \in {"down", "reset"}
    BY <2>3 DEF SessionBegins
  <2>. QED
    BY <2>2, <2>5, <2>6, <2>7 DEF SessionInv, Cleared
<1>4. ASSUME NEW c \in Callers, CallerStep(c) PROVE SessionInv'
  <2>1. \A d \in Callers \ {c} : call'[d] = call[d]
    BY <1>4, CallerEffect
  <2>2. \A d \in Callers \ {c} : Waits(d)
    <3>1. ~Waits(c) \/ control_mutex = None
      BY <1>4 DEF CallerStep, Enters, Admits, Clears, Asks, Restores, Stops, Joins, Unlatches,
         Spawns, Installs, Acts, Data, Leaves, Waits, CallAt
    <3>. QED
      BY <3>1, NoneAssumption DEF MutexInv
  <2>3. Course(c) /\ Done(c) /\ Prepared(c)
    BY DEF SessionInv, OwnInv
  <2>4. CASE Leaves(c)
    <3>1. /\ call[c].at = "leave" /\ call'[c] = Idle
          /\ session' = IF Op(c) = "shutdown" THEN "down" ELSE session
          /\ UNCHANGED <<session_active, configured, worker_created, installed_signal, font>>
      BY <2>4 DEF Leaves, Leave, CallAt, config, atomics, Shape
    <3>2. Course(c)' /\ Done(c)'
      BY <3>1 DEF Course, Done, Waits, Idle
    <3>3. ASSUME NEW d \in Callers \ {c} PROVE Course(d)' /\ Done(d)'
      <4>1. Course(d) /\ call'[d] = call[d] /\ Waits(d)
        BY <2>1, <2>2 DEF SessionInv
      <4>2. Course(d)'
        BY <2>3, <3>1, <4>1 DEF Course
      <4>3. Done(d)'
        BY <4>1 DEF Done, Waits
      <4>. QED
        BY <4>2, <4>3
    <3>4. session' \in {"down", "reset"} => Cleared
      BY <2>3, <3>1 DEF SessionInv, Done, Cleared, Waits
    <3>. QED
      BY <3>1, <3>2, <3>3, <3>4 DEF SessionInv, Cleared
  <2>5. CASE ~Leaves(c)
    <3>1. ASSUME NEW d \in Callers \ {c} PROVE Course(d)' /\ Done(d)'
      <4>1. Course(d) /\ call'[d] = call[d] /\ Waits(d) /\ session' = session
        BY <1>4, <2>1, <2>2, <2>5, Effects DEF SessionInv
      <4>2. Course(d)'
        BY <4>1 DEF Course
      <4>3. Done(d)'
        BY <4>1 DEF Done, Waits
      <4>. QED
        BY <4>2, <4>3
    <3>2. Course(c)'
      BY <1>4, <2>3, <2>5, Routes, Effects DEF Course, Prepared, Goes
    <3>3. Done(c)'
      <4>1. /\ Op(c)' = Op(c)
            /\ ~Enters(c) => ~Waits(c) /\ session_active' = session_active
        BY <1>4, <2>5, Routes, Effects DEF Goes, Waits
      <4>2. /\ Op(c)' = "configure" /\ call'[c].at \notin {"idle", "enter", "admit", "leave"}
               => session_active'
            /\ Op(c)' = "font" /\ call'[c].at = "data" => session_active'
        BY <1>4, <2>3, <2>5, <4>1, Routes, Effects DEF Course, Done, Goes
      <4>3. ASSUME Op(c) = "shutdown"
            PROVE  /\ ~session_active'
                   /\ call'[c].at # "clear" => installed_signal' = None
                   /\ call'[c].at \in {"unlatch", "data", "leave"} => ~worker_created'
                   /\ call'[c].at \in {"data", "leave"} => configured' = None
                   /\ call'[c].at = "leave" => ~font'
        <5>1. ~Admits(c) /\ ~Spawns(c) /\ ~Installs(c) /\ ~Acts(c)
          BY <2>3, <4>3 DEF Course, Prepared, Admits, Spawns, Installs, Acts, CallAt
        <5>2. ~session_active'
          BY <1>4, <2>3, <2>5, <4>1, <4>3, Effects DEF Done
        <5>3. call'[c].at # "clear" => installed_signal' = None
          BY <1>4, <2>3, <2>5, <4>3, <5>1, Routes, Effects DEF Done, Goes, Waits
        <5>4. call'[c].at \in {"unlatch", "data", "leave"} => ~worker_created'
          BY <1>4, <2>3, <2>5, <4>3, <5>1, Routes, Effects DEF Done, Prepared, Goes, Waits
        <5>5. call'[c].at \in {"data", "leave"} => configured' = None
          BY <1>4, <2>3, <2>5, <4>3, <5>1, Routes, Effects DEF Done, Goes, Waits
        <5>6. call'[c].at = "leave" => ~font'
          BY <1>4, <2>3, <2>5, <4>3, <5>1, Routes, Effects DEF Done, Goes, Waits
        <5>. QED
          BY <5>2, <5>3, <5>4, <5>5, <5>6
      <4>. QED
        BY <4>1, <4>2, <4>3 DEF Done
    <3>4. ASSUME session \in {"down", "reset"} PROVE Cleared'
      <4>1. Cleared
        BY <3>4 DEF SessionInv
      <4>2. Op(c) \notin {"start", "suspend", "shutdown"}
        BY <2>3, <3>4 DEF Course
      <4>3. ~Spawns(c) /\ ~Installs(c)
        BY <2>3, <4>1 DEF Course, Done, Prepared, Cleared, Spawns, Installs, CallAt
      <4>4. Data(c) => Op(c) # "font"
        BY <2>3, <4>1 DEF Done, Cleared, Data, CallAt
      <4>. QED
        BY <1>4, <2>5, <4>1, <4>2, <4>3, <4>4, Effects DEF Cleared
    <3>. QED
      BY <1>4, <2>5, <3>1, <3>2, <3>3, <3>4, Effects DEF SessionInv
  <2>. QED
    BY <2>4, <2>5
<1>5. CASE UNCHANGED vars
  BY <1>0, <1>5 DEF vars, config, atomics
<1>. QED
  BY <1>1, <1>2, <1>3, <1>4, <1>5 DEF Next

-----------------------------------------------------------------------------
(***************************************************************************)
(* The counts of requests, captures and completions.                       *)
(***************************************************************************)
Pending == IF requested THEN 1 ELSE 0
CountInv == begun + Pending <= stored /\ StatusCounts

\* What each step of the worker does to the counts.
LEMMA WorkerCounts ==
  ASSUME Shape, WorkerStep \/ DeadlinePasses
  PROVE  \/ /\ Takes /\ requested /\ ~requested' /\ begun' = begun + 1
            /\ ~InHand /\ InHand' /\ UNCHANGED completed_sequence
         \/ /\ requested' = requested /\ UNCHANGED <<begun, completed_sequence>>
            /\ InHand' = InHand
         \/ /\ Publishes /\ UNCHANGED <<requested, begun>> /\ InHand /\ ~InHand'
            /\ completed_sequence' = completed_sequence + 1
<1> USE DEF Shape, WorkerShapes, WorkerAt, InHand, Sending
<1>1. CASE Tests
  BY <1>1 DEF Tests, atomics
<1>2. CASE Takes
  <2>1. CASE requested
    BY <1>2, <2>1 DEF Takes
  <2>2. CASE ~requested
    BY <1>2, <2>2 DEF Takes
  <2>. QED
    BY <2>1, <2>2
<1>3. CASE Opens
  BY <1>3 DEF Opens, atomics
<1>4. CASE Captures
  <2>1. /\ worker.at = "lock" /\ worker'.at \in {"copy", "close"}
        /\ requested' = requested /\ UNCHANGED <<begun, completed_sequence>>
    BY <1>4 DEF Captures, atomics
  <2>. QED
    BY <2>1
<1>5. CASE Copies
  BY <1>5 DEF Copies, atomics
<1>6. CASE Encodes
  <2>1. /\ worker.at = "encode" /\ worker'.at \in {"close", "flush", "encode"}
        /\ requested' = requested /\ UNCHANGED <<begun, completed_sequence>>
    BY <1>6 DEF Encodes, atomics
  <2>. QED
    BY <2>1
<1>7. CASE Flushes
  <2>1. /\ worker.at = "flush" /\ worker'.at \in {"close", "flush", "encode"}
        /\ requested' = requested /\ UNCHANGED <<begun, completed_sequence>>
    <3>1. \A n : AfterWrite(n) \in {"flush", "close", "encode"}
      BY DEF AfterWrite
    <3>2. worker.at = "flush" /\ requested' = requested /\ UNCHANGED <<begun, completed_sequence>>
      BY <1>7 DEF Flushes, atomics
    <3>3. \/ worker' = [worker EXCEPT !.at = "close", !.failed = TRUE]
          \/ worker' = worker
          \/ \E n \in 1..worker.used :
               worker' = [worker EXCEPT !.used = worker.used - n, !.at = AfterWrite(worker.used - n)]
      BY <1>7 DEF Flushes
    <3>. QED
      BY <3>1, <3>2, <3>3
  <2>. QED
    BY <2>1
<1>8. CASE Closes
  BY <1>8 DEF Closes, atomics
<1>9. CASE Publishes
  BY <1>9 DEF Publishes, atomics
<1>10. CASE DeadlinePasses
  BY <1>10 DEF DeadlinePasses, atomics
<1>. QED
  BY <1>1, <1>2, <1>3, <1>4, <1>5, <1>6, <1>7, <1>8, <1>9, <1>10 DEF WorkerStep

\* Every step keeps the counts: a reset finds no capture under way.
LEMMA CountStep ==
  Shape /\ OwnInv /\ SessionInv /\ CountInv /\ [Next]_vars => CountInv'
<1> SUFFICES ASSUME Shape, OwnInv, SessionInv, CountInv, [Next]_vars PROVE CountInv'
  OBVIOUS
<1>0. /\ begun \in Nat /\ stored \in Nat /\ completed_sequence \in Nat /\ requested \in BOOLEAN
      /\ begun + Pending <= stored /\ begun = completed_sequence + IF InHand THEN 1 ELSE 0
  BY DEF Shape, CountInv, StatusCounts, InHand, Sending
<1>s. StatusCounts' <=> begun' = completed_sequence' + IF InHand' THEN 1 ELSE 0
  BY DEF StatusCounts, InHand, Sending
<1>1. CASE WorkerStep \/ DeadlinePasses
  <2>1. stored' = stored
    BY <1>1, WorkerEffect
  <2>. QED
    BY <1>0, <1>s, <1>1, <2>1, WorkerCounts DEF CountInv, Pending
<1>2. ASSUME NEW h \in Handlers, Delivered(h) \/ Compares(h) \/ Latches(h) PROVE CountInv'
  <2>1. UNCHANGED <<begun, completed_sequence, worker>>
    BY <1>2 DEF Delivered, Compares, Latches, counts
  <2>2. (requested' = requested /\ stored' = stored) \/ (requested' = TRUE /\ stored' = stored + 1)
    <3>1. CASE Latches(h)
      BY <3>1 DEF Latches
    <3>2. CASE Delivered(h) \/ Compares(h)
      <4>1. UNCHANGED <<atomics, counts>>
        BY <3>2 DEF Delivered, Compares
      <4>2. requested' = requested /\ stored' = stored
        BY <4>1, Zenon DEF atomics, counts
      <4>. QED
        BY <4>2, Zenon
    <3>. QED
      BY <1>2, <3>1, <3>2
  <2>3. InHand' = InHand
    BY <2>1 DEF InHand, Sending
  <2>. QED
    BY <1>0, <1>s, <2>1, <2>2, <2>3 DEF CountInv, Pending
<1>3. ASSUME NEW c \in Callers, Calls(c) \/ CallerStep(c) PROVE CountInv'
  <2>1. stored' = stored /\ (requested' = requested \/ requested' = FALSE)
    BY <1>3 DEF CallerStep, Calls, Enters, Admits, Clears, Asks, Restores, Stops, Joins, Unlatches,
       Spawns, Installs, Acts, Data, Leaves, CallerUnchanged, atomics, counts
  <2>2. CASE Data(c) /\ Op(c) = "reset"
    <3>1. begun' = 0 /\ completed_sequence' = 0 /\ worker' = worker
      BY <2>2 DEF Data, Op
    <3>2. session = "reset"
      BY <2>2 DEF SessionInv, Course
    <3>3. ~Alive
      BY <3>2 DEF SessionInv, Cleared, OwnInv
    <3>4. ~InHand'
      BY <3>1, <3>3 DEF Alive, InHand, Sending
    <3>. QED
      BY <1>0, <1>s, <2>1, <3>1, <3>4 DEF CountInv, Pending
  <2>3. CASE Spawns(c)
    <3>1. UNCHANGED <<begun, completed_sequence>>
      BY <2>3 DEF Spawns, counts
    <3>2. ~Alive
      BY <2>3 DEF Spawns, CallAt, OwnInv, Prepared
    <3>3. worker' = worker \/ worker'.at = "top"
      BY <2>3 DEF Spawns, NoWorker
    <3>4. ~InHand /\ ~InHand'
      BY <3>2, <3>3 DEF Alive, InHand, Sending
    <3>. QED
      BY <1>0, <1>s, <2>1, <3>1, <3>4 DEF CountInv, Pending
  <2>4. CASE ~(Data(c) /\ Op(c) = "reset") /\ ~Spawns(c)
    <3>1. UNCHANGED <<begun, completed_sequence, worker>>
      BY <1>3, <2>4 DEF CallerStep, Calls, Enters, Admits, Clears, Asks, Restores, Stops, Joins,
         Unlatches, Installs, Acts, Data, Leaves, CallerUnchanged, Op, counts
    <3>2. InHand' = InHand
      BY <3>1 DEF InHand, Sending
    <3>. QED
      BY <1>0, <1>s, <2>1, <3>1, <3>2 DEF CountInv, Pending
  <2>. QED
    BY <2>2, <2>3, <2>4
<1>4. CASE AppSigaction \/ UNCHANGED vars
  <2>1. UNCHANGED <<begun, completed_sequence, worker, requested, stored>>
    BY <1>4 DEF AppSigaction, vars, counts, atomics
  <2>. QED
    BY <2>1 DEF CountInv, StatusCounts, Pending
<1>. QED
  BY <1>1, <1>2, <1>3, <1>4 DEF Next

-----------------------------------------------------------------------------
(***************************************************************************)
(* data_mutex: the worker holds it from the frame to the font.             *)
(***************************************************************************)
FontInv == /\ worker.at = "copy" => data_mutex = "worker" /\ worker.fontAtFrame = font
           /\ FontOfFrame

\* Every step keeps it: Data, the only other writer, waits for the mutex.
LEMMA FontStep == Shape /\ OwnInv /\ FontInv /\ [Next]_vars => FontInv'
<1> SUFFICES ASSUME Shape, OwnInv, FontInv, [Next]_vars PROVE FontInv'
  OBVIOUS
<1> USE DEF FontInv, FontOfFrame
<1>0. ASSUME UNCHANGED <<worker, data_mutex, font>> PROVE FontInv'
  BY <1>0
<1>1. CASE WorkerStep \/ DeadlinePasses
  <2> USE DEF Shape, WorkerShapes, WorkerAt
  <2>0. font' = font
    BY <1>1, WorkerEffect
  <2>1. CASE Tests
    BY <2>1 DEF Tests
  <2>2. CASE Takes
    <3>1. worker'.at \in {"open", "top"}
      BY <2>2 DEF Takes
    <3>. QED
      BY <3>1
  <2>3. CASE Opens
    <3>1. worker'.at \in {"lock", "publish"}
      BY <2>3 DEF Opens
    <3>. QED
      BY <3>1
  <2>4. CASE Captures
    <3>1. \/ worker'.at = "close"
          \/ data_mutex' = "worker" /\ worker'.at = "copy" /\ worker'.fontAtFrame = font
      BY <2>4 DEF Captures
    <3>. QED
      BY <2>0, <3>1
  <2>5. CASE Copies
    <3>1. \/ worker'.at = "close"
          \/ worker'.at = "encode" /\ worker'.font = font /\ worker'.fontAtFrame = worker.fontAtFrame
      BY <2>5 DEF Copies
    <3>2. worker.fontAtFrame = font
      BY <2>5 DEF Copies
    <3>. QED
      BY <3>1, <3>2
  <2>6. CASE Encodes
    <3>1. /\ worker.at = "encode" /\ worker'.at \in {"close", "flush", "encode"}
          /\ worker'.font = worker.font /\ worker'.fontAtFrame = worker.fontAtFrame
      BY <2>6 DEF Encodes
    <3>. QED
      BY <3>1
  <2>7. CASE Flushes
    <3>1. worker.at = "flush" /\ worker'.font = worker.font /\ worker'.fontAtFrame = worker.fontAtFrame
      BY <2>7 DEF Flushes
    <3>2. \A n : AfterWrite(n) \in {"flush", "close", "encode"}
      BY DEF AfterWrite
    <3>3. worker'.at \in {"flush", "close", "encode"}
      <4>1. \/ worker' = [worker EXCEPT !.at = "close", !.failed = TRUE]
            \/ worker' = worker
            \/ \E n \in 1..worker.used :
                 worker' = [worker EXCEPT !.used = worker.used - n, !.at = AfterWrite(worker.used - n)]
        BY <2>7 DEF Flushes
      <4>. QED
        BY <3>1, <3>2, <4>1
    <3>. QED
      BY <3>1, <3>3
  <2>8. CASE Closes
    <3>1. worker'.at = "publish"
      BY <2>8 DEF Closes
    <3>. QED
      BY <3>1
  <2>9. CASE Publishes
    BY <2>9 DEF Publishes
  <2>10. CASE DeadlinePasses
    BY <2>0, <2>10 DEF DeadlinePasses
  <2>. QED
    BY <1>1, <2>1, <2>2, <2>3, <2>4, <2>5, <2>6, <2>7, <2>8, <2>9, <2>10 DEF WorkerStep
<1>2. CASE (\E h \in Handlers : Delivered(h) \/ Compares(h) \/ Latches(h)) \/ AppSigaction
  BY <1>0, <1>2 DEF Delivered, Compares, Latches, AppSigaction
<1>3. ASSUME NEW c \in Callers, Calls(c) \/ CallerStep(c) PROVE FontInv'
  <2>1. CASE Data(c)
    <3>1. data_mutex = None /\ UNCHANGED worker
      BY <2>1 DEF Data
    <3>2. worker.at # "copy"
      BY <3>1, NoneAssumption
    <3>. QED
      BY <3>1, <3>2
  <2>2. CASE Spawns(c)
    <3>1. (worker' = worker /\ UNCHANGED <<data_mutex, font>>) \/ worker'.at = "top"
      BY <2>2 DEF Spawns, NoWorker
    <3>. QED
      BY <3>1
  <2>3. CASE ~Data(c) /\ ~Spawns(c)
    BY <1>0, <1>3, <2>3 DEF CallerStep, Calls, Enters, Admits, Clears, Asks, Restores, Stops, Joins,
       Unlatches, Installs, Acts, Leaves, CallerUnchanged
  <2>. QED
    BY <2>1, <2>2, <2>3
<1>4. CASE UNCHANGED vars
  BY <1>0, <1>4 DEF vars
<1>. QED
  BY <1>1, <1>2, <1>3, <1>4 DEF Next

-----------------------------------------------------------------------------
(***************************************************************************)
(* A configuration has all of its parts or none while nobody changes it,   *)
(* and loses and gets them in a fixed order while somebody does.           *)
(***************************************************************************)
At(c, places) == call[c].at \in places
Whole == /\ worker_created <=> configured # None
         /\ worker_created <=> installed_signal # None
         /\ worker_created <=> worker_running
\* A configure for the signal that is installed already leaves it in place.
Keeps(c) == call[c].ours /\ ~call[c].failed
Parts(c) ==
  /\ Op(c) = "none" => At(c, {"idle"})
  /\ call[c].ours => Op(c) = "configure"
  /\ Op(c) = "configure" => call[c].sig \in Signals
  /\ At(c, {"idle", "enter", "admit"}) => ~call[c].ours /\ ~call[c].failed
  /\ At(c, {"clear", "ask", "restore"}) => ~Keeps(c)
  /\ At(c, {"admit", "data", "leave"}) => Whole
  /\ At(c, {"ask", "restore"}) => installed_signal = None /\ call[c].number \in Signals
  /\ At(c, {"stop", "join", "unlatch", "spawn"}) =>
       installed_signal = IF Keeps(c) THEN call[c].sig ELSE None
  /\ At(c, {"join", "unlatch", "spawn"}) => ~worker_running
  /\ At(c, {"unlatch", "spawn"}) => ~worker_created
  /\ At(c, {"spawn"}) => configured = None /\ ~call[c].failed
  /\ At(c, {"install", "act"}) =>
       configured # None /\ worker_created /\ worker_running /\ ~call[c].ours
  /\ At(c, {"install"}) => installed_signal = None
  /\ At(c, {"act"}) => installed_signal = call[c].sig
WholeInv == /\ \A c \in Callers : Parts(c)
            /\ control_mutex = None => Whole
            /\ worker_created /\ worker_running => Alive

\* The disposition that a configure found is not its own, and what it has taken is given
\* back by the step that finds it.
Taking == {"clear", "ask", "restore", "stop", "join", "unlatch", "spawn", "install", "act"}
Finds(c) == Op(c) = "configure" /\ ~call[c].ours /\ At(c, Taking)
ReturnInv ==
  /\ previous_action # "snapshot"
  /\ \A c \in Callers : Finds(c) => disposition[call[c].sig] # "snapshot"
  /\ faults = 0 => \A s \in Signals : disposition[s] = "snapshot" =>
       s = installed_signal \/ \E c \in Callers : At(c, {"ask", "restore"}) /\ call[c].number = s
\* While the application waits for the library's calls to end, they take from it only what
\* is default and give back only what is theirs.
KeptInv == ~AppRaces =>
  \A c \in Callers : /\ Finds(c) => disposition[call[c].sig] = "default"
                     /\ At(c, {"restore"}) => disposition[call[c].number] = "snapshot"

\* How many units a capture has left and how many its buffer holds.
UnitInv == /\ worker.left \in 0..Units /\ worker.used \in 0..Units
           /\ worker.left + worker.used <= Units
           /\ worker.at \in {"open", "lock", "copy"} => worker.left = Units /\ worker.used = 0
           /\ worker.at = "encode" => worker.left > 0
           /\ worker.at = "close" /\ ~worker.failed => worker.left = 0 /\ worker.used = 0
           /\ Sending /\ worker.at # "close" => ~worker.failed

\* The fields of a call after a step that moves it.
LEMMA GotoFields ==
  ASSUME Shape, NEW c \in Callers, NEW at, Goto(c, at)
  PROVE  /\ call'[c].at = at /\ call'[c].op = call[c].op /\ call'[c].sig = call[c].sig
         /\ call'[c].cfg = call[c].cfg /\ call'[c].ours = call[c].ours
         /\ call'[c].number = call[c].number /\ call'[c].failed = call[c].failed
<1>1. call \in [Callers -> CallShapes] /\ call[c] \in CallShapes
  BY DEF Shape
<1> QED
  BY <1>1 DEF Goto, CallShapes

\* A system call fails and the call goes on to undo what it did.
Fails(c, at) == call' = [call EXCEPT ![c].at = at, ![c].failed = TRUE]

\* The fields after that.
LEMMA FailFields ==
  ASSUME Shape, NEW c \in Callers, NEW at, Fails(c, at)
  PROVE  /\ call'[c].at = at /\ call'[c].op = call[c].op /\ call'[c].sig = call[c].sig
         /\ call'[c].cfg = call[c].cfg /\ call'[c].ours = call[c].ours
         /\ call'[c].number = call[c].number /\ call'[c].failed
<1>1. call \in [Callers -> CallShapes] /\ call[c] \in CallShapes
  BY DEF Shape
<1> QED
  BY <1>1 DEF CallShapes, Fails

\* A worker that is told to run goes on.
LEMMA WorkerLives ==
  ASSUME Shape, WorkerStep \/ DeadlinePasses, worker_running
  PROVE  Alive'
<1> USE DEF Shape, WorkerShapes, WorkerAt, Alive
<1>1. CASE Tests
  BY <1>1 DEF Tests
<1>2. CASE Takes
  <2>1. worker'.at \in {"open", "top"}
    BY <1>2 DEF Takes
  <2> QED
    BY <2>1
<1>3. CASE Opens
  <2>1. worker'.at \in {"lock", "publish"}
    BY <1>3 DEF Opens
  <2> QED
    BY <2>1
<1>4. CASE Captures
  <2>1. worker'.at \in {"copy", "close"}
    BY <1>4 DEF Captures
  <2> QED
    BY <2>1
<1>5. CASE Copies
  <2>1. worker'.at \in {"encode", "close"}
    BY <1>5 DEF Copies
  <2> QED
    BY <2>1
<1>6. CASE Encodes
  <2>1. worker'.at \in {"encode", "close", "flush"}
    BY <1>6 DEF Encodes
  <2> QED
    BY <2>1
<1>7. CASE Flushes
  <2>1. \A n : AfterWrite(n) \in {"flush", "close", "encode"}
    BY DEF AfterWrite
  <2>2. \/ worker' = [worker EXCEPT !.at = "close", !.failed = TRUE]
        \/ worker' = worker /\ worker.at = "flush"
        \/ \E n \in 1..worker.used :
             worker' = [worker EXCEPT !.used = worker.used - n, !.at = AfterWrite(worker.used - n)]
    BY <1>7 DEF Flushes
  <2>3. worker'.at \in {"flush", "close", "encode"}
    BY <2>1, <2>2
  <2> QED
    BY <2>3
<1>8. CASE Closes
  <2>1. worker'.at = "publish"
    BY <1>8 DEF Closes
  <2> QED
    BY <2>1
<1>9. CASE Publishes
  BY <1>9 DEF Publishes
<1>10. CASE DeadlinePasses
  BY <1>10 DEF DeadlinePasses
<1> QED
  BY <1>1, <1>2, <1>3, <1>4, <1>5, <1>6, <1>7, <1>8, <1>9, <1>10 DEF WorkerStep

\* The parts that the holder's step leaves are those that its next step finds.
LEMMA PartsStep ==
  ASSUME Shape, NEW c \in Callers, CallerStep(c), ~Leaves(c), Course(c), Prepared(c), Parts(c),
         Enters(c) => Whole
  PROVE  Parts(c)'
<1> USE DEF Op, CallAt, At, atomics, config
<1>0. call[c] \in CallShapes
  BY DEF Shape
<1>1. CASE Enters(c)
  <2>1. UNCHANGED <<configured, worker_created, installed_signal, worker_running>>
    BY <1>1 DEF Enters
  <2>2. PICK at \in {"admit", "clear", "data", "leave"} : Goto(c, at)
    BY <1>1 DEF Enters
  <2>3. call[c].at = "enter"
    BY <1>1 DEF Enters
  <2> QED
    BY <1>1, <2>1, <2>2, <2>3, GotoFields DEF Parts, Whole, Keeps
<1>2. CASE Admits(c)
  <2>1. UNCHANGED <<configured, worker_created, installed_signal, worker_running>>
        /\ call[c].at = "admit"
    BY <1>2 DEF Admits
  <2>2. ASSUME NEW at \in {"leave", "data"}, Goto(c, at) PROVE Parts(c)'
    BY <2>1, <2>2, GotoFields DEF Parts, Whole
  <2>3. CASE /\ call[c].op = "configure"
             /\ call' = [call EXCEPT ![c].ours = Ours(c), ![c].at = IF Ours(c) THEN "stop" ELSE "clear"]
    <3> DEFINE ours == Ours(c)
    <3>1. ours \in BOOLEAN
      BY DEF Ours
    <3>2. ours => installed_signal = call[c].sig
      BY DEF Ours
    <3>3. call' = [call EXCEPT ![c].ours = ours, ![c].at = IF ours THEN "stop" ELSE "clear"]
      BY <2>3
    <3> HIDE DEF ours
    <3>4. /\ call'[c].at = IF ours THEN "stop" ELSE "clear"
          /\ call'[c].op = "configure" /\ call'[c].sig = call[c].sig
          /\ call'[c].ours = ours /\ call'[c].failed = call[c].failed
      BY <1>0, <2>3, <3>3 DEF CallShapes, Shape
    <3>5. ~call[c].failed
      BY <2>1 DEF Parts
    <3> QED
      BY <2>1, <2>3, <3>1, <3>2, <3>4, <3>5 DEF Parts, Whole, Keeps
  <2> QED
    BY <1>2, <2>2, <2>3 DEF Admits
<1>3. CASE Clears(c)
  <2>1. UNCHANGED <<configured, worker_created, worker_running>> /\ installed_signal' = None
        /\ call[c].at = "clear"
    BY <1>3 DEF Clears
  <2>2. PICK at \in {"stop", "ask"} : /\ call' = [call EXCEPT ![c].number = installed_signal, ![c].at = at]
                                      /\ at = "ask" => installed_signal # None
    BY <1>3 DEF Clears
  <2>3. /\ call'[c].at = at /\ call'[c].op = call[c].op /\ call'[c].sig = call[c].sig
        /\ call'[c].number = installed_signal
        /\ call'[c].ours = call[c].ours /\ call'[c].failed = call[c].failed
    BY <1>0, <2>2 DEF CallShapes, Shape
  <2>4. installed_signal # None => installed_signal \in Signals
    BY DEF Shape
  <2> QED
    BY <2>1, <2>2, <2>3, <2>4 DEF Parts, Keeps
<1>4. CASE Asks(c) \/ Restores(c)
  <2>1. UNCHANGED <<configured, worker_created, installed_signal, worker_running>>
        /\ call[c].at \in {"ask", "restore"}
    BY <1>4 DEF Asks, Restores
  <2>2. \/ \E at \in {"restore", "stop"} : Goto(c, at)
        \/ Fails(c, "stop")
    BY <1>4 DEF Asks, Restores, Undoes, Goto, Fails
  <2>3. ASSUME NEW at \in {"restore", "stop"}, Goto(c, at) PROVE Parts(c)'
    BY <2>1, <2>3, GotoFields DEF Parts, Keeps
  <2>4. CASE Fails(c, "stop")
    BY <2>1, <2>4, FailFields DEF Parts, Keeps
  <2> QED
    BY <2>2, <2>3, <2>4
<1>5. CASE Stops(c)
  <2>1. UNCHANGED <<configured, worker_created, installed_signal>> /\ ~worker_running'
        /\ call[c].at = "stop" /\ Goto(c, "join")
    BY <1>5 DEF Stops
  <2> QED
    BY <2>1, GotoFields DEF Parts, Keeps
<1>6. CASE Joins(c)
  <2>1. UNCHANGED <<configured, worker_running, installed_signal>> /\ ~worker_created'
        /\ call[c].at = "join" /\ Goto(c, "unlatch")
    BY <1>6 DEF Joins
  <2> QED
    BY <2>1, GotoFields DEF Parts, Keeps
<1>7. CASE Unlatches(c)
  <2>1. UNCHANGED <<worker_created, worker_running, installed_signal>> /\ configured' = None
        /\ call[c].at = "unlatch"
    BY <1>7 DEF Unlatches
  <2>2. PICK at \in {"spawn", "data", "leave"} :
          /\ Goto(c, at)
          /\ at = "spawn" <=> (call[c].op = "configure" /\ ~call[c].failed)
    BY <1>7 DEF Unlatches
  <2>3. ~worker_created /\ ~worker_running /\ installed_signal = IF Keeps(c) THEN call[c].sig ELSE None
    BY <2>1 DEF Parts
  <2>4. at # "spawn" => ~Keeps(c)
    BY <2>2 DEF Parts, Keeps
  <2> QED
    BY <2>1, <2>2, <2>3, <2>4, GotoFields DEF Parts, Whole, Keeps
<1>8. CASE Spawns(c)
  <2>1. installed_signal' = installed_signal /\ worker_running' /\ configured' = call[c].cfg
        /\ call[c].at = "spawn"
    BY <1>8 DEF Spawns
  <2>2. call[c].op = "configure" /\ call[c].cfg # None /\ call[c].sig \in Signals
        /\ call[c].sig # None
    BY <2>1, NoneAssumption DEF Prepared, Parts
  <2>3. \/ worker_created' /\ Goto(c, IF call[c].ours THEN "leave" ELSE "install")
        \/ Fails(c, "clear")
    BY <1>8 DEF Spawns, GivesBack, Fails
  <2>4. CASE worker_created' /\ Goto(c, IF call[c].ours THEN "leave" ELSE "install")
    BY <2>1, <2>2, <2>4, GotoFields DEF Parts, Whole, Keeps
  <2>5. CASE Fails(c, "clear")
    BY <2>1, <2>2, <2>5, FailFields DEF Parts, Keeps
  <2> QED
    BY <2>3, <2>4, <2>5
<1>9. CASE Installs(c)
  <2>1. UNCHANGED <<configured, worker_created, worker_running>> /\ installed_signal' = call[c].sig
        /\ call[c].at = "install" /\ Goto(c, "act")
    BY <1>9 DEF Installs
  <2> QED
    BY <2>1, GotoFields DEF Parts
<1>10. CASE Acts(c)
  <2>1. UNCHANGED <<configured, worker_created, worker_running>> /\ call[c].at = "act"
    BY <1>10 DEF Acts
  <2>2. call[c].sig \in Signals /\ call[c].sig # None
    BY <2>1, NoneAssumption DEF Course, Parts
  <2>3. \/ installed_signal' = installed_signal /\ Goto(c, "leave")
        \/ Fails(c, "clear")
    BY <1>10 DEF Acts, GivesBack, Fails
  <2>4. CASE installed_signal' = installed_signal /\ Goto(c, "leave")
    BY <2>1, <2>2, <2>4, GotoFields DEF Parts, Whole
  <2>5. CASE Fails(c, "clear")
    BY <2>1, <2>2, <2>5, FailFields DEF Parts, Keeps
  <2> QED
    BY <2>3, <2>4, <2>5
<1>11. CASE Data(c)
  <2>1. UNCHANGED <<configured, worker_created, worker_running, installed_signal>>
        /\ call[c].at = "data" /\ Goto(c, "leave")
    BY <1>11 DEF Data
  <2> QED
    BY <2>1, GotoFields DEF Parts, Whole
<1> QED
  BY <1>1, <1>2, <1>3, <1>4, <1>5, <1>6, <1>7, <1>8, <1>9, <1>10, <1>11 DEF CallerStep

\* While a caller takes its steps the others wait, and so have no part in the configuration.
LEMMA OthersWait ==
  ASSUME Shape, MutexInv, NEW c \in Callers, CallerStep(c), NEW d \in Callers \ {c}
  PROVE  call'[d] = call[d] /\ Waits(d)
<1>1. call'[d] = call[d]
  BY CallerEffect
<1>2. ~Waits(c) \/ control_mutex = None
  BY DEF CallerStep, Enters, Admits, Clears, Asks, Restores, Stops, Joins, Unlatches, Spawns,
     Installs, Acts, Data, Leaves, Waits, CallAt
<1> QED
  BY <1>1, <1>2, NoneAssumption DEF MutexInv

\* A caller that takes a step holds the mutex after it, unless it leaves.
LEMMA HolderStays ==
  ASSUME Shape, MutexInv, NEW c \in Callers, CallerStep(c), ~Leaves(c)
  PROVE  control_mutex' = c /\ (Enters(c) => control_mutex = None)
<1>1. CASE Enters(c)
  BY <1>1 DEF Enters
<1>2. CASE ~Enters(c)
  <2>1. control_mutex' = control_mutex
    BY <1>2 DEF CallerStep, Admits, Clears, Asks, Restores, Stops, Joins, Unlatches, Spawns,
       Installs, Acts, Data
  <2>2. ~Waits(c)
    BY <1>2 DEF CallerStep, Admits, Clears, Asks, Restores, Stops, Joins, Unlatches, Spawns,
       Installs, Acts, Data, Waits, CallAt
  <2> QED
    BY <1>2, <2>1, <2>2 DEF MutexInv
<1> QED
  BY <1>1, <1>2

\* Where a new call stands.
LEMMA CallBegins ==
  ASSUME Shape, NEW c \in Callers, Calls(c)
  PROVE  /\ call'[c].at = "enter" /\ call'[c].op # "none" /\ call[c].op = "none"
         /\ ~call'[c].ours /\ ~call'[c].failed
         /\ call'[c].op = "configure" => call'[c].sig \in Signals
         /\ \A d \in Callers \ {c} : call'[d] = call[d]
         /\ UNCHANGED <<atomics, config, control_mutex, worker, disposition, previous_action,
                        faults>>
  BY DEF Calls, Shape, Idle, CallerUnchanged, actions

\* Every step keeps the configuration whole where it must be.
LEMMA WholeStep ==
  Shape /\ MutexInv /\ OwnInv /\ SessionInv /\ WholeInv /\ [Next]_vars => WholeInv'
<1> SUFFICES ASSUME Shape, MutexInv, OwnInv, SessionInv, WholeInv, [Next]_vars PROVE WholeInv'
  OBVIOUS
<1>0. ASSUME UNCHANGED <<call, control_mutex, configured, worker_created, installed_signal,
                         worker_running>>, worker_running /\ Alive => Alive'
      PROVE  WholeInv'
  BY <1>0 DEF WholeInv, Parts, Whole, Keeps, At, Op
<1>1. CASE WorkerStep \/ DeadlinePasses
  <2>1. worker_running' = worker_running
    BY <1>1 DEF WorkerStep, DeadlinePasses, Tests, Takes, Opens, Captures, Copies, Encodes, Flushes,
       Closes, Publishes, atomics
  <2> QED
    BY <1>0, <1>1, <2>1, WorkerEffect, WorkerLives
<1>2. CASE (\E h \in Handlers : Delivered(h) \/ Compares(h) \/ Latches(h)) \/ AppSigaction
  BY <1>0, <1>2 DEF Delivered, Compares, Latches, AppSigaction, config, atomics, Alive
<1>3. ASSUME NEW c \in Callers, Calls(c) PROVE WholeInv'
  <2>1. UNCHANGED <<configured, worker_created, installed_signal, worker_running, control_mutex,
                    worker>>
    BY <1>3, CallBegins DEF config, atomics
  <2>2. Parts(c)'
    BY <1>3, CallBegins DEF Parts, At, Op
  <2>3. \A d \in Callers \ {c} : Parts(d)'
    BY <1>3, <2>1, CallBegins DEF WholeInv, Parts, Whole, Keeps, At, Op
  <2> QED
    BY <2>1, <2>2, <2>3 DEF WholeInv, Whole, Alive
<1>4. ASSUME NEW c \in Callers, CallerStep(c) PROVE WholeInv'
  <2>1. \A d \in Callers \ {c} : Parts(d)'
    BY <1>4, OthersWait DEF WholeInv, Parts, Keeps, At, Op, Waits
  <2>2. Parts(c)
    BY DEF WholeInv
  <2>3. CASE Leaves(c)
    <3>1. /\ call[c].at = "leave" /\ call'[c] = Idle
          /\ UNCHANGED <<configured, worker_created, installed_signal, worker_running, worker>>
      BY <2>3 DEF Leaves, Leave, CallAt, config, atomics, Shape, CallerUnchanged
    <3>2. Whole'
      BY <2>2, <3>1 DEF Parts, At, Whole
    <3>3. Parts(c)'
      BY <3>1 DEF Parts, At, Op, Idle
    <3>4. (worker_created /\ worker_running => Alive)'
      BY <3>1 DEF WholeInv, Alive
    <3> QED
      BY <2>1, <3>2, <3>3, <3>4 DEF WholeInv
  <2>4. CASE ~Leaves(c)
    <3>1. control_mutex' # None
      BY <1>4, <2>4, HolderStays, NoneAssumption
    <3>2. Parts(c)'
      BY <1>4, <2>2, <2>4, HolderStays, PartsStep DEF WholeInv, OwnInv, SessionInv
    <3>3. (worker_created /\ worker_running => Alive)'
      <4>1. CASE Spawns(c)
        <5>1. (worker' = worker /\ worker_created' = worker_created /\ call[c].at = "spawn")
              \/ worker'.at = "top"
          BY <4>1 DEF Spawns, NoWorker, CallAt
        <5>2. call[c].at = "spawn" => ~worker_created
          BY <2>2 DEF Parts, At
        <5> QED
          BY <5>1, <5>2 DEF Alive
      <4>2. CASE ~Spawns(c)
        <5>1. worker' = worker
          BY <1>4, <4>2 DEF CallerStep, Enters, Admits, Clears, Asks, Restores, Stops, Joins,
             Unlatches, Installs, Acts, Data, Leaves, CallerUnchanged
        <5>2. worker_running' = worker_running \/ worker_running' = FALSE
          BY <1>4, <4>2 DEF CallerStep, Enters, Admits, Clears, Asks, Restores, Stops, Joins,
             Unlatches, Installs, Acts, Data, Leaves, atomics
        <5>3. worker_created' = worker_created \/ worker_created' = FALSE
          BY <1>4, <4>2 DEF CallerStep, Enters, Admits, Clears, Asks, Restores, Stops, Joins,
             Unlatches, Installs, Acts, Data, Leaves, config
        <5> QED
          BY <5>1, <5>2, <5>3 DEF WholeInv, Alive
      <4> QED
        BY <4>1, <4>2
    <3> QED
      BY <2>1, <3>1, <3>2, <3>3 DEF WholeInv
  <2> QED
    BY <2>3, <2>4
<1>5. CASE UNCHANGED vars
  BY <1>0, <1>5 DEF vars, config, atomics, Alive
<1> QED
  BY <1>1, <1>2, <1>3, <1>4, <1>5 DEF Next

-----------------------------------------------------------------------------
(***************************************************************************)
(* The types of what the records do not hold.                              *)
(***************************************************************************)
Invocations == [at : {"entered", "passed", "done"}, sig : Signals]
Sorts == /\ worker_running \in BOOLEAN /\ worker_created \in BOOLEAN /\ session_active \in BOOLEAN
         /\ control_mutex \in Callers \cup {None} /\ data_mutex \in {None, "worker"}
         /\ session \in {"down", "reset", "up", "suspended", "closing"}
         /\ configured \in MaybeConfigured
         /\ disposition \in [Signals -> Dispositions] /\ previous_action \in Dispositions
         /\ handler \in [Handlers -> Invocations \cup {None}]
         /\ faults \in Nat /\ changes \in Nat

\* Every step keeps them.
LEMMA SortsStep ==
  Shape /\ SessionInv /\ WholeInv /\ Sorts /\ [Next]_vars => Sorts'
<1> SUFFICES ASSUME Shape, SessionInv, WholeInv, Sorts, [Next]_vars PROVE Sorts'
  OBVIOUS
<1>1. CASE WorkerStep \/ DeadlinePasses
  <2>1. UNCHANGED <<control_mutex, session, session_active, configured, worker_created>>
    BY <1>1, WorkerEffect
  <2>2. UNCHANGED <<worker_running, disposition, previous_action, handler, faults, changes>>
    BY <1>1 DEF WorkerStep, DeadlinePasses, Tests, Takes, Opens, Captures, Copies, Encodes, Flushes,
       Closes, Publishes, WorkerUnchanged, atomics, actions, limits
  <2>3. data_mutex' \in {data_mutex, None, "worker"}
    BY <1>1 DEF WorkerStep, DeadlinePasses, Tests, Takes, Opens, Captures, Copies, Encodes, Flushes,
       Closes, Publishes
  <2>4. data_mutex' \in {None, "worker"}
    BY <2>3 DEF Sorts
  <2> QED
    BY <2>1, <2>2, <2>4 DEF Sorts
<1>2. ASSUME NEW h \in Handlers, Delivered(h) \/ Compares(h) \/ Latches(h) PROVE Sorts'
  <2>1. UNCHANGED <<control_mutex, session, session_active, config, actions, data_mutex, limits,
                    worker_running>>
    BY <1>2 DEF Delivered, Compares, Latches, atomics
  <2>2. handler' \in [Handlers -> Invocations \cup {None}]
    <3>1. ASSUME Delivered(h) PROVE handler' \in [Handlers -> Invocations \cup {None}]
      BY <3>1 DEF Delivered, Sorts, Invocations
    <3>2. ASSUME handler[h] # None, NEW at \in {"passed", "done"},
                 handler' = [handler EXCEPT ![h].at = at]
          PROVE  handler' \in [Handlers -> Invocations \cup {None}]
      <4>1. handler[h] \in Invocations
        BY <3>2 DEF Sorts
      <4>2. [handler[h] EXCEPT !.at = at] \in Invocations
        BY <4>1 DEF Invocations
      <4> QED
        BY <3>2, <4>2 DEF Sorts
    <3> QED
      BY <1>2, <3>1, <3>2 DEF Compares, Latches
  <2> QED
    BY <2>1, <2>2 DEF Sorts, config, actions, limits
<1>3. ASSUME NEW c \in Callers, Calls(c) PROVE Sorts'
  <2>1. UNCHANGED <<control_mutex, session_active, config, actions, data_mutex, faults, changes,
                    handler, worker_running>>
    BY <1>3 DEF Calls, CallerUnchanged, atomics
  <2>2. session' \in {session, "reset", "up", "suspended", "closing"}
    BY <1>3 DEF Calls, SessionBegins
  <2> QED
    BY <2>1, <2>2 DEF Sorts, config, actions
<1>4. ASSUME NEW c \in Callers, CallerStep(c) PROVE Sorts'
  <2> USE <1>4
  <2>1. worker_running' \in {worker_running, TRUE, FALSE}
    BY DEF CallerStep, Enters, Admits, Clears, Asks, Restores, Stops, Joins, Unlatches, Spawns,
       Installs, Acts, Data, Leaves, atomics
  <2>2. worker_created' \in {worker_created, TRUE, FALSE}
    BY DEF CallerStep, Enters, Admits, Clears, Asks, Restores, Stops, Joins, Unlatches, Spawns,
       Installs, Acts, Data, Leaves, config
  <2>3. session_active' \in {session_active, TRUE, FALSE}
    BY DEF CallerStep, Enters, Admits, Clears, Asks, Restores, Stops, Joins, Unlatches, Spawns,
       Installs, Acts, Data, Leaves
  <2>4. control_mutex' \in {control_mutex, c, None}
    BY DEF CallerStep, Enters, Admits, Clears, Asks, Restores, Stops, Joins, Unlatches, Spawns,
       Installs, Acts, Data, Leaves, Leave
  <2>5. session' \in {session, "down"} /\ data_mutex' = data_mutex
    BY DEF CallerStep, Enters, Admits, Clears, Asks, Restores, Stops, Joins, Unlatches, Spawns,
       Installs, Acts, Data, Leaves
  <2>6. configured' \in {configured, None, call[c].cfg}
    BY DEF CallerStep, Enters, Admits, Clears, Asks, Restores, Stops, Joins, Unlatches, Spawns,
       Installs, Acts, Data, Leaves, config
  <2>7. call[c].cfg \in MaybeConfigured
    BY DEF Shape, CallShapes
  <2>8. \/ UNCHANGED <<disposition, previous_action>>
        \/ /\ disposition' = [disposition EXCEPT ![call[c].number] = previous_action]
           /\ UNCHANGED previous_action
        \/ Acts(c)
    BY DEF CallerStep, Enters, Admits, Clears, Asks, Restores, Stops, Joins, Unlatches, Spawns,
       Installs, Data, Leaves, actions
  <2>9. disposition' \in [Signals -> Dispositions] /\ previous_action' \in Dispositions
    <3>1. CASE Acts(c)
      <4>1. \/ UNCHANGED <<disposition, previous_action>>
            \/ /\ previous_action' = disposition[call[c].sig]
               /\ disposition' = [disposition EXCEPT ![call[c].sig] = "snapshot"]
        BY <3>1 DEF Acts, actions
      <4>2. call[c].sig \in Signals
        BY <3>1 DEF Acts, CallAt, SessionInv, Course, WholeInv, Parts
      <4> QED
        BY <4>1, <4>2 DEF Sorts, Dispositions
    <3>2. CASE ~Acts(c)
      BY <2>8, <3>2 DEF Sorts, Dispositions
    <3> QED
      BY <3>1, <3>2
  <2>10. UNCHANGED <<handler, changes>>
    BY DEF CallerStep, Enters, Admits, Clears, Asks, Restores, Stops, Joins, Unlatches, Spawns,
       Installs, Acts, Data, Leaves, CallerUnchanged, limits
  <2>11. faults' \in {faults, faults + 1}
    BY DEF CallerStep, Enters, Admits, Clears, Asks, Restores, Stops, Joins, Unlatches, Spawns,
       Installs, Acts, Data, Leaves, limits
  <2>12. faults' \in Nat
    BY <2>11 DEF Sorts
  <2>13. worker_running' \in BOOLEAN /\ worker_created' \in BOOLEAN /\ session_active' \in BOOLEAN
    BY <2>1, <2>2, <2>3, Zenon DEF Sorts
  <2>14. control_mutex' \in Callers \cup {None}
    BY <2>4 DEF Sorts
  <2> QED
    BY <2>5, <2>6, <2>7, <2>9, <2>10, <2>12, <2>13, <2>14 DEF Sorts, MaybeConfigured
<1>5. CASE AppSigaction
  <2>1. UNCHANGED <<worker_running, worker_created, session_active, control_mutex, data_mutex,
                    session, configured, previous_action, handler, faults>> /\ changes' = changes + 1
    BY <1>5 DEF AppSigaction, config, atomics
  <2>2. disposition' \in [Signals -> Dispositions]
    BY <1>5 DEF AppSigaction, Sorts, Dispositions
  <2> QED
    BY <2>1, <2>2 DEF Sorts
<1>6. CASE UNCHANGED vars
  BY <1>6 DEF vars, Sorts, config, actions, atomics, limits
<1> QED
  BY <1>1, <1>2, <1>3, <1>4, <1>5, <1>6 DEF Next

-----------------------------------------------------------------------------
(***************************************************************************)
(* The dispositions: what the library took it gives back, and it takes     *)
(* nothing that the application holds.                                     *)
(***************************************************************************)

\* What a caller's step changes of the dispositions.
LEMMA ActionEffect ==
  ASSUME NEW c \in Callers, CallerStep(c)
  PROVE  /\ Restores(c) \/ Acts(c) \/ (disposition' = disposition /\ previous_action' = previous_action)
         /\ Asks(c) \/ Restores(c) \/ Spawns(c) \/ Acts(c) \/ faults' = faults
         /\ Clears(c) \/ Installs(c) \/ Acts(c) \/ installed_signal' = installed_signal
<1>1. Restores(c) \/ Acts(c) \/ (disposition' = disposition /\ previous_action' = previous_action)
  BY DEF CallerStep, Enters, Admits, Clears, Asks, Stops, Joins, Unlatches, Spawns, Installs, Data,
     Leaves, actions
<1>2. Asks(c) \/ Restores(c) \/ Spawns(c) \/ Acts(c) \/ faults' = faults
  BY DEF CallerStep, Enters, Admits, Clears, Stops, Joins, Unlatches, Installs, Data, Leaves, limits
<1>3. Clears(c) \/ Installs(c) \/ Acts(c) \/ installed_signal' = installed_signal
  BY DEF CallerStep, Enters, Admits, Asks, Restores, Stops, Joins, Unlatches, Spawns, Data, Leaves,
     atomics
<1> QED
  BY <1>1, <1>2, <1>3

\* What a step changes of the call's signals.
LEMMA SignalFields ==
  ASSUME Shape, NEW c \in Callers, CallerStep(c), ~Leaves(c)
  PROVE  /\ call'[c].sig = call[c].sig
         /\ ~Clears(c) => call'[c].number = call[c].number
         /\ Clears(c) => call'[c].number = installed_signal
         /\ ~Admits(c) => call'[c].ours = call[c].ours
         /\ Admits(c) /\ call'[c].at \in Taking /\ ~call'[c].ours
              => disposition[call[c].sig] = "default"
<1> DEFINE Same == /\ call'[c].sig = call[c].sig /\ call'[c].number = call[c].number
                   /\ call'[c].ours = call[c].ours
<1>0. call[c] \in CallShapes /\ call \in [Callers -> CallShapes]
  BY DEF Shape
<1>1. ASSUME NEW at, Goto(c, at) PROVE Same
  BY <1>1, GotoFields
<1>2. ASSUME NEW at, Fails(c, at) PROVE Same
  BY <1>2, FailFields
<1>3. CASE Admits(c)
  <2>1. ~Clears(c)
    BY <1>3 DEF Admits, Clears, CallAt
  <2>2. ASSUME NEW at \in {"leave", "data"}, Goto(c, at) PROVE Same /\ call'[c].at \notin Taking
    BY <2>2, GotoFields DEF Taking
  <2>3. ASSUME Ours(c) \/ disposition[call[c].sig] = "default",
               call' = [call EXCEPT ![c].ours = Ours(c), ![c].at = IF Ours(c) THEN "stop" ELSE "clear"]
        PROVE  /\ call'[c].sig = call[c].sig /\ call'[c].number = call[c].number
               /\ ~call'[c].ours => disposition[call[c].sig] = "default"
    BY <1>0, <2>3 DEF CallShapes
  <2> QED
    BY <1>3, <2>1, <2>2, <2>3 DEF Admits
<1>4. CASE Clears(c)
  <2>1. ~Admits(c)
    BY <1>4 DEF Admits, Clears, CallAt
  <2>2. \E at \in CallSteps : call' = [call EXCEPT ![c].number = installed_signal, ![c].at = at]
    BY <1>4 DEF Clears, CallSteps
  <2> QED
    BY <1>0, <1>4, <2>1, <2>2 DEF CallShapes
<1>5. CASE ~Admits(c) /\ ~Clears(c)
  <2>1. (\E at \in CallSteps : Goto(c, at)) \/ (\E at \in CallSteps : Fails(c, at))
    BY <1>5 DEF CallerStep, Enters, Asks, Restores, Stops, Joins, Unlatches, Spawns, Installs, Acts,
       Data, Undoes, GivesBack, Goto, Fails, CallSteps
  <2> QED
    BY <1>1, <1>2, <1>5, <2>1
<1> QED
  BY <1>3, <1>4, <1>5

\* A call that will take a signal did so before the step, or has found it default.
LEMMA FindsStep ==
  ASSUME Shape, NEW c \in Callers, CallerStep(c), Parts(c), Course(c), Finds(c)'
  PROVE  /\ ~Leaves(c) /\ call'[c].sig = call[c].sig /\ call[c].sig \in Signals
         /\ Finds(c) \/ (Admits(c) /\ disposition[call[c].sig] = "default")
<1>1. ~Leaves(c)
  <2>1. Leaves(c) => call'[c] = Idle
    BY DEF Leaves, Leave, Shape
  <2> QED
    BY <2>1 DEF Finds, Idle, Op
<1>2. call'[c].op = call[c].op /\ call'[c].op = "configure"
  BY <1>1, Routes DEF Finds, Op
<1>3. call'[c].sig = call[c].sig /\ call[c].sig \in Signals
  BY <1>1, <1>2, SignalFields DEF Parts, Op
<1>4. call'[c].at \in Taking /\ ~call'[c].ours
  BY DEF Finds, At
<1>5. CASE Admits(c)
  BY <1>1, <1>3, <1>4, <1>5, SignalFields
<1>6. CASE ~Admits(c)
  <2>1. call'[c].ours = call[c].ours
    BY <1>1, <1>6, SignalFields
  <2>2. call[c].at \in Taking
    BY <1>1, <1>2, <1>4, <1>6, Routes DEF Goes, Taking, Op
  <2> QED
    BY <1>1, <1>2, <1>3, <1>4, <2>1, <2>2 DEF Finds, At, Op
<1> QED
  BY <1>1, <1>3, <1>5, <1>6

\* Every step keeps what is to be given back.
LEMMA ReturnStep ==
  Shape /\ MutexInv /\ SessionInv /\ WholeInv /\ Sorts /\ ReturnInv /\ [Next]_vars => ReturnInv'
<1> SUFFICES ASSUME Shape, MutexInv, SessionInv, WholeInv, Sorts, ReturnInv, [Next]_vars
             PROVE  ReturnInv'
  OBVIOUS
<1>0. ASSUME UNCHANGED <<call, disposition, previous_action, installed_signal, faults>>
      PROVE  ReturnInv'
  BY <1>0 DEF ReturnInv, Finds, At, Op
<1>1. CASE WorkerStep \/ DeadlinePasses
  <2>1. UNCHANGED <<disposition, previous_action, faults>>
    BY <1>1 DEF WorkerStep, DeadlinePasses, Tests, Takes, Opens, Captures, Copies, Encodes, Flushes,
       Closes, Publishes, WorkerUnchanged, actions, limits
  <2> QED
    BY <1>0, <1>1, <2>1, WorkerEffect
<1>2. CASE \E h \in Handlers : Delivered(h) \/ Compares(h) \/ Latches(h)
  BY <1>0, <1>2 DEF Delivered, Compares, Latches, actions, limits, atomics
<1>3. ASSUME NEW c \in Callers, Calls(c) PROVE ReturnInv'
  <2>1. UNCHANGED <<disposition, previous_action, installed_signal, faults>>
        /\ call'[c].at = "enter" /\ \A d \in Callers \ {c} : call'[d] = call[d]
    BY <1>3, CallBegins DEF atomics
  <2>2. \A d \in Callers : Finds(d)' => Finds(d) /\ call'[d].sig = call[d].sig
    BY <2>1 DEF Finds, At, Op, Taking
  <2>3. \A d \in Callers : At(d, {"ask", "restore"}) => At(d, {"ask", "restore"})'
                                                       /\ call'[d].number = call[d].number
    BY <1>3, <2>1, CallBegins DEF At, WholeInv, Parts, Op
  <2> QED
    BY <2>1, <2>2, <2>3 DEF ReturnInv
<1>4. ASSUME NEW c \in Callers, CallerStep(c) PROVE ReturnInv'
  <2>1. Parts(c) /\ Course(c)
    BY DEF WholeInv, SessionInv
  <2>2. \A d \in Callers \ {c} : ~Finds(d)' /\ ~At(d, {"ask", "restore"})
    BY <1>4, OthersWait DEF Finds, At, Taking, Waits
  <2>3. Acts(c) => call[c].sig \in Signals /\ Finds(c)
    BY <2>1 DEF Acts, CallAt, Parts, Course, Finds, At, Op, Taking
  <2>4. Acts(c) => disposition[call[c].sig] # "snapshot"
    BY <2>3 DEF ReturnInv
  <2>5. previous_action' # "snapshot"
    <3>1. CASE Acts(c)
      BY <2>4, <3>1 DEF Acts, ReturnInv, actions
    <3>2. CASE Restores(c)
      BY <3>2 DEF Restores, ReturnInv
    <3> QED
      BY <1>4, <3>1, <3>2, ActionEffect DEF ReturnInv
  <2>6. ASSUME Finds(c)' PROVE disposition'[call'[c].sig] # "snapshot"
    <3>1. call'[c].sig = call[c].sig /\ call[c].sig \in Signals
          /\ disposition[call[c].sig] # "snapshot"
      BY <1>4, <2>1, <2>6, FindsStep DEF ReturnInv
    <3>2. CASE Acts(c)
      <4>1. Goto(c, "leave") \/ disposition' = disposition
        BY <3>2 DEF Acts, actions
      <4>2. Goto(c, "leave") => call'[c].at = "leave"
        BY GotoFields
      <4> QED
        BY <2>6, <3>1, <4>1, <4>2 DEF Finds, At, Taking
    <3>3. CASE Restores(c)
      <4>1. \/ disposition' = disposition
            \/ disposition' = [disposition EXCEPT ![call[c].number] = previous_action]
        BY <3>3 DEF Restores
      <4> QED
        BY <3>1, <4>1 DEF Sorts, ReturnInv
    <3> QED
      BY <1>4, <3>1, <3>2, <3>3, ActionEffect
  <2>7. ASSUME faults' = 0, NEW s \in Signals, disposition'[s] = "snapshot"
        PROVE  \/ s = installed_signal'
               \/ \E d \in Callers : At(d, {"ask", "restore"})' /\ call'[d].number = s
    <3>0. faults = 0 /\ faults' = faults
      <4>1. faults' = faults \/ faults' = faults + 1
        BY <1>4 DEF CallerStep, Enters, Admits, Clears, Asks, Restores, Stops, Joins, Unlatches,
           Spawns, Installs, Acts, Data, Leaves, limits
      <4> QED
        BY <2>7, <4>1 DEF Sorts
    <3>f. faults' # faults + 1
      BY <3>0 DEF Sorts
    <3>1. ASSUME disposition[s] = "snapshot"
          PROVE  s = installed_signal \/ (At(c, {"ask", "restore"}) /\ call[c].number = s)
      BY <2>2, <3>0, <3>1 DEF ReturnInv
    <3>n. s # None
      BY NoneAssumption
    <3>2. CASE Clears(c)
      <4>1. disposition' = disposition /\ call[c].at = "clear" /\ ~Leaves(c)
        BY <3>2 DEF Clears, actions, CallAt, Leaves
      <4>2. s = installed_signal
        BY <2>7, <3>1, <4>1 DEF At
      <4>3. call'[c].number = installed_signal
        BY <1>4, <3>2, <4>1, SignalFields
      <4>4. call'[c].at = "ask"
        BY <3>2, <3>n, <4>2 DEF Clears, Shape
      <4> QED
        BY <4>2, <4>3, <4>4 DEF At
    <3>3. CASE Asks(c)
      <4>1. /\ call[c].at = "ask" /\ disposition' = disposition /\ ~Leaves(c) /\ ~Clears(c)
            /\ installed_signal' = installed_signal /\ Goto(c, Undoes(c))
        BY <3>3, <3>f DEF Asks, actions, atomics, CallAt, Leaves, Clears, Goto
      <4>2. call'[c].at = Undoes(c) /\ call'[c].number = call[c].number
        BY <4>1, GotoFields
      <4> QED
        BY <2>7, <3>1, <4>1, <4>2 DEF Undoes, At
    <3>4. CASE Restores(c)
      <4>1. /\ call[c].at = "restore" /\ installed_signal' = installed_signal
            /\ disposition' = [disposition EXCEPT ![call[c].number] = previous_action]
        BY <3>4, <3>f DEF Restores, atomics, CallAt
      <4>2. s # call[c].number
        BY <2>7, <4>1 DEF Sorts, ReturnInv
      <4>3. disposition[s] = "snapshot"
        BY <2>7, <4>1, <4>2 DEF Sorts
      <4> QED
        BY <3>1, <4>1, <4>2, <4>3
    <3>5. CASE Installs(c)
      <4>1. disposition' = disposition /\ call[c].at = "install"
        BY <3>5 DEF Installs, actions, CallAt
      <4>2. installed_signal = None
        BY <2>1, <4>1 DEF Parts, At
      <4> QED
        BY <2>7, <3>1, <3>n, <4>1, <4>2 DEF At
    <3>6. CASE Acts(c)
      <4>1. /\ call[c].at = "act" /\ installed_signal' = installed_signal
            /\ disposition' = [disposition EXCEPT ![call[c].sig] = "snapshot"]
        BY <3>6, <3>f DEF Acts, CallAt
      <4>2. installed_signal = call[c].sig
        BY <2>1, <4>1 DEF Parts, At
      <4>3. s = call[c].sig \/ disposition[s] = "snapshot"
        BY <2>7, <4>1 DEF Sorts
      <4> QED
        BY <3>1, <4>1, <4>2, <4>3 DEF At
    <3>7. CASE ~Clears(c) /\ ~Asks(c) /\ ~Restores(c) /\ ~Installs(c) /\ ~Acts(c)
      <4>1. disposition' = disposition /\ installed_signal' = installed_signal
        BY <1>4, <3>7, ActionEffect
      <4>2. ~At(c, {"ask", "restore"})
        BY <1>4, <3>7 DEF CallerStep, Enters, Admits, Stops, Joins, Unlatches, Spawns, Data, Leaves,
           CallAt, At
      <4> QED
        BY <2>7, <3>1, <4>1, <4>2
    <3> QED
      BY <3>2, <3>3, <3>4, <3>5, <3>6, <3>7
  <2> QED
    BY <2>2, <2>5, <2>6, <2>7 DEF ReturnInv
<1>5. CASE AppSigaction
  <2>1. UNCHANGED <<call, previous_action, installed_signal, faults>>
    BY <1>5 DEF AppSigaction, atomics
  <2>2. \A s \in Signals : disposition'[s] = "snapshot" => disposition[s] = "snapshot"
    BY <1>5 DEF AppSigaction, Sorts
  <2>3. \A d \in Callers : Finds(d) => call[d].sig \in Signals
    BY DEF WholeInv, Parts, Finds
  <2>4. \A d \in Callers : (Finds(d)' <=> Finds(d))
                           /\ (At(d, {"ask", "restore"})' <=> At(d, {"ask", "restore"}))
    BY <2>1 DEF Finds, At, Op
  <2> QED
    BY <2>1, <2>2, <2>3, <2>4 DEF ReturnInv
<1>6. CASE UNCHANGED vars
  BY <1>0, <1>6 DEF vars, actions, limits, atomics
<1> QED
  BY <1>1, <1>2, <1>3, <1>4, <1>5, <1>6 DEF Next

\* Every step keeps the application's part, as long as it waits for the calls to end.
LEMMA KeptStep ==
  Shape /\ MutexInv /\ SessionInv /\ WholeInv /\ Sorts /\ KeptInv /\ [Next]_vars => KeptInv'
<1> SUFFICES ASSUME Shape, MutexInv, SessionInv, WholeInv, Sorts, KeptInv, [Next]_vars, ~AppRaces
             PROVE  KeptInv'
  BY DEF KeptInv
<1>0. ASSUME UNCHANGED <<call, disposition>> PROVE KeptInv'
  BY <1>0 DEF KeptInv, Finds, At, Op
<1>1. CASE WorkerStep \/ DeadlinePasses
  <2>1. disposition' = disposition
    BY <1>1 DEF WorkerStep, DeadlinePasses, Tests, Takes, Opens, Captures, Copies, Encodes, Flushes,
       Closes, Publishes, WorkerUnchanged, actions
  <2> QED
    BY <1>0, <1>1, <2>1, WorkerEffect
<1>2. CASE \E h \in Handlers : Delivered(h) \/ Compares(h) \/ Latches(h)
  BY <1>0, <1>2 DEF Delivered, Compares, Latches, actions
<1>3. ASSUME NEW c \in Callers, Calls(c) PROVE KeptInv'
  <2>1. disposition' = disposition
        /\ call'[c].at = "enter" /\ \A d \in Callers \ {c} : call'[d] = call[d]
    BY <1>3, CallBegins
  <2> QED
    BY <2>1 DEF KeptInv, Finds, At, Op, Taking
<1>4. ASSUME NEW c \in Callers, CallerStep(c) PROVE KeptInv'
  <2>1. Parts(c) /\ Course(c)
    BY DEF WholeInv, SessionInv
  <2>2. \A d \in Callers \ {c} : ~Finds(d)' /\ ~At(d, {"restore"})'
    BY <1>4, OthersWait DEF Finds, At, Taking, Waits
  <2>3. ASSUME Finds(c)' PROVE disposition'[call'[c].sig] = "default"
    <3>1. call'[c].sig = call[c].sig /\ call[c].sig \in Signals
          /\ disposition[call[c].sig] = "default"
      BY <1>4, <2>1, <2>3, FindsStep DEF KeptInv
    <3>2. CASE Acts(c)
      <4>1. Goto(c, "leave") \/ disposition' = disposition
        BY <3>2 DEF Acts, actions
      <4>2. Goto(c, "leave") => call'[c].at = "leave"
        BY GotoFields
      <4> QED
        BY <2>3, <3>1, <4>1, <4>2 DEF Finds, At, Taking
    <3>3. CASE Restores(c)
      <4>1. /\ call[c].at = "restore"
            /\ \/ disposition' = disposition
               \/ disposition' = [disposition EXCEPT ![call[c].number] = previous_action]
        BY <3>3 DEF Restores, CallAt
      <4>2. disposition[call[c].number] = "snapshot"
        BY <4>1 DEF KeptInv, At
      <4> QED
        BY <3>1, <4>1, <4>2 DEF Sorts
    <3> QED
      BY <1>4, <3>1, <3>2, <3>3, ActionEffect
  <2>4. ASSUME At(c, {"restore"})' PROVE disposition'[call'[c].number] = "snapshot"
    <3>1. ~Leaves(c)
      <4>1. Leaves(c) => call'[c] = Idle
        BY DEF Leaves, Leave, Shape
      <4> QED
        BY <2>4, <4>1 DEF At, Idle
    <3>2. Asks(c)
      BY <1>4, <2>4, <3>1, Routes DEF Goes, At
    <3>3. disposition' = disposition /\ (Goto(c, Undoes(c)) \/ Fails(c, "stop"))
      BY <3>2 DEF Asks, actions, Goto, Fails
    <3>4. Goto(c, Undoes(c)) => call'[c].at = Undoes(c) /\ call'[c].number = call[c].number
      BY GotoFields
    <3>5. Fails(c, "stop") => call'[c].at = "stop"
      BY FailFields
    <3> QED
      BY <2>4, <3>3, <3>4, <3>5 DEF At, Undoes
  <2> QED
    BY <2>2, <2>3, <2>4 DEF KeptInv
<1>5. CASE AppSigaction
  <2>1. control_mutex = None /\ call' = call
    BY <1>5 DEF AppSigaction
  <2>2. \A d \in Callers : Waits(d)
    BY <2>1, NoneAssumption DEF MutexInv
  <2> QED
    BY <2>1, <2>2 DEF KeptInv, Finds, At, Taking, Waits
<1>6. CASE UNCHANGED vars
  BY <1>0, <1>6 DEF vars, actions
<1> QED
  BY <1>1, <1>2, <1>3, <1>4, <1>5, <1>6 DEF Next

-----------------------------------------------------------------------------
(***************************************************************************)
(* A capture's units.                                                      *)
(***************************************************************************)
Rest == worker.left + worker.used

\* What each step does with them: the buffer takes one, the sink some, a capture that is
\* given up keeps what it has, and one that ends well has none left.
LEMMA UnitsMove ==
  ASSUME Shape, UnitInv, WorkerStep \/ DeadlinePasses
  PROVE  /\ UnitInv'
         /\ \/ /\ ~InHand /\ InHand' /\ Sending' /\ Rest' = Units
            \/ /\ ~InHand /\ ~InHand'
            \/ /\ Sending /\ Sending' /\ Rest' \in 0..Rest
            \/ /\ Sending /\ worker'.at = "publish" /\ Rest' = Rest
               /\ worker'.failed \/ Rest = 0
            \/ /\ worker.at = "publish" /\ ~InHand'
<1> DEFINE Goal == /\ UnitInv'
                   /\ \/ ~InHand /\ InHand' /\ Sending' /\ Rest' = Units
                      \/ ~InHand /\ ~InHand'
                      \/ Sending /\ Sending' /\ Rest' \in 0..Rest
                      \/ /\ Sending /\ worker'.at = "publish" /\ Rest' = Rest
                         /\ worker'.failed \/ Rest = 0
                      \/ worker.at = "publish" /\ ~InHand'
<1> USE DEF WorkerShapes, WorkerAt, InHand, Sending, Rest
<1>0. /\ worker \in WorkerShapes /\ Units \in Nat /\ Units > 0
      /\ worker.left \in 0..Units /\ worker.used \in 0..Units
      /\ worker.left + worker.used <= Units
      /\ worker.left + worker.used \in Nat
  BY SnapshotAssumption DEF Shape, UnitInv
<1>1. CASE Tests
  <2>1. /\ worker.at = "top" /\ worker'.at \in {"take", "exited"}
        /\ worker'.left = worker.left /\ worker'.used = worker.used
    BY <1>0, <1>1 DEF Tests
  <2> QED
    BY <1>0, <2>1 DEF UnitInv
<1>2. CASE Takes
  <2>1. /\ worker.at = "take"
        /\ \/ /\ worker'.at = "open" /\ worker'.left = Units /\ worker'.used = 0 /\ ~worker'.failed
           \/ /\ worker'.at = "top" /\ worker'.left = worker.left /\ worker'.used = worker.used
    BY <1>0, <1>2 DEF Takes
  <2> QED
    BY <1>0, <2>1 DEF UnitInv
<1>3. CASE Opens
  <2>1. /\ worker.at = "open" /\ worker'.left = worker.left /\ worker'.used = worker.used
        /\ \/ worker'.at = "lock" /\ worker'.failed = worker.failed
           \/ worker'.at = "publish" /\ worker'.failed
    BY <1>0, <1>3 DEF Opens
  <2> QED
    BY <1>0, <2>1 DEF UnitInv
<1>4. CASE Captures
  <2>1. /\ worker.at = "lock" /\ worker'.left = worker.left /\ worker'.used = worker.used
        /\ \/ worker'.at = "copy" /\ worker'.failed = worker.failed
           \/ worker'.at = "close" /\ worker'.failed
    BY <1>0, <1>4 DEF Captures
  <2> QED
    BY <1>0, <2>1 DEF UnitInv
<1>5. CASE Copies
  <2>1. /\ worker.at = "copy" /\ worker'.left = worker.left /\ worker'.used = worker.used
        /\ \/ worker'.at = "encode" /\ worker'.failed = worker.failed
           \/ worker'.at = "close" /\ worker'.failed
    BY <1>0, <1>5 DEF Copies
  <2> QED
    BY <1>0, <2>1 DEF UnitInv
<1>6. CASE Encodes
  <2>1. /\ worker.at = "encode"
        /\ \/ /\ worker'.at \in {"encode", "flush"} /\ worker'.failed = worker.failed
              /\ worker'.left = worker.left - 1 /\ worker'.used = worker.used + 1
              /\ worker'.at = "encode" => worker'.left # 0
           \/ /\ worker'.at = "close" /\ worker'.failed
              /\ worker'.left = worker.left /\ worker'.used = worker.used
    BY <1>0, <1>6 DEF Encodes, Full
  <2>2. worker.left > 0 /\ ~worker.failed
    BY <2>1 DEF UnitInv
  <2> QED
    BY <1>0, <2>1, <2>2 DEF UnitInv
<1>7. CASE Flushes
  <2>1. /\ worker.at = "flush" /\ worker'.left = worker.left /\ ~worker.failed
        /\ \/ \E n \in 1..worker.used :
                /\ worker'.used = worker.used - n /\ worker'.failed = worker.failed
                /\ worker'.at = AfterWrite(worker.used - n)
           \/ worker'.at = "close" /\ worker'.failed /\ worker'.used = worker.used
           \/ worker' = worker
    BY <1>0, <1>7 DEF Flushes, UnitInv
  <2>2. ASSUME NEW n \in 1..worker.used, worker'.used = worker.used - n,
               worker'.failed = worker.failed, worker'.at = AfterWrite(worker.used - n)
        PROVE  Goal
    <3>1. worker'.used \in 0..Units /\ worker.left + worker'.used \in 0..(worker.left + worker.used)
      BY <1>0, <2>2
    <3>2. /\ worker'.at \in {"flush", "close", "encode"}
          /\ worker'.at = "encode" => worker.left # 0
          /\ worker'.at = "close" => worker'.used = 0 /\ worker.left = 0
      BY <2>2, <3>1 DEF AfterWrite
    <3>3. worker'.left = worker.left /\ ~worker'.failed /\ worker.at = "flush"
      BY <2>1, <2>2
    <3>4. UnitInv'
      BY <1>0, <3>1, <3>2, <3>3 DEF UnitInv
    <3>5. Sending /\ Sending' /\ Rest' \in 0..Rest
      BY <3>1, <3>2, <3>3
    <3> QED
      BY <3>4, <3>5
  <2>3. CASE worker'.at = "close" /\ worker'.failed /\ worker'.used = worker.used
    BY <1>0, <2>1, <2>3 DEF UnitInv
  <2>4. CASE worker' = worker
    BY <1>0, <2>1, <2>4 DEF UnitInv
  <2> QED
    BY <2>1, <2>2, <2>3, <2>4
<1>8. CASE Closes
  <2>1. /\ worker.at = "close" /\ worker'.left = worker.left /\ worker'.used = worker.used
        /\ worker'.at = "publish" /\ (worker'.failed \/ ~worker.failed)
    BY <1>0, <1>8 DEF Closes
  <2> QED
    BY <1>0, <2>1 DEF UnitInv
<1>9. CASE Publishes
  <2>1. /\ worker.at = "publish" /\ worker'.left = worker.left /\ worker'.used = worker.used
        /\ worker'.at = "top"
    BY <1>0, <1>9 DEF Publishes
  <2> QED
    BY <1>0, <2>1 DEF UnitInv
<1>10. CASE DeadlinePasses
  <2>1. /\ worker.at \in {"encode", "flush"} /\ worker'.left = worker.left
        /\ worker'.used = worker.used /\ worker'.at = worker.at /\ worker'.failed = worker.failed
    BY <1>0, <1>10 DEF DeadlinePasses
  <2> QED
    BY <1>0, <2>1 DEF UnitInv
<1> QED
  BY <1>1, <1>2, <1>3, <1>4, <1>5, <1>6, <1>7, <1>8, <1>9, <1>10 DEF WorkerStep

\* The callers leave a capture's units alone: a new worker has none yet.
LEMMA UnitStep ==
  Shape /\ OwnInv /\ UnitInv /\ [Next]_vars => UnitInv' /\ [Message!TNext]_(Message!tvars)
<1> SUFFICES ASSUME Shape, OwnInv, UnitInv, [Next]_vars
             PROVE  UnitInv' /\ [Message!TNext]_(Message!tvars)
  OBVIOUS
<1> DEFINE total == IF InHand THEN Units ELSE 0
           delivered == IF InHand THEN Units - worker.left - worker.used ELSE 0
           outcome == IF Sending THEN "open"
                      ELSE IF ~InHand THEN "none" ELSE IF worker.failed THEN "partial" ELSE "whole"
<1>0. /\ Units \in Nat /\ Units > 0 /\ worker.left \in Nat /\ worker.used \in Nat
      /\ worker.left + worker.used <= Units
  BY SnapshotAssumption DEF UnitInv
<1>s. worker'.at = worker.at /\ worker'.left = worker.left /\ worker'.used = worker.used
      /\ worker'.failed = worker.failed => UnitInv' /\ UNCHANGED Message!tvars
  BY DEF UnitInv, Message!tvars, InHand, Sending
<1>1. CASE WorkerStep \/ DeadlinePasses
  <2>1. UnitInv'
    BY <1>1, UnitsMove
  <2>2. /\ worker'.left \in Nat /\ worker'.used \in Nat /\ worker'.left + worker'.used <= Units
    BY <1>0, <2>1 DEF UnitInv
  <2>3. CASE ~InHand /\ InHand' /\ Sending' /\ Rest' = Units
    <3>1. Message!Begin
      BY <1>0, <2>2, <2>3 DEF Message!Begin, Rest, InHand, Sending
    <3> QED
      BY <2>1, <3>1 DEF Message!TNext
  <2>4. CASE ~InHand /\ ~InHand'
    BY <2>1, <2>4 DEF Message!tvars, InHand, Sending
  <2>5. CASE Sending /\ Sending' /\ Rest' \in 0..Rest
    <3>1. Rest' = Rest \/ Rest' < Rest
      BY <1>0, <2>2, <2>5 DEF Rest
    <3>2. CASE Rest' = Rest
      BY <1>0, <2>1, <2>2, <2>5, <3>2 DEF Message!tvars, InHand, Sending, Rest
    <3>3. CASE Rest' < Rest
      <4>1. Message!Deliver
        BY <1>0, <2>2, <2>5, <3>3 DEF Message!Deliver, InHand, Sending, Rest
      <4> QED
        BY <2>1, <4>1 DEF Message!TNext
    <3> QED
      BY <3>1, <3>2, <3>3
  <2>6. CASE /\ Sending /\ worker'.at = "publish" /\ Rest' = Rest
             /\ worker'.failed \/ Rest = 0
    <3>1. CASE worker'.failed
      <4>1. Message!GiveUp
        BY <1>0, <2>2, <2>6, <3>1 DEF Message!GiveUp, InHand, Sending, Rest
      <4> QED
        BY <2>1, <4>1 DEF Message!TNext
    <3>2. CASE ~worker'.failed
      <4>1. worker.left = 0 /\ worker.used = 0 /\ worker'.left = 0 /\ worker'.used = 0
        BY <1>0, <2>2, <2>6, <3>2 DEF Rest
      <4>2. Units - worker.left - worker.used = Units /\ Units - worker'.left - worker'.used = Units
        BY <1>0, <4>1
      <4>3. Sending /\ InHand /\ ~Sending' /\ InHand'
        BY <2>6 DEF Sending, InHand
      <4>4. Message!Complete
        BY <3>2, <4>2, <4>3 DEF Message!Complete
      <4> QED
        BY <2>1, <4>4 DEF Message!TNext
    <3> QED
      BY <3>1, <3>2
  <2>7. CASE worker.at = "publish" /\ ~InHand'
    <3>1. Message!Rest
      BY <2>7 DEF Message!Rest, InHand, Sending
    <3> QED
      BY <2>1, <3>1 DEF Message!TNext
  <2> QED
    BY <1>1, <2>3, <2>4, <2>5, <2>6, <2>7, UnitsMove
<1>2. CASE (\E h \in Handlers : Delivered(h) \/ Compares(h) \/ Latches(h)) \/ AppSigaction
  BY <1>s, <1>2 DEF Delivered, Compares, Latches, AppSigaction
<1>3. ASSUME NEW c \in Callers, Calls(c) \/ CallerStep(c)
      PROVE  UnitInv' /\ [Message!TNext]_(Message!tvars)
  <2>1. CASE worker' = worker
    BY <1>s, <2>1
  <2>2. CASE worker' # worker
    <3>1. Spawns(c)
      BY <1>3, <2>2 DEF CallerStep, Calls, Enters, Admits, Clears, Asks, Restores, Stops, Joins,
         Unlatches, Installs, Acts, Data, Leaves, CallerUnchanged
    <3>2. ~Alive /\ worker'.at = "top" /\ worker'.left = 0 /\ worker'.used = 0 /\ ~worker'.failed
      BY <2>2, <3>1 DEF Spawns, NoWorker, CallAt, OwnInv, Prepared
    <3>3. ~InHand /\ ~Sending /\ ~InHand' /\ ~Sending'
      BY <3>2 DEF Alive, InHand, Sending
    <3> QED
      BY <1>0, <3>2, <3>3 DEF UnitInv, Message!tvars, InHand, Sending
  <2> QED
    BY <2>1, <2>2
<1>4. CASE UNCHANGED vars
  BY <1>s, <1>4 DEF vars
<1> QED
  BY <1>1, <1>2, <1>3, <1>4 DEF Next

-----------------------------------------------------------------------------
(***************************************************************************)
(* Together they are inductive, and the properties follow.                 *)
(***************************************************************************)
IInv == /\ Shape /\ MutexInv /\ OwnInv /\ SessionInv /\ CountInv /\ FontInv
        /\ WholeInv /\ Sorts /\ ReturnInv /\ KeptInv /\ UnitInv

\* The initial state has all of it.
LEMMA InitIInv == Init => IInv /\ Message!TInit
<1> SUFFICES ASSUME Init PROVE IInv /\ Message!TInit
  OBVIOUS
<1> USE DEF Init, Idle, NoWorker
<1>1. Shape
  <2>1. Idle \in CallShapes
    BY DEF CallShapes, CallSteps, MaybeConfigured
  <2>2. NoWorker \in WorkerShapes
    BY DEF WorkerShapes, WorkerSteps, MaybeConfigured
  <2>. QED
    BY <2>1, <2>2 DEF Shape
<1>2. MutexInv
  BY DEF MutexInv, Waits
<1>3. OwnInv
  BY DEF OwnInv, Prepared, Alive, WorkerOwnsConfiguration
<1>4. SessionInv
  BY DEF SessionInv, Course, Done, Cleared, Op, Waits, Lifecycles
<1>5. CountInv
  BY DEF CountInv, Pending, StatusCounts
<1>6. FontInv
  BY DEF FontInv, FontOfFrame
<1>7. WholeInv
  BY DEF WholeInv, Parts, Whole, Op, At, Keeps
<1>8. Sorts
  BY DEF Sorts, MaybeConfigured, Dispositions
<1>9. ReturnInv
  BY DEF ReturnInv, Finds, At, Taking, Op
<1>10. KeptInv
  BY DEF KeptInv, Finds, At, Taking
<1>11. UnitInv
  BY SnapshotAssumption DEF UnitInv, Sending
<1>12. Message!TInit
  BY DEF Message!TInit, InHand, Sending
<1>. QED
  BY <1>1, <1>2, <1>3, <1>4, <1>5, <1>6, <1>7, <1>8, <1>9, <1>10, <1>11, <1>12 DEF IInv

\* It holds in every reachable state.
THEOREM Invariance == Spec => []IInv
<1>1. IInv /\ [Next]_vars => IInv'
  BY ShapeStep, MutexStep, OwnStep, SessionStep, CountStep, FontStep, WholeStep, SortsStep,
     ReturnStep, KeptStep, UnitStep DEF IInv
<1>. QED
  BY <1>1, InitIInv, PTL DEF Spec

\* The worker's path and format are never freed or replaced under it: whoever
\* does so has joined it (snapshot.c, comment at 49-51).
THEOREM OwnershipTheorem == Spec => []WorkerOwnsConfiguration
<1>1. IInv => WorkerOwnsConfiguration
  BY DEF IInv, OwnInv
<1>. QED
  BY <1>1, Invariance, PTL

\* After a shutdown no worker, signal, path or font is left of the session's
\* snapshots, for any number of threads that call at the same time.  (The latch
\* of requests is not part of it: a handler may set it late.)
THEOREM ShutdownTheorem == Spec => []ShutdownClears
<1>1. IInv => ShutdownClears
  BY DEF IInv, OwnInv, SessionInv, Cleared, ShutdownClears
<1>. QED
  BY <1>1, Invariance, PTL

\* A request starts at most one capture, and each capture of the session is
\* counted once when it has ended.
THEOREM CountsTheorem == Spec => []CapturesAreCounted
<1>1. IInv => CapturesAreCounted
  BY DEF IInv, Shape, CountInv, Pending, CapturesAreCounted, OneCapturePerRequest
<1>. QED
  BY <1>1, Invariance, PTL

\* The font a capture draws with is the one that was set at its frame
\* (snapshot.c, comment at 416-418).
THEOREM FontTheorem == Spec => []FontOfFrame
<1>1. IInv => FontOfFrame
  BY DEF IInv, FontInv
<1>. QED
  BY <1>1, Invariance, PTL

\* Between calls a configuration has all of its parts or none, and no signal but the one
\* that is installed still has the snapshot's handler, unless a system call has failed:
\* for any callers, failures and signals that the application sets in between.
THEOREM ConfigurationTheorem == Spec => []ConfigurationIsWhole
<1> SUFFICES ASSUME IInv PROVE ConfigurationIsWhole
  BY Invariance, PTL
<1>1. TypeOK
  <2>1. worker \in [at : WorkerSteps, cfg : MaybeConfigured, bounded : BOOLEAN, late : BOOLEAN,
                    left : 0..Units, used : 0..Units, fontAtFrame : BOOLEAN, font : BOOLEAN,
                    failed : BOOLEAN]
    <3>1. worker \in WorkerShapes /\ worker.left \in 0..Units /\ worker.used \in 0..Units
      BY DEF IInv, Shape, UnitInv
    <3> QED
      BY <3>1 DEF WorkerShapes
  <2>2. call \in [Callers -> [op : {"none", "configure", "disable", "font", "reset", "start",
                                    "suspend", "shutdown"},
                              at : CallSteps, sig : Signals \cup {None}, cfg : MaybeConfigured,
                              ours : BOOLEAN, number : Signals \cup {None}, failed : BOOLEAN]]
    <3>1. {"none", "configure", "disable", "font"} \cup Lifecycles =
            {"none", "configure", "disable", "font", "reset", "start", "suspend", "shutdown"}
      BY DEF Lifecycles
    <3> QED
      BY <3>1 DEF IInv, Shape, CallShapes
  <2>3. \A h \in Handlers : handler[h] # None => handler[h] \in Invocations
    BY DEF IInv, Sorts
  <2> QED
    BY <2>1, <2>2, <2>3 DEF TypeOK, IInv, Shape, Sorts, Invocations
<1>2. WholeWhenFree
  BY DEF WholeWhenFree, IInv, OwnInv, WholeInv, Whole
<1>3. DispositionsReturned
  <2> SUFFICES ASSUME control_mutex = None, faults = 0, NEW s \in Signals,
                      disposition[s] = "snapshot"
               PROVE  s = installed_signal
    BY DEF DispositionsReturned
  <2>1. \A c \in Callers : Waits(c)
    BY NoneAssumption DEF IInv, MutexInv
  <2> QED
    BY <2>1 DEF IInv, ReturnInv, At, Waits
<1> QED
  BY <1>1, <1>2, <1>3 DEF ConfigurationIsWhole

\* A capture implements a transfer, step by step: what the file or FIFO holds is a prefix
\* of the frame, and a capture that ends well has delivered all of it.
THEOREM CaptureTheorem == Spec => CaptureIsTransfer
<1>1. IInv /\ [Next]_vars => [Message!TNext]_(Message!tvars)
  BY UnitStep DEF IInv
<1> QED
  BY <1>1, InitIInv, Invariance, PTL DEF Spec, CaptureIsTransfer, Message!TSpec

\* Unless the application itself races a call, no step of the library takes a signal from
\* a handler that the application has installed (docs/reference.md:501).
THEOREM ApplicationTheorem == ASSUME ~AppRaces PROVE Spec => ApplicationKept
<1>1. ASSUME IInv, [Next]_vars, changes' = changes, NEW s \in Signals, disposition[s] = "app"
      PROVE  disposition'[s] = "app"
  <2>1. CASE disposition' = disposition
    BY <1>1, <2>1
  <2>2. ASSUME NEW c \in Callers, Restores(c) PROVE disposition'[s] = "app"
    <3>1. disposition[call[c].number] = "snapshot"
      BY <1>1, <2>2 DEF Restores, CallAt, IInv, KeptInv, At
    <3>2. \/ disposition' = [disposition EXCEPT ![call[c].number] = previous_action]
          \/ disposition' = disposition
      BY <2>2 DEF Restores
    <3> QED
      BY <1>1, <3>1, <3>2 DEF IInv, Sorts
  <2>3. ASSUME NEW c \in Callers, Acts(c) PROVE disposition'[s] = "app"
    <3>1. call[c].at = "act" /\ Parts(c) /\ Course(c)
      BY <1>1, <2>3 DEF Acts, CallAt, IInv, WholeInv, SessionInv
    <3>2. Finds(c)
      BY <3>1 DEF Finds, Parts, Course, At, Op, Taking
    <3>3. disposition[call[c].sig] = "default"
      BY <1>1, <3>2 DEF IInv, KeptInv
    <3>4. \/ disposition' = [disposition EXCEPT ![call[c].sig] = "snapshot"]
          \/ disposition' = disposition
      BY <2>3 DEF Acts, actions
    <3> QED
      BY <1>1, <3>3, <3>4 DEF IInv, Sorts
  <2>4. CASE AppSigaction
    <3>1. changes' = changes + 1 /\ changes \in Nat
      BY <1>1, <2>4 DEF AppSigaction, IInv, Sorts
    <3> QED
      BY <1>1, <3>1
  <2>5. ASSUME NEW c \in Callers, Calls(c) \/ CallerStep(c), ~Restores(c), ~Acts(c)
        PROVE  disposition' = disposition
    BY <2>5, ActionEffect DEF Calls, actions
  <2>6. WorkerStep \/ DeadlinePasses => disposition' = disposition
    BY DEF WorkerStep, DeadlinePasses, Tests, Takes, Opens, Captures, Copies, Encodes, Flushes,
       Closes, Publishes, WorkerUnchanged, actions
  <2>7. (\E h \in Handlers : Delivered(h) \/ Compares(h) \/ Latches(h)) \/ UNCHANGED vars
          => disposition' = disposition
    BY DEF Delivered, Compares, Latches, vars, actions
  <2> QED
    BY <1>1, <2>1, <2>2, <2>3, <2>4, <2>5, <2>6, <2>7 DEF Next
<1>2. IInv /\ [Next]_vars =>
        [changes' = changes => \A s \in Signals : disposition[s] = "app" => disposition'[s] = "app"]_vars
  BY <1>1
<1> QED
  BY <1>2, Invariance, PTL DEF Spec, ApplicationKept
=============================================================================
