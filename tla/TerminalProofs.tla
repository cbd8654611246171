--------------------------- MODULE TerminalProofs ---------------------------
(***************************************************************************)
(* The types and the gate of Terminal, for every value of its constants;   *)
(* and what the terminal promises while every release runs under the gate: *)
(* no fatal signal arrives and no handler finds the pipe full.             *)
(***************************************************************************)
EXTENDS TerminalProperties, TLAPS

USE DEF Ordinary, Protocols, Owns, Results, NoPolicy, NoRelease, NoJob, Labels, GateLabels,
        GateReturns, ReleaseLabels, FreeLabels, Transitions, TtyModes, ReleaseRecords, JobRecords

(***************************************************************************)
(* The labels that a release may return to, the record that a handler is   *)
(* about to queue, and the shell's termios that endwin() puts back: what   *)
(* the types of pc, pipe and tty rest on.                                  *)
(***************************************************************************)
Returns == GateReturns \cup {"idle", "s_forward"}
QueueLabels == {"s_generation", "s_report", "s_write"}
PlaceInv ==
  /\ ret \in [Threads -> Returns]
  /\ \A h \in Handlers : pc[h] \in QueueLabels => cur[h] \in Ordinary
  /\ \A t \in Threads \ Handlers : pc[t] \notin QueueLabels
  /\ pc[Owner] = "endwin" => renderer_screen # "none"
TypeInv == TypeOK /\ PlaceInv
USE DEF Returns, QueueLabels

\* The bits that the code adds to events are event bits.
LEMMA EventsAdded ==
  ASSUME NEW bits \in {{"released", "input_reset"}, {"restored", "input_reset"},
                       {"input_reset"}, {"resized"}},
         events \subseteq EventBits
  PROVE  events \cup bits \subseteq EventBits
BY Zenon DEF EventBits

\* Where the two checks of a release, its first and its last, send the thread.
LEMMA TakeMoves ==
  ASSUME NEW t \in Threads, ReleaseTake(t)
  PROVE  /\ pc[t] = "r_take"
         /\ \/ pc' = [pc EXCEPT ![t] = ret[t]] /\ ret' = [ret EXCEPT ![t] = "idle"]
            \/ (\E l \in {"r_publish", "r_undo"} : pc' = [pc EXCEPT ![t] = l]) /\ ret' = ret
BY DEF ReleaseTake, Return, At, Goto

LEMMA PublishMoves ==
  ASSUME NEW t \in Threads, ReleasePublish(t)
  PROVE  /\ pc[t] = "r_publish"
         /\ \/ pc' = [pc EXCEPT ![t] = ret[t]] /\ ret' = [ret EXCEPT ![t] = "idle"]
            \/ pc' = [pc EXCEPT ![t] = "r_report"] /\ ret' = ret
BY DEF ReleasePublish, Return, At, Goto

\* What they change of the threads' places: nothing of the other threads', and the
\* owner's only as it moves on in its own release.
LEMMA TakePlaces ==
  ASSUME TypeInv, NEW t \in Threads, ReleaseTake(t)
  PROVE  /\ pc[t] = "r_take" /\ \A u \in Threads \ {t} : pc'[u] = pc[u]
         /\ ret[Owner] \in Returns
         /\ \/ pc'[Owner] = pc[Owner] /\ ret'[Owner] = ret[Owner]
            \/ pc[Owner] = "r_take" /\ pc'[Owner] = ret[Owner]
            \/ /\ pc[Owner] = "r_take" /\ pc'[Owner] \in {"r_publish", "r_undo"}
               /\ ret'[Owner] = ret[Owner]
<1>1. Owner \in Threads
  BY DEF Threads
<1>2. pc \in [Threads -> Labels] /\ ret \in [Threads -> Returns]
  BY DEF TypeInv, TypeOK, ThreadTypes, PlaceInv
<1>. QED
  BY <1>1, <1>2, TakeMoves

LEMMA PublishPlaces ==
  ASSUME TypeInv, NEW t \in Threads, ReleasePublish(t)
  PROVE  /\ pc[t] = "r_publish" /\ \A u \in Threads \ {t} : pc'[u] = pc[u]
         /\ ret[Owner] \in Returns
         /\ \/ pc'[Owner] = pc[Owner] /\ ret'[Owner] = ret[Owner]
            \/ pc[Owner] = "r_publish" /\ pc'[Owner] = ret[Owner]
            \/ /\ pc[Owner] = "r_publish" /\ pc'[Owner] = "r_report"
               /\ ret'[Owner] = ret[Owner]
<1>1. Owner \in Threads
  BY DEF Threads
<1>2. pc \in [Threads -> Labels] /\ ret \in [Threads -> Returns]
  BY DEF TypeInv, TypeOK, ThreadTypes, PlaceInv
<1>. QED
  BY <1>1, <1>2, PublishMoves

\* The initial states are typed.
LEMMA TypeInit == Init => TypeInv
<1> SUFFICES ASSUME Init PROVE TypeInv
  OBVIOUS
<1> USE ThreadsAssumption DEF Threads, Owner, Dispatcher, Free
<1>1. policy \in [raw : BOOLEAN, keyboard : BOOLEAN, mouse : BOOLEAN, disabled : BOOLEAN,
                 probe : BOOLEAN]
  BY DEF Init
<1>2. events \subseteq EventBits
  BY DEF Init
<1>3. TerminalTypes
  BY <1>1, <1>2 DEF Init, TerminalTypes
<1>4. ThreadTypes
  BY DEF Init, ThreadTypes
<1>5. tty \in [mode : TtyModes, on : SUBSET Protocols]
  BY DEF Init
<1>6. intact \in [Workers -> BOOLEAN]
  BY DEF Init
<1>7. WorldTypes
  BY <1>5, <1>6 DEF Init, WorldTypes
<1>8. PlaceInv
  BY DEF Init, PlaceInv
<1>. QED
  BY <1>3, <1>4, <1>7, <1>8 DEF TypeInv, TypeOK

\* Every step keeps the types.
LEMMA TypeStep == TypeInv /\ [Next]_vars => TypeInv'
<1> SUFFICES ASSUME TypeInv, [Next]_vars PROVE TypeInv'
  OBVIOUS
<1> USE ThreadsAssumption, OptionsAssumption
    DEF TypeInv, TypeOK, TerminalTypes, ThreadTypes, WorldTypes, PlaceInv, Threads, Owner,
        Dispatcher, Free, At, Goto, CallRelease, Lock, Unlock, Idle, Begin, Finish, vars,
        terminal, life, latches, duties, reports, locals, session, world, history, rest
<1>1. ASSUME NEW t \in Threads, ReleaseTake(t) PROVE TypeInv'
  <2>1. TerminalTypes'  BY <1>1 DEF ReleaseTake, Recorded
  <2>2. ThreadTypes'
    <3>1. \E r \in ReleaseRecords : rel' = [rel EXCEPT ![t] = r]
      <4>1. NoRelease \in ReleaseRecords
        OBVIOUS
      <4>2. [took |-> owned, was |-> ~blocked, out |-> OutputForeground] \in ReleaseRecords
        BY DEF OutputForeground
      <4>. QED
        BY <1>1, <4>1, <4>2 DEF ReleaseTake, Return
    <3>2. ret' \in [Threads -> Returns]
      BY <1>1, TakeMoves
    <3>3. \E l \in Returns \cup {"r_publish", "r_undo"} : pc' = [pc EXCEPT ![t] = l]
      BY <1>1, TakeMoves
    <3>4. UNCHANGED <<cur, job, pipe, io_mutex>>
      BY <1>1 DEF ReleaseTake
    <3>. QED
      BY <3>1, <3>2, <3>3, <3>4
  <2>3. WorldTypes'     BY <1>1 DEF ReleaseTake
  <2>4. PlaceInv'
    <3>1. ret' \in [Threads -> Returns]
      BY <1>1, TakeMoves
    <3>2. \E l \in Returns \cup {"r_publish", "r_undo"} : pc' = [pc EXCEPT ![t] = l]
      BY <1>1, TakeMoves
    <3>3. UNCHANGED <<cur, renderer_screen>>
      BY <1>1 DEF ReleaseTake
    <3>. QED
      BY <3>1, <3>2, <3>3
  <2>. QED              BY <2>1, <2>2, <2>3, <2>4
<1>2. ASSUME NEW t \in Threads, ReleaseUndo(t) PROVE TypeInv'
  <2>1. TerminalTypes'
    <3>1. failure' \in Results
      BY <1>2 DEF ReleaseUndo, Recorded
    <3>2. pending_protocols' \subseteq Protocols
      BY <1>2 DEF ReleaseUndo, CleanupLater
    <3>. QED
      BY <1>2, <3>1, <3>2 DEF ReleaseUndo
  <2>2. ThreadTypes'    BY <1>2 DEF ReleaseUndo
  <2>3. WorldTypes'     BY <1>2 DEF ReleaseUndo, Failing
  <2>4. PlaceInv'       BY <1>2 DEF ReleaseUndo
  <2>. QED              BY <2>1, <2>2, <2>3, <2>4
<1>3. ASSUME NEW t \in Threads, ReleasePublish(t) PROVE TypeInv'
  <2>1. TerminalTypes'
    <3>1. observed' \subseteq Workers \cup {Owner}
      BY <1>3 DEF ReleasePublish, NextGeneration
    <3>2. UNCHANGED <<life, latches, policy, duties, failure, events>>
      BY <1>3 DEF ReleasePublish
    <3>. QED
      BY <3>1, <3>2
  <2>2. ThreadTypes'
    <3>1. \E l \in Returns \cup {"r_report"} : pc' = [pc EXCEPT ![t] = l]
      BY <1>3, PublishMoves
    <3>2. ret' = ret \/ ret' = [ret EXCEPT ![t] = "idle"]
      BY <1>3, PublishMoves
    <3>3. rel' = rel \/ rel' = [rel EXCEPT ![t] = NoRelease]
      BY <1>3 DEF ReleasePublish, Return
    <3>4. rel' \in [Threads -> ReleaseRecords]
      <4>1. NoRelease \in ReleaseRecords
        OBVIOUS
      <4> HIDE DEF NoRelease, ReleaseRecords
      <4>. QED
        BY <3>3, <4>1
    <3>5. UNCHANGED <<io_mutex, pipe, cur, job>>
      BY <1>3 DEF ReleasePublish
    <3>. QED
      BY SMTT(30), <3>1, <3>2, <3>4, <3>5
  <2>3. WorldTypes'     BY <1>3 DEF ReleasePublish
  <2>4. PlaceInv'
    <3>1. ret' \in [Threads -> Returns]
      BY SMTT(30), <1>3, PublishMoves
    <3>2. \E l \in Returns \cup {"r_report"} : pc' = [pc EXCEPT ![t] = l]
      BY <1>3, PublishMoves
    <3>3. UNCHANGED <<cur, renderer_screen>>
      BY <1>3 DEF ReleasePublish
    <3>. QED
      BY <3>1, <3>2, <3>3
  <2>. QED              BY <2>1, <2>2, <2>3, <2>4
<1>4. CASE Capture
  <2>1. TerminalTypes'  BY <1>4 DEF Capture
  <2>2. ThreadTypes'    BY <1>4 DEF Capture
  <2>3. WorldTypes'     BY <1>4 DEF Capture
  <2>4. PlaceInv'       BY <1>4 DEF Capture
  <2>. QED              BY <2>1, <2>2, <2>3, <2>4
<1>5. CASE Forget              BY <1>5 DEF Forget
<1>6. CASE Forgotten
  <2>1. TerminalTypes'  BY ZenonT(40), <1>6 DEF Forgotten
  <2>2. ThreadTypes'    BY <1>6 DEF Forgotten
  <2>3. WorldTypes'     BY <1>6 DEF Forgotten
  <2>4. PlaceInv'       BY <1>6 DEF Forgotten
  <2>. QED              BY <2>1, <2>2, <2>3, <2>4
<1>7. ASSUME NEW mode \in Modes, SetInputMode(mode) PROVE TypeInv'
  <2>1. TerminalTypes'  BY ZenonT(40), <1>7 DEF SetInputMode
  <2>2. ThreadTypes'    BY <1>7 DEF SetInputMode
  <2>3. WorldTypes'     BY <1>7 DEF SetInputMode
  <2>4. PlaceInv'       BY <1>7 DEF SetInputMode
  <2>. QED              BY <2>1, <2>2, <2>3, <2>4
<1>8. ASSUME NEW enabled \in BOOLEAN, SetProbeMode(enabled) PROVE TypeInv'
  <2>1. TerminalTypes'  BY <1>8 DEF SetProbeMode
  <2>2. ThreadTypes'    BY <1>8 DEF SetProbeMode
  <2>3. WorldTypes'     BY <1>8 DEF SetProbeMode
  <2>4. PlaceInv'       BY <1>8 DEF SetProbeMode
  <2>. QED              BY <2>1, <2>2, <2>3, <2>4
<1>9. CASE OwnInput            BY <1>9 DEF OwnInput
<1>10. CASE SetInput
  <2>1. TerminalTypes'  BY <1>10 DEF SetInput, InputMode
  <2>2. ThreadTypes'
    <3>1. job' = job \/ job' = [job EXCEPT !.result = "system"]
      BY <1>10 DEF SetInput
    <3>2. job' \in JobRecords
      BY <3>1
    <3>. QED
      BY <1>10, <3>2 DEF SetInput
  <2>3. WorldTypes'     BY <1>10 DEF SetInput, InputMode
  <2>4. PlaceInv'       BY <1>10 DEF SetInput, InputMode
  <2>. QED              BY <2>1, <2>2, <2>3, <2>4
<1>11. CASE OwnKeyboard        BY SMTT(30), <1>11 DEF OwnKeyboard
<1>12. CASE WriteKeyboard
  <2>1. TerminalTypes'  BY <1>12 DEF WriteKeyboard, Writes, ForegroundIf
  <2>2. ThreadTypes'
    <3>1. \E result \in Results : job' = [job EXCEPT !.result = result]
      BY <1>12 DEF WriteKeyboard
    <3>2. job' \in JobRecords
      BY <3>1
    <3>. QED
      BY <1>12, <3>2 DEF WriteKeyboard
  <2>3. WorldTypes'     BY SMTT(30), <1>12 DEF WriteKeyboard, Writes, ForegroundIf
  <2>4. PlaceInv'       BY <1>12 DEF WriteKeyboard, Writes, ForegroundIf
  <2>. QED              BY <2>1, <2>2, <2>3, <2>4
<1>13. CASE OwnMouse
  <2>1. TerminalTypes'  BY <1>13 DEF OwnMouse, WantsMouse
  <2>2. ThreadTypes'
    <3>1. job' = job \/ job' = [job EXCEPT !.result = "background"]
      BY <1>13 DEF OwnMouse
    <3>2. job' \in JobRecords
      BY <3>1
    <3>. QED
      BY <1>13, <3>2 DEF OwnMouse
  <2>3. WorldTypes'     BY <1>13 DEF OwnMouse, WantsMouse
  <2>4. PlaceInv'       BY <1>13 DEF OwnMouse, WantsMouse
  <2>. QED              BY <2>1, <2>2, <2>3, <2>4
<1>14. CASE WriteMouse
  <2>1. TerminalTypes'  BY <1>14 DEF WriteMouse, Writes, ForegroundIf
  <2>2. ThreadTypes'
    <3>1. \E result \in Results : job' = [job EXCEPT !.result = result]
      BY <1>14 DEF WriteMouse
    <3>2. job' \in JobRecords
      BY <3>1
    <3>. QED
      BY <1>14, <3>2 DEF WriteMouse
  <2>3. WorldTypes'
    <3>1. tty' = tty \/ tty' = [tty EXCEPT !.on = @ \cup {"mouse"}]
      BY <1>14 DEF WriteMouse
    <3>2. tty' \in [mode : TtyModes, on : SUBSET Protocols]
      BY <3>1
    <3>. QED
      BY <1>14, <3>2 DEF WriteMouse
  <2>4. PlaceInv'       BY <1>14 DEF WriteMouse, Writes, ForegroundIf
  <2>. QED              BY <2>1, <2>2, <2>3, <2>4
<1>15. CASE Conclude
  <2>1. TerminalTypes'
    <3>1. observed' \subseteq Workers \cup {Owner}
      BY <1>15 DEF Conclude, NextGeneration
    <3>2. events' = events \/ events' = events \cup {"input_reset"}
      BY <1>15 DEF Conclude, Report
    <3>3. events' \subseteq EventBits
      BY <3>2, EventsAdded
    <3>4. UNCHANGED <<life, latches, policy, duties, failure>>
      BY <1>15 DEF Conclude
    <3>. QED
      BY <3>1, <3>3, <3>4
  <2>2. ThreadTypes'
    <3>1. \E l \in {"idle", "poll_end", "report"} : pc' = [pc EXCEPT ![Owner] = l]
      BY <1>15 DEF Conclude
    <3>2. job' = job \/ job' = NoJob
      BY <1>15 DEF Conclude
    <3>3. io_mutex' \in Threads \cup {Free} /\ UNCHANGED <<pipe, ret, rel, cur>>
      BY <1>15 DEF Conclude
    <3>4. job' \in JobRecords
      <4>1. job \in JobRecords /\ NoJob \in JobRecords
        OBVIOUS
      <4> HIDE DEF NoJob, JobRecords
      <4>. QED
        BY <3>2, <4>1
    <3>5. pc' \in [Threads -> Labels]
      BY <3>1
    <3>. QED
      BY <3>3, <3>4, <3>5
  <2>3. WorldTypes'     BY <1>15 DEF Conclude
  <2>4. PlaceInv'       BY <1>15 DEF Conclude
  <2>. QED              BY <2>1, <2>2, <2>3, <2>4
<1>16. CASE ConcludeFailed     BY <1>16 DEF ConcludeFailed, Recorded
<1>17. CASE Failed             BY <1>17 DEF Failed, Recorded
<1>18. CASE DisableInput
  <2>1. TerminalTypes'  BY <1>18 DEF DisableInput
  <2>2. ThreadTypes'
    <3>1. rel' \in [Threads -> ReleaseRecords]
      <4> DEFINE taken == owned \cap {"input", "keyboard", "mouse"}
      <4>1. rel' = [rel EXCEPT ![Owner] = [rel[Owner] EXCEPT !.took = taken]]
        BY <1>18 DEF DisableInput
      <4>2. [rel[Owner] EXCEPT !.took = taken] \in ReleaseRecords
        OBVIOUS
      <4>. QED
        BY <4>1, <4>2
    <3>2. job' \in JobRecords
      BY <1>18 DEF DisableInput
    <3>. QED
      BY <1>18, <3>1, <3>2 DEF DisableInput
  <2>3. WorldTypes'     BY <1>18 DEF DisableInput
  <2>4. PlaceInv'       BY <1>18 DEF DisableInput
  <2>. QED              BY <2>1, <2>2, <2>3, <2>4
<1>19. CASE DisableUndo
  <2>1. TerminalTypes'
    <3>1. failure' \in Results
      BY <1>19 DEF DisableUndo, Recorded
    <3>2. pending_protocols' \subseteq Protocols
      BY <1>19 DEF DisableUndo, CleanupLater
    <3>3. owned' \subseteq Owns
      <4> DEFINE off == IF OutputForeground THEN rel[Owner].took \cap Protocols ELSE {}
      <4>1. PICK failed \in Failing((rel[Owner].took \cap {"input"}) \cup off) :
                 owned' = owned \cup failed
        BY <1>19 DEF DisableUndo
      <4>2. failed \subseteq Owns
        BY DEF Failing
      <4>. QED
        BY <4>1, <4>2
    <3>4. events' \subseteq EventBits
      BY <1>19, EventsAdded DEF DisableUndo
    <3>. QED
      BY <1>19, <3>1, <3>2, <3>3, <3>4 DEF DisableUndo
  <2>2. ThreadTypes'
    BY <1>19 DEF DisableUndo, OutputForeground, Failing, Recorded, CleanupLater
  <2>3. WorldTypes'
    BY <1>19 DEF DisableUndo, OutputForeground, Failing, Recorded, CleanupLater
  <2>4. PlaceInv'
    BY <1>19 DEF DisableUndo, OutputForeground, Failing, Recorded, CleanupLater
  <2>. QED              BY <2>1, <2>2, <2>3, <2>4
<1>20. CASE Restore
  <2>1. TerminalTypes'  BY <1>20 DEF Restore
  <2>2. ThreadTypes'    BY <1>20 DEF Restore
  <2>3. WorldTypes'     BY <1>20 DEF Restore
  <2>4. PlaceInv'       BY <1>20 DEF Restore
  <2>. QED              BY <2>1, <2>2, <2>3, <2>4
<1>21. CASE RestoreRefused     BY <1>21 DEF RestoreRefused
<1>22. CASE Refused            BY <1>22 DEF Refused
<1>23. CASE RestoreUnblock
  <2>1. TerminalTypes'  BY <1>23 DEF RestoreUnblock, IsForeground, ForegroundIf
  <2>2. ThreadTypes'    BY <1>23 DEF RestoreUnblock, IsForeground, ForegroundIf
  <2>3. WorldTypes'     BY <1>23 DEF RestoreUnblock, IsForeground, ForegroundIf
  <2>4. PlaceInv'       BY <1>23 DEF RestoreUnblock, IsForeground, ForegroundIf
  <2>. QED              BY <2>1, <2>2, <2>3, <2>4
<1>24. CASE RestorePending
  <2>1. TerminalTypes'  BY <1>24 DEF RestorePending, Failing, Recorded
  <2>2. ThreadTypes'    BY <1>24 DEF RestorePending, Failing, Recorded
  <2>3. WorldTypes'     BY <1>24 DEF RestorePending, Failing, Recorded
  <2>4. PlaceInv'       BY <1>24 DEF RestorePending, Failing, Recorded
  <2>. QED              BY <2>1, <2>2, <2>3, <2>4
<1>25. CASE Poll
  <2>1. TerminalTypes'  BY <1>25 DEF Poll, IsForeground, ForegroundIf, HasTransition
  <2>2. ThreadTypes'    BY <1>25 DEF Poll, IsForeground, ForegroundIf, HasTransition
  <2>3. WorldTypes'     BY <1>25 DEF Poll, IsForeground, ForegroundIf, HasTransition
  <2>4. PlaceInv'       BY <1>25 DEF Poll, IsForeground, ForegroundIf, HasTransition
  <2>. QED              BY <2>1, <2>2, <2>3, <2>4
<1>26. CASE PollLock           BY <1>26 DEF PollLock
<1>27. CASE PollRestore
  <2>1. TerminalTypes'  BY ZenonT(40), <1>27 DEF PollRestore
  <2>2. ThreadTypes'    BY <1>27 DEF PollRestore
  <2>3. WorldTypes'     BY <1>27 DEF PollRestore
  <2>4. PlaceInv'       BY <1>27 DEF PollRestore
  <2>. QED              BY <2>1, <2>2, <2>3, <2>4
<1>28. CASE PollEnd
  <2>1. TerminalTypes'
    <3>1. job.fg \in BOOLEAN
      OBVIOUS
    <3>. QED
      BY <1>28, <3>1 DEF PollEnd
  <2>2. ThreadTypes'    BY <1>28 DEF PollEnd
  <2>3. WorldTypes'
    <3>1. told' \subseteq Transitions
      BY <1>28 DEF PollEnd
    <3>2. UNCHANGED <<session, world, lost, abandoned, intact>>
      BY <1>28 DEF PollEnd
    <3>. QED
      BY <3>1, <3>2
  <2>4. PlaceInv'       BY <1>28 DEF PollEnd
  <2>. QED              BY <2>1, <2>2, <2>3, <2>4
<1>29. ASSUME NEW t \in Workers \cup {Owner}, IoRefused(t) PROVE TypeInv'
  BY <1>29 DEF IoRefused
<1>30. CASE Mouse
  <2>1. TerminalTypes'  BY <1>30 DEF Mouse, Admitted, IsForeground, ForegroundIf
  <2>2. ThreadTypes'    BY <1>30 DEF Mouse, Admitted, IsForeground, ForegroundIf
  <2>3. WorldTypes'     BY <1>30 DEF Mouse, Admitted, IsForeground, ForegroundIf
  <2>4. PlaceInv'       BY <1>30 DEF Mouse, Admitted, IsForeground, ForegroundIf
  <2>. QED              BY <2>1, <2>2, <2>3, <2>4
<1>31. CASE EnterScreen        BY <1>31 DEF EnterScreen
<1>32. CASE Newterm            BY <1>32 DEF Newterm
<1>33. CASE StartWorkers       BY <1>33 DEF StartWorkers
<1>34. CASE Suspend
  <2>1. TerminalTypes'  BY <1>34 DEF Suspend
  <2>2. ThreadTypes'    BY <1>34 DEF Suspend
  <2>3. WorldTypes'     BY <1>34 DEF Suspend
  <2>4. PlaceInv'       BY <1>34 DEF Suspend
  <2>. QED              BY <2>1, <2>2, <2>3, <2>4
<1>35. CASE SuspendRefused     BY <1>35 DEF SuspendRefused, BeginRefused
<1>36. CASE SuspendQuietly     BY <1>36 DEF SuspendQuietly
<1>37. CASE SuspendAdmitted    BY <1>37 DEF SuspendAdmitted
<1>38. CASE Endwin             BY <1>38 DEF Endwin, Recorded
<1>39. CASE SuspendRelease     BY <1>39 DEF SuspendRelease
<1>40. ASSUME NEW w \in Workers, BeginFrame(w) PROVE TypeInv'
  BY <1>40 DEF BeginFrame
<1>41. ASSUME NEW w \in Workers, FrameRefused(w) PROVE TypeInv'
  <2>1. TerminalTypes'  BY <1>41 DEF FrameRefused, BeginRefused
  <2>2. ThreadTypes'    BY <1>41 DEF FrameRefused, BeginRefused
  <2>3. WorldTypes'     BY <1>41 DEF FrameRefused, BeginRefused
  <2>4. PlaceInv'       BY <1>41 DEF FrameRefused, BeginRefused
  <2>. QED              BY <2>1, <2>2, <2>3, <2>4
<1>42. ASSUME NEW w \in Workers, BeginGlass(w) PROVE TypeInv'
  BY <1>42 DEF BeginGlass
<1>43. ASSUME NEW w \in Workers, HostKey(w) PROVE TypeInv'
  BY <1>43 DEF HostKey
<1>44. ASSUME NEW w \in Workers, KeyRelease(w) PROVE TypeInv'
  BY <1>44 DEF KeyRelease
<1>45. ASSUME NEW w \in Workers, EndIo(w) PROVE TypeInv'
  BY <1>45 DEF EndIo
<1>46. ASSUME NEW w \in Workers, PendingFullscreen(w) PROVE TypeInv'
  BY <1>46 DEF PendingFullscreen
<1>47. ASSUME NEW h \in Handlers, NEW signal \in Ordinary, HandleOrdinary(h, signal) PROVE TypeInv'
  <2>1. TerminalTypes'  BY <1>47, EventsAdded DEF HandleOrdinary
  <2>2. ThreadTypes'    BY <1>47 DEF HandleOrdinary
  <2>3. WorldTypes'     BY <1>47 DEF HandleOrdinary
  <2>4. PlaceInv'       BY <1>47 DEF HandleOrdinary
  <2>. QED              BY <2>1, <2>2, <2>3, <2>4
<1>48. ASSUME NEW h \in Handlers, HandlerQueue(h) PROVE TypeInv'
  BY <1>48 DEF HandlerQueue
<1>49. ASSUME NEW h \in Handlers, HandlerPipeFull(h) PROVE TypeInv'
  BY <1>49 DEF HandlerPipeFull, Recorded
<1>50. ASSUME NEW h \in Handlers, HandleFatal(h) PROVE TypeInv'
  <2>1. TerminalTypes'  BY <1>50 DEF HandleFatal
  <2>2. ThreadTypes'    BY <1>50 DEF HandleFatal
  <2>3. WorldTypes'     BY <1>50 DEF HandleFatal
  <2>4. PlaceInv'       BY <1>50 DEF HandleFatal
  <2>. QED              BY <2>1, <2>2, <2>3, <2>4
<1>51. ASSUME NEW h \in Handlers, HandleCont(h) PROVE TypeInv'
  BY <1>51 DEF HandleCont
<1>52. ASSUME NEW h \in Handlers, HandlerCont(h) PROVE TypeInv'
  BY <1>52 DEF HandlerCont
<1>53. ASSUME NEW h \in Handlers, HandleWinch(h) PROVE TypeInv'
  <2>1. TerminalTypes'  BY <1>53, EventsAdded DEF HandleWinch
  <2>2. ThreadTypes'    BY <1>53 DEF HandleWinch
  <2>3. WorldTypes'     BY <1>53 DEF HandleWinch
  <2>4. PlaceInv'       BY <1>53 DEF HandleWinch
  <2>. QED              BY <2>1, <2>2, <2>3, <2>4
<1>54. ASSUME NEW h \in Handlers, RequestRestore(h) PROVE TypeInv'
  <2>1. TerminalTypes'  BY <1>54 DEF RequestRestore
  <2>2. ThreadTypes'    BY <1>54 DEF RequestRestore
  <2>3. WorldTypes'     BY <1>54 DEF RequestRestore
  <2>4. PlaceInv'       BY <1>54 DEF RequestRestore
  <2>. QED              BY <2>1, <2>2, <2>3, <2>4
<1>55. ASSUME NEW t \in Handlers \cup {Dispatcher}, Forward(t) PROVE TypeInv'
  BY <1>55 DEF Forward, Disposition
<1>56. CASE Dispatch           BY <1>56 DEF Dispatch
<1>57. CASE DispatchRelease    BY <1>57 DEF DispatchRelease
<1>58. CASE DispatchUnlock     BY <1>58 DEF DispatchUnlock
<1>59. CASE MoveJob            BY <1>59 DEF MoveJob
<1>60. CASE Dead               BY <1>60 DEF Dead
<1>61. CASE UNCHANGED vars
  BY <1>61
<1>62. ASSUME NEW t \in Threads, ReleaseReport(t) PROVE TypeInv'
  <2>1. TerminalTypes'  BY <1>62, EventsAdded DEF ReleaseReport, Report, Return
  <2>2. ThreadTypes'    BY <1>62 DEF ReleaseReport, Report, Return
  <2>3. WorldTypes'     BY <1>62 DEF ReleaseReport, Report, Return
  <2>4. PlaceInv'       BY <1>62 DEF ReleaseReport, Report, Return
  <2>. QED              BY <2>1, <2>2, <2>3, <2>4
<1>63. CASE ReportRestored
  <2>1. TerminalTypes'  BY <1>63, EventsAdded DEF ReportRestored, Report
  <2>2. ThreadTypes'    BY <1>63 DEF ReportRestored, Report
  <2>3. WorldTypes'     BY <1>63 DEF ReportRestored, Report
  <2>4. PlaceInv'       BY <1>63 DEF ReportRestored, Report
  <2>. QED              BY <2>1, <2>2, <2>3, <2>4
<1>64. ASSUME NEW h \in Handlers, HandlerGeneration(h) PROVE TypeInv'
  <2>1. TerminalTypes'  BY <1>64 DEF HandlerGeneration, NextGeneration
  <2>2. ThreadTypes'    BY <1>64 DEF HandlerGeneration, NextGeneration
  <2>3. WorldTypes'     BY <1>64 DEF HandlerGeneration, NextGeneration
  <2>4. PlaceInv'       BY <1>64 DEF HandlerGeneration, NextGeneration
  <2>. QED              BY <2>1, <2>2, <2>3, <2>4
<1>65. ASSUME NEW h \in Handlers, HandlerReport(h) PROVE TypeInv'
  <2>1. TerminalTypes'  BY <1>65, EventsAdded DEF HandlerReport, Report
  <2>2. ThreadTypes'    BY <1>65 DEF HandlerReport, Report
  <2>3. WorldTypes'     BY <1>65 DEF HandlerReport, Report
  <2>4. PlaceInv'       BY <1>65 DEF HandlerReport, Report
  <2>. QED              BY <2>1, <2>2, <2>3, <2>4
<1> HIDE DEF TypeInv, At, Goto, CallRelease, Lock, Unlock, Idle, Begin, Finish
<1>. QED
  BY <1>1, <1>2, <1>3, <1>4, <1>5, <1>6, <1>7, <1>8, <1>9, <1>10, <1>11, <1>12, <1>13, <1>14,
     <1>15, <1>16, <1>17, <1>18, <1>19, <1>20, <1>21, <1>22, <1>23, <1>24, <1>25, <1>26,
     <1>27, <1>28, <1>29, <1>30, <1>31, <1>32, <1>33, <1>34, <1>35, <1>36, <1>37, <1>38,
     <1>39, <1>40, <1>41, <1>42, <1>43, <1>44, <1>45, <1>46, <1>47, <1>48, <1>49, <1>50,
     <1>51, <1>52, <1>53, <1>54, <1>55, <1>56, <1>57, <1>58, <1>59, <1>60, <1>61, <1>62, <1>63,
     <1>64, <1>65 DEF Next,
     OwnerStarts, OwnerContinues, WorkerStarts, WorkerContinues, HandlerStarts,
     HandlerContinues, DispatcherStep, Release

(***************************************************************************)
(* Type correctness of the terminal, with the places that it rests on.     *)
(***************************************************************************)
THEOREM TypeCorrect == Spec => []TypeInv
<1>1. Init => TypeInv
  BY TypeInit
<1>2. TypeInv /\ [Next]_vars => TypeInv'
  BY TypeStep
<1>. QED
  BY <1>1, <1>2, PTL DEF Spec

\* The variables of the module Terminal keep their types.
COROLLARY TypesHold == Spec => []TypeOK
<1>1. TypeInv => TypeOK
  BY DEF TypeInv
<1>. QED
  BY <1>1, TypeCorrect, PTL

-----------------------------------------------------------------------------
(***************************************************************************)
(* The gate.  A step of a thread stays on its side of the gate, enters it  *)
(* or leaves it, and moves nobody else.                                    *)
(***************************************************************************)
Alone(t)  == \A u \in Threads \ {t} : pc'[u] = pc[u] /\ ret'[u] = ret[u]
Stays(t)  == Alone(t) /\ io_mutex' = io_mutex /\ (InGate(t)' <=> InGate(t))
Enters(t) == Alone(t) /\ io_mutex = Free /\ io_mutex' = t /\ InGate(t)'
Leaves(t) == Alone(t) /\ InGate(t) /\ io_mutex' = Free /\ ~InGate(t)'

\* Such a step keeps the discipline of the gate.
LEMMA GateKept ==
  ASSUME NEW t \in Threads, GateDiscipline, Stays(t) \/ Enters(t) \/ Leaves(t)
  PROVE  GateDiscipline'
<1> USE DEF GateDiscipline, Alone
<1>1. Free \notin Threads
  BY ThreadsAssumption DEF Threads, Owner, Dispatcher, Free
<1>2. \A u \in Threads \ {t} : InGate(u)' <=> InGate(u)
  BY DEF Stays, Enters, Leaves, InGate
<1>3. CASE Stays(t)
  BY <1>2, <1>3 DEF Stays
<1>4. CASE Enters(t)
  BY <1>1, <1>2, <1>4 DEF Enters
<1>5. CASE Leaves(t)
  BY <1>1, <1>2, <1>5 DEF Leaves
<1>. QED
  BY <1>3, <1>4, <1>5

\* Every step of every thread is such a step.
LEMMA GateStep == TypeInv /\ GateDiscipline /\ [Next]_vars => GateDiscipline'
<1> SUFFICES ASSUME TypeInv, GateDiscipline, [Next]_vars PROVE GateDiscipline'
  OBVIOUS
<1> USE ThreadsAssumption
    DEF TypeInv, TypeOK, ThreadTypes, PlaceInv, Threads, Owner, Dispatcher, Free, InGate,
        Alone, At, Goto, CallRelease, Lock, Unlock, Idle, Begin, Finish, vars, terminal,
        life, latches, duties, reports, locals, session, world, history, rest
<1>1. ASSUME NEW t \in Threads, ReleaseTake(t) PROVE GateDiscipline'
  <2>1. Stays(t)          BY <1>1 DEF ReleaseTake, Stays, Return
  <2>. QED                BY <2>1, GateKept
<1>2. ASSUME NEW t \in Threads, ReleaseUndo(t) PROVE GateDiscipline'
  <2>1. Stays(t)          BY <1>2 DEF ReleaseUndo, Stays
  <2>. QED                BY <2>1, GateKept
<1>3. ASSUME NEW t \in Threads, ReleasePublish(t) PROVE GateDiscipline'
  <2>1. Stays(t)          BY <1>3 DEF ReleasePublish, Stays, Return
  <2>. QED                BY <2>1, GateKept
<1>4. CASE Capture             BY <1>4 DEF Capture, GateDiscipline
<1>5. CASE Forget
  <2>1. Enters(Owner)     BY <1>5 DEF Forget, Enters
  <2>. QED                BY <2>1, GateKept
<1>6. CASE Forgotten
  <2>1. Leaves(Owner)     BY <1>6 DEF Forgotten, Leaves
  <2>. QED                BY <2>1, GateKept
<1>7. ASSUME NEW mode \in Modes, SetInputMode(mode) PROVE GateDiscipline'
  <2>1. Enters(Owner)     BY <1>7 DEF SetInputMode, Enters
  <2>. QED                BY <2>1, GateKept
<1>8. ASSUME NEW enabled \in BOOLEAN, SetProbeMode(enabled) PROVE GateDiscipline'
  <2>1. Enters(Owner)     BY <1>8 DEF SetProbeMode, Enters
  <2>. QED                BY <2>1, GateKept
<1>9. CASE OwnInput
  <2>1. Stays(Owner)      BY <1>9 DEF OwnInput, Stays
  <2>. QED                BY <2>1, GateKept
<1>10. CASE SetInput
  <2>1. Stays(Owner)      BY <1>10 DEF SetInput, Stays
  <2>. QED                BY <2>1, GateKept
<1>11. CASE OwnKeyboard
  <2>1. Stays(Owner)      BY <1>11 DEF OwnKeyboard, Stays
  <2>. QED                BY <2>1, GateKept
<1>12. CASE WriteKeyboard
  <2>1. Stays(Owner)      BY <1>12 DEF WriteKeyboard, Stays
  <2>. QED                BY <2>1, GateKept
<1>13. CASE OwnMouse
  <2>1. Stays(Owner)      BY <1>13 DEF OwnMouse, Stays
  <2>. QED                BY <2>1, GateKept
<1>14. CASE WriteMouse
  <2>1. Stays(Owner)      BY <1>14 DEF WriteMouse, Stays
  <2>. QED                BY <2>1, GateKept
<1>15. CASE Conclude
  <2>1. CASE Restoring /\ job.was
    <3>1. Stays(Owner)    BY <1>15, <2>1 DEF Conclude, Stays
    <3>. QED              BY <3>1, GateKept
  <2>2. CASE ~(Restoring /\ job.was)
    <3>1. Leaves(Owner)   BY <1>15, <2>2 DEF Conclude, Leaves
    <3>. QED              BY <3>1, GateKept
  <2>. QED                BY <2>1, <2>2
<1>16. CASE ConcludeFailed
  <2>1. Stays(Owner)      BY <1>16 DEF ConcludeFailed, Stays
  <2>. QED                BY <2>1, GateKept
<1>17. CASE Failed
  <2>1. Leaves(Owner)     BY <1>17 DEF Failed, Leaves
  <2>. QED                BY <2>1, GateKept
<1>18. CASE DisableInput
  <2>1. Enters(Owner)     BY <1>18 DEF DisableInput, Enters
  <2>. QED                BY <2>1, GateKept
<1>19. CASE DisableUndo
  <2>1. Leaves(Owner)     BY <1>19 DEF DisableUndo, Leaves
  <2>. QED                BY <2>1, GateKept
<1>20. CASE Restore
  <2>1. Stays(Owner)      BY <1>20 DEF Restore, Stays
  <2>. QED                BY <2>1, GateKept
<1>21. CASE RestoreRefused
  <2>1. Enters(Owner)     BY <1>21 DEF RestoreRefused, Enters
  <2>. QED                BY <2>1, GateKept
<1>22. CASE Refused
  <2>1. Leaves(Owner)     BY <1>22 DEF Refused, Leaves
  <2>. QED                BY <2>1, GateKept
<1>23. CASE RestoreUnblock
  <2>1. Enters(Owner)     BY <1>23 DEF RestoreUnblock, Enters
  <2>. QED                BY <2>1, GateKept
<1>24. CASE RestorePending
  <2>1. Stays(Owner)      BY <1>24 DEF RestorePending, Stays
  <2>. QED                BY <2>1, GateKept
<1>25. CASE Poll
  <2>1. Stays(Owner)      BY <1>25 DEF Poll, Stays
  <2>. QED                BY <2>1, GateKept
<1>26. CASE PollLock
  <2>1. Enters(Owner)     BY <1>26 DEF PollLock, Enters
  <2>. QED                BY <2>1, GateKept
<1>27. CASE PollRestore
  <2>1. Leaves(Owner)     BY <1>27 DEF PollRestore, Leaves
  <2>. QED                BY <2>1, GateKept
<1>28. CASE PollEnd
  <2>1. Stays(Owner)      BY <1>28 DEF PollEnd, Stays
  <2>. QED                BY <2>1, GateKept
<1>29. ASSUME NEW t \in Workers \cup {Owner}, IoRefused(t) PROVE GateDiscipline'
  <2>1. Leaves(t)         BY <1>29 DEF IoRefused, Leaves
  <2>. QED                BY <2>1, GateKept
<1>30. CASE Mouse
  <2>1. Enters(Owner)     BY <1>30 DEF Mouse, Enters
  <2>. QED                BY <2>1, GateKept
<1>31. CASE EnterScreen
  <2>1. Enters(Owner)     BY <1>31 DEF EnterScreen, Enters
  <2>. QED                BY <2>1, GateKept
<1>32. CASE Newterm
  <2>1. Leaves(Owner)     BY <1>32 DEF Newterm, Leaves
  <2>. QED                BY <2>1, GateKept
<1>33. CASE StartWorkers       BY <1>33 DEF StartWorkers, GateDiscipline
<1>34. CASE Suspend
  <2>1. Stays(Owner)      BY <1>34 DEF Suspend, Stays
  <2>. QED                BY <2>1, GateKept
<1>35. CASE SuspendRefused
  <2>1. Enters(Owner)     BY <1>35 DEF SuspendRefused, Enters, Joined, BeginRefused
  <2>. QED                BY <2>1, GateKept
<1>36. CASE SuspendQuietly
  <2>1. Stays(Owner)      BY <1>36 DEF SuspendQuietly, Stays, Joined
  <2>. QED                BY <2>1, GateKept
<1>37. CASE SuspendAdmitted
  <2>1. Enters(Owner)     BY <1>37 DEF SuspendAdmitted, Enters, Joined
  <2>. QED                BY <2>1, GateKept
<1>38. CASE Endwin
  <2>1. Leaves(Owner)     BY <1>38 DEF Endwin, Leaves
  <2>. QED                BY <2>1, GateKept
<1>39. CASE SuspendRelease
  <2>1. Stays(Owner)      BY <1>39 DEF SuspendRelease, Stays
  <2>. QED                BY <2>1, GateKept
<1>40. ASSUME NEW w \in Workers, BeginFrame(w) PROVE GateDiscipline'
  <2>1. Enters(w)         BY <1>40 DEF BeginFrame, Enters, Working
  <2>. QED                BY <2>1, GateKept
<1>41. ASSUME NEW w \in Workers, FrameRefused(w) PROVE GateDiscipline'
  <2>1. Enters(w)         BY <1>41 DEF FrameRefused, Enters, Working, BeginRefused
  <2>. QED                BY <2>1, GateKept
<1>42. ASSUME NEW w \in Workers, BeginGlass(w) PROVE GateDiscipline'
  <2>1. Enters(w)         BY <1>42 DEF BeginGlass, Enters, Working
  <2>. QED                BY <2>1, GateKept
<1>43. ASSUME NEW w \in Workers, HostKey(w) PROVE GateDiscipline'
  <2>1. Stays(w)          BY <1>43 DEF HostKey, Stays, Working
  <2>. QED                BY <2>1, GateKept
<1>44. ASSUME NEW w \in Workers, KeyRelease(w) PROVE GateDiscipline'
  <2>1. Enters(w)         BY <1>44 DEF KeyRelease, Enters
  <2>. QED                BY <2>1, GateKept
<1>45. ASSUME NEW w \in Workers, EndIo(w) PROVE GateDiscipline'
  <2>1. Leaves(w)         BY <1>45 DEF EndIo, Leaves
  <2>. QED                BY <2>1, GateKept
<1>46. ASSUME NEW w \in Workers, PendingFullscreen(w) PROVE GateDiscipline'
  BY <1>46 DEF PendingFullscreen, GateDiscipline
<1>47. ASSUME NEW h \in Handlers, NEW signal \in Ordinary, HandleOrdinary(h, signal) PROVE GateDiscipline'
  <2>1. Stays(h)          BY <1>47 DEF HandleOrdinary, Stays, Arrives
  <2>. QED                BY <2>1, GateKept
<1>48. ASSUME NEW h \in Handlers, HandlerQueue(h) PROVE GateDiscipline'
  <2>1. Stays(h)          BY <1>48 DEF HandlerQueue, Stays
  <2>. QED                BY <2>1, GateKept
<1>49. ASSUME NEW h \in Handlers, HandlerPipeFull(h) PROVE GateDiscipline'
  <2>1. Stays(h)          BY <1>49 DEF HandlerPipeFull, Stays
  <2>. QED                BY <2>1, GateKept
<1>50. ASSUME NEW h \in Handlers, HandleFatal(h) PROVE GateDiscipline'
  <2>1. Stays(h)          BY <1>50 DEF HandleFatal, Stays, Arrives
  <2>. QED                BY <2>1, GateKept
<1>51. ASSUME NEW h \in Handlers, HandleCont(h) PROVE GateDiscipline'
  <2>1. Stays(h)          BY <1>51 DEF HandleCont, Stays
  <2>. QED                BY <2>1, GateKept
<1>52. ASSUME NEW h \in Handlers, HandlerCont(h) PROVE GateDiscipline'
  <2>1. Stays(h)          BY <1>52 DEF HandlerCont, Stays
  <2>. QED                BY <2>1, GateKept
<1>53. ASSUME NEW h \in Handlers, HandleWinch(h) PROVE GateDiscipline'
  BY <1>53 DEF HandleWinch, GateDiscipline
<1>54. ASSUME NEW h \in Handlers, RequestRestore(h) PROVE GateDiscipline'
  BY <1>54 DEF RequestRestore, GateDiscipline
<1>55. ASSUME NEW t \in Handlers \cup {Dispatcher}, Forward(t) PROVE GateDiscipline'
  <2>1. Stays(t)          BY <1>55 DEF Forward, Stays
  <2>. QED                BY <2>1, GateKept
<1>56. CASE Dispatch
  <2>1. Stays(Dispatcher) BY <1>56 DEF Dispatch, Stays
  <2>. QED                BY <2>1, GateKept
<1>57. CASE DispatchRelease
  <2>1. Enters(Dispatcher)BY <1>57 DEF DispatchRelease, Enters
  <2>. QED                BY <2>1, GateKept
<1>58. CASE DispatchUnlock
  <2>1. Leaves(Dispatcher)BY <1>58 DEF DispatchUnlock, Leaves
  <2>. QED                BY <2>1, GateKept
<1>59. CASE MoveJob            BY <1>59 DEF MoveJob, GateDiscipline
<1>60. CASE Dead               BY <1>60 DEF Dead, GateDiscipline
<1>61. CASE UNCHANGED vars
  BY <1>61 DEF GateDiscipline
<1>62. ASSUME NEW t \in Threads, ReleaseReport(t) PROVE GateDiscipline'
  <2>1. Stays(t)          BY <1>62 DEF ReleaseReport, Stays, Return
  <2>. QED                BY <2>1, GateKept
<1>63. CASE ReportRestored
  <2>1. Leaves(Owner)     BY <1>63 DEF ReportRestored, Leaves
  <2>. QED                BY <2>1, GateKept
<1>64. ASSUME NEW h \in Handlers, HandlerGeneration(h) PROVE GateDiscipline'
  <2>1. Stays(h)          BY <1>64 DEF HandlerGeneration, Stays
  <2>. QED                BY <2>1, GateKept
<1>65. ASSUME NEW h \in Handlers, HandlerReport(h) PROVE GateDiscipline'
  <2>1. Stays(h)          BY <1>65 DEF HandlerReport, Stays
  <2>. QED                BY <2>1, GateKept
<1>. QED
  BY <1>1, <1>2, <1>3, <1>4, <1>5, <1>6, <1>7, <1>8, <1>9, <1>10, <1>11, <1>12, <1>13, <1>14,
     <1>15, <1>16, <1>17, <1>18, <1>19, <1>20, <1>21, <1>22, <1>23, <1>24, <1>25, <1>26,
     <1>27, <1>28, <1>29, <1>30, <1>31, <1>32, <1>33, <1>34, <1>35, <1>36, <1>37, <1>38,
     <1>39, <1>40, <1>41, <1>42, <1>43, <1>44, <1>45, <1>46, <1>47, <1>48, <1>49, <1>50,
     <1>51, <1>52, <1>53, <1>54, <1>55, <1>56, <1>57, <1>58, <1>59, <1>60, <1>61, <1>62, <1>63,
     <1>64, <1>65 DEF Next,
     OwnerStarts, OwnerContinues, WorkerStarts, WorkerContinues, HandlerStarts,
     HandlerContinues, DispatcherStep, Release

(***************************************************************************)
(* The gate is held by exactly the thread that is inside a section of it.  *)
(***************************************************************************)
THEOREM GateHeld == Spec => []GateDiscipline
<1>1. Init => GateDiscipline
  BY ThreadsAssumption DEF Init, GateDiscipline, InGate, Threads, Owner, Dispatcher, Free
<1>2. TypeInv /\ GateDiscipline /\ [Next]_vars => GateDiscipline'
  BY GateStep
<1>. QED
  BY <1>1, <1>2, TypeCorrect, PTL DEF Spec

-----------------------------------------------------------------------------
(***************************************************************************)
(* Releases under the gate.                                                *)
(***************************************************************************)
NoEmergency == ~PipeMayFill /\ "fatal" \notin Signals

(***************************************************************************)
(* Without an emergency a release runs under the gate, but for the last    *)
(* one of the owner's stop_session().                                      *)
(***************************************************************************)
ReleasesGated == \A t \in Threads :
  pc[t] \in ReleaseLabels => ret[t] \in GateReturns \/ (t = Owner /\ ret[t] = "idle")

\* No handler calls release, and nobody else returns to a place outside the gate.
LEMMA GatedStep ==
  ASSUME NoEmergency, TypeInv, ReleasesGated, [Next]_vars
  PROVE  ReleasesGated'
<1> USE ThreadsAssumption
    DEF TypeInv, TypeOK, ThreadTypes, PlaceInv, NoEmergency, ReleasesGated, Threads,
        Owner, Dispatcher, Free, At, Goto, CallRelease, Lock, Unlock, Idle, Begin, Finish,
        vars, terminal, life, latches, duties, reports, locals, session, world, history,
        rest
<1>1. ASSUME NEW t \in Threads, ReleaseTake(t) PROVE ReleasesGated'
  BY <1>1 DEF ReleaseTake, Return
<1>2. ASSUME NEW t \in Threads, ReleaseUndo(t) PROVE ReleasesGated'
  BY <1>2 DEF ReleaseUndo
<1>3. ASSUME NEW t \in Threads, ReleasePublish(t) PROVE ReleasesGated'
  BY <1>3 DEF ReleasePublish, Return
<1>4. CASE Capture             BY <1>4 DEF Capture
<1>5. CASE Forget              BY <1>5 DEF Forget
<1>6. CASE Forgotten           BY <1>6 DEF Forgotten
<1>7. ASSUME NEW mode \in Modes, SetInputMode(mode) PROVE ReleasesGated'
  BY <1>7 DEF SetInputMode
<1>8. ASSUME NEW enabled \in BOOLEAN, SetProbeMode(enabled) PROVE ReleasesGated'
  BY <1>8 DEF SetProbeMode
<1>9. CASE OwnInput            BY <1>9 DEF OwnInput
<1>10. CASE SetInput           BY <1>10 DEF SetInput
<1>11. CASE OwnKeyboard        BY <1>11 DEF OwnKeyboard
<1>12. CASE WriteKeyboard      BY <1>12 DEF WriteKeyboard
<1>13. CASE OwnMouse           BY <1>13 DEF OwnMouse
<1>14. CASE WriteMouse         BY <1>14 DEF WriteMouse
<1>15. CASE Conclude           BY <1>15 DEF Conclude
<1>16. CASE ConcludeFailed     BY <1>16 DEF ConcludeFailed
<1>17. CASE Failed             BY <1>17 DEF Failed
<1>18. CASE DisableInput       BY <1>18 DEF DisableInput
<1>19. CASE DisableUndo        BY <1>19 DEF DisableUndo
<1>20. CASE Restore            BY <1>20 DEF Restore
<1>21. CASE RestoreRefused     BY <1>21 DEF RestoreRefused
<1>22. CASE Refused            BY <1>22 DEF Refused
<1>23. CASE RestoreUnblock     BY <1>23 DEF RestoreUnblock
<1>24. CASE RestorePending     BY <1>24 DEF RestorePending
<1>25. CASE Poll               BY <1>25 DEF Poll
<1>26. CASE PollLock           BY <1>26 DEF PollLock
<1>27. CASE PollRestore        BY <1>27 DEF PollRestore
<1>28. CASE PollEnd            BY <1>28 DEF PollEnd
<1>29. ASSUME NEW t \in Workers \cup {Owner}, IoRefused(t) PROVE ReleasesGated'
  BY <1>29 DEF IoRefused
<1>30. CASE Mouse              BY <1>30 DEF Mouse
<1>31. CASE EnterScreen        BY <1>31 DEF EnterScreen
<1>32. CASE Newterm            BY <1>32 DEF Newterm
<1>33. CASE StartWorkers       BY <1>33 DEF StartWorkers
<1>34. CASE Suspend            BY <1>34 DEF Suspend
<1>35. CASE SuspendRefused     BY <1>35 DEF SuspendRefused, BeginRefused
<1>36. CASE SuspendQuietly     BY <1>36 DEF SuspendQuietly
<1>37. CASE SuspendAdmitted    BY <1>37 DEF SuspendAdmitted
<1>38. CASE Endwin             BY <1>38 DEF Endwin
<1>39. CASE SuspendRelease     BY <1>39 DEF SuspendRelease
<1>40. ASSUME NEW w \in Workers, BeginFrame(w) PROVE ReleasesGated'
  BY <1>40 DEF BeginFrame
<1>41. ASSUME NEW w \in Workers, FrameRefused(w) PROVE ReleasesGated'
  BY <1>41 DEF FrameRefused, BeginRefused
<1>42. ASSUME NEW w \in Workers, BeginGlass(w) PROVE ReleasesGated'
  BY <1>42 DEF BeginGlass
<1>43. ASSUME NEW w \in Workers, HostKey(w) PROVE ReleasesGated'
  BY <1>43 DEF HostKey
<1>44. ASSUME NEW w \in Workers, KeyRelease(w) PROVE ReleasesGated'
  BY <1>44 DEF KeyRelease
<1>45. ASSUME NEW w \in Workers, EndIo(w) PROVE ReleasesGated'
  BY <1>45 DEF EndIo
<1>46. ASSUME NEW w \in Workers, PendingFullscreen(w) PROVE ReleasesGated'
  BY <1>46 DEF PendingFullscreen
<1>47. ASSUME NEW h \in Handlers, NEW signal \in Ordinary, HandleOrdinary(h, signal)
       PROVE  ReleasesGated'
  BY <1>47 DEF HandleOrdinary
<1>48. ASSUME NEW h \in Handlers, HandlerQueue(h) PROVE ReleasesGated'
  BY <1>48 DEF HandlerQueue
<1>49. ASSUME NEW h \in Handlers, HandlerPipeFull(h) PROVE ReleasesGated'
  BY <1>49 DEF HandlerPipeFull
<1>50. ASSUME NEW h \in Handlers, HandleFatal(h) PROVE ReleasesGated'
  BY <1>50 DEF HandleFatal, Arrives
<1>51. ASSUME NEW h \in Handlers, HandleCont(h) PROVE ReleasesGated'
  BY <1>51 DEF HandleCont
<1>52. ASSUME NEW h \in Handlers, HandlerCont(h) PROVE ReleasesGated'
  BY <1>52 DEF HandlerCont
<1>53. ASSUME NEW h \in Handlers, HandleWinch(h) PROVE ReleasesGated'
  BY <1>53 DEF HandleWinch
<1>54. ASSUME NEW h \in Handlers, RequestRestore(h) PROVE ReleasesGated'
  BY <1>54 DEF RequestRestore
<1>55. ASSUME NEW t \in Handlers \cup {Dispatcher}, Forward(t) PROVE ReleasesGated'
  BY <1>55 DEF Forward
<1>56. CASE Dispatch           BY <1>56 DEF Dispatch
<1>57. CASE DispatchRelease    BY <1>57 DEF DispatchRelease
<1>58. CASE DispatchUnlock     BY <1>58 DEF DispatchUnlock
<1>59. CASE MoveJob            BY <1>59 DEF MoveJob
<1>60. CASE Dead               BY <1>60 DEF Dead
<1>61. CASE UNCHANGED vars       BY <1>61
<1>62. ASSUME NEW t \in Threads, ReleaseReport(t) PROVE ReleasesGated'
  BY <1>62 DEF ReleaseReport, Return
<1>63. CASE ReportRestored     BY <1>63 DEF ReportRestored
<1>64. ASSUME NEW h \in Handlers, HandlerGeneration(h) PROVE ReleasesGated'
  BY <1>64 DEF HandlerGeneration
<1>65. ASSUME NEW h \in Handlers, HandlerReport(h) PROVE ReleasesGated'
  BY <1>65 DEF HandlerReport
<1> HIDE DEF TypeInv, At, Goto, CallRelease, Lock, Unlock, Idle, Begin, Finish
<1>. QED
  BY <1>1, <1>2, <1>3, <1>4, <1>5, <1>6, <1>7, <1>8, <1>9, <1>10, <1>11, <1>12, <1>13, <1>14,
     <1>15, <1>16, <1>17, <1>18, <1>19, <1>20, <1>21, <1>22, <1>23, <1>24, <1>25, <1>26,
     <1>27, <1>28, <1>29, <1>30, <1>31, <1>32, <1>33, <1>34, <1>35, <1>36, <1>37, <1>38,
     <1>39, <1>40, <1>41, <1>42, <1>43, <1>44, <1>45, <1>46, <1>47, <1>48, <1>49, <1>50,
     <1>51, <1>52, <1>53, <1>54, <1>55, <1>56, <1>57, <1>58, <1>59, <1>60, <1>61, <1>62, <1>63,
     <1>64, <1>65 DEF Next,
     OwnerStarts, OwnerContinues, WorkerStarts, WorkerContinues, HandlerStarts,
     HandlerContinues, DispatcherStep, Release

\* Without an emergency every release of a worker, a handler or the dispatcher is gated.
THEOREM GatedReleases == NoEmergency => (Spec => []ReleasesGated)
<1> SUFFICES ASSUME NoEmergency PROVE Spec => []ReleasesGated
  OBVIOUS
<1>1. Init => ReleasesGated
  BY DEF Init, ReleasesGated
<1>2. TypeInv /\ ReleasesGated /\ [Next]_vars => ReleasesGated'
  BY GatedStep
<1>. QED
  BY <1>1, <1>2, TypeCorrect, PTL DEF Spec

\* While a release runs, the owner is outside the sections of the gate.
LEMMA OwnerOutside ==
  ASSUME TypeInv, GateDiscipline, ReleasesGated,
         NEW t \in Threads, pc[t] \in ReleaseLabels
  PROVE  pc[Owner] \notin GateLabels
<1>1. CASE t = Owner
  BY <1>1
<1>2. CASE t # Owner
  <2>1. InGate(t)
    BY <1>2 DEF ReleasesGated, InGate
  <2>2. ~InGate(Owner)
    BY <1>2, <2>1 DEF GateDiscipline, Threads
  <2>. QED
    BY <2>2 DEF InGate
<1>. QED
  BY <1>1, <1>2

-----------------------------------------------------------------------------
(***************************************************************************)
(* A bit is in owned before the sequence that it undoes is written, and no *)
(* release takes it away in between: the owner holds the gate.             *)
(***************************************************************************)
OwnedFirst ==
  /\ pc[Owner] = "write_keyboard" /\ WantsKeyboard => "keyboard" \in owned
  /\ pc[Owner] = "write_mouse" => "mouse" \in owned
  /\ pc[Owner] = "newterm" => "screen" \in owned

\* Every step keeps the order of ownership and change.
LEMMA OwnedFirstStep ==
  ASSUME NoEmergency, TypeInv, GateDiscipline, ReleasesGated, OwnedFirst, [Next]_vars
  PROVE  OwnedFirst'
<1> USE ThreadsAssumption, OwnerOutside
    DEF TypeInv, TypeOK, ThreadTypes, PlaceInv, NoEmergency, OwnedFirst, WantsKeyboard,
        Threads, Owner, Dispatcher, Free, At, Goto, CallRelease, Lock, Unlock, Idle,
        Begin, Finish, vars, terminal, life, latches, duties, reports, locals, session,
        world, history, rest
<1>1. ASSUME NEW t \in Threads, ReleaseTake(t) PROVE OwnedFirst'
  <2>1. pc[Owner] \notin GateLabels
    BY <1>1 DEF ReleaseTake
  <2>2. pc'[Owner] = pc[Owner] \/ pc'[Owner] \in Returns \cup {"r_publish", "r_undo"}
    BY <1>1, TakeMoves
  <2>. QED
    BY <2>1, <2>2
<1>2. ASSUME NEW t \in Threads, ReleaseUndo(t) PROVE OwnedFirst'
  BY <1>2 DEF ReleaseUndo
<1>3. ASSUME NEW t \in Threads, ReleasePublish(t) PROVE OwnedFirst'
  BY <1>3 DEF ReleasePublish, Return
<1>4. CASE Capture             BY <1>4 DEF Capture
<1>5. CASE Forget              BY <1>5 DEF Forget
<1>6. CASE Forgotten           BY <1>6 DEF Forgotten
<1>7. ASSUME NEW mode \in Modes, SetInputMode(mode) PROVE OwnedFirst'
  BY <1>7 DEF SetInputMode
<1>8. ASSUME NEW enabled \in BOOLEAN, SetProbeMode(enabled) PROVE OwnedFirst'
  BY <1>8 DEF SetProbeMode
<1>9. CASE OwnInput            BY <1>9 DEF OwnInput
<1>10. CASE SetInput           BY <1>10 DEF SetInput
<1>11. CASE OwnKeyboard        BY <1>11 DEF OwnKeyboard
<1>12. CASE WriteKeyboard      BY <1>12 DEF WriteKeyboard
<1>13. CASE OwnMouse           BY <1>13 DEF OwnMouse
<1>14. CASE WriteMouse         BY <1>14 DEF WriteMouse
<1>15. CASE Conclude           BY <1>15 DEF Conclude
<1>16. CASE ConcludeFailed     BY <1>16 DEF ConcludeFailed
<1>17. CASE Failed             BY <1>17 DEF Failed
<1>18. CASE DisableInput       BY <1>18 DEF DisableInput
<1>19. CASE DisableUndo        BY <1>19 DEF DisableUndo
<1>20. CASE Restore            BY <1>20 DEF Restore
<1>21. CASE RestoreRefused     BY <1>21 DEF RestoreRefused
<1>22. CASE Refused            BY <1>22 DEF Refused
<1>23. CASE RestoreUnblock     BY <1>23 DEF RestoreUnblock
<1>24. CASE RestorePending     BY <1>24 DEF RestorePending
<1>25. CASE Poll               BY <1>25 DEF Poll
<1>26. CASE PollLock           BY <1>26 DEF PollLock
<1>27. CASE PollRestore        BY <1>27 DEF PollRestore
<1>28. CASE PollEnd            BY <1>28 DEF PollEnd
<1>29. ASSUME NEW t \in Workers \cup {Owner}, IoRefused(t) PROVE OwnedFirst'
  BY <1>29 DEF IoRefused
<1>30. CASE Mouse              BY <1>30 DEF Mouse
<1>31. CASE EnterScreen        BY <1>31 DEF EnterScreen
<1>32. CASE Newterm            BY <1>32 DEF Newterm
<1>33. CASE StartWorkers       BY <1>33 DEF StartWorkers
<1>34. CASE Suspend            BY <1>34 DEF Suspend
<1>35. CASE SuspendRefused     BY <1>35 DEF SuspendRefused, BeginRefused
<1>36. CASE SuspendQuietly     BY <1>36 DEF SuspendQuietly
<1>37. CASE SuspendAdmitted    BY <1>37 DEF SuspendAdmitted
<1>38. CASE Endwin             BY <1>38 DEF Endwin
<1>39. CASE SuspendRelease     BY <1>39 DEF SuspendRelease
<1>40. ASSUME NEW w \in Workers, BeginFrame(w) PROVE OwnedFirst'
  BY <1>40 DEF BeginFrame
<1>41. ASSUME NEW w \in Workers, FrameRefused(w) PROVE OwnedFirst'
  BY <1>41 DEF FrameRefused, BeginRefused
<1>42. ASSUME NEW w \in Workers, BeginGlass(w) PROVE OwnedFirst'
  BY <1>42 DEF BeginGlass
<1>43. ASSUME NEW w \in Workers, HostKey(w) PROVE OwnedFirst'
  BY <1>43 DEF HostKey
<1>44. ASSUME NEW w \in Workers, KeyRelease(w) PROVE OwnedFirst'
  BY <1>44 DEF KeyRelease
<1>45. ASSUME NEW w \in Workers, EndIo(w) PROVE OwnedFirst'
  BY <1>45 DEF EndIo
<1>46. ASSUME NEW w \in Workers, PendingFullscreen(w) PROVE OwnedFirst'
  BY <1>46 DEF PendingFullscreen
<1>47. ASSUME NEW h \in Handlers, NEW signal \in Ordinary, HandleOrdinary(h, signal)
       PROVE  OwnedFirst'
  BY <1>47 DEF HandleOrdinary
<1>48. ASSUME NEW h \in Handlers, HandlerQueue(h) PROVE OwnedFirst'
  BY <1>48 DEF HandlerQueue
<1>49. ASSUME NEW h \in Handlers, HandlerPipeFull(h) PROVE OwnedFirst'
  BY <1>49 DEF HandlerPipeFull
<1>50. ASSUME NEW h \in Handlers, HandleFatal(h) PROVE OwnedFirst'
  BY <1>50 DEF HandleFatal
<1>51. ASSUME NEW h \in Handlers, HandleCont(h) PROVE OwnedFirst'
  BY <1>51 DEF HandleCont
<1>52. ASSUME NEW h \in Handlers, HandlerCont(h) PROVE OwnedFirst'
  BY <1>52 DEF HandlerCont
<1>53. ASSUME NEW h \in Handlers, HandleWinch(h) PROVE OwnedFirst'
  BY <1>53 DEF HandleWinch
<1>54. ASSUME NEW h \in Handlers, RequestRestore(h) PROVE OwnedFirst'
  BY <1>54 DEF RequestRestore
<1>55. ASSUME NEW t \in Handlers \cup {Dispatcher}, Forward(t) PROVE OwnedFirst'
  BY <1>55 DEF Forward
<1>56. CASE Dispatch           BY <1>56 DEF Dispatch
<1>57. CASE DispatchRelease    BY <1>57 DEF DispatchRelease
<1>58. CASE DispatchUnlock     BY <1>58 DEF DispatchUnlock
<1>59. CASE MoveJob            BY <1>59 DEF MoveJob
<1>60. CASE Dead               BY <1>60 DEF Dead
<1>61. CASE UNCHANGED vars       BY <1>61
<1>62. ASSUME NEW t \in Threads, ReleaseReport(t) PROVE OwnedFirst'
  BY <1>62 DEF ReleaseReport, Return
<1>63. CASE ReportRestored     BY <1>63 DEF ReportRestored
<1>64. ASSUME NEW h \in Handlers, HandlerGeneration(h) PROVE OwnedFirst'
  BY <1>64 DEF HandlerGeneration
<1>65. ASSUME NEW h \in Handlers, HandlerReport(h) PROVE OwnedFirst'
  BY <1>65 DEF HandlerReport
<1> HIDE DEF TypeInv, At, Goto, CallRelease, Lock, Unlock, Idle, Begin, Finish
<1>. QED
  BY <1>1, <1>2, <1>3, <1>4, <1>5, <1>6, <1>7, <1>8, <1>9, <1>10, <1>11, <1>12, <1>13, <1>14,
     <1>15, <1>16, <1>17, <1>18, <1>19, <1>20, <1>21, <1>22, <1>23, <1>24, <1>25, <1>26,
     <1>27, <1>28, <1>29, <1>30, <1>31, <1>32, <1>33, <1>34, <1>35, <1>36, <1>37, <1>38,
     <1>39, <1>40, <1>41, <1>42, <1>43, <1>44, <1>45, <1>46, <1>47, <1>48, <1>49, <1>50,
     <1>51, <1>52, <1>53, <1>54, <1>55, <1>56, <1>57, <1>58, <1>59, <1>60, <1>61, <1>62, <1>63,
     <1>64, <1>65 DEF Next,
     OwnerStarts, OwnerContinues, WorkerStarts, WorkerContinues, HandlerStarts,
     HandlerContinues, DispatcherStep, Release

\* What a release takes is in flight until it is undone.
LEMMA TakenInFlight ==
  ASSUME TypeInv, NEW t \in Threads, ReleaseTake(t)
  PROVE  owned \cup InFlight \subseteq InFlight'
<1> USE DEF TypeInv, TypeOK, ThreadTypes, InFlight, Goto
<1>1. InFlight \subseteq InFlight'
  <2>1. \A u \in Threads \ {t} : rel'[u] = rel[u] /\ pc'[u] = pc[u]
    BY DEF ReleaseTake, Return
  <2>2. pc[t] = "r_take"
    BY DEF ReleaseTake, At
  <2>. QED
    BY <2>1, <2>2
<1>2. CASE owned = {}
  BY <1>1, <1>2
<1>3. CASE owned # {}
  <2>1. ~NothingToUndo
    BY <1>3 DEF NothingToUndo
  <2>2. pc' = [pc EXCEPT ![t] = "r_undo"]
    BY <1>3, <2>1 DEF ReleaseTake
  <2>3. rel' = [rel EXCEPT ![t] = [took |-> owned, was |-> ~blocked, out |-> OutputForeground]]
    BY <2>1 DEF ReleaseTake
  <2>4. pc'[t] = "r_undo" /\ rel'[t].took = owned
    BY <2>2, <2>3
  <2>. QED
    BY <1>1, <2>4
<1>. QED
  BY <1>2, <1>3

\* The last check of a release leaves what other threads have in flight.
LEMMA PublishInFlight ==
  ASSUME TypeInv, NEW t \in Threads, ReleasePublish(t)
  PROVE  InFlight \subseteq InFlight'
<1> USE DEF TypeInv, TypeOK, ThreadTypes, InFlight
<1>1. \A u \in Threads \ {t} : rel'[u] = rel[u] /\ pc'[u] = pc[u]
  BY PublishMoves DEF ReleasePublish, Return
<1>2. pc[t] = "r_publish"
  BY PublishMoves
<1>. QED
  BY <1>1, <1>2

\* Every step keeps the cleanup owed: what leaves owned is in flight, then left for later.
LEMMA CleanupStep ==
  ASSUME TypeInv, OwnedFirst, CleanupOwed, [Next]_vars
  PROVE  CleanupOwed'
<1> USE ThreadsAssumption
    DEF TypeInv, TypeOK, TerminalTypes, ThreadTypes, WorldTypes, OwnedFirst, CleanupOwed,
        InFlight, Threads, Owner, Dispatcher, Free, At, Goto, CallRelease, Lock, Unlock,
        Idle, Begin, Finish, vars, terminal, life, latches, duties, reports, locals,
        session, world, history, rest
<1>1. ASSUME NEW t \in Threads, ReleaseTake(t) PROVE CleanupOwed'
  <2>1. tty' = tty /\ lost' = lost /\ pending_protocols' = pending_protocols
        /\ abandoned' = abandoned
    BY <1>1 DEF ReleaseTake
  <2>2. owned \cup InFlight \subseteq InFlight'
    BY <1>1, TakenInFlight
  <2>. QED
    BY <2>1, <2>2
<1>2. ASSUME NEW t \in Threads, ReleaseUndo(t) PROVE CleanupOwed'
  BY <1>2 DEF ReleaseUndo, CleanupLater
<1>3. ASSUME NEW t \in Threads, ReleasePublish(t) PROVE CleanupOwed'
  <2>1. InFlight \subseteq InFlight'
    BY <1>3, PublishInFlight
  <2>2. UNCHANGED <<tty, duties, lost, abandoned>>
    BY <1>3 DEF ReleasePublish
  <2> HIDE DEF TypeInv, InFlight
  <2>. QED
    BY <2>1, <2>2
<1>4. CASE Capture             BY <1>4 DEF Capture
<1>5. CASE Forget              BY <1>5 DEF Forget
<1>6. CASE Forgotten           BY <1>6 DEF Forgotten
<1>7. ASSUME NEW mode \in Modes, SetInputMode(mode) PROVE CleanupOwed'
  BY <1>7 DEF SetInputMode
<1>8. ASSUME NEW enabled \in BOOLEAN, SetProbeMode(enabled) PROVE CleanupOwed'
  BY <1>8 DEF SetProbeMode
<1>9. CASE OwnInput
  <2>1. InFlight' = InFlight
    BY <1>9 DEF OwnInput
  <2>2. owned \subseteq owned' /\ UNCHANGED <<tty, pending_protocols, lost, abandoned>>
    BY <1>9 DEF OwnInput
  <2>. QED
    BY <2>1, <2>2
<1>10. CASE SetInput           BY <1>10 DEF SetInput
<1>11. CASE OwnKeyboard        BY <1>11 DEF OwnKeyboard, WantsKeyboard
<1>12. CASE WriteKeyboard      BY <1>12 DEF WriteKeyboard, Writes
<1>13. CASE OwnMouse           BY <1>13 DEF OwnMouse
<1>14. CASE WriteMouse         BY <1>14 DEF WriteMouse
<1>15. CASE Conclude           BY <1>15 DEF Conclude
<1>16. CASE ConcludeFailed     BY <1>16 DEF ConcludeFailed
<1>17. CASE Failed             BY <1>17 DEF Failed
<1>18. CASE DisableInput       BY <1>18 DEF DisableInput
<1>19. CASE DisableUndo        BY <1>19 DEF DisableUndo, CleanupLater
<1>20. CASE Restore
  <2>1. InFlight' = InFlight
    BY <1>20 DEF Restore
  <2>. QED
    BY <1>20, <2>1 DEF Restore
<1>21. CASE RestoreRefused     BY <1>21 DEF RestoreRefused
<1>22. CASE Refused            BY <1>22 DEF Refused
<1>23. CASE RestoreUnblock     BY <1>23 DEF RestoreUnblock
<1>24. CASE RestorePending     BY <1>24 DEF RestorePending
<1>25. CASE Poll               BY <1>25 DEF Poll
<1>26. CASE PollLock           BY <1>26 DEF PollLock
<1>27. CASE PollRestore        BY <1>27 DEF PollRestore
<1>28. CASE PollEnd            BY SMTT(30), <1>28 DEF PollEnd
<1>29. ASSUME NEW t \in Workers \cup {Owner}, IoRefused(t) PROVE CleanupOwed'
  BY <1>29 DEF IoRefused
<1>30. CASE Mouse              BY SMTT(30), <1>30 DEF Mouse
<1>31. CASE EnterScreen        BY <1>31 DEF EnterScreen
<1>32. CASE Newterm            BY <1>32 DEF Newterm
<1>33. CASE StartWorkers       BY <1>33 DEF StartWorkers
<1>34. CASE Suspend            BY <1>34 DEF Suspend
<1>35. CASE SuspendRefused     BY <1>35 DEF SuspendRefused, Joined, BeginRefused
<1>36. CASE SuspendQuietly     BY <1>36 DEF SuspendQuietly, Joined
<1>37. CASE SuspendAdmitted    BY <1>37 DEF SuspendAdmitted, Joined
<1>38. CASE Endwin             BY SMTT(30), <1>38 DEF Endwin
<1>39. CASE SuspendRelease     BY <1>39 DEF SuspendRelease
<1>40. ASSUME NEW w \in Workers, BeginFrame(w) PROVE CleanupOwed'
  <2>1. InFlight' = InFlight
    BY <1>40 DEF BeginFrame, Working
  <2>. QED
    BY <1>40, <2>1 DEF BeginFrame
<1>41. ASSUME NEW w \in Workers, FrameRefused(w) PROVE CleanupOwed'
  BY <1>41 DEF FrameRefused, Working, BeginRefused
<1>42. ASSUME NEW w \in Workers, BeginGlass(w) PROVE CleanupOwed'
  BY SMTT(30), <1>42 DEF BeginGlass, Working
<1>43. ASSUME NEW w \in Workers, HostKey(w) PROVE CleanupOwed'
  BY <1>43 DEF HostKey, Working
<1>44. ASSUME NEW w \in Workers, KeyRelease(w) PROVE CleanupOwed'
  <2>1. InFlight' = InFlight
    BY <1>44 DEF KeyRelease
  <2>. QED
    BY <1>44, <2>1 DEF KeyRelease
<1>45. ASSUME NEW w \in Workers, EndIo(w) PROVE CleanupOwed'
  BY SMTT(30), <1>45 DEF EndIo
<1>46. ASSUME NEW w \in Workers, PendingFullscreen(w) PROVE CleanupOwed'
  BY <1>46 DEF PendingFullscreen
<1>47. ASSUME NEW h \in Handlers, NEW signal \in Ordinary, HandleOrdinary(h, signal)
       PROVE  CleanupOwed'
  BY SMTT(30), <1>47 DEF HandleOrdinary, Arrives
<1>48. ASSUME NEW h \in Handlers, HandlerQueue(h) PROVE CleanupOwed'
  <2>1. InFlight' = InFlight
    BY <1>48 DEF HandlerQueue
  <2>. QED
    BY <1>48, <2>1 DEF HandlerQueue
<1>49. ASSUME NEW h \in Handlers, HandlerPipeFull(h) PROVE CleanupOwed'
  BY <1>49 DEF HandlerPipeFull
<1>50. ASSUME NEW h \in Handlers, HandleFatal(h) PROVE CleanupOwed'
  BY <1>50 DEF HandleFatal, Arrives
<1>51. ASSUME NEW h \in Handlers, HandleCont(h) PROVE CleanupOwed'
  BY <1>51 DEF HandleCont
<1>52. ASSUME NEW h \in Handlers, HandlerCont(h) PROVE CleanupOwed'
  BY <1>52 DEF HandlerCont
<1>53. ASSUME NEW h \in Handlers, HandleWinch(h) PROVE CleanupOwed'
  BY <1>53 DEF HandleWinch
<1>54. ASSUME NEW h \in Handlers, RequestRestore(h) PROVE CleanupOwed'
  BY <1>54 DEF RequestRestore
<1>55. ASSUME NEW t \in Handlers \cup {Dispatcher}, Forward(t) PROVE CleanupOwed'
  BY <1>55 DEF Forward
<1>56. CASE Dispatch           BY SMTT(30), <1>56 DEF Dispatch
<1>57. CASE DispatchRelease    BY <1>57 DEF DispatchRelease
<1>58. CASE DispatchUnlock     BY <1>58 DEF DispatchUnlock
<1>59. CASE MoveJob            BY <1>59 DEF MoveJob
<1>60. CASE Dead               BY <1>60 DEF Dead
<1>61. CASE UNCHANGED vars       BY <1>61
<1>62. ASSUME NEW t \in Threads, ReleaseReport(t) PROVE CleanupOwed'
  BY <1>62 DEF ReleaseReport, Return
<1>63. CASE ReportRestored     BY <1>63 DEF ReportRestored
<1>64. ASSUME NEW h \in Handlers, HandlerGeneration(h) PROVE CleanupOwed'
  BY <1>64 DEF HandlerGeneration
<1>65. ASSUME NEW h \in Handlers, HandlerReport(h) PROVE CleanupOwed'
  BY <1>65 DEF HandlerReport
<1> HIDE DEF TypeInv, At, Goto, CallRelease, Lock, Unlock, Idle, Begin, Finish
<1>. QED
  BY <1>1, <1>2, <1>3, <1>4, <1>5, <1>6, <1>7, <1>8, <1>9, <1>10, <1>11, <1>12, <1>13, <1>14,
     <1>15, <1>16, <1>17, <1>18, <1>19, <1>20, <1>21, <1>22, <1>23, <1>24, <1>25, <1>26,
     <1>27, <1>28, <1>29, <1>30, <1>31, <1>32, <1>33, <1>34, <1>35, <1>36, <1>37, <1>38,
     <1>39, <1>40, <1>41, <1>42, <1>43, <1>44, <1>45, <1>46, <1>47, <1>48, <1>49, <1>50,
     <1>51, <1>52, <1>53, <1>54, <1>55, <1>56, <1>57, <1>58, <1>59, <1>60, <1>61, <1>62, <1>63,
     <1>64, <1>65 DEF Next,
     OwnerStarts, OwnerContinues, WorkerStarts, WorkerContinues, HandlerStarts,
     HandlerContinues, DispatcherStep, Release

(***************************************************************************)
(* While every release runs under the gate (no fatal signal, no full pipe),*)
(* whatever protocol is on at the terminal, somebody owes its cleanup, for *)
(* every set of threads, operations, modes and failing calls.              *)
(***************************************************************************)
THEOREM CleanupIsOwed == NoEmergency => (Spec => []CleanupOwed)
<1> SUFFICES ASSUME NoEmergency PROVE Spec => []CleanupOwed
  OBVIOUS
<1>1. Init => OwnedFirst /\ CleanupOwed
  BY DEF Init, OwnedFirst, CleanupOwed, Threads, Owner
<1>2. TypeInv /\ GateDiscipline /\ ReleasesGated /\ OwnedFirst /\ [Next]_vars => OwnedFirst'
  BY OwnedFirstStep
<1>3. TypeInv /\ OwnedFirst /\ CleanupOwed /\ [Next]_vars => CleanupOwed'
  BY CleanupStep
<1>. QED
  BY <1>1, <1>2, <1>3, TypeCorrect, GateHeld, GatedReleases, PTL DEF Spec

-----------------------------------------------------------------------------
(***************************************************************************)
(* stop_session() releases without the gate, but only after the workers    *)
(* are joined; forget comes after it; an active session has a capture.     *)
(***************************************************************************)
AfterJoin ==
  \/ pc[Owner] \in {"endwin", "suspend_release", "io_refused"}
  \/ pc[Owner] \in ReleaseLabels /\ ret[Owner] \in {"io_refused", "idle"}
Forgetting ==
  \/ pc[Owner] = "forgotten"
  \/ pc[Owner] \in ReleaseLabels /\ ret[Owner] = "forgotten"
SessionInv ==
  /\ active => captured
  /\ pc[Owner] = "suspend_join" \/ Forgetting => ~active
  /\ AfterJoin => ~active /\ \A w \in Workers : pc[w] = "idle"

\* Every step keeps the session's order of stopping.
LEMMA SessionStep ==
  ASSUME TypeInv, SessionInv, [Next]_vars
  PROVE  SessionInv'
<1> USE ThreadsAssumption
    DEF TypeInv, TypeOK, TerminalTypes, ThreadTypes, WorldTypes, PlaceInv, SessionInv,
        AfterJoin, Forgetting, Threads, Owner, Dispatcher, Free, At, Goto, CallRelease,
        Lock, Unlock, Idle, Begin, Finish, vars, terminal, life, latches, duties, reports,
        locals, session, world, history, rest
<1>1. ASSUME NEW t \in Threads, ReleaseTake(t) PROVE SessionInv'
  <2>1. UNCHANGED <<active, captured>>
    BY <1>1 DEF ReleaseTake
  <2> HIDE DEF TypeInv
  <2>. QED
    BY <1>1, <2>1, TakePlaces
<1>2. ASSUME NEW t \in Threads, ReleaseUndo(t) PROVE SessionInv'
  BY <1>2 DEF ReleaseUndo
<1>3. ASSUME NEW t \in Threads, ReleasePublish(t) PROVE SessionInv'
  <2>1. UNCHANGED <<active, captured>>
    BY <1>3 DEF ReleasePublish
  <2> HIDE DEF TypeInv
  <2>. QED
    BY <1>3, <2>1, PublishPlaces
<1>4. CASE Capture             BY <1>4 DEF Capture
<1>5. CASE Forget              BY <1>5 DEF Forget
<1>6. CASE Forgotten           BY <1>6 DEF Forgotten
<1>7. ASSUME NEW mode \in Modes, SetInputMode(mode) PROVE SessionInv'
  BY <1>7 DEF SetInputMode
<1>8. ASSUME NEW enabled \in BOOLEAN, SetProbeMode(enabled) PROVE SessionInv'
  BY <1>8 DEF SetProbeMode
<1>9. CASE OwnInput            BY <1>9 DEF OwnInput
<1>10. CASE SetInput           BY <1>10 DEF SetInput
<1>11. CASE OwnKeyboard        BY <1>11 DEF OwnKeyboard
<1>12. CASE WriteKeyboard      BY <1>12 DEF WriteKeyboard
<1>13. CASE OwnMouse           BY <1>13 DEF OwnMouse
<1>14. CASE WriteMouse         BY <1>14 DEF WriteMouse
<1>15. CASE Conclude           BY <1>15 DEF Conclude
<1>16. CASE ConcludeFailed     BY <1>16 DEF ConcludeFailed
<1>17. CASE Failed             BY <1>17 DEF Failed
<1>18. CASE DisableInput       BY <1>18 DEF DisableInput
<1>19. CASE DisableUndo        BY <1>19 DEF DisableUndo
<1>20. CASE Restore            BY <1>20 DEF Restore
<1>21. CASE RestoreRefused     BY <1>21 DEF RestoreRefused
<1>22. CASE Refused            BY <1>22 DEF Refused
<1>23. CASE RestoreUnblock     BY <1>23 DEF RestoreUnblock
<1>24. CASE RestorePending     BY <1>24 DEF RestorePending
<1>25. CASE Poll               BY <1>25 DEF Poll
<1>26. CASE PollLock           BY <1>26 DEF PollLock
<1>27. CASE PollRestore        BY <1>27 DEF PollRestore
<1>28. CASE PollEnd            BY <1>28 DEF PollEnd
<1>29. ASSUME NEW t \in Workers \cup {Owner}, IoRefused(t) PROVE SessionInv'
  BY <1>29 DEF IoRefused
<1>30. CASE Mouse              BY <1>30 DEF Mouse
<1>31. CASE EnterScreen        BY <1>31 DEF EnterScreen
<1>32. CASE Newterm            BY <1>32 DEF Newterm
<1>33. CASE StartWorkers       BY <1>33 DEF StartWorkers
<1>34. CASE Suspend            BY <1>34 DEF Suspend
<1>35. CASE SuspendRefused     BY <1>35 DEF SuspendRefused, Joined, BeginRefused
<1>36. CASE SuspendQuietly     BY <1>36 DEF SuspendQuietly, Joined
<1>37. CASE SuspendAdmitted    BY <1>37 DEF SuspendAdmitted, Joined
<1>38. CASE Endwin             BY <1>38 DEF Endwin
<1>39. CASE SuspendRelease     BY <1>39 DEF SuspendRelease
<1>40. ASSUME NEW w \in Workers, BeginFrame(w) PROVE SessionInv'
  BY <1>40 DEF BeginFrame, Working
<1>41. ASSUME NEW w \in Workers, FrameRefused(w) PROVE SessionInv'
  BY <1>41 DEF FrameRefused, Working, BeginRefused
<1>42. ASSUME NEW w \in Workers, BeginGlass(w) PROVE SessionInv'
  BY <1>42 DEF BeginGlass, Working
<1>43. ASSUME NEW w \in Workers, HostKey(w) PROVE SessionInv'
  BY <1>43 DEF HostKey, Working
<1>44. ASSUME NEW w \in Workers, KeyRelease(w) PROVE SessionInv'
  BY <1>44 DEF KeyRelease
<1>45. ASSUME NEW w \in Workers, EndIo(w) PROVE SessionInv'
  BY <1>45 DEF EndIo
<1>46. ASSUME NEW w \in Workers, PendingFullscreen(w) PROVE SessionInv'
  BY <1>46 DEF PendingFullscreen
<1>47. ASSUME NEW h \in Handlers, NEW signal \in Ordinary, HandleOrdinary(h, signal)
       PROVE  SessionInv'
  BY <1>47 DEF HandleOrdinary
<1>48. ASSUME NEW h \in Handlers, HandlerQueue(h) PROVE SessionInv'
  BY <1>48 DEF HandlerQueue
<1>49. ASSUME NEW h \in Handlers, HandlerPipeFull(h) PROVE SessionInv'
  BY <1>49 DEF HandlerPipeFull
<1>50. ASSUME NEW h \in Handlers, HandleFatal(h) PROVE SessionInv'
  BY <1>50 DEF HandleFatal
<1>51. ASSUME NEW h \in Handlers, HandleCont(h) PROVE SessionInv'
  BY <1>51 DEF HandleCont
<1>52. ASSUME NEW h \in Handlers, HandlerCont(h) PROVE SessionInv'
  BY <1>52 DEF HandlerCont
<1>53. ASSUME NEW h \in Handlers, HandleWinch(h) PROVE SessionInv'
  BY <1>53 DEF HandleWinch
<1>54. ASSUME NEW h \in Handlers, RequestRestore(h) PROVE SessionInv'
  BY <1>54 DEF RequestRestore
<1>55. ASSUME NEW t \in Handlers \cup {Dispatcher}, Forward(t) PROVE SessionInv'
  BY <1>55 DEF Forward
<1>56. CASE Dispatch           BY <1>56 DEF Dispatch
<1>57. CASE DispatchRelease    BY <1>57 DEF DispatchRelease
<1>58. CASE DispatchUnlock     BY <1>58 DEF DispatchUnlock
<1>59. CASE MoveJob            BY <1>59 DEF MoveJob
<1>60. CASE Dead               BY <1>60 DEF Dead
<1>61. CASE UNCHANGED vars       BY <1>61
<1>62. ASSUME NEW t \in Threads, ReleaseReport(t) PROVE SessionInv'
  BY SMTT(30), <1>62 DEF ReleaseReport, Return
<1>63. CASE ReportRestored     BY <1>63 DEF ReportRestored
<1>64. ASSUME NEW h \in Handlers, HandlerGeneration(h) PROVE SessionInv'
  BY <1>64 DEF HandlerGeneration
<1>65. ASSUME NEW h \in Handlers, HandlerReport(h) PROVE SessionInv'
  BY <1>65 DEF HandlerReport
<1> HIDE DEF TypeInv, At, Goto, CallRelease, Lock, Unlock, Idle, Begin, Finish
<1>. QED
  BY <1>1, <1>2, <1>3, <1>4, <1>5, <1>6, <1>7, <1>8, <1>9, <1>10, <1>11, <1>12, <1>13, <1>14,
     <1>15, <1>16, <1>17, <1>18, <1>19, <1>20, <1>21, <1>22, <1>23, <1>24, <1>25, <1>26,
     <1>27, <1>28, <1>29, <1>30, <1>31, <1>32, <1>33, <1>34, <1>35, <1>36, <1>37, <1>38,
     <1>39, <1>40, <1>41, <1>42, <1>43, <1>44, <1>45, <1>46, <1>47, <1>48, <1>49, <1>50,
     <1>51, <1>52, <1>53, <1>54, <1>55, <1>56, <1>57, <1>58, <1>59, <1>60, <1>61, <1>62, <1>63,
     <1>64, <1>65 DEF Next,
     OwnerStarts, OwnerContinues, WorkerStarts, WorkerContinues, HandlerStarts,
     HandlerContinues, DispatcherStep, Release

(***************************************************************************)
(* A worker whose cached generation is current sees the screen that it     *)
(* drew, unless a release is about to publish the next generation.         *)
(***************************************************************************)
SeesIntact == \A w \in Workers :
  active /\ w \in observed /\ (\A t \in Threads : pc[t] # "r_publish") => intact[w]
DrawInv == SeesIntact /\ DrawsOnIntactTerminal

\* No worker is in a frame while a release runs.
LEMMA WorkerOutside ==
  ASSUME TypeInv, GateDiscipline, ReleasesGated, SessionInv,
         NEW t \in Threads, pc[t] \in ReleaseLabels, NEW w \in Workers
  PROVE  pc[w] # "frame"
<1> USE ThreadsAssumption DEF Threads, Owner
<1>1. CASE t = w
  BY <1>1
<1>2. CASE t # w /\ InGate(t)
  <2>2. ~InGate(w)
    BY <1>2 DEF GateDiscipline, Threads
  <2>. QED
    BY <2>2 DEF InGate
<1>3. CASE ~InGate(t)
  <2>1. AfterJoin
    BY <1>3 DEF ReleasesGated, InGate, AfterJoin
  <2>. QED
    BY <2>1 DEF SessionInv
<1>. QED
  BY <1>1, <1>2, <1>3

\* Every step keeps it, and the frames that are drawn on an intact terminal.
LEMMA DrawStep ==
  ASSUME TypeInv, GateDiscipline, ReleasesGated, SessionInv, DrawInv, [Next]_vars
  PROVE  DrawInv'
<1> USE ThreadsAssumption, WorkerOutside
    DEF TypeInv, TypeOK, TerminalTypes, ThreadTypes, WorldTypes, PlaceInv, DrawInv,
        SeesIntact, DrawsOnIntactTerminal, Threads, Owner, Dispatcher, Free, At, Goto,
        CallRelease, Lock, Unlock, Idle, Begin, Finish, vars, terminal, life, latches,
        duties, reports, locals, session, world, history, rest
<1>1. ASSUME NEW t \in Threads, ReleaseTake(t) PROVE DrawInv'
  <2>1. UNCHANGED <<active, observed, intact>>
    BY <1>1 DEF ReleaseTake
  <2>2. pc[t] = "r_take" /\ \E l \in Returns \cup {"r_publish", "r_undo"} : pc' = [pc EXCEPT ![t] = l]
    BY <1>1 DEF ReleaseTake, Return
  <2>3. SeesIntact'
    BY <2>1, <2>2
  <2>4. DrawsOnIntactTerminal'
    BY <2>1, <2>2
  <2>. QED
    BY <2>3, <2>4
<1>2. ASSUME NEW t \in Threads, ReleaseUndo(t) PROVE DrawInv'
  BY <1>2 DEF ReleaseUndo
<1>3. ASSUME NEW t \in Threads, ReleasePublish(t) PROVE DrawInv'
  <2>2. pc'[t] # "frame" /\ (\A u \in Threads \ {t} : pc'[u] = pc[u])
    BY <1>3, PublishMoves
  <2>3. active' = active /\ intact' = intact /\ (active => observed' = {})
    BY <1>3 DEF ReleasePublish, SessionInv, NextGeneration
  <2>. QED
    BY <2>2, <2>3
<1>4. CASE Capture             BY <1>4 DEF Capture
<1>5. CASE Forget              BY <1>5 DEF Forget
<1>6. CASE Forgotten           BY <1>6 DEF Forgotten
<1>7. ASSUME NEW mode \in Modes, SetInputMode(mode) PROVE DrawInv'
  BY <1>7 DEF SetInputMode
<1>8. ASSUME NEW enabled \in BOOLEAN, SetProbeMode(enabled) PROVE DrawInv'
  BY <1>8 DEF SetProbeMode
<1>9. CASE OwnInput            BY <1>9 DEF OwnInput
<1>10. CASE SetInput
  <2>1. UNCHANGED <<active, observed, intact>>
    BY <1>10 DEF SetInput
  <2>2. \E l \in {"own_keyboard", "conclude"} : pc' = [pc EXCEPT ![Owner] = l]
    BY <1>10 DEF SetInput
  <2>3. pc[Owner] = "set_input"
    BY <1>10 DEF SetInput
  <2>. QED
    BY <2>1, <2>2, <2>3
<1>11. CASE OwnKeyboard        BY <1>11 DEF OwnKeyboard
<1>12. CASE WriteKeyboard
  <2>1. UNCHANGED <<active, observed, intact>>
    BY <1>12 DEF WriteKeyboard
  <2>2. \E l \in {"own_mouse", "conclude"} : pc' = [pc EXCEPT ![Owner] = l]
    BY <1>12 DEF WriteKeyboard
  <2>3. pc[Owner] = "write_keyboard"
    BY <1>12 DEF WriteKeyboard
  <2>. QED
    BY <2>1, <2>2, <2>3
<1>13. CASE OwnMouse           BY SMTT(30), <1>13 DEF OwnMouse
<1>14. CASE WriteMouse         BY <1>14 DEF WriteMouse
<1>15. CASE Conclude
  <2>1. UNCHANGED <<active, intact>> /\ (observed' = observed \/ observed' = {})
    BY <1>15 DEF Conclude, NextGeneration
  <2>2. \E l \in {"idle", "poll_end", "report"} : pc' = [pc EXCEPT ![Owner] = l]
    BY <1>15 DEF Conclude
  <2>3. pc[Owner] = "conclude"
    BY <1>15 DEF Conclude
  <2>. QED
    BY <2>1, <2>2, <2>3
<1>16. CASE ConcludeFailed     BY <1>16 DEF ConcludeFailed
<1>17. CASE Failed             BY <1>17 DEF Failed
<1>18. CASE DisableInput       BY <1>18 DEF DisableInput
<1>19. CASE DisableUndo        BY <1>19 DEF DisableUndo
<1>20. CASE Restore            BY <1>20 DEF Restore
<1>21. CASE RestoreRefused     BY <1>21 DEF RestoreRefused
<1>22. CASE Refused            BY <1>22 DEF Refused
<1>23. CASE RestoreUnblock     BY <1>23 DEF RestoreUnblock
<1>24. CASE RestorePending     BY <1>24 DEF RestorePending
<1>25. CASE Poll               BY <1>25 DEF Poll
<1>26. CASE PollLock           BY <1>26 DEF PollLock
<1>27. CASE PollRestore        BY <1>27 DEF PollRestore
<1>28. CASE PollEnd            BY <1>28 DEF PollEnd
<1>29. ASSUME NEW t \in Workers \cup {Owner}, IoRefused(t) PROVE DrawInv'
  BY <1>29 DEF IoRefused
<1>30. CASE Mouse              BY <1>30 DEF Mouse
<1>31. CASE EnterScreen        BY <1>31 DEF EnterScreen
<1>32. CASE Newterm            BY <1>32 DEF Newterm
<1>33. CASE StartWorkers       BY <1>33 DEF StartWorkers
<1>34. CASE Suspend            BY <1>34 DEF Suspend
<1>35. CASE SuspendRefused     BY <1>35 DEF SuspendRefused, Joined, BeginRefused
<1>36. CASE SuspendQuietly     BY <1>36 DEF SuspendQuietly, Joined
<1>37. CASE SuspendAdmitted    BY <1>37 DEF SuspendAdmitted, Joined
<1>38. CASE Endwin             BY <1>38 DEF Endwin
<1>39. CASE SuspendRelease
  <2>1. UNCHANGED <<active, observed, intact>>
    BY <1>39 DEF SuspendRelease
  <2>2. \E l \in {"r_take", "idle"} : pc' = [pc EXCEPT ![Owner] = l]
    BY <1>39 DEF SuspendRelease
  <2>3. pc[Owner] = "suspend_release"
    BY <1>39 DEF SuspendRelease
  <2>. QED
    BY <2>1, <2>2, <2>3
<1>40. ASSUME NEW w \in Workers, BeginFrame(w) PROVE DrawInv'
  <2>1. \A t \in Threads : pc[t] # "r_publish"
    <3>1. SUFFICES ASSUME NEW t \in Threads, pc[t] = "r_publish" PROVE FALSE
      OBVIOUS
    <3>2. CASE InGate(t)
      BY <1>40, <3>2 DEF BeginFrame, GateDiscipline
    <3>3. CASE ~InGate(t)
      <4>1. AfterJoin
        BY <3>1, <3>3 DEF ReleasesGated, InGate, AfterJoin
      <4>. QED
        BY <1>40, <4>1 DEF SessionInv, BeginFrame, Working
    <3>. QED
      BY <3>2, <3>3
  <2>2. active /\ active' = active /\ observed' = observed \cup {w}
    BY <1>40 DEF BeginFrame, Working
  <2>3. intact' = IF w \in observed THEN intact ELSE [intact EXCEPT ![w] = TRUE]
    BY <1>40 DEF BeginFrame
  <2>4. pc' = [pc EXCEPT ![w] = "frame"]
    BY <1>40 DEF BeginFrame
  <2>5. intact'[w] 
    BY <2>1, <2>2, <2>3
  <2>6. \A v \in Workers : intact[v] => intact'[v]
    BY <2>3
  <2>7. \A v \in Workers : v \in observed => intact[v]
    BY <2>1, <2>2
  <2>8. SeesIntact'
    BY <2>2, <2>5, <2>6, <2>7
  <2>9. DrawsOnIntactTerminal'
    BY <2>4, <2>5, <2>6
  <2>. QED
    BY <2>8, <2>9
<1>41. ASSUME NEW w \in Workers, FrameRefused(w) PROVE DrawInv'
  BY <1>41 DEF FrameRefused, Working, BeginRefused
<1>42. ASSUME NEW w \in Workers, BeginGlass(w) PROVE DrawInv'
  BY <1>42 DEF BeginGlass, Working
<1>43. ASSUME NEW w \in Workers, HostKey(w) PROVE DrawInv'
  BY <1>43 DEF HostKey, Working
<1>44. ASSUME NEW w \in Workers, KeyRelease(w) PROVE DrawInv'
  BY <1>44 DEF KeyRelease
<1>45. ASSUME NEW w \in Workers, EndIo(w) PROVE DrawInv'
  BY <1>45 DEF EndIo
<1>46. ASSUME NEW w \in Workers, PendingFullscreen(w) PROVE DrawInv'
  BY <1>46 DEF PendingFullscreen
<1>47. ASSUME NEW h \in Handlers, NEW signal \in Ordinary, HandleOrdinary(h, signal)
       PROVE  DrawInv'
  BY <1>47 DEF HandleOrdinary, Arrives
<1>48. ASSUME NEW h \in Handlers, HandlerQueue(h) PROVE DrawInv'
  BY <1>48 DEF HandlerQueue
<1>49. ASSUME NEW h \in Handlers, HandlerPipeFull(h) PROVE DrawInv'
  BY <1>49 DEF HandlerPipeFull
<1>50. ASSUME NEW h \in Handlers, HandleFatal(h) PROVE DrawInv'
  BY <1>50 DEF HandleFatal, Arrives
<1>51. ASSUME NEW h \in Handlers, HandleCont(h) PROVE DrawInv'
  BY <1>51 DEF HandleCont
<1>52. ASSUME NEW h \in Handlers, HandlerCont(h) PROVE DrawInv'
  BY <1>52 DEF HandlerCont
<1>53. ASSUME NEW h \in Handlers, HandleWinch(h) PROVE DrawInv'
  BY <1>53 DEF HandleWinch
<1>54. ASSUME NEW h \in Handlers, RequestRestore(h) PROVE DrawInv'
  BY <1>54 DEF RequestRestore
<1>55. ASSUME NEW t \in Handlers \cup {Dispatcher}, Forward(t) PROVE DrawInv'
  BY <1>55 DEF Forward
<1>56. CASE Dispatch           BY <1>56 DEF Dispatch
<1>57. CASE DispatchRelease    BY <1>57 DEF DispatchRelease
<1>58. CASE DispatchUnlock     BY <1>58 DEF DispatchUnlock
<1>59. CASE MoveJob            BY <1>59 DEF MoveJob
<1>60. CASE Dead               BY <1>60 DEF Dead
<1>61. CASE UNCHANGED vars       BY <1>61
<1>62. ASSUME NEW t \in Threads, ReleaseReport(t) PROVE DrawInv'
  BY <1>62 DEF ReleaseReport, Return
<1>63. CASE ReportRestored     BY <1>63 DEF ReportRestored
<1>64. ASSUME NEW h \in Handlers, HandlerGeneration(h) PROVE DrawInv'
  BY <1>64 DEF HandlerGeneration, NextGeneration
<1>65. ASSUME NEW h \in Handlers, HandlerReport(h) PROVE DrawInv'
  BY <1>65 DEF HandlerReport
<1> HIDE DEF TypeInv, At, Goto, CallRelease, Lock, Unlock, Idle, Begin, Finish
<1>. QED
  BY <1>1, <1>2, <1>3, <1>4, <1>5, <1>6, <1>7, <1>8, <1>9, <1>10, <1>11, <1>12, <1>13, <1>14,
     <1>15, <1>16, <1>17, <1>18, <1>19, <1>20, <1>21, <1>22, <1>23, <1>24, <1>25, <1>26,
     <1>27, <1>28, <1>29, <1>30, <1>31, <1>32, <1>33, <1>34, <1>35, <1>36, <1>37, <1>38,
     <1>39, <1>40, <1>41, <1>42, <1>43, <1>44, <1>45, <1>46, <1>47, <1>48, <1>49, <1>50,
     <1>51, <1>52, <1>53, <1>54, <1>55, <1>56, <1>57, <1>58, <1>59, <1>60, <1>61, <1>62, <1>63,
     <1>64, <1>65 DEF Next,
     OwnerStarts, OwnerContinues, WorkerStarts, WorkerContinues, HandlerStarts,
     HandlerContinues, DispatcherStep, Release

(***************************************************************************)
(* No frame, full or incremental, is drawn on a screen that a release has  *)
(* torn down: the gate, the generation and the join are enough for that.   *)
(***************************************************************************)
THEOREM FramesAreIntact == NoEmergency => (Spec => []DrawsOnIntactTerminal)
<1> SUFFICES ASSUME NoEmergency PROVE Spec => []DrawsOnIntactTerminal
  OBVIOUS
<1>1. Init => SessionInv /\ DrawInv
  BY ThreadsAssumption DEF Init, SessionInv, AfterJoin, Forgetting, DrawInv, SeesIntact,
     DrawsOnIntactTerminal, Threads, Owner
<1>2. TypeInv /\ SessionInv /\ [Next]_vars => SessionInv'
  BY SessionStep
<1>3. TypeInv /\ GateDiscipline /\ ReleasesGated /\ SessionInv /\ DrawInv /\ [Next]_vars
        => DrawInv'
  BY DrawStep
<1>4. DrawInv => DrawsOnIntactTerminal
  BY DEF DrawInv
<1>. QED
  BY <1>1, <1>2, <1>3, <1>4, TypeCorrect, GateHeld, GatedReleases, PTL DEF Spec

-----------------------------------------------------------------------------
(***************************************************************************)
(* The owner checks blocked under the gate and applies modes later: if a   *)
(* signal blocks the terminal in between, its teardown is on its way.      *)
(***************************************************************************)
Applying ==
  \/ pc[Owner] \in {"own_input", "set_input", "own_keyboard", "write_keyboard", "own_mouse",
                    "write_mouse", "newterm", "restore_pending"}
  \/ pc[Owner] = "disable_undo" /\ rel[Owner].took # {}
BlockedInv == blocked /\ (owned # {} \/ Applying) => TeardownOnItsWay

\* Every step keeps a teardown on its way.
LEMMA BlockedStep ==
  ASSUME NoEmergency, TypeInv, GateDiscipline, ReleasesGated, BlockedInv, [Next]_vars
  PROVE  BlockedInv'
<1> USE ThreadsAssumption, OwnerOutside
    DEF TypeInv, TypeOK, TerminalTypes, ThreadTypes, WorldTypes, PlaceInv, NoEmergency,
        Applying, BlockedInv, TeardownOnItsWay, Queueing, Threads, Owner, Dispatcher,
        Free, At, Goto, CallRelease, Lock, Unlock, Idle, Begin, Finish, vars, terminal,
        life, latches, duties, reports, locals, session, world, history, rest
<1>1. ASSUME NEW t \in Threads, ReleaseTake(t) PROVE BlockedInv'
  <2>1. owned' = {}
    BY <1>1 DEF ReleaseTake
  <2>2. ~Applying'
    <3>1. pc[Owner] \notin GateLabels
      BY <1>1, TakeMoves
    <3>2. pc'[Owner] = pc[Owner] \/ pc'[Owner] \in Returns \cup {"r_publish", "r_undo"}
      BY <1>1, TakePlaces
    <3>. QED
      BY <3>1, <3>2
  <2>. QED
    BY <2>1, <2>2
<1>2. ASSUME NEW t \in Threads, ReleaseUndo(t) PROVE BlockedInv'
  BY <1>2 DEF ReleaseUndo
<1>3. ASSUME NEW t \in Threads, ReleasePublish(t) PROVE BlockedInv'
  <2>1. UNCHANGED <<blocked, owned, pipe>>
    BY <1>3 DEF ReleasePublish
  <2>2. ~Applying'
    <3>1. pc[Owner] \notin GateLabels
      BY <1>3, PublishMoves
    <3>2. pc'[Owner] = pc[Owner] \/ pc'[Owner] \in Returns \cup {"r_report"}
      BY <1>3, PublishPlaces
    <3>. QED
      BY <3>1, <3>2
  <2>3. TeardownOnItsWay => TeardownOnItsWay'
    BY <1>3, <2>1, PublishMoves
  <2>. QED
    BY <2>1, <2>2, <2>3
<1>4. CASE Capture             BY <1>4 DEF Capture
<1>5. CASE Forget              BY <1>5 DEF Forget
<1>6. CASE Forgotten           BY <1>6 DEF Forgotten
<1>7. ASSUME NEW mode \in Modes, SetInputMode(mode) PROVE BlockedInv'
  BY <1>7 DEF SetInputMode, Applies
<1>8. ASSUME NEW enabled \in BOOLEAN, SetProbeMode(enabled) PROVE BlockedInv'
  BY <1>8 DEF SetProbeMode, Applies
<1>9. CASE OwnInput            BY <1>9 DEF OwnInput
<1>10. CASE SetInput           BY <1>10 DEF SetInput
<1>11. CASE OwnKeyboard        BY <1>11 DEF OwnKeyboard
<1>12. CASE WriteKeyboard      BY <1>12 DEF WriteKeyboard
<1>13. CASE OwnMouse           BY <1>13 DEF OwnMouse
<1>14. CASE WriteMouse         BY <1>14 DEF WriteMouse
<1>15. CASE Conclude           BY <1>15 DEF Conclude
<1>16. CASE ConcludeFailed     BY <1>16 DEF ConcludeFailed
<1>17. CASE Failed             BY <1>17 DEF Failed
<1>18. CASE DisableInput       BY <1>18 DEF DisableInput
<1>19. CASE DisableUndo
  <2>1. UNCHANGED <<blocked, pipe, cur>> /\ pc[Owner] = "disable_undo"
    BY <1>19 DEF DisableUndo
  <2>2. owned' # {} => owned # {} \/ rel[Owner].took # {}
    <3> HIDE DEF TypeInv, TypeOK, TerminalTypes, ThreadTypes, WorldTypes, PlaceInv, Applying,
             BlockedInv, TeardownOnItsWay, Queueing
    <3>1. \E failed \in SUBSET rel[Owner].took : owned' = owned \cup failed
      BY <1>19, SMTT(60) DEF DisableUndo, Failing
    <3>. QED
      BY <3>1
  <2>3. \E l \in {"idle", "poll_end"} : pc' = [pc EXCEPT ![Owner] = l]
    BY <1>19 DEF DisableUndo
  <2>4. ~Applying'
    BY <2>3
  <2>5. TeardownOnItsWay => TeardownOnItsWay'
    BY <2>1, <2>3
  <2>. QED
    BY <2>1, <2>2, <2>4, <2>5
<1>20. CASE Restore            BY <1>20 DEF Restore
<1>21. CASE RestoreRefused     BY <1>21 DEF RestoreRefused
<1>22. CASE Refused            BY <1>22 DEF Refused
<1>23. CASE RestoreUnblock     BY <1>23 DEF RestoreUnblock
<1>24. CASE RestorePending     BY <1>24 DEF RestorePending
<1>25. CASE Poll               BY <1>25 DEF Poll
<1>26. CASE PollLock           BY <1>26 DEF PollLock
<1>27. CASE PollRestore        BY <1>27 DEF PollRestore
<1>28. CASE PollEnd            BY <1>28 DEF PollEnd
<1>29. ASSUME NEW t \in Workers \cup {Owner}, IoRefused(t) PROVE BlockedInv'
  BY <1>29 DEF IoRefused
<1>30. CASE Mouse              BY <1>30 DEF Mouse, Admitted
<1>31. CASE EnterScreen        BY <1>31 DEF EnterScreen, Admitted
<1>32. CASE Newterm            BY <1>32 DEF Newterm
<1>33. CASE StartWorkers       BY <1>33 DEF StartWorkers
<1>34. CASE Suspend            BY <1>34 DEF Suspend
<1>35. CASE SuspendRefused     BY <1>35 DEF SuspendRefused, BeginRefused
<1>36. CASE SuspendQuietly     BY <1>36 DEF SuspendQuietly
<1>37. CASE SuspendAdmitted    BY <1>37 DEF SuspendAdmitted
<1>38. CASE Endwin             BY <1>38 DEF Endwin
<1>39. CASE SuspendRelease     BY <1>39 DEF SuspendRelease
<1>40. ASSUME NEW w \in Workers, BeginFrame(w) PROVE BlockedInv'
  BY <1>40 DEF BeginFrame
<1>41. ASSUME NEW w \in Workers, FrameRefused(w) PROVE BlockedInv'
  BY <1>41 DEF FrameRefused, BeginRefused
<1>42. ASSUME NEW w \in Workers, BeginGlass(w) PROVE BlockedInv'
  BY <1>42 DEF BeginGlass
<1>43. ASSUME NEW w \in Workers, HostKey(w) PROVE BlockedInv'
  BY <1>43 DEF HostKey
<1>44. ASSUME NEW w \in Workers, KeyRelease(w) PROVE BlockedInv'
  BY <1>44 DEF KeyRelease
<1>45. ASSUME NEW w \in Workers, EndIo(w) PROVE BlockedInv'
  BY <1>45 DEF EndIo
<1>46. ASSUME NEW w \in Workers, PendingFullscreen(w) PROVE BlockedInv'
  BY <1>46 DEF PendingFullscreen
<1>47. ASSUME NEW h \in Handlers, NEW signal \in Ordinary, HandleOrdinary(h, signal)
       PROVE  BlockedInv'
  BY <1>47 DEF HandleOrdinary
<1>48. ASSUME NEW h \in Handlers, HandlerQueue(h) PROVE BlockedInv'
  BY <1>48 DEF HandlerQueue
<1>49. ASSUME NEW h \in Handlers, HandlerPipeFull(h) PROVE BlockedInv'
  BY <1>49 DEF HandlerPipeFull
<1>50. ASSUME NEW h \in Handlers, HandleFatal(h) PROVE BlockedInv'
  BY <1>50 DEF HandleFatal, Arrives
<1>51. ASSUME NEW h \in Handlers, HandleCont(h) PROVE BlockedInv'
  BY <1>51 DEF HandleCont
<1>52. ASSUME NEW h \in Handlers, HandlerCont(h) PROVE BlockedInv'
  BY <1>52 DEF HandlerCont
<1>53. ASSUME NEW h \in Handlers, HandleWinch(h) PROVE BlockedInv'
  BY <1>53 DEF HandleWinch
<1>54. ASSUME NEW h \in Handlers, RequestRestore(h) PROVE BlockedInv'
  BY <1>54 DEF RequestRestore
<1>55. ASSUME NEW t \in Handlers \cup {Dispatcher}, Forward(t) PROVE BlockedInv'
  BY <1>55 DEF Forward
<1>56. CASE Dispatch           BY <1>56 DEF Dispatch
<1>57. CASE DispatchRelease    BY <1>57 DEF DispatchRelease
<1>58. CASE DispatchUnlock     BY <1>58 DEF DispatchUnlock
<1>59. CASE MoveJob            BY <1>59 DEF MoveJob
<1>60. CASE Dead               BY <1>60 DEF Dead
<1>61. CASE UNCHANGED vars       BY <1>61
<1>62. ASSUME NEW t \in Threads, ReleaseReport(t) PROVE BlockedInv'
  BY <1>62 DEF ReleaseReport, Return
<1>63. CASE ReportRestored     BY <1>63 DEF ReportRestored
<1>64. ASSUME NEW h \in Handlers, HandlerGeneration(h) PROVE BlockedInv'
  BY <1>64 DEF HandlerGeneration
<1>65. ASSUME NEW h \in Handlers, HandlerReport(h) PROVE BlockedInv'
  BY <1>65 DEF HandlerReport
<1> HIDE DEF TypeInv, At, Goto, CallRelease, Lock, Unlock, Idle, Begin, Finish
<1>. QED
  BY <1>1, <1>2, <1>3, <1>4, <1>5, <1>6, <1>7, <1>8, <1>9, <1>10, <1>11, <1>12, <1>13, <1>14,
     <1>15, <1>16, <1>17, <1>18, <1>19, <1>20, <1>21, <1>22, <1>23, <1>24, <1>25, <1>26,
     <1>27, <1>28, <1>29, <1>30, <1>31, <1>32, <1>33, <1>34, <1>35, <1>36, <1>37, <1>38,
     <1>39, <1>40, <1>41, <1>42, <1>43, <1>44, <1>45, <1>46, <1>47, <1>48, <1>49, <1>50,
     <1>51, <1>52, <1>53, <1>54, <1>55, <1>56, <1>57, <1>58, <1>59, <1>60, <1>61, <1>62, <1>63,
     <1>64, <1>65 DEF Next,
     OwnerStarts, OwnerContinues, WorkerStarts, WorkerContinues, HandlerStarts,
     HandlerContinues, DispatcherStep, Release

(***************************************************************************)
(* A blocked terminal is released, or the teardown that blocked it comes.  *)
(***************************************************************************)
THEOREM BlockedIsReleased == NoEmergency => (Spec => []BlockedMeansReleased)
<1> SUFFICES ASSUME NoEmergency PROVE Spec => []BlockedMeansReleased
  OBVIOUS
<1>1. Init => BlockedInv
  BY DEF Init, BlockedInv
<1>2. TypeInv /\ GateDiscipline /\ ReleasesGated /\ BlockedInv /\ [Next]_vars => BlockedInv'
  BY BlockedStep
<1>3. BlockedInv => BlockedMeansReleased
  BY DEF BlockedInv, BlockedMeansReleased
<1>. QED
  BY <1>1, <1>2, <1>3, TypeCorrect, GateHeld, GatedReleases, PTL DEF Spec

-----------------------------------------------------------------------------
(***************************************************************************)
(* endwin() puts back the termios that newterm() found.  They are undone   *)
(* by the release at the end of stop_session() because the session still   *)
(* owns the input or the output then: it owned both before newterm(), each *)
(* release of them blocks the terminal, and a restore that unblocks it owns*)
(* the input again.  disable_input() alone can take the input away without *)
(* blocking, and after a release and a restore there is nothing else that  *)
(* a release would undo: hence the assumption SeparateOperations.          *)
(***************************************************************************)
SeparateOperations == ~({"screen", "disable"} \subseteq Operations)
Termios == {"input", "output"}

CursesInv ==
  /\ renderer_screen # "none" \/ pc[Owner] = "newterm"
       => captured /\ InputTty /\ "screen" \in Operations
  /\ Forgetting => renderer_screen = "none"
  /\ pc[Owner] = "set_input" => "input" \in owned
  /\ pc[Owner] = "disable_undo" => "output" \notin rel[Owner].took
  /\ pc[Owner] \in {"newterm", "endwin"} => (\E bit \in Termios : bit \in owned)
  /\ renderer_screen # "none" /\ ~blocked /\ pc[Owner] \notin {"restore_pending", "own_input"}
       => (\E bit \in Termios : bit \in owned)

\* Every step keeps what endwin() relies on.
LEMMA CursesStep ==
  ASSUME NoEmergency, SeparateOperations, TypeInv, GateDiscipline, ReleasesGated, CursesInv,
         [Next]_vars
  PROVE  CursesInv'
<1> USE ThreadsAssumption, OwnerOutside
    DEF TypeInv, TypeOK, TerminalTypes, ThreadTypes, WorldTypes, PlaceInv, NoEmergency,
        SeparateOperations, Termios, CursesInv, Forgetting, Threads, Owner, Dispatcher,
        Free, At, Goto, CallRelease, Lock, Unlock, Idle, Begin, Finish, vars, terminal,
        life, latches, duties, reports, locals, session, world, history, rest
<1>1. ASSUME NEW t \in Threads, ReleaseTake(t) PROVE CursesInv'
  <2>1. UNCHANGED <<captured, renderer_screen>> /\ blocked' /\ pc[t] = "r_take"
    BY <1>1 DEF ReleaseTake
  <2>2. pc[Owner] \notin GateLabels
    BY <2>1
  <2>3. \E l \in {"r_publish", "r_undo", ret[t]} : pc' = [pc EXCEPT ![t] = l]
    BY <1>1 DEF ReleaseTake, Return
  <2>4. ret' = ret \/ ret' = [ret EXCEPT ![t] = "idle"]
    BY <1>1 DEF ReleaseTake, Return
  <2>5. pc'[Owner] \notin GateLabels
    <3>1. CASE t = Owner
      <4>1. ret[Owner] \in Returns
        OBVIOUS
      <4>. QED
        BY <2>3, <3>1, <4>1
    <3>2. CASE t # Owner
      BY <2>2, <2>3, <3>2
    <3>. QED
      BY <3>1, <3>2
  <2>6. Forgetting' => Forgetting
    BY <2>1, <2>3, <2>4
  <2>. QED
    BY <2>1, <2>5, <2>6
<1>2. ASSUME NEW t \in Threads, ReleaseUndo(t) PROVE CursesInv'
  BY <1>2 DEF ReleaseUndo
<1>3. ASSUME NEW t \in Threads, ReleasePublish(t) PROVE CursesInv'
  <2>1. UNCHANGED <<captured, renderer_screen, blocked, owned>>
    BY <1>3 DEF ReleasePublish
  <2>2. pc[Owner] \notin GateLabels
    BY <1>3 DEF ReleasePublish
  <2>3. pc'[Owner] = pc[Owner] \/ pc'[Owner] \in Returns \cup {"r_report"}
    BY <1>3, PublishMoves
  <2>4. Forgetting' => Forgetting
    BY <1>3, PublishMoves
  <2>. QED
    BY <2>1, <2>2, <2>3, <2>4
<1>4. CASE Capture             BY <1>4 DEF Capture
<1>5. CASE Forget              BY <1>5 DEF Forget
<1>6. CASE Forgotten           BY <1>6 DEF Forgotten
<1>7. ASSUME NEW mode \in Modes, SetInputMode(mode) PROVE CursesInv'
  <2>1. UNCHANGED <<captured, renderer_screen, blocked, owned>>
    BY <1>7 DEF SetInputMode
  <2>2. \E l \in {"own_input", "conclude"} : pc' = [pc EXCEPT ![Owner] = l]
    BY <1>7 DEF SetInputMode
  <2>3. pc[Owner] = "idle"
    BY <1>7 DEF SetInputMode
  <2>. QED
    BY <2>1, <2>2, <2>3
<1>8. ASSUME NEW enabled \in BOOLEAN, SetProbeMode(enabled) PROVE CursesInv'
  BY <1>8 DEF SetProbeMode
<1>9. CASE OwnInput            BY <1>9 DEF OwnInput
<1>10. CASE SetInput           BY <1>10 DEF SetInput
<1>11. CASE OwnKeyboard        BY <1>11 DEF OwnKeyboard
<1>12. CASE WriteKeyboard      BY <1>12 DEF WriteKeyboard
<1>13. CASE OwnMouse           BY <1>13 DEF OwnMouse
<1>14. CASE WriteMouse         BY <1>14 DEF WriteMouse
<1>15. CASE Conclude           BY <1>15 DEF Conclude
<1>16. CASE ConcludeFailed     BY <1>16 DEF ConcludeFailed
<1>17. CASE Failed             BY <1>17 DEF Failed
<1>18. CASE DisableInput       BY <1>18 DEF DisableInput
<1>19. CASE DisableUndo        BY <1>19 DEF DisableUndo
<1>20. CASE Restore            BY <1>20 DEF Restore
<1>21. CASE RestoreRefused     BY <1>21 DEF RestoreRefused
<1>22. CASE Refused            BY <1>22 DEF Refused
<1>23. CASE RestoreUnblock     BY <1>23 DEF RestoreUnblock
<1>24. CASE RestorePending     BY <1>24 DEF RestorePending
<1>25. CASE Poll               BY <1>25 DEF Poll
<1>26. CASE PollLock           BY <1>26 DEF PollLock
<1>27. CASE PollRestore        BY <1>27 DEF PollRestore
<1>28. CASE PollEnd            BY <1>28 DEF PollEnd
<1>29. ASSUME NEW t \in Workers \cup {Owner}, IoRefused(t) PROVE CursesInv'
  BY <1>29 DEF IoRefused
<1>30. CASE Mouse              BY <1>30 DEF Mouse
<1>31. CASE EnterScreen        BY <1>31 DEF EnterScreen
<1>32. CASE Newterm            BY <1>32 DEF Newterm
<1>33. CASE StartWorkers       BY <1>33 DEF StartWorkers
<1>34. CASE Suspend            BY <1>34 DEF Suspend
<1>35. CASE SuspendRefused     BY <1>35 DEF SuspendRefused, BeginRefused, Joined
<1>36. CASE SuspendQuietly     BY <1>36 DEF SuspendQuietly, Joined
<1>37. CASE SuspendAdmitted    BY <1>37 DEF SuspendAdmitted, Joined, Admitted
<1>38. CASE Endwin             BY <1>38 DEF Endwin
<1>39. CASE SuspendRelease     BY <1>39 DEF SuspendRelease
<1>40. ASSUME NEW w \in Workers, BeginFrame(w) PROVE CursesInv'
  BY <1>40 DEF BeginFrame
<1>41. ASSUME NEW w \in Workers, FrameRefused(w) PROVE CursesInv'
  BY <1>41 DEF FrameRefused, BeginRefused
<1>42. ASSUME NEW w \in Workers, BeginGlass(w) PROVE CursesInv'
  BY <1>42 DEF BeginGlass
<1>43. ASSUME NEW w \in Workers, HostKey(w) PROVE CursesInv'
  BY <1>43 DEF HostKey
<1>44. ASSUME NEW w \in Workers, KeyRelease(w) PROVE CursesInv'
  BY <1>44 DEF KeyRelease
<1>45. ASSUME NEW w \in Workers, EndIo(w) PROVE CursesInv'
  BY <1>45 DEF EndIo
<1>46. ASSUME NEW w \in Workers, PendingFullscreen(w) PROVE CursesInv'
  BY <1>46 DEF PendingFullscreen
<1>47. ASSUME NEW h \in Handlers, NEW signal \in Ordinary, HandleOrdinary(h, signal)
       PROVE  CursesInv'
  BY <1>47 DEF HandleOrdinary
<1>48. ASSUME NEW h \in Handlers, HandlerQueue(h) PROVE CursesInv'
  BY <1>48 DEF HandlerQueue
<1>49. ASSUME NEW h \in Handlers, HandlerPipeFull(h) PROVE CursesInv'
  BY <1>49 DEF HandlerPipeFull
<1>50. ASSUME NEW h \in Handlers, HandleFatal(h) PROVE CursesInv'
  BY <1>50 DEF HandleFatal
<1>51. ASSUME NEW h \in Handlers, HandleCont(h) PROVE CursesInv'
  BY <1>51 DEF HandleCont
<1>52. ASSUME NEW h \in Handlers, HandlerCont(h) PROVE CursesInv'
  BY <1>52 DEF HandlerCont
<1>53. ASSUME NEW h \in Handlers, HandleWinch(h) PROVE CursesInv'
  BY <1>53 DEF HandleWinch
<1>54. ASSUME NEW h \in Handlers, RequestRestore(h) PROVE CursesInv'
  BY <1>54 DEF RequestRestore
<1>55. ASSUME NEW t \in Handlers \cup {Dispatcher}, Forward(t) PROVE CursesInv'
  BY <1>55 DEF Forward
<1>56. CASE Dispatch           BY <1>56 DEF Dispatch
<1>57. CASE DispatchRelease    BY <1>57 DEF DispatchRelease
<1>58. CASE DispatchUnlock     BY <1>58 DEF DispatchUnlock
<1>59. CASE MoveJob            BY <1>59 DEF MoveJob
<1>60. CASE Dead               BY <1>60 DEF Dead
<1>61. CASE UNCHANGED vars       BY <1>61
<1>62. ASSUME NEW t \in Threads, ReleaseReport(t) PROVE CursesInv'
  BY <1>62 DEF ReleaseReport, Return
<1>63. CASE ReportRestored     BY <1>63 DEF ReportRestored
<1>64. ASSUME NEW h \in Handlers, HandlerGeneration(h) PROVE CursesInv'
  BY <1>64 DEF HandlerGeneration
<1>65. ASSUME NEW h \in Handlers, HandlerReport(h) PROVE CursesInv'
  BY <1>65 DEF HandlerReport
<1> HIDE DEF TypeInv, At, Goto, CallRelease, Lock, Unlock, Idle, Begin, Finish
<1>. QED
  BY <1>1, <1>2, <1>3, <1>4, <1>5, <1>6, <1>7, <1>8, <1>9, <1>10, <1>11, <1>12, <1>13, <1>14,
     <1>15, <1>16, <1>17, <1>18, <1>19, <1>20, <1>21, <1>22, <1>23, <1>24, <1>25, <1>26,
     <1>27, <1>28, <1>29, <1>30, <1>31, <1>32, <1>33, <1>34, <1>35, <1>36, <1>37, <1>38,
     <1>39, <1>40, <1>41, <1>42, <1>43, <1>44, <1>45, <1>46, <1>47, <1>48, <1>49, <1>50,
     <1>51, <1>52, <1>53, <1>54, <1>55, <1>56, <1>57, <1>58, <1>59, <1>60, <1>61, <1>62, <1>63,
     <1>64, <1>65 DEF Next,
     OwnerStarts, OwnerContinues, WorkerStarts, WorkerContinues, HandlerStarts,
     HandlerContinues, DispatcherStep, Release

(***************************************************************************)
(* Termios other than the captured ones are owned, or a release in         *)
(* progress is about to put the captured ones back, or could not.          *)
(***************************************************************************)
ModeOwed ==
  tty.mode # "baseline" => (\E bit \in Termios : bit \in owned \cup InFlight) \/ "input" \in lost

\* Every step keeps the termios owed.
LEMMA ModeStep ==
  ASSUME TypeInv, CursesInv, ModeOwed, [Next]_vars
  PROVE  ModeOwed'
<1> USE ThreadsAssumption
    DEF TypeInv, TypeOK, TerminalTypes, ThreadTypes, WorldTypes, PlaceInv, Termios,
        CursesInv, ModeOwed, InFlight, Threads, Owner, Dispatcher, Free, At, Goto,
        CallRelease, Lock, Unlock, Idle, Begin, Finish, vars, terminal, life, latches,
        duties, reports, locals, session, world, history, rest
<1>1. ASSUME NEW t \in Threads, ReleaseTake(t) PROVE ModeOwed'
  <2>1. tty' = tty /\ lost' = lost
    BY <1>1 DEF ReleaseTake
  <2>2. owned \cup InFlight \subseteq InFlight'
    BY <1>1, TakenInFlight
  <2> HIDE DEF TypeInv, CursesInv, InFlight
  <2>. QED
    BY <2>1, <2>2
<1>2. ASSUME NEW t \in Threads, ReleaseUndo(t) PROVE ModeOwed'
  BY <1>2 DEF ReleaseUndo
<1>3. ASSUME NEW t \in Threads, ReleasePublish(t) PROVE ModeOwed'
  <2>1. InFlight \subseteq InFlight'
    BY <1>3, PublishInFlight
  <2>2. UNCHANGED <<tty, owned, lost>>
    BY <1>3 DEF ReleasePublish
  <2> HIDE DEF TypeInv, InFlight
  <2>. QED
    BY <2>1, <2>2
<1>4. CASE Capture             BY <1>4 DEF Capture
<1>5. CASE Forget              BY <1>5 DEF Forget
<1>6. CASE Forgotten           BY <1>6 DEF Forgotten
<1>7. ASSUME NEW mode \in Modes, SetInputMode(mode) PROVE ModeOwed'
  BY <1>7 DEF SetInputMode
<1>8. ASSUME NEW enabled \in BOOLEAN, SetProbeMode(enabled) PROVE ModeOwed'
  BY <1>8 DEF SetProbeMode
<1>9. CASE OwnInput            BY <1>9 DEF OwnInput
<1>10. CASE SetInput           BY <1>10 DEF SetInput, InputMode
<1>11. CASE OwnKeyboard        BY <1>11 DEF OwnKeyboard
<1>12. CASE WriteKeyboard      BY <1>12 DEF WriteKeyboard
<1>13. CASE OwnMouse           BY <1>13 DEF OwnMouse
<1>14. CASE WriteMouse         BY <1>14 DEF WriteMouse
<1>15. CASE Conclude           BY <1>15 DEF Conclude
<1>16. CASE ConcludeFailed     BY <1>16 DEF ConcludeFailed
<1>17. CASE Failed             BY <1>17 DEF Failed
<1>18. CASE DisableInput       BY <1>18 DEF DisableInput
<1>19. CASE DisableUndo
  <2>1. pc[Owner] = "disable_undo" /\ UNCHANGED lost
    BY <1>19 DEF DisableUndo
  <2>2. \A u \in Threads \ {Owner} : rel'[u] = rel[u] /\ pc'[u] = pc[u]
    BY <1>19 DEF DisableUndo
  <2>3. InFlight \subseteq InFlight' \cup rel[Owner].took
    <3> HIDE DEF CursesInv, ModeOwed, Termios
    <3>. QED
      BY <2>2
  <2>4. PICK failed \in SUBSET Owns :
          /\ owned' = owned \cup failed
          /\ tty'.mode = IF (rel[Owner].took \cap {"input"}) \ failed # {}
                        THEN "baseline" ELSE tty.mode
    <3> HIDE DEF CursesInv, ModeOwed, Termios, InFlight
    <3>. QED
      BY <1>19 DEF DisableUndo, Failing
  <2>5. "output" \notin rel[Owner].took
    BY <2>1
  <2>. QED
    BY <2>1, <2>3, <2>4, <2>5
<1>20. CASE Restore            BY <1>20 DEF Restore
<1>21. CASE RestoreRefused     BY <1>21 DEF RestoreRefused
<1>22. CASE Refused            BY <1>22 DEF Refused
<1>23. CASE RestoreUnblock     BY <1>23 DEF RestoreUnblock
<1>24. CASE RestorePending     BY <1>24 DEF RestorePending
<1>25. CASE Poll               BY <1>25 DEF Poll
<1>26. CASE PollLock           BY <1>26 DEF PollLock
<1>27. CASE PollRestore        BY <1>27 DEF PollRestore
<1>28. CASE PollEnd            BY <1>28 DEF PollEnd
<1>29. ASSUME NEW t \in Workers \cup {Owner}, IoRefused(t) PROVE ModeOwed'
  BY <1>29 DEF IoRefused
<1>30. CASE Mouse              BY <1>30 DEF Mouse
<1>31. CASE EnterScreen        BY <1>31 DEF EnterScreen
<1>32. CASE Newterm            BY <1>32 DEF Newterm
<1>33. CASE StartWorkers       BY <1>33 DEF StartWorkers
<1>34. CASE Suspend            BY <1>34 DEF Suspend
<1>35. CASE SuspendRefused     BY <1>35 DEF SuspendRefused, BeginRefused, Joined
<1>36. CASE SuspendQuietly     BY <1>36 DEF SuspendQuietly, Joined
<1>37. CASE SuspendAdmitted    BY <1>37 DEF SuspendAdmitted, Joined
<1>38. CASE Endwin             BY <1>38 DEF Endwin
<1>39. CASE SuspendRelease     BY <1>39 DEF SuspendRelease
<1>40. ASSUME NEW w \in Workers, BeginFrame(w) PROVE ModeOwed'
  BY <1>40 DEF BeginFrame, Working
<1>41. ASSUME NEW w \in Workers, FrameRefused(w) PROVE ModeOwed'
  BY <1>41 DEF FrameRefused, BeginRefused, Working
<1>42. ASSUME NEW w \in Workers, BeginGlass(w) PROVE ModeOwed'
  BY <1>42 DEF BeginGlass, Working
<1>43. ASSUME NEW w \in Workers, HostKey(w) PROVE ModeOwed'
  BY <1>43 DEF HostKey, Working
<1>44. ASSUME NEW w \in Workers, KeyRelease(w) PROVE ModeOwed'
  BY <1>44 DEF KeyRelease
<1>45. ASSUME NEW w \in Workers, EndIo(w) PROVE ModeOwed'
  BY <1>45 DEF EndIo
<1>46. ASSUME NEW w \in Workers, PendingFullscreen(w) PROVE ModeOwed'
  BY <1>46 DEF PendingFullscreen, Working
<1>47. ASSUME NEW h \in Handlers, NEW signal \in Ordinary, HandleOrdinary(h, signal)
       PROVE  ModeOwed'
  BY <1>47 DEF HandleOrdinary, Arrives
<1>48. ASSUME NEW h \in Handlers, HandlerQueue(h) PROVE ModeOwed'
  BY <1>48 DEF HandlerQueue
<1>49. ASSUME NEW h \in Handlers, HandlerPipeFull(h) PROVE ModeOwed'
  BY <1>49 DEF HandlerPipeFull
<1>50. ASSUME NEW h \in Handlers, HandleFatal(h) PROVE ModeOwed'
  BY <1>50 DEF HandleFatal, Arrives
<1>51. ASSUME NEW h \in Handlers, HandleCont(h) PROVE ModeOwed'
  BY <1>51 DEF HandleCont
<1>52. ASSUME NEW h \in Handlers, HandlerCont(h) PROVE ModeOwed'
  BY <1>52 DEF HandlerCont
<1>53. ASSUME NEW h \in Handlers, HandleWinch(h) PROVE ModeOwed'
  BY <1>53 DEF HandleWinch, Arrives
<1>54. ASSUME NEW h \in Handlers, RequestRestore(h) PROVE ModeOwed'
  BY <1>54 DEF RequestRestore, Arrives
<1>55. ASSUME NEW t \in Handlers \cup {Dispatcher}, Forward(t) PROVE ModeOwed'
  BY <1>55 DEF Forward
<1>56. CASE Dispatch           BY <1>56 DEF Dispatch
<1>57. CASE DispatchRelease    BY <1>57 DEF DispatchRelease
<1>58. CASE DispatchUnlock     BY <1>58 DEF DispatchUnlock
<1>59. CASE MoveJob            BY <1>59 DEF MoveJob
<1>60. CASE Dead               BY <1>60 DEF Dead
<1>61. CASE UNCHANGED vars       BY <1>61
<1>62. ASSUME NEW t \in Threads, ReleaseReport(t) PROVE ModeOwed'
  BY <1>62 DEF ReleaseReport, Return
<1>63. CASE ReportRestored     BY <1>63 DEF ReportRestored
<1>64. ASSUME NEW h \in Handlers, HandlerGeneration(h) PROVE ModeOwed'
  BY <1>64 DEF HandlerGeneration
<1>65. ASSUME NEW h \in Handlers, HandlerReport(h) PROVE ModeOwed'
  BY <1>65 DEF HandlerReport
<1> HIDE DEF TypeInv, At, Goto, CallRelease, Lock, Unlock, Idle, Begin, Finish
<1>. QED
  BY <1>1, <1>2, <1>3, <1>4, <1>5, <1>6, <1>7, <1>8, <1>9, <1>10, <1>11, <1>12, <1>13, <1>14,
     <1>15, <1>16, <1>17, <1>18, <1>19, <1>20, <1>21, <1>22, <1>23, <1>24, <1>25, <1>26,
     <1>27, <1>28, <1>29, <1>30, <1>31, <1>32, <1>33, <1>34, <1>35, <1>36, <1>37, <1>38,
     <1>39, <1>40, <1>41, <1>42, <1>43, <1>44, <1>45, <1>46, <1>47, <1>48, <1>49, <1>50,
     <1>51, <1>52, <1>53, <1>54, <1>55, <1>56, <1>57, <1>58, <1>59, <1>60, <1>61, <1>62, <1>63,
     <1>64, <1>65 DEF Next,
     OwnerStarts, OwnerContinues, WorkerStarts, WorkerContinues, HandlerStarts,
     HandlerContinues, DispatcherStep, Release

(***************************************************************************)
(* A released terminal has the captured termios, whatever the owner, the   *)
(* session, stop signals and failing system calls did before: unless the   *)
(* restoring call itself failed.                                           *)
(***************************************************************************)
THEOREM BaselineTheorem ==
  NoEmergency /\ SeparateOperations => (Spec => []ReleasedMeansBaseline)
<1> SUFFICES ASSUME NoEmergency, SeparateOperations PROVE Spec => []ReleasedMeansBaseline
  OBVIOUS
<1>1. Init => CursesInv /\ ModeOwed
  BY ThreadsAssumption DEF Init, CursesInv, Forgetting, ModeOwed, Threads, Owner
<1>2. TypeInv /\ GateDiscipline /\ ReleasesGated /\ CursesInv /\ [Next]_vars => CursesInv'
  BY CursesStep
<1>3. TypeInv /\ CursesInv /\ ModeOwed /\ [Next]_vars => ModeOwed'
  BY ModeStep
<1>4. ModeOwed => ReleasedMeansBaseline
  BY DEF ModeOwed, ReleasedMeansBaseline, Termios
<1>. QED
  BY <1>1, <1>2, <1>3, <1>4, TypeCorrect, GateHeld, GatedReleases, PTL DEF Spec

-----------------------------------------------------------------------------
(***************************************************************************)
(* What the owner will know after its next poll, and who is about to tell  *)
(* it more.                                                                *)
(***************************************************************************)
Known == IF events \cap Transitions = {} THEN told ELSE events \cap Transitions

WillTellReleased ==
  \/ \E h \in Handlers : pc[h] \in {"s_generation", "s_report"}
  \/ \E t \in Threads : pc[t] \in {"r_undo", "r_publish", "r_report"}
WillTellRestored ==
  /\ pc[Owner] \in {"restore_pending", "own_input", "set_input", "own_keyboard",
                    "write_keyboard", "own_mouse", "write_mouse", "conclude", "report"}
  /\ Restoring /\ job.was
WillBlock == TeardownOnItsWay \/ \E t \in Threads : pc[t] = "r_take"

(***************************************************************************)
(* Where the threads may be: handlers never release, the owner works only  *)
(* on a captured terminal, workers stay away from one that is not, and a   *)
(* restore, and what it reports, is known as one.                          *)
(***************************************************************************)
Polling ==
  \/ pc[Owner] \in {"restore_lock", "restore_pending", "poll_lock", "poll_restore"}
  \/ pc[Owner] \in ReleaseLabels /\ ret[Owner] = "poll_restore"
AwayInv ==
  /\ \A h \in Handlers : pc[h] \notin ReleaseLabels
  /\ pc[Owner] \notin {"idle", "suspend_join", "suspend_release", "endwin"}
       => captured \/ Forgetting
  /\ ~active /\ (~captured \/ pc[Owner] # "suspend_join") => \A w \in Workers : pc[w] = "idle"
  /\ Polling => Restoring
  /\ pc[Owner] = "report" => Restoring /\ job.was


\* Every step keeps the threads where they may be.
LEMMA AwayStep ==
  ASSUME NoEmergency, TypeInv, SessionInv, AwayInv, [Next]_vars
  PROVE  AwayInv'
<1> USE ThreadsAssumption
    DEF TypeInv, TypeOK, TerminalTypes, ThreadTypes, WorldTypes, PlaceInv, NoEmergency,
        Threads, Owner, Dispatcher, Free, At, Goto, CallRelease, Lock, Unlock, Idle, Begin,
        Finish, vars, terminal, life, latches, duties, reports, locals, session, world,
        history, rest,
        SessionInv, AwayInv, Forgetting, Polling, Restoring
<1>1. ASSUME NEW t \in Threads, ReleaseTake(t) PROVE AwayInv'
  <2>1. UNCHANGED <<captured, active, job>>
    BY <1>1 DEF ReleaseTake
  <2>2. Handlers \subseteq Threads /\ Workers \subseteq Threads
    OBVIOUS
  <2> HIDE DEF TypeInv
  <2>. QED
    BY <1>1, <2>1, <2>2, TakePlaces
<1>2. ASSUME NEW t \in Threads, ReleaseUndo(t) PROVE AwayInv'
  BY <1>2 DEF ReleaseUndo
<1>3. ASSUME NEW t \in Threads, ReleasePublish(t) PROVE AwayInv'
  <2>1. UNCHANGED <<captured, active, job>>
    BY <1>3 DEF ReleasePublish
  <2>2. Handlers \subseteq Threads /\ Workers \subseteq Threads
    OBVIOUS
  <2> HIDE DEF TypeInv
  <2>. QED
    BY <1>3, <2>1, <2>2, PublishPlaces
<1>4. CASE Capture           BY <1>4 DEF Capture
<1>5. CASE Forget            BY <1>5 DEF Forget
<1>6. CASE Forgotten         BY <1>6 DEF Forgotten
<1>7. ASSUME NEW mode \in Modes, SetInputMode(mode) PROVE AwayInv'
  BY <1>7 DEF SetInputMode
<1>8. ASSUME NEW enabled \in BOOLEAN, SetProbeMode(enabled) PROVE AwayInv'
  BY <1>8 DEF SetProbeMode
<1>9. CASE OwnInput          BY <1>9 DEF OwnInput
<1>10. CASE SetInput          BY <1>10 DEF SetInput
<1>11. CASE OwnKeyboard       BY <1>11 DEF OwnKeyboard
<1>12. CASE WriteKeyboard     BY <1>12 DEF WriteKeyboard
<1>13. CASE OwnMouse          BY <1>13 DEF OwnMouse
<1>14. CASE WriteMouse        BY <1>14 DEF WriteMouse
<1>15. CASE Conclude          BY <1>15 DEF Conclude
<1>16. CASE ConcludeFailed    BY <1>16 DEF ConcludeFailed
<1>17. CASE Failed            BY <1>17 DEF Failed
<1>18. CASE DisableInput      BY <1>18 DEF DisableInput
<1>19. CASE DisableUndo       BY <1>19 DEF DisableUndo
<1>20. CASE Restore           BY <1>20 DEF Restore
<1>21. CASE RestoreRefused    BY <1>21 DEF RestoreRefused
<1>22. CASE Refused           BY <1>22 DEF Refused
<1>23. CASE RestoreUnblock    BY <1>23 DEF RestoreUnblock
<1>24. CASE RestorePending    BY <1>24 DEF RestorePending
<1>25. CASE Poll              BY <1>25 DEF Poll
<1>26. CASE PollLock          BY <1>26 DEF PollLock
<1>27. CASE PollRestore       BY <1>27 DEF PollRestore
<1>28. CASE PollEnd           BY <1>28 DEF PollEnd
<1>29. ASSUME NEW t \in Workers \cup {Owner}, IoRefused(t) PROVE AwayInv'
  BY <1>29 DEF IoRefused
<1>30. CASE Mouse             BY <1>30 DEF Mouse
<1>31. CASE EnterScreen       BY <1>31 DEF EnterScreen
<1>32. CASE Newterm           BY <1>32 DEF Newterm
<1>33. CASE StartWorkers      BY <1>33 DEF StartWorkers
<1>34. CASE Suspend           BY <1>34 DEF Suspend
<1>35. CASE SuspendRefused    BY <1>35 DEF SuspendRefused, Joined, BeginRefused
<1>36. CASE SuspendQuietly    BY <1>36 DEF SuspendQuietly, Joined
<1>37. CASE SuspendAdmitted   BY <1>37 DEF SuspendAdmitted, Joined
<1>38. CASE Endwin            BY <1>38 DEF Endwin
<1>39. CASE SuspendRelease    BY <1>39 DEF SuspendRelease
<1>40. ASSUME NEW w \in Workers, BeginFrame(w) PROVE AwayInv'
  BY <1>40 DEF BeginFrame, Working
<1>41. ASSUME NEW w \in Workers, FrameRefused(w) PROVE AwayInv'
  BY <1>41 DEF FrameRefused, Working, BeginRefused
<1>42. ASSUME NEW w \in Workers, BeginGlass(w) PROVE AwayInv'
  BY <1>42 DEF BeginGlass, Working
<1>43. ASSUME NEW w \in Workers, HostKey(w) PROVE AwayInv'
  BY <1>43 DEF HostKey, Working
<1>44. ASSUME NEW w \in Workers, KeyRelease(w) PROVE AwayInv'
  BY <1>44 DEF KeyRelease
<1>45. ASSUME NEW w \in Workers, EndIo(w) PROVE AwayInv'
  BY <1>45 DEF EndIo
<1>46. ASSUME NEW w \in Workers, PendingFullscreen(w) PROVE AwayInv'
  BY <1>46 DEF PendingFullscreen
<1>47. ASSUME NEW h \in Handlers, NEW signal \in Ordinary, HandleOrdinary(h, signal) PROVE AwayInv'
  BY <1>47 DEF HandleOrdinary, Arrives
<1>48. ASSUME NEW h \in Handlers, HandlerQueue(h) PROVE AwayInv'
  BY <1>48 DEF HandlerQueue
<1>49. ASSUME NEW h \in Handlers, HandlerPipeFull(h) PROVE AwayInv'
  BY <1>49 DEF HandlerPipeFull
<1>50. ASSUME NEW h \in Handlers, HandleFatal(h) PROVE AwayInv'
  BY <1>50 DEF HandleFatal, Arrives
<1>51. ASSUME NEW h \in Handlers, HandleCont(h) PROVE AwayInv'
  BY <1>51 DEF HandleCont
<1>52. ASSUME NEW h \in Handlers, HandlerCont(h) PROVE AwayInv'
  BY <1>52 DEF HandlerCont
<1>53. ASSUME NEW h \in Handlers, HandleWinch(h) PROVE AwayInv'
  BY <1>53 DEF HandleWinch
<1>54. ASSUME NEW h \in Handlers, RequestRestore(h) PROVE AwayInv'
  BY <1>54 DEF RequestRestore
<1>55. ASSUME NEW t \in Handlers \cup {Dispatcher}, Forward(t) PROVE AwayInv'
  BY <1>55 DEF Forward
<1>56. CASE Dispatch          BY <1>56 DEF Dispatch
<1>57. CASE DispatchRelease   BY <1>57 DEF DispatchRelease
<1>58. CASE DispatchUnlock    BY <1>58 DEF DispatchUnlock
<1>59. CASE MoveJob           BY <1>59 DEF MoveJob
<1>60. CASE Dead              BY <1>60 DEF Dead
<1>61. CASE UNCHANGED vars     BY <1>61
<1>62. ASSUME NEW t \in Threads, ReleaseReport(t) PROVE AwayInv'
  BY SMTT(30), <1>62 DEF ReleaseReport, Return
<1>63. CASE ReportRestored    BY <1>63 DEF ReportRestored
<1>64. ASSUME NEW h \in Handlers, HandlerGeneration(h) PROVE AwayInv'
  BY <1>64 DEF HandlerGeneration
<1>65. ASSUME NEW h \in Handlers, HandlerReport(h) PROVE AwayInv'
  BY <1>65 DEF HandlerReport
<1> HIDE DEF TypeInv, At, Goto, CallRelease, Lock, Unlock, Idle, Begin, Finish
<1>. QED
  BY <1>1, <1>2, <1>3, <1>4, <1>5, <1>6, <1>7, <1>8, <1>9, <1>10, <1>11, <1>12, <1>13, <1>14,
     <1>15, <1>16, <1>17, <1>18, <1>19, <1>20, <1>21, <1>22, <1>23, <1>24, <1>25, <1>26,
     <1>27, <1>28, <1>29, <1>30, <1>31, <1>32, <1>33, <1>34, <1>35, <1>36, <1>37, <1>38,
     <1>39, <1>40, <1>41, <1>42, <1>43, <1>44, <1>45, <1>46, <1>47, <1>48, <1>49, <1>50,
     <1>51, <1>52, <1>53, <1>54, <1>55, <1>56, <1>57, <1>58, <1>59, <1>60, <1>61, <1>62, <1>63,
     <1>64, <1>65 DEF Next,
     OwnerStarts, OwnerContinues, WorkerStarts, WorkerContinues, HandlerStarts,
     HandlerContinues, DispatcherStep, Release

(***************************************************************************)
(* A terminal that is not captured is released, so a queued teardown finds *)
(* nothing to undo in it; and only a captured one is being released.       *)
(***************************************************************************)
UncapturedInv ==
  /\ ~captured => owned = {}
  /\ ~captured /\ (TeardownOnItsWay \/ \E t \in Threads \ {Owner} : pc[t] = "r_take") => blocked
  /\ \A t \in Threads : pc[t] \in {"r_undo", "r_publish", "r_report"}
       => blocked /\ (captured \/ Forgetting)
  /\ Forgetting /\ pc[Owner] # "r_take" => blocked /\ owned = {}


\* Every step keeps an uncaptured terminal released.
LEMMA UncapturedStep ==
  ASSUME NoEmergency, TypeInv, GateDiscipline, ReleasesGated, SessionInv, AwayInv,
         UncapturedInv, [Next]_vars
  PROVE  UncapturedInv'
<1> USE ThreadsAssumption
    DEF TypeInv, TypeOK, TerminalTypes, ThreadTypes, WorldTypes, PlaceInv, NoEmergency,
        Threads, Owner, Dispatcher, Free, At, Goto, CallRelease, Lock, Unlock, Idle, Begin,
        Finish, vars, terminal, life, latches, duties, reports, locals, session, world,
        history, rest,
        AwayInv, UncapturedInv, Forgetting, TeardownOnItsWay, Queueing
<1>1. ASSUME NEW t \in Threads, ReleaseTake(t) PROVE UncapturedInv'
  <2>1. blocked' /\ owned' = {} /\ captured' = captured
    BY <1>1 DEF ReleaseTake
  <2>2. Forgetting => Forgetting'
    BY <1>1, TakeMoves
  <2>3. pc'[t] \in {"r_undo", "r_publish"} => captured \/ Forgetting
    <3>1. CASE t = Owner
      BY <1>1, <3>1, TakeMoves
    <3>2. CASE t \in Workers
      BY <1>1, <3>2, TakeMoves DEF SessionInv
    <3>3. CASE t \in Handlers
      BY <1>1, <3>3, TakeMoves
    <3>4. CASE t = Dispatcher
      <4>1. ~captured => blocked /\ owned = {}
        BY <1>1, <3>4, TakeMoves
      <4>2. ~captured => pc' = [pc EXCEPT ![t] = ret[t]]
        BY <1>1, <4>1 DEF ReleaseTake, NothingToUndo, Return
      <4>. QED
        BY <4>2
    <3>. QED
      BY <3>1, <3>2, <3>3, <3>4
  <2>4. \A u \in Threads : pc'[u] \in {"r_undo", "r_publish", "r_report"}
          => captured \/ Forgetting
    <3>1. pc'[t] # "r_report" /\ \A u \in Threads \ {t} : pc'[u] = pc[u]
      BY <1>1, TakeMoves
    <3>. QED
      BY <2>3, <3>1
  <2>. QED
    BY <2>1, <2>2, <2>4
<1>2. ASSUME NEW t \in Threads, ReleaseUndo(t) PROVE UncapturedInv'
  BY <1>2 DEF ReleaseUndo
<1>3. ASSUME NEW t \in Threads, ReleasePublish(t) PROVE UncapturedInv'
  BY <1>3 DEF ReleasePublish, Return
<1>4. CASE Capture           BY <1>4 DEF Capture
<1>5. CASE Forget            BY <1>5 DEF Forget
<1>6. CASE Forgotten
  <2>1. blocked /\ owned = {} /\ UNCHANGED <<blocked, owned>>
    BY <1>6 DEF Forgotten
  <2>2. pc' = [pc EXCEPT ![Owner] = "idle"]
    BY <1>6 DEF Forgotten
  <2>3. \A t \in Threads \ {Owner} : pc[t] \notin ReleaseLabels
    BY <1>6 DEF Forgotten, GateDiscipline, InGate, ReleasesGated
  <2>. QED
    BY <2>1, <2>2, <2>3
<1>7. ASSUME NEW mode \in Modes, SetInputMode(mode) PROVE UncapturedInv'
  BY <1>7 DEF SetInputMode
<1>8. ASSUME NEW enabled \in BOOLEAN, SetProbeMode(enabled) PROVE UncapturedInv'
  BY <1>8 DEF SetProbeMode
<1>9. CASE OwnInput          BY <1>9 DEF OwnInput
<1>10. CASE SetInput          BY <1>10 DEF SetInput
<1>11. CASE OwnKeyboard       BY <1>11 DEF OwnKeyboard
<1>12. CASE WriteKeyboard     BY <1>12 DEF WriteKeyboard
<1>13. CASE OwnMouse          BY <1>13 DEF OwnMouse
<1>14. CASE WriteMouse        BY <1>14 DEF WriteMouse
<1>15. CASE Conclude          BY <1>15 DEF Conclude
<1>16. CASE ConcludeFailed    BY <1>16 DEF ConcludeFailed
<1>17. CASE Failed            BY <1>17 DEF Failed
<1>18. CASE DisableInput      BY <1>18 DEF DisableInput
<1>19. CASE DisableUndo       BY <1>19 DEF DisableUndo
<1>20. CASE Restore           BY <1>20 DEF Restore
<1>21. CASE RestoreRefused    BY <1>21 DEF RestoreRefused
<1>22. CASE Refused           BY <1>22 DEF Refused
<1>23. CASE RestoreUnblock
  <2>1. captured /\ UNCHANGED <<captured, owned>>
    BY <1>23 DEF RestoreUnblock, IsForeground, ForegroundIf
  <2>2. pc' = [pc EXCEPT ![Owner] = "restore_pending"] /\ pc[Owner] = "restore_lock"
    BY <1>23 DEF RestoreUnblock
  <2>3. \A t \in Threads : pc[t] \notin ReleaseLabels
    BY <1>23 DEF RestoreUnblock, GateDiscipline, InGate, ReleasesGated
  <2>. QED
    BY <2>1, <2>2, <2>3
<1>24. CASE RestorePending    BY <1>24 DEF RestorePending
<1>25. CASE Poll              BY <1>25 DEF Poll
<1>26. CASE PollLock          BY <1>26 DEF PollLock
<1>27. CASE PollRestore       BY <1>27 DEF PollRestore
<1>28. CASE PollEnd           BY <1>28 DEF PollEnd
<1>29. ASSUME NEW t \in Workers \cup {Owner}, IoRefused(t) PROVE UncapturedInv'
  BY <1>29 DEF IoRefused
<1>30. CASE Mouse             BY <1>30 DEF Mouse
<1>31. CASE EnterScreen       BY <1>31 DEF EnterScreen
<1>32. CASE Newterm           BY <1>32 DEF Newterm
<1>33. CASE StartWorkers      BY <1>33 DEF StartWorkers
<1>34. CASE Suspend           BY <1>34 DEF Suspend
<1>35. CASE SuspendRefused    BY <1>35 DEF SuspendRefused, Joined, BeginRefused
<1>36. CASE SuspendQuietly    BY <1>36 DEF SuspendQuietly, Joined
<1>37. CASE SuspendAdmitted   BY <1>37 DEF SuspendAdmitted, Joined
<1>38. CASE Endwin            BY <1>38 DEF Endwin
<1>39. CASE SuspendRelease    BY <1>39 DEF SuspendRelease
<1>40. ASSUME NEW w \in Workers, BeginFrame(w) PROVE UncapturedInv'
  BY <1>40 DEF BeginFrame, Working
<1>41. ASSUME NEW w \in Workers, FrameRefused(w) PROVE UncapturedInv'
  BY <1>41 DEF FrameRefused, Working, BeginRefused
<1>42. ASSUME NEW w \in Workers, BeginGlass(w) PROVE UncapturedInv'
  BY <1>42 DEF BeginGlass, Working
<1>43. ASSUME NEW w \in Workers, HostKey(w) PROVE UncapturedInv'
  BY <1>43 DEF HostKey, Working
<1>44. ASSUME NEW w \in Workers, KeyRelease(w) PROVE UncapturedInv'
  <2>1. captured
    BY <1>44 DEF KeyRelease, SessionInv
  <2>. QED
    BY <1>44, <2>1 DEF KeyRelease
<1>45. ASSUME NEW w \in Workers, EndIo(w) PROVE UncapturedInv'
  BY <1>45 DEF EndIo
<1>46. ASSUME NEW w \in Workers, PendingFullscreen(w) PROVE UncapturedInv'
  BY <1>46 DEF PendingFullscreen
<1>47. ASSUME NEW h \in Handlers, NEW signal \in Ordinary, HandleOrdinary(h, signal) PROVE UncapturedInv'
  BY <1>47 DEF HandleOrdinary, Arrives
<1>48. ASSUME NEW h \in Handlers, HandlerQueue(h) PROVE UncapturedInv'
  BY <1>48 DEF HandlerQueue
<1>49. ASSUME NEW h \in Handlers, HandlerPipeFull(h) PROVE UncapturedInv'
  BY <1>49 DEF HandlerPipeFull
<1>50. ASSUME NEW h \in Handlers, HandleFatal(h) PROVE UncapturedInv'
  BY <1>50 DEF HandleFatal, Arrives
<1>51. ASSUME NEW h \in Handlers, HandleCont(h) PROVE UncapturedInv'
  BY <1>51 DEF HandleCont
<1>52. ASSUME NEW h \in Handlers, HandlerCont(h) PROVE UncapturedInv'
  BY <1>52 DEF HandlerCont
<1>53. ASSUME NEW h \in Handlers, HandleWinch(h) PROVE UncapturedInv'
  BY <1>53 DEF HandleWinch
<1>54. ASSUME NEW h \in Handlers, RequestRestore(h) PROVE UncapturedInv'
  BY <1>54 DEF RequestRestore
<1>55. ASSUME NEW t \in Handlers \cup {Dispatcher}, Forward(t) PROVE UncapturedInv'
  BY <1>55 DEF Forward
<1>56. CASE Dispatch          BY <1>56 DEF Dispatch
<1>57. CASE DispatchRelease   BY <1>57 DEF DispatchRelease
<1>58. CASE DispatchUnlock    BY <1>58 DEF DispatchUnlock
<1>59. CASE MoveJob           BY <1>59 DEF MoveJob
<1>60. CASE Dead              BY <1>60 DEF Dead
<1>61. CASE UNCHANGED vars     BY <1>61
<1>62. ASSUME NEW t \in Threads, ReleaseReport(t) PROVE UncapturedInv'
  BY <1>62 DEF ReleaseReport, Return
<1>63. CASE ReportRestored    BY <1>63 DEF ReportRestored
<1>64. ASSUME NEW h \in Handlers, HandlerGeneration(h) PROVE UncapturedInv'
  BY <1>64 DEF HandlerGeneration
<1>65. ASSUME NEW h \in Handlers, HandlerReport(h) PROVE UncapturedInv'
  BY <1>65 DEF HandlerReport
<1> HIDE DEF TypeInv, At, Goto, CallRelease, Lock, Unlock, Idle, Begin, Finish
<1>. QED
  BY <1>1, <1>2, <1>3, <1>4, <1>5, <1>6, <1>7, <1>8, <1>9, <1>10, <1>11, <1>12, <1>13, <1>14,
     <1>15, <1>16, <1>17, <1>18, <1>19, <1>20, <1>21, <1>22, <1>23, <1>24, <1>25, <1>26,
     <1>27, <1>28, <1>29, <1>30, <1>31, <1>32, <1>33, <1>34, <1>35, <1>36, <1>37, <1>38,
     <1>39, <1>40, <1>41, <1>42, <1>43, <1>44, <1>45, <1>46, <1>47, <1>48, <1>49, <1>50,
     <1>51, <1>52, <1>53, <1>54, <1>55, <1>56, <1>57, <1>58, <1>59, <1>60, <1>61, <1>62, <1>63,
     <1>64, <1>65 DEF Next,
     OwnerStarts, OwnerContinues, WorkerStarts, WorkerContinues, HandlerStarts,
     HandlerContinues, DispatcherStep, Release

(***************************************************************************)
(* What the owner knows is the terminal's state, but for a transition that *)
(* is still to be told, or to be made.                                     *)
(***************************************************************************)
PictureInv ==
  /\ captured /\ Known = {"released"} => blocked \/ WillTellRestored \/ WillBlock
  /\ captured /\ Known = {"restored"} => ~blocked \/ WillTellReleased
  /\ WillTellRestored => ~blocked \/ "released" \in events \/ WillTellReleased

\* Every step keeps the owner's knowledge.
LEMMA PictureStep ==
  ASSUME NoEmergency, TypeInv, GateDiscipline, ReleasesGated, AwayInv, UncapturedInv,
         PictureInv, [Next]_vars
  PROVE  PictureInv'
<1> USE ThreadsAssumption
    DEF TypeInv, TypeOK, TerminalTypes, ThreadTypes, WorldTypes, PlaceInv, NoEmergency,
        Threads, Owner, Dispatcher, Free, At, Goto, CallRelease, Lock, Unlock, Idle, Begin,
        Finish, vars, terminal, life, latches, duties, reports, locals, session, world,
        history, rest,
        PictureInv, Known, WillTellReleased, WillTellRestored, WillBlock,
        TeardownOnItsWay, Queueing, Restoring
<1>1. ASSUME NEW t \in Threads, ReleaseTake(t) PROVE PictureInv'
  <2>1. blocked' /\ UNCHANGED <<captured, events, told, job>>
    BY <1>1 DEF ReleaseTake
  <2>2. ~blocked => WillTellReleased'
    <3>1. ~blocked => \E l \in {"r_publish", "r_undo"} : pc' = [pc EXCEPT ![t] = l]
      BY <1>1 DEF ReleaseTake, NothingToUndo
    <3>. QED
      BY <3>1
  <2>3. WillTellReleased => WillTellReleased'
    BY <1>1, TakeMoves
  <2>4. ~WillTellRestored'
    <3>1. pc[Owner] \notin GateLabels
      BY <1>1, TakeMoves, OwnerOutside
    <3>2. pc'[Owner] = pc[Owner] \/ pc'[Owner] \in Returns \cup {"r_publish", "r_undo"}
      BY <1>1, TakeMoves
    <3>. QED
      BY <3>1, <3>2
  <2>. QED
    BY <2>1, <2>2, <2>3, <2>4
<1>2. ASSUME NEW t \in Threads, ReleaseUndo(t) PROVE PictureInv'
  BY <1>2 DEF ReleaseUndo
<1>3. ASSUME NEW t \in Threads, ReleasePublish(t) PROVE PictureInv'
  <2>1. blocked' = blocked /\ UNCHANGED <<captured, events, told, job>>
    BY <1>3 DEF ReleasePublish
  <2>2. blocked
    BY <1>3, PublishMoves DEF UncapturedInv
  <2>3. captured => WillTellReleased'
    <3>1. captured => pc' = [pc EXCEPT ![t] = "r_report"]
      BY <1>3 DEF ReleasePublish
    <3>. QED
      BY <3>1
  <2>4. ~WillTellRestored'
    <3>1. pc[Owner] \notin GateLabels
      BY <1>3, PublishMoves, OwnerOutside
    <3>2. pc'[Owner] = pc[Owner] \/ pc'[Owner] \in Returns \cup {"r_report"}
      BY <1>3, PublishMoves
    <3>. QED
      BY <3>1, <3>2
  <2>. QED
    BY <2>1, <2>2, <2>3, <2>4
<1>4. CASE Capture
  <2>1. pc' = pc /\ pc[Owner] = "idle" /\ events' = {} /\ blocked' = ~last_foreground'
    BY <1>4 DEF Capture
  <2>2. told' = IF last_foreground' THEN {"restored"} ELSE {"released"}
    BY <1>4 DEF Capture
  <2>3. Known' = told'
    BY <2>1
  <2>4. Known' = {"released"} => blocked'
    BY ZenonT(40), <2>1, <2>2, <2>3
  <2>5. Known' = {"restored"} => ~blocked'
    BY ZenonT(40), <2>1, <2>2, <2>3
  <2>6. ~WillTellRestored'
    BY <2>1
  <2>. QED
    BY <2>4, <2>5, <2>6
<1>5. CASE Forget            BY <1>5 DEF Forget
<1>6. CASE Forgotten         BY <1>6 DEF Forgotten
<1>7. ASSUME NEW mode \in Modes, SetInputMode(mode) PROVE PictureInv'
  BY <1>7 DEF SetInputMode
<1>8. ASSUME NEW enabled \in BOOLEAN, SetProbeMode(enabled) PROVE PictureInv'
  BY <1>8 DEF SetProbeMode
<1>9. CASE OwnInput          BY <1>9 DEF OwnInput
<1>10. CASE SetInput          BY <1>10 DEF SetInput
<1>11. CASE OwnKeyboard       BY <1>11 DEF OwnKeyboard
<1>12. CASE WriteKeyboard     BY <1>12 DEF WriteKeyboard
<1>13. CASE OwnMouse          BY <1>13 DEF OwnMouse
<1>14. CASE WriteMouse        BY <1>14 DEF WriteMouse
<1>15. CASE Conclude
  <2>1. UNCHANGED <<captured, blocked, told, pipe>> /\ pc[Owner] = "conclude"
    BY <1>15 DEF Conclude
  <2>2. events' = events \/ events' = events \cup {"input_reset"}
    BY <1>15 DEF Conclude, Report
  <2>3. events' \cap Transitions = events \cap Transitions
    BY <2>2
  <2>4. Known' = Known
    BY ZenonT(40), <2>1, <2>3
  <2>5. \E l \in {"idle", "poll_end", "report"} : pc' = [pc EXCEPT ![Owner] = l]
    BY <1>15 DEF Conclude
  <2>6. Restoring /\ job.was => pc' = [pc EXCEPT ![Owner] = "report"] /\ job' = job
    BY <1>15 DEF Conclude
  <2>7. ~(Restoring /\ job.was) => pc'[Owner] \in {"idle", "poll_end"}
    BY <1>15 DEF Conclude
  <2>8. WillTellRestored' <=> WillTellRestored
    BY <2>1, <2>6, <2>7
  <2>9. (WillTellReleased' <=> WillTellReleased) /\ (WillBlock' <=> WillBlock)
    BY <2>1, <2>5
  <2> HIDE DEF TypeInv, Known, WillTellReleased, WillTellRestored, WillBlock, Transitions
  <2>. QED
    BY <2>1, <2>2, <2>4, <2>8, <2>9
<1>16. CASE ConcludeFailed    BY <1>16 DEF ConcludeFailed
<1>17. CASE Failed            BY <1>17 DEF Failed
<1>18. CASE DisableInput      BY <1>18 DEF DisableInput
<1>19. CASE DisableUndo       BY SMTT(30), <1>19 DEF DisableUndo
<1>20. CASE Restore           BY <1>20 DEF Restore
<1>21. CASE RestoreRefused    BY <1>21 DEF RestoreRefused
<1>22. CASE Refused           BY <1>22 DEF Refused
<1>23. CASE RestoreUnblock
  <2>1. ~blocked' /\ UNCHANGED <<captured, events, told, pipe>> /\ pc[Owner] = "restore_lock"
    BY <1>23 DEF RestoreUnblock
  <2>2. pc' = [pc EXCEPT ![Owner] = "restore_pending"]
    BY <1>23 DEF RestoreUnblock
  <2>3. job'.op = job.op /\ job'.was = blocked
    BY <1>23 DEF RestoreUnblock
  <2>4. Restoring
    BY <2>1 DEF AwayInv, Polling
  <2>5. blocked => WillTellRestored'
    BY <2>2, <2>3, <2>4
  <2>6. WillBlock => WillBlock'
    BY <2>1, <2>2
  <2>7. Known' = Known /\ ~WillTellRestored
    BY <2>1
  <2> HIDE DEF TypeInv, Known, WillTellReleased, WillTellRestored, WillBlock, Transitions
  <2>. QED
    BY <2>1, <2>5, <2>6, <2>7
<1>24. CASE RestorePending    BY <1>24 DEF RestorePending
<1>25. CASE Poll              BY <1>25 DEF Poll
<1>26. CASE PollLock          BY <1>26 DEF PollLock
<1>27. CASE PollRestore       BY <1>27 DEF PollRestore
<1>28. CASE PollEnd           BY <1>28 DEF PollEnd
<1>29. ASSUME NEW t \in Workers \cup {Owner}, IoRefused(t) PROVE PictureInv'
  BY <1>29 DEF IoRefused
<1>30. CASE Mouse             BY <1>30 DEF Mouse
<1>31. CASE EnterScreen       BY <1>31 DEF EnterScreen
<1>32. CASE Newterm           BY <1>32 DEF Newterm
<1>33. CASE StartWorkers      BY <1>33 DEF StartWorkers
<1>34. CASE Suspend           BY <1>34 DEF Suspend
<1>35. CASE SuspendRefused    BY <1>35 DEF SuspendRefused, Joined, BeginRefused
<1>36. CASE SuspendQuietly    BY <1>36 DEF SuspendQuietly, Joined
<1>37. CASE SuspendAdmitted   BY <1>37 DEF SuspendAdmitted, Joined
<1>38. CASE Endwin            BY <1>38 DEF Endwin
<1>39. CASE SuspendRelease    BY <1>39 DEF SuspendRelease
<1>40. ASSUME NEW w \in Workers, BeginFrame(w) PROVE PictureInv'
  BY <1>40 DEF BeginFrame, Working
<1>41. ASSUME NEW w \in Workers, FrameRefused(w) PROVE PictureInv'
  BY <1>41 DEF FrameRefused, Working, BeginRefused
<1>42. ASSUME NEW w \in Workers, BeginGlass(w) PROVE PictureInv'
  BY <1>42 DEF BeginGlass, Working
<1>43. ASSUME NEW w \in Workers, HostKey(w) PROVE PictureInv'
  BY <1>43 DEF HostKey, Working
<1>44. ASSUME NEW w \in Workers, KeyRelease(w) PROVE PictureInv'
  BY <1>44 DEF KeyRelease
<1>45. ASSUME NEW w \in Workers, EndIo(w) PROVE PictureInv'
  BY <1>45 DEF EndIo
<1>46. ASSUME NEW w \in Workers, PendingFullscreen(w) PROVE PictureInv'
  BY <1>46 DEF PendingFullscreen
<1>47. ASSUME NEW h \in Handlers, NEW signal \in Ordinary, HandleOrdinary(h, signal) PROVE PictureInv'
  <2>1. blocked' /\ UNCHANGED <<captured, events, told, job>> /\ pc[h] = "idle"
    BY <1>47 DEF HandleOrdinary, Arrives
  <2>2. \E l \in {"s_generation", "s_write"} : pc' = [pc EXCEPT ![h] = l]
    BY <1>47 DEF HandleOrdinary
  <2>3. ~blocked /\ captured => pc' = [pc EXCEPT ![h] = "s_generation"]
    BY <1>47 DEF HandleOrdinary
  <2>4. ~blocked /\ captured => WillTellReleased'
    BY <2>3
  <2>5. WillTellReleased => WillTellReleased'
    BY <2>1, <2>2
  <2>6. (WillTellRestored' <=> WillTellRestored) /\ (WillTellRestored => captured)
    BY <2>1, <2>2 DEF AwayInv, Forgetting
  <2>7. Known' = Known
    BY <2>1
  <2> HIDE DEF TypeInv, Known, WillTellReleased, WillTellRestored, WillBlock, Transitions
  <2>. QED
    BY <2>1, <2>4, <2>5, <2>6, <2>7
<1>48. ASSUME NEW h \in Handlers, HandlerQueue(h) PROVE PictureInv'
  <2>1. UNCHANGED <<captured, blocked, events, told, job>> /\ pc[h] = "s_write"
    BY <1>48 DEF HandlerQueue
  <2>2. pc' = [pc EXCEPT ![h] = "idle"]
    BY <1>48 DEF HandlerQueue
  <2>3. pipe' # <<>>
    BY <1>48 DEF HandlerQueue
  <2>4. (WillTellReleased' <=> WillTellReleased) /\ (WillTellRestored' <=> WillTellRestored)
    BY <2>1, <2>2
  <2>5. WillBlock'
    BY <2>3
  <2>6. Known' = Known
    BY <2>1
  <2> HIDE DEF TypeInv, Known, WillTellReleased, WillTellRestored, WillBlock, Transitions
  <2>. QED
    BY <2>1, <2>4, <2>5, <2>6
<1>49. ASSUME NEW h \in Handlers, HandlerPipeFull(h) PROVE PictureInv'
  BY <1>49 DEF HandlerPipeFull
<1>50. ASSUME NEW h \in Handlers, HandleFatal(h) PROVE PictureInv'
  BY <1>50 DEF HandleFatal, Arrives
<1>51. ASSUME NEW h \in Handlers, HandleCont(h) PROVE PictureInv'
  BY <1>51 DEF HandleCont
<1>52. ASSUME NEW h \in Handlers, HandlerCont(h) PROVE PictureInv'
  BY <1>52 DEF HandlerCont
<1>53. ASSUME NEW h \in Handlers, HandleWinch(h) PROVE PictureInv'
  <2>1. UNCHANGED <<captured, blocked, told, pc, pipe, job>> /\ events' = events \cup {"resized"}
    BY <1>53 DEF HandleWinch
  <2>2. events' \cap Transitions = events \cap Transitions
    BY <2>1
  <2>3. Known' = Known
    BY <2>1, <2>2
  <2>4. (WillTellReleased' <=> WillTellReleased) /\ (WillTellRestored' <=> WillTellRestored)
        /\ (WillBlock' <=> WillBlock)
    BY <2>1
  <2> HIDE DEF TypeInv, Known, WillTellReleased, WillTellRestored, WillBlock, Transitions
  <2>. QED
    BY <2>1, <2>3, <2>4
<1>54. ASSUME NEW h \in Handlers, RequestRestore(h) PROVE PictureInv'
  BY <1>54 DEF RequestRestore
<1>55. ASSUME NEW t \in Handlers \cup {Dispatcher}, Forward(t) PROVE PictureInv'
  BY <1>55 DEF Forward
<1>56. CASE Dispatch          BY <1>56 DEF Dispatch
<1>57. CASE DispatchRelease   BY <1>57 DEF DispatchRelease
<1>58. CASE DispatchUnlock    BY <1>58 DEF DispatchUnlock
<1>59. CASE MoveJob           BY <1>59 DEF MoveJob
<1>60. CASE Dead              BY <1>60 DEF Dead
<1>61. CASE UNCHANGED vars     BY <1>61
<1>62. ASSUME NEW t \in Threads, ReleaseReport(t) PROVE PictureInv'
  <2>1. blocked' = blocked /\ events' = events \cup {"released", "input_reset"}
    BY <1>62 DEF ReleaseReport, Report
  <2>2. blocked
    BY <1>62 DEF ReleaseReport, UncapturedInv
  <2>3. "released" \in events' /\ Known' # {"restored"}
    <3>1. "released" \in events' \cap Transitions
      BY <2>1
    <3>2. "released" \in Known'
      BY <3>1
    <3>. QED
      BY <3>1, <3>2
  <2>. QED
    BY <2>1, <2>2, <2>3
<1>63. CASE ReportRestored
  <2>1. UNCHANGED <<captured, blocked, told>> /\ pc[Owner] = "report"
    BY <1>63 DEF ReportRestored
  <2>2. events' = events \cup {"restored", "input_reset"}
    BY <1>63 DEF ReportRestored, Report
  <2>3. \E l \in {"idle", "poll_end"} : pc' = [pc EXCEPT ![Owner] = l]
    BY <1>63 DEF ReportRestored
  <2>4. ~WillTellRestored' /\ (WillTellReleased => WillTellReleased')
    BY <2>1, <2>3
  <2>5. Known' # {"released"} /\ ("released" \in events => Known' # {"restored"})
    <3>1. "restored" \in events' \cap Transitions
      BY <2>2
    <3>2. "restored" \in Known'
      BY <3>1
    <3>3. "released" \in events => "released" \in Known'
      BY <2>2, <3>1
    <3>. QED
      BY <3>2, <3>3
  <2>6. WillTellRestored
    BY <2>1 DEF AwayInv
  <2> HIDE DEF TypeInv, Known, WillTellReleased, WillTellRestored, WillBlock, Transitions
  <2>. QED
    BY <2>1, <2>4, <2>5, <2>6
<1>64. ASSUME NEW h \in Handlers, HandlerGeneration(h) PROVE PictureInv'
  BY <1>64 DEF HandlerGeneration
<1>65. ASSUME NEW h \in Handlers, HandlerReport(h) PROVE PictureInv'
  <2>1. events' = events \cup {"released", "input_reset"}
    BY <1>65 DEF HandlerReport, Report
  <2>2. pc' = [pc EXCEPT ![h] = "s_write"]
    BY <1>65 DEF HandlerReport
  <2>3. WillBlock'
    BY <2>2
  <2>4. "released" \in events' /\ Known' # {"restored"}
    <3>1. "released" \in events' \cap Transitions
      BY <2>1
    <3>2. "released" \in Known'
      BY <3>1
    <3>. QED
      BY <3>1, <3>2
  <2> HIDE DEF TypeInv, Known, WillTellReleased, WillTellRestored, WillBlock, Transitions
  <2>. QED
    BY <2>3, <2>4
<1> HIDE DEF TypeInv, At, Goto, CallRelease, Lock, Unlock, Idle, Begin, Finish,
        PictureInv
<1>. QED
  BY <1>1, <1>2, <1>3, <1>4, <1>5, <1>6, <1>7, <1>8, <1>9, <1>10, <1>11, <1>12, <1>13, <1>14,
     <1>15, <1>16, <1>17, <1>18, <1>19, <1>20, <1>21, <1>22, <1>23, <1>24, <1>25, <1>26,
     <1>27, <1>28, <1>29, <1>30, <1>31, <1>32, <1>33, <1>34, <1>35, <1>36, <1>37, <1>38,
     <1>39, <1>40, <1>41, <1>42, <1>43, <1>44, <1>45, <1>46, <1>47, <1>48, <1>49, <1>50,
     <1>51, <1>52, <1>53, <1>54, <1>55, <1>56, <1>57, <1>58, <1>59, <1>60, <1>61, <1>62, <1>63,
     <1>64, <1>65 DEF Next,
     OwnerStarts, OwnerContinues, WorkerStarts, WorkerContinues, HandlerStarts,
     HandlerContinues, DispatcherStep, Release

\* Every step keeps an epoch and its bits together.
LEMMA EpochStep ==
  ASSUME TypeInv, EpochIsReported, [Next]_vars
  PROVE  EpochIsReported'
<1> USE ThreadsAssumption
    DEF TypeInv, TypeOK, TerminalTypes, ThreadTypes, WorldTypes, PlaceInv,
        Threads, Owner, Dispatcher, Free, At, Goto, CallRelease, Lock, Unlock, Idle, Begin,
        Finish, vars, terminal, life, latches, duties, reports, locals, session, world,
        history, rest,
        EpochIsReported, Reporting
<1>1. ASSUME NEW t \in Threads, ReleaseTake(t) PROVE EpochIsReported'
  BY <1>1 DEF ReleaseTake, Return
<1>2. ASSUME NEW t \in Threads, ReleaseUndo(t) PROVE EpochIsReported'
  BY <1>2 DEF ReleaseUndo
<1>3. ASSUME NEW t \in Threads, ReleasePublish(t) PROVE EpochIsReported'
  BY <1>3 DEF ReleasePublish, Return, NextGeneration
<1>4. CASE Capture           BY <1>4 DEF Capture
<1>5. CASE Forget            BY <1>5 DEF Forget
<1>6. CASE Forgotten         BY <1>6 DEF Forgotten
<1>7. ASSUME NEW mode \in Modes, SetInputMode(mode) PROVE EpochIsReported'
  BY <1>7 DEF SetInputMode
<1>8. ASSUME NEW enabled \in BOOLEAN, SetProbeMode(enabled) PROVE EpochIsReported'
  BY <1>8 DEF SetProbeMode
<1>9. CASE OwnInput          BY <1>9 DEF OwnInput
<1>10. CASE SetInput          BY <1>10 DEF SetInput
<1>11. CASE OwnKeyboard       BY <1>11 DEF OwnKeyboard
<1>12. CASE WriteKeyboard     BY <1>12 DEF WriteKeyboard
<1>13. CASE OwnMouse          BY <1>13 DEF OwnMouse
<1>14. CASE WriteMouse        BY <1>14 DEF WriteMouse
<1>15. CASE Conclude          BY <1>15 DEF Conclude, NextGeneration, Report
<1>16. CASE ConcludeFailed    BY <1>16 DEF ConcludeFailed
<1>17. CASE Failed            BY <1>17 DEF Failed
<1>18. CASE DisableInput      BY <1>18 DEF DisableInput
<1>19. CASE DisableUndo       BY <1>19 DEF DisableUndo
<1>20. CASE Restore           BY <1>20 DEF Restore
<1>21. CASE RestoreRefused    BY <1>21 DEF RestoreRefused
<1>22. CASE Refused           BY <1>22 DEF Refused
<1>23. CASE RestoreUnblock    BY <1>23 DEF RestoreUnblock
<1>24. CASE RestorePending    BY <1>24 DEF RestorePending
<1>25. CASE Poll              BY <1>25 DEF Poll
<1>26. CASE PollLock          BY <1>26 DEF PollLock
<1>27. CASE PollRestore       BY <1>27 DEF PollRestore
<1>28. CASE PollEnd           BY <1>28 DEF PollEnd
<1>29. ASSUME NEW t \in Workers \cup {Owner}, IoRefused(t) PROVE EpochIsReported'
  BY <1>29 DEF IoRefused
<1>30. CASE Mouse             BY <1>30 DEF Mouse
<1>31. CASE EnterScreen       BY <1>31 DEF EnterScreen
<1>32. CASE Newterm           BY <1>32 DEF Newterm
<1>33. CASE StartWorkers      BY <1>33 DEF StartWorkers
<1>34. CASE Suspend           BY <1>34 DEF Suspend
<1>35. CASE SuspendRefused    BY <1>35 DEF SuspendRefused, Joined, BeginRefused
<1>36. CASE SuspendQuietly    BY <1>36 DEF SuspendQuietly, Joined
<1>37. CASE SuspendAdmitted   BY <1>37 DEF SuspendAdmitted, Joined
<1>38. CASE Endwin            BY <1>38 DEF Endwin
<1>39. CASE SuspendRelease    BY <1>39 DEF SuspendRelease
<1>40. ASSUME NEW w \in Workers, BeginFrame(w) PROVE EpochIsReported'
  BY <1>40 DEF BeginFrame, Working
<1>41. ASSUME NEW w \in Workers, FrameRefused(w) PROVE EpochIsReported'
  BY <1>41 DEF FrameRefused, Working, BeginRefused
<1>42. ASSUME NEW w \in Workers, BeginGlass(w) PROVE EpochIsReported'
  BY <1>42 DEF BeginGlass, Working
<1>43. ASSUME NEW w \in Workers, HostKey(w) PROVE EpochIsReported'
  BY <1>43 DEF HostKey, Working
<1>44. ASSUME NEW w \in Workers, KeyRelease(w) PROVE EpochIsReported'
  BY <1>44 DEF KeyRelease
<1>45. ASSUME NEW w \in Workers, EndIo(w) PROVE EpochIsReported'
  BY <1>45 DEF EndIo
<1>46. ASSUME NEW w \in Workers, PendingFullscreen(w) PROVE EpochIsReported'
  BY <1>46 DEF PendingFullscreen
<1>47. ASSUME NEW h \in Handlers, NEW signal \in Ordinary, HandleOrdinary(h, signal) PROVE EpochIsReported'
  BY <1>47 DEF HandleOrdinary, Arrives
<1>48. ASSUME NEW h \in Handlers, HandlerQueue(h) PROVE EpochIsReported'
  BY <1>48 DEF HandlerQueue
<1>49. ASSUME NEW h \in Handlers, HandlerPipeFull(h) PROVE EpochIsReported'
  BY <1>49 DEF HandlerPipeFull
<1>50. ASSUME NEW h \in Handlers, HandleFatal(h) PROVE EpochIsReported'
  BY <1>50 DEF HandleFatal, Arrives
<1>51. ASSUME NEW h \in Handlers, HandleCont(h) PROVE EpochIsReported'
  BY <1>51 DEF HandleCont
<1>52. ASSUME NEW h \in Handlers, HandlerCont(h) PROVE EpochIsReported'
  BY <1>52 DEF HandlerCont
<1>53. ASSUME NEW h \in Handlers, HandleWinch(h) PROVE EpochIsReported'
  BY <1>53 DEF HandleWinch
<1>54. ASSUME NEW h \in Handlers, RequestRestore(h) PROVE EpochIsReported'
  BY <1>54 DEF RequestRestore
<1>55. ASSUME NEW t \in Handlers \cup {Dispatcher}, Forward(t) PROVE EpochIsReported'
  BY <1>55 DEF Forward
<1>56. CASE Dispatch          BY <1>56 DEF Dispatch
<1>57. CASE DispatchRelease   BY <1>57 DEF DispatchRelease
<1>58. CASE DispatchUnlock    BY <1>58 DEF DispatchUnlock
<1>59. CASE MoveJob           BY <1>59 DEF MoveJob
<1>60. CASE Dead              BY <1>60 DEF Dead
<1>61. CASE UNCHANGED vars     BY <1>61
<1>62. ASSUME NEW t \in Threads, ReleaseReport(t) PROVE EpochIsReported'
  BY <1>62 DEF ReleaseReport, Return, Report
<1>63. CASE ReportRestored    BY <1>63 DEF ReportRestored, Report
<1>64. ASSUME NEW h \in Handlers, HandlerGeneration(h) PROVE EpochIsReported'
  BY <1>64 DEF HandlerGeneration, NextGeneration
<1>65. ASSUME NEW h \in Handlers, HandlerReport(h) PROVE EpochIsReported'
  BY <1>65 DEF HandlerReport, Report
<1> HIDE DEF TypeInv, At, Goto, CallRelease, Lock, Unlock, Idle, Begin, Finish
<1>. QED
  BY <1>1, <1>2, <1>3, <1>4, <1>5, <1>6, <1>7, <1>8, <1>9, <1>10, <1>11, <1>12, <1>13, <1>14,
     <1>15, <1>16, <1>17, <1>18, <1>19, <1>20, <1>21, <1>22, <1>23, <1>24, <1>25, <1>26,
     <1>27, <1>28, <1>29, <1>30, <1>31, <1>32, <1>33, <1>34, <1>35, <1>36, <1>37, <1>38,
     <1>39, <1>40, <1>41, <1>42, <1>43, <1>44, <1>45, <1>46, <1>47, <1>48, <1>49, <1>50,
     <1>51, <1>52, <1>53, <1>54, <1>55, <1>56, <1>57, <1>58, <1>59, <1>60, <1>61, <1>62, <1>63,
     <1>64, <1>65 DEF Next,
     OwnerStarts, OwnerContinues, WorkerStarts, WorkerContinues, HandlerStarts,
     HandlerContinues, DispatcherStep, Release

(***************************************************************************)
(* What the invariants say once nothing is under way.                      *)
(***************************************************************************)
LEMMA PictureSettles ==
  ASSUME GateDiscipline, PictureInv
  PROVE  PictureIsTrue
<1> SUFFICES ASSUME captured, events \cap Transitions = {}, ~UnderWay
             PROVE  (told = {"released"} => blocked) /\ (told = {"restored"} => ~blocked)
  BY DEF PictureIsTrue
<1>1. Known = told
  BY DEF Known
<1>2. ~WillTellRestored
  BY ThreadsAssumption DEF UnderWay, GateDiscipline, InGate, WillTellRestored, Threads,
     Owner, Free
<1>3. ~WillTellReleased
  BY DEF UnderWay, TeardownOnItsWay, Queueing, WillTellReleased
<1>4. ~WillBlock
  BY DEF UnderWay, WillBlock
<1>. QED
  BY <1>1, <1>2, <1>3, <1>4 DEF PictureInv

(***************************************************************************)
(* While every release runs under the gate, the owner loses no epoch, and  *)
(* once all is settled the last transition that poll told is the state of  *)
(* the terminal: handlers, the dispatcher and restores set their bits in   *)
(* whatever order, capture and forget in between.                          *)
(***************************************************************************)
THEOREM ToldTheorem == NoEmergency => (Spec => []OwnerIsTold)
<1> SUFFICES ASSUME NoEmergency PROVE Spec => []OwnerIsTold
  OBVIOUS
<1> USE ThreadsAssumption DEF Threads, Owner, Dispatcher, Free
<1>1. Init => SessionInv
  BY DEF Init, SessionInv, AfterJoin, Forgetting
<1>2. Init => AwayInv /\ UncapturedInv
  BY DEF Init, AwayInv, UncapturedInv, Polling, Forgetting, TeardownOnItsWay, Queueing
<1>3. Init => PictureInv /\ EpochIsReported
  BY DEF Init, PictureInv, WillTellRestored, EpochIsReported
<1>4. TypeInv /\ SessionInv /\ [Next]_vars => SessionInv'
  BY SessionStep
<1>5. TypeInv /\ SessionInv /\ AwayInv /\ [Next]_vars => AwayInv'
  BY AwayStep
<1>6. TypeInv /\ GateDiscipline /\ ReleasesGated /\ SessionInv /\ AwayInv /\ UncapturedInv
        /\ [Next]_vars => UncapturedInv'
  BY UncapturedStep
<1>7. TypeInv /\ GateDiscipline /\ ReleasesGated /\ AwayInv /\ UncapturedInv /\ PictureInv
        /\ [Next]_vars => PictureInv'
  BY PictureStep
<1>8. TypeInv /\ EpochIsReported /\ [Next]_vars => EpochIsReported'
  BY EpochStep
<1>9. GateDiscipline /\ PictureInv /\ EpochIsReported => OwnerIsTold
  BY PictureSettles DEF OwnerIsTold
<1>. QED
  BY <1>1, <1>2, <1>3, <1>4, <1>5, <1>6, <1>7, <1>8, <1>9, TypeCorrect, GateHeld,
     GatedReleases, PTL DEF Spec

=============================================================================
